------------------------------- MODULE MCGem -------------------------------
EXTENDS GemExchange
=============================================================================

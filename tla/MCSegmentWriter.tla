-------------------------- MODULE MCSegmentWriter --------------------------
EXTENDS SegmentRecords
CONSTANTS c1, c2, v1, v2
MCCasts == {{c1}, {c1, v1}, {v1, v2}}
MCDrifting == {{c1}}
=============================================================================

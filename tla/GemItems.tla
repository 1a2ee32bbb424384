------------------------------ MODULE GemItems ------------------------------
(***************************************************************************)
(* The coded E5 data items (gem/items.go): for each, the Go type of its    *)
(* values and the values its constants name. A string item lists how many  *)
(* words it defines.                                                       *)
(***************************************************************************)
EXTENDS Gem

ACCESSMODE == Uint8Codes({0, 1})
ACKC10 == ByteCodes(0 .. 2)
ACKC13 == ByteCodes(0 .. 10)
ACKC15 == ByteCodes(0 .. 4)
ACKC3 == ByteCodes({0})
ACKC5 == ByteCodes({0})
ACKC6 == ByteCodes({0})
ACKC7 == ByteCodes(0 .. 6)
ALCD == ByteCodes((1 .. 8) \cup {128})
ATTRRELN == Uint8Codes(0 .. 7)
CAACK == Uint8Codes(0 .. 6)
CARRIERACTION == StringCodes(13)
COMMACK == ByteCodes({0, 1})
COMPARISONOPERATOR == Uint8Codes(0 .. 7)
CPACK == ByteCodes(1 .. 3)
CSAACK == ByteCodes(0 .. 3)
CTLJOBCMD == Uint8Codes(1 .. 8)
DATAACK == ByteCodes(0 .. 2)
DELRSPSTAT == Uint8Codes((0 .. 2) \cup {255})
DIRRSPSTAT == Uint8Codes((0 .. 3) \cup {255})
DRACK == ByteCodes(0 .. 4)
EAC == ByteCodes(0 .. 3)
ERACK == ByteCodes({0, 1})
GETRSPSTAT == Uint8Codes((0 .. 3) \cup {255})
GRANT == ByteCodes(0 .. 3)
GRANT6 == ByteCodes(0 .. 2)
GRNT1 == ByteCodes(0 .. 6)
HCACK == ByteCodes(0 .. 6)
HOCANCELACK == Uint8Codes(0 .. 2)
HOHALTACK == Uint8Codes({0, 1})
IDTYP == ByteCodes(0 .. 2)
LIMITACK == ByteCodes(1 .. 7)
LRACK == ByteCodes(0 .. 5)
LVACK == ByteCodes(1 .. 4)
MAPER == ByteCodes(0 .. 2)
MAPFT == ByteCodes(0 .. 2)
MDACK == ByteCodes(0 .. 3)
MIDAC == ByteCodes(0 .. 2)
MIDRA == ByteCodes(0 .. 2)
MMODE == ByteCodes(1 .. 3)
OBJACK == Uint8Codes({0, 1})
OBJCMD == Uint8Codes(1 .. 4)
OFLACK == ByteCodes({0})
ONLACK == ByteCodes(0 .. 2)
ORLOC == ByteCodes(0 .. 4)
PDEATTRIBUTE == Uint8Codes(1 .. 13)
PDEATTRIBUTENAME == Uint8Codes((0 .. 6) \cup (8 .. 12))
PFCD == ByteCodes({})
PORTACTION == StringCodes(2)
PPGNT == ByteCodes(0 .. 5)
PRAXI == ByteCodes(0 .. 7)
PRCMDNAME == StringCodes(7)
PRMTRLORDER == Uint8Codes(1 .. 3)
PRRECIPEMETHOD == Uint8Codes({1, 2})
PRSTATE == Uint8Codes((0 .. 4) \cup (6 .. 9))
RCPCMD == Uint8Codes((8 .. 16) \cup {5})
RCPDEL == Uint8Codes({0, 1})
RCPDESCNM == StringCodes(3)
RCPSECCODE == ByteCodes({1, 3, 4, 7, 8, 11})
RCPSECNM == StringCodes(3)
RCPSTAT == Uint8Codes({0, 8, 9})
RESPDESTAT == Uint8Codes((0 .. 6) \cup {255})
RETPLACEINSTR == Uint8Codes(0 .. 2)
RETREMOVEINSTR == Uint8Codes({0, 1})
RMACK == Uint8Codes(0 .. 4)
RMGRNT == ByteCodes(0 .. 3)
RMNSCMD == Uint8Codes({1, 5})
RPMACK == Uint8Codes(0 .. 6)
RRACK == ByteCodes(0 .. 4)
RSACK == ByteCodes(0 .. 4)
RSDA == ByteCodes(0 .. 2)
RSDC == Uint8Codes({0, 1})
RSPACK == ByteCodes({0, 1})
RTSRSPSTAT == Uint8Codes((0 .. 3) \cup {255})
SDACK == ByteCodes({0})
SDBIN == ByteCodes({0, 1})
SENDRESULT == Uint8Codes(0 .. 5)
SENDRSPSTAT == Uint8Codes((0 .. 5) \cup {255})
SPAACK == ByteCodes({0, 1})
STRACK == ByteCodes(1 .. 4)
SVCACK == ByteCodes(0 .. 6)
SVCNAME == StringCodes(1)
TBLACK == Uint8Codes({0, 1})
TBLCMD == Uint8Codes(0 .. 4)
TBLTYP == StringCodes(2)
TIAACK == ByteCodes(0 .. 5)
TIACK == ByteCodes({0, 1})
TID == ByteCodes({0})
TRCMDNAME == StringCodes(6)
TRDIR == Uint8Codes({1, 2})
TRJOBMS == Uint8Codes({1, 2})
TRROLE == Uint8Codes({1, 2})
TRTYPE == Uint8Codes({1, 2})
TSIP == ByteCodes(1 .. 4)
TSOP == ByteCodes(1 .. 5)
VERIFYDEPTH == Uint8Codes({0, 1})
VERIFYRSPSTAT == Uint8Codes((0 .. 12) \cup {255})
VERIFYTYPE == Uint8Codes({0, 1})
VLAACK == ByteCodes(0 .. 2)
=============================================================================

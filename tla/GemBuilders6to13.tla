-------------------------- MODULE GemBuilders6to13 --------------------------
(***************************************************************************)
(* The message builders of package gem (gem/s6.go to gem/s13.go): stream,  *)
(* function, wait bit and body.  The builders with a word after the function*)
(* build the short or the host form of the message.                        *)
(***************************************************************************)
EXTENDS GemGroups

BuildersS6F1to12 == [
    S6F1 |-> Message(6, 1, TRUE, L(<<Present("TRID"), Present("SMPLN"), A("STIME"),
        EachItem("SAMPLES", Present(SELF))>>)),
    S6F2 |-> Message(6, 2, FALSE, B("ACKC6")),
    S6F3 |-> Message(6, 3, TRUE, L(<<Present("DATAID"), Present("CEID"),
        EachItem("REPORTS", DataSet.Item)>>)),
    S6F4 |-> Message(6, 4, FALSE, B("ACKC6")),
    S6F5 |-> Message(6, 5, TRUE, L(<<Present("DATAID"), Present("DATALENGTH")>>)),
    S6F6 |-> Message(6, 6, FALSE, B("GRANT6")),
    S6F7 |-> Message(6, 7, TRUE, Present("DATAID")),
    S6F8 |-> Message(6, 8, FALSE, L(<<Present("DATAID"), Present("CEID"),
        EachItem("REPORTS", DataSet.Item)>>)),
    S6F9 |-> Message(6, 9, TRUE, L(<<B("PFCD"), Present("DATAID"), Present("CEID"),
        EachItem("REPORTS", DataSetValues.Item)>>)),
    S6F10 |-> Message(6, 10, FALSE, B("ACKC6")),
    S6F11 |-> Message(6, 11, TRUE, L(<<Present("DATAID"), Present("CEID"),
        EachItem("REPORTS", Report.Item)>>)),
    S6F12 |-> Message(6, 12, FALSE, B("ACKC6"))]

BuildersS6F13to24 == [
    S6F13 |-> Message(6, 13, TRUE, L(<<Present("DATAID"), Present("CEID"),
        EachItem("REPORTS", AnnotatedReport.Item)>>)),
    S6F14 |-> Message(6, 14, FALSE, B("ACKC6")),
    S6F15 |-> Message(6, 15, TRUE, Present("CEID")),
    S6F16 |-> Message(6, 16, FALSE, L(<<Present("DATAID"), Present("CEID"),
        EachItem("REPORTS", Report.Item)>>)),
    S6F17 |-> Message(6, 17, TRUE, Present("CEID")),
    S6F18 |-> Message(6, 18, FALSE, L(<<Present("DATAID"), Present("CEID"),
        EachItem("REPORTS", AnnotatedReport.Item)>>)),
    S6F19 |-> Message(6, 19, TRUE, Present("RPTID")),
    S6F20 |-> Message(6, 20, FALSE, EachItem("VALUES", Present(SELF))),
    S6F21 |-> Message(6, 21, TRUE, Present("RPTID")),
    S6F22 |-> Message(6, 22, FALSE, EachItem("VALUES", VariableValue.Item)),
    S6F23 |-> Message(6, 23, TRUE, U1("RSDC")),
    S6F24 |-> Message(6, 24, FALSE, B("RSDA"))]

BuildersS6F25to30 == [
    S6F25 |-> Message(6, 25, TRUE, L(<<Present("DATAID"), Present("OPID"),
        OptionalItem("LINKID", U4(SELF)), A("RCPSPEC"), Present("RMCHGSTAT"),
        EachItem("ATTRIBUTES", RecipeAttribute.Item), L(<<U1("RMACK"),
        EachItem("ERRORS", ErrorInfo.Item)>>)>>)),
    S6F26 |-> Message(6, 26, FALSE, B("ACKC6")),
    S6F27 |-> Message(6, 27, TRUE, L(<<Present("DATAID"), Present("TRID"),
        EachItem("SAMPLES", EachItem(SELF, Report.Item))>>)),
    S6F28 |-> Message(6, 28, FALSE, Present("TRID")),
    S6F29 |-> Message(6, 29, TRUE, Present("TRID")),
    S6F30 |-> Message(6, 30, FALSE, L(<<Present("TRID"), EachItem("REPORTS",
        Report.Item), Present("ERRCODE")>>))]

BuildersS7F1to10 == [
    S7F1 |-> Message(7, 1, TRUE, L(<<Present("PPID"), Present("LENGTH")>>)),
    S7F2 |-> Message(7, 2, FALSE, B("PPGNT")),
    S7F3 |-> Message(7, 3, TRUE, L(<<Present("PPID"), Present("PPBODY")>>)),
    S7F4 |-> Message(7, 4, FALSE, B("ACKC7")),
    S7F5 |-> Message(7, 5, TRUE, Present("PPID")),
    S7F6 |-> Message(7, 6, FALSE, L(<<Present("PPID"), Present("PPBODY")>>)),
    S7F6Denied |-> Message(7, 6, FALSE, L(<<>>)),
    S7F7 |-> Message(7, 7, TRUE, Present("MID")),
    S7F8 |-> Message(7, 8, FALSE, L(<<Present("PPID"), Present("MID")>>)),
    S7F8NoSuchMID |-> Message(7, 8, FALSE, L(<<>>)),
    S7F9 |-> Message(7, 9, TRUE, NewEmptyItem),
    S7F10 |-> Message(7, 10, FALSE, EachItem("PROGRAMS", ProgramMaterials.Item))]

BuildersS7F11to22 == [
    S7F11 |-> Message(7, 11, TRUE, EachItem("PROGRAMS", ProgramMaterials.Item)),
    S7F12 |-> Message(7, 12, FALSE, B("ACKC7")),
    S7F13 |-> Message(7, 13, TRUE, EachItem("PROGRAMS", ProgramMaterials.Item)),
    S7F14 |-> Message(7, 14, FALSE, B("ACKC7")),
    S7F15 |-> Message(7, 15, TRUE, B("MMODE")),
    S7F16 |-> Message(7, 16, FALSE, B("ACKC7")),
    S7F17 |-> Message(7, 17, TRUE, EachItem("PPIDS", Present(SELF))),
    S7F18 |-> Message(7, 18, FALSE, B("ACKC7")),
    S7F19 |-> Message(7, 19, TRUE, NewEmptyItem),
    S7F20 |-> Message(7, 20, FALSE, EachItem("PPIDS", Present(SELF))),
    S7F21 |-> Message(7, 21, TRUE, NewEmptyItem),
    S7F22 |-> Message(7, 22, FALSE, L(<<A("MDLN"), A("SOFTREV"), Present("CMDMAX"),
        Present("BYTMAX"), EachItem("COMMANDS", ProcessCommandDefinition.Item)>>))]

BuildersS7F23to33 == [
    S7F23 |-> Message(7, 23, TRUE, L(<<Present("PPID"), A("MDLN"), A("SOFTREV"),
        EachItem("COMMANDS", ProcessCommand.Item)>>)),
    S7F24 |-> Message(7, 24, FALSE, B("ACKC7")),
    S7F25 |-> Message(7, 25, TRUE, Present("PPID")),
    S7F26 |-> Message(7, 26, FALSE, L(<<Present("PPID"), A("MDLN"), A("SOFTREV"),
        EachItem("COMMANDS", ProcessCommand.Item)>>)),
    S7F27 |-> Message(7, 27, TRUE, L(<<Present("PPID"), EachItem("ERRORS",
        ProgramError.Item)>>)),
    S7F28 |-> Message(7, 28, FALSE, NewEmptyItem),
    S7F29 |-> Message(7, 29, TRUE, Present("LENGTH")),
    S7F30 |-> Message(7, 30, FALSE, B("PPGNT")),
    S7F31 |-> Message(7, 31, TRUE, L(<<Present("PPID"), A("MDLN"), A("SOFTREV"),
        EachItem("COMMANDS", ProcessCommand.Item)>>)),
    S7F32 |-> Message(7, 32, FALSE, B("ACKC7")),
    S7F33 |-> Message(7, 33, TRUE, Present("PPID"))]

BuildersS7F34to43 == [
    S7F34 |-> Message(7, 34, FALSE, L(<<Present("PPID"), Present("UNFLEN"),
        Present("FRMLEN")>>)),
    S7F35 |-> Message(7, 35, TRUE, Present("MID")),
    S7F36 |-> Message(7, 36, FALSE, L(<<Present("MID"), Present("PPID"),
        Present("PPBODY")>>)),
    S7F36NoSuchMID |-> Message(7, 36, FALSE, L(<<>>)),
    S7F37 |-> Message(7, 37, TRUE, A("DSNAME")),
    S7F38 |-> Message(7, 38, FALSE, B("ACKC7")),
    S7F39 |-> Message(7, 39, TRUE, A("DSNAME")),
    S7F40 |-> Message(7, 40, FALSE, B("ACKC7")),
    S7F41 |-> Message(7, 41, TRUE, A("DSNAME")),
    S7F42 |-> Message(7, 42, FALSE, B("ACKC7")),
    S7F43 |-> Message(7, 43, TRUE, A("DSNAME"))]

BuildersS7F44 == [
    S7F44 |-> Message(7, 44, FALSE, B("ACKC7"))]

BuildersS8F1to4 == [
    S8F1 |-> Message(8, 1, TRUE, NewEmptyItem),
    S8F2 |-> Message(8, 2, FALSE, B("BPD")),
    S8F3 |-> Message(8, 3, TRUE, NewEmptyItem),
    S8F4 |-> Message(8, 4, FALSE, B("EPD"))]

BuildersS9F1to13 == [
    S9F1 |-> Message(9, 1, FALSE, B("MHEAD")),
    S9F3 |-> Message(9, 3, FALSE, B("MHEAD")),
    S9F5 |-> Message(9, 5, FALSE, B("MHEAD")),
    S9F7 |-> Message(9, 7, FALSE, B("MHEAD")),
    S9F9 |-> Message(9, 9, FALSE, B("SHEAD")),
    S9F11 |-> Message(9, 11, FALSE, B("MHEAD")),
    S9F13 |-> Message(9, 13, FALSE, L(<<A("MEXP"), Present("EDID")>>))]

BuildersS10F1to10 == [
    S10F1 |-> Message(10, 1, TRUE, L(<<B("TID"), Present("TEXT")>>)),
    S10F2 |-> Message(10, 2, FALSE, B("ACKC10")),
    S10F3 |-> Message(10, 3, TRUE, L(<<B("TID"), Present("TEXT")>>)),
    S10F4 |-> Message(10, 4, FALSE, B("ACKC10")),
    S10F5 |-> Message(10, 5, TRUE, L(<<B("TID"), EachItem("TEXTS", Present(SELF))>>)),
    S10F6 |-> Message(10, 6, FALSE, B("ACKC10")),
    S10F7 |-> Message(10, 7, FALSE, B("TID")),
    S10F9 |-> Message(10, 9, TRUE, Present("TEXT")),
    S10F10 |-> Message(10, 10, FALSE, B("ACKC10"))]

BuildersS12F1to12 == [
    S12F1 |-> Message(12, 1, TRUE, L(<<Present("MID"), B("IDTYP"),
        OptionalItem("FNLOC", U2(SELF)), OptionalItem("FFROT", U2(SELF)),
        OptionalItem("ORLOC", B(SELF)), U1("RPSEL"), EachItem("REFPS", Present(SELF)),
        A("DUTMS"), Present("XDIES"), Present("YDIES"), Present("ROWCT"),
        Present("COLCT"), Present("NULBC"), Present("PRDCT"), B("PRAXI")>>)),
    S12F2 |-> Message(12, 2, FALSE, B("SDACK")),
    S12F3 |-> Message(12, 3, TRUE, L(<<Present("MID"), B("IDTYP"), B("MAPFT"),
        OptionalItem("FNLOC", U2(SELF)), OptionalItem("FFROT", U2(SELF)),
        OptionalItem("ORLOC", B(SELF)), B("PRAXI"), Present("BCEQU"),
        Present("NULBC")>>)),
    S12F4 |-> Message(12, 4, FALSE, L(<<Present("MID"), B("IDTYP"),
        OptionalItem("FNLOC", U2(SELF)), OptionalItem("ORLOC", B(SELF)), U1("RPSEL"),
        EachItem("REFPS", Present(SELF)), A("DUTMS"), Present("XDIES"),
        Present("YDIES"), Present("ROWCT"), Present("COLCT"), Present("PRDCT"),
        Present("BCEQU"), Present("NULBC"), Present("MLCL")>>)),
    S12F5 |-> Message(12, 5, TRUE, L(<<Present("MID"), B("IDTYP"), B("MAPFT"),
        Present("MLCL")>>)),
    S12F6 |-> Message(12, 6, FALSE, B("GRNT1")),
    S12F7 |-> Message(12, 7, TRUE, L(<<Present("MID"), B("IDTYP"), EachItem("ROWS",
        MapRow.Item)>>)),
    S12F8 |-> Message(12, 8, FALSE, B("MDACK")),
    S12F9 |-> Message(12, 9, TRUE, L(<<Present("MID"), B("IDTYP"), Present("STRP"),
        Present("BINLT")>>)),
    S12F10 |-> Message(12, 10, FALSE, B("MDACK")),
    S12F11 |-> Message(12, 11, TRUE, L(<<Present("MID"), B("IDTYP"),
        EachItem("POSITIONS", MapPosition.Item)>>)),
    S12F12 |-> Message(12, 12, FALSE, B("MDACK"))]

BuildersS12F13to19 == [
    S12F13 |-> Message(12, 13, TRUE, L(<<Present("MID"), B("IDTYP")>>)),
    S12F14 |-> Message(12, 14, FALSE, L(<<Present("MID"), B("IDTYP"), EachItem("ROWS",
        MapRow.Item)>>)),
    S12F15 |-> Message(12, 15, TRUE, L(<<Present("MID"), B("IDTYP")>>)),
    S12F16 |-> Message(12, 16, FALSE, L(<<Present("MID"), B("IDTYP"), Present("STRP"),
        Present("BINLT")>>)),
    S12F17 |-> Message(12, 17, TRUE, L(<<Present("MID"), B("IDTYP"), B("SDBIN")>>)),
    S12F18 |-> Message(12, 18, FALSE, L(<<Present("MID"), B("IDTYP"),
        EachItem("POSITIONS", MapPosition.Item)>>)),
    S12F19 |-> Message(12, 19, FALSE, L(<<B("MAPER"), U1("DATLC")>>))]

BuildersS13F1to12 == [
    S13F1 |-> Message(13, 1, TRUE, L(<<A("DSNAME")>>)),
    S13F2 |-> Message(13, 2, FALSE, L(<<A("DSNAME"), B("ACKC13")>>)),
    S13F3 |-> Message(13, 3, TRUE, L(<<Present("HANDLE"), A("DSNAME"), U4("CKPNT")>>)),
    S13F4 |-> Message(13, 4, FALSE, L(<<Present("HANDLE"), A("DSNAME"), B("ACKC13"),
        Present("RTYPE"), Present("RECLEN")>>)),
    S13F5 |-> Message(13, 5, TRUE, L(<<Present("HANDLE"), Present("READLN")>>)),
    S13F6 |-> Message(13, 6, FALSE, L(<<Present("HANDLE"), B("ACKC13"), U4("CKPNT"),
        EachItem("FILDATS", Present(SELF))>>)),
    S13F7 |-> Message(13, 7, TRUE, L(<<Present("HANDLE")>>)),
    S13F8 |-> Message(13, 8, FALSE, L(<<Present("HANDLE"), B("ACKC13")>>)),
    S13F9 |-> Message(13, 9, TRUE, NewEmptyItem),
    S13F10 |-> Message(13, 10, FALSE, NewEmptyItem),
    S13F11 |-> Message(13, 11, TRUE, L(<<Present("DATAID"), A("OBJSPEC"),
        Present("DATALENGTH")>>)),
    S13F12 |-> Message(13, 12, FALSE, B("GRANT"))]

BuildersS13F13to16 == [
    S13F13 |-> Message(13, 13, TRUE, L(<<Present("DATAID"), A("OBJSPEC"), A("TBLTYP"),
        A("TBLID"), U1("TBLCMD"), EachItem("ATTRS", Attribute.Item),
        EachItem("COLHDRS", A(SELF)), EachItem("ROWS", EachItem(SELF,
        Present(SELF)))>>)),
    S13F14 |-> Message(13, 14, FALSE, L(<<U1("TBLACK"), EachItem("ERRORS",
        ErrorInfo.Item)>>)),
    S13F15 |-> Message(13, 15, TRUE, L(<<Present("DATAID"), A("OBJSPEC"), A("TBLTYP"),
        A("TBLID"), U1("TBLCMD"), EachItem("COLHDRS", A(SELF)), EachItem("TBLELTS",
        Present(SELF))>>)),
    S13F16 |-> Message(13, 16, FALSE, L(<<A("TBLTYP"), A("TBLID"), EachItem("ATTRS",
        Attribute.Item), EachItem("COLHDRS", A(SELF)), EachItem("ROWS", EachItem(SELF,
        Present(SELF))), L(<<U1("TBLACK"), EachItem("ERRORS", ErrorInfo.Item)>>)>>))]
=============================================================================

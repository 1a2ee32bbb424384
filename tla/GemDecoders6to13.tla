-------------------------- MODULE GemDecoders6to13 --------------------------
(***************************************************************************)
(* The message decoders of package gem (gem/s6_decode.go to                *)
(* gem/s13_decode.go): the reads each makes of a body.                     *)
(***************************************************************************)
EXTENDS GemGroups

DecodersS6F1to3 == [
    DecodeS6F1 |-> Fixed(<<ScalarItem("TRID"), ScalarItem("SMPLN"), ASCII("STIME"),
        Items("SAMPLES")>>),
    DecodeS6F2 |-> ByteAs("ACKC6", ACKC6),
    DecodeS6F3 |-> Fixed(<<ScalarItem("DATAID"), ScalarItem("CEID"), Each("REPORTS",
        DataSet.decode)>>)]

DecodersS6F4to7 == [
    DecodeS6F4 |-> ByteAs("ACKC6", ACKC6),
    DecodeS6F5 |-> Fixed(<<ScalarItem("DATAID"), ScalarItem("DATALENGTH")>>),
    DecodeS6F6 |-> ByteAs("GRANT6", GRANT6),
    DecodeS6F7 |-> ScalarItem("DATAID")]

DecodersS6F8to10 == [
    DecodeS6F8 |-> ShortOrFull(0, <<ScalarItem("DATAID"), ScalarItem("CEID"),
        Each("REPORTS", DataSet.decode)>>),
    DecodeS6F9 |-> Fixed(<<ByteAs("PFCD", PFCD), ScalarItem("DATAID"),
        ScalarItem("CEID"), Each("REPORTS", DataSetValues.decode)>>),
    DecodeS6F10 |-> ByteAs("ACKC6", ACKC6)]

DecodersS6F11to13 == [
    DecodeS6F11 |-> Fixed(<<ScalarItem("DATAID"), ScalarItem("CEID"), Each("REPORTS",
        Report.decode)>>),
    DecodeS6F12 |-> ByteAs("ACKC6", ACKC6),
    DecodeS6F13 |-> Fixed(<<ScalarItem("DATAID"), ScalarItem("CEID"), Each("REPORTS",
        AnnotatedReport.decode)>>)]

DecodersS6F14to17 == [
    DecodeS6F14 |-> ByteAs("ACKC6", ACKC6),
    DecodeS6F15 |-> ScalarItem("CEID"),
    DecodeS6F16 |-> ShortOrFull(0, <<ScalarItem("DATAID"), ScalarItem("CEID"),
        Each("REPORTS", Report.decode)>>),
    DecodeS6F17 |-> ScalarItem("CEID")]

DecodersS6F18to21 == [
    DecodeS6F18 |-> ShortOrFull(0, <<ScalarItem("DATAID"), ScalarItem("CEID"),
        Each("REPORTS", AnnotatedReport.decode)>>),
    DecodeS6F19 |-> ScalarItem("RPTID"),
    DecodeS6F20 |-> Items("VALUES"),
    DecodeS6F21 |-> ScalarItem("RPTID")]

DecodersS6F22to24 == [
    DecodeS6F22 |-> Each("VALUES", VariableValue.decode),
    DecodeS6F23 |-> UintAs("RSDC", RSDC),
    DecodeS6F24 |-> ByteAs("RSDA", RSDA)]

DecodersS6F25to26 == [
    DecodeS6F25 |-> Fixed(<<ScalarItem("DATAID"), ScalarItem("OPID"),
        Optional("LINKID", UintAs(SELF, Uint32)), ASCII("RCPSPEC"),
        ScalarItem("RMCHGSTAT"), Each("ATTRIBUTES", RecipeAttribute.decode),
        Fixed(<<UintAs("RMACK", RMACK), Each("ERRORS", ErrorInfo.decode)>>)>>),
    DecodeS6F26 |-> ByteAs("ACKC6", ACKC6)]

DecodersS6F27to30 == [
    DecodeS6F27 |-> Fixed(<<ScalarItem("DATAID"), ScalarItem("TRID"), Each("SAMPLES",
        Each(SELF, Report.decode))>>),
    DecodeS6F28 |-> ScalarItem("TRID"),
    DecodeS6F29 |-> ScalarItem("TRID"),
    DecodeS6F30 |-> Fixed(<<ScalarItem("TRID"), Each("REPORTS", Report.decode),
        ScalarItem("ERRCODE")>>)]

DecodersS7F1to4 == [
    DecodeS7F1 |-> Fixed(<<ScalarItem("PPID"), ScalarItem("LENGTH")>>),
    DecodeS7F2 |-> ByteAs("PPGNT", PPGNT),
    DecodeS7F3 |-> Fixed(<<ScalarItem("PPID"), ScalarItem("PPBODY")>>),
    DecodeS7F4 |-> ByteAs("ACKC7", ACKC7)]

DecodersS7F5to8 == [
    DecodeS7F5 |-> ScalarItem("PPID"),
    DecodeS7F6 |-> ShortOrFull(0, <<ScalarItem("PPID"), ScalarItem("PPBODY")>>),
    DecodeS7F7 |-> ScalarItem("MID"),
    DecodeS7F8 |-> ShortOrFull(0, <<ScalarItem("PPID"), ScalarItem("MID")>>)]

DecodersS7F10to13 == [
    DecodeS7F10 |-> Each("PROGRAMS", ProgramMaterials.decode),
    DecodeS7F11 |-> Each("PROGRAMS", ProgramMaterials.decode),
    DecodeS7F12 |-> ByteAs("ACKC7", ACKC7),
    DecodeS7F13 |-> Each("PROGRAMS", ProgramMaterials.decode)]

DecodersS7F14to18 == [
    DecodeS7F14 |-> ByteAs("ACKC7", ACKC7),
    DecodeS7F15 |-> ByteAs("MMODE", MMODE),
    DecodeS7F16 |-> ByteAs("ACKC7", ACKC7),
    DecodeS7F17 |-> Each("PPIDS", ScalarItem(SELF)),
    DecodeS7F18 |-> ByteAs("ACKC7", ACKC7)]

DecodersS7F20to23 == [
    DecodeS7F20 |-> Each("PPIDS", ScalarItem(SELF)),
    DecodeS7F22 |-> Fixed(<<ASCII("MDLN"), ASCII("SOFTREV"), ScalarItem("CMDMAX"),
        ScalarItem("BYTMAX"), Each("COMMANDS", ProcessCommandDefinition.decode)>>),
    DecodeS7F23 |-> Fixed(<<ScalarItem("PPID"), ASCII("MDLN"), ASCII("SOFTREV"),
        Each("COMMANDS", ProcessCommand.decode)>>)]

DecodersS7F24to26 == [
    DecodeS7F24 |-> ByteAs("ACKC7", ACKC7),
    DecodeS7F25 |-> ScalarItem("PPID"),
    DecodeS7F26 |-> ShortOrFull(0, <<ScalarItem("PPID"), ASCII("MDLN"),
        ASCII("SOFTREV"), Each("COMMANDS", ProcessCommand.decode)>>)]

DecodersS7F27to31 == [
    DecodeS7F27 |-> Fixed(<<ScalarItem("PPID"), Each("ERRORS", ProgramError.decode)>>),
    DecodeS7F29 |-> ScalarItem("LENGTH"),
    DecodeS7F30 |-> ByteAs("PPGNT", PPGNT),
    DecodeS7F31 |-> Fixed(<<ScalarItem("PPID"), ASCII("MDLN"), ASCII("SOFTREV"),
        Each("COMMANDS", ProcessCommand.decode)>>)]

DecodersS7F32to35 == [
    DecodeS7F32 |-> ByteAs("ACKC7", ACKC7),
    DecodeS7F33 |-> ScalarItem("PPID"),
    DecodeS7F34 |-> Fixed(<<ScalarItem("PPID"), ScalarItem("UNFLEN"),
        ScalarItem("FRMLEN")>>),
    DecodeS7F35 |-> ScalarItem("MID")]

DecodersS7F36to39 == [
    DecodeS7F36 |-> ShortOrFull(0, <<ScalarItem("MID"), ScalarItem("PPID"),
        ScalarItem("PPBODY")>>),
    DecodeS7F37 |-> ASCII("DSNAME"),
    DecodeS7F38 |-> ByteAs("ACKC7", ACKC7),
    DecodeS7F39 |-> ASCII("DSNAME")]

DecodersS7F40to44 == [
    DecodeS7F40 |-> ByteAs("ACKC7", ACKC7),
    DecodeS7F41 |-> ASCII("DSNAME"),
    DecodeS7F42 |-> ByteAs("ACKC7", ACKC7),
    DecodeS7F43 |-> ASCII("DSNAME"),
    DecodeS7F44 |-> ByteAs("ACKC7", ACKC7)]

DecodersS8F2to4 == [
    DecodeS8F2 |-> Binary("BPD"),
    DecodeS8F4 |-> Binary("EPD")]

DecodersS9F1to7 == [
    DecodeS9F1 |-> Array("MHEAD", 10),
    DecodeS9F3 |-> Array("MHEAD", 10),
    DecodeS9F5 |-> Array("MHEAD", 10),
    DecodeS9F7 |-> Array("MHEAD", 10)]

DecodersS9F9to13 == [
    DecodeS9F9 |-> Array("SHEAD", 10),
    DecodeS9F11 |-> Array("MHEAD", 10),
    DecodeS9F13 |-> Fixed(<<ASCII("MEXP"), ScalarItem("EDID")>>)]

DecodersS10F1to4 == [
    DecodeS10F1 |-> Fixed(<<ByteAs("TID", TID), ScalarItem("TEXT")>>),
    DecodeS10F2 |-> ByteAs("ACKC10", ACKC10),
    DecodeS10F3 |-> Fixed(<<ByteAs("TID", TID), ScalarItem("TEXT")>>),
    DecodeS10F4 |-> ByteAs("ACKC10", ACKC10)]

DecodersS10F5to9 == [
    DecodeS10F5 |-> Fixed(<<ByteAs("TID", TID), Each("TEXTS", ScalarItem(SELF))>>),
    DecodeS10F6 |-> ByteAs("ACKC10", ACKC10),
    DecodeS10F7 |-> ByteAs("TID", TID),
    DecodeS10F9 |-> ScalarItem("TEXT")]

DecodersS10F10 == [
    DecodeS10F10 |-> ByteAs("ACKC10", ACKC10)]

DecodersS12F1to2 == [
    DecodeS12F1 |-> Fixed(<<ScalarItem("MID"), ByteAs("IDTYP", IDTYP),
        Optional("FNLOC", UintAs(SELF, Uint16)), Optional("FFROT", UintAs(SELF,
        Uint16)), Optional("ORLOC", ByteAs(SELF, ORLOC)), UintAs("RPSEL", Uint8),
        Each("REFPS", ScalarItem(SELF)), ASCII("DUTMS"), ScalarItem("XDIES"),
        ScalarItem("YDIES"), ScalarItem("ROWCT"), ScalarItem("COLCT"),
        ScalarItem("NULBC"), ScalarItem("PRDCT"), ByteAs("PRAXI", PRAXI)>>),
    DecodeS12F2 |-> ByteAs("SDACK", SDACK)]

DecodersS12F3 == [
    DecodeS12F3 |-> Fixed(<<ScalarItem("MID"), ByteAs("IDTYP", IDTYP), ByteAs("MAPFT",
        MAPFT), Optional("FNLOC", UintAs(SELF, Uint16)), Optional("FFROT",
        UintAs(SELF, Uint16)), Optional("ORLOC", ByteAs(SELF, ORLOC)), ByteAs("PRAXI",
        PRAXI), ScalarItem("BCEQU"), ScalarItem("NULBC")>>)]

DecodersS12F4 == [
    DecodeS12F4 |-> ShortOrFull(0, <<ScalarItem("MID"), ByteAs("IDTYP", IDTYP),
        Optional("FNLOC", UintAs(SELF, Uint16)), Optional("ORLOC", ByteAs(SELF,
        ORLOC)), UintAs("RPSEL", Uint8), Each("REFPS", ScalarItem(SELF)),
        ASCII("DUTMS"), ScalarItem("XDIES"), ScalarItem("YDIES"), ScalarItem("ROWCT"),
        ScalarItem("COLCT"), ScalarItem("PRDCT"), ScalarItem("BCEQU"),
        ScalarItem("NULBC"), ScalarItem("MLCL")>>)]

DecodersS12F5to7 == [
    DecodeS12F5 |-> Fixed(<<ScalarItem("MID"), ByteAs("IDTYP", IDTYP), ByteAs("MAPFT",
        MAPFT), ScalarItem("MLCL")>>),
    DecodeS12F6 |-> ByteAs("GRNT1", GRNT1),
    DecodeS12F7 |-> Fixed(<<ScalarItem("MID"), ByteAs("IDTYP", IDTYP), Each("ROWS",
        MapRow.decode)>>)]

DecodersS12F8to10 == [
    DecodeS12F8 |-> ByteAs("MDACK", MDACK),
    DecodeS12F9 |-> Fixed(<<ScalarItem("MID"), ByteAs("IDTYP", IDTYP),
        ScalarItem("STRP"), ScalarItem("BINLT")>>),
    DecodeS12F10 |-> ByteAs("MDACK", MDACK)]

DecodersS12F11to13 == [
    DecodeS12F11 |-> Fixed(<<ScalarItem("MID"), ByteAs("IDTYP", IDTYP),
        Each("POSITIONS", MapPosition.decode)>>),
    DecodeS12F12 |-> ByteAs("MDACK", MDACK),
    DecodeS12F13 |-> Fixed(<<ScalarItem("MID"), ByteAs("IDTYP", IDTYP)>>)]

DecodersS12F14to16 == [
    DecodeS12F14 |-> Fixed(<<ScalarItem("MID"), ByteAs("IDTYP", IDTYP), Each("ROWS",
        MapRow.decode)>>),
    DecodeS12F15 |-> Fixed(<<ScalarItem("MID"), ByteAs("IDTYP", IDTYP)>>),
    DecodeS12F16 |-> ShortOrFull(0, <<ScalarItem("MID"), ByteAs("IDTYP", IDTYP),
        ScalarItem("STRP"), ScalarItem("BINLT")>>)]

DecodersS12F17to19 == [
    DecodeS12F17 |-> Fixed(<<ScalarItem("MID"), ByteAs("IDTYP", IDTYP),
        ByteAs("SDBIN", SDBIN)>>),
    DecodeS12F18 |-> ShortOrFull(0, <<ScalarItem("MID"), ByteAs("IDTYP", IDTYP),
        Each("POSITIONS", MapPosition.decode)>>),
    DecodeS12F19 |-> Fixed(<<ByteAs("MAPER", MAPER), UintAs("DATLC", Uint8)>>)]

DecodersS13F1to3 == [
    DecodeS13F1 |-> Fixed(<<ASCII("DSNAME")>>),
    DecodeS13F2 |-> Fixed(<<ASCII("DSNAME"), ByteAs("ACKC13", ACKC13)>>),
    DecodeS13F3 |-> Fixed(<<ScalarItem("HANDLE"), ASCII("DSNAME"), UintAs("CKPNT",
        Uint32)>>)]

DecodersS13F4to6 == [
    DecodeS13F4 |-> Fixed(<<ScalarItem("HANDLE"), ASCII("DSNAME"), ByteAs("ACKC13",
        ACKC13), ScalarItem("RTYPE"), ScalarItem("RECLEN")>>),
    DecodeS13F5 |-> Fixed(<<ScalarItem("HANDLE"), ScalarItem("READLN")>>),
    DecodeS13F6 |-> Fixed(<<ScalarItem("HANDLE"), ByteAs("ACKC13", ACKC13),
        UintAs("CKPNT", Uint32), Each("FILDATS", ScalarItem(SELF))>>)]

DecodersS13F7to12 == [
    DecodeS13F7 |-> Fixed(<<ScalarItem("HANDLE")>>),
    DecodeS13F8 |-> Fixed(<<ScalarItem("HANDLE"), ByteAs("ACKC13", ACKC13)>>),
    DecodeS13F11 |-> Fixed(<<ScalarItem("DATAID"), ASCII("OBJSPEC"),
        ScalarItem("DATALENGTH")>>),
    DecodeS13F12 |-> ByteAs("GRANT", GRANT)]

DecodersS13F13to14 == [
    DecodeS13F13 |-> Fixed(<<ScalarItem("DATAID"), ASCII("OBJSPEC"), ASCIIAs("TBLTYP",
        TBLTYP), ASCII("TBLID"), UintAs("TBLCMD", TBLCMD), Each("ATTRS",
        Attribute.decode), Each("COLHDRS", ASCII(SELF)), Each("ROWS", Items(SELF))>>),
    DecodeS13F14 |-> Fixed(<<UintAs("TBLACK", TBLACK), Each("ERRORS",
        ErrorInfo.decode)>>)]

DecodersS13F15to16 == [
    DecodeS13F15 |-> Fixed(<<ScalarItem("DATAID"), ASCII("OBJSPEC"), ASCIIAs("TBLTYP",
        TBLTYP), ASCII("TBLID"), UintAs("TBLCMD", TBLCMD), Each("COLHDRS",
        ASCII(SELF)), Items("TBLELTS")>>),
    DecodeS13F16 |-> Fixed(<<ASCIIAs("TBLTYP", TBLTYP), ASCII("TBLID"), Each("ATTRS",
        Attribute.decode), Each("COLHDRS", ASCII(SELF)), Each("ROWS", Items(SELF)),
        Fixed(<<UintAs("TBLACK", TBLACK), Each("ERRORS", ErrorInfo.decode)>>)>>)]
=============================================================================

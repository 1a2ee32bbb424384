-------------------------- MODULE GemDecoders1to5 ---------------------------
(***************************************************************************)
(* The message decoders of package gem (gem/s1_decode.go to                *)
(* gem/s5_decode.go): the reads each makes of a body.                      *)
(***************************************************************************)
EXTENDS GemGroups

DecodersS1F2to4 == [
    DecodeS1F2 |-> Fixed(<<ASCII("MDLN"), ASCII("SOFTREV")>>),
    DecodeS1F2Host |-> Fixed(<<>>),
    DecodeS1F3 |-> Each("SVIDS", ScalarItem(SELF)),
    DecodeS1F4 |-> Items("SVS")]

DecodersS1F5to8 == [
    DecodeS1F5 |-> ByteAs("SFCD", Byte),
    DecodeS1F6 |-> AnyItem("BODY"),
    DecodeS1F7 |-> ByteAs("SFCD", Byte),
    DecodeS1F8 |-> AnyItem("BODY")]

DecodersS1F10to13 == [
    DecodeS1F10 |-> Fixed(<<Binary("TSIPS"), Binary("TSOPS")>>),
    DecodeS1F11 |-> Each("SVIDS", ScalarItem(SELF)),
    DecodeS1F12 |-> Each("VARIABLES", StatusVariableName.decode),
    DecodeS1F13 |-> Fixed(<<ASCII("MDLN"), ASCII("SOFTREV")>>)]

DecodersS1F13to16 == [
    DecodeS1F13Host |-> Fixed(<<>>),
    DecodeS1F14 |-> Fixed(<<ByteAs("COMMACK", COMMACK), Fixed(<<ASCII("MDLN"),
        ASCII("SOFTREV")>>)>>),
    DecodeS1F14Host |-> Fixed(<<ByteAs("COMMACK", COMMACK), Fixed(<<>>)>>),
    DecodeS1F16 |-> ByteAs("OFLACK", OFLACK)]

DecodersS1F18to21 == [
    DecodeS1F18 |-> ByteAs("ONLACK", ONLACK),
    DecodeS1F19 |-> Fixed(<<ScalarItem("OBJTYPE"), Each("OBJIDS", ScalarItem(SELF)),
        Each("ATTRIDS", ScalarItem(SELF))>>),
    DecodeS1F20 |-> Fixed(<<Each("OBJECTS", Items(SELF)), Each("ERRORS",
        ErrorInfo.decode)>>),
    DecodeS1F21 |-> Each("VIDS", ScalarItem(SELF))]

DecodersS1F22to24 == [
    DecodeS1F22 |-> Each("VARIABLES", DataVariableName.decode),
    DecodeS1F23 |-> Each("CEIDS", ScalarItem(SELF)),
    DecodeS1F24 |-> Each("EVENTS", CollectionEventName.decode)]

DecodersS2F1to4 == [
    DecodeS2F1 |-> Fixed(<<ASCII("SPID"), ScalarItem("LENGTH")>>),
    DecodeS2F2 |-> ByteAs("GRANT", GRANT),
    DecodeS2F3 |-> Binary("SPD"),
    DecodeS2F4 |-> ByteAs("SPAACK", SPAACK)]

DecodersS2F5to9 == [
    DecodeS2F5 |-> ASCII("SPID"),
    DecodeS2F6 |-> Binary("SPD"),
    DecodeS2F7 |-> ASCII("SPID"),
    DecodeS2F8 |-> ByteAs("CSAACK", CSAACK),
    DecodeS2F9 |-> ASCII("SPID")]

DecodersS2F10to14 == [
    DecodeS2F10 |-> AnyItem("SPR"),
    DecodeS2F12 |-> Each("SPIDS", ASCII(SELF)),
    DecodeS2F13 |-> Each("ECIDS", ScalarItem(SELF)),
    DecodeS2F14 |-> Each("ECVS", ScalarOrEmptyList(SELF))]

DecodersS2F15to20 == [
    DecodeS2F15 |-> Each("CONSTANTS", ConstantValue.decode),
    DecodeS2F16 |-> ByteAs("EAC", EAC),
    DecodeS2F18 |-> ASCII("TIME"),
    DecodeS2F19 |-> ScalarItem("RIC"),
    DecodeS2F20 |-> ScalarItem("RAC")]

DecodersS2F21to24 == [
    DecodeS2F21 |-> ScalarItem("RCMD"),
    DecodeS2F22 |-> ScalarItem("CMDA"),
    DecodeS2F23 |-> Fixed(<<ScalarItem("TRID"), ASCII("DSPER"), ScalarItem("TOTSMP"),
        ScalarItem("REPGSZ"), Each("SVIDS", ScalarItem(SELF))>>),
    DecodeS2F24 |-> ByteAs("TIAACK", TIAACK)]

DecodersS2F25to28 == [
    DecodeS2F25 |-> Binary("ABS"),
    DecodeS2F26 |-> Binary("ABS"),
    DecodeS2F27 |-> Fixed(<<ByteAs("LOC", Byte), ScalarItem("PPID"), Each("MIDS",
        ScalarItem(SELF))>>),
    DecodeS2F28 |-> ScalarItem("CMDA")]

DecodersS2F29to32 == [
    DecodeS2F29 |-> Each("ECIDS", ScalarItem(SELF)),
    DecodeS2F30 |-> Each("CONSTANTS", ConstantName.decode),
    DecodeS2F31 |-> ASCII("TIME"),
    DecodeS2F32 |-> ByteAs("TIACK", TIACK)]

DecodersS2F33to36 == [
    DecodeS2F33 |-> Fixed(<<ScalarItem("DATAID"), Each("REPORTS",
        ReportDefinition.decode)>>),
    DecodeS2F34 |-> ByteAs("DRACK", DRACK),
    DecodeS2F35 |-> Fixed(<<ScalarItem("DATAID"), Each("EVENTS", EventLink.decode)>>),
    DecodeS2F36 |-> ByteAs("LRACK", LRACK)]

DecodersS2F37to40 == [
    DecodeS2F37 |-> Fixed(<<Bool("CEED"), Each("CEIDS", ScalarItem(SELF))>>),
    DecodeS2F38 |-> ByteAs("ERACK", ERACK),
    DecodeS2F39 |-> Fixed(<<ScalarItem("DATAID"), ScalarItem("DATALENGTH")>>),
    DecodeS2F40 |-> ByteAs("GRANT", GRANT)]

DecodersS2F41to44 == [
    DecodeS2F41 |-> Fixed(<<ScalarItem("RCMD"), Each("PARAMS", CommandParam.decode)>>),
    DecodeS2F42 |-> Fixed(<<ByteAs("HCACK", HCACK), Each("PARAMS",
        CommandParamAck.decode)>>),
    DecodeS2F43 |-> Each("STREAMS", SpoolStream.decode),
    DecodeS2F44 |-> Fixed(<<ByteAs("RSPACK", RSPACK), Each("STREAMS",
        SpoolStreamAck.decode)>>)]

DecodersS2F45to48 == [
    DecodeS2F45 |-> Fixed(<<ScalarItem("DATAID"), Each("VARIABLES",
        VariableLimits.decode)>>),
    DecodeS2F46 |-> Fixed(<<ByteAs("VLAACK", VLAACK), Each("VARIABLES",
        VariableLimitAck.decode)>>),
    DecodeS2F47 |-> Each("VIDS", ScalarItem(SELF)),
    DecodeS2F48 |-> Each("VARIABLES", VariableLimitAttributes.decode)]

DecodersS2F49to50 == [
    DecodeS2F49 |-> AnyItem("BODY"),
    DecodeS2F50 |-> AnyItem("BODY")]

DecodersS3F2to5 == [
    DecodeS3F2 |-> ShortOrFull(0, <<ScalarItem("MF"), Each("LOCATIONS",
        MaterialLocation.decode)>>),
    DecodeS3F4 |-> ShortOrFull(0, <<ScalarItem("MF"), Each("MATERIALS",
        MaterialTimeToCompletion.decode)>>),
    DecodeS3F5 |-> Fixed(<<ScalarItem("MF"), ByteAs("QUA", Byte)>>)]

DecodersS3F6to9 == [
    DecodeS3F6 |-> ByteAs("ACKC3", ACKC3),
    DecodeS3F7 |-> Fixed(<<ScalarItem("MF"), ByteAs("QUA", Byte), ScalarItem("MID")>>),
    DecodeS3F8 |-> ByteAs("ACKC3", ACKC3),
    DecodeS3F9 |-> Fixed(<<ScalarItem("MID"), ScalarItem("EMID")>>)]

DecodersS3F10to13 == [
    DecodeS3F10 |-> ByteAs("ACKC3", ACKC3),
    DecodeS3F11 |-> ScalarItem("PTN"),
    DecodeS3F12 |-> Fixed(<<ScalarItem("PTN"), ByteAs("MIDRA", MIDRA),
        ScalarItem("MID")>>),
    DecodeS3F13 |-> Fixed(<<ScalarItem("PTN"), ScalarItem("MID")>>)]

DecodersS3F14to16 == [
    DecodeS3F14 |-> ByteAs("MIDAC", MIDAC),
    DecodeS3F15 |-> Fixed(<<ScalarItem("DATAID"), ScalarItem("DATALENGTH")>>),
    DecodeS3F16 |-> ByteAs("GRANT", GRANT)]

DecodersS3F17to20 == [
    DecodeS3F17 |-> Fixed(<<ScalarItem("DATAID"), ASCIIAs("CARRIERACTION",
        CARRIERACTION), ASCII("CARRIERID"), ScalarItem("PTN"), Each("ATTRIBUTES",
        CarrierAttribute.decode)>>),
    DecodeS3F18 |-> Fixed(<<UintAs("CAACK", CAACK), Each("ERRORS", ErrorInfo.decode)>>),
    DecodeS3F20 |-> Fixed(<<UintAs("CAACK", CAACK), Each("ERRORS", ErrorInfo.decode)>>)]

DecodersS3F21to23 == [
    DecodeS3F21 |-> Fixed(<<ASCII("PORTGRPNAME"), UintAs("ACCESSMODE", ACCESSMODE),
        Each("PORTS", ScalarItem(SELF))>>),
    DecodeS3F22 |-> Fixed(<<UintAs("CAACK", CAACK), Each("ERRORS", ErrorInfo.decode)>>),
    DecodeS3F23 |-> Fixed(<<ASCII("PGRPACTION"), ASCII("PORTGRPNAME"), Each("PARAMS",
        PortActionParam.decode)>>)]

DecodersS3F24to26 == [
    DecodeS3F24 |-> Fixed(<<UintAs("CAACK", CAACK), Each("ERRORS", ErrorInfo.decode)>>),
    DecodeS3F25 |-> Fixed(<<ASCIIAs("PORTACTION", PORTACTION), ScalarItem("PTN"),
        Each("PARAMS", PortActionParam.decode)>>),
    DecodeS3F26 |-> Fixed(<<UintAs("CAACK", CAACK), Each("ERRORS", ErrorInfo.decode)>>)]

DecodersS3F27to29 == [
    DecodeS3F27 |-> Fixed(<<UintAs("ACCESSMODE", ACCESSMODE), Each("PORTS",
        ScalarItem(SELF))>>),
    DecodeS3F28 |-> Fixed(<<UintAs("CAACK", CAACK), Each("ERRORS", PortError.decode)>>),
    DecodeS3F29 |-> Fixed(<<ASCII("LOCID"), ASCII("CARRIERSPEC"), ASCII("DATASEG"),
        ScalarItem("DATALENGTH")>>)]

DecodersS3F30to32 == [
    DecodeS3F30 |-> Fixed(<<ASCII("DATA"), Fixed(<<UintAs("CAACK", CAACK),
        Each("ERRORS", ErrorInfo.decode)>>)>>),
    DecodeS3F31 |-> Fixed(<<ASCII("LOCID"), ASCII("CARRIERSPEC"), ASCII("DATASEG"),
        ScalarItem("DATALENGTH"), ASCII("DATA")>>),
    DecodeS3F32 |-> Fixed(<<UintAs("CAACK", CAACK), Each("ERRORS", ErrorInfo.decode)>>)]

DecodersS3F34to36 == [
    DecodeS3F34 |-> Fixed(<<UintAs("CAACK", CAACK), Each("ERRORS", ErrorInfo.decode)>>),
    DecodeS3F35 |-> Fixed(<<ASCII("JOBACTION"), ASCII("PODID"), ScalarItem("INPTN"),
        ScalarItem("OUTPTN"), Each("ATTRIBUTES", Attribute.decode), Each("REMOVALS",
        ReticleRemoval.decode), Each("PLACEMENTS", ReticlePlacement.decode)>>),
    DecodeS3F36 |-> Fixed(<<UintAs("RPMACK", RPMACK), Each("ERRORS",
        ErrorInfo.decode)>>)]

DecodersS4F1to5 == [
    DecodeS4F1 |-> Fixed(<<ScalarItem("PTN"), ScalarItem("MID")>>),
    DecodeS4F2 |-> ByteAs("RSACK", RSACK),
    DecodeS4F3 |-> Fixed(<<ScalarItem("PTN"), ScalarItem("MID")>>),
    DecodeS4F5 |-> Fixed(<<ScalarItem("PTN"), ScalarItem("MID")>>)]

DecodersS4F7to11 == [
    DecodeS4F7 |-> Fixed(<<ScalarItem("PTN"), ScalarItem("MID")>>),
    DecodeS4F9 |-> Fixed(<<ScalarItem("PTN"), ScalarItem("MID")>>),
    DecodeS4F11 |-> Fixed(<<ScalarItem("PTN"), ScalarItem("MID")>>)]

DecodersS4F13to18 == [
    DecodeS4F13 |-> Fixed(<<ScalarItem("PTN"), ScalarItem("MID")>>),
    DecodeS4F15 |-> Fixed(<<ScalarItem("PTN"), ScalarItem("MID")>>),
    DecodeS4F17 |-> Fixed(<<ScalarItem("PTN"), ScalarItem("MID")>>),
    DecodeS4F18 |-> ByteAs("RRACK", RRACK)]

DecodersS4F19to21 == [
    DecodeS4F19 |-> Fixed(<<ScalarItem("DATAID"), Fixed(<<ASCII("TRJOBNAME"),
        Each("TRANSFERS", TransferJob.decode)>>)>>),
    DecodeS4F20 |-> Fixed(<<Binary("TRJOBID"), Each("ATOMICIDS", ScalarItem(SELF)),
        Fixed(<<Bool("TRACK"), Each("ERRORS", ErrorInfo.decode)>>)>>),
    DecodeS4F21 |-> Fixed(<<Binary("TRJOBID"), ASCIIAs("TRCMDNAME", TRCMDNAME),
        Each("PARAMS", CommandParam.decode)>>)]

DecodersS4F22to25 == [
    DecodeS4F22 |-> Fixed(<<Bool("TRACK"), Each("ERRORS", ErrorInfo.decode)>>),
    DecodeS4F23 |-> Fixed(<<Binary("TRJOBID"), ASCII("TRJOBNAME"), UintAs("TRJOBMS",
        TRJOBMS), Fixed(<<Bool("TRACK"), Each("ERRORS", ErrorInfo.decode)>>)>>),
    DecodeS4F25 |-> Fixed(<<ScalarItem("DATAID"), ScalarItem("DATALENGTH")>>)]

DecodersS4F26to27 == [
    DecodeS4F26 |-> ByteAs("GRANT", GRANT),
    DecodeS4F27 |-> Fixed(<<ASCII("EQNAME"), Fixed(<<ScalarItem("TRLINK"),
        ScalarItem("TRPORT"), ASCII("TROBJNAME"), ScalarItem("TROBJTYPE"),
        UintAs("TRROLE", TRROLE), ASCII("TRPTNR"), ScalarItem("TRPTPORT"),
        UintAs("TRDIR", TRDIR), UintAs("TRTYPE", TRTYPE),
        ScalarItem("TRLOCATION")>>)>>)]

DecodersS4F29to31 == [
    DecodeS4F29 |-> Fixed(<<ScalarItem("TRLINK"), ScalarItem("MCINDEX"),
        ASCII("HOCMDNAME"), Each("PARAMS", CommandParam.decode)>>),
    DecodeS4F31 |-> Fixed(<<ScalarItem("TRLINK"), ScalarItem("MCINDEX"),
        Fixed(<<Bool("HOACK"), Each("ERRORS", ErrorInfo.decode)>>)>>)]

DecodersS4F33to39 == [
    DecodeS4F33 |-> Fixed(<<ScalarItem("TRLINK"), Fixed(<<Bool("HOACK"),
        Each("ERRORS", ErrorInfo.decode)>>)>>),
    DecodeS4F35 |-> ScalarItem("TRLINK"),
    DecodeS4F37 |-> Fixed(<<ScalarItem("TRLINK"), UintAs("HOCANCELACK", HOCANCELACK)>>),
    DecodeS4F39 |-> ScalarItem("TRLINK")]

DecodersS4F41 == [
    DecodeS4F41 |-> Fixed(<<ScalarItem("TRLINK"), UintAs("HOHALTACK", HOHALTACK)>>)]

DecodersS5F1to4 == [
    DecodeS5F1 |-> Fixed(<<ByteAs("ALCD", ALCD), ScalarItem("ALID"), ASCII("ALTX")>>),
    DecodeS5F2 |-> ByteAs("ACKC5", ACKC5),
    DecodeS5F3 |-> Fixed(<<ByteAs("ALED", Byte), ScalarItem("ALID")>>),
    DecodeS5F4 |-> ByteAs("ACKC5", ACKC5)]

DecodersS5F5to9 == [
    DecodeS5F5 |-> ScalarItem("ALIDS"),
    DecodeS5F6 |-> Each("ALARMS", Alarm.decode),
    DecodeS5F8 |-> Each("ALARMS", Alarm.decode),
    DecodeS5F9 |-> Fixed(<<ASCII("TIMESTAMP"), ASCII("EXID"), ASCII("EXTYPE"),
        ASCII("EXMESSAGE"), Each("RECOVERYACTIONS", ASCII(SELF))>>)]

DecodersS5F11to14 == [
    DecodeS5F11 |-> Fixed(<<ASCII("TIMESTAMP"), ASCII("EXID"), ASCII("EXTYPE"),
        ASCII("EXMESSAGE")>>),
    DecodeS5F13 |-> Fixed(<<ASCII("EXID"), ASCII("EXRECVRA")>>),
    DecodeS5F14 |-> Fixed(<<ASCII("EXID"), Fixed(<<Bool("ACKA"), ShortOrFull(0,
        <<ScalarItem("ERRCODE"), ASCII("ERRTEXT")>>)>>)>>)]

DecodersS5F15to17 == [
    DecodeS5F15 |-> Fixed(<<ASCII("TIMESTAMP"), ASCII("EXID"), Fixed(<<Bool("ACKA"),
        ShortOrFull(0, <<ScalarItem("ERRCODE"), ASCII("ERRTEXT")>>)>>)>>),
    DecodeS5F17 |-> ASCII("EXID")]

DecodersS5F18 == [
    DecodeS5F18 |-> Fixed(<<ASCII("EXID"), Fixed(<<Bool("ACKA"), ShortOrFull(0,
        <<ScalarItem("ERRCODE"), ASCII("ERRTEXT")>>)>>)>>)]
=============================================================================

-------------------------- MODULE GemBuilders1to5 ---------------------------
(***************************************************************************)
(* The message builders of package gem (gem/s1.go to gem/s5.go): stream,   *)
(* function, wait bit and body.  The builders with a word after the function*)
(* build the short or the host form of the message.                        *)
(***************************************************************************)
EXTENDS GemGroups

BuildersS1F1to12 == [
    S1F1 |-> Message(1, 1, TRUE, NewEmptyItem),
    S1F2 |-> Message(1, 2, FALSE, L(<<A("MDLN"), A("SOFTREV")>>)),
    S1F2Host |-> Message(1, 2, FALSE, L(<<>>)),
    S1F3 |-> Message(1, 3, TRUE, EachItem("SVIDS", Present(SELF))),
    S1F4 |-> Message(1, 4, FALSE, EachItem("SVS", Present(SELF))),
    S1F5 |-> Message(1, 5, TRUE, B("SFCD")),
    S1F6 |-> Message(1, 6, FALSE, Present("BODY")),
    S1F7 |-> Message(1, 7, TRUE, B("SFCD")),
    S1F8 |-> Message(1, 8, FALSE, Present("BODY")),
    S1F9 |-> Message(1, 9, TRUE, NewEmptyItem),
    S1F10 |-> Message(1, 10, FALSE, L(<<B("TSIPS"), B("TSOPS")>>)),
    S1F11 |-> Message(1, 11, TRUE, EachItem("SVIDS", Present(SELF))),
    S1F12 |-> Message(1, 12, FALSE, EachItem("VARIABLES", StatusVariableName.Item))]

BuildersS1F13to23 == [
    S1F13 |-> Message(1, 13, TRUE, L(<<A("MDLN"), A("SOFTREV")>>)),
    S1F13Host |-> Message(1, 13, TRUE, L(<<>>)),
    S1F14 |-> Message(1, 14, FALSE, L(<<B("COMMACK"), L(<<A("MDLN"),
        A("SOFTREV")>>)>>)),
    S1F14Host |-> Message(1, 14, FALSE, L(<<B("COMMACK"), L(<<>>)>>)),
    S1F15 |-> Message(1, 15, TRUE, NewEmptyItem),
    S1F16 |-> Message(1, 16, FALSE, B("OFLACK")),
    S1F17 |-> Message(1, 17, TRUE, NewEmptyItem),
    S1F18 |-> Message(1, 18, FALSE, B("ONLACK")),
    S1F19 |-> Message(1, 19, TRUE, L(<<Present("OBJTYPE"), EachItem("OBJIDS",
        Present(SELF)), EachItem("ATTRIDS", Present(SELF))>>)),
    S1F20 |-> Message(1, 20, FALSE, L(<<EachItem("OBJECTS", EachItem(SELF,
        Present(SELF))), EachItem("ERRORS", ErrorInfo.Item)>>)),
    S1F21 |-> Message(1, 21, TRUE, EachItem("VIDS", Present(SELF))),
    S1F22 |-> Message(1, 22, FALSE, EachItem("VARIABLES", DataVariableName.Item)),
    S1F23 |-> Message(1, 23, TRUE, EachItem("CEIDS", Present(SELF)))]

BuildersS1F24 == [
    S1F24 |-> Message(1, 24, FALSE, EachItem("EVENTS", CollectionEventName.Item))]

BuildersS2F1to13 == [
    S2F1 |-> Message(2, 1, TRUE, L(<<A("SPID"), Present("LENGTH")>>)),
    S2F2 |-> Message(2, 2, FALSE, B("GRANT")),
    S2F3 |-> Message(2, 3, TRUE, B("SPD")),
    S2F4 |-> Message(2, 4, FALSE, B("SPAACK")),
    S2F5 |-> Message(2, 5, TRUE, A("SPID")),
    S2F6 |-> Message(2, 6, FALSE, B("SPD")),
    S2F7 |-> Message(2, 7, TRUE, A("SPID")),
    S2F8 |-> Message(2, 8, FALSE, B("CSAACK")),
    S2F9 |-> Message(2, 9, TRUE, A("SPID")),
    S2F10 |-> Message(2, 10, FALSE, Present("SPR")),
    S2F11 |-> Message(2, 11, TRUE, NewEmptyItem),
    S2F12 |-> Message(2, 12, FALSE, EachItem("SPIDS", A(SELF))),
    S2F13 |-> Message(2, 13, TRUE, EachItem("ECIDS", Present(SELF)))]

BuildersS2F14to25 == [
    S2F14 |-> Message(2, 14, FALSE, EachItem("ECVS", Present(SELF))),
    S2F15 |-> Message(2, 15, TRUE, EachItem("CONSTANTS", ConstantValue.Item)),
    S2F16 |-> Message(2, 16, FALSE, B("EAC")),
    S2F17 |-> Message(2, 17, TRUE, NewEmptyItem),
    S2F18 |-> Message(2, 18, FALSE, A("TIME")),
    S2F19 |-> Message(2, 19, TRUE, Present("RIC")),
    S2F20 |-> Message(2, 20, FALSE, Present("RAC")),
    S2F21 |-> Message(2, 21, TRUE, Present("RCMD")),
    S2F22 |-> Message(2, 22, FALSE, Present("CMDA")),
    S2F23 |-> Message(2, 23, TRUE, L(<<Present("TRID"), A("DSPER"), Present("TOTSMP"),
        Present("REPGSZ"), EachItem("SVIDS", Present(SELF))>>)),
    S2F24 |-> Message(2, 24, FALSE, B("TIAACK")),
    S2F25 |-> Message(2, 25, TRUE, B("ABS"))]

BuildersS2F26to37 == [
    S2F26 |-> Message(2, 26, FALSE, B("ABS")),
    S2F27 |-> Message(2, 27, TRUE, L(<<B("LOC"), Present("PPID"), EachItem("MIDS",
        Present(SELF))>>)),
    S2F28 |-> Message(2, 28, FALSE, Present("CMDA")),
    S2F29 |-> Message(2, 29, TRUE, EachItem("ECIDS", Present(SELF))),
    S2F30 |-> Message(2, 30, FALSE, EachItem("CONSTANTS", ConstantName.Item)),
    S2F31 |-> Message(2, 31, TRUE, A("TIME")),
    S2F32 |-> Message(2, 32, FALSE, B("TIACK")),
    S2F33 |-> Message(2, 33, TRUE, L(<<Present("DATAID"), EachItem("REPORTS",
        ReportDefinition.Item)>>)),
    S2F34 |-> Message(2, 34, FALSE, B("DRACK")),
    S2F35 |-> Message(2, 35, TRUE, L(<<Present("DATAID"), EachItem("EVENTS",
        EventLink.Item)>>)),
    S2F36 |-> Message(2, 36, FALSE, B("LRACK")),
    S2F37 |-> Message(2, 37, TRUE, L(<<BOOL("CEED"), EachItem("CEIDS",
        Present(SELF))>>))]

BuildersS2F38to48 == [
    S2F38 |-> Message(2, 38, FALSE, B("ERACK")),
    S2F39 |-> Message(2, 39, TRUE, L(<<Present("DATAID"), Present("DATALENGTH")>>)),
    S2F40 |-> Message(2, 40, FALSE, B("GRANT")),
    S2F41 |-> Message(2, 41, TRUE, L(<<Present("RCMD"), EachItem("PARAMS",
        CommandParam.Item)>>)),
    S2F42 |-> Message(2, 42, FALSE, L(<<B("HCACK"), EachItem("PARAMS",
        CommandParamAck.Item)>>)),
    S2F43 |-> Message(2, 43, TRUE, EachItem("STREAMS", SpoolStream.Item)),
    S2F44 |-> Message(2, 44, FALSE, L(<<B("RSPACK"), EachItem("STREAMS",
        SpoolStreamAck.Item)>>)),
    S2F45 |-> Message(2, 45, TRUE, L(<<Present("DATAID"), EachItem("VARIABLES",
        VariableLimits.Item)>>)),
    S2F46 |-> Message(2, 46, FALSE, L(<<B("VLAACK"), EachItem("VARIABLES",
        VariableLimitAck.Item)>>)),
    S2F47 |-> Message(2, 47, TRUE, EachItem("VIDS", Present(SELF))),
    S2F48 |-> Message(2, 48, FALSE, EachItem("VARIABLES",
        VariableLimitAttributes.Item))]

BuildersS2F49to50 == [
    S2F49 |-> Message(2, 49, TRUE, Present("BODY")),
    S2F50 |-> Message(2, 50, FALSE, Present("BODY"))]

BuildersS3F1to12 == [
    S3F1 |-> Message(3, 1, TRUE, NewEmptyItem),
    S3F2 |-> Message(3, 2, FALSE, L(<<Present("MF"), EachItem("LOCATIONS",
        MaterialLocation.Item)>>)),
    S3F3 |-> Message(3, 3, TRUE, NewEmptyItem),
    S3F4 |-> Message(3, 4, FALSE, L(<<Present("MF"), EachItem("MATERIALS",
        MaterialTimeToCompletion.Item)>>)),
    S3F5 |-> Message(3, 5, TRUE, L(<<Present("MF"), B("QUA")>>)),
    S3F6 |-> Message(3, 6, FALSE, B("ACKC3")),
    S3F7 |-> Message(3, 7, TRUE, L(<<Present("MF"), B("QUA"), Present("MID")>>)),
    S3F8 |-> Message(3, 8, FALSE, B("ACKC3")),
    S3F9 |-> Message(3, 9, TRUE, L(<<Present("MID"), Present("EMID")>>)),
    S3F10 |-> Message(3, 10, FALSE, B("ACKC3")),
    S3F11 |-> Message(3, 11, TRUE, Present("PTN")),
    S3F12 |-> Message(3, 12, FALSE, L(<<Present("PTN"), B("MIDRA"), Present("MID")>>))]

BuildersS3F13to25 == [
    S3F13 |-> Message(3, 13, TRUE, L(<<Present("PTN"), Present("MID")>>)),
    S3F14 |-> Message(3, 14, FALSE, B("MIDAC")),
    S3F15 |-> Message(3, 15, TRUE, L(<<Present("DATAID"), Present("DATALENGTH")>>)),
    S3F16 |-> Message(3, 16, FALSE, B("GRANT")),
    S3F17 |-> Message(3, 17, TRUE, L(<<Present("DATAID"), A("CARRIERACTION"),
        A("CARRIERID"), Present("PTN"), EachItem("ATTRIBUTES",
        CarrierAttribute.Item)>>)),
    S3F18 |-> Message(3, 18, FALSE, L(<<U1("CAACK"), EachItem("ERRORS",
        ErrorInfo.Item)>>)),
    S3F19 |-> Message(3, 19, TRUE, NewEmptyItem),
    S3F20 |-> Message(3, 20, FALSE, L(<<U1("CAACK"), EachItem("ERRORS",
        ErrorInfo.Item)>>)),
    S3F21 |-> Message(3, 21, TRUE, L(<<A("PORTGRPNAME"), U1("ACCESSMODE"),
        EachItem("PORTS", Present(SELF))>>)),
    S3F22 |-> Message(3, 22, FALSE, L(<<U1("CAACK"), EachItem("ERRORS",
        ErrorInfo.Item)>>)),
    S3F23 |-> Message(3, 23, TRUE, L(<<A("PGRPACTION"), A("PORTGRPNAME"),
        EachItem("PARAMS", PortActionParam.Item)>>)),
    S3F24 |-> Message(3, 24, FALSE, L(<<U1("CAACK"), EachItem("ERRORS",
        ErrorInfo.Item)>>)),
    S3F25 |-> Message(3, 25, TRUE, L(<<A("PORTACTION"), Present("PTN"),
        EachItem("PARAMS", PortActionParam.Item)>>))]

BuildersS3F26to36 == [
    S3F26 |-> Message(3, 26, FALSE, L(<<U1("CAACK"), EachItem("ERRORS",
        ErrorInfo.Item)>>)),
    S3F27 |-> Message(3, 27, TRUE, L(<<U1("ACCESSMODE"), EachItem("PORTS",
        Present(SELF))>>)),
    S3F28 |-> Message(3, 28, FALSE, L(<<U1("CAACK"), EachItem("ERRORS",
        PortError.Item)>>)),
    S3F29 |-> Message(3, 29, TRUE, L(<<A("LOCID"), A("CARRIERSPEC"), A("DATASEG"),
        Present("DATALENGTH")>>)),
    S3F30 |-> Message(3, 30, FALSE, L(<<A("DATA"), L(<<U1("CAACK"), EachItem("ERRORS",
        ErrorInfo.Item)>>)>>)),
    S3F31 |-> Message(3, 31, TRUE, L(<<A("LOCID"), A("CARRIERSPEC"), A("DATASEG"),
        Present("DATALENGTH"), A("DATA")>>)),
    S3F32 |-> Message(3, 32, FALSE, L(<<U1("CAACK"), EachItem("ERRORS",
        ErrorInfo.Item)>>)),
    S3F33 |-> Message(3, 33, TRUE, NewEmptyItem),
    S3F34 |-> Message(3, 34, FALSE, L(<<U1("CAACK"), EachItem("ERRORS",
        ErrorInfo.Item)>>)),
    S3F35 |-> Message(3, 35, TRUE, L(<<A("JOBACTION"), A("PODID"), Present("INPTN"),
        Present("OUTPTN"), EachItem("ATTRIBUTES", Attribute.Item),
        EachItem("REMOVALS", ReticleRemoval.Item), EachItem("PLACEMENTS",
        ReticlePlacement.Item)>>)),
    S3F36 |-> Message(3, 36, FALSE, L(<<U1("RPMACK"), EachItem("ERRORS",
        ErrorInfo.Item)>>))]

BuildersS4F1to19 == [
    S4F1 |-> Message(4, 1, TRUE, L(<<Present("PTN"), Present("MID")>>)),
    S4F2 |-> Message(4, 2, FALSE, B("RSACK")),
    S4F3 |-> Message(4, 3, FALSE, L(<<Present("PTN"), Present("MID")>>)),
    S4F5 |-> Message(4, 5, FALSE, L(<<Present("PTN"), Present("MID")>>)),
    S4F7 |-> Message(4, 7, FALSE, L(<<Present("PTN"), Present("MID")>>)),
    S4F9 |-> Message(4, 9, FALSE, L(<<Present("PTN"), Present("MID")>>)),
    S4F11 |-> Message(4, 11, FALSE, L(<<Present("PTN"), Present("MID")>>)),
    S4F13 |-> Message(4, 13, FALSE, L(<<Present("PTN"), Present("MID")>>)),
    S4F15 |-> Message(4, 15, FALSE, L(<<Present("PTN"), Present("MID")>>)),
    S4F17 |-> Message(4, 17, TRUE, L(<<Present("PTN"), Present("MID")>>)),
    S4F18 |-> Message(4, 18, FALSE, B("RRACK")),
    S4F19 |-> Message(4, 19, TRUE, L(<<Present("DATAID"), L(<<A("TRJOBNAME"),
        EachItem("TRANSFERS", TransferJob.Item)>>)>>))]

BuildersS4F20to33 == [
    S4F20 |-> Message(4, 20, FALSE, L(<<B("TRJOBID"), EachItem("ATOMICIDS",
        Present(SELF)), L(<<BOOL("TRACK"), EachItem("ERRORS", ErrorInfo.Item)>>)>>)),
    S4F21 |-> Message(4, 21, TRUE, L(<<B("TRJOBID"), A("TRCMDNAME"),
        EachItem("PARAMS", CommandParam.Item)>>)),
    S4F22 |-> Message(4, 22, FALSE, L(<<BOOL("TRACK"), EachItem("ERRORS",
        ErrorInfo.Item)>>)),
    S4F23 |-> Message(4, 23, TRUE, L(<<B("TRJOBID"), A("TRJOBNAME"), U1("TRJOBMS"),
        L(<<BOOL("TRACK"), EachItem("ERRORS", ErrorInfo.Item)>>)>>)),
    S4F24 |-> Message(4, 24, FALSE, NewEmptyItem),
    S4F25 |-> Message(4, 25, TRUE, L(<<Present("DATAID"), Present("DATALENGTH")>>)),
    S4F26 |-> Message(4, 26, FALSE, B("GRANT")),
    S4F27 |-> Message(4, 27, FALSE, L(<<A("EQNAME"), L(<<Present("TRLINK"),
        Present("TRPORT"), A("TROBJNAME"), Present("TROBJTYPE"), U1("TRROLE"),
        A("TRPTNR"), Present("TRPTPORT"), U1("TRDIR"), U1("TRTYPE"),
        Present("TRLOCATION")>>)>>)),
    S4F29 |-> Message(4, 29, FALSE, L(<<Present("TRLINK"), Present("MCINDEX"),
        A("HOCMDNAME"), EachItem("PARAMS", CommandParam.Item)>>)),
    S4F31 |-> Message(4, 31, FALSE, L(<<Present("TRLINK"), Present("MCINDEX"),
        L(<<BOOL("HOACK"), EachItem("ERRORS", ErrorInfo.Item)>>)>>)),
    S4F33 |-> Message(4, 33, FALSE, L(<<Present("TRLINK"), L(<<BOOL("HOACK"),
        EachItem("ERRORS", ErrorInfo.Item)>>)>>))]

BuildersS4F35to41 == [
    S4F35 |-> Message(4, 35, FALSE, Present("TRLINK")),
    S4F37 |-> Message(4, 37, FALSE, L(<<Present("TRLINK"), U1("HOCANCELACK")>>)),
    S4F39 |-> Message(4, 39, FALSE, Present("TRLINK")),
    S4F41 |-> Message(4, 41, FALSE, L(<<Present("TRLINK"), U1("HOHALTACK")>>))]

BuildersS5F1to12 == [
    S5F1 |-> Message(5, 1, TRUE, L(<<B("ALCD"), Present("ALID"), A("ALTX")>>)),
    S5F2 |-> Message(5, 2, FALSE, B("ACKC5")),
    S5F3 |-> Message(5, 3, TRUE, L(<<B("ALED"), Present("ALID")>>)),
    S5F4 |-> Message(5, 4, FALSE, B("ACKC5")),
    S5F5 |-> Message(5, 5, TRUE, Present("ALIDS")),
    S5F6 |-> Message(5, 6, FALSE, EachItem("ALARMS", Alarm.Item)),
    S5F7 |-> Message(5, 7, TRUE, NewEmptyItem),
    S5F8 |-> Message(5, 8, FALSE, EachItem("ALARMS", Alarm.Item)),
    S5F9 |-> Message(5, 9, TRUE, L(<<A("TIMESTAMP"), A("EXID"), A("EXTYPE"),
        A("EXMESSAGE"), EachItem("RECOVERYACTIONS", A(SELF))>>)),
    S5F10 |-> Message(5, 10, FALSE, NewEmptyItem),
    S5F11 |-> Message(5, 11, TRUE, L(<<A("TIMESTAMP"), A("EXID"), A("EXTYPE"),
        A("EXMESSAGE")>>)),
    S5F12 |-> Message(5, 12, FALSE, NewEmptyItem)]

BuildersS5F13to18 == [
    S5F13 |-> Message(5, 13, TRUE, L(<<A("EXID"), A("EXRECVRA")>>)),
    S5F14 |-> Message(5, 14, FALSE, L(<<A("EXID"), L(<<BOOL("ACKA"),
        L(<<Present("ERRCODE"), A("ERRTEXT")>>)>>)>>)),
    S5F14Accepted |-> Message(5, 14, FALSE, L(<<A("EXID"), L(<<BOOL("ACKA"),
        L(<<>>)>>)>>)),
    S5F15 |-> Message(5, 15, TRUE, L(<<A("TIMESTAMP"), A("EXID"), L(<<BOOL("ACKA"),
        L(<<Present("ERRCODE"), A("ERRTEXT")>>)>>)>>)),
    S5F15Success |-> Message(5, 15, TRUE, L(<<A("TIMESTAMP"), A("EXID"),
        L(<<BOOL("ACKA"), L(<<>>)>>)>>)),
    S5F16 |-> Message(5, 16, FALSE, NewEmptyItem),
    S5F17 |-> Message(5, 17, TRUE, A("EXID")),
    S5F18 |-> Message(5, 18, FALSE, L(<<A("EXID"), L(<<BOOL("ACKA"),
        L(<<Present("ERRCODE"), A("ERRTEXT")>>)>>)>>)),
    S5F18Success |-> Message(5, 18, FALSE, L(<<A("EXID"), L(<<BOOL("ACKA"),
        L(<<>>)>>)>>))]
=============================================================================

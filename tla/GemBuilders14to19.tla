------------------------- MODULE GemBuilders14to19 --------------------------
(***************************************************************************)
(* The message builders of package gem (gem/s14.go to gem/s19.go): stream, *)
(* function, wait bit and body.  The builders with a word after the function*)
(* build the short or the host form of the message.                        *)
(***************************************************************************)
EXTENDS GemGroups

BuildersS14F1to10 == [
    S14F1 |-> Message(14, 1, TRUE, L(<<A("OBJSPEC"), Present("OBJTYPE"),
        EachItem("OBJIDS", Present(SELF)), EachItem("QUALIFIERS",
        AttributeQualifier.Item), EachItem("ATTRIDS", Present(SELF))>>)),
    S14F2 |-> Message(14, 2, FALSE, L(<<EachItem("OBJECTS", ObjectAttributes.Item),
        L(<<U1("OBJACK"), EachItem("ERRORS", ErrorInfo.Item)>>)>>)),
    S14F3 |-> Message(14, 3, TRUE, L(<<A("OBJSPEC"), Present("OBJTYPE"),
        EachItem("OBJIDS", Present(SELF)), EachItem("ATTRS", Attribute.Item)>>)),
    S14F4 |-> Message(14, 4, FALSE, L(<<EachItem("OBJECTS", ObjectAttributes.Item),
        L(<<U1("OBJACK"), EachItem("ERRORS", ErrorInfo.Item)>>)>>)),
    S14F5 |-> Message(14, 5, TRUE, A("OBJSPEC")),
    S14F6 |-> Message(14, 6, FALSE, L(<<EachItem("OBJTYPES", Present(SELF)),
        L(<<U1("OBJACK"), EachItem("ERRORS", ErrorInfo.Item)>>)>>)),
    S14F7 |-> Message(14, 7, TRUE, L(<<A("OBJSPEC"), EachItem("OBJTYPES",
        Present(SELF))>>)),
    S14F8 |-> Message(14, 8, FALSE, L(<<EachItem("OBJTYPES",
        ObjectTypeAttributes.Item), L(<<U1("OBJACK"), EachItem("ERRORS",
        ErrorInfo.Item)>>)>>)),
    S14F9 |-> Message(14, 9, TRUE, L(<<A("OBJSPEC"), Present("OBJTYPE"),
        EachItem("ATTRS", Attribute.Item)>>)),
    S14F10 |-> Message(14, 10, FALSE, L(<<A("OBJSPEC"), EachItem("ATTRS",
        Attribute.Item), L(<<U1("OBJACK"), EachItem("ERRORS", ErrorInfo.Item)>>)>>))]

BuildersS14F11to20 == [
    S14F11 |-> Message(14, 11, TRUE, L(<<A("OBJSPEC"), EachItem("ATTRS",
        Attribute.Item)>>)),
    S14F12 |-> Message(14, 12, FALSE, L(<<EachItem("ATTRS", Attribute.Item),
        L(<<U1("OBJACK"), EachItem("ERRORS", ErrorInfo.Item)>>)>>)),
    S14F13 |-> Message(14, 13, TRUE, L(<<A("OBJSPEC"), EachItem("ATTRS",
        Attribute.Item)>>)),
    S14F14 |-> Message(14, 14, FALSE, L(<<U4("OBJTOKEN"), EachItem("ATTRS",
        Attribute.Item), L(<<U1("OBJACK"), EachItem("ERRORS", ErrorInfo.Item)>>)>>)),
    S14F15 |-> Message(14, 15, TRUE, L(<<A("OBJSPEC"), U1("OBJCMD"), U4("OBJTOKEN"),
        EachItem("ATTRS", Attribute.Item)>>)),
    S14F16 |-> Message(14, 16, FALSE, L(<<EachItem("ATTRS", Attribute.Item),
        L(<<U1("OBJACK"), EachItem("ERRORS", ErrorInfo.Item)>>)>>)),
    S14F17 |-> Message(14, 17, TRUE, L(<<A("OBJSPEC"), U1("OBJCMD"), A("TARGETSPEC"),
        EachItem("ATTRS", Attribute.Item)>>)),
    S14F18 |-> Message(14, 18, FALSE, L(<<EachItem("ATTRS", Attribute.Item),
        L(<<U1("OBJACK"), EachItem("ERRORS", ErrorInfo.Item)>>)>>)),
    S14F19 |-> Message(14, 19, TRUE, L(<<Present("DATAID"), Present("OPID"),
        A("OBJSPEC"), A("SVCNAME"), EachItem("PARAMS", ServiceParam.Item)>>)),
    S14F20 |-> Message(14, 20, FALSE, L(<<B("SVCACK"), U4("LINKID"),
        EachItem("PARAMS", ServiceParam.Item), L(<<B("ERRSVCACK"), EachItem("ERRORS",
        ErrorInfo.Item)>>)>>))]

BuildersS14F21to28 == [
    S14F21 |-> Message(14, 21, TRUE, L(<<Present("DATAID"), Present("OPID"),
        U4("LINKID"), EachItem("PARAMS", ServiceParam.Item), L(<<B("SVCACK"),
        EachItem("ERRORS", ErrorInfo.Item)>>)>>)),
    S14F22 |-> Message(14, 22, FALSE, B("DATAACK")),
    S14F23 |-> Message(14, 23, TRUE, L(<<Present("DATAID"), Present("DATALENGTH")>>)),
    S14F24 |-> Message(14, 24, FALSE, B("GRANT")),
    S14F25 |-> Message(14, 25, TRUE, L(<<A("OBJSPEC"), EachItem("OBJTYPES",
        Present(SELF))>>)),
    S14F26 |-> Message(14, 26, FALSE, L(<<EachItem("OBJTYPES",
        ObjectTypeServices.Item), L(<<U1("OBJACK"), EachItem("ERRORS",
        ErrorInfo.Item)>>)>>)),
    S14F27 |-> Message(14, 27, TRUE, L(<<A("OBJSPEC"), Present("OBJTYPE"),
        EachItem("SVCNAMES", A(SELF))>>)),
    S14F28 |-> Message(14, 28, FALSE, L(<<EachItem("SERVICES", ServiceParams.Item),
        L(<<U1("OBJACK"), EachItem("ERRORS", ErrorInfo.Item)>>)>>))]

BuildersS15F1to13 == [
    S15F1 |-> Message(15, 1, TRUE, L(<<Present("DATAID"), A("RCPSPEC"),
        Present("RMDATASIZE")>>)),
    S15F2 |-> Message(15, 2, FALSE, B("RMGRNT")),
    S15F3 |-> Message(15, 3, TRUE, L(<<A("RMNSSPEC"), U1("RMNSCMD")>>)),
    S15F4 |-> Message(15, 4, FALSE, L(<<U1("RMACK"), EachItem("ERRORS",
        ErrorInfo.Item)>>)),
    S15F5 |-> Message(15, 5, TRUE, L(<<A("RMNSSPEC"), A("RMNEWNS")>>)),
    S15F6 |-> Message(15, 6, FALSE, L(<<U1("RMACK"), EachItem("ERRORS",
        ErrorInfo.Item)>>)),
    S15F7 |-> Message(15, 7, TRUE, A("OBJSPEC")),
    S15F8 |-> Message(15, 8, FALSE, L(<<Present("RMSPACE"), L(<<U1("RMACK"),
        EachItem("ERRORS", ErrorInfo.Item)>>)>>)),
    S15F9 |-> Message(15, 9, TRUE, A("RCPSPEC")),
    S15F10 |-> Message(15, 10, FALSE, L(<<U1("RCPSTAT"), A("RCPVERS"),
        L(<<U1("RMACK"), EachItem("ERRORS", ErrorInfo.Item)>>)>>)),
    S15F11 |-> Message(15, 11, TRUE, L(<<A("RMNSSPEC"), A("RCPCLASS"), A("RCPNAME"),
        A("AGENT")>>)),
    S15F12 |-> Message(15, 12, FALSE, L(<<A("AGENT"), A("RCPVERS"), L(<<U1("RMACK"),
        EachItem("ERRORS", ErrorInfo.Item)>>)>>)),
    S15F13 |-> Message(15, 13, TRUE, L(<<Present("DATAID"), BOOL("RCPUPDT"),
        A("RCPSPEC"), EachItem("ATTRIBUTES", RecipeAttribute.Item),
        Present("RCPBODY")>>))]

BuildersS15F14to24 == [
    S15F14 |-> Message(15, 14, FALSE, L(<<U1("RMACK"), EachItem("ERRORS",
        ErrorInfo.Item)>>)),
    S15F15 |-> Message(15, 15, TRUE, L(<<Present("DATAID"), A("RCPSPEC"),
        B("RCPSECCODE"), Present("SECTIONS")>>)),
    S15F16 |-> Message(15, 16, FALSE, L(<<B("RCPSECCODE"), L(<<U1("RMACK"),
        EachItem("ERRORS", ErrorInfo.Item)>>)>>)),
    S15F17 |-> Message(15, 17, TRUE, L(<<A("RCPSPEC"), B("RCPSECCODE")>>)),
    S15F18 |-> Message(15, 18, FALSE, L(<<Present("SECTIONS"), L(<<U1("RMACK"),
        EachItem("ERRORS", ErrorInfo.Item)>>)>>)),
    S15F19 |-> Message(15, 19, TRUE, L(<<A("RCPSPEC"), BOOL("RCPRENAME"),
        A("RCPNEWID")>>)),
    S15F20 |-> Message(15, 20, FALSE, L(<<U1("RMACK"), EachItem("ERRORS",
        ErrorInfo.Item)>>)),
    S15F21 |-> Message(15, 21, TRUE, L(<<Present("DATAID"), U1("RCPCMD"),
        A("RMNSSPEC"), Present("OPID"), A("AGENT"), EachItem("RECIPES", A(SELF))>>)),
    S15F22 |-> Message(15, 22, FALSE, L(<<A("AGENT"), U4("LINKID"), U1("RCPCMD"),
        L(<<U1("RMACK"), EachItem("ERRORS", ErrorInfo.Item)>>)>>)),
    S15F23 |-> Message(15, 23, TRUE, L(<<Present("DATAID"), A("OBJSPEC"),
        EachItem("RECIPES", A(SELF))>>)),
    S15F24 |-> Message(15, 24, FALSE, L(<<EachItem("RECIPES", EachItem(SELF,
        OptionalGroupItem(SELF, RecipeDescriptor.Item))), L(<<U1("RMACK"),
        EachItem("ERRORS", ErrorInfo.Item)>>)>>))]

BuildersS15F25to35 == [
    S15F25 |-> Message(15, 25, TRUE, L(<<Present("DATAID"), A("RMNSSPEC"), A("AGENT"),
        EachItem("PARAMETERS", RecipeParamRule.Item)>>)),
    S15F26 |-> Message(15, 26, FALSE, L(<<U1("RMACK"), EachItem("ERRORS",
        ErrorInfo.Item)>>)),
    S15F27 |-> Message(15, 27, TRUE, L(<<Present("DATAID"), BOOL("RCPOWCODE"),
        A("RCPSPEC"), EachItem("ATTRIBUTES", RecipeAttribute.Item),
        Present("RCPBODY")>>)),
    S15F28 |-> Message(15, 28, FALSE, L(<<A("RCPID"), EachItem("ATTRIBUTES",
        RecipeAttribute.Item), L(<<U1("RMACK"), EachItem("ERRORS",
        ErrorInfo.Item)>>)>>)),
    S15F29 |-> Message(15, 29, TRUE, L(<<Present("DATAID"), Present("OPID"),
        A("RESPEC"), EachItem("RECIPES", A(SELF))>>)),
    S15F30 |-> Message(15, 30, FALSE, L(<<Present("OPID"), U4("LINKID"), A("RCPID"),
        EachItem("ATTRIBUTES", RecipeAttribute.Item), L(<<U1("RMACK"),
        EachItem("ERRORS", ErrorInfo.Item)>>)>>)),
    S15F31 |-> Message(15, 31, TRUE, A("RCPSPEC")),
    S15F32 |-> Message(15, 32, FALSE, L(<<A("RCPSPEC"), EachItem("ATTRIBUTES",
        RecipeAttribute.Item), Present("RCPBODY"), L(<<U1("RMACK"), EachItem("ERRORS",
        ErrorInfo.Item)>>)>>)),
    S15F33 |-> Message(15, 33, TRUE, L(<<Present("DATAID"), A("RESPEC"),
        EachItem("SELECTIONS", RecipeSelection.Item)>>)),
    S15F34 |-> Message(15, 34, FALSE, L(<<U1("RMACK"), EachItem("ERRORS",
        ErrorInfo.Item)>>)),
    S15F35 |-> Message(15, 35, TRUE, L(<<Present("DATAID"), A("RESPEC"), U1("RCPDEL"),
        EachItem("RECIPES", A(SELF))>>))]

BuildersS15F36to47 == [
    S15F36 |-> Message(15, 36, FALSE, L(<<U1("RMACK"), EachItem("ERRORS",
        ErrorInfo.Item)>>)),
    S15F37 |-> Message(15, 37, TRUE, L(<<A("RMSEGSPEC"), U4("OBJTOKEN"), B("RMGRNT"),
        Present("OPID"), A("RCPID"), Present("RMCHGTYPE")>>)),
    S15F38 |-> Message(15, 38, FALSE, L(<<U1("RMACK"), EachItem("ERRORS",
        ErrorInfo.Item)>>)),
    S15F39 |-> Message(15, 39, TRUE, L(<<Present("DATAID"), U1("RMNSCMD"),
        A("RMRECSPEC"), A("RMSEGSPEC"), U4("OBJTOKEN")>>)),
    S15F40 |-> Message(15, 40, FALSE, L(<<U1("RMACK"), EachItem("ERRORS",
        ErrorInfo.Item)>>)),
    S15F41 |-> Message(15, 41, TRUE, L(<<Present("DATAID"), A("RMRECSPEC"),
        U4("OBJTOKEN"), U1("RMNSCMD"), L(<<A("RCPID"), A("RCPNEWID"), A("RMSEGSPEC"),
        Present("RMCHGTYPE"), Present("OPID"), A("TIMESTAMP"),
        BOOL("RMREQUESTOR")>>)>>)),
    S15F41Delete |-> Message(15, 41, TRUE, L(<<Present("DATAID"), A("RMRECSPEC"),
        U4("OBJTOKEN"), U1("RMNSCMD"), L(<<A("RCPID")>>)>>)),
    S15F42 |-> Message(15, 42, FALSE, L(<<U1("RMACK"), EachItem("ERRORS",
        ErrorInfo.Item)>>)),
    S15F43 |-> Message(15, 43, TRUE, L(<<Present("DATAID"), A("OBJSPEC"),
        A("TARGETSPEC")>>)),
    S15F44 |-> Message(15, 44, FALSE, L(<<EachItem("CHANGES", RecipeChange.Item),
        L(<<U1("RMACK"), EachItem("ERRORS", ErrorInfo.Item)>>)>>)),
    S15F45 |-> Message(15, 45, TRUE, L(<<Present("DATAID"), A("RCPSPEC"),
        A("RCPNEWID"), Present("RMCHGTYPE")>>)),
    S15F46 |-> Message(15, 46, FALSE, L(<<Present("RMCHGTYPE"), B("RMGRNT"),
        Present("OPID")>>)),
    S15F47 |-> Message(15, 47, TRUE, L(<<Present("DATAID"), A("OBJSPEC"),
        A("RMNSSPEC"), A("RMRECSPEC"), EachItem("SEGMENTS", A(SELF))>>))]

BuildersS15F48to54 == [
    S15F48 |-> Message(15, 48, FALSE, L(<<U1("RMACK"), EachItem("ERRORS",
        ErrorInfo.Item)>>)),
    S15F49 |-> Message(15, 49, TRUE, L(<<A("DSNAME"), BOOL("RCPOWCODE")>>)),
    S15F50 |-> Message(15, 50, FALSE, B("ACKC15")),
    S15F51 |-> Message(15, 51, TRUE, A("DSNAME")),
    S15F52 |-> Message(15, 52, FALSE, B("ACKC15")),
    S15F53 |-> Message(15, 53, TRUE, L(<<A("RCPSPEC"), A("RCPID"), L(<<U1("RMACK"),
        EachItem("ERRORS", ErrorInfo.Item)>>)>>)),
    S15F54 |-> Message(15, 54, FALSE, NewEmptyItem)]

BuildersS16F1to12 == [
    S16F1 |-> Message(16, 1, TRUE, L(<<Present("DATAID"), Present("DATALENGTH")>>)),
    S16F2 |-> Message(16, 2, FALSE, B("GRANT")),
    S16F3 |-> Message(16, 3, TRUE, L(<<Present("DATAID"), Present("MF"),
        EachItem("MIDS", Present(SELF)), L(<<U1("PRRECIPEMETHOD"), A("RCPSPEC"),
        EachItem("RECIPEPARAMS", RecipeParam.Item)>>), BOOL("PRPROCESSSTART")>>)),
    S16F4 |-> Message(16, 4, FALSE, L(<<A("PRJOBID"), L(<<BOOL("ACKA"),
        EachItem("ERRORS", ErrorInfo.Item)>>)>>)),
    S16F5 |-> Message(16, 5, TRUE, L(<<Present("DATAID"), A("PRJOBID"),
        A("PRCMDNAME"), EachItem("PARAMS", CommandParam.Item)>>)),
    S16F6 |-> Message(16, 6, FALSE, L(<<A("PRJOBID"), L(<<BOOL("ACKA"),
        EachItem("ERRORS", ErrorInfo.Item)>>)>>)),
    S16F7 |-> Message(16, 7, TRUE, L(<<A("TIMESTAMP"), A("PRJOBID"),
        Present("PRJOBMILESTONE"), L(<<BOOL("ACKA"), EachItem("ERRORS",
        ErrorInfo.Item)>>)>>)),
    S16F8 |-> Message(16, 8, FALSE, NewEmptyItem),
    S16F9 |-> Message(16, 9, TRUE, L(<<Present("PREVENTID"), A("TIMESTAMP"),
        A("PRJOBID"), EachItem("VARIABLES", VariableValue.Item)>>)),
    S16F10 |-> Message(16, 10, FALSE, NewEmptyItem),
    S16F11 |-> Message(16, 11, TRUE, L(<<Present("DATAID"), A("PRJOBID"),
        Present("MF"), Present("MATERIAL"), L(<<U1("PRRECIPEMETHOD"), A("RCPSPEC"),
        EachItem("RECIPEPARAMS", RecipeParam.Item)>>), BOOL("PRPROCESSSTART"),
        Present("PRPAUSEEVENT")>>)),
    S16F12 |-> Message(16, 12, FALSE, L(<<A("PRJOBID"), L(<<BOOL("ACKA"),
        EachItem("ERRORS", ErrorInfo.Item)>>)>>))]

BuildersS16F15to26 == [
    S16F15 |-> Message(16, 15, TRUE, L(<<Present("DATAID"), EachItem("JOBS",
        ProcessJob.Item)>>)),
    S16F16 |-> Message(16, 16, FALSE, L(<<EachItem("PRJOBIDS", A(SELF)),
        L(<<BOOL("ACKA"), EachItem("ERRORS", ErrorInfo.Item)>>)>>)),
    S16F17 |-> Message(16, 17, TRUE, EachItem("PRJOBIDS", A(SELF))),
    S16F18 |-> Message(16, 18, FALSE, L(<<EachItem("PRJOBIDS", A(SELF)),
        L(<<BOOL("ACKA"), EachItem("ERRORS", ErrorInfo.Item)>>)>>)),
    S16F19 |-> Message(16, 19, TRUE, NewEmptyItem),
    S16F20 |-> Message(16, 20, FALSE, EachItem("JOBS", ProcessJobState.Item)),
    S16F21 |-> Message(16, 21, TRUE, NewEmptyItem),
    S16F22 |-> Message(16, 22, FALSE, U2("PRJOBSPACE")),
    S16F23 |-> Message(16, 23, TRUE, L(<<A("PRJOBID"), EachItem("RECIPEPARAMS",
        RecipeParam.Item)>>)),
    S16F24 |-> Message(16, 24, FALSE, L(<<BOOL("ACKA"), EachItem("ERRORS",
        ErrorInfo.Item)>>)),
    S16F25 |-> Message(16, 25, TRUE, L(<<EachItem("PRJOBIDS", A(SELF)),
        BOOL("PRPROCESSSTART")>>)),
    S16F26 |-> Message(16, 26, FALSE, L(<<EachItem("PRJOBIDS", A(SELF)),
        L(<<BOOL("ACKA"), EachItem("ERRORS", ErrorInfo.Item)>>)>>))]

BuildersS16F27to30 == [
    S16F27 |-> Message(16, 27, TRUE, L(<<A("CTLJOBID"), U1("CTLJOBCMD"),
        L(<<Present("CPNAME"), Present("CPVAL")>>)>>)),
    S16F27NoParams |-> Message(16, 27, TRUE, L(<<A("CTLJOBID"), U1("CTLJOBCMD"),
        L(<<>>)>>)),
    S16F28 |-> Message(16, 28, FALSE, L(<<BOOL("ACKA"), L(<<Present("ERRCODE"),
        A("ERRTEXT")>>)>>)),
    S16F28Success |-> Message(16, 28, FALSE, L(<<BOOL("ACKA"), L(<<>>)>>)),
    S16F29 |-> Message(16, 29, TRUE, U1("PRMTRLORDER")),
    S16F30 |-> Message(16, 30, FALSE, BOOL("ACKA"))]

BuildersS17F1to11 == [
    S17F1 |-> Message(17, 1, TRUE, L(<<Present("DATAID"), Present("RPTID"),
        A("DATASRC"), EachItem("VIDS", Present(SELF))>>)),
    S17F2 |-> Message(17, 2, FALSE, L(<<Present("RPTID"), Present("ERRCODE")>>)),
    S17F3 |-> Message(17, 3, TRUE, EachItem("RPTIDS", Present(SELF))),
    S17F4 |-> Message(17, 4, FALSE, L(<<BOOL("ACKA"), EachItem("ERRORS",
        ReportError.Item)>>)),
    S17F5 |-> Message(17, 5, TRUE, L(<<Present("DATAID"), Present("TRID"),
        BOOL("CEED"), EachItem("RPTIDS", Present(SELF)), Present("TRSPER"),
        L(<<Present("TOTSMP"), Present("REPGSZ"), A("STARTEVNTSRC"),
        Present("STARTCEID"), A("STOPEVNTSRC"), Present("STOPCEID"),
        OptionalItem("TRAUTOD", BOOL(SELF)), OptionalItem("RPTOC", BOOL(SELF))>>)>>)),
    S17F5Untriggered |-> Message(17, 5, TRUE, L(<<Present("DATAID"), Present("TRID"),
        BOOL("CEED"), EachItem("RPTIDS", Present(SELF)), Present("TRSPER"),
        L(<<>>)>>)),
    S17F6 |-> Message(17, 6, FALSE, L(<<Present("TRID"), Present("ERRCODE")>>)),
    S17F7 |-> Message(17, 7, TRUE, EachItem("TRIDS", Present(SELF))),
    S17F8 |-> Message(17, 8, FALSE, L(<<BOOL("ACKA"), EachItem("ERRORS",
        TraceError.Item)>>)),
    S17F9 |-> Message(17, 9, TRUE, L(<<Present("DATAID"), A("EVNTSRC"),
        Present("CEID"), EachItem("RPTIDS", Present(SELF))>>)),
    S17F10 |-> Message(17, 10, FALSE, L(<<A("EVNTSRC"), Present("CEID"),
        Present("ERRCODE")>>)),
    S17F11 |-> Message(17, 11, TRUE, L(<<A("EVNTSRC"), Present("CEID"),
        Present("RPTID")>>))]

BuildersS17F12to14 == [
    S17F12 |-> Message(17, 12, FALSE, L(<<A("EVNTSRC"), Present("CEID"),
        Present("RPTID"), Present("ERRCODE")>>)),
    S17F13 |-> Message(17, 13, TRUE, EachItem("TRIDS", Present(SELF))),
    S17F14 |-> Message(17, 14, FALSE, L(<<BOOL("ACKA"), EachItem("ERRORS",
        TraceError.Item)>>))]

BuildersS18F1to13 == [
    S18F1 |-> Message(18, 1, TRUE, L(<<A("TARGETID"), EachItem("ATTRIDS",
        Present(SELF))>>)),
    S18F2 |-> Message(18, 2, FALSE, L(<<A("TARGETID"), A("SSACK"), EachItem("VALUES",
        Present(SELF))>>)),
    S18F3 |-> Message(18, 3, TRUE, L(<<A("TARGETID"), EachItem("ATTRIBUTES",
        Attribute.Item)>>)),
    S18F4 |-> Message(18, 4, FALSE, L(<<A("TARGETID"), A("SSACK"),
        EachItem("STATUSES", A(SELF))>>)),
    S18F5 |-> Message(18, 5, TRUE, L(<<A("TARGETID"), A("DATASEG"),
        Present("DATALENGTH")>>)),
    S18F6 |-> Message(18, 6, FALSE, L(<<A("TARGETID"), A("SSACK"), A("DATA"),
        EachItem("STATUSES", A(SELF))>>)),
    S18F7 |-> Message(18, 7, TRUE, L(<<A("TARGETID"), A("DATASEG"),
        Present("DATALENGTH"), A("DATA")>>)),
    S18F8 |-> Message(18, 8, FALSE, L(<<A("TARGETID"), A("SSACK"),
        EachItem("STATUSES", A(SELF))>>)),
    S18F9 |-> Message(18, 9, TRUE, A("TARGETID")),
    S18F10 |-> Message(18, 10, FALSE, L(<<A("TARGETID"), A("SSACK"), Present("MID"),
        EachItem("STATUSES", A(SELF))>>)),
    S18F11 |-> Message(18, 11, TRUE, L(<<A("TARGETID"), Present("MID")>>)),
    S18F12 |-> Message(18, 12, FALSE, L(<<A("TARGETID"), A("SSACK"),
        EachItem("STATUSES", A(SELF))>>)),
    S18F13 |-> Message(18, 13, TRUE, L(<<A("TARGETID"), A("SSCMD"), EachItem("PARAMS",
        Present(SELF))>>))]

BuildersS18F14to16 == [
    S18F14 |-> Message(18, 14, FALSE, L(<<A("TARGETID"), A("SSACK"),
        EachItem("STATUSES", A(SELF))>>)),
    S18F15 |-> Message(18, 15, TRUE, A("TARGETID")),
    S18F16 |-> Message(18, 16, FALSE, L(<<A("TARGETID"), A("SSACK"), Present("MID"),
        EachItem("STATUSES", A(SELF)), EachItem("CONDITIONS", A(SELF))>>))]

BuildersS19F1to11 == [
    S19F1 |-> Message(19, 1, TRUE, L(<<EachItem("FILTERS", PDEFilter.Item),
        EachItem("ATTRIBUTES", U1(SELF))>>)),
    S19F2 |-> Message(19, 2, FALSE, L(<<U1("DIRRSPSTAT"), A("STATUSTXT"),
        EachItem("PDES", PDEAttributes.Item)>>)),
    S19F3 |-> Message(19, 3, TRUE, EachItem("UIDS", A(SELF))),
    S19F4 |-> Message(19, 4, FALSE, EachItem("RESULTS", PDEDeleteResult.Item)),
    S19F5 |-> Message(19, 5, TRUE, EachItem("UIDS", A(SELF))),
    S19F6 |-> Message(19, 6, FALSE, L(<<A("TCID"), EachItem("RESULTS",
        PDEGetResult.Item)>>)),
    S19F7 |-> Message(19, 7, TRUE, EachItem("UIDS", A(SELF))),
    S19F8 |-> Message(19, 8, FALSE, L(<<A("TCID"), EachItem("RESULTS",
        PDEGetResult.Item)>>)),
    S19F9 |-> Message(19, 9, TRUE, L(<<A("TCID"), U8("TRANSFERSIZE")>>)),
    S19F10 |-> Message(19, 10, FALSE, L(<<A("TCID"), U1("RTSRSPSTAT"),
        A("STATUSTXT")>>)),
    S19F11 |-> Message(19, 11, TRUE, A("TCID"))]

BuildersS19F12to20 == [
    S19F12 |-> Message(19, 12, FALSE, NewEmptyItem),
    S19F13 |-> Message(19, 13, TRUE, L(<<A("TCID"), U1("SENDRESULT"),
        EachItem("RESULTS", PDESendResult.Item)>>)),
    S19F14 |-> Message(19, 14, FALSE, NewEmptyItem),
    S19F15 |-> Message(19, 15, TRUE, L(<<A("TARGETPDE"), EachItem("INPUTMAP",
        PDEReference.Item)>>)),
    S19F16 |-> Message(19, 16, FALSE, L(<<EachItem("OUTPUTMAP", PDEReference.Item),
        EachItem("RESULTS", PDEResolveResult.Item)>>)),
    S19F17 |-> Message(19, 17, TRUE, L(<<A("TARGETPDE"), EachItem("INPUTMAP",
        PDEReference.Item), U1("VERIFYTYPE"), U1("VERIFYDEPTH")>>)),
    S19F18 |-> Message(19, 18, FALSE, L(<<BOOL("VERIFYSUCCESS"), EachItem("RESULTS",
        PDEVerifyResult.Item)>>)),
    S19F19 |-> Message(19, 19, TRUE, Present("DATALENGTH")),
    S19F20 |-> Message(19, 20, FALSE, B("GRANT"))]
=============================================================================

------------------------- MODULE GemDecoders14to19 --------------------------
(***************************************************************************)
(* The message decoders of package gem (gem/s14_decode.go to               *)
(* gem/s19_decode.go): the reads each makes of a body.                     *)
(***************************************************************************)
EXTENDS GemGroups

DecodersS14F1to2 == [
    DecodeS14F1 |-> Fixed(<<ASCII("OBJSPEC"), ScalarItem("OBJTYPE"), Each("OBJIDS",
        ScalarItem(SELF)), Each("QUALIFIERS", AttributeQualifier.decode),
        Each("ATTRIDS", ScalarItem(SELF))>>),
    DecodeS14F2 |-> Fixed(<<Each("OBJECTS", ObjectAttributes.decode),
        Fixed(<<UintAs("OBJACK", OBJACK), Each("ERRORS", ErrorInfo.decode)>>)>>)]

DecodersS14F3to5 == [
    DecodeS14F3 |-> Fixed(<<ASCII("OBJSPEC"), ScalarItem("OBJTYPE"), Each("OBJIDS",
        ScalarItem(SELF)), Each("ATTRS", Attribute.decode)>>),
    DecodeS14F4 |-> Fixed(<<Each("OBJECTS", ObjectAttributes.decode),
        Fixed(<<UintAs("OBJACK", OBJACK), Each("ERRORS", ErrorInfo.decode)>>)>>),
    DecodeS14F5 |-> ASCII("OBJSPEC")]

DecodersS14F6to8 == [
    DecodeS14F6 |-> Fixed(<<Each("OBJTYPES", ScalarItem(SELF)),
        Fixed(<<UintAs("OBJACK", OBJACK), Each("ERRORS", ErrorInfo.decode)>>)>>),
    DecodeS14F7 |-> Fixed(<<ASCII("OBJSPEC"), Each("OBJTYPES", ScalarItem(SELF))>>),
    DecodeS14F8 |-> Fixed(<<Each("OBJTYPES", ObjectTypeAttributes.decode),
        Fixed(<<UintAs("OBJACK", OBJACK), Each("ERRORS", ErrorInfo.decode)>>)>>)]

DecodersS14F9to11 == [
    DecodeS14F9 |-> Fixed(<<ASCII("OBJSPEC"), ScalarItem("OBJTYPE"), Each("ATTRS",
        Attribute.decode)>>),
    DecodeS14F10 |-> Fixed(<<ASCII("OBJSPEC"), Each("ATTRS", Attribute.decode),
        Fixed(<<UintAs("OBJACK", OBJACK), Each("ERRORS", ErrorInfo.decode)>>)>>),
    DecodeS14F11 |-> Fixed(<<ASCII("OBJSPEC"), Each("ATTRS", Attribute.decode)>>)]

DecodersS14F12to14 == [
    DecodeS14F12 |-> Fixed(<<Each("ATTRS", Attribute.decode), Fixed(<<UintAs("OBJACK",
        OBJACK), Each("ERRORS", ErrorInfo.decode)>>)>>),
    DecodeS14F13 |-> Fixed(<<ASCII("OBJSPEC"), Each("ATTRS", Attribute.decode)>>),
    DecodeS14F14 |-> Fixed(<<UintAs("OBJTOKEN", Uint32), Each("ATTRS",
        Attribute.decode), Fixed(<<UintAs("OBJACK", OBJACK), Each("ERRORS",
        ErrorInfo.decode)>>)>>)]

DecodersS14F15to17 == [
    DecodeS14F15 |-> Fixed(<<ASCII("OBJSPEC"), UintAs("OBJCMD", OBJCMD),
        UintAs("OBJTOKEN", Uint32), Each("ATTRS", Attribute.decode)>>),
    DecodeS14F16 |-> Fixed(<<Each("ATTRS", Attribute.decode), Fixed(<<UintAs("OBJACK",
        OBJACK), Each("ERRORS", ErrorInfo.decode)>>)>>),
    DecodeS14F17 |-> Fixed(<<ASCII("OBJSPEC"), UintAs("OBJCMD", OBJCMD),
        ASCII("TARGETSPEC"), Each("ATTRS", Attribute.decode)>>)]

DecodersS14F18to19 == [
    DecodeS14F18 |-> Fixed(<<Each("ATTRS", Attribute.decode), Fixed(<<UintAs("OBJACK",
        OBJACK), Each("ERRORS", ErrorInfo.decode)>>)>>),
    DecodeS14F19 |-> Fixed(<<ScalarItem("DATAID"), ScalarItem("OPID"),
        ASCII("OBJSPEC"), ASCIIAs("SVCNAME", SVCNAME), Each("PARAMS",
        ServiceParam.decode)>>)]

DecodersS14F20to21 == [
    DecodeS14F20 |-> Fixed(<<ByteAs("SVCACK", SVCACK), UintAs("LINKID", Uint32),
        Each("PARAMS", ServiceParam.decode), Fixed(<<ByteAs("ERRSVCACK", SVCACK),
        Each("ERRORS", ErrorInfo.decode)>>)>>),
    DecodeS14F21 |-> Fixed(<<ScalarItem("DATAID"), ScalarItem("OPID"),
        UintAs("LINKID", Uint32), Each("PARAMS", ServiceParam.decode),
        Fixed(<<ByteAs("SVCACK", SVCACK), Each("ERRORS", ErrorInfo.decode)>>)>>)]

DecodersS14F22to25 == [
    DecodeS14F22 |-> ByteAs("DATAACK", DATAACK),
    DecodeS14F23 |-> Fixed(<<ScalarItem("DATAID"), ScalarItem("DATALENGTH")>>),
    DecodeS14F24 |-> ByteAs("GRANT", GRANT),
    DecodeS14F25 |-> Fixed(<<ASCII("OBJSPEC"), Each("OBJTYPES", ScalarItem(SELF))>>)]

DecodersS14F26to28 == [
    DecodeS14F26 |-> Fixed(<<Each("OBJTYPES", ObjectTypeServices.decode),
        Fixed(<<UintAs("OBJACK", OBJACK), Each("ERRORS", ErrorInfo.decode)>>)>>),
    DecodeS14F27 |-> Fixed(<<ASCII("OBJSPEC"), ScalarItem("OBJTYPE"), Each("SVCNAMES",
        ASCIIAs(SELF, SVCNAME))>>),
    DecodeS14F28 |-> Fixed(<<Each("SERVICES", ServiceParams.decode),
        Fixed(<<UintAs("OBJACK", OBJACK), Each("ERRORS", ErrorInfo.decode)>>)>>)]

DecodersS15F1to3 == [
    DecodeS15F1 |-> Fixed(<<ScalarItem("DATAID"), ASCII("RCPSPEC"),
        ScalarItem("RMDATASIZE")>>),
    DecodeS15F2 |-> ByteAs("RMGRNT", RMGRNT),
    DecodeS15F3 |-> Fixed(<<ASCII("RMNSSPEC"), UintAs("RMNSCMD", RMNSCMD)>>)]

DecodersS15F4to7 == [
    DecodeS15F4 |-> Fixed(<<UintAs("RMACK", RMACK), Each("ERRORS", ErrorInfo.decode)>>),
    DecodeS15F5 |-> Fixed(<<ASCII("RMNSSPEC"), ASCII("RMNEWNS")>>),
    DecodeS15F6 |-> Fixed(<<UintAs("RMACK", RMACK), Each("ERRORS", ErrorInfo.decode)>>),
    DecodeS15F7 |-> ASCII("OBJSPEC")]

DecodersS15F8to10 == [
    DecodeS15F8 |-> Fixed(<<ScalarItem("RMSPACE"), Fixed(<<UintAs("RMACK", RMACK),
        Each("ERRORS", ErrorInfo.decode)>>)>>),
    DecodeS15F9 |-> ASCII("RCPSPEC"),
    DecodeS15F10 |-> Fixed(<<UintAs("RCPSTAT", RCPSTAT), ASCII("RCPVERS"),
        Fixed(<<UintAs("RMACK", RMACK), Each("ERRORS", ErrorInfo.decode)>>)>>)]

DecodersS15F11to12 == [
    DecodeS15F11 |-> Fixed(<<ASCII("RMNSSPEC"), ASCII("RCPCLASS"), ASCII("RCPNAME"),
        ASCII("AGENT")>>),
    DecodeS15F12 |-> Fixed(<<ASCII("AGENT"), ASCII("RCPVERS"), Fixed(<<UintAs("RMACK",
        RMACK), Each("ERRORS", ErrorInfo.decode)>>)>>)]

DecodersS15F13to15 == [
    DecodeS15F13 |-> Fixed(<<ScalarItem("DATAID"), Bool("RCPUPDT"), ASCII("RCPSPEC"),
        Each("ATTRIBUTES", RecipeAttribute.decode), ScalarItem("RCPBODY")>>),
    DecodeS15F14 |-> Fixed(<<UintAs("RMACK", RMACK), Each("ERRORS",
        ErrorInfo.decode)>>),
    DecodeS15F15 |-> Fixed(<<ScalarItem("DATAID"), ASCII("RCPSPEC"),
        ByteAs("RCPSECCODE", RCPSECCODE), AnyItem("SECTIONS")>>)]

DecodersS15F16to18 == [
    DecodeS15F16 |-> Fixed(<<ByteAs("RCPSECCODE", RCPSECCODE), Fixed(<<UintAs("RMACK",
        RMACK), Each("ERRORS", ErrorInfo.decode)>>)>>),
    DecodeS15F17 |-> Fixed(<<ASCII("RCPSPEC"), ByteAs("RCPSECCODE", RCPSECCODE)>>),
    DecodeS15F18 |-> Fixed(<<AnyItem("SECTIONS"), Fixed(<<UintAs("RMACK", RMACK),
        Each("ERRORS", ErrorInfo.decode)>>)>>)]

DecodersS15F19to21 == [
    DecodeS15F19 |-> Fixed(<<ASCII("RCPSPEC"), Bool("RCPRENAME"), ASCII("RCPNEWID")>>),
    DecodeS15F20 |-> Fixed(<<UintAs("RMACK", RMACK), Each("ERRORS",
        ErrorInfo.decode)>>),
    DecodeS15F21 |-> Fixed(<<ScalarItem("DATAID"), UintAs("RCPCMD", RCPCMD),
        ASCII("RMNSSPEC"), ScalarItem("OPID"), ASCII("AGENT"), Each("RECIPES",
        ASCII(SELF))>>)]

DecodersS15F22to23 == [
    DecodeS15F22 |-> Fixed(<<ASCII("AGENT"), UintAs("LINKID", Uint32),
        UintAs("RCPCMD", RCPCMD), Fixed(<<UintAs("RMACK", RMACK), Each("ERRORS",
        ErrorInfo.decode)>>)>>),
    DecodeS15F23 |-> Fixed(<<ScalarItem("DATAID"), ASCII("OBJSPEC"), Each("RECIPES",
        ASCII(SELF))>>)]

DecodersS15F24to26 == [
    DecodeS15F24 |-> Fixed(<<Each("RECIPES", Each(SELF, OptionalGroup(SELF, 3,
        RecipeDescriptor.decode))), Fixed(<<UintAs("RMACK", RMACK), Each("ERRORS",
        ErrorInfo.decode)>>)>>),
    DecodeS15F25 |-> Fixed(<<ScalarItem("DATAID"), ASCII("RMNSSPEC"), ASCII("AGENT"),
        Each("PARAMETERS", RecipeParamRule.decode)>>),
    DecodeS15F26 |-> Fixed(<<UintAs("RMACK", RMACK), Each("ERRORS",
        ErrorInfo.decode)>>)]

DecodersS15F27to28 == [
    DecodeS15F27 |-> Fixed(<<ScalarItem("DATAID"), Bool("RCPOWCODE"),
        ASCII("RCPSPEC"), Each("ATTRIBUTES", RecipeAttribute.decode),
        ScalarItem("RCPBODY")>>),
    DecodeS15F28 |-> Fixed(<<ASCII("RCPID"), Each("ATTRIBUTES",
        RecipeAttribute.decode), Fixed(<<UintAs("RMACK", RMACK), Each("ERRORS",
        ErrorInfo.decode)>>)>>)]

DecodersS15F29to31 == [
    DecodeS15F29 |-> Fixed(<<ScalarItem("DATAID"), ScalarItem("OPID"),
        ASCII("RESPEC"), Each("RECIPES", ASCII(SELF))>>),
    DecodeS15F30 |-> Fixed(<<ScalarItem("OPID"), UintAs("LINKID", Uint32),
        ASCII("RCPID"), Each("ATTRIBUTES", RecipeAttribute.decode),
        Fixed(<<UintAs("RMACK", RMACK), Each("ERRORS", ErrorInfo.decode)>>)>>),
    DecodeS15F31 |-> ASCII("RCPSPEC")]

DecodersS15F32to34 == [
    DecodeS15F32 |-> Fixed(<<ASCII("RCPSPEC"), Each("ATTRIBUTES",
        RecipeAttribute.decode), ScalarItem("RCPBODY"), Fixed(<<UintAs("RMACK",
        RMACK), Each("ERRORS", ErrorInfo.decode)>>)>>),
    DecodeS15F33 |-> Fixed(<<ScalarItem("DATAID"), ASCII("RESPEC"), Each("SELECTIONS",
        RecipeSelection.decode)>>),
    DecodeS15F34 |-> Fixed(<<UintAs("RMACK", RMACK), Each("ERRORS",
        ErrorInfo.decode)>>)]

DecodersS15F35to37 == [
    DecodeS15F35 |-> Fixed(<<ScalarItem("DATAID"), ASCII("RESPEC"), UintAs("RCPDEL",
        RCPDEL), Each("RECIPES", ASCII(SELF))>>),
    DecodeS15F36 |-> Fixed(<<UintAs("RMACK", RMACK), Each("ERRORS",
        ErrorInfo.decode)>>),
    DecodeS15F37 |-> Fixed(<<ASCII("RMSEGSPEC"), UintAs("OBJTOKEN", Uint32),
        ByteAs("RMGRNT", RMGRNT), ScalarItem("OPID"), ASCII("RCPID"),
        ScalarItem("RMCHGTYPE")>>)]

DecodersS15F38to40 == [
    DecodeS15F38 |-> Fixed(<<UintAs("RMACK", RMACK), Each("ERRORS",
        ErrorInfo.decode)>>),
    DecodeS15F39 |-> Fixed(<<ScalarItem("DATAID"), UintAs("RMNSCMD", RMNSCMD),
        ASCII("RMRECSPEC"), ASCII("RMSEGSPEC"), UintAs("OBJTOKEN", Uint32)>>),
    DecodeS15F40 |-> Fixed(<<UintAs("RMACK", RMACK), Each("ERRORS",
        ErrorInfo.decode)>>)]

DecodersS15F41to42 == [
    DecodeS15F41 |-> Fixed(<<ScalarItem("DATAID"), ASCII("RMRECSPEC"),
        UintAs("OBJTOKEN", Uint32), UintAs("RMNSCMD", RMNSCMD), ShortOrFull(1,
        <<ASCII("RCPID"), ASCII("RCPNEWID"), ASCII("RMSEGSPEC"),
        ScalarItem("RMCHGTYPE"), ScalarItem("OPID"), ASCII("TIMESTAMP"),
        Bool("RMREQUESTOR")>>)>>),
    DecodeS15F42 |-> Fixed(<<UintAs("RMACK", RMACK), Each("ERRORS",
        ErrorInfo.decode)>>)]

DecodersS15F43to45 == [
    DecodeS15F43 |-> Fixed(<<ScalarItem("DATAID"), ASCII("OBJSPEC"),
        ASCII("TARGETSPEC")>>),
    DecodeS15F44 |-> Fixed(<<Each("CHANGES", RecipeChange.decode),
        Fixed(<<UintAs("RMACK", RMACK), Each("ERRORS", ErrorInfo.decode)>>)>>),
    DecodeS15F45 |-> Fixed(<<ScalarItem("DATAID"), ASCII("RCPSPEC"),
        ASCII("RCPNEWID"), ScalarItem("RMCHGTYPE")>>)]

DecodersS15F46to48 == [
    DecodeS15F46 |-> Fixed(<<ScalarItem("RMCHGTYPE"), ByteAs("RMGRNT", RMGRNT),
        ScalarItem("OPID")>>),
    DecodeS15F47 |-> Fixed(<<ScalarItem("DATAID"), ASCII("OBJSPEC"),
        ASCII("RMNSSPEC"), ASCII("RMRECSPEC"), Each("SEGMENTS", ASCII(SELF))>>),
    DecodeS15F48 |-> Fixed(<<UintAs("RMACK", RMACK), Each("ERRORS",
        ErrorInfo.decode)>>)]

DecodersS15F49to52 == [
    DecodeS15F49 |-> Fixed(<<ASCII("DSNAME"), Bool("RCPOWCODE")>>),
    DecodeS15F50 |-> ByteAs("ACKC15", ACKC15),
    DecodeS15F51 |-> ASCII("DSNAME"),
    DecodeS15F52 |-> ByteAs("ACKC15", ACKC15)]

DecodersS15F53 == [
    DecodeS15F53 |-> Fixed(<<ASCII("RCPSPEC"), ASCII("RCPID"), Fixed(<<UintAs("RMACK",
        RMACK), Each("ERRORS", ErrorInfo.decode)>>)>>)]

DecodersS16F1to3 == [
    DecodeS16F1 |-> Fixed(<<ScalarItem("DATAID"), ScalarItem("DATALENGTH")>>),
    DecodeS16F2 |-> ByteAs("GRANT", GRANT),
    DecodeS16F3 |-> Fixed(<<ScalarItem("DATAID"), ScalarItem("MF"), Each("MIDS",
        ScalarItem(SELF)), Fixed(<<UintAs("PRRECIPEMETHOD", PRRECIPEMETHOD),
        ASCII("RCPSPEC"), Each("RECIPEPARAMS", RecipeParam.decode)>>),
        Bool("PRPROCESSSTART")>>)]

DecodersS16F4to6 == [
    DecodeS16F4 |-> Fixed(<<ASCII("PRJOBID"), Fixed(<<Bool("ACKA"), Each("ERRORS",
        ErrorInfo.decode)>>)>>),
    DecodeS16F5 |-> Fixed(<<ScalarItem("DATAID"), ASCII("PRJOBID"),
        ASCIIAs("PRCMDNAME", PRCMDNAME), Each("PARAMS", CommandParam.decode)>>),
    DecodeS16F6 |-> Fixed(<<ASCII("PRJOBID"), Fixed(<<Bool("ACKA"), Each("ERRORS",
        ErrorInfo.decode)>>)>>)]

DecodersS16F7to9 == [
    DecodeS16F7 |-> Fixed(<<ASCII("TIMESTAMP"), ASCII("PRJOBID"),
        ScalarItem("PRJOBMILESTONE"), Fixed(<<Bool("ACKA"), Each("ERRORS",
        ErrorInfo.decode)>>)>>),
    DecodeS16F9 |-> Fixed(<<ScalarItem("PREVENTID"), ASCII("TIMESTAMP"),
        ASCII("PRJOBID"), Each("VARIABLES", VariableValue.decode)>>)]

DecodersS16F11to12 == [
    DecodeS16F11 |-> Fixed(<<ScalarItem("DATAID"), ASCII("PRJOBID"), ScalarItem("MF"),
        AnyItem("MATERIAL"), Fixed(<<UintAs("PRRECIPEMETHOD", PRRECIPEMETHOD),
        ASCII("RCPSPEC"), Each("RECIPEPARAMS", RecipeParam.decode)>>),
        Bool("PRPROCESSSTART"), AnyItem("PRPAUSEEVENT")>>),
    DecodeS16F12 |-> Fixed(<<ASCII("PRJOBID"), Fixed(<<Bool("ACKA"), Each("ERRORS",
        ErrorInfo.decode)>>)>>)]

DecodersS16F15to17 == [
    DecodeS16F15 |-> Fixed(<<ScalarItem("DATAID"), Each("JOBS", ProcessJob.decode)>>),
    DecodeS16F16 |-> Fixed(<<Each("PRJOBIDS", ASCII(SELF)), Fixed(<<Bool("ACKA"),
        Each("ERRORS", ErrorInfo.decode)>>)>>),
    DecodeS16F17 |-> Each("PRJOBIDS", ASCII(SELF))]

DecodersS16F18to23 == [
    DecodeS16F18 |-> Fixed(<<Each("PRJOBIDS", ASCII(SELF)), Fixed(<<Bool("ACKA"),
        Each("ERRORS", ErrorInfo.decode)>>)>>),
    DecodeS16F20 |-> Each("JOBS", ProcessJobState.decode),
    DecodeS16F22 |-> UintAs("PRJOBSPACE", Uint16),
    DecodeS16F23 |-> Fixed(<<ASCII("PRJOBID"), Each("RECIPEPARAMS",
        RecipeParam.decode)>>)]

DecodersS16F24to26 == [
    DecodeS16F24 |-> Fixed(<<Bool("ACKA"), Each("ERRORS", ErrorInfo.decode)>>),
    DecodeS16F25 |-> Fixed(<<Each("PRJOBIDS", ASCII(SELF)), Bool("PRPROCESSSTART")>>),
    DecodeS16F26 |-> Fixed(<<Each("PRJOBIDS", ASCII(SELF)), Fixed(<<Bool("ACKA"),
        Each("ERRORS", ErrorInfo.decode)>>)>>)]

DecodersS16F27to29 == [
    DecodeS16F27 |-> Fixed(<<ASCII("CTLJOBID"), UintAs("CTLJOBCMD", CTLJOBCMD),
        ShortOrFull(0, <<ScalarItem("CPNAME"), ScalarItem("CPVAL")>>)>>),
    DecodeS16F28 |-> Fixed(<<Bool("ACKA"), ShortOrFull(0, <<ScalarItem("ERRCODE"),
        ASCII("ERRTEXT")>>)>>),
    DecodeS16F29 |-> UintAs("PRMTRLORDER", PRMTRLORDER)]

DecodersS16F30 == [
    DecodeS16F30 |-> Bool("ACKA")]

DecodersS17F1to3 == [
    DecodeS17F1 |-> Fixed(<<ScalarItem("DATAID"), ScalarItem("RPTID"),
        ASCII("DATASRC"), Each("VIDS", ScalarItem(SELF))>>),
    DecodeS17F2 |-> Fixed(<<ScalarItem("RPTID"), ScalarItem("ERRCODE")>>),
    DecodeS17F3 |-> Each("RPTIDS", ScalarItem(SELF))]

DecodersS17F4to5 == [
    DecodeS17F4 |-> Fixed(<<Bool("ACKA"), Each("ERRORS", ReportError.decode)>>),
    DecodeS17F5 |-> Fixed(<<ScalarItem("DATAID"), ScalarItem("TRID"), Bool("CEED"),
        Each("RPTIDS", ScalarItem(SELF)), ScalarItem("TRSPER"), ShortOrFull(0,
        <<ScalarItem("TOTSMP"), ScalarItem("REPGSZ"), ASCII("STARTEVNTSRC"),
        ScalarItem("STARTCEID"), ASCII("STOPEVNTSRC"), ScalarItem("STOPCEID"),
        Optional("TRAUTOD", Bool(SELF)), Optional("RPTOC", Bool(SELF))>>)>>)]

DecodersS17F6to8 == [
    DecodeS17F6 |-> Fixed(<<ScalarItem("TRID"), ScalarItem("ERRCODE")>>),
    DecodeS17F7 |-> Each("TRIDS", ScalarItem(SELF)),
    DecodeS17F8 |-> Fixed(<<Bool("ACKA"), Each("ERRORS", TraceError.decode)>>)]

DecodersS17F9to11 == [
    DecodeS17F9 |-> Fixed(<<ScalarItem("DATAID"), ASCII("EVNTSRC"),
        ScalarItem("CEID"), Each("RPTIDS", ScalarItem(SELF))>>),
    DecodeS17F10 |-> Fixed(<<ASCII("EVNTSRC"), ScalarItem("CEID"),
        ScalarItem("ERRCODE")>>),
    DecodeS17F11 |-> Fixed(<<ASCII("EVNTSRC"), ScalarItem("CEID"),
        ScalarItem("RPTID")>>)]

DecodersS17F12to14 == [
    DecodeS17F12 |-> Fixed(<<ASCII("EVNTSRC"), ScalarItem("CEID"),
        ScalarItem("RPTID"), ScalarItem("ERRCODE")>>),
    DecodeS17F13 |-> Each("TRIDS", ScalarItem(SELF)),
    DecodeS17F14 |-> Fixed(<<Bool("ACKA"), Each("ERRORS", TraceError.decode)>>)]

DecodersS18F1to3 == [
    DecodeS18F1 |-> Fixed(<<ASCII("TARGETID"), Each("ATTRIDS", ScalarItem(SELF))>>),
    DecodeS18F2 |-> Fixed(<<ASCII("TARGETID"), ASCII("SSACK"), Items("VALUES")>>),
    DecodeS18F3 |-> Fixed(<<ASCII("TARGETID"), Each("ATTRIBUTES", Attribute.decode)>>)]

DecodersS18F4to6 == [
    DecodeS18F4 |-> Fixed(<<ASCII("TARGETID"), ASCII("SSACK"), Each("STATUSES",
        ASCII(SELF))>>),
    DecodeS18F5 |-> Fixed(<<ASCII("TARGETID"), ASCII("DATASEG"),
        ScalarItem("DATALENGTH")>>),
    DecodeS18F6 |-> Fixed(<<ASCII("TARGETID"), ASCII("SSACK"), ASCII("DATA"),
        Each("STATUSES", ASCII(SELF))>>)]

DecodersS18F7to9 == [
    DecodeS18F7 |-> Fixed(<<ASCII("TARGETID"), ASCII("DATASEG"),
        ScalarItem("DATALENGTH"), ASCII("DATA")>>),
    DecodeS18F8 |-> Fixed(<<ASCII("TARGETID"), ASCII("SSACK"), Each("STATUSES",
        ASCII(SELF))>>),
    DecodeS18F9 |-> ASCII("TARGETID")]

DecodersS18F10to12 == [
    DecodeS18F10 |-> Fixed(<<ASCII("TARGETID"), ASCII("SSACK"), ScalarItem("MID"),
        Each("STATUSES", ASCII(SELF))>>),
    DecodeS18F11 |-> Fixed(<<ASCII("TARGETID"), ScalarItem("MID")>>),
    DecodeS18F12 |-> Fixed(<<ASCII("TARGETID"), ASCII("SSACK"), Each("STATUSES",
        ASCII(SELF))>>)]

DecodersS18F13to15 == [
    DecodeS18F13 |-> Fixed(<<ASCII("TARGETID"), ASCII("SSCMD"), Each("PARAMS",
        ScalarItem(SELF))>>),
    DecodeS18F14 |-> Fixed(<<ASCII("TARGETID"), ASCII("SSACK"), Each("STATUSES",
        ASCII(SELF))>>),
    DecodeS18F15 |-> ASCII("TARGETID")]

DecodersS18F16 == [
    DecodeS18F16 |-> Fixed(<<ASCII("TARGETID"), ASCII("SSACK"), ScalarItem("MID"),
        Each("STATUSES", ASCII(SELF)), Each("CONDITIONS", ASCII(SELF))>>)]

DecodersS19F1to4 == [
    DecodeS19F1 |-> Fixed(<<Each("FILTERS", PDEFilter.decode), Each("ATTRIBUTES",
        UintAs(SELF, PDEATTRIBUTE))>>),
    DecodeS19F2 |-> Fixed(<<UintAs("DIRRSPSTAT", DIRRSPSTAT), ASCII("STATUSTXT"),
        Each("PDES", PDEAttributes.decode)>>),
    DecodeS19F3 |-> Each("UIDS", ASCII(SELF)),
    DecodeS19F4 |-> Each("RESULTS", PDEDeleteResult.decode)]

DecodersS19F5to8 == [
    DecodeS19F5 |-> Each("UIDS", ASCII(SELF)),
    DecodeS19F6 |-> Fixed(<<ASCII("TCID"), Each("RESULTS", PDEGetResult.decode)>>),
    DecodeS19F7 |-> Each("UIDS", ASCII(SELF)),
    DecodeS19F8 |-> Fixed(<<ASCII("TCID"), Each("RESULTS", PDEGetResult.decode)>>)]

DecodersS19F9to11 == [
    DecodeS19F9 |-> Fixed(<<ASCII("TCID"), UintAs("TRANSFERSIZE", Uint64)>>),
    DecodeS19F10 |-> Fixed(<<ASCII("TCID"), UintAs("RTSRSPSTAT", RTSRSPSTAT),
        ASCII("STATUSTXT")>>),
    DecodeS19F11 |-> ASCII("TCID")]

DecodersS19F13to16 == [
    DecodeS19F13 |-> Fixed(<<ASCII("TCID"), UintAs("SENDRESULT", SENDRESULT),
        Each("RESULTS", PDESendResult.decode)>>),
    DecodeS19F15 |-> Fixed(<<ASCII("TARGETPDE"), Each("INPUTMAP",
        PDEReference.decode)>>),
    DecodeS19F16 |-> Fixed(<<Each("OUTPUTMAP", PDEReference.decode), Each("RESULTS",
        PDEResolveResult.decode)>>)]

DecodersS19F17to20 == [
    DecodeS19F17 |-> Fixed(<<ASCII("TARGETPDE"), Each("INPUTMAP",
        PDEReference.decode), UintAs("VERIFYTYPE", VERIFYTYPE), UintAs("VERIFYDEPTH",
        VERIFYDEPTH)>>),
    DecodeS19F18 |-> Fixed(<<Bool("VERIFYSUCCESS"), Each("RESULTS",
        PDEVerifyResult.decode)>>),
    DecodeS19F19 |-> ScalarItem("DATALENGTH"),
    DecodeS19F20 |-> ByteAs("GRANT", GRANT)]
=============================================================================

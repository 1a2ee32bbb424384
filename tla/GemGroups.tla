----------------------------- MODULE GemGroups ------------------------------
(***************************************************************************)
(* The lists that several message bodies share (gem/groups.go): for each   *)
(* group the list its Item method builds and the read of its decode        *)
(* function.                                                               *)
(***************************************************************************)
EXTENDS GemItems

ErrorInfo == [Item |-> L(<<Present("ERRCODE"), A("ERRTEXT")>>),
    decode |-> Fixed(<<ScalarItem("ERRCODE"), ASCII("ERRTEXT")>>)]

Attribute == [Item |-> L(<<Present("ATTRID"), Present("ATTRDATA")>>),
    decode |-> Fixed(<<ScalarItem("ATTRID"), AnyItem("ATTRDATA")>>)]

RecipeAttribute == [Item |-> L(<<A("RCPATTRID"), Present("RCPATTRDATA")>>),
    decode |-> Fixed(<<ASCII("RCPATTRID"), AnyItem("RCPATTRDATA")>>)]

CommandParam == [Item |-> L(<<Present("CPNAME"), Present("CPVAL")>>),
    decode |-> Fixed(<<ScalarItem("CPNAME"), ScalarItem("CPVAL")>>)]

Report == [Item |-> L(<<Present("RPTID"), EachItem("VALUES", Present(SELF))>>),
    decode |-> Fixed(<<ScalarItem("RPTID"), Items("VALUES")>>)]

ProgramMaterials == [Item |-> L(<<Present("PPID"), EachItem("MIDS", Present(SELF))>>),
    decode |-> Fixed(<<ScalarItem("PPID"), Each("MIDS", ScalarItem(SELF))>>)]

ProcessCommand == [Item |-> L(<<Present("CCODE"), EachItem("PARAMETERS",
    Present(SELF))>>),
    decode |-> Fixed(<<ScalarItem("CCODE"), Each("PARAMETERS", ScalarItem(SELF))>>)]

ServiceParam == [Item |-> L(<<A("SPNAME"), Present("SPVAL")>>),
    decode |-> Fixed(<<ASCII("SPNAME"), AnyItem("SPVAL")>>)]

RecipeParam == [Item |-> L(<<A("RCPPARNM"), Present("RCPPARVAL")>>),
    decode |-> Fixed(<<ASCII("RCPPARNM"), AnyItem("RCPPARVAL")>>)]

PDEReference == [Item |-> L(<<A("PDEREF"), A("RESOLUTION")>>),
    decode |-> Fixed(<<ASCII("PDEREF"), ASCII("RESOLUTION")>>)]

PortActionParam == [Item |-> L(<<A("PARAMNAME"), Present("PARAMVAL")>>),
    decode |-> Fixed(<<ASCII("PARAMNAME"), AnyItem("PARAMVAL")>>)]

Alarm == [Item |-> L(<<OptionalItem("ALCD", B(SELF)), Present("ALID"), A("ALTX")>>),
    decode |-> Fixed(<<Optional("ALCD", ByteAs(SELF, ALCD)), ScalarItem("ALID"),
        ASCII("ALTX")>>)]

DataValue == [Item |-> L(<<Present("DVNAME"), Present("DVVAL")>>),
    decode |-> Fixed(<<ScalarItem("DVNAME"), AnyItem("DVVAL")>>)]

DataSet == [Item |-> L(<<Present("DSID"), EachItem("VALUES", DataValue.Item)>>),
    decode |-> Fixed(<<ScalarItem("DSID"), Each("VALUES", DataValue.decode)>>)]

DataSetValues == [Item |-> L(<<Present("DSID"), EachItem("VALUES", Present(SELF))>>),
    decode |-> Fixed(<<ScalarItem("DSID"), Items("VALUES")>>)]

VariableValue == [Item |-> L(<<Present("VID"), Present("V")>>),
    decode |-> Fixed(<<ScalarItem("VID"), AnyItem("V")>>)]

AnnotatedReport == [Item |-> L(<<Present("RPTID"), EachItem("VALUES",
    VariableValue.Item)>>),
    decode |-> Fixed(<<ScalarItem("RPTID"), Each("VALUES", VariableValue.decode)>>)]

MapRow == [Item |-> L(<<Present("RSINF"), Present("BINLT")>>),
    decode |-> Fixed(<<ScalarItem("RSINF"), ScalarItem("BINLT")>>)]

MapPosition == [Item |-> L(<<Present("XYPOS"), Present("BINLT")>>),
    decode |-> Fixed(<<ScalarItem("XYPOS"), ScalarItem("BINLT")>>)]

ObjectAttributes == [Item |-> L(<<Present("OBJID"), EachItem("ATTRS",
    Attribute.Item)>>),
    decode |-> Fixed(<<ScalarItem("OBJID"), Each("ATTRS", Attribute.decode)>>)]

TraceError == [Item |-> L(<<Present("TRID"), Present("ERRCODE"), A("ERRTEXT")>>),
    decode |-> Fixed(<<ScalarItem("TRID"), ScalarItem("ERRCODE"), ASCII("ERRTEXT")>>)]

ReportError == [Item |-> L(<<Present("RPTID"), Present("ERRCODE"), A("ERRTEXT")>>),
    decode |-> Fixed(<<ScalarItem("RPTID"), ScalarItem("ERRCODE"), ASCII("ERRTEXT")>>)]

PortError == [Item |-> L(<<Present("PTN"), Present("ERRCODE"), A("ERRTEXT")>>),
    decode |-> Fixed(<<ScalarItem("PTN"), ScalarItem("ERRCODE"), ASCII("ERRTEXT")>>)]

StatusVariableName == [Item |-> L(<<Present("SVID"), A("SVNAME"), A("UNITS")>>),
    decode |-> Fixed(<<ScalarItem("SVID"), ASCII("SVNAME"), ASCII("UNITS")>>)]

DataVariableName == [Item |-> L(<<Present("VID"), A("DVVALNAME"), A("UNITS")>>),
    decode |-> Fixed(<<ScalarItem("VID"), ASCII("DVVALNAME"), ASCII("UNITS")>>)]

CollectionEventName == [Item |-> L(<<Present("CEID"), A("CENAME"), EachItem("VIDS",
    Present(SELF))>>),
    decode |-> Fixed(<<ScalarItem("CEID"), ASCII("CENAME"), Each("VIDS",
        ScalarItem(SELF))>>)]

ConstantValue == [Item |-> L(<<Present("ECID"), Present("ECV")>>),
    decode |-> Fixed(<<ScalarItem("ECID"), ScalarItem("ECV")>>)]

ConstantName == [Item |-> L(<<Present("ECID"), A("ECNAME"), Present("ECMIN"),
    Present("ECMAX"), Present("ECDEF"), A("UNITS")>>),
    decode |-> Fixed(<<ScalarItem("ECID"), ASCII("ECNAME"), ScalarItem("ECMIN"),
        ScalarItem("ECMAX"), ScalarItem("ECDEF"), ASCII("UNITS")>>)]

ReportDefinition == [Item |-> L(<<Present("RPTID"), EachItem("VIDS", Present(SELF))>>),
    decode |-> Fixed(<<ScalarItem("RPTID"), Each("VIDS", ScalarItem(SELF))>>)]

EventLink == [Item |-> L(<<Present("CEID"), EachItem("RPTIDS", Present(SELF))>>),
    decode |-> Fixed(<<ScalarItem("CEID"), Each("RPTIDS", ScalarItem(SELF))>>)]

CommandParamAck == [Item |-> L(<<Present("CPNAME"), B("CPACK")>>),
    decode |-> Fixed(<<ScalarItem("CPNAME"), ByteAs("CPACK", CPACK)>>)]

SpoolStream == [Item |-> L(<<U1("STRID"), EachItem("FCNIDS", U1(SELF))>>),
    decode |-> Fixed(<<UintAs("STRID", Uint8), Each("FCNIDS", UintAs(SELF, Uint8))>>)]

SpoolStreamAck == [Item |-> L(<<U1("STRID"), B("STRACK"), EachItem("FCNIDS",
    U1(SELF))>>),
    decode |-> Fixed(<<UintAs("STRID", Uint8), ByteAs("STRACK", STRACK),
        Each("FCNIDS", UintAs(SELF, Uint8))>>)]

Deadband == [Item |-> L(<<Present("UPPERDB"), Present("LOWERDB")>>),
    decode |-> Fixed(<<ScalarItem("UPPERDB"), ScalarItem("LOWERDB")>>)]

Limit == [Item |-> L(<<B("LIMITID"), OptionalGroupItem("DEADBAND", Deadband.Item)>>),
    decode |-> Fixed(<<ByteAs("LIMITID", Byte), OptionalGroup("DEADBAND", 2,
        Deadband.decode)>>)]

VariableLimits == [Item |-> L(<<Present("VID"), EachItem("LIMITS", Limit.Item)>>),
    decode |-> Fixed(<<ScalarItem("VID"), Each("LIMITS", Limit.decode)>>)]

LimitAck == [Item |-> L(<<B("LIMITID"), B("LIMITACK")>>),
    decode |-> Fixed(<<ByteAs("LIMITID", Byte), ByteAs("LIMITACK", LIMITACK)>>)]

VariableLimitAck == [Item |-> L(<<Present("VID"), B("LVACK"),
    OptionalGroupItem("LIMIT", LimitAck.Item)>>),
    decode |-> Fixed(<<ScalarItem("VID"), ByteAs("LVACK", LVACK),
        OptionalGroup("LIMIT", 2, LimitAck.decode)>>)]

LimitValues == [Item |-> L(<<B("LIMITID"), Present("UPPERDB"), Present("LOWERDB")>>),
    decode |-> Fixed(<<ByteAs("LIMITID", Byte), ScalarItem("UPPERDB"),
        ScalarItem("LOWERDB")>>)]

LimitAttributes == [Item |-> L(<<A("UNITS"), Present("LIMITMIN"), Present("LIMITMAX"),
    EachItem("LIMITS", LimitValues.Item)>>),
    decode |-> Fixed(<<ASCII("UNITS"), ScalarItem("LIMITMIN"), ScalarItem("LIMITMAX"),
        Each("LIMITS", LimitValues.decode)>>)]

VariableLimitAttributes == [Item |-> L(<<Present("VID"),
    OptionalGroupItem("ATTRIBUTES", LimitAttributes.Item)>>),
    decode |-> Fixed(<<ScalarItem("VID"), OptionalGroup("ATTRIBUTES", 4,
        LimitAttributes.decode)>>)]

MaterialLocation == [Item |-> L(<<B("LOC"), B("QUA"), Present("MID")>>),
    decode |-> Fixed(<<ByteAs("LOC", Byte), ByteAs("QUA", Byte), ScalarItem("MID")>>)]

MaterialTimeToCompletion == [Item |-> L(<<Present("TTC"), B("QUA"), Present("MID")>>),
    decode |-> Fixed(<<ScalarItem("TTC"), ByteAs("QUA", Byte), ScalarItem("MID")>>)]

CarrierAttribute == [Item |-> L(<<A("CATTRID"), Present("CATTRDATA")>>),
    decode |-> Fixed(<<ASCII("CATTRID"), AnyItem("CATTRDATA")>>)]

ReticleRemoval == [Item |-> L(<<A("RETICLEID"), U1("RETREMOVEINSTR"),
    EachItem("RETICLEATTRIBUTES", Attribute.Item)>>),
    decode |-> Fixed(<<ASCII("RETICLEID"), UintAs("RETREMOVEINSTR", RETREMOVEINSTR),
        Each("RETICLEATTRIBUTES", Attribute.decode)>>)]

ReticlePlacement == [Item |-> L(<<A("RETICLEID"), U1("RETPLACEINSTR")>>),
    decode |-> Fixed(<<ASCII("RETICLEID"), UintAs("RETPLACEINSTR", RETPLACEINSTR)>>)]

TransferJob == [Item |-> L(<<Present("TRLINK"), Present("TRPORT"), A("TROBJNAME"),
    Present("TROBJTYPE"), U1("TRROLE"), A("TRRCP"), A("TRPTNR"), Present("TRPTPORT"),
    U1("TRDIR"), U1("TRTYPE"), Present("TRLOCATION"), BOOL("TRAUTOSTART")>>),
    decode |-> Fixed(<<ScalarItem("TRLINK"), ScalarItem("TRPORT"), ASCII("TROBJNAME"),
        ScalarItem("TROBJTYPE"), UintAs("TRROLE", TRROLE), ASCII("TRRCP"),
        ASCII("TRPTNR"), ScalarItem("TRPTPORT"), UintAs("TRDIR", TRDIR),
        UintAs("TRTYPE", TRTYPE), ScalarItem("TRLOCATION"), Bool("TRAUTOSTART")>>)]

ProcessCommandDefinition == [Item |-> L(<<Present("CCODE"), A("CNAME"), BOOL("RQCMD"),
    Present("BLKDEF"), Present("BCDS"), Present("IBCDS"), Present("NBCDS"),
    Present("ACDS"), Present("IACDS"), Present("NACDS"), EachItem("PARAMETERS",
    Present(SELF))>>),
    decode |-> Fixed(<<ScalarItem("CCODE"), ASCII("CNAME"), Bool("RQCMD"),
        ScalarItem("BLKDEF"), ScalarItem("BCDS"), ScalarItem("IBCDS"),
        ScalarItem("NBCDS"), ScalarItem("ACDS"), ScalarItem("IACDS"),
        ScalarItem("NACDS"), Items("PARAMETERS")>>)]

ProgramError == [Item |-> L(<<Present("ACKC7A"), Present("SEQNUM"), A("ERRW7")>>),
    decode |-> Fixed(<<ScalarItem("ACKC7A"), ScalarItem("SEQNUM"), ASCII("ERRW7")>>)]

AttributeQualifier == [Item |-> L(<<Present("ATTRID"), Present("ATTRDATA"),
    U1("ATTRRELN")>>),
    decode |-> Fixed(<<ScalarItem("ATTRID"), AnyItem("ATTRDATA"), UintAs("ATTRRELN",
        ATTRRELN)>>)]

ObjectTypeAttributes == [Item |-> L(<<Present("OBJTYPE"), EachItem("ATTRIDS",
    Present(SELF))>>),
    decode |-> Fixed(<<ScalarItem("OBJTYPE"), Each("ATTRIDS", ScalarItem(SELF))>>)]

ObjectTypeServices == [Item |-> L(<<Present("OBJTYPE"), EachItem("SVCNAMES",
    A(SELF))>>),
    decode |-> Fixed(<<ScalarItem("OBJTYPE"), Each("SVCNAMES", ASCIIAs(SELF,
        SVCNAME))>>)]

ServiceParams == [Item |-> L(<<A("SVCNAME"), EachItem("SPNAMES", A(SELF))>>),
    decode |-> Fixed(<<ASCIIAs("SVCNAME", SVCNAME), Each("SPNAMES", ASCII(SELF))>>)]

RecipeDescriptor == [Item |-> L(<<A("RCPDESCNM"), A("RCPDESCTIME"),
    Present("RCPDESCLTH")>>),
    decode |-> Fixed(<<ASCIIAs("RCPDESCNM", RCPDESCNM), ASCII("RCPDESCTIME"),
        ScalarItem("RCPDESCLTH")>>)]

RecipeParamRule == [Item |-> L(<<A("RCPPARNM"), Present("RCPPARVAL"),
    A("RCPPARRULE")>>),
    decode |-> Fixed(<<ASCII("RCPPARNM"), AnyItem("RCPPARVAL"), ASCII("RCPPARRULE")>>)]

RecipeSelection == [Item |-> L(<<A("RCPID"), EachItem("PARAMETERS",
    RecipeParam.Item)>>),
    decode |-> Fixed(<<ASCII("RCPID"), Each("PARAMETERS", RecipeParam.decode)>>)]

RecipeChange == [Item |-> L(<<A("RCPID"), A("RCPNEWID"), A("RMSEGSPEC"),
    Present("RMCHGTYPE"), Present("OPID"), A("TIMESTAMP"), BOOL("RMREQUESTOR")>>),
    decode |-> Fixed(<<ASCII("RCPID"), ASCII("RCPNEWID"), ASCII("RMSEGSPEC"),
        ScalarItem("RMCHGTYPE"), ScalarItem("OPID"), ASCII("TIMESTAMP"),
        Bool("RMREQUESTOR")>>)]

ProcessJob == [Item |-> L(<<A("PRJOBID"), Present("MF"), Present("MATERIAL"),
    L(<<U1("PRRECIPEMETHOD"), A("RCPSPEC"), EachItem("RECIPEPARAMS",
    RecipeParam.Item)>>), BOOL("PRPROCESSSTART"), Present("PRPAUSEEVENT")>>),
    decode |-> Fixed(<<ASCII("PRJOBID"), ScalarItem("MF"), AnyItem("MATERIAL"),
        Fixed(<<UintAs("PRRECIPEMETHOD", PRRECIPEMETHOD), ASCII("RCPSPEC"),
        Each("RECIPEPARAMS", RecipeParam.decode)>>), Bool("PRPROCESSSTART"),
        AnyItem("PRPAUSEEVENT")>>)]

ProcessJobState == [Item |-> L(<<A("PRJOBID"), U1("PRSTATE")>>),
    decode |-> Fixed(<<ASCII("PRJOBID"), UintAs("PRSTATE", PRSTATE)>>)]

PDEFilter == [Item |-> L(<<U1("PDEATTRIBUTENAME"), U1("COMPARISONOPERATOR"),
    Present("PDEATTRIBUTEVALUE")>>),
    decode |-> Fixed(<<UintAs("PDEATTRIBUTENAME", PDEATTRIBUTENAME),
        UintAs("COMPARISONOPERATOR", COMPARISONOPERATOR),
        AnyItem("PDEATTRIBUTEVALUE")>>)]

PDEAttributeValue == [Item |-> L(<<U1("PDEATTRIBUTE"), Present("PDEATTRIBUTEVALUE")>>),
    decode |-> Fixed(<<UintAs("PDEATTRIBUTE", PDEATTRIBUTE),
        AnyItem("PDEATTRIBUTEVALUE")>>)]

PDEAttributes == [Item |-> L(<<A("UID"), EachItem("ATTRIBUTES",
    PDEAttributeValue.Item)>>),
    decode |-> Fixed(<<ASCII("UID"), Each("ATTRIBUTES", PDEAttributeValue.decode)>>)]

PDEGetResult == [Item |-> L(<<A("UID"), U1("GETRSPSTAT"), A("STATUSTXT")>>),
    decode |-> Fixed(<<ASCII("UID"), UintAs("GETRSPSTAT", GETRSPSTAT),
        ASCII("STATUSTXT")>>)]

PDEDeleteResult == [Item |-> L(<<A("UID"), U1("DELRSPSTAT"), A("STATUSTXT")>>),
    decode |-> Fixed(<<ASCII("UID"), UintAs("DELRSPSTAT", DELRSPSTAT),
        ASCII("STATUSTXT")>>)]

PDESendResult == [Item |-> L(<<A("UID"), U1("SENDRSPSTAT"),
    OptionalItem("VERIFYRSPSTAT", U1(SELF)), A("STATUSTXT")>>),
    decode |-> Fixed(<<ASCII("UID"), UintAs("SENDRSPSTAT", SENDRSPSTAT),
        Optional("VERIFYRSPSTAT", UintAs(SELF, VERIFYRSPSTAT)), ASCII("STATUSTXT")>>)]

PDEResolveResult == [Item |-> L(<<A("UID"), U1("RESPDESTAT"), A("STATUSTXT")>>),
    decode |-> Fixed(<<ASCII("UID"), UintAs("RESPDESTAT", RESPDESTAT),
        ASCII("STATUSTXT")>>)]

PDEVerifyResult == [Item |-> L(<<A("UID"), U1("VERIFYRSPSTAT"), A("STATUSTXT")>>),
    decode |-> Fixed(<<ASCII("UID"), UintAs("VERIFYRSPSTAT", VERIFYRSPSTAT),
        ASCII("STATUSTXT")>>)]

=============================================================================

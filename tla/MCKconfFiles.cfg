CONSTANTS
    Procs = {"p", "q"}
    Maker = "p"
    Tris = {"T"}
    Strs = {"S"}
    Configs <- MCConfigs
    HashOrder <- MCHashOrder
    ChoiceFor <- MCChoiceFor
    ChoiceSyms = {"c"}
    DepGraphs <- MCDepGraphs
    StrTypes <- MCStrTypes
    Defaults <- MCDefaults
    Ranges <- MCRanges
    Hidable = {"N"}
    StrOrder <- MCStrOrder
    TypedTexts <- MCTypedTexts
    FoundFiles <- MCFoundFiles
SPECIFICATION Spec
INVARIANTS ConfigSurvives NoStaleObject RecursionReported ValuesSurvive
CHECK_DEADLOCK FALSE

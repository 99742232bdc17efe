SPECIFICATION Spec
CHECK_DEADLOCK FALSE
CONSTANTS
    IntW = 2
    UintW = 3
    Text <- MCText
    Halves <- MCHalves
    BufLens = {9, 24}
    NodeLists <- MCNodeLists
    ImmLists <- MCImmLists
    NodeInfos <- MCNodeInfos
    MaxCount = 5
    MaxAppends = 3
    MaxStored = 2
    Readers = {"r1", "r2", "r3"}
    Streams <- MCStreams
    Source <- MCSource
    NewAttrs = {"g"}
    Globals <- MCGlobals
    AsValue = {"g"}
    NoMerge = {}
    MaxTree = 9
    MaxImports = 1
    CsvThreads = {"w1", "w2"}
    CsvWork <- MCCsvWork
    CsvGlobals <- MCCsvGlobals
    AttrOfNode <- MCAttrOfNode
    ParentNode <- MCParentNode
    FirstNode = 11
    MaxRefs = 2
    MaxWrites = 2
    Queries <- MCQueries
    Options <- MCOptions
    QRecords <- MCRecords
    OpArgs <- MCOpArgs
    FmtArgs <- MCFmtArgs
    NumOf <- MCNum
    QtThreads = {"q1", "q2"}
    QtFiles <- MCQtFiles
    QtNodes <- MCQtNodes
    IsAttrNode = {1, 2}
    IsGlobal = {2}
    QtRuns <- MCQtRuns
    FmtThreads = {"t1", "t2"}
    FmtRecords <- MCFmtRecords
    FmtConfigs <- MCFmtConfigs
    AttrNum <- MCAttrNum
    Hidden = {"h"}
    Global = {}
    Nested = {"f"}
    Internal = {}
    RankOf <- MCRank
    FmtGlobals <- MCFmtGlobals
    TextWidth <- MCTextWidth
INVARIANTS
    
    EncodingsUnpack
    MetadataSound
    
    QuerySound
    
    

SPECIFICATION Spec
CHECK_DEADLOCK FALSE
CONSTANTS
    Workers = {"w1", "w2"}
    MaxNest = 2
    Tracers = {t1, t2}
    NoBuf = NoBuf
    Policies = {"grow", "stop", "flush"}
    ChunkSize = 5
    EstSize = 2
    RecSize = 2
    MaxRecords = 3
    MaxCalls = 2
    Ending = {t1}
    AggThreads = {a1, a2}
    Records <- MCRecs
    KeyAttrs <- MCKeys
    Kernels <- MCKernels
    AttrType <- MCType
    AttrId <- MCId
    NestedNames <- MCNested
    MaxKeyLen = 11
    ImmLen = 4
    MaxAdds = 3
    NRanks = 3
    RankRecords <- MCRanks
    MaxFlushes = 1
INVARIANTS
    NoReentry
    ScopesSound
    TraceSound
    
    
PROPERTIES
    LibraryReturns
    TraceCallsReturn
    AllRanksFinish

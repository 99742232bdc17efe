SPECIFICATION Spec
CHECK_DEADLOCK FALSE
CONSTANTS
    Users = {"u1", "u2"}
    Types = {"int", "double"}
    MaxHandles = 1
    MaxValues = 1
    DbThreads = {d1, d2, d3}
    NoDb = NoDb
    MaxEntries = 1
    MaxVisits = 2
    EvThreads = {"t1", "t2"}
    ThreadAttrs = {"a", "q"}
    ProcAttrs = {"p"}
    Triggers = {"a", "p"}
    MaxTime = 1
    MaxEvents = 4
    Owners = {"main", "worker"}
    NestedAttrs = {"f", "g"}
    PlainAttrs = {"x"}
    MaxRegions = 2
    Snapshots <- MCSnaps
    Tree <- MCTree
    KeyNames <- MCKeyNames
    AggrLists <- MCAggrLists
    AttrTable <- MCAttrTable
    DbKeyLen = 5
    BlockEntries = 3
    MaxBlocks = 3
    MaxSnapshots = 3
    AlThreads = {t1, t2}
    Keys = {1, 2, 3}
    NoNode = 0
    RegionSizes = {1, 2}
    MaxRequests = 4
    AddrAttrs = {"callpath", "pc"}
    Lookups <- MCLookups
    Table <- MCSymbols
    Code <- MCCode
    Stacks <- MCStacks
    InCaliper = {"c1"}
    SkipFrames = {0, 2}
    MaxFrames = 2
    LkMaxFlushes = 2
INVARIANTS
    AnnotationSound
    DatabasesLive
    
    ValidatorExact
    
    
    LookupsOrdered

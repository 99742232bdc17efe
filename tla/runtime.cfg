SPECIFICATION Spec
CHECK_DEADLOCK FALSE
CONSTANTS
    StLists <- MCStLists
    StDefault <- MCStDefault
    StEnable <- MCStEnable
    StAttrs <- MCStAttrs
    ApiAttrs = {"function", "loop"}
    ClassAttrs = {"key", "version"}
    Names = {"a", "b"}
    CTypes = {"string", "bool"}
    MaxPath = 2
    ConfigSets <- MCConfigSets
    DefaultOf <- MCDefaults
    Files <- MCConfigFiles
    Builtin <- MCBuiltin
    Env <- MCEnv
    Presets <- MCPresets
    Settings <- MCSettings
    ApiProfiles <- MCApiProfiles
    MaxConfigCalls = 3
    MpiThreads = {1, 2}
    Handles = {1}
    Comms = {1, 2}
    Peers = {7}
    MaxMpiCalls = 4
    PfmConfigs <- MCPfmConfigs
    RingWords = 6
    MaxRecs = 2
    MaxTicks = 1
    OmThreads = {1, 2}
    Initial = 1
    Constructs <- MCConstructs
    RunStates = {"work"}
    OmConfigs <- MCOmConfigs
    MaxDepth = 2
    MaxControls = 1
    MaxLives = 2
    CuThreads = {"u1", "u2"}
    Contexts = {1, 2}
    CuConfigs <- MCCuConfigs
    Functions = {"launch"}
    NoSymbol = "none"
    Symbols = {"none", "kernel"}
    MaxCuCalls = 3
    MaxSnaps = 1
    PaThreads = {"p1", "p2"}
    EventLists <- MCEventLists
    CodeOf <- MCEventCodes
    MaxCounters = 2
    PaMaxCount = 3
    MaxReads = 3
INVARIANTS
    StartupSound
    CInterfaceSound
    ConfigSound
    
    
    OmptScopesSound
    
    

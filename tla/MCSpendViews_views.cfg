SPECIFICATION Spec
CONSTANTS
    NoId = NoId
    Stream <- MCStream
    OptionSet <- MCOptionSet
    Canon <- MCCanon
    Prices <- MCPrices
    Factors <- MCFactors
    MaxStream = 4
    Day = 2
    Now = 6
    MaxCount = 12
    MaxRoutes = 2
    MaxRoutingAgents = 2
    MaxRoutingModels = 2
    MaxCohorts = 3
    MaxCells = 4
    MaxAgents = 3
    MaxProviderRows = 4
    Unit = 2
    Parts = 4
INVARIANTS
    LimitsExact
    AccountsClose
    LabelsFaithful
    EveryRowObserved
    
    EveryRowPriced
    NeverOvermoved
    FailuresArePart

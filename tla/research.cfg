CONSTANTS
    StockTargets <- LiveStocks
    FundTargets <- LiveFunds
    Snapshot = 1
    Cutoff = 3
    LastMoment = 4
    SnapshotPrices = {100, 102}
    MaxAge = 2
    MaxSkew = 1
    MaxDivergence = 1
    References <- SomeReferences
    FundInputs <- SomeFundInputs
    Adv = 1
    Band = 10
    Missing = Missing

    MinProfitFactor <- SixFifths
    MaxDayShare <- NineTenths
    MaxMdd = 13000
    MinTrades = 1
    CostRates <- Costs
    ImpactRate <- SquareRoots
    ReplayDays <- SomeReplayDays
    MaxDays = 4
    ReplayCutoff = 3
    Quantity = 2
    ReplayRate <- Half
    MinDays = 2
    StoredCounts <- SomeStoredCounts
    Requirements <- OneOfEach

    Catalogs <- SomeCatalogs
    TradingDays = 8
    AdvBars = 2
    TrainDays = 3
    ValidationDays = 2
    TestDays = 2
    KappaRate <- Half
    ProxyBand <- OneTenth
    ProxyQuantity = 2

    EndDate = 6
    Weekends = {4}
    KrxDays <- SomeKrxDays
    ProgramCsvs <- SomeProgramCsvs
    StrongInputs <- SomeStrongInputs
    Probes = 3
    LookbackDays = 6
    AdvLookback = 1
    MinScheduled = 4
    MinUsable = 2
    MinRegression = 2
    MaxReferenceAge = 1
    NoValue = NoValue

    FlowInputs <- SomeFlowInputs
    FlowScopes <- FourScopes
    ListingDay = 6
    FakeListings = {3, 5}
    FakeWindow = 3
    MinTrain = 2
    MinFlowRows = 2
    MinFlowDays = 6
    MinFlowUsable = 3
    NotGiven = NotGiven

    Windows <- SomeWindows
    WindowStart = 2
    WindowEnd = 5
    WindowTicks = 3
    MaxEventAge = 1
    Tick = 1
    NoTime = NoTime

    SourceEvidence <- SomeEvidence
    OfiObservations <- SomeOfiObservations
    OfiTrainDays = 2
    OfiValidationDays = 2
    SealedTestDays = 2
    InnerDays = 1
    MinBlock = 1
    MaxBlock = 1
    MinEligibleDays = 5
    MinSignals = 2
    ResearchMdd = 8
    EntryDeadline = 3
    OutcomeDeadline = 7

    la = la
    lb = lb
    Orders <- SomeOrders
    RiskContexts <- SomeRiskContexts
    TradeRisk <- OneHalf
    DailyLoss <- OneTenth
    CumulativeMdd <- OneTenth
    QuoteAge <- TwoTicks
    LegTimeout = 3
    Tens = {1, 10, 100, 1000, 10000}
    MaxCoefficient = 10000
    Absent = Absent
SPECIFICATION ResearchSpec
INVARIANTS
    SignalFromThePast
    DirectionFromFullFlow
    PassedReplayIsSettled
    TestDaysCountedOnce
    FeatureIgnoresLaterValues
    CompletedStudyHadEveryDataset
    FlowRowsKnownAtOpen
    FeatureIgnoresLaterEvents
    WeightsCoverTheWindow
    ScoredOutOfSample
    ApprovedWithinEveryLimit
    LegsKeepTheirRatio
\* A command ends with its verdict, its signal or an error.
CHECK_DEADLOCK FALSE

CONSTANTS
    KnownGates <- TheGates
    SeedOrder <- TheSeeds
    SeedUntil <- TheSeedEnds
    Seeders = {s1, s2}
    Reviews <- SomeReviews
    MaxReviews = 1
    LastTick = 1
    NoEvidence = NoEvidence

    EtpRuns = {run1, run2}
    EtpDays = 2
    EtpAnswers <- SomeEtpAnswers
    MaxEtpRevisions = 1
    EtpRetries = 1
    Unset = Unset

    Loaders = {p1, p2}
    FlowDatasets = {"000660", "short"}
    FlowCsvs <- SomeFlowCsvs
    MaxDownloads = 2
    SymbolOf <- TheSymbols
    NoCell = NoCell
    NoFile = NoFile
    Half = Half
SPECIFICATION CollectionSpec
INVARIANTS
    SeedSettlesGates
    RunsUnderStandingConfirmation
    EtpSnapshotsTraced
    LineageVouches
\* A run ends; the commands need not be given again.
CHECK_DEADLOCK FALSE

\* The measuring commands.
CONSTANTS
    Rates <- MCRates
    ThreadsList <- MCThreadsList
    SmeList <- MCSmeList
    BenchPhases <- MCBenchPhases
    BenchSmeList <- MCBenchSmeList
    RatesOf <- MCRatesOf
    Reps = 2
    Retries = 1
    MaxFaults = 2
SPECIFICATION Spec
INVARIANTS
    TypeOK
    Interleaved
    Accounted
    OnlyWholeRuns
    OptimumIsBest
    GivesUpLate
    LabelIsWitnessed
    ReportFollowsEvidence
PROPERTIES
    RunEnds
CHECK_DEADLOCK FALSE

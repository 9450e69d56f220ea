CONSTANTS
    Symbols <- MCSymbols
    FamilyOrder <- MCFamilyOrder
    TokensIn <- MCTokensIn
    Modes <- MCModes
    TableOf <- MCTableOf
    MaxCalls = 1
    Configs <- MCConfigs
SPECIFICATION FairSpec
CHECK_DEADLOCK FALSE
INVARIANTS
    TypeOK
    MatchIsWitnessed
    ConclusiveOnly
    NoDispatchMissed
    HeadlineAgrees
    NoProbeLeftRunning
    RInv
PROPERTIES
    RefinesOracle
    EveryCheckAnswers

CONSTANTS
    Symbols <- MCSymbols
    FamilyOrder <- MCFamilyOrder
    TokensIn <- MCTokensIn
    Modes <- MCOneMode
    TableOf <- MCOneTable
    MaxCalls = 1
    Configs <- MCActionConfigs
SPECIFICATION FairActionSpec
CHECK_DEADLOCK FALSE
INVARIANTS
    ActionTypeOK
    AInv
    GreenMeansMatch
    GreenMeansTried
    OutputsAreTheChecks
PROPERTIES
    ActionEnds

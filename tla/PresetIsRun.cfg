CONSTANTS
    Symbols <- MCSymbols
    FamilyOrder <- MCFamilyOrder
    TokensIn <- MCTokensIn
    Modes <- MCOneMode
    TableOf <- MCOneTable
    MaxCalls = 1
    Configs <- MCActionConfigs
SPECIFICATION ActionSpec
CHECK_DEADLOCK FALSE
INVARIANTS
    PresetIsRun

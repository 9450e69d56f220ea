CONSTANTS
    Symbols <- MCSymbols
    FamilyOrder <- MCFamilyOrder
    TokensIn <- MCTokensIn
    Modes <- MCModes
    TableOf <- MCTableOf
    MaxCalls = 1
    Configs <- MCConfigs
SPECIFICATION Spec
CHECK_DEADLOCK FALSE
INVARIANT NoPermissionIsUndetermined

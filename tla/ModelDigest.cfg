CONSTANTS
    Symbols <- MCSymbols
    FamilyOrder <- MCFamilyOrder
    TokensIn <- MCTokensIn
    Sweeps = {"pipeline", "developer"}
    PlansOf <- MCTwoDefaults
    Paths <- MCPaths
    DefaultPath = "results"
    Selections <- MCSelections
    Probes <- MCProbes
    MaxPoints = 1
    MaxModel = 2
SPECIFICATION Spec
CHECK_DEADLOCK FALSE
INVARIANT DigestIdentifiesMeasured

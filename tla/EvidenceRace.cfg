CONSTANTS
    Symbols <- MCSymbols
    FamilyOrder <- MCFamilyOrder
    TokensIn <- MCTokensIn
    Sweeps = {"pipeline", "developer"}
    PlansOf <- MCTwoDefaults
    Paths <- MCPaths
    DefaultPath = "results"
    Selections <- MCSelections
    Probes <- MCProbes
    MaxPoints = 1
    MaxModel = 1
SPECIFICATION Spec
CHECK_DEADLOCK FALSE
PROPERTY EvidenceNeverReplaced

CONSTANTS
    Symbols <- MCSymbols
    FamilyOrder <- MCFamilyOrder
    TokensIn <- MCTokensIn
    Sweeps = {"pipeline", "developer"}
    PlansOf <- MCPlansOf
    Paths <- MCPaths
    DefaultPath = "results"
    Selections <- MCSelections
    Probes <- MCProbes
    MaxPoints = 2
    MaxModel = 2
SPECIFICATION FairSpec
CHECK_DEADLOCK FALSE
INVARIANTS
    TypeOK
    LedgerIsComplete
    ExitMeans
    DigestIsNotOlder
PROPERTIES
    EvidenceStands
    EverySweepEnds

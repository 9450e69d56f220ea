\* run_all.sh twice.
CONSTANTS
    Reps = 2
    Cells = 2
    MaxRuns = 2
SPECIFICATION Spec
INVARIANTS
    TypeOK
    GreenMeansClean
    CloudIsHonest
    LedgerIsThisRuns
PROPERTIES
    PipelineEnds
CHECK_DEADLOCK FALSE

\* One worker and three records: an abort leaves the worker blocked.
SPECIFICATION Spec
CONSTANTS
    Files = {f1}
    Contents <- ThreeGoodRows
    RowKinds = {"r", "bad"}
    Malformed = "bad"
    InvalidHeaders = {}
    NoHeader = "nil"
    HasHeader = FALSE
    ValidateHeader = FALSE
    Workers = {w1}
    Outcomes = {"success", "error"}
    NoJob = NoJob
    MaxRows = 3
    BufferSize = 1
    ErrCap = 1
    MaxErrors = 0
    ThresholdNum = 1
    ThresholdDen = 2
    AbortOnError = TRUE
    WriteOutput = TRUE
    Interrupts = {}
CHECK_DEADLOCK FALSE
PROPERTY AbortEndsRun

\* A success and a failure: the rate is back at the threshold when Run returns.
SPECIFICATION Safety
CONSTANTS
    Files = {f1}
    Contents <- TwoGoodRows
    RowKinds = {"r", "bad"}
    Malformed = "bad"
    InvalidHeaders = {}
    NoHeader = "nil"
    HasHeader = FALSE
    ValidateHeader = FALSE
    Workers = {w1}
    Outcomes = {"success", "failed"}
    NoJob = NoJob
    MaxRows = 2
    BufferSize = 1
    ErrCap = 1
    MaxErrors = 0
    ThresholdNum = 1
    ThresholdDen = 2
    AbortOnError = TRUE
    WriteOutput = TRUE
    Interrupts = {}
CHECK_DEADLOCK FALSE
INVARIANT AbortIsReported

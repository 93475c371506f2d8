\* One worker; a file of three failing rows makes the run abort with the worker
\* blocked, a file of one does not.  A signal and a call of Stop at any time.
\* An abort may block the run for good, so deadlock is not checked.
SPECIFICATION Spec
CONSTANTS
    Files = {f1}
    Contents <- OneOrThreeRows
    RowKinds = {"r", "bad"}
    Malformed = "bad"
    InvalidHeaders = {}
    NoHeader = "nil"
    HasHeader = FALSE
    ValidateHeader = FALSE
    Workers = {w1}
    Outcomes = {"error"}
    NoJob = NoJob
    MaxRows = 3
    BufferSize = 1
    ErrCap = 1
    MaxErrors = 0
    ThresholdNum = 1
    ThresholdDen = 2
    AbortOnError = TRUE
    WriteOutput = TRUE
    Interrupts = {"signal", "stop"}
CHECK_DEADLOCK FALSE
PROPERTIES RunEnds StopEnds

\* One file of two rows, two workers; a signal and a call of Stop at any time,
\* in either order; aborting at an error rate above one half.  An abort may
\* block the run for good, so deadlock is not checked.
SPECIFICATION Safety
CONSTANTS
    Files = {f1}
    Contents <- TwoRows
    RowKinds = {"r", "bad"}
    Malformed = "bad"
    InvalidHeaders = {}
    NoHeader = "nil"
    HasHeader = FALSE
    ValidateHeader = FALSE
    Workers = {w1, w2}
    Outcomes = {"success", "error"}
    NoJob = NoJob
    MaxRows = 2
    BufferSize = 1
    ErrCap = 1
    MaxErrors = 0
    ThresholdNum = 1
    ThresholdDen = 2
    AbortOnError = TRUE
    WriteOutput = TRUE
    Interrupts = {"signal", "stop"}
CHECK_DEADLOCK FALSE
INVARIANTS NothingLost NoGoroutineLeft
PROPERTIES ComponentsImplemented LedgerImplemented

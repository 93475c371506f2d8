\* Two files, every outcome, a collector that is full after two errors.
\* No interrupt and no abort: the run has to come to its end (deadlock is checked).
SPECIFICATION Safety
CONSTANTS
    Files = {f1, f2}
    Contents <- AtMostOneRecord
    RowKinds = {"r", "bad"}
    Malformed = "bad"
    InvalidHeaders = {}
    NoHeader = "nil"
    HasHeader = FALSE
    ValidateHeader = FALSE
    Workers = {w1, w2}
    Outcomes = {"success", "failed", "failedNoErr", "skipped", "error"}
    NoJob = NoJob
    MaxRows = 2
    BufferSize = 1
    ErrCap = 1
    MaxErrors = 2
    ThresholdNum = 1
    ThresholdDen = 2
    AbortOnError = FALSE
    WriteOutput = TRUE
    Interrupts = {}
SYMMETRY Symmetry
INVARIANTS TypeOK OutputMatchesSummary ErrorsAccounted

\* Up to three records through a channel of one, the context cancelled at any
\* time, every answer of a processor.  A cancelled caller rests at the end, and
\* the reader of Stats may always go on.
SPECIFICATION JobSpec
CONSTANTS
    Files = {f1}
    Contents <- FileShapes
    RowKinds = {"bad", "h", "r"}
    Malformed = "bad"
    InvalidHeaders = {}
    NoHeader = "nil"
    RecordCap = 1
    HasHeader = TRUE
    ValidateHeader = FALSE
    Outcomes = {"ok", "failed", "error", "okError", "nothing"}
INVARIANTS SingleComplete BatchResults
PROPERTY JobEnds

\* Two files of any shape, headers validated, a record buffer of two.  Nobody
\* has to consume but where a property says so.
SPECIFICATION Spec
CONSTANTS
    RowKinds = {"bad", "d", "h", "k"}
    Malformed = "bad"
    InvalidHeaders = {"d"}
    NoHeader = "nil"
    Files = {f1, f2}
    Contents <- AllShapes
    RecordCap = 2
    HasHeader = TRUE
    ValidateHeader = TRUE
INVARIANTS InOrder ClosedMeansDone NoSilentLoss HeaderVerdict
PROPERTY ReadEnds

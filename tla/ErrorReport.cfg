\* Two kinds of errors, at most three kept, an abort above one half; every call
\* at any time, and reports at any time.
SPECIFICATION Safety
CONSTANTS
    Errors = {"ErrInvalidRecord", "ErrFileNotFound"}
    Explicit = {"TIMEOUT"}
    MaxErrors = 3
    ThresholdNum = 1
    ThresholdDen = 2
    AbortOnThreshold = TRUE
    TopN = 1
    DetailMax = 2
    MaxTotal = 3
INVARIANT ThresholdHonoured
PROPERTY ReportConsistent

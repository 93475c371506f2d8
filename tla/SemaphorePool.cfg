\* Two workers of each kind, one slot, two records, buffers of one;
\* Stop at any time, during StartWithBackpressure included.
SPECIFICATION SemSpec
CONSTANTS
    Workers = {w1, w2}
    Records = {r1, r2}
    InCap = 1
    OutCap = 1
    ErrCap = 1
    Outcomes = {"success", "error"}
    NoJob = NoJob
    EarlyStop = TRUE
    MaxConcurrent = 1
INVARIANTS SemExactlyOnce SlotsHeld NoPanic
PROPERTIES SemDrains SemStopWaits

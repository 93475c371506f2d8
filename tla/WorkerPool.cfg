\* Two workers, three records, buffers of one: every send can find its channel
\* full.  StopAndWait is called at any time, before or during Start included,
\* and nobody has to consume but where a property says so.
SPECIFICATION Spec
CONSTANTS
    Workers = {w1, w2}
    Records = {r1, r2, r3}
    InCap = 1
    OutCap = 1
    ErrCap = 1
    Outcomes = {"success", "error"}
    NoJob = NoJob
    EarlyStop = TRUE
INVARIANTS TypeOK ExactlyOnce ClosedMeansDone CompleteDelivery LossBounded
PROPERTIES StopReturns Drains

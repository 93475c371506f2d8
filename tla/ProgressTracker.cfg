\* One recorder of two results, two callers that may start, stop, print and stop
\* again at any time.
SPECIFICATION Spec
CONSTANTS
    Recorders = {r1}
    Callers = {c1, c2}
    PerRecorder = 2
    Loop = loop
    Nobody = nobody
INVARIANTS TypeOK CountersAgree PrintsExclusive
PROPERTY StopReturns

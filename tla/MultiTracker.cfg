\* Two callers of everything on two names; two trackers, so that a name may be
\* added again, and two records.  Somebody may always call again.
SPECIFICATION Spec
CONSTANTS
    Names = {f1, f2}
    MaxTrackers = 2
    Callers = {c1, c2}
    Nobody = nobody
    MaxRecords = 2
INVARIANTS TypeOK CountsAgree
PROPERTIES StartAllOrError StopCleans CallsReturn

------------------------------- MODULE Ledger -------------------------------
(***************************************************************************)
(* What a run of the pipeline promises about the rows of its files, without*)
(* channels, goroutines and handlers: a row is accepted once, in the order *)
(* of its file, and then handled once; it is lost only to a call of Stop   *)
(* and left over at the end only after a Stop or an abort.  Pipeline.tla   *)
(* implements this.                                                        *)
(***************************************************************************)
EXTENDS Naturals

CONSTANTS Rows              \* <<file, line>>

VARIABLES
    fate,                   \* what has become of each row
    stopping,               \* Stop was called
    aborted,                \* the run gave up on too many errors
    over                    \* Run has returned

vars == <<fate, stopping, aborted, over>>

Init ==
    /\ fate = [r \in Rows |-> "unread"]
    /\ ~stopping /\ ~aborted /\ ~over

Becomes(r, from, to) ==
    /\ ~over
    /\ fate[r] = from /\ fate' = [fate EXCEPT ![r] = to]
    /\ UNCHANGED <<stopping, aborted, over>>

\* The first row of a file that has not been accepted yet.
Accept(r) ==
    /\ Becomes(r, "unread", "held")
    /\ \A q \in Rows : q[1] = r[1] /\ fate[q] = "unread" => r[2] <= q[2]

Handle(r) == ~aborted /\ Becomes(r, "held", "handled")

Lose(r) == stopping /\ Becomes(r, "held", "lost")

Stop == ~stopping /\ stopping' = TRUE /\ UNCHANGED <<fate, aborted, over>>

Abort == ~aborted /\ ~over /\ aborted' = TRUE /\ UNCHANGED <<fate, stopping, over>>

Return ==
    /\ ~over /\ over' = TRUE
    /\ stopping \/ aborted \/ \A r \in Rows : fate[r] # "held"
    /\ UNCHANGED <<fate, stopping, aborted>>

Next ==
    \/ \E r \in Rows : Accept(r) \/ Handle(r) \/ Lose(r)
    \/ Stop \/ Abort \/ Return

Safety == Init /\ [][Next]_vars
=============================================================================

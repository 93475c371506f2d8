---------------------------- MODULE MCBatchJob ----------------------------
(* BatchJob on one small file, for TLC.                                    *)
EXTENDS BatchJob

File(rows) == [open |-> "ok", rows |-> rows]

\* More rows than the channel holds, a malformed row after a good one, a file
\* that cannot be opened and one without a header line.
FileShapes ==
    {File(<<"h", "r", "r", "r">>), File(<<"h", "r", "bad">>),
     [open |-> "missing", rows |-> <<>>], File(<<>>)}
============================================================================

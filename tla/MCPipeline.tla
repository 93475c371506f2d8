---------------------------- MODULE MCPipeline ----------------------------
(* Pipeline on one or two small files, for TLC.                            *)
EXTENDS Pipeline, TLC

\* Files without a header line, whose good rows differ in nothing.
File(rows) == [open |-> "ok", rows |-> rows]

AtMostOneRecord == {File(<<"r">>), File(<<"bad">>), File(<<"r", "bad">>)}
TwoRows == {File(<<"r", "r">>), File(<<"r", "bad">>)}
TwoGoodRows == {File(<<"r", "r">>)}
OneOrThreeRows == {File(<<"r">>), File(<<"r", "r", "r">>)}
ThreeGoodRows == {File(<<"r", "r", "r">>)}

\* Workers are interchangeable: used for safety only.
Symmetry == Permutations(Workers)
============================================================================

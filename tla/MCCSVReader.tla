---------------------------- MODULE MCCSVReader ----------------------------
(* CSVReader on two small files, for TLC.                         *)
EXTENDS CSVReader, TLC

\* Rows: h and k are possible headers, d is a header with duplicate names.
\* The shapes cover every exit of readFile: missing, unreadable and empty
\* files, a file of blank lines, a malformed and a refused header, a malformed
\* row between two good ones, and complete files under both headers.
File(rows) == [open |-> "ok", rows |-> rows]
NoFile(why) == [open |-> why, rows |-> <<>>]

AllShapes ==
    {NoFile("missing"), NoFile("unreadable"), NoFile("empty"), File(<<>>),
     File(<<"bad">>), File(<<"d", "h">>), File(<<"h", "bad", "h">>),
     File(<<"h", "h", "h">>), File(<<"k", "h">>)}
============================================================================

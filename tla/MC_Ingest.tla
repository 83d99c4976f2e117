----------------------------- MODULE MC_Ingest ------------------------------
(* Results that share material in every way the levels know: two that only *)
(* their column or message tells apart, two that numbering cannot tell     *)
(* apart, an overlong window, a window past the end of the file, a         *)
(* fingerprint of the tool in two files, and a result without a location.  *)
EXTENDS Ingest

CONSTANT Fp

Plain ==
    [located |-> TRUE, uri |-> 1, tool |-> "t", rule |-> "r", start |-> 1, end |-> None,
     column |-> None, message |-> 1, fingerprints |-> None, partial |-> None, rest |-> 1]

MCResults ==
    {Plain,
     [Plain EXCEPT !.end = 1, !.rest = 2],
     [Plain EXCEPT !.column = 1],
     [Plain EXCEPT !.message = 2],
     [Plain EXCEPT !.start = 2],
     [Plain EXCEPT !.start = 2, !.end = 5],
     [Plain EXCEPT !.start = 5],
     [Plain EXCEPT !.start = 3, !.fingerprints = Fp],
     [Plain EXCEPT !.uri = 2, !.partial = Fp],
     [Plain EXCEPT !.located = FALSE]}

MCLines == {"", "x"}

\* Both files readable, the first one too large to be read, and neither.
MCSources ==
    {[u \in 1..2 |-> IF u = 1 THEN <<"x", "x", "", "x">> ELSE <<"x">>],
     [u \in 1..2 |-> IF u = 1 THEN None ELSE <<"x">>],
     [u \in 1..2 |-> None]}
=============================================================================

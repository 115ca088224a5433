---------------------------- MODULE MCReviewResult ----------------------------
(* An instance of ReviewResult for TLC. *)
EXTENDS ReviewResult

\* Two chunks, each too long for a batch.
MCChunksOf == <<{1}, {1, 2}, {2}>>

MCWeight == <<1, 2, 2>>
MCCurve == [m \in 0..6 |-> <<0, 5, 8, 10, 11, 12, 12>>[m + 1]]

\* The same finding, sure or not, with this rule or that; lines the file does
\* not have, in order or not; a rule nobody knows.
MCAnswers ==
    {[start |-> 1, end |-> 1, kind |-> 1, sure |-> TRUE, grounded |-> {1}],
     [start |-> 1, end |-> 1, kind |-> 1, sure |-> FALSE, grounded |-> {1, 2}],
     [start |-> 3, end |-> 1, kind |-> 2, sure |-> FALSE, grounded |-> {}],
     [start |-> 2, end |-> 2, kind |-> 2, sure |-> TRUE, grounded |-> {1, 4}],
     [start |-> 1, end |-> 3, kind |-> 3, sure |-> TRUE, grounded |-> {2}]}

=============================================================================

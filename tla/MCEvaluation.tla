---------------------------- MODULE MCEvaluation ----------------------------
(***************************************************************************)
(* Instances of Evaluation: two queries and five documents, all that are   *)
(* relevant to the first and two that are graded for the second.           *)
(***************************************************************************)
EXTENDS Evaluation

TwoQueries == <<"DIST1", "MED1">>
FiveDocs   == ({"DIST"} \X {1, 2, 5}) \union ({"MED"} \X {1, 3})

=============================================================================

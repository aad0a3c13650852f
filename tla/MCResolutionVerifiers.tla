------------------------- MODULE MCResolutionVerifiers -------------------------
(****************************************************************************)
(* Submissions for ResolutionVerifiers over the curve of order 13: points   *)
(* that are equal, opposite or unrelated, the identity, a point that is off *)
(* the curve and one that is not reduced, with scalars that are zero, small *)
(* and not reduced; and versions that are absent, zero, known and unknown.  *)
(****************************************************************************)
EXTENDS ResolutionVerifiers

\* Seeds whose first hash has a point, or whose first two have none.
MCHashStream == {<<7>>, <<0, 4, 3, 1>>}

MCWitness == [m : {0, 1, 5, 12}, r : {0, 3}, km : {0, 1, 8}, kr : {0, 2}]

MCPoint == {G, <<1, 17>>, <<3, 7>>, <<0, 0>>, <<1, 1>>, <<1 + P, 2>>}

MCScalars == {0, 2, 6, P + 1}

MCSubmission ==
  [version : {1}, C : MCPoint, R : MCPoint, sm : MCScalars, sr : {0, 4}]
    \cup [version : {VersionAbsent, 0, 2}, C : {G}, R : {G}, sm : {2, 6}, sr : {0}]

================================================================================

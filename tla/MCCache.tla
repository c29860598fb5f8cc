------------------------------ MODULE MCCache ------------------------------
(* Instances of Cache. The limit holds the large result or the small one,  *)
(* or, of three, two small ones or the large one; two seconds let entries  *)
(* be older than an analysis, or of its age.                               *)
EXTENDS Cache, TLC

ThreeKeys == {1, 2, 3}
TwoKeys == {1, 2}
SecondLarge == [k \in Keys |-> IF k = 2 THEN 2 ELSE 1]
ProcSymmetry == Permutations(Procs)
=============================================================================

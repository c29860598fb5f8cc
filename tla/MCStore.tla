------------------------------ MODULE MCStore ------------------------------
(* Instances of Store. Scans 1 and 2 were made at the same second, scan 3  *)
(* before them; identifiers carry no order in time.                        *)
EXTENDS Store, TLC

OneRepository == {1}
TwoRepositories == {1, 2}
TwoScans == {1, 2}
ThreeScans == {1, 2, 3}
EqualTimes == [s \in Scans |-> IF s = 3 THEN 1 ELSE 2]
Falling == [s \in Scans |-> 4 - s]

(* Scans 1 and 3 are analyses of repository 1, scan 2 is imported under    *)
(* the last repository.                                                    *)
OwnAnalyses == {<<1, s>> : s \in Scans \ {2}}
OwnImports == {e \in Repos \X {2} : \A r \in Repos : r <= e[1]}

(* Two clones of the same files that are analysed with SOURCE_DATE_EPOCH   *)
(* have one scan, 2, which may be imported as well.                        *)
SharedAnalyses == OwnAnalyses \cup (Repos \X {2})

ProcSymmetry == Permutations(Procs)
=============================================================================

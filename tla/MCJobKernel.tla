----------------------------- MODULE MCJobKernel -----------------------------
(* Instances of JobKernel for TLC: one or two Jobs inspect one Asset. *)
EXTENDS JobKernel, TLC

CONSTANTS j1, j2, a1, p1, w1, w2, w3

OneJob == {j1}
TwoJobs == {j1, j2}
OneAsset == {a1}
OneProject == {p1}
InProjectOne == a1 :> p1
TwoWorkers == {w1, w2}
ThreeWorkers == {w1, w2, w3}
OnlyAsset == j1 :> a1
SameAsset == [j \in TwoJobs |-> a1]
=============================================================================

----------------------------- MODULE MCStorage -----------------------------
(* Instances of Storage for TLC. *)
EXTENDS Storage, TLC

CONSTANTS k1, k2, c1, c2

TwoKeys == {k1, k2}
TwoCalls == {c1, c2}
Sizes == [k \in TwoKeys |-> IF k = k1 THEN 1 ELSE 2]
Small == [l \in Limits |-> IF l = "asset" THEN 2 ELSE 3]

Policy(scope, from, until, most, total) ==
  [scope |-> scope, from |-> from, until |-> until,
   asset |-> most, project |-> total]

(* Limits that rise and are lowered again, also after the fact, that meet   *)
(* at a boundary, and that cross another scope or their own.                *)
Proposed ==
  {Policy("system", 0, 1, NoLimit, 4), Policy("system", 1, 2, NoLimit, 2),
   Policy("system", 0, 2, 1, NoLimit), Policy("user", 1, 2, 1, 3)}

Interchangeable == Permutations(TwoCalls)
=============================================================================

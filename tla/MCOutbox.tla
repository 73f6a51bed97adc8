------------------------------ MODULE MCOutbox ------------------------------
(* Instances of Outbox for TLC: the third event's topic has no handler. *)
EXTENDS Outbox, TLC

CONSTANTS e1, e2, e3, c1, c2

TwoEvents == {e1, e2}
ThreeEvents == {e1, e2, e3}
Unhandled == {e3}
TwoConsumers == {c1, c2}

Interchangeable == Permutations(TwoConsumers) \cup Permutations(TwoEvents)
=============================================================================

----------------------------- MODULE MCPreviews -----------------------------
(* Instances of Previews for TLC. *)
EXTENDS Previews

CONSTANTS r1, r2, r3, k1, k2, p1, p2

ThreeRequests == {r1, r2, r3}
TwoKeys == {k1, k2}
TwoPasses == {p1, p2}
=============================================================================

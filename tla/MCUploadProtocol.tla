-------------------------- MODULE MCUploadProtocol --------------------------
(* Instances of UploadProtocol for TLC. *)
EXTENDS UploadProtocol, TLC

CONSTANTS x, y, t1, t2, k1, k2

TwoChunks == {x, y}
TwoKeys == {k1, k2}
OneTask == {t1}
TwoTasks == {t1, t2}

Interchangeable == Permutations(TwoTasks) \cup Permutations(TwoChunks)
                     \cup Permutations(TwoKeys)
=============================================================================

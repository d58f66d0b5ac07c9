------------------------- MODULE MCQuarantineStore -------------------------
(* A signed image, a blob below it, and two enqueuers.                     *)
EXTENDS QuarantineStore, TLC

CONSTANTS image, blob, p1, p2

TwoKeys == {image, blob}
BlobBelowImage == {<<blob, image>>}
ProcSymmetry == Permutations({p1, p2})
=============================================================================

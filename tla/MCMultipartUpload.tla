------------------------- MODULE MCMultipartUpload -------------------------
(* Small instances of MultipartUpload for TLC. *)
EXTENDS MultipartUpload, TLC

Symmetry == Permutations(Handlers)
=============================================================================

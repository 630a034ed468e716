--------------------------- MODULE MCDirectoryJob ---------------------------
(* Small instances of DirectoryJob for TLC. *)
EXTENDS DirectoryJob, TLC

Symmetry == Permutations(Handlers) \union Permutations(Paths)
=============================================================================

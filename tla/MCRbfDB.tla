------------------------------ MODULE MCRbfDB ------------------------------
(***************************************************************************)
(* RbfDB on small files: page 3 is the only page besides the three that    *)
(* every database has, so that it can be allocated, and cut off again.     *)
(***************************************************************************)
EXTENDS RbfDB, TLC

Symmetry == Permutations(TX)
=============================================================================

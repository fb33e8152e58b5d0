--------------------------- MODULE MCIDAllocator ---------------------------
(***************************************************************************)
(* IDAllocator with integers so small that the IDs run out and offsets     *)
(* overflow.                                                               *)
(***************************************************************************)
EXTENDS IDAllocator

\* Keys and sessions are interchangeable.
Symmetry == Permutations(Key) \cup Permutations(Session)
=============================================================================

---------------------------- MODULE MCRbfTree ----------------------------
(***************************************************************************)
(* Two bitmaps on pages of two small cells and branches of four.  The      *)
(* fifth leaf splits the branch at the root, so that a bitmap that was     *)
(* loaded has three levels; with the ninth, a branch below the root and    *)
(* then the root split, and there are four.                                *)
(***************************************************************************)
EXTENDS RbfTree

CONSTANTS x, y

\* The least value of some keys for one bitmap, and two bits inside the containers
\* of key 1; one bit for the other bitmap.
SomeBits == {<<x, k * ContainerWidth>> : k \in {0, 4, 8}}
            \cup {<<x, 8>>, <<x, 10>>, <<y, 0>>}

\* A full container and one of as many runs as fit on a page, both to be put, set
\* and cleared.  The second cleared from the first leaves one bit.
SomeGiven == {<<x, 1, [type |-> "bitmap", vals |-> Low]>>,
              <<x, 1, [type |-> "rle", vals |-> Low \ {2}]>>}

\* The first n keys of a bitmap, a leaf for each.
Load(n) == [i \in 1..n |-> <<x, (i - 1) * ContainerWidth>>]

\* An empty database, one with three levels, and one about to have four.
SomeLoaded == {Load(0), Load(5), Load(8)}
=============================================================================

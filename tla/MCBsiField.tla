----------------------------- MODULE MCBsiField -----------------------------
(* Instances of BsiField for TLC.                                          *)
EXTENDS BsiField, TLC

CONSTANTS c1, c2

Columns == {c1, c2}
Ranges == {<<-5, 5>>, <<2, 6>>, <<-6, -2>>}
Values == {-3, -1, 0, 2}
Symmetry == Permutations(Columns)
=============================================================================

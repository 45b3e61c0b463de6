------------------------------ MODULE MCEditorial ------------------------------
(***************************************************************************)
(* Two rows of one post, two web threads.                                  *)
(***************************************************************************)
EXTENDS Editorial, TLC

CONSTANTS p1, p2, t1, t2

Symmetry == Permutations({p1, p2}) \cup Permutations({t1, t2})
===============================================================================

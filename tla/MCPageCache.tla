---------------------------- MODULE MCPageCache ----------------------------
(***************************************************************************)
(* Instances of PageCache for TLC.                                         *)
(***************************************************************************)
EXTENDS PageCache, TLC

CONSTANTS c1, c2, home, about, b1, b2, a1, a2, v1, v2

Symmetry == Permutations({c1, c2}) \cup Permutations({b1, b2}) \cup
            Permutations(Admins) \cup Permutations(Visitors)
=============================================================================

------------------------------ MODULE MCForest ------------------------------
(***************************************************************************)
(* Instances of Forest for TLC: two nodes, one below the other or beside   *)
(* it, and a third that may be created.                                    *)
(***************************************************************************)
EXTENDS Forest, TLC

At(p, k) == [parent |-> p, order |-> k]

MCStarts ==
  {1 :> At(Root, 0) @@ 2 :> At(1, 0), 1 :> At(Root, 0) @@ 2 :> At(Root, 2)}
=============================================================================

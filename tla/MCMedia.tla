------------------------------ MODULE MCMedia ------------------------------
(***************************************************************************)
(* Instances of Media for TLC: one tenant's image that can have two        *)
(* variants, and another tenant's that cannot be decoded.                  *)
(***************************************************************************)
EXTENDS Media, TLC

CONSTANTS own, other, t1, t2

MCOwner == own :> t1 @@ other :> t2
MCWidth == own :> 500 @@ other :> 0
MCLibraries == {own :> k @@ other :> "bare" : k \in {"absent", "bare", "full"}}
MCBreakpoints == <<320, 640>>
=============================================================================

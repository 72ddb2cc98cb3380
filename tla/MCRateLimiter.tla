---------------------------- MODULE MCRateLimiter ---------------------------
(***************************************************************************)
(* Instances of RateLimiter for TLC: two requests of one client and one   *)
(* of another.                                                             *)
(***************************************************************************)
EXTENDS RateLimiter, TLC

CONSTANTS r1, r2, r3, c1, c2

MCClient == r1 :> c1 @@ r2 :> c1 @@ r3 :> c2
=============================================================================

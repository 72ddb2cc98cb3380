---------------------------- MODULE MCSessions ----------------------------
(***************************************************************************)
(* Instances of Sessions for TLC.                                          *)
(***************************************************************************)
EXTENDS Sessions, TLC

CONSTANTS u1, t1, t2, k1, k2, s1, s2, r1, r2, admin, author

\* A user who has yet to set up the second factor, and one who has done so.
NewUser == [u \in User |-> [secret |-> NoSecret, enabled |-> FALSE]]
OldUser == [u \in User |-> [secret |-> k1, enabled |-> TRUE]]

\* Admin of one tenant, author of the other.
TwoTenants == [u \in User |-> [t \in Tenant |-> IF t = t1 THEN admin ELSE author]]
=============================================================================

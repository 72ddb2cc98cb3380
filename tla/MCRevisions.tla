---------------------------- MODULE MCRevisions ----------------------------
(***************************************************************************)
(* Instances of Revisions for TLC: a draft or published text, or one of    *)
(* two template bodies.                                                    *)
(***************************************************************************)
EXTENDS Revisions, TLC

CONSTANTS e1, e2
=============================================================================

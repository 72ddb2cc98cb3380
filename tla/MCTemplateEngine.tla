-------------------------- MODULE MCTemplateEngine --------------------------
(***************************************************************************)
(* Instances of TemplateEngine for TLC.                                    *)
(***************************************************************************)
EXTENDS TemplateEngine, TLC

CONSTANTS t1, t2, h1, h2, a1, a2, r1, r2

Seeded(ty, act) == [type |-> ty, html |-> h1, version |-> 1, active |-> act]

\* An active article_loop template; the other ids are free.
OneActiveLoop == [t \in Tid |-> IF t = t1 THEN Seeded("article_loop", TRUE) ELSE NoRow]

\* An active and a spare page template.
TwoPages == [t \in Tid |-> Seeded("page", t = t1)]

Symmetry == Permutations(Admins) \cup Permutations(Renders)
=============================================================================

----------------------------- MODULE MCRestyle ------------------------------
(***************************************************************************)
(* An instance of Restyle for TLC: two types, one editor, and processes    *)
(* with the keys of both moderators or of one.                             *)
(***************************************************************************)
EXTENDS Restyle, FiniteSets, TLC

CONSTANTS x, y, z, n1, n2

MCKeySets == {{"openai", "mistral"}, {"mistral", "claude"}}

\* Two themes of one tenant and one of another.
MCOwner == x :> n1 @@ y :> n1 @@ z :> n2

\* A bound on the states TLC explores.  The themes share no variable with the
\* rest, and the page sees of a request for a template only whether it is
\* answered: the themes, the paths of requests through the moderators, and what
\* the page does with the templates it has are explored one while the others rest.
ThemesRest == everBorn = {}
PageRests == made = <<>> /\ rows = <<>>
PlainRequests ==
  /\ provider = Unset /\ ~denied
  /\ call[Builder].let = {}
  /\ \A c \in Callers \ {Builder} : call[c].pc = "idle"

OnePartAtATime ==
  /\ ThemesRest \/ (PageRests /\ PlainRequests /\ step = 0)
  /\ PageRests \/ PlainRequests
  /\ Cardinality(gone) <= 1
  /\ Len(made) + Len(rows) <= 6
=============================================================================

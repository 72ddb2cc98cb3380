---------------------------- MODULE DesignThemes ----------------------------
(***************************************************************************)
(* The design themes (store/design_theme.go and the theme endpoints of     *)
(* handlers/admin_ai.go).  Each belongs to a tenant, of whose themes one   *)
(* at most is active; its brief goes into every template the assistant     *)
(* generates for the tenant.                                               *)
(*                                                                         *)
(* Pages list the themes and act on the list later, and they stay open     *)
(* when the session switches to another tenant: a request may name any     *)
(* theme there has ever been, whoever it belongs to.  Only AIThemeDelete   *)
(* compares the theme's tenant with the session's.  Activate is a          *)
(* transaction: from its first UPDATE on it holds the rows it touches and  *)
(* nothing it wrote is visible, so its statements and its end are one      *)
(* step, and the snapshot its first UPDATE works from is an earlier one.   *)
(* Names and briefs are left out: AIThemeUpdate changes nothing here.      *)
(***************************************************************************)
CONSTANTS
  Theme,     \* theme ids (UUIDs: never used twice)
  Tenant,    \* tenants
  Owner,     \* Owner[t]: the tenant that theme t belongs to
  Activators \* activations that can be in flight together

ASSUME ThemesAssumption == Owner \in [Theme -> Tenant]

VARIABLES
  themes,     \* the ids in the table
  active,     \* those whose row is active
  everBorn,   \* the ids that INSERT has handed out
  activation  \* activation[a]: no request, or the theme it activates, the tenant
              \* of its session and the themes its first UPDATE found active

themeVars == <<themes, active, everBorn, activation>>

Activation ==
  [pc : {"idle"}]
    \cup [pc : {"swap"}, id : Theme, tenant : Tenant, seen : SUBSET Theme]

NoActivation == [pc |-> "idle"]

ThemesInit ==
  /\ themes = {}
  /\ active = {}
  /\ everBorn = {}
  /\ activation = [a \in Activators |-> NoActivation]

AIThemeCreate(t) ==
  /\ t \notin everBorn
  /\ themes' = themes \cup {t}
  /\ everBorn' = everBorn \cup {t}
  /\ UNCHANGED <<active, activation>>

\* The themes of S that belong to tenant n.
Of(n, S) == {t \in S : Owner[t] = n}

\* The first UPDATE finds the active rows of the session's tenant.
AIThemeActivate(a, t, n) ==
  /\ activation[a] = NoActivation
  /\ t \in everBorn
  /\ activation' = [activation EXCEPT ![a] =
       [pc |-> "swap", id |-> t, tenant |-> n, seen |-> Of(n, active)]]
  /\ UNCHANGED <<themes, active, everBorn>>

\* A variant that breaks ThemeStays: the second UPDATE's row count is not looked at.
ActivatedUnchecked(a) ==
  /\ activation[a].pc = "swap"
  /\ LET left == active \ activation[a].seen
         id == activation[a].id
     IN active' = IF Of(Owner[id], left) \subseteq {id} THEN left \cup (themes \cap {id})
                  ELSE active
  /\ activation' = [activation EXCEPT ![a] = NoActivation]
  /\ UNCHANGED <<themes, everBorn>>

\* The rows found are deactivated and the target is activated, whoever it belongs
\* to.  The transaction is rolled back when the target is gone (no row matches),
\* and when another theme of the target's tenant stays active (the unique index
\* on active rows).
Activated(a) ==
  /\ activation[a].pc = "swap"
  /\ LET left == active \ activation[a].seen
         id == activation[a].id
     IN active' = IF id \in themes /\ Of(Owner[id], left) \subseteq {id} THEN left \cup {id}
                  ELSE active
  /\ activation' = [activation EXCEPT ![a] = NoActivation]
  /\ UNCHANGED <<themes, everBorn>>

\* The statement fails or the connection is lost: the transaction is rolled back.
ActivationFails(a) ==
  /\ activation[a].pc = "swap"
  /\ activation' = [activation EXCEPT ![a] = NoActivation]
  /\ UNCHANGED <<themes, active, everBorn>>

AIThemeDeactivate(t) ==
  /\ t \in everBorn
  /\ active' = active \ {t}
  /\ UNCHANGED <<themes, everBorn, activation>>

\* A theme whose row is active is not deleted, nor one of another tenant.
AIThemeDelete(t) ==
  /\ t \in themes \ active
  /\ themes' = themes \ {t}
  /\ UNCHANGED <<active, everBorn, activation>>

ThemesNext ==
  \/ \E t \in Theme :
       \/ AIThemeCreate(t) \/ AIThemeDeactivate(t) \/ AIThemeDelete(t)
       \/ \E a \in Activators, n \in Tenant : AIThemeActivate(a, t, n)
  \/ \E a \in Activators : Activated(a) \/ ActivationFails(a)

ThemesTypeOK ==
  /\ themes \subseteq everBorn /\ everBorn \subseteq Theme
  /\ active \subseteq themes
  /\ activation \in [Activators -> Activation]

\* An activation from a session of the theme's tenant that has found t active ends,
\* and the theme it names belongs to another tenant.
LostAbroad(t) ==
  \E a \in Activators :
    /\ activation[a].pc = "swap" /\ activation'[a] = NoActivation
    /\ activation[a].tenant = Owner[t] /\ t \in activation[a].seen
    /\ activation[a].id \in themes /\ Owner[activation[a].id] # Owner[t]

\* Whatever activations, deletions and rollbacks overlap, a tenant loses its active
\* theme only to another one of its own, to a deactivation that names it, or to an
\* activation that comes from a session of the tenant but names a theme of another:
\* a page left open over a switch of the tenant, whose request Activate obeys, as it
\* looks the theme up by its id alone.  An activation of a theme that is gone changes
\* nothing (Activate looks at the number of rows, where TemplateStore.Activate does
\* not), and AIThemeDelete never takes the active theme.
ThemeStays ==
  [][\A t \in active :
       Of(Owner[t], active') = {} =>
         t \in themes' /\ (AIThemeDeactivate(t) \/ LostAbroad(t))]_themeVars
=============================================================================

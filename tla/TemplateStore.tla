--------------------------- MODULE TemplateStore ---------------------------
(***************************************************************************)
(* The templates table of one tenant (store/template.go) and the admin     *)
(* requests that change it (handlers/admin.go, handlers/admin_ai.go).      *)
(*                                                                         *)
(* Each request runs on its own goroutine, and every SQL statement is a    *)
(* step of its own, so any two requests interleave between statements.     *)
(* The module defines the table and the requests only: the modules that    *)
(* extend it add the render path and give the next-state relation.         *)
(*                                                                         *)
(* Abstractions.  A template's name is left out.  An html body is an       *)
(* element of Html; every element parses, because each path that stores a  *)
(* body validates it first (Engine.ValidateTemplate) or copies a stored    *)
(* one (TemplateRevisionRestore).  Activate's two UPDATEs and its COMMIT   *)
(* are one step: from its first UPDATE on the transaction holds the row    *)
(* locks of every row it touches and nothing it wrote is visible, so no    *)
(* other request can observe or disturb a state in between; the snapshot   *)
(* its first UPDATE works from is a separate, earlier step.                *)
(*                                                                         *)
(* The templates of other tenants are left out, but not their ids: a page  *)
(* left open over a switch of tenants sends the id of one tenant's         *)
(* template under the session of another, and Activate looks ids up        *)
(* without the tenant.  Every other request names both.                    *)
(***************************************************************************)
EXTENDS Naturals, FiniteSets

CONSTANTS
  Tid,          \* template ids (UUIDs: never used twice)
  Html,         \* template bodies that parse
  Admins,       \* admin requests that can be in flight together
  CreateTypes,  \* types of the templates the admins create
  SeedRows,     \* the table after seeding, a function on Tid
  Foreign,      \* the id of a template of another tenant
  ForeignTypes, \* types of the foreign templates whose ids get here
  NoRow,        \* the value of rows[t] when the table has no row t
  MaxRequests   \* bound on the number of admin requests in a behaviour

TemplateType == {"header", "footer", "page", "article_loop", "author_page"}

Row == [type : TemplateType, html : Html, version : Nat, active : BOOLEAN]

SoleActive(table) ==
  \A s, t \in Tid :
    /\ table[s] # NoRow /\ table[s].active
    /\ table[t] # NoRow /\ table[t].active
    /\ table[s].type = table[t].type
    => s = t

ASSUME StoreAssumption ==
  /\ NoRow \notin Row
  /\ CreateTypes \subseteq TemplateType
  /\ Foreign \notin Tid
  /\ ForeignTypes \subseteq TemplateType
  /\ SeedRows \in [Tid -> Row \cup {NoRow}]
  /\ SoleActive(SeedRows)
  /\ MaxRequests \in Nat

VARIABLES
  rows,    \* the table: rows[t] is the row of template t, or NoRow
  born,    \* the ids INSERT has ever handed out
  adm,     \* adm[a]: where admin request a is, and what it holds in memory
  begun    \* number of admin requests begun so far (bounded by MaxRequests)

storeVars == <<rows, born, adm, begun>>

Live(t) == rows[t] # NoRow
IsActive(t) == Live(t) /\ rows[t].active
Activated(ty) == {t \in Tid : IsActive(t) /\ rows[t].type = ty}

-----------------------------------------------------------------------------
(* Admin requests.                                                         *)

\* What a request holds in memory at each point between two statements; here
\* says that an activation runs under a session of this tenant.
Request ==
  [pc : {"idle", "invalidateAll"}]
    \cup [pc : {"update"}, id : Tid, html : Html]
    \cup [pc : {"snapshot"}, id : Tid \cup {Foreign}, type : TemplateType, here : BOOLEAN]
    \cup [pc : {"swap"}, id : Tid \cup {Foreign}, seen : SUBSET Tid]
    \cup [pc : {"invalidate"}, id : Tid]

Idle == [pc |-> "idle"]

StoreInit ==
  /\ rows = SeedRows
  /\ born = {t \in Tid : SeedRows[t] # NoRow}
  /\ adm = [a \in Admins |-> Idle]
  /\ begun = 0

Begin(a) ==
  /\ adm[a] = Idle
  /\ begun < MaxRequests
  /\ begun' = begun + 1

Finish(a) == adm' = [adm EXCEPT ![a] = Idle]

\* TemplateCreate and AITemplateSave: one INSERT, version 1, not active; no
\* cache is touched.
TemplateCreate(a, t, ty, h) ==
  /\ Begin(a)
  /\ t \notin born
  /\ born' = born \cup {t}
  /\ rows' = [rows EXCEPT ![t] =
                [type |-> ty, html |-> h, version |-> 1, active |-> FALSE]]
  /\ UNCHANGED adm

\* TemplateUpdate and TemplateRevisionRestore up to the UPDATE: the row is
\* found, h is the submitted body or the revision's.
UpdateRead(a, t, h) ==
  /\ Begin(a)
  /\ Live(t)
  /\ adm' = [adm EXCEPT ![a] = [pc |-> "update", id |-> t, html |-> h]]
  /\ UNCHANGED <<rows, born>>

\* A variant that breaks KeyDeterminesBody: the version stays.
UpdateKeepsVersion(a) ==
  LET t == adm[a].id IN
  /\ adm[a].pc = "update"
  /\ rows' = IF Live(t) THEN [rows EXCEPT ![t].html = adm[a].html] ELSE rows
  /\ adm' = [adm EXCEPT ![a] = [pc |-> "invalidate", id |-> t]]
  /\ UNCHANGED <<born, begun>>

\* TemplateStore.Update: body and version change in one statement.  A row
\* deleted since UpdateRead matches nothing, which the store does not report:
\* the handler goes on to invalidate the caches either way.
UpdateWrite(a) ==
  LET t == adm[a].id IN
  /\ adm[a].pc = "update"
  /\ rows' = IF Live(t)
             THEN [rows EXCEPT ![t].html = adm[a].html,
                               ![t].version = @ + 1]
             ELSE rows
  /\ adm' = [adm EXCEPT ![a] = [pc |-> "invalidate", id |-> t]]
  /\ UNCHANGED <<born, begun>>

Selected(a, t, ty, here) ==
  adm' = [adm EXCEPT ![a] = [pc |-> "snapshot", id |-> t, type |-> ty, here |-> here]]

\* TemplateStore.Activate, SELECT type: without a row it fails and nothing
\* changes.  The session may be another tenant's.
ActivateSelect(a, t, here) ==
  /\ Begin(a)
  /\ Live(t)
  /\ Selected(a, t, rows[t].type, here)
  /\ UNCHANGED <<rows, born>>

\* The same under a session of this tenant for a template of another.
ActivateForeign(a, ty) ==
  /\ Begin(a)
  /\ Selected(a, Foreign, ty, TRUE)
  /\ UNCHANGED <<rows, born>>

OfType(ty) == {t \in Tid : Live(t) /\ rows[t].type = ty}

Snapshot(a, seen) ==
  /\ adm[a].pc = "snapshot"
  /\ adm' = [adm EXCEPT ![a] = [pc |-> "swap", id |-> adm[a].id, seen |-> seen]]
  /\ UNCHANGED <<rows, born, begun>>

\* A variant that breaks ActivateSnapshot: the first UPDATE forgets the type.
SnapshotOfTenant(a) == Snapshot(a, IF adm[a].here THEN {t \in Tid : Live(t)} ELSE {})

\* Activate's first UPDATE starts: READ COMMITTED fixes the rows it will visit,
\* those of the type that belong to the session's tenant.
ActivateSnapshot(a) == Snapshot(a, IF adm[a].here THEN OfType(adm[a].type) ELSE {})

\* The rows the transaction leaves behind: its first UPDATE deactivates the
\* rows of its snapshot that still exist, its second activates the target.
Swapped(a) ==
  [t \in Tid |->
     IF Live(t) /\ t = adm[a].id THEN [rows[t] EXCEPT !.active = TRUE]
     ELSE IF Live(t) /\ t \in adm[a].seen THEN [rows[t] EXCEPT !.active = FALSE]
     ELSE rows[t]]

\* Activate commits.  Neither UPDATE checks that it matched a row.
ActivateCommit(a) ==
  /\ adm[a].pc = "swap"
  /\ SoleActive(Swapped(a))
  /\ rows' = Swapped(a)
  /\ adm' = [adm EXCEPT ![a] = [pc |-> "invalidateAll"]]
  /\ UNCHANGED <<born, begun>>

\* The unique index on (tenant_id, type) WHERE is_active rejects the second
\* UPDATE: the transaction rolls back and the handler only logs it.
ActivateConflict(a) ==
  /\ adm[a].pc = "swap"
  /\ ~SoleActive(Swapped(a))
  /\ Finish(a)
  /\ UNCHANGED <<rows, born, begun>>

\* TemplateStore.Delete: one DELETE ... WHERE is_active = FALSE; when it
\* matches nothing the handler logs the error and touches no cache.
TemplateDelete(a, t) ==
  /\ Begin(a)
  /\ Live(t) /\ ~rows[t].active
  /\ rows' = [rows EXCEPT ![t] = NoRow]
  /\ adm' = [adm EXCEPT ![a] = [pc |-> "invalidate", id |-> t]]
  /\ UNCHANGED born

\* A statement of a request fails (connection lost, deadlock detected): the
\* handler logs the error and returns without invalidating anything.
StatementFails(a) ==
  /\ adm[a].pc \in {"update", "snapshot", "swap"}
  /\ Finish(a)
  /\ UNCHANGED <<rows, born, begun>>

\* The last step of a request: its cache invalidation, which the modules that
\* extend this one conjoin with what it does to the caches.
InvalidateOne(a) == adm[a].pc = "invalidate" /\ Finish(a) /\ UNCHANGED <<rows, born, begun>>
InvalidateAll(a) == adm[a].pc = "invalidateAll" /\ Finish(a) /\ UNCHANGED <<rows, born, begun>>

\* Every step of a request that touches the table and no cache.
StoreStep(a) ==
  \/ \E t \in Tid, ty \in CreateTypes, h \in Html : TemplateCreate(a, t, ty, h)
  \/ \E t \in Tid, h \in Html : UpdateRead(a, t, h)
  \/ UpdateWrite(a)
  \/ \E t \in Tid, here \in BOOLEAN : ActivateSelect(a, t, here)
  \/ \E ty \in ForeignTypes : ActivateForeign(a, ty)
  \/ ActivateSnapshot(a)
  \/ ActivateCommit(a)
  \/ ActivateConflict(a)
  \/ \E t \in Tid : TemplateDelete(a, t)
  \/ StatementFails(a)

\* The process dies and starts again: requests in flight are gone, the table
\* is not.
StoreRestart ==
  /\ adm' = [a \in Admins |-> Idle]
  /\ UNCHANGED <<rows, born, begun>>

-----------------------------------------------------------------------------
(* Properties of the table.                                                *)

\* The types of the table and of the requests.
StoreTypeOK ==
  /\ rows \in [Tid -> Row \cup {NoRow}]
  /\ born \subseteq Tid
  /\ adm \in [Admins -> Request]
  /\ begun \in Nat

\* A type that has an active template is left without one only by an activation
\* under this tenant's session whose target is none of the tenant's templates,
\* because it was deleted after the SELECT or is another tenant's: no activation
\* of another type, deletion, update or overlap of activations does it
\* (store/template.go:131-155, 158-168).
LosesItsTarget(a) ==
  /\ adm[a].pc = "swap" /\ adm'[a].pc = "invalidateAll"
  /\ adm[a].id \in (born \cup {Foreign}) \ {t \in Tid : Live(t)}

ActiveLostOnlyWithTarget ==
  [][\A ty \in TemplateType :
       Activated(ty) # {} /\ Activated(ty)' = {} => \E a \in Admins : LosesItsTarget(a)]_storeVars

\* A type that has an active template keeps one: activation swaps the active
\* template atomically and an active template cannot be deleted
\* (store/template.go:124-125, "Activate sets a template as the active one for
\* its type within a tenant ... Uses a transaction for atomicity").
ActiveNeverLost ==
  [][\A ty \in TemplateType : Activated(ty) # {} => Activated(ty)' # {}]_rows
=============================================================================

--------------------------- MODULE TemplateEngine ---------------------------
(***************************************************************************)
(* The template engine (engine/engine.go) with its L1 cache of compiled    *)
(* templates (engine/cache.go), rendering public pages while admin         *)
(* requests change the templates table.                                    *)
(*                                                                         *)
(* The cache is keyed by template id and version and shared by all         *)
(* requests of the process; each of its operations holds its mutex and is  *)
(* one step.  A compiled template is represented by the body it was        *)
(* compiled from.  Between the query that reads a row, the cache lookup    *)
(* and the store of a freshly parsed template, any other request may run.  *)
(***************************************************************************)
EXTENDS RenderPlan

VARIABLES
  l1,    \* the cache: a set of entries, at most one per id and version
  ren    \* ren[r]: where render r is, and what it holds in memory

engineVars == <<l1, ren>>
vars == <<storeVars, engineVars>>

Entry == [id : Tid, version : Nat, html : Html]

\* tmpl is the row the current query returned, compiled the body that the
\* compiled template in hand executes; kind, want and out are as in view.
Rendering ==
  [pc : {"done", "find", "get", "parse", "exec"}, kind : Kind,
   want : TemplateType \cup {"none"}, tmpl : Entry \cup {NoRow},
   compiled : Html \cup {Blank}, out : [Part -> Html \cup {Blank}]]

\* A variant that breaks Cached: the key is the id alone.
CachedById(id, version) == {e \in l1 : e.id = id}

Cached(id, version) == {e \in l1 : e.id = id /\ e.version = version}

AtRest == [pc |-> "done", kind |-> "page", want |-> "none",
           tmpl |-> NoRow, compiled |-> Blank, out |-> NoParts]

Init ==
  /\ StoreInit
  /\ l1 = {}
  /\ ren = [r \in Renders |-> AtRest]

-----------------------------------------------------------------------------
(* The cache.                                                              *)

CachePut(e) == l1' = (l1 \ Cached(e.id, e.version)) \cup {e}
CacheInvalidate(id) == l1' = {e \in l1 : e.id # id}
CacheInvalidateAll == l1' = {}

-----------------------------------------------------------------------------
(* Rendering.                                                              *)

RenderBegin(r, k) ==
  /\ ren[r].pc = "done"
  /\ ren' = [ren EXCEPT ![r] = [AtRest EXCEPT !.pc = "find", !.kind = k, !.want = "header"]]
  /\ UNCHANGED <<storeVars, l1>>

\* FindActiveByType returns a row: its id, version and body are copied.
FindActive(r, t) ==
  /\ ren[r].pc = "find"
  /\ t \in Activated(ren[r].want)
  /\ ren' = [ren EXCEPT ![r].pc = "get",
                        ![r].tmpl = [id |-> t, version |-> rows[t].version,
                                     html |-> rows[t].html]]
  /\ UNCHANGED <<storeVars, l1>>

\* FindActiveByType returns no row or fails.
FindNone(r) ==
  LET w == WantAfterMiss(ren[r].kind, ren[r].want) IN
  /\ ren[r].pc = "find"
  /\ ren' = [ren EXCEPT ![r].pc = GoOn(w), ![r].want = w]
  /\ UNCHANGED <<storeVars, l1>>

\* compileAndRender, the cache lookup.
CacheGet(r) ==
  LET hit == Cached(ren[r].tmpl.id, ren[r].tmpl.version) IN
  /\ ren[r].pc = "get"
  /\ \/ /\ hit = {}
        /\ ren' = [ren EXCEPT ![r].pc = "parse"]
     \/ \E e \in hit :
          ren' = [ren EXCEPT ![r].pc = "exec", ![r].compiled = e.html]
  /\ UNCHANGED <<storeVars, l1>>

\* compileAndRender on a miss: parse the body read earlier and store it.
ParseAndPut(r) ==
  /\ ren[r].pc = "parse"
  /\ CachePut(ren[r].tmpl)
  /\ ren' = [ren EXCEPT ![r].pc = "exec", ![r].compiled = ren[r].tmpl.html]
  /\ UNCHANGED storeVars

\* compileAndRender, execution.
Execute(r) ==
  LET w == NextWant(ren[r].kind, ren[r].want) IN
  /\ ren[r].pc = "exec"
  /\ ren' = [ren EXCEPT ![r].pc = GoOn(w), ![r].want = w,
                        ![r].tmpl = NoRow, ![r].compiled = Blank,
                        ![r].out = [@ EXCEPT ![PartOf(ren[r].want)] =
                                                Executed(ren[r].compiled)]]
  /\ UNCHANGED <<storeVars, l1>>

-----------------------------------------------------------------------------
(* Cache invalidation by the admin requests, after their write.            *)

InvalidateTemplate(a) ==
  /\ InvalidateOne(a)
  /\ CacheInvalidate(adm[a].id)
  /\ UNCHANGED ren

InvalidateAllTemplates(a) ==
  /\ InvalidateAll(a)
  /\ CacheInvalidateAll
  /\ UNCHANGED ren

\* The cache and every render live in the process: a restart empties both.
Restart ==
  /\ StoreRestart
  /\ l1' = {}
  /\ ren' = [r \in Renders |-> AtRest]

RenderStep(r) ==
  \/ \E k \in Kinds : RenderBegin(r, k)
  \/ \E t \in Tid : FindActive(r, t)
  \/ FindNone(r)
  \/ CacheGet(r)
  \/ ParseAndPut(r)
  \/ Execute(r)

Next ==
  \/ \E a \in Admins : \/ StoreStep(a) /\ UNCHANGED engineVars
                       \/ InvalidateTemplate(a)
                       \/ InvalidateAllTemplates(a)
  \/ \E r \in Renders : RenderStep(r)
  \/ Restart

Spec == Init /\ [][Next]_vars

-----------------------------------------------------------------------------
(* Properties.                                                             *)

\* A render that is looking for, or working on, a part has what that takes.
HoldsItsPart(x) ==
  /\ x.pc # "done" => x.want \in TemplateType
  /\ x.pc \in {"get", "parse", "exec"} => x.tmpl \in Entry
  /\ x.pc = "exec" => x.compiled \in Html

\* The types of the table, the requests, the cache and the renders.
TypeOK ==
  /\ StoreTypeOK
  /\ l1 \subseteq Entry
  /\ ren \in [Renders -> Rendering]
  /\ \A r \in Renders : HoldsItsPart(ren[r])

\* Every (id, version, body) triple in the process or the table.
CurrentRows == {[id |-> t, version |-> rows[t].version, html |-> rows[t].html] :
                  t \in {s \in Tid : Live(s)}}
InHand == {ren[r].tmpl : r \in {q \in Renders : ren[q].pc \in {"get", "parse", "exec"}}}
Triples == l1 \cup CurrentRows \cup InHand

\* Whatever the table, the cache and the renders in flight hold under one id
\* and version is one body, so a cached compilation is never the wrong one for
\* its key, even when it is stored after the invalidation that should have
\* removed it (engine/cache.go:5-8,17-18).
KeyDeterminesBody ==
  \A s, t \in Triples : s.id = t.id /\ s.version = t.version => s.html = t.html

\* No version the process has seen of a live template is newer than its row's,
\* and it has only seen ids that were inserted: the next version Update assigns
\* is new to every cache entry and render.
VersionsBehind ==
  \A s \in Triples : s.id \in born /\ (Live(s.id) => s.version <= rows[s.id].version)

\* What a render executes is the body of the row this very render read: a
\* cache hit can serve neither an older nor a newer body.
ExecutesWhatItRead ==
  \A r \in Renders : ren[r].pc = "exec" => ren[r].compiled = ren[r].tmpl.html

\* A render as CachelessEngine sees it: the lookup and the store are not steps.
ViewOf(x) ==
  LET working == x.pc \in {"get", "parse", "exec"} IN
  [pc   |-> IF working THEN "exec" ELSE x.pc,
   kind |-> x.kind,
   want |-> x.want,
   html |-> IF working THEN x.tmpl.html ELSE Blank,
   out  |-> x.out]

AbsView == [r \in Renders |-> ViewOf(ren[r])]

Cacheless == INSTANCE CachelessEngine WITH view <- AbsView

\* The L1 cache is transparent: every part of every page is what an engine
\* without a cache could have produced from the same table, with a restart, an
\* invalidation or a concurrent write at any point.
L1Transparent == Cacheless!AbsSpec
=============================================================================

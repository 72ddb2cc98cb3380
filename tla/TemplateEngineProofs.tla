------------------------ MODULE TemplateEngineProofs ------------------------
(***************************************************************************)
(* Proofs about TemplateEngine, for every set of templates, bodies, admin  *)
(* requests and renders, and every seeded table.                           *)
(***************************************************************************)
EXTENDS TemplateEngine, TLAPS

-----------------------------------------------------------------------------
(* Types.                                                                  *)

\* The engine always knows what to look for next (engine.go, RenderPage,
\* RenderPostList, RenderAuthorPage).
LEMMA WantTyped ==
  ASSUME NEW k \in Kind, NEW ty \in TemplateType
  PROVE  /\ NextWant(k, ty) \in TemplateType \cup {"none"}
         /\ WantAfterMiss(k, ty) \in TemplateType \cup {"none"}
BY DEF Kind, TemplateType, NextWant, WantAfterMiss, MainType

\* The seeded table and empty cache are well typed.
LEMMA InitTypeOK == Init => TypeOK
<1> USE StoreAssumption, EngineAssumption
<1> SUFFICES ASSUME Init PROVE TypeOK
  OBVIOUS
<1>1. StoreTypeOK
  BY DEF Init, StoreInit, StoreTypeOK, Request, Idle
<1>2. AtRest \in Rendering
  BY DEF AtRest, Rendering, Kind, NoParts
<1>3. QED
  BY <1>1, <1>2 DEF Init, TypeOK, AtRest, HoldsItsPart

\* A step of an admin request keeps the table and the requests well typed.
LEMMA StoreStepTypeOK ==
  ASSUME StoreTypeOK, NEW a \in Admins, StoreStep(a)
  PROVE  StoreTypeOK'
<1> USE StoreAssumption DEF StoreTypeOK
<1>1. CASE \E t \in Tid, ty \in CreateTypes, h \in Html : TemplateCreate(a, t, ty, h)
  <2>1. PICK t \in Tid, ty \in CreateTypes, h \in Html : TemplateCreate(a, t, ty, h)
    BY <1>1
  <2>2. [type |-> ty, html |-> h, version |-> 1, active |-> FALSE] \in Row
    BY DEF Row
  <2>3. QED BY <2>1, <2>2 DEF TemplateCreate, Begin
<1>2. CASE \E t \in Tid, h \in Html : UpdateRead(a, t, h)
  BY <1>2 DEF UpdateRead, Begin, Request
<1>3. CASE UpdateWrite(a)
  <2>1. adm[a].id \in Tid /\ adm[a].html \in Html
    BY <1>3 DEF UpdateWrite, Request
  <2>2. rows' \in [Tid -> Row \cup {NoRow}]
    BY <1>3, <2>1 DEF UpdateWrite, Live, Row
  <2>3. QED BY <1>3, <2>1, <2>2 DEF UpdateWrite, Request
<1>4. CASE (\E t \in Tid, here \in BOOLEAN : ActivateSelect(a, t, here))
            \/ \E ty \in ForeignTypes : ActivateForeign(a, ty)
  <2>1. ASSUME NEW t \in Tid \cup {Foreign}, NEW ty \in TemplateType, NEW here \in BOOLEAN,
               Selected(a, t, ty, here)
        PROVE  adm' \in [Admins -> Request]
    BY <2>1 DEF Selected, Request
  <2>2. ASSUME NEW t \in Tid, NEW here \in BOOLEAN, ActivateSelect(a, t, here) PROVE StoreTypeOK'
    <3>1. rows[t].type \in TemplateType
      BY <2>2 DEF ActivateSelect, Live, Row
    <3>2. QED
      BY <2>1, <2>2, <3>1 DEF ActivateSelect, Begin
  <2>3. ASSUME NEW ty \in ForeignTypes, ActivateForeign(a, ty) PROVE StoreTypeOK'
    <3>1. ty \in TemplateType /\ TRUE \in BOOLEAN
      OBVIOUS
    <3>2. adm' \in [Admins -> Request]
      BY <2>1, <2>3, <3>1 DEF ActivateForeign
    <3>3. QED
      BY <2>3, <3>2 DEF ActivateForeign, Begin
  <2>4. QED
    BY <1>4, <2>2, <2>3
<1>5. CASE ActivateSnapshot(a)
  BY <1>5 DEF ActivateSnapshot, Snapshot, OfType, Request
<1>6. CASE ActivateCommit(a)
  <2>1. Swapped(a) \in [Tid -> Row \cup {NoRow}]
    BY DEF Swapped, Live, Row
  <2>2. QED BY <1>6, <2>1 DEF ActivateCommit, Request
<1>7. CASE ActivateConflict(a)
  BY <1>7 DEF ActivateConflict, Finish, Request, Idle
<1>8. CASE \E t \in Tid : TemplateDelete(a, t)
  BY <1>8 DEF TemplateDelete, Begin, Request
<1>9. CASE StatementFails(a)
  BY <1>9 DEF StatementFails, Finish, Request, Idle
<1>10. QED
  BY <1>1, <1>2, <1>3, <1>4, <1>5, <1>6, <1>7, <1>8, <1>9 DEF StoreStep

\* A step of render r alone: it is enough that r's new state is well typed.
LEMMA OneRenderTypeOK ==
  ASSUME TypeOK, NEW r \in Renders, UNCHANGED storeVars, l1' \subseteq Entry,
         NEW x \in Rendering, HoldsItsPart(x), ren' = [ren EXCEPT ![r] = x]
  PROVE  TypeOK'
BY DEF TypeOK, StoreTypeOK, storeVars, HoldsItsPart

\* A step of a render keeps the cache and the renders well typed.
LEMMA RenderStepTypeOK ==
  ASSUME TypeOK, NEW r \in Renders, RenderStep(r)
  PROVE  TypeOK'
<1> USE StoreAssumption, EngineAssumption
<1>0. /\ l1 \subseteq Entry
      /\ ren \in [Renders -> Rendering]
      /\ ren[r] \in Rendering
      /\ HoldsItsPart(ren[r])
  BY DEF TypeOK
<1>1. CASE \E k \in Kinds : RenderBegin(r, k)
  <2>1. PICK k \in Kinds : RenderBegin(r, k)
    BY <1>1
  <2> DEFINE x == [AtRest EXCEPT !.pc = "find", !.kind = k, !.want = "header"]
  <2>2. x \in Rendering /\ HoldsItsPart(x)
    BY DEF AtRest, Rendering, Kind, NoParts, TemplateType, HoldsItsPart
  <2>3. QED
    BY <2>1, <2>2, <1>0, OneRenderTypeOK DEF RenderBegin
<1>2. CASE \E t \in Tid : FindActive(r, t)
  <2>1. PICK t \in Tid : FindActive(r, t)
    BY <1>2
  <2> DEFINE e == [id |-> t, version |-> rows[t].version, html |-> rows[t].html]
             x == [ren[r] EXCEPT !.pc = "get", !.tmpl = e]
  <2>2. e \in Entry
    BY <2>1 DEF FindActive, Activated, IsActive, Live, Entry, Row, TypeOK, StoreTypeOK
  <2>3. x \in Rendering /\ HoldsItsPart(x)
    BY <2>1, <2>2, <1>0 DEF FindActive, Rendering, HoldsItsPart
  <2>4. ren' = [ren EXCEPT ![r] = x]
    BY <2>1, <1>0 DEF FindActive
  <2>5. QED
    BY <2>1, <2>3, <2>4, <1>0, OneRenderTypeOK DEF FindActive
<1>3. CASE FindNone(r)
  <2> DEFINE w == WantAfterMiss(ren[r].kind, ren[r].want)
             x == [ren[r] EXCEPT !.pc = GoOn(w), !.want = w]
  <2>1. ren[r].kind \in Kind /\ ren[r].want \in TemplateType
    BY <1>3, <1>0 DEF FindNone, Rendering, HoldsItsPart
  <2>2. w \in TemplateType \cup {"none"}
    BY <2>1, WantTyped
  <2>3. x \in Rendering /\ HoldsItsPart(x)
    BY <2>2, <1>0 DEF GoOn, Rendering, HoldsItsPart
  <2>4. ren' = [ren EXCEPT ![r] = x]
    BY <1>3, <1>0 DEF FindNone
  <2>5. QED
    BY <1>3, <2>3, <2>4, <1>0, OneRenderTypeOK DEF FindNone
<1>4. CASE CacheGet(r)
  <2>1. CASE ren' = [ren EXCEPT ![r].pc = "parse"]
    <3> DEFINE x == [ren[r] EXCEPT !.pc = "parse"]
    <3>1. x \in Rendering /\ HoldsItsPart(x)
      BY <1>4, <1>0 DEF CacheGet, Rendering, HoldsItsPart
    <3>2. ren' = [ren EXCEPT ![r] = x]
      BY <2>1, <1>0
    <3>3. QED
      BY <1>4, <3>1, <3>2, <1>0, OneRenderTypeOK DEF CacheGet
  <2>2. ASSUME NEW e \in l1, ren' = [ren EXCEPT ![r].pc = "exec", ![r].compiled = e.html]
        PROVE  TypeOK'
    <3> DEFINE x == [ren[r] EXCEPT !.pc = "exec", !.compiled = e.html]
    <3>1. e.html \in Html
      BY <1>0 DEF Entry
    <3>2. x \in Rendering /\ HoldsItsPart(x)
      BY <1>4, <3>1, <1>0 DEF CacheGet, Rendering, HoldsItsPart
    <3>3. ren' = [ren EXCEPT ![r] = x]
      BY <2>2, <1>0
    <3>4. QED
      BY <1>4, <3>2, <3>3, <1>0, OneRenderTypeOK DEF CacheGet
  <2>3. QED
    BY <1>4, <2>1, <2>2 DEF CacheGet, Cached
<1>5. CASE ParseAndPut(r)
  <2> DEFINE x == [ren[r] EXCEPT !.pc = "exec", !.compiled = ren[r].tmpl.html]
  <2>1. ren[r].tmpl \in Entry /\ ren[r].tmpl.html \in Html
    BY <1>5, <1>0 DEF ParseAndPut, HoldsItsPart, Entry
  <2>2. x \in Rendering /\ HoldsItsPart(x)
    BY <1>5, <2>1, <1>0 DEF ParseAndPut, Rendering, HoldsItsPart
  <2>3. ren' = [ren EXCEPT ![r] = x]
    BY <1>5, <1>0 DEF ParseAndPut
  <2>4. l1' \subseteq Entry
    BY <1>5, <2>1, <1>0 DEF ParseAndPut, CachePut
  <2>5. QED
    BY <1>5, <2>2, <2>3, <2>4, OneRenderTypeOK DEF ParseAndPut
<1>6. CASE Execute(r)
  <2> DEFINE w == NextWant(ren[r].kind, ren[r].want)
             x == [ren[r] EXCEPT !.pc = GoOn(w), !.want = w, !.tmpl = NoRow, !.compiled = Blank,
                                 !.out = [@ EXCEPT ![PartOf(ren[r].want)] =
                                                     Executed(ren[r].compiled)]]
  <2>1. ren[r].kind \in Kind /\ ren[r].want \in TemplateType /\ ren[r].compiled \in Html
    BY <1>6, <1>0 DEF Execute, Rendering, HoldsItsPart
  <2>2. w \in TemplateType \cup {"none"}
    BY <2>1, WantTyped
  <2>3. PartOf(ren[r].want) \in Part /\ Executed(ren[r].compiled) \in Html \cup {Blank}
    BY <2>1 DEF PartOf, Part, Executed
  <2>4. x \in Rendering /\ HoldsItsPart(x)
    BY <2>2, <2>3, <1>0 DEF GoOn, Rendering, HoldsItsPart
  <2>5. ren' = [ren EXCEPT ![r] = x]
    BY <1>6, <1>0 DEF Execute
  <2>6. QED
    BY <1>6, <2>4, <2>5, <1>0, OneRenderTypeOK DEF Execute
<1>7. QED
  BY <1>1, <1>2, <1>3, <1>4, <1>5, <1>6 DEF RenderStep

\* TypeOK is preserved by every step.
LEMMA NextTypeOK == TypeOK /\ [Next]_vars => TypeOK'
<1> SUFFICES ASSUME TypeOK, [Next]_vars PROVE TypeOK'
  OBVIOUS
<1>1. ASSUME NEW a \in Admins, StoreStep(a), UNCHANGED engineVars PROVE TypeOK'
  BY <1>1, StoreStepTypeOK DEF TypeOK, engineVars
<1>2. ASSUME NEW a \in Admins, InvalidateTemplate(a) PROVE TypeOK'
  BY <1>2 DEF InvalidateTemplate, InvalidateOne, Finish, CacheInvalidate, TypeOK, StoreTypeOK,
              Request, Idle
<1>3. ASSUME NEW a \in Admins, InvalidateAllTemplates(a) PROVE TypeOK'
  BY <1>3 DEF InvalidateAllTemplates, InvalidateAll, Finish, CacheInvalidateAll, TypeOK,
              StoreTypeOK, Request, Idle
<1>4. ASSUME NEW r \in Renders, RenderStep(r) PROVE TypeOK'
  BY <1>4, RenderStepTypeOK
<1>5. CASE Restart
  <2>1. AtRest \in Rendering
    BY DEF AtRest, Rendering, Kind, NoParts
  <2>2. QED
    BY <1>5, <2>1 DEF Restart, StoreRestart, TypeOK, StoreTypeOK, Request, Idle, AtRest,
              HoldsItsPart
<1>6. CASE UNCHANGED vars
  BY <1>6 DEF vars, storeVars, engineVars, TypeOK, StoreTypeOK
<1>7. QED
  BY <1>1, <1>2, <1>3, <1>4, <1>5, <1>6 DEF Next

\* The types of the table, the requests, the cache and the renders.
THEOREM TypeCorrect == Spec => []TypeOK
BY InitTypeOK, NextTypeOK, PTL DEF Spec

-----------------------------------------------------------------------------
(* One body per cache key.                                                 *)

Coherent == KeyDeterminesBody /\ VersionsBehind

\* Steps that bring no triple the process or the table did not already hold,
\* insert or revive no row and take no version back, keep Coherent.
LEMMA NothingNew ==
  ASSUME Coherent, Triples' \subseteq Triples, born \subseteq born', Triples \subseteq Entry,
         \A t \in Tid : Live(t)' => Live(t) /\ rows'[t].version = rows[t].version
  PROVE  Coherent'
BY DEF Coherent, KeyDeterminesBody, VersionsBehind, Entry

\* A triple names a template id, a version and a body.
LEMMA TriplesTyped == TypeOK => Triples \subseteq Entry
<1> SUFFICES ASSUME TypeOK PROVE Triples \subseteq Entry
  OBVIOUS
<1>1. l1 \subseteq Entry
  BY DEF TypeOK
<1>2. CurrentRows \subseteq Entry
  BY StoreAssumption DEF CurrentRows, Live, Entry, Row, TypeOK, StoreTypeOK
<1>3. InHand \subseteq Entry
  BY DEF InHand, TypeOK, HoldsItsPart
<1>4. QED
  BY <1>1, <1>2, <1>3 DEF Triples

\* The row of a live template is itself a triple.
LEMMA RowIsTriple ==
  ASSUME NEW t \in Tid, Live(t)
  PROVE  \E s \in Triples : s = [id |-> t, version |-> rows[t].version, html |-> rows[t].html]
BY DEF Triples, CurrentRows

\* At the start the table is all there is, and it has one row per id.
LEMMA InitCoherent == Init => Coherent
<1> SUFFICES ASSUME Init PROVE Coherent
  OBVIOUS
<1>1. Triples = CurrentRows
  BY DEF Init, Triples, InHand, AtRest
<1>2. KeyDeterminesBody
  BY <1>1 DEF KeyDeterminesBody, CurrentRows
<1>3. \A t \in Tid : Live(t) => t \in born /\ rows[t].version \in Nat
  BY StoreAssumption DEF Init, StoreInit, Live, Row
<1>4. VersionsBehind
  BY <1>1, <1>3 DEF VersionsBehind, CurrentRows
<1>5. QED
  BY <1>2, <1>4 DEF Coherent

\* An admin request's step keeps one body per key: INSERT uses a new id, UPDATE
\* a version above every one seen, and the other statements change no body.
LEMMA StoreStepCoherent ==
  ASSUME TypeOK, Coherent, NEW a \in Admins, StoreStep(a), UNCHANGED engineVars
  PROVE  Coherent'
<1> USE StoreAssumption
<1>0. /\ rows \in [Tid -> Row \cup {NoRow}]
      /\ adm[a] \in Request
      /\ Triples \subseteq Entry
  BY TriplesTyped DEF TypeOK, StoreTypeOK
<1>1. l1' = l1 /\ InHand' = InHand
  BY DEF engineVars, InHand
<1>2. ASSUME UNCHANGED <<rows, born>> PROVE Coherent'
  <2>1. Triples' = Triples
    BY <1>1, <1>2 DEF Triples, CurrentRows, Live
  <2>2. QED
    BY <2>1, <1>0, <1>2, NothingNew DEF Live, Coherent, VersionsBehind, KeyDeterminesBody
<1>3. CASE \E t \in Tid, ty \in CreateTypes, h \in Html : TemplateCreate(a, t, ty, h)
  <2>1. PICK t \in Tid, ty \in CreateTypes, h \in Html : TemplateCreate(a, t, ty, h)
    BY <1>3
  <2> DEFINE row == [type |-> ty, html |-> h, version |-> 1, active |-> FALSE]
             n == [id |-> t, version |-> 1, html |-> h]
  <2>2. row \in Row /\ row # NoRow
    <3>1. ty \in TemplateType
      OBVIOUS
    <3>2. row \in Row
      BY <3>1 DEF Row
    <3>3. QED
      BY <3>2
  <2>3. \A s \in Triples : s.id # t
    BY <2>1 DEF TemplateCreate, Coherent, VersionsBehind
  <2>4. Triples' \subseteq Triples \cup {n}
    BY <2>1, <1>0, <1>1 DEF TemplateCreate, Triples, CurrentRows, Live
  <2>5. KeyDeterminesBody'
    BY <2>3, <2>4 DEF Coherent, KeyDeterminesBody
  <2>6. VersionsBehind'
    BY <2>1, <2>2, <2>3, <2>4, <1>0 DEF TemplateCreate, Coherent, VersionsBehind, Live, Entry
  <2>7. QED
    BY <2>5, <2>6 DEF Coherent
<1>4. CASE UpdateWrite(a)
  <2> DEFINE t == adm[a].id
             n == [id |-> t, version |-> rows[t].version + 1, html |-> adm[a].html]
  <2>1. t \in Tid
    BY <1>4, <1>0 DEF UpdateWrite, Request
  <2>2. CASE ~Live(t)
    BY <2>2, <1>4, <1>2 DEF UpdateWrite
  <2>3. CASE Live(t)
    <3>1. /\ rows[t] \in Row
          /\ rows' = [rows EXCEPT ![t] = [rows[t] EXCEPT !.html = adm[a].html, !.version = @ + 1]]
          /\ born' = born
      BY <1>4, <2>1, <2>3, <1>0 DEF UpdateWrite, Live
    <3>2. rows[t].version \in Nat /\ \A s \in Triples : s.id = t => s.version \in Nat /\ s.version <= rows[t].version
      BY <3>1, <2>3, <1>0 DEF Coherent, VersionsBehind, Row, Entry
    <3>3. rows'[t].version = rows[t].version + 1 /\ rows'[t].html = adm[a].html
      BY <3>1, <2>1, <1>0 DEF Row
    <3>4. t \in born
      BY <2>1, <2>3, RowIsTriple DEF Coherent, VersionsBehind
    <3>5. Triples' \subseteq Triples \cup {n}
      BY <3>1, <3>3, <2>1, <1>0, <1>1 DEF Triples, CurrentRows, Live
    <3>6. KeyDeterminesBody'
      BY <3>2, <3>5 DEF Coherent, KeyDeterminesBody
    <3>7. ASSUME NEW s \in Triples' PROVE s.id \in born /\ (Live(s.id)' => s.version <= rows'[s.id].version)
      <4>1. CASE s = n
        BY <4>1, <3>2, <3>3, <3>4
      <4>2. CASE s \in Triples /\ s.id = t
        BY <4>2, <3>2, <3>3, <3>4
      <4>3. CASE s \in Triples /\ s.id # t
        BY <4>3, <3>1, <1>0 DEF Coherent, VersionsBehind, Live, Entry
      <4>4. QED
        BY <3>5, <4>1, <4>2, <4>3
    <3>8. QED
      BY <3>1, <3>6, <3>7 DEF Coherent, VersionsBehind
  <2>4. QED
    BY <2>2, <2>3
<1>5. CASE ActivateCommit(a)
  <2>1. \A t \in Tid : /\ Live(t)' <=> Live(t)
                       /\ Live(t) => rows'[t].version = rows[t].version /\ rows'[t].html = rows[t].html
    BY <1>5, <1>0 DEF ActivateCommit, Swapped, Live, Row
  <2>2. Triples' = Triples
    BY <2>1, <1>1 DEF Triples, CurrentRows
  <2>3. QED
    BY <2>1, <2>2, <1>0, <1>5, NothingNew DEF ActivateCommit
<1>6. CASE \E t \in Tid : TemplateDelete(a, t)
  <2>1. PICK t \in Tid : TemplateDelete(a, t)
    BY <1>6
  <2>2. rows' = [rows EXCEPT ![t] = NoRow] /\ born' = born
    BY <2>1 DEF TemplateDelete
  <2>3. \A u \in Tid : Live(u)' => Live(u) /\ rows'[u] = rows[u]
    BY <2>2, <1>0 DEF Live
  <2>4. Triples' \subseteq Triples
    BY <2>3, <1>1 DEF Triples, CurrentRows
  <2>5. QED
    BY <2>2, <2>3, <2>4, <1>0, NothingNew
<1>7. QED
  BY <1>2, <1>3, <1>4, <1>5, <1>6
  DEF StoreStep, UpdateRead, ActivateSelect, ActivateForeign, ActivateSnapshot, Snapshot,
      ActivateConflict, StatementFails

\* A render only passes on triples that are already there.
LEMMA RenderStepCoherent ==
  ASSUME TypeOK, Coherent, NEW r \in Renders, RenderStep(r)
  PROVE  Coherent'
<1>0. rows' = rows /\ born' = born /\ CurrentRows' = CurrentRows
  <2>1. UNCHANGED storeVars
    BY DEF RenderStep, RenderBegin, FindActive, FindNone, CacheGet, ParseAndPut, Execute
  <2>2. QED
    BY <2>1 DEF storeVars, CurrentRows, Live
<1>1. ren \in [Renders -> Rendering] /\ Triples \subseteq Entry
  BY TriplesTyped DEF TypeOK
<1>2. ASSUME l1' \subseteq Triples,
             \A q \in Renders : ren'[q].pc \in {"get", "parse", "exec"} => ren'[q].tmpl \in Triples
      PROVE  Coherent'
  <2>1. Triples' \subseteq Triples
    BY <1>0, <1>2 DEF Triples, InHand
  <2>2. QED
    BY <1>0, <1>1, <2>1, NothingNew DEF Live
<1>3. \A q \in Renders : ren[q].pc \in {"get", "parse", "exec"} => ren[q].tmpl \in Triples
  BY DEF Triples, InHand
<1>4. CASE \E k \in Kinds : RenderBegin(r, k)
  BY <1>1, <1>2, <1>3, <1>4 DEF RenderBegin, AtRest, Triples
<1>5. CASE \E t \in Tid : FindActive(r, t)
  <2>1. PICK t \in Tid : FindActive(r, t)
    BY <1>5
  <2> DEFINE e == [id |-> t, version |-> rows[t].version, html |-> rows[t].html]
  <2>2. e \in Triples
    BY <2>1, RowIsTriple DEF FindActive, Activated, IsActive
  <2>3. ren'[r].tmpl = e /\ \A q \in Renders \ {r} : ren'[q] = ren[q]
    BY <2>1, <1>1 DEF FindActive, Rendering
  <2>4. l1' \subseteq Triples
    BY <2>1 DEF FindActive, Triples
  <2>5. QED
    BY <1>2, <1>3, <2>2, <2>3, <2>4
<1>6. CASE FindNone(r)
  BY <1>1, <1>2, <1>3, <1>6 DEF FindNone, GoOn, Triples, Rendering
<1>7. CASE CacheGet(r)
  <2>1. \A q \in Renders : ren'[q].tmpl = ren[q].tmpl /\ (q # r => ren'[q] = ren[q])
    BY <1>1, <1>7 DEF CacheGet, Rendering
  <2>2. QED
    BY <1>2, <1>3, <1>7, <2>1 DEF CacheGet, Triples
<1>8. CASE ParseAndPut(r)
  <2>1. \A q \in Renders : ren'[q].tmpl = ren[q].tmpl /\ (q # r => ren'[q] = ren[q])
    BY <1>1, <1>8 DEF ParseAndPut, Rendering
  <2>2. ren[r].tmpl \in Triples
    BY <1>3, <1>8 DEF ParseAndPut
  <2>3. l1' \subseteq Triples
    BY <1>8, <2>2 DEF ParseAndPut, CachePut, Triples
  <2>4. QED
    BY <1>2, <1>3, <1>8, <2>1, <2>2, <2>3 DEF ParseAndPut
<1>9. CASE Execute(r)
  BY <1>1, <1>2, <1>3, <1>9 DEF Execute, GoOn, Triples, Rendering
<1>10. QED
  BY <1>4, <1>5, <1>6, <1>7, <1>8, <1>9 DEF RenderStep

\* Coherent is preserved by every step.
LEMMA NextCoherent == TypeOK /\ Coherent /\ [Next]_vars => Coherent'
<1> SUFFICES ASSUME TypeOK, Coherent, [Next]_vars PROVE Coherent'
  OBVIOUS
<1>1. ASSUME UNCHANGED <<rows, born>>, l1' \subseteq l1, InHand' \subseteq InHand
      PROVE  Coherent'
  <2>1. CurrentRows' = CurrentRows
    BY <1>1 DEF CurrentRows, Live
  <2>2. Triples' \subseteq Triples
    BY <1>1, <2>1 DEF Triples
  <2>3. QED
    BY <1>1, <2>2, TriplesTyped, NothingNew DEF Live
<1>2. ASSUME NEW a \in Admins, StoreStep(a), UNCHANGED engineVars PROVE Coherent'
  BY <1>2, StoreStepCoherent
<1>3. ASSUME NEW a \in Admins, InvalidateTemplate(a) PROVE Coherent'
  BY <1>1, <1>3 DEF InvalidateTemplate, InvalidateOne, CacheInvalidate, InHand
<1>4. ASSUME NEW a \in Admins, InvalidateAllTemplates(a) PROVE Coherent'
  BY <1>1, <1>4 DEF InvalidateAllTemplates, InvalidateAll, CacheInvalidateAll, InHand
<1>5. ASSUME NEW r \in Renders, RenderStep(r) PROVE Coherent'
  BY <1>5, RenderStepCoherent
<1>6. CASE Restart
  <2>1. InHand' = {}
    BY <1>6 DEF Restart, InHand, AtRest
  <2>2. QED
    BY <1>1, <1>6, <2>1 DEF Restart, StoreRestart
<1>7. CASE UNCHANGED vars
  BY <1>1, <1>7 DEF vars, storeVars, engineVars, InHand
<1>8. QED
  BY <1>2, <1>3, <1>4, <1>5, <1>6, <1>7 DEF Next

\* One (id, version) never stands for two bodies, in the cache, in a render or
\* in the table, whatever invalidations and late stores interleave.
THEOREM KeyCoherence == Spec => []KeyDeterminesBody
<1>1. TypeOK /\ Coherent /\ [Next]_vars => (TypeOK /\ Coherent)'
  BY NextTypeOK, NextCoherent
<1>2. Coherent => KeyDeterminesBody
  BY DEF Coherent
<1>3. QED
  BY <1>1, <1>2, InitTypeOK, InitCoherent, PTL DEF Spec

\* Every version in the process is one its template has had: the next UPDATE
\* assigns a key that no cache entry has.
THEOREM VersionsNeverAhead == Spec => []VersionsBehind
<1>1. TypeOK /\ Coherent /\ [Next]_vars => (TypeOK /\ Coherent)'
  BY NextTypeOK, NextCoherent
<1>2. Coherent => VersionsBehind
  BY DEF Coherent
<1>3. QED
  BY <1>1, <1>2, InitTypeOK, InitCoherent, PTL DEF Spec

-----------------------------------------------------------------------------
(* A render executes what it read.                                         *)

\* A hit under the key of the row a render read has that row's body.
LEMMA HitIsWhatWasRead ==
  ASSUME Coherent, NEW r \in Renders, ren[r].pc = "get",
         NEW e \in Cached(ren[r].tmpl.id, ren[r].tmpl.version)
  PROVE  e.html = ren[r].tmpl.html
BY DEF Coherent, KeyDeterminesBody, Triples, InHand, Cached

\* What is in hand for execution stays the body that was read.
LEMMA NextExecutes ==
  TypeOK /\ Coherent /\ ExecutesWhatItRead /\ [Next]_vars => ExecutesWhatItRead'
<1> SUFFICES ASSUME TypeOK, Coherent, ExecutesWhatItRead, [Next]_vars,
                    NEW q \in Renders, ren'[q].pc = "exec"
             PROVE  ren'[q].compiled = ren'[q].tmpl.html
  BY DEF ExecutesWhatItRead
<1>0. ren \in [Renders -> Rendering]
  BY DEF TypeOK
<1>1. CASE ren'[q] = ren[q]
  BY <1>1 DEF ExecutesWhatItRead
<1>2. ASSUME NEW r \in Renders, RenderStep(r) PROVE ren'[q].compiled = ren'[q].tmpl.html
  <2>1. CASE q # r
    <3>1. ren'[q] = ren[q]
      BY <1>0, <1>2, <2>1 DEF RenderStep, RenderBegin, FindActive, FindNone, CacheGet, ParseAndPut, Execute
    <3>2. QED
      BY <1>1, <3>1
  <2>2. CASE q = r
    <3>1. CASE CacheGet(r)
      <4>1. PICK e \in Cached(ren[r].tmpl.id, ren[r].tmpl.version) :
              ren' = [ren EXCEPT ![r].pc = "exec", ![r].compiled = e.html]
        BY <1>0, <2>2, <3>1 DEF CacheGet, Rendering
      <4>2. e.html = ren[r].tmpl.html
        BY <3>1, HitIsWhatWasRead DEF CacheGet
      <4>3. QED
        BY <1>0, <2>2, <4>1, <4>2 DEF Rendering
    <3>2. CASE ParseAndPut(r)
      BY <1>0, <2>2, <3>2 DEF ParseAndPut, Rendering
    <3>3. CASE \E k \in Kinds : RenderBegin(r, k)
      BY <1>0, <2>2, <3>3 DEF RenderBegin, AtRest
    <3>4. CASE \E t \in Tid : FindActive(r, t)
      BY <1>0, <2>2, <3>4 DEF FindActive, Rendering
    <3>5. CASE FindNone(r) \/ Execute(r)
      BY <1>0, <2>2, <3>5 DEF FindNone, Execute, GoOn, Rendering
    <3>6. QED
      BY <1>2, <3>1, <3>2, <3>3, <3>4, <3>5 DEF RenderStep
  <2>3. QED
    BY <2>1, <2>2
<1>3. CASE Restart
  BY <1>3 DEF Restart, AtRest
<1>4. ASSUME UNCHANGED ren PROVE ren'[q].compiled = ren'[q].tmpl.html
  BY <1>1, <1>4
<1>5. QED
  BY <1>2, <1>3, <1>4 DEF Next, InvalidateTemplate, InvalidateAllTemplates, engineVars, vars

\* Whatever the cache returns, a render executes the body of the row it read.
THEOREM RendersWhatItRead == Spec => []ExecutesWhatItRead
<1>1. Init => ExecutesWhatItRead
  BY DEF Init, AtRest, ExecutesWhatItRead
<1>2. TypeOK /\ Coherent /\ ExecutesWhatItRead /\ [Next]_vars
        => (TypeOK /\ Coherent /\ ExecutesWhatItRead)'
  BY NextTypeOK, NextCoherent, NextExecutes
<1>3. QED
  BY <1>1, <1>2, InitTypeOK, InitCoherent, PTL DEF Spec

-----------------------------------------------------------------------------
(* How a type may lose its active template.                                *)

\* A template never changes its type, and ids are not used again: while the
\* target of an activation is there, it is of the type that was selected, and
\* so is every row the first UPDATE is going to visit.
TargetHolds(a) ==
  LET x == adm[a] IN
  /\ x.pc = "snapshot" =>
       /\ x.id \in born \cup {Foreign}
       /\ x.id \in Tid /\ Live(x.id) => rows[x.id].type = x.type
  /\ x.pc = "swap" =>
       /\ x.id \in born \cup {Foreign} /\ x.seen \subseteq born
       /\ x.id \in Tid /\ Live(x.id) =>
            \A s \in x.seen : Live(s) => rows[s].type = rows[x.id].type

TargetsKnown ==
  /\ \A t \in Tid : Live(t) => t \in born
  /\ \A a \in Admins : TargetHolds(a)

\* Steps that neither give an id of born a row again nor change a type keep
\* what a waiting activation relies on.
LEMMA TargetsKept ==
  ASSUME TypeOK, TargetsKnown, NEW b \in Admins, adm'[b] = adm[b], born \subseteq born',
         \A t \in born : Live(t)' => Live(t) /\ rows'[t].type = rows[t].type
  PROVE  TargetHolds(b)'
<1>1. adm[b] \in Request
  BY DEF TypeOK, StoreTypeOK
<1>2. ASSUME adm[b].pc = "snapshot" PROVE TargetHolds(b)'
  BY <1>1, <1>2, StoreAssumption DEF TargetsKnown, TargetHolds
<1>3. ASSUME adm[b].pc = "swap" PROVE TargetHolds(b)'
  <2>1. adm[b].seen \subseteq born /\ adm[b].id \in born \cup {Foreign}
    BY <1>3 DEF TargetsKnown, TargetHolds
  <2>2. QED
    BY <1>1, <1>3, <2>1, StoreAssumption DEF TargetsKnown, TargetHolds
<1>4. QED
  BY <1>2, <1>3 DEF TargetHolds

\* Every statement of a request keeps TargetsKnown.
LEMMA StoreStepTargets ==
  ASSUME TypeOK, TargetsKnown, NEW a \in Admins, StoreStep(a)
  PROVE  TargetsKnown'
<1> USE StoreAssumption
<1>0. /\ rows \in [Tid -> Row \cup {NoRow}]
      /\ adm \in [Admins -> Request] /\ adm[a] \in Request
      /\ born \subseteq Tid
  BY DEF TypeOK, StoreTypeOK
<1>1. \A b \in Admins : b # a => adm'[b] = adm[b]
  BY <1>0 DEF StoreStep, TemplateCreate, UpdateRead, UpdateWrite, ActivateSelect,
     ActivateForeign, Selected, ActivateSnapshot, Snapshot, ActivateCommit, ActivateConflict,
     TemplateDelete, StatementFails, Finish
<1>2. ASSUME born \subseteq born', \A t \in Tid : Live(t)' => t \in born',
             \A t \in born : Live(t)' => Live(t) /\ rows'[t].type = rows[t].type,
             adm'[a] # adm[a] => adm'[a].pc \notin {"snapshot", "swap"}
      PROVE  TargetsKnown'
  <2>1. TargetHolds(a)'
    BY <1>2, TargetsKept DEF TargetHolds
  <2>2. QED
    BY <1>1, <1>2, <2>1, TargetsKept DEF TargetsKnown
<1>3. CASE \E t \in Tid, ty \in CreateTypes, h \in Html : TemplateCreate(a, t, ty, h)
  <2>1. PICK t \in Tid, ty \in CreateTypes, h \in Html : TemplateCreate(a, t, ty, h)
    BY <1>3
  <2>2. \A u \in Tid : u # t => rows'[u] = rows[u]
    BY <2>1, <1>0 DEF TemplateCreate
  <2>3. QED
    BY <2>1, <2>2, <1>0, <1>2 DEF TemplateCreate, TargetsKnown, Live
<1>4. CASE \E t \in Tid, h \in Html : UpdateRead(a, t, h)
  BY <1>0, <1>2, <1>4 DEF UpdateRead, TargetsKnown, Live
<1>5. CASE UpdateWrite(a)
  <2>1. \A t \in Tid : /\ Live(t)' <=> Live(t)
                       /\ Live(t) => rows'[t].type = rows[t].type
    BY <1>0, <1>5 DEF UpdateWrite, Live, Row, Request
  <2>2. born' = born /\ adm'[a].pc = "invalidate"
    BY <1>0, <1>5 DEF UpdateWrite
  <2>3. QED
    BY <2>1, <2>2, <1>0, <1>2 DEF TargetsKnown
<1>6. CASE (\E t \in Tid, here \in BOOLEAN : ActivateSelect(a, t, here))
            \/ \E ty \in ForeignTypes : ActivateForeign(a, ty)
  <2>1. rows' = rows /\ born' = born
    BY <1>6 DEF ActivateSelect, ActivateForeign
  <2>2. TargetHolds(a)'
    BY <1>0, <1>6, <2>1 DEF ActivateSelect, ActivateForeign, Selected, TargetHolds, TargetsKnown, Live
  <2>3. QED
    BY <1>1, <2>1, <2>2, TargetsKept DEF TargetsKnown, Live
<1>7. CASE ActivateSnapshot(a)
  <2>1. rows' = rows /\ born' = born
    BY <1>7 DEF ActivateSnapshot, Snapshot
  <2>2. TargetHolds(a)'
    BY <1>0, <1>7, <2>1 DEF ActivateSnapshot, Snapshot, OfType, TargetHolds, TargetsKnown, Live
  <2>3. QED
    BY <1>1, <2>1, <2>2, TargetsKept DEF TargetsKnown, Live
<1>8. CASE ActivateCommit(a)
  <2>1. \A t \in Tid : /\ Live(t)' <=> Live(t)
                       /\ Live(t) => rows'[t].type = rows[t].type
    BY <1>0, <1>8 DEF ActivateCommit, Swapped, Live, Row
  <2>2. born' = born /\ adm'[a].pc = "invalidateAll"
    BY <1>0, <1>8 DEF ActivateCommit
  <2>3. QED
    BY <2>1, <2>2, <1>0, <1>2 DEF TargetsKnown
<1>9. CASE ActivateConflict(a) \/ StatementFails(a)
  BY <1>0, <1>2, <1>9 DEF ActivateConflict, StatementFails, Finish, Idle, TargetsKnown, Live
<1>10. CASE \E t \in Tid : TemplateDelete(a, t)
  <2>1. PICK t \in Tid : TemplateDelete(a, t)
    BY <1>10
  <2>2. \A u \in Tid : Live(u)' => Live(u) /\ rows'[u] = rows[u]
    BY <2>1, <1>0 DEF TemplateDelete, Live
  <2>3. born' = born /\ adm'[a].pc = "invalidate"
    BY <2>1, <1>0 DEF TemplateDelete
  <2>4. QED
    BY <2>2, <2>3, <1>0, <1>2 DEF TargetsKnown
<1>11. QED
  BY <1>3, <1>4, <1>5, <1>6, <1>7, <1>8, <1>9, <1>10 DEF StoreStep

\* Steps outside the store change neither rows nor ids, and end requests only.
LEMMA OtherStepsStore ==
  ASSUME TypeOK, [Next]_vars, ~\E a \in Admins : StoreStep(a)
  PROVE  /\ rows' = rows /\ born' = born
         /\ \A b \in Admins : adm'[b] = adm[b] \/ adm'[b].pc = "idle"
<1>0. adm \in [Admins -> Request]
  BY DEF TypeOK, StoreTypeOK
<1>1. ASSUME NEW r \in Renders, RenderStep(r) PROVE UNCHANGED storeVars
  BY <1>1 DEF RenderStep, RenderBegin, FindActive, FindNone, CacheGet, ParseAndPut, Execute
<1>2. QED
  BY <1>0, <1>1
  DEF Next, InvalidateTemplate, InvalidateOne, InvalidateAllTemplates, InvalidateAll, Restart,
      StoreRestart, Finish, Idle, vars, storeVars

LEMMA NextTargets == TypeOK /\ TargetsKnown /\ [Next]_vars => TargetsKnown'
<1> SUFFICES ASSUME TypeOK, TargetsKnown, [Next]_vars PROVE TargetsKnown'
  OBVIOUS
<1>1. CASE \E a \in Admins : StoreStep(a)
  BY <1>1, StoreStepTargets
<1>2. CASE ~\E a \in Admins : StoreStep(a)
  <2>1. /\ rows' = rows /\ born' = born
        /\ \A b \in Admins : adm'[b] = adm[b] \/ adm'[b].pc = "idle"
    BY <1>2, OtherStepsStore
  <2>2. \A b \in Admins : TargetHolds(b)'
    BY <2>1, TargetsKept DEF TargetHolds, Live
  <2>3. QED
    BY <2>1, <2>2 DEF TargetsKnown, Live
<1>3. QED
  BY <1>1, <1>2

\* A step that leaves a type without an active template is such an activation.
LEMMA LossIsTargetless ==
  ASSUME TypeOK, TargetsKnown, [Next]_vars, NEW ty \in TemplateType,
         Activated(ty) # {}, Activated(ty)' = {}
  PROVE  \E a \in Admins : LosesItsTarget(a)
<1> USE StoreAssumption
<1>0. /\ rows \in [Tid -> Row \cup {NoRow}]
      /\ adm \in [Admins -> Request]
      /\ born \subseteq Tid
  BY DEF TypeOK, StoreTypeOK
<1>1. PICK s \in Tid : Live(s) /\ rows[s].active /\ rows[s].type = ty
  BY DEF Activated, IsActive
<1>2. ~(Live(s)' /\ rows'[s].active /\ rows'[s].type = ty)
  BY DEF Activated, IsActive
<1>3. rows' # rows
  BY <1>1, <1>2 DEF Live
<1>4. PICK a \in Admins : StoreStep(a)
  BY <1>3, OtherStepsStore
<1>5. ActivateCommit(a)
  <2>1. ~\E t \in Tid, u \in CreateTypes, h \in Html : TemplateCreate(a, t, u, h)
    BY <1>0, <1>1, <1>2 DEF TemplateCreate, TargetsKnown, Live
  <2>2. ~UpdateWrite(a)
    BY <1>0, <1>1, <1>2 DEF UpdateWrite, Live, Row, Request
  <2>3. ~\E t \in Tid : TemplateDelete(a, t)
    BY <1>0, <1>1, <1>2 DEF TemplateDelete, Live
  <2>4. QED
    BY <1>3, <1>4, <2>1, <2>2, <2>3
    DEF StoreStep, UpdateRead, ActivateSelect, ActivateForeign, ActivateSnapshot, Snapshot,
        ActivateConflict, StatementFails
<1>6. adm[a] \in Request /\ adm[a].pc = "swap"
  BY <1>0, <1>5 DEF ActivateCommit
<1>7. s # adm[a].id /\ s \in adm[a].seen
  BY <1>0, <1>1, <1>2, <1>5, <1>6 DEF ActivateCommit, Swapped, Live, Row
<1>8. ASSUME adm[a].id \in Tid, Live(adm[a].id) PROVE FALSE
  <2>0. PICK t \in Tid : t = adm[a].id
    BY <1>8
  <2>1. rows[t].type = ty
    BY <1>1, <1>6, <1>7, <1>8, <2>0 DEF TargetsKnown, TargetHolds
  <2>2. rows'[t] = [rows[t] EXCEPT !.active = TRUE] /\ rows[t] \in Row
    BY <1>0, <1>5, <1>8, <2>0 DEF ActivateCommit, Swapped, Live
  <2>3. Live(t)' /\ rows'[t].active /\ rows'[t].type = ty
    <3>1. rows'[t] \in Row /\ rows'[t].active /\ rows'[t].type = rows[t].type
      BY <2>2 DEF Row
    <3>2. rows'[t] # NoRow
      BY <3>1
    <3>3. QED
      BY <3>1, <3>2, <2>1 DEF Live
  <2>4. t \in Activated(ty)'
    BY <2>3 DEF Activated, IsActive
  <2>5. QED
    BY <2>4
<1>9. adm[a].id \in (born \cup {Foreign}) \ {t \in Tid : Live(t)}
  BY <1>6, <1>8 DEF TargetsKnown, TargetHolds
<1>10. adm'[a].pc = "invalidateAll"
  BY <1>0, <1>5 DEF ActivateCommit
<1>11. QED
  BY <1>6, <1>9, <1>10 DEF LosesItsTarget

\* For any number of templates, types in use and requests, an activation whose
\* target is missing is all that leaves a type without an active template.
THEOREM ActiveTemplateKept == Spec => ActiveLostOnlyWithTarget
<1>1. Init => TargetsKnown
  BY StoreAssumption DEF Init, StoreInit, TargetsKnown, TargetHolds, Live, Idle
<1>2. TypeOK /\ TargetsKnown /\ [Next]_vars =>
        [\A ty \in TemplateType :
           Activated(ty) # {} /\ Activated(ty)' = {} => \E a \in Admins : LosesItsTarget(a)]_storeVars
  BY LossIsTargetless
<1>3. QED
  BY <1>1, <1>2, InitTypeOK, NextTypeOK, NextTargets, PTL DEF Spec, ActiveLostOnlyWithTarget

-----------------------------------------------------------------------------
(* The engine with its cache implements the engine without one.            *)

\* Both engines share the table and the admin requests.
LEMMA SameStore ==
  ASSUME NEW a \in Admins
  PROVE  /\ StoreStep(a) => Cacheless!StoreStep(a)
         /\ InvalidateOne(a) => Cacheless!InvalidateOne(a)
         /\ InvalidateAll(a) => Cacheless!InvalidateAll(a)
BY DEF StoreStep, TemplateCreate, UpdateRead, UpdateWrite, ActivateSelect, ActivateForeign,
       Selected, ActivateSnapshot, Snapshot, OfType, ActivateCommit, ActivateConflict,
       TemplateDelete, StatementFails, InvalidateOne, InvalidateAll, Begin, Finish, Idle, Live, Swapped, SoleActive,
       Cacheless!StoreStep, Cacheless!TemplateCreate, Cacheless!UpdateRead,
       Cacheless!UpdateWrite, Cacheless!ActivateSelect, Cacheless!ActivateForeign,
       Cacheless!Selected, Cacheless!ActivateSnapshot, Cacheless!Snapshot, Cacheless!OfType,
       Cacheless!ActivateCommit, Cacheless!ActivateConflict, Cacheless!TemplateDelete,
       Cacheless!StatementFails, Cacheless!InvalidateOne, Cacheless!InvalidateAll,
       Cacheless!Begin, Cacheless!Finish, Cacheless!Idle,
       Cacheless!Live, Cacheless!Swapped, Cacheless!SoleActive

\* A step of render r alone changes the view of render r alone.
LEMMA ViewChanges ==
  ASSUME NEW r \in Renders, NEW x, ren \in [Renders -> Rendering], ren' = [ren EXCEPT ![r] = x]
  PROVE  AbsView' = [AbsView EXCEPT ![r] = ViewOf(x)]
BY DEF AbsView

\* A render's step is the corresponding step of the engine without a cache, or
\* no step of it: the lookup and the store of a compiled template.
LEMMA RenderRefines ==
  ASSUME TypeOK, ExecutesWhatItRead, NEW r \in Renders, RenderStep(r)
  PROVE  \/ \E k \in Kinds : Cacheless!AbsBegin(r, k)
         \/ \E t \in Tid : Cacheless!AbsFind(r, t)
         \/ Cacheless!AbsMiss(r)
         \/ Cacheless!AbsExecute(r)
         \/ UNCHANGED <<storeVars, AbsView>>
<1>0. ren \in [Renders -> Rendering] /\ ren[r] \in Rendering
  BY DEF TypeOK
<1>1. AbsView[r] = ViewOf(ren[r])
  BY DEF AbsView
<1>2. CASE \E k \in Kinds : RenderBegin(r, k)
  <2>1. PICK k \in Kinds : RenderBegin(r, k)
    BY <1>2
  <2> DEFINE x == [AtRest EXCEPT !.pc = "find", !.kind = k, !.want = "header"]
  <2>2. AbsView' = [AbsView EXCEPT ![r] = ViewOf(x)]
    BY <1>0, <2>1, ViewChanges DEF RenderBegin
  <2>3. ViewOf(x) = Cacheless!At("find", k, "header", Blank, NoParts)
    BY DEF ViewOf, AtRest, Cacheless!At
  <2>4. AbsView[r].pc = "done"
    BY <1>1, <2>1 DEF RenderBegin, ViewOf
  <2>5. Cacheless!AbsBegin(r, k)
    BY <2>1, <2>2, <2>3, <2>4
    DEF RenderBegin, Cacheless!AbsBegin, NoParts, Cacheless!NoParts, Part, Cacheless!Part,
        storeVars, Cacheless!storeVars
  <2>6. QED
    BY <2>5
<1>3. CASE \E t \in Tid : FindActive(r, t)
  <2>1. PICK t \in Tid : FindActive(r, t)
    BY <1>3
  <2> DEFINE e == [id |-> t, version |-> rows[t].version, html |-> rows[t].html]
             x == [ren[r] EXCEPT !.pc = "get", !.tmpl = e]
  <2>2. ren' = [ren EXCEPT ![r] = x]
    BY <1>0, <2>1 DEF FindActive
  <2>3. AbsView' = [AbsView EXCEPT ![r] = ViewOf(x)]
    BY <1>0, <2>2, ViewChanges
  <2>4. ViewOf(x) = Cacheless!At("exec", ren[r].kind, ren[r].want, rows[t].html, ren[r].out)
    BY <1>0 DEF ViewOf, Rendering, Cacheless!At
  <2>5. /\ AbsView[r].pc = "find" /\ AbsView[r].want = ren[r].want /\ AbsView[r].kind = ren[r].kind
        /\ AbsView[r].out = ren[r].out
    BY <1>1, <2>1 DEF FindActive, ViewOf
  <2>6. Cacheless!AbsFind(r, t)
    BY <2>1, <2>3, <2>4, <2>5
    DEF FindActive, Cacheless!AbsFind, Activated, Cacheless!Activated, IsActive,
        Cacheless!IsActive, Live, Cacheless!Live, storeVars, Cacheless!storeVars
  <2>7. QED
    BY <2>6
<1>4. CASE FindNone(r)
  <2> DEFINE w == WantAfterMiss(ren[r].kind, ren[r].want)
             x == [ren[r] EXCEPT !.pc = GoOn(w), !.want = w]
  <2>1. ren' = [ren EXCEPT ![r] = x]
    BY <1>0, <1>4 DEF FindNone
  <2>2. AbsView' = [AbsView EXCEPT ![r] = ViewOf(x)]
    BY <1>0, <2>1, ViewChanges
  <2>3. ren[r].pc = "find" /\ GoOn(w) \in {"find", "done"}
    BY <1>4 DEF FindNone, GoOn
  <2>4. ViewOf(x) = Cacheless!At(GoOn(w), ren[r].kind, w, Blank, ren[r].out)
    BY <1>0, <2>3 DEF ViewOf, Rendering, Cacheless!At
  <2>5. /\ AbsView[r].pc = "find" /\ AbsView[r].want = ren[r].want /\ AbsView[r].kind = ren[r].kind
        /\ AbsView[r].out = ren[r].out
    BY <1>1, <2>3 DEF ViewOf
  <2>6. w = Cacheless!WantAfterMiss(AbsView[r].kind, AbsView[r].want) /\ GoOn(w) = Cacheless!GoOn(w)
    BY <2>5 DEF WantAfterMiss, Cacheless!WantAfterMiss, NextWant, Cacheless!NextWant, MainType,
                Cacheless!MainType, GoOn, Cacheless!GoOn
  <2>7. UNCHANGED Cacheless!storeVars
    BY <1>4 DEF FindNone, storeVars, Cacheless!storeVars
  <2> HIDE DEF w, x
  <2>8. Cacheless!AbsMiss(r)
    BY <2>2, <2>4, <2>5, <2>6, <2>7 DEF Cacheless!AbsMiss
  <2>9. QED
    BY <2>8
<1>5. CASE CacheGet(r) \/ ParseAndPut(r)
  <2>1. ren[r].pc \in {"get", "parse"} /\ ren[r] \in Rendering
    BY <1>0, <1>5 DEF CacheGet, ParseAndPut
  <2>2. ASSUME ren' = [ren EXCEPT ![r].pc = "parse"]
        PROVE  AbsView' = AbsView
    <3> DEFINE x == [ren[r] EXCEPT !.pc = "parse"]
    <3>1. ren' = [ren EXCEPT ![r] = x]
      BY <2>2, <1>0
    <3>2. ViewOf(x) = ViewOf(ren[r])
      BY <2>1 DEF ViewOf, Rendering
    <3>3. QED
      BY <1>0, <3>1, <3>2, ViewChanges DEF AbsView
  <2>3. ASSUME NEW b, ren' = [ren EXCEPT ![r].pc = "exec", ![r].compiled = b]
        PROVE  AbsView' = AbsView
    <3> DEFINE x == [ren[r] EXCEPT !.pc = "exec", !.compiled = b]
    <3>1. ren' = [ren EXCEPT ![r] = x]
      BY <2>3, <1>0
    <3>2. ViewOf(x) = ViewOf(ren[r])
      BY <2>1 DEF ViewOf, Rendering
    <3>3. QED
      BY <1>0, <3>1, <3>2, ViewChanges DEF AbsView
  <2>4. AbsView' = AbsView
    <3>1. CASE CacheGet(r)
      <4>1. \/ ren' = [ren EXCEPT ![r].pc = "parse"]
            \/ \E e \in Cached(ren[r].tmpl.id, ren[r].tmpl.version) :
                 ren' = [ren EXCEPT ![r].pc = "exec", ![r].compiled = e.html]
        BY <3>1 DEF CacheGet
      <4>2. QED
        BY <4>1, <2>2, <2>3
    <3>2. CASE ParseAndPut(r)
      <4>1. ren' = [ren EXCEPT ![r].pc = "exec", ![r].compiled = ren[r].tmpl.html]
        BY <3>2 DEF ParseAndPut
      <4>2. QED
        BY <4>1, <2>3
    <3>3. QED
      BY <1>5, <3>1, <3>2
  <2>5. UNCHANGED storeVars
    BY <1>5 DEF CacheGet, ParseAndPut
  <2>6. QED
    BY <2>4, <2>5
<1>6. CASE Execute(r)
  <2> DEFINE w == NextWant(ren[r].kind, ren[r].want)
             o == [ren[r].out EXCEPT ![PartOf(ren[r].want)] = Executed(ren[r].compiled)]
             x == [ren[r] EXCEPT !.pc = GoOn(w), !.want = w, !.tmpl = NoRow, !.compiled = Blank,
                                 !.out = o]
  <2>1. ren' = [ren EXCEPT ![r] = x]
    BY <1>0, <1>6 DEF Execute
  <2>2. AbsView' = [AbsView EXCEPT ![r] = ViewOf(x)]
    BY <1>0, <2>1, ViewChanges
  <2>3. ren[r].pc = "exec" /\ GoOn(w) \in {"find", "done"} /\ ren[r].compiled = ren[r].tmpl.html
    BY <1>6 DEF Execute, GoOn, ExecutesWhatItRead
  <2>4. ViewOf(x) = Cacheless!At(GoOn(w), ren[r].kind, w, Blank, o)
    BY <1>0, <2>3 DEF ViewOf, Rendering, Cacheless!At
  <2>5. /\ AbsView[r].pc = "exec" /\ AbsView[r].want = ren[r].want /\ AbsView[r].kind = ren[r].kind
        /\ AbsView[r].out = ren[r].out /\ AbsView[r].html = ren[r].compiled
    BY <1>1, <2>3 DEF ViewOf
  <2>6. Cacheless!AbsExecute(r)
    BY <1>6, <2>2, <2>4, <2>5
    DEF Execute, Cacheless!AbsExecute, NextWant, Cacheless!NextWant, MainType,
        Cacheless!MainType, GoOn, Cacheless!GoOn, PartOf, Cacheless!PartOf, Executed,
        Cacheless!Executed, storeVars, Cacheless!storeVars
  <2>7. QED
    BY <2>6
<1>7. QED
  BY <1>2, <1>3, <1>4, <1>5, <1>6 DEF RenderStep

\* Every step of the engine is a step or a stutter of the engine without a cache.
LEMMA NextRefines ==
  TypeOK /\ ExecutesWhatItRead /\ [Next]_vars => [Cacheless!AbsNext]_(Cacheless!absVars)
<1> SUFFICES ASSUME TypeOK, ExecutesWhatItRead, [Next]_vars
             PROVE  Cacheless!AbsNext \/ UNCHANGED <<storeVars, AbsView>>
  BY DEF Cacheless!absVars, Cacheless!storeVars, storeVars
<1>1. ASSUME UNCHANGED ren PROVE AbsView' = AbsView
  BY <1>1 DEF AbsView
<1>2. ASSUME NEW a \in Admins, StoreStep(a), UNCHANGED engineVars PROVE Cacheless!AbsNext
  BY <1>1, <1>2, SameStore DEF engineVars, Cacheless!AbsNext
<1>3. ASSUME NEW a \in Admins, InvalidateTemplate(a) PROVE Cacheless!AbsNext
  BY <1>1, <1>3, SameStore DEF InvalidateTemplate, Cacheless!AbsNext
<1>4. ASSUME NEW a \in Admins, InvalidateAllTemplates(a) PROVE Cacheless!AbsNext
  BY <1>1, <1>4, SameStore DEF InvalidateAllTemplates, Cacheless!AbsNext
<1>5. ASSUME NEW r \in Renders, RenderStep(r)
      PROVE  Cacheless!AbsNext \/ UNCHANGED <<storeVars, AbsView>>
  BY <1>5, RenderRefines DEF Cacheless!AbsNext
<1>6. CASE Restart
  <2>1. ViewOf(AtRest) = Cacheless!NotRendering
    BY DEF ViewOf, AtRest, Cacheless!NotRendering, Cacheless!At, NoParts, Cacheless!NoParts,
           Part, Cacheless!Part
  <2>2. AbsView' = [r \in Renders |-> Cacheless!NotRendering]
    BY <1>6, <2>1 DEF Restart, AbsView
  <2>3. Cacheless!StoreRestart
    BY <1>6 DEF Restart, StoreRestart, Idle, Cacheless!StoreRestart, Cacheless!Idle
  <2>4. QED
    BY <2>2, <2>3 DEF Cacheless!AbsRestart, Cacheless!AbsNext
<1>7. CASE UNCHANGED vars
  BY <1>1, <1>7 DEF vars, engineVars
<1>8. QED
  BY <1>2, <1>3, <1>4, <1>5, <1>6, <1>7 DEF Next

\* The L1 cache is transparent: with it the engine does only what an engine
\* that recompiles every template on every render could have done.
THEOREM L1CacheTransparent == Spec => L1Transparent
<1>1. Init => Cacheless!AbsInit
  <2>1. ViewOf(AtRest) = Cacheless!NotRendering
    BY DEF ViewOf, AtRest, Cacheless!NotRendering, Cacheless!At, NoParts, Cacheless!NoParts,
           Part, Cacheless!Part
  <2>2. QED
    BY <2>1 DEF Init, AbsView, StoreInit, Idle, Cacheless!AbsInit, Cacheless!StoreInit,
                Cacheless!Idle
<1>2. Init => ExecutesWhatItRead
  BY DEF Init, AtRest, ExecutesWhatItRead
<1>3. TypeOK /\ Coherent /\ ExecutesWhatItRead /\ [Next]_vars
        => (TypeOK /\ Coherent /\ ExecutesWhatItRead)'
  BY NextTypeOK, NextCoherent, NextExecutes
<1>4. QED
  BY <1>1, <1>2, <1>3, InitTypeOK, InitCoherent, NextRefines, PTL
  DEF Spec, L1Transparent, Cacheless!AbsSpec
=============================================================================

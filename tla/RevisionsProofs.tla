-------------------------- MODULE RevisionsProofs --------------------------
(***************************************************************************)
(* Proofs about Revisions, for any number of requests in flight and any    *)
(* texts and titles: revisions are states the item has had, what a request *)
(* knowingly replaced is kept, and every title has an origin.              *)
(*                                                                         *)
(* The argument.  A request that has inserted its revision and not yet     *)
(* done its UPDATE is the one way the revision comes to matter: until then *)
(* the revision holds the state the request read (WritesRecorded), and     *)
(* ids are new when they are given (IdsInOrder), so no revision is ever    *)
(* overwritten.  For titles, each revision belongs to one request, and     *)
(* then to one goroutine at most (OwnWrite, OneJobEach, Unstarted).        *)
(***************************************************************************)
EXTENDS Revisions, FiniteSetTheorems, TLAPS

\* Requests that may still insert a revision.
Inserting == {e \in Editors : ed[e].pc = "snapshot"}

IsWriting(e) == ed[e].pc = "write" /\ ed[e].rev # NoRow
SavingContent(e) == kind = "content" /\ IsWriting(e) /\ ed[e].by = "update"

\* Ids never run out: each request inserts one revision at most.
Counted ==
  /\ IsFiniteSet(Inserting)
  /\ made + Cardinality(Inserting) <= begun

\* Nothing refers to an id that has not been given yet.
IdsInOrder ==
  /\ \A r \in RevId : r > made => revs[r] = NoRow
  /\ \A j \in jobs : j.rev <= made
  /\ \A e \in Editors : IsWriting(e) => ed[e].rev <= made

\* Every state somebody holds is one the item has had.
HeldStates ==
  /\ item # NoRow => item.state \in had
  /\ \A e \in Editors : ed[e].pc \in {"snapshot", "write"} => ed[e].base.state \in had
  /\ \A l \in lost : l.state \in had

\* Until its UPDATE a request's revision holds the state the request read.
WritesRecorded ==
  item # NoRow => \A e \in Editors : IsWriting(e) =>
    revs[ed[e].rev] # NoRow /\ revs[ed[e].rev].snap = ed[e].base.state

\* Only a restore calls its revision BeforeRestore.
HeldTitles ==
  \A e \in Editors : ed[e].pc \in {"snapshot", "write"} =>
    IF ed[e].by = "update" THEN ed[e].title \in GivenTitle ELSE ed[e].title = BeforeRestore

OwnWrite ==
  \A e, f \in Editors : IsWriting(e) /\ IsWriting(f) /\ e # f => ed[e].rev # ed[f].rev

OneJobEach == \A j, k \in jobs : j.rev = k.rev => j = k

\* A goroutine holds the title its save had.
JobsSaved == \A j \in jobs : given[j.rev].saved = j.title

\* Before the UPDATE of content only renames have touched the revision's title.
Unstarted ==
  \A e \in Editors : SavingContent(e) =>
    /\ \A j \in jobs : j.rev # ed[e].rev
    /\ given[ed[e].rev].saved = ed[e].title
    /\ revs[ed[e].rev] # NoRow => revs[ed[e].rev].title = given[ed[e].rev].last

IInv ==
  /\ TypeOK /\ Counted /\ IdsInOrder /\ HeldStates
  /\ SnapshotsAreHistory /\ WritesRecorded /\ KnownStatesKept
  /\ HeldTitles /\ OwnWrite /\ OneJobEach /\ JobsSaved /\ Unstarted
  /\ TitlesExplained

-----------------------------------------------------------------------------
\* What a request holds at each place.
LEMMA RequestFields ==
  ASSUME NEW q \in Request
  PROVE  /\ q.pc \in {"idle", "snapshot", "write", "rename"}
         /\ q.pc \in {"snapshot", "write"} =>
              /\ q.by \in {"update", "restore"} /\ q.base \in ItemRow
              /\ q.to \in State /\ q.title \in Title
         /\ q.pc = "write" => q.rev \in RevId \cup {NoRow}
         /\ q.pc = "rename" => q.rev \in RevId /\ q.title \in UserTitle /\ q.log \in BOOLEAN
BY DEF Request

LEMMA IdleRequest == Idle \in Request /\ Idle.pc = "idle"
BY DEF Idle, Request

LEMMA StateFields == \A row \in ItemRow : row.state \in State /\ row.publishedAt \in Nat
BY DEF ItemRow

LEMMA NoRowApart == NoRow \notin RevId /\ NoRow \notin ItemRow /\ NoRow \notin Revision
BY RevisionsAssumption

LEMMA StampedType ==
  ASSUME stamps \in Nat, NEW state, NEW at \in Nat
  PROVE  Stamped(state, at) \in Nat
BY DEF Stamped

\* A request moves on: Inserting gains it, loses it, or is as before.
LEMMA CountedBegin ==
  ASSUME Counted, made \in Nat, begun \in Nat, ed \in [Editors -> Request],
         NEW e \in Editors, NEW q, ed[e] = Idle, Continue(e, q),
         begun' = begun + 1, made' = made
  PROVE  Counted'
<1>1. Inserting' \subseteq Inserting \cup {e}
  BY DEF Inserting, Continue
<1>2. e \notin Inserting
  BY IdleRequest DEF Inserting
<1>3. /\ IsFiniteSet(Inserting \cup {e})
      /\ Cardinality(Inserting \cup {e}) = Cardinality(Inserting) + 1
  BY <1>2, FS_AddElement DEF Counted
<1>4. /\ IsFiniteSet(Inserting')
      /\ Cardinality(Inserting') <= Cardinality(Inserting \cup {e})
  BY <1>1, <1>3, FS_Subset
<1>5. Cardinality(Inserting) \in Nat /\ Cardinality(Inserting') \in Nat
  BY <1>4, FS_CardinalityType DEF Counted
<1> QED BY <1>3, <1>4, <1>5 DEF Counted

LEMMA CountedInsert ==
  ASSUME Counted, made \in Nat, begun \in Nat, ed \in [Editors -> Request],
         NEW e \in Editors, NEW q, q.pc # "snapshot", ed[e].pc = "snapshot", Continue(e, q),
         begun' = begun, made' \in {made, made + 1}
  PROVE  Counted' /\ made + 1 <= begun
<1>1. Inserting' = Inserting \ {e} /\ e \in Inserting
  BY DEF Inserting, Continue
<1>2. /\ IsFiniteSet(Inserting')
      /\ Cardinality(Inserting') = Cardinality(Inserting) - 1
  BY <1>1, FS_RemoveElement DEF Counted
<1>3. Cardinality(Inserting) \in Nat /\ Cardinality(Inserting') \in Nat
  BY <1>2, FS_CardinalityType DEF Counted
<1> QED BY <1>2, <1>3 DEF Counted

LEMMA CountedKept ==
  ASSUME Counted, ed \in [Editors -> Request],
         NEW e \in Editors, NEW q, q.pc # "snapshot", ed[e].pc # "snapshot", Continue(e, q),
         begun' = begun, made' = made
  PROVE  Counted'
<1>1. Inserting' = Inserting
  BY DEF Inserting, Continue
<1> QED BY <1>1 DEF Counted

-----------------------------------------------------------------------------
LEMMA InitIInv == Init => IInv
<1> SUFFICES ASSUME Init PROVE IInv
  OBVIOUS
<1>1. TypeOK
  <2>1. GivenBoth(NoTitle) \in Given
    BY DEF GivenBoth, Given, GivenTitle
  <2> QED BY <2>1, IdleRequest, RevisionsAssumption DEF Init, TypeOK
<1>2. \A e \in Editors : ed[e] = Idle
  BY DEF Init
<1>3. Counted
  <2>1. Inserting = {}
    BY <1>2, IdleRequest DEF Inserting
  <2> QED BY <2>1, FS_EmptySet DEF Counted, Init
<1>4. \A e \in Editors : ed[e].pc = "idle"
  BY <1>2, IdleRequest
<1> QED
  BY <1>1, <1>3, <1>4 DEF Init, IInv, IdsInOrder, HeldStates, SnapshotsAreHistory, WritesRecorded,
     KnownStatesKept, HeldTitles, OwnWrite, OneJobEach, JobsSaved, Unstarted, TitlesExplained,
     IsWriting, SavingContent

\* A request that takes up or drops work without touching the database.
LEMMA RequestMoves ==
  ASSUME IInv, NEW e \in Editors, NEW q \in Request, Continue(e, q),
         UNCHANGED <<kind, rowVars, jobs, hist>>, Counted', begun' \in 0..MaxRequests,
         q.pc \in {"snapshot", "write"} =>
           /\ q.base.state \in had
           /\ IF q.by = "update" THEN q.title \in GivenTitle ELSE q.title = BeforeRestore,
         q.pc = "write" => q.rev = NoRow
  PROVE  IInv'
<1> USE DEF IInv, rowVars, hist
<1>1. TypeOK'
  BY DEF TypeOK, Continue
<1>2. /\ ed'[e] = q
      /\ \A f \in Editors : f # e => ed'[f] = ed[f]
      /\ \A f \in Editors : IsWriting(f)' => f # e /\ IsWriting(f) /\ ed'[f] = ed[f]
  BY DEF TypeOK, Continue, IsWriting
<1>3. IdsInOrder'
  BY <1>2 DEF IdsInOrder
<1>4. HeldStates'
  BY <1>2 DEF HeldStates
<1>5. SnapshotsAreHistory'
  BY DEF SnapshotsAreHistory
<1>6. WritesRecorded'
  BY <1>2 DEF WritesRecorded
<1>7. KnownStatesKept'
  BY DEF KnownStatesKept, Recorded
<1>8. HeldTitles'
  BY <1>2 DEF HeldTitles
<1>9. OwnWrite'
  BY <1>2 DEF OwnWrite
<1>10. OneJobEach' /\ JobsSaved'
  BY DEF OneJobEach, JobsSaved
<1>11. Unstarted'
  BY <1>2 DEF Unstarted, SavingContent
<1>12. TitlesExplained'
  BY DEF TitlesExplained
<1> QED BY <1>1, <1>3, <1>4, <1>5, <1>6, <1>7, <1>8, <1>9, <1>10, <1>11, <1>12

LEMMA BeginFacts ==
  ASSUME TypeOK, NEW e \in Editors, Begin(e)
  PROVE  ed[e] = Idle /\ begun' = begun + 1 /\ begun' \in 0..MaxRequests
BY RevisionsAssumption DEF Begin, TypeOK

LEMMA UpdateReadStep ==
  ASSUME IInv, NEW e \in Editors, NEW to \in State, NEW title \in GivenTitle,
         UpdateRead(e, to, title)
  PROVE  IInv'
<1> DEFINE q == [pc |-> "snapshot", by |-> "update", base |-> item, to |-> to, title |-> title]
<1>1. item \in ItemRow
  BY DEF UpdateRead, IInv, TypeOK
<1>2. q \in Request
  BY <1>1 DEF Request, Title, GivenTitle
<1>3. Continue(e, q) /\ UNCHANGED <<kind, rowVars, jobs, hist>>
  BY DEF UpdateRead, Begin
<1>4. item.state \in had
  BY DEF UpdateRead, IInv, HeldStates
<1>5. Counted' /\ begun' \in 0..MaxRequests
  BY <1>3, BeginFacts, CountedBegin DEF UpdateRead, IInv, TypeOK, rowVars
<1> QED BY <1>2, <1>3, <1>4, <1>5, RequestMoves

LEMMA RestoreReadStep ==
  ASSUME IInv, NEW e \in Editors, NEW r \in RevId, RestoreRead(e, r)
  PROVE  IInv'
<1> DEFINE q == [pc |-> "snapshot", by |-> "restore", base |-> item,
                 to |-> revs[r].snap, title |-> BeforeRestore]
<1>1. item \in ItemRow /\ revs[r] \in Revision
  BY DEF RestoreRead, IInv, TypeOK
<1>2. q \in Request
  BY <1>1 DEF Request, Title, Revision
<1>3. Continue(e, q) /\ UNCHANGED <<kind, rowVars, jobs, hist>>
  BY DEF RestoreRead, Begin
<1>4. item.state \in had
  BY DEF RestoreRead, IInv, HeldStates
<1>5. Counted' /\ begun' \in 0..MaxRequests
  BY <1>3, BeginFacts, CountedBegin DEF RestoreRead, IInv, TypeOK, rowVars
<1> QED BY <1>2, <1>3, <1>4, <1>5, RequestMoves

LEMMA RenameReadStep ==
  ASSUME IInv, NEW e \in Editors, NEW r \in RevId, NEW title \in UserTitle,
         RenameRead(e, r, title)
  PROVE  IInv'
<1> DEFINE q == [pc |-> "rename", rev |-> r, title |-> title, log |-> revs[r].log]
<1>1. revs[r] \in Revision
  BY DEF RenameRead, IInv, TypeOK
<1>2. q \in Request
  BY <1>1 DEF Request, Revision
<1>3. Continue(e, q) /\ UNCHANGED <<kind, rowVars, jobs, hist>>
  BY DEF RenameRead, Begin
<1>4. Counted' /\ begun' \in 0..MaxRequests
  BY <1>3, BeginFacts, CountedBegin DEF RenameRead, IInv, TypeOK, rowVars
<1> QED BY <1>2, <1>3, <1>4, RequestMoves

\* The record a request holds while it writes.
LEMMA WritingRequest ==
  ASSUME TypeOK, NEW e \in Editors, ed[e].pc = "snapshot", NEW r \in RevId \cup {NoRow}
  PROVE  Writing(e, r) \in Request
<1>1. ed[e] \in Request
  BY DEF TypeOK
<1> QED BY <1>1, RequestFields DEF Request, Writing

LEMMA SnapshotFailsStep ==
  ASSUME IInv, NEW e \in Editors, SnapshotFails(e)
  PROVE  IInv'
<1> DEFINE q == Writing(e, NoRow)
<1>1. q \in Request /\ ed[e].pc = "snapshot"
  BY WritingRequest DEF SnapshotFails, IInv
<1>2. q.pc = "write" /\ q.rev = NoRow /\ q.by = ed[e].by /\ q.base = ed[e].base /\ q.title = ed[e].title
  BY DEF Writing
<1>3. Continue(e, q) /\ UNCHANGED <<kind, rowVars, jobs, hist>> /\ begun' = begun
  BY DEF SnapshotFails
<1>4. Counted' /\ begun' \in 0..MaxRequests
  BY <1>1, <1>2, <1>3, CountedInsert DEF IInv, TypeOK, rowVars
<1>5. /\ q.base.state \in had
      /\ IF q.by = "update" THEN q.title \in GivenTitle ELSE q.title = BeforeRestore
  BY <1>1, <1>2 DEF IInv, HeldStates, HeldTitles
<1> HIDE DEF q
<1> QED BY <1>1, <1>2, <1>3, <1>4, <1>5, RequestMoves

LEMMA WriteFailsStep ==
  ASSUME IInv, NEW e \in Editors, WriteFails(e)
  PROVE  IInv'
<1>1. Continue(e, Idle) /\ UNCHANGED <<kind, rowVars, jobs, hist>> /\ begun' = begun
  BY DEF WriteFails
<1>2. Counted' /\ begun' \in 0..MaxRequests
  BY <1>1, IdleRequest, CountedKept DEF WriteFails, IInv, TypeOK, rowVars
<1> QED BY <1>1, <1>2, IdleRequest, RequestMoves

-----------------------------------------------------------------------------
\* The INSERT of an item: nothing has happened to it yet.
LEMMA CreatedStep ==
  ASSUME IInv, NEW state \in State, Created(state)
  PROVE  IInv'
<1> USE DEF IInv, Created
<1>1. Stamped(state, 0) \in Nat
  BY StampedType DEF TypeOK
<1>2. item' \in ItemRow /\ item'.state = state
  BY <1>1 DEF ItemRow
<1>3. TypeOK'
  BY <1>1, <1>2, NoRowApart DEF TypeOK
<1>4. Counted'
  BY DEF Counted, Inserting
<1>5. lost = {} /\ \A e \in Editors : ed[e].pc \notin {"snapshot", "write"}
  BY DEF HeldStates
<1>6. IdsInOrder' /\ HeldTitles' /\ OwnWrite' /\ OneJobEach' /\ JobsSaved'
  BY DEF IdsInOrder, HeldTitles, OwnWrite, OneJobEach, JobsSaved, IsWriting
<1>7. HeldStates'
  BY <1>2, <1>5 DEF HeldStates
<1>8. SnapshotsAreHistory'
  BY DEF SnapshotsAreHistory
<1>9. WritesRecorded' /\ KnownStatesKept'
  BY <1>5 DEF WritesRecorded, KnownStatesKept, IsWriting
<1>10. Unstarted' /\ TitlesExplained'
  BY DEF Unstarted, TitlesExplained, SavingContent, IsWriting
<1> QED BY <1>3, <1>4, <1>6, <1>7, <1>8, <1>9, <1>10

\* The DELETE: no revision is left.
LEMMA DeletedStep ==
  ASSUME IInv, NEW e \in Editors, Deleted(e)
  PROVE  IInv'
<1> USE DEF IInv, Deleted, hist
<1>1. begun' \in 0..MaxRequests /\ begun' = begun + 1 /\ kind' = kind
  BY BeginFacts DEF Begin
<1>2. TypeOK'
  BY <1>1 DEF TypeOK
<1>3. Counted'
  <2>1. Inserting' = Inserting
    BY DEF Inserting
  <2>2. Cardinality(Inserting) \in Nat
    BY FS_CardinalityType DEF Counted
  <2> QED BY <1>1, <2>1, <2>2 DEF Counted, TypeOK
<1>4. IdsInOrder' /\ HeldTitles' /\ OwnWrite' /\ OneJobEach' /\ JobsSaved'
  BY DEF IdsInOrder, HeldTitles, OwnWrite, OneJobEach, JobsSaved, IsWriting
<1>5. HeldStates' /\ SnapshotsAreHistory' /\ WritesRecorded' /\ KnownStatesKept'
  BY DEF HeldStates, SnapshotsAreHistory, WritesRecorded, KnownStatesKept
<1>6. Unstarted'
  <2> SUFFICES ASSUME NEW f \in Editors, SavingContent(f)'
               PROVE  /\ \A j \in jobs' : j.rev # ed'[f].rev
                      /\ given'[ed'[f].rev].saved = ed'[f].title
                      /\ revs'[ed'[f].rev] # NoRow =>
                           revs'[ed'[f].rev].title = given'[ed'[f].rev].last
    BY DEF Unstarted
  <2>1. SavingContent(f) /\ ed[f] \in Request
    BY <1>1 DEF SavingContent, IsWriting, TypeOK
  <2>2. ed[f].rev \in RevId
    BY <2>1, RequestFields DEF SavingContent, IsWriting
  <2> QED BY <2>1, <2>2 DEF Unstarted
<1>7. TitlesExplained'
  BY DEF TitlesExplained
<1> QED BY <1>2, <1>3, <1>4, <1>5, <1>6, <1>7

\* The title and changelog of a revision change, what it holds never.
LEMMA UpdateMetaFacts ==
  ASSUME TypeOK, NEW r \in RevId, NEW title \in Title, NEW log \in BOOLEAN,
         UpdateMeta(r, title, log)
  PROVE  /\ revs' \in [RevId -> Revision \cup {NoRow}]
         /\ \A x \in RevId : (revs'[x] = NoRow <=> revs[x] = NoRow)
         /\ \A x \in RevId : revs[x] # NoRow => revs'[x].snap = revs[x].snap
         /\ \A x \in RevId : x # r => revs'[x] = revs[x]
         /\ revs[r] # NoRow => revs'[r].title = title
<1> DEFINE new == [snap |-> revs[r].snap, title |-> title, log |-> log]
<1>1. revs[r] # NoRow => new \in Revision
  BY DEF TypeOK, Revision
<1>2. new.snap = revs[r].snap /\ new.title = title
  OBVIOUS
<1>3. revs' = IF revs[r] = NoRow THEN revs ELSE [revs EXCEPT ![r] = new]
  BY DEF UpdateMeta
<1> HIDE DEF new
<1>4. new # NoRow \/ revs[r] = NoRow
  BY <1>1, NoRowApart
<1> QED BY <1>1, <1>2, <1>3, <1>4 DEF TypeOK

\* What keeps, whoever changes titles, the part of the invariant about states.
LEMMA TitlesLeaveStates ==
  ASSUME IInv, UNCHANGED <<kind, item, stamps, made, begun, had, lost>>,
         \A x \in RevId : (revs'[x] = NoRow <=> revs[x] = NoRow),
         \A x \in RevId : revs[x] # NoRow => revs'[x].snap = revs[x].snap,
         \A e \in Editors : ed'[e].pc \in {"snapshot", "write"} => ed'[e] = ed[e],
         \A j \in jobs' : j \in jobs
  PROVE  IdsInOrder' /\ HeldStates' /\ SnapshotsAreHistory' /\ WritesRecorded' /\ KnownStatesKept'
<1> USE DEF IInv
<1>1. \A e \in Editors : IsWriting(e)' => IsWriting(e) /\ ed'[e] = ed[e] /\ ed[e].rev \in RevId
  BY RequestFields DEF IsWriting, TypeOK
<1>2. IdsInOrder'
  BY <1>1 DEF IdsInOrder
<1>3. HeldStates' /\ SnapshotsAreHistory'
  BY DEF HeldStates, SnapshotsAreHistory
<1>4. WritesRecorded'
  BY <1>1 DEF WritesRecorded
<1>5. \A s : Recorded(s) => Recorded(s)'
  BY DEF Recorded
<1>6. KnownStatesKept'
  BY <1>5 DEF KnownStatesKept
<1> QED BY <1>2, <1>3, <1>4, <1>6

LEMMA AnswersTyped == \A title \in GivenTitle : Answers(title) \subseteq Title
BY DEF Answers, GivenTitle, Title

LEMMA RenameWriteStep ==
  ASSUME IInv, NEW e \in Editors, RenameWrite(e)
  PROVE  IInv'
<1> USE DEF IInv
<1>1. PICK r \in RevId, title \in UserTitle, log \in BOOLEAN :
        r = ed[e].rev /\ title = ed[e].title /\ log = ed[e].log
  BY RequestFields DEF RenameWrite, TypeOK
<1>2. UpdateMeta(r, title, log) /\ Continue(e, Idle)
  BY <1>1 DEF RenameWrite
<1>3. title \in Title /\ title \in GivenTitle
  BY DEF Title, GivenTitle
<1>4. /\ revs' \in [RevId -> Revision \cup {NoRow}]
      /\ \A x \in RevId : (revs'[x] = NoRow <=> revs[x] = NoRow)
      /\ \A x \in RevId : revs[x] # NoRow => revs'[x].snap = revs[x].snap
      /\ \A x \in RevId : x # r => revs'[x] = revs[x]
      /\ revs[r] # NoRow => revs'[r].title = title
  BY <1>2, <1>3, UpdateMetaFacts
<1>5. /\ given' \in [RevId -> Given]
      /\ \A x \in RevId : given'[x].saved = given[x].saved
      /\ \A x \in RevId : x # r => given'[x].last = given[x].last
      /\ given'[r].last = title
  BY <1>1, <1>3 DEF RenameWrite, TypeOK, Given
<1>6. /\ ed' \in [Editors -> Request]
      /\ \A f \in Editors : ed'[f].pc # "idle" => ed'[f] = ed[f]
  BY <1>2, IdleRequest DEF Continue, TypeOK
<1>7. UNCHANGED <<kind, item, stamps, made, jobs, begun, had, lost, blank>>
  BY DEF RenameWrite
<1>8. TypeOK'
  BY <1>4, <1>5, <1>6, <1>7 DEF TypeOK
<1>9. Counted'
  BY <1>2, <1>7, IdleRequest, CountedKept DEF RenameWrite, TypeOK
<1>10. IdsInOrder' /\ HeldStates' /\ SnapshotsAreHistory' /\ WritesRecorded' /\ KnownStatesKept'
  BY <1>4, <1>6, <1>7, TitlesLeaveStates
<1>11. HeldTitles'
  BY <1>6 DEF HeldTitles
<1>12. OwnWrite'
  BY <1>6 DEF OwnWrite, IsWriting
<1>13. OneJobEach' /\ JobsSaved'
  BY <1>5, <1>7 DEF OneJobEach, JobsSaved, TypeOK, Job
<1>14. Unstarted'
  <2> SUFFICES ASSUME NEW f \in Editors, SavingContent(f)'
               PROVE  /\ \A j \in jobs' : j.rev # ed'[f].rev
                      /\ given'[ed'[f].rev].saved = ed'[f].title
                      /\ revs'[ed'[f].rev] # NoRow =>
                           revs'[ed'[f].rev].title = given'[ed'[f].rev].last
    BY DEF Unstarted
  <2>1. SavingContent(f) /\ ed'[f] = ed[f]
    BY <1>6, <1>7 DEF SavingContent, IsWriting
  <2>2. ed[f].rev \in RevId
    BY <2>1, RequestFields DEF SavingContent, IsWriting, TypeOK
  <2> QED BY <2>1, <2>2, <1>4, <1>5, <1>7 DEF Unstarted
<1>15. TitlesExplained'
  BY <1>4, <1>5, <1>7 DEF TitlesExplained
<1> QED BY <1>8, <1>9, <1>10, <1>11, <1>12, <1>13, <1>14, <1>15

LEMMA GenerateMetaStep ==
  ASSUME IInv, NEW j \in jobs, GenerateMeta(j)
  PROVE  IInv'
<1> USE DEF IInv
<1>1. j.rev \in RevId /\ j.title \in GivenTitle /\ j.title = given[j.rev].saved
  BY DEF TypeOK, Job, JobsSaved
<1>2. PICK r \in RevId : r = j.rev
  BY <1>1
<1>4. /\ revs' \in [RevId -> Revision \cup {NoRow}]
      /\ \A x \in RevId : (revs'[x] = NoRow <=> revs[x] = NoRow)
      /\ \A x \in RevId : revs[x] # NoRow => revs'[x].snap = revs[x].snap
      /\ \A x \in RevId : x # r => revs'[x] = revs[x]
      /\ revs[r] # NoRow => \/ revs'[r].title = revs[r].title
                            \/ revs'[r].title \in Answers(j.title)
  <2>1. CASE revs' = revs
    BY <2>1 DEF TypeOK
  <2>2. CASE revs' # revs
    <3>1. PICK title \in Answers(j.title) : UpdateMeta(r, title, TRUE)
      BY <1>2, <2>2 DEF GenerateMeta
    <3>2. title \in Title /\ TRUE \in BOOLEAN
      BY <1>1, <3>1, AnswersTyped
    <3> QED BY <3>1, <3>2, UpdateMetaFacts
  <2> QED BY <2>1, <2>2
<1>5. UNCHANGED <<kind, item, stamps, made, begun, had, lost, ed, given>> /\ jobs' = jobs \ {j}
  BY DEF GenerateMeta
<1>12. blank' \subseteq RevId
  BY <1>1 DEF GenerateMeta, TypeOK
<1>6. TypeOK'
  BY <1>4, <1>5, <1>12 DEF TypeOK
<1>7. Counted'
  BY <1>5 DEF Counted, Inserting
<1>8. IdsInOrder' /\ HeldStates' /\ SnapshotsAreHistory' /\ WritesRecorded' /\ KnownStatesKept'
  BY <1>4, <1>5, TitlesLeaveStates
<1>9. HeldTitles' /\ OwnWrite' /\ OneJobEach' /\ JobsSaved'
  BY <1>5 DEF HeldTitles, OwnWrite, OneJobEach, JobsSaved, IsWriting
<1>10. Unstarted'
  <2> SUFFICES ASSUME NEW f \in Editors, SavingContent(f)
               PROVE  /\ \A k \in jobs' : k.rev # ed[f].rev
                      /\ given[ed[f].rev].saved = ed[f].title
                      /\ revs'[ed[f].rev] # NoRow =>
                           revs'[ed[f].rev].title = given[ed[f].rev].last
    BY <1>5 DEF Unstarted, SavingContent, IsWriting
  <2>1. ed[f].rev \in RevId /\ ed[f].rev # r
    BY <1>2, RequestFields DEF SavingContent, IsWriting, TypeOK, Unstarted
  <2> QED BY <2>1, <1>4, <1>5 DEF Unstarted
<1>11. TitlesExplained'
  <2>1. \A k \in jobs' : k.rev # r
    BY <1>2, <1>5 DEF OneJobEach
  <2> SUFFICES ASSUME NEW x \in RevId, revs'[x] # NoRow, revs'[x].title # given[x].last
               PROVE  \/ revs'[x].title = BeforeRestore /\ given[x].last = NoTitle
                      \/ /\ revs'[x].title \in Answers(given[x].saved)
                         /\ \A k \in jobs' : k.rev # x
    BY <1>5 DEF TitlesExplained, Answers
  <2>2. CASE revs'[x].title = revs[x].title
    BY <2>2, <1>4, <1>5 DEF TitlesExplained
  <2>3. CASE revs'[x].title # revs[x].title
    <3>1. x = r /\ revs'[r].title \in Answers(j.title)
      BY <2>3, <1>4
    <3> QED BY <3>1, <2>1, <1>1, <1>2
  <2> QED BY <2>2, <2>3
<1> QED BY <1>6, <1>7, <1>8, <1>9, <1>10, <1>11

-----------------------------------------------------------------------------
\* The INSERT of a revision, under an id that nothing refers to yet.  The
\* goroutine of a template's save starts with it.
LEMMA InsertRevisionStep ==
  ASSUME IInv, NEW e \in Editors, InsertRevision(e, ed[e].base.state),
         \/ jobs' = jobs
         \/ /\ kind = "template" /\ ed[e].by = "update"
            /\ jobs' = jobs \cup {[rev |-> made', title |-> ed[e].title]}
  PROVE  IInv'
<1> USE DEF IInv
<1>1. /\ ed[e] \in Request /\ ed[e].pc = "snapshot" /\ item # NoRow
      /\ ed[e].by \in {"update", "restore"} /\ ed[e].base \in ItemRow /\ ed[e].title \in Title
  BY RequestFields DEF InsertRevision, TypeOK
<1>2. UNCHANGED <<kind, item, stamps, begun, had, lost, blank>> /\ made' = made + 1
  BY DEF InsertRevision
<1>3. Continue(e, Writing(e, made'))
  BY DEF InsertRevision
<1>4. PICK q : q = Writing(e, made')
  OBVIOUS
<1>5. /\ q.pc = "write" /\ q.rev = made + 1 /\ q.by = ed[e].by
      /\ q.base = ed[e].base /\ q.title = ed[e].title
  BY <1>2, <1>4 DEF Writing
<1>6. Counted' /\ made + 1 <= begun
  BY <1>1, <1>2, <1>3, <1>4, <1>5, CountedInsert DEF TypeOK
<1>7. PICK r \in RevId : r = made' /\ made < r
  BY <1>2, <1>6, RevisionsAssumption DEF TypeOK, RevId
<1>8. PICK saved \in GivenTitle : saved = IF ed[e].by = "update" THEN ed[e].title ELSE NoTitle
  BY <1>1 DEF HeldTitles, GivenTitle
<1>9. PICK new \in Revision : /\ new.snap = ed[e].base.state /\ new.title = ed[e].title
                              /\ revs' = [revs EXCEPT ![r] = new]
  <2> DEFINE n == [snap |-> ed[e].base.state, title |-> ed[e].title, log |-> ed[e].by = "restore"]
  <2>1. (ed[e].by = "restore") \in BOOLEAN
    OBVIOUS
  <2>2. n \in Revision
    BY <1>1, <2>1, StateFields DEF Revision
  <2>3. n.snap = ed[e].base.state /\ n.title = ed[e].title
    OBVIOUS
  <2>4. revs' = [revs EXCEPT ![r] = n]
    BY <1>7 DEF InsertRevision
  <2> HIDE DEF n
  <2> QED BY <2>2, <2>3, <2>4
<1>10. /\ revs' \in [RevId -> Revision \cup {NoRow}]
       /\ revs'[r] = new /\ new # NoRow /\ revs[r] = NoRow
       /\ \A x \in RevId : x # r => revs'[x] = revs[x]
  BY <1>7, <1>9, NoRowApart DEF TypeOK, IdsInOrder
<1>11. /\ given' \in [RevId -> Given]
       /\ given'[r].saved = saved /\ given'[r].last = saved
       /\ \A x \in RevId : x # r => given'[x] = given[x]
  <2>1. GivenBoth(saved) \in Given /\ GivenBoth(saved).saved = saved /\ GivenBoth(saved).last = saved
    BY DEF GivenBoth, Given
  <2>2. given' = [given EXCEPT ![r] = GivenBoth(saved)]
    BY <1>7, <1>8 DEF InsertRevision
  <2> QED BY <2>1, <2>2 DEF TypeOK
<1>12. q \in Request
  BY <1>1, <1>4, <1>7, WritingRequest
<1>13. /\ ed' \in [Editors -> Request] /\ ed'[e] = q
       /\ \A f \in Editors : f # e => ed'[f] = ed[f]
  BY <1>3, <1>4, <1>12 DEF Continue, TypeOK
<1>14. /\ jobs' \subseteq Job
       /\ \A j \in jobs' : \/ j \in jobs /\ j.rev <= made
                           \/ /\ kind = "template" /\ ed[e].by = "update"
                              /\ j = [rev |-> r, title |-> saved]
  <2>1. [rev |-> r, title |-> saved] \in Job
    BY DEF Job
  <2> QED BY <1>7, <1>8, <2>1 DEF TypeOK, IdsInOrder
<1>15. TypeOK'
  BY <1>1, <1>2, <1>6, <1>10, <1>11, <1>13, <1>14, <1>7 DEF TypeOK, RevId
<1>16. \A f \in Editors : f # e /\ IsWriting(f)' => IsWriting(f) /\ ed[f].rev \in RevId /\ ed[f].rev <= made
  BY <1>13, RequestFields DEF IsWriting, IdsInOrder, TypeOK
<1>17. made \in Nat /\ made' = made + 1 /\ r = made + 1
  BY <1>2, <1>7 DEF TypeOK
<1>18. IdsInOrder'
  <2>1. \A x \in RevId : x > made' => revs'[x] = NoRow
    BY <1>10, <1>17 DEF IdsInOrder, RevId
  <2>2. \A j \in jobs' : j.rev <= made'
    BY <1>14, <1>17 DEF TypeOK, Job, RevId
  <2>3. \A f \in Editors : IsWriting(f)' => ed'[f].rev <= made'
    BY <1>5, <1>13, <1>16, <1>17 DEF RevId
  <2> QED BY <2>1, <2>2, <2>3 DEF IdsInOrder
<1>19. HeldStates'
  BY <1>1, <1>2, <1>5, <1>13 DEF HeldStates
<1>20. SnapshotsAreHistory'
  BY <1>1, <1>2, <1>9, <1>10 DEF SnapshotsAreHistory, HeldStates
<1>21. WritesRecorded'
  BY <1>2, <1>5, <1>7, <1>9, <1>10, <1>13, <1>16 DEF WritesRecorded, IsWriting, RevId
<1>22. KnownStatesKept'
  <2>1. \A s : Recorded(s) => Recorded(s)'
    BY <1>10 DEF Recorded
  <2> QED BY <1>2, <2>1 DEF KnownStatesKept
<1>23. HeldTitles'
  BY <1>1, <1>5, <1>13 DEF HeldTitles
<1>24. OwnWrite'
  BY <1>5, <1>13, <1>16, <1>17 DEF OwnWrite, RevId, IsWriting
<1>25. OneJobEach'
  BY <1>14, <1>17 DEF OneJobEach, RevId
<1>26. JobsSaved'
  <2> SUFFICES ASSUME NEW j \in jobs' PROVE given'[j.rev].saved = j.title
    BY DEF JobsSaved
  <2>1. CASE j \in jobs /\ j.rev <= made
    BY <2>1, <1>11, <1>17 DEF JobsSaved, TypeOK, Job, RevId
  <2>2. CASE j = [rev |-> r, title |-> saved]
    BY <2>2, <1>11
  <2> QED BY <2>1, <2>2, <1>14
<1>27. Unstarted'
  <2> SUFFICES ASSUME NEW f \in Editors, SavingContent(f)'
               PROVE  /\ \A j \in jobs' : j.rev # ed'[f].rev
                      /\ given'[ed'[f].rev].saved = ed'[f].title
                      /\ revs'[ed'[f].rev] # NoRow =>
                           revs'[ed'[f].rev].title = given'[ed'[f].rev].last
    BY DEF Unstarted
  <2>1. kind = "content" /\ \A j \in jobs' : j \in jobs /\ j.rev <= made
    BY <1>2, <1>14 DEF SavingContent
  <2>2. CASE f = e
    BY <2>1, <2>2, <1>5, <1>7, <1>8, <1>9, <1>10, <1>11, <1>13, <1>17
       DEF SavingContent, TypeOK, Job, RevId
  <2>3. CASE f # e
    <3>1. SavingContent(f) /\ ed[f].rev \in RevId /\ ed[f].rev # r
      BY <2>1, <2>3, <1>13, <1>16, <1>17 DEF SavingContent, RevId
    <3> QED BY <3>1, <2>1, <2>3, <1>10, <1>11, <1>13 DEF Unstarted
  <2> QED BY <2>2, <2>3
<1>28. TitlesExplained'
  <2> SUFFICES ASSUME NEW x \in RevId, revs'[x] # NoRow, revs'[x].title # given'[x].last
               PROVE  \/ revs'[x].title = BeforeRestore /\ given'[x].last = NoTitle
                      \/ /\ revs'[x].title \in Answers(given'[x].saved)
                         /\ \A j \in jobs' : j.rev # x
    BY DEF TitlesExplained, Answers
  <2>1. CASE x = r
    BY <2>1, <1>1, <1>8, <1>9, <1>10, <1>11 DEF HeldTitles
  <2>2. CASE x # r
    BY <2>2, <1>10, <1>11, <1>14 DEF TitlesExplained
  <2> QED BY <2>1, <2>2
<1> QED BY <1>6, <1>15, <1>18, <1>19, <1>20, <1>21, <1>22, <1>23, <1>24, <1>25, <1>26, <1>27, <1>28

-----------------------------------------------------------------------------
\* The UPDATE: the state it replaces was recorded if the request knew it, and the
\* goroutine of a save of content starts.
LEMMA WriteStep ==
  ASSUME IInv, NEW e \in Editors, Write(e)
  PROVE  IInv'
<1> USE DEF IInv
<1>0. PICK known \in BOOLEAN : known = (ed[e].base.state = item.state /\ ed[e].rev # NoRow)
  OBVIOUS
<1>1. /\ ed[e] \in Request /\ ed[e].pc = "write"
      /\ ed[e].to \in State /\ ed[e].base \in ItemRow /\ ed[e].rev \in RevId \cup {NoRow}
  BY RequestFields DEF Write, TypeOK
<1>2. PICK at \in Nat : at = Stamped(ed[e].to, ed[e].base.publishedAt)
  BY <1>1, StateFields, StampedType DEF TypeOK
<1>3. UNCHANGED <<kind, revs, made, begun, given, blank>> /\ stamps' \in Nat
  BY <1>2 DEF Write, TypeOK
<1>4. \/ item = NoRow /\ UNCHANGED <<item, had, lost>>
      \/ /\ item # NoRow /\ item' = [state |-> ed[e].to, publishedAt |-> at]
         /\ had' = had \cup {ed[e].to}
         /\ lost' = lost \cup {[state |-> item.state, known |-> known]}
  BY <1>0, <1>2, Zenon DEF Write
<1>5. \/ jobs' = jobs
      \/ SavingContent(e) /\ jobs' = jobs \cup {[rev |-> ed[e].rev, title |-> ed[e].title]}
  BY DEF Write, SavingContent, IsWriting
<1>6. /\ ed' \in [Editors -> Request]
      /\ \A f \in Editors : ed'[f].pc # "idle" => f # e /\ ed'[f] = ed[f]
  BY IdleRequest DEF Write, Continue, TypeOK
<1>7. item # NoRow => item \in ItemRow /\ item.state \in State
  BY StateFields DEF TypeOK
<1>8. item' \in ItemRow \cup {NoRow} /\ (item' = NoRow <=> item = NoRow)
      /\ (item # NoRow => item'.state = ed[e].to)
  <2>1. [state |-> ed[e].to, publishedAt |-> at] \in ItemRow
    BY <1>1 DEF ItemRow
  <2> QED BY <2>1, <1>4, NoRowApart DEF TypeOK
<1>9. jobs' \subseteq Job
  <2>1. SavingContent(e) => [rev |-> ed[e].rev, title |-> ed[e].title] \in Job
    BY <1>1 DEF SavingContent, IsWriting, HeldTitles, Job
  <2> QED BY <2>1, <1>5 DEF TypeOK
<1>10. had' \subseteq State /\ lost' \subseteq [state : State, known : BOOLEAN]
  <2>1. item # NoRow => [state |-> item.state, known |-> known] \in [state : State, known : BOOLEAN]
    BY <1>7
  <2> QED BY <2>1, <1>1, <1>4 DEF TypeOK
<1>11. TypeOK'
  BY <1>3, <1>6, <1>8, <1>9, <1>10 DEF TypeOK
<1>12. Counted'
  BY <1>1, <1>3, IdleRequest, CountedKept DEF Write, TypeOK
<1>13. \A f \in Editors : IsWriting(f)' => f # e /\ IsWriting(f) /\ ed'[f] = ed[f]
  BY <1>6 DEF IsWriting
<1>14. IdsInOrder'
  BY <1>3, <1>5, <1>13 DEF IdsInOrder, SavingContent
<1>15. HeldStates'
  <2>1. had \subseteq had' /\ (item' # NoRow => item'.state \in had')
    BY <1>4, <1>8
  <2>2. \A l \in lost' : l.state \in had'
    BY <1>4, <2>1 DEF HeldStates
  <2> QED BY <2>1, <2>2, <1>6 DEF HeldStates
<1>16. SnapshotsAreHistory'
  BY <1>3, <1>4 DEF SnapshotsAreHistory
<1>17. WritesRecorded'
  BY <1>3, <1>8, <1>13 DEF WritesRecorded
<1>18. KnownStatesKept'
  <2> SUFFICES ASSUME item # NoRow, NEW l \in lost', l.known PROVE Recorded(l.state)'
    BY <1>8 DEF KnownStatesKept
  <2>1. \A s : Recorded(s) => Recorded(s)'
    BY <1>3 DEF Recorded
  <2>2. CASE l \in lost
    BY <2>1, <2>2 DEF KnownStatesKept
  <2>3. CASE l \notin lost
    <3>1. l = [state |-> item.state, known |-> known]
      BY <2>3, <1>4
    <3>2. l.state = item.state /\ known
      BY <3>1
    <3>3. ed[e].base.state = item.state /\ ed[e].rev # NoRow
      BY <3>2, <1>0, Zenon
    <3>4. revs[ed[e].rev] # NoRow /\ revs[ed[e].rev].snap = item.state
      BY <3>3, <1>1 DEF WritesRecorded, IsWriting
    <3> QED BY <3>2, <3>3, <3>4, <2>1, <1>1 DEF Recorded
  <2> QED BY <2>2, <2>3
<1>19. HeldTitles'
  BY <1>6 DEF HeldTitles
<1>20. OwnWrite'
  BY <1>13 DEF OwnWrite
<1>21. OneJobEach'
  BY <1>5 DEF OneJobEach, Unstarted
<1>22. JobsSaved'
  BY <1>3, <1>5 DEF JobsSaved, Unstarted
<1>23. Unstarted'
  BY <1>3, <1>5, <1>13 DEF Unstarted, SavingContent, OwnWrite
<1>24. TitlesExplained'
  <2> SUFFICES ASSUME NEW r \in RevId, revs[r] # NoRow, revs[r].title # given[r].last
               PROVE  \/ revs[r].title = BeforeRestore /\ given[r].last = NoTitle
                      \/ /\ revs[r].title \in Answers(given[r].saved)
                         /\ \A j \in jobs' : j.rev # r
    BY <1>3 DEF TitlesExplained, Answers
  <2>1. SavingContent(e) => ed[e].rev # r
    BY DEF Unstarted
  <2> QED BY <2>1, <1>5 DEF TitlesExplained
<1> QED BY <1>11, <1>12, <1>14, <1>15, <1>16, <1>17, <1>18, <1>19, <1>20, <1>21, <1>22, <1>23, <1>24

-----------------------------------------------------------------------------
LEMMA Step == IInv /\ [Next]_vars => IInv'
<1> SUFFICES ASSUME IInv, [Next]_vars PROVE IInv'
  OBVIOUS
<1>1. CASE \E state \in State : ContentCreate(state) \/ TemplateCreate(state)
  BY <1>1, CreatedStep DEF ContentCreate, TemplateCreate
<1>2. CASE \E e \in Editors : EditorBegin(e)
  <2>1. PICK e \in Editors : EditorBegin(e)
    BY <1>2
  <2>2. CASE \E to \in State, title \in SaveTitle \cup {NoTitle} :
               UpdateContent(e, to, title) \/ TemplateUpdate(e, to, title)
    BY <2>2, UpdateReadStep DEF UpdateContent, TemplateUpdate, GivenTitle, UserTitle
  <2>3. CASE \E r \in RevId : RevisionRestore(e, r) \/ TemplateRevisionRestore(e, r)
    BY <2>3, RestoreReadStep DEF RevisionRestore, TemplateRevisionRestore
  <2>4. CASE \E r \in RevId, title \in NewTitle :
               RevisionUpdateTitle(e, r, title) \/ TemplateRevisionUpdateTitle(e, r, title)
    BY <2>4, RenameReadStep DEF RevisionUpdateTitle, TemplateRevisionUpdateTitle, UserTitle
  <2>5. CASE ContentDelete(e) \/ TemplateDelete(e)
    BY <2>5, DeletedStep DEF ContentDelete, TemplateDelete
  <2> QED BY <2>1, <2>2, <2>3, <2>4, <2>5 DEF EditorBegin
<1>3. CASE \E e \in Editors : EditorStep(e)
  <2>1. PICK e \in Editors : EditorStep(e)
    BY <1>3
  <2>2. CASE Snapshot(e)
    BY <2>2, InsertRevisionStep DEF Snapshot
  <2>3. CASE TemplateSnapshot(e)
    BY <2>3, InsertRevisionStep DEF TemplateSnapshot
  <2> QED BY <2>1, <2>2, <2>3, SnapshotFailsStep, WriteStep, WriteFailsStep, RenameWriteStep
             DEF EditorStep
<1>4. CASE \E r \in RevId : TitleGenerated(r)
  BY <1>4, GenerateMetaStep DEF TitleGenerated, GenerateRevisionMeta, GenerateTemplateRevisionMeta
<1>5. CASE UNCHANGED vars
  BY <1>5 DEF vars, rowVars, hist, IInv, TypeOK, Counted, Inserting, IdsInOrder, HeldStates,
     SnapshotsAreHistory, WritesRecorded, KnownStatesKept, Recorded, HeldTitles, OwnWrite,
     OneJobEach, JobsSaved, Unstarted, TitlesExplained, IsWriting, SavingContent
<1> QED BY <1>1, <1>2, <1>3, <1>4, <1>5 DEF Next

LEMMA Invariance == Spec => []IInv
BY InitIInv, Step, PTL DEF Spec

\* Every variable keeps its type, ids of revisions never run past the number of
\* requests, and no revision outlives its item (the foreign keys' ON DELETE CASCADE).
THEOREM RevisionsTyped == Spec => []TypeOK
<1>1. IInv => TypeOK
  BY DEF IInv
<1> QED BY <1>1, Invariance, PTL

\* A revision holds a state the item really had (admin.go:428 and 1046 copy the
\* old state before the form is applied).
THEOREM SnapshotsFaithful == Spec => []SnapshotsAreHistory
<1>1. IInv => SnapshotsAreHistory
  BY DEF IInv
<1> QED BY <1>1, Invariance, PTL

\* Whatever else is in flight, a state that a save or a restore knowingly replaced
\* can be restored for as long as the item exists.
THEOREM KnownStatesRestorable == Spec => []KnownStatesKept
<1>1. IInv => KnownStatesKept
  BY DEF IInv
<1> QED BY <1>1, Invariance, PTL

\* A revision is called what its users last called it, unless its own goroutine,
\* which has ended, answered after them.
THEOREM TitlesHaveOrigins == Spec => []TitlesExplained
<1>1. IInv => TitlesExplained
  BY DEF IInv
<1> QED BY <1>1, Invariance, PTL

\* No two goroutines ever work on the same revision, nor does one on a revision
\* of content whose UPDATE is still to come.
THEOREM GoroutinesApart == Spec => [](OneJobEach /\ Unstarted)
<1>1. IInv => OneJobEach /\ Unstarted
  BY DEF IInv
<1> QED BY <1>1, Invariance, PTL

-----------------------------------------------------------------------------
\* What a revision holds, and that it is there.
Intact == \A r \in RevId : revs[r] # NoRow => revs'[r] # NoRow /\ revs'[r].snap = revs[r].snap

LEMMA UntouchedIntact == UNCHANGED revs => Intact
BY DEF Intact

LEMMA InsertIntact ==
  ASSUME IInv, NEW e \in Editors, InsertRevision(e, ed[e].base.state)
  PROVE  Intact
<1>1. ed[e].pc = "snapshot" /\ made' = made + 1 /\ made \in 0..MaxRequests
  BY DEF InsertRevision, IInv, TypeOK
<1>2. PICK new : revs' = [revs EXCEPT ![made'] = new]
  BY DEF InsertRevision
<1>3. \A r \in RevId : revs[r] # NoRow => r # made'
  BY <1>1 DEF IInv, IdsInOrder, RevId
<1> QED BY <1>2, <1>3 DEF Intact, IInv, TypeOK

LEMMA StepIntact ==
  ASSUME IInv, [Next]_vars, item' # NoRow
  PROVE  Intact
<1>1. CASE \E state \in State : ContentCreate(state) \/ TemplateCreate(state)
  BY <1>1, UntouchedIntact DEF ContentCreate, TemplateCreate, Created
<1>2. CASE \E e \in Editors : EditorBegin(e)
  <2>1. PICK e \in Editors : EditorBegin(e)
    BY <1>2
  <2>2. ~ Deleted(e)
    BY DEF Deleted
  <2> QED BY <2>1, <2>2, UntouchedIntact
          DEF EditorBegin, UpdateContent, TemplateUpdate, UpdateRead, RevisionRestore,
              TemplateRevisionRestore, RestoreRead, RevisionUpdateTitle,
              TemplateRevisionUpdateTitle, RenameRead, ContentDelete, TemplateDelete, rowVars
<1>3. CASE \E e \in Editors : EditorStep(e)
  <2>1. PICK e \in Editors : EditorStep(e)
    BY <1>3
  <2>2. CASE Snapshot(e) \/ TemplateSnapshot(e)
    BY <2>2, InsertIntact DEF Snapshot, TemplateSnapshot
  <2>3. CASE SnapshotFails(e) \/ Write(e) \/ WriteFails(e)
    BY <2>3, UntouchedIntact DEF SnapshotFails, Write, WriteFails, rowVars
  <2>4. CASE RenameWrite(e)
    <3>1. PICK r \in RevId, title \in UserTitle, log \in BOOLEAN :
            r = ed[e].rev /\ title = ed[e].title /\ log = ed[e].log
      BY <2>4, RequestFields DEF RenameWrite, IInv, TypeOK
    <3>2. UpdateMeta(r, title, log) /\ title \in Title
      BY <2>4, <3>1 DEF RenameWrite, Title
    <3> QED BY <3>2, UpdateMetaFacts DEF Intact, IInv
  <2> QED BY <2>1, <2>2, <2>3, <2>4 DEF EditorStep
<1>4. CASE \E r \in RevId : TitleGenerated(r)
  <2>1. PICK j \in jobs : GenerateMeta(j)
    BY <1>4 DEF TitleGenerated, GenerateRevisionMeta, GenerateTemplateRevisionMeta
  <2>2. CASE revs' = revs
    BY <2>2, UntouchedIntact
  <2>3. CASE revs' # revs
    <3>1. j.rev \in RevId /\ j.title \in GivenTitle
      BY DEF IInv, TypeOK, Job
    <3>2. PICK title \in Answers(j.title) : UpdateMeta(j.rev, title, TRUE)
      BY <2>1, <2>3 DEF GenerateMeta
    <3>3. title \in Title /\ TRUE \in BOOLEAN
      BY <3>1, <3>2, AnswersTyped
    <3> QED BY <3>1, <3>2, <3>3, UpdateMetaFacts DEF Intact, IInv
  <2> QED BY <2>2, <2>3
<1>5. CASE UNCHANGED vars
  BY <1>5, UntouchedIntact DEF vars, rowVars
<1> QED BY <1>1, <1>2, <1>3, <1>4, <1>5 DEF Next

\* While its item exists a revision neither goes nor holds anything else than at
\* first: neither the goroutines nor the renames, each of which writes the row
\* without a lock, touch what it holds, and no id is given twice.
THEOREM RevisionsImmutable ==
  Spec => [][item' # NoRow => Intact]_vars
<1>1. IInv /\ [Next]_vars => [item' # NoRow => Intact]_vars
  BY StepIntact
<1> QED BY <1>1, Invariance, PTL DEF Spec
=============================================================================

----------------------------- MODULE Revisions -----------------------------
(***************************************************************************)
(* One content item or template and its revisions: the editors' saves,     *)
(* restores and renames (handlers/admin.go, store/content.go, template.go, *)
(* revision.go, template_revision.go), and the goroutine each save leaves  *)
(* behind, which asks an AI provider for the revision's title and          *)
(* changelog long after the request is answered.  Content and templates    *)
(* differ in when that goroutine starts.                                   *)
(*                                                                         *)
(* Nothing locks the item: every request works on the copy its first query *)
(* returned, and every SQL statement is a step of its own.                 *)
(*                                                                         *)
(* Abstractions.  A state of an item is its status and one text standing   *)
(* for the fields a revision copies besides it; a template has no status.  *)
(* Publication times are numbered in the order they are taken.  A          *)
(* changelog is stored or not.  Other items matter by the unique index     *)
(* on slugs only, which may reject any UPDATE.  The purges that end each   *)
(* save are in PageCache and TemplateStore, and so are templates' versions *)
(* and which of them is active.                                            *)
(***************************************************************************)
EXTENDS Naturals, FiniteSets

CONSTANTS
  Text,         \* what a content item can say
  Html,         \* what a template can say
  Editors,      \* admin requests that can be in flight together
  SaveTitle,    \* titles that users give to a revision as they save
  NewTitle,     \* titles that users rename revisions to
  AITitle,      \* the title the goroutine comes up with
  NoRow,        \* no such row; also "no revision was created"
  MaxRequests   \* bound on the number of requests in a behaviour

ContentState == [text : Text, status : {"draft", "published"}]
TemplateState == [text : Html, status : {"none"}]
State == ContentState \cup TemplateState
UserTitle == SaveTitle \cup NewTitle
NoTitle == ""
BeforeRestore == "Before restore"
Title == UserTitle \cup {AITitle, NoTitle, BeforeRestore}
RevId == 1..MaxRequests

\* published_at is 0 for NULL.
ItemRow == [state : State, publishedAt : Nat]
Revision == [snap : State, title : Title, log : BOOLEAN]

ASSUME RevisionsAssumption ==
  /\ {AITitle, NoTitle, BeforeRestore} \cap UserTitle = {}
  /\ AITitle \notin {NoTitle, BeforeRestore}
  /\ NoRow \notin ItemRow \cup Revision \cup RevId
  /\ MaxRequests \in Nat

VARIABLES
  kind,        \* what the item is: "content" or "template"
  item,        \* the item's row, or NoRow
  stamps,      \* number of publication times taken so far
  revs,        \* revs[r]: revision r, or NoRow
  made,        \* number of revisions ever inserted: ids are given in order
  ed,          \* ed[e]: where request e is, and what it holds in memory
  jobs,        \* the goroutines under way: the revision, the title they hold
  begun,       \* number of requests begun so far
  had,         \* history: the states the item has had
  lost,        \* history: the states replaced, and whether knowingly: by a request
               \* that had read the state and could store its revision
  given,       \* history: given[r], the titles users gave revision r: the one
               \* saved with it, and the last one
  blank        \* history: the revisions whose goroutine got a blank title from the
               \* AI, or could not store the one it had

rowVars == <<item, stamps, revs, made>>
hist == <<had, lost, given, blank>>
vars == <<kind, rowVars, ed, jobs, begun, hist>>

Idle == [pc |-> "idle"]

\* base is the row as it was read, to the state to be saved, title what the new
\* revision is to be called; by tells a save from a restore.
Request ==
  [pc : {"idle"}]
    \cup [pc : {"snapshot"}, by : {"update", "restore"}, base : ItemRow,
          to : State, title : Title]
    \cup [pc : {"write"}, by : {"update", "restore"}, base : ItemRow,
          to : State, title : Title, rev : RevId \cup {NoRow}]
    \cup [pc : {"rename"}, rev : RevId, title : UserTitle, log : BOOLEAN]

GivenTitle == UserTitle \cup {NoTitle}
Job == [rev : RevId, title : GivenTitle]
Given == [saved : GivenTitle, last : GivenTitle]
GivenBoth(title) == [saved |-> title, last |-> title]

Init ==
  /\ kind \in {"content", "template"}
  /\ item = NoRow
  /\ stamps = 0
  /\ revs = [r \in RevId |-> NoRow]
  /\ made = 0
  /\ ed = [e \in Editors |-> Idle]
  /\ jobs = {}
  /\ begun = 0
  /\ had = {} /\ lost = {}
  /\ given = [r \in RevId |-> GivenBoth(NoTitle)]
  /\ blank = {}

Begin(e) ==
  /\ ed[e] = Idle
  /\ begun < MaxRequests
  /\ begun' = begun + 1
  /\ UNCHANGED kind

Continue(e, x) == ed' = [ed EXCEPT ![e] = x]

-----------------------------------------------------------------------------
\* published_at as Create and Update send it: a new time if the item is to be
\* published and the copy in memory has none.
Stamped(state, publishedAt) ==
  IF state.status = "published" /\ publishedAt = 0 THEN stamps + 1 ELSE publishedAt

\* The one INSERT that gives the item its id.
Created(state) ==
  /\ had = {}
  /\ item' = [state |-> state, publishedAt |-> Stamped(state, 0)]
  /\ stamps' = Stamped(state, 0)
  /\ had' = {state}
  /\ UNCHANGED <<kind, revs, made, ed, jobs, begun, lost, given, blank>>

ContentCreate(state) == kind = "content" /\ state \in ContentState /\ Created(state)
TemplateCreate(state) == kind = "template" /\ state \in TemplateState /\ Created(state)

\* A save up to the INSERT of the revision: the row is read and the form applied
\* to the copy; the old values are kept for the revision.
UpdateRead(e, to, title) ==
  /\ Begin(e)
  /\ item # NoRow
  /\ Continue(e, [pc |-> "snapshot", by |-> "update", base |-> item,
                  to |-> to, title |-> title])
  /\ UNCHANGED <<rowVars, jobs, hist>>

UpdateContent(e, to, title) ==
  kind = "content" /\ to \in ContentState /\ UpdateRead(e, to, title)
TemplateUpdate(e, to, title) ==
  kind = "template" /\ to \in TemplateState /\ UpdateRead(e, to, title)

\* A restore up to the INSERT: the revision's fields, which never change, and the
\* row are read.
RestoreRead(e, r) ==
  /\ Begin(e)
  /\ revs[r] # NoRow /\ item # NoRow
  /\ Continue(e, [pc |-> "snapshot", by |-> "restore", base |-> item,
                  to |-> revs[r].snap, title |-> BeforeRestore])
  /\ UNCHANGED <<rowVars, jobs, hist>>

RevisionRestore(e, r) == kind = "content" /\ RestoreRead(e, r)
TemplateRevisionRestore(e, r) == kind = "template" /\ RestoreRead(e, r)

Writing(e, r) ==
  [pc |-> "write", by |-> ed[e].by, base |-> ed[e].base, to |-> ed[e].to,
   title |-> ed[e].title, rev |-> r]

InsertRevision(e, snap) ==
  /\ ed[e].pc = "snapshot" /\ item # NoRow
  /\ made' = made + 1
  /\ revs' = [revs EXCEPT ![made'] = [snap |-> snap, title |-> ed[e].title,
                                      log |-> ed[e].by = "restore"]]
  /\ given' = [given EXCEPT ![made'] =
                 GivenBoth(IF ed[e].by = "update" THEN ed[e].title ELSE NoTitle)]
  /\ Continue(e, Writing(e, made'))
  /\ UNCHANGED <<kind, item, stamps, begun, had, lost, blank>>

\* A variant that breaks SnapshotsAreHistory: the form has already been applied.
SnapshotTooLate(e) ==
  kind = "content" /\ InsertRevision(e, ed[e].to) /\ UNCHANGED jobs

\* RevisionStore.Create, of the state that was read.
Snapshot(e) ==
  kind = "content" /\ InsertRevision(e, ed[e].base.state) /\ UNCHANGED jobs

\* A variant that breaks KnownStatesKept: the form has already been applied.
TemplateSnapshotTooLate(e) ==
  /\ kind = "template"
  /\ InsertRevision(e, ed[e].to)
  /\ UNCHANGED jobs

\* TemplateRevisionStore.Create.  A save's goroutine starts at once, before the
\* UPDATE and whether or not that succeeds.
TemplateSnapshot(e) ==
  /\ kind = "template"
  /\ InsertRevision(e, ed[e].base.state)
  /\ jobs' = IF ed[e].by = "update"
             THEN jobs \cup {[rev |-> made', title |-> ed[e].title]} ELSE jobs

\* The INSERT fails, always so if the item is gone (foreign key): this
\* is only logged and the request goes on without a revision.
SnapshotFails(e) ==
  /\ ed[e].pc = "snapshot"
  /\ Continue(e, Writing(e, NoRow))
  /\ UNCHANGED <<kind, rowVars, jobs, begun, hist>>

\* The UPDATE with the copy in memory; after it a save of content, not a restore,
\* starts its goroutine.  If the item is gone the UPDATE matches nothing, which
\* nobody notices.
Write(e) ==
  LET x == ed[e]
      at == Stamped(x.to, x.base.publishedAt) IN
  /\ x.pc = "write"
  /\ IF item = NoRow THEN UNCHANGED <<item, had, lost>>
     ELSE /\ item' = [state |-> x.to, publishedAt |-> at]
          /\ had' = had \cup {x.to}
          /\ lost' = lost \cup {[state |-> item.state, known |-> x.base.state = item.state /\ x.rev # NoRow]}
  /\ stamps' = IF at > stamps THEN at ELSE stamps
  /\ jobs' = IF kind = "content" /\ x.by = "update" /\ x.rev # NoRow
             THEN jobs \cup {[rev |-> x.rev, title |-> x.title]} ELSE jobs
  /\ Continue(e, Idle)
  /\ UNCHANGED <<kind, revs, made, begun, given, blank>>

\* The UPDATE fails (the slug of a content item may exist already): the revision
\* stays.
WriteFails(e) ==
  /\ ed[e].pc = "write"
  /\ Continue(e, Idle)
  /\ UNCHANGED <<kind, rowVars, jobs, begun, hist>>

\* A variant that breaks TypeOK: no cascade.
DeletedLeavingRevisions(e) ==
  /\ Begin(e)
  /\ item # NoRow
  /\ item' = NoRow
  /\ UNCHANGED <<revs, stamps, made, ed, jobs, hist>>

\* The row and, by cascade, its revisions.
Deleted(e) ==
  /\ Begin(e)
  /\ item # NoRow
  /\ item' = NoRow
  /\ revs' = [r \in RevId |-> NoRow]
  /\ UNCHANGED <<stamps, made, ed, jobs, hist>>

\* deleteContent.
ContentDelete(e) == kind = "content" /\ Deleted(e)

\* An active template is not deleted.
TemplateDelete(e) == kind = "template" /\ Deleted(e)

\* RevisionStore.UpdateMeta; a revision that is gone is not matched.
UpdateMeta(r, title, log) ==
  revs' = IF revs[r] = NoRow THEN revs
          ELSE [revs EXCEPT ![r] = [snap |-> @.snap, title |-> title, log |-> log]]

\* A rename reads the revision, for the changelog it is to keep ...
RenameRead(e, r, title) ==
  /\ Begin(e)
  /\ revs[r] # NoRow
  /\ Continue(e, [pc |-> "rename", rev |-> r, title |-> title, log |-> revs[r].log])
  /\ UNCHANGED <<rowVars, jobs, hist>>

RevisionUpdateTitle(e, r, title) == kind = "content" /\ RenameRead(e, r, title)
TemplateRevisionUpdateTitle(e, r, title) == kind = "template" /\ RenameRead(e, r, title)

\* ... and writes both back.
RenameWrite(e) ==
  /\ ed[e].pc = "rename"
  /\ UpdateMeta(ed[e].rev, ed[e].title, ed[e].log)
  /\ given' = [given EXCEPT ![ed[e].rev].last = ed[e].title]
  /\ Continue(e, Idle)
  /\ UNCHANGED <<kind, item, stamps, made, jobs, begun, had, lost, blank>>

\* A variant that breaks SavesGetTitled: without an answer from the AI it gives up.
GenerateMetaGivesUp(j) ==
  /\ j \in jobs
  /\ jobs' = jobs \ {j}
  /\ UNCHANGED <<kind, rowVars, ed, begun, hist>>

\* A variant that breaks TitlesExplained: the title is always the AI's, and the goroutine
\* goes on.
GenerateMetaGuesses(j) ==
  /\ j \in jobs
  /\ UpdateMeta(j.rev, AITitle, TRUE)
  /\ UNCHANGED <<kind, item, stamps, made, ed, jobs, begun, hist>>

\* What the goroutine may call a revision: as the save did or, if it gave no name,
\* as the AI does, whose answer is trimmed and may then be nothing.
Answers(title) == IF title = NoTitle THEN {AITitle, NoTitle} ELSE {title}

\* The goroutine, once the AI has answered or failed: for an answer that fails there
\* is a title and a changelog at hand, for a blank one there is not.  The UPDATE may
\* fail, which is only logged.
GenerateMeta(j) ==
  /\ j \in jobs
  /\ jobs' = jobs \ {j}
  /\ \/ \E title \in Answers(j.title) :
          /\ UpdateMeta(j.rev, title, TRUE)
          /\ blank' = IF title = NoTitle THEN blank \cup {j.rev} ELSE blank
     \/ UNCHANGED revs /\ blank' = blank \cup {j.rev}
  /\ UNCHANGED <<kind, item, stamps, made, ed, begun, had, lost, given>>

GenerateRevisionMeta(j) == kind = "content" /\ GenerateMeta(j)
GenerateTemplateRevisionMeta(j) == kind = "template" /\ GenerateMeta(j)

-----------------------------------------------------------------------------
EditorStep(e) ==
  \/ Snapshot(e) \/ TemplateSnapshot(e) \/ SnapshotFails(e)
  \/ Write(e) \/ WriteFails(e) \/ RenameWrite(e)

EditorBegin(e) ==
  \/ \E to \in State, title \in SaveTitle \cup {NoTitle} :
       UpdateContent(e, to, title) \/ TemplateUpdate(e, to, title)
  \/ \E r \in RevId : RevisionRestore(e, r) \/ TemplateRevisionRestore(e, r)
  \/ \E r \in RevId, title \in NewTitle :
       RevisionUpdateTitle(e, r, title) \/ TemplateRevisionUpdateTitle(e, r, title)
  \/ ContentDelete(e) \/ TemplateDelete(e)

TitleGenerated(r) ==
  \E j \in jobs : j.rev = r /\ (GenerateRevisionMeta(j) \/ GenerateTemplateRevisionMeta(j))

Next ==
  \/ \E state \in State : ContentCreate(state) \/ TemplateCreate(state)
  \/ \E e \in Editors : EditorBegin(e) \/ EditorStep(e)
  \/ \E r \in RevId : TitleGenerated(r)

Spec == Init /\ [][Next]_vars

\* A running process finishes its goroutines, at most one to a revision: the calls
\* to the AI provider are bounded by its client's timeout.  Requests need not end.
FairSpec ==
  /\ Spec
  /\ \A r \in RevId : WF_vars(TitleGenerated(r))

-----------------------------------------------------------------------------
\* Types; and every revision belongs to an item that exists.
TypeOK ==
  /\ kind \in {"content", "template"}
  /\ item \in ItemRow \cup {NoRow}
  /\ stamps \in Nat /\ made \in 0..MaxRequests /\ begun \in 0..MaxRequests
  /\ revs \in [RevId -> Revision \cup {NoRow}]
  /\ ed \in [Editors -> Request]
  /\ jobs \subseteq Job
  /\ had \subseteq State
  /\ lost \subseteq [state : State, known : BOOLEAN]
  /\ given \in [RevId -> Given]
  /\ blank \subseteq RevId
  /\ item = NoRow => \A r \in RevId : revs[r] = NoRow

\* A revision holds a state the item really had, never one that was only typed
\* into a form or rejected (admin.go:428 "Capture the old state BEFORE applying
\* form values", admin.go:1046 "Capture old state before applying updates").
SnapshotsAreHistory ==
  \A r \in RevId : revs[r] # NoRow => revs[r].snap \in had

Recorded(state) == \E r \in RevId : revs[r] # NoRow /\ revs[r].snap = state

\* A state that a save or a restore knowingly replaced can be restored as long as
\* the item exists, whatever other requests were under way; only a state written
\* between a request's reading and its UPDATE can be lost.
KnownStatesKept ==
  item # NoRow => \A l \in lost : l.known => Recorded(l.state)

\* Does not hold: of two overlapping saves the second replaces what the first one
\* wrote, and no revision has it.
\* Every state the item is no longer in can be restored (models/content.go:63-64,
\* models/template.go:38-39).
NothingLost ==
  item # NoRow => \A l \in lost : Recorded(l.state)

\* A revision never shows another revision's title, nor one made up for a save
\* that had a title: if it is not the last title a user gave it, its own goroutine
\* has ended and put back the title of the save, or the AI's or none where the save
\* had none; or it is a restore's (the two handlers of renames, the two of restores
\* and the two goroutines).  So a rename is lost to that one goroutine only.
TitlesExplained ==
  \A r \in RevId : revs[r] # NoRow /\ revs[r].title # given[r].last =>
    \/ revs[r].title = BeforeRestore /\ given[r].last = NoTitle
    \/ revs[r].title \in Answers(given[r].saved) /\ \A j \in jobs : j.rev # r

\* Once its goroutine has started, the revision of a save gets a title, also if the
\* calls to the AI provider fail.  It stays without one only if it is deleted with
\* the item, if the AI's title is blank, or if the goroutine's UPDATE fails: in
\* these two cases nothing tries again (generateRevisionMeta and
\* generateTemplateRevisionMeta).
SavesGetTitled ==
  \A r \in RevId :
    (\E j \in jobs : j.rev = r)
      ~> (revs[r] = NoRow \/ revs[r].title # NoTitle \/ r \in blank)
=============================================================================

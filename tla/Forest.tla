------------------------------- MODULE Forest -------------------------------
(***************************************************************************)
(* The two tree managers of the admin: categories (store/category.go,      *)
(* handlers/admin.go) and menu items (store/menu.go,                       *)
(* handlers/admin_menu.go).  Both keep a tree in one table, a row naming   *)
(* its parent and its place among its siblings; they differ in what a      *)
(* deletion does to the children.  A page shows the tree, lets the admin   *)
(* drag its nodes about, and saves the order it shows in one transaction,  *)
(* row by row; the page of another admin, or another tab, may do the same. *)
(*                                                                         *)
(* A forest is a function from its nodes to rows.  The numbers of the      *)
(* nodes stand for their names, which break ties between places.           *)
(***************************************************************************)
EXTENDS Integers, FiniteSets

CONSTANTS
  MaxNode,     \* ids of nodes are the numbers from 1
  Pages,       \* open manager pages, each in an admin's tab
  Dragged,     \* those where something was dragged before the behaviour
  Starts,      \* the forests the table may hold at first
  MaxRequests, \* bound: the requests of a behaviour
  MaxDrags     \* bound: how often an admin rearranges what a page shows

Nodes == 1 .. MaxNode
Root == 0          \* parent_id IS NULL
Row == [parent : Nodes \cup {Root}, order : Nat]
IsForest(f) == DOMAIN f \subseteq Nodes /\ f \in [DOMAIN f -> Row]

VARIABLES
  manager,  \* "categories" or "menu"
  rows,     \* the table
  spare,    \* ids no row has had yet
  page,     \* page[a]: the tree the page shows, places counted from 0
  dirty,    \* dirty[a]: the page says its order is not saved
  req,      \* req[a]: what the server does for the page
  asked,    \* how many requests were made
  drags,    \* how many drags
  sure,     \* history: since it loaded, page a saw no failed save, no drag
            \* during a save and no change by another page
  undone    \* history: a rename wrote a parent back that had been changed

vars == <<manager, rows, spare, page, dirty, req, asked, drags, sure,
          undone>>

-----------------------------------------------------------------------------
(* Trees *)

\* The nodes of S have no way to the root: the parent of each is in S.
Detached(f, S) == S \subseteq DOMAIN f /\ \A n \in S : f[n].parent \in S

Rooted(f) == \A S \in SUBSET DOMAIN f : Detached(f, S) => S = {}

ParentsExist(f) == \A n \in DOMAIN f : f[n].parent \in DOMAIN f \cup {Root}

\* buildTree starts at the root and never meets the others.
ShownNodes(f) ==
  DOMAIN f \ UNION {S \in SUBSET DOMAIN f : Detached(f, S)}

\* What a table holds grew from nothing.
ASSUME ForestAssumption ==
  /\ MaxNode \in Nat /\ MaxRequests \in Nat /\ MaxDrags \in Nat
  /\ Dragged \subseteq Pages
  /\ \A f \in Starts : IsForest(f) /\ Rooted(f) /\ ParentsExist(f)

Children(f, p) == {n \in DOMAIN f : f[n].parent = p}

\* ORDER BY sort_order, name
Precedes(f, m, n) ==
  f[m].order < f[n].order \/ (f[m].order = f[n].order /\ m < n)

\* The place of a node on the page: its index among its siblings.
Place(f, n) ==
  Cardinality({m \in Children(f, f[n].parent) : Precedes(f, m, n)})

\* The tree a page shows of the rows f, and the order it would save.
Tree(f) ==
  [n \in ShownNodes(f) |-> [parent |-> f[n].parent, order |-> Place(f, n)]]

\* What a page of these nodes can be dragged into.  A node cannot be dropped
\* below itself.
Arrangements ==
  [S \in SUBSET Nodes |->
     {f \in [S -> [parent : S \cup {Root}, order : 0 .. Cardinality(S)]] :
        Rooted(f) /\ \A n \in S : f[n].order = Place(f, n)}]

\* n, its parent, and so on.
Line(f, n) ==
  {m \in DOMAIN f :
     \A S \in SUBSET DOMAIN f :
       (n \in S /\ \A k \in S : f[k].parent \in S \cup {Root}) => m \in S}

\* n, its children, and so on.
Below(f, n) == {m \in DOMAIN f : n \in Line(f, m)}

\* collectOrder walks the tree depth first.
SentBefore(f, m, n) ==
  \/ m # n /\ m \in Line(f, n)
  \/ \E x \in Line(f, m), y \in Line(f, n) :
        f[x].parent = f[y].parent /\ f[x].order < f[y].order

\* A variant that breaks NewcomersComeLast: the new place is the number of
\* siblings.
NextSortOrderCounted(f, p) == Cardinality(Children(f, p))

\* A variant that breaks TypeOK: the greatest place, or none, as it is.
NextSortOrderUnadded(f, p) ==
  LET taken == {f[n].order : n \in Children(f, p)} IN
  IF taken = {} THEN -1 ELSE CHOOSE k \in taken : \A j \in taken : j <= k

NextSortOrder(f, p) ==
  LET taken == {f[n].order : n \in Children(f, p)} IN
  IF taken = {} THEN 0
  ELSE 1 + CHOOSE k \in taken : \A j \in taken : j <= k

-----------------------------------------------------------------------------
(* Requests and the row locks they hold *)

\* op is the request's next step: held are the rows its transaction has
\* locked, kept those it has locked against deletion as parents of others,
\* todo the nodes of tree it has still to write.
Request(op, n, row, tree, todo, held, kept) ==
  [op |-> op, node |-> n, row |-> row, tree |-> tree,
   todo |-> todo, held |-> held, kept |-> kept]

NoTree == [n \in {} |-> [parent |-> Root, order |-> 0]]
RootRow == [parent |-> Root, order |-> 0]
Idle == Request("idle", Root, RootRow, NoTree, {}, {}, {})
Reload == Request("reload", Root, RootRow, NoTree, {}, {}, {})
Others(a) == Pages \ {a}

Holders(a, S) == {b \in Others(a) : req[b].held \cap S # {}}
Keepers(a, S) == {b \in Others(a) : req[b].kept \cap S # {}}
Deleters(a, S) == {b \in Holders(a, S) : req[b].op = "delete"}

\* The rows a deletion of n changes beside its own.
Touched(n) ==
  IF manager = "categories" THEN Children(rows, n) \ {n}
  ELSE Below(rows, n) \ {n}

\* The new parent that the foreign key of node n looks up, if any.
NewParent(n, row) ==
  IF n \in DOMAIN rows /\ rows[n].parent = row.parent THEN {}
  ELSE {row.parent} \ {Root}

\* The node a reorder writes next: of those left, none is sent before it.
NextSent(a) ==
  {n \in req[a].todo : \A m \in req[a].todo : ~SentBefore(req[a].tree, m, n)}

\* The requests whose locks the next statement of page a waits for.
Waits(a) ==
  LET r == req[a] IN
  CASE r.op = "insert" -> Deleters(a, {r.row.parent})
    [] r.op = "update" ->
         IF r.node \notin DOMAIN rows THEN {}
         ELSE Holders(a, {r.node}) \cup Deleters(a, NewParent(r.node, r.row))
    [] r.op = "delete" ->
         Holders(a, Touched(r.node))
           \cup IF manager = "menu" THEN Keepers(a, Touched(r.node)) ELSE {}
    [] r.op = "reorder" ->
         UNION {Holders(a, {n}) \cup Deleters(a, NewParent(n, r.tree[n])) :
                  n \in NextSent(a) \cap DOMAIN rows}
    [] OTHER -> {}

\* Postgres aborts one of the transactions that wait for each other.
Deadlocked(a) ==
  \E S \in SUBSET Pages :
     a \in S /\ \A b \in S : Waits(b) \cap S # {}

-----------------------------------------------------------------------------
(* The steps *)

Init ==
  /\ manager \in {"categories", "menu"}
  /\ rows \in Starts
  /\ spare = Nodes \ DOMAIN rows
  /\ page \in [Pages -> Arrangements[DOMAIN rows]]
  /\ \A a \in Pages \ Dragged : page[a] = Tree(rows)
  /\ dirty = [a \in Pages |-> a \in Dragged]
  /\ req = [a \in Pages |-> Idle]
  /\ asked = 0 /\ drags = 0
  /\ sure = [a \in Pages |-> TRUE]
  /\ undone = FALSE

\* The page opens, or loads again after a request that went well: what was
\* dragged and not saved is forgotten.
Load(a) ==
  /\ req[a].op \in {"idle", "reload"}
  /\ page' = [page EXCEPT ![a] = Tree(rows)]
  /\ dirty' = [dirty EXCEPT ![a] = FALSE]
  /\ sure' = [sure EXCEPT ![a] = TRUE]
  /\ req' = [req EXCEPT ![a] = Idle]
  /\ UNCHANGED <<manager, rows, spare, asked, drags, undone>>

\* The admin drags nodes about, also while a save is under way.  (A drag
\* during another request is forgotten when the page loads again.)
Drag(a) ==
  /\ req[a].op \in {"idle", "reorder"}
  /\ drags < MaxDrags /\ drags' = drags + 1
  /\ page' \in {[page EXCEPT ![a] = f] : f \in Arrangements[DOMAIN page[a]]}
  /\ page' # page
  /\ dirty' = [dirty EXCEPT ![a] = TRUE]
  /\ sure' = [sure EXCEPT ![a] = @ /\ req[a].op # "reorder"]
  /\ UNCHANGED <<manager, rows, spare, req, asked, undone>>

Ask(a, r) ==
  /\ req[a].op = "idle" /\ asked < MaxRequests
  /\ req' = [req EXCEPT ![a] = r]
  /\ asked' = asked + 1
  /\ UNCHANGED <<manager, rows, page, dirty, drags, sure, undone>>

\* A statement or transaction commits: the other pages no longer show it all.
Commit(a, r, f) ==
  /\ rows' = f
  /\ req' = [req EXCEPT ![a] = r]
  /\ sure' = [b \in Pages |-> sure[b] /\ (b = a \/ f = rows)]
  /\ UNCHANGED <<manager, spare, page, asked, drags>>

\* CategoryCreate and MenuItemCreate read the next place, then insert.  The
\* menu's page never names a parent.
CreateBegin(a, p) ==
  \E n \in spare :
    /\ p \in ShownNodes(page[a]) \cup {Root}
    /\ manager = "menu" => p = Root
    /\ Ask(a, Request("insert", n,
                      [parent |-> p, order |-> NextSortOrder(rows, p)],
                      NoTree, {}, {}, {}))
    /\ spare' = spare \ {n}

Inserted(n, row) ==
  [m \in DOMAIN rows \cup {n} |-> IF m = n THEN row ELSE rows[m]]

Insert(a) ==
  /\ req[a].op = "insert" /\ Waits(a) = {}
  /\ req[a].row.parent \in DOMAIN rows \cup {Root}
  /\ Commit(a, Reload, Inserted(req[a].node, req[a].row))
  /\ UNCHANGED <<dirty, undone>>

\* CategoryUpdate and MenuItemUpdate read the row, set the fields of the form
\* on the copy, and write all of it back, its parent and place included.
UpdateFind(a, n) ==
  /\ n \in DOMAIN page[a] \cap DOMAIN rows
  /\ Ask(a, Request("update", n, rows[n], NoTree, {}, {}, {}))
  /\ UNCHANGED spare

Written(n, row) == IF n \in DOMAIN rows THEN [rows EXCEPT ![n] = row] ELSE rows

Update(a) ==
  LET n == req[a].node IN
  /\ req[a].op = "update" /\ Waits(a) = {}
  /\ n \in DOMAIN rows => NewParent(n, req[a].row) \subseteq DOMAIN rows
  /\ Commit(a, Reload, Written(n, req[a].row))
  /\ undone' = (undone \/ (n \in DOMAIN rows
                            /\ rows[n].parent # req[a].row.parent))
  /\ UNCHANGED dirty

\* DELETE locks the row, then takes its children along: their parent becomes
\* NULL, or they are deleted with all below them.
DeleteLock(a, n) ==
  /\ n \in DOMAIN page[a] \cap DOMAIN rows
  /\ Holders(a, {n}) \cup Keepers(a, {n}) = {}
  /\ Ask(a, Request("delete", n, RootRow, NoTree, {}, {n}, {}))
  /\ UNCHANGED spare

WithoutNode(n) ==
  IF manager = "categories"
  THEN [m \in DOMAIN rows \ {n} |->
          IF rows[m].parent = n THEN [rows[m] EXCEPT !.parent = Root]
          ELSE rows[m]]
  ELSE [m \in DOMAIN rows \ (Touched(n) \cup {n}) |-> rows[m]]

Delete(a) ==
  /\ req[a].op = "delete" /\ Waits(a) = {}
  /\ Commit(a, Reload, WithoutNode(req[a].node))
  /\ UNCHANGED <<dirty, undone>>

\* A variant that breaks NodesReachable: rows that already have the parent
\* shown are left out.
SaveBeginMoved(a) ==
  LET moved == {n \in DOMAIN page[a] \cap DOMAIN rows :
                  page[a][n].parent # rows[n].parent} IN
  /\ dirty[a]
  /\ Ask(a, Request("reorder", Root, RootRow, page[a], moved, {}, {}))
  /\ UNCHANGED spare

\* The Save order button, shown when something was dragged: the page sends
\* the whole tree it shows.
SaveBegin(a) ==
  /\ dirty[a]
  /\ Ask(a, Request("reorder", Root, RootRow, page[a], DOMAIN page[a], {}, {}))
  /\ UNCHANGED spare

\* One UPDATE of the transaction.  A row that is gone is no error.
SaveRow(a) ==
  LET r == req[a] IN
  /\ r.op = "reorder" /\ Waits(a) = {}
  /\ \E n \in NextSent(a) :
       /\ n \in DOMAIN rows => NewParent(n, r.tree[n]) \subseteq DOMAIN rows
       /\ req' = [req EXCEPT
            ![a] = Request("reorder", Root, RootRow, r.tree, r.todo \ {n},
                           r.held \cup ({n} \cap DOMAIN rows),
                           IF n \in DOMAIN rows
                           THEN r.kept \cup NewParent(n, r.tree[n]) ELSE r.kept)]
  /\ UNCHANGED <<manager, rows, spare, page, dirty, asked, drags, sure, undone>>

\* A variant that breaks SavedMeansShown: only the places are written.
RearrangedFlat(r) ==
  [n \in DOMAIN rows |->
     IF n \in r.held THEN [rows[n] EXCEPT !.order = r.tree[n].order]
     ELSE rows[n]]

Rearranged(r) ==
  [n \in DOMAIN rows |-> IF n \in r.held THEN r.tree[n] ELSE rows[n]]

SaveCommit(a) ==
  /\ req[a].op = "reorder" /\ req[a].todo = {}
  /\ Commit(a, Idle, Rearranged(req[a]))
  /\ dirty' = [dirty EXCEPT ![a] = FALSE]
  /\ UNCHANGED undone

\* A variant that breaks RequestsEnd: the transaction is not rolled back.
FailedHolding(a) ==
  /\ req' = [req EXCEPT ![a] = [Idle EXCEPT !.held = req[a].held,
                                           !.kept = req[a].kept]]
  /\ dirty' = [dirty EXCEPT ![a] = @ /\ req[a].op # "reorder"]
  /\ sure' = [sure EXCEPT ![a] = @ /\ req[a].op # "reorder"]
  /\ UNCHANGED <<manager, rows, spare, page, asked, drags, undone>>

\* The request fails and its transaction is rolled back.  saveOrder does not
\* look at the answer: the page says saved.
Failed(a) ==
  /\ req' = [req EXCEPT ![a] = Idle]
  /\ dirty' = [dirty EXCEPT ![a] = @ /\ req[a].op # "reorder"]
  /\ sure' = [sure EXCEPT ![a] = @ /\ req[a].op # "reorder"]
  /\ UNCHANGED <<manager, rows, spare, page, asked, drags, undone>>

\* The foreign key finds no parent.
ParentGone(a) ==
  LET r == req[a] IN
  /\ \/ r.op = "insert" /\ r.row.parent \notin DOMAIN rows \cup {Root}
     \/ /\ r.op = "update" /\ r.node \in DOMAIN rows
        /\ ~(NewParent(r.node, r.row) \subseteq DOMAIN rows)
     \/ /\ r.op = "reorder"
        /\ \E n \in NextSent(a) \cap DOMAIN rows :
             ~(NewParent(n, r.tree[n]) \subseteq DOMAIN rows)
  /\ Waits(a) = {}
  /\ Failed(a)

DeadlockVictim(a) == req[a].held # {} /\ Deadlocked(a) /\ Failed(a)

Serve(a) ==
  \/ Insert(a) \/ Update(a) \/ Delete(a)
  \/ SaveRow(a) \/ SaveCommit(a) \/ ParentGone(a)

Next ==
  \E a \in Pages :
    \/ Load(a) \/ Drag(a) \/ SaveBegin(a)
    \/ \E p \in Nodes \cup {Root} : CreateBegin(a, p)
    \/ \E n \in Nodes : UpdateFind(a, n) \/ DeleteLock(a, n)
    \/ Serve(a) \/ DeadlockVictim(a)

Spec == Init /\ [][Next]_vars

\* The server goes on with a request, Postgres aborts it when it has waited
\* for a lock in vain, and the page loads again after it.
Fairness ==
  \A a \in Pages :
    WF_vars(Serve(a) \/ DeadlockVictim(a)
            \/ (req[a].op = "reload" /\ Load(a)))

FairSpec == Spec /\ Fairness

-----------------------------------------------------------------------------
(* Properties *)

Ops == {"idle", "reload", "insert", "update", "delete", "reorder"}

RequestsFor(tree) ==
  [op : Ops, node : Nodes \cup {Root}, row : Row, tree : {tree},
   todo : SUBSET Nodes, held : SUBSET Nodes, kept : SUBSET Nodes]

TypeOK ==
  /\ manager \in {"categories", "menu"}
  /\ IsForest(rows)
  /\ spare \subseteq Nodes \ DOMAIN rows
  /\ DOMAIN page = Pages /\ \A a \in Pages : IsForest(page[a])
  /\ dirty \in [Pages -> BOOLEAN]
  /\ DOMAIN req = Pages
  /\ \A a \in Pages : IsForest(req[a].tree) /\ req[a] \in RequestsFor(req[a].tree)
  /\ asked \in 0 .. MaxRequests /\ drags \in 0 .. MaxDrags
  /\ sure \in [Pages -> BOOLEAN]
  /\ undone \in BOOLEAN

\* Every node can be reached from the root, so that the manager shows it and
\* the admin can repair or delete it, unless a rename wrote back a parent
\* that a reorder had changed since the rename read it (category.go:160,
\* menu.go:191).  No pair of saves from stale pages makes a cycle, whatever
\* was created, deleted and moved in between.
NodesReachable == undone \/ Rooted(rows)

\* A page that says its order is saved shows what is stored, unless another
\* page changed the tree since it loaded, a save failed, or something was
\* dragged while a save was on its way (categories.html:258-277).
SavedMeansShown ==
  \A a \in Pages :
    sure[a] /\ ~dirty[a] /\ req[a].op = "idle" => page[a] = Tree(rows)

\* A new node comes after its siblings, unless another page changed the tree
\* since the page that asks for it loaded (category.go:215, menu.go:252).
NewcomersComeLast ==
  [][\A a \in Pages :
        req[a].op = "insert" /\ req'[a].op = "reload" /\ sure[a] =>
          \A m \in Children(rows, req[a].row.parent) :
             rows[m].order < req[a].row.order]_vars

\* Every request is answered: what waits for a lock gets it or is aborted.
RequestsEnd == \A a \in Pages : req[a].op # "idle" ~> req[a].op = "idle"
=============================================================================

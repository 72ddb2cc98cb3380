---------------------------- MODULE ForestProofs ----------------------------
(***************************************************************************)
(* Proofs about Forest, for any number of nodes, pages and requests: the   *)
(* foreign key on parent_id holds, no saved order and no deletion makes a  *)
(* cycle, a page that says it is saved shows what is stored, and new nodes *)
(* come last.                                                              *)
(*                                                                         *)
(* The argument.  A reorder's UPDATEs take effect together when it         *)
(* commits, each computed from the tree its page sent.  Until then the     *)
(* locks it holds (LocksApart, Locked) keep the rows it has written and    *)
(* the parents it has given them (ParentsSecured), and ids are not used    *)
(* twice (Unused), so that at the commit what it writes is its tree,       *)
(* restricted to the rows that are left: a set of rows detached from the   *)
(* root after the commit would be detached in the tree, or in the table    *)
(* before.                                                                 *)
(***************************************************************************)
EXTENDS Forest, FiniteSetTheorems, WellFoundedInduction, TLAPS

\* Ids that no row has had and no page has seen.
Unborn == spare \cup {req[a].node : a \in {b \in Pages : req[b].op = "insert"}}

Unused ==
  /\ Unborn \cap DOMAIN rows = {}
  /\ \A a \in Pages : Unborn \cap (DOMAIN page[a] \cup DOMAIN req[a].tree) = {}
  /\ \A a \in Pages : req[a].op = "insert" => req[a].node \in Nodes \ spare
  /\ \A a, b \in Pages :
       req[a].op = "insert" /\ req[b].op = "insert" /\ a # b => req[a].node # req[b].node

\* What was dragged, and what is being saved, are trees.
IsTree(f) == f \in Arrangements[DOMAIN f]

PagesFit ==
  \A a \in Pages :
    /\ dirty[a] => IsTree(page[a])
    /\ req[a].op = "reorder" => IsTree(req[a].tree)

\* Locks are on rows that are there, and held by the requests that take them.
Locked ==
  \A a \in Pages :
    /\ req[a].held \cup req[a].kept \subseteq DOMAIN rows
    /\ req[a].held # {} => req[a].op \in {"reorder", "delete"}
    /\ req[a].kept # {} => req[a].op = "reorder"
    /\ req[a].op = "delete" => req[a].held = {req[a].node}

LocksApart ==
  \A a, b \in Pages : a # b =>
    /\ req[a].held \cap req[b].held = {}
    /\ req[b].op = "delete" => req[a].kept \cap req[b].held = {}

\* A reorder has written the rows of its tree that it found and is done with, and
\* no others.
Progress ==
  \A a \in Pages : req[a].op = "reorder" =>
    /\ req[a].held \cup req[a].todo \subseteq DOMAIN req[a].tree
    /\ (DOMAIN req[a].tree \ req[a].todo) \cap DOMAIN rows \subseteq req[a].held

\* The parent given to a row is locked, or it is the one the row has.
ParentsSecured ==
  \A a \in Pages : req[a].op = "reorder" =>
    \A n \in req[a].held :
      LET p == req[a].tree[n].parent IN
      p \in req[a].kept \cup {Root, rows[n].parent}

ForeignKey == ParentsExist(rows)

\* What a page knows of the table as long as no other page changes it.
Informed ==
  \A a \in Pages : sure[a] /\ req[a].op # "reload" =>
    /\ DOMAIN page[a] = ShownNodes(rows)
    /\ ~dirty[a] => page[a] = Tree(rows)
    /\ req[a].op = "reorder" => page[a] = req[a].tree
    /\ req[a].op = "insert" =>
         \A m \in Children(rows, req[a].row.parent) : rows[m].order < req[a].row.order

IInv ==
  /\ TypeOK /\ Unused /\ PagesFit /\ Locked /\ LocksApart /\ Progress
  /\ ParentsSecured /\ ForeignKey /\ NodesReachable /\ Informed

-----------------------------------------------------------------------------
(* Trees *)

LEMMA RootApart == Root \notin Nodes /\ IsFiniteSet(Nodes)
BY FS_Interval, ForestAssumption DEF Root, Nodes

LEMMA RowFacts ==
  ASSUME NEW f, IsForest(f), NEW n \in DOMAIN f
  PROVE  /\ n \in Nodes /\ f[n] \in Row
         /\ f[n].parent \in Nodes \cup {Root} /\ f[n].order \in Nat
BY DEF IsForest, Row

LEMMA PlaceType ==
  ASSUME NEW f, IsForest(f), NEW n
  PROVE  Place(f, n) \in Nat
<1>1. {m \in Children(f, f[n].parent) : Precedes(f, m, n)} \subseteq Nodes
  BY DEF Children, IsForest
<1> QED BY <1>1, RootApart, FS_Subset, FS_CardinalityType DEF Place

LEMMA TreeFacts ==
  ASSUME NEW f, IsForest(f)
  PROVE  IsForest(Tree(f)) /\ DOMAIN Tree(f) = ShownNodes(f) /\ ShownNodes(f) \subseteq DOMAIN f
<1>1. ShownNodes(f) \subseteq DOMAIN f /\ DOMAIN f \subseteq Nodes
  BY DEF ShownNodes, IsForest
<1>2. \A n \in ShownNodes(f) : [parent |-> f[n].parent, order |-> Place(f, n)] \in Row
  BY <1>1, RowFacts, PlaceType DEF Row
<1> QED BY <1>1, <1>2 DEF Tree, IsForest

LEMMA ArrangementFacts ==
  ASSUME NEW S \in SUBSET Nodes, NEW f \in Arrangements[S]
  PROVE  /\ DOMAIN f = S /\ IsForest(f) /\ Rooted(f) /\ ParentsExist(f)
         /\ \A n \in S : f[n].order = Place(f, n)
<1>1. /\ f \in [S -> [parent : S \cup {Root}, order : 0 .. Cardinality(S)]]
      /\ Rooted(f) /\ \A n \in S : f[n].order = Place(f, n)
  BY DEF Arrangements
<1> QED BY <1>1 DEF IsForest, Row, ParentsExist

\* The rows buildTree does not show keep each other from the root.
LEMMA HiddenDetached ==
  ASSUME NEW f
  PROVE  Detached(f, DOMAIN f \ ShownNodes(f))
BY DEF Detached, ShownNodes

LEMMA RootedShowsAll ==
  ASSUME NEW f, Rooted(f)
  PROVE  ShownNodes(f) = DOMAIN f
BY DEF Rooted, ShownNodes

\* A new row under one that is there.
Grown(f, n, row) == [m \in DOMAIN f \cup {n} |-> IF m = n THEN row ELSE f[m]]

LEMMA InsertTree ==
  ASSUME NEW f, IsForest(f), ParentsExist(f), NEW n \in Nodes \ DOMAIN f, NEW row \in Row,
         row.parent \in DOMAIN f \cup {Root},
         NEW g, g = Grown(f, n, row)
  PROVE  IsForest(g) /\ ParentsExist(g) /\ (Rooted(f) => Rooted(g))
<1>1. Root \notin DOMAIN f /\ n # Root
  BY RootApart DEF IsForest
<1>2. IsForest(g) /\ ParentsExist(g)
  BY DEF IsForest, ParentsExist, Grown
<1>3. ASSUME Rooted(f) PROVE Rooted(g)
  <2> SUFFICES ASSUME NEW S, Detached(g, S) PROVE S = {}
    BY DEF Rooted
  <2>1. \A m \in S : m \in DOMAIN f \cup {n} /\ g[m].parent \in S
    BY DEF Detached, Grown
  <2>2. \A m \in S \ {n} : f[m].parent \in S \ {n}
    BY <2>1, <1>1 DEF ParentsExist, Grown
  <2>3. S \ {n} = {}
    BY <2>1, <2>2, <1>3 DEF Detached, Rooted
  <2>4. n \notin S
    BY <2>1, <2>3, <1>1 DEF Grown
  <2> QED BY <2>3, <2>4
<1> QED BY <1>2, <1>3

\* A row written with the parent it has, or anything else.
LEMMA WriteTree ==
  ASSUME NEW f, IsForest(f), ParentsExist(f), NEW n \in DOMAIN f, NEW row \in Row,
         row.parent \in DOMAIN f \cup {Root},
         NEW g, g = [f EXCEPT ![n] = row]
  PROVE  /\ IsForest(g) /\ ParentsExist(g) /\ DOMAIN g = DOMAIN f
         /\ Rooted(f) /\ f[n].parent = row.parent => Rooted(g)
<1>1. IsForest(g) /\ ParentsExist(g) /\ DOMAIN g = DOMAIN f
  BY DEF IsForest, ParentsExist
<1>2. ASSUME Rooted(f), f[n].parent = row.parent PROVE Rooted(g)
  <2>1. \A m \in DOMAIN f : g[m].parent = f[m].parent
    BY <1>2 DEF IsForest
  <2> QED BY <1>1, <1>2, <2>1 DEF Rooted, Detached
<1> QED BY <1>1, <1>2

\* A category is deleted: its children move to the top.
Orphaned(f, n) ==
  [m \in DOMAIN f \ {n} |-> IF f[m].parent = n THEN [f[m] EXCEPT !.parent = Root] ELSE f[m]]

LEMMA OrphanTree ==
  ASSUME NEW f, IsForest(f), ParentsExist(f), NEW n \in Nodes,
         NEW g, g = Orphaned(f, n)
  PROVE  IsForest(g) /\ ParentsExist(g) /\ (Rooted(f) => Rooted(g))
<1>1. Root \notin DOMAIN f /\ n # Root
  BY RootApart DEF IsForest
<1>2. \A m \in DOMAIN f \ {n} :
        /\ g[m] \in Row
        /\ g[m].parent = IF f[m].parent = n THEN Root ELSE f[m].parent
  BY RowFacts DEF Row, Orphaned
<1>3. IsForest(g) /\ ParentsExist(g)
  BY <1>2 DEF IsForest, ParentsExist, Orphaned
<1>4. ASSUME Rooted(f) PROVE Rooted(g)
  <2> SUFFICES ASSUME NEW S, Detached(g, S) PROVE S = {}
    BY DEF Rooted
  <2>1. \A m \in S : m \in DOMAIN f \ {n} /\ g[m].parent \in S
    BY DEF Detached, Orphaned
  <2>2. \A m \in S : f[m].parent \in S
    BY <2>1, <1>1, <1>2
  <2> QED BY <2>1, <2>2, <1>4 DEF Detached, Rooted
<1> QED BY <1>3, <1>4

\* What is below a node, and the nodes between.
LEMMA BelowClosed ==
  ASSUME NEW f, IsForest(f), NEW x, NEW n \in DOMAIN f, f[n].parent \in Below(f, x)
  PROVE  n \in Below(f, x)
<1>1. x \in DOMAIN f /\ f[n].parent \in DOMAIN f
  BY DEF Below, Line
<1>2. Root \notin DOMAIN f
  BY RootApart DEF IsForest
<1>3. ASSUME NEW S \in SUBSET DOMAIN f, n \in S, \A k \in S : f[k].parent \in S \cup {Root}
      PROVE  x \in S
  BY <1>1, <1>2, <1>3 DEF Below, Line
<1> QED BY <1>1, <1>3 DEF Below, Line

LEMMA BelowSelf ==
  ASSUME NEW f, NEW x \in DOMAIN f
  PROVE  x \in Below(f, x)
BY DEF Below, Line

\* A menu item is deleted with all below it.
Pruned(f, x) == [m \in DOMAIN f \ Below(f, x) |-> f[m]]

LEMMA PruneTree ==
  ASSUME NEW f, IsForest(f), ParentsExist(f), NEW x \in DOMAIN f,
         NEW g, g = Pruned(f, x)
  PROVE  IsForest(g) /\ ParentsExist(g) /\ (Rooted(f) => Rooted(g))
<1>1. IsForest(g)
  BY DEF IsForest, Pruned
<1>2. ParentsExist(g)
  BY BelowClosed DEF ParentsExist, Pruned
<1>3. Rooted(f) => Rooted(g)
  BY DEF Rooted, Detached, Pruned
<1> QED BY <1>1, <1>2, <1>3

\* A saved order: the rows of H get what the tree says, the others stay.  A set of
\* rows that is detached from the root has none of H in it, since it would be
\* detached in the tree.
SavedRows(f, tree, H) == [n \in DOMAIN f |-> IF n \in H THEN tree[n] ELSE f[n]]

LEMMA SavedDetached ==
  ASSUME NEW f, IsForest(f), NEW tree, Rooted(tree), ParentsExist(tree),
         NEW H, H = DOMAIN tree \cap DOMAIN f,
         NEW S, Detached(SavedRows(f, tree, H), S)
  PROVE  S \cap H = {} /\ Detached(f, S)
<1>1. /\ S \subseteq DOMAIN f
      /\ \A n \in S : (IF n \in H THEN tree[n] ELSE f[n]).parent \in S
  BY DEF Detached, SavedRows
<1>2. Root \notin DOMAIN f
  BY RootApart DEF IsForest
<1>3. \A n \in S \cap H : tree[n].parent \in S \cap H
  BY <1>1, <1>2 DEF ParentsExist
<1>4. S \cap H = {}
  BY <1>3 DEF Rooted, Detached
<1> QED BY <1>1, <1>4 DEF Detached

LEMMA SavedTree ==
  ASSUME NEW f, IsForest(f), ParentsExist(f),
         NEW tree, IsForest(tree), Rooted(tree), ParentsExist(tree),
         NEW H, H = DOMAIN tree \cap DOMAIN f,
         \A n \in H : tree[n].parent \in DOMAIN f \cup {Root}
  PROVE  /\ IsForest(SavedRows(f, tree, H)) /\ ParentsExist(SavedRows(f, tree, H))
         /\ Rooted(f) => Rooted(SavedRows(f, tree, H))
<1>1. \A n \in DOMAIN f : (IF n \in H THEN tree[n] ELSE f[n]) \in Row
  BY RowFacts
<1>2. IsForest(SavedRows(f, tree, H))
  BY <1>1 DEF IsForest, SavedRows
<1>3. ParentsExist(SavedRows(f, tree, H))
  BY DEF ParentsExist, SavedRows
<1>4. Rooted(f) => Rooted(SavedRows(f, tree, H))
  <2>1. DOMAIN SavedRows(f, tree, H) = DOMAIN f
    BY DEF SavedRows
  <2>2. \A S : Detached(SavedRows(f, tree, H), S) => Detached(f, S)
    BY SavedDetached
  <2> QED BY <2>1, <2>2 DEF Rooted
<1> QED BY <1>2, <1>3, <1>4

\* When the tree has all the rows that are shown, it is what is shown afterwards.
LEMMA SavedIsShown ==
  ASSUME NEW f, IsForest(f), NEW tree, IsForest(tree), IsTree(tree),
         DOMAIN tree = ShownNodes(f)
  PROVE  Tree(SavedRows(f, tree, DOMAIN tree \cap DOMAIN f)) = tree
<1> DEFINE H == DOMAIN tree \cap DOMAIN f
           g == SavedRows(f, tree, H)
<1>1. /\ Rooted(tree) /\ ParentsExist(tree)
      /\ tree \in [DOMAIN tree -> Row]
      /\ \A n \in DOMAIN tree : tree[n].order = Place(tree, n)
  BY ArrangementFacts DEF IsTree, IsForest
<1>2. H = DOMAIN tree /\ DOMAIN tree \subseteq DOMAIN f
  BY TreeFacts
<1>3. /\ DOMAIN g = DOMAIN f
      /\ \A n \in DOMAIN f : g[n] = IF n \in DOMAIN tree THEN tree[n] ELSE f[n]
  BY <1>2 DEF SavedRows
<1>4. Root \notin DOMAIN f
  BY RootApart DEF IsForest
<1>5. \A n \in DOMAIN f \ DOMAIN tree : f[n].parent \in DOMAIN f \ DOMAIN tree
  BY HiddenDetached DEF Detached
<1>6. ShownNodes(g) = DOMAIN tree
  <2>1. \A S : Detached(g, S) => S \cap DOMAIN tree = {}
    BY <1>1, <1>2, SavedDetached
  <2>2. Detached(g, DOMAIN f \ DOMAIN tree)
    BY <1>3, <1>5 DEF Detached
  <2> HIDE DEF g, H
  <2> QED BY <1>2, <1>3, <2>1, <2>2 DEF ShownNodes
<1>7. \A p \in DOMAIN tree \cup {Root} : Children(g, p) = Children(tree, p)
  <2> HIDE DEF g, H
  <2> QED BY <1>2, <1>3, <1>4, <1>5 DEF Children
<1>8. \A n \in DOMAIN tree : Place(g, n) = Place(tree, n)
  <2> SUFFICES ASSUME NEW n \in DOMAIN tree PROVE Place(g, n) = Place(tree, n)
    OBVIOUS
  <2> HIDE DEF g, H
  <2>1. g[n] = tree[n] /\ n \in DOMAIN g /\ tree[n].parent \in DOMAIN tree \cup {Root}
    BY <1>1, <1>2, <1>3 DEF ParentsExist
  <2>2. Children(g, g[n].parent) = Children(tree, tree[n].parent)
    BY <1>7, <2>1
  <2>3. \A m \in Children(tree, tree[n].parent) : g[m] = tree[m]
    BY <1>2, <1>3 DEF Children
  <2>4. {m \in Children(g, g[n].parent) : Precedes(g, m, n)}
          = {m \in Children(tree, tree[n].parent) : Precedes(tree, m, n)}
    BY <2>1, <2>2, <2>3 DEF Precedes
  <2> QED BY <2>4 DEF Place
<1>9. \A n \in DOMAIN tree : tree[n] = [parent |-> g[n].parent, order |-> Place(g, n)]
  <2> HIDE DEF g, H
  <2>1. \A n \in DOMAIN tree : tree[n] \in Row /\ g[n] = tree[n] /\ tree[n].order = Place(g, n)
    BY <1>1, <1>2, <1>3, <1>8
  <2> QED BY <2>1 DEF Row
<1> HIDE DEF g
<1>10. Tree(g) = tree
  BY <1>1, <1>6, <1>9 DEF Tree
<1> QED BY <1>10 DEF g

\* Sets of numbers have a greatest element: a finite one would otherwise have a
\* least subset without.
LEMMA LeastNatural ==
  ASSUME NEW T \in SUBSET Nat, T # {}
  PROVE  \E x \in T : \A y \in T : x <= y
<1>1. PICK x \in T : \A y \in T : ~(<<y, x>> \in OpToRel(<, Nat))
  BY NatLessThanWellFounded, WFMin
<1>2. \A y \in T : ~(y < x)
  BY <1>1 DEF OpToRel
<1> QED BY <1>2

HasGreatest(T) == \E k \in T : \A j \in T : j <= k

LEMMA GreatestNatural ==
  ASSUME NEW T \in SUBSET Nat, IsFiniteSet(T), T # {}
  PROVE  HasGreatest(T)
<1> SUFFICES ASSUME ~ HasGreatest(T) PROVE FALSE
  OBVIOUS
<1> DEFINE Bad == {U \in SUBSET T : U # {} /\ ~ HasGreatest(U)}
           Sizes == {Cardinality(U) : U \in Bad}
<1>1. \A U \in Bad : IsFiniteSet(U) /\ Cardinality(U) \in Nat
  BY FS_Subset, FS_CardinalityType
<1>2. Sizes \subseteq Nat /\ Sizes # {}
  BY <1>1
<1>3. PICK least \in Sizes : \A k \in Sizes : least <= k
  BY <1>2, LeastNatural
<1>4. PICK U \in Bad : Cardinality(U) = least
  BY <1>3
<1>5. PICK x \in U : TRUE
  BY <1>4
<1>6. IsFiniteSet(U \ {x}) /\ Cardinality(U \ {x}) = Cardinality(U) - 1
  BY <1>1, <1>4, <1>5, FS_RemoveElement
<1>7. U \ {x} \notin Bad
  BY <1>1, <1>3, <1>4, <1>6
<1>8. U \ {x} = {} \/ HasGreatest(U \ {x})
  BY <1>4, <1>7
<1>9. HasGreatest(U)
  BY <1>4, <1>5, <1>8 DEF HasGreatest
<1> QED BY <1>4, <1>9

LEMMA NextSortOrderLast ==
  ASSUME NEW f, IsForest(f), NEW p
  PROVE  /\ NextSortOrder(f, p) \in Nat
         /\ \A m \in Children(f, p) : f[m].order < NextSortOrder(f, p)
<1> DEFINE taken == {f[n].order : n \in Children(f, p)}
<1>1. Children(f, p) \subseteq Nodes /\ Children(f, p) \subseteq DOMAIN f
  BY DEF Children, IsForest
<1>2. taken \in SUBSET Nat /\ IsFiniteSet(taken)
  <2>1. taken \in SUBSET Nat
    BY <1>1, RowFacts
  <2>2. [n \in Children(f, p) |-> f[n].order] \in Surjection(Children(f, p), taken)
    BY DEF Surjection
  <2>3. IsFiniteSet(Children(f, p))
    BY <1>1, RootApart, FS_Subset
  <2> QED BY <2>1, <2>2, <2>3, FS_Surjection
<1>3. CASE taken = {}
  BY <1>3 DEF NextSortOrder
<1>4. CASE taken # {}
  <2>1. \E k \in taken : \A j \in taken : j <= k
    BY <1>2, <1>4, GreatestNatural DEF HasGreatest
  <2>2. PICK k \in taken : (\A j \in taken : j <= k) /\ NextSortOrder(f, p) = 1 + k
    BY <1>4, <2>1 DEF NextSortOrder
  <2> QED BY <1>1, <1>2, <2>2, RowFacts
<1> QED BY <1>3, <1>4

-----------------------------------------------------------------------------
(* Requests *)

LEMMA RequestFields ==
  ASSUME NEW op, NEW n, NEW row, NEW tree, NEW todo, NEW held, NEW kept,
         NEW x, x = Request(op, n, row, tree, todo, held, kept)
  PROVE  /\ x.op = op /\ x.node = n /\ x.row = row /\ x.tree = tree
         /\ x.todo = todo /\ x.held = held /\ x.kept = kept
BY DEF Request

LEMMA RequestType ==
  ASSUME NEW op \in Ops, NEW n \in Nodes \cup {Root}, NEW row \in Row, NEW tree, IsForest(tree),
         NEW todo \in SUBSET Nodes, NEW held \in SUBSET Nodes, NEW kept \in SUBSET Nodes,
         NEW x, x = Request(op, n, row, tree, todo, held, kept)
  PROVE  IsForest(x.tree) /\ x \in RequestsFor(x.tree)
BY RequestFields DEF Request, RequestsFor

LEMMA NoTreeForest == IsForest(NoTree) /\ DOMAIN NoTree = {} /\ RootRow \in Row
BY DEF NoTree, RootRow, IsForest, Row

\* A request without locks, tree or anything to do.
Bare(x, op) ==
  /\ x.op = op /\ x.tree = NoTree
  /\ x.todo = {} /\ x.held = {} /\ x.kept = {}
  /\ IsForest(x.tree) /\ x \in RequestsFor(x.tree)

LEMMA BareRequest ==
  ASSUME NEW op \in Ops, NEW n \in Nodes \cup {Root}, NEW row \in Row,
         NEW x, x = Request(op, n, row, NoTree, {}, {}, {})
  PROVE  Bare(x, op) /\ x.node = n /\ x.row = row
BY RequestFields, RequestType, NoTreeForest DEF Bare

LEMMA IdleBare == Bare(Idle, "idle") /\ Bare(Reload, "reload")
<1>1. "idle" \in Ops /\ "reload" \in Ops
  BY DEF Ops
<1> QED BY <1>1, BareRequest, NoTreeForest DEF Idle, Reload

\* What a page's request is made of.
LEMMA RequestParts ==
  ASSUME TypeOK, NEW a \in Pages
  PROVE  /\ req[a].op \in Ops /\ req[a].node \in Nodes \cup {Root} /\ req[a].row \in Row
         /\ IsForest(req[a].tree)
         /\ req[a].todo \subseteq Nodes /\ req[a].held \subseteq Nodes /\ req[a].kept \subseteq Nodes
BY DEF TypeOK, RequestsFor

LEMMA Replaced ==
  ASSUME TypeOK, NEW a \in Pages, NEW x, req' = [req EXCEPT ![a] = x]
  PROVE  DOMAIN req' = Pages /\ req'[a] = x /\ \A b \in Pages : b # a => req'[b] = req[b]
BY DEF TypeOK

LEMMA ReplacedType ==
  ASSUME TypeOK, NEW a \in Pages, NEW x, req' = [req EXCEPT ![a] = x],
         IsForest(x.tree), x \in RequestsFor(x.tree)
  PROVE  /\ DOMAIN req' = Pages
         /\ \A b \in Pages : IsForest(req'[b].tree) /\ req'[b] \in RequestsFor(req'[b].tree)
BY Replaced DEF TypeOK

\* A request without locks takes the place of another, and the table changes
\* nowhere that others have locked.
LEMMA LocksKept ==
  ASSUME IInv, NEW a \in Pages, NEW x, req' = [req EXCEPT ![a] = x],
         x.held = {}, x.kept = {}, x.op # "delete",
         x.op = "reorder" => x.todo = DOMAIN x.tree,
         \A b \in Pages \ {a} :
           /\ req[b].held \cup req[b].kept \subseteq DOMAIN rows'
           /\ \A n \in req[b].held : rows'[n].parent = rows[n].parent
           /\ DOMAIN req[b].tree \cap DOMAIN rows' \subseteq DOMAIN rows
  PROVE  Locked' /\ LocksApart' /\ Progress' /\ ParentsSecured'
<1>1. req'[a] = x /\ \A b \in Pages : b # a => req'[b] = req[b]
  BY Replaced DEF IInv
<1>2. Locked'
  BY <1>1 DEF IInv, Locked
<1>3. LocksApart'
  BY <1>1 DEF IInv, LocksApart
<1>4. Progress'
  BY <1>1 DEF IInv, Progress
<1>5. ParentsSecured'
  <2> SUFFICES ASSUME NEW b \in Pages, req'[b].op = "reorder", NEW n \in req'[b].held
               PROVE  req'[b].tree[n].parent \in req'[b].kept \cup {Root, rows'[n].parent}
    BY DEF ParentsSecured
  <2>1. b # a /\ req'[b] = req[b]
    BY <1>1
  <2>2. req[b].tree[n].parent \in req[b].kept \cup {Root, rows[n].parent}
    BY <2>1 DEF IInv, ParentsSecured
  <2> QED BY <2>1, <2>2
<1> QED BY <1>2, <1>3, <1>4, <1>5

\* The same when the table is left alone.
LEMMA LocksUntouched ==
  ASSUME IInv, NEW a \in Pages, NEW x, req' = [req EXCEPT ![a] = x], rows' = rows,
         x.held = {}, x.kept = {}, x.op # "delete",
         x.op = "reorder" => x.todo = DOMAIN x.tree
  PROVE  Locked' /\ LocksApart' /\ Progress' /\ ParentsSecured'
<1>1. \A b \in Pages \ {a} :
        /\ req[b].held \cup req[b].kept \subseteq DOMAIN rows'
        /\ \A n \in req[b].held : rows'[n].parent = rows[n].parent
        /\ DOMAIN req[b].tree \cap DOMAIN rows' \subseteq DOMAIN rows
  BY DEF IInv, Locked
<1> QED BY <1>1, LocksKept

LEMMA TableUntouched ==
  ASSUME IInv, UNCHANGED <<rows, undone>>
  PROVE  ForeignKey' /\ NodesReachable'
BY DEF IInv, ForeignKey, NodesReachable

-----------------------------------------------------------------------------
(* The steps *)

LEMMA InitIInv == Init => IInv
<1> SUFFICES ASSUME Init PROVE IInv
  OBVIOUS
<1>1. IsForest(rows) /\ Rooted(rows) /\ ParentsExist(rows) /\ DOMAIN rows \subseteq Nodes
  BY ForestAssumption DEF Init, IsForest
<1>2. \A a \in Pages : req[a] = Idle /\ Bare(req[a], "idle") /\ req[a].op = "idle"
  BY IdleBare DEF Init, Bare
<1>3. \A a \in Pages : page[a] \in Arrangements[DOMAIN rows]
  BY DEF Init
<1>4. \A a \in Pages : IsForest(page[a]) /\ DOMAIN page[a] = DOMAIN rows
  BY <1>1, <1>3, ArrangementFacts
<1>5. DOMAIN page = Pages /\ DOMAIN req = Pages
  BY DEF Init
<1>6. \A a \in Pages : IsForest(req[a].tree) /\ req[a] \in RequestsFor(req[a].tree)
  BY <1>2 DEF Bare
<1>7. TypeOK
  <2>1. dirty \in [Pages -> BOOLEAN] /\ sure \in [Pages -> BOOLEAN]
    BY DEF Init
  <2>2. asked = 0 /\ drags = 0 /\ undone = FALSE
    BY DEF Init
  <2>3. asked \in 0 .. MaxRequests /\ drags \in 0 .. MaxDrags
    BY <2>2, ForestAssumption
  <2> QED BY <2>3, <1>1, <1>4, <1>5, <1>6, <2>1, <2>2 DEF Init, TypeOK
<1>8. Unused
  BY <1>2, <1>4, NoTreeForest DEF Init, Unused, Unborn, Bare
<1>9. PagesFit
  BY <1>2, <1>3, <1>4 DEF PagesFit, IsTree
<1>10. Locked /\ LocksApart /\ Progress /\ ParentsSecured
  BY <1>2 DEF Locked, LocksApart, Progress, ParentsSecured, Bare
<1>11. ForeignKey /\ NodesReachable
  BY <1>1 DEF ForeignKey, NodesReachable
<1>12. Informed
  <2>1. \A a \in Pages : ~dirty[a] => page[a] = Tree(rows)
    BY DEF Init
  <2> QED BY <1>1, <1>2, <1>4, <2>1, RootedShowsAll DEF Informed
<1> QED BY <1>7, <1>8, <1>9, <1>10, <1>11, <1>12 DEF IInv

LEMMA LoadStep ==
  ASSUME IInv, NEW a \in Pages, Load(a)
  PROVE  IInv'
<1> USE DEF IInv
<1>1. /\ req' = [req EXCEPT ![a] = Idle] /\ Bare(Idle, "idle")
      /\ page' = [page EXCEPT ![a] = Tree(rows)]
      /\ dirty' = [dirty EXCEPT ![a] = FALSE] /\ sure' = [sure EXCEPT ![a] = TRUE]
      /\ UNCHANGED <<manager, rows, spare, asked, drags, undone>>
      /\ req[a].op \in {"idle", "reload"}
  BY IdleBare DEF Load
<1>2. req'[a] = Idle /\ \A b \in Pages : b # a => req'[b] = req[b]
  BY <1>1, Replaced
<1>3. /\ page'[a] = Tree(rows) /\ dirty'[a] = FALSE
      /\ \A b \in Pages : b # a => page'[b] = page[b] /\ dirty'[b] = dirty[b] /\ sure'[b] = sure[b]
  BY <1>1 DEF TypeOK
<1>4. IsForest(Tree(rows)) /\ DOMAIN Tree(rows) = ShownNodes(rows) /\ ShownNodes(rows) \subseteq DOMAIN rows
  BY TreeFacts DEF TypeOK
<1>5. TypeOK'
  <2>1. /\ DOMAIN req' = Pages
        /\ \A b \in Pages : IsForest(req'[b].tree) /\ req'[b] \in RequestsFor(req'[b].tree)
    BY <1>1, ReplacedType DEF Bare
  <2>2. DOMAIN page' = Pages /\ \A b \in Pages : IsForest(page'[b])
    BY <1>1, <1>3, <1>4 DEF TypeOK
  <2>3. dirty' \in [Pages -> BOOLEAN] /\ sure' \in [Pages -> BOOLEAN]
    BY <1>1 DEF TypeOK
  <2> QED BY <1>1, <2>1, <2>2, <2>3 DEF TypeOK
<1>6. Unused'
  <2>1. \A b \in Pages : req'[b].op = "insert" => b # a /\ req[b].op = "insert" /\ req'[b] = req[b]
    BY <1>1, <1>2 DEF Bare
  <2>2. Unborn' \subseteq Unborn
    BY <1>1, <2>1 DEF Unborn
  <2>3. \A b \in Pages : Unborn \cap (DOMAIN page'[b] \cup DOMAIN req'[b].tree) = {}
    BY <1>1, <1>2, <1>3, <1>4, NoTreeForest DEF Unused, Bare
  <2> QED BY <1>1, <2>1, <2>2, <2>3 DEF Unused
<1>7. PagesFit'
  BY <1>1, <1>2, <1>3 DEF PagesFit, Bare
<1>8. Locked' /\ LocksApart' /\ Progress' /\ ParentsSecured'
  BY <1>1, LocksUntouched DEF Bare
<1>9. ForeignKey' /\ NodesReachable'
  BY <1>1, TableUntouched
<1>10. Informed'
  BY <1>1, <1>2, <1>3, <1>4 DEF Informed, Bare
<1> QED BY <1>5, <1>6, <1>7, <1>8, <1>9, <1>10

LEMMA DragStep ==
  ASSUME IInv, NEW a \in Pages, Drag(a)
  PROVE  IInv'
<1> USE DEF IInv
<1>1. PICK f \in Arrangements[DOMAIN page[a]] : page' = [page EXCEPT ![a] = f]
  BY DEF Drag
<1>2. /\ dirty' = [dirty EXCEPT ![a] = TRUE]
      /\ sure' = [sure EXCEPT ![a] = @ /\ req[a].op # "reorder"]
      /\ UNCHANGED <<manager, rows, spare, req, asked, undone>>
      /\ req[a].op \in {"idle", "reorder"} /\ drags' = drags + 1 /\ drags < MaxDrags
  BY DEF Drag
<1>3. DOMAIN f = DOMAIN page[a] /\ IsForest(f) /\ IsTree(f)
  <2>1. DOMAIN page[a] \in SUBSET Nodes
    BY DEF TypeOK, IsForest
  <2> QED BY <2>1, ArrangementFacts DEF IsTree
<1>4. /\ page'[a] = f /\ dirty'[a] = TRUE /\ DOMAIN page' = Pages
      /\ \A b \in Pages : b # a => page'[b] = page[b] /\ dirty'[b] = dirty[b] /\ sure'[b] = sure[b]
  BY <1>1, <1>2 DEF TypeOK
<1>5. sure' \in [Pages -> BOOLEAN] /\ (sure'[a] => sure[a] /\ req[a].op # "reorder")
  <2>1. sure'[a] = (sure[a] /\ req[a].op # "reorder")
    BY <1>2 DEF TypeOK
  <2>2. (sure[a] /\ req[a].op # "reorder") \in BOOLEAN
    OBVIOUS
  <2>3. sure' \in [Pages -> BOOLEAN]
    BY <1>2, <2>2 DEF TypeOK
  <2> QED BY <2>1, <2>3, Zenon
<1>6. TypeOK'
  <2>1. drags' \in 0 .. MaxDrags
    BY <1>2, ForestAssumption DEF TypeOK
  <2>2. dirty' \in [Pages -> BOOLEAN]
    BY <1>2 DEF TypeOK
  <2>3. \A b \in Pages : IsForest(page'[b])
    BY <1>3, <1>4 DEF TypeOK
  <2> QED BY <1>2, <1>4, <1>5, <2>1, <2>2, <2>3 DEF TypeOK
<1>7. Unused'
  <2>1. Unborn' = Unborn
    BY <1>2 DEF Unborn
  <2>2. \A b \in Pages : DOMAIN page'[b] = DOMAIN page[b]
    BY <1>3, <1>4
  <2> QED BY <1>2, <2>1, <2>2 DEF Unused
<1>8. PagesFit'
  BY <1>2, <1>3, <1>4 DEF PagesFit
<1>9. Locked' /\ LocksApart' /\ Progress' /\ ParentsSecured'
  BY <1>2 DEF Locked, LocksApart, Progress, ParentsSecured
<1>10. ForeignKey' /\ NodesReachable'
  BY <1>2, TableUntouched
<1>11. Informed'
  <2> SUFFICES ASSUME NEW b \in Pages, sure'[b], req'[b].op # "reload"
               PROVE  /\ DOMAIN page'[b] = ShownNodes(rows')
                      /\ ~dirty'[b] => page'[b] = Tree(rows')
                      /\ req'[b].op = "reorder" => page'[b] = req'[b].tree
                      /\ req'[b].op = "insert" =>
                           \A m \in Children(rows', req'[b].row.parent) :
                             rows'[m].order < req'[b].row.order
    BY DEF Informed
  <2>1. CASE b = a
    BY <2>1, <1>2, <1>3, <1>4, <1>5 DEF Informed
  <2>2. CASE b # a
    BY <2>2, <1>2, <1>4 DEF Informed
  <2> QED BY <2>1, <2>2
<1> QED BY <1>6, <1>7, <1>8, <1>9, <1>10, <1>11

\* A request begins, and takes no locks.
LEMMA AskStep ==
  ASSUME IInv, NEW a \in Pages, NEW x, Ask(a, x), IsForest(x.tree), x \in RequestsFor(x.tree),
         x.held = {}, x.kept = {}, x.op \notin {"delete", "reload"},
         x.op = "reorder" => x.todo = DOMAIN x.tree /\ x.tree = page[a] /\ dirty[a],
         x.op # "reorder" => x.tree = NoTree,
         x.op = "insert" =>
           /\ x.node \in spare /\ spare' = spare \ {x.node}
           /\ \A m \in Children(rows, x.row.parent) : rows[m].order < x.row.order,
         x.op # "insert" => spare' = spare
  PROVE  IInv'
<1> USE DEF IInv
<1>1. /\ req' = [req EXCEPT ![a] = x] /\ req[a].op = "idle"
      /\ asked' = asked + 1 /\ asked < MaxRequests
      /\ UNCHANGED <<manager, rows, page, dirty, drags, sure, undone>>
  BY DEF Ask
<1>2. req'[a] = x /\ \A b \in Pages : b # a => req'[b] = req[b]
  BY <1>1, Replaced
<1>3. spare' \subseteq spare /\ spare' \subseteq Nodes \ DOMAIN rows
  BY DEF TypeOK
<1>4. TypeOK'
  <2>1. asked' \in 0 .. MaxRequests
    BY <1>1, ForestAssumption DEF TypeOK
  <2>2. /\ DOMAIN req' = Pages
        /\ \A b \in Pages : IsForest(req'[b].tree) /\ req'[b] \in RequestsFor(req'[b].tree)
    BY <1>1, ReplacedType
  <2> QED BY <1>1, <1>3, <2>1, <2>2 DEF TypeOK
<1>5. Unused'
  <2>1. Unborn' \subseteq Unborn
    BY <1>2 DEF Unborn
  <2>2. \A b \in Pages : Unborn \cap (DOMAIN page'[b] \cup DOMAIN req'[b].tree) = {}
    BY <1>1, <1>2, NoTreeForest DEF Unused
  <2>3. \A b \in Pages : req'[b].op = "insert" => req'[b].node \in Nodes \ spare'
    BY <1>2, <1>3 DEF Unused, TypeOK
  <2>4. \A b, c \in Pages :
          req'[b].op = "insert" /\ req'[c].op = "insert" /\ b # c => req'[b].node # req'[c].node
    BY <1>2 DEF Unused
  <2> QED BY <1>1, <2>1, <2>2, <2>3, <2>4 DEF Unused
<1>6. PagesFit'
  BY <1>1, <1>2 DEF PagesFit
<1>7. Locked' /\ LocksApart' /\ Progress' /\ ParentsSecured'
  BY <1>1, LocksUntouched
<1>8. ForeignKey' /\ NodesReachable'
  BY <1>1, TableUntouched
<1>9. Informed'
  BY <1>1, <1>2 DEF Informed
<1> QED BY <1>4, <1>5, <1>6, <1>7, <1>8, <1>9

LEMMA CreateBeginStep ==
  ASSUME IInv, NEW a \in Pages, NEW p, CreateBegin(a, p)
  PROVE  IInv'
<1>1. PICK n \in spare :
        /\ p \in ShownNodes(page[a]) \cup {Root}
        /\ Ask(a, Request("insert", n, [parent |-> p, order |-> NextSortOrder(rows, p)],
                          NoTree, {}, {}, {}))
        /\ spare' = spare \ {n}
  BY DEF CreateBegin
<1>2. PICK row : row = [parent |-> p, order |-> NextSortOrder(rows, p)]
  OBVIOUS
<1>3. PICK x : x = Request("insert", n, row, NoTree, {}, {}, {})
  OBVIOUS
<1>4. IsForest(rows) /\ IsForest(page[a]) /\ n \in Nodes
  BY DEF IInv, TypeOK
<1>5. row \in Row
  BY <1>1, <1>2, <1>4, TreeFacts, NextSortOrderLast DEF Row, IsForest
<1>6. Bare(x, "insert") /\ x.node = n /\ x.row = row
  BY <1>3, <1>4, <1>5, BareRequest DEF Ops
<1>7. \A m \in Children(rows, x.row.parent) : rows[m].order < x.row.order
  BY <1>2, <1>4, <1>6, NextSortOrderLast
<1>8. Ask(a, x) /\ spare' = spare \ {x.node}
  BY <1>1, <1>2, <1>3, <1>6
<1> QED BY <1>6, <1>7, <1>8, AskStep DEF Bare

LEMMA UpdateFindStep ==
  ASSUME IInv, NEW a \in Pages, NEW n \in Nodes, UpdateFind(a, n)
  PROVE  IInv'
<1>1. PICK x : x = Request("update", n, rows[n], NoTree, {}, {}, {})
  OBVIOUS
<1>2. rows[n] \in Row
  BY RowFacts DEF UpdateFind, IInv, TypeOK
<1>3. Bare(x, "update")
  BY <1>1, <1>2, BareRequest DEF Ops
<1>4. Ask(a, x) /\ spare' = spare
  BY <1>1 DEF UpdateFind
<1> QED BY <1>3, <1>4, AskStep DEF Bare

LEMMA SaveBeginStep ==
  ASSUME IInv, NEW a \in Pages, SaveBegin(a)
  PROVE  IInv'
<1>1. PICK x : x = Request("reorder", Root, RootRow, page[a], DOMAIN page[a], {}, {})
  OBVIOUS
<1>2. IsForest(page[a]) /\ DOMAIN page[a] \subseteq Nodes
  BY DEF IInv, TypeOK, IsForest
<1>3. /\ x.op = "reorder" /\ x.tree = page[a] /\ x.todo = DOMAIN page[a]
      /\ x.held = {} /\ x.kept = {}
  BY <1>1, RequestFields
<1>4. IsForest(x.tree) /\ x \in RequestsFor(x.tree)
  BY <1>1, <1>2, NoTreeForest, RequestType DEF Ops
<1>5. Ask(a, x) /\ spare' = spare /\ dirty[a]
  BY <1>1 DEF SaveBegin
<1> QED BY <1>3, <1>4, <1>5, AskStep

\* What a step that waits for nothing can rely on.
LEMMA WaitsNone ==
  ASSUME NEW a \in Pages, Waits(a) = {}
  PROVE  /\ req[a].op = "update" /\ req[a].node \in DOMAIN rows =>
              \A b \in Others(a) : req[a].node \notin req[b].held
         /\ req[a].op = "delete" =>
              \A b \in Others(a) :
                /\ req[b].held \cap Touched(req[a].node) = {}
                /\ manager = "menu" => req[b].kept \cap Touched(req[a].node) = {}
         /\ req[a].op = "reorder" =>
              \A n \in NextSent(a) \cap DOMAIN rows, b \in Others(a) :
                /\ n \notin req[b].held
                /\ req[b].op = "delete" => req[b].held \cap NewParent(n, req[a].tree[n]) = {}
<1>1. CASE req[a].op = "update"
  BY <1>1 DEF Waits, Holders
<1>2. CASE req[a].op = "delete"
  BY <1>2 DEF Waits, Holders, Keepers
<1>3. CASE req[a].op = "reorder"
  <2>1. UNION {Holders(a, {n}) \cup Deleters(a, NewParent(n, req[a].tree[n])) :
                 n \in NextSent(a) \cap DOMAIN rows} = {}
    BY <1>3 DEF Waits
  <2>2. \A n \in NextSent(a) \cap DOMAIN rows :
          Holders(a, {n}) \cup Deleters(a, NewParent(n, req[a].tree[n])) = {}
    BY <2>1
  <2> QED BY <1>3, <2>2 DEF Holders, Deleters
<1> QED BY <1>1, <1>2, <1>3

LEMMA DeleteLockStep ==
  ASSUME IInv, NEW a \in Pages, NEW n \in Nodes, DeleteLock(a, n)
  PROVE  IInv'
<1> USE DEF IInv
<1>1. PICK x : x = Request("delete", n, RootRow, NoTree, {}, {n}, {})
  OBVIOUS
<1>2. /\ x.op = "delete" /\ x.node = n /\ x.tree = NoTree
      /\ x.todo = {} /\ x.held = {n} /\ x.kept = {}
      /\ IsForest(x.tree) /\ x \in RequestsFor(x.tree)
  BY <1>1, NoTreeForest, RequestFields, RequestType DEF Ops
<1>3. /\ req' = [req EXCEPT ![a] = x] /\ req[a].op = "idle"
      /\ asked' = asked + 1 /\ asked < MaxRequests
      /\ UNCHANGED <<manager, rows, page, dirty, drags, sure, undone, spare>>
      /\ n \in DOMAIN rows /\ \A b \in Others(a) : n \notin req[b].held \cup req[b].kept
  BY <1>1 DEF DeleteLock, Ask, Holders, Keepers
<1>4. req'[a] = x /\ \A b \in Pages : b # a => req'[b] = req[b]
  BY <1>3, Replaced
<1>5. TypeOK'
  <2>1. asked' \in 0 .. MaxRequests
    BY <1>3, ForestAssumption DEF TypeOK
  <2>2. /\ DOMAIN req' = Pages
        /\ \A b \in Pages : IsForest(req'[b].tree) /\ req'[b] \in RequestsFor(req'[b].tree)
    BY <1>2, <1>3, ReplacedType
  <2> QED BY <1>3, <2>1, <2>2 DEF TypeOK
<1>6. Unused'
  <2>1. Unborn' \subseteq Unborn
    BY <1>2, <1>3, <1>4 DEF Unborn
  <2>2. \A b \in Pages : Unborn \cap (DOMAIN page'[b] \cup DOMAIN req'[b].tree) = {}
    BY <1>2, <1>3, <1>4, NoTreeForest DEF Unused
  <2> QED BY <1>2, <1>3, <1>4, <2>1, <2>2 DEF Unused
<1>7. PagesFit'
  BY <1>2, <1>3, <1>4 DEF PagesFit
<1>8. Locked'
  BY <1>2, <1>3, <1>4 DEF Locked
<1>9. LocksApart'
  BY <1>2, <1>3, <1>4 DEF LocksApart, Others
<1>10. Progress' /\ ParentsSecured'
  BY <1>2, <1>3, <1>4 DEF Progress, ParentsSecured
<1>11. ForeignKey' /\ NodesReachable'
  BY <1>3, TableUntouched
<1>12. Informed'
  BY <1>2, <1>3, <1>4 DEF Informed
<1> QED BY <1>5, <1>6, <1>7, <1>8, <1>9, <1>10, <1>11, <1>12

\* A transaction commits the table f.
LEMMA CommitStep ==
  ASSUME IInv, NEW a \in Pages, NEW x, NEW op \in {"idle", "reload"}, Bare(x, op), NEW f,
         Commit(a, x, f), IsForest(f), ParentsExist(f),
         undone' \in BOOLEAN, undone' \/ Rooted(f),
         dirty' = dirty \/ dirty' = [dirty EXCEPT ![a] = FALSE],
         \A n \in DOMAIN f \ DOMAIN rows : req[a].op = "insert" /\ n = req[a].node,
         \A b \in Pages \ {a} :
           /\ req[b].held \cup req[b].kept \subseteq DOMAIN f
           /\ \A n \in req[b].held : f[n].parent = rows[n].parent,
         op = "idle" /\ sure[a] => page[a] = Tree(f)
  PROVE  IInv'
<1> USE DEF IInv
<1>1. /\ rows' = f /\ req' = [req EXCEPT ![a] = x]
      /\ UNCHANGED <<manager, spare, page, asked, drags>>
      /\ sure' = [b \in Pages |-> sure[b] /\ (b = a \/ f = rows)]
  BY DEF Commit
<1>2. req'[a] = x /\ \A b \in Pages : b # a => req'[b] = req[b]
  BY <1>1, Replaced
<1>3. sure' \in [Pages -> BOOLEAN]
  <2>1. \A b \in Pages : (sure[b] /\ (b = a \/ f = rows)) \in BOOLEAN
    OBVIOUS
  <2> QED BY <1>1, <2>1
<1>4. \A b \in Pages : sure'[b] => sure[b] /\ (b = a \/ f = rows)
  BY <1>1, Zenon
<1>5. \A b \in Pages : dirty'[b] => dirty[b]
  BY DEF TypeOK
<1>6. \A n \in DOMAIN f : n \notin Unborn'
  <2> SUFFICES ASSUME NEW n \in DOMAIN f, n \in Unborn' PROVE FALSE
    OBVIOUS
  <2>1. \/ n \in spare
        \/ \E b \in Pages \ {a} : req[b].op = "insert" /\ n = req[b].node
    BY <1>1, <1>2 DEF Unborn, Bare
  <2>2. n \in Unborn
    BY <2>1 DEF Unborn
  <2>3. req[a].op = "insert" /\ n = req[a].node
    BY <2>2 DEF Unused
  <2> QED BY <2>1, <2>3 DEF Unused
<1>7. TypeOK'
  <2>1. /\ DOMAIN req' = Pages
        /\ \A b \in Pages : IsForest(req'[b].tree) /\ req'[b] \in RequestsFor(req'[b].tree)
    BY <1>1, ReplacedType DEF Bare
  <2>2. dirty' \in [Pages -> BOOLEAN]
    BY DEF TypeOK
  <2>3. spare' \subseteq Nodes \ DOMAIN rows'
    BY <1>1, <1>6 DEF TypeOK, Unborn
  <2> QED BY <1>1, <1>3, <2>1, <2>2, <2>3 DEF TypeOK
<1>8. Unused'
  <2>1. Unborn' \subseteq Unborn
    BY <1>1, <1>2 DEF Unborn, Bare
  <2>2. \A b \in Pages : Unborn \cap (DOMAIN page'[b] \cup DOMAIN req'[b].tree) = {}
    BY <1>1, <1>2, NoTreeForest DEF Unused, Bare
  <2>3. \A b \in Pages : req'[b].op = "insert" => b # a /\ req'[b] = req[b]
    BY <1>2 DEF Bare
  <2> QED BY <1>1, <1>6, <2>1, <2>2, <2>3 DEF Unused
<1>9. PagesFit'
  BY <1>1, <1>2, <1>5 DEF PagesFit, Bare
<1>10. Locked' /\ LocksApart' /\ Progress' /\ ParentsSecured'
  <2>1. \A b \in Pages \ {a} : DOMAIN req[b].tree \cap DOMAIN rows' \subseteq DOMAIN rows
    <3> SUFFICES ASSUME NEW b \in Pages \ {a}, NEW n \in DOMAIN req[b].tree \cap DOMAIN f,
                        n \notin DOMAIN rows
                 PROVE  FALSE
      BY <1>1
    <3>1. n \in Unborn
      BY DEF Unborn
    <3> QED BY <3>1 DEF Unused
  <2>2. x.held = {} /\ x.kept = {} /\ x.op # "delete" /\ x.op # "reorder"
    BY DEF Bare
  <2> QED BY <1>1, <2>1, <2>2, LocksKept
<1>11. ForeignKey' /\ NodesReachable'
  BY <1>1 DEF ForeignKey, NodesReachable
<1>12. Informed'
  <2> SUFFICES ASSUME NEW b \in Pages, sure'[b], req'[b].op # "reload"
               PROVE  /\ DOMAIN page'[b] = ShownNodes(rows')
                      /\ ~dirty'[b] => page'[b] = Tree(rows')
                      /\ req'[b].op = "reorder" => page'[b] = req'[b].tree
                      /\ req'[b].op = "insert" =>
                           \A m \in Children(rows', req'[b].row.parent) :
                             rows'[m].order < req'[b].row.order
    BY DEF Informed
  <2>1. CASE b = a
    <3>1. sure[a] /\ op = "idle" /\ x.op = "idle"
      BY <2>1, <1>2, <1>4 DEF Bare
    <3> QED BY <2>1, <3>1, <1>1, <1>2, TreeFacts
  <2>2. CASE b # a
    <3>1. sure[b] /\ rows' = rows /\ req'[b] = req[b] /\ page' = page
      BY <2>2, <1>1, <1>2, <1>4
    <3>2. ~dirty'[b] => ~dirty[b]
      BY <2>2 DEF TypeOK
    <3> QED BY <3>1, <3>2 DEF Informed
  <2> QED BY <2>1, <2>2
<1> QED BY <1>7, <1>8, <1>9, <1>10, <1>11, <1>12

LEMMA InsertStep ==
  ASSUME IInv, NEW a \in Pages, Insert(a)
  PROVE  IInv'
<1> USE DEF IInv
<1>1. PICK n, row, f : n = req[a].node /\ row = req[a].row /\ f = Inserted(n, row)
  OBVIOUS
<1>2. /\ req[a].op = "insert" /\ row.parent \in DOMAIN rows \cup {Root}
      /\ Commit(a, Reload, f) /\ UNCHANGED <<dirty, undone>>
  BY <1>1 DEF Insert
<1>3. n \in Nodes \ DOMAIN rows /\ row \in Row
  <2>1. n \in Unborn
    BY <1>1, <1>2 DEF Unborn
  <2> QED BY <1>1, <1>2, <2>1, RequestParts DEF Unused
<1>4. f = Grown(rows, n, row)
  BY <1>1 DEF Inserted, Grown
<1>5. IsForest(f) /\ ParentsExist(f) /\ (Rooted(rows) => Rooted(f))
  BY <1>2, <1>3, <1>4, InsertTree DEF TypeOK, ForeignKey
<1>6. undone' \in BOOLEAN /\ (undone' \/ Rooted(f))
  BY <1>2, <1>5 DEF TypeOK, NodesReachable
<1>7. \A b \in Pages \ {a} :
        /\ req[b].held \cup req[b].kept \subseteq DOMAIN f
        /\ \A m \in req[b].held : f[m].parent = rows[m].parent
  BY <1>3, <1>4 DEF Locked, Grown
<1>8. \A m \in DOMAIN f \ DOMAIN rows : req[a].op = "insert" /\ m = req[a].node
  BY <1>1, <1>2, <1>4 DEF Grown
<1> HIDE DEF IInv
<1> QED BY <1>2, <1>5, <1>6, <1>7, <1>8, IdleBare, CommitStep

LEMMA UpdateStep ==
  ASSUME IInv, NEW a \in Pages, Update(a)
  PROVE  IInv'
<1> USE DEF IInv
<1>1. PICK n, row, f : n = req[a].node /\ row = req[a].row /\ f = Written(n, row)
  OBVIOUS
<1>2. /\ req[a].op = "update" /\ Waits(a) = {}
      /\ n \in DOMAIN rows => NewParent(n, row) \subseteq DOMAIN rows
      /\ Commit(a, Reload, f) /\ dirty' = dirty
      /\ undone' = (undone \/ (n \in DOMAIN rows /\ rows[n].parent # row.parent))
  BY <1>1 DEF Update
<1>3. row \in Row
  BY <1>1, RequestParts
<1>4. undone' \in BOOLEAN /\ (undone => undone')
      /\ (n \in DOMAIN rows /\ rows[n].parent # row.parent => undone')
  <2>1. (undone \/ (n \in DOMAIN rows /\ rows[n].parent # row.parent)) \in BOOLEAN
    BY DEF TypeOK
  <2> QED BY <1>2, <2>1, Zenon
<1>5. CASE n \in DOMAIN rows
  <2>1. f = [rows EXCEPT ![n] = row]
    BY <1>1, <1>5 DEF Written
  <2>2. row.parent \in DOMAIN rows \cup {Root}
    BY <1>2, <1>5 DEF NewParent, ForeignKey, ParentsExist
  <2>3. /\ IsForest(f) /\ ParentsExist(f) /\ DOMAIN f = DOMAIN rows
        /\ Rooted(rows) /\ rows[n].parent = row.parent => Rooted(f)
    BY <1>3, <1>5, <2>1, <2>2, WriteTree DEF TypeOK, ForeignKey
  <2>4. undone' \/ Rooted(f)
    BY <1>4, <1>5, <2>3 DEF NodesReachable
  <2>5. \A b \in Pages \ {a} :
          /\ req[b].held \cup req[b].kept \subseteq DOMAIN f
          /\ \A m \in req[b].held : f[m].parent = rows[m].parent
    <3>1. \A b \in Pages \ {a} : n \notin req[b].held
      BY <1>1, <1>2, <1>5, WaitsNone DEF Others
    <3> QED BY <2>1, <2>3, <3>1 DEF Locked
  <2> QED BY <1>2, <1>4, <2>3, <2>4, <2>5, IdleBare, CommitStep
<1>6. CASE n \notin DOMAIN rows
  <2>1. f = rows
    BY <1>1, <1>6 DEF Written
  <2>2. IsForest(f) /\ ParentsExist(f) /\ (undone' \/ Rooted(f))
    BY <1>4, <2>1 DEF TypeOK, ForeignKey, NodesReachable
  <2> QED BY <1>2, <1>4, <2>1, <2>2, IdleBare, CommitStep DEF Locked
<1> QED BY <1>5, <1>6

LEMMA DeleteStep ==
  ASSUME IInv, NEW a \in Pages, Delete(a)
  PROVE  IInv'
<1> USE DEF IInv
<1>1. PICK n, f : n = req[a].node /\ f = WithoutNode(n)
  OBVIOUS
<1>2. /\ req[a].op = "delete" /\ Waits(a) = {}
      /\ Commit(a, Reload, f) /\ UNCHANGED <<dirty, undone>>
  BY <1>1 DEF Delete
<1>3. n \in DOMAIN rows /\ n \in Nodes /\ req[a].held = {n}
  BY <1>1, <1>2, RequestParts DEF Locked
<1>4. \A b \in Pages \ {a} :
        /\ n \notin req[b].held \cup req[b].kept
        /\ req[b].held \cap Touched(n) = {}
        /\ manager = "menu" => req[b].kept \cap Touched(n) = {}
  BY <1>1, <1>2, <1>3, WaitsNone DEF LocksApart, Others
<1>5. /\ IsForest(f) /\ ParentsExist(f) /\ (Rooted(rows) => Rooted(f)) /\ DOMAIN f \subseteq DOMAIN rows
      /\ \A b \in Pages \ {a} :
           /\ req[b].held \cup req[b].kept \subseteq DOMAIN f
           /\ \A m \in req[b].held : f[m].parent = rows[m].parent
  <2>1. CASE manager = "categories"
    <3>1. f = Orphaned(rows, n)
      BY <1>1, <2>1 DEF WithoutNode, Orphaned
    <3>2. IsForest(f) /\ ParentsExist(f) /\ (Rooted(rows) => Rooted(f))
      BY <1>3, <3>1, OrphanTree DEF TypeOK, ForeignKey
    <3>3. \A b \in Pages \ {a} : \A m \in req[b].held : m \in DOMAIN rows \ {n} /\ rows[m].parent # n
      BY <1>4, <2>1 DEF Locked, Touched, Children
    <3> QED BY <1>4, <3>1, <3>2, <3>3 DEF Locked, Orphaned
  <2>2. CASE manager # "categories"
    <3>1. manager = "menu"
      BY <2>2 DEF TypeOK
    <3>2. Touched(n) \cup {n} = Below(rows, n)
      BY <1>3, <3>1, BelowSelf DEF Touched
    <3>3. f = Pruned(rows, n)
      BY <1>1, <2>2, <3>2 DEF WithoutNode, Pruned
    <3>4. IsForest(f) /\ ParentsExist(f) /\ (Rooted(rows) => Rooted(f))
      BY <1>3, <3>3, PruneTree DEF TypeOK, ForeignKey
    <3>5. \A b \in Pages \ {a} : \A m \in req[b].held \cup req[b].kept : m \in DOMAIN rows \ Below(rows, n)
      BY <1>4, <3>1, <3>2 DEF Locked
    <3> QED BY <3>3, <3>4, <3>5 DEF Pruned
  <2> QED BY <2>1, <2>2
<1>6. undone' \in BOOLEAN /\ (undone' \/ Rooted(f))
  BY <1>2, <1>5 DEF TypeOK, NodesReachable
<1>7. \A m \in DOMAIN f \ DOMAIN rows : req[a].op = "insert" /\ m = req[a].node
  BY <1>5
<1> HIDE DEF IInv
<1> QED BY <1>2, <1>5, <1>6, <1>7, IdleBare, CommitStep

\* The whole of a saved order takes effect, as one.
LEMMA SaveCommitStep ==
  ASSUME IInv, NEW a \in Pages, SaveCommit(a)
  PROVE  IInv'
<1> USE DEF IInv
<1>1. PICK tree, H, f : tree = req[a].tree /\ H = req[a].held /\ f = SavedRows(rows, tree, H)
  OBVIOUS
<1>2. /\ req[a].op = "reorder" /\ req[a].todo = {} /\ Commit(a, Idle, f)
      /\ dirty' = [dirty EXCEPT ![a] = FALSE] /\ undone' = undone
  BY <1>1 DEF SaveCommit, Rearranged, SavedRows
<1>3. IsForest(tree) /\ IsTree(tree) /\ Rooted(tree) /\ ParentsExist(tree)
  BY <1>1, <1>2, RequestParts, ArrangementFacts DEF PagesFit, IsTree, IsForest
<1>4. H = DOMAIN tree \cap DOMAIN rows
  BY <1>1, <1>2 DEF Progress, Locked
<1>5. \A n \in H : tree[n].parent \in DOMAIN rows \cup {Root}
  <2> SUFFICES ASSUME NEW n \in H PROVE tree[n].parent \in DOMAIN rows \cup {Root}
    OBVIOUS
  <2>1. tree[n].parent \in req[a].kept \cup {Root, rows[n].parent}
    BY <1>1, <1>2 DEF ParentsSecured
  <2>2. n \in DOMAIN rows
    BY <1>4
  <2> QED BY <2>1, <2>2 DEF Locked, ForeignKey, ParentsExist
<1>6. IsForest(f) /\ ParentsExist(f) /\ (Rooted(rows) => Rooted(f)) /\ DOMAIN f = DOMAIN rows
  <2>1. DOMAIN f = DOMAIN rows
    BY <1>1 DEF SavedRows
  <2> QED BY <2>1, <1>1, <1>3, <1>4, <1>5, SavedTree DEF TypeOK, ForeignKey
<1>7. undone' \in BOOLEAN /\ (undone' \/ Rooted(f))
  BY <1>2, <1>6 DEF TypeOK, NodesReachable
<1>8. \A b \in Pages \ {a} :
        /\ req[b].held \cup req[b].kept \subseteq DOMAIN f
        /\ \A m \in req[b].held : f[m].parent = rows[m].parent
  BY <1>1, <1>6 DEF Locked, LocksApart, SavedRows
<1>9. sure[a] => page[a] = Tree(f)
  BY <1>1, <1>2, <1>3, <1>4, SavedIsShown DEF Informed, TypeOK
<1> HIDE DEF IInv
<1> QED BY <1>2, <1>6, <1>7, <1>8, <1>9, IdleBare, CommitStep

\* One UPDATE of a reorder: it takes the row's lock, and its new parent's.
LEMMA SaveRowStep ==
  ASSUME IInv, NEW a \in Pages, SaveRow(a)
  PROVE  IInv'
<1> USE DEF IInv
<1>1. PICK r : r = req[a]
  OBVIOUS
<1>2. PICK n \in NextSent(a) :
        /\ n \in DOMAIN rows => NewParent(n, r.tree[n]) \subseteq DOMAIN rows
        /\ req' = [req EXCEPT
             ![a] = Request("reorder", Root, RootRow, r.tree, r.todo \ {n},
                            r.held \cup ({n} \cap DOMAIN rows),
                            IF n \in DOMAIN rows
                            THEN r.kept \cup NewParent(n, r.tree[n]) ELSE r.kept)]
  BY <1>1 DEF SaveRow
<1>3. PICK added : added = {n} \cap DOMAIN rows
  OBVIOUS
<1>4. PICK parents : parents = IF n \in DOMAIN rows THEN NewParent(n, r.tree[n]) ELSE {}
  OBVIOUS
<1>5. PICK x : x = Request("reorder", Root, RootRow, r.tree, r.todo \ {n},
                           r.held \cup added, r.kept \cup parents)
  OBVIOUS
<1>6. req' = [req EXCEPT ![a] = x]
  BY <1>2, <1>3, <1>4, <1>5
<1>7. /\ r.op = "reorder" /\ Waits(a) = {}
      /\ UNCHANGED <<manager, rows, spare, page, dirty, asked, drags, sure, undone>>
  BY <1>1 DEF SaveRow
<1>8. n \in r.todo /\ n \in DOMAIN r.tree /\ n \in Nodes
  BY <1>1, <1>2, <1>7, RequestParts DEF NextSent, Progress
<1>9. /\ added \subseteq DOMAIN rows /\ parents \subseteq DOMAIN rows
      /\ added \subseteq Nodes /\ parents \subseteq Nodes /\ added \subseteq {n}
  BY <1>2, <1>3, <1>4 DEF TypeOK, IsForest
<1>10. /\ x.op = "reorder" /\ x.tree = r.tree /\ x.todo = r.todo \ {n}
       /\ x.held = r.held \cup added /\ x.kept = r.kept \cup parents
  BY <1>5, RequestFields
<1>11. IsForest(x.tree) /\ x \in RequestsFor(x.tree)
  <2>1. /\ r.todo \ {n} \in SUBSET Nodes /\ r.held \cup added \in SUBSET Nodes
        /\ r.kept \cup parents \in SUBSET Nodes /\ IsForest(r.tree)
    BY <1>1, <1>9, RequestParts
  <2> QED BY <1>5, <2>1, NoTreeForest, RequestType DEF Ops
<1>12. req'[a] = x /\ \A b \in Pages : b # a => req'[b] = req[b]
  BY <1>6, Replaced
<1>13. \A b \in Pages \ {a} :
         /\ added \cap req[b].held = {}
         /\ req[b].op = "delete" => req[b].held \cap parents = {}
  BY <1>1, <1>2, <1>3, <1>4, <1>7, WaitsNone DEF Others
<1>14. TypeOK'
  <2>1. /\ DOMAIN req' = Pages
        /\ \A b \in Pages : IsForest(req'[b].tree) /\ req'[b] \in RequestsFor(req'[b].tree)
    BY <1>6, <1>11, ReplacedType
  <2> QED BY <1>7, <2>1 DEF TypeOK
<1>15. Unused'
  <2>1. \A b \in Pages : req'[b].op = "insert" => b # a /\ req'[b] = req[b]
    BY <1>10, <1>12
  <2>2. Unborn' \subseteq Unborn
    BY <1>7, <2>1 DEF Unborn
  <2>3. \A b \in Pages : DOMAIN req'[b].tree = DOMAIN req[b].tree
    BY <1>1, <1>10, <1>12
  <2> QED BY <1>7, <2>1, <2>2, <2>3 DEF Unused
<1>16. PagesFit'
  BY <1>1, <1>7, <1>10, <1>12 DEF PagesFit
<1>17. Locked'
  BY <1>1, <1>7, <1>9, <1>10, <1>12 DEF Locked
<1>18. LocksApart'
  <2> SUFFICES ASSUME NEW b \in Pages, NEW c \in Pages, b # c
               PROVE  /\ req'[b].held \cap req'[c].held = {}
                      /\ req'[c].op = "delete" => req'[b].kept \cap req'[c].held = {}
    BY DEF LocksApart
  <2>1. /\ req[b].held \cap req[c].held = {}
        /\ req[c].op = "delete" => req[b].kept \cap req[c].held = {}
    BY DEF LocksApart
  <2>2. CASE b = a
    BY <2>1, <2>2, <1>1, <1>10, <1>12, <1>13
  <2>3. CASE c = a
    BY <2>1, <2>3, <1>1, <1>10, <1>12, <1>13
  <2>4. CASE b # a /\ c # a
    BY <2>1, <2>4, <1>12
  <2> QED BY <2>2, <2>3, <2>4
<1>19. Progress'
  <2>1. /\ x.held \cup x.todo \subseteq DOMAIN x.tree
        /\ (DOMAIN x.tree \ x.todo) \cap DOMAIN rows \subseteq x.held
    BY <1>1, <1>3, <1>7, <1>8, <1>9, <1>10 DEF Progress
  <2> QED BY <2>1, <1>7, <1>12 DEF Progress
<1>20. ParentsSecured'
  <2>1. \A m \in x.held : x.tree[m].parent \in x.kept \cup {Root, rows[m].parent}
    <3> SUFFICES ASSUME NEW m \in x.held
                 PROVE  x.tree[m].parent \in x.kept \cup {Root, rows[m].parent}
      OBVIOUS
    <3>1. CASE m \in r.held
      BY <3>1, <1>1, <1>7, <1>10 DEF ParentsSecured
    <3>2. CASE m \in added
      BY <3>2, <1>3, <1>4, <1>10 DEF NewParent
    <3> QED BY <3>1, <3>2, <1>10
  <2> QED BY <2>1, <1>7, <1>12 DEF ParentsSecured
<1>21. ForeignKey' /\ NodesReachable'
  BY <1>7, TableUntouched
<1>22. Informed'
  BY <1>1, <1>7, <1>10, <1>12 DEF Informed
<1> QED BY <1>14, <1>15, <1>16, <1>17, <1>18, <1>19, <1>20, <1>21, <1>22

LEMMA FailedStep ==
  ASSUME IInv, NEW a \in Pages, req[a].op # "reload", Failed(a)
  PROVE  IInv'
<1> USE DEF IInv
<1>1. /\ req' = [req EXCEPT ![a] = Idle] /\ Bare(Idle, "idle")
      /\ UNCHANGED <<manager, rows, spare, page, asked, drags, undone>>
  BY IdleBare DEF Failed
<1>2. /\ dirty' = [dirty EXCEPT ![a] = @ /\ req[a].op # "reorder"]
      /\ sure' = [sure EXCEPT ![a] = @ /\ req[a].op # "reorder"]
  BY DEF Failed
<1>3. req'[a] = Idle /\ \A b \in Pages : b # a => req'[b] = req[b]
  BY <1>1, Replaced
<1>4. \A b \in Pages : b # a => dirty'[b] = dirty[b] /\ sure'[b] = sure[b]
  BY <1>2 DEF TypeOK
<1>5. dirty' \in [Pages -> BOOLEAN] /\ sure' \in [Pages -> BOOLEAN]
  <2>1. /\ (dirty[a] /\ req[a].op # "reorder") \in BOOLEAN
        /\ (sure[a] /\ req[a].op # "reorder") \in BOOLEAN
    OBVIOUS
  <2> QED BY <1>2, <2>1 DEF TypeOK
<1>6. /\ dirty'[a] => dirty[a]
      /\ sure'[a] => sure[a] /\ req[a].op # "reorder" /\ (~dirty'[a] => ~dirty[a])
  <2>1. /\ dirty'[a] = (dirty[a] /\ req[a].op # "reorder")
        /\ sure'[a] = (sure[a] /\ req[a].op # "reorder")
    BY <1>2 DEF TypeOK
  <2> QED BY <2>1, <1>5, Zenon
<1>7. TypeOK'
  <2>1. /\ DOMAIN req' = Pages
        /\ \A b \in Pages : IsForest(req'[b].tree) /\ req'[b] \in RequestsFor(req'[b].tree)
    BY <1>1, ReplacedType DEF Bare
  <2> QED BY <1>1, <1>5, <2>1 DEF TypeOK
<1>8. Unused'
  <2>1. \A b \in Pages : req'[b].op = "insert" => b # a /\ req'[b] = req[b]
    BY <1>1, <1>3 DEF Bare
  <2>2. Unborn' \subseteq Unborn
    BY <1>1, <2>1 DEF Unborn
  <2>3. \A b \in Pages : Unborn \cap (DOMAIN page'[b] \cup DOMAIN req'[b].tree) = {}
    BY <1>1, <1>3, NoTreeForest DEF Unused, Bare
  <2> QED BY <1>1, <2>1, <2>2, <2>3 DEF Unused
<1>9. PagesFit'
  BY <1>1, <1>3, <1>4, <1>6 DEF PagesFit, Bare
<1>10. Locked' /\ LocksApart' /\ Progress' /\ ParentsSecured'
  BY <1>1, LocksUntouched DEF Bare
<1>11. ForeignKey' /\ NodesReachable'
  BY <1>1, TableUntouched
<1>12. Informed'
  BY <1>1, <1>3, <1>4, <1>6 DEF Informed, Bare
<1> QED BY <1>7, <1>8, <1>9, <1>10, <1>11, <1>12

LEMMA Step == IInv /\ [Next]_vars => IInv'
<1> SUFFICES ASSUME IInv, [Next]_vars PROVE IInv'
  OBVIOUS
<1>1. CASE Next
  <2>1. PICK a \in Pages :
          \/ Load(a) \/ Drag(a) \/ SaveBegin(a)
          \/ \E p \in Nodes \cup {Root} : CreateBegin(a, p)
          \/ \E n \in Nodes : UpdateFind(a, n) \/ DeleteLock(a, n)
          \/ Serve(a) \/ DeadlockVictim(a)
    BY <1>1 DEF Next
  <2>2. CASE Load(a) \/ Drag(a) \/ SaveBegin(a)
    BY <2>2, LoadStep, DragStep, SaveBeginStep
  <2>3. CASE \E p \in Nodes \cup {Root} : CreateBegin(a, p)
    BY <2>3, CreateBeginStep
  <2>4. CASE \E n \in Nodes : UpdateFind(a, n) \/ DeleteLock(a, n)
    BY <2>4, UpdateFindStep, DeleteLockStep
  <2>5. CASE ParentGone(a)
    <3>1. req[a].op # "reload" /\ Failed(a)
      BY <2>5 DEF ParentGone
    <3> QED BY <3>1, FailedStep
  <2>6. CASE DeadlockVictim(a)
    <3>1. req[a].op # "reload" /\ Failed(a)
      BY <2>6 DEF DeadlockVictim, IInv, Locked
    <3> QED BY <3>1, FailedStep
  <2>7. CASE Serve(a)
    BY <2>5, <2>7, InsertStep, UpdateStep, DeleteStep, SaveRowStep, SaveCommitStep DEF Serve
  <2> QED BY <2>1, <2>2, <2>3, <2>4, <2>6, <2>7
<1>2. CASE UNCHANGED vars
  BY <1>2 DEF vars, IInv, TypeOK, Unused, Unborn, PagesFit, Locked, LocksApart, Progress,
     ParentsSecured, ForeignKey, NodesReachable, Informed
<1> QED BY <1>1, <1>2

LEMMA Invariance == Spec => []IInv
BY InitIInv, Step, PTL DEF Spec

-----------------------------------------------------------------------------
(* Theorems *)

\* Every variable keeps its type: the places computed by nextSortOrder and by the
\* pages are numbers, and requests lock and write nodes only.
THEOREM ForestTyped == Spec => []TypeOK
<1>1. IInv => TypeOK
  BY DEF IInv
<1> QED BY <1>1, Invariance, PTL

\* No row names a parent that is not there, whatever reorders, deletions and
\* inserts overlap: the locks the foreign key takes while a row is written last
\* until its transaction ends (parent_id REFERENCES, in the migrations).
THEOREM ParentsAreThere == Spec => []ForeignKey
<1>1. IInv => ForeignKey
  BY DEF IInv
<1> QED BY <1>1, Invariance, PTL

\* No cycle: every node can be reached from the root, unless a rename wrote back
\* a parent that had been changed since it read the row.
THEOREM AllNodesReachable == Spec => []NodesReachable
<1>1. IInv => NodesReachable
  BY DEF IInv
<1> QED BY <1>1, Invariance, PTL

\* A page that says it is saved shows what is stored, as long as nobody else has
\* changed the tree and no save of its own has failed.
THEOREM SavedIsTrue == Spec => []SavedMeansShown
<1>1. IInv => SavedMeansShown
  BY DEF IInv, Informed, SavedMeansShown
<1> QED BY <1>1, Invariance, PTL

\* What nextSortOrder reads is still the last place when the row is inserted,
\* unless another page changed the tree.
THEOREM NewcomersLast == Spec => NewcomersComeLast
<1>1. IInv => \A a \in Pages :
        req[a].op = "insert" /\ req'[a].op = "reload" /\ sure[a] =>
          \A m \in Children(rows, req[a].row.parent) : rows[m].order < req[a].row.order
  BY DEF IInv, Informed
<1> QED BY <1>1, Invariance, PTL DEF NewcomersComeLast
=============================================================================

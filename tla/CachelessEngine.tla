-------------------------- MODULE CachelessEngine --------------------------
(***************************************************************************)
(* What the template engine promises: a render looks its header, footer    *)
(* and main template up in the table, one query each, and each part it     *)
(* puts into the page is the execution of the row that query returned.     *)
(* There is no compiled-template cache.  TemplateEngine, which has one,    *)
(* implements this module.                                                 *)
(***************************************************************************)
EXTENDS RenderPlan

VARIABLE
  view       \* view[r]: where render r is, and the parts it has produced

absVars == <<storeVars, view>>

At(pc, kind, want, html, out) ==
  [pc |-> pc, kind |-> kind, want |-> want, html |-> html, out |-> out]

NotRendering == At("done", "page", "none", Blank, NoParts)

AbsInit ==
  /\ StoreInit
  /\ view = [r \in Renders |-> NotRendering]

\* RenderPage, RenderPostList or RenderAuthorPage is called.
AbsBegin(r, k) ==
  /\ view[r].pc = "done"
  /\ view' = [view EXCEPT ![r] = At("find", k, "header", Blank, NoParts)]
  /\ UNCHANGED storeVars

\* The query returns an active row: its body is what the part will show.
AbsFind(r, t) ==
  /\ view[r].pc = "find"
  /\ t \in Activated(view[r].want)
  /\ view' = [view EXCEPT ![r] = At("exec", @.kind, @.want, rows[t].html, @.out)]
  /\ UNCHANGED storeVars

\* The query returns no row, or fails: both are treated alike.
AbsMiss(r) ==
  LET w == WantAfterMiss(view[r].kind, view[r].want) IN
  /\ view[r].pc = "find"
  /\ view' = [view EXCEPT ![r] = At(GoOn(w), @.kind, w, Blank, @.out)]
  /\ UNCHANGED storeVars

AbsExecute(r) ==
  LET w == NextWant(view[r].kind, view[r].want) IN
  /\ view[r].pc = "exec"
  /\ view' = [view EXCEPT ![r] =
                 At(GoOn(w), @.kind, w, Blank,
                    [@.out EXCEPT ![PartOf(view[r].want)] = Executed(view[r].html)])]
  /\ UNCHANGED storeVars

AbsRestart ==
  /\ StoreRestart
  /\ view' = [r \in Renders |-> NotRendering]

AbsNext ==
  \/ \E a \in Admins : (StoreStep(a) \/ InvalidateOne(a) \/ InvalidateAll(a)) /\ UNCHANGED view
  \/ \E r \in Renders : \/ \E k \in Kinds : AbsBegin(r, k)
                        \/ \E t \in Tid : AbsFind(r, t)
                        \/ AbsMiss(r)
                        \/ AbsExecute(r)
  \/ AbsRestart

AbsSpec == AbsInit /\ [][AbsNext]_absVars
=============================================================================

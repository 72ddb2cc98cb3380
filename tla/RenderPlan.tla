----------------------------- MODULE RenderPlan -----------------------------
(***************************************************************************)
(* Which templates a public page is made of and in which order the engine  *)
(* looks them up (engine/engine.go: RenderPage, RenderPostList,            *)
(* RenderAuthorPage).  Shared by the engine with and without its cache.    *)
(***************************************************************************)
EXTENDS TemplateStore

CONSTANTS
  Renders,   \* renders that can be in flight together
  Kinds,     \* the pages they render, a subset of Kind
  Broken,    \* the bodies that parse but fail when executed
  Blank      \* the html of a part that is missing or failed

Kind == {"page", "list", "author"}
Part == {"header", "footer", "main"}

ASSUME EngineAssumption ==
  /\ Kinds \subseteq Kind
  /\ Broken \subseteq Html
  /\ Blank \notin Html

\* The first type a page of each kind looks its main template up under.
MainType(k) ==
  CASE k = "page"   -> "page"
    [] k = "list"   -> "article_loop"
    [] k = "author" -> "author_page"

PartOf(ty) == IF ty \in {"header", "footer"} THEN ty ELSE "main"

\* What a render looks for once it is through with a part; "none": nothing.
NextWant(k, ty) ==
  CASE ty = "header" -> "footer"
    [] ty = "footer" -> MainType(k)
    [] OTHER         -> "none"

\* After a lookup that found nothing: an author page falls back to the
\* article_loop template; every other render goes on without the part.
WantAfterMiss(k, ty) == IF ty = "author_page" THEN "article_loop" ELSE NextWant(k, ty)

NoParts == [p \in Part |-> Blank]

\* What the page shows for a part when body h is executed.
Executed(h) == IF h \in Broken THEN Blank ELSE h

GoOn(want) == IF want = "none" THEN "done" ELSE "find"
=============================================================================

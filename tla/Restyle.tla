------------------------------ MODULE Restyle -------------------------------
(***************************************************************************)
(* Restyling a whole site with the AI template builder                     *)
(* (render/templates/admin/template_ai.html): one page generates a         *)
(* template of every type in turn, each with the earlier ones as its       *)
(* context, saves them in turn, and activates them in turn.  The three     *)
(* loops are asynchronous and suspend at every call of the server, where   *)
(* the user may click again; every call may fail or lose its answer.       *)
(*                                                                         *)
(* The page's requests for templates go through Assistant next to those of *)
(* the content editor; the page also manages the themes of DesignThemes.   *)
(* Templates are numbered in the order of their generation, and rows in    *)
(* the order of their insertion; the statements of an activation are in    *)
(* TemplateStore.  Previews change nothing and are left out.               *)
(***************************************************************************)
EXTENDS Assistant, DesignThemes, Sequences

CONSTANTS
  Builder,  \* the caller that is the builder page; the others are editors
  Steps,    \* number of template types (the page has 5)
  MaxMade,  \* bound: templates generated
  MaxRows   \* bound: templates saved

ASSUME RestyleAssumption ==
  /\ Builder \in Callers
  /\ Steps \in Nat \ {0} /\ MaxMade \in Nat /\ MaxRows \in Nat

VARIABLES
  results,    \* results[k]: the template shown for type k, or 0
  failedStep, \* the type whose generation shows an error, or 0
  step,       \* the type being generated, or 0 (restyleRunning)
  made,       \* made[n]: what template n was generated from: the templates of
              \* the earlier types that got to the AI, and 0 for the others
  saving,     \* the type being saved and the template submitted, or type 0
  savedIDs,   \* the rows that the page has saved
  saved,      \* the page says that all are saved (restyleSaveSuccess)
  queue,      \* the rows the activation loop still has to activate
  activating, \* the activation loop runs
  activated,  \* the page says that all are active (restyleActivateSuccess)
  rows,       \* rows[i]: type and template of row i
  gone,       \* rows deleted since
  onSite,     \* onSite[k]: the row that is active for type k, or 0
  everOnSite, \* history: rows that have been active
  crossed,    \* history: the user restyled while a save was under way, or
              \* saved while an activation was
  refused     \* history: a row was not activated though its request was answered

pageVars == <<results, failedStep, step, made, saving, savedIDs, saved, queue,
              activating, activated, rows, gone, onSite, everOnSite, crossed, refused>>

vars == <<assistantVars, themeVars, pageVars>>

Type == 1..Steps
Row == [type : Type, html : 0..MaxMade]

NotSaving == [type |-> 0, html |-> 0]

PageInit ==
  /\ results = [k \in Type |-> 0]
  /\ failedStep = 0 /\ step = 0 /\ made = <<>>
  /\ saving = NotSaving /\ savedIDs = <<>> /\ saved = FALSE
  /\ queue = <<>> /\ activating = FALSE /\ activated = FALSE
  /\ rows = <<>> /\ gone = {} /\ onSite = [k \in Type |-> 0]
  /\ everOnSite = {} /\ crossed = FALSE /\ refused = FALSE

siteVars == <<rows, gone, onSite, everOnSite>>
saveVars == <<saving, savedIDs, saved>>
activateVars == <<queue, activating, activated>>

HasAllResults == \A k \in Type : results[k] # 0

-----------------------------------------------------------------------------
(* Generating.                                                             *)

\* A variant that breaks Cohesive: the templates of the last run stay until they are
\* replaced.
RestyleAllOver ==
  /\ step = 0
  /\ failedStep' = 0
  /\ step' = 1
  /\ savedIDs' = <<>> /\ saved' = FALSE /\ activated' = FALSE
  /\ crossed' = (crossed \/ saving # NotSaving)
  /\ UNCHANGED <<assistantVars, themeVars, results, made, saving, queue, activating,
                 siteVars, refused>>

\* restyleAll: everything of the last run is forgotten.  A save or an activation
\* that is under way goes on.
RestyleAll ==
  /\ step = 0
  /\ results' = [k \in Type |-> 0]
  /\ failedStep' = 0
  /\ step' = 1
  /\ savedIDs' = <<>> /\ saved' = FALSE /\ activated' = FALSE
  /\ crossed' = (crossed \/ saving # NotSaving)
  /\ UNCHANGED <<assistantVars, themeVars, made, saving, queue, activating, siteVars, refused>>

\* retryFromStep: the button stands next to the error.
RetryFromStep ==
  /\ step = 0 /\ failedStep # 0
  /\ results' = [k \in Type |-> IF k < failedStep THEN results[k] ELSE 0]
  /\ step' = failedStep
  /\ failedStep' = 0
  /\ saved' = FALSE
  /\ UNCHANGED <<assistantVars, themeVars, made, saving, savedIDs, activateVars,
                 siteVars, crossed, refused>>

\* The loop sends the request for its type.
SendStep ==
  /\ step # 0
  /\ AITemplateGenerate(Builder)
  /\ UNCHANGED <<themeVars, pageVars>>

\* What type k is generated from: the templates of the earlier types, but for those
\* that are empty.  The handler cuts the text they are sent in (chat_history) to its
\* first 2000 bytes, so nothing of those after type m gets to the AI, and of m itself
\* perhaps a part.
Context(k, m) == [j \in 1..(k - 1) |-> IF j <= m THEN results[j] ELSE 0]

NextStep == IF step = Steps THEN 0 ELSE step + 1

\* The answer: a valid template goes on to the next type, and so does an empty one,
\* which is valid too but is no result; an error stops the loop.
StepAnswered ==
  /\ step # 0
  /\ Answered(Builder)
  /\ \/ /\ call[Builder].pc = "answered" /\ Len(made) < MaxMade
        /\ \E m \in 0..(step - 1) : made' = Append(made, Context(step, m))
        /\ results' = [results EXCEPT ![step] = Len(made) + 1]
        /\ step' = NextStep
        /\ UNCHANGED failedStep
     \/ /\ call[Builder].pc = "answered"
        /\ results' = [results EXCEPT ![step] = 0]
        /\ step' = NextStep
        /\ UNCHANGED <<made, failedStep>>
     \/ /\ failedStep' = step
        /\ step' = 0
        /\ UNCHANGED <<made, results>>
  /\ UNCHANGED <<themeVars, saveVars, activateVars, siteVars, crossed, refused>>

-----------------------------------------------------------------------------
(* Saving.                                                                 *)

\* A variant that breaks PageTellsTruth: the page still says that all are active.
SaveAllQuietly ==
  /\ HasAllResults /\ saving = NotSaving
  /\ saving' = [type |-> 1, html |-> results[1]]
  /\ savedIDs' = <<>> /\ saved' = FALSE
  /\ crossed' = activating
  /\ UNCHANGED <<assistantVars, themeVars, results, failedStep, step, made, activateVars,
                 siteVars, refused>>

SaveAllTemplates ==
  /\ HasAllResults /\ saving = NotSaving
  /\ saving' = [type |-> 1, html |-> results[1]]
  /\ savedIDs' = <<>> /\ saved' = FALSE /\ activated' = FALSE
  /\ crossed' = activating
  /\ UNCHANGED <<assistantVars, themeVars, results, failedStep, step, made, queue, activating,
                 siteVars, refused>>

\* AITemplateSave inserts what was submitted, unless that is empty, and the loop
\* goes on with the next type as the page shows it now.
TemplateSaved ==
  /\ saving.type # 0 /\ saving.html # 0 /\ Len(rows) < MaxRows
  /\ rows' = Append(rows, saving)
  /\ savedIDs' = Append(savedIDs, Len(rows) + 1)
  /\ IF saving.type = Steps
     THEN saving' = NotSaving /\ saved' = TRUE
     ELSE /\ saving' = [type |-> saving.type + 1, html |-> results[saving.type + 1]]
          /\ UNCHANGED saved
  /\ UNCHANGED <<assistantVars, themeVars, results, failedStep, step, made, activateVars, gone,
                 onSite, everOnSite, crossed, refused>>

\* The save is refused or fails, or its answer is lost: the loop ends.
SaveFails ==
  /\ saving.type # 0
  /\ saving' = NotSaving
  /\ \/ saving.html # 0 /\ Len(rows) < MaxRows /\ rows' = Append(rows, saving)
     \/ UNCHANGED rows
  /\ UNCHANGED <<assistantVars, themeVars, results, failedStep, step, made, savedIDs, saved,
                 activateVars, gone, onSite, everOnSite, crossed, refused>>

-----------------------------------------------------------------------------
(* Activating.                                                             *)

\* The button is there when all are saved and the page does not say yet that all
\* are active; the loop walks over the list it started with.
ActivateAllTemplates ==
  /\ saved /\ ~activated /\ ~activating
  /\ savedIDs # <<>>
  /\ queue' = savedIDs
  /\ activating' = TRUE
  /\ refused' = FALSE
  /\ UNCHANGED <<assistantVars, themeVars, results, failedStep, step, made, saveVars, activated,
                 siteVars, crossed>>

\* TemplateActivate redirects whether or not the row has been activated, and the
\* page takes the redirect for success.
ActivationAnswered ==
  /\ activating
  /\ LET i == Head(queue) IN
       \/ /\ i \notin gone
          /\ onSite' = [onSite EXCEPT ![rows[i].type] = i]
          /\ everOnSite' = everOnSite \cup {i}
          /\ UNCHANGED refused
       \/ refused' = TRUE /\ UNCHANGED <<onSite, everOnSite>>
  /\ queue' = Tail(queue)
  /\ activating' = (Len(queue) > 1)
  /\ activated' = (activated \/ Len(queue) = 1)
  /\ UNCHANGED <<assistantVars, themeVars, results, failedStep, step, made, saveVars, rows, gone,
                 crossed>>

\* The answer does not arrive: the loop ends with an error.
ActivationLost ==
  /\ activating
  /\ LET i == Head(queue) IN
       \/ /\ i \notin gone
          /\ onSite' = [onSite EXCEPT ![rows[i].type] = i]
          /\ everOnSite' = everOnSite \cup {i}
       \/ UNCHANGED <<onSite, everOnSite>>
  /\ queue' = <<>> /\ activating' = FALSE
  /\ UNCHANGED <<assistantVars, themeVars, results, failedStep, step, made, saveVars, activated,
                 rows, gone, crossed, refused>>

\* Another page deletes a row that is not active.
TemplateDelete(i) ==
  /\ i \in DOMAIN rows /\ i \notin gone
  /\ onSite[rows[i].type] # i
  /\ gone' = gone \cup {i}
  /\ UNCHANGED <<assistantVars, themeVars, results, failedStep, step, made, saveVars,
                 activateVars, rows, onSite, everOnSite, crossed, refused>>

-----------------------------------------------------------------------------

Init == AssistantInit /\ ThemesInit /\ PageInit

Next ==
  \/ RestyleAll \/ RetryFromStep \/ SendStep \/ StepAnswered
  \/ SaveAllTemplates \/ TemplateSaved \/ SaveFails
  \/ ActivateAllTemplates \/ ActivationAnswered \/ ActivationLost
  \/ \E i \in 1..MaxRows : TemplateDelete(i)
  \/ /\ \/ \E c \in Callers : Served(c)
        \/ \E c \in Callers \ {Builder} : Editor(c)
        \/ \E p \in Provider : AISetProvider(p)
        \/ Restart
     /\ UNCHANGED <<themeVars, pageVars>>
  \/ ThemesNext /\ UNCHANGED <<assistantVars, pageVars>>

Spec == Init /\ [][Next]_vars

-----------------------------------------------------------------------------

\* The types; and a row that is active is in the table.
TypeOK ==
  /\ AssistantTypeOK /\ ThemesTypeOK
  /\ results \in [Type -> 0..Len(made)]
  /\ failedStep \in 0..Steps /\ step \in 0..Steps
  /\ Len(made) <= MaxMade
  /\ saving \in Row \cup {NotSaving}
  /\ saved \in BOOLEAN /\ activating \in BOOLEAN /\ activated \in BOOLEAN
  /\ rows \in Seq(Row) /\ Len(rows) <= MaxRows
  /\ \A i \in DOMAIN savedIDs : savedIDs[i] \in DOMAIN rows
  /\ \A i \in DOMAIN queue : queue[i] \in DOMAIN rows
  /\ everOnSite \subseteq DOMAIN rows /\ gone \subseteq DOMAIN rows
  /\ \A k \in Type : onSite[k] = 0 \/ onSite[k] \in everOnSite \ gone

\* Whatever fails, is retried or is clicked again, each template the page shows
\* was generated from a beginning of the earlier ones it shows, as far as the
\* handler's 2000 bytes went, and from no other: a set is never put together from
\* two runs (restyleAll, retryFromStep).
Cohesive ==
  \A k \in Type : results[k] # 0 => \E m \in 0..(k - 1) : made[results[k]] = Context(k, m)

\* What the page says is so.
SavedAsShown ==
  saved => /\ Len(savedIDs) = Steps
           /\ \A k \in Type : rows[savedIDs[k]] = [type |-> k, html |-> results[k]]

ActiveAsSaid ==
  saved /\ activated /\ ~refused => \A k \in DOMAIN savedIDs : savedIDs[k] \in everOnSite

\* As long as the user lets a save end before restyling and an activation before
\* saving again, "saved" means that there is a row of every type with what is
\* shown, and "activated" that each of these rows has become active or that its
\* activation was refused: TemplateActivate's redirect hides that.
PageTellsTruth == ~crossed => SavedAsShown /\ ActiveAsSaid
=============================================================================

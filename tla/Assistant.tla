----------------------------- MODULE Assistant -----------------------------
(***************************************************************************)
(* The path of an AI request of one tenant through the server: the check   *)
(* of its texts by the moderators (ai/moderation.go, Registry.CheckPrompt, *)
(* checkPromptSafety), the choice of the provider (tenantAIProvider,       *)
(* AISetProvider) and the call of the provider (ai/provider.go,            *)
(* handlers/admin_ai.go).                                                  *)
(*                                                                         *)
(* A request submits one or two texts to moderation, one after the other.  *)
(* A text either breaks the moderators' policy ("bad") or does not, and a  *)
(* moderator that answers tells which.  What a handler sends to the        *)
(* provider besides the checked texts (titles, earlier html, a system      *)
(* prompt) and what it makes of the answer are left out.                   *)
(***************************************************************************)
EXTENDS Naturals

CONSTANTS
  Provider,   \* names of the providers
  Unset,      \* the value of ai_provider when the tenant has not chosen
  KeySets,    \* the sets of providers that can have a key in a process
  ActiveName, \* the provider that the environment makes the default
  Drawers,    \* the providers that can generate images
  Callers     \* requests that can be in flight together

ASSUME AssistantAssumption ==
  /\ Unset \notin Provider
  /\ KeySets \subseteq SUBSET Provider
  /\ ActiveName \in Provider
  /\ Drawers \subseteq Provider

VARIABLES
  keyed,      \* the providers that have a key in this process
  usePrimary, \* the fallback moderator still asks its primary first
  denied,     \* history: the primary has refused the key in this process
  provider,   \* the tenant's ai_provider setting
  call        \* call[c]: where request c is, and what it holds

assistantVars == <<keyed, usePrimary, denied, provider, call>>

\* NewRegistry: OpenAI and Mistral moderate, each if it has a key.
Moderators == keyed \cap {"openai", "mistral"}

\* With both keys a fallback moderator asks OpenAI first.
HasFallback == Moderators = {"openai", "mistral"}

FirstAsked ==
  IF HasFallback THEN IF usePrimary THEN "openai" ELSE "mistral"
                 ELSE CHOOSE m \in Moderators : TRUE

\* A request in flight.  left counts the texts still to be checked, the one at
\* hand included, and bad tells whether that one breaks the policy; asked is the
\* moderator or the provider that the request waits for; silent holds the
\* moderators that failed on the text at hand, and let one such set for every
\* bad text that has passed.
Call ==
  [pc : {"idle", "check", "ask", "choose", "call", "answered", "failed"},
   image : BOOLEAN, left : 0..2, bad : BOOLEAN, asked : Provider \cup {Unset},
   silent : SUBSET Provider, let : SUBSET SUBSET Provider]

Request(pc, image, left, bad, asked, silent, let) ==
  [pc |-> pc, image |-> image, left |-> left, bad |-> bad, asked |-> asked,
   silent |-> silent, let |-> let]

\* A request with nothing in its hands.
At(pc) == Request(pc, FALSE, 0, FALSE, Unset, {}, {})

AssistantInit ==
  /\ keyed \in KeySets
  /\ usePrimary = TRUE
  /\ denied = FALSE
  /\ provider = Unset
  /\ call = [c \in Callers |-> At("idle")]

Becomes(c, q) == call' = [call EXCEPT ![c] = q]

-----------------------------------------------------------------------------
(* The handlers.                                                           *)

\* A handler that submits n texts; of each it is known only whether it is bad.
Submit(c, n, image) ==
  /\ call[c].pc = "idle"
  /\ \E bad \in BOOLEAN :
       Becomes(c, Request("check", image, n, bad, Unset, {}, {}))
  /\ UNCHANGED <<keyed, usePrimary, denied, provider>>

AIGenerateContent(c) == Submit(c, 1, FALSE)
AISuggestTitle(c) == Submit(c, 1, FALSE)
AIGenerateExcerpt(c) == Submit(c, 1, FALSE)
AISEOMetadata(c) == Submit(c, 1, FALSE)
AIExtractTags(c) == Submit(c, 1, FALSE)
AITemplateGenerate(c) == Submit(c, 1, FALSE)

\* The body, and the editor's suggestion if there is one.
AIRewrite(c) == \E n \in {1, 2} : Submit(c, n, FALSE)

\* Refused at once when no provider draws.
AIGenerateImage(c) ==
  /\ keyed \cap Drawers # {}
  /\ Submit(c, 1, TRUE)

\* The answer has been written.
Answered(c) ==
  /\ call[c].pc \in {"answered", "failed"}
  /\ Becomes(c, At("idle"))
  /\ UNCHANGED <<keyed, usePrimary, denied, provider>>

-----------------------------------------------------------------------------
(* Moderation.                                                             *)

\* The text at hand has passed, on an answer or because every moderator that
\* was asked has failed: the next one is checked, or the provider chosen.
Passed(c, silent) ==
  LET q == call[c]
      let == IF q.bad THEN q.let \cup {silent} ELSE q.let
  IN IF q.left = 1
     THEN Becomes(c, Request("choose", q.image, 0, FALSE, Unset, {}, let))
     ELSE \E bad \in BOOLEAN :
            Becomes(c, Request("check", q.image, q.left - 1, bad, Unset, {}, let))

Ask(c, m, silent) ==
  LET q == call[c] IN
  Becomes(c, Request("ask", q.image, q.left, q.bad, m, silent, q.let))

\* CheckPrompt: without a moderator every text is safe.
CheckPrompt(c) ==
  /\ call[c].pc = "check"
  /\ IF Moderators = {} THEN Passed(c, {}) ELSE Ask(c, FirstAsked, {})
  /\ UNCHANGED <<keyed, usePrimary, denied, provider>>

\* The moderator answers with its verdict.
Verdict(c) ==
  /\ call[c].pc = "ask"
  /\ IF call[c].bad THEN Becomes(c, At("failed")) ELSE Passed(c, call[c].silent)
  /\ UNCHANGED <<keyed, usePrimary, denied, provider>>

\* A variant that breaks FlaggedStopped: only a refused key makes the request
\* ask the second moderator.
GiveUp(c) ==
  /\ call[c].pc = "ask"
  /\ Passed(c, call[c].silent \cup {call[c].asked})
  /\ UNCHANGED <<keyed, usePrimary, denied, provider>>

\* The moderator does not answer.  The primary's place is taken by the secondary
\* for this text; after anybody else the text passes: the check fails open.
ModeratorFails(c) ==
  LET silent == call[c].silent \cup {call[c].asked} IN
  /\ call[c].pc = "ask"
  /\ IF HasFallback /\ call[c].asked = "openai" THEN Ask(c, "mistral", silent)
                                                ELSE Passed(c, silent)
  /\ UNCHANGED <<keyed, usePrimary, denied, provider>>

\* The primary refuses the key (status 401 or 403): it is not asked again.
PrimaryDenies(c) ==
  /\ call[c].pc = "ask" /\ HasFallback /\ call[c].asked = "openai"
  /\ usePrimary' = FALSE
  /\ denied' = TRUE
  /\ Ask(c, "mistral", call[c].silent \cup {"openai"})
  /\ UNCHANGED <<keyed, provider>>

-----------------------------------------------------------------------------
(* The provider.                                                           *)

\* tenantAIProvider: the tenant's choice if this process has a key for it; the
\* default otherwise, or when the setting cannot be read.
TenantProvider == IF provider \in keyed THEN provider ELSE ActiveName

\* The registry's image generators that serve a request which names p, or none.
ImageProviders(p) ==
  LET draws == keyed \cap Drawers IN
  CASE p # Unset -> draws \cap {p}
    [] p = Unset /\ ActiveName \in draws -> {ActiveName}
    [] OTHER -> draws

CallProvider(c, p) ==
  Becomes(c, IF p \in keyed
             THEN Request("call", call[c].image, 0, FALSE, p, {}, call[c].let)
             ELSE At("failed"))

ChooseProvider(c) ==
  /\ call[c].pc = "choose" /\ ~call[c].image
  /\ \E p \in {TenantProvider, ActiveName} : CallProvider(c, p)
  /\ UNCHANGED <<keyed, usePrimary, denied, provider>>

ChooseImageProvider(c) ==
  /\ call[c].pc = "choose" /\ call[c].image
  /\ \E p \in Provider \cup {Unset} :
       \/ \E g \in ImageProviders(p) : CallProvider(c, g)
       \/ ImageProviders(p) = {} /\ Becomes(c, At("failed"))
  /\ UNCHANGED <<keyed, usePrimary, denied, provider>>

\* The provider answers; or the call fails, or the text was cut off.
TextGenerated(c) ==
  /\ call[c].pc = "call" /\ ~call[c].image
  /\ \E pc \in {"answered", "failed"} : Becomes(c, At(pc))
  /\ UNCHANGED <<keyed, usePrimary, denied, provider>>

\* An image goes into the media library like an upload (module Media).
ImageGenerated(c) ==
  /\ call[c].pc = "call" /\ call[c].image
  /\ \E pc \in {"answered", "failed"} : Becomes(c, At(pc))
  /\ UNCHANGED <<keyed, usePrimary, denied, provider>>

\* AISetProvider: only a provider that has a key can be chosen.
AISetProvider(p) ==
  /\ p \in keyed
  /\ provider' = p
  /\ UNCHANGED <<keyed, usePrimary, denied, call>>

\* The process starts again, perhaps with other keys; requests are lost.
Restart ==
  /\ keyed' \in KeySets
  /\ usePrimary' = TRUE
  /\ denied' = FALSE
  /\ call' = [c \in Callers |->
                IF call[c].pc = "idle" THEN call[c] ELSE At("failed")]
  /\ UNCHANGED provider

-----------------------------------------------------------------------------

\* The steps of the server for a request that a page has sent.
Served(c) ==
  \/ CheckPrompt(c) \/ Verdict(c) \/ ModeratorFails(c) \/ PrimaryDenies(c)
  \/ ChooseProvider(c) \/ ChooseImageProvider(c)
  \/ TextGenerated(c) \/ ImageGenerated(c)

\* The AI panel of the content editor.
Editor(c) ==
  \/ AIGenerateContent(c) \/ AISuggestTitle(c) \/ AIGenerateExcerpt(c)
  \/ AISEOMetadata(c) \/ AIRewrite(c) \/ AIExtractTags(c) \/ AIGenerateImage(c)
  \/ Answered(c)

AssistantTypeOK ==
  /\ keyed \in KeySets
  /\ usePrimary \in BOOLEAN /\ denied \in BOOLEAN
  /\ provider \in Provider \cup {Unset}
  /\ call \in [Callers -> Call]

\* A text that breaks the policy gets as far as a provider only when every
\* moderator of the process has failed on it, except a primary that has refused
\* the key: checkPromptSafety fails open, but CheckSafety of the fallback
\* moderator first tries whom else it can ask, for every text of a request and
\* whatever other requests find out meanwhile.
FlaggedStopped ==
  \A c \in Callers : \A silent \in call[c].let :
    Moderators \subseteq silent \cup (IF denied THEN {"openai"} ELSE {})
=============================================================================

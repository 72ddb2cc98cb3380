--------------------------- MODULE RestyleProofs ----------------------------
(***************************************************************************)
(* Proofs about Restyle and the two parts it is composed of, Assistant and *)
(* DesignThemes, for any number of callers, themes, activations, template  *)
(* types and templates.  No step of one part changes the variables of      *)
(* another, so each part has an invariant of its own.                      *)
(***************************************************************************)
EXTENDS Restyle, TLAPS

-----------------------------------------------------------------------------
(* The assistant.                                                          *)

\* What a step of Restyle can be for the assistant.
AssistantMove ==
  \/ \E c \in Callers :
       Served(c) \/ Answered(c)
         \/ \E n \in {1, 2}, image \in BOOLEAN : Submit(c, n, image)
  \/ \E p \in Provider : AISetProvider(p)
  \/ Restart

\* Every moderator of the process is in S, or is a primary that has refused
\* the key.
Exhausted(S) == Moderators \subseteq S \cup (IF denied THEN {"openai"} ELSE {})

\* The moderator that a request waits for is one of the process, and the last
\* it can ask unless it is the primary with a secondary behind it.
AskedRightly(c) ==
  call[c].pc = "ask" =>
    /\ call[c].asked \in Moderators
    /\ (HasFallback /\ call[c].asked = "openai")
         \/ Exhausted(call[c].silent \cup {call[c].asked})

\* A request is idle only with nothing in its hands, and has a text at hand
\* while it is checked.
HandsRight(c) ==
  /\ call[c].pc = "idle" => call[c].let = {}
  /\ call[c].pc \in {"check", "ask"} => call[c].left # 0

AssistantInv ==
  /\ AssistantTypeOK
  /\ ~usePrimary => denied
  /\ \A c \in Callers : AskedRightly(c) /\ HandsRight(c)
  /\ FlaggedStopped

\* Only the steps named in AssistantMove touch the assistant.
LEMMA AssistantMoves ==
  ASSUME [Next]_vars
  PROVE  AssistantMove \/ UNCHANGED assistantVars
<1> USE RestyleAssumption DEF AssistantMove
<1>1. CASE UNCHANGED vars
  BY <1>1 DEF vars
<1>2. CASE RestyleAll \/ RetryFromStep \/ SaveAllTemplates \/ TemplateSaved
             \/ SaveFails \/ ActivateAllTemplates \/ ActivationAnswered
             \/ ActivationLost
  BY <1>2 DEF RestyleAll, RetryFromStep, SaveAllTemplates, TemplateSaved,
       SaveFails, ActivateAllTemplates, ActivationAnswered, ActivationLost
<1>3. CASE SendStep
  BY <1>3 DEF SendStep, AITemplateGenerate
<1>4. CASE StepAnswered
  BY <1>4 DEF StepAnswered
<1>5. CASE \E i \in 1..MaxRows : TemplateDelete(i)
  BY <1>5 DEF TemplateDelete
<1>6. CASE ThemesNext /\ UNCHANGED <<assistantVars, pageVars>>
  BY <1>6
<1>7. CASE \E c \in Callers \ {Builder} : Editor(c)
  BY <1>7 DEF Editor, AIGenerateContent, AISuggestTitle, AIGenerateExcerpt,
       AISEOMetadata, AIRewrite, AIExtractTags, AIGenerateImage
<1>8. CASE \/ \E c \in Callers : Served(c)
           \/ \E p \in Provider : AISetProvider(p)
           \/ Restart
  BY <1>8
<1> QED BY <1>1, <1>2, <1>3, <1>4, <1>5, <1>6, <1>7, <1>8 DEF Next

\* A text that passes when its moderators are exhausted, or when it is not
\* bad, leaves the request sound (moderation.go:227-245).
LEMMA PassedSound ==
  ASSUME AssistantInv, NEW c \in Callers, NEW silent \in SUBSET Provider,
         call[c].pc \in {"check", "ask"},
         call[c].bad => Exhausted(silent),
         Passed(c, silent), UNCHANGED <<keyed, usePrimary, denied, provider>>
  PROVE  AssistantInv'
<1> DEFINE kept == IF call[c].bad THEN call[c].let \cup {silent} ELSE call[c].let
<1>1. call[c] \in Call /\ call \in [Callers -> Call]
  BY DEF AssistantInv, AssistantTypeOK
<1>2. kept \in SUBSET SUBSET Provider
  BY <1>1 DEF Call
<1>3. \A S \in kept : Exhausted(S)
  BY DEF AssistantInv, FlaggedStopped, Exhausted
<1>4. \E q \in Call : /\ q.pc \in {"choose", "check"} /\ q.let = kept
                      /\ q.pc = "check" => q.left # 0
                      /\ call' = [call EXCEPT ![c] = q]
  <2>1. CASE call[c].left = 1
    <3> DEFINE q == Request("choose", call[c].image, 0, FALSE, Unset, {}, kept)
    <3>1. call' = [call EXCEPT ![c] = q]
      BY <2>1 DEF Passed, Becomes
    <3> HIDE DEF kept
    <3>2. q \in Call /\ q.pc = "choose" /\ q.let = kept
      BY <1>1, <1>2 DEF Call, Request
    <3> QED BY <3>1, <3>2
  <2>2. CASE call[c].left # 1
    <3> DEFINE q(bad) ==
          Request("check", call[c].image, call[c].left - 1, bad, Unset, {}, kept)
    <3>1. PICK bad \in BOOLEAN : call' = [call EXCEPT ![c] = q(bad)]
      BY <2>2 DEF Passed, Becomes
    <3>2. call[c].left - 1 \in 0..2 /\ call[c].left - 1 # 0
      BY <1>1, <2>2 DEF Call, AssistantInv, HandsRight
    <3> HIDE DEF kept
    <3>3. /\ q(bad) \in Call /\ q(bad).pc = "check" /\ q(bad).let = kept
          /\ q(bad).left # 0
      BY <1>1, <1>2, <3>2 DEF Call, Request
    <3> QED BY <3>1, <3>3
  <2> QED BY <2>1, <2>2
<1>5. PICK q \in Call : /\ q.pc \in {"choose", "check"} /\ q.let = kept
                        /\ q.pc = "check" => q.left # 0
                        /\ call' = [call EXCEPT ![c] = q]
  BY <1>4
<1> HIDE DEF kept
<1> QED
  BY <1>1, <1>3, <1>5 DEF AssistantInv, AssistantTypeOK, AskedRightly,
     HandsRight, FlaggedStopped, Exhausted, Moderators, HasFallback

\* A request replaced by one that is empty-handed, idle only with a let that is
\* empty, and not asking, leaves the others as they are.
LEMMA ReplacedSound ==
  ASSUME AssistantInv, NEW c \in Callers, NEW q \in Call,
         q.pc # "ask", q.pc = "idle" => q.let = {}, q.pc = "check" => q.left # 0,
         q.let \subseteq call[c].let,
         call' = [call EXCEPT ![c] = q],
         UNCHANGED <<keyed, usePrimary, denied>>,
         provider' \in Provider \cup {Unset}
  PROVE  AssistantInv'
BY DEF AssistantInv, AssistantTypeOK, AskedRightly, HandsRight, FlaggedStopped,
   Exhausted, Moderators, HasFallback

\* A request that turns to a moderator of the process (moderation.go:228-240).
LEMMA AskSound ==
  ASSUME AssistantInv, NEW c \in Callers, NEW m \in Moderators,
         NEW silent \in SUBSET Provider,
         call[c].pc \in {"check", "ask"},
         usePrimary' \in BOOLEAN, denied' \in BOOLEAN,
         denied => denied', ~usePrimary' => denied',
         (HasFallback /\ m = "openai") \/ Exhausted(silent \cup {m})'
           \/ Moderators \subseteq silent \cup {m},
         Ask(c, m, silent), UNCHANGED <<keyed, provider>>
  PROVE  AssistantInv'
<1> DEFINE q == Request("ask", call[c].image, call[c].left, call[c].bad, m, silent,
                        call[c].let)
<1>1. call[c] \in Call /\ call \in [Callers -> Call] /\ keyed \in SUBSET Provider
  BY AssistantAssumption DEF AssistantInv, AssistantTypeOK
<1>2. /\ q \in Call /\ q.pc = "ask" /\ q.let = call[c].let
      /\ q.asked = m /\ q.silent = silent /\ q.left # 0
  BY <1>1 DEF Call, Request, Moderators, AssistantInv, HandsRight
<1>3. call' = [call EXCEPT ![c] = q]
  BY DEF Ask, Becomes
<1> HIDE DEF q
<1>4. AssistantTypeOK'
  BY <1>1, <1>2, <1>3 DEF AssistantInv, AssistantTypeOK
<1>5. FlaggedStopped'
  BY <1>1, <1>2, <1>3 DEF AssistantInv, FlaggedStopped, Moderators
<1>6. ASSUME NEW d \in Callers PROVE AskedRightly(d)' /\ HandsRight(d)'
  BY <1>1, <1>2, <1>3 DEF AssistantInv, AskedRightly, HandsRight, Exhausted,
     Moderators, HasFallback
<1> QED BY <1>4, <1>5, <1>6 DEF AssistantInv

\* Every step of the assistant keeps its invariant.
LEMMA AssistantKept ==
  ASSUME AssistantInv, AssistantMove
  PROVE  AssistantInv'
<1> USE AssistantAssumption
<1>0. /\ AssistantTypeOK /\ keyed \in SUBSET Provider
      /\ \A c \in Callers : call[c] \in Call
      /\ Moderators \subseteq Provider
  BY DEF AssistantInv, AssistantTypeOK, Moderators
<1>1. ASSUME NEW c \in Callers, NEW n \in {1, 2}, NEW image \in BOOLEAN,
             Submit(c, n, image)
      PROVE  AssistantInv'
  <2>1. PICK bad \in BOOLEAN :
          call' = [call EXCEPT ![c] = Request("check", image, n, bad, Unset, {}, {})]
    BY <1>1 DEF Submit, Becomes
  <2> DEFINE q == Request("check", image, n, bad, Unset, {}, {})
  <2>2. q \in Call /\ q.pc = "check" /\ q.let = {} /\ q.left # 0
    BY DEF Call, Request
  <2>3. UNCHANGED <<keyed, usePrimary, denied, provider>>
    BY <1>1 DEF Submit
  <2> HIDE DEF q
  <2> QED BY ZenonT(60), <1>0, <2>1, <2>2, <2>3, ReplacedSound DEF AssistantTypeOK, q
<1>2. ASSUME NEW c \in Callers, NEW pc \in {"idle", "answered", "failed"},
             Becomes(c, At(pc)), UNCHANGED <<keyed, usePrimary, denied, provider>>
      PROVE  AssistantInv'
  <2>1. At(pc) \in Call /\ At(pc).pc = pc /\ At(pc).let = {}
    BY DEF Call, At, Request
  <2> QED BY <1>0, <1>2, <2>1, ReplacedSound DEF Becomes, AssistantTypeOK
<1>3. ASSUME NEW c \in Callers, CheckPrompt(c) PROVE AssistantInv'
  <2>1. CASE Moderators = {}
    <3>1. Exhausted({}) /\ call[c].pc = "check" /\ Passed(c, {})
            /\ UNCHANGED <<keyed, usePrimary, denied, provider>>
      BY <1>3, <2>1 DEF CheckPrompt, Exhausted
    <3> QED BY <3>1, PassedSound
  <2>2. CASE Moderators # {}
    <3>1. PICK m : m = FirstAsked
      OBVIOUS
    <3>2. m \in Moderators
      BY <2>2, <3>1 DEF FirstAsked, HasFallback
    <3>3. Ask(c, m, {}) /\ UNCHANGED <<keyed, usePrimary, denied, provider>>
      BY <1>3, <2>2, <3>1 DEF CheckPrompt
    <3>4. \/ HasFallback /\ m = "openai"
          \/ Exhausted({} \cup {m})'
          \/ Moderators \subseteq {} \cup {m}
      <4>1. CASE HasFallback /\ ~usePrimary
        <5>1. m = "mistral" /\ denied' /\ Moderators' = {"openai", "mistral"}
          BY <3>1, <3>3, <4>1 DEF FirstAsked, HasFallback, Moderators, AssistantInv
        <5> QED BY <5>1 DEF Exhausted
      <4>2. CASE HasFallback /\ usePrimary
        BY <3>1, <4>2 DEF FirstAsked
      <4>3. CASE ~HasFallback
        BY <3>2, <4>3 DEF HasFallback, Moderators
      <4> QED BY <4>1, <4>2, <4>3
    <3>5. call[c].pc = "check" /\ (~usePrimary => denied)
            /\ usePrimary \in BOOLEAN /\ denied \in BOOLEAN
      BY <1>3 DEF CheckPrompt, AssistantInv, AssistantTypeOK
    <3> QED BY <3>2, <3>3, <3>4, <3>5, AskSound
  <2> QED BY <2>1, <2>2
<1>4. ASSUME NEW c \in Callers, Verdict(c) PROVE AssistantInv'
  <2>1. CASE call[c].bad
    BY <1>2, <1>4, <2>1 DEF Verdict
  <2>2. CASE ~call[c].bad
    <3>1. call[c].silent \in SUBSET Provider /\ call[c].pc = "ask"
            /\ Passed(c, call[c].silent)
            /\ UNCHANGED <<keyed, usePrimary, denied, provider>>
      BY <1>0, <1>4, <2>2 DEF Verdict, Call
    <3> QED BY <2>2, <3>1, PassedSound
  <2> QED BY <2>1, <2>2
<1>5. ASSUME NEW c \in Callers, ModeratorFails(c) PROVE AssistantInv'
  <2> DEFINE silent == call[c].silent \cup {call[c].asked}
  <2>1. /\ call[c].pc = "ask" /\ call[c].asked \in Moderators
        /\ silent \in SUBSET Provider
    BY <1>0, <1>5 DEF ModeratorFails, AssistantInv, AskedRightly, Call
  <2>2. CASE HasFallback /\ call[c].asked = "openai"
    <3>1. Ask(c, "mistral", silent) /\ UNCHANGED <<keyed, usePrimary, denied, provider>>
      BY <1>5, <2>2 DEF ModeratorFails
    <3>2. "mistral" \in Moderators /\ Moderators \subseteq silent \cup {"mistral"}
      BY <2>2 DEF HasFallback
    <3>3. (~usePrimary => denied) /\ usePrimary \in BOOLEAN /\ denied \in BOOLEAN
      BY DEF AssistantInv, AssistantTypeOK
    <3> HIDE DEF silent
    <3> QED BY <2>1, <3>1, <3>2, <3>3, AskSound
  <2>3. CASE ~(HasFallback /\ call[c].asked = "openai")
    <3>1. Exhausted(silent)
      BY <2>1, <2>3 DEF AssistantInv, AskedRightly
    <3>2. Passed(c, silent) /\ UNCHANGED <<keyed, usePrimary, denied, provider>>
      BY <1>5, <2>3 DEF ModeratorFails
    <3> HIDE DEF silent
    <3> QED BY <2>1, <3>1, <3>2, PassedSound
  <2> QED BY <2>2, <2>3
<1>6. ASSUME NEW c \in Callers, PrimaryDenies(c) PROVE AssistantInv'
  <2>0. PICK silent : silent = call[c].silent \cup {"openai"}
    OBVIOUS
  <2>1. "mistral" \in Moderators /\ Moderators \subseteq silent \cup {"mistral"}
    BY <1>6, <2>0 DEF PrimaryDenies, HasFallback
  <2>2. silent \in SUBSET Provider
    BY <1>0, <1>6, <2>0 DEF PrimaryDenies, HasFallback, Call
  <2>3. /\ call[c].pc = "ask" /\ Ask(c, "mistral", silent)
        /\ usePrimary' = FALSE /\ denied' = TRUE /\ UNCHANGED <<keyed, provider>>
    BY <1>6, <2>0 DEF PrimaryDenies
  <2> QED BY <2>1, <2>2, <2>3, AskSound
<1>7. ASSUME NEW c \in Callers, NEW p \in Provider, CallProvider(c, p),
             UNCHANGED <<keyed, usePrimary, denied, provider>>
      PROVE  AssistantInv'
  <2> DEFINE q == Request("call", call[c].image, 0, FALSE, p, {}, call[c].let)
  <2>1. CASE p \in keyed
    <3>1. q \in Call /\ q.pc = "call" /\ q.let = call[c].let
      BY <1>0 DEF Call, Request
    <3>2. call' = [call EXCEPT ![c] = q]
      BY <1>7, <2>1 DEF CallProvider, Becomes
    <3> HIDE DEF q
    <3> QED BY <1>0, <1>7, <3>1, <3>2, ReplacedSound DEF AssistantTypeOK
  <2>2. CASE p \notin keyed
    BY <1>2, <1>7, <2>2 DEF CallProvider
  <2> QED BY <2>1, <2>2
<1>8. ASSUME NEW c \in Callers, ChooseProvider(c) PROVE AssistantInv'
  <2>1. TenantProvider \in Provider /\ ActiveName \in Provider
    BY <1>0 DEF TenantProvider
  <2> QED BY <1>7, <1>8, <2>1 DEF ChooseProvider
<1>9. ASSUME NEW c \in Callers, ChooseImageProvider(c) PROVE AssistantInv'
  <2>1. ASSUME NEW p \in Provider \cup {Unset}, NEW g \in ImageProviders(p)
        PROVE  g \in Provider
    BY <1>0, <2>1 DEF ImageProviders
  <2> QED BY <1>2, <1>7, <1>9, <2>1 DEF ChooseImageProvider
<1>10. ASSUME NEW c \in Callers, TextGenerated(c) \/ ImageGenerated(c)
       PROVE  AssistantInv'
  BY <1>2, <1>10 DEF TextGenerated, ImageGenerated
<1>11. ASSUME NEW c \in Callers, Answered(c) PROVE AssistantInv'
  BY <1>2, <1>11 DEF Answered
<1>12. ASSUME NEW p \in Provider, AISetProvider(p) PROVE AssistantInv'
  BY <1>12 DEF AISetProvider, AssistantInv, AssistantTypeOK, AskedRightly,
     HandsRight, FlaggedStopped, Exhausted, Moderators, HasFallback
<1>13. ASSUME Restart PROVE AssistantInv'
  <2>1. At("failed") \in Call /\ At("failed").pc = "failed" /\ At("failed").let = {}
    BY DEF Call, At, Request
  <2>2. \A c \in Callers :
          call'[c] \in Call /\ call'[c].pc # "ask" /\ call'[c].let = {}
    BY <1>0, <1>13, <2>1 DEF Restart, AssistantInv, HandsRight
  <2>3. \A c \in Callers : call'[c].pc \in {"idle", "failed"}
    BY <1>13, <2>1 DEF Restart
  <2>4. AssistantTypeOK'
    BY <1>0, <1>13, <2>2 DEF Restart, AssistantTypeOK
  <2>5. FlaggedStopped' /\ (~usePrimary => denied)'
    BY <1>13, <2>2 DEF Restart, FlaggedStopped
  <2>6. ASSUME NEW c \in Callers PROVE AskedRightly(c)' /\ HandsRight(c)'
    BY <2>2, <2>3 DEF AskedRightly, HandsRight
  <2> QED BY <2>4, <2>5, <2>6 DEF AssistantInv
<1> QED
  BY <1>1, <1>3, <1>4, <1>5, <1>6, <1>8, <1>9, <1>10, <1>11, <1>12, <1>13
  DEF AssistantMove, Served

\* The assistant's invariant holds in every reachable state.
LEMMA AssistantCorrect == Spec => []AssistantInv
<1>1. Init => AssistantInv
  <2> SUFFICES ASSUME Init PROVE AssistantInv
    OBVIOUS
  <2>1. At("idle") \in Call /\ At("idle").pc = "idle" /\ At("idle").let = {}
    BY DEF At, Request, Call
  <2>2. AssistantTypeOK
    BY <2>1 DEF Init, AssistantInit, AssistantTypeOK
  <2>3. \A c \in Callers : call[c] = At("idle")
    BY DEF Init, AssistantInit
  <2> QED BY <2>1, <2>2, <2>3 DEF Init, AssistantInit, AssistantInv, AskedRightly,
             HandsRight, FlaggedStopped
<1>2. AssistantInv /\ [Next]_vars => AssistantInv'
  <2> SUFFICES ASSUME AssistantInv, [Next]_vars PROVE AssistantInv'
    OBVIOUS
  <2>1. CASE UNCHANGED assistantVars
    BY <2>1 DEF assistantVars, AssistantInv, AssistantTypeOK, AskedRightly,
       HandsRight, FlaggedStopped, Exhausted, Moderators, HasFallback
  <2> QED BY <2>1, AssistantMoves, AssistantKept
<1> QED BY <1>1, <1>2, PTL DEF Spec

\* A text that breaks the policy reaches a provider only when every moderator
\* of the process has failed on it, but for a primary that has refused the key
\* (checkPromptSafety, moderation.go:227-245), however many requests overlap.
THEOREM ModerationHolds == Spec => []FlaggedStopped
<1>1. AssistantInv => FlaggedStopped
  BY DEF AssistantInv
<1> QED BY <1>1, AssistantCorrect, PTL

-----------------------------------------------------------------------------
(* The themes.                                                             *)

\* An activation has found themes of its session's tenant only.
ThemesInv ==
  /\ ThemesTypeOK
  /\ \A a \in Activators :
       activation[a].pc = "swap" => activation[a].seen = Of(activation[a].tenant, activation[a].seen)

\* Only the steps of DesignThemes touch the themes.
LEMMA ThemesMoves ==
  ASSUME [Next]_vars
  PROVE  ThemesNext \/ UNCHANGED themeVars
<1>1. CASE UNCHANGED vars
  BY <1>1 DEF vars
<1>2. CASE RestyleAll \/ RetryFromStep \/ SendStep \/ StepAnswered
             \/ SaveAllTemplates \/ TemplateSaved \/ SaveFails
             \/ ActivateAllTemplates \/ ActivationAnswered \/ ActivationLost
  BY <1>2 DEF RestyleAll, RetryFromStep, SendStep, StepAnswered, SaveAllTemplates,
     TemplateSaved, SaveFails, ActivateAllTemplates, ActivationAnswered,
     ActivationLost
<1>3. CASE \E i \in 1..MaxRows : TemplateDelete(i)
  BY <1>3 DEF TemplateDelete
<1> QED BY <1>1, <1>2, <1>3 DEF Next

\* A step of DesignThemes keeps its types, and takes the last active theme of a
\* tenant away only by a deactivation that names it or by an activation of another
\* tenant's theme (design_theme.go:114-165).
LEMMA ThemesKept ==
  ASSUME ThemesInv, ThemesNext
  PROVE  /\ ThemesInv'
         /\ \A t \in active :
              Of(Owner[t], active') = {} =>
                t \in themes' /\ (AIThemeDeactivate(t) \/ LostAbroad(t))
<1> USE ThemesAssumption
<1>0. /\ themes \subseteq everBorn /\ everBorn \subseteq Theme /\ active \subseteq themes
      /\ activation \in [Activators -> Activation]
      /\ \A t \in active : t \in Of(Owner[t], active)
  BY DEF ThemesInv, ThemesTypeOK, Of
<1>1. ASSUME NEW t \in Theme, AIThemeCreate(t)
      PROVE  ThemesInv' /\ active' = active
  BY <1>0, <1>1 DEF AIThemeCreate, ThemesInv, ThemesTypeOK, Of
<1>2. ASSUME NEW t \in Theme, AIThemeDeactivate(t)
      PROVE  ThemesInv' /\ active' = active \ {t} /\ themes' = themes
  BY <1>0, <1>2 DEF AIThemeDeactivate, ThemesInv, ThemesTypeOK, Of
<1>3. ASSUME NEW t \in Theme, AIThemeDelete(t)
      PROVE  ThemesInv' /\ active' = active
  BY <1>0, <1>3 DEF AIThemeDelete, ThemesInv, ThemesTypeOK, Of
<1>4. ASSUME NEW t \in Theme, NEW a \in Activators, NEW n \in Tenant, AIThemeActivate(a, t, n)
      PROVE  ThemesInv' /\ active' = active
  <2>1. PICK found : found = Of(n, active)
    OBVIOUS
  <2>2. found \in SUBSET Theme /\ found = Of(n, found)
    BY <1>0, <2>1 DEF Of
  <2>3. PICK q : q = [pc |-> "swap", id |-> t, tenant |-> n, seen |-> found]
    OBVIOUS
  <2>4. q \in Activation /\ q.tenant = n /\ q.seen = found
    BY <2>2, <2>3 DEF Activation
  <2>5. /\ activation' = [activation EXCEPT ![a] = q]
        /\ UNCHANGED <<themes, active, everBorn>>
    BY <1>4, <2>1, <2>3 DEF AIThemeActivate
  <2>6. \A b \in Activators : activation'[b] = IF b = a THEN q ELSE activation[b]
    BY <1>0, <2>5
  <2>7. ThemesTypeOK'
    BY <1>0, <2>4, <2>5 DEF ThemesTypeOK
  <2> QED BY <2>2, <2>4, <2>5, <2>6, <2>7 DEF ThemesInv
<1>5. NoActivation \in Activation /\ NoActivation.pc # "swap"
  BY DEF NoActivation, Activation
<1>6. ASSUME NEW a \in Activators, Activated(a)
      PROVE  /\ ThemesInv'
             /\ \A t \in active :
                  Of(Owner[t], active') = {} => t \in themes' /\ LostAbroad(t)
  <2>1. PICK id \in Theme, n \in Tenant, seen \in SUBSET Theme :
          /\ id = activation[a].id /\ n = activation[a].tenant
          /\ seen = activation[a].seen
    BY <1>0, <1>6 DEF Activated, Activation
  <2>2. /\ activation[a].pc = "swap"
        /\ themes' = themes /\ everBorn' = everBorn
        /\ activation' = [activation EXCEPT ![a] = NoActivation]
        /\ \/ active' = active
           \/ active' = (active \ seen) \cup {id} /\ id \in themes
    BY <1>6, <2>1 DEF Activated
  <2>3. ThemesInv'
    BY <1>0, <1>5, <2>2 DEF ThemesInv, ThemesTypeOK, Of
  <2>4. ASSUME NEW t \in active, Of(Owner[t], active') = {}
        PROVE  t \in themes' /\ LostAbroad(t)
    <3>1. t \notin active'
      BY <2>4 DEF Of
    <3>2. t \in seen /\ id \in themes /\ id \in active'
      BY <2>2, <3>1
    <3>3. Owner[t] = n
      BY <2>1, <2>2, <3>2 DEF ThemesInv, Of
    <3>4. Owner[id] # Owner[t]
      BY <2>4, <3>2 DEF Of
    <3>5. activation'[a] = NoActivation
      BY <1>0, <2>2
    <3> QED BY <1>0, <2>1, <2>2, <3>2, <3>3, <3>4, <3>5 DEF LostAbroad
  <2> QED BY <2>3, <2>4
<1>7. ASSUME NEW a \in Activators, ActivationFails(a)
      PROVE  ThemesInv' /\ active' = active
  BY <1>0, <1>5, <1>7 DEF ActivationFails, ThemesInv, ThemesTypeOK, Of
<1>8. ThemesInv'
  BY <1>1, <1>2, <1>3, <1>4, <1>6, <1>7 DEF ThemesNext
<1>9. ASSUME NEW t \in active, Of(Owner[t], active') = {}
      PROVE  t \in themes' /\ (AIThemeDeactivate(t) \/ LostAbroad(t))
  <2>1. CASE \E a \in Activators : Activated(a)
    BY <1>6, <1>9, <2>1
  <2>2. CASE \E s \in Theme : AIThemeDeactivate(s)
    <3>1. PICK s \in Theme : AIThemeDeactivate(s)
      BY <2>2
    <3>2. t \notin active'
      BY <1>9 DEF Of
    <3>3. s = t /\ themes' = themes
      BY <1>2, <3>1, <3>2
    <3> QED BY <1>0, <3>1, <3>3
  <2>3. CASE active' = active
    BY <1>0, <1>9, <2>3
  <2> QED BY <1>1, <1>3, <1>4, <1>7, <2>1, <2>2, <2>3 DEF ThemesNext
<1> QED BY <1>8, <1>9

\* The themes' invariant holds in every reachable state.
LEMMA ThemesCorrect == Spec => []ThemesInv
<1>1. Init => ThemesInv
  BY DEF Init, ThemesInit, ThemesInv, ThemesTypeOK, Activation, NoActivation
<1>2. ThemesInv /\ [Next]_vars => ThemesInv'
  <2> SUFFICES ASSUME ThemesInv, [Next]_vars PROVE ThemesInv'
    OBVIOUS
  <2>1. CASE UNCHANGED themeVars
    BY <2>1 DEF themeVars, ThemesInv, ThemesTypeOK, Of
  <2> QED BY <2>1, ThemesMoves, ThemesKept
<1> QED BY <1>1, <1>2, PTL DEF Spec

\* However activations, deletions and sessions of several tenants overlap, a tenant
\* is left without an active theme only by a deactivation that names it, or by an
\* activation from its own session of another tenant's theme, which
\* DesignThemeStore.Activate does not refuse.
THEOREM ActiveThemeStays == Spec => ThemeStays
<1>1. ASSUME ThemesInv, [Next]_vars
      PROVE  [\A t \in active :
                Of(Owner[t], active') = {} =>
                  t \in themes' /\ (AIThemeDeactivate(t) \/ LostAbroad(t))]_themeVars
  BY <1>1, ThemesMoves, ThemesKept
<1> QED BY <1>1, ThemesCorrect, PTL DEF Spec, ThemeStays

-----------------------------------------------------------------------------
(* The page.                                                               *)

Contexts == UNION {[1..(k - 1) -> 0..MaxMade] : k \in Type}

PageTypes ==
  /\ results \in [Type -> 0..Len(made)]
  /\ failedStep \in 0..Steps /\ step \in 0..Steps
  /\ made \in Seq(Contexts) /\ Len(made) <= MaxMade
  /\ crossed \in BOOLEAN /\ refused \in BOOLEAN
SaveTypes ==
  /\ saving \in Row \cup {NotSaving}
  /\ rows \in Seq(Row) /\ Len(rows) <= MaxRows
  /\ savedIDs \in Seq(Nat) /\ \A i \in DOMAIN savedIDs : savedIDs[i] \in DOMAIN rows
  /\ saved \in BOOLEAN
SiteTypes ==
  /\ queue \in Seq(Nat) /\ \A i \in DOMAIN queue : queue[i] \in DOMAIN rows
  /\ activating \in BOOLEAN /\ activated \in BOOLEAN
  /\ everOnSite \subseteq DOMAIN rows /\ gone \subseteq DOMAIN rows
  /\ \A k \in Type : onSite[k] = 0 \/ onSite[k] \in everOnSite \ gone

\* The types from the one being generated on have no template, nor has the one
\* whose generation failed.
Generating ==
  /\ step # 0 => failedStep = 0 /\ \A k \in Type : k >= step => results[k] = 0
  /\ failedStep # 0 => results[failedStep] = 0

\* The loops run over something, and a row is active for its own type.
Looping ==
  /\ activating => queue # <<>>
  /\ saving # NotSaving => ~saved
  /\ onSite \in [Type -> Nat]
  /\ \A k \in Type : onSite[k] # 0 => rows[onSite[k]].type = k

\* The rows of the first n types hold what is shown.
StoredUpTo(n) ==
  /\ Len(savedIDs) = n
  /\ \A k \in 1..n : rows[savedIDs[k]] = [type |-> k, html |-> results[k]]

\* A save that nothing has crossed stores what is shown, and the activation
\* loop has behind it what it has activated.
SaveOnCourse ==
  /\ saving # NotSaving =>
       /\ step = 0 /\ HasAllResults /\ ~activating /\ ~activated
       /\ saving.html = results[saving.type]
       /\ StoredUpTo(saving.type - 1)
  /\ saved => step = 0 /\ StoredUpTo(Steps)
ActivationOnCourse ==
  /\ saved /\ activating =>
       \A k \in DOMAIN savedIDs :
         \/ savedIDs[k] \in everOnSite \/ refused
         \/ \E j \in DOMAIN queue : queue[j] = savedIDs[k]
  /\ ActiveAsSaid

PageInv ==
  /\ PageTypes /\ SaveTypes /\ SiteTypes
  /\ Generating /\ Cohesive /\ Looping
  /\ ~crossed => SaveOnCourse /\ ActivationOnCourse

PageMove ==
  \/ RestyleAll \/ RetryFromStep \/ StepAnswered
  \/ SaveAllTemplates \/ TemplateSaved \/ SaveFails
  \/ ActivateAllTemplates \/ ActivationAnswered \/ ActivationLost
  \/ \E i \in 1..MaxRows : TemplateDelete(i)

\* Only the steps named in PageMove touch the page and its rows.
LEMMA PageMoves ==
  ASSUME [Next]_vars
  PROVE  PageMove \/ UNCHANGED pageVars
<1>1. CASE UNCHANGED vars
  BY <1>1 DEF vars
<1>2. CASE SendStep
  BY <1>2 DEF SendStep
<1> QED BY <1>1, <1>2 DEF Next, PageMove

\* restyleAll and retryFromStep (template_ai.html:1074-1097, 1154-1178) leave
\* the types from the one they begin with empty.
LEMMA BeginKept ==
  ASSUME PageInv, RestyleAll \/ RetryFromStep
  PROVE  PageInv'
<1> USE RestyleAssumption
<1>0. /\ results \in [Type -> 0..Len(made)] /\ Len(made) \in Nat
      /\ 1 \in Type /\ Type \subseteq 1..Steps
  BY DEF PageInv, PageTypes, Type
<1>1. CASE RestyleAll
  <2> USE <1>0, <1>1 DEF RestyleAll, siteVars
  <2>1. PageTypes' /\ Generating'
    BY DEF PageInv, PageTypes, Generating
  <2>2. SaveTypes' /\ SiteTypes' /\ Looping'
    <3>1. SaveTypes'
      <4>1. savedIDs' = <<>> /\ saved' = FALSE /\ Row' = Row
            /\ saving' = saving /\ rows' = rows
        BY DEF Row, Type
      <4>2. savedIDs' \in Seq(Nat) /\ DOMAIN savedIDs' = {}
        BY <4>1
      <4>3. saving' \in Row \cup {NotSaving} /\ rows' \in Seq(Row)
              /\ Len(rows') <= MaxRows
        BY <4>1 DEF PageInv, SaveTypes
      <4> QED BY <4>1, <4>2, <4>3 DEF SaveTypes, NotSaving
    <3>2. SiteTypes'
      BY DEF PageInv, SiteTypes
    <3>3. Looping'
      BY DEF PageInv, Looping, NotSaving
    <3> QED BY <3>1, <3>2, <3>3
  <2>3. Cohesive'
    BY DEF Cohesive
  <2>4. ~crossed' => SaveOnCourse' /\ ActivationOnCourse'
    BY DEF SaveOnCourse, ActivationOnCourse, ActiveAsSaid
  <2> QED BY <2>1, <2>2, <2>3, <2>4 DEF PageInv
<1>2. CASE RetryFromStep
  <2> USE <1>0, <1>2 DEF RetryFromStep, siteVars, activateVars
  <2>1. PageTypes' /\ Generating'
    BY DEF PageInv, PageTypes, Generating, Type
  <2>2. SaveTypes' /\ SiteTypes' /\ Looping'
    BY DEF PageInv, SaveTypes, SiteTypes, Looping, Row, NotSaving
  <2>3. Cohesive'
    <3>1. SUFFICES ASSUME NEW k \in Type, results'[k] # 0
                   PROVE  \E m \in 0..(k - 1) : made'[results'[k]] = Context(k, m)'
      BY DEF Cohesive
    <3>2. k \in Nat /\ failedStep \in Nat /\ k < failedStep /\ results'[k] = results[k]
      BY <3>1 DEF PageInv, PageTypes, Type
    <3>3. \A j \in 1..(k - 1) : results'[j] = results[j]
      BY <3>2 DEF Type
    <3>4. PICK m \in 0..(k - 1) : made[results[k]] = Context(k, m)
      BY <3>1, <3>2 DEF PageInv, Cohesive
    <3>5. Context(k, m)' = Context(k, m)
      BY <3>3 DEF Context
    <3> QED BY <3>2, <3>4, <3>5
  <2>4. ~crossed' => SaveOnCourse' /\ ActivationOnCourse'
    <3>1. ~HasAllResults
      BY DEF PageInv, PageTypes, Generating, HasAllResults, Type
    <3> QED BY <3>1 DEF PageInv, SaveOnCourse, ActivationOnCourse, ActiveAsSaid
  <2> QED BY <2>1, <2>2, <2>3, <2>4 DEF PageInv
<1> QED BY <1>1, <1>2

\* Templates that stay as they are stay cohesive.
LEMMA CohesiveKept ==
  ASSUME Cohesive, UNCHANGED <<results, made>>
  PROVE  Cohesive'
<1>1. \A k, m : Context(k, m)' = Context(k, m)
  BY DEF Context
<1> QED BY <1>1 DEF Cohesive

\* A new template is generated from what is shown for the earlier types, as far as
\* it gets to the AI (template_ai.html:1099-1147), and a step that ends without
\* one leaves its type as it was, empty.
LEMMA StepAnsweredKept ==
  ASSUME PageInv, StepAnswered
  PROVE  PageInv'
<1> USE RestyleAssumption
<1>0. /\ results \in [Type -> 0..Len(made)] /\ Len(made) \in Nat
      /\ step \in Type /\ Type = 1..Steps /\ made \in Seq(Contexts)
  BY DEF PageInv, PageTypes, Type, StepAnswered
<1>1. SaveTypes' /\ SiteTypes' /\ Looping'
  BY DEF StepAnswered, siteVars, saveVars, activateVars, PageInv, SaveTypes,
     SiteTypes, Looping, Row, NotSaving
<1>2. ~crossed' => SaveOnCourse' /\ ActivationOnCourse'
  BY DEF StepAnswered, siteVars, saveVars, activateVars, PageInv, SaveOnCourse,
     ActivationOnCourse, ActiveAsSaid, NotSaving
<1>3. crossed' \in BOOLEAN /\ refused' \in BOOLEAN
  BY DEF StepAnswered, PageInv, PageTypes
<1>4. CASE /\ failedStep' = step /\ step' = 0
           /\ UNCHANGED <<made, results>>
  <2>1. PageTypes' /\ Cohesive'
    BY <1>0, <1>3, <1>4, CohesiveKept DEF PageInv, PageTypes
  <2>2. Generating'
    BY <1>0, <1>4 DEF PageInv, PageTypes, Generating, StepAnswered
  <2> QED BY <1>1, <1>2, <2>1, <2>2 DEF PageInv
<1>5. CASE /\ Len(made) < MaxMade
           /\ \E m \in 0..(step - 1) : made' = Append(made, Context(step, m))
           /\ results' = [results EXCEPT ![step] = Len(made) + 1]
           /\ step' = NextStep
           /\ UNCHANGED failedStep
  <2>0. PICK m \in 0..(step - 1) : made' = Append(made, Context(step, m))
    BY <1>5
  <2>1. Context(step, m) \in [1..(step - 1) -> 0..MaxMade]
    BY <1>0, <1>5 DEF Context
  <2>2. Context(step, m) \in Contexts
    BY <1>0, <2>1 DEF Contexts
  <2>3. /\ made' \in Seq(Contexts) /\ Len(made') = Len(made) + 1
        /\ made'[Len(made) + 1] = Context(step, m)
        /\ \A n \in 1..Len(made) : made'[n] = made[n]
    BY <1>0, <2>0, <2>2
  <2>4. results' \in [Type -> 0..Len(made')]
    BY <1>0, <1>5, <2>3
  <2>5. PageTypes'
    BY <1>0, <1>3, <1>5, <2>3, <2>4 DEF PageInv, PageTypes, NextStep
  <2>6. Generating'
    BY <1>0, <1>5 DEF PageInv, PageTypes, Generating, StepAnswered, NextStep
  <2>7. Cohesive'
    <3>1. SUFFICES ASSUME NEW k \in Type, results'[k] # 0
                   PROVE  \E n \in 0..(k - 1) : made'[results'[k]] = Context(k, n)'
      BY DEF Cohesive
    <3>2. k <= step
      BY <1>0, <1>5, <3>1 DEF PageInv, Generating, StepAnswered
    <3>3. \A j \in 1..(k - 1) : results'[j] = results[j]
      BY <1>0, <1>5, <3>2
    <3>4. CASE k = step
      <4>1. results'[k] = Len(made) + 1
        BY <1>0, <1>5, <3>4
      <4>2. Context(k, m)' = Context(step, m)
        BY <3>3, <3>4 DEF Context
      <4> QED BY <2>3, <3>4, <4>1, <4>2
    <3>5. CASE k < step
      <4>1. results'[k] = results[k] /\ results[k] \in 1..Len(made)
        BY <1>0, <1>5, <3>1, <3>5
      <4>2. PICK n \in 0..(k - 1) : made[results[k]] = Context(k, n)
        BY <3>1, <4>1 DEF PageInv, Cohesive
      <4>3. Context(k, n)' = Context(k, n)
        BY <3>3 DEF Context
      <4> QED BY <2>3, <4>1, <4>2, <4>3
    <3> QED BY <1>0, <3>2, <3>4, <3>5
  <2> QED BY <1>1, <1>2, <2>5, <2>6, <2>7 DEF PageInv
<1>6. CASE /\ results' = [results EXCEPT ![step] = 0]
           /\ step' = NextStep
           /\ UNCHANGED <<made, failedStep>>
  <2>1. results' = results
    BY <1>0, <1>6 DEF PageInv, Generating, StepAnswered
  <2>2. PageTypes' /\ Generating'
    BY <1>0, <1>3, <1>6, <2>1 DEF PageInv, PageTypes, Generating, NextStep, StepAnswered
  <2>3. Cohesive'
    BY <1>6, <2>1, CohesiveKept DEF PageInv
  <2> QED BY <1>1, <1>2, <2>2, <2>3 DEF PageInv
<1> QED BY <1>4, <1>5, <1>6 DEF StepAnswered

\* A step of the saving or of the activation loop leaves the templates shown.
LEMMA ShownKept ==
  ASSUME PageInv, UNCHANGED <<results, failedStep, step, made>>,
         crossed' \in BOOLEAN, refused' \in BOOLEAN
  PROVE  PageTypes' /\ Generating' /\ Cohesive'
BY CohesiveKept DEF PageInv, PageTypes, Generating

\* saveAllTemplates (template_ai.html:1267-1307): the rows saved so far are
\* those of the earlier types.
LEMMA SavingKept ==
  ASSUME PageInv, SaveAllTemplates \/ TemplateSaved \/ SaveFails
  PROVE  PageInv'
<1> USE RestyleAssumption
<1>0. /\ results \in [Type -> 0..Len(made)] /\ Len(made) \in 0..MaxMade
      /\ Type = 1..Steps /\ step \in 0..Steps
      /\ rows \in Seq(Row) /\ Len(rows) \in Nat
      /\ savedIDs \in Seq(Nat) /\ \A i \in DOMAIN savedIDs : savedIDs[i] \in 1..Len(rows)
      /\ activating \in BOOLEAN /\ crossed \in BOOLEAN /\ refused \in BOOLEAN
  BY DEF PageInv, PageTypes, SaveTypes, SiteTypes, Type
<1>1. ASSUME NEW k \in Type PROVE [type |-> k, html |-> results[k]] \in Row
  BY <1>0 DEF Row
<1>2. CASE SaveAllTemplates
  <2> USE <1>2 DEF SaveAllTemplates, siteVars
  <2>1. PageTypes' /\ Generating' /\ Cohesive'
    BY <1>0, ShownKept
  <2>2. saving' \in Row /\ saving'.type = 1 /\ saving'.html = results[1]
    BY <1>0, <1>1
  <2>3. savedIDs' = <<>> /\ savedIDs' \in Seq(Nat) /\ Len(savedIDs') = 0
          /\ DOMAIN savedIDs' = {} /\ saved' = FALSE /\ rows' = rows /\ activated' = FALSE
    OBVIOUS
  <2>4. SaveTypes'
    BY <2>2, <2>3 DEF PageInv, SaveTypes, Row, NotSaving
  <2>5. SiteTypes' /\ Looping'
    BY DEF PageInv, SiteTypes, Looping
  <2>6. HasAllResults' /\ step' = 0
    <3>1. HasAllResults
      OBVIOUS
    <3> QED BY <1>0, <3>1 DEF PageInv, Generating, HasAllResults
  <2>7. StoredUpTo(0)'
    BY <2>3 DEF StoredUpTo
  <2>8. ~crossed' => SaveOnCourse' /\ ActivationOnCourse'
    BY <1>0, <2>2, <2>3, <2>6, <2>7 DEF SaveOnCourse, ActivationOnCourse, ActiveAsSaid
  <2> QED BY <2>1, <2>4, <2>5, <2>8 DEF PageInv
<1>3. CASE TemplateSaved
  <2> USE <1>3 DEF TemplateSaved, activateVars
  <2>1. PageTypes' /\ Generating' /\ Cohesive'
    BY <1>0, ShownKept
  <2>2. saving \in Row /\ saving.type \in Type /\ saving # NotSaving
    BY DEF PageInv, SaveTypes, Row, NotSaving
  <2>3. /\ rows' \in Seq(Row) /\ Len(rows') = Len(rows) + 1
        /\ rows'[Len(rows) + 1] = saving
        /\ \A i \in 1..Len(rows) : rows'[i] = rows[i]
    BY <1>0, <2>2
  <2>4. /\ savedIDs' \in Seq(Nat) /\ Len(savedIDs') = Len(savedIDs) + 1
        /\ savedIDs'[Len(savedIDs) + 1] = Len(rows) + 1
        /\ \A i \in 1..Len(savedIDs) : savedIDs'[i] = savedIDs[i]
    BY <1>0
  <2>5. /\ \/ saving' = NotSaving /\ saved' = TRUE /\ saving.type = Steps
           \/ /\ saving.type + 1 \in Type /\ saved' = saved
              /\ saving' = [type |-> saving.type + 1, html |-> results[saving.type + 1]]
        /\ saved' \in BOOLEAN
    <3>1. \A k \in Type : k = Steps \/ k + 1 \in Type
      BY <1>0 DEF Type
    <3> QED BY <2>2, <3>1 DEF PageInv, SaveTypes
  <2>6. SaveTypes'
    <3>1. saving' \in Row \cup {NotSaving}
      BY <1>1, <2>5
    <3>2. \A i \in DOMAIN savedIDs' : savedIDs'[i] \in DOMAIN rows'
      BY SMTT(30), <1>0, <2>3, <2>4
    <3>3. Len(rows') <= MaxRows
      BY <1>0, <2>3
    <3> QED BY <2>3, <2>4, <2>5, <3>1, <3>2, <3>3 DEF SaveTypes, Row, NotSaving, Type
  <2>7. SiteTypes'
    BY SMTT(30), <1>0, <2>3 DEF PageInv, SiteTypes
  <2>8. Looping'
    <3>1. \A k \in Type : onSite[k] # 0 => onSite[k] \in 1..Len(rows)
      BY <1>0 DEF PageInv, SiteTypes
    <3> QED BY <2>2, <2>3, <2>5, <3>1 DEF PageInv, Looping
  <2>9. ASSUME ~crossed' PROVE SaveOnCourse' /\ ActivationOnCourse'
    <3>1. /\ step = 0 /\ HasAllResults /\ ~activating /\ ~activated
          /\ saving.html = results[saving.type] /\ StoredUpTo(saving.type - 1)
          /\ ~saved
      BY <2>2, <2>9 DEF PageInv, SaveOnCourse, Looping
    <3>2. PICK n : n = saving.type
      OBVIOUS
    <3>3. StoredUpTo(n)' /\ n \in 1..Steps
      <4>1. /\ n \in 1..Steps /\ saving = [type |-> n, html |-> results[n]]
            /\ Len(savedIDs) = n - 1 /\ results' = results
            /\ \A k \in 1..(n - 1) :
                 rows[savedIDs[k]] = [type |-> k, html |-> results[k]]
        BY <1>0, <2>2, <3>1, <3>2 DEF Row, StoredUpTo
      <4>2. Len(savedIDs') = n
        BY <1>0, <2>4, <4>1
      <4>3. savedIDs'[n] = Len(rows) + 1
        BY <2>4, <4>1
      <4>4. ASSUME NEW k \in 1..n
            PROVE  rows'[savedIDs'[k]] = [type |-> k, html |-> results[k]]
        <5>1. CASE k = n
          BY <2>3, <4>1, <4>3, <5>1
        <5>2. CASE k # n
          <6>1. k \in 1..(n - 1) /\ k \in 1..Len(savedIDs) /\ k \in DOMAIN savedIDs
            BY <1>0, <4>1, <5>2
          <6>2. savedIDs'[k] = savedIDs[k] /\ savedIDs[k] \in 1..Len(rows)
            BY <1>0, <2>4, <6>1
          <6> QED BY <2>3, <4>1, <6>1, <6>2
        <5> QED BY <5>1, <5>2
      <4> QED BY <4>1, <4>2, <4>4 DEF StoredUpTo
    <3>4. CASE saving' = NotSaving /\ saved' = TRUE /\ saving.type = Steps
      <4>1. StoredUpTo(Steps)'
        BY <3>2, <3>3, <3>4
      <4> QED BY <3>1, <3>4, <4>1 DEF SaveOnCourse, ActivationOnCourse, ActiveAsSaid
    <3>5. CASE /\ saving.type + 1 \in Type /\ saved' = saved
               /\ saving' = [type |-> saving.type + 1, html |-> results[saving.type + 1]]
      <4>1. saving'.type - 1 = n /\ saving'.html = results'[saving'.type]
        BY SMTT(30), <1>0, <3>2, <3>3, <3>5
      <4>2. StoredUpTo(saving.type - 1)'
        BY <3>3, <4>1 DEF StoredUpTo
      <4> QED BY <3>1, <3>5, <4>1, <4>2
              DEF SaveOnCourse, ActivationOnCourse, ActiveAsSaid, HasAllResults
    <3> QED BY <2>5, <3>4, <3>5
  <2> QED BY <2>1, <2>6, <2>7, <2>8, <2>9 DEF PageInv
<1>4. CASE SaveFails
  <2> USE <1>4 DEF SaveFails, activateVars
  <2>1. PageTypes' /\ Generating' /\ Cohesive'
    BY <1>0, ShownKept
  <2>2. saving \in Row /\ saving # NotSaving
    BY DEF PageInv, SaveTypes, Row, NotSaving
  <2>3. /\ rows' \in Seq(Row) /\ Len(rows') \in Len(rows)..MaxRows
        /\ \A i \in 1..Len(rows) : rows'[i] = rows[i]
    <3>1. CASE Len(rows) < MaxRows /\ rows' = Append(rows, saving)
      BY <1>0, <2>2, <3>1
    <3>2. CASE rows' = rows
      BY <1>0, <3>2 DEF PageInv, SaveTypes
    <3> QED BY <3>1, <3>2
  <2>4. SaveTypes'
    <3>1. saving' \in Row \cup {NotSaving} /\ saved' \in BOOLEAN
      BY DEF PageInv, SaveTypes
    <3> QED BY <1>0, <2>3, <3>1 DEF SaveTypes, Row, NotSaving, Type
  <2>5. SiteTypes'
    BY <1>0, <2>3 DEF PageInv, SiteTypes
  <2>6. Looping'
    <3>1. \A k \in Type : onSite[k] # 0 => onSite[k] \in 1..Len(rows)
      BY <1>0 DEF PageInv, SiteTypes
    <3> QED BY <2>3, <3>1 DEF PageInv, Looping
  <2>7. saved' = FALSE
    BY <2>2 DEF PageInv, Looping, SaveTypes
  <2>8. ~crossed' => SaveOnCourse' /\ ActivationOnCourse'
    BY <2>7 DEF SaveOnCourse, ActivationOnCourse, ActiveAsSaid
  <2> QED BY <2>1, <2>4, <2>5, <2>6, <2>8 DEF PageInv
<1> QED BY <1>2, <1>3, <1>4

\* activateAllTemplates (template_ai.html:1310-1335): the rows behind the loop
\* have become active, or one was refused.
LEMMA ActivatingKept ==
  ASSUME PageInv, ActivateAllTemplates \/ ActivationAnswered \/ ActivationLost
  PROVE  PageInv'
<1>0. /\ rows \in Seq(Row) /\ DOMAIN rows = 1..Len(rows) /\ Len(rows) \in Nat
      /\ queue \in Seq(Nat) /\ \A j \in DOMAIN queue : queue[j] \in DOMAIN rows
      /\ savedIDs \in Seq(Nat) /\ \A j \in DOMAIN savedIDs : savedIDs[j] \in DOMAIN rows
      /\ everOnSite \subseteq DOMAIN rows /\ activated \in BOOLEAN
      /\ onSite \in [Type -> Nat]
      /\ crossed \in BOOLEAN /\ refused \in BOOLEAN
  BY DEF PageInv, PageTypes, SaveTypes, SiteTypes, Looping
<1>1. CASE ActivateAllTemplates
  <2> USE <1>1 DEF ActivateAllTemplates, saveVars, siteVars
  <2>1. PageTypes' /\ Generating' /\ Cohesive'
    BY <1>0, ShownKept
  <2>2. SaveTypes' /\ Looping'
    BY DEF PageInv, SaveTypes, Looping, NotSaving, Row
  <2>3. SiteTypes'
    BY <1>0 DEF PageInv, SiteTypes
  <2>4. ~crossed' => SaveOnCourse' /\ ActivationOnCourse'
    BY DEF PageInv, Looping, SaveOnCourse, ActivationOnCourse, ActiveAsSaid,
       StoredUpTo, NotSaving
  <2> QED BY <2>1, <2>2, <2>3, <2>4 DEF PageInv
<1>2. CASE ActivationAnswered \/ ActivationLost
  <2>1. PICK i : i = Head(queue)
    OBVIOUS
  <2>2. /\ activating /\ queue # <<>> /\ Len(queue) \in Nat /\ Len(queue) > 0
        /\ i = queue[1] /\ i \in DOMAIN rows /\ rows[i].type \in Type
    <3>1. activating /\ queue # <<>>
      BY <1>2 DEF ActivationAnswered, ActivationLost, PageInv, Looping
    <3>2. Len(queue) \in Nat /\ Len(queue) > 0 /\ i = queue[1] /\ 1 \in DOMAIN queue
      BY <1>0, <2>1, <3>1
    <3>3. i \in DOMAIN rows /\ rows[i] \in Row
      BY <1>0, <3>2
    <3> QED BY <3>1, <3>2, <3>3 DEF Row
  <2>3. UNCHANGED <<results, failedStep, step, made, saveVars, rows, gone, crossed>>
    BY <1>2 DEF ActivationAnswered, ActivationLost
  <2>4. \/ /\ i \notin gone
           /\ onSite' = [onSite EXCEPT ![rows[i].type] = i]
           /\ everOnSite' = everOnSite \cup {i}
           /\ refused' = refused
        \/ /\ onSite' = onSite /\ everOnSite' = everOnSite
           /\ refused' = TRUE \/ refused' = refused
    BY <1>2, <2>1 DEF ActivationAnswered, ActivationLost
  <2>5. \/ /\ queue' = Tail(queue) /\ activating' = (Len(queue) > 1)
           /\ activated' = (activated \/ Len(queue) = 1)
           /\ activating' <=> Len(queue) > 1
           /\ activated' <=> activated \/ Len(queue) = 1
           /\ i \in everOnSite' \/ refused'
        \/ queue' = <<>> /\ activating' = FALSE /\ activated' = activated
    BY <1>2, <2>1 DEF ActivationAnswered, ActivationLost
  <2>6. /\ queue' \in Seq(Nat) /\ activating' \in BOOLEAN /\ activated' \in BOOLEAN
        /\ \A j \in DOMAIN queue' : queue'[j] \in DOMAIN rows
        /\ activating' => queue' # <<>>
    <3>1. activating' \in BOOLEAN /\ activated' \in BOOLEAN
      <4>1. (Len(queue) > 1) \in BOOLEAN /\ (activated \/ Len(queue) = 1) \in BOOLEAN
        OBVIOUS
      <4> QED BY <1>0, <2>5, <4>1, Zenon
    <3>2. CASE queue' = Tail(queue) /\ (activating' <=> Len(queue) > 1)
      <4>1. /\ queue' \in Seq(Nat) /\ Len(queue') = Len(queue) - 1
            /\ \A j \in 1..Len(queue') : queue'[j] = queue[j + 1]
        BY <1>0, <2>2, <3>2
      <4>2. ASSUME NEW j \in DOMAIN queue' PROVE queue'[j] \in DOMAIN rows
        <5>1. j \in 1..Len(queue')
          BY <4>1
        <5>2. j + 1 \in 1..Len(queue)
          BY <2>2, <4>1, <5>1
        <5>3. j + 1 \in DOMAIN queue
          BY <1>0, <5>2
        <5> QED BY <1>0, <4>1, <5>1, <5>3
      <4>3. Len(queue) > 1 => queue' # <<>>
        BY <2>2, <4>1
      <4> QED BY <3>1, <3>2, <4>1, <4>2, <4>3
    <3>3. CASE queue' = <<>> /\ activating' = FALSE
      BY <3>1, <3>3
    <3> QED BY <2>5, <3>2, <3>3
  <2>7. PageTypes' /\ Generating' /\ Cohesive'
    BY <1>0, <2>3, <2>4, ShownKept
  <2>8. SaveTypes'
    BY <2>3 DEF PageInv, SaveTypes, saveVars, NotSaving, Row
  <2>9. SiteTypes'
    BY <1>0, <2>2, <2>3, <2>4, <2>6 DEF PageInv, SiteTypes
  <2>10. Looping'
    BY SMTT(30), <1>0, <2>2, <2>3, <2>4, <2>6 DEF PageInv, Looping, saveVars, NotSaving
  <2>11. ASSUME ~crossed' PROVE SaveOnCourse' /\ ActivationOnCourse'
    <3>1. saving = NotSaving /\ SaveOnCourse /\ ActivationOnCourse
      BY <2>2, <2>3, <2>11 DEF PageInv, SaveOnCourse
    <3>2. SaveOnCourse'
      BY <2>3, <3>1 DEF SaveOnCourse, StoredUpTo, saveVars, NotSaving
    <3>3. everOnSite \subseteq everOnSite' /\ (refused => refused')
      BY <2>4
    <3>4. ASSUME saved', ~refused', activated' \/ activating',
                 NEW k \in DOMAIN savedIDs, savedIDs[k] \notin everOnSite'
          PROVE  ~activated' /\ \E j \in DOMAIN queue' : queue'[j] = savedIDs[k]
      <4>1. saved /\ ~activated
        BY <1>0, <2>3, <3>1, <3>3, <3>4
           DEF saveVars, ActivationOnCourse, ActiveAsSaid
      <4>2. PICK j \in DOMAIN queue : queue[j] = savedIDs[k]
        BY <2>2, <3>1, <3>3, <3>4, <4>1 DEF ActivationOnCourse
      <4>3. /\ queue' = Tail(queue) /\ i \in everOnSite'
            /\ activated' <=> Len(queue) = 1
        BY <2>5, <3>4, <4>1
      <4>4. j \in 2..Len(queue) /\ queue'[j - 1] = queue[j] /\ j - 1 \in DOMAIN queue'
        <5>1. j # 1
          BY <2>2, <3>4, <4>2, <4>3
        <5>2. j \in 2..Len(queue)
          BY <1>0, <2>2, <4>2, <5>1
        <5>3. /\ Tail(queue) \in Seq(Nat) /\ Len(Tail(queue)) = Len(queue) - 1
              /\ \A n \in 1..Len(Tail(queue)) : Tail(queue)[n] = queue[n + 1]
          BY <1>0, <2>2
        <5>4. j - 1 \in 1..Len(Tail(queue)) /\ (j - 1) + 1 = j
          BY <2>2, <5>2, <5>3
        <5>5. Tail(queue)[j - 1] = queue[j] /\ j - 1 \in DOMAIN Tail(queue)
          BY <5>3, <5>4
        <5> QED BY <4>3, <5>2, <5>5
      <4>5. Len(queue) # 1
        BY <2>2, <4>4
      <4> QED BY <4>2, <4>3, <4>4, <4>5
    <3>5. saved' = saved /\ savedIDs' = savedIDs
      BY <2>3 DEF saveVars
    <3>6. ActivationOnCourse'
      BY <3>4, <3>5 DEF ActivationOnCourse, ActiveAsSaid
    <3> QED BY <3>2, <3>6
  <2> QED BY <2>7, <2>8, <2>9, <2>10, <2>11 DEF PageInv
<1> QED BY <1>1, <1>2

\* A row that is active is not deleted (template.go:155-166).
LEMMA DeleteKept ==
  ASSUME PageInv, NEW i \in 1..MaxRows, TemplateDelete(i)
  PROVE  PageInv'
<1> USE DEF TemplateDelete, saveVars, activateVars
<1>1. PageTypes' /\ Generating' /\ Cohesive'
  BY ShownKept DEF PageInv, PageTypes
<1>2. SaveTypes' /\ Looping'
  BY DEF PageInv, SaveTypes, Looping, NotSaving, Row
<1>3. SiteTypes'
  BY DEF PageInv, SiteTypes, Looping
<1>4. ~crossed' => SaveOnCourse' /\ ActivationOnCourse'
  BY DEF PageInv, SaveOnCourse, ActivationOnCourse, ActiveAsSaid, StoredUpTo,
     HasAllResults, NotSaving
<1> QED BY <1>1, <1>2, <1>3, <1>4 DEF PageInv

\* The page's invariant holds in every reachable state.
LEMMA PageCorrect == Spec => []PageInv
<1>1. Init => PageInv
  <2> SUFFICES ASSUME PageInit PROVE PageInv
    BY DEF Init
  <2> USE RestyleAssumption DEF PageInit
  <2>0. /\ <<>> \in Seq(Contexts) /\ <<>> \in Seq(Row) /\ <<>> \in Seq(Nat)
        /\ Len(<<>>) = 0 /\ DOMAIN <<>> = {}
    OBVIOUS
  <2>1. PageTypes
    <3>1. made \in Seq(Contexts) /\ Len(made) = 0
      BY <2>0
    <3>2. results \in [Type -> 0..Len(made)]
      BY <3>1
    <3>3. crossed \in BOOLEAN /\ refused \in BOOLEAN
      OBVIOUS
    <3>4. failedStep \in 0..Steps /\ step \in 0..Steps /\ Len(made) <= MaxMade
      <4>1. failedStep = 0 /\ step = 0
        OBVIOUS
      <4> HIDE DEF PageInit
      <4> QED BY <3>1, <4>1
    <3> HIDE DEF PageInit
    <3> QED BY <3>1, <3>2, <3>3, <3>4 DEF PageTypes
  <2>2. Generating /\ Cohesive
    BY DEF Generating, Cohesive
  <2>4. SaveTypes
    <3>1. savedIDs \in Seq(Nat) /\ DOMAIN savedIDs = {}
      BY <2>0
    <3>2. rows \in Seq(Row) /\ Len(rows) = 0
      BY <2>0
    <3>3. saving = NotSaving /\ saved = FALSE /\ Len(rows) <= MaxRows
      BY <3>2
    <3> HIDE DEF PageInit
    <3> QED BY <3>1, <3>2, <3>3 DEF SaveTypes
  <2>5. SiteTypes /\ Looping
    BY <2>0 DEF SiteTypes, Looping
  <2>3. SaveOnCourse /\ ActivationOnCourse
    BY DEF SaveOnCourse, ActivationOnCourse, ActiveAsSaid
  <2> QED BY <2>1, <2>2, <2>3, <2>4, <2>5 DEF PageInv
<1>2. PageInv /\ [Next]_vars => PageInv'
  <2> SUFFICES ASSUME PageInv, [Next]_vars PROVE PageInv'
    OBVIOUS
  <2>1. CASE UNCHANGED pageVars
    <3>1. PageTypes' /\ Generating' /\ Cohesive'
      BY <2>1, ShownKept DEF pageVars, PageInv, PageTypes
    <3>2. SaveTypes' /\ SiteTypes' /\ Looping'
      BY <2>1 DEF pageVars, PageInv, SaveTypes, SiteTypes, Looping, NotSaving, Row
    <3>3. ~crossed' => SaveOnCourse' /\ ActivationOnCourse'
      BY <2>1 DEF pageVars, PageInv, SaveOnCourse, ActivationOnCourse, ActiveAsSaid,
         StoredUpTo, HasAllResults, NotSaving
    <3> QED BY <3>1, <3>2, <3>3 DEF PageInv
  <2> QED BY <2>1, PageMoves, BeginKept, StepAnsweredKept, SavingKept,
             ActivatingKept, DeleteKept DEF PageMove
<1> QED BY <1>1, <1>2, PTL DEF Spec

\* The types hold, and a row that is active is in the table.
THEOREM RestyleTypeCorrect == Spec => []TypeOK
<1>1. AssistantInv /\ ThemesInv /\ PageInv => TypeOK
  <2> SUFFICES ASSUME AssistantInv, ThemesInv, PageInv PROVE TypeOK
    OBVIOUS
  <2>1. AssistantTypeOK /\ ThemesTypeOK
    BY DEF AssistantInv, ThemesInv
  <2> QED BY <2>1 DEF PageInv, PageTypes, SaveTypes, SiteTypes, TypeOK
<1> QED BY <1>1, AssistantCorrect, ThemesCorrect, PageCorrect, PTL

\* Each template the page shows was generated from a beginning of the earlier ones
\* it shows, as far as the handler's 2000 bytes went, and from no other, whatever
\* fails, is empty, is retried or is clicked again (restyleAll, retryFromStep).
THEOREM SetsAreCohesive == Spec => []Cohesive
<1>1. PageInv => Cohesive
  BY DEF PageInv
<1> QED BY <1>1, PageCorrect, PTL

\* Unless a save or an activation is crossed, "saved" and "activated" mean what
\* they say (saveAllTemplates, activateAllTemplates).
THEOREM PageIsTruthful == Spec => []PageTellsTruth
<1>1. PageInv => PageTellsTruth
  BY DEF PageInv, PageTellsTruth, SaveOnCourse, ActivationOnCourse, SavedAsShown,
     StoredUpTo, Type
<1> QED BY <1>1, PageCorrect, PTL
=============================================================================

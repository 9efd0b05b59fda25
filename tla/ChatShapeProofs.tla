---------------------------- MODULE ChatShapeProofs ----------------------------
(***************************************************************************)
(* Every part of the chat keeps its shape, for any constants.  Few of the  *)
(* parts' type invariants are inductive as they stand: each Shape below is *)
(* the type invariant of one part with what else it takes, and is kept by  *)
(* every step of that part (XShapeStarts, XShapeStays, XShapeTypes).       *)
(***************************************************************************)
EXTENDS ChatProofs

-----------------------------------------------------------------------------
(***************************************************************************)
(* The parts of the chat keep their shapes.                                *)
(***************************************************************************)
LEMMA OtherPartsMove ==
  ASSUME [MCChatNext]_mcVars
  PROVE  /\ [RetryNext]_retryVars /\ [TelemetryNext]_telemetryVars
         /\ [(AlertsNext /\ UNCHANGED bannerVars) \/ BannerNext]_alertsVars
         /\ scene' = scene
<1>1. CASE UNCHANGED mcVars
  BY <1>1 DEF mcVars
<1>2. CASE MCChatNext
  <2>1. [RetryNext]_retryVars /\ scene' = scene
    BY <1>2 DEF MCChatNext
  <2>2. [TelemetryNext]_telemetryVars
    BY <1>2 DEF MCChatNext
  <2>3. [(AlertsNext /\ UNCHANGED bannerVars) \/ BannerNext]_alertsVars
    BY <1>2 DEF MCChatNext
  <2> QED BY <2>1, <2>2, <2>3
<1> QED BY <1>1, <1>2

-----------------------------------------------------------------------------
(* The session's state has its shape wherever ChatInv holds.               *)
LEMMA ChatShapes == ChatInv => ChatTypeOK
<1> SUFFICES ASSUME ChatInv PROVE ChatTypeOK
  OBVIOUS
<1>1. machine \in Machines /\ status \in [Sends -> Statuses]
  BY DEF ChatInv, Timely
<1>2. answers \in [Sends -> Nat]
  BY DEF ChatInv, AnsweredOnce
<1>3. queue \in Seq(Requests) /\ idb \in Seq(Requests)
  BY DEF ChatInv, Placed
<1>4. idbOps \in Seq(IdbOps)
  BY DEF ChatInv, Issued
<1>5. /\ flights \subseteq Flights /\ active \in Sends \cup {None}
      /\ loading \in BOOLEAN /\ replaying \in BOOLEAN
  BY DEF ChatInv, Owned
<1>6. /\ timer \in BOOLEAN /\ online \in BOOLEAN
      /\ session \in {"none", "empty", "full"} /\ saved \in {"none", "empty", "full"}
      /\ reloads \in 0 .. MaxReloads
  BY DEF ChatInv, Bounded
<1> QED BY <1>1, <1>2, <1>3, <1>4, <1>5, <1>6
           DEF ChatTypeOK, Machines, Statuses, IdbOps, Flights

-----------------------------------------------------------------------------
(* The box: a text sent is one that was typed, and the rest are flags.     *)
BoxShape == DraftsInv /\ {saving, linked, busy, sendCooling, warned} \subseteq BOOLEAN

LEMMA BoxShapeTypes == BoxShape => ComposerTypeOK
BY DEF BoxShape, DraftsInv, ComposerTypeOK

LEMMA BoxShapeStarts == ComposerInit => BoxShape
<1>1. ComposerInit => {saving, linked, busy, sendCooling, warned} \subseteq BOOLEAN
  BY DEF ComposerInit
<1> QED BY <1>1, DraftsStart DEF BoxShape

LEMMA BoxShapeStays == BoxShape /\ [ComposerNext]_boxVars => BoxShape'
<1> SUFFICES ASSUME BoxShape, [ComposerNext]_boxVars PROVE BoxShape'
  OBVIOUS
<1> DEFINE Flags == /\ saving \in BOOLEAN /\ linked \in BOOLEAN /\ busy \in BOOLEAN
                    /\ sendCooling \in BOOLEAN /\ warned \in BOOLEAN
<1>1. Flags
  BY DEF BoxShape
<1>9. Flags' => BoxShape'
  BY DraftsStay DEF BoxShape
<1> SUFFICES Flags'
  BY <1>9
<1>2. \A inChat : (inChat # NoChat) \in BOOLEAN
  OBVIOUS
<1>3. ASSUME NEW t \in Texts, Type(t) PROVE Flags'
  BY <1>1, <1>2, <1>3, Zenon DEF Type, Show
<1>4. ASSUME NEW s \in BoxSessions \cup {NoChat}, SwitchSession(s) PROVE Flags'
  BY <1>1, <1>2, <1>4, Zenon DEF SwitchSession, Show
<1>5. ASSUME NEW s \in BoxSessions, DraftExpires(s) PROVE Flags'
  BY <1>1, <1>5, Zenon DEF DraftExpires
<1>6. CASE Erase \/ SaveDraft \/ Focus
  BY <1>1, <1>2, <1>6, Zenon DEF Erase, SaveDraft, Focus, Show
<1>7. CASE WarnNoWallet \/ SubmitMessage \/ CoolDownTicks
  BY <1>1, <1>2, <1>7, Zenon DEF WarnNoWallet, SubmitMessage, CoolDownTicks, Show
<1>8. CASE LinkWallet \/ ToggleLoading \/ UNCHANGED boxVars
  BY <1>1, <1>8, Zenon DEF LinkWallet, ToggleLoading, boxVars
<1> HIDE DEF Flags
<1> QED BY <1>3, <1>4, <1>5, <1>6, <1>7, <1>8 DEF ComposerNext

-----------------------------------------------------------------------------
(* The retries: the timer is set while an attempt is left, and a row that  *)
(* is gone has none, nor a resend of its own.                              *)
RetryShape ==
  /\ RetryTypeOK
  /\ waiting => attempts < MaxAutoRetries
  /\ ~present => attempts = 0 /\ resends = 0 /\ ~waiting

LEMMA RetryShapeStarts == RetryInit => RetryShape
<1> SUFFICES ASSUME RetryInit PROVE RetryShape
  OBVIOUS
<1>1. {failed, retrying, waiting, present} \subseteq BOOLEAN /\ present /\ ~waiting
  BY DEF RetryInit
<1>2. /\ attempts = 0 /\ resends = 0 /\ orphans = 0 /\ mounts = 0 /\ manual = 0
      /\ MaxAutoRetries \in Nat /\ MaxManual \in Nat /\ MaxMounts \in Nat
  BY RetryAssumption DEF RetryInit
<1> QED BY <1>1, <1>2 DEF RetryShape, RetryTypeOK

LEMMA RetryShapeStays == RetryShape /\ [RetryNext]_retryVars => RetryShape'
<1> SUFFICES ASSUME RetryShape, [RetryNext]_retryVars PROVE RetryShape'
  OBVIOUS
<1>1. MaxAutoRetries \in Nat /\ MaxManual \in Nat /\ MaxMounts \in Nat
  BY RetryAssumption
<1>2. /\ failed \in BOOLEAN /\ retrying \in BOOLEAN /\ waiting \in BOOLEAN /\ present \in BOOLEAN
      /\ attempts \in Nat /\ attempts <= MaxAutoRetries /\ resends \in Nat /\ orphans \in Nat
      /\ mounts \in 0 .. MaxMounts /\ manual \in 0 .. MaxManual
      /\ waiting => attempts < MaxAutoRetries
      /\ ~present => attempts = 0 /\ resends = 0 /\ ~waiting
  BY <1>1 DEF RetryShape, RetryTypeOK
<1> DEFINE Flags == /\ failed \in BOOLEAN /\ retrying \in BOOLEAN /\ waiting \in BOOLEAN
                    /\ present \in BOOLEAN
           Counts == /\ attempts \in 0 .. MaxAutoRetries /\ resends \in Nat /\ orphans \in Nat
                     /\ mounts \in 0 .. MaxMounts /\ manual \in 0 .. MaxManual
           Left == waiting => attempts < MaxAutoRetries
           Gone == ~present => attempts = 0 /\ resends = 0 /\ ~waiting
           Fine == Flags /\ Counts /\ Left /\ Gone
<1>3. Fine
  BY <1>1, <1>2
<1>4. Fine' => RetryShape'
  BY DEF RetryShape, RetryTypeOK
<1> SUFFICES Fine'
  BY <1>4
<1>5. CASE MessageFails
  <2>1. /\ failed' = TRUE /\ waiting' \in BOOLEAN
        /\ waiting' => attempts < MaxAutoRetries
        /\ waiting' => present
    BY <1>5 DEF MessageFails, Schedules
  <2>2. UNCHANGED <<attempts, resends, retrying, present, manual, orphans, mounts>>
    BY <1>5 DEF MessageFails, rowVars
  <2>3. Counts'
    BY <1>3, <2>2
  <2>4. Flags' /\ Left' /\ Gone'
    BY <1>3, <2>1, <2>2
  <2> QED BY <2>3, <2>4
<1>6. CASE MessageRecovers
  <2>1. /\ failed' = FALSE /\ waiting' = FALSE /\ attempts' = 0
        /\ UNCHANGED <<resends, retrying, present, manual, orphans, mounts>>
    BY <1>6 DEF MessageRecovers, rowVars
  <2>2. Counts'
    BY <1>1, <1>2, <2>1
  <2>3. Flags' /\ Left' /\ Gone'
    BY <1>3, <2>1
  <2> QED BY <2>2, <2>3
<1>7. CASE AutoRetry
  <2>1. /\ waiting /\ attempts' = attempts + 1 /\ resends' = resends + 1
        /\ retrying' = TRUE /\ waiting' = FALSE
        /\ UNCHANGED <<failed, present, manual, orphans, mounts>>
    BY <1>7 DEF AutoRetry, RunRetry, rowVars
  <2>2. Counts'
    BY <1>1, <1>2, <2>1
  <2>3. Flags' /\ Left' /\ Gone'
    BY <1>3, <2>1
  <2> QED BY <2>2, <2>3
<1>8. CASE RetryNow
  <2>1. /\ present /\ manual < MaxManual /\ manual' = manual + 1 /\ resends' = resends + 1
        /\ retrying' = TRUE /\ waiting' = FALSE
        /\ UNCHANGED <<failed, present, attempts, orphans, mounts>>
    BY <1>8 DEF RetryNow, RunRetry, rowVars
  <2>2. Counts'
    BY <1>1, <1>2, <2>1
  <2>3. Flags' /\ Left' /\ Gone'
    BY <1>3, <2>1
  <2> QED BY <2>2, <2>3
<1>9. CASE HandlerSettles
  <2>1. /\ resends > 0 /\ resends' = resends - 1 /\ retrying' = FALSE
        /\ UNCHANGED <<failed, attempts, present, manual, orphans, mounts>>
    BY <1>9 DEF HandlerSettles, rowVars
  <2>2. waiting' \in BOOLEAN /\ (waiting' => attempts < MaxAutoRetries)
    BY <1>9 DEF HandlerSettles, Schedules
  <2>3. present
    BY <1>2, <2>1
  <2>4. Counts'
    BY <1>1, <1>2, <2>1
  <2>5. Flags' /\ Left' /\ Gone'
    BY <1>3, <2>1, <2>2, <2>3
  <2> QED BY <2>4, <2>5
<1>10. CASE OrphanSettles
  <2>1. /\ orphans > 0 /\ orphans' = orphans - 1
        /\ UNCHANGED <<failed, attempts, resends, retrying, waiting, present, manual, mounts>>
    BY <1>10 DEF OrphanSettles
  <2>2. Counts'
    BY <1>1, <1>2, <2>1
  <2>3. Flags' /\ Left' /\ Gone'
    BY <1>3, <2>1
  <2> QED BY <2>2, <2>3
<1>11. CASE RowUnmounts
  <2>1. /\ present' = FALSE /\ orphans' = orphans + resends /\ resends' = 0
        /\ waiting' = FALSE /\ retrying' = FALSE /\ attempts' = 0
        /\ UNCHANGED <<failed, manual, mounts>>
    BY <1>11 DEF RowUnmounts
  <2>2. Counts'
    BY <1>1, <1>2, <2>1
  <2>3. Flags' /\ Left' /\ Gone'
    BY <1>3, <2>1
  <2> QED BY <2>2, <2>3
<1>12. CASE RowMounts
  <2>1. /\ present' = TRUE /\ mounts < MaxMounts /\ mounts' = mounts + 1
        /\ UNCHANGED <<failed, attempts, resends, retrying, manual, orphans>>
    BY <1>12 DEF RowMounts
  <2>2. waiting' \in BOOLEAN /\ (waiting' => 0 < MaxAutoRetries) /\ ~present
    BY <1>12 DEF RowMounts, Schedules
  <2>3. attempts = 0
    BY <1>2, <2>2
  <2>4. Counts'
    BY <1>1, <1>2, <2>1
  <2>5. Flags' /\ Left' /\ Gone'
    BY <1>3, <2>1, <2>2, <2>3
  <2> QED BY <2>4, <2>5
<1>13. CASE UNCHANGED retryVars
  BY <1>3, <1>13 DEF retryVars
<1> HIDE DEF Fine
<1> QED BY <1>5, <1>6, <1>7, <1>8, <1>9, <1>10, <1>11, <1>12, <1>13 DEF RetryNext

-----------------------------------------------------------------------------
(* The assistant: an answer under way has not been counted yet.            *)
Replies == [intent : Intents, low : BOOLEAN, data : Data, guardrail : BOOLEAN]

Offers == {"confirm_fiat", "cancel", "market_rates", "connect_wallet",
           "check_portfolio", "learn_more", "query"}

Dialogues == MachinesCounting(Nat)

AnswerShape ==
  /\ stage \in {"idle", "model", "arrived", "shown"}
  /\ message \in Messages /\ reply \in Replies /\ offered \subseteq Offers
  /\ asked \in 0 .. MaxAsked /\ triggers \in 0 .. asked /\ left \in BOOLEAN
  /\ stage \in {"model", "arrived"} => triggers < asked
  /\ dialogue \in Dialogues
  /\ details \in Data /\ due \subseteq Data /\ prefill \in Nat /\ grounded \subseteq Nat

LEMMA AnswerShapeTypes == AnswerShape => AssistantTypeOK
BY DEF AnswerShape, AssistantTypeOK, Replies, Offers, Dialogues, MachinesCounting

(* The conversation's machine keeps its shape through events and answers.  *)
LEMMA DialogueSteps ==
  ASSUME NEW m \in Dialogues, NEW event
  PROVE  Step(m, event) \in Dialogues
<1>1. Nat \in SUBSET Nat /\ 0 \in Nat
  OBVIOUS
<1> QED BY <1>1, SteppedAnywhere DEF Dialogues

LEMMA DialogueInformed ==
  ASSUME NEW m \in Dialogues, NEW n \in Nat, NEW pending \in Pendings, NEW needs \in BOOLEAN
  PROVE  /\ Informed(m, n, pending, needs) \in Dialogues
         /\ [m EXCEPT !.ctx.count = n] \in Dialogues
BY DEF Informed, Dialogues, MachinesCounting

LEMMA DialogueResponds ==
  ASSUME NEW m \in Dialogues, NEW r, r.snap.count \in Nat, NEW outcome
  PROVE  Responded(m, r, outcome) \in Dialogues
<1> DEFINE n == r.snap.count + 1
           pending == Merged(r.snap.pending, Extracted(outcome))
           counted == [m EXCEPT !.ctx.count = n]
           informed == Informed(Counted(m, r), n, pending, Vague(outcome))
           done == Step(informed, "ANALYSIS_COMPLETE")
           clear == IF Vague(outcome) THEN Step(done, "RECEIVE_CLARIFICATION") ELSE done
           triggered == IF AutoTriggers(r, outcome, pending) /\ pending = "data"
                        THEN Step(clear, "TRIGGER_TRANSACTION") ELSE clear
<1>1. n \in Nat /\ pending \in Pendings /\ Vague(outcome) \in BOOLEAN
  BY DEF Merged, Pendings, Vague
<1>2. Counted(m, r) = IF r.cancels THEN Step(counted, "CANCEL_FLOW") ELSE counted
  BY DEF Counted
<1>3. Responded(m, r, outcome)
        = IF triggered.state = "ANALYZING" THEN Step(triggered, "ANALYSIS_COMPLETE") ELSE triggered
  BY DEF Responded
<1> HIDE DEF n, pending
<1>4. counted \in Dialogues
  BY <1>1, DialogueInformed
<1> HIDE DEF counted
<1>5. Counted(m, r) \in Dialogues
  BY <1>2, <1>4, DialogueSteps
<1>6. informed \in Dialogues
  BY <1>1, <1>5, DialogueInformed
<1> HIDE DEF informed
<1>7. done \in Dialogues
  BY <1>6, DialogueSteps
<1> HIDE DEF done
<1>8. clear \in Dialogues
  BY <1>7, DialogueSteps
<1> HIDE DEF clear
<1>9. triggered \in Dialogues
  BY <1>8, DialogueSteps
<1> HIDE DEF triggered
<1> QED BY <1>3, <1>9, DialogueSteps

LEMMA NoReplyIsReply == NoReply \in Replies
BY DEF NoReply, Replies, NoData, Data, Intents

(* The digits the parser stops at are a number it can read.                *)
ReadsAs(n, d) == d \in 100 .. 999 /\ \E j \in {10, 100, 1000} : n \div j = d

LEMMA DigitsRead == \A n, d : ReadsAs(n, d) => FirstDigits(n) \in Nat
<1> SUFFICES ASSUME NEW n, NEW d, ReadsAs(n, d) PROVE FirstDigits(n) \in Nat
  OBVIOUS
<1> DEFINE R(e) == \E j \in {10, 100, 1000} : n \div j = e
           S == 100 .. 999
<1>1. R(d) /\ d \in S
  BY DEF ReadsAs
<1> DEFINE c == CHOOSE e \in S : R(e)
<1>2. FirstDigits(n) = c
  BY DEF FirstDigits
<1>3. S \subseteq Nat
  OBVIOUS
<1> HIDE DEF R, S
<1>4. c \in S
  <2>1. \E e \in S : R(e)
    BY <1>1, Zenon
  <2> QED BY <2>1, Zenon
<1> HIDE DEF c
<1> QED BY <1>2, <1>3, <1>4

LEMMA AmountBound == \A n \in 0 .. LongestAmount : n \in Nat /\ n < 1000000
<1>1. LongestAmount \in Nat /\ LongestAmount < 1000000
  BY SMT DEF LongestAmount
<1> DEFINE longest == LongestAmount
<1>2. longest \in Nat /\ longest < 1000000
  BY <1>1
<1> HIDE DEF longest
<1>3. \A n \in 0 .. longest : n \in Nat /\ n < 1000000
  BY <1>2
<1> QED BY <1>3 DEF longest

LEMMA DigitsStop == \A n \in 0 .. LongestAmount : 1000 <= n => FirstDigits(n) \in Nat
<1> SUFFICES ASSUME NEW n \in 0 .. LongestAmount, 1000 <= n PROVE FirstDigits(n) \in Nat
  OBVIOUS
<1>1. n \in Nat /\ n < 1000000
  BY AmountBound, SMT
<1>2. CASE n < 10000
  <2> DEFINE d == n \div 10
  <2>1. d \in 100 .. 999
    BY <1>1, <1>2, SMT
  <2>2. \E j \in {10, 100, 1000} : n \div j = d
    OBVIOUS
  <2> HIDE DEF d
  <2>3. ReadsAs(n, d)
    BY <2>1, <2>2 DEF ReadsAs
  <2> QED BY <2>3, DigitsRead, Zenon
<1>3. CASE n >= 10000 /\ n < 100000
  <2> DEFINE d == n \div 100
  <2>1. d \in 100 .. 999
    BY <1>1, <1>3, SMT
  <2>2. \E j \in {10, 100, 1000} : n \div j = d
    OBVIOUS
  <2> HIDE DEF d
  <2>3. ReadsAs(n, d)
    BY <2>1, <2>2 DEF ReadsAs
  <2> QED BY <2>3, DigitsRead, Zenon
<1>4. CASE n >= 100000
  <2> DEFINE d == n \div 1000
  <2>1. d \in 100 .. 999
    BY <1>1, <1>4, SMT
  <2>2. \E j \in {10, 100, 1000} : n \div j = d
    OBVIOUS
  <2> HIDE DEF d
  <2>3. ReadsAs(n, d)
    BY <2>1, <2>2 DEF ReadsAs
  <2> QED BY <2>3, DigitsRead, Zenon
<1> QED BY <1>1, <1>2, <1>3, <1>4, SMT

LEMMA MessageFacts ==
  /\ Messages # {} /\ MaxAsked \in Nat
  /\ \A m \in Messages : /\ m.token \in BOOLEAN /\ m.fiat \in BOOLEAN
                         /\ m.faq \in Intents \cup {"none"} /\ m.amount \in 0 .. LongestAmount
                         /\ m.cancels \in BOOLEAN
  /\ \A a \in ModelAnswers : /\ a.intent \in Intents /\ a.low \in BOOLEAN
                             /\ a.guardrail \in BOOLEAN /\ a.amountIn \in Nat
BY AssistantAssumption

LEMMA AmountRead == \A m \in Messages : ExtractAmount(m) \in Nat
<1> SUFFICES ASSUME NEW m \in Messages PROVE ExtractAmount(m) \in Nat
  OBVIOUS
<1>1. m.amount \in 0 .. LongestAmount /\ m.amount \in Nat
  BY MessageFacts
<1>2. CASE m.amount < 1000 \/ m.grouped
  BY <1>1, <1>2 DEF ExtractAmount
<1>3. CASE ~(m.amount < 1000 \/ m.grouped)
  <2>1. 1000 <= m.amount
    BY <1>1, <1>3
  <2> QED BY <1>1, <1>3, <2>1, DigitsStop DEF ExtractAmount
<1> QED BY <1>2, <1>3

LEMMA AnswerShapeStarts == AssistantInit => AnswerShape
<1> SUFFICES ASSUME AssistantInit PROVE AnswerShape
  OBVIOUS
<1>1. message \in Messages
  BY MessageFacts DEF AssistantInit
<1>2. MaxAsked \in Nat
  BY MessageFacts
<1>3. NewMachine \in Dialogues
  BY DEF NewMachine, NewContext, Dialogues, MachinesCounting, ChatStates, Pendings
<1>4. dialogue \in Dialogues
  BY <1>3, DialogueSteps DEF AssistantInit
<1>5. NoData \in Data
  BY DEF NoData, Data
<1>6. /\ stage = "idle" /\ offered = {} /\ asked = 0 /\ triggers = 0 /\ left = FALSE
      /\ reply = NoReply /\ details = NoData /\ due = {} /\ prefill = 0 /\ grounded = {}
  BY DEF AssistantInit
<1>7. asked \in 0 .. MaxAsked /\ triggers \in 0 .. asked /\ prefill \in Nat
  BY <1>2, <1>6
<1> QED BY <1>1, <1>4, <1>5, <1>6, <1>7, NoReplyIsReply DEF AnswerShape

LEMMA ParsedIsReply == \A a \in ModelAnswers : Parsed(a) \in Replies
<1> SUFFICES ASSUME NEW a \in ModelAnswers PROVE Parsed(a) \in Replies
  OBVIOUS
<1>1. a.intent \in Intents /\ a.low \in BOOLEAN /\ a.guardrail \in BOOLEAN /\ a.amountIn \in Nat
  BY MessageFacts
<1>2. [amountIn |-> a.amountIn, tokenIn |-> a.amountIn > 0, fiatCurrency |-> FALSE] \in Data
  BY <1>1 DEF Data
<1> QED BY <1>1, <1>2, NoReplyIsReply DEF Parsed, Replies

LEMMA MergedIsData == \A m \in Messages, data \in Data : Merge(m, data) \in Data
<1> SUFFICES ASSUME NEW m \in Messages, NEW data \in Data PROVE Merge(m, data) \in Data
  OBVIOUS
<1>1. /\ m.token \in BOOLEAN /\ m.fiat \in BOOLEAN /\ ExtractAmount(m) \in Nat
      /\ data.amountIn \in Nat /\ data.tokenIn \in BOOLEAN /\ data.fiatCurrency \in BOOLEAN
  BY MessageFacts, AmountRead DEF Data
<1>2. (IF m.amount > 0 THEN ExtractAmount(m) ELSE data.amountIn) \in Nat
  BY <1>1
<1> QED BY <1>1, <1>2 DEF Merge, Data

LEMMA OffersAreKinds ==
  \A r, c, auto, ready : SuggestedActions(r, c, auto, ready) \subseteq Offers
BY DEF SuggestedActions, GuardrailActions, Offers

LEMMA GatheredIsData == \A r \in Replies : details \in Data => Gathered(r) \in Data
BY DEF Gathered, Replies, Data

LEMMA AnswerShapeStays == AnswerShape /\ [AssistantNext]_assistantVars => AnswerShape'
<1> SUFFICES ASSUME AnswerShape, [AssistantNext]_assistantVars PROVE AnswerShape'
  OBVIOUS
<1>1. /\ MaxAsked \in Nat /\ message \in Messages /\ reply \in Replies /\ offered \subseteq Offers
      /\ asked \in Nat /\ asked <= MaxAsked /\ triggers \in Nat /\ triggers <= asked
      /\ stage \in {"model", "arrived"} => triggers < asked
      /\ left \in BOOLEAN
      /\ dialogue \in Dialogues
      /\ details \in Data /\ due \subseteq Data /\ prefill \in Nat /\ grounded \subseteq Nat
  BY MessageFacts DEF AnswerShape
<1>2. ASSUME NEW m \in Messages, NEW hasKey \in BOOLEAN, Post(m, hasKey) PROVE AnswerShape'
  <2>1. /\ asked < MaxAsked /\ asked' = asked + 1 /\ message' = m /\ offered' = {}
        /\ triggers' = triggers /\ left' = FALSE /\ dialogue' = Step(dialogue, "SEND_MESSAGE")
        /\ UNCHANGED <<details, due, prefill, grounded>>
    BY <1>2 DEF Post
  <2>2. [intent |-> "guardrail", low |-> FALSE, data |-> NoData, guardrail |-> TRUE] \in Replies
    BY DEF Replies, NoData, Data, Intents
  <2>3. m.faq # "none" =>
          [intent |-> m.faq, low |-> FALSE, data |-> NoData, guardrail |-> FALSE] \in Replies
    BY MessageFacts DEF Replies, NoData, Data
  <2>4. [NoReply EXCEPT !.data.fiatCurrency = m.fiat] \in Replies
    <3>1. m.fiat \in BOOLEAN
      BY MessageFacts
    <3> QED BY <3>1, NoReplyIsReply DEF Replies, Data
  <2>5. stage' \in {"arrived", "model"} /\ reply' \in Replies
    BY <1>1, <1>2, <2>2, <2>3, <2>4 DEF Post, Arrives
  <2>6. asked' \in 0 .. MaxAsked /\ triggers' \in 0 .. asked' /\ triggers' < asked'
    BY <1>1, <2>1
  <2>7. dialogue' \in Dialogues
    BY <1>1, <2>1, DialogueSteps
  <2> QED BY <1>1, <2>1, <2>5, <2>6, <2>7 DEF AnswerShape
<1>3. ASSUME NEW a \in ModelAnswers, ModelSays(a) PROVE AnswerShape'
  <2>1. /\ stage = "model" /\ stage' = "arrived"
        /\ reply' = [Parsed(a) EXCEPT !.data = Merge(message, @)]
        /\ UNCHANGED <<message, offered, triggers, asked, left, dialogue, details, due, prefill,
                       grounded>>
    BY <1>3 DEF ModelSays, Arrives, transactionVars
  <2>2. Parsed(a) \in Replies
    BY ParsedIsReply
  <2>3. Parsed(a).data \in Data
    BY <2>2 DEF Replies
  <2>4. Merge(message, Parsed(a).data) \in Data
    BY <1>1, <2>3, MergedIsData
  <2>5. reply' \in Replies
    BY <2>1, <2>2, <2>4 DEF Replies
  <2> QED BY <1>1, <2>1, <2>5 DEF AnswerShape
<1>4. CASE ModelThrows \/ FallsBack
  <2>1. /\ stage \in {"model", "arrived"} /\ stage' = "arrived" /\ reply' = NoReply
        /\ UNCHANGED <<message, offered, triggers, asked, left, dialogue, details, due, prefill,
                       grounded>>
    BY <1>4 DEF ModelThrows, FallsBack, Arrives, transactionVars
  <2> QED BY <1>1, <2>1, NoReplyIsReply DEF AnswerShape
<1>5. ASSUME NEW c \in [connected : BOOLEAN, admin : BOOLEAN], Replied(c) PROVE AnswerShape'
  <2>1. /\ stage = "arrived" /\ stage' \in {"idle", "shown"}
        /\ triggers' \in {triggers, triggers + 1}
        /\ UNCHANGED <<message, reply, asked, left, prefill>>
        /\ details' = Gathered(reply) /\ due' \in {{details'}, due}
        /\ grounded' \in {grounded, grounded \cup {reply.data.amountIn}}
    BY <1>5 DEF Replied
  <2>2. offered' \subseteq Offers
    BY <1>1, <1>5, OffersAreKinds DEF Replied
  <2>3. asked' \in 0 .. MaxAsked /\ triggers' \in 0 .. asked'
    BY <1>1, <2>1
  <2>4. dialogue' \in Dialogues
    <3> DEFINE request == [cancels |-> message.cancels, snap |-> dialogue.ctx]
    <3>1. dialogue' = Responded(dialogue, request, Outcome(reply))
      BY <1>5 DEF Replied
    <3>2. request.snap.count \in Nat
      BY <1>1 DEF Dialogues, MachinesCounting
    <3> HIDE DEF request
    <3> QED BY <1>1, <3>1, <3>2, DialogueResponds
  <2>5. details' \in Data /\ due' \subseteq Data
    BY <1>1, <2>1, GatheredIsData
  <2>6. reply.data.amountIn \in Nat
    BY <1>1 DEF Replies, Data
  <2>7. grounded' \subseteq Nat
    BY <1>1, <2>1, <2>6
  <2> QED BY <1>1, <2>1, <2>2, <2>3, <2>4, <2>5, <2>7 DEF AnswerShape
<1>6. ASSUME NEW differs \in BOOLEAN, ReadyTimerFires(differs) PROVE AnswerShape'
  <2>1. /\ due # {} /\ due' = {}
        /\ UNCHANGED <<stage, message, reply, offered, triggers, asked, left, dialogue, details,
                       grounded>>
    BY <1>6 DEF ReadyTimerFires
  <2>2. prefill' \in {prefill} \cup {data.amountIn : data \in due}
    BY <1>6 DEF ReadyTimerFires
  <2>3. prefill' \in Nat
    BY <1>1, <2>2 DEF Data
  <2> QED BY <1>1, <2>1, <2>3 DEF AnswerShape
<1>7. CASE DialogCloses
  BY <1>1, <1>7 DEF DialogCloses, AnswerShape
<1>8. ASSUME NEW event, ChangeChat(event) PROVE AnswerShape'
  <2>1. /\ dialogue' = Step(dialogue, event) /\ details' \in {NoData, details} /\ offered' = {}
        /\ UNCHANGED <<message, reply, triggers, asked, due, prefill, grounded>>
        /\ left' \in {TRUE, left} /\ stage' \in {"idle", stage}
    BY <1>8 DEF ChangeChat
  <2>2. dialogue' \in Dialogues
    BY <1>1, <2>1, DialogueSteps
  <2>3. details' \in Data
    <3>1. NoData \in Data
      BY DEF NoData, Data
    <3> QED BY <1>1, <2>1, <3>1
  <2> QED BY <1>1, <2>1, <2>2, <2>3 DEF AnswerShape
<1>9. CASE UNCHANGED assistantVars
  BY <1>9 DEF assistantVars, transactionVars, AnswerShape
<1> QED BY <1>2, <1>3, <1>4, <1>5, <1>6, <1>7, <1>8, <1>9 DEF AssistantNext

-----------------------------------------------------------------------------
(* The page: panels and notices are flags, and a sheet or a notice of a    *)
(* reconnection is there only where it belongs.                            *)
ShellShape == DepthInv /\ ShellTypeOK

ShellFlags == /\ mismatch \in BOOLEAN /\ shellAdmin \in BOOLEAN /\ shellOnline \in BOOLEAN
              /\ reconnected \in BOOLEAN /\ noticeTimer \in BOOLEAN
              /\ depositOpen \in BOOLEAN /\ adminMode \in BOOLEAN /\ bankOpen \in BOOLEAN
              /\ sidebar \in BOOLEAN /\ sheet \in BOOLEAN /\ narrow \in BOOLEAN
              /\ closing \in BOOLEAN

ShellPlaces == /\ shellAddress \in ShellAccounts \cup {0} /\ forgotten \in 0 .. 1
               /\ sheet => narrow
               /\ reconnected => noticeTimer /\ shellOnline

LEMMA ShellShapeIs == ShellShape <=> DepthInv /\ ShellFlags /\ ShellPlaces
<1>1. DepthInv => depth \in 0 .. epoch
  BY DEF DepthInv, DepthOfThisSession
<1>2. ShellTypeOK => ShellFlags /\ ShellPlaces
  BY DEF ShellTypeOK, ShellFlags, ShellPlaces
<1>3. ShellFlags /\ ShellPlaces /\ depth \in 0 .. epoch => ShellTypeOK
  BY DEF ShellTypeOK, ShellFlags, ShellPlaces
<1> QED BY <1>1, <1>2, <1>3 DEF ShellShape

LEMMA ShellShapeStarts == ShellInit => ShellShape
<1> SUFFICES ASSUME ShellInit PROVE ShellShape
  OBVIOUS
<1>1. ShellFlags
  BY DEF ShellInit, ShellFlags
<1>2. ShellPlaces
  BY DEF ShellInit, ShellPlaces
<1> QED BY <1>1, <1>2, DepthStarts, ShellShapeIs

(* The wallet's steps leave the flags of the others.                       *)
LEMMA ShellFlagsStay ==
  ASSUME ShellFlags, mismatch' \in BOOLEAN, shellAdmin' \in BOOLEAN,
         UNCHANGED <<netSide, panelSide, sheetSide>>
  PROVE  ShellFlags'
<1>1. UNCHANGED <<shellOnline, reconnected, noticeTimer, depositOpen, adminMode, bankOpen,
                  sidebar, sheet, narrow, closing>>
  BY DEF netSide, panelSide, sheetSide
<1> QED BY <1>1, Zenon DEF ShellFlags

LEMMA ShellShapeStays == ShellShape /\ [ShellNext]_shellVars => ShellShape'
<1> SUFFICES ASSUME ShellFlags, ShellPlaces, [ShellNext]_shellVars
             PROVE  ShellFlags' /\ ShellPlaces'
  <2>1. ShellShape' <=> DepthInv' /\ ShellFlags' /\ ShellPlaces'
    BY ShellShapeIs, PTL
  <2> QED BY <2>1, DepthStays, ShellShapeIs
<1>1. ASSUME NEW a \in ShellAccounts \cup {0}, NEW wrongNet \in BOOLEAN, WalletMoves(a, wrongNet)
      PROVE  ShellFlags' /\ ShellPlaces'
  <2>1. /\ shellAddress' = a /\ mismatch' = wrongNet
        /\ shellAdmin' = FALSE \/ shellAdmin' = shellAdmin
        /\ UNCHANGED <<netSide, panelSide, sheetSide>>
    BY <1>1 DEF WalletMoves
  <2>2. ShellFlags'
    <3>1. mismatch' \in BOOLEAN /\ shellAdmin' \in BOOLEAN
      BY <2>1, Zenon DEF ShellFlags
    <3> QED BY <2>1, <3>1, ShellFlagsStay
  <2>3. ShellPlaces'
    BY <2>1 DEF ShellPlaces, netSide, panelSide, sheetSide
  <2> QED BY <2>2, <2>3
<1>2. ASSUME NEW c \in shellChecks, NEW ok \in BOOLEAN, AdminKnown(c, ok)
      PROVE  ShellFlags' /\ ShellPlaces'
  <2>1. /\ shellAdmin' = (ok /\ c.address = ShellAdmin)
        /\ UNCHANGED <<shellAddress, mismatch, netSide, panelSide, sheetSide>>
    BY <1>2 DEF AdminKnown
  <2>2. shellAdmin' \in BOOLEAN
    BY <2>1, Zenon
  <2>3. ShellFlags'
    <3>1. mismatch' \in BOOLEAN
      BY <2>1, Zenon DEF ShellFlags
    <3> QED BY <2>1, <2>2, <3>1, ShellFlagsStay
  <2>4. ShellPlaces'
    BY <2>1 DEF ShellPlaces, netSide, panelSide, sheetSide
  <2> QED BY <2>3, <2>4
<1>3. CASE \/ \E p \in depthPolls, ok \in BOOLEAN : DepthAnswers(p, ok)
           \/ DepthTick \/ UNCHANGED shellVars
  <2>1. UNCHANGED <<shellAddress, shellAdmin, mismatch, netSide, panelSide, sheetSide>>
    BY <1>3 DEF DepthAnswers, DepthTick, shellVars, walletSide, netSide, panelSide, sheetSide
  <2>2. ShellFlags'
    <3>1. mismatch' \in BOOLEAN /\ shellAdmin' \in BOOLEAN
      BY <2>1, Zenon DEF ShellFlags
    <3> QED BY <2>1, <3>1, ShellFlagsStay
  <2>3. ShellPlaces'
    BY <2>1 DEF ShellPlaces, netSide, panelSide, sheetSide
  <2> QED BY <2>2, <2>3
<1>4. CASE ShellOnline \/ ShellOffline \/ NoticeEnds
  <2>1. /\ UNCHANGED <<shellAddress, shellAdmin, mismatch, panelSide, sheetSide>>
        /\ shellOnline' \in BOOLEAN /\ reconnected' \in BOOLEAN /\ noticeTimer' \in BOOLEAN
        /\ reconnected' => noticeTimer' /\ shellOnline'
    BY <1>4 DEF ShellOnline, ShellOffline, NoticeEnds, walletSide, ShellFlags
  <2>2. ShellFlags'
    BY <2>1, Zenon DEF ShellFlags, panelSide, sheetSide
  <2>3. ShellPlaces'
    BY <2>1 DEF ShellPlaces, panelSide, sheetSide
  <2> QED BY <2>2, <2>3
<1>5. CASE \/ \E byCommand \in BOOLEAN : TransactionOpens(byCommand)
           \/ AdminOpens \/ DepositCloses \/ DepositSucceeds \/ BankCloses
  <2>1. /\ UNCHANGED <<walletSide, netSide, sheetSide>>
        /\ depositOpen' \in BOOLEAN /\ adminMode' \in BOOLEAN /\ bankOpen' \in BOOLEAN
    BY <1>5, Zenon DEF TransactionOpens, AdminOpens, DepositCloses, DepositSucceeds, BankCloses,
                       ShellFlags
  <2>2. ShellFlags'
    BY <2>1, Zenon DEF ShellFlags, walletSide, netSide, sheetSide
  <2>3. ShellPlaces'
    BY <2>1 DEF ShellPlaces, walletSide, netSide, sheetSide
  <2> QED BY <2>2, <2>3
<1>6. CASE (\E open \in BOOLEAN : ShowSidebar(open)) \/ CloseSheet \/ SheetCloses \/ Resize
  <2>1. /\ UNCHANGED <<walletSide, netSide, panelSide>>
        /\ sidebar' \in BOOLEAN /\ sheet' \in BOOLEAN /\ narrow' \in BOOLEAN
        /\ closing' \in BOOLEAN
        /\ sheet' => narrow'
    BY <1>6, Zenon DEF ShowSidebar, CloseSheet, SheetCloses, Resize, ShellFlags, ShellPlaces
  <2>2. forgotten' \in 0 .. 1
    BY <1>6 DEF ShowSidebar, CloseSheet, SheetCloses, Resize, ShellPlaces
  <2>3. ShellFlags'
    BY <2>1, Zenon DEF ShellFlags, walletSide, netSide, panelSide
  <2>4. ShellPlaces'
    BY <2>1, <2>2 DEF ShellPlaces, walletSide, netSide, panelSide
  <2> QED BY <2>3, <2>4
<1> QED BY <1>1, <1>2, <1>3, <1>4, <1>5, <1>6, Zenon DEF ShellNext

-----------------------------------------------------------------------------
(* The saved conversations: no history pins more sessions than there are.  *)
LEMMA PinsFit ==
  ASSUME NEW pins \in Seq(Ids), IsInjective(pins)
  PROVE  pins \in BoundedSeq(Ids, Cardinality(Ids))
<1>1. IsFiniteSet(Ids) /\ Cardinality(Ids) \in Nat
  BY StoreAssumption, FS_CardinalityType
<1>2. Len(pins) \in Nat /\ pins \in [1 .. Len(pins) -> Ids]
  OBVIOUS
<1>3. IsFiniteSet(1 .. Len(pins)) /\ Cardinality(1 .. Len(pins)) = Len(pins)
  <2>1. Len(pins) \in Int /\ 1 \in Int
    BY <1>2
  <2>2. /\ IsFiniteSet(1 .. Len(pins))
        /\ Cardinality(1 .. Len(pins)) = IF 1 > Len(pins) THEN 0 ELSE Len(pins) - 1 + 1
    BY <2>1, FS_Interval
  <2> QED BY <1>2, <2>2
<1>4. \A a, b \in 1 .. Len(pins) : pins[a] = pins[b] => a = b
  BY DEF IsInjective
<1>5. ~(Cardinality(Ids) < Cardinality(1 .. Len(pins)))
  BY <1>1, <1>2, <1>3, <1>4, FS_PigeonHole
<1>6. Len(pins) \in 0 .. Cardinality(Ids)
  BY <1>1, <1>2, <1>3, <1>5
<1> QED BY <1>2, <1>6 DEF BoundedSeq, SeqOf

LEMMA SoundFits == \A n, h : n \in Nat /\ n <= MaxEdits /\ Sound(h, n) => h \in Histories
<1> SUFFICES ASSUME NEW n, NEW h, n \in Nat, n <= MaxEdits, Sound(h, n) PROVE h \in Histories
  OBVIOUS
<1>1. /\ h = [current |-> h.current, at |-> h.at, pins |-> h.pins, stale |-> h.stale]
      /\ DOMAIN h.at \in SUBSET Ids /\ h.at \in [DOMAIN h.at -> Nat]
      /\ h.pins \in Seq(Ids) /\ h.stale \in SUBSET Ids
      /\ h.current = NoSession \/ h.current \in DOMAIN h.at
  BY SoundOpens
<1>2. (\A x \in DOMAIN h.at : h.at[x] <= n) /\ IsInjective(h.pins)
  BY DEF Sound
<1>3. MaxEdits \in Nat
  BY StoreAssumption, FS_CardinalityType
<1>4. \A x \in DOMAIN h.at : h.at[x] \in 0 .. MaxEdits
  BY <1>1, <1>2, <1>3
<1>5. h.at \in UNION {[some -> 0 .. MaxEdits] : some \in SUBSET Ids}
  BY <1>1, <1>4
<1>6. h.pins \in BoundedSeq(Ids, Cardinality(Ids))
  BY <1>1, <1>2, PinsFit
<1>7. h.current \in Ids \cup {NoSession}
  BY <1>1
<1> HIDE DEF Histories
<1>8. [current |-> h.current, at |-> h.at, pins |-> h.pins, stale |-> h.stale] \in Histories
  BY <1>1, <1>5, <1>6, <1>7 DEF Histories
<1> QED BY <1>1, <1>8

(* What the hooks are doing, whatever their copies hold.                   *)
HookShape ==
  /\ phase \in [Hooks -> {"off", "on", "crashed"}] /\ dirty \subseteq Hooks
  /\ openPages \in 0 .. MaxPages
  /\ hidden \in Ids \cup {NoSession}
  /\ booted \in BOOLEAN /\ clearingAll \in BOOLEAN

HistoryShape == StoreInv /\ HookShape

LEMMA HistoryShapeTypes == HistoryShape => StoreTypeOK
<1> SUFFICES ASSUME HistoryShape PROVE StoreTypeOK
  OBVIOUS
<1>1. StoreInv /\ HookShape
  BY DEF HistoryShape
<1>2. MaxEdits \in Nat
  BY StoreAssumption, FS_CardinalityType
<1>3. edits \in Nat /\ edits <= MaxEdits
  BY <1>1 DEF StoreInv
<1>4. storage \in Histories /\ stash \in Histories
  BY <1>1, <1>3, SoundFits DEF StoreInv
<1>5. \A h \in Hooks : view[h] \in Histories
  BY <1>1, <1>3, OneCopy, SoundFits
<1>6. view \in [Hooks -> Histories]
  BY <1>1, <1>5 DEF StoreInv, Copies
<1>7. deleteTimers \subseteq Ids
  BY <1>1 DEF StoreInv, DeletionUndoable, HookShape
<1>8. {booted, clearingAll} \subseteq BOOLEAN
  BY <1>1 DEF HookShape
<1>9. edits \in 0 .. MaxEdits
  BY <1>2, <1>3
<1> QED BY <1>1, <1>4, <1>6, <1>7, <1>8, <1>9 DEF StoreTypeOK, HookShape

LEMMA HookShapeStarts == StoreInit => HookShape
<1> SUFFICES ASSUME StoreInit PROVE HookShape
  OBVIOUS
<1>1. /\ phase \in [Hooks -> {"off", "on", "crashed"}] /\ dirty \subseteq Hooks
      /\ openPages \in 0 .. MaxPages /\ hidden \in Ids \cup {NoSession}
  BY StoreAssumption DEF StoreInit
<1>2. booted \in BOOLEAN /\ clearingAll \in BOOLEAN
  BY DEF StoreInit
<1> QED BY <1>1, <1>2 DEF HookShape

LEMMA SetShapes ==
  ASSUME HookShape, NEW some \in SUBSET Hooks, NEW cards, Set(some, cards)
  PROVE  phase' \in [Hooks -> {"off", "on", "crashed"}] /\ dirty' \subseteq Hooks
<1>1. /\ \/ phase' = [h \in Hooks |-> IF h \in some THEN "on" ELSE phase[h]]
         \/ phase' = [h \in Hooks |-> IF h \in some \/ On(h) THEN "crashed" ELSE phase[h]]
      /\ dirty' \in {dirty \cup some, dirty \ some, {}}
  BY DEF Set
<1>2. phase \in [Hooks -> {"off", "on", "crashed"}] /\ dirty \subseteq Hooks
  BY DEF HookShape
<1> QED BY <1>1, <1>2

LEMMA UnmountShapes ==
  ASSUME HookShape, NEW some, Unmounted(some)
  PROVE  /\ phase' \in [Hooks -> {"off", "on", "crashed"}] /\ dirty' \subseteq Hooks
         /\ hidden' = NoSession /\ clearingAll' = FALSE
<1>1. /\ phase' = [h \in Hooks |-> IF h \in some THEN "off" ELSE phase[h]]
      /\ dirty' = dirty \ some /\ hidden' = NoSession /\ clearingAll' = FALSE
  BY DEF Unmounted
<1>2. phase \in [Hooks -> {"off", "on", "crashed"}] /\ dirty \subseteq Hooks
  BY DEF HookShape
<1> QED BY <1>1, <1>2

LEMMA HookShapeStays == HookShape /\ [StoreNext]_historyVars => HookShape'
<1> SUFFICES ASSUME HookShape, [StoreNext]_historyVars PROVE HookShape'
  OBVIOUS
<1>1. /\ phase \in [Hooks -> {"off", "on", "crashed"}] /\ dirty \subseteq Hooks
      /\ openPages \in 0 .. MaxPages /\ hidden \in Ids \cup {NoSession}
      /\ booted \in BOOLEAN /\ clearingAll \in BOOLEAN /\ MaxPages \in Nat
  BY StoreAssumption DEF HookShape
<1>2. Groups \subseteq SUBSET Hooks /\ {"chat"} \in SUBSET Hooks /\ {"side"} \in SUBSET Hooks
  BY DEF Hooks, Groups
<1>3. ASSUME NEW some \in Groups, Mount(some) PROVE HookShape'
  <2>1. Set(some, Loaded(storage)) /\ openPages < MaxPages /\ openPages' = openPages + 1
        /\ UNCHANGED <<booted, sideVars>>
    BY <1>3 DEF Mount
  <2>2. openPages' \in 0 .. MaxPages
    BY <1>1, <2>1
  <2>3. phase' \in [Hooks -> {"off", "on", "crashed"}] /\ dirty' \subseteq Hooks
    BY <1>2, <2>1, SetShapes
  <2> QED BY <1>1, <2>1, <2>2, <2>3 DEF HookShape, sideVars
<1>4. CASE Boot \/ NewSession \/ UpdateCurrent \/ (\E id \in Ids : LoadSession(id) \/ TogglePin(id))
           \/ (\E order : ReorderPinned(order))
  <2>1. /\ booted' \in BOOLEAN /\ UNCHANGED <<openPages, sideVars>>
        /\ \E some \in SUBSET Hooks : \E g : Set(some, g)
    BY <1>1, <1>2, <1>4 DEF Boot, NewSession, UpdateCurrent, LoadSession, TogglePin,
                            ReorderPinned
  <2>2. phase' \in [Hooks -> {"off", "on", "crashed"}] /\ dirty' \subseteq Hooks
    BY <1>1, <2>1, SetShapes
  <2> QED BY <1>1, <2>1, <2>2 DEF HookShape, sideVars
<1>5. ASSUME NEW id \in Ids, DeleteSession(id) PROVE HookShape'
  BY <1>1, <1>5 DEF DeleteSession, HookShape
<1>6. CASE (\E id \in Ids : DeleteTimerFires(id)) \/ ClearAll
  <2>1. /\ hidden' \in {hidden, NoSession} /\ clearingAll' \in {clearingAll, TRUE}
        /\ UNCHANGED <<openPages, booted>>
        /\ \E some \in SUBSET Hooks : \E g : Set(some, g)
    BY <1>2, <1>6 DEF DeleteTimerFires, ClearAll
  <2>2. phase' \in [Hooks -> {"off", "on", "crashed"}] /\ dirty' \subseteq Hooks
    BY <2>1, SetShapes
  <2> QED BY <1>1, <2>1, <2>2 DEF HookShape
<1>7. CASE UndoDelete \/ ClearTimerFires
  BY <1>1, <1>7 DEF UndoDelete, ClearTimerFires, HookShape
<1>8. CASE UndoClearAll
  <2>1. CASE stash.at # <<>>
    <3>1. Unmounted(Hooks) /\ booted' = FALSE /\ openPages' = openPages
      BY <1>8, <2>1 DEF UndoClearAll
    <3> QED BY <1>1, <3>1, UnmountShapes DEF HookShape
  <2>2. CASE ~(stash.at # <<>>)
    BY <1>1, <1>8, <2>2 DEF UndoClearAll, HookShape
  <2> QED BY <2>1, <2>2
<1>9. CASE UnmountSide \/ ReloadPage
  <2>1. (\E some : Unmounted(some)) /\ booted' \in {booted, FALSE} /\ openPages' = openPages
    BY <1>9 DEF UnmountSide, ReloadPage
  <2> QED BY <1>1, <2>1, UnmountShapes DEF HookShape
<1>10. CASE (\E h \in Hooks : Save(h)) \/ UNCHANGED historyVars
  <2>1. dirty' \subseteq dirty
        /\ UNCHANGED <<phase, openPages, booted, hidden, clearingAll>>
    BY <1>10 DEF Save, historyVars, sideVars
  <2> QED BY <1>1, <2>1 DEF HookShape
<1> QED BY <1>3, <1>4, <1>5, <1>6, <1>7, <1>8, <1>9, <1>10 DEF StoreNext

-----------------------------------------------------------------------------
(* The search panel: a search pending at a place is of an instance from    *)
(* that place on, so there are no more of them than instances.             *)
InOrder(pend, n) == \A i \in 1 .. Len(pend) : pend[i].instance \in i .. n

MatchesShown ==
  /\ results \in Seq(Nat \X Nat)
  /\ results = <<>> => activeIndex = 0
  /\ results # <<>> => activeIndex \in 1 .. Len(results)

SearchShape == /\ SearchInv /\ 1 <= instance
               /\ InOrder(searches, instance) /\ MatchesShown

(* Increasing places are never before where they are kept.                 *)
LEMMA PlacesAhead ==
  ASSUME NEW n \in Nat, NEW m \in Nat, NEW at \in [1 .. n -> 1 .. m],
         \A i, j \in 1 .. n : i < j => at[i] < at[j]
  PROVE  \A i \in 1 .. n : i <= at[i]
<1> DEFINE S == {i \in 0 .. n : i # 0 => i <= at[i]}
<1>1. 0 \in S
  OBVIOUS
<1>2. ASSUME NEW i \in 0 .. n - 1, i \in S PROVE i + 1 \in S
  <2>1. i + 1 \in 1 .. n /\ at[i + 1] \in 1 .. m
    OBVIOUS
  <2>2. CASE i = 0
    BY <2>1, <2>2
  <2>3. CASE i # 0
    <3>1. i \in 1 .. n /\ at[i] \in 1 .. m /\ i < i + 1 /\ i <= at[i]
      BY <1>2, <2>3
    <3>2. at[i] < at[i + 1]
      BY <2>1, <3>1
    <3>3. i + 1 <= at[i + 1]
      BY <2>1, <3>1, <3>2
    <3> QED BY <2>1, <3>3
  <2> QED BY <2>2, <2>3
<1> HIDE DEF S
<1>3. 0 .. n \subseteq S
  BY <1>1, <1>2, IntervalInduction
<1> QED BY <1>3 DEF S

LEMMA DebouncedInOrder ==
  ASSUME NEW pend \in Seq(SearchesOf(SearchedHistories)), NEW m \in Nat, InOrder(pend, m),
         NEW n \in Nat, n = m \/ n = m + 1, n >= 1, NEW f \in Filters,
         NEW h \in SearchedHistories
  PROVE  InOrder(Debounced(pend, n, f, h), n)
<1> DEFINE S == SearchesOf(SearchedHistories)
           good == {t \in ToSet(pend) : t.instance # n}
           q == Filtered(pend, good)
           e == [instance |-> n, filters |-> f, history |-> h]
           all == Append(q, e)
<1>1. q \in Seq(S) /\ \E at : KeptAt(at, q, pend, good, Len(pend))
  BY FilteredPlaces
<1>2. PICK at : KeptAt(at, q, pend, good, Len(pend))
  BY <1>1
<1>3. \A x \in good : x.instance # n
  OBVIOUS
<1>4. e \in S /\ e.instance = n
  BY DEF SearchesOf
<1>5. Debounced(pend, n, f, h) = all
  BY DEF Debounced
<1> DEFINE k == Len(q)
           p == Len(pend)
<1>6. k \in Nat /\ p \in Nat
  BY <1>1
<1>7. /\ k <= p /\ at \in [1 .. k -> 1 .. p]
      /\ \A i \in 1 .. k : q[i] = pend[at[i]] /\ q[i] \in good
      /\ \A i, j \in 1 .. k : i < j => at[i] < at[j]
  BY <1>2 DEF KeptAt
<1>8. all \in Seq(S) /\ Len(all) = k + 1 /\ all[k + 1] = e /\ \A i \in 1 .. k : all[i] = q[i]
  BY <1>1, <1>4
<1>9. \A i \in 1 .. p : pend[i].instance \in i .. m
  BY DEF InOrder
<1> HIDE DEF S, good, q, e, all, k, p
<1>10. \A i \in 1 .. k : i <= at[i]
  BY <1>6, <1>7, PlacesAhead
<1>11. ASSUME NEW i \in 1 .. k PROVE q[i].instance \in i .. n /\ q[i].instance < n
  <2>1. at[i] \in 1 .. p /\ i <= at[i] /\ at[i] \in Nat
    BY <1>6, <1>7, <1>10
  <2>2. pend[at[i]].instance \in at[i] .. m
    BY <1>9, <2>1
  <2>3. q[i] = pend[at[i]] /\ q[i].instance # n
    BY <1>3, <1>7
  <2> QED BY <2>1, <2>2, <2>3
<1>12. k + 1 <= n
  <2>1. CASE k = 0
    BY <2>1
  <2>2. CASE k # 0
    <3>1. k \in 1 .. k
      BY <1>6, <2>2
    <3> DEFINE last == q[k].instance
    <3>2. last \in k .. n /\ last < n
      BY <1>11, <3>1
    <3> HIDE DEF last
    <3> QED BY <1>6, <3>2
  <2> QED BY <2>1, <2>2
<1>13. ASSUME NEW i \in 1 .. k + 1 PROVE all[i].instance \in i .. n
  <2>1. CASE i = k + 1
    BY <1>4, <1>6, <1>8, <1>12, <2>1
  <2>2. CASE i # k + 1
    <3>1. i \in 1 .. k
      BY <1>6, <2>2
    <3> QED BY <1>8, <1>11, <3>1
  <2> QED BY <2>1, <2>2
<1> QED BY <1>5, <1>8, <1>13 DEF InOrder

LEMMA InOrderFits ==
  ASSUME NEW pend \in Seq(SearchesOf(SearchedHistories)), NEW n \in Nat, InOrder(pend, n)
  PROVE  Len(pend) <= n
<1> DEFINE k == Len(pend)
           last == pend[k].instance
<1>1. k \in Nat
  OBVIOUS
<1>2. k # 0 => last \in k .. n
  BY <1>1 DEF InOrder
<1> HIDE DEF k, last
<1>3. k <= n
  BY <1>1, <1>2
<1> QED BY <1>3 DEF k

LEMMA TailInOrder ==
  ASSUME NEW pend \in Seq(SearchesOf(SearchedHistories)), NEW n \in Nat, InOrder(pend, n),
         pend # <<>>
  PROVE  InOrder(Tail(pend), n)
<1> DEFINE k == Len(pend)
           t == Tail(pend)
<1>1. k \in Nat /\ k >= 1 /\ Len(t) = k - 1 /\ \A i \in 1 .. k - 1 : t[i] = pend[i + 1]
  BY HeadTailProperties, EmptySeq, LenProperties
<1>2. \A i \in 1 .. k : pend[i].instance \in i .. n
  BY DEF InOrder
<1> HIDE DEF k, t
<1>3. ASSUME NEW i \in 1 .. k - 1 PROVE t[i].instance \in i .. n
  <2>1. i + 1 \in 1 .. k /\ i \in Nat
    BY <1>1
  <2> DEFINE x == pend[i + 1].instance
  <2>2. x \in i + 1 .. n /\ t[i].instance = x
    BY <1>1, <1>2, <2>1
  <2> HIDE DEF x
  <2> QED BY <2>1, <2>2
<1>4. InOrder(t, n)
  BY <1>1, <1>3 DEF InOrder
<1> QED BY <1>4 DEF t

(* What a search finds is a list of places.                                *)
LEMMA FoundIsList ==
  ASSUME NEW h \in SearchedHistories, NEW f \in Filters
  PROVE  SearchChatHistory(h, f) \in Seq(Nat \X Nat)
<1> DEFINE good(i) == {p \in {i} \X DOMAIN h[i].messages :
             LET m == h[i].messages[p[2]]
             IN /\ m.role # "system"
                /\ f.wallet # 0 => h[i].wallet = f.wallet
                /\ InRange(m, f)
                /\ f.keyword # 0 => f.keyword \in m.words}
           all(i) == [j \in DOMAIN h[i].messages |-> <<i, j>>]
           hits(i) == Filtered(all(i), good(i))
           lists == [i \in DOMAIN h |-> hits(i)]
<1>1. DOMAIN h = 1 .. Len(h) /\ Len(h) \in Nat
      /\ \A i \in DOMAIN h : h[i].messages \in Seq([role : {"user", "assistant", "system"},
                                                    day : Days, words : SUBSET Keywords])
  <2> DEFINE M == [role : {"user", "assistant", "system"}, day : Days, words : SUBSET Keywords]
             T == [wallet : Wallets \cup {0}, messages : Seq(M)]
  <2>1. h \in Seq(T)
    BY SearchAssumption
  <2>2. \A s \in T : s.messages \in Seq(M)
    OBVIOUS
  <2> HIDE DEF M, T
  <2>3. DOMAIN h = 1 .. Len(h) /\ Len(h) \in Nat /\ \A i \in DOMAIN h : h[i].messages \in Seq(M)
    BY <2>1, <2>2
  <2> QED BY <2>3 DEF M
<1>2. ASSUME NEW i \in DOMAIN h PROVE all(i) \in Seq(Nat \X Nat)
  <2> DEFINE k == Len(h[i].messages)
             l == all(i)
  <2>1. k \in Nat /\ DOMAIN h[i].messages = 1 .. k /\ i \in Nat
    BY <1>1
  <2>2. l = [j \in 1 .. k |-> <<i, j>>]
    BY <2>1
  <2> HIDE DEF k, l
  <2>3. l \in [1 .. k -> Nat \X Nat]
    BY <2>1, <2>2
  <2>4. l \in Seq(Nat \X Nat)
    BY <2>1, <2>3
  <2> QED BY <2>4 DEF l
<1> HIDE DEF all, good
<1>3. \A i \in DOMAIN h : hits(i) \in Seq(Nat \X Nat)
  BY <1>2, FilteredType
<1> HIDE DEF hits
<1>4. lists \in Seq(Seq(Nat \X Nat))
  BY <1>1, <1>3
<1>5. FlattenSeq(lists) \in Seq(Nat \X Nat)
  BY <1>4, FlattenMembers
<1>6. <<>> \in Seq(Nat \X Nat)
  OBVIOUS
<1>7. SearchChatHistory(h, f) = IF f = NoFilter THEN <<>> ELSE FlattenSeq(lists)
  BY DEF SearchChatHistory, lists, hits, all, good
<1> HIDE DEF lists
<1> QED BY <1>5, <1>6, <1>7

LEMMA SearchShapeTypes == SearchShape => SearchTypeOK
<1> SUFFICES ASSUME SearchShape PROVE SearchTypeOK
  OBVIOUS
<1>1. /\ history \in SearchedHistories /\ filters \in Filters /\ instance \in Nat
      /\ searches \in Seq(SearchesOf(SearchedHistories)) /\ InOrder(searches, instance)
  BY DEF SearchShape, SearchInv
<1>2. Len(searches) <= instance
  BY <1>1, InOrderFits
<1>3. IF results = <<>> THEN activeIndex = 0 ELSE activeIndex \in DOMAIN results
  BY DEF SearchShape, MatchesShown
<1> QED BY <1>1, <1>2, <1>3 DEF SearchTypeOK

LEMMA SearchShapeStarts == SearchInit => SearchShape
<1> SUFFICES ASSUME SearchInit PROVE SearchShape
  OBVIOUS
<1>1. NoFilter \in Filters /\ history \in SearchedHistories
  BY DEF NoFilter, Filters, SearchInit
<1>2. <<>> \in Seq(SearchesOf(SearchedHistories)) /\ InOrder(<<>>, 1) /\ 1 \in Nat /\ 1 >= 1
  BY DEF InOrder
<1>3. InOrder(Debounced(<<>>, 1, NoFilter, history), 1)
  BY <1>1, <1>2, DebouncedInOrder
<1>4. searches = Debounced(<<>>, 1, NoFilter, history) /\ instance = 1
  BY DEF SearchInit
<1>5. MatchesShown
  BY DEF SearchInit, MatchesShown
<1> QED BY <1>2, <1>3, <1>4, <1>5, SearchStarts DEF SearchShape

LEMMA SearchShapeStays == SearchShape /\ [SearchNext]_searchVars => SearchShape'
<1> SUFFICES ASSUME SearchShape, [SearchNext]_searchVars
             PROVE  InOrder(searches, instance)' /\ MatchesShown' /\ 1 <= instance'
  BY SearchStays DEF SearchShape
<1>1. /\ history \in SearchedHistories /\ filters \in Filters /\ instance \in Nat
      /\ searches \in Seq(SearchesOf(SearchedHistories)) /\ InOrder(searches, instance)
      /\ 1 <= instance
  BY DEF SearchShape, SearchInv
<1>2. /\ results \in Seq(Nat \X Nat)
      /\ results = <<>> => activeIndex = 0
      /\ results # <<>> => activeIndex \in 1 .. Len(results)
  BY Zenon DEF SearchShape, MatchesShown
<1>3. UNCHANGED <<results, activeIndex>> => MatchesShown'
  <2> SUFFICES ASSUME results' = results, activeIndex' = activeIndex PROVE MatchesShown'
    OBVIOUS
  <2> QED BY <1>2, Zenon DEF MatchesShown
<1>4. UNCHANGED <<searches, instance>> => InOrder(searches, instance)' /\ 1 <= instance'
  BY <1>1 DEF InOrder
<1>5. ASSUME NEW f \in Filters, SetFilters(f)
      PROVE  InOrder(searches, instance)' /\ MatchesShown' /\ 1 <= instance'
  <2>1. /\ searches' = Debounced(searches, instance, f, history)
        /\ instance' = instance /\ UNCHANGED <<results, activeIndex>>
    BY <1>5 DEF SetFilters
  <2>2. InOrder(Debounced(searches, instance, f, history), instance)
    BY <1>1, DebouncedInOrder
  <2> QED BY <1>1, <1>3, <2>1, <2>2
<1>6. ASSUME NEW h \in SearchedHistories, HistoryMoves(h)
      PROVE  InOrder(searches, instance)' /\ MatchesShown' /\ 1 <= instance'
  <2>1. /\ searches' = Debounced(searches, instance + 1, filters, h)
        /\ instance' = instance + 1 /\ UNCHANGED <<results, activeIndex>>
    BY <1>6 DEF HistoryMoves
  <2>2. instance + 1 \in Nat /\ instance + 1 >= 1
    BY <1>1
  <2>3. InOrder(Debounced(searches, instance + 1, filters, h), instance + 1)
    BY <1>1, <2>2, DebouncedInOrder
  <2> QED BY <1>3, <2>1, <2>2, <2>3
<1>7. CASE SearchRuns
  <2>1. /\ searches # <<>> /\ searches' = Tail(searches) /\ instance' = instance
        /\ IF panelOpen
             THEN /\ results' = SearchChatHistory(Head(searches).history, Head(searches).filters)
                  /\ activeIndex' = IF results' = <<>> THEN 0 ELSE 1
             ELSE UNCHANGED <<results, activeIndex>>
    BY <1>7 DEF SearchRuns
  <2>2. InOrder(Tail(searches), instance)
    BY <1>1, <2>1, TailInOrder
  <2>3. Head(searches) \in SearchesOf(SearchedHistories)
    BY <1>1, <2>1
  <2>4. Head(searches).history \in SearchedHistories /\ Head(searches).filters \in Filters
    BY <2>3 DEF SearchesOf
  <2>5. CASE panelOpen
    <3>1. results' \in Seq(Nat \X Nat)
      BY <2>1, <2>4, <2>5, FoundIsList
    <3>2. activeIndex' = IF results' = <<>> THEN 0 ELSE 1
      BY <2>1, <2>5
    <3>3. results' # <<>> => 1 \in 1 .. Len(results')
      BY <3>1, EmptySeq, LenProperties
    <3>4. MatchesShown'
      BY <3>1, <3>2, <3>3 DEF MatchesShown
    <3> QED BY <1>1, <2>1, <2>2, <3>4
  <2>6. CASE ~panelOpen
    BY <1>1, <1>3, <2>1, <2>2, <2>6
  <2> QED BY <2>5, <2>6
<1>8. ASSUME NEW i \in DOMAIN results, Activate(i)
      PROVE  InOrder(searches, instance)' /\ MatchesShown' /\ 1 <= instance'
  <2>1. activeIndex' = i /\ UNCHANGED <<searches, instance, results>>
    BY <1>8 DEF Activate
  <2>2. i \in 1 .. Len(results) /\ results # <<>>
    BY <1>2
  <2>3. MatchesShown'
    BY <1>2, <2>1, <2>2 DEF MatchesShown
  <2> QED BY <1>4, <2>1, <2>3
<1>9. CASE SelectResult \/ ClosePanel \/ UNCHANGED searchVars
  <2>1. UNCHANGED <<searches, instance, results, activeIndex>>
    BY <1>9 DEF SelectResult, ClosePanel, searchVars
  <2> QED BY <1>3, <1>4, <2>1
<1> QED BY <1>5, <1>6, <1>7, <1>8, <1>9 DEF SearchNext

-----------------------------------------------------------------------------
(* The text on the screen: its letters are the message's and the masks'.   *)
Inked == Written \cup {Star, Block, Bar}

LEMMA MaskIsInked ==
  ASSUME NEW word \in Seq(Written), NEW style \in Styles
  PROVE  GenerateMask(word, style) \in Seq(Inked)
<1>1. Star \in Inked /\ Block \in Inked /\ Bar \in Inked /\ Written \subseteq Inked
  BY DEF Inked
<1>2. DOMAIN word = 1 .. Len(word) /\ Len(word) \in Nat /\ \A i \in 1 .. Len(word) : word[i] \in Written
  OBVIOUS
<1> HIDE DEF Inked, Written
<1>4. word \in Seq(Inked) /\ <<Bar>> \in Seq(Inked) /\ <<Star>> \in Seq(Inked)
  BY <1>1, <1>2
<1>5. CASE style = "asterisk"
  <2>1. GenerateMask(word, style) = [i \in 1 .. Len(word) |-> Star]
    BY <1>2, <1>5 DEF GenerateMask
  <2> QED BY <1>1, <1>2, <2>1
<1>6. CASE style = "block"
  <2>1. GenerateMask(word, style) = [i \in 1 .. Len(word) |-> Block]
    BY <1>2, <1>6 DEF GenerateMask
  <2> QED BY <1>1, <1>2, <2>1
<1>7. CASE style = "initial" /\ Len(word) <= 1
  <2>1. GenerateMask(word, style) = <<Star>>
    BY <1>7 DEF GenerateMask
  <2> QED BY <1>4, <2>1
<1>8. CASE style = "initial" /\ ~(Len(word) <= 1)
  <2>1. GenerateMask(word, style) =
          [i \in 1 .. Len(word) |-> IF i = 1 THEN word[1] ELSE Star]
    BY <1>2, <1>8 DEF GenerateMask
  <2>2. word[1] \in Inked
    BY <1>1, <1>2, <1>8
  <2> QED BY <1>1, <1>2, <2>1, <2>2
<1>9. CASE style = "pipe"
  <2>1. GenerateMask(word, style) = <<Bar>> \o word \o <<Bar>>
    BY <1>9 DEF GenerateMask
  <2> QED BY <1>4, <2>1, ConcatProperties
<1> QED BY <1>5, <1>6, <1>7, <1>8, <1>9 DEF Styles

(* Whatever the style, however the matches overlap, and wherever lower     *)
(* case has moved them.                                                    *)
LEMMA MaskedIsInked ==
  ASSUME NEW text \in Seq(Written), NEW style \in Styles
  PROVE  MaskText(text, style) \in Seq(Inked)
<1> DEFINE found == FindSensitiveTerms(text)
           n     == Len(found)
           One(before, m) ==
             LET mask  == GenerateMask(Substring(text, m.first, m.last), style)
                 first == m.first + before.offset
                 last  == m.last + before.offset
             IN [text   |-> Substring(before.text, 1, first - 1) \o mask
                            \o Substring(before.text, last + 1, Len(before.text)),
                 offset |-> before.offset + Len(mask) - (m.last - m.first + 1)]
           start == [text |-> text, offset |-> 0]
           S     == [text : Seq(Inked), offset : Int]
           G(f)  == f = [k \in 0 .. n |-> IF k = 0 THEN start ELSE One(f[k - 1], found[k])]
           it    == CHOOSE f : G(f)
           next  == [k \in 1 .. n |-> [b \in S |-> One(b, found[k])]]
<1>0. text \in Seq(Inked)
  <2>1. Written \subseteq Inked
    BY DEF Inked
  <2> QED BY <2>1
<1>1. found \in Seq(Marks) /\ n \in Nat /\ DOMAIN found = 1 .. n
  <2>1. found \in Seq(Marks)
    BY LowerIsWritten, FoundTogether
  <2> HIDE DEF found
  <2> QED BY <2>1
<1>2. MaskText(text, style) = it[n].text
  BY DEF MaskText
<1> HIDE DEF found, it
<1>3. \A k \in 1 .. n : found[k] \in Marks
  BY <1>1
<1>4. ASSUME NEW b \in S, NEW k \in 1 .. n PROVE One(b, found[k]) \in S
  <2> DEFINE m    == found[k]
             word == Substring(text, m.first, m.last)
             mask == GenerateMask(word, style)
             head == Substring(b.text, 1, (m.first + b.offset) - 1)
             tail == Substring(b.text, (m.last + b.offset) + 1, Len(b.text))
             moved == b.offset + Len(mask) - (m.last - m.first + 1)
  <2>1. b.text \in Seq(Inked) /\ b.offset \in Int /\ m.first \in Int /\ m.last \in Int
    BY <1>3 DEF Marks
  <2>2. One(b, m) = [text |-> head \o mask \o tail, offset |-> moved]
    OBVIOUS
  <2> HIDE DEF m, One
  <2>3. word \in Seq(Written)
    BY <2>1, SubstringType
  <2> HIDE DEF word
  <2>4. mask \in Seq(Inked)
    BY <2>3, MaskIsInked
  <2>5. head \in Seq(Inked)
    <3>1. (m.first + b.offset) - 1 \in Int
      BY <2>1
    <3> QED BY <2>1, <3>1, SubstringType
  <2>6. tail \in Seq(Inked)
    <3>1. (m.last + b.offset) + 1 \in Int /\ Len(b.text) \in Int
      BY <2>1
    <3> QED BY <2>1, <3>1, SubstringType
  <2> HIDE DEF mask, head, tail
  <2>7. moved \in Int
    BY <2>1, <2>4
  <2> HIDE DEF moved
  <2>8. head \o mask \in Seq(Inked)
    BY <2>4, <2>5, ConcatProperties
  <2>9. head \o mask \o tail \in Seq(Inked)
    BY <2>6, <2>8, ConcatProperties
  <2> QED BY <2>2, <2>7, <2>9 DEF m
<1>5. start \in S
  BY <1>0, <1>1
<1> HIDE DEF One, n, S, start
<1>6. Steps(next, n, S)
  BY <1>4 DEF Steps
<1>7. PICK g : Run(g, n, S, start, next)
  <2> HIDE DEF next
  <2> QED BY <1>1, <1>5, <1>6, Recursion
<1>8. G(g)
  <2>1. g \in [0 .. n -> S] /\ g[0] = start /\ \A k \in 1 .. n : g[k] = next[k][g[k - 1]]
    <3> HIDE DEF next
    <3> QED BY <1>7 DEF Run
  <2>2. ASSUME NEW k \in 1 .. n PROVE g[k] = One(g[k - 1], found[k])
    <3>1. k - 1 \in 0 .. n
      BY <1>1
    <3>2. g[k - 1] \in S /\ g[k] = next[k][g[k - 1]]
      BY <2>1, <3>1
    <3> QED BY <3>2
  <2>3. \A k \in 0 .. n : k = 0 \/ k \in 1 .. n
    BY <1>1
  <2> HIDE DEF next
  <2>4. \A k \in 0 .. n : g[k] = IF k = 0 THEN start ELSE One(g[k - 1], found[k])
    BY <2>1, <2>2, <2>3
  <2> QED BY <2>1, <2>4
<1>9. G(it)
  BY <1>8 DEF it
<1>10. it[0] = start /\ \A k \in 0 .. n - 1 : it[k + 1] = One(it[k], found[k + 1])
  <2>1. it[0] = start
    BY <1>1, <1>9
  <2>2. ASSUME NEW k \in 0 .. n - 1 PROVE it[k + 1] = One(it[k], found[k + 1])
    <3>1. k + 1 \in 0 .. n /\ k + 1 # 0 /\ (k + 1) - 1 = k
      BY <1>1
    <3> QED BY <1>9, <3>1
  <2> QED BY <2>1, <2>2
<1> HIDE DEF G, next
<1> DEFINE K == {k \in 0 .. n : it[k] \in S}
<1>11. 0 \in K
  BY <1>1, <1>5, <1>10
<1>12. ASSUME NEW k \in 0 .. n - 1, k \in K PROVE k + 1 \in K
  <2>1. k + 1 \in 0 .. n /\ k + 1 \in 1 .. n
    BY <1>1
  <2>2. One(it[k], found[k + 1]) \in S
    BY <1>4, <1>12, <2>1
  <2> QED BY <1>10, <2>1, <2>2
<1> HIDE DEF K
<1>13. 0 .. n \subseteq K
  BY <1>1, <1>11, <1>12, IntervalInduction
<1>14. it[n] \in S
  <2>1. n \in 0 .. n
    BY <1>1
  <2> QED BY <1>13, <2>1 DEF K
<1> QED BY <1>2, <1>14 DEF S

LEMMA TextShapeStarts == TextInit => TextTypeOK
<1> SUFFICES ASSUME TextInit PROVE TextTypeOK
  OBVIOUS
<1>1. <<>> \in ShownTexts
  <2>1. <<>> \in [1 .. 0 -> Alphabet \cup {0}] /\ 0 \in 0 .. MaxText
    BY TextAssumption
  <2> QED BY <2>1 DEF ShownTexts
<1>2. Range(<<>>) = {}
  BY DEF Range
<1>3. maskOn \in BOOLEAN /\ maskStyle \in Styles
  BY DEF TextInit, Styles
<1> QED BY <1>1, <1>2, <1>3 DEF TextInit, TextTypeOK

LEMMA DisplayIsInked ==
  ASSUME NEW text \in ShownTexts, NEW on \in BOOLEAN, NEW style \in Styles
  PROVE  Range(Display(text, on, style)) \subseteq Alphabet \cup {0, Star, Block, Bar}
<1>1. text \in Seq(Written)
  BY ShownArePlain
<1>2. Seq(Written) \subseteq Seq(Inked) /\ Inked = Alphabet \cup {0, Star, Block, Bar}
  BY DEF Written, Inked
<1>3. Display(text, on, style) \in Seq(Inked)
  BY <1>1, <1>2, MaskedIsInked DEF Display
<1>4. \A s \in Seq(Inked) : Range(s) \subseteq Inked
  BY DEF Range
<1> QED BY <1>2, <1>3, <1>4

LEMMA TextShapeStays == TextTypeOK /\ [TextNext]_textVars => TextTypeOK'
<1> SUFFICES ASSUME TextTypeOK, [TextNext]_textVars PROVE TextTypeOK'
  OBVIOUS
<1>1. /\ original \in ShownTexts /\ keyword \in ShownTexts
      /\ maskOn \in BOOLEAN /\ maskStyle \in Styles
      /\ Range(display) \subseteq Alphabet \cup {0, Star, Block, Bar}
  BY Zenon DEF TextTypeOK
<1>2. ASSUME NEW text \in ShownTexts, ShowMessage(text) PROVE TextTypeOK'
  <2>1. /\ original' = text /\ display' = Display(text, maskOn, maskStyle)
        /\ UNCHANGED <<maskOn, maskStyle, keyword>>
    BY <1>2 DEF ShowMessage
  <2>2. Range(display') \subseteq Alphabet \cup {0, Star, Block, Bar}
    BY <1>1, <2>1, DisplayIsInked
  <2> QED BY <1>1, <2>1, <2>2, Zenon DEF TextTypeOK
<1>3. ASSUME NEW on \in BOOLEAN, NEW style \in Styles, SetMasking(on, style) PROVE TextTypeOK'
  <2>1. /\ maskOn' = on /\ maskStyle' = style /\ display' = Display(original, on, style)
        /\ UNCHANGED <<original, keyword>>
    BY <1>3, Zenon DEF SetMasking
  <2>2. Range(display') \subseteq Alphabet \cup {0, Star, Block, Bar}
    BY <1>1, <2>1, DisplayIsInked
  <2> QED BY <1>1, <2>1, <2>2, Zenon DEF TextTypeOK
<1>4. ASSUME NEW word \in ShownTexts, SearchFor(word) PROVE TextTypeOK'
  <2>1. keyword' = word /\ UNCHANGED <<original, maskOn, maskStyle, display>>
    BY <1>4 DEF SearchFor
  <2> QED BY <1>1, <2>1, Zenon DEF TextTypeOK
<1>5. CASE UNCHANGED textVars
  <2>1. UNCHANGED <<original, maskOn, maskStyle, keyword, display>>
    BY <1>5 DEF textVars
  <2> QED BY <1>1, <2>1, Zenon DEF TextTypeOK
<1> QED BY <1>2, <1>3, <1>4, <1>5 DEF TextNext

-----------------------------------------------------------------------------
(* The comparison: what the panes draw are threads and bubbles, and a      *)
(* probe in flight is one of those sent.                                   *)
Places == Threads \cup {0}

SplitShape ==
  /\ SplitTypeOK
  /\ panes \in [left : Places, right : Places, selected : Bubbles \cup {0}]
  /\ probeCount \in 0 .. MaxProbes /\ probes \subseteq 1 .. probeCount

Panel ==
  /\ threads \subseteq Threads
  /\ split \in [isOpen : BOOLEAN, left : Places, right : Places, selected : Bubbles \cup {0}]
  /\ panes \in [left : Places, right : Places, selected : Bubbles \cup {0}]
  /\ copied \in [Sides -> Bubbles \cup {0}]
  /\ copyTimers \in [Sides -> 0 .. 2]
  /\ splitMoves \in 0 .. MaxSplitMoves

Net ==
  /\ browserOnline \in BOOLEAN /\ isOnline \in BOOLEAN /\ wasOffline \in BOOLEAN
  /\ wasOnlineRef = isOnline
  /\ probeCount \in 0 .. MaxProbes /\ probes \subseteq 1 .. probeCount

LEMMA SplitShapeIs == SplitShape <=> Panel /\ Net
<1>1. probeCount \in 0 .. MaxProbes /\ probes \subseteq 1 .. probeCount => probes \subseteq 1 .. MaxProbes
  BY SplitAssumption
<1>2. SplitShape => Panel
  BY Zenon DEF SplitShape, SplitTypeOK, Panel, Places
<1>3. SplitShape => Net
  BY Zenon DEF SplitShape, SplitTypeOK, Net
<1>4. Panel /\ Net => SplitShape
  BY <1>1, Zenon DEF SplitShape, SplitTypeOK, Panel, Net, Places
<1> QED BY <1>2, <1>3, <1>4

LEMMA ClosedPanel ==
  /\ Closed \in [isOpen : BOOLEAN, left : Places, right : Places, selected : Bubbles \cup {0}]
  /\ Drawn(Closed) \in [left : Places, right : Places, selected : Bubbles \cup {0}]
BY DEF Closed, Drawn, Places

LEMMA SplitShapeStarts == SplitInit => SplitShape
<1> SUFFICES ASSUME SplitInit PROVE Panel /\ Net
  BY SplitShapeIs
<1>1. Panel
  BY SplitAssumption, ClosedPanel DEF SplitInit, Panel
<1>2. Net
  <2>1. browserOnline \in BOOLEAN /\ isOnline = browserOnline /\ wasOnlineRef = isOnline
        /\ wasOffline = FALSE
    BY Zenon DEF SplitInit
  <2>2. probeCount \in 0 .. MaxProbes /\ probes \subseteq 1 .. probeCount
    BY SplitAssumption DEF SplitInit
  <2> QED BY <2>1, <2>2, Zenon DEF Net
<1> QED BY <1>1, <1>2

LEMMA BatchKeeps ==
  ASSUME Panel, Net,
         NEW s \in [isOpen : BOOLEAN, left : Places, right : Places, selected : Bubbles \cup {0}],
         NEW p \in [left : Places, right : Places, selected : Bubbles \cup {0}],
         Batch(s, p), copied' \in [Sides -> Bubbles \cup {0}], copyTimers' \in [Sides -> 0 .. 2]
  PROVE  Panel' /\ Net'
<1>1. /\ splitMoves < MaxSplitMoves /\ splitMoves' = splitMoves + 1 /\ split' = s
      /\ panes' = IF Drawn(s) # Drawn(split) THEN Drawn(s) ELSE p
      /\ threads' = threads /\ UNCHANGED onlineSide
  BY DEF Batch
<1>2. Drawn(s) \in [left : Places, right : Places, selected : Bubbles \cup {0}]
  BY DEF Drawn
<1>3. splitMoves' \in 0 .. MaxSplitMoves
  BY <1>1, SplitAssumption DEF Panel
<1>4. Panel'
  BY <1>1, <1>2, <1>3 DEF Panel
<1>5. Net'
  <2>1. UNCHANGED <<browserOnline, isOnline, wasOffline, wasOnlineRef, probeCount, probes>>
    BY <1>1 DEF onlineSide
  <2> QED BY <2>1, Zenon DEF Net
<1> QED BY <1>4, <1>5

LEMMA SplitShapeStays == SplitShape /\ [SplitNext]_splitVars => SplitShape'
<1> SUFFICES ASSUME Panel, Net, [SplitNext]_splitVars PROVE Panel' /\ Net'
  <2>1. SplitShape' <=> Panel' /\ Net'
    BY SplitShapeIs, PTL
  <2> QED BY <2>1, SplitShapeIs
<1>1. /\ threads \subseteq Threads
      /\ split \in [isOpen : BOOLEAN, left : Places, right : Places, selected : Bubbles \cup {0}]
      /\ panes \in [left : Places, right : Places, selected : Bubbles \cup {0}]
      /\ copied \in [Sides -> Bubbles \cup {0}] /\ copyTimers \in [Sides -> 0 .. 2]
      /\ splitMoves \in 0 .. MaxSplitMoves /\ 0 \in Places
  BY DEF Panel, Places
<1>2. UNCHANGED onlineSide => Net'
  <2> SUFFICES ASSUME UNCHANGED onlineSide PROVE Net'
    OBVIOUS
  <2>1. UNCHANGED <<browserOnline, isOnline, wasOffline, wasOnlineRef, probeCount, probes>>
    BY DEF onlineSide
  <2> QED BY <2>1, Zenon DEF Net
<1>3. UNCHANGED splitPanel => Panel'
  BY <1>1 DEF splitPanel, Panel
<1>4. ASSUME NEW l \in Places, NEW r \in Places, OpenSplit(l, r) PROVE Panel' /\ Net'
  <2>1. UNCHANGED <<copied, copyTimers>>
        /\ Batch([split EXCEPT !.isOpen = TRUE, !.left = l, !.right = r, !.selected = 0], panes)
    BY <1>4 DEF OpenSplit
  <2> DEFINE s == [split EXCEPT !.isOpen = TRUE, !.left = l, !.right = r, !.selected = 0]
  <2>2. s \in [isOpen : BOOLEAN, left : Places, right : Places, selected : Bubbles \cup {0}]
    BY <1>1
  <2> HIDE DEF s
  <2>3. Batch(s, panes)
    BY <2>1 DEF s
  <2> QED BY <1>1, <2>1, <2>2, <2>3, BatchKeeps
<1>5. CASE CloseSplit
  <2>1. Batch(Closed, panes) /\ copied' = [d \in Sides |-> 0] /\ copyTimers' = [d \in Sides |-> 0]
    BY <1>5 DEF CloseSplit
  <2>2. copied' \in [Sides -> Bubbles \cup {0}] /\ copyTimers' \in [Sides -> 0 .. 2]
    BY <2>1
  <2> QED BY <1>1, <2>1, <2>2, ClosedPanel, BatchKeeps
<1>6. CASE SwapSessions
  <2> DEFINE s == [split EXCEPT !.left = split.right, !.right = split.left, !.selected = 0]
             p == [left |-> IF panes.right # 0 THEN panes.right ELSE split.right,
                   right |-> IF panes.left # 0 THEN panes.left ELSE split.left,
                   selected |-> 0]
  <2>1. UNCHANGED <<copied, copyTimers>> /\ Batch(s, p)
    BY <1>6 DEF SwapSessions
  <2>2. /\ s \in [isOpen : BOOLEAN, left : Places, right : Places, selected : Bubbles \cup {0}]
        /\ p \in [left : Places, right : Places, selected : Bubbles \cup {0}]
    BY <1>1
  <2> HIDE DEF s, p
  <2> QED BY <1>1, <2>1, <2>2, BatchKeeps
<1>7. ASSUME NEW d \in Sides, NEW t \in Places, SelectThread(d, t) PROVE Panel' /\ Net'
  <2> DEFINE s == [split EXCEPT ![d] = t, !.selected = 0]
             p == [panes EXCEPT ![d] = t, !.selected = 0]
  <2>1. UNCHANGED <<copied, copyTimers>> /\ Batch(s, p)
    BY <1>7 DEF SelectThread
  <2>2. d = "left" \/ d = "right"
    BY DEF Sides
  <2>3. s \in [isOpen : BOOLEAN, left : Places, right : Places, selected : Bubbles \cup {0}]
    <3>1. CASE d = "left"
      BY <1>1, <3>1
    <3>2. CASE d = "right"
      BY <1>1, <3>2
    <3> QED BY <2>2, <3>1, <3>2
  <2>4. p \in [left : Places, right : Places, selected : Bubbles \cup {0}]
    <3>1. CASE d = "left"
      BY <1>1, <3>1
    <3>2. CASE d = "right"
      BY <1>1, <3>2
    <3> QED BY <2>2, <3>1, <3>2
  <2> HIDE DEF s, p
  <2> QED BY <1>1, <2>1, <2>3, <2>4, BatchKeeps
<1>8. ASSUME NEW m \in Bubbles, HandleMessageClick(m) PROVE Panel' /\ Net'
  <2> DEFINE c == IF panes.selected = m THEN 0 ELSE m
             s == [split EXCEPT !.selected = c]
             p == [panes EXCEPT !.selected = c]
  <2>1. UNCHANGED <<copied, copyTimers>> /\ Batch(s, p)
    BY <1>8 DEF HandleMessageClick
  <2>2. c \in Bubbles \cup {0}
    OBVIOUS
  <2> HIDE DEF c
  <2>3. /\ s \in [isOpen : BOOLEAN, left : Places, right : Places, selected : Bubbles \cup {0}]
        /\ p \in [left : Places, right : Places, selected : Bubbles \cup {0}]
    BY <1>1, <2>2
  <2> HIDE DEF s, p
  <2> QED BY <1>1, <2>1, <2>3, BatchKeeps
<1>9. ASSUME NEW d \in Sides, NEW m \in Bubbles, CopyMessage(d, m) PROVE Panel' /\ Net'
  <2>1. /\ copyTimers[d] < 2 /\ copied' = [copied EXCEPT ![d] = m]
        /\ copyTimers' = [copyTimers EXCEPT ![d] = copyTimers[d] + 1]
        /\ splitMoves < MaxSplitMoves /\ splitMoves' = splitMoves + 1
        /\ UNCHANGED <<threads, split, panes, onlineSide>>
    BY <1>9 DEF CopyMessage
  <2>2. copyTimers[d] + 1 \in 0 .. 2
    BY <1>1, <2>1
  <2>3. splitMoves' \in 0 .. MaxSplitMoves
    BY <1>1, <2>1, SplitAssumption
  <2>4. copied' \in [Sides -> Bubbles \cup {0}] /\ copyTimers' \in [Sides -> 0 .. 2]
    BY <1>1, <2>1, <2>2
  <2> QED BY <1>1, <1>2, <2>1, <2>3, <2>4 DEF Panel
<1>10. ASSUME NEW d \in Sides, CopyMarkEnds(d) PROVE Panel' /\ Net'
  <2>1. /\ copyTimers[d] > 0 /\ copied' = [copied EXCEPT ![d] = 0]
        /\ copyTimers' = [copyTimers EXCEPT ![d] = copyTimers[d] - 1]
        /\ UNCHANGED <<threads, split, panes, splitMoves, onlineSide>>
    BY <1>10 DEF CopyMarkEnds
  <2>2. copyTimers[d] - 1 \in 0 .. 2
    BY <1>1, <2>1
  <2>3. copied' \in [Sides -> Bubbles \cup {0}] /\ copyTimers' \in [Sides -> 0 .. 2]
    BY <1>1, <2>1, <2>2
  <2> QED BY <1>1, <1>2, <2>1, <2>3 DEF Panel
<1>11. ASSUME NEW t \in Threads, ThreadsChange(t) PROVE Panel' /\ Net'
  <2>1. /\ threads' = IF t \in threads THEN threads \ {t} ELSE threads \cup {t}
        /\ splitMoves < MaxSplitMoves /\ splitMoves' = splitMoves + 1
        /\ UNCHANGED <<split, panes, copied, copyTimers, onlineSide>>
    BY <1>11 DEF ThreadsChange
  <2>2. splitMoves' \in 0 .. MaxSplitMoves
    BY <1>1, <2>1, SplitAssumption
  <2>3. threads' \subseteq Threads
    BY <1>1, <2>1
  <2> QED BY <1>1, <1>2, <2>1, <2>2, <2>3 DEF Panel
<1>12. /\ browserOnline \in BOOLEAN /\ isOnline \in BOOLEAN /\ wasOffline \in BOOLEAN
       /\ wasOnlineRef = isOnline
  BY Zenon DEF Net
<1>13. ASSUME NEW o \in BOOLEAN, NEW w \in BOOLEAN, Announce(o, w), browserOnline' \in BOOLEAN,
              probeCount' = probeCount, probes' \subseteq probes
       PROVE  Net'
  <2>1. /\ isOnline' = o /\ wasOnlineRef' = o
        /\ wasOffline' = (w /\ ~(~wasOnlineRef /\ o /\ w))
    BY <1>13 DEF Announce
  <2>2. wasOffline' \in BOOLEAN
    BY <2>1, Zenon
  <2>3. probeCount' \in 0 .. MaxProbes /\ probes' \subseteq 1 .. probeCount'
    BY <1>13 DEF Net
  <2> QED BY <1>13, <2>1, <2>2, <2>3, Zenon DEF Net
<1>14. CASE BrowserOffline
  <2>1. /\ Announce(FALSE, TRUE) /\ browserOnline' \in BOOLEAN
        /\ UNCHANGED <<probes, probeCount, splitPanel>>
    BY <1>14 DEF BrowserOffline
  <2>2. Net'
    BY <1>13, <2>1
  <2> QED BY <1>3, <2>1, <2>2
<1>15. CASE BrowserOnline
  <2>1. /\ probeCount < MaxProbes /\ browserOnline' = TRUE /\ probeCount' = probeCount + 1
        /\ probes' = probes \cup {probeCount + 1}
        /\ UNCHANGED <<isOnline, wasOffline, wasOnlineRef, splitPanel>>
    BY <1>15 DEF BrowserOnline
  <2>2. probeCount' \in 0 .. MaxProbes /\ probes' \subseteq 1 .. probeCount'
    BY <2>1, SplitAssumption DEF Net
  <2>3. Net'
    BY <1>12, <2>1, <2>2, Zenon DEF Net
  <2> QED BY <1>3, <2>1, <2>3
<1>16. ASSUME NEW p, NEW reachable \in BOOLEAN, ProbeAnswers(p, reachable) PROVE Panel' /\ Net'
  <2>1. /\ probes' = probes \ {p} /\ Announce(reachable, wasOffline \/ reachable)
        /\ UNCHANGED <<browserOnline, probeCount, splitPanel>>
    BY <1>16 DEF ProbeAnswers
  <2>2. (wasOffline \/ reachable) \in BOOLEAN
    BY Zenon
  <2>3. Net'
    BY <1>12, <1>13, <2>1, <2>2
  <2> QED BY <1>3, <2>1, <2>3
<1>17. CASE UNCHANGED splitVars
  BY <1>2, <1>3, <1>17 DEF splitVars
<1> QED BY <1>4, <1>5, <1>6, <1>7, <1>8, <1>9, <1>10, <1>11, <1>14, <1>15, <1>16, <1>17
        DEF SplitNext, Places

-----------------------------------------------------------------------------
(* The lists: no window is wider than the longest list or a page.          *)
ListShape ==
  /\ ListInv
  /\ listed <= MaxListed /\ shownCount <= MaxListed + ListPage
  /\ sessionsListed <= MaxListed /\ sideCount <= MaxListed + ListPage
  /\ activeFromEnd <= sessionsListed /\ sideLoading <= MaxListed
  /\ {thinking, scrollTimer, keepPlace} \subseteq BOOLEAN
  /\ dismissed \subseteq HelpCards /\ dismissals \subseteq HelpCards

Window ==
  /\ listed \in Nat /\ shownCount \in Nat
  /\ listed <= MaxListed /\ shownCount <= MaxListed + ListPage

Scrolling ==
  /\ loadingMore \in BOOLEAN /\ thinking \in BOOLEAN
  /\ scrollTimer \in BOOLEAN /\ keepPlace \in BOOLEAN

Cards == dismissed \subseteq HelpCards /\ dismissals \subseteq HelpCards

SideWindow ==
  /\ sessionsListed \in Nat /\ sideCount \in Nat /\ activeFromEnd \in Nat /\ sideLoading \in Nat
  /\ sessionsListed <= MaxListed /\ sideCount <= MaxListed + ListPage
  /\ activeFromEnd <= sessionsListed /\ sideLoading <= MaxListed

LEMMA ListShapeIs == ListShape <=> ListInv /\ Window /\ Scrolling /\ Cards /\ SideWindow
<1>1. ListInv => /\ listed \in Nat /\ shownCount \in Nat /\ loadingMore \in BOOLEAN
                 /\ sessionsListed \in Nat /\ sideCount \in Nat /\ activeFromEnd \in Nat
                 /\ sideLoading \in Nat
  BY Zenon DEF ListInv
<1> QED BY <1>1, Zenon DEF ListShape, Window, Scrolling, Cards, SideWindow

LEMMA ListShapeTypes == ListShape => ListTypeOK
<1> SUFFICES ASSUME ListShape PROVE ListTypeOK
  OBVIOUS
<1>1. Window /\ Scrolling /\ Cards /\ SideWindow
  BY ListShapeIs
<1>2. {listed, shownCount, sessionsListed, activeFromEnd, sideCount, sideLoading}
        \subseteq 0 .. MaxListed + ListPage
  BY <1>1, ShellAssumption DEF Window, SideWindow
<1>3. {loadingMore, thinking, scrollTimer, keepPlace} \subseteq BOOLEAN
  BY <1>1, Zenon DEF Scrolling
<1>4. dismissed \cup dismissals \subseteq HelpCards
  BY <1>1 DEF Cards
<1> QED BY <1>2, <1>3, <1>4 DEF ListTypeOK

LEMMA ListShapeStarts == ListInit => ListShape
<1> SUFFICES ASSUME ListInit PROVE ListShape
  OBVIOUS
<1>1. Window /\ SideWindow
  BY ShellAssumption DEF ListInit, Window, SideWindow
<1>2. Scrolling
  <2>1. /\ loadingMore = FALSE /\ thinking = FALSE /\ keepPlace = FALSE
        /\ scrollTimer = (listed > 0)
    BY DEF ListInit
  <2>2. (listed > 0) \in BOOLEAN
    OBVIOUS
  <2>3. scrollTimer \in BOOLEAN
    BY <2>1, <2>2, Zenon
  <2> QED BY <2>1, <2>3, Zenon DEF Scrolling
<1>3. Cards
  BY DEF ListInit, Cards
<1> QED BY <1>1, <1>2, <1>3, ListsStart, ListShapeIs

LEMMA MessagesShapeStay ==
  Window /\ Scrolling /\ Cards /\ [MessageListNext]_messageListVars
    => Window' /\ Scrolling' /\ Cards'
<1> SUFFICES ASSUME Window, Scrolling, Cards, [MessageListNext]_messageListVars
             PROVE  Window' /\ Scrolling' /\ Cards'
  OBVIOUS
<1>1. ListPage \in Nat /\ MaxListed \in Nat
  BY ShellAssumption
<1>2. ASSUME NEW n \in 0 .. MaxListed, ListChanges(n) PROVE Window' /\ Scrolling' /\ Cards'
  <2>1. /\ listed' = n /\ shownCount' \in {shownCount, ListPage}
        /\ UNCHANGED <<loadingMore, thinking, keepPlace, dismissals>>
        /\ dismissed' = IF dismissals = {} THEN dismissed ELSE dismissals
    BY <1>2 DEF ListChanges, CountFor
  <2>2. scrollTimer' = scrollTimer
          \/ scrollTimer' = ((thinking \/ n > 0) /\ ~loadingMore /\ ~keepPlace)
    BY <1>2, Zenon DEF ListChanges, ScrollsSoon
  <2>3. Scrolling'
    BY <2>1, <2>2, Zenon DEF Scrolling
  <2>4. Window'
    BY <1>1, <2>1 DEF Window
  <2>5. Cards'
    BY <2>1 DEF Cards
  <2> QED BY <2>3, <2>4, <2>5
<1>3. CASE ThinkingChanges \/ LoadMore \/ ScrollsToEnd
  <2>1. UNCHANGED <<listed, shownCount, dismissed, dismissals>>
    BY <1>3 DEF ThinkingChanges, LoadMore, ScrollsToEnd
  <2>2. Scrolling'
    BY <1>3, Zenon DEF ThinkingChanges, LoadMore, ScrollsToEnd, ScrollsSoon, Scrolling
  <2> QED BY <2>1, <2>2 DEF Window, Cards
<1>4. CASE MoreArrives \/ MessagesRemount
  <2>1. /\ listed' = listed /\ shownCount' \in {ListPage, Smaller(shownCount + ListPage, listed)}
        /\ dismissed' \in {dismissed, dismissals} /\ dismissals' = dismissals
    BY <1>4 DEF MoreArrives, MessagesRemount, NextCount
  <2>2. Window'
    BY <1>1, <2>1 DEF Window, Smaller
  <2>3. Scrolling'
    BY <1>4, Zenon DEF MoreArrives, MessagesRemount, Scrolling
  <2> QED BY <2>1, <2>2, <2>3 DEF Cards
<1>5. ASSUME NEW c \in HelpCards, NEW stored \in BOOLEAN, DismissCard(c, stored)
      PROVE  Window' /\ Scrolling' /\ Cards'
  <2>1. /\ UNCHANGED <<listed, shownCount, loadingMore, thinking, scrollTimer, keepPlace>>
        /\ dismissed' = dismissed \cup {c} /\ dismissals' \in {dismissed', dismissals}
    BY <1>5 DEF DismissCard
  <2>2. Scrolling'
    BY <2>1, Zenon DEF Scrolling
  <2> QED BY <2>1, <2>2 DEF Window, Cards
<1>6. ASSUME NEW cs \in SUBSET HelpCards, OtherTabDismisses(cs)
      PROVE  Window' /\ Scrolling' /\ Cards'
  <2>1. /\ UNCHANGED <<listed, shownCount, loadingMore, thinking, scrollTimer, keepPlace,
                       dismissed>>
        /\ dismissals' = cs
    BY <1>6 DEF OtherTabDismisses
  <2>2. Scrolling'
    BY <2>1, Zenon DEF Scrolling
  <2> QED BY <2>1, <2>2 DEF Window, Cards
<1>7. CASE UNCHANGED messageListVars
  <2>1. UNCHANGED <<listed, shownCount, loadingMore, thinking, scrollTimer, keepPlace,
                    dismissed, dismissals>>
    BY <1>7 DEF messageListVars
  <2>2. Scrolling'
    BY <2>1, Zenon DEF Scrolling
  <2> QED BY <2>1, <2>2 DEF Window, Cards
<1> QED BY <1>2, <1>3, <1>4, <1>5, <1>6, <1>7 DEF MessageListNext

LEMMA SidebarShapeStays == SideWindow /\ [SideListNext]_sideListVars => SideWindow'
<1> SUFFICES ASSUME SideWindow, [SideListNext]_sideListVars PROVE SideWindow'
  OBVIOUS
<1>1. ListPage \in Nat /\ MaxListed \in Nat
  BY ShellAssumption
<1>2. ASSUME NEW n \in 0 .. MaxListed, NEW place \in 0 .. MaxListed, SessionsChange(n, place)
      PROVE  SideWindow'
  BY <1>1, <1>2 DEF SessionsChange, Expanded, CountFor, Smaller, SideWindow
<1>3. CASE LoadMoreSessions
  BY <1>1, <1>3 DEF LoadMoreSessions, SideWindow
<1>4. CASE MoreSessionsArrive
  BY <1>1, <1>4 DEF MoreSessionsArrive, NextCount, Expanded, Smaller, SideWindow
<1>5. CASE SidebarRemounts
  BY <1>1, <1>5 DEF SidebarRemounts, Expanded, Smaller, SideWindow
<1>6. CASE UNCHANGED sideListVars
  BY <1>6 DEF sideListVars, SideWindow
<1> QED BY <1>2, <1>3, <1>4, <1>5, <1>6 DEF SideListNext

LEMMA ListShapeStays ==
  ListShape /\ [MessageListNext]_messageListVars /\ [SideListNext]_sideListVars => ListShape'
<1> SUFFICES ASSUME ListShape, [MessageListNext]_messageListVars, [SideListNext]_sideListVars
             PROVE  ListShape'
  OBVIOUS
<1>1. ListInv /\ Window /\ Scrolling /\ Cards /\ SideWindow
  BY ListShapeIs
<1>2. ListInv' /\ Window' /\ Scrolling' /\ Cards' /\ SideWindow'
  BY <1>1, MessagesStay, MessagesShapeStay, SidebarShapeStays
<1>3. ListShape' <=> ListInv' /\ Window' /\ Scrolling' /\ Cards' /\ SideWindow'
  BY ListShapeIs, PTL
<1> QED BY <1>2, <1>3

-----------------------------------------------------------------------------
(* Telemetry: an event that waits or was given has a colour of the palette *)
(* or none.                                                                *)
LEMMA TelemetryShapeStarts == TelemetryInit => TelemetryTypeOK
<1> SUFFICES ASSUME TelemetryInit PROVE TelemetryTypeOK
  OBVIOUS
<1>1. consentKept \in BOOLEAN /\ consented \in [Tabs -> BOOLEAN]
  BY DEF TelemetryInit
<1> QED BY <1>1, TelemetryAssumption DEF TelemetryInit, TelemetryTypeOK

LEMMA ContrastKept ==
  ASSUME NEW payload \in Payloads
  PROVE  WithContrast(payload) = Plain \/ WithContrast(payload).payload.text \in Colours
<1>1. CASE payload = NoPayload
  BY <1>1 DEF WithContrast
<1>2. CASE payload # NoPayload
  <2> DEFINE preferred == IF payload.text \in Colours THEN payload.text ELSE LightText
             text == AccessibleText(payload.background, preferred)
  <2>1. payload \in [background : Colours, text : Colours \cup {"none"}]
    BY <1>2 DEF Payloads
  <2>2. preferred \in Colours /\ LightText \in Colours /\ DarkText \in Colours
    BY TelemetryAssumption
  <2> HIDE DEF preferred
  <2>3. text \in {preferred, LightText, DarkText}
    BY DEF AccessibleText
  <2>4. WithContrast(payload).payload = [payload EXCEPT !.text = text]
    BY <1>2 DEF WithContrast, preferred
  <2> HIDE DEF text
  <2>5. [payload EXCEPT !.text = text].text = text
    BY <2>1
  <2> QED BY <2>2, <2>3, <2>4, <2>5
<1> QED BY <1>1, <1>2

LEMMA TelemetryShapeStays ==
  TelemetryTypeOK /\ [TelemetryNext]_telemetryVars => TelemetryTypeOK'
<1> SUFFICES ASSUME TelemetryTypeOK, [TelemetryNext]_telemetryVars PROVE TelemetryTypeOK'
  OBVIOUS
<1> DEFINE Fine(e, n) == /\ e.id \in 1 .. n /\ e.tab \in Tabs
                         /\ e.event = Plain \/ e.event.payload.text \in Colours
           Flags == consentKept \in BOOLEAN /\ consented \in [Tabs -> BOOLEAN]
           Counts == /\ settingsOpen \subseteq Tabs
                     /\ emitted \in 0 .. MaxEvents /\ switches \in 0 .. MaxSwitches
           Events == \A e \in framed \cup dispatched : Fine(e, emitted)
<1>1. Flags /\ Counts /\ Events
  BY DEF TelemetryTypeOK
<1>2. SUFFICES Flags' /\ Counts' /\ Events'
  BY DEF TelemetryTypeOK
<1>3. ASSUME NEW t \in Tabs, OpenSettings(t) PROVE Flags' /\ Counts' /\ Events'
  BY <1>1, <1>3 DEF OpenSettings
<1>4. ASSUME NEW t \in Tabs, SwitchConsent(t) PROVE Flags' /\ Counts' /\ Events'
  <2>1. /\ consentKept' = ~consented[t] /\ consented' = [consented EXCEPT ![t] = ~consented[t]]
    BY <1>4 DEF SwitchConsent
  <2>2. (~consented[t]) \in BOOLEAN
    BY Zenon
  <2>3. Flags'
    BY <1>1, <2>1, <2>2
  <2>4. /\ switches < MaxSwitches /\ switches' = switches + 1
        /\ UNCHANGED <<settingsOpen, framed, dispatched, emitted>>
    BY <1>4 DEF SwitchConsent
  <2>5. Counts' /\ Events'
    BY <1>1, <2>4, TelemetryAssumption
  <2> QED BY <2>3, <2>5
<1>5. ASSUME NEW t \in Tabs, NEW payload \in Payloads, Emit(t, payload)
      PROVE  Flags' /\ Counts' /\ Events'
  <2> DEFINE event == WithContrast(payload)
             new == [id |-> emitted + 1, tab |-> t, event |-> event]
  <2>1. /\ emitted < MaxEvents /\ emitted' = emitted + 1
        /\ framed' = framed \cup {new} \/ framed' = framed
        /\ UNCHANGED <<consentKept, settingsOpen, consented, dispatched, switches>>
    BY <1>5 DEF Emit
  <2>2. event = Plain \/ event.payload.text \in Colours
    BY ContrastKept
  <2>3. emitted + 1 \in 1 .. emitted + 1
    BY <1>1
  <2> HIDE DEF event
  <2>4. Fine(new, emitted + 1)
    BY <2>2, <2>3
  <2> HIDE DEF new
  <2>5. \A e : Fine(e, emitted) => Fine(e, emitted + 1)
    BY <1>1
  <2> HIDE DEF Fine
  <2>6. Events'
    BY <1>1, <2>1, <2>4, <2>5
  <2>7. Flags' /\ Counts'
    BY <1>1, <2>1, TelemetryAssumption
  <2> QED BY <2>6, <2>7
<1>6. ASSUME NEW e \in framed, Frame(e) PROVE Flags' /\ Counts' /\ Events'
  <2>1. /\ framed' = framed \ {e} /\ dispatched' \in {dispatched, dispatched \cup {e}}
        /\ UNCHANGED <<consentKept, settingsOpen, consented, emitted, switches>>
    BY <1>6 DEF Frame
  <2>2. framed' \cup dispatched' \subseteq framed \cup dispatched
    BY <2>1
  <2> QED BY <1>1, <2>1, <2>2
<1>7. CASE UNCHANGED telemetryVars
  BY <1>1, <1>7 DEF telemetryVars
<1> QED BY <1>3, <1>4, <1>5, <1>6, <1>7 DEF TelemetryNext

-----------------------------------------------------------------------------
(* The dialogs: what is to be given the focus, or had it, is a dialog or   *)
(* the page, and a frame is only waited for by a dialog that is set up.    *)
Holders == Modals \cup {"page", "body"}

Focused ==
  /\ opener \in [Modals -> Holders] /\ focus \in Holders
  /\ awaiting \subseteq trapped /\ complained \subseteq Modals

SheetShape == sliding \in BOOLEAN /\ dragged \in BOOLEAN /\ slideTimers \in 0 .. 2

DialogShape == LockInv /\ Focused /\ SheetShape /\ openings \in 0 .. MaxOpenings

LEMMA DialogShapeTypes == DialogShape => DialogsTypeOK
<1> SUFFICES ASSUME DialogShape PROVE DialogsTypeOK
  OBVIOUS
<1>1. LockInv /\ Focused /\ SheetShape /\ openings \in 0 .. MaxOpenings
  BY DEF DialogShape
<1>2. trapped \subseteq Modals /\ opened \in [Modals -> BOOLEAN]
  BY <1>1 DEF LockInv
<1>3. lockCount \in 0 .. Cardinality(Modals)
  <2>1. IsFiniteSet(Modals)
    BY DialogsAssumption
  <2>2. /\ Cardinality(trapped) <= Cardinality(Modals)
        /\ Cardinality(trapped) \in Nat /\ Cardinality(Modals) \in Nat
    BY <1>2, <2>1, FS_Subset, FS_CardinalityType
  <2>3. lockCount = Cardinality(trapped)
    BY <1>1 DEF LockInv
  <2> QED BY <2>2, <2>3
<1>4. overflow \in {"", "hidden"} /\ kept \in {"", "hidden"}
  BY <1>1 DEF LockInv, Scrolls
<1>5. opener \in [Modals -> Holders] /\ focus \in Holders
  BY <1>1 DEF Focused
<1>6. awaiting \subseteq trapped /\ complained \subseteq Modals
  BY <1>1 DEF Focused
<1>7. sliding \in BOOLEAN /\ dragged \in BOOLEAN /\ slideTimers \in 0 .. 2
  BY <1>1 DEF SheetShape
<1>8. openings \in 0 .. MaxOpenings
  BY <1>1
<1> QED BY <1>2, <1>3, <1>4, <1>5, <1>6, <1>7, <1>8, Zenon DEF DialogsTypeOK, Holders

LEMMA DialogShapeStarts == DialogsInit => DialogShape
<1> SUFFICES ASSUME DialogsInit PROVE DialogShape
  OBVIOUS
<1>1. LockInv
  BY LocksStart
<1>2. Focused
  BY DEF DialogsInit, Focused, Holders
<1>3. sliding = FALSE /\ dragged = FALSE /\ slideTimers = 0 /\ openings = 0
  BY Zenon DEF DialogsInit
<1>4. SheetShape
  <2>1. slideTimers \in 0 .. 2
    BY <1>3
  <2> QED BY <1>3, <2>1, Zenon DEF SheetShape
<1>5. openings \in 0 .. MaxOpenings
  BY <1>3, DialogsAssumption
<1> QED BY <1>1, <1>2, <1>4, <1>5 DEF DialogShape

(* The focus goes to what had it or to the body.                           *)
LEMMA BackHolds ==
  ASSUME Focused, NEW m \in Modals, NEW stays
  PROVE  Back(m, stays) \in Holders
BY DEF Focused, Back, Holders

LEMMA TearDownShapes ==
  ASSUME Focused, NEW m \in Modals, NEW stays, TearDown(m, stays)
  PROVE  Focused'
<1>1. /\ focus' = Back(m, stays) /\ trapped' = trapped \ {m} /\ awaiting' = awaiting \ {m}
      /\ opener' = opener /\ complained' = complained
  BY DEF TearDown
<1> QED BY <1>1, BackHolds DEF Focused

LEMMA SetUpShapes ==
  ASSUME Focused, NEW m \in Modals, NEW late \in BOOLEAN, SetUp(m, late)
  PROVE  Focused'
<1>1. /\ trapped' = trapped \cup {m} /\ opener' = [opener EXCEPT ![m] = focus]
      /\ awaiting' \in {awaiting \cup {m}, awaiting} /\ focus' \in {focus, m}
      /\ complained' \in {complained \cup {m}, complained \ {m}}
  BY DEF SetUp
<1> QED BY <1>1 DEF Focused, Holders

LEMMA DialogShapeStays == DialogShape /\ [DialogsNext]_dialogsVars => DialogShape'
<1> SUFFICES ASSUME DialogShape, [DialogsNext]_dialogsVars PROVE DialogShape'
  OBVIOUS
<1>1. LockInv /\ Focused /\ SheetShape /\ openings \in 0 .. MaxOpenings
  BY DEF DialogShape
<1>2. LockInv'
  BY <1>1, LocksStay
<1>3. MaxOpenings \in Nat /\ Sheet \in Modals
  BY DialogsAssumption
<1> DEFINE OpeningsFit == openings \in 0 .. MaxOpenings
<1> SUFFICES Focused' /\ SheetShape' /\ OpeningsFit'
  BY <1>2 DEF DialogShape
<1>4. ASSUME NEW m \in Modals, NEW late \in BOOLEAN, OpenDialog(m, late)
      PROVE  Focused' /\ SheetShape' /\ OpeningsFit'
  <2>1. Focused'
    <3>1. CASE m \in trapped
      BY <1>1, <1>4, <3>1 DEF OpenDialog, trapVars, Focused
    <3>2. CASE m \notin trapped
      <4>1. SetUp(m, late)
        BY <1>4, <3>2 DEF OpenDialog
      <4> QED BY <1>1, <4>1, SetUpShapes
    <3> QED BY <3>1, <3>2
  <2>2. SheetShape'
    BY <1>1, <1>4 DEF OpenDialog, SheetShape
  <2>3. OpeningsFit'
    BY <1>1, <1>3, <1>4 DEF OpenDialog
  <2> QED BY <2>1, <2>2, <2>3
<1>5. ASSUME NEW m \in Modals, NEW there \in BOOLEAN, FrameArrives(m, there)
      PROVE  Focused' /\ SheetShape' /\ OpeningsFit'
  <2>1. Focused'
    BY <1>1, <1>5 DEF FrameArrives, Focused, Holders
  <2>2. SheetShape' /\ OpeningsFit'
    BY <1>1, <1>5 DEF FrameArrives, SheetShape, sheetVars
  <2> QED BY <2>1, <2>2
<1>6. ASSUME NEW m \in Modals, CloseDialog(m) PROVE Focused' /\ SheetShape' /\ OpeningsFit'
  <2>1. Focused'
    BY <1>1, <1>6, TearDownShapes DEF CloseDialog
  <2>2. SheetShape' /\ OpeningsFit'
    BY <1>1, <1>6 DEF CloseDialog, SheetShape, sheetVars
  <2> QED BY <2>1, <2>2
<1>7. ASSUME NEW m \in Modals, NEW n \in Modals, HandOver(m, n)
      PROVE  Focused' /\ SheetShape' /\ OpeningsFit'
  <2> DEFINE back == Back(m, opened')
  <2>1. back \in Holders
    BY <1>1, BackHolds
  <2>2. /\ opener' = [opener EXCEPT ![n] = back] /\ focus' \in {back, n}
        /\ trapped' = (trapped \ {m}) \cup {n} /\ awaiting' = awaiting \ {m}
        /\ complained' \in {complained \cup {n}, complained \ {n}}
    BY <1>7 DEF HandOver
  <2>3. Focused'
    <3> HIDE DEF back
    <3> QED BY <1>1, <2>1, <2>2 DEF Focused, Holders
  <2>4. SheetShape' /\ OpeningsFit'
    BY <1>1, <1>3, <1>7 DEF HandOver, SheetShape, sheetVars
  <2> QED BY <2>3, <2>4
<1>8. CASE Escape
  <2>1. /\ trapped' = {} /\ awaiting' = {} /\ opener' = opener /\ complained' = complained
        /\ focus' \in {"page", "body"}
    BY <1>8 DEF Escape
  <2>2. SheetShape' /\ OpeningsFit'
    BY <1>1, <1>8 DEF Escape, SheetShape, sheetVars
  <2> QED BY <1>1, <2>1, <2>2 DEF Focused, Holders
<1>9. ASSUME NEW far \in BOOLEAN, DragSheet(far) PROVE Focused' /\ SheetShape' /\ OpeningsFit'
  BY <1>1, <1>9 DEF DragSheet, Focused, trapVars, SheetShape
<1>10. CASE AnimateClose
  <2>1. Focused'
    <3>1. CASE Sheet \in trapped
      BY <1>1, <1>3, <1>10, <3>1, TearDownShapes DEF AnimateClose
    <3>2. CASE Sheet \notin trapped
      BY <1>1, <1>10, <3>2 DEF AnimateClose, trapVars, Focused
    <3> QED BY <3>1, <3>2
  <2>2. SheetShape' /\ OpeningsFit'
    BY <1>1, <1>10 DEF AnimateClose, SheetShape
  <2> QED BY <2>1, <2>2
<1>11. CASE SheetSlidOut
  <2>1. Focused'
    <3>1. CASE Sheet \in trapped
      BY <1>1, <1>3, <1>11, <3>1, TearDownShapes DEF SheetSlidOut
    <3>2. CASE Sheet \notin trapped
      BY <1>1, <1>11, <3>2 DEF SheetSlidOut, trapVars, Focused
    <3> QED BY <3>1, <3>2
  <2>2. SheetShape'
    <3>1. /\ sliding' = FALSE /\ dragged' = FALSE
          /\ slideTimers > 0 /\ slideTimers' = slideTimers - 1
      BY <1>11 DEF SheetSlidOut
    <3>2. slideTimers' \in 0 .. 2
      BY <1>1, <3>1 DEF SheetShape
    <3> QED BY <3>1, <3>2 DEF SheetShape
  <2>3. OpeningsFit'
    BY <1>1, <1>11 DEF SheetSlidOut
  <2> QED BY <2>1, <2>2, <2>3
<1>12. CASE UNCHANGED dialogsVars
  BY <1>1, <1>12 DEF dialogsVars, trapVars, sheetVars, Focused, SheetShape
<1> HIDE DEF OpeningsFit
<1> QED BY <1>4, <1>5, <1>6, <1>7, <1>8, <1>9, <1>10, <1>11, <1>12 DEF DialogsNext

-----------------------------------------------------------------------------
(* The alerts: a toast has a number given out and was raised, and shown,   *)
(* by now; no more notifications are kept than there is room for, and the  *)
(* payment last seen is one that was made.                                 *)
ToastsOf(most, latest, V) ==
  Seq([id : 1 .. most, text : V, at : 1 .. latest, seen : 0 .. latest])

ToastsFit ==
  /\ now \in 1 .. MaxNow /\ raised \in 0 .. MaxRaised
  /\ \E V : toasts \in ToastsOf(raised, now, V)

NotesFit ==
  /\ noteCount \in 0 .. MaxRaised
  /\ notes \in Seq([id : Nat, read : BOOLEAN]) /\ Len(notes) <= MaxKept

WatchFit ==
  /\ payments \in Seq(BOOLEAN) /\ lastSeen \in 0 .. Len(payments) /\ polled \in 0 .. MaxPolls

AlertFlags == bell \in BOOLEAN /\ watching \in BOOLEAN /\ streamOpen \in BOOLEAN

(* The banner: each check under way, and each timer, is of a loss of the   *)
(* connection of its own, or of the one the page was opened in.            *)
BannerFlags ==
  /\ netUp \in BOOLEAN /\ bannerOnline \in BOOLEAN /\ bannerShown \in BOOLEAN
  /\ reconnecting \in BOOLEAN /\ bannerSkeleton \in BOOLEAN

BannerCounts ==
  /\ drops \in 0 .. MaxDrops /\ netProbes \in Nat /\ hideTimers \in Nat
  /\ netUp => netProbes + hideTimers <= drops + 1
  /\ ~netUp => netProbes + hideTimers <= drops

AlertShape == ToastsFit /\ NotesFit /\ WatchFit /\ AlertFlags /\ BannerFlags /\ BannerCounts

LEMMA AlertShapeTypes == AlertShape => AlertsTypeOK
<1> SUFFICES ASSUME AlertShape PROVE AlertsTypeOK
  OBVIOUS
<1>1. ToastsFit /\ NotesFit /\ WatchFit /\ AlertFlags /\ BannerFlags /\ BannerCounts
  BY DEF AlertShape
<1>2. now \in 1 .. MaxNow /\ raised \in 0 .. MaxRaised
  BY <1>1 DEF ToastsFit
<1>3. \A t \in Range(toasts) : t.id \in 1 .. raised /\ t.at \in 1 .. now /\ t.seen \in 0 .. now
  <2>1. PICK V : toasts \in ToastsOf(raised, now, V)
    BY <1>1 DEF ToastsFit
  <2> DEFINE T == [id : 1 .. raised, text : V, at : 1 .. now, seen : 0 .. now]
  <2>2. Range(toasts) \subseteq T
    <3>1. toasts \in Seq(T)
      BY <2>1 DEF ToastsOf
    <3> HIDE DEF T
    <3> QED BY <3>1 DEF Range
  <2> QED BY <2>2
<1>4. noteCount \in 0 .. MaxRaised /\ Len(notes) <= MaxKept
  BY <1>1 DEF NotesFit
<1>5. lastSeen \in 0 .. Len(payments) /\ polled \in 0 .. MaxPolls
  BY <1>1 DEF WatchFit
<1>6. {bell, watching} \subseteq BOOLEAN
  BY <1>1, Zenon DEF AlertFlags
<1>7. {streamOpen, netUp, bannerOnline, bannerShown, reconnecting, bannerSkeleton}
        \subseteq BOOLEAN
  BY <1>1, Zenon DEF AlertFlags, BannerFlags
<1>8. netProbes \in 0 .. MaxDrops + 1 /\ hideTimers \in 0 .. MaxDrops + 1
  <2>1. MaxDrops \in Nat
    BY AlertsAssumption
  <2> QED BY <1>1, <2>1 DEF BannerFlags, BannerCounts
<1> QED BY <1>2, <1>3, <1>4, <1>5, <1>6, <1>7, <1>8, Zenon DEF AlertsTypeOK

LEMMA AlertShapeStarts == AlertsInit /\ BannerInit => AlertShape
<1> SUFFICES ASSUME AlertsInit, BannerInit PROVE AlertShape
  OBVIOUS
<1>1. /\ MaxNow \in Nat \ {0} /\ MaxKept \in Nat \ {0} /\ MaxRaised \in Nat
      /\ MaxPolls \in Nat /\ MaxDrops \in Nat
  BY AlertsAssumption
<1>2. /\ now = 1 /\ toasts = <<>> /\ raised = 0 /\ notes = <<>> /\ noteCount = 0
      /\ payments \in {<<>>, <<TRUE>>} /\ lastSeen = Len(payments) /\ polled = 0
      /\ bell = FALSE /\ watching = TRUE /\ streamOpen = TRUE
  BY DEF AlertsInit
<1>3. ToastsFit
  BY <1>1, <1>2 DEF ToastsFit, ToastsOf
<1>4. NotesFit
  BY <1>1, <1>2 DEF NotesFit
<1>5. WatchFit
  <2>1. ASSUME NEW b \in BOOLEAN PROVE <<b>> \in Seq(BOOLEAN)
    OBVIOUS
  <2>2. TRUE \in BOOLEAN /\ <<>> \in Seq(BOOLEAN)
    OBVIOUS
  <2>3. payments \in Seq(BOOLEAN)
    BY <1>2, <2>1, <2>2, Zenon
  <2>4. Len(payments) \in Nat
    BY <2>3
  <2> QED BY <1>1, <1>2, <2>3, <2>4 DEF WatchFit
<1>6. AlertFlags
  BY <1>2, Zenon DEF AlertFlags
<1>7. /\ netUp \in BOOLEAN /\ drops = 0 /\ netProbes = 0 /\ hideTimers = 0
      /\ bannerOnline = netUp /\ bannerShown = ~netUp /\ reconnecting = FALSE
      /\ bannerSkeleton = TRUE
  BY DEF BannerInit
<1>8. BannerFlags
  BY <1>7, Zenon DEF BannerFlags
<1>9. BannerCounts
  BY <1>1, <1>7 DEF BannerCounts
<1> QED BY <1>3, <1>4, <1>5, <1>6, <1>8, <1>9 DEF AlertShape

-----------------------------------------------------------------------------
(* A timer started for a toast that appears keeps it a toast.              *)
LEMMA TimersFit ==
  ASSUME NEW n \in Nat, now \in Nat \ {0}, NEW V, NEW ts \in ToastsOf(n, now, V)
  PROVE  WithTimers(ts) \in ToastsOf(n, now, V)
<1> DEFINE T == [id : 1 .. n, text : V, at : 1 .. now, seen : 0 .. now]
           w == WithTimers(ts)
<1>1. ts \in Seq(T) /\ DOMAIN ts = 1 .. Len(ts) /\ Len(ts) \in Nat
  BY DEF ToastsOf
<1>2. ASSUME NEW t \in T PROVE [t EXCEPT !.seen = now] \in T
  <2>1. now \in 0 .. now
    OBVIOUS
  <2> QED BY <2>1
<1>3. ASSUME NEW i \in DOMAIN ts PROVE w[i] \in T
  <2>1. ts[i] \in T
    <3> HIDE DEF T
    <3> QED BY <1>1
  <2>2. w[i] \in {ts[i], [ts[i] EXCEPT !.seen = now]}
    BY DEF WithTimers
  <2> HIDE DEF T, w
  <2> QED BY <1>2, <2>1, <2>2
<1>4. w \in [1 .. Len(ts) -> T]
  BY <1>1, <1>3 DEF WithTimers
<1>5. w \in Seq(T)
  <2> HIDE DEF T, w
  <2> QED BY <1>1, <1>4
<1> QED BY <1>5 DEF ToastsOf

LEMMA LaterFits ==
  ASSUME NEW m \in Nat, NEW n \in Nat, NEW k \in Nat, NEW l \in Nat, m <= n, k <= l, NEW V,
         NEW W, V \subseteq W
  PROVE  ToastsOf(m, k, V) \subseteq ToastsOf(n, l, W)
<1> DEFINE T == [id : 1 .. m, text : V, at : 1 .. k, seen : 0 .. k]
           U == [id : 1 .. n, text : W, at : 1 .. l, seen : 0 .. l]
<1>1. T \subseteq U
  OBVIOUS
<1>2. Seq(T) \subseteq Seq(U)
  <2> HIDE DEF T, U
  <2> QED BY <1>1
<1> QED BY <1>2 DEF ToastsOf

LEMMA AddToastFits ==
  ASSUME ToastsFit, NEW text, AddToast(text), now' = now
  PROVE  ToastsFit'
<1>1. CASE UNCHANGED toastVars
  BY <1>1 DEF toastVars, ToastsFit
<1>2. CASE ~UNCHANGED toastVars
  <2> DEFINE t == [id |-> raised + 1, text |-> text, at |-> now, seen |-> 0]
             more == Append(toasts, t)
  <2>1. raised < MaxRaised /\ raised' = raised + 1 /\ toasts' = WithTimers(more)
    BY <1>2 DEF AddToast
  <2>2. PICK V : toasts \in ToastsOf(raised, now, V)
    BY DEF ToastsFit
  <2>3. /\ MaxRaised \in Nat /\ raised \in Nat /\ now \in Nat \ {0} /\ now \in 1 .. MaxNow
    BY AlertsAssumption DEF ToastsFit
  <2>4. toasts \in ToastsOf(raised + 1, now, V \cup {text})
    BY <2>2, <2>3, LaterFits
  <2>5. t \in [id : 1 .. raised + 1, text : V \cup {text}, at : 1 .. now, seen : 0 .. now]
    BY <2>3
  <2>6. more \in ToastsOf(raised + 1, now, V \cup {text})
    <3> HIDE DEF t
    <3> QED BY <2>4, <2>5 DEF ToastsOf
  <2>7. WithTimers(more) \in ToastsOf(raised + 1, now, V \cup {text})
    <3> HIDE DEF more
    <3> QED BY <2>3, <2>6, TimersFit
  <2>8. toasts' \in ToastsOf(raised', now', V \cup {text})
    <3> HIDE DEF more
    <3> QED BY <2>1, <2>7
  <2>9. raised' \in 0 .. MaxRaised
    BY <2>1, <2>3
  <2> QED BY <2>3, <2>8, <2>9 DEF ToastsFit
<1> QED BY <1>1, <1>2

LEMMA RemoveToastFits ==
  ASSUME ToastsFit, NEW t, RemoveToast(t)
  PROVE  ToastsFit'
<1> DEFINE others == Filtered(toasts, {u \in Range(toasts) : u.id # t.id})
<1>1. toasts' = WithTimers(others) /\ raised' = raised /\ now' = now
  BY DEF RemoveToast
<1>2. PICK V : toasts \in ToastsOf(raised, now, V)
  BY DEF ToastsFit
<1>3. others \in ToastsOf(raised, now, V)
  BY <1>2, FilteredType DEF ToastsOf
<1> HIDE DEF others
<1>4. raised \in Nat /\ now \in Nat \ {0}
  BY DEF ToastsFit
<1>5. toasts' \in ToastsOf(raised, now, V)
  BY <1>1, <1>3, <1>4, TimersFit
<1> QED BY <1>1, <1>5 DEF ToastsFit

(* The newest come first, and as many of them as there is room for stay.   *)
LEMMA AddNotificationFits ==
  ASSUME NotesFit, NEW text, AddNotification(text)
  PROVE  NotesFit'
<1> DEFINE N == [id : Nat, read : BOOLEAN]
           all == <<[id |-> noteCount + 1, read |-> FALSE]>> \o notes
           room == IF Len(all) < MaxKept THEN Len(all) ELSE MaxKept
<1>1. /\ notes \in Seq(N) /\ noteCount \in Nat /\ MaxRaised \in Nat /\ MaxKept \in Nat
  BY AlertsAssumption DEF NotesFit
<1>2. /\ noteCount < MaxRaised /\ noteCount' = noteCount + 1 /\ notes' = SubSeq(all, 1, room)
  BY DEF AddNotification
<1>3. all \in Seq(N) /\ Len(all) \in Nat
  <2>1. <<[id |-> noteCount + 1, read |-> FALSE]>> \in Seq(N)
    BY <1>1
  <2> HIDE DEF N
  <2> QED BY <1>1, <2>1, ConcatProperties
<1> HIDE DEF all, N
<1>4. room \in Nat /\ room <= Len(all) /\ room <= MaxKept
  BY <1>1, <1>3
<1> HIDE DEF room
<1>5. SubSeq(all, 1, room) \in Seq(N) /\ Len(SubSeq(all, 1, room)) <= MaxKept
  BY <1>1, <1>3, <1>4, SubSeqProperties
<1>6. notes' \in Seq(N) /\ Len(notes') <= MaxKept /\ noteCount' \in 0 .. MaxRaised
  BY <1>1, <1>2, <1>5
<1> QED BY <1>6 DEF NotesFit, N

LEMMA ReadNotesFit ==
  ASSUME NotesFit, noteCount' = noteCount,
         \/ \E i \in DOMAIN notes : notes' = [notes EXCEPT ![i].read = TRUE]
         \/ notes' = [i \in DOMAIN notes |-> [notes[i] EXCEPT !.read = TRUE]]
         \/ notes' = <<>>
  PROVE  NotesFit'
<1> DEFINE N == [id : Nat, read : BOOLEAN]
<1>1. /\ notes \in Seq(N) /\ Len(notes) <= MaxKept /\ Len(notes) \in Nat
      /\ DOMAIN notes = 1 .. Len(notes) /\ MaxKept \in Nat
  BY AlertsAssumption DEF NotesFit
<1>2. ASSUME NEW n \in N PROVE [n EXCEPT !.read = TRUE] \in N
  OBVIOUS
<1>3. CASE notes' = <<>>
  BY <1>1, <1>3 DEF NotesFit
<1>4. CASE notes' # <<>>
  <2>1. DOMAIN notes' = 1 .. Len(notes)
    BY <1>1, <1>4
  <2>2. ASSUME NEW i \in 1 .. Len(notes) PROVE notes'[i] \in N
    <3>1. notes[i] \in N
      <4> HIDE DEF N
      <4> QED BY <1>1
    <3>2. notes'[i] \in {notes[i], [notes[i] EXCEPT !.read = TRUE]}
      BY <1>1, <1>4
    <3> HIDE DEF N
    <3> QED BY <1>2, <3>1, <3>2
  <2>3. notes' \in [1 .. Len(notes) -> N]
    <3>1. notes' = [i \in 1 .. Len(notes) |-> notes'[i]]
      BY <1>1, <1>4
    <3> HIDE DEF N
    <3> QED BY <2>2, <3>1
  <2>4. notes' \in Seq(N) /\ Len(notes') = Len(notes)
    <3> HIDE DEF N
    <3> QED BY <1>1, <2>3
  <2> QED BY <1>1, <2>4 DEF NotesFit
<1> QED BY <1>3, <1>4

-----------------------------------------------------------------------------
LEMMA AlertsShapeStay ==
  ToastsFit /\ NotesFit /\ WatchFit /\ AlertFlags /\ AlertsNext
    => ToastsFit' /\ NotesFit' /\ WatchFit' /\ AlertFlags'
<1> SUFFICES ASSUME ToastsFit, NotesFit, WatchFit, AlertFlags, AlertsNext
             PROVE  ToastsFit' /\ NotesFit' /\ WatchFit' /\ AlertFlags'
  OBVIOUS
<1> DEFINE Quiet == UNCHANGED <<now, toastVars, noteVars>>
           Fits == ToastsFit' /\ NotesFit' /\ WatchFit' /\ AlertFlags'
<1>1. ASSUME UNCHANGED <<now, toastVars>> PROVE ToastsFit'
  BY <1>1 DEF toastVars, ToastsFit
<1>2. ASSUME UNCHANGED noteVars PROVE NotesFit'
  BY <1>2 DEF noteVars, NotesFit
<1>3. ASSUME UNCHANGED watchVars PROVE WatchFit'
  BY <1>3 DEF watchVars, WatchFit
<1>4. CASE TimePasses
  <2>1. ToastsFit'
    <3>1. now < MaxNow /\ now' = now + 1 /\ UNCHANGED <<toasts, raised>>
      BY <1>4 DEF TimePasses, toastVars
    <3>2. PICK V : toasts \in ToastsOf(raised, now, V)
      BY DEF ToastsFit
    <3>3. raised \in 0 .. MaxRaised /\ now \in 1 .. MaxNow /\ MaxNow \in Nat
      BY AlertsAssumption DEF ToastsFit
    <3>4. toasts \in ToastsOf(raised, now + 1, V)
      BY <3>2, <3>3, LaterFits
    <3>5. now' \in 1 .. MaxNow
      BY <3>1, <3>3
    <3> QED BY <3>1, <3>3, <3>4, <3>5 DEF ToastsFit
  <2>2. NotesFit' /\ WatchFit'
    BY <1>2, <1>3, <1>4 DEF TimePasses
  <2>3. AlertFlags'
    BY <1>4, Zenon DEF TimePasses, noteVars, watchVars, AlertFlags
  <2> QED BY <2>1, <2>2, <2>3
<1>5. CASE ToggleBell
  <2>1. ToastsFit' /\ WatchFit' /\ NotesFit'
    BY <1>1, <1>3, <1>5 DEF ToggleBell, NotesFit
  <2>2. AlertFlags'
    BY <1>5, Zenon DEF ToggleBell, watchVars, AlertFlags
  <2> QED BY <2>1, <2>2
<1>6. ASSUME \/ MarkAllAsRead \/ ClearNotifications
             \/ \E i \in 1 .. MaxKept : MarkAsRead(i)
      PROVE  Fits
  <2>1. UNCHANGED <<now, toastVars, noteCount, bell, watchVars, streamOpen>>
    BY <1>6 DEF MarkAllAsRead, ClearNotifications, MarkAsRead
  <2>2. \/ \E i \in DOMAIN notes : notes' = [notes EXCEPT ![i].read = TRUE]
        \/ notes' = [i \in DOMAIN notes |-> [notes[i] EXCEPT !.read = TRUE]]
        \/ notes' = <<>>
    BY <1>6, Zenon DEF MarkAllAsRead, ClearNotifications, MarkAsRead
  <2>3. NotesFit'
    BY <2>1, <2>2, ReadNotesFit
  <2>4. ToastsFit' /\ WatchFit'
    BY <1>1, <1>3, <2>1
  <2>5. AlertFlags'
    BY <2>1, Zenon DEF watchVars, AlertFlags
  <2> QED BY <2>3, <2>4, <2>5
<1>7. ASSUME NEW t \in Range(toasts), ToastExpires(t) \/ DismissToast(t) PROVE Fits
  <2>1. RemoveToast(t)
    BY <1>7 DEF ToastExpires, DismissToast
  <2>2. UNCHANGED <<now, noteVars, watchVars, streamOpen>>
    BY <2>1 DEF RemoveToast
  <2>3. AlertFlags'
    BY <2>2, Zenon DEF noteVars, watchVars, AlertFlags
  <2> QED BY <1>2, <1>3, <2>1, <2>2, <2>3, RemoveToastFits
<1>8. ASSUME NEW text, AddNotification(<<0, text>>) PROVE Fits
  <2>1. AddToast(<<0, text>>) /\ UNCHANGED <<now, bell, watchVars, streamOpen>>
    BY <1>8 DEF AddNotification
  <2>2. AlertFlags'
    BY <2>1, Zenon DEF watchVars, AlertFlags
  <2>3. ToastsFit'
    BY <2>1, AddToastFits
  <2>4. NotesFit'
    BY <1>8, AddNotificationFits
  <2>5. WatchFit'
    BY <1>3, <2>1
  <2> QED BY <2>2, <2>3, <2>4, <2>5
<1>9. ASSUME NEW incoming \in BOOLEAN, PaymentMade(incoming) PROVE Fits
  <2>1. /\ payments' = Append(payments, incoming)
        /\ UNCHANGED <<now, toastVars, noteVars, lastSeen, polled, watching, streamOpen>>
    BY <1>9 DEF PaymentMade
  <2>2. WatchFit'
    BY <2>1 DEF WatchFit
  <2>3. AlertFlags'
    BY <2>1, Zenon DEF noteVars, AlertFlags
  <2> QED BY <1>1, <1>2, <2>1, <2>2, <2>3
<1>10. CASE PollPayments
  <2>1. /\ polled < MaxPolls /\ polled' = polled + 1
        /\ UNCHANGED <<now, toastVars, noteVars, payments, lastSeen, watching, streamOpen>>
    BY <1>10 DEF PollPayments
  <2>2. MaxPolls \in Nat
    BY AlertsAssumption
  <2>3. WatchFit'
    BY <2>1, <2>2 DEF WatchFit
  <2>4. AlertFlags'
    BY <2>1, Zenon DEF noteVars, AlertFlags
  <2> QED BY <1>1, <1>2, <2>1, <2>3, <2>4
<1>11. CASE StopWatching \/ StreamFails
  <2>1. UNCHANGED <<now, toastVars, noteVars, payments, lastSeen, polled>>
    BY <1>11 DEF StopWatching, StreamFails, watchVars
  <2>2. WatchFit'
    BY <2>1 DEF WatchFit
  <2>3. AlertFlags'
    BY <1>11, Zenon DEF StopWatching, StreamFails, noteVars, watchVars, AlertFlags
  <2> QED BY <1>1, <1>2, <2>1, <2>2, <2>3
<1>12. ASSUME NEW s, PaymentStatus(s) PROVE Fits
  <2>1. UNCHANGED <<now, noteVars, watchVars, streamOpen>>
    BY <1>12 DEF PaymentStatus
  <2>2. AddToast(<<1, 1>>) \/ AddToast(<<1, 2>>) \/ UNCHANGED toastVars
    BY <1>12, Zenon DEF PaymentStatus
  <2>3. ToastsFit'
    BY <1>1, <2>1, <2>2, AddToastFits
  <2>4. AlertFlags'
    BY <2>1, Zenon DEF noteVars, watchVars, AlertFlags
  <2> QED BY <1>2, <1>3, <2>1, <2>3, <2>4
<1>13. ASSUME NEW p, NEW n, PaymentsArrive(p, n) PROVE Fits
  <2>1. n \in 0 .. Len(payments) /\ lastSeen' \in {lastSeen, n}
        /\ UNCHANGED <<now, noteVars, payments, polled, watching, streamOpen>>
    BY <1>13 DEF PaymentsArrive
  <2>2. UNCHANGED toastVars \/ \E text : AddToast(text)
    BY <1>13, Zenon DEF PaymentsArrive
  <2>3. ToastsFit'
    BY <1>1, <2>1, <2>2, AddToastFits
  <2>4. WatchFit'
    BY <2>1 DEF WatchFit
  <2>5. AlertFlags'
    BY <2>1, Zenon DEF noteVars, AlertFlags
  <2> QED BY <1>2, <2>1, <2>3, <2>4, <2>5
<1> HIDE DEF Fits
<1>14. Fits
  <2>1. ASSUME TimePasses \/ ToggleBell PROVE Fits
    BY <1>4, <1>5, <2>1 DEF Fits
  <2>2. ASSUME PollPayments \/ StopWatching \/ StreamFails PROVE Fits
    BY <1>10, <1>11, <2>2 DEF Fits
  <2> QED BY <1>6, <1>7, <1>8, <1>9, <1>12, <1>13, <2>1, <2>2, Zenon DEF AlertsNext
<1> QED BY <1>14 DEF Fits

(* Each step of the banner leaves its counts within the losses.            *)
LEMMA BannerShapeStays ==
  ToastsFit /\ BannerFlags /\ BannerCounts /\ BannerNext
    => ToastsFit' /\ BannerFlags' /\ BannerCounts'
<1> SUFFICES ASSUME ToastsFit, BannerFlags, BannerCounts, BannerNext
             PROVE  ToastsFit' /\ BannerFlags' /\ BannerCounts'
  OBVIOUS
<1>1. ASSUME UNCHANGED toastVars, now' = now PROVE ToastsFit'
  BY <1>1 DEF toastVars, ToastsFit
<1>2. MaxDrops \in Nat
  BY AlertsAssumption
<1>3. CASE NetDrops
  <2>1. /\ netUp /\ drops < MaxDrops /\ drops' = drops + 1 /\ netUp' = FALSE
        /\ UNCHANGED <<netProbes, hideTimers, toastVars, bannerSkeleton, now>>
        /\ bannerOnline' = FALSE
    BY <1>3 DEF NetDrops, BannerFalls, quietVars
  <2>2. bannerShown' \in {TRUE, bannerShown} /\ reconnecting' \in {FALSE, reconnecting}
    BY <1>3 DEF NetDrops, BannerFalls
  <2>3. BannerCounts'
    BY <1>2, <2>1 DEF BannerCounts
  <2>4. BannerFlags'
    BY <2>1, <2>2, Zenon DEF BannerFlags
  <2> QED BY <1>1, <2>1, <2>3, <2>4
<1>4. CASE NetReturns
  <2>1. /\ ~netUp /\ netUp' = TRUE /\ netProbes' = netProbes + 1
        /\ UNCHANGED <<drops, hideTimers, bannerOnline, bannerShown, reconnecting,
                       bannerSkeleton, toastVars, now>>
    BY <1>4 DEF NetReturns, quietVars
  <2>2. BannerCounts'
    BY <2>1 DEF BannerCounts
  <2>3. BannerFlags'
    BY <2>1, Zenon DEF BannerFlags
  <2> QED BY <1>1, <2>1, <2>2, <2>3
<1>5. CASE BannerHides
  <2>1. /\ hideTimers > 0 /\ hideTimers' = hideTimers - 1
        /\ bannerShown' = FALSE /\ reconnecting' = FALSE
        /\ UNCHANGED <<netUp, drops, netProbes, bannerOnline, bannerSkeleton, toastVars, now>>
    BY <1>5 DEF BannerHides, quietVars
  <2>2. BannerCounts'
    BY <2>1 DEF BannerCounts
  <2>3. BannerFlags'
    BY <2>1, Zenon DEF BannerFlags
  <2> QED BY <1>1, <2>1, <2>2, <2>3
<1>6. CASE BannerSkeletonEnds
  <2>1. /\ bannerSkeleton' = FALSE
        /\ UNCHANGED <<netUp, drops, netProbes, hideTimers, bannerOnline, bannerShown,
                       reconnecting, toastVars, now>>
    BY <1>6 DEF BannerSkeletonEnds, quietVars
  <2>2. BannerCounts'
    BY <2>1 DEF BannerCounts
  <2>3. BannerFlags'
    BY <2>1, Zenon DEF BannerFlags
  <2> QED BY <1>1, <2>1, <2>2, <2>3
<1>7. ASSUME NEW reached \in BOOLEAN, NetProbed(reached)
      PROVE  ToastsFit' /\ BannerFlags' /\ BannerCounts'
  <2>1. /\ netProbes > 0 /\ netProbes' = netProbes - 1
        /\ UNCHANGED <<netUp, drops, bannerSkeleton, now>>
    BY <1>7 DEF NetProbed, quietVars
  <2>2. CASE BannerRises
    <3>1. /\ bannerOnline' = TRUE /\ reconnecting' = TRUE /\ hideTimers' = hideTimers + 1
          /\ bannerShown' = bannerShown
      BY <2>2 DEF BannerRises, TimersAfter
    <3>2. ToastsFit'
      BY <2>1, <2>2, AddToastFits DEF BannerRises
    <3>3. BannerCounts'
      BY <2>1, <3>1 DEF BannerCounts
    <3>4. BannerFlags'
      BY <2>1, <3>1, Zenon DEF BannerFlags
    <3> QED BY <3>2, <3>3, <3>4
  <2>3. CASE BannerFalls
    <3>1. /\ bannerOnline' = FALSE /\ bannerShown' \in {TRUE, bannerShown}
          /\ reconnecting' \in {FALSE, reconnecting} /\ UNCHANGED <<hideTimers, toastVars>>
      BY <2>3 DEF BannerFalls
    <3>2. ToastsFit'
      BY <1>1, <2>1, <3>1
    <3>3. BannerCounts'
      BY <2>1, <3>1 DEF BannerCounts
    <3>4. BannerFlags'
      BY <2>1, <3>1, Zenon DEF BannerFlags
    <3> QED BY <3>2, <3>3, <3>4
  <2> QED BY <1>7, <2>2, <2>3 DEF NetProbed
<1> QED BY <1>3, <1>4, <1>5, <1>6, <1>7 DEF BannerNext

LEMMA AlertShapeStays ==
  AlertShape /\ [(AlertsNext /\ UNCHANGED bannerVars) \/ BannerNext]_alertsVars => AlertShape'
<1> SUFFICES ASSUME AlertShape, [(AlertsNext /\ UNCHANGED bannerVars) \/ BannerNext]_alertsVars
             PROVE  AlertShape'
  OBVIOUS
<1>1. ToastsFit /\ NotesFit /\ WatchFit /\ AlertFlags /\ BannerFlags /\ BannerCounts
  BY DEF AlertShape
<1>2. ASSUME UNCHANGED bannerVars PROVE BannerFlags' /\ BannerCounts'
  BY <1>1, <1>2 DEF bannerVars, BannerFlags, BannerCounts
<1>3. ASSUME UNCHANGED <<noteVars, watchVars, streamOpen>>
      PROVE  NotesFit' /\ WatchFit' /\ AlertFlags'
  <2>1. NotesFit' /\ WatchFit'
    BY <1>1, <1>3 DEF noteVars, watchVars, NotesFit, WatchFit
  <2>2. AlertFlags'
    BY <1>1, <1>3, Zenon DEF noteVars, watchVars, AlertFlags
  <2> QED BY <2>1, <2>2
<1>4. CASE AlertsNext /\ UNCHANGED bannerVars
  BY <1>1, <1>2, <1>4, AlertsShapeStay DEF AlertShape
<1>5. CASE BannerNext
  <2>1. UNCHANGED <<noteVars, watchVars, streamOpen>>
    BY <1>5 DEF BannerNext, NetDrops, NetReturns, BannerHides, BannerSkeletonEnds, NetProbed,
                quietVars
  <2> QED BY <1>1, <1>3, <1>5, <2>1, BannerShapeStays DEF AlertShape
<1>6. CASE UNCHANGED alertsVars
  <2>1. UNCHANGED <<now, toastVars, noteVars, watchVars, streamOpen, bannerVars>>
    BY <1>6 DEF alertsVars
  <2>2. ToastsFit'
    BY <1>1, <2>1 DEF toastVars, ToastsFit
  <2> QED BY <1>2, <1>3, <2>1, <2>2 DEF AlertShape
<1> QED BY <1>4, <1>5, <1>6

-----------------------------------------------------------------------------
(***************************************************************************)
(* All of the parts together.                                              *)
(***************************************************************************)
TalkShape == BoxShape /\ RetryShape /\ AnswerShape /\ HistoryShape /\ TextTypeOK
PageShape == SearchShape /\ SplitShape /\ ShellShape /\ ListShape /\ DialogShape
RestShape == AlertShape /\ TelemetryTypeOK /\ scene \in ChatScenes

PartsShape == TalkShape /\ PageShape /\ RestShape

LEMMA PartsShapeStarts == MCChatInit => PartsShape
<1> SUFFICES ASSUME MCChatInit PROVE PartsShape
  OBVIOUS
<1>1. /\ scene \in ChatScenes /\ StoreInit /\ ComposerInit /\ RetryInit /\ AssistantInit
      /\ SearchInit /\ TextInit /\ SplitInit /\ ShellInit /\ ListInit /\ AlertsInit
      /\ BannerInit /\ DialogsInit /\ TelemetryInit
  BY DEF MCChatInit
<1>2. TalkShape
  BY <1>1, BoxShapeStarts, RetryShapeStarts, AnswerShapeStarts, StoreStarts, HookShapeStarts,
     TextShapeStarts DEF TalkShape, HistoryShape
<1>3. PageShape
  BY <1>1, SearchShapeStarts, SplitShapeStarts, ShellShapeStarts, ListShapeStarts,
     DialogShapeStarts DEF PageShape
<1>4. RestShape
  BY <1>1, AlertShapeStarts, TelemetryShapeStarts DEF RestShape
<1> QED BY <1>2, <1>3, <1>4 DEF PartsShape

LEMMA PartsShapeStays == PartsShape /\ [MCChatNext]_mcVars => PartsShape'
<1> SUFFICES ASSUME PartsShape, [MCChatNext]_mcVars PROVE PartsShape'
  OBVIOUS
<1>1. TalkShape'
  <2>1. BoxShape' /\ RetryShape' /\ AnswerShape'
    BY PartsMove, OtherPartsMove, BoxShapeStays, RetryShapeStays, AnswerShapeStays
       DEF PartsShape, TalkShape
  <2>2. HistoryShape'
    BY PartsMove, StoreStays, HookShapeStays DEF PartsShape, TalkShape, HistoryShape
  <2>3. TextTypeOK'
    BY PartsMove, TextShapeStays DEF PartsShape, TalkShape
  <2> QED BY <2>1, <2>2, <2>3 DEF TalkShape
<1>2. PageShape'
  BY PartsMove, SearchShapeStays, SplitShapeStays, ShellShapeStays, ListShapeStays,
     DialogShapeStays DEF PartsShape, PageShape
<1>3. RestShape'
  BY OtherPartsMove, AlertShapeStays, TelemetryShapeStays DEF PartsShape, RestShape
<1> QED BY <1>1, <1>2, <1>3 DEF PartsShape

(* Each part of the chat keeps its shape, whatever happens in it: session, *)
(* saved history, box, retries, assistant, search, text, split view,       *)
(* shell, lists, alerts, dialogs and telemetry (src/hooks, src/components, *)
(* src/lib of dex_with_fiat_frontend).                                     *)
THEOREM ChatPartsKeepShape == MCChatSpec => []ChatPartsTypeOK
<1>1. ChatInv /\ PartsShape => ChatPartsTypeOK
  <2> SUFFICES ASSUME ChatInv, PartsShape PROVE ChatPartsTypeOK
    OBVIOUS
  <2>1. ChatTypeOK /\ scene \in ChatScenes
    BY ChatShapes DEF PartsShape, RestShape
  <2>2. StoreTypeOK /\ ComposerTypeOK /\ RetryTypeOK /\ AssistantTypeOK /\ TextTypeOK
    BY HistoryShapeTypes, BoxShapeTypes, AnswerShapeTypes DEF PartsShape, TalkShape, RetryShape
  <2>3. SearchTypeOK /\ SplitTypeOK /\ ShellTypeOK /\ ListTypeOK /\ DialogsTypeOK
    BY SearchShapeTypes, ListShapeTypes, DialogShapeTypes
       DEF PartsShape, PageShape, SplitShape, ShellShape
  <2>4. AlertsTypeOK /\ TelemetryTypeOK
    BY AlertShapeTypes DEF PartsShape, RestShape
  <2> QED BY <2>1, <2>2, <2>3, <2>4 DEF ChatPartsTypeOK
<1>2. MCChatSpec => []PartsShape
  BY PartsShapeStarts, PartsShapeStays, PTL DEF MCChatSpec
<1> QED BY <1>1, <1>2, ChatInvariance, SessionMoves, PTL

=============================================================================

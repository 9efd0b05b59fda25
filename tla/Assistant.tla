------------------------------ MODULE Assistant ------------------------------
(***************************************************************************)
(* From a chat message to the actions under its answer: the route          *)
(* app/api/ai/chat (guardrails, FAQ, parser, model), the assistant's check *)
(* of the answer (lib/aiAssistant.ts), the suggested actions of            *)
(* hooks/useChat.ts and the transaction that an answer sets up: the data   *)
(* collected over the conversation, the timer that opens the deposit       *)
(* dialog by itself, and the amount filled in there.  A message is what    *)
(* the patterns find in it; texts are left out.  One message is under way  *)
(* at a time: aborts, the offline queue and reloads are ChatSession's.     *)
(***************************************************************************)
EXTENDS ChatMachine, FiniteSets

CONSTANTS Messages,      \* messages of the instance
          ModelAnswers,  \* what the language model may return
          MaxAsked       \* messages sent

(* The patterns of classifyGuardrail, in the order they are tried.         *)
Categories == <<"wallet_security", "compliance_evasion",
                "malicious_activity", "financial_guarantee">>
Intents == {"fiat_conversion", "query", "portfolio", "technical_support",
            "guardrail", "unknown"}
Data == [amountIn : Nat, tokenIn : BOOLEAN, fiatCurrency : BOOLEAN]
NoData == [amountIn |-> 0, tokenIn |-> FALSE, fiatCurrency |-> FALSE]

LongestAmount == 999999      \* six digits, of which FirstDigits drops three at most

(* amount and grouped: the first number of the message, 0 for none, and    *)
(* whether its thousands are separated by commas.  cancels: it has a word  *)
(* of isCancellation.                                                      *)
ASSUME AssistantAssumption ==
  /\ Messages # {}
  /\ Messages \subseteq
       [hits : SUBSET {Categories[i] : i \in 1 .. 4}, offTopic : BOOLEAN, inDomain : BOOLEAN,
        grouped : BOOLEAN, token : BOOLEAN, fiat : BOOLEAN, faq : Intents \cup {"none"},
        amount : 0 .. LongestAmount, cancels : BOOLEAN]
  /\ ModelAnswers \subseteq
       [json : BOOLEAN, intent : Intents, low : BOOLEAN, amountIn : Nat, guardrail : BOOLEAN]
  /\ MaxAsked \in Nat

VARIABLES
  stage,      \* idle, model (generateContent), arrived, shown
  message,    \* the message under way
  reply,      \* what the route returned
  offered,    \* kinds of the actions under the answer
  prepared,   \* amount of the transaction the answer shows, 0 for none
  triggers,   \* guardrailCounts, summed
  asked,      \* messages sent so far
  left,       \* another chat was opened since the message was sent
  dialogue,   \* machineRef: [state, ctx]
  details,    \* pendingTransactionData of its context, NoData for none
  due,        \* what transactionReadyTimerRef will open the dialog with
  prefill,    \* defaultAmount of the deposit dialog, 0 for none
  grounded    \* history: the amounts that answers had a ground for

transactionVars == <<dialogue, details, due, prefill, grounded>>
assistantVars == <<stage, message, reply, offered, prepared, triggers, asked, left,
                   transactionVars>>

(* SAFE_FALLBACK_RESULT, also what the route and its parser fall back to   *)
NoReply == [intent |-> "unknown", low |-> TRUE, data |-> NoData, guardrail |-> FALSE]

AssistantInit ==
  /\ stage = "idle" /\ message = CHOOSE m \in Messages : TRUE
  /\ reply = NoReply /\ offered = {} /\ prepared = 0 /\ triggers = 0 /\ asked = 0
  /\ left = FALSE
  /\ dialogue = Step(NewMachine, "INITIALIZE_SESSION") /\ details = NoData
  /\ due = {} /\ prefill = 0 /\ grounded = {}

(***************************************************************************)
(* The route                                                               *)
(***************************************************************************)
(* classifyGuardrail                                                       *)
Guarded(m) == m.hits # {} \/ (m.offTopic /\ ~m.inDomain)

(* extractAmount: the number pattern stops after three digits unless they  *)
(* are followed by groups of a comma and three more.                       *)
FirstDigits(n) ==
  CHOOSE d \in 100 .. 999 : \E k \in {10, 100, 1000} : n \div k = d

ExtractAmount(m) ==
  IF m.amount < 1000 \/ m.grouped THEN m.amount ELSE FirstDigits(m.amount)

MergeModelFirst(m, data) ==      \* a wrong Merge: the model's amount goes before the parser's
  [amountIn     |-> IF data.amountIn > 0 THEN data.amountIn ELSE ExtractAmount(m),
   tokenIn      |-> m.token \/ data.tokenIn,
   fiatCurrency |-> m.fiat \/ data.fiatCurrency]

(* mergeParserWithAI: what the parser found replaces the model's value     *)
Merge(m, data) ==
  [amountIn     |-> IF m.amount > 0 THEN ExtractAmount(m) ELSE data.amountIn,
   tokenIn      |-> m.token \/ data.tokenIn,
   fiatCurrency |-> m.fiat \/ data.fiatCurrency]

(* parseAIResponse; with no JSON in it the response itself is the answer   *)
Parsed(a) ==
  IF ~a.json THEN NoReply
  ELSE [intent    |-> a.intent,
        low       |-> a.low,
        data      |-> [amountIn |-> a.amountIn, tokenIn |-> a.amountIn > 0,
                       fiatCurrency |-> FALSE],
        guardrail |-> a.guardrail]

Arrives(r) == stage' = "arrived" /\ reply' = r

(* sendMessage, and POST up to the call of the model.  Without an API key  *)
(* the parser's fields are returned under their own names: only the        *)
(* currency is one the chat reads.                                         *)
Post(m, hasKey) ==
  /\ stage \in {"idle", "shown"} /\ asked < MaxAsked
  /\ CanTransition(dialogue, "SEND_MESSAGE")
  /\ dialogue' = Step(dialogue, "SEND_MESSAGE")
  /\ asked' = asked + 1 /\ message' = m
  /\ offered' = {} /\ prepared' = 0 /\ left' = FALSE
  /\ IF Guarded(m)
       THEN Arrives([intent |-> "guardrail", low |-> FALSE, data |-> NoData,
                     guardrail |-> TRUE])
     ELSE IF m.faq # "none"
       THEN Arrives([intent |-> m.faq, low |-> FALSE, data |-> NoData,
                     guardrail |-> FALSE])
     ELSE IF ~hasKey
       THEN Arrives([NoReply EXCEPT !.data.fiatCurrency = m.fiat])
     ELSE stage' = "model" /\ UNCHANGED reply
  /\ UNCHANGED <<triggers, details, due, prefill, grounded>>

ModelSays(a) ==
  /\ stage = "model"
  /\ Arrives([Parsed(a) EXCEPT !.data = Merge(message, @)])
  /\ UNCHANGED <<message, offered, prepared, triggers, asked, left, transactionVars>>

(* The route's catch after the model was called                            *)
ModelThrows ==
  /\ stage = "model"
  /\ Arrives(NoReply)
  /\ UNCHANGED <<message, offered, prepared, triggers, asked, left, transactionVars>>

(* The response is lost or is no result: the assistant's own fallback.     *)
FallsBack ==
  /\ stage = "arrived" /\ reply # NoReply
  /\ Arrives(NoReply)
  /\ UNCHANGED <<message, offered, prepared, triggers, asked, left, transactionVars>>

(***************************************************************************)
(* The answer in the chat                                                  *)
(***************************************************************************)
(* generateGuardrailActions                                                *)
GuardrailActions(connected) ==
  {"market_rates", "learn_more", "query"}
  \cup (IF connected THEN {} ELSE {"connect_wallet"})

(* generateSuggestedActions: c is what the session knows, auto that the    *)
(* transaction is to open by itself, ready that there is data for one.     *)
SuggestedActions(r, c, auto, ready) ==
  LET vague == r.intent = "fiat_conversion" /\ r.low
      pays  == {"confirm_fiat"}
  IN  IF r.intent = "guardrail" /\ r.guardrail THEN GuardrailActions(c.connected)
      ELSE IF auto THEN pays \cup {"cancel"}
      ELSE
        (IF ready /\ ~vague THEN pays ELSE {})
        \cup (IF r.intent = "fiat_conversion" /\ (r.data.tokenIn \/ r.data.fiatCurrency)
                THEN {"market_rates"} \cup (IF c.connected THEN {} ELSE {"connect_wallet"})
                                      \cup (IF vague THEN {} ELSE pays)
                ELSE {})
        \cup (IF r.intent = "portfolio"
                THEN IF c.connected THEN pays \cup {"check_portfolio"}
                                    ELSE {"connect_wallet"}
                ELSE {})
        \cup (IF c.admin THEN pays ELSE {})
        \cup (IF r.intent \in {"query", "technical_support", "unknown"} THEN pays ELSE {})

Converts(r) == r.intent = "fiat_conversion"

Payable(data) == data.tokenIn \/ data.amountIn > 0

(* The transaction data the answer carries (shouldShowTransactionData)     *)
Shown(r) == IF Converts(r) /\ Payable(r.data) THEN r.data.amountIn ELSE 0

(* What the answer is to the machine.                                      *)
Outcome(r) ==
  CASE ~Converts(r)                  -> "other"
    [] Converts(r) /\ Payable(r.data) -> IF r.low THEN "vague" ELSE "conversion"
    [] OTHER                         -> IF r.low THEN "bareVague" ELSE "bareConversion"

GatheredFromAll(r) ==      \* a wrong Gathered: data of an answer about anything else counts
  [amountIn     |-> IF r.data.amountIn > 0 THEN r.data.amountIn ELSE details.amountIn,
   tokenIn      |-> details.tokenIn \/ r.data.tokenIn,
   fiatCurrency |-> details.fiatCurrency \/ r.data.fiatCurrency]

(* {...pendingTransactionData, ...extractedData}                           *)
Gathered(r) ==
  IF ~Converts(r) THEN details
  ELSE [amountIn     |-> IF r.data.amountIn > 0 THEN r.data.amountIn ELSE details.amountIn,
        tokenIn      |-> details.tokenIn \/ r.data.tokenIn,
        fiatCurrency |-> details.fiatCurrency \/ r.data.fiatCurrency]

(* A number the parser reads as it stands.                                 *)
ReadWhole(m) == m.amount > 0 /\ (m.amount < 1000 \/ m.grouped)

(* A ground to fill in the answer's amount: the message got through the    *)
(* guardrails, is about a conversion, and does not name another amount.    *)
HasGround(m, r) ==
  ~Guarded(m) /\ Converts(r) /\ (ReadWhole(m) => r.data.amountIn = m.amount)

(* analyzeAndRespond.  The machine has not moved since the message was     *)
(* sent, so its context is the snapshot's; the data that a cancelling      *)
(* message clears is put back from there.  From the AutoCount-th message   *)
(* on, the dialog opens by itself whatever the message and its answer are  *)
(* about.  In another chat nothing of the answer is shown.                 *)
Replied(c) ==
  LET request  == [cancels |-> message.cancels, snap |-> dialogue.ctx]
      outcome  == Outcome(reply)
      pending  == Merged(dialogue.ctx.pending, Extracted(outcome))
      auto     == AutoTriggers(request, outcome, pending) /\ pending # "none"
      ready    == dialogue.ctx.count + 1 >= MinimalCount /\ pending # "none"
  IN
  /\ stage = "arrived"
  /\ triggers' = IF reply.guardrail THEN triggers + 1 ELSE triggers
  /\ dialogue' = Responded(dialogue, request, outcome)
  /\ details' = Gathered(reply)
  /\ due' = IF auto THEN {details'} ELSE due
  /\ grounded' = IF HasGround(message, reply) THEN grounded \cup {reply.data.amountIn}
                                              ELSE grounded
  /\ IF left THEN stage' = "idle" /\ UNCHANGED <<offered, prepared>>
     ELSE /\ stage' = "shown"
          /\ offered' = SuggestedActions(reply, c, auto, ready)
          /\ prepared' = Shown(reply)
  /\ UNCHANGED <<message, reply, asked, left, prefill>>

(* The timer, a second later: handleTransactionReady.                      *)
ReadyTimerFires(mismatch) ==
  /\ due # {} /\ due' = {}
  /\ prefill' = LET data == CHOOSE d \in due : TRUE
                IN  IF mismatch \/ data.amountIn = 0 THEN prefill ELSE data.amountIn
  /\ UNCHANGED <<stage, message, reply, offered, prepared, triggers, asked, left,
                 dialogue, details, grounded>>

DialogCloses ==
  /\ prefill # 0 /\ prefill' = 0
  /\ UNCHANGED <<stage, message, reply, offered, prepared, triggers, asked, left,
                 dialogue, details, due, grounded>>

(* clearChat, loadChatSession: the machine may refuse, and keeps its data  *)
(* then; the timer runs on.                                                *)
ChangeChat(event) ==
  /\ dialogue' = Step(dialogue, event)
  /\ details' = IF dialogue'.ctx.pending = "none" THEN NoData ELSE details
  /\ offered' = {} /\ prepared' = 0
  /\ IF stage \in {"model", "arrived"} THEN left' = TRUE /\ UNCHANGED stage
     ELSE stage' = "idle" /\ UNCHANGED left
  /\ UNCHANGED <<message, reply, triggers, asked, due, prefill, grounded>>

AssistantNext ==
  \/ \E m \in Messages, hasKey \in BOOLEAN : Post(m, hasKey)
  \/ \E a \in ModelAnswers : ModelSays(a)
  \/ ModelThrows \/ FallsBack
  \/ \E c \in [connected : BOOLEAN, admin : BOOLEAN] : Replied(c)
  \/ \E mismatch \in BOOLEAN : ReadyTimerFires(mismatch)
  \/ DialogCloses
  \/ \E event \in {"CLEAR_CHAT", "LOAD_SESSION"} : ChangeChat(event)

(***************************************************************************)
(* Properties                                                              *)
(***************************************************************************)
(* The pipeline's state is of its shape.                                   *)
AssistantTypeOK ==
  /\ stage \in {"idle", "model", "arrived", "shown"}
  /\ message \in Messages /\ reply.intent \in Intents /\ reply.data \in Data
  /\ offered \subseteq {"confirm_fiat", "cancel", "market_rates", "connect_wallet",
                        "check_portfolio", "learn_more", "query"}
  /\ asked \in 0 .. MaxAsked /\ triggers \in 0 .. asked /\ left \in BOOLEAN
  /\ dialogue.state \in ChatStates /\ dialogue.ctx.count \in Nat
  /\ dialogue.ctx.pending \in Pendings
  /\ details \in Data /\ due \subseteq Data /\ prefill \in Nat /\ grounded \subseteq Nat

(* Under the answer to a message the guardrails match, no action starts a  *)
(* payment and no transaction is shown, whatever FAQ entry it also         *)
(* matches, however far the conversation got and whoever asks; only an     *)
(* answer lost on the way is replaced by the general fallback              *)
(* (ai/chat/route.ts:204-250, useChat.ts:942-970).  That is of what the    *)
(* answer shows: the dialog may open by itself after it.                   *)
BlockedMeansNoPayment ==
  (stage = "shown" /\ Guarded(message) /\ reply # NoReply) =>
    "confirm_fiat" \notin offered /\ prepared = 0

(* A number the parser reads whole, one below a thousand or one with its   *)
(* thousands separated, is the amount of the transaction the answer shows, *)
(* whatever the model made of the message (messageParser.ts:184-197).      *)
AmountIsTheUsers ==
  (stage = "shown" /\ ReadWhole(message)) => prepared \in {0, message.amount}

(* Whenever the dialog opens by itself, after a blocked message, after one *)
(* that cancels or in another chat too, the amount filled in there, and    *)
(* any the conversation still holds, is one of an answer that had a ground *)
(* for it: to a message about a conversion that the guardrails let         *)
(* through, and the user's number where that reads whole (the model's      *)
(* where there is none) (useChat.ts:393-412, 438-453, 588-598,             *)
(* StellarChatInterface.tsx:390-398).                                      *)
OpensWhatHasGround ==
  {data.amountIn : data \in due} \cup {details.amountIn, prefill} \subseteq grounded \cup {0}

(* No payment is set up out of nothing, in an answer or after it.          *)
PaymentsAreGrounded == BlockedMeansNoPayment /\ AmountIsTheUsers /\ OpensWhatHasGround

=============================================================================

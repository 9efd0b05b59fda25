----------------------------- MODULE ChatMachine -----------------------------
(***************************************************************************)
(* The table-driven state machine of the chat (lib/stateMachine.ts) with   *)
(* the chat's table, guards and actions (hooks/chatStateMachine.ts), as    *)
(* operators on a machine value [state, ctx], and what an answer makes of  *)
(* it (analyzeAndRespond of hooks/useChat.ts).  Nothing here is stateful:  *)
(* ChatSession and Assistant each keep one such value in a variable.       *)
(***************************************************************************)
EXTENDS Naturals

CONSTANTS
    MinimalCount,   \* messages before data alone triggers (useChat: 3)
    AutoCount       \* messages before anything triggers (useChat: 5)

ASSUME CountsAssumption == MinimalCount \in Nat /\ AutoCount \in Nat

ChatStates ==
    {"UNINITIALIZED", "INITIALIZED", "SENDING_MESSAGE", "ANALYZING",
     "AWAITING_CLARIFICATION", "READY_FOR_TRANSACTION", "TRANSACTION_TRIGGERED",
     "AWAITING_USER_INPUT", "CANCELLED", "ERROR"}

(* Transaction data: none yet, an object without an amount or a token, or  *)
(* one with at least one of tokenIn, amountIn and fiatAmount.              *)
Pendings == {"none", "bare", "data"}

NewContext == [count |-> 0, cancelled |-> FALSE, pending |-> "none", needs |-> FALSE]

NewMachine == [state |-> "UNINITIALIZED", ctx |-> NewContext]

HasTransactionData(ctx) == ctx.pending = "data"

CanTriggerTransaction(ctx) == HasTransactionData(ctx) /\ ~ctx.cancelled

(* The table: <<state, event, target>>.                                    *)
Arcs ==
    {<<"UNINITIALIZED", "INITIALIZE_SESSION", "INITIALIZED">>,
     <<"INITIALIZED", "SEND_MESSAGE", "SENDING_MESSAGE">>,
     <<"INITIALIZED", "LOAD_SESSION", "INITIALIZED">>,
     <<"INITIALIZED", "CLEAR_CHAT", "INITIALIZED">>,
     <<"SENDING_MESSAGE", "ANALYSIS_COMPLETE", "ANALYZING">>,
     <<"SENDING_MESSAGE", "CANCEL_FLOW", "CANCELLED">>,
     <<"SENDING_MESSAGE", "ENCOUNTER_ERROR", "ERROR">>,
     <<"ANALYZING", "RECEIVE_CLARIFICATION", "AWAITING_CLARIFICATION">>,
     <<"ANALYZING", "TRIGGER_TRANSACTION", "READY_FOR_TRANSACTION">>,
     <<"ANALYZING", "ANALYSIS_COMPLETE", "AWAITING_USER_INPUT">>,
     <<"ANALYZING", "ENCOUNTER_ERROR", "ERROR">>,
     <<"ANALYZING", "CANCEL_FLOW", "CANCELLED">>,
     <<"AWAITING_CLARIFICATION", "RECEIVE_CLARIFICATION", "SENDING_MESSAGE">>,
     <<"AWAITING_CLARIFICATION", "CANCEL_FLOW", "CANCELLED">>,
     <<"READY_FOR_TRANSACTION", "TRANSACTION_INITIATED", "TRANSACTION_TRIGGERED">>,
     <<"READY_FOR_TRANSACTION", "CANCEL_FLOW", "CANCELLED">>,
     <<"READY_FOR_TRANSACTION", "SEND_MESSAGE", "SENDING_MESSAGE">>,
     <<"TRANSACTION_TRIGGERED", "TRANSACTION_COMPLETED", "AWAITING_USER_INPUT">>,
     <<"TRANSACTION_TRIGGERED", "CANCEL_FLOW", "CANCELLED">>,
     <<"AWAITING_USER_INPUT", "SEND_MESSAGE", "SENDING_MESSAGE">>,
     <<"AWAITING_USER_INPUT", "CLEAR_CHAT", "INITIALIZED">>,
     <<"AWAITING_USER_INPUT", "LOAD_SESSION", "INITIALIZED">>,
     <<"CANCELLED", "RESET_FLOW", "INITIALIZED">>,
     <<"CANCELLED", "SEND_MESSAGE", "SENDING_MESSAGE">>,
     <<"CANCELLED", "CLEAR_CHAT", "INITIALIZED">>,
     <<"ERROR", "RETRY_FROM_ERROR", "SENDING_MESSAGE">>,
     <<"ERROR", "RESET_FLOW", "INITIALIZED">>,
     <<"ERROR", "CLEAR_CHAT", "INITIALIZED">>}

(* The guards of the table's entries; an entry without one is always open. *)
Guard(ctx, state, event) ==
    /\ state = "ANALYZING" /\ event = "RECEIVE_CLARIFICATION" => ctx.needs
    /\ event = "TRIGGER_TRANSACTION" => CanTriggerTransaction(ctx)

CanTransition(m, event) ==
    \E arc \in Arcs : arc[1] = m.state /\ arc[2] = event /\ Guard(m.ctx, m.state, event)

(* What the entry's action does to the context: a cancelled clarification  *)
(* or transaction keeps its data, leaving ERROR keeps the cancelled flag   *)
(* (and, by CLEAR_CHAT, the data), and only the first two states' resets   *)
(* and RESET_FLOW from CANCELLED forget that a clarification was needed.   *)
Action(ctx, state, event) ==
    CASE event = "CANCEL_FLOW" ->
           [ctx EXCEPT !.cancelled = TRUE,
                       !.pending = IF state \in {"AWAITING_CLARIFICATION",
                                                 "TRANSACTION_TRIGGERED"}
                                   THEN @ ELSE "none"]
      [] event = "INITIALIZE_SESSION"
           \/ (event = "CLEAR_CHAT" /\ state = "INITIALIZED")
           \/ (event = "RESET_FLOW" /\ state = "CANCELLED") -> NewContext
      [] event = "CLEAR_CHAT" /\ state \in {"AWAITING_USER_INPUT", "CANCELLED"} ->
           [NewContext EXCEPT !.needs = ctx.needs]
      [] event = "CLEAR_CHAT" /\ state = "ERROR" -> [ctx EXCEPT !.count = 0]
      [] event = "RESET_FLOW" /\ state = "ERROR" ->
           [ctx EXCEPT !.count = 0, !.pending = "none"]
      [] OTHER -> ctx

(* transition(): refused unless the table has an open entry.               *)
Step(m, event) ==
    IF CanTransition(m, event)
    THEN [state |-> (CHOOSE arc \in Arcs : arc[1] = m.state /\ arc[2] = event)[3],
          ctx |-> Action(m.ctx, m.state, event)]
    ELSE m

(* updateContext with the three parts of an analysis.                      *)
Informed(m, count, pending, needs) ==
    [m EXCEPT !.ctx = [@ EXCEPT !.count = count, !.pending = pending, !.needs = needs]]

-----------------------------------------------------------------------------
(* Of an analysis: that it asks back, and what data it brings.             *)
Vague(outcome) == outcome \in {"vague", "bareVague"}

Extracted(outcome) ==
    CASE outcome \in {"conversion", "vague"} -> "data"
      [] outcome \in {"bareConversion", "bareVague"} -> "bare"
      [] OTHER -> "none"

(* {...pending, ...extractedData}: an analysis adds to the data of the     *)
(* snapshot, not to the machine's.                                         *)
Merged(pending, extracted) ==
    IF "data" \in {pending, extracted} THEN "data"
    ELSE IF "bare" \in {pending, extracted} THEN "bare" ELSE "none"

(* analyzeAndRespond, from the answer to the first thing that can throw.   *)
Counted(m, request) ==
    LET counted == [m EXCEPT !.ctx.count = request.snap.count + 1]
    IN  IF request.cancels THEN Step(counted, "CANCEL_FLOW") ELSE counted

AutoTriggers(request, outcome, pending) ==
    /\ ~Vague(outcome) /\ ~request.snap.cancelled
    /\ \/ request.snap.count + 1 >= AutoCount
       \/ /\ pending = "data" /\ request.snap.count + 1 >= MinimalCount
          /\ Extracted(outcome) # "none"

Responded(m, request, outcome) ==
    LET pending == Merged(request.snap.pending, Extracted(outcome))
        informed == Step(Informed(Counted(m, request), request.snap.count + 1, pending,
                                  Vague(outcome)), "ANALYSIS_COMPLETE")
        asked == IF Vague(outcome) THEN Step(informed, "RECEIVE_CLARIFICATION") ELSE informed
        triggered == IF AutoTriggers(request, outcome, pending) /\ pending = "data"
                     THEN Step(asked, "TRIGGER_TRANSACTION") ELSE asked
    IN  IF triggered.state = "ANALYZING" THEN Step(triggered, "ANALYSIS_COMPLETE")
        ELSE triggered

=============================================================================

----------------------------- MODULE ChatSession -----------------------------
(***************************************************************************)
(* One browser tab of the chat: hooks/useChat.ts over its state machine,   *)
(* the in-memory queue of messages typed offline, the IndexedDB copy of it *)
(* (lib/offlineMessageQueue.ts) and the single AIAssistant                 *)
(* (lib/aiAssistant.ts), whose every request aborts its previous one.      *)
(*                                                                         *)
(* A step is one run of the event loop up to its next await.  A reload     *)
(* may come between any two steps and keeps only IndexedDB and what the    *)
(* debounced save wrote of the session.                                    *)
(***************************************************************************)
EXTENDS ChatMachine, Lists, Sequences, FiniteSets

CONSTANTS
    MaxSends,       \* messages the user sends, in all page loads together
    MaxReloads,     \* page loads after the first
    Outcomes        \* the analyses considered, among AllOutcomes

ASSUME ReloadsAssumption == MaxReloads \in Nat
ASSUME SendsAssumption == MaxSends \in Nat

Sends == 1..MaxSends

None == 0

VARIABLES
    machine,    \* machineRef: [state, ctx]
    status,     \* of the messages of each send: unsent, pending, sent, failed
    answers,    \* times each send was answered in this page load (history)
    queue,      \* queuedSendsRef
    idb,        \* the records in IndexedDB, by queuedAt
    idbOps,     \* IndexedDB operations issued and not done yet
    flights,    \* analyzeAndRespond calls that have not settled
    active,     \* activeRequestControllerRef: the send it belongs to, or None
    loading,    \* isLoading
    replaying,  \* replayingQueueRef
    timer,      \* transactionReadyTimerRef is set
    online,     \* navigator.onLine
    session,    \* the current session of useChatHistory: none, empty, full
    saved,      \* the same in localStorage
    reloads     \* page loads so far (bound)

pageVars == <<machine, active, loading, replaying, timer>>
queueVars == <<queue, idb, idbOps>>
storeVars == <<session, saved, reloads>>
chatVars == <<machine, status, answers, queue, idb, idbOps, flights, active,
              loading, replaying, timer, online, session, saved, reloads>>

(* A QueuedSend: cancels says that the text asks to cancel, snap is what   *)
(* is read later of the machine's context when the message was sent.       *)
Requests ==
    [send : Sends, cancels : BOOLEAN,
     snap : [count : 0..MaxSends, cancelled : BOOLEAN, pending : Pendings]]

Flight(request, replay) == [request |-> request, replay |-> replay, aborted |-> FALSE]

(* What analyzeUserMessage can return.  It catches every failure and       *)
(* answers with SAFE_FALLBACK_RESULT, which is an "other"; an answer that  *)
(* isValidAnalysisResult lets through (an array in place of extractedData) *)
(* and getClarificationQuestion throws on is Fail.                         *)
AllOutcomes == {"other", "conversion", "bareConversion", "vague", "bareVague"}

ASSUME OutcomesAssumption == Outcomes \subseteq AllOutcomes

-----------------------------------------------------------------------------
LaunchedBeside(live, request, replay) ==      \* a wrong Launched: the others go on
    live \cup {Flight(request, replay)}

(* analyzeUserMessage aborts the assistant's previous request, whoever     *)
(* made it.                                                                *)
Launched(live, request, replay) ==
    {[f EXCEPT !.aborted = TRUE] : f \in live} \cup {Flight(request, replay)}

AbortedBy(send) ==
    {IF f.request.send = send THEN [f EXCEPT !.aborted = TRUE] ELSE f : f \in flights}

ReleaseAlways(send) ==      \* a wrong Release: it clears a controller that is not its own
    active' = None /\ loading' = FALSE

ReleaseSpinning(send) ==      \* a wrong Release: the spinner is left on
    /\ active' = IF active = send THEN None ELSE active
    /\ UNCHANGED loading

(* The finally block: only the call that still owns the controller clears  *)
(* it and the spinner.                                                     *)
Release(send) ==
    IF active = send
    THEN active' = None /\ loading' = FALSE
    ELSE UNCHANGED <<active, loading>>

ReplayPeeked(waiting, live) ==      \* a wrong ReplayNext: the message stays in the queue
    /\ queue' = waiting
    /\ flights' = Launched(live, Head(waiting), TRUE)
    /\ active' = Head(waiting).send /\ loading' = TRUE /\ replaying' = TRUE

(* The replay loop takes the next message.                                 *)
ReplayNext(waiting, live) ==
    /\ queue' = Tail(waiting)
    /\ flights' = Launched(live, Head(waiting), TRUE)
    /\ active' = Head(waiting).send /\ loading' = TRUE /\ replaying' = TRUE

(* replayQueuedSends as its callers see it.                                *)
StartReplay(waiting) ==
    IF replaying \/ waiting = <<>> \/ ~online'
    THEN queue' = waiting /\ UNCHANGED <<flights, active, loading, replaying>>
    ELSE ReplayNext(waiting, flights)

-----------------------------------------------------------------------------
ChatInit ==
    /\ machine = NewMachine
    /\ status = [s \in Sends |-> "unsent"] /\ answers = [s \in Sends |-> 0]
    /\ queue = <<>> /\ idb = <<>> /\ idbOps = <<[op |-> "getAll"]>>
    /\ flights = {} /\ active = None /\ loading = FALSE /\ replaying = FALSE /\ timer = FALSE
    /\ online \in BOOLEAN
    /\ session = "none" /\ saved = "none" /\ reloads = 0

(* The effect after hydration: a stored session that is empty matches      *)
(* neither of its branches.                                                *)
InitSession ==
    /\ machine.state = "UNINITIALIZED" /\ session # "empty"
    /\ machine' = Step(machine, "INITIALIZE_SESSION")
    /\ session' = IF session = "none" THEN "empty" ELSE session
    /\ UNCHANGED <<status, answers, queueVars, flights, active, loading, replaying, timer,
                   online, saved, reloads>>

NextSend(s) == status[s] = "unsent" /\ \A t \in 1..(s - 1) : status[t] # "unsent"

(* sendMessage: refused by the machine, queued when offline, else sent.    *)
SendMessage(s, cancels) ==
    LET request == [send |-> s, cancels |-> cancels,
                snap |-> [count |-> machine.ctx.count, pending |-> machine.ctx.pending,
                          cancelled |-> machine.ctx.cancelled]] IN
    /\ NextSend(s) /\ CanTransition(machine, "SEND_MESSAGE")
    /\ machine' = Step(machine, "SEND_MESSAGE")
    /\ status' = [status EXCEPT ![s] = "pending"]
    /\ session' = "full"
    /\ IF online
       THEN /\ flights' = Launched(AbortedBy(active), request, FALSE)
            /\ active' = s /\ loading' = TRUE
            /\ UNCHANGED queueVars
       ELSE /\ flights' = AbortedBy(active) /\ active' = None /\ loading' = FALSE
            /\ queue' = Append(queue, request)
            /\ idbOps' = Append(idbOps, [op |-> "add", request |-> request])
            /\ UNCHANGED idb
    /\ UNCHANGED <<answers, replaying, timer, online, saved, reloads>>

(* cancelPendingRequest.  The machine is not told.                         *)
CancelPending ==
    /\ active # None
    /\ flights' = AbortedBy(active) /\ active' = None /\ loading' = FALSE
    /\ UNCHANGED <<machine, status, answers, queueVars, replaying, timer, online, storeVars>>

SettleForgetting(f) ==      \* a wrong Settle: an aborted replay drops its record too
    /\ f \in flights /\ f.aborted
    /\ flights' = flights \ {f}
    /\ replaying' = (replaying /\ ~f.replay)
    /\ idbOps' = IF f.replay THEN Append(idbOps, [op |-> "remove", send |-> f.request.send])
                 ELSE idbOps
    /\ Release(f.request.send)
    /\ UNCHANGED <<machine, status, answers, queue, idb, timer, online, storeVars>>

(* The AbortError of an aborted call: it ends without an answer, and a     *)
(* replay stops with it, leaving the rest of the queue.                    *)
Settle(f) ==
    /\ f \in flights /\ f.aborted
    /\ flights' = flights \ {f}
    /\ replaying' = (replaying /\ ~f.replay)
    /\ Release(f.request.send)
    /\ UNCHANGED <<machine, status, answers, queueVars, timer, online, storeVars>>

(* A call returns: the answer is shown, the machine moves, and a replay    *)
(* drops the record and goes on with the next message.                     *)
Finish(f) ==
    IF f.replay
    THEN /\ idbOps' = Append(idbOps, [op |-> "remove", send |-> f.request.send])
         /\ UNCHANGED idb
         /\ IF queue = <<>>
            THEN /\ flights' = flights \ {f} /\ replaying' = FALSE
                 /\ Release(f.request.send) /\ UNCHANGED queue
            ELSE ReplayNext(queue, flights \ {f})
    ELSE /\ flights' = flights \ {f} /\ Release(f.request.send)
         /\ UNCHANGED <<queueVars, replaying>>

Answer(f, outcome) ==
    /\ f \in flights /\ ~f.aborted
    /\ machine' = Responded(machine, f.request, outcome)
    /\ status' = [status EXCEPT ![f.request.send] = "sent"]
    /\ answers' = [answers EXCEPT ![f.request.send] = @ + 1]
    /\ LET pending == Merged(f.request.snap.pending, Extracted(outcome))
       IN  timer' = (timer \/ (AutoTriggers(f.request, outcome, pending) /\ pending # "none"))
    /\ Finish(f)
    /\ UNCHANGED <<online, storeVars>>

(* A malformed answer while online: the message is marked failed.          *)
Fail(f) ==
    LET counted == Counted(machine, f.request) IN
    /\ f \in flights /\ ~f.aborted /\ online
    /\ machine' = Step(counted, "ENCOUNTER_ERROR")
    /\ status' = [status EXCEPT ![f.request.send] = "failed"]
    /\ Finish(f)
    /\ UNCHANGED <<answers, timer, online, storeVars>>

(* The same while offline, which isLikelyNetworkError takes for a network  *)
(* failure whatever was thrown: the message is queued (again).             *)
Requeue(f) ==
    /\ f \in flights /\ ~f.aborted /\ ~online
    /\ machine' = Counted(machine, f.request)
    /\ flights' = flights \ {f}
    /\ Release(f.request.send)
    /\ IF f.replay
       THEN /\ queue' = <<f.request>> \o queue /\ replaying' = FALSE
            /\ UNCHANGED idbOps
       ELSE /\ queue' = Append(queue, f.request)
            /\ idbOps' = Append(idbOps, [op |-> "add", request |-> f.request])
            /\ UNCHANGED replaying
    /\ UNCHANGED <<status, answers, idb, timer, online, storeVars>>

(* clearChat and loadChatSession: nothing in flight is aborted and the     *)
(* machine may refuse.                                                     *)
ClearChat ==
    /\ machine.state # "UNINITIALIZED"
    /\ machine' = Step(machine, "CLEAR_CHAT") /\ session' = "empty"
    /\ UNCHANGED <<status, answers, queueVars, flights, active, loading, replaying, timer,
                   online, saved, reloads>>

LoadChatSession ==
    /\ session # "none"
    /\ machine' = Step(machine, "LOAD_SESSION") /\ session' = "full"
    /\ UNCHANGED <<status, answers, queueVars, flights, active, loading, replaying, timer,
                   online, saved, reloads>>

GoOffline ==
    /\ online' = FALSE
    /\ UNCHANGED <<pageVars, status, answers, queueVars, flights, storeVars>>

GoOnlineIdle ==      \* a wrong GoOnline: nothing is replayed
    /\ ~online /\ online' = TRUE
    /\ UNCHANGED <<pageVars, queueVars, flights, status, answers, storeVars>>

GoOnline ==
    /\ ~online /\ online' = TRUE
    /\ StartReplay(queue)
    /\ UNCHANGED <<machine, status, answers, idb, idbOps, timer, storeVars>>

(* IndexedDB serves its operations in order.                               *)
IdbWrite ==
    /\ idbOps # <<>> /\ Head(idbOps).op # "getAll"
    /\ idb' = IF Head(idbOps).op = "add" THEN Append(idb, Head(idbOps).request)
              ELSE Filtered(idb, {r \in ToSet(idb) : r.send # Head(idbOps).send})
    /\ idbOps' = Tail(idbOps)
    /\ UNCHANGED <<pageVars, status, answers, queue, flights, online, storeVars>>

(* getAllQueuedMessages, issued at mount, answers: its records go behind   *)
(* what was queued meanwhile, and the queue is replayed.                   *)
Restore ==
    /\ idbOps # <<>> /\ Head(idbOps).op = "getAll"
    /\ idbOps' = Tail(idbOps)
    /\ UNCHANGED online
    /\ IF idb = <<>> THEN UNCHANGED <<queue, flights, active, loading, replaying>>
       ELSE StartReplay(queue \o idb)
    /\ UNCHANGED <<machine, status, answers, idb, timer, storeVars>>

TransactionReady ==
    /\ timer /\ timer' = FALSE
    /\ UNCHANGED <<machine, status, answers, queueVars, flights, active, loading, replaying,
                   online, storeVars>>

SaveSession ==
    /\ saved # session /\ saved' = session
    /\ UNCHANGED <<pageVars, status, answers, queueVars, flights, online, session, reloads>>

Reload ==
    /\ reloads < MaxReloads /\ reloads' = reloads + 1
    /\ machine' = NewMachine /\ answers' = [s \in Sends |-> 0]
    /\ queue' = <<>> /\ idbOps' = <<[op |-> "getAll"]>>
    /\ flights' = {} /\ active' = None /\ loading' = FALSE /\ replaying' = FALSE
    /\ timer' = FALSE /\ session' = saved
    /\ UNCHANGED <<status, idb, online, saved>>

Answered == \E f \in flights, outcome \in Outcomes : Answer(f, outcome)

Settled == Answered \/ \E f \in flights : Settle(f) \/ Fail(f) \/ Requeue(f)

ChatNext ==
    \/ InitSession \/ CancelPending \/ Settled \/ ClearChat \/ LoadChatSession
    \/ \E s \in Sends, cancels \in BOOLEAN : SendMessage(s, cancels)
    \/ GoOffline \/ GoOnline \/ IdbWrite \/ Restore
    \/ TransactionReady \/ SaveSession \/ Reload

(* A fetch resolves, fails or times out and withRetry gives up after four  *)
(* attempts, the model does not answer malformed for ever, IndexedDB       *)
(* completes its transactions, and a lost connection comes back.  Nothing  *)
(* obliges the user to act or the connection to drop.                      *)
ChatFairness ==
    /\ WF_chatVars(Settled) /\ SF_chatVars(Answered)
    /\ WF_chatVars(IdbWrite \/ Restore) /\ WF_chatVars(GoOnline)

ChatSpec == ChatInit /\ [][ChatNext]_chatVars

-----------------------------------------------------------------------------
ChatTypeOK ==
    /\ machine \in [state : ChatStates,
                    ctx : [count : 0..MaxSends, cancelled : BOOLEAN,
                           pending : Pendings, needs : BOOLEAN]]
    /\ status \in [Sends -> {"unsent", "pending", "sent", "failed"}]
    /\ answers \in [Sends -> Nat]
    /\ queue \in Seq(Requests) /\ idb \in Seq(Requests)
    /\ idbOps \in Seq([op : {"getAll"}] \cup [op : {"add"}, request : Requests]
                         \cup [op : {"remove"}, send : Sends])
    /\ flights \subseteq [request : Requests, replay : BOOLEAN, aborted : BOOLEAN]
    /\ active \in Sends \cup {None}
    /\ {loading, replaying, timer, online} \subseteq BOOLEAN
    /\ {session, saved} \subseteq {"none", "empty", "full"} /\ reloads \in 0..MaxReloads

(* The spinner turns exactly while the controller in the ref belongs to a  *)
(* request that is still going to answer, through aborts that settle late, *)
(* replays and new sends taking the ref over (useChat's finally blocks).   *)
SpinnerHasRequest ==
    /\ loading <=> active # None
    /\ {f.request.send : f \in {g \in flights : ~g.aborted}} = {active} \ {None}

(* Two answers never race to move the machine: whatever mix of sends,      *)
(* replays and cancels is under way, at most one call can still answer,    *)
(* and a replay loop has at most one call of its own and only while the    *)
(* replaying flag keeps a second loop out.                                 *)
OneAnswerToCome ==
    /\ Cardinality({f \in flights : ~f.aborted}) <= 1
    /\ Cardinality({f \in flights : f.replay}) <= 1
    /\ (\E f \in flights : f.replay) <=> replaying

(* In one page load no message is answered twice, although the same        *)
(* message can be in the queue, in IndexedDB and in flight.                *)
AnsweredOncePerLoad == \A s \in Sends : answers[s] <= 1

(* A record leaves IndexedDB only when its message was answered or marked  *)
(* failed, so a reload at any moment cannot lose a queued message.         *)
RecordOutlivesSend ==
    [][\A i \in DOMAIN idb :
          (\A j \in DOMAIN idb' : idb'[j].send # idb[i].send)
              => status[idb[i].send] \in {"sent", "failed"}]_chatVars

(* The spinner always stops.                                               *)
SpinnerStops == loading ~> ~loading

(* If the connection keeps dropping and coming back, the offline queue     *)
(* empties again and again.                                                *)
QueueServed == []<>~online => []<>(queue = <<>>)

=============================================================================

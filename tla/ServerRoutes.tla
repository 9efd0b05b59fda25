---------------------------- MODULE ServerRoutes ----------------------------
(***************************************************************************)
(* The server's rate-limited handlers: the in-memory window of             *)
(* lib/rateLimit.ts, the routes of app/api behind it and the spans of      *)
(* lib/telemetry.ts they open.  A handler is split where it waits for the  *)
(* payout provider, so requests of several clients overlap.                *)
(***************************************************************************)
EXTENDS Integers, FiniteSets

CONSTANTS Ips,           \* clients
          ApiRoutes,     \* routes of the instance
          RouteLimit,    \* maxRequests of each route
          WindowMs,      \* windowMs, 60 000 in the code
          MaxClock,      \* time the model runs for
          MaxCalls       \* requests made

KnownRoutes == {"banks", "verify-account", "create-recipient",
                "initiate-transfer", "events", "transfer-status"}

ASSUME ServerAssumption ==
  /\ ApiRoutes \subseteq KnownRoutes
  /\ DOMAIN RouteLimit = ApiRoutes
  /\ \A r \in ApiRoutes : RouteLimit[r] \in Nat \ {0}
  /\ WindowMs \in Nat \ {0} /\ MaxClock \in Nat /\ MaxCalls \in Nat

(* Routes that open a span                                                 *)
Traced == {"banks", "verify-account", "create-recipient", "initiate-transfer"}

NoWindow == [count |-> 0, windowStart |-> 0]

VARIABLES
  clock,        \* Date.now()
  windows,      \* the limiter's store, by client and route
  handling,      \* requests past the limiter whose handler is waiting
  activeSpans,  \* ids of the spans telemetry holds
  log           \* every request: client, route, time, admitted or not

serverVars == <<clock, windows, handling, activeSpans, log>>

ServerInit ==
  /\ clock = 0
  /\ windows = [k \in Ips \X ApiRoutes |-> NoWindow]
  /\ handling = {} /\ activeSpans = {} /\ log = {}

(* applyRateLimit: a fresh window, or one more in the window there is      *)
Expired(w) == w.count = 0 \/ clock - w.windowStart >= WindowMs

ApplyProlonging(w) ==      \* a wrong ApplyRateLimit: each request moves the window on
  IF Expired(w) THEN [count |-> 1, windowStart |-> clock]
                ELSE [count |-> w.count + 1, windowStart |-> clock]

ApplyRateLimit(w) ==
  IF Expired(w) THEN [count |-> 1, windowStart |-> clock]
                ELSE [w EXCEPT !.count = w.count + 1]

(* A request: its client's address and its route name its window.          *)
Arrive(ip, route) ==
  LET id == Cardinality(log) + 1
      w  == ApplyRateLimit(windows[<<ip, route>>])
      ok == w.count <= RouteLimit[route]
  IN /\ id <= MaxCalls
     /\ windows' = [windows EXCEPT ![<<ip, route>>] = w]
     /\ log' = log \cup {[id |-> id, ip |-> ip, route |-> route,
                          at |-> clock, ok |-> ok]}
     /\ IF ok
          THEN /\ handling' = handling \cup {[id |-> id, route |-> route]}
               /\ activeSpans' = activeSpans \cup (IF route \in Traced
                                                   THEN {id} ELSE {})
          ELSE UNCHANGED <<handling, activeSpans>>
     /\ UNCHANGED clock

(* A handler returns, having called finishSpan or not.                     *)
Returns(c, finished) ==
  /\ handling' = handling \ {c}
  /\ activeSpans' = IF finished THEN activeSpans \ {c.id} ELSE activeSpans
  /\ UNCHANGED <<clock, windows, log>>

(* 400: the body or the query does not pass the route's schema.            *)
Invalid(c) == Returns(c, TRUE)

(* /api/banks: six banks without a key, Paystack's list, or ten banks when *)
(* Paystack fails; every one of them a 200.                                *)
BanksListed(c)   == c.route = "banks" /\ Returns(c, TRUE)
BanksFallback(c) == c.route = "banks" /\ Returns(c, TRUE)

(* /api/verify-account: 200, or 400 and 500                                *)
AccountVerified(c) == c.route = "verify-account" /\ Returns(c, TRUE)
VerifyFails(c)     == c.route = "verify-account" /\ Returns(c, TRUE)

(* /api/create-recipient and /api/initiate-transfer: their only reachable  *)
(* 200 leaves the span open, 400 and 500 close it.                         *)
RecipientCreated(c) == c.route = "create-recipient" /\ Returns(c, FALSE)
RecipientFails(c)   == c.route = "create-recipient" /\ Returns(c, TRUE)
TransferStarted(c)  == c.route = "initiate-transfer" /\ Returns(c, FALSE)
TransferFails(c)    == c.route = "initiate-transfer" /\ Returns(c, TRUE)

(* /api/events and /api/transfer-status open no span.                      *)
EventsRead(c) == c.route = "events" /\ Returns(c, TRUE)
StatusRead(c) == c.route = "transfer-status" /\ Returns(c, TRUE)

Serves(c) ==
  \/ Invalid(c)
  \/ BanksListed(c) \/ BanksFallback(c)
  \/ AccountVerified(c) \/ VerifyFails(c)
  \/ RecipientCreated(c) \/ RecipientFails(c)
  \/ TransferStarted(c) \/ TransferFails(c)
  \/ EventsRead(c) \/ StatusRead(c)

ClockTicks ==
  /\ clock < MaxClock
  /\ clock' = clock + 1
  /\ UNCHANGED <<windows, handling, activeSpans, log>>

ServerNext ==
  \/ \E ip \in Ips, route \in ApiRoutes : Arrive(ip, route)
  \/ \E c \in handling : Serves(c)
  \/ ClockTicks

ServerSpec == ServerInit /\ [][ServerNext]_serverVars

(***************************************************************************)
(* Properties                                                              *)
(***************************************************************************)
(* The limiter's state and the requests are of their shapes.               *)
ServerTypeOK ==
  /\ clock \in 0 .. MaxClock
  /\ windows \in [Ips \X ApiRoutes -> [count : 0 .. MaxCalls,
                                       windowStart : 0 .. MaxClock]]
  /\ log \subseteq [id : 1 .. MaxCalls, ip : Ips, route : ApiRoutes,
                    at : 0 .. MaxClock, ok : BOOLEAN]
  /\ \A c \in handling : \E e \in log : e.id = c.id /\ e.ok
  /\ activeSpans \subseteq 1 .. MaxCalls

LetThrough(ip, route, from, to) ==
  {e \in log : e.ip = ip /\ e.route = route /\ e.ok /\ e.at >= from /\ e.at < to}

(* A client is refused only when it had the route's full number of         *)
(* requests admitted less than a window ago: refusals do not prolong a     *)
(* refusal, nor do other clients or routes cause one (rateLimit.ts:50-80). *)
RefusalEarned ==
  \A e \in log :
    e.ok \/ Cardinality({f \in LetThrough(e.ip, e.route, e.at - WindowMs + 1, e.at + 1) :
                           f.id < e.id}) >= RouteLimit[e.route]

=============================================================================

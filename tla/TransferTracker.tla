-------------------------- MODULE TransferTracker --------------------------
(***************************************************************************)
(* What the API routes remember of a fiat payout: the status store, the    *)
(* set of cancelled references, the webhook replay cache and the event     *)
(* streams of the pages (app/api/initiate-transfer, webhook,               *)
(* transfer-status/[reference], payment-status/stream and the libraries    *)
(* they share).  All of it lives in the memory of one server process.      *)
(*                                                                         *)
(* The payout provider is external: it moves a transfer along and delivers *)
(* its events at least once, in any order, until the process is told.      *)
(***************************************************************************)
EXTENDS Naturals, FiniteSets

CONSTANTS Sessions,      \* client session ids
          MaxTransfers,  \* transfers the provider makes
          MaxRestarts    \* restarts of the server process

Refs == 1 .. MaxTransfers
NoFeed == 0

ASSUME TrackerAssumption ==
  /\ MaxTransfers \in Nat /\ MaxRestarts \in Nat
  /\ Sessions # {} /\ NoFeed \notin Sessions

NoRecord == [status |-> "none", session |-> NoFeed]
Final == {"success", "failed", "reversed"}

VARIABLES
  provider,   \* per reference: what the provider has done with the transfer
  owner,      \* the session named in the request that made the transfer
  starting,   \* references whose initiate-transfer handler has its answer
  store,      \* transferStore
  cancelled,  \* cancelledTransfers
  seen,       \* keys of the replay cache
  hooks,      \* events the provider may still deliver
  feed,       \* per session: how useChat learns of statuses
  shown,      \* per session: the last status useChat shows
  restarts

trackerVars == <<provider, owner, starting, store, cancelled, seen, hooks,
                 feed, shown, restarts>>
pages == <<feed, shown>>

NoStatus == [ref |-> 0, status |-> "none"]

TrackerInit ==
  /\ provider = [r \in Refs |-> "none"]
  /\ owner = [r \in Refs |-> NoFeed]
  /\ starting = {}
  /\ store = [r \in Refs |-> NoRecord]
  /\ cancelled = {}
  /\ seen = {}
  /\ hooks = {}
  /\ feed = [s \in Sessions |-> "sse"]
  /\ shown = [s \in Sessions |-> NoStatus]
  /\ restarts = 0

Made == {r \in Refs : provider[r] # "none"}
NextRef == Cardinality(Made) + 1

(* POST initiate-transfer up to the provider's answer: the provider makes  *)
(* the transfer under a fresh reference.  "answered" goes on to Record;    *)
(* "lost" throws, so the route answers 500 and stores nothing.             *)
Initiate(s, outcome) ==
  /\ NextRef \in Refs
  /\ provider' = [provider EXCEPT ![NextRef] = "sent"]
  /\ owner' = [owner EXCEPT ![NextRef] = s]
  /\ starting' = IF outcome = "answered" THEN starting \cup {NextRef}
                                         ELSE starting
  /\ UNCHANGED <<store, cancelled, seen, hooks, pages, restarts>>

RecordedPaid(r, s) ==      \* a wrong Recorded: a transfer accepted is taken for one made
  [store EXCEPT ![r] = [status |-> "success", session |-> s]]

(* ... and after it: the record is written whatever the store holds by now *)
Recorded(r, s) == [store EXCEPT ![r] = [status |-> "pending", session |-> s]]

Record(r) ==
  /\ r \in starting
  /\ starting' = starting \ {r}
  /\ store' = Recorded(r, owner[r])
  /\ UNCHANGED <<provider, owner, cancelled, seen, hooks, pages, restarts>>

(* external: the provider settles or reverses a transfer and owes an event *)
Hook(r, event, ids) == [ref |-> r, event |-> event, id |-> ids]

ProviderMoves(r) ==
  \E to \in Final, ids \in BOOLEAN :
    /\ \/ provider[r] = "sent" /\ to # "reversed"
       \/ provider[r] = "success" /\ to = "reversed"
    /\ provider' = [provider EXCEPT ![r] = to]
    /\ hooks' = hooks \cup {Hook(r, to, ids)}
    /\ UNCHANGED <<owner, starting, store, cancelled, seen, pages, restarts>>

(* The replay key is the event's id, or the reference when it has none.    *)
Key(h) == IF h.id THEN <<h.ref, h.event>> ELSE <<h.ref, "reference">>

EveryoneListening(s) == {t \in Sessions : feed[t] = "sse"}   \* a wrong Listening: no filter

(* publishPaymentStatus: every open stream of the record's session hears   *)
(* it; a record of no session is published to nobody.                      *)
Listening(s) == {t \in Sessions : t = s /\ feed[t] = "sse"}

Published(s, r, status) ==
  [t \in Sessions |-> IF t \in Listening(s) THEN [ref |-> r, status |-> status]
                                            ELSE shown[t]]

(* POST webhook with a verified signature: a remembered key is answered    *)
(* and ignored, otherwise it is remembered first and then processed.  The  *)
(* provider may deliver the event again.                                   *)
Webhook(h) ==
  /\ h \in hooks
  /\ Key(h) \notin seen
  /\ seen' = seen \cup {Key(h)}
  /\ LET s == store[h.ref].session
     IN /\ store' = [store EXCEPT ![h.ref] = [status |-> h.event, session |-> s]]
        /\ shown' = Published(s, h.ref, h.event)
  /\ UNCHANGED <<provider, owner, starting, cancelled, hooks, feed, restarts>>

WebhookDone(h) ==
  /\ h \in hooks
  /\ Key(h) \in seen
  /\ hooks' = hooks \ {h}
  /\ UNCHANGED <<provider, owner, starting, store, cancelled, seen, pages,
                 restarts>>

(* pruneReplayCache: a key leaves by age or because the cache is full      *)
KeyForgotten(k) ==
  /\ k \in seen
  /\ seen' = seen \ {k}
  /\ UNCHANGED <<provider, owner, starting, store, cancelled, hooks, pages,
                 restarts>>

(* POST transfer-status/[reference]: anybody who knows the reference       *)
Cancel(r) ==
  /\ r \in Made
  /\ cancelled' = cancelled \cup {r}
  /\ store' = [store EXCEPT ![r] = [status |-> "cancelled", session |-> store[r].session]]
  /\ UNCHANGED <<provider, owner, starting, seen, hooks, pages, restarts>>

(* GET transfer-status/[reference]                                         *)
StatusOf(r) ==
  IF r \in cancelled THEN "cancelled"
  ELSE IF store[r] # NoRecord THEN store[r].status ELSE "pending"

(* useChat: the stream broke once, so it polls the reference of the        *)
(* pending transaction, one of its own, every three seconds.               *)
Poll(s, r) ==
  /\ feed[s] = "poll"
  /\ owner[r] = s
  /\ shown' = [shown EXCEPT ![s] = [ref |-> r, status |-> StatusOf(r)]]
  /\ UNCHANGED <<provider, owner, starting, store, cancelled, seen, hooks,
                 feed, restarts>>

StreamBreaks(s) ==
  /\ feed[s] = "sse"
  /\ feed' = [feed EXCEPT ![s] = "poll"]
  /\ UNCHANGED <<provider, owner, starting, store, cancelled, seen, hooks,
                 shown, restarts>>

(* the effect runs again when the page shows another chat session          *)
StreamOpens(s) ==
  /\ feed[s] = "poll"
  /\ feed' = [feed EXCEPT ![s] = "sse"]
  /\ UNCHANGED <<provider, owner, starting, store, cancelled, seen, hooks,
                 shown, restarts>>

(* the process restarts: its memory and its connections are gone           *)
Restart ==
  /\ restarts < MaxRestarts
  /\ restarts' = restarts + 1
  /\ starting' = {}
  /\ store' = [r \in Refs |-> NoRecord]
  /\ cancelled' = {}
  /\ seen' = {}
  /\ feed' = [s \in Sessions |-> "poll"]
  /\ UNCHANGED <<provider, owner, hooks, shown>>

TrackerNext ==
  \/ \E s \in Sessions, o \in {"answered", "lost"} : Initiate(s, o)
  \/ \E r \in Refs : Record(r) \/ ProviderMoves(r) \/ Cancel(r)
  \/ \E h \in hooks : Webhook(h) \/ WebhookDone(h)
  \/ \E k \in seen : KeyForgotten(k)
  \/ \E s \in Sessions, r \in Refs : Poll(s, r)
  \/ \E s \in Sessions : StreamBreaks(s) \/ StreamOpens(s)
  \/ Restart

TrackerSpec == TrackerInit /\ [][TrackerNext]_trackerVars

(***************************************************************************)
(* Properties                                                              *)
(***************************************************************************)
(* The server's tables and the pages' status are of their shapes.          *)
TrackerTypeOK ==
  /\ provider \in [Refs -> {"none", "sent"} \cup Final]
  /\ owner \in [Refs -> Sessions \cup {NoFeed}]
  /\ starting \subseteq Refs /\ cancelled \subseteq Refs
  /\ store \in [Refs -> [status : {"none", "pending", "cancelled"} \cup Final,
                         session : Sessions \cup {NoFeed}]]
  /\ \A h \in hooks : h.ref \in Refs /\ h.event \in Final /\ h.id \in BOOLEAN
  /\ feed \in [Sessions -> {"sse", "poll"}]
  /\ restarts \in 0 .. MaxRestarts

(* A page is shown the status of its own session's transfers only: the     *)
(* session id travels from the initiate request through the stored record  *)
(* to the publication of a later webhook, through cancellations, races     *)
(* with the record and restarts (initiate-transfer/route.ts:68-107,        *)
(* webhook/route.ts:170-197, paymentStatusEvents.ts:36-50).                *)
OwnStatusOnly ==
  \A s \in Sessions : shown[s].ref # 0 => owner[shown[s].ref] = s

(* No outcome that the server stores, or publishes to a chat page, is      *)
(* invented: the success, failure or reversal was reached by the provider, *)
(* however late, often or out of order its events came                     *)
(* (webhook/route.ts:168-266).                                             *)
Reached(r, status) ==
  /\ status = "success" => provider[r] \in {"success", "reversed"}
  /\ status \in {"failed", "reversed"} => provider[r] = status

OutcomesAreReal ==
  /\ \A r \in Refs : Reached(r, store[r].status)
  /\ \A s \in Sessions : shown[s].ref # 0 => Reached(shown[s].ref, shown[s].status)

=============================================================================

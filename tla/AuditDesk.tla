------------------------------ MODULE AuditDesk ------------------------------
(***************************************************************************)
(* The audit table (components/AuditTable.tsx) over the shared queue of    *)
(* reads (lib/networkQueue.ts) and the connection watch                    *)
(* (hooks/useOnlineStatus.ts).  Every change of the query aborts the fetch *)
(* before it; a fetch that finds no network waits in the queue and is run  *)
(* again when the browser is back online or another read completes.        *)
(***************************************************************************)
EXTENDS Naturals, Sequences, SequencesExt

CONSTANTS Queries,     \* filter, page and sort together: 1 is the first one
          MaxFetches,  \* fetches issued
          MaxRetry     \* MAX_RETRY

ASSUME AuditAssumption ==
  1 \in Queries /\ MaxFetches \in Nat \ {0} /\ MaxRetry \in Nat \ {0}

NoRead == [id |-> 0, query |-> 0, tries |-> 0]

VARIABLES
  query, tableRows,          \* what is asked for, the query the rows answer
  tableLoading, fetchFailed,
  reads,                \* fetches under way outside the queue
  deskQueue, serving,       \* the module's queue and the request it is running
  latest,               \* id of the fetch fetchAbortRef controls
  navigatorOnline,      \* navigator.onLine
  deskOnline, pings       \* useOnlineStatus and its checks under way

auditVars == <<query, tableRows, tableLoading, fetchFailed, reads, deskQueue, serving, latest,
               navigatorOnline, deskOnline, pings>>
watch == <<navigatorOnline, deskOnline, pings>>

(* Mounting fetches the first query.                                       *)
AuditInit ==
  /\ query = 1 /\ tableRows = 0 /\ tableLoading = TRUE /\ fetchFailed = FALSE
  /\ reads = {[id |-> 1, query |-> 1, tries |-> 0]}
  /\ deskQueue = <<>> /\ serving = NoRead /\ latest = 1
  /\ navigatorOnline = TRUE /\ deskOnline = TRUE /\ pings = 0

Aborted(r) == r.id # latest

(* processQueue: nothing while it runs already or the browser is offline   *)
ServeQueued(q, online) ==
  IF serving # NoRead \/ ~online \/ q = <<>>
    THEN deskQueue' = q /\ UNCHANGED serving
    ELSE deskQueue' = Tail(q) /\ serving' = Head(q)

(* ... and its loop after a request settled                                *)
ServeNext ==
  IF deskQueue = <<>> THEN serving' = NoRead /\ UNCHANGED deskQueue
                  ELSE serving' = Head(deskQueue) /\ deskQueue' = Tail(deskQueue)

(* fetchAuditEntries: abort the one before, then withNetworkReadQueue      *)
Fetch(q) ==
  LET r == [id |-> latest + 1, query |-> q, tries |-> 0]
  IN /\ latest < MaxFetches
     /\ latest' = latest + 1
     /\ tableLoading' = TRUE /\ fetchFailed' = FALSE
     /\ IF navigatorOnline THEN reads' = reads \cup {r} /\ UNCHANGED deskQueue
                           ELSE deskQueue' = Append(deskQueue, r) /\ UNCHANGED reads
     /\ UNCHANGED serving

(* the filter, reset, sort and page handlers and the effect they trigger   *)
AskPage(q) ==
  /\ q # query
  /\ query' = q
  /\ Fetch(q)
  /\ UNCHANGED <<tableRows, watch>>

(* what the table does with a settled fetch of its own                     *)
Shows(r) ==
  /\ tableRows' = r.query
  /\ tableLoading' = IF Aborted(r) THEN tableLoading ELSE FALSE
  /\ UNCHANGED fetchFailed

Complains(r) ==
  /\ fetchFailed' = TRUE
  /\ tableLoading' = IF Aborted(r) THEN tableLoading ELSE FALSE
  /\ UNCHANGED tableRows

Ignores == UNCHANGED <<tableRows, tableLoading, fetchFailed>>

(* A fetch outside the queue: an abort rejects it, unless the browser is   *)
(* offline, where every error counts as a network error.                   *)
ReadSettles(r) ==
  /\ r \in reads
  /\ reads' = reads \ {r}
  /\ \/ ~Aborted(r) /\ Shows(r) /\ ServeQueued(deskQueue, navigatorOnline)
     \/ ~Aborted(r) /\ Complains(r) /\ ServeQueued(deskQueue, navigatorOnline)
     \/ Aborted(r) /\ navigatorOnline /\ Ignores /\ ServeQueued(deskQueue, navigatorOnline)
     \/ /\ Aborted(r) => ~navigatorOnline
        /\ Ignores
        /\ ServeQueued(Append(deskQueue, [r EXCEPT !.tries = 1]), navigatorOnline)
  /\ UNCHANGED <<query, latest, watch>>

(* A request of the queue: a network error sends it to the end and stops   *)
(* the loop, until it was tried MAX_RETRY times.                           *)
ServedSettles ==
  LET r == serving
  IN /\ r # NoRead
     /\ \/ ~Aborted(r) /\ Shows(r) /\ ServeNext
        \/ ~Aborted(r) /\ Complains(r) /\ ServeNext
        \/ /\ Aborted(r)
           /\ navigatorOnline \/ r.tries >= MaxRetry
           /\ Ignores /\ ServeNext
        \/ /\ r.tries < MaxRetry
           /\ Aborted(r) => ~navigatorOnline
           /\ deskQueue' = Append(deskQueue, [r EXCEPT !.tries = r.tries + 1])
           /\ serving' = NoRead
           /\ Ignores
     /\ UNCHANGED <<query, latest, reads, watch>>

GoesOffline ==
  /\ navigatorOnline
  /\ navigatorOnline' = FALSE /\ deskOnline' = FALSE
  /\ UNCHANGED <<query, tableRows, tableLoading, fetchFailed, reads, deskQueue, serving, latest,
                 pings>>

(* the online event: the queue's listener and useOnlineStatus's check      *)
GoesOnline ==
  /\ ~navigatorOnline /\ pings = 0
  /\ navigatorOnline' = TRUE
  /\ pings' = pings + 1
  /\ ServeQueued(deskQueue, TRUE)
  /\ UNCHANGED <<query, tableRows, tableLoading, fetchFailed, reads, latest, deskOnline>>

(* verifyConnectivity answers; coming back refreshes the table             *)
PingAnswers(reached) ==
  /\ pings > 0
  /\ pings' = pings - 1
  /\ deskOnline' = reached
  /\ IF reached /\ ~deskOnline
       THEN Fetch(query)
       ELSE UNCHANGED <<reads, deskQueue, serving, latest, tableLoading, fetchFailed>>
  /\ UNCHANGED <<query, tableRows, navigatorOnline>>

AuditNext ==
  \/ \E q \in Queries : AskPage(q)
  \/ \E r \in reads : ReadSettles(r)
  \/ ServedSettles \/ GoesOffline \/ GoesOnline
  \/ \E reached \in BOOLEAN : PingAnswers(reached)

AuditSpec == AuditInit /\ [][AuditNext]_auditVars

(***************************************************************************)
(* Properties                                                              *)
(***************************************************************************)
(* The table's state and its requests are of their shapes.                 *)
AuditTypeOK ==
  /\ query \in Queries /\ tableRows \in Queries \cup {0}
  /\ tableLoading \in BOOLEAN /\ fetchFailed \in BOOLEAN
  /\ \A r \in reads \cup Range(deskQueue) :
       r.id \in 1 .. MaxFetches /\ r.query \in Queries /\ r.tries \in 0 .. MaxRetry
  /\ latest \in 1 .. MaxFetches /\ pings \in 0 .. 1

(* When the table is neither loading nor in error, its rows are those of   *)
(* the filter, page and order it shows, although fetches are aborted,      *)
(* queued offline, retried by the shared queue and answered in any order   *)
(* (AuditTable.tsx:74-137, networkQueue.ts:50-83, 115-163).                *)
RowsMatchQuery == (~tableLoading /\ ~fetchFailed) => tableRows = query

=============================================================================

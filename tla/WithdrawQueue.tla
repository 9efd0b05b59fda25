---------------------------- MODULE WithdrawQueue ----------------------------
(***************************************************************************)
(* The withdrawal queue FiatBridge keeps in contract storage: the pending  *)
(* requests (WithdrawQueue(id) entries), the id counter NextRequestID, the *)
(* cached length and head of the whole queue, and a cached length and head *)
(* per risk tier.  The caches are never recomputed from the entries, so    *)
(* they are right only if every insertion and removal keeps them right.    *)
(***************************************************************************)
EXTENDS Integers, FiniteSets, Functions

CONSTANTS
    Users,          \* depositors and withdrawal recipients
    Tiers,          \* risk tiers a request may carry (u32 values)
    MaxTierScan     \* get_next_priority_withdrawal looks at no tier above it

ASSUME TiersAssumption == Tiers \subseteq Nat /\ Tiers # {} /\ MaxTierScan \in Nat

None == -1          \* Option::None where the value is a ledger, an id or a limit

EmptyQueue ==
    [req      |-> [i \in {} |-> None],
     nextId   |-> 0,
     len      |-> 0,
     head     |-> None,
     tierLen  |-> [t \in Tiers |-> 0],
     tierHead |-> [t \in Tiers |-> None]]

Request == [to : Users, amount : Nat \ {0}, unlock : Nat, queued : Nat, tier : Tiers]

Pending(q) == DOMAIN q.req
PendingIn(q, t) == {i \in Pending(q) : q.req[i].tier = t}

Oldest(ids) == CHOOSE i \in ids : \A j \in ids : i <= j

OldestOrNone(ids) == IF ids = {} THEN None ELSE Oldest(ids)

EnqueueAsHead(q, r) ==      \* a wrong Enqueue: the newest request becomes the head
    LET id == q.nextId IN
    [req      |-> [i \in Pending(q) \cup {id} |-> IF i = id THEN r ELSE q.req[i]],
     nextId   |-> id + 1,
     len      |-> q.len + 1,
     head     |-> id,
     tierLen  |-> [q.tierLen EXCEPT ![r.tier] = @ + 1],
     tierHead |-> [q.tierHead EXCEPT ![r.tier] = id]]

(* request_withdrawal: append r under the next id.  A head is written only *)
(* when the cached length says the (tier) queue was empty.                 *)
Enqueue(q, r) ==
    LET id == q.nextId IN
    [req      |-> [i \in Pending(q) \cup {id} |-> IF i = id THEN r ELSE q.req[i]],
     nextId   |-> id + 1,
     len      |-> q.len + 1,
     head     |-> IF q.len = 0 THEN id ELSE q.head,
     tierLen  |-> [q.tierLen EXCEPT ![r.tier] = @ + 1],
     tierHead |-> IF q.tierLen[r.tier] = 0
                  THEN [q.tierHead EXCEPT ![r.tier] = id]
                  ELSE q.tierHead]

AdvanceByOne(head, removed, len, survivors) ==      \* a wrong Advance: no scan
    IF head # removed THEN head ELSE IF len = 0 THEN None ELSE removed + 1

(* advance_withdraw_queue_head and advance_tier_queue_head: nothing to do  *)
(* unless the head itself was removed; then scan upwards from it among the *)
(* surviving ids of the queue (of the tier).                               *)
Advance(head, removed, len, survivors) ==
    IF head # removed THEN head
    ELSE IF len = 0 THEN None
    ELSE OldestOrNone({i \in survivors : i > removed})

DequeueKeepsEntry(q, id) ==     \* a wrong Dequeue: the entry survives its removal
    [q EXCEPT !.len = IF @ > 0 THEN @ - 1 ELSE @]

(* The removal that a full execution, a cancellation and a reclaim share.  *)
Dequeue(q, id) ==
    LET tier   == q.req[id].tier
        req    == Restrict(q.req, Pending(q) \ {id})
        len    == IF q.len > 0 THEN q.len - 1 ELSE q.len
        inTier == IF q.tierLen[tier] > 0 THEN q.tierLen[tier] - 1 ELSE q.tierLen[tier]
    IN  [q EXCEPT !.req = req,
                  !.len = len,
                  !.head = Advance(@, id, len, DOMAIN req),
                  !.tierLen[tier] = inTier,
                  !.tierHead[tier] =
                      Advance(@, id, inTier, {i \in DOMAIN req : req[i].tier = tier})]

ShrinkNotStored(q, id, paid) == q       \* a wrong Shrink

(* A partial execution: the entry stays where it is with a smaller amount. *)
Shrink(q, id, paid) == [q EXCEPT !.req[id].amount = @ - paid]

(* get_next_priority_withdrawal: the head of the lowest non-empty tier the *)
(* scan reaches; its bound is the number of ids allocated so far.          *)
NextPriority(q) ==
    LET bound   == IF q.nextId < MaxTierScan THEN q.nextId ELSE MaxTierScan
        scanned == {t \in Tiers : /\ t <= bound
                                  /\ q.tierLen[t] # 0
                                  /\ q.tierHead[t] # None}
    IN  IF scanned = {} THEN None ELSE q.tierHead[Oldest(scanned)]

-----------------------------------------------------------------------------
Optional == Nat \cup {None}

(* The type of the stored queue; ids are handed out in increasing order.   *)
IsQueue(q) ==
    /\ q = [req |-> q.req, nextId |-> q.nextId, len |-> q.len, head |-> q.head,
            tierLen |-> q.tierLen, tierHead |-> q.tierHead]
    /\ q.nextId \in Nat /\ q.len \in Nat /\ q.head \in Optional
    /\ q.req \in [Pending(q) -> Request] /\ Pending(q) \subseteq 0..(q.nextId - 1)
    /\ q.tierLen \in [Tiers -> Nat] /\ q.tierHead \in [Tiers -> Optional]

(* The cached lengths and heads say what a scan of the entries would.      *)
Coherent(q) ==
    /\ q.len = Cardinality(Pending(q))
    /\ q.head = OldestOrNone(Pending(q))
    /\ \A t \in Tiers : /\ q.tierLen[t] = Cardinality(PendingIn(q, t))
                        /\ q.tierHead[t] = OldestOrNone(PendingIn(q, t))

(* `total` is the sum of the pending amounts, stated by the running totals *)
(* below each id, which never fall.                                        *)
Owes(q, i) == IF i \in Pending(q) THEN q.req[i].amount ELSE 0

RunningTotals(q, total, below) ==
    /\ below[0] = 0 /\ below[q.nextId] = total
    /\ \A i \in 0..(q.nextId - 1) : below[i + 1] = below[i] + Owes(q, i)
    /\ \A i, j \in 0..q.nextId : i <= j => below[i] <= below[j]

Backed(q, total) ==
    \E below \in [0..q.nextId -> 0..total] : RunningTotals(q, total, below)
=============================================================================

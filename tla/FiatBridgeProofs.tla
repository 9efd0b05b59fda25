--------------------------- MODULE FiatBridgeProofs ---------------------------
(***************************************************************************)
(* The operations of the withdrawal queue keep its type and keep its       *)
(* caches equal to what a scan of the entries gives, for any tiers and any *)
(* number of requests.  FiatBridge keeps its types, its books, its         *)
(* reservations and its queue caches in every reachable state, for any     *)
(* users, amounts, tiers, settings and number of ledgers.                  *)
(***************************************************************************)
EXTENDS FiatBridge, FiniteSetTheorems, WellFoundedInduction, TLAPS

(* Oldest, a CHOOSE, names the least id of any non-empty set of ids.       *)
LEMMA OldestIsLeast ==
    ASSUME NEW S \in SUBSET Nat, S # {}
    PROVE  Oldest(S) \in S /\ \A j \in S : Oldest(S) <= j
<1>1. PICK x \in S : \A y \in S : ~(<<y, x>> \in OpToRel(<, Nat))
  BY NatLessThanWellFounded, WFMin
<1>2. \A y \in S : ~(y < x)
  BY <1>1 DEF OpToRel
<1>3. x \in S /\ \A y \in S : x <= y
  BY <1>2
<1> QED BY <1>3 DEF Oldest

(* Nothing else is least.                                                  *)
LEMMA OldestIsUnique ==
    ASSUME NEW S \in SUBSET Nat, NEW x \in S, \A j \in S : x <= j
    PROVE  Oldest(S) = x
<1>1. Oldest(S) \in S /\ Oldest(S) <= x
  BY OldestIsLeast
<1>2. x <= Oldest(S) /\ x \in Nat /\ Oldest(S) \in Nat
  BY <1>1
<1> QED BY <1>1, <1>2

(* The ids of a stored queue are naturals and finitely many.               *)
LEMMA PendingIsFinite ==
    ASSUME NEW q, IsQueue(q)
    PROVE  /\ Pending(q) \subseteq Nat /\ IsFiniteSet(Pending(q))
           /\ \A t : PendingIn(q, t) \subseteq Nat /\ IsFiniteSet(PendingIn(q, t))
<1>1. Pending(q) \subseteq 0..(q.nextId - 1) /\ q.nextId \in Nat
  BY DEF IsQueue
<1>2. IsFiniteSet(0..(q.nextId - 1))
  BY <1>1, FS_Interval
<1>3. Pending(q) \subseteq Nat /\ IsFiniteSet(Pending(q))
  BY <1>1, <1>2, FS_Subset
<1>4. \A t : PendingIn(q, t) \subseteq Pending(q)
  BY DEF PendingIn
<1> QED BY <1>3, <1>4, FS_Subset

LEMMA OldestOrNoneType ==
    ASSUME NEW S \in SUBSET Nat
    PROVE  OldestOrNone(S) \in Optional
BY OldestIsLeast DEF OldestOrNone, Optional, None

-----------------------------------------------------------------------------
LEMMA EnqueueType ==
    ASSUME NEW q, IsQueue(q), NEW r \in Request
    PROVE  IsQueue(Enqueue(q, r))
<1> DEFINE e == Enqueue(q, r)
<1>1. /\ q.nextId \in Nat /\ q.len \in Nat /\ q.head \in Optional
      /\ q.req \in [Pending(q) -> Request] /\ Pending(q) \subseteq 0..(q.nextId - 1)
      /\ q.tierLen \in [Tiers -> Nat] /\ q.tierHead \in [Tiers -> Optional]
  BY DEF IsQueue
<1>2. r.tier \in Tiers
  BY DEF Request
<1>3. e.nextId = q.nextId + 1 /\ e.len = q.len + 1
  BY DEF Enqueue
<1>4. e.head \in Optional
  BY <1>1 DEF Enqueue, Optional
<1>5. e.tierLen \in [Tiers -> Nat] /\ e.tierHead \in [Tiers -> Optional]
  BY <1>1, <1>2 DEF Enqueue, Optional
<1>6. e.req = [i \in Pending(q) \cup {q.nextId} |-> IF i = q.nextId THEN r ELSE q.req[i]]
  BY DEF Enqueue
<1>7. Pending(e) = Pending(q) \cup {q.nextId}
  BY <1>6 DEF Pending
<1>8. e.req \in [Pending(e) -> Request]
  BY <1>1, <1>6, <1>7
<1>9. Pending(e) \subseteq 0..(e.nextId - 1)
  BY <1>1, <1>3, <1>7
<1>10. e = [req |-> e.req, nextId |-> e.nextId, len |-> e.len, head |-> e.head,
            tierLen |-> e.tierLen, tierHead |-> e.tierHead]
  BY DEF Enqueue
<1> HIDE DEF e
<1>11. IsQueue(e)
  BY <1>1, <1>3, <1>4, <1>5, <1>8, <1>9, <1>10 DEF IsQueue
<1> QED BY <1>11 DEF e

(* What Dequeue leaves in each field.                                      *)
Others(q, id) == Pending(q) \ {id}

OthersInTier(q, id) == {i \in Others(q, id) : q.req[i].tier = q.req[id].tier}

LeftInTier(q, id) ==
    LET n == q.tierLen[q.req[id].tier] IN IF n > 0 THEN n - 1 ELSE n

IsDequeued(e, q, id, t) ==
    /\ e = [req |-> e.req, nextId |-> e.nextId, len |-> e.len, head |-> e.head,
            tierLen |-> e.tierLen, tierHead |-> e.tierHead]
    /\ e.nextId = q.nextId
    /\ e.req = [i \in Others(q, id) |-> q.req[i]]
    /\ e.len = IF q.len > 0 THEN q.len - 1 ELSE q.len
    /\ e.head = Advance(q.head, id, e.len, Others(q, id))
    /\ e.tierLen = [q.tierLen EXCEPT ![t] = LeftInTier(q, id)]
    /\ e.tierHead = [q.tierHead EXCEPT ![t] =
          Advance(q.tierHead[t], id, LeftInTier(q, id), OthersInTier(q, id))]

LEMMA DequeueFields ==
    ASSUME NEW q, IsQueue(q), NEW id \in Pending(q)
    PROVE  IsDequeued(Dequeue(q, id), q, id, q.req[id].tier)
<1> DEFINE e == Dequeue(q, id)
           t == q.req[id].tier
           rest == Others(q, id)
           inTier == LeftInTier(q, id)
           ofTier == OthersInTier(q, id)
           newReq == [i \in rest |-> q.req[i]]
           newLen == IF q.len > 0 THEN q.len - 1 ELSE q.len
<1>1. q = [req |-> q.req, nextId |-> q.nextId, len |-> q.len, head |-> q.head,
           tierLen |-> q.tierLen, tierHead |-> q.tierHead]
  BY DEF IsQueue
<1>2. /\ q.req \in [Pending(q) -> Request] /\ t \in Tiers
      /\ q.tierHead \in [Tiers -> Optional]
  BY DEF IsQueue, Request
<1>3. Restrict(q.req, Pending(q) \ {id}) = newReq /\ DOMAIN newReq = rest
  BY DEF Restrict, Others
<1>4. {i \in rest : newReq[i].tier = t} = ofTier
  BY DEF OthersInTier
<1> HIDE DEF rest, t, newReq
<1>5. e = [q EXCEPT !.req = newReq, !.len = newLen,
                    !.head = Advance(@, id, newLen, rest),
                    !.tierLen[t] = inTier,
                    !.tierHead[t] = Advance(@, id, inTier, ofTier)]
  BY <1>3, <1>4 DEF Dequeue, LeftInTier, t
<1> HIDE DEF newLen, inTier, ofTier, e
<1>6. e = [req |-> newReq, nextId |-> q.nextId, len |-> newLen,
           head |-> Advance(q.head, id, newLen, rest),
           tierLen |-> [q.tierLen EXCEPT ![t] = inTier],
           tierHead |-> [q.tierHead EXCEPT ![t] = Advance(q.tierHead[t], id, inTier, ofTier)]]
  BY <1>1, <1>2, <1>5
<1>7. IsDequeued(e, q, id, t)
  BY <1>6 DEF IsDequeued, rest, newReq, newLen, inTier, ofTier
<1> QED BY <1>7 DEF e, t

LEMMA AdvanceType ==
    ASSUME NEW head \in Optional, NEW removed, NEW len, NEW S \in SUBSET Nat
    PROVE  Advance(head, removed, len, S) \in Optional
<1> DEFINE above == {i \in S : i > removed}
<1>1. OldestOrNone(above) \in Optional
  BY OldestOrNoneType
<1> QED BY <1>1 DEF Advance, Optional, None

LEMMA DequeueType ==
    ASSUME NEW q, IsQueue(q), NEW id \in Pending(q)
    PROVE  IsQueue(Dequeue(q, id))
<1> DEFINE e == Dequeue(q, id)
           t == q.req[id].tier
<1>1. IsDequeued(e, q, id, t)
  BY DequeueFields
<1> HIDE DEF e
<1>2. /\ q.nextId \in Nat /\ q.len \in Nat /\ q.head \in Optional
      /\ q.req \in [Pending(q) -> Request] /\ Pending(q) \subseteq 0..(q.nextId - 1)
      /\ q.tierLen \in [Tiers -> Nat] /\ q.tierHead \in [Tiers -> Optional]
      /\ t \in Tiers
  BY DEF IsQueue, Request
<1> HIDE DEF t
<1>3. Others(q, id) \subseteq Nat /\ OthersInTier(q, id) \subseteq Nat
  BY <1>2 DEF Others, OthersInTier
<1>4. LeftInTier(q, id) \in Nat
  BY <1>2 DEF LeftInTier, t
<1>5. e.len \in Nat /\ e.head \in Optional
  BY <1>1, <1>2, <1>3, AdvanceType DEF IsDequeued
<1>6. Advance(q.tierHead[t], id, LeftInTier(q, id), OthersInTier(q, id)) \in Optional
  BY <1>2, <1>3, AdvanceType
<1>7. e.tierLen \in [Tiers -> Nat] /\ e.tierHead \in [Tiers -> Optional]
  BY <1>1, <1>2, <1>4, <1>6 DEF IsDequeued
<1>8. e.req \in [Pending(e) -> Request] /\ Pending(e) \subseteq 0..(e.nextId - 1)
  BY <1>1, <1>2 DEF IsDequeued, Others, Pending
<1>9. IsQueue(e)
  BY <1>1, <1>2, <1>5, <1>7, <1>8 DEF IsDequeued, IsQueue
<1> QED BY <1>9 DEF e

(* What Shrink leaves in each field.                                       *)
IsShrunk(e, q, id, paid) ==
    /\ e = [req |-> e.req, nextId |-> e.nextId, len |-> e.len, head |-> e.head,
            tierLen |-> e.tierLen, tierHead |-> e.tierHead]
    /\ e.nextId = q.nextId /\ e.len = q.len /\ e.head = q.head
    /\ e.tierLen = q.tierLen /\ e.tierHead = q.tierHead
    /\ Pending(e) = Pending(q)
    /\ e.req = [q.req EXCEPT ![id] = [q.req[id] EXCEPT !.amount = q.req[id].amount - paid]]

LEMMA ShrinkFields ==
    ASSUME NEW q, IsQueue(q), NEW id \in Pending(q), NEW paid
    PROVE  IsShrunk(Shrink(q, id, paid), q, id, paid)
<1> DEFINE newReq == [q.req EXCEPT ![id] = [q.req[id] EXCEPT !.amount = q.req[id].amount - paid]]
           e == Shrink(q, id, paid)
<1>1. q = [req |-> q.req, nextId |-> q.nextId, len |-> q.len, head |-> q.head,
           tierLen |-> q.tierLen, tierHead |-> q.tierHead]
  BY DEF IsQueue
<1>2. e = [q EXCEPT !.req = newReq]
  BY <1>1 DEF Shrink
<1>3. DOMAIN newReq = Pending(q)
  BY DEF Pending
<1> HIDE DEF newReq, e
<1>4. e = [req |-> newReq, nextId |-> q.nextId, len |-> q.len, head |-> q.head,
           tierLen |-> q.tierLen, tierHead |-> q.tierHead]
  BY <1>1, <1>2
<1>5. IsShrunk(e, q, id, paid)
  BY <1>3, <1>4 DEF IsShrunk, Pending, newReq
<1> QED BY <1>5 DEF e

LEMMA ShrinkType ==
    ASSUME NEW q, IsQueue(q), NEW id \in Pending(q),
           NEW paid \in Nat, paid < q.req[id].amount
    PROVE  IsQueue(Shrink(q, id, paid))
<1> DEFINE e == Shrink(q, id, paid)
<1>1. IsShrunk(e, q, id, paid)
  BY ShrinkFields
<1> HIDE DEF e
<1>2. q.req \in [Pending(q) -> Request] /\ q.req[id] \in Request
  BY DEF IsQueue
<1>3. [q.req[id] EXCEPT !.amount = q.req[id].amount - paid] \in Request
  BY <1>2 DEF Request
<1>4. e.req \in [Pending(e) -> Request]
  BY <1>1, <1>2, <1>3 DEF IsShrunk
<1>5. IsQueue(e)
  BY <1>1, <1>4 DEF IsShrunk, IsQueue
<1> QED BY <1>5 DEF e

-----------------------------------------------------------------------------
(* Without the head, the next oldest; without another, the same head.      *)
LEMMA AdvanceIsOldest ==
    ASSUME NEW S \in SUBSET Nat, IsFiniteSet(S), NEW id \in S
    PROVE  Advance(OldestOrNone(S), id, Cardinality(S \ {id}), S \ {id})
               = OldestOrNone(S \ {id})
<1> DEFINE rest == S \ {id}
           least == Oldest(S)
<1>1. OldestOrNone(S) = least /\ least \in S /\ least \in Nat /\ \A j \in S : least <= j
  BY OldestIsLeast DEF OldestOrNone
<1>2. IsFiniteSet(rest) /\ (Cardinality(rest) = 0 <=> rest = {})
  BY FS_RemoveElement, FS_EmptySet
<1> HIDE DEF least
<1>3. CASE least # id
  <2>1. least \in rest /\ \A j \in rest : least <= j
    BY <1>1, <1>3
  <2>2. rest \in SUBSET Nat /\ rest # {}
    BY <2>1
  <2>3. Oldest(rest) = least
    BY <2>1, <2>2, OldestIsUnique
  <2> QED BY <1>1, <1>3, <2>2, <2>3 DEF Advance, OldestOrNone
<1>4. CASE least = id
  <2>0. ASSUME NEW i \in rest PROVE i > id
    <3>1. i \in Nat /\ id \in Nat /\ i # id /\ id <= i
      BY <1>1, <1>4
    <3> QED BY <3>1
  <2>1. {i \in rest : i > id} = rest
    BY <2>0, Zenon
  <2> QED BY <1>1, <1>2, <1>4, <2>1 DEF Advance, OldestOrNone
<1> QED BY <1>3, <1>4

THEOREM EnqueueCoherent ==
    ASSUME NEW q, IsQueue(q), Coherent(q), NEW r \in Request
    PROVE  Coherent(Enqueue(q, r))
<1> DEFINE e == Enqueue(q, r)
           n == q.nextId
<1>1. /\ n \in Nat /\ Pending(q) \subseteq 0..(n - 1) /\ r.tier \in Tiers
      /\ q.tierLen \in [Tiers -> Nat] /\ q.tierHead \in [Tiers -> Optional]
  BY DEF IsQueue, Request
<1>2. Pending(q) \subseteq Nat /\ IsFiniteSet(Pending(q))
  BY PendingIsFinite
<1>3. \A t : PendingIn(q, t) \subseteq Nat /\ IsFiniteSet(PendingIn(q, t))
  BY PendingIsFinite
<1>4. /\ e.req = [i \in Pending(q) \cup {n} |-> IF i = n THEN r ELSE q.req[i]]
      /\ e.len = q.len + 1
      /\ e.head = IF q.len = 0 THEN n ELSE q.head
      /\ e.tierLen = [q.tierLen EXCEPT ![r.tier] = q.tierLen[r.tier] + 1]
      /\ e.tierHead = IF q.tierLen[r.tier] = 0
                      THEN [q.tierHead EXCEPT ![r.tier] = n] ELSE q.tierHead
  BY DEF Enqueue
<1>5. Pending(e) = Pending(q) \cup {n}
  BY <1>4 DEF Pending
<1> HIDE DEF e
<1>6. n \notin Pending(q) /\ \A j \in Pending(q) : j <= n
  BY <1>1
<1>7. ASSUME NEW S \in SUBSET Nat, IsFiniteSet(S), S \subseteq Pending(q)
      PROVE  /\ Cardinality(S \cup {n}) = Cardinality(S) + 1
             /\ OldestOrNone(S \cup {n}) =
                  IF Cardinality(S) = 0 THEN n ELSE OldestOrNone(S)
  <2>1. Cardinality(S \cup {n}) = Cardinality(S) + 1
    BY <1>6, <1>7, FS_AddElement
  <2>2. CASE S = {}
    <3>1. Oldest({n}) = n
      BY <1>1, OldestIsUnique
    <3> QED BY <2>1, <2>2, <3>1, FS_EmptySet DEF OldestOrNone
  <2>3. CASE S # {}
    <3>1. Oldest(S) \in S /\ \A j \in S : Oldest(S) <= j
      BY <2>3, OldestIsLeast
    <3>2. Oldest(S) \in S \cup {n} /\ \A j \in S \cup {n} : Oldest(S) <= j
      BY <1>6, <1>7, <3>1
    <3>3. S \cup {n} \in SUBSET Nat
      BY <1>1
    <3>4. Oldest(S \cup {n}) = Oldest(S)
      BY <3>2, <3>3, OldestIsUnique
    <3>5. Cardinality(S) # 0
      BY <1>7, <2>3, FS_EmptySet
    <3> QED BY <2>1, <2>3, <3>4, <3>5 DEF OldestOrNone
  <2> QED BY <2>2, <2>3
<1>8. e.len = Cardinality(Pending(e)) /\ e.head = OldestOrNone(Pending(e))
  BY <1>2, <1>4, <1>5, <1>7 DEF Coherent
<1>9. ASSUME NEW t \in Tiers
      PROVE  /\ e.tierLen[t] = Cardinality(PendingIn(e, t))
             /\ e.tierHead[t] = OldestOrNone(PendingIn(e, t))
  <2>1. /\ q.tierLen[t] = Cardinality(PendingIn(q, t))
        /\ q.tierHead[t] = OldestOrNone(PendingIn(q, t))
    BY DEF Coherent
  <2>2. \A i \in Pending(e) : e.req[i] = IF i = n THEN r ELSE q.req[i]
    BY <1>4, <1>5
  <2>3. CASE t = r.tier
    <3>1. PendingIn(e, t) = PendingIn(q, t) \cup {n}
      BY <1>5, <1>6, <2>2, <2>3 DEF PendingIn
    <3>2. PendingIn(q, t) \subseteq Pending(q)
      BY DEF PendingIn
    <3>3. /\ Cardinality(PendingIn(e, t)) = Cardinality(PendingIn(q, t)) + 1
          /\ OldestOrNone(PendingIn(e, t)) =
               IF Cardinality(PendingIn(q, t)) = 0 THEN n ELSE OldestOrNone(PendingIn(q, t))
      BY <1>3, <1>7, <3>1, <3>2
    <3>4. /\ e.tierLen[t] = q.tierLen[t] + 1
          /\ e.tierHead[t] = IF q.tierLen[t] = 0 THEN n ELSE q.tierHead[t]
      BY <1>1, <1>4, <2>3
    <3> QED BY <2>1, <3>3, <3>4
  <2>4. CASE t # r.tier
    <3>1. PendingIn(e, t) = PendingIn(q, t)
      BY <1>5, <1>6, <2>2, <2>4 DEF PendingIn
    <3>2. e.tierLen[t] = q.tierLen[t] /\ e.tierHead[t] = q.tierHead[t]
      BY <1>1, <1>4, <2>4
    <3> QED BY <2>1, <3>1, <3>2
  <2> QED BY <2>3, <2>4
<1>10. Coherent(e)
  BY <1>8, <1>9 DEF Coherent
<1> QED BY <1>10 DEF e

THEOREM DequeueCoherent ==
    ASSUME NEW q, IsQueue(q), Coherent(q), NEW id \in Pending(q)
    PROVE  Coherent(Dequeue(q, id))
<1> DEFINE e == Dequeue(q, id)
           t == q.req[id].tier
<1>1. IsDequeued(e, q, id, t)
  BY DequeueFields
<1> HIDE DEF e
<1>2. /\ t \in Tiers
      /\ q.tierLen \in [Tiers -> Nat] /\ q.tierHead \in [Tiers -> Optional]
  BY DEF IsQueue, Request
<1> HIDE DEF t
<1>3. Pending(q) \subseteq Nat /\ IsFiniteSet(Pending(q))
  BY PendingIsFinite
<1>4. \A u : PendingIn(q, u) \subseteq Nat /\ IsFiniteSet(PendingIn(q, u))
  BY PendingIsFinite
<1>5. Pending(e) = Others(q, id) /\ \A i \in Pending(e) : e.req[i] = q.req[i]
  BY <1>1 DEF IsDequeued, Pending
<1>6. ASSUME NEW S, IsFiniteSet(S), id \in S, NEW len \in Nat, len = Cardinality(S)
      PROVE  Cardinality(S \ {id}) = IF len > 0 THEN len - 1 ELSE len
  <2>1. Cardinality(S \ {id}) = len - 1
    BY <1>6, FS_RemoveElement
  <2>2. len # 0
    BY <1>6, FS_EmptySet
  <2> QED BY <2>1, <2>2
<1>7. /\ q.len \in Nat /\ q.len = Cardinality(Pending(q))
      /\ q.head = OldestOrNone(Pending(q))
  BY DEF IsQueue, Coherent
<1>8. e.len = Cardinality(Pending(e))
  BY <1>1, <1>3, <1>5, <1>6, <1>7 DEF IsDequeued, Others
<1>9. e.head = OldestOrNone(Pending(e))
  BY <1>1, <1>3, <1>5, <1>7, <1>8, AdvanceIsOldest DEF IsDequeued, Others
<1>10. ASSUME NEW u \in Tiers
       PROVE  /\ e.tierLen[u] = Cardinality(PendingIn(e, u))
              /\ e.tierHead[u] = OldestOrNone(PendingIn(e, u))
  <2>1. /\ q.tierLen[u] = Cardinality(PendingIn(q, u))
        /\ q.tierHead[u] = OldestOrNone(PendingIn(q, u))
    BY DEF Coherent
  <2>2. CASE u = t
    <3>1. id \in PendingIn(q, t)
      BY DEF PendingIn, t
    <3>2. OthersInTier(q, id) = PendingIn(q, t) \ {id}
      BY DEF OthersInTier, Others, PendingIn, t
    <3>3. PendingIn(e, t) = PendingIn(q, t) \ {id}
      BY <1>5 DEF PendingIn, Others
    <3>4. LeftInTier(q, id) = Cardinality(PendingIn(e, t))
      BY <1>2, <1>4, <1>6, <2>1, <2>2, <3>1, <3>3 DEF LeftInTier, t
    <3>5. Advance(q.tierHead[t], id, LeftInTier(q, id), OthersInTier(q, id))
            = OldestOrNone(PendingIn(e, t))
      BY <1>4, <2>1, <2>2, <3>1, <3>2, <3>3, <3>4, AdvanceIsOldest
    <3> QED BY <1>1, <1>2, <2>2, <3>4, <3>5 DEF IsDequeued
  <2>3. CASE u # t
    <3>1. PendingIn(e, u) = PendingIn(q, u)
      BY <1>5, <2>3 DEF PendingIn, Others, t
    <3>2. e.tierLen[u] = q.tierLen[u] /\ e.tierHead[u] = q.tierHead[u]
      BY <1>1, <1>2, <2>3 DEF IsDequeued
    <3> QED BY <2>1, <3>1, <3>2
  <2> QED BY <2>2, <2>3
<1>11. Coherent(e)
  BY <1>8, <1>9, <1>10 DEF Coherent
<1> QED BY <1>11 DEF e

THEOREM ShrinkCoherent ==
    ASSUME NEW q, IsQueue(q), Coherent(q), NEW id \in Pending(q), NEW paid
    PROVE  Coherent(Shrink(q, id, paid))
<1> DEFINE e == Shrink(q, id, paid)
<1>1. IsShrunk(e, q, id, paid)
  BY ShrinkFields
<1> HIDE DEF e
<1>2. q.req \in [Pending(q) -> Request]
  BY DEF IsQueue
<1>3. \A i \in Pending(q) : e.req[i].tier = q.req[i].tier
  BY <1>1, <1>2 DEF IsShrunk, Request
<1>4. Pending(e) = Pending(q) /\ \A t : PendingIn(e, t) = PendingIn(q, t)
  BY <1>1, <1>3 DEF IsShrunk, PendingIn
<1>5. Coherent(e)
  BY <1>1, <1>4 DEF IsShrunk, Coherent
<1> QED BY <1>5 DEF e

-----------------------------------------------------------------------------
(* A new request adds its amount to the total of the pending ones.         *)
THEOREM EnqueueBacked ==
    ASSUME NEW q, IsQueue(q), NEW total \in Nat, Backed(q, total), NEW r \in Request
    PROVE  Backed(Enqueue(q, r), total + r.amount)
<1> DEFINE e == Enqueue(q, r)
           n == q.nextId
           sum == total + r.amount
<1>1. /\ n \in Nat /\ Pending(q) \subseteq 0..(n - 1) /\ n \notin Pending(q)
      /\ r.amount \in Nat
  BY DEF IsQueue, Request
<1>2. PICK below \in [0..n -> 0..total] : RunningTotals(q, total, below)
  BY DEF Backed
<1>3. e.nextId = n + 1 /\ Pending(e) = Pending(q) \cup {n}
  BY DEF Enqueue, Pending
<1>4. Owes(e, n) = r.amount /\ \A i \in 0..(n - 1) : Owes(e, i) = Owes(q, i)
  BY <1>1, <1>3 DEF Enqueue, Owes, Pending
<1> HIDE DEF e
<1> DEFINE next == [i \in 0..(n + 1) |-> IF i = n + 1 THEN sum ELSE below[i]]
<1>5. next \in [0..(n + 1) -> 0..sum]
  BY <1>1, <1>2
<1>6. next[0] = 0 /\ next[n + 1] = sum
  BY <1>1, <1>2 DEF RunningTotals
<1>7. ASSUME NEW i \in 0..n PROVE next[i + 1] = next[i] + Owes(e, i)
  <2>1. CASE i = n
    BY <1>1, <1>2, <1>4, <2>1 DEF RunningTotals
  <2>2. CASE i # n
    <3>1. i \in 0..(n - 1) /\ i + 1 \in 0..n /\ i + 1 # n + 1 /\ i # n + 1
      BY <1>1, <2>2
    <3>2. next[i + 1] = below[i + 1] /\ next[i] = below[i]
      BY <1>1, <3>1
    <3> QED BY <1>2, <1>4, <3>1, <3>2 DEF RunningTotals
  <2> QED BY <2>1, <2>2
<1>8. ASSUME NEW i \in 0..(n + 1), NEW j \in 0..(n + 1), i <= j PROVE next[i] <= next[j]
  BY <1>1, <1>2, <1>5, <1>8 DEF RunningTotals
<1> HIDE DEF next
<1>9. RunningTotals(e, sum, next)
  BY <1>1, <1>3, <1>6, <1>7, <1>8 DEF RunningTotals
<1>10. Backed(e, sum)
  BY <1>3, <1>5, <1>9 DEF Backed
<1> QED BY <1>10 DEF e

(* When one request owes x less and nothing else changes, so does the      *)
(* total; in particular it is at least x.                                  *)
LEMMA LessBacked ==
    ASSUME NEW q, IsQueue(q), NEW total \in Nat, Backed(q, total),
           NEW id \in Pending(q), NEW x \in Nat, x <= q.req[id].amount,
           NEW e, e.nextId = q.nextId, Owes(e, id) = Owes(q, id) - x,
           \A i \in 0..(q.nextId - 1) \ {id} : Owes(e, i) = Owes(q, i)
    PROVE  x <= total /\ Backed(e, total - x)
<1> DEFINE n == q.nextId
<1>1. /\ n \in Nat /\ id \in 0..(n - 1) /\ q.req[id].amount \in Nat
      /\ Owes(q, id) = q.req[id].amount
  BY DEF IsQueue, Request, Owes
<1>2. PICK below \in [0..n -> 0..total] : RunningTotals(q, total, below)
  BY DEF Backed
<1>3. /\ below[0] = 0 /\ below[n] = total
      /\ \A i \in 0..(n - 1) : below[i + 1] = below[i] + Owes(q, i)
      /\ \A i, j \in 0..n : i <= j => below[i] <= below[j]
  BY <1>2 DEF RunningTotals
<1>4. \A i \in 0..n : below[i] \in Nat
  BY <1>2
<1>5. below[id + 1] = below[id] + q.req[id].amount /\ id + 1 \in 0..n
  BY <1>1, <1>3
<1>6. ASSUME NEW i \in 0..n, i > id PROVE below[i] >= below[id] + x
  <2>1. id + 1 <= i /\ id \in 0..n
    BY <1>1, <1>6
  <2>2. below[id + 1] <= below[i]
    BY <1>3, <1>5, <2>1
  <2>3. below[id] \in Nat /\ below[i] \in Nat /\ below[id + 1] \in Nat
    BY <1>4, <1>5, <2>1
  <2>4. below[id] + x <= below[id] + q.req[id].amount
    BY <1>1, <2>3
  <2>5. below[id] + x <= below[id + 1]
    BY <1>5, <2>4
  <2> QED BY <2>2, <2>3, <2>5
<1>7. \A i \in 0..n : i <= id => below[i] <= below[id]
  <2>1. id \in 0..n
    BY <1>1
  <2> QED BY <1>3, <2>1
<1>8. below[id] + x <= total
  <2>1. n \in 0..n /\ n > id
    BY <1>1
  <2> QED BY <1>3, <1>4, <1>6, <2>1
<1> DEFINE less == [i \in 0..n |-> IF i > id THEN below[i] - x ELSE below[i]]
<1>9. x <= total /\ total - x \in Nat
  BY <1>1, <1>4, <1>8
<1>10. less \in [0..n -> 0..(total - x)]
  <2>1. ASSUME NEW i \in 0..n
        PROVE  (IF i > id THEN below[i] - x ELSE below[i]) \in 0..(total - x)
    <3>1. /\ below[i] \in Nat /\ below[i] <= total
          /\ below[id] \in Nat /\ i \in Nat /\ id \in Nat
      <4>1. id \in 0..n /\ id \in Nat /\ i \in Nat
        BY <1>1
      <4>2. below[i] \in 0..total
        BY <1>2
      <4> QED BY <1>4, <4>1, <4>2
    <3>2. CASE i > id
      BY <1>6, <1>9, <3>1, <3>2
    <3>3. CASE i <= id
      BY <1>7, <1>8, <1>9, <3>1, <3>3
    <3> QED BY <3>1, <3>2, <3>3
  <2> QED BY <2>1
<1>11. less[0] = 0 /\ less[n] = total - x
  <2>1. 0 \in 0..n /\ n \in 0..n /\ ~(0 > id) /\ n > id
    BY <1>1
  <2> QED BY <1>3, <2>1
<1>12. ASSUME NEW i \in 0..(n - 1) PROVE less[i + 1] = less[i] + Owes(e, i)
  <2>0. i \in 0..n /\ i + 1 \in 0..n /\ i \in Nat
    BY <1>1
  <2>1. /\ i \in 0..n /\ i + 1 \in 0..n /\ below[i + 1] = below[i] + Owes(q, i)
        /\ below[i] \in Nat /\ below[i + 1] \in Nat /\ Owes(q, i) \in Nat /\ i \in Nat
    <3>1. Owes(q, i) \in Nat
      BY DEF Owes, IsQueue, Request
    <3> QED BY <1>3, <1>4, <2>0, <3>1
  <2>2. CASE i = id
    BY <1>1, <1>5, <2>1, <2>2
  <2>3. CASE i > id
    <3>1. Owes(e, i) = Owes(q, i) /\ less[i] = below[i] - x /\ less[i + 1] = below[i + 1] - x
      BY <1>1, <2>1, <2>3
    <3> QED BY <2>1, <3>1
  <2>4. CASE i < id
    BY <1>1, <2>1, <2>4
  <2> QED BY <1>1, <2>2, <2>3, <2>4
<1>13. ASSUME NEW i \in 0..n, NEW j \in 0..n, i <= j PROVE less[i] <= less[j]
  <2>1. below[i] <= below[j] /\ below[i] \in Nat /\ below[j] \in Nat
    BY <1>3, <1>4, <1>13
  <2>2. /\ less[i] = IF i > id THEN below[i] - x ELSE below[i]
        /\ less[j] = IF j > id THEN below[j] - x ELSE below[j]
    OBVIOUS
  <2>3. CASE (i > id) <=> (j > id)
    BY <2>1, <2>2, <2>3
  <2>4. CASE i <= id /\ j > id
    <3>1. below[id] \in Nat /\ below[i] <= below[id] /\ below[j] >= below[id] + x
      BY <1>1, <1>4, <1>6, <1>7, <2>4
    <3> QED BY <1>1, <2>1, <2>2, <2>4, <3>1
  <2> QED BY <1>1, <1>13, <2>3, <2>4
<1> HIDE DEF less
<1>14. RunningTotals(e, total - x, less)
  BY <1>11, <1>12, <1>13 DEF RunningTotals
<1>15. Backed(e, total - x)
  BY <1>10, <1>14 DEF Backed
<1> QED BY <1>9, <1>15

THEOREM DequeueBacked ==
    ASSUME NEW q, IsQueue(q), NEW total \in Nat, Backed(q, total), NEW id \in Pending(q)
    PROVE  /\ q.req[id].amount <= total
           /\ Backed(Dequeue(q, id), total - q.req[id].amount)
<1> DEFINE e == Dequeue(q, id)
<1>1. IsDequeued(e, q, id, q.req[id].tier)
  BY DequeueFields
<1> HIDE DEF e
<1>2. Pending(e) = Pending(q) \ {id} /\ e.nextId = q.nextId
  BY <1>1 DEF IsDequeued, Others, Pending
<1>3. q.req[id].amount \in Nat
  BY DEF IsQueue, Request
<1>4. Owes(e, id) = Owes(q, id) - q.req[id].amount
  BY <1>2, <1>3 DEF Owes
<1>5. \A i \in 0..(q.nextId - 1) \ {id} : Owes(e, i) = Owes(q, i)
  BY <1>1, <1>2 DEF IsDequeued, Others, Owes
<1>6. Backed(e, total - q.req[id].amount) /\ q.req[id].amount <= total
  BY <1>2, <1>3, <1>4, <1>5, LessBacked
<1> QED BY <1>6 DEF e

THEOREM ShrinkBacked ==
    ASSUME NEW q, IsQueue(q), NEW total \in Nat, Backed(q, total), NEW id \in Pending(q),
           NEW paid \in Nat, paid <= q.req[id].amount
    PROVE  paid <= total /\ Backed(Shrink(q, id, paid), total - paid)
<1> DEFINE e == Shrink(q, id, paid)
<1>1. IsShrunk(e, q, id, paid)
  BY ShrinkFields
<1> HIDE DEF e
<1>2. q.req \in [Pending(q) -> Request] /\ Pending(e) = Pending(q) /\ e.nextId = q.nextId
  BY <1>1 DEF IsQueue, IsShrunk
<1>3. Owes(e, id) = Owes(q, id) - paid
  BY <1>1, <1>2 DEF IsShrunk, Owes, Request
<1>4. \A i \in 0..(q.nextId - 1) \ {id} : Owes(e, i) = Owes(q, i)
  BY <1>1, <1>2 DEF IsShrunk, Owes
<1>5. paid <= total /\ Backed(e, total - paid)
  BY <1>2, <1>3, <1>4, LessBacked
<1> QED BY <1>5 DEF e

-----------------------------------------------------------------------------
(* The inductive invariant.  No part is inductive alone: a release keeps   *)
(* total_liabilities a natural number only because the reservations are    *)
(* backed, and they stay backed only while the queue has its type.         *)
Inv == TypeOK /\ BooksSound /\ ReservationsBacked /\ QueueCoherent

moneyVars == <<acct, balance, fees>>

-----------------------------------------------------------------------------
LEMMA RolledType ==
    ASSUME NEW w \in Window, NEW now \in Nat
    PROVE  Rolled(w, now) \in Window
BY DEF Rolled, Window, Optional

LEMMA ChargeType ==
    ASSUME NEW w \in Window, NEW now \in Nat, NEW x \in Nat, NEW limit \in Int
    PROVE  /\ Charge(w, now, x) \in Window
           /\ ChargeIfOn(limit, w, now, x) \in Window
<1>1. Rolled(w, now) \in Window
  BY RolledType
<1> QED BY <1>1 DEF Charge, ChargeIfOn, Window

LEMMA BreakerType ==
    ASSUME NEW b \in [tripped : BOOLEAN, trippedAt : Nat, volume : Window],
           NEW threshold \in Int, NEW now \in Nat, NEW x \in Nat
    PROVE  BreakerAfter(threshold, b, now, x) \in
               [tripped : BOOLEAN, trippedAt : Nat, volume : Window]
<1> DEFINE base == IF b.tripped THEN [amount |-> 0, start |-> now] ELSE b.volume
           total == Charge(base, now, x)
           trips == total.amount >= threshold
<1>1. base \in Window
  BY DEF Window, Optional
<1>2. total \in Window
  BY <1>1, ChargeType
<1>3. trips \in BOOLEAN
  OBVIOUS
<1> HIDE DEF trips, total
<1>4. [tripped |-> trips, trippedAt |-> IF trips THEN now ELSE b.trippedAt,
       volume |-> total] \in [tripped : BOOLEAN, trippedAt : Nat, volume : Window]
  BY <1>2, <1>3
<1> QED BY <1>4 DEF BreakerAfter, trips, total

LEMMA TouchType ==
    ASSUME NEW entry \in Entry, NEW ttl \in Nat, NEW now \in Nat
    PROVE  Touch(entry, ttl, now) \in Entry
BY DEF Touch, Entry, Optional, None

(* The value of a deposit is not negative when the price is not.           *)
LEMMA UsdCentsType ==
    ASSUME NEW amt \in Nat, NEW p \in Nat
    PROVE  UsdCents(amt, p) \in Nat
<1>1. amt * p \in Nat
  OBVIOUS
<1>2. PriceScale \in Nat \ {0}
  BY BridgeAssumption
<1> DEFINE v == amt * p
<1>3. UsdCents(amt, p) = TruncDiv(v, PriceScale)
  BY <1>1 DEF UsdCents, MulDivFloor
<1> HIDE DEF v
<1>4. v \div PriceScale \in Nat
  BY <1>1, <1>2 DEF v
<1> QED BY <1>1, <1>3, <1>4 DEF TruncDiv, v

-----------------------------------------------------------------------------
LEMMA InitInv == Init => Inv
<1> SUFFICES ASSUME Init PROVE Inv
  OBVIOUS
<1>1. PolicyTypeOK
  <2>1. 0 \in 0..U32_MAX /\ None \in Int
    BY WindowAssumption DEF None
  <2>2. NewConfig \in Config
    BY <2>1, BridgeAssumption DEF Config, NewConfig
  <2> QED BY <2>2 DEF Init, PolicyTypeOK
<1>2. MoneyTypeOK
  BY DEF Init, MoneyTypeOK, Optional
<1>3. DepositTypeOK
  BY DEF Init, DepositTypeOK, Entry, NoEntry, Window, NoWindow, Optional, None
<1>4. QueueTypeOK
  BY DEF Init, QueueTypeOK, IsQueue, EmptyQueue, Pending, Optional
<1>5. OutflowTypeOK
  BY DEF Init, OutflowTypeOK, ClearBreaker, Window, NoWindow, Optional, None
<1>6. TypeOK
  BY <1>1, <1>2, <1>3, <1>4, <1>5, BridgeAssumption DEF Init, TypeOK
<1>7. BooksSound
  BY DEF Init, BooksSound, BooksBalance, NetDeposited
<1>8. ReservationsBacked
  <2> DEFINE below == [i \in 0..0 |-> 0]
  <2>1. wq.nextId = 0 /\ acct.liabilities = 0
    BY DEF Init, EmptyQueue
  <2>2. below \in [0..wq.nextId -> 0..acct.liabilities]
    BY <2>1
  <2>3. RunningTotals(wq, acct.liabilities, below)
    BY <2>1 DEF RunningTotals
  <2> QED BY <2>2, <2>3 DEF ReservationsBacked, Backed
<1>9. QueueCoherent
  <2>1. Pending(wq) = {} /\ \A t \in Tiers : PendingIn(wq, t) = {}
    BY DEF Init, EmptyQueue, Pending, PendingIn
  <2> QED BY <2>1, FS_EmptySet
       DEF Init, EmptyQueue, QueueCoherent, Coherent, OldestOrNone
<1> QED BY <1>6, <1>7, <1>8, <1>9 DEF Inv

-----------------------------------------------------------------------------
(* What a step that leaves the books and the queue alone need not show.    *)
LEMMA BooksFrame ==
    ASSUME Inv, UNCHANGED <<acct, wq>>
    PROVE  BooksSound' /\ ReservationsBacked' /\ QueueCoherent'
BY DEF Inv, BooksSound, ReservationsBacked, QueueCoherent

(* Each part of the type invariant reads its own variables only.           *)
LEMMA TypeFrames ==
    ASSUME TypeOK
    PROVE  /\ UNCHANGED policyVars => PolicyTypeOK'
           /\ UNCHANGED moneyVars => MoneyTypeOK'
           /\ UNCHANGED depositVars => DepositTypeOK'
           /\ UNCHANGED queueVars => QueueTypeOK'
           /\ UNCHANGED outVars => OutflowTypeOK'
           /\ UNCHANGED ledger => (ledger \in 0..MaxLedger)'
<1>1. UNCHANGED policyVars => PolicyTypeOK'
  BY DEF TypeOK, policyVars, PolicyTypeOK
<1>2. UNCHANGED moneyVars => MoneyTypeOK'
  BY DEF TypeOK, moneyVars, MoneyTypeOK
<1>3. UNCHANGED depositVars => DepositTypeOK'
  BY DEF TypeOK, depositVars, DepositTypeOK
<1>4. UNCHANGED queueVars => QueueTypeOK'
  BY DEF TypeOK, queueVars, QueueTypeOK
<1>5. UNCHANGED outVars => OutflowTypeOK'
  BY DEF TypeOK, outVars, OutflowTypeOK
<1>6. UNCHANGED ledger => (ledger \in 0..MaxLedger)'
  BY DEF TypeOK
<1> QED BY <1>1, <1>2, <1>3, <1>4, <1>5, <1>6

LEMMA LedgerType == TypeOK => ledger \in Nat /\ ledger <= MaxLedger
BY BridgeAssumption DEF TypeOK

LEMMA DepositInv ==
    ASSUME Inv, NEW u \in Users, NEW amt \in Amounts, NEW p, NEW expected, NEW slip,
           Deposit(u, amt, p, expected, slip)
    PROVE  Inv'
<1>1. TypeOK /\ amt \in Nat /\ ledger \in Nat
  BY BridgeAssumption, LedgerType DEF Inv, Deposit
<1>2. MoneyTypeOK'
  BY <1>1 DEF Deposit, TypeOK, MoneyTypeOK
<1>3. cfg.dailyDeposit \in Int /\ LastDepositTtl(cfg) \in Nat /\ LastLargeTtl(cfg) \in Nat
  BY <1>1, WindowAssumption
     DEF TypeOK, PolicyTypeOK, Config, LastDepositTtl, LastLargeTtl, Larger
<1>4. p \in Nat
  BY BridgeAssumption DEF Deposit, DepositPrice
<1>5. DepositTypeOK'
  <2>1. DepositTypeOK
    BY <1>1 DEF TypeOK
  <2>2. receiptCounter' \in Nat /\ userDeposited' \in [Users -> Nat]
    BY <1>1, <2>1 DEF Deposit, DepositTypeOK
  <2>3. lastDeposit' \in [Users -> Entry] /\ lastLarge' \in [Users -> Entry]
    BY <1>1, <1>3, <2>1, TouchType DEF Deposit, DepositTypeOK
  <2>4. dailyIn' \in [Users -> Window]
    BY <1>1, <1>3, <2>1, ChargeType DEF Deposit, DepositTypeOK
  <2>5. fiatIn' \in [Users -> Window]
    <3>1. UsdCents(amt, p) \in Nat /\ fiatIn \in [Users -> Window]
      BY <1>1, <1>4, <2>1, UsdCentsType DEF DepositTypeOK
    <3>2. Charge(fiatIn[u], ledger, UsdCents(amt, p)) \in Window
      BY <1>1, <1>3, <3>1, ChargeType
    <3> QED BY <3>1, <3>2 DEF Deposit
  <2> QED BY <2>2, <2>3, <2>4, <2>5 DEF DepositTypeOK
<1>6. TypeOK'
  BY <1>1, <1>2, <1>5, TypeFrames DEF Deposit, TypeOK
<1>7. BooksSound'
  BY DEF Deposit, InvariantsHold, BooksSound
<1>8. acct'.liabilities = acct.liabilities /\ wq' = wq
  BY <1>1 DEF Deposit, queueVars, TypeOK, MoneyTypeOK
<1>9. ReservationsBacked' /\ QueueCoherent'
  BY <1>8 DEF Inv, ReservationsBacked, QueueCoherent
<1> QED BY <1>6, <1>7, <1>9 DEF Inv

LEMMA CountOutflowType ==
    ASSUME TypeOK, NEW u \in Users, NEW amt \in Nat, CountOutflow(u, amt)
    PROVE  OutflowTypeOK'
<1>1. /\ ledger \in Nat /\ cfg.quota \in Int /\ cfg.breakerThreshold \in Int
      /\ dailyOut \in [Users -> Window]
      /\ breaker \in [tripped : BOOLEAN, trippedAt : Nat, volume : Window]
  BY LedgerType DEF TypeOK, PolicyTypeOK, Config, OutflowTypeOK
<1>2. dailyOut' \in [Users -> Window]
  BY <1>1, ChargeType DEF CountOutflow
<1>3. breaker' \in [tripped : BOOLEAN, trippedAt : Nat, volume : Window]
  BY <1>1, BreakerType DEF CountOutflow
<1> QED BY <1>2, <1>3 DEF OutflowTypeOK

LEMMA WithdrawInv ==
    ASSUME Inv, NEW u \in Users, NEW amt \in Amounts, Withdraw(u, amt)
    PROVE  Inv'
<1>1. TypeOK /\ amt \in Nat
  BY BridgeAssumption DEF Inv, Withdraw
<1>2. MoneyTypeOK'
  BY <1>1 DEF Withdraw, TypeOK, MoneyTypeOK
<1>3. OutflowTypeOK'
  BY <1>1, CountOutflowType DEF Withdraw
<1>4. TypeOK'
  BY <1>1, <1>2, <1>3, TypeFrames DEF Withdraw, TypeOK
<1>5. BooksSound'
  BY DEF Withdraw, InvariantsHold, BooksSound
<1>6. acct'.liabilities = acct.liabilities /\ wq' = wq
  BY <1>1 DEF Withdraw, queueVars, TypeOK, MoneyTypeOK
<1>7. ReservationsBacked' /\ QueueCoherent'
  BY <1>6 DEF Inv, ReservationsBacked, QueueCoherent
<1> QED BY <1>4, <1>5, <1>7 DEF Inv

LEMMA RequestInv ==
    ASSUME Inv, NEW u \in Users, NEW amt \in Amounts, NEW tier \in Tiers,
           RequestWithdrawal(u, amt, tier)
    PROVE  Inv'
<1> DEFINE r == [to |-> u, amount |-> amt, unlock |-> ledger + cfg.lock,
                 queued |-> ledger, tier |-> tier]
<1>1. TypeOK /\ amt \in Nat \ {0} /\ ledger \in Nat /\ cfg.lock \in Nat
  BY BridgeAssumption, LedgerType, WindowAssumption
     DEF Inv, RequestWithdrawal, TypeOK, PolicyTypeOK, Config
<1>2. r \in Request
  BY <1>1 DEF Request
<1>3. wq' = Enqueue(wq, r) /\ r.amount = amt
  BY DEF RequestWithdrawal
<1> HIDE DEF r
<1>4. IsQueue(wq) /\ Coherent(wq) /\ Backed(wq, acct.liabilities)
      /\ acct \in [deposited : Nat, withdrawn : Nat, liabilities : Nat]
  BY <1>1 DEF Inv, TypeOK, QueueTypeOK, MoneyTypeOK, QueueCoherent, ReservationsBacked
<1>5. acct' = [acct EXCEPT !.liabilities = acct.liabilities + amt]
  BY DEF RequestWithdrawal
<1>6. MoneyTypeOK'
  BY <1>1, <1>4, <1>5 DEF RequestWithdrawal, TypeOK, MoneyTypeOK
<1>7. QueueTypeOK'
  BY <1>1, <1>2, <1>3, <1>4, EnqueueType DEF RequestWithdrawal, TypeOK, QueueTypeOK
<1>8. TypeOK'
  BY <1>1, <1>6, <1>7, TypeFrames DEF RequestWithdrawal, TypeOK
<1>9. BooksSound'
  BY DEF RequestWithdrawal, InvariantsHold, BooksSound
<1>10. ReservationsBacked'
  BY <1>2, <1>3, <1>4, <1>5, EnqueueBacked DEF ReservationsBacked
<1>11. QueueCoherent'
  BY <1>2, <1>3, <1>4, EnqueueCoherent DEF QueueCoherent
<1> QED BY <1>8, <1>9, <1>10, <1>11 DEF Inv

LEMMA ExecuteInv ==
    ASSUME Inv, NEW id \in Pending(wq), NEW amt \in Amounts, NEW nonce,
           NEW p, NEW expected, NEW slip,
           ExecuteWithdrawal(id, amt, nonce, p, expected, slip)
    PROVE  Inv'
<1> DEFINE u == wq.req[id].to
           owed == wq.req[id].amount
<1>1. TypeOK /\ amt \in Nat \ {0} /\ amt <= owed /\ amt <= balance
  BY BridgeAssumption DEF Inv, ExecuteWithdrawal
<1>2. IsQueue(wq) /\ Coherent(wq) /\ Backed(wq, acct.liabilities)
      /\ acct \in [deposited : Nat, withdrawn : Nat, liabilities : Nat]
  BY <1>1 DEF Inv, TypeOK, QueueTypeOK, MoneyTypeOK, QueueCoherent, ReservationsBacked
<1>3. u \in Users /\ owed \in Nat
  BY <1>2 DEF IsQueue, Request
<1>4. acct' = [acct EXCEPT !.withdrawn = acct.withdrawn + amt,
                           !.liabilities = acct.liabilities - amt]
  BY DEF ExecuteWithdrawal
<1>5. /\ amt <= acct.liabilities
      /\ IsQueue(wq') /\ Coherent(wq') /\ Backed(wq', acct.liabilities - amt)
  <2>1. CASE amt = owed
    <3>1. wq' = Dequeue(wq, id)
      BY <2>1 DEF ExecuteWithdrawal
    <3> QED BY <1>2, <2>1, <3>1, DequeueType, DequeueCoherent, DequeueBacked
  <2>2. CASE amt # owed
    <3>1. wq' = Shrink(wq, id, amt) /\ amt < owed
      BY <1>1, <1>3, <2>2 DEF ExecuteWithdrawal
    <3> QED BY <1>1, <1>2, <3>1, ShrinkType, ShrinkCoherent, ShrinkBacked
  <2> QED BY <2>1, <2>2
<1>6. MoneyTypeOK'
  <2>1. acct' \in [deposited : Nat, withdrawn : Nat, liabilities : Nat]
    <3>1. acct.withdrawn + amt \in Nat /\ acct.liabilities - amt \in Nat
      BY <1>1, <1>2, <1>5
    <3> QED BY <1>2, <1>4, <3>1
  <2>2. balance' \in Nat /\ fees' = fees
    BY <1>1 DEF ExecuteWithdrawal, TypeOK, MoneyTypeOK
  <2> QED BY <1>1, <2>1, <2>2 DEF TypeOK, MoneyTypeOK
<1>7. QueueTypeOK'
  BY <1>1, <1>3, <1>5 DEF ExecuteWithdrawal, TypeOK, QueueTypeOK
<1>8. OutflowTypeOK'
  BY <1>1, <1>3, CountOutflowType DEF ExecuteWithdrawal
<1>9. TypeOK'
  BY <1>1, <1>6, <1>7, <1>8, TypeFrames DEF ExecuteWithdrawal, TypeOK
<1>10. BooksSound'
  BY DEF ExecuteWithdrawal, InvariantsHold, BooksSound
<1>11. acct'.liabilities = acct.liabilities - amt
  BY <1>2, <1>4
<1> QED BY <1>5, <1>9, <1>10, <1>11 DEF Inv, ReservationsBacked, QueueCoherent

LEMMA ReleaseInv ==
    ASSUME Inv, NEW id \in Pending(wq), Release(id)
    PROVE  Inv'
<1> DEFINE owed == wq.req[id].amount
<1>1. TypeOK /\ IsQueue(wq) /\ Coherent(wq) /\ Backed(wq, acct.liabilities)
      /\ acct \in [deposited : Nat, withdrawn : Nat, liabilities : Nat]
  BY DEF Inv, TypeOK, QueueTypeOK, MoneyTypeOK, QueueCoherent, ReservationsBacked
<1>2. owed \in Nat
  BY <1>1 DEF IsQueue, Request
<1>3. acct' = [acct EXCEPT !.liabilities = acct.liabilities - owed] /\ wq' = Dequeue(wq, id)
  BY DEF Release
<1>4. /\ owed <= acct.liabilities
      /\ IsQueue(wq') /\ Coherent(wq') /\ Backed(wq', acct.liabilities - owed)
  BY <1>1, <1>3, DequeueType, DequeueCoherent, DequeueBacked
<1>5. /\ acct'.liabilities = acct.liabilities - owed
      /\ acct'.deposited = acct.deposited /\ acct'.withdrawn = acct.withdrawn
  BY <1>1, <1>3
<1>6. MoneyTypeOK'
  BY <1>1, <1>2, <1>3, <1>4 DEF Release, TypeOK, MoneyTypeOK
<1>7. QueueTypeOK'
  BY <1>1, <1>4 DEF Release, TypeOK, QueueTypeOK
<1>8. TypeOK'
  BY <1>1, <1>6, <1>7, TypeFrames DEF Release, TypeOK
<1>9. BooksSound'
  BY <1>1, <1>2, <1>4, <1>5 DEF Inv, BooksSound, BooksBalance, NetDeposited
<1> QED BY <1>4, <1>5, <1>8, <1>9 DEF Inv, ReservationsBacked, QueueCoherent

-----------------------------------------------------------------------------
(* Fees, donations and the other steps that touch no depositor's books.    *)
LEMMA FeesInv ==
    ASSUME Inv, MoneyTypeOK', acct' = acct,
           UNCHANGED <<ledger, policyVars, depositVars, queueVars, outVars>>
    PROVE  Inv'
<1>1. TypeOK
  BY DEF Inv
<1>2. TypeOK'
  BY <1>1, TypeFrames DEF TypeOK
<1>3. wq' = wq
  BY DEF queueVars
<1> QED BY <1>2, <1>3, BooksFrame DEF Inv

LEMMA TreasuryInv ==
    ASSUME Inv,
           \/ \E amt \in Amounts : AccrueFee(amt) \/ WithdrawFees(amt) \/ Donate(amt)
           \/ \E nonce \in 0..U64_MAX, listed \in BOOLEAN : WithdrawFeesBatch(nonce, listed)
           \/ MigrateFeeNonce
    PROVE  Inv'
<1>1. /\ balance \in Nat /\ fees \in [vault : Nat, nonce : Optional, legacy : Optional]
      /\ acct \in [deposited : Nat, withdrawn : Nat, liabilities : Nat]
  BY DEF Inv, TypeOK, MoneyTypeOK
<1>2. \A n \in Optional : OrZero(n) \in Nat
  BY DEF OrZero, Optional, None
<1>3. \A n \in Nat : n \in Optional
  BY DEF Optional
<1>4. ASSUME NEW amt \in Amounts, AccrueFee(amt) PROVE Inv'
  <2>1. amt \in Nat
    BY <1>4, BridgeAssumption DEF AccrueFee
  <2>2. MoneyTypeOK' /\ acct' = acct
    BY <1>1, <1>4, <2>1 DEF AccrueFee, MoneyTypeOK
  <2> QED BY <1>4, <2>2, FeesInv DEF AccrueFee
<1>5. ASSUME NEW amt \in Amounts, WithdrawFees(amt) PROVE Inv'
  <2>1. amt \in Nat /\ amt <= fees.vault /\ amt <= balance
    BY <1>5, BridgeAssumption DEF WithdrawFees, PayFees
  <2>2. OrZero(fees.nonce) + 2 \in Optional /\ OrZero(fees.legacy) + 1 \in Optional
    BY <1>1, <1>2, <1>3
  <2>3. MoneyTypeOK' /\ acct' = acct
    BY <1>1, <1>5, <2>1, <2>2 DEF WithdrawFees, PayFees, MoneyTypeOK
  <2> QED BY <1>5, <2>3, FeesInv DEF WithdrawFees, PayFees
<1>6. ASSUME NEW amt \in Amounts, Donate(amt) PROVE Inv'
  <2>1. amt \in Nat
    BY <1>6, BridgeAssumption DEF Donate
  <2>2. MoneyTypeOK' /\ acct' = acct
    BY <1>1, <1>6, <2>1 DEF Donate, MoneyTypeOK
  <2> QED BY <1>6, <2>2, FeesInv DEF Donate
<1>7. ASSUME NEW nonce \in 0..U64_MAX, NEW listed \in BOOLEAN,
             WithdrawFeesBatch(nonce, listed)
      PROVE Inv'
  <2> DEFINE swept == IF listed THEN fees.vault ELSE 0
  <2>1. swept \in Nat /\ swept <= fees.vault
    BY <1>1
  <2>2. /\ fees' = [fees EXCEPT !.vault = fees.vault - swept, !.nonce = nonce + 1]
        /\ PayFees(swept)
    BY <1>7 DEF WithdrawFeesBatch
  <2> HIDE DEF swept
  <2>3. nonce + 1 \in Optional /\ fees.vault - swept \in Nat /\ balance - swept \in Nat
    BY <1>1, <1>3, <2>1, <2>2 DEF PayFees
  <2>4. MoneyTypeOK' /\ acct' = acct
    BY <1>1, <2>2, <2>3 DEF PayFees, MoneyTypeOK
  <2> QED BY <2>2, <2>4, FeesInv DEF PayFees
<1>8. ASSUME MigrateFeeNonce PROVE Inv'
  <2>1. MoneyTypeOK' /\ acct' = acct
    BY <1>1, <1>8 DEF MigrateFeeNonce, MoneyTypeOK, Optional
  <2> QED BY <1>8, <2>1, FeesInv DEF MigrateFeeNonce
<1> QED BY <1>4, <1>5, <1>6, <1>7, <1>8

(* A setting changes: one part of the type is at stake.                    *)
LEMMA PolicyInv ==
    ASSUME Inv, PolicyTypeOK', UnchangedButPolicy
    PROVE  Inv'
<1>1. TypeOK /\ UNCHANGED moneyVars /\ UNCHANGED <<acct, wq>>
  BY DEF Inv, UnchangedButPolicy, moneyVars, queueVars
<1>2. TypeOK'
  BY <1>1, TypeFrames DEF UnchangedButPolicy, TypeOK
<1> QED BY <1>1, <1>2, BooksFrame DEF Inv

LEMMA PolicyActionsInv ==
    ASSUME Inv,
           \/ Pause \/ Unpause
           \/ \E u \in Users : DenyAddress(u) \/ RemoveDeniedAddress(u)
           \/ \E b \in BOOLEAN : SetTokenAllowlistEnabled(b)
           \/ \E u \in Users : AddTokenAllowlist(u) \/ RemoveTokenAllowlist(u)
    PROVE  Inv'
<1>1. PolicyTypeOK
  BY DEF Inv, TypeOK
<1>2. ASSUME NEW b \in BOOLEAN, StorePaused(b) PROVE Inv'
  <2>1. PolicyTypeOK' /\ UnchangedButPolicy
    BY <1>1, <1>2 DEF StorePaused, PolicyTypeOK
  <2> QED BY <2>1, PolicyInv
<1>3. ASSUME NEW S \in SUBSET Users, StoreDenied(S) PROVE Inv'
  <2>1. PolicyTypeOK' /\ UnchangedButPolicy
    BY <1>1, <1>3 DEF StoreDenied, PolicyTypeOK
  <2> QED BY <2>1, PolicyInv
<1>4. ASSUME NEW a \in [on : BOOLEAN, members : SUBSET Users], StoreAllow(a) PROVE Inv'
  <2>1. PolicyTypeOK' /\ UnchangedButPolicy
    BY <1>1, <1>4 DEF StoreAllow, PolicyTypeOK
  <2> QED BY <2>1, PolicyInv
<1>5. (Pause \/ Unpause) => Inv'
  BY <1>2 DEF Pause, Unpause
<1>6. ASSUME NEW u \in Users, DenyAddress(u) \/ RemoveDeniedAddress(u) PROVE Inv'
  <2>1. denied \cup {u} \in SUBSET Users /\ denied \ {u} \in SUBSET Users
    BY <1>1 DEF PolicyTypeOK
  <2> QED BY <1>3, <1>6, <2>1 DEF DenyAddress, RemoveDeniedAddress
<1>7. ASSUME NEW b \in BOOLEAN, SetTokenAllowlistEnabled(b) PROVE Inv'
  <2>1. [allow EXCEPT !.on = b] \in [on : BOOLEAN, members : SUBSET Users]
    BY <1>1 DEF PolicyTypeOK
  <2> QED BY <1>4, <1>7, <2>1 DEF SetTokenAllowlistEnabled
<1>8. ASSUME NEW u \in Users, AddTokenAllowlist(u) \/ RemoveTokenAllowlist(u) PROVE Inv'
  <2>1. /\ [allow EXCEPT !.members = allow.members \cup {u}]
              \in [on : BOOLEAN, members : SUBSET Users]
        /\ [allow EXCEPT !.members = allow.members \ {u}]
              \in [on : BOOLEAN, members : SUBSET Users]
    BY <1>1 DEF PolicyTypeOK
  <2> QED BY <1>4, <1>8, <2>1 DEF AddTokenAllowlist, RemoveTokenAllowlist
<1> QED BY <1>5, <1>6, <1>7, <1>8

LEMMA ConfigureInv == ASSUME Inv, Configure PROVE Inv'
<1>1. PolicyTypeOK /\ cfg \in Config
  BY DEF Inv, TypeOK, PolicyTypeOK
<1>2. ASSUME NEW c \in Config, StoreConfig(c) PROVE Inv'
  <2>1. PolicyTypeOK' /\ UnchangedButPolicy
    BY <1>1, <1>2 DEF StoreConfig, PolicyTypeOK
  <2> QED BY <2>1, PolicyInv
<1>3. \A p \in Params \ {"oracle"} : Choices[p] \subseteq Int
  BY BridgeAssumption
<1>4. \A p \in LedgerParams : Choices[p] \subseteq 0..U32_MAX
  BY BridgeAssumption
<1>5. /\ Choices.limit \subseteq Int /\ Choices.maxCap \subseteq Int
      /\ Choices.dailyDeposit \subseteq Int /\ Choices.minDeposit \subseteq Int
      /\ Choices.largeDeposit \subseteq Int /\ Choices.fiatLimit \subseteq Int
      /\ Choices.quota \subseteq Int /\ Choices.breakerThreshold \subseteq Int
  BY <1>3 DEF Params
<1>6. /\ Choices.cooldown \subseteq 0..U32_MAX /\ Choices.withdrawCooldown \subseteq 0..U32_MAX
      /\ Choices.lock \subseteq 0..U32_MAX /\ Choices.antiSandwich \subseteq 0..U32_MAX
      /\ Choices.expiry \subseteq 0..U32_MAX /\ Choices.breakerReset \subseteq 0..U32_MAX
  BY <1>4 DEF LedgerParams
<1>7. ASSUME NEW v \in Int
      PROVE  /\ [cfg EXCEPT !.limit = v] \in Config
             /\ [cfg EXCEPT !.maxCap = v] \in Config
             /\ [cfg EXCEPT !.dailyDeposit = v] \in Config
             /\ [cfg EXCEPT !.minDeposit = v] \in Config
             /\ [cfg EXCEPT !.fiatLimit = v] \in Config
             /\ [cfg EXCEPT !.quota = v] \in Config
             /\ [cfg EXCEPT !.breakerThreshold = v] \in Config
  BY <1>1 DEF Config
<1>8. ASSUME NEW v \in 0..U32_MAX
      PROVE  /\ [cfg EXCEPT !.cooldown = v] \in Config
             /\ [cfg EXCEPT !.lock = v] \in Config
             /\ [cfg EXCEPT !.antiSandwich = v] \in Config
             /\ [cfg EXCEPT !.expiry = v] \in Config
             /\ [cfg EXCEPT !.breakerReset = v] \in Config
             /\ \A t \in Int :
                  [cfg EXCEPT !.withdrawCooldown = v, !.largeDeposit = t] \in Config
  BY <1>1 DEF Config
<1>9. [cfg EXCEPT !.oracle = TRUE] \in Config
  BY <1>1 DEF Config
<1>10. ASSUME NEW v \in Int,
              \/ SetLimit(v) \/ SetLimitMaxCap(v) \/ SetDailyDepositLimit(v)
              \/ SetMinDeposit(v) \/ SetFiatLimit(v) \/ SetWithdrawalQuota(v)
              \/ SetBreakerThreshold(v)
       PROVE  Inv'
  BY <1>2, <1>7, <1>10
     DEF SetLimit, SetLimitMaxCap, SetDailyDepositLimit, SetMinDeposit, SetFiatLimit,
         SetWithdrawalQuota, SetBreakerThreshold
<1>11. ASSUME NEW v \in 0..U32_MAX,
              \/ SetCooldown(v) \/ SetLockPeriod(v) \/ SetAntiSandwichDelay(v)
              \/ SetWithdrawalExpiry(v) \/ SetBreakerResetWindow(v)
              \/ \E t \in Int : SetWithdrawalCooldown(v, t)
       PROVE  Inv'
  BY <1>2, <1>8, <1>11
     DEF SetCooldown, SetLockPeriod, SetAntiSandwichDelay, SetWithdrawalExpiry,
         SetBreakerResetWindow, SetWithdrawalCooldown
<1>12. SetOracle => Inv'
  BY <1>2, <1>9 DEF SetOracle
<1> QED BY <1>5, <1>6, <1>10, <1>11, <1>12 DEF Configure

LEMMA ClockInv ==
    ASSUME Inv,
           \/ Tick \/ ResetBreaker
           \/ \E u \in Users : EvictLastDeposit(u) \/ EvictLastLarge(u)
    PROVE  Inv'
<1>1. TypeOK
  BY DEF Inv
<1>2. CASE Tick
  <2>1. (ledger \in 0..MaxLedger)'
    BY <1>1, <1>2, BridgeAssumption DEF Tick, TypeOK
  <2>2. UNCHANGED moneyVars /\ UNCHANGED <<acct, wq>>
    BY <1>2 DEF Tick, moneyVars, queueVars
  <2>3. TypeOK'
    BY <1>1, <1>2, <2>1, <2>2, TypeFrames DEF Tick, TypeOK
  <2> QED BY <2>2, <2>3, BooksFrame DEF Inv
<1>3. CASE ResetBreaker
  <2>1. OutflowTypeOK'
    BY <1>1, <1>3 DEF ResetBreaker, TypeOK, OutflowTypeOK
  <2>2. UNCHANGED moneyVars /\ UNCHANGED <<acct, wq>>
    BY <1>3 DEF ResetBreaker, moneyVars, queueVars
  <2>3. TypeOK'
    BY <1>1, <1>3, <2>1, <2>2, TypeFrames DEF ResetBreaker, TypeOK
  <2> QED BY <2>2, <2>3, BooksFrame DEF Inv
<1>4. ASSUME NEW u \in Users, EvictLastDeposit(u) \/ EvictLastLarge(u) PROVE Inv'
  <2>1. NoEntry \in Entry
    BY DEF NoEntry, Entry, Optional
  <2>2. DepositTypeOK'
    BY <1>1, <1>4, <2>1 DEF EvictLastDeposit, EvictLastLarge, TypeOK, DepositTypeOK
  <2>3. /\ UNCHANGED moneyVars /\ UNCHANGED <<acct, wq>>
        /\ UNCHANGED <<ledger, policyVars, queueVars, outVars>>
    BY <1>4 DEF EvictLastDeposit, EvictLastLarge, moneyVars, queueVars
  <2>4. TypeOK'
    BY <1>1, <2>2, <2>3, TypeFrames DEF TypeOK
  <2> QED BY <2>3, <2>4, BooksFrame DEF Inv
<1> QED BY <1>2, <1>3, <1>4

LEMMA StepInv == Inv /\ [Next]_vars => Inv'
<1> SUFFICES ASSUME Inv, [Next]_vars PROVE Inv'
  OBVIOUS
<1>1. CASE UserDeposits
  BY <1>1, DepositInv DEF UserDeposits
<1>2. ASSUME NEW u \in Users, NEW amt \in Amounts, Withdraw(u, amt) PROVE Inv'
  BY <1>2, WithdrawInv
<1>3. ASSUME NEW u \in Users, NEW amt \in Amounts, NEW t \in Tiers,
             RequestWithdrawal(u, amt, t)
      PROVE  Inv'
  BY <1>3, RequestInv
<1>4. CASE QueuePays
  BY <1>4, ExecuteInv DEF QueuePays
<1>5. ASSUME NEW id \in Pending(wq), CancelWithdrawal(id) \/ ReclaimExpired(id) PROVE Inv'
  BY <1>5, ReleaseInv DEF CancelWithdrawal, ReclaimExpired
<1>6. CASE \/ \E amt \in Amounts : AccrueFee(amt) \/ WithdrawFees(amt) \/ Donate(amt)
           \/ \E nonce \in 0..U64_MAX, listed \in BOOLEAN : WithdrawFeesBatch(nonce, listed)
           \/ MigrateFeeNonce
  BY <1>6, TreasuryInv
<1>7. CASE \/ Pause \/ Unpause
           \/ \E u \in Users : DenyAddress(u) \/ RemoveDeniedAddress(u)
           \/ \E b \in BOOLEAN : SetTokenAllowlistEnabled(b)
           \/ \E u \in Users : AddTokenAllowlist(u) \/ RemoveTokenAllowlist(u)
  BY <1>7, PolicyActionsInv
<1>8. CASE Configure
  BY <1>8, ConfigureInv
<1>9. CASE \/ Tick \/ ResetBreaker
           \/ \E u \in Users : EvictLastDeposit(u) \/ EvictLastLarge(u)
  BY <1>9, ClockInv
<1>10. CASE UNCHANGED vars
  <2>1. UNCHANGED <<acct, wq>> /\ TypeOK /\ UNCHANGED moneyVars
    BY <1>10 DEF Inv, vars, queueVars, moneyVars
  <2>2. TypeOK'
    BY <1>10, <2>1, TypeFrames DEF vars, TypeOK
  <2> QED BY <2>1, <2>2, BooksFrame DEF Inv
<1> QED BY <1>1, <1>2, <1>3, <1>4, <1>5, <1>6, <1>7, <1>8, <1>9, <1>10 DEF Next

-----------------------------------------------------------------------------
(* The invariant holds in every reachable state.                           *)
THEOREM Invariance == Spec => []Inv
<1>1. Init => Inv
  BY InitInv
<1>2. Inv /\ [Next]_vars => Inv'
  BY StepInv
<1> QED BY <1>1, <1>2, PTL DEF Spec

(* Every storage key always holds a value of its type; in particular no    *)
(* sequence of calls drives the reserved total below zero.                 *)
THEOREM TypeCorrect == Spec => []TypeOK
<1>1. Inv => TypeOK
  BY DEF Inv
<1> QED BY <1>1, Invariance, PTL

(* Withdrawals and reservations never exceed what was deposited.           *)
THEOREM BooksStaySound == Spec => []BooksSound
<1>1. Inv => BooksSound
  BY DEF Inv
<1> QED BY <1>1, Invariance, PTL

(* total_liabilities is always the sum of the pending amounts.             *)
THEOREM ReservationsStayBacked == Spec => []ReservationsBacked
<1>1. Inv => ReservationsBacked
  BY DEF Inv
<1> QED BY <1>1, Invariance, PTL

(* The cached lengths and heads always equal a scan of the queue.          *)
THEOREM QueueStaysCoherent == Spec => []QueueCoherent
<1>1. Inv => QueueCoherent
  BY DEF Inv
<1> QED BY <1>1, Invariance, PTL

(***************************************************************************)
(* What follows from the invariant: the scheduler's answer, what a         *)
(* shortfall can come from and what it stops, and that the vault           *)
(* implements Escrow.                                                      *)
(***************************************************************************)
(* The cached head of a tier with requests is its oldest one.              *)
LEMMA TierHeads ==
    ASSUME NEW q, IsQueue(q), Coherent(q), NEW t \in Tiers
    PROVE  IF PendingIn(q, t) = {} THEN q.tierLen[t] = 0
           ELSE /\ q.tierLen[t] # 0 /\ q.tierHead[t] # None
                /\ q.tierHead[t] \in PendingIn(q, t)
                /\ \A j \in PendingIn(q, t) : q.tierHead[t] <= j
<1>1. PendingIn(q, t) \in SUBSET Nat /\ IsFiniteSet(PendingIn(q, t))
  BY PendingIsFinite
<1>2. Cardinality(PendingIn(q, t)) = 0 <=> PendingIn(q, t) = {}
  BY <1>1, FS_EmptySet
<1>3. q.tierLen[t] = Cardinality(PendingIn(q, t)) /\ q.tierHead[t] = OldestOrNone(PendingIn(q, t))
  BY DEF Coherent
<1> QED BY <1>1, <1>2, <1>3, OldestIsLeast DEF OldestOrNone, None

LEMMA InvSchedules == Inv => SchedulerSound
<1> SUFFICES ASSUME Inv PROVE SchedulerSound
  OBVIOUS
<1> DEFINE bound   == IF wq.nextId < MaxTierScan THEN wq.nextId ELSE MaxTierScan
           scanned == {t \in Tiers : /\ t <= bound
                                     /\ wq.tierLen[t] # 0
                                     /\ wq.tierHead[t] # None}
           next    == NextPriority(wq)
           seen    == {i \in Pending(wq) : wq.req[i].tier <= wq.nextId
                                           /\ wq.req[i].tier <= MaxTierScan}
<1>1. IsQueue(wq) /\ Coherent(wq)
  BY DEF Inv, TypeOK, QueueTypeOK, QueueCoherent
<1>2. /\ wq.nextId \in Nat /\ Pending(wq) \subseteq Nat
      /\ \A i \in Pending(wq) : wq.req[i].tier \in Tiers
  BY <1>1, PendingIsFinite DEF IsQueue, Request
<1>3. Tiers \subseteq Nat /\ MaxTierScan \in Nat
  BY TiersAssumption
<1>4. \A t \in Nat : t <= bound <=> t <= wq.nextId /\ t <= MaxTierScan
  BY <1>2, <1>3
<1> HIDE DEF bound
<1>5. \A t \in Tiers : t \in scanned <=> t <= bound /\ PendingIn(wq, t) # {}
  BY <1>1, TierHeads
<1>6. next = IF scanned = {} THEN None ELSE wq.tierHead[Oldest(scanned)]
  BY DEF NextPriority, bound
<1>7. scanned \in SUBSET Nat
  BY <1>3
<1> HIDE DEF scanned, next
<1>8. CASE scanned = {}
  <2>1. next = None
    BY <1>6, <1>8
  <2>2. seen = {}
    <3> SUFFICES ASSUME NEW i \in seen PROVE FALSE
      OBVIOUS
    <3> DEFINE t == wq.req[i].tier
    <3>1. t \in Tiers /\ t \in Nat /\ i \in PendingIn(wq, t) /\ t <= bound
      BY <1>2, <1>3, <1>4 DEF PendingIn
    <3> QED BY <3>1, <1>5, <1>8
  <2> QED BY <2>1, <2>2 DEF SchedulerSound, next
<1>9. CASE scanned # {}
  <2> DEFINE best == Oldest(scanned)
  <2>1. best \in scanned /\ \A t \in scanned : best <= t
    BY <1>7, <1>9, OldestIsLeast
  <2> HIDE DEF best
  <2>2. best \in Tiers /\ best \in Nat /\ best <= bound /\ PendingIn(wq, best) # {}
    BY <1>3, <1>5, <2>1 DEF scanned
  <2>3. next = wq.tierHead[best]
    BY <1>6, <1>9 DEF best
  <2>4. /\ next # None /\ next \in PendingIn(wq, best)
        /\ \A j \in PendingIn(wq, best) : next <= j
    BY <1>1, <2>2, <2>3, TierHeads
  <2>5. next \in Pending(wq) /\ wq.req[next].tier = best
    BY <2>4 DEF PendingIn
  <2>6. ASSUME NEW i \in Pending(wq)
        PROVE  best < wq.req[i].tier \/ (best = wq.req[i].tier /\ next <= i)
    <3> DEFINE t == wq.req[i].tier
    <3>1. t \in Tiers /\ t \in Nat /\ i \in PendingIn(wq, t)
      BY <1>2, <1>3 DEF PendingIn
    <3>2. CASE t <= bound
      <4>1. best <= t
        BY <1>5, <2>1, <3>1, <3>2
      <4> QED BY <2>2, <2>4, <3>1, <4>1
    <3>3. CASE ~(t <= bound)
      <4>1. bound \in Nat
        BY <1>2, <1>3 DEF bound
      <4> QED BY <2>2, <3>1, <3>3, <4>1
    <3> QED BY <3>2, <3>3
  <2> QED BY <2>4, <2>5, <2>6 DEF SchedulerSound, next
<1> QED BY <1>8, <1>9

(* get_next_priority_withdrawal always names the oldest request of the     *)
(* lowest tier that holds any, whatever the tiers and the cap of its scan. *)
THEOREM SchedulerStaysSound == Spec => []SchedulerSound
BY InvSchedules, Invariance, PTL

-----------------------------------------------------------------------------
(* A step of the queue or of a depositor's money; every other step is      *)
(* quiet.                                                                  *)
MovesMoney ==
    \/ \E u \in Users, amt \in Amounts, p, expected, slip \in Int :
          Deposit(u, amt, p, expected, slip)
    \/ \E u \in Users, amt \in Amounts : Withdraw(u, amt)
    \/ \E u \in Users, amt \in Amounts, t \in Tiers : RequestWithdrawal(u, amt, t)
    \/ \E id \in Pending(wq), amt \in Amounts, nonce, p, expected, slip \in Int :
          ExecuteWithdrawal(id, amt, nonce, p, expected, slip)
    \/ \E id \in Pending(wq) : CancelWithdrawal(id) \/ ReclaimExpired(id)

Quiet ==
    /\ acct' = acct /\ wq' = wq
    /\ balance' >= balance \/ fees'.vault < fees.vault

LEMMA ArgumentTypes ==
    /\ Prices \cup {0} \subseteq Int /\ ExpectedPrices \subseteq Int /\ Slippages \subseteq Int
    /\ 0..U64_MAX \subseteq Int
<1>1. Prices \subseteq Int /\ ExpectedPrices \subseteq Int /\ Slippages \subseteq Nat
  BY BridgeAssumption
<1> QED BY <1>1

LEMMA StepKinds == Inv /\ [Next]_vars => MovesMoney \/ Quiet
<1> SUFFICES ASSUME Inv, [Next]_vars PROVE MovesMoney \/ Quiet
  OBVIOUS
<1>1. balance \in Nat /\ fees.vault \in Nat
      /\ fees \in [vault : Nat, nonce : Optional, legacy : Optional]
  BY DEF Inv, TypeOK, MoneyTypeOK
<1>2. CASE UserDeposits
  <2>1. ASSUME NEW u \in Users, NEW amt \in Amounts, NEW p \in Prices \cup {0},
               NEW expected \in ExpectedPrices, NEW slip \in Slippages,
               Deposit(u, amt, p, expected, slip)
        PROVE  MovesMoney
    <3>1. p \in Int /\ expected \in Int /\ slip \in Int
      BY ArgumentTypes
    <3> QED BY <2>1, <3>1 DEF MovesMoney
  <2> QED BY <1>2, <2>1 DEF UserDeposits
<1>3. CASE QueuePays
  <2>1. ASSUME NEW id \in Pending(wq), NEW amt \in Amounts, NEW p \in Prices \cup {0},
               NEW expected \in ExpectedPrices, NEW slip \in Slippages,
               NEW nonce \in 0..U64_MAX,
               ExecuteWithdrawal(id, amt, nonce, p, expected, slip)
        PROVE  MovesMoney
    <3>1. p \in Int /\ expected \in Int /\ slip \in Int /\ nonce \in Int
      BY ArgumentTypes
    <3> QED BY <2>1, <3>1 DEF MovesMoney
  <2> QED BY <1>3, <2>1 DEF QueuePays
<1>4. CASE \/ \E u \in Users, amt \in Amounts : Withdraw(u, amt)
           \/ \E u \in Users, amt \in Amounts, t \in Tiers : RequestWithdrawal(u, amt, t)
           \/ \E id \in Pending(wq) : CancelWithdrawal(id) \/ ReclaimExpired(id)
  BY <1>4 DEF MovesMoney
<1>5. ASSUME NEW amt \in Amounts, AccrueFee(amt) \/ WithdrawFees(amt) \/ Donate(amt)
      PROVE  Quiet
  <2>1. amt \in Nat \ {0}
    BY <1>5, BridgeAssumption DEF AccrueFee, WithdrawFees, Donate
  <2>2. CASE AccrueFee(amt)
    BY <1>1, <2>2 DEF AccrueFee, queueVars, Quiet
  <2>3. CASE WithdrawFees(amt)
    <3>1. fees'.vault = fees.vault - amt
      BY <2>3 DEF WithdrawFees
    <3> QED BY <1>1, <2>1, <2>3, <3>1 DEF WithdrawFees, PayFees, queueVars, Quiet
  <2>4. CASE Donate(amt)
    BY <1>1, <2>1, <2>4 DEF Donate, queueVars, Quiet
  <2> QED BY <1>5, <2>2, <2>3, <2>4
<1>6. ASSUME NEW nonce \in 0..U64_MAX, NEW listed \in BOOLEAN,
             WithdrawFeesBatch(nonce, listed)
      PROVE  Quiet
  <2> DEFINE swept == IF listed THEN fees.vault ELSE 0
  <2>1. swept \in Nat
    BY <1>1
  <2>2. /\ fees' = [fees EXCEPT !.vault = fees.vault - swept, !.nonce = nonce + 1]
        /\ PayFees(swept)
    BY <1>6 DEF WithdrawFeesBatch
  <2> HIDE DEF swept
  <2>3. fees'.vault = fees.vault - swept /\ balance' = balance - swept
    BY <1>1, <2>2 DEF PayFees
  <2> QED BY <1>1, <2>1, <2>2, <2>3 DEF PayFees, queueVars, Quiet
<1>7. CASE MigrateFeeNonce \/ Tick \/ ResetBreaker
  BY <1>1, <1>7 DEF MigrateFeeNonce, Tick, ResetBreaker, queueVars, Quiet
<1>8. CASE \/ Pause \/ Unpause
           \/ \E u \in Users : DenyAddress(u) \/ RemoveDeniedAddress(u)
           \/ \E b \in BOOLEAN : SetTokenAllowlistEnabled(b)
           \/ \E u \in Users : AddTokenAllowlist(u) \/ RemoveTokenAllowlist(u)
  <2>1. UnchangedButPolicy
    BY <1>8 DEF Pause, Unpause, StorePaused, DenyAddress, RemoveDeniedAddress, StoreDenied,
         SetTokenAllowlistEnabled, AddTokenAllowlist, RemoveTokenAllowlist, StoreAllow
  <2> QED BY <1>1, <2>1 DEF UnchangedButPolicy, queueVars, Quiet
<1>9. CASE Configure
  <2>1. \A c : StoreConfig(c) => UnchangedButPolicy
    BY DEF StoreConfig
  <2>2. UnchangedButPolicy
    BY <1>9, <2>1
       DEF Configure, SetLimit, SetLimitMaxCap, SetDailyDepositLimit, SetMinDeposit,
           SetCooldown, SetWithdrawalCooldown, SetLockPeriod, SetAntiSandwichDelay,
           SetOracle, SetFiatLimit, SetWithdrawalQuota, SetWithdrawalExpiry,
           SetBreakerThreshold, SetBreakerResetWindow
  <2> QED BY <1>1, <2>2 DEF UnchangedButPolicy, queueVars, Quiet
<1>10. CASE \E u \in Users : EvictLastDeposit(u) \/ EvictLastLarge(u)
  BY <1>1, <1>10 DEF EvictLastDeposit, EvictLastLarge, queueVars, Quiet
<1>11. CASE UNCHANGED vars
  BY <1>1, <1>11 DEF vars, queueVars, Quiet
<1> QED BY <1>2, <1>3, <1>4, <1>5, <1>6, <1>7, <1>8, <1>9, <1>10, <1>11 DEF Next

-----------------------------------------------------------------------------
(* A step that moves money leaves the tokens covering the books, unless it *)
(* is a reclaim, which touches neither tokens nor what the books owe.      *)
LEMMA MoneyMovesCovered ==
    ASSUME Inv, MovesMoney
    PROVE  \/ Solvent'
           \/ /\ balance' = balance /\ acct'.deposited = acct.deposited
              /\ acct'.withdrawn = acct.withdrawn
              /\ Pending(wq') \subseteq Pending(wq)
<1>1. IsQueue(wq) /\ acct \in [deposited : Nat, withdrawn : Nat, liabilities : Nat]
  BY DEF Inv, TypeOK, QueueTypeOK, MoneyTypeOK
<1>2. \/ InvariantsHold(acct', balance')
      \/ \E id \in Pending(wq) : ReclaimExpired(id)
  <2>1. ASSUME NEW u, NEW amt, NEW p, NEW expected, NEW slip,
               Deposit(u, amt, p, expected, slip)
        PROVE  InvariantsHold(acct', balance')
    BY <2>1 DEF Deposit
  <2>2. ASSUME NEW u, NEW amt, Withdraw(u, amt) PROVE InvariantsHold(acct', balance')
    BY <2>2 DEF Withdraw
  <2>3. ASSUME NEW u, NEW amt, NEW t, RequestWithdrawal(u, amt, t)
        PROVE  InvariantsHold(acct', balance')
    BY <2>3 DEF RequestWithdrawal
  <2>4. ASSUME NEW id, NEW amt, NEW nonce, NEW p, NEW expected, NEW slip,
               ExecuteWithdrawal(id, amt, nonce, p, expected, slip)
        PROVE  InvariantsHold(acct', balance')
    BY <2>4 DEF ExecuteWithdrawal
  <2>5. ASSUME NEW id, CancelWithdrawal(id) PROVE InvariantsHold(acct', balance')
    BY <2>5 DEF CancelWithdrawal, Release
  <2> QED BY <2>1, <2>2, <2>3, <2>4, <2>5 DEF MovesMoney
<1>3. CASE InvariantsHold(acct', balance')
  BY <1>3 DEF InvariantsHold, Solvent
<1>4. ASSUME NEW id \in Pending(wq), ReclaimExpired(id)
      PROVE  /\ balance' = balance /\ acct'.deposited = acct.deposited
             /\ acct'.withdrawn = acct.withdrawn /\ Pending(wq') \subseteq Pending(wq)
  <2> DEFINE e == Dequeue(wq, id)
  <2>1. IsDequeued(e, wq, id, wq.req[id].tier)
    BY <1>1, DequeueFields
  <2>2. wq' = e
    BY <1>4 DEF ReclaimExpired, Release
  <2> HIDE DEF e
  <2>3. Pending(e) = Pending(wq) \ {id}
    BY <2>1 DEF IsDequeued, Others, Pending
  <2> QED BY <1>1, <1>4, <2>2, <2>3 DEF ReclaimExpired, Release
<1> QED BY <1>2, <1>3, <1>4

(* Whatever is called in whatever order, a shortfall is opened by a fee    *)
(* payout or not at all.                                                   *)
THEOREM OnlyFeesOpenAShortfall == Spec => OnlyFeesCostSolvency
<1>1. Inv /\ [Next]_vars => [Solvent /\ ~Solvent' => fees'.vault < fees.vault]_vars
  <2> SUFFICES ASSUME Inv, [Next]_vars, Solvent, ~Solvent' PROVE fees'.vault < fees.vault
    OBVIOUS
  <2>1. balance \in Nat /\ acct \in [deposited : Nat, withdrawn : Nat, liabilities : Nat]
        /\ balance' \in Nat
    BY StepInv DEF Inv, TypeOK, MoneyTypeOK
  <2>2. CASE MovesMoney
    BY <2>1, <2>2, MoneyMovesCovered DEF Solvent, NetDeposited
  <2>3. CASE Quiet
    BY <2>1, <2>3 DEF Quiet, Solvent, NetDeposited
  <2> QED BY <2>2, <2>3, StepKinds
<1> QED BY <1>1, Invariance, PTL DEF Spec, OnlyFeesCostSolvency

(* While the tokens do not cover the books, nothing is deposited or paid   *)
(* and no request is added.                                                *)
THEOREM ShortfallFreezes == Spec => FrozenWhileShort
<1> DEFINE Frozen == /\ acct'.deposited = acct.deposited /\ acct'.withdrawn = acct.withdrawn
                     /\ Pending(wq') \subseteq Pending(wq)
<1>1. Inv /\ [Next]_vars => [~Solvent /\ ~Solvent' => Frozen]_vars
  <2> SUFFICES ASSUME Inv, [Next]_vars, ~Solvent' PROVE Frozen
    OBVIOUS
  <2>1. CASE MovesMoney
    BY <2>1, MoneyMovesCovered
  <2>2. CASE Quiet
    BY <2>2 DEF Quiet
  <2> QED BY <2>1, <2>2, StepKinds
<1> QED BY <1>1, Invariance, PTL DEF Spec, FrozenWhileShort

-----------------------------------------------------------------------------
(* Escrow's state and the queue: a claim is a pending request.             *)
LEMMA ClaimsOf ==
    /\ DOMAIN Claims = Pending(wq)
    /\ \A i \in Pending(wq) : Claims[i] = [to |-> wq.req[i].to, owed |-> wq.req[i].amount]
BY DEF Claims

LEMMA InvMoney ==
    ASSUME Inv
    PROVE  /\ TypeOK /\ IsQueue(wq)
           /\ acct \in [deposited : Nat, withdrawn : Nat, liabilities : Nat]
           /\ \A id \in Pending(wq) : wq.req[id].amount \in Nat
BY DEF Inv, TypeOK, QueueTypeOK, MoneyTypeOK, IsQueue, Request

LEMMA DepositFunds ==
    ASSUME Inv, NEW u \in Users, NEW amt \in Amounts, NEW p, NEW expected, NEW slip,
           Deposit(u, amt, p, expected, slip)
    PROVE  E!Fund(amt)
<1>1. amt \in Nat /\ amt > 0 /\ wq' = wq /\ acct' = [acct EXCEPT !.deposited = acct.deposited + amt]
  BY BridgeAssumption DEF Deposit, queueVars
<1>2. Claims' = Claims
  BY <1>1 DEF Claims
<1> QED BY <1>1, <1>2, InvMoney DEF E!Fund, NetDeposited

LEMMA WithdrawSpends ==
    ASSUME Inv, NEW u \in Users, NEW amt \in Amounts, Withdraw(u, amt)
    PROVE  E!Spend(amt)
<1>1. /\ amt \in Nat /\ amt > 0 /\ wq' = wq
      /\ acct' = [acct EXCEPT !.withdrawn = acct.withdrawn + amt]
      /\ acct'.liabilities <= NetDeposited(acct')
  BY BridgeAssumption DEF Withdraw, queueVars, InvariantsHold, BooksBalance
<1>2. Claims' = Claims
  BY <1>1 DEF Claims
<1> QED BY <1>1, <1>2, InvMoney DEF E!Spend, NetDeposited

LEMMA RequestClaims ==
    ASSUME Inv, NEW u \in Users, NEW amt \in Amounts, NEW tier \in Tiers,
           RequestWithdrawal(u, amt, tier)
    PROVE  E!Claim(u, amt)
<1> DEFINE r == [to |-> u, amount |-> amt, unlock |-> ledger + cfg.lock,
                 queued |-> ledger, tier |-> tier]
           n == wq.nextId
<1>1. /\ amt \in Nat /\ amt > 0
      /\ acct' = [acct EXCEPT !.liabilities = acct.liabilities + amt]
      /\ acct.liabilities + amt <= NetDeposited(acct)
      /\ wq' = Enqueue(wq, r)
  BY BridgeAssumption DEF RequestWithdrawal
<1>2. r.to = u /\ r.amount = amt
  OBVIOUS
<1> HIDE DEF r
<1>3. /\ wq'.nextId = n + 1
      /\ wq'.req = [i \in Pending(wq) \cup {n} |-> IF i = n THEN r ELSE wq.req[i]]
  BY <1>1 DEF Enqueue
<1>4. Pending(wq') = Pending(wq) \cup {n}
  BY <1>3 DEF Pending
<1>5. Claims' = [i \in DOMAIN Claims \cup {n} |->
                   IF i = n THEN [to |-> u, owed |-> amt] ELSE Claims[i]]
  <2>1. \A i \in Pending(wq) \cup {n} :
          [to |-> wq'.req[i].to, owed |-> wq'.req[i].amount]
            = IF i = n THEN [to |-> u, owed |-> amt] ELSE Claims[i]
    BY <1>2, <1>3, ClaimsOf
  <2> QED BY <1>4, <2>1, ClaimsOf DEF Claims
<1> QED BY <1>1, <1>3, <1>5, InvMoney DEF E!Claim, NetDeposited

LEMMA WithoutClaim ==
    ASSUME NEW id \in Pending(wq), IsQueue(wq), wq' = Dequeue(wq, id)
    PROVE  Claims' = E!Without(id) /\ wq'.nextId = wq.nextId
<1> DEFINE e == Dequeue(wq, id)
<1>1. IsDequeued(e, wq, id, wq.req[id].tier)
  BY DequeueFields
<1> HIDE DEF e
<1>2. /\ e.nextId = wq.nextId /\ Pending(e) = Pending(wq) \ {id}
      /\ \A i \in Pending(wq) \ {id} : e.req[i] = wq.req[i]
  BY <1>1 DEF IsDequeued, Others, Pending
<1>3. wq' = e
  BY DEF e
<1>4. Claims' = [i \in Pending(wq) \ {id} |->
                   [to |-> wq.req[i].to, owed |-> wq.req[i].amount]]
  BY <1>2, <1>3 DEF Claims
<1> QED BY <1>2, <1>3, <1>4, ClaimsOf DEF E!Without

LEMMA ExecuteSettles ==
    ASSUME Inv, NEW id \in Pending(wq), NEW amt \in Amounts, NEW nonce,
           NEW p, NEW expected, NEW slip,
           ExecuteWithdrawal(id, amt, nonce, p, expected, slip)
    PROVE  E!Settle(id, amt)
<1> DEFINE owed == wq.req[id].amount
<1>1. /\ amt \in Nat /\ amt > 0 /\ amt <= owed
      /\ acct' = [acct EXCEPT !.withdrawn = acct.withdrawn + amt,
                              !.liabilities = acct.liabilities - amt]
      /\ wq' = IF amt = owed THEN Dequeue(wq, id) ELSE Shrink(wq, id, amt)
  BY BridgeAssumption DEF ExecuteWithdrawal
<1>2. IsQueue(wq) /\ Claims[id].owed = owed /\ owed \in Nat
  BY InvMoney, ClaimsOf
<1>3. /\ wq'.nextId = wq.nextId
      /\ Claims' = IF amt = owed THEN E!Without(id)
                   ELSE [Claims EXCEPT ![id] =
                           [to |-> Claims[id].to, owed |-> Claims[id].owed - amt]]
  <2>1. CASE amt = owed
    BY <1>1, <1>2, <2>1, WithoutClaim
  <2>2. CASE amt # owed
    <3> DEFINE e == Shrink(wq, id, amt)
    <3>1. IsShrunk(e, wq, id, amt) /\ wq' = e
      BY <1>1, <1>2, <2>2, ShrinkFields
    <3> HIDE DEF e
    <3>2. wq.req[id] \in Request
      BY <1>2 DEF IsQueue
    <3>3. /\ e.nextId = wq.nextId /\ Pending(e) = Pending(wq)
          /\ \A i \in Pending(wq) \ {id} : e.req[i] = wq.req[i]
          /\ e.req[id].to = wq.req[id].to /\ e.req[id].amount = owed - amt
      BY <3>1, <3>2 DEF IsShrunk, Request, Pending
    <3>4. Claims' = [i \in Pending(wq) |->
                       [to |-> e.req[i].to, owed |-> e.req[i].amount]]
      BY <3>1, <3>3 DEF Claims
    <3>5. \A i \in Pending(wq) :
            [to |-> e.req[i].to, owed |-> e.req[i].amount]
              = IF i = id THEN [to |-> Claims[id].to, owed |-> Claims[id].owed - amt]
                ELSE Claims[i]
      BY <3>3, ClaimsOf
    <3>6. Claims' = [Claims EXCEPT ![id] =
                       [to |-> Claims[id].to, owed |-> Claims[id].owed - amt]]
      BY <3>4, <3>5, ClaimsOf
    <3> QED BY <2>2, <3>1, <3>3, <3>6
  <2> QED BY <2>1, <2>2
<1>4. [Claims[id] EXCEPT !.owed = Claims[id].owed - amt]
        = [to |-> Claims[id].to, owed |-> Claims[id].owed - amt]
  BY ClaimsOf
<1>5. /\ NetDeposited(acct') - acct'.liabilities = NetDeposited(acct) - acct.liabilities
      /\ acct'.withdrawn = acct.withdrawn + amt
  BY <1>1, InvMoney DEF NetDeposited
<1> QED BY <1>1, <1>2, <1>3, <1>4, <1>5 DEF E!Settle

LEMMA ReleaseAbandons ==
    ASSUME Inv, NEW id \in Pending(wq), Release(id)
    PROVE  E!Abandon(id)
<1>1. /\ acct' = [acct EXCEPT !.liabilities = acct.liabilities - wq.req[id].amount]
      /\ wq' = Dequeue(wq, id)
  BY DEF Release
<1>2. Claims[id].owed = wq.req[id].amount /\ wq.req[id].amount \in Nat
  BY InvMoney, ClaimsOf
<1>3. /\ NetDeposited(acct') - acct'.liabilities
           = NetDeposited(acct) - acct.liabilities + Claims[id].owed
      /\ acct'.withdrawn = acct.withdrawn
  BY <1>1, <1>2, InvMoney DEF NetDeposited
<1>4. Claims' = E!Without(id) /\ wq'.nextId = wq.nextId
  BY <1>1, InvMoney, WithoutClaim
<1> QED BY <1>3, <1>4 DEF E!Abandon

LEMMA StepSimulates == Inv /\ [Next]_vars => [E!EscrowNext]_(E!escrowVars)
<1> SUFFICES ASSUME Inv, [Next]_vars PROVE E!EscrowNext \/ UNCHANGED E!escrowVars
  OBVIOUS
<1>1. ASSUME NEW u \in Users, NEW amt \in Amounts, NEW p, NEW expected, NEW slip,
             Deposit(u, amt, p, expected, slip)
      PROVE  E!EscrowNext
  BY <1>1, DepositFunds DEF E!EscrowNext
<1>2. ASSUME NEW u \in Users, NEW amt \in Amounts, Withdraw(u, amt) PROVE E!EscrowNext
  BY <1>2, WithdrawSpends DEF E!EscrowNext
<1>3. ASSUME NEW u \in Users, NEW amt \in Amounts, NEW t \in Tiers,
             RequestWithdrawal(u, amt, t)
      PROVE  E!EscrowNext
  BY <1>3, RequestClaims DEF E!EscrowNext
<1>4. ASSUME NEW id \in Pending(wq), NEW amt \in Amounts, NEW nonce, NEW p,
             NEW expected, NEW slip,
             ExecuteWithdrawal(id, amt, nonce, p, expected, slip)
      PROVE  E!EscrowNext
  BY <1>4, ExecuteSettles, ClaimsOf DEF E!EscrowNext
<1>5. ASSUME NEW id \in Pending(wq), CancelWithdrawal(id) \/ ReclaimExpired(id)
      PROVE  E!EscrowNext
  BY <1>5, ReleaseAbandons, ClaimsOf DEF E!EscrowNext, CancelWithdrawal, ReclaimExpired
<1>6. CASE MovesMoney
  BY <1>1, <1>2, <1>3, <1>4, <1>5, <1>6 DEF MovesMoney
<1>7. CASE Quiet
  BY <1>7 DEF Quiet, E!escrowVars, Claims, NetDeposited
<1> QED BY <1>6, <1>7, StepKinds

(* The vault with its queue, tiers, limits, nonces and settings implements *)
(* the abstract escrow: every call is one abstract step or changes nothing *)
(* a payee is owed.                                                        *)
THEOREM VaultIsEscrow == Spec => ImplementsEscrow
<1>1. Init => E!EscrowInit
  <2> SUFFICES ASSUME Init PROVE E!EscrowInit
    OBVIOUS
  <2>1. acct = [deposited |-> 0, withdrawn |-> 0, liabilities |-> 0] /\ wq = EmptyQueue
    BY DEF Init
  <2>2. Pending(wq) = {} /\ wq.nextId = 0
    BY <2>1 DEF EmptyQueue, Pending
  <2> QED BY <2>1, <2>2 DEF E!EscrowInit, Claims, NetDeposited
<1>2. Inv /\ [Next]_vars => [E!EscrowNext]_(E!escrowVars)
  BY StepSimulates
<1> QED BY <1>1, <1>2, Invariance, PTL DEF Spec, ImplementsEscrow, E!EscrowSpec
=============================================================================

------------------------------ MODULE ChatProofs ------------------------------
(***************************************************************************)
(* Proofs about the chat side: what sends, cancellations, replays,         *)
(* restores and reloads do to the requests under way, then the drafts, the *)
(* answers, what the screen shows, the saved conversations and the texts   *)
(* with their masks and marks.  The arguments are about the values of the  *)
(* variables, given as parameters, so that a lemma applies before and      *)
(* after a step.                                                           *)
(***************************************************************************)
EXTENDS MCChat, FiniteSetTheorems, SequenceTheorems

Flights == [request : Requests, replay : BOOLEAN, aborted : BOOLEAN]

IdbOps == [op : {"getAll"}] \cup [op : {"add"}, request : Requests]
             \cup [op : {"remove"}, send : Sends]

SendsOf(list) == {r.send : r \in ToSet(list)}

OneEach(list) ==
    \A i, j \in DOMAIN list : list[i].send = list[j].send => i = j

Airborne(fl) == {f.request.send : f \in fl}

Stopped(f) == [f EXCEPT !.aborted = TRUE]

StoppedOf(fl, send) == {IF f.request.send = send THEN Stopped(f) ELSE f : f \in fl}

-----------------------------------------------------------------------------
LEMMA SendFacts == None \notin Sends /\ Sends \subseteq Nat /\ \A s \in Sends : s >= 1
BY SendsAssumption DEF None, Sends

LEMMA RequestFacts ==
  \A r \in Requests : /\ r.send \in Sends /\ r.snap.count \in 0 .. MaxSends
                      /\ r.snap.pending \in Pendings
BY DEF Requests

LEMMA FlightFacts ==
  /\ \A f \in Flights : /\ f.request \in Requests /\ f.request.send \in Sends
                        /\ f.replay \in BOOLEAN /\ f.aborted \in BOOLEAN
                        /\ Stopped(f) \in Flights
                        /\ Stopped(f).request = f.request /\ Stopped(f).replay = f.replay
                        /\ Stopped(f).aborted
  /\ \A r \in Requests, b \in BOOLEAN :
        /\ Flight(r, b) \in Flights
        /\ Flight(r, b).request = r /\ Flight(r, b).replay = b /\ ~Flight(r, b).aborted
<1>1. \A r \in Requests : r.send \in Sends
  BY RequestFacts
<1> HIDE DEF Requests
<1> QED BY <1>1 DEF Flights, Stopped, Flight

-----------------------------------------------------------------------------
(* Lists of requests.                                                      *)
LEMMA Joined ==
  ASSUME NEW p \in Seq(Requests), NEW q \in Seq(Requests), OneEach(p), OneEach(q),
         SendsOf(p) \cap SendsOf(q) = {}
  PROVE  /\ p \o q \in Seq(Requests) /\ OneEach(p \o q)
         /\ ToSet(p \o q) = ToSet(p) \cup ToSet(q)
         /\ SendsOf(p \o q) = SendsOf(p) \cup SendsOf(q)
<1> DEFINE l == p \o q
           m == Len(p)
           n == Len(q)
<1>1. /\ l \in Seq(Requests) /\ Len(l) = m + n /\ m \in Nat /\ n \in Nat
      /\ \A i \in 1 .. m + n : l[i] = IF i <= m THEN p[i] ELSE q[i - m]
  BY ConcatProperties
<1>2. DOMAIN p = 1 .. m /\ DOMAIN q = 1 .. n /\ DOMAIN l = 1 .. m + n
  BY <1>1
<1> HIDE DEF l, m, n
<1>3. \A i \in 1 .. m : i \in 1 .. m + n /\ l[i] = p[i]
  BY <1>1
<1>4. \A i \in 1 .. n : i + m \in 1 .. m + n /\ l[i + m] = q[i]
  <2> SUFFICES ASSUME NEW i \in 1 .. n PROVE i + m \in 1 .. m + n /\ l[i + m] = q[i]
    OBVIOUS
  <2>1. i + m \in 1 .. m + n /\ ~(i + m <= m) /\ i + m - m = i
    BY <1>1
  <2> QED BY <1>1, <2>1
<1>5. \A i \in 1 .. m + n : i \in 1 .. m \/ (i - m \in 1 .. n /\ l[i] = q[i - m])
  BY <1>1
<1>6. ToSet(l) = ToSet(p) \cup ToSet(q)
  <2>1. ToSet(p) \subseteq ToSet(l)
    BY <1>2, <1>3 DEF ToSet
  <2>2. ToSet(q) \subseteq ToSet(l)
    BY <1>2, <1>4 DEF ToSet
  <2>3. ASSUME NEW i \in 1 .. m + n PROVE l[i] \in ToSet(p) \cup ToSet(q)
    BY <1>2, <1>3, <1>5 DEF ToSet
  <2> QED BY <1>2, <2>1, <2>2, <2>3 DEF ToSet
<1>7. SendsOf(l) = SendsOf(p) \cup SendsOf(q)
  BY <1>6 DEF SendsOf
<1>8. \A i \in 1 .. m, j \in 1 .. n : p[i].send # q[j].send
  BY <1>2 DEF SendsOf, ToSet
<1>9. OneEach(l)
  <2> SUFFICES ASSUME NEW i \in 1 .. m + n, NEW j \in 1 .. m + n, l[i].send = l[j].send
               PROVE i = j
    BY <1>2 DEF OneEach
  <2>1. CASE i \in 1 .. m /\ j \in 1 .. m
    BY <1>2, <1>3, <2>1 DEF OneEach
  <2>2. CASE i \in 1 .. m /\ j \notin 1 .. m
    BY <1>3, <1>5, <1>8, <2>2
  <2>3. CASE i \notin 1 .. m /\ j \in 1 .. m
    BY <1>3, <1>5, <1>8, <2>3
  <2>4. CASE i \notin 1 .. m /\ j \notin 1 .. m
    <3>1. i - m \in 1 .. n /\ j - m \in 1 .. n /\ q[i - m].send = q[j - m].send
      BY <1>5, <2>4
    <3>2. i - m = j - m
      BY <1>2, <3>1 DEF OneEach
    <3> QED BY <1>1, <3>2
  <2> QED BY <2>1, <2>2, <2>3, <2>4
<1> QED BY <1>1, <1>6, <1>7, <1>9 DEF l

LEMMA Alone ==
  ASSUME NEW r \in Requests
  PROVE  /\ <<r>> \in Seq(Requests) /\ OneEach(<<r>>)
         /\ ToSet(<<r>>) = {r} /\ SendsOf(<<r>>) = {r.send}
<1>1. <<r>> \in Seq(Requests) /\ DOMAIN <<r>> = {1} /\ <<r>>[1] = r
  OBVIOUS
<1>2. ToSet(<<r>>) = {r}
  BY <1>1 DEF ToSet
<1> QED BY <1>1, <1>2 DEF OneEach, SendsOf

LEMMA Queued ==
  ASSUME NEW q \in Seq(Requests), OneEach(q), NEW r \in Requests, r.send \notin SendsOf(q)
  PROVE  /\ Append(q, r) \in Seq(Requests) /\ OneEach(Append(q, r))
         /\ ToSet(Append(q, r)) = ToSet(q) \cup {r}
         /\ SendsOf(Append(q, r)) = SendsOf(q) \cup {r.send}
         /\ <<r>> \o q \in Seq(Requests) /\ OneEach(<<r>> \o q)
         /\ ToSet(<<r>> \o q) = ToSet(q) \cup {r}
         /\ SendsOf(<<r>> \o q) = SendsOf(q) \cup {r.send}
<1>1. /\ <<r>> \in Seq(Requests) /\ OneEach(<<r>>)
      /\ ToSet(<<r>>) = {r} /\ SendsOf(<<r>>) = {r.send}
  BY Alone
<1>2. Append(q, r) = q \o <<r>>
  <2> HIDE DEF Requests
  <2> QED BY AppendIsConcat
<1>3. SendsOf(q) \cap SendsOf(<<r>>) = {} /\ SendsOf(<<r>>) \cap SendsOf(q) = {}
  BY <1>1
<1>4. /\ q \o <<r>> \in Seq(Requests) /\ OneEach(q \o <<r>>)
      /\ ToSet(q \o <<r>>) = ToSet(q) \cup ToSet(<<r>>)
      /\ SendsOf(q \o <<r>>) = SendsOf(q) \cup SendsOf(<<r>>)
  BY <1>1, <1>3, Joined
<1>5. /\ <<r>> \o q \in Seq(Requests) /\ OneEach(<<r>> \o q)
      /\ ToSet(<<r>> \o q) = ToSet(<<r>>) \cup ToSet(q)
      /\ SendsOf(<<r>> \o q) = SendsOf(<<r>>) \cup SendsOf(q)
  BY <1>1, <1>3, Joined
<1> QED BY <1>1, <1>2, <1>4, <1>5

LEMMA Dequeued ==
  ASSUME NEW q \in Seq(Requests), OneEach(q), q # <<>>
  PROVE  /\ Head(q) \in Requests /\ Head(q) \in ToSet(q)
         /\ Tail(q) \in Seq(Requests) /\ OneEach(Tail(q))
         /\ ToSet(Tail(q)) \subseteq ToSet(q)
         /\ SendsOf(q) = SendsOf(Tail(q)) \cup {Head(q).send}
         /\ Head(q).send \notin SendsOf(Tail(q))
<1> DEFINE t == Tail(q)
           n == Len(q)
           h == Head(q)
<1>1. /\ n \in Nat /\ n >= 1 /\ h = q[1] /\ h \in Requests
      /\ t \in Seq(Requests) /\ Len(t) = n - 1 /\ \A i \in 1 .. n - 1 : t[i] = q[i + 1]
  BY HeadTailProperties, EmptySeq, LenProperties
<1>2. DOMAIN q = 1 .. n /\ DOMAIN t = 1 .. n - 1
  BY <1>1
<1> HIDE DEF t, n, h
<1>3. \A i \in 1 .. n - 1 : i + 1 \in 1 .. n /\ i + 1 # 1 /\ t[i] = q[i + 1]
  BY <1>1
<1>4. \A i \in 1 .. n : i = 1 \/ (i - 1 \in 1 .. n - 1 /\ t[i - 1] = q[i])
  <2> SUFFICES ASSUME NEW i \in 1 .. n, i # 1 PROVE i - 1 \in 1 .. n - 1 /\ t[i - 1] = q[i]
    OBVIOUS
  <2>1. i - 1 \in 1 .. n - 1 /\ i - 1 + 1 = i
    BY <1>1
  <2> QED BY <1>1, <2>1
<1>5. 1 \in 1 .. n
  BY <1>1
<1>6. ToSet(q) = ToSet(t) \cup {h} /\ h \in ToSet(q)
  <2>1. h \in ToSet(q)
    BY <1>1, <1>2, <1>5 DEF ToSet
  <2>2. ToSet(t) \subseteq ToSet(q)
    BY <1>2, <1>3 DEF ToSet
  <2>3. ASSUME NEW i \in 1 .. n PROVE q[i] \in ToSet(t) \cup {h}
    BY <1>1, <1>2, <1>4 DEF ToSet
  <2>4. ToSet(q) \subseteq ToSet(t) \cup {h}
    BY <1>2, <2>3 DEF ToSet
  <2> QED BY <2>1, <2>2, <2>4
<1>7. \A i, j \in 1 .. n - 1 : t[i].send = t[j].send => i = j
  <2> SUFFICES ASSUME NEW i \in 1 .. n - 1, NEW j \in 1 .. n - 1, t[i].send = t[j].send
               PROVE i = j
    OBVIOUS
  <2>1. i + 1 = j + 1
    BY <1>2, <1>3 DEF OneEach
  <2> QED BY <2>1
<1>8. \A i \in 1 .. n - 1 : t[i].send # h.send
  BY <1>1, <1>2, <1>3, <1>5 DEF OneEach
<1>9. h.send \notin SendsOf(t)
  BY <1>2, <1>8 DEF SendsOf, ToSet
<1>10. SendsOf(q) = SendsOf(t) \cup {h.send}
  BY <1>6 DEF SendsOf
<1>11. OneEach(t)
  BY <1>2, <1>7 DEF OneEach
<1> QED BY <1>1, <1>6, <1>9, <1>10, <1>11 DEF t, n, h

(* What a removal leaves: the other sends, still once each.                *)
LEMMA Removed ==
  ASSUME NEW q \in Seq(Requests), OneEach(q), NEW Good
  PROVE  /\ Filtered(q, Good) \in Seq(Requests) /\ OneEach(Filtered(q, Good))
         /\ ToSet(Filtered(q, Good)) \subseteq ToSet(q)
<1> DEFINE k == Filtered(q, Good)
<1>1. k \in Seq(Requests) /\ ToSet(k) = ToSet(q) \cap Good
  <2> HIDE DEF Requests
  <2> QED BY FilteredType, FilteredMembers
<1>2. DOMAIN q = 1 .. Len(q) /\ \A i, j \in DOMAIN q : q[i] = q[j] => i = j
  BY DEF OneEach
<1>3. IsInjective(q)
  BY <1>2 DEF IsInjective
<1>4. IsInjective(k)
  <2> HIDE DEF Requests
  <2> QED BY <1>3, FilteredDistinct
<1> HIDE DEF k
<1>5. \A i, j \in DOMAIN k : k[i] = k[j] => i = j
  BY <1>4 DEF IsInjective
<1>6. \A i \in DOMAIN k : \E a \in DOMAIN q : k[i] = q[a]
  <2>1. \A i \in DOMAIN k : k[i] \in ToSet(k)
    BY DEF ToSet
  <2> QED BY <1>1, <2>1 DEF ToSet
<1>7. OneEach(k)
  <2> SUFFICES ASSUME NEW i \in DOMAIN k, NEW j \in DOMAIN k, k[i].send = k[j].send
               PROVE k[i] = k[j]
    BY <1>5 DEF OneEach
  <2> QED BY <1>6 DEF OneEach
<1> QED BY <1>1, <1>7 DEF k

-----------------------------------------------------------------------------
(* The requests under way: one per message, at most one of them live and   *)
(* that one the owner of the controller, at most one of the replay loop.   *)
Owned(fl, act, ld, rp) ==
    /\ fl \subseteq Flights /\ act \in Sends \cup {None} /\ ld \in BOOLEAN /\ rp \in BOOLEAN
    /\ \A f, g \in fl : f.request.send = g.request.send => f = g
    /\ ld <=> act # None
    /\ \A f \in fl : ~f.aborted => f.request.send = act
    /\ act # None => \E f \in fl : ~f.aborted /\ f.request.send = act
    /\ rp <=> \E f \in fl : f.replay
    /\ \A f, g \in fl : f.replay /\ g.replay => f = g

Requested(fl) == {f.request : f \in fl}

(* A call that has settled is taken out, and the controller if it had it.  *)
LEMMA Leaving ==
  ASSUME NEW fl, NEW act, NEW ld, NEW rp, Owned(fl, act, ld, rp), NEW f \in fl
  PROVE  /\ act = f.request.send => Owned(fl \ {f}, None, FALSE, rp /\ ~f.replay)
         /\ act # f.request.send /\ f.aborted => Owned(fl \ {f}, act, ld, rp /\ ~f.replay)
         /\ Airborne(fl \ {f}) = Airborne(fl) \ {f.request.send}
         /\ Requested(fl \ {f}) \subseteq Requested(fl)
         /\ ~f.aborted => act = f.request.send
         /\ f.aborted => act # f.request.send
<1>1. f \in Flights /\ f.request.send \in Sends /\ f.request.send # None
  BY FlightFacts, SendFacts DEF Owned
<1>2. ASSUME f.aborted PROVE act # f.request.send
  <2> SUFFICES ASSUME act = f.request.send PROVE FALSE
    OBVIOUS
  <2>1. PICK g \in fl : ~g.aborted /\ g.request.send = act
    BY <1>1 DEF Owned
  <2>2. g = f
    BY <2>1 DEF Owned
  <2> QED BY <1>2, <2>1, <2>2
<1>3. ASSUME ~f.aborted PROVE act = f.request.send
  BY <1>3 DEF Owned
<1>4. Airborne(fl \ {f}) = Airborne(fl) \ {f.request.send}
  <2>1. \A g \in fl : g # f => g.request.send # f.request.send
    BY DEF Owned
  <2> QED BY <2>1 DEF Airborne
<1>5. (rp /\ ~f.replay) <=> \E g \in fl \ {f} : g.replay
  BY DEF Owned
<1>6. ASSUME act = f.request.send PROVE Owned(fl \ {f}, None, FALSE, rp /\ ~f.replay)
  <2>1. \A g \in fl \ {f} : g.aborted
    <3> SUFFICES ASSUME NEW g \in fl, ~g.aborted PROVE g = f
      BY FlightFacts DEF Owned
    <3>1. g.request.send = act
      BY DEF Owned
    <3> QED BY <1>6, <3>1 DEF Owned
  <2> QED BY <1>5, <2>1 DEF Owned
<1>7. ASSUME act # f.request.send, f.aborted PROVE Owned(fl \ {f}, act, ld, rp /\ ~f.replay)
  <2>1. act # None => \E g \in fl \ {f} : ~g.aborted /\ g.request.send = act
    BY <1>7 DEF Owned
  <2> QED BY <1>5, <2>1 DEF Owned
<1> QED BY <1>2, <1>3, <1>4, <1>6, <1>7 DEF Requested

(* The controller's request is aborted, by a cancel or an offline send.    *)
LEMMA Aborting ==
  ASSUME NEW fl, NEW act, NEW ld, NEW rp, Owned(fl, act, ld, rp)
  PROVE  /\ Owned(StoppedOf(fl, act), None, FALSE, rp)
         /\ Airborne(StoppedOf(fl, act)) = Airborne(fl)
         /\ Requested(StoppedOf(fl, act)) = Requested(fl)
         /\ \A g \in StoppedOf(fl, act) :
               g.aborted /\ \E f \in fl : g.request = f.request /\ g.replay = f.replay
<1> DEFINE new(f) == IF f.request.send = act THEN Stopped(f) ELSE f
<1>1. \A f \in fl : /\ new(f) \in Flights /\ new(f).request = f.request
                    /\ new(f).replay = f.replay /\ new(f).aborted
  BY FlightFacts DEF Owned
<1>2. StoppedOf(fl, act) = {new(f) : f \in fl}
  BY DEF StoppedOf
<1>3. fl \subseteq Flights
  BY DEF Owned
<1> HIDE DEF new
<1>4. Airborne(StoppedOf(fl, act)) = Airborne(fl)
  BY <1>1, <1>2 DEF Airborne
<1>5. Requested(StoppedOf(fl, act)) = Requested(fl)
  BY <1>1, <1>2 DEF Requested
<1>6. \A g \in StoppedOf(fl, act) :
         g \in Flights /\ g.aborted
         /\ \E f \in fl : g = new(f) /\ g.request = f.request /\ g.replay = f.replay
  BY <1>1, <1>2
<1>7. \A f \in fl : new(f) \in StoppedOf(fl, act)
  BY <1>2
<1>8. Owned(StoppedOf(fl, act), None, FALSE, rp)
  <2>1. \A f, g \in StoppedOf(fl, act) : f.request.send = g.request.send => f = g
    BY <1>6 DEF Owned
  <2>2. \A f, g \in StoppedOf(fl, act) : f.replay /\ g.replay => f = g
    BY <1>6 DEF Owned
  <2>3. rp <=> \E f \in StoppedOf(fl, act) : f.replay
    BY <1>1, <1>6, <1>7 DEF Owned
  <2>4. rp \in BOOLEAN
    BY DEF Owned
  <2> QED BY <1>6, <2>1, <2>2, <2>3, <2>4 DEF Owned
<1> QED BY <1>4, <1>5, <1>6, <1>8

Replays(fl) == \E f \in fl : f.replay

Apart(fl) ==
    /\ fl \subseteq Flights
    /\ \A f, g \in fl : f.request.send = g.request.send => f = g
    /\ \A f, g \in fl : f.replay /\ g.replay => f = g

Fresh(live, r, b, rp) ==
    /\ Apart(live) /\ r \in Requests /\ r.send \notin Airborne(live)
    /\ b \in BOOLEAN /\ rp \in BOOLEAN
    /\ b => ~Replays(live)
    /\ rp <=> (b \/ Replays(live))

Flown(all, live, r, b, rp) ==
    /\ Owned(all, r.send, TRUE, rp)
    /\ Airborne(all) = Airborne(live) \cup {r.send}
    /\ Requested(all) = Requested(live) \cup {r}
    /\ \A g \in all : \/ g.request = r /\ g.replay = b
                      \/ \E f \in live : g.request = f.request /\ g.replay = f.replay

(* A request is launched: every other one is aborted by the assistant.     *)
LEMMA Launching ==
  ASSUME NEW live, NEW r, NEW b, NEW rp, Fresh(live, r, b, rp)
  PROVE  Flown(Launched(live, r, b), live, r, b, rp)
<1> USE DEF Fresh, Apart, Replays
<1> DEFINE off == {Stopped(f) : f \in live}
           up  == Flight(r, b)
           all == Launched(live, r, b)
<1>1. all = off \cup {up}
  BY DEF Launched, Stopped
<1>2. up \in Flights /\ up.request = r /\ up.replay = b /\ ~up.aborted
  BY FlightFacts
<1>3. \A f \in live : /\ Stopped(f) \in Flights /\ Stopped(f).request = f.request
                      /\ Stopped(f).replay = f.replay /\ Stopped(f).aborted
                      /\ f.request.send # r.send
  BY FlightFacts DEF Airborne
<1>4. r.send \in Sends /\ r.send # None
  BY RequestFacts, SendFacts
<1> HIDE DEF up
<1>5. Airborne(all) = Airborne(live) \cup {r.send}
  <2>1. Airborne(off) = Airborne(live)
    BY <1>3 DEF Airborne
  <2> QED BY <1>1, <1>2, <2>1 DEF Airborne
<1>6. Requested(all) = Requested(live) \cup {r}
  <2>1. Requested(off) = Requested(live)
    BY <1>3 DEF Requested
  <2>2. Requested({up}) = {r}
    BY <1>2 DEF Requested
  <2>3. Requested(off \cup {up}) = Requested(off) \cup Requested({up})
    BY DEF Requested
  <2> QED BY <1>1, <2>1, <2>2, <2>3
<1>7. \A g \in off : /\ g \in Flights /\ g.aborted /\ g.request.send # r.send
                     /\ \E f \in live : g = Stopped(f) /\ g.request = f.request
                                        /\ g.replay = f.replay
  BY <1>3
<1>8. \A f \in live : Stopped(f) \in off
  OBVIOUS
<1> HIDE DEF off, all
<1>9. Owned(all, r.send, TRUE, rp)
  <2>1. \A f, g \in all : f.request.send = g.request.send => f = g
    BY <1>1, <1>2, <1>7
  <2>2. \A f, g \in all : f.replay /\ g.replay => f = g
    BY <1>1, <1>2, <1>7
  <2>3. rp <=> \E f \in all : f.replay
    BY <1>1, <1>2, <1>3, <1>7, <1>8
  <2>4. all \subseteq Flights
    BY <1>1, <1>2, <1>7
  <2>5. \A f \in all : ~f.aborted => f.request.send = r.send
    BY <1>1, <1>2, <1>7
  <2>6. \E f \in all : ~f.aborted /\ f.request.send = r.send
    BY <1>1, <1>2
  <2> QED BY <1>4, <2>1, <2>2, <2>3, <2>4, <2>5, <2>6 DEF Owned
<1>10. \A g \in all : \/ g.request = r /\ g.replay = b
                      \/ \E f \in live : g.request = f.request /\ g.replay = f.replay
  BY <1>1, <1>2, <1>7
<1> QED BY <1>5, <1>6, <1>9, <1>10 DEF all, Flown

-----------------------------------------------------------------------------
(* The machine keeps its shape, and no event makes its count grow.         *)
Machines == [state : ChatStates,
             ctx : [count : 0 .. MaxSends, cancelled : BOOLEAN, pending : Pendings,
                    needs : BOOLEAN]]

MachinesCounting(counts) ==
    [state : ChatStates,
     ctx : [count : counts, cancelled : BOOLEAN, pending : Pendings, needs : BOOLEAN]]

LEMMA SteppedAnywhere ==
  ASSUME NEW counts \in SUBSET Nat, 0 \in counts, NEW m \in MachinesCounting(counts), NEW event
  PROVE  /\ Step(m, event) \in MachinesCounting(counts)
         /\ Step(m, event).ctx.count <= m.ctx.count
<1> DEFINE Contexts == [count : counts, cancelled : BOOLEAN, pending : Pendings,
                        needs : BOOLEAN]
<1>1. m.state \in ChatStates /\ m.ctx \in Contexts
  BY DEF MachinesCounting
<1>2. ASSUME NEW c \in Contexts, NEW state
      PROVE  Action(c, state, event) \in Contexts /\ Action(c, state, event).count <= c.count
  <2>1. /\ c.count \in counts /\ c.count >= 0 /\ 0 \in counts /\ c.count <= c.count
        /\ c.cancelled \in BOOLEAN /\ c.pending \in Pendings /\ c.needs \in BOOLEAN
        /\ "none" \in Pendings
    <3>1. "none" \in Pendings
      BY DEF Pendings
    <3>2. /\ c.count \in counts /\ c.cancelled \in BOOLEAN /\ c.pending \in Pendings
          /\ c.needs \in BOOLEAN
      OBVIOUS
    <3> HIDE DEF Contexts
    <3>3. c.count \in Nat
      BY <3>2
    <3>4. c.count >= 0 /\ c.count <= c.count
      BY <3>3
    <3> QED BY <3>1, <3>2, <3>4
  <2>2. NewContext \in Contexts /\ NewContext.count = 0
    BY <2>1 DEF NewContext
  <2>3. [NewContext EXCEPT !.needs = c.needs] \in Contexts
        /\ [NewContext EXCEPT !.needs = c.needs].count = 0
    BY <2>1 DEF NewContext
  <2>4. [c EXCEPT !.count = 0] \in Contexts /\ [c EXCEPT !.count = 0].count = 0
    BY <2>1
  <2>5. [c EXCEPT !.count = 0, !.pending = "none"] \in Contexts
        /\ [c EXCEPT !.count = 0, !.pending = "none"].count = 0
    BY <2>1
  <2>6. ASSUME NEW p \in Pendings
        PROVE  /\ [c EXCEPT !.cancelled = TRUE, !.pending = p] \in Contexts
               /\ [c EXCEPT !.cancelled = TRUE, !.pending = p].count = c.count
    BY <2>1
  <2>7. [c EXCEPT !.cancelled = TRUE,
                  !.pending = IF state \in {"AWAITING_CLARIFICATION", "TRANSACTION_TRIGGERED"}
                              THEN @ ELSE "none"]
        = [c EXCEPT !.cancelled = TRUE,
                    !.pending = IF state \in {"AWAITING_CLARIFICATION", "TRANSACTION_TRIGGERED"}
                                THEN c.pending ELSE "none"]
    OBVIOUS
  <2>8. CASE event = "CANCEL_FLOW"
    BY <2>1, <2>6, <2>7, <2>8 DEF Action
  <2>9. CASE event # "CANCEL_FLOW"
    <3> HIDE DEF Contexts
    <3>1. Action(c, state, event)
            \in {NewContext, [NewContext EXCEPT !.needs = c.needs], [c EXCEPT !.count = 0],
                 [c EXCEPT !.count = 0, !.pending = "none"], c}
      BY <2>9 DEF Action
    <3> QED BY <2>1, <2>2, <2>3, <2>4, <2>5, <3>1
  <2> QED BY <2>8, <2>9
<1>3. \A arc \in Arcs : arc[3] \in ChatStates
  BY DEF Arcs, ChatStates
<1> HIDE DEF Contexts
<1>4. CASE CanTransition(m, event)
  <2> DEFINE arc == CHOOSE a \in Arcs : a[1] = m.state /\ a[2] = event
  <2>1. arc \in Arcs
    BY <1>4 DEF CanTransition
  <2>2. Step(m, event) = [state |-> arc[3], ctx |-> Action(m.ctx, m.state, event)]
    BY <1>4 DEF Step
  <2> HIDE DEF arc
  <2>3. arc[3] \in ChatStates
    BY <1>3, <2>1
  <2>4. MachinesCounting(counts) = [state : ChatStates, ctx : Contexts]
    BY DEF MachinesCounting, Contexts
  <2> QED BY <1>1, <1>2, <2>2, <2>3, <2>4
<1>5. CASE ~CanTransition(m, event)
  <2>1. m.ctx.count \in Nat
    BY <1>1 DEF Contexts
  <2> QED BY <1>5, <2>1 DEF Step
<1> QED BY <1>4, <1>5

LEMMA Stepped ==
  ASSUME NEW m \in Machines, NEW event
  PROVE  Step(m, event) \in Machines /\ Step(m, event).ctx.count <= m.ctx.count
<1>1. 0 .. MaxSends \in SUBSET Nat /\ 0 \in 0 .. MaxSends
  BY SendsAssumption
<1>2. Machines = MachinesCounting(0 .. MaxSends)
  BY DEF Machines, MachinesCounting
<1> QED BY <1>1, <1>2, SteppedAnywhere

LEMMA CountedKeeps ==
  ASSUME NEW m \in Machines, NEW r \in Requests, r.snap.count < r.send
  PROVE  Counted(m, r) \in Machines /\ Counted(m, r).ctx.count <= r.send
<1> DEFINE n == r.snap.count + 1
           c == [m EXCEPT !.ctx.count = n]
<1>1. r.snap.count \in 0 .. MaxSends /\ r.send \in 1 .. MaxSends
  BY RequestFacts DEF Sends
<1>2. n \in 0 .. MaxSends /\ n <= r.send /\ MaxSends \in Nat /\ r.send \in Nat
  BY <1>1, SendsAssumption
<1>3. Counted(m, r) = IF r.cancels THEN Step(c, "CANCEL_FLOW") ELSE c
  BY DEF Counted
<1> HIDE DEF n
<1>4. c \in Machines /\ c.ctx.count = n
  BY <1>2 DEF Machines
<1>5. Step(c, "CANCEL_FLOW") \in Machines /\ Step(c, "CANCEL_FLOW").ctx.count <= n
  <2> HIDE DEF c
  <2> QED BY <1>4, Stepped
<1>6. Step(c, "CANCEL_FLOW").ctx.count \in Nat
  BY <1>5 DEF Machines
<1> HIDE DEF c
<1> QED BY <1>2, <1>3, <1>4, <1>5, <1>6

LEMMA RespondedKeeps ==
  ASSUME NEW m \in Machines, NEW r \in Requests, r.snap.count < r.send, NEW outcome
  PROVE  Responded(m, r, outcome) \in Machines /\ Responded(m, r, outcome).ctx.count <= r.send
<1> DEFINE n == r.snap.count + 1
           pending == Merged(r.snap.pending, Extracted(outcome))
           informed == Informed(Counted(m, r), n, pending, Vague(outcome))
           Fits(x) == x \in Machines /\ x.ctx.count <= r.send
           done == Step(informed, "ANALYSIS_COMPLETE")
           clear == IF Vague(outcome) THEN Step(done, "RECEIVE_CLARIFICATION") ELSE done
           triggered == IF AutoTriggers(r, outcome, pending) /\ pending = "data"
                        THEN Step(clear, "TRIGGER_TRANSACTION") ELSE clear
<1>1. r.snap.count \in 0 .. MaxSends /\ r.send \in 1 .. MaxSends
  BY RequestFacts DEF Sends
<1>2. n \in 0 .. MaxSends /\ n <= r.send /\ MaxSends \in Nat /\ r.send \in Nat
  BY <1>1, SendsAssumption
<1>3. pending \in Pendings /\ Vague(outcome) \in BOOLEAN
  BY DEF Merged, Pendings, Vague
<1>4. \A x, event : Fits(x) => Fits(Step(x, event))
  <2> SUFFICES ASSUME NEW x \in Machines, x.ctx.count <= r.send, NEW event
               PROVE  Fits(Step(x, event))
    OBVIOUS
  <2>1. Step(x, event) \in Machines /\ Step(x, event).ctx.count <= x.ctx.count
    BY Stepped
  <2>2. x.ctx.count \in Nat /\ Step(x, event).ctx.count \in Nat
    BY <2>1 DEF Machines
  <2> QED BY <1>2, <2>1, <2>2
<1>5. Responded(m, r, outcome)
        = IF triggered.state = "ANALYZING" THEN Step(triggered, "ANALYSIS_COMPLETE") ELSE triggered
  BY DEF Responded
<1> HIDE DEF n, pending
<1>6. Fits(informed)
  <2>1. Counted(m, r) \in Machines
    BY CountedKeeps
  <2> QED BY <1>2, <1>3, <2>1 DEF Informed, Machines
<1> HIDE DEF Fits, informed
<1>7. Fits(done) /\ Fits(clear)
  BY <1>4, <1>6
<1> HIDE DEF done, clear
<1>8. Fits(triggered)
  BY <1>4, <1>7
<1> HIDE DEF triggered
<1> QED BY <1>4, <1>5, <1>8 DEF Fits

-----------------------------------------------------------------------------
(* The operations waiting for IndexedDB.                                   *)
AddsOf(ops) == {o.request.send : o \in {p \in ToSet(ops) : p.op = "add"}}

AddedRequests(ops) == {o.request : o \in {p \in ToSet(ops) : p.op = "add"}}

AddsOnce(ops) ==
    \A k, l \in DOMAIN ops :
       ops[k].op = "add" /\ ops[l].op = "add" /\ ops[k].request.send = ops[l].request.send
       => k = l

Restoring(ops) == ops # <<>> /\ ops[1].op = "getAll"

Done == {"sent", "failed"}

Issued(ops, st) ==
    /\ ops \in Seq(IdbOps) /\ AddsOnce(ops)
    /\ \A k \in DOMAIN ops : ops[k].op = "getAll" => k = 1
    /\ \A o \in ToSet(ops) : o.op = "remove" => st[o.send] \in Done

LEMMA OpFacts ==
  /\ \A o \in IdbOps : /\ o.op \in {"getAll", "add", "remove"}
                       /\ o.op = "add" => o.request \in Requests /\ o.request.send \in Sends
                       /\ o.op = "remove" => o.send \in Sends
  /\ [op |-> "getAll"] \in IdbOps
  /\ \A r \in Requests : [op |-> "add", request |-> r] \in IdbOps
  /\ \A s \in Sends : [op |-> "remove", send |-> s] \in IdbOps
<1>1. \A r \in Requests : r.send \in Sends
  BY RequestFacts
<1> HIDE DEF Requests
<1> QED BY <1>1 DEF IdbOps

LEMMA AnOpMore ==
  ASSUME NEW ops, NEW st, Issued(ops, st), NEW o \in IdbOps, o.op # "getAll",
         o.op = "remove" => st[o.send] \in Done,
         o.op = "add" => o.request.send \notin AddsOf(ops)
  PROVE  /\ Issued(Append(ops, o), st)
         /\ Restoring(Append(ops, o)) <=> Restoring(ops)
         /\ o.op = "remove" => /\ AddsOf(Append(ops, o)) = AddsOf(ops)
                               /\ AddedRequests(Append(ops, o)) = AddedRequests(ops)
         /\ o.op = "add" => /\ AddsOf(Append(ops, o)) = AddsOf(ops) \cup {o.request.send}
                            /\ AddedRequests(Append(ops, o))
                                 = AddedRequests(ops) \cup {o.request}
<1> DEFINE l == Append(ops, o)
           n == Len(ops)
<1>1. ops \in Seq(IdbOps) /\ AddsOnce(ops)
  BY DEF Issued
<1>2. /\ n \in Nat /\ l \in Seq(IdbOps) /\ Len(l) = n + 1 /\ l[n + 1] = o
      /\ \A i \in 1 .. n : l[i] = ops[i]
  <2> HIDE DEF IdbOps
  <2> QED BY <1>1
<1>3. ToSet(l) = ToSet(ops) \cup {o}
  <2> HIDE DEF IdbOps
  <2> QED BY <1>1, AppendMembers
<1>4. DOMAIN ops = 1 .. n /\ DOMAIN l = 1 .. n + 1
  <2> HIDE DEF IdbOps
  <2> QED BY <1>1, <1>2
<1>5. ops = <<>> <=> n = 0
  <2> HIDE DEF IdbOps
  <2> QED BY <1>1, EmptySeq
<1> HIDE DEF l, n
<1>6. \A i \in 1 .. n + 1 : i = n + 1 \/ i \in 1 .. n
  BY <1>2
<1>7. l # <<>> /\ (n = 0 => l[1] = o) /\ (n # 0 => l[1] = ops[1])
  <2>1. l # <<>>
    BY <1>2, <1>4
  <2>2. n # 0 => 1 \in 1 .. n
    BY <1>2
  <2> QED BY <1>2, <2>1, <2>2
<1>8. Restoring(l) <=> Restoring(ops)
  BY <1>5, <1>7 DEF Restoring
<1>9. \A i \in 1 .. n : ops[i] \in ToSet(ops)
  BY <1>4 DEF ToSet
<1>10. AddsOnce(l)
  <2> SUFFICES ASSUME NEW i \in 1 .. n + 1, NEW j \in 1 .. n + 1,
                      l[i].op = "add", l[j].op = "add", l[i].request.send = l[j].request.send
               PROVE  i = j
    BY <1>4 DEF AddsOnce
  <2>1. CASE i \in 1 .. n /\ j \in 1 .. n
    BY <1>1, <1>2, <1>4, <2>1 DEF AddsOnce
  <2>2. CASE i = n + 1 /\ j \in 1 .. n
    <3>1. ops[j].request.send \in AddsOf(ops)
      BY <1>2, <1>9, <2>2 DEF AddsOf
    <3> QED BY <1>2, <2>2, <3>1
  <2>3. CASE j = n + 1 /\ i \in 1 .. n
    <3>1. ops[i].request.send \in AddsOf(ops)
      BY <1>2, <1>9, <2>3 DEF AddsOf
    <3> QED BY <1>2, <2>3, <3>1
  <2> QED BY <1>6, <2>1, <2>2, <2>3
<1>11. Issued(l, st)
  <2>1. \A k \in DOMAIN l : l[k].op = "getAll" => k = 1
    BY <1>2, <1>4, <1>6 DEF Issued
  <2>2. \A p \in ToSet(l) : p.op = "remove" => st[p.send] \in Done
    BY <1>3 DEF Issued
  <2> QED BY <1>2, <1>10, <2>1, <2>2 DEF Issued
<1>12. o.op = "remove" => {p \in ToSet(l) : p.op = "add"} = {p \in ToSet(ops) : p.op = "add"}
  BY <1>3
<1>13. o.op = "add" =>
          {p \in ToSet(l) : p.op = "add"} = {p \in ToSet(ops) : p.op = "add"} \cup {o}
  BY <1>3
<1> QED BY <1>8, <1>11, <1>12, <1>13 DEF AddsOf, AddedRequests, l

LEMMA AnOpLess ==
  ASSUME NEW ops, NEW st, Issued(ops, st), ops # <<>>
  PROVE  /\ Head(ops) \in IdbOps /\ Head(ops) = ops[1]
         /\ Head(ops) \in ToSet(ops)
         /\ Issued(Tail(ops), st) /\ ~Restoring(Tail(ops))
         /\ AddsOf(Tail(ops)) \subseteq AddsOf(ops)
         /\ AddedRequests(Tail(ops)) \subseteq AddedRequests(ops)
         /\ Head(ops).op = "add" => /\ Head(ops).request.send \in AddsOf(ops)
                                    /\ Head(ops).request \in AddedRequests(ops)
                                    /\ Head(ops).request.send \notin AddsOf(Tail(ops))
<1> DEFINE t == Tail(ops)
           n == Len(ops)
           h == Head(ops)
<1>1. ops \in Seq(IdbOps) /\ AddsOnce(ops)
  BY DEF Issued
<1>2. /\ n \in Nat /\ n >= 1 /\ h = ops[1] /\ h \in IdbOps
      /\ t \in Seq(IdbOps) /\ Len(t) = n - 1 /\ \A i \in 1 .. n - 1 : t[i] = ops[i + 1]
  <2> HIDE DEF IdbOps
  <2> QED BY <1>1, HeadTailProperties, EmptySeq, LenProperties
<1>3. DOMAIN ops = 1 .. n /\ DOMAIN t = 1 .. n - 1 /\ (t # <<>> => n - 1 >= 1)
  <2> HIDE DEF IdbOps
  <2> QED BY <1>1, <1>2, EmptySeq
<1> HIDE DEF t, n, h
<1>4. \A i \in 1 .. n - 1 : i + 1 \in 1 .. n /\ i + 1 # 1 /\ t[i] = ops[i + 1]
  BY <1>2
<1>5. h \in ToSet(ops)
  BY <1>2, <1>3 DEF ToSet
<1>6. ToSet(t) \subseteq ToSet(ops)
  BY <1>3, <1>4 DEF ToSet
<1>7. \A i \in 1 .. n - 1 : t[i].op # "getAll"
  BY <1>3, <1>4 DEF Issued
<1>8. ~Restoring(t)
  BY <1>2, <1>3, <1>7 DEF Restoring
<1>9. AddsOnce(t)
  <2> SUFFICES ASSUME NEW i \in 1 .. n - 1, NEW j \in 1 .. n - 1,
                      t[i].op = "add", t[j].op = "add", t[i].request.send = t[j].request.send
               PROVE  i = j
    BY <1>3 DEF AddsOnce
  <2>1. i + 1 = j + 1
    BY <1>1, <1>3, <1>4 DEF AddsOnce
  <2> QED BY <2>1
<1>10. ASSUME h.op = "add" PROVE h.request.send \notin AddsOf(t)
  <2> SUFFICES ASSUME NEW i \in 1 .. n - 1, t[i].op = "add", t[i].request.send = h.request.send
               PROVE  FALSE
    BY <1>3 DEF AddsOf, ToSet
  <2>1. 1 \in 1 .. n
    BY <1>2
  <2> QED BY <1>1, <1>2, <1>3, <1>4, <1>10, <2>1 DEF AddsOnce
<1>11. Issued(t, st)
  <2>1. \A k \in DOMAIN t : t[k].op = "getAll" => k = 1
    BY <1>3, <1>7
  <2>2. \A p \in ToSet(t) : p.op = "remove" => st[p.send] \in Done
    BY <1>6 DEF Issued
  <2> QED BY <1>2, <1>9, <2>1, <2>2 DEF Issued
<1>12. AddsOf(t) \subseteq AddsOf(ops) /\ AddedRequests(t) \subseteq AddedRequests(ops)
  BY <1>6 DEF AddsOf, AddedRequests
<1> QED BY <1>2, <1>5, <1>8, <1>10, <1>11, <1>12 DEF AddsOf, AddedRequests, t, h

-----------------------------------------------------------------------------
(* Where a message may be: a queued one is not in flight, and until the    *)
(* records are restored none of them is either of these.                   *)
Placed(q, i, air, restoring) ==
    /\ q \in Seq(Requests) /\ i \in Seq(Requests) /\ OneEach(q) /\ OneEach(i)
    /\ SendsOf(q) \cap air = {}
    /\ restoring => SendsOf(i) \cap (SendsOf(q) \cup air) = {}

Unrecorded(fl, i, ops) ==
    /\ AddsOf(ops) \cap SendsOf(i) = {}
    /\ \A f \in fl : ~f.replay => f.request.send \notin SendsOf(i) \cup AddsOf(ops)

Known(q, i, fl, ops) == ToSet(q) \cup ToSet(i) \cup Requested(fl) \cup AddedRequests(ops)

Statuses == {"unsent", "pending", "sent", "failed"}

(* Messages are sent in their order, and a snapshot counts only earlier    *)
(* ones.                                                                   *)
Timely(known, st, m) ==
    /\ m \in Machines /\ st \in [Sends -> Statuses]
    /\ \A s, t \in Sends : s < t /\ st[s] = "unsent" => st[t] = "unsent"
    /\ \A s \in Sends : st[s] = "unsent" => m.ctx.count < s
    /\ \A r \in known : r \in Requests /\ r.snap.count < r.send /\ st[r.send] # "unsent"

(* An answered message is nowhere it could be answered from again.         *)
AnsweredOnce(ans, about, records, restoring, st) ==
    /\ ans \in [Sends -> {0, 1}]
    /\ \A s \in Sends : ans[s] = 1 =>
          st[s] # "unsent" /\ s \notin about /\ (restoring => s \notin records)

Bounded ==
    /\ timer \in BOOLEAN /\ online \in BOOLEAN
    /\ session \in {"none", "empty", "full"} /\ saved \in {"none", "empty", "full"}
    /\ reloads \in 0 .. MaxReloads

ChatInv ==
    /\ Owned(flights, active, loading, replaying)
    /\ Placed(queue, idb, Airborne(flights), Restoring(idbOps))
    /\ Issued(idbOps, status)
    /\ Unrecorded(flights, idb, idbOps)
    /\ Timely(Known(queue, idb, flights, idbOps), status, machine)
    /\ AnsweredOnce(answers, SendsOf(queue) \cup Airborne(flights), SendsOf(idb),
                    Restoring(idbOps), status)
    /\ Bounded

LEMMA LaterStatus ==
  ASSUME NEW known, NEW st, NEW m, Timely(known, st, m), NEW s \in Sends, st[s] # "unsent",
         NEW v \in Done, NEW m2 \in Machines, m2.ctx.count <= s,
         NEW ops, Issued(ops, st)
  PROVE  /\ Timely(known, [st EXCEPT ![s] = v], m2)
         /\ Issued(ops, [st EXCEPT ![s] = v])
<1> DEFINE st2 == [st EXCEPT ![s] = v]
<1>1. st2 \in [Sends -> Statuses] /\ st2[s] = v /\ v # "unsent"
      /\ \A t \in Sends : t # s => st2[t] = st[t]
  BY DEF Timely, Done, Statuses
<1> HIDE DEF st2
<1>2. \A t \in Sends : st2[t] = "unsent" => t # s /\ st[t] = "unsent"
  BY <1>1
<1>3. \A t \in Sends : st2[t] = "unsent" => s < t
  BY <1>2, SendFacts DEF Timely
<1>4. \A t, u \in Sends : t < u /\ st2[t] = "unsent" => st2[u] = "unsent"
  <2> SUFFICES ASSUME NEW t \in Sends, NEW u \in Sends, t < u, st2[t] = "unsent"
               PROVE st2[u] = "unsent"
    OBVIOUS
  <2>1. u # s /\ st[t] = "unsent"
    BY <1>2, <1>3, SendFacts
  <2> QED BY <1>1, <2>1 DEF Timely
<1>5. m2.ctx.count \in Nat
  BY DEF Machines
<1>6. \A t \in Sends : st2[t] = "unsent" => m2.ctx.count < t
  BY <1>3, <1>5, SendFacts
<1>7. \A r \in known : r \in Requests /\ r.snap.count < r.send /\ st2[r.send] # "unsent"
  BY <1>2, RequestFacts DEF Timely
<1>8. Issued(ops, st2)
  <2>1. \A o \in ToSet(ops) : o.op = "remove" => o.send \in Sends
    BY OpFacts DEF Issued, ToSet
  <2> QED BY <1>1, <2>1 DEF Issued
<1> QED BY <1>1, <1>4, <1>6, <1>7, <1>8 DEF Timely, st2

LEMMA SentStatus ==
  ASSUME NEW known, NEW st, NEW m, Timely(known, st, m), NEW s \in Sends, st[s] = "unsent",
         \A t \in 1 .. s - 1 : st[t] # "unsent",
         NEW m2 \in Machines, m2.ctx.count <= m.ctx.count,
         NEW r \in Requests, r.send = s, r.snap.count = m.ctx.count,
         NEW ops, Issued(ops, st)
  PROVE  /\ Timely(known \cup {r}, [st EXCEPT ![s] = "pending"], m2)
         /\ Issued(ops, [st EXCEPT ![s] = "pending"])
<1> DEFINE st2 == [st EXCEPT ![s] = "pending"]
<1>1. st2 \in [Sends -> Statuses] /\ st2[s] = "pending"
      /\ \A t \in Sends : t # s => st2[t] = st[t]
  BY DEF Timely, Statuses
<1> HIDE DEF st2
<1>2. \A t \in Sends : st2[t] = "unsent" => t # s /\ st[t] = "unsent"
  BY <1>1
<1>3. \A t \in Sends : st2[t] = "unsent" => s < t
  <2>1. \A t \in Sends : t < s => t \in 1 .. s - 1
    BY SendFacts
  <2> QED BY <1>2, <2>1, SendFacts
<1>4. \A t, u \in Sends : t < u /\ st2[t] = "unsent" => st2[u] = "unsent"
  <2> SUFFICES ASSUME NEW t \in Sends, NEW u \in Sends, t < u, st2[t] = "unsent"
               PROVE st2[u] = "unsent"
    OBVIOUS
  <2>1. u # s /\ st[t] = "unsent"
    BY <1>2, <1>3, SendFacts
  <2> QED BY <1>1, <2>1 DEF Timely
<1>5. m2.ctx.count \in Nat /\ m.ctx.count \in Nat
  BY DEF Machines, Timely
<1>6. \A t \in Sends : st2[t] = "unsent" => m2.ctx.count < t
  <2>1. \A t \in Sends : st2[t] = "unsent" => m.ctx.count < t
    BY <1>2 DEF Timely
  <2> QED BY <1>5, <2>1, SendFacts
<1>7. \A p \in known : p \in Requests /\ p.snap.count < p.send /\ st2[p.send] # "unsent"
  BY <1>2, RequestFacts DEF Timely
<1>8. r.snap.count < r.send /\ st2[r.send] # "unsent"
  BY <1>1 DEF Timely
<1>9. Issued(ops, st2)
  <2>1. \A o \in ToSet(ops) : o.op = "remove" => o.send \in Sends
    BY OpFacts DEF Issued, ToSet
  <2>2. \A o \in ToSet(ops) : o.op = "remove" => o.send # s
    BY DEF Issued, Done
  <2> QED BY <1>1, <2>1, <2>2 DEF Issued
<1> QED BY <1>1, <1>4, <1>6, <1>7, <1>8, <1>9 DEF Timely, st2

(* The replay loop takes the head of what waits; nothing that waits is in  *)
(* flight, and no other loop runs.                                         *)
LEMMA ReplayTakes ==
  ASSUME NEW todo \in Seq(Requests), OneEach(todo), todo # <<>>,
         NEW live, Apart(live), ~Replays(live),
         SendsOf(todo) \cap Airborne(live) = {},
         ReplayNext(todo, live)
  PROVE  /\ Owned(flights', active', loading', replaying')
         /\ queue' \in Seq(Requests) /\ OneEach(queue')
         /\ SendsOf(queue') \cap Airborne(flights') = {}
         /\ SendsOf(queue') \cup Airborne(flights') = SendsOf(todo) \cup Airborne(live)
         /\ ToSet(queue') \cup Requested(flights') \subseteq ToSet(todo) \cup Requested(live)
         /\ \A g \in flights' :
               g.replay \/ \E f \in live : g.request = f.request /\ g.replay = f.replay
<1> DEFINE h == Head(todo)
           t == Tail(todo)
<1>1. /\ h \in Requests /\ h \in ToSet(todo)
      /\ t \in Seq(Requests) /\ OneEach(t) /\ ToSet(t) \subseteq ToSet(todo)
      /\ SendsOf(todo) = SendsOf(t) \cup {h.send} /\ h.send \notin SendsOf(t)
  BY Dequeued
<1>2. /\ queue' = t /\ flights' = Launched(live, h, TRUE) /\ active' = h.send
      /\ loading' = TRUE /\ replaying' = TRUE
  BY DEF ReplayNext
<1> HIDE DEF h, t
<1>3. h.send \notin Airborne(live)
  BY <1>1
<1>4. Fresh(live, h, TRUE, TRUE)
  BY <1>1, <1>3 DEF Fresh
<1>5. Flown(Launched(live, h, TRUE), live, h, TRUE, TRUE)
  BY <1>4, Launching
<1>6. /\ Owned(Launched(live, h, TRUE), h.send, TRUE, TRUE)
      /\ Airborne(Launched(live, h, TRUE)) = Airborne(live) \cup {h.send}
      /\ Requested(Launched(live, h, TRUE)) = Requested(live) \cup {h}
      /\ \A g \in Launched(live, h, TRUE) :
            \/ g.request = h /\ g.replay = TRUE
            \/ \E f \in live : g.request = f.request /\ g.replay = f.replay
  BY <1>5 DEF Flown
<1>7. Owned(flights', active', loading', replaying')
  BY <1>2, <1>6
<1> QED BY <1>1, <1>2, <1>6, <1>7

-----------------------------------------------------------------------------
LEMMA LessIsTimely ==
  ASSUME NEW known, NEW st, NEW m, Timely(known, st, m), NEW less \in SUBSET known
  PROVE  Timely(less, st, m)
BY DEF Timely

LEMMA LessIsAnswered ==
  ASSUME NEW ans, NEW about, NEW records, NEW restoring, NEW st,
         AnsweredOnce(ans, about, records, restoring, st), NEW less \in SUBSET about
  PROVE  AnsweredOnce(ans, less, records, restoring, st)
BY DEF AnsweredOnce

(* The steps that touch no request: the machine moves by its table.        *)
LEMMA SessionSteps ==
  ASSUME ChatInv, InitSession \/ ClearChat \/ LoadChatSession
  PROVE  ChatInv'
<1>1. /\ UNCHANGED <<status, answers, queue, idb, idbOps, flights, active, loading, replaying,
                     timer, online, saved, reloads>>
      /\ session' \in {session, "empty", "full"}
      /\ \E event : machine' = Step(machine, event)
  BY DEF InitSession, ClearChat, LoadChatSession, queueVars
<1>2. machine' \in Machines /\ machine'.ctx.count <= machine.ctx.count
  BY <1>1, Stepped DEF ChatInv, Timely
<1>3. machine.ctx.count \in Nat /\ machine'.ctx.count \in Nat
  BY <1>2 DEF ChatInv, Timely, Machines
<1>4. Timely(Known(queue, idb, flights, idbOps), status, machine')
  <2>1. Timely(Known(queue, idb, flights, idbOps), status, machine)
    BY DEF ChatInv
  <2>2. \A s \in Sends : status[s] = "unsent" => machine.ctx.count < s
    BY <2>1 DEF Timely
  <2>3. \A s \in Sends : status[s] = "unsent" => machine'.ctx.count < s
    BY <1>2, <1>3, <2>2, SendFacts
  <2> HIDE DEF Known
  <2> QED BY <1>2, <2>1, <2>3 DEF Timely
<1>5. Bounded'
  BY <1>1 DEF ChatInv, Bounded
<1> QED BY <1>1, <1>4, <1>5 DEF ChatInv

LEMMA QuietSteps ==
  ASSUME ChatInv, GoOffline \/ TransactionReady \/ SaveSession
  PROVE  ChatInv'
<1>1. UNCHANGED <<machine, status, answers, queue, idb, idbOps, flights, active, loading,
                  replaying>>
  BY DEF GoOffline, TransactionReady, SaveSession, pageVars, queueVars, storeVars
<1>2. Bounded'
  BY DEF ChatInv, Bounded, GoOffline, TransactionReady, SaveSession, pageVars, queueVars,
         storeVars
<1> QED BY <1>1, <1>2 DEF ChatInv

LEMMA ReloadStep ==
  ASSUME ChatInv, Reload
  PROVE  ChatInv'
<1>1. /\ queue' = <<>> /\ idb' = idb /\ idbOps' = <<[op |-> "getAll"]>> /\ flights' = {}
      /\ active' = None /\ loading' = FALSE /\ replaying' = FALSE /\ machine' = NewMachine
      /\ answers' = [s \in Sends |-> 0] /\ status' = status
  BY DEF Reload
<1> DEFINE ops == <<[op |-> "getAll"]>>
<1>2. ops \in Seq(IdbOps) /\ DOMAIN ops = {1} /\ ops[1] = [op |-> "getAll"]
  <2>1. [op |-> "getAll"] \in IdbOps
    BY OpFacts
  <2> HIDE DEF IdbOps
  <2> QED BY <2>1
<1>3. ops[1].op = "getAll"
  BY <1>2
<1> HIDE DEF ops
<1>4. ToSet(ops) = {ops[1]}
  BY <1>2 DEF ToSet
<1>5. AddsOf(ops) = {} /\ AddedRequests(ops) = {}
  BY <1>3, <1>4 DEF AddsOf, AddedRequests
<1>6. Issued(ops, status)
  BY <1>2, <1>3, <1>4 DEF Issued, AddsOnce
<1>7. <<>> \in Seq(Requests) /\ OneEach(<<>>) /\ ToSet(<<>>) = {} /\ SendsOf(<<>>) = {}
  BY DEF OneEach, ToSet, SendsOf
<1>8. Airborne({}) = {} /\ Requested({}) = {}
  BY DEF Airborne, Requested
<1>9. Owned({}, None, FALSE, FALSE)
  BY DEF Owned
<1>10. Placed(<<>>, idb, {}, Restoring(ops))
  BY <1>7 DEF Placed, ChatInv
<1>11. Unrecorded({}, idb, ops)
  BY <1>5 DEF Unrecorded
<1>12. Timely(Known(<<>>, idb, {}, ops), status, NewMachine)
  <2>1. NewMachine \in Machines /\ NewMachine.ctx.count = 0
    BY SendsAssumption DEF NewMachine, NewContext, Machines, ChatStates, Pendings
  <2>2. Known(<<>>, idb, {}, ops) \subseteq Known(queue, idb, flights, idbOps)
    BY <1>5, <1>7, <1>8 DEF Known
  <2>3. Timely(Known(<<>>, idb, {}, ops), status, machine)
    BY <2>2, LessIsTimely DEF ChatInv
  <2>4. \A s \in Sends : 0 < s
    BY SendFacts
  <2> HIDE DEF Known
  <2> QED BY <2>1, <2>3, <2>4 DEF Timely
<1>13. AnsweredOnce([s \in Sends |-> 0], {}, SendsOf(idb), Restoring(ops), status)
  BY DEF AnsweredOnce
<1>14. Bounded'
  <2>1. /\ reloads < MaxReloads /\ reloads' = reloads + 1 /\ timer' = FALSE
        /\ session' = saved /\ online' = online /\ saved' = saved
    BY DEF Reload
  <2>2. reloads' \in 0 .. MaxReloads
    BY <2>1, ReloadsAssumption DEF ChatInv, Bounded
  <2> QED BY <2>1, <2>2 DEF ChatInv, Bounded
<1>15. SendsOf(queue') \cup Airborne(flights') = {}
  BY <1>1, <1>7, <1>8
<1> QED
  <2>1. queue' = <<>> /\ flights' = {} /\ idbOps' = ops /\ idb' = idb /\ Airborne(flights') = {}
    BY <1>1, <1>8 DEF ops
  <2> QED BY <1>1, <1>6, <1>9, <1>10, <1>11, <1>12, <1>13, <1>14, <1>15, <2>1 DEF ChatInv

LEMMA IdbWriteStep ==
  ASSUME ChatInv, IdbWrite
  PROVE  ChatInv'
<1> DEFINE h == Head(idbOps)
           known == Known(queue, idb, flights, idbOps)
<1>1. /\ UNCHANGED <<machine, status, answers, queue, flights, active, loading, replaying>>
      /\ idbOps # <<>> /\ h.op # "getAll" /\ idbOps' = Tail(idbOps)
      /\ idb' = IF h.op = "add" THEN Append(idb, h.request)
                ELSE Filtered(idb, {r \in ToSet(idb) : r.send # h.send})
  BY DEF IdbWrite, pageVars
<1>2. Issued(idbOps, status)
  BY DEF ChatInv
<1>3. /\ h \in IdbOps /\ h = idbOps[1] /\ h \in ToSet(idbOps)
      /\ Issued(idbOps', status) /\ ~Restoring(idbOps')
      /\ AddsOf(idbOps') \subseteq AddsOf(idbOps)
      /\ AddedRequests(idbOps') \subseteq AddedRequests(idbOps)
      /\ h.op = "add" => /\ h.request.send \in AddsOf(idbOps)
                         /\ h.request \in AddedRequests(idbOps)
                         /\ h.request.send \notin AddsOf(idbOps')
  BY <1>1, <1>2, AnOpLess
<1> HIDE DEF h
<1>4. idb \in Seq(Requests) /\ OneEach(idb)
  BY DEF ChatInv, Placed
<1>5. CASE h.op = "add"
  <2>1. h.request \in Requests /\ h.request.send \notin SendsOf(idb)
    BY <1>3, <1>5, OpFacts DEF ChatInv, Unrecorded
  <2>2. /\ idb' \in Seq(Requests) /\ OneEach(idb') /\ ToSet(idb') = ToSet(idb) \cup {h.request}
        /\ SendsOf(idb') = SendsOf(idb) \cup {h.request.send}
    BY <1>1, <1>4, <1>5, <2>1, Queued
  <2>3. Placed(queue, idb', Airborne(flights), Restoring(idbOps'))
    BY <1>3, <2>2 DEF ChatInv, Placed
  <2>4. Unrecorded(flights, idb', idbOps')
    BY <1>3, <1>5, <2>2 DEF ChatInv, Unrecorded
  <2>5. Known(queue, idb', flights, idbOps') \subseteq known
    BY <1>3, <1>5, <2>2 DEF Known
  <2>6. Timely(Known(queue, idb', flights, idbOps'), status, machine)
    BY <2>5, LessIsTimely DEF ChatInv
  <2>7. AnsweredOnce(answers, SendsOf(queue) \cup Airborne(flights), SendsOf(idb'),
                     Restoring(idbOps'), status)
    BY <1>3 DEF ChatInv, AnsweredOnce
  <2>8. Bounded'
    BY DEF IdbWrite, ChatInv, Bounded, pageVars, storeVars
  <2> QED BY <1>1, <1>3, <2>3, <2>4, <2>6, <2>7, <2>8 DEF ChatInv
<1>6. CASE h.op # "add"
  <2>1. idb' \in Seq(Requests) /\ OneEach(idb') /\ ToSet(idb') \subseteq ToSet(idb)
    <3> DEFINE Good == {r \in ToSet(idb) : r.send # h.send}
    <3>1. idb' = Filtered(idb, Good)
      BY <1>1, <1>6
    <3> HIDE DEF Good
    <3> QED BY <1>4, <3>1, Removed
  <2>2. SendsOf(idb') \subseteq SendsOf(idb)
    BY <2>1 DEF SendsOf
  <2>3. Placed(queue, idb', Airborne(flights), Restoring(idbOps'))
    BY <1>3, <2>1 DEF ChatInv, Placed
  <2>4. Unrecorded(flights, idb', idbOps')
    BY <1>3, <2>2 DEF ChatInv, Unrecorded
  <2>5. Known(queue, idb', flights, idbOps') \subseteq known
    BY <1>3, <2>1 DEF Known
  <2>6. Timely(Known(queue, idb', flights, idbOps'), status, machine)
    BY <2>5, LessIsTimely DEF ChatInv
  <2>7. AnsweredOnce(answers, SendsOf(queue) \cup Airborne(flights), SendsOf(idb'),
                     Restoring(idbOps'), status)
    BY <1>3 DEF ChatInv, AnsweredOnce
  <2>8. Bounded'
    BY DEF IdbWrite, ChatInv, Bounded, pageVars, storeVars
  <2> QED BY <1>1, <1>3, <2>3, <2>4, <2>6, <2>7, <2>8 DEF ChatInv
<1> QED BY <1>5, <1>6

(* Whoever lets the controller go: a call that settles without an answer.  *)
LEMMA ReleaseGives ==
  ASSUME ChatInv, NEW f \in flights, Release(f.request.send),
         flights' = flights \ {f}, replaying' = (replaying /\ ~f.replay)
  PROVE  /\ Owned(flights', active', loading', replaying')
         /\ Airborne(flights') = Airborne(flights) \ {f.request.send}
         /\ Requested(flights') \subseteq Requested(flights)
<1>1. Owned(flights, active, loading, replaying)
  BY DEF ChatInv
<1>2. /\ active = f.request.send => Owned(flights \ {f}, None, FALSE, replaying /\ ~f.replay)
      /\ active # f.request.send /\ f.aborted
            => Owned(flights \ {f}, active, loading, replaying /\ ~f.replay)
      /\ Airborne(flights \ {f}) = Airborne(flights) \ {f.request.send}
      /\ Requested(flights \ {f}) \subseteq Requested(flights)
      /\ ~f.aborted => active = f.request.send
      /\ f.aborted => active # f.request.send
  BY <1>1, Leaving
<1>3. CASE active = f.request.send
  <2>1. active' = None /\ loading' = FALSE
    BY <1>3 DEF Release
  <2> QED BY <1>2, <1>3, <2>1
<1>4. CASE active # f.request.send
  <2>1. active' = active /\ loading' = loading
    BY <1>4 DEF Release
  <2>2. f.aborted
    BY <1>1, <1>2, <1>4, FlightFacts DEF Owned
  <2> QED BY <1>2, <1>4, <2>1, <2>2
<1> QED BY <1>3, <1>4

LEMMA SettleStep ==
  ASSUME ChatInv, NEW f \in flights, Settle(f)
  PROVE  ChatInv'
<1>1. /\ UNCHANGED <<machine, status, answers, queue, idb, idbOps, timer, online, session,
                     saved, reloads>>
      /\ flights' = flights \ {f} /\ replaying' = (replaying /\ ~f.replay)
      /\ Release(f.request.send)
  BY DEF Settle, queueVars, storeVars
<1>2. /\ Owned(flights', active', loading', replaying')
      /\ Airborne(flights') = Airborne(flights) \ {f.request.send}
      /\ Requested(flights') \subseteq Requested(flights)
  BY <1>1, ReleaseGives
<1>3. Placed(queue, idb, Airborne(flights'), Restoring(idbOps))
  BY <1>2 DEF ChatInv, Placed
<1>4. Unrecorded(flights', idb, idbOps)
  BY <1>1 DEF ChatInv, Unrecorded
<1>5. Timely(Known(queue, idb, flights', idbOps), status, machine)
  <2>1. Known(queue, idb, flights', idbOps) \subseteq Known(queue, idb, flights, idbOps)
    BY <1>2 DEF Known
  <2> QED BY <2>1, LessIsTimely DEF ChatInv
<1>6. AnsweredOnce(answers, SendsOf(queue) \cup Airborne(flights'), SendsOf(idb),
                   Restoring(idbOps), status)
  <2>1. SendsOf(queue) \cup Airborne(flights') \subseteq SendsOf(queue) \cup Airborne(flights)
    BY <1>2
  <2> QED BY <2>1, LessIsAnswered DEF ChatInv
<1>7. Bounded'
  BY <1>1 DEF ChatInv, Bounded
<1> QED BY <1>1, <1>2, <1>3, <1>4, <1>5, <1>6, <1>7 DEF ChatInv

LEMMA CancelStep ==
  ASSUME ChatInv, CancelPending
  PROVE  ChatInv'
<1>1. /\ UNCHANGED <<machine, status, answers, queue, idb, idbOps, replaying, timer, online,
                     session, saved, reloads>>
      /\ flights' = StoppedOf(flights, active) /\ active' = None /\ loading' = FALSE
  BY DEF CancelPending, queueVars, storeVars, AbortedBy, StoppedOf, Stopped
<1>2. /\ Owned(StoppedOf(flights, active), None, FALSE, replaying)
      /\ Airborne(StoppedOf(flights, active)) = Airborne(flights)
      /\ Requested(StoppedOf(flights, active)) = Requested(flights)
      /\ \A g \in StoppedOf(flights, active) :
            g.aborted /\ \E f \in flights : g.request = f.request /\ g.replay = f.replay
  BY Aborting DEF ChatInv
<1>3. Unrecorded(flights', idb, idbOps)
  BY <1>1, <1>2 DEF ChatInv, Unrecorded
<1>4. Known(queue, idb, flights', idbOps) = Known(queue, idb, flights, idbOps)
  BY <1>1, <1>2 DEF Known
<1>5. Bounded'
  BY <1>1 DEF ChatInv, Bounded
<1> QED BY <1>1, <1>2, <1>3, <1>4, <1>5 DEF ChatInv

LEMMA SendStep ==
  ASSUME ChatInv, NEW s \in Sends, NEW cancels \in BOOLEAN, SendMessage(s, cancels)
  PROVE  ChatInv'
<1> DEFINE r == [send |-> s, cancels |-> cancels,
                 snap |-> [count |-> machine.ctx.count, pending |-> machine.ctx.pending,
                           cancelled |-> machine.ctx.cancelled]]
           off == StoppedOf(flights, active)
           o == [op |-> "add", request |-> r]
<1>1. /\ NextSend(s) /\ machine' = Step(machine, "SEND_MESSAGE")
      /\ status' = [status EXCEPT ![s] = "pending"] /\ session' = "full"
      /\ UNCHANGED <<answers, replaying, timer, online, saved, reloads, idb>>
  BY DEF SendMessage, queueVars
<1>2. /\ online => /\ flights' = Launched(off, r, FALSE) /\ active' = s /\ loading' = TRUE
                   /\ queue' = queue /\ idbOps' = idbOps
      /\ ~online => /\ flights' = off /\ active' = None /\ loading' = FALSE
                    /\ queue' = Append(queue, r) /\ idbOps' = Append(idbOps, o)
  BY DEF SendMessage, queueVars, AbortedBy, StoppedOf, Stopped
<1>3. Owned(flights, active, loading, replaying)
  BY DEF ChatInv
<1>4. /\ Owned(off, None, FALSE, replaying) /\ Airborne(off) = Airborne(flights)
      /\ Requested(off) = Requested(flights)
      /\ \A g \in off : g.aborted /\ \E f \in flights : g.request = f.request
                                                        /\ g.replay = f.replay
  BY <1>3, Aborting
<1>5. machine \in Machines
  BY DEF ChatInv, Timely
<1>6. r \in Requests /\ r.send = s /\ r.snap.count = machine.ctx.count
  <2>1. machine.ctx.count \in 0 .. MaxSends /\ machine.ctx.pending \in Pendings
        /\ machine.ctx.cancelled \in BOOLEAN
    BY <1>5 DEF Machines
  <2> HIDE DEF Pendings
  <2> QED BY <2>1 DEF Requests
<1>7. o \in IdbOps /\ o.op = "add" /\ o.request = r
  BY <1>6, OpFacts
<1> HIDE DEF r, o, off
<1>8. status[s] = "unsent" /\ \A t \in 1 .. s - 1 : status[t] # "unsent"
  BY <1>1 DEF NextSend
<1>9. /\ Timely(Known(queue, idb, flights, idbOps) \cup {r}, status', machine')
      /\ Issued(idbOps, status')
  <2>1. machine' \in Machines /\ machine'.ctx.count <= machine.ctx.count
    BY <1>1, <1>5, Stepped
  <2>2. /\ Timely(Known(queue, idb, flights, idbOps), status, machine)
        /\ Issued(idbOps, status)
    BY DEF ChatInv
  <2> QED BY <1>1, <1>6, <1>8, <2>1, <2>2, SentStatus
(* A message that was not sent yet is nowhere.                             *)
<1>10. \A p \in Known(queue, idb, flights, idbOps) : p.send # s
  BY <1>8 DEF ChatInv, Timely
<1>11. /\ s \notin SendsOf(queue) /\ s \notin SendsOf(idb) /\ s \notin Airborne(flights)
       /\ s \notin AddsOf(idbOps)
  BY <1>10 DEF Known, SendsOf, Airborne, Requested, AddsOf, AddedRequests
<1>13. CASE online
  <2>1. /\ Owned(flights', s, TRUE, replaying)
        /\ Airborne(flights') = Airborne(off) \cup {s}
        /\ Requested(flights') = Requested(off) \cup {r}
        /\ \A g \in flights' :
              \/ g.request = r /\ g.replay = FALSE
              \/ \E f \in off : g.request = f.request /\ g.replay = f.replay
    <3>1. Apart(off) /\ r.send \notin Airborne(off)
      BY <1>4, <1>6, <1>11 DEF Owned, Apart
    <3>2. replaying \in BOOLEAN /\ (replaying <=> Replays(off))
      BY <1>4 DEF Owned, Replays
    <3>3. Fresh(off, r, FALSE, replaying)
      BY <1>6, <3>1, <3>2 DEF Fresh
    <3>4. Flown(Launched(off, r, FALSE), off, r, FALSE, replaying)
      BY <3>3, Launching
    <3>5. Flown(flights', off, r, FALSE, replaying)
      BY <1>2, <1>13, <3>4
    <3> QED BY <1>6, <3>5 DEF Flown
  <2>2. Owned(flights', active', loading', replaying')
    BY <1>1, <1>2, <1>13, <2>1
  <2>3. queue' = queue /\ idbOps' = idbOps /\ idb' = idb
    BY <1>1, <1>2, <1>13
  <2>4. Airborne(flights') = Airborne(flights) \cup {s}
    BY <1>4, <2>1
  <2>5. Placed(queue', idb', Airborne(flights'), Restoring(idbOps'))
    BY <1>11, <2>3, <2>4 DEF ChatInv, Placed
  <2>6. Unrecorded(flights', idb', idbOps')
    BY <1>4, <1>6, <1>11, <2>1, <2>3 DEF ChatInv, Unrecorded
  <2>7. Known(queue', idb', flights', idbOps') = Known(queue, idb, flights, idbOps) \cup {r}
    BY <1>4, <2>1, <2>3 DEF Known
  <2>8. AnsweredOnce(answers', SendsOf(queue') \cup Airborne(flights'), SendsOf(idb'),
                     Restoring(idbOps'), status')
    <3>1. answers[s] # 1
      BY <1>8 DEF ChatInv, AnsweredOnce
    <3>2. \A t \in Sends : t # s => status'[t] = status[t]
      BY <1>1 DEF ChatInv, Timely
    <3> QED BY <1>1, <2>3, <2>4, <3>1, <3>2 DEF ChatInv, AnsweredOnce
  <2>9. Bounded'
    BY <1>1 DEF ChatInv, Bounded
  <2> QED BY <1>9, <2>2, <2>3, <2>5, <2>6, <2>7, <2>8, <2>9 DEF ChatInv
<1>14. CASE ~online
  <2>1. Owned(flights', active', loading', replaying')
    BY <1>1, <1>2, <1>4, <1>14
  <2>2. /\ queue' = Append(queue, r) /\ queue' \in Seq(Requests) /\ OneEach(queue')
        /\ ToSet(queue') = ToSet(queue) \cup {r} /\ SendsOf(queue') = SendsOf(queue) \cup {s}
    <3>1. queue \in Seq(Requests) /\ OneEach(queue)
      BY DEF ChatInv, Placed
    <3>2. /\ Append(queue, r) \in Seq(Requests) /\ OneEach(Append(queue, r))
          /\ ToSet(Append(queue, r)) = ToSet(queue) \cup {r}
          /\ SendsOf(Append(queue, r)) = SendsOf(queue) \cup {r.send}
      BY <1>6, <1>11, <3>1, Queued
    <3> QED BY <1>2, <1>6, <1>14, <3>2
  <2>3. /\ Issued(idbOps', status') /\ (Restoring(idbOps') <=> Restoring(idbOps))
        /\ AddsOf(idbOps') = AddsOf(idbOps) \cup {s}
        /\ AddedRequests(idbOps') = AddedRequests(idbOps) \cup {r}
    <3>1. o.op # "getAll" /\ o.op # "remove" /\ o.request.send \notin AddsOf(idbOps)
      BY <1>6, <1>7, <1>11
    <3>2. idbOps' = Append(idbOps, o)
      BY <1>2, <1>14
    <3>3. /\ Issued(Append(idbOps, o), status')
          /\ Restoring(Append(idbOps, o)) <=> Restoring(idbOps)
          /\ o.op = "add" => /\ AddsOf(Append(idbOps, o)) = AddsOf(idbOps) \cup {o.request.send}
                             /\ AddedRequests(Append(idbOps, o))
                                  = AddedRequests(idbOps) \cup {o.request}
      <4> DEFINE st == status'
      <4>1. Issued(idbOps, st)
        BY <1>9
      <4> HIDE DEF st
      <4>2. /\ Issued(Append(idbOps, o), st)
            /\ Restoring(Append(idbOps, o)) <=> Restoring(idbOps)
            /\ o.op = "add" =>
                  /\ AddsOf(Append(idbOps, o)) = AddsOf(idbOps) \cup {o.request.send}
                  /\ AddedRequests(Append(idbOps, o)) = AddedRequests(idbOps) \cup {o.request}
        BY <1>7, <3>1, <4>1, AnOpMore
      <4> QED BY <4>2 DEF st
    <3> QED BY <1>6, <1>7, <3>2, <3>3
  <2>4. idb' = idb /\ flights' = off /\ Airborne(flights') = Airborne(flights)
    BY <1>1, <1>2, <1>4, <1>14
  <2>5. Placed(queue', idb', Airborne(flights'), Restoring(idbOps'))
    BY <1>11, <2>2, <2>3, <2>4 DEF ChatInv, Placed
  <2>6. Unrecorded(flights', idb', idbOps')
    <3>1. \A f \in off : \E g \in flights : f.request = g.request /\ f.replay = g.replay
      BY <1>4
    <3>2. \A g \in flights : g.request.send # s
      BY <1>11 DEF Airborne
    <3> QED BY <1>11, <2>3, <2>4, <3>1, <3>2 DEF ChatInv, Unrecorded
  <2>7. Known(queue', idb', flights', idbOps') = Known(queue, idb, flights, idbOps) \cup {r}
    BY <1>4, <2>2, <2>3, <2>4 DEF Known
  <2>8. AnsweredOnce(answers', SendsOf(queue') \cup Airborne(flights'), SendsOf(idb'),
                     Restoring(idbOps'), status')
    <3>1. answers[s] # 1
      BY <1>8 DEF ChatInv, AnsweredOnce
    <3>2. \A t \in Sends : t # s => status'[t] = status[t]
      BY <1>1 DEF ChatInv, Timely
    <3> QED BY <1>1, <2>2, <2>3, <2>4, <3>1, <3>2 DEF ChatInv, AnsweredOnce
  <2>9. Bounded'
    BY <1>1 DEF ChatInv, Bounded
  <2> QED BY <1>9, <2>1, <2>3, <2>5, <2>6, <2>7, <2>8, <2>9 DEF ChatInv
<1> QED BY <1>13, <1>14

(* What a call that is done leaves: its message is in no list any more.    *)
LEMMA FinishLeaves ==
  ASSUME ChatInv, NEW f \in flights, ~f.aborted, Finish(f), NEW st, Issued(idbOps, st),
         st[f.request.send] \in Done
  PROVE  /\ Owned(flights', active', loading', replaying')
         /\ Placed(queue', idb', Airborne(flights'), Restoring(idbOps'))
         /\ Issued(idbOps', st)
         /\ Unrecorded(flights', idb', idbOps')
         /\ Known(queue', idb', flights', idbOps') \subseteq Known(queue, idb, flights, idbOps)
         /\ SendsOf(queue') \cup Airborne(flights')
              \subseteq (SendsOf(queue) \cup Airborne(flights)) \ {f.request.send}
         /\ idb' = idb /\ (Restoring(idbOps') <=> Restoring(idbOps))
<1> DEFINE s == f.request.send
           o == [op |-> "remove", send |-> s]
<1>1. f \in Flights /\ f.request \in Requests /\ s \in Sends /\ f.replay \in BOOLEAN
  BY FlightFacts DEF ChatInv, Owned
<1>2. s \in Airborne(flights)
  BY DEF Airborne
<1>3. /\ queue \in Seq(Requests) /\ OneEach(queue) /\ SendsOf(queue) \cap Airborne(flights) = {}
      /\ Restoring(idbOps) => SendsOf(idb) \cap (SendsOf(queue) \cup Airborne(flights)) = {}
      /\ idb \in Seq(Requests) /\ OneEach(idb)
  BY DEF ChatInv, Placed
<1>4. idb' = idb
  BY DEF Finish, queueVars
<1>5. o \in IdbOps /\ o.op = "remove" /\ o.send = s
  BY <1>1, OpFacts
<1>6. ASSUME f.replay
      PROVE  /\ Issued(idbOps', st) /\ (Restoring(idbOps') <=> Restoring(idbOps))
             /\ AddsOf(idbOps') = AddsOf(idbOps)
             /\ AddedRequests(idbOps') = AddedRequests(idbOps)
  <2>1. idbOps' = Append(idbOps, o)
    BY <1>6 DEF Finish
  <2>2. o.op # "getAll" /\ o.op # "add" /\ st[o.send] \in Done
    BY <1>5
  <2> HIDE DEF o
  <2>3. /\ Issued(Append(idbOps, o), st)
        /\ Restoring(Append(idbOps, o)) <=> Restoring(idbOps)
        /\ o.op = "remove" => /\ AddsOf(Append(idbOps, o)) = AddsOf(idbOps)
                              /\ AddedRequests(Append(idbOps, o)) = AddedRequests(idbOps)
    BY <1>5, <2>2, AnOpMore
  <2> QED BY <1>5, <2>1, <2>3
<1>7. ASSUME ~f.replay PROVE idbOps' = idbOps /\ queue' = queue
  BY <1>7 DEF Finish, queueVars
<1>8. /\ Issued(idbOps', st) /\ (Restoring(idbOps') <=> Restoring(idbOps))
      /\ AddsOf(idbOps') = AddsOf(idbOps) /\ AddedRequests(idbOps') = AddedRequests(idbOps)
  BY <1>6, <1>7
<1> HIDE DEF o
<1>9. CASE ~(f.replay /\ queue # <<>>)
  <2>1. /\ flights' = flights \ {f} /\ replaying' = (replaying /\ ~f.replay)
        /\ Release(f.request.send) /\ queue' = queue
    BY <1>1, <1>9 DEF Finish, queueVars, ChatInv, Owned
  <2>2. /\ Owned(flights', active', loading', replaying')
        /\ Airborne(flights') = Airborne(flights) \ {s}
        /\ Requested(flights') \subseteq Requested(flights)
    BY <2>1, ReleaseGives
  <2> HIDE DEF s
  <2>3. SendsOf(queue') \cup Airborne(flights')
          \subseteq (SendsOf(queue) \cup Airborne(flights)) \ {s}
    BY <1>2, <1>3, <2>1, <2>2
  <2>4. Placed(queue', idb', Airborne(flights'), Restoring(idbOps'))
    BY <1>3, <1>4, <1>8, <2>1, <2>2 DEF Placed
  <2>5. Unrecorded(flights', idb', idbOps')
    BY <1>4, <1>8, <2>1 DEF ChatInv, Unrecorded
  <2>6. Known(queue', idb', flights', idbOps') \subseteq Known(queue, idb, flights, idbOps)
    BY <1>4, <1>8, <2>1, <2>2 DEF Known
  <2> QED BY <1>4, <1>8, <2>2, <2>3, <2>4, <2>5, <2>6 DEF s
<1>10. CASE f.replay /\ queue # <<>>
  <2> DEFINE live == flights \ {f}
  <2>1. ReplayNext(queue, live)
    BY <1>10 DEF Finish
  <2>2. Airborne(live) = Airborne(flights) \ {s} /\ Requested(live) \subseteq Requested(flights)
    BY Leaving DEF ChatInv
  <2>3. Apart(live) /\ ~Replays(live)
    BY <1>10 DEF ChatInv, Owned, Apart, Replays
  <2>4. live \subseteq flights
    OBVIOUS
  <2> HIDE DEF live, s
  <2>5. SendsOf(queue) \cap Airborne(live) = {}
    BY <1>3, <2>2
  <2>6. /\ Owned(flights', active', loading', replaying')
        /\ queue' \in Seq(Requests) /\ OneEach(queue')
        /\ SendsOf(queue') \cap Airborne(flights') = {}
        /\ SendsOf(queue') \cup Airborne(flights') = SendsOf(queue) \cup Airborne(live)
        /\ ToSet(queue') \cup Requested(flights') \subseteq ToSet(queue) \cup Requested(live)
        /\ \A g \in flights' :
              g.replay \/ \E e \in live : g.request = e.request /\ g.replay = e.replay
    BY <1>3, <1>10, <2>1, <2>3, <2>5, ReplayTakes
  <2>7. SendsOf(queue') \cup Airborne(flights')
          \subseteq (SendsOf(queue) \cup Airborne(flights)) \ {s}
    BY <1>2, <1>3, <2>2, <2>6
  <2>8. Placed(queue', idb', Airborne(flights'), Restoring(idbOps'))
    BY <1>3, <1>4, <1>8, <2>6, <2>7 DEF Placed
  <2>9. Unrecorded(flights', idb', idbOps')
    BY <1>4, <1>8, <2>4, <2>6 DEF ChatInv, Unrecorded
  <2>10. Known(queue', idb', flights', idbOps') \subseteq Known(queue, idb, flights, idbOps)
    BY <1>4, <1>8, <2>2, <2>6 DEF Known
  <2> QED BY <1>4, <1>8, <2>6, <2>7, <2>8, <2>9, <2>10 DEF s
<1> QED BY <1>9, <1>10

LEMMA ReturnStep ==
  ASSUME ChatInv, NEW f \in flights, (\E outcome \in Outcomes : Answer(f, outcome)) \/ Fail(f)
  PROVE  ChatInv'
<1> DEFINE s == f.request.send
           r == f.request
           v == status'[s]
<1>1. /\ ~f.aborted /\ Finish(f) /\ UNCHANGED <<online, session, saved, reloads>>
      /\ \E w \in Done : status' = [status EXCEPT ![s] = w]
      /\ answers' = answers \/ answers' = [answers EXCEPT ![s] = @ + 1]
      /\ timer' \in BOOLEAN
  BY DEF Answer, Fail, storeVars, Done, ChatInv, Bounded
<1>2. f \in Flights /\ r \in Requests /\ s \in Sends
  BY FlightFacts DEF ChatInv, Owned
<1>3. r \in Known(queue, idb, flights, idbOps)
  BY DEF Known, Requested
<1>4. r.snap.count < r.send /\ status[s] # "unsent" /\ machine \in Machines
      /\ status \in [Sends -> Statuses]
  BY <1>3 DEF ChatInv, Timely
<1>5. PICK w \in Done : status' = [status EXCEPT ![s] = w]
  BY <1>1
<1>6. machine' \in Machines /\ machine'.ctx.count <= r.send
  <2>1. CASE \E outcome \in Outcomes : Answer(f, outcome)
    <3>1. PICK outcome \in Outcomes : machine' = Responded(machine, r, outcome)
      BY <2>1 DEF Answer
    <3> HIDE DEF r
    <3> QED BY <1>2, <1>4, <3>1, RespondedKeeps
  <2>2. CASE Fail(f)
    <3> DEFINE c == Counted(machine, r)
    <3>1. machine' = Step(c, "ENCOUNTER_ERROR")
      BY <2>2 DEF Fail
    <3>2. c \in Machines /\ c.ctx.count <= r.send
      BY <1>2, <1>4, CountedKeeps
    <3> HIDE DEF c
    <3>3. machine' \in Machines /\ machine'.ctx.count <= c.ctx.count
      BY <3>1, <3>2, Stepped
    <3>4. machine'.ctx.count \in Nat
      BY <3>3 DEF Machines
    <3>5. c.ctx.count \in Nat
      BY <3>2 DEF Machines
    <3>6. r.send \in Nat
      BY <1>2, SendFacts
    <3> QED BY <3>2, <3>3, <3>4, <3>5, <3>6
  <2> QED BY <2>1, <2>2
<1> DEFINE st == status'
           m == machine'
<1>7. /\ Timely(Known(queue, idb, flights, idbOps), st, m)
      /\ Issued(idbOps, st)
  <2>1. /\ Timely(Known(queue, idb, flights, idbOps), status, machine)
        /\ Issued(idbOps, status)
    BY DEF ChatInv
  <2> HIDE DEF m
  <2>2. m \in Machines /\ m.ctx.count <= s
    BY <1>6 DEF m
  <2> HIDE DEF s
  <2> QED BY <1>2, <1>4, <1>5, <2>1, <2>2, LaterStatus
<1>8. st[s] \in Done
  BY <1>2, <1>4, <1>5
<1> HIDE DEF st, m
<1>9. /\ Owned(flights', active', loading', replaying')
      /\ Placed(queue', idb', Airborne(flights'), Restoring(idbOps'))
      /\ Issued(idbOps', st)
      /\ Unrecorded(flights', idb', idbOps')
      /\ Known(queue', idb', flights', idbOps') \subseteq Known(queue, idb, flights, idbOps)
      /\ SendsOf(queue') \cup Airborne(flights')
           \subseteq (SendsOf(queue) \cup Airborne(flights)) \ {f.request.send}
      /\ idb' = idb /\ (Restoring(idbOps') <=> Restoring(idbOps))
  BY <1>1, <1>7, <1>8, FinishLeaves
<1>10. Timely(Known(queue', idb', flights', idbOps'), st, m)
  BY <1>7, <1>9, LessIsTimely
<1>11. AnsweredOnce(answers', SendsOf(queue') \cup Airborne(flights'), SendsOf(idb'),
                    Restoring(idbOps'), status')
  <2>1. \A t \in Sends : t # s => status'[t] = status[t] /\ answers'[t] = answers[t]
    BY <1>1, <1>4, <1>5 DEF ChatInv, AnsweredOnce
  <2>2. status'[s] # "unsent"
    BY <1>8 DEF st, Done
  <2>3. s \in Airborne(flights)
    BY DEF Airborne
  <2>4. answers[s] = 0
    BY <1>2, <2>3 DEF ChatInv, AnsweredOnce
  <2>5. answers' \in [Sends -> {0, 1}]
    BY <1>1, <2>4 DEF ChatInv, AnsweredOnce
  <2>6. Restoring(idbOps) => s \notin SendsOf(idb)
    BY <2>3 DEF ChatInv, Placed
  <2>7. ASSUME NEW t \in Sends, answers'[t] = 1
        PROVE  /\ status'[t] # "unsent" /\ t \notin SendsOf(queue') \cup Airborne(flights')
               /\ Restoring(idbOps') => t \notin SendsOf(idb')
    <3>1. CASE t = s
      BY <1>9, <2>2, <2>6, <3>1
    <3>2. CASE t # s
      <4>1. /\ status[t] # "unsent" /\ t \notin SendsOf(queue) \cup Airborne(flights)
            /\ Restoring(idbOps) => t \notin SendsOf(idb)
        BY <2>1, <2>7, <3>2 DEF ChatInv, AnsweredOnce
      <4> QED BY <1>9, <2>1, <3>2, <4>1
    <3> QED BY <3>1, <3>2
  <2> QED BY <2>5, <2>7 DEF AnsweredOnce
<1>12. Bounded'
  BY <1>1 DEF ChatInv, Bounded
<1> QED BY <1>9, <1>10, <1>11, <1>12 DEF ChatInv, st, m

LEMMA RequeueStep ==
  ASSUME ChatInv, NEW f \in flights, Requeue(f)
  PROVE  ChatInv'
<1> DEFINE r == f.request
           s == f.request.send
           o == [op |-> "add", request |-> r]
<1>1. /\ ~f.aborted /\ machine' = Counted(machine, r) /\ flights' = flights \ {f}
      /\ Release(f.request.send) /\ UNCHANGED <<status, answers, idb, timer, online, session,
                                                saved, reloads>>
      /\ f.replay => queue' = <<r>> \o queue /\ replaying' = FALSE /\ idbOps' = idbOps
      /\ ~f.replay => queue' = Append(queue, r) /\ idbOps' = Append(idbOps, o)
                      /\ replaying' = replaying
  BY DEF Requeue, storeVars
<1>2. f \in Flights /\ r \in Requests /\ s \in Sends /\ f.replay \in BOOLEAN /\ s = r.send
  BY FlightFacts DEF ChatInv, Owned
<1>3. r \in Known(queue, idb, flights, idbOps) /\ s \in Airborne(flights)
  BY DEF Known, Requested, Airborne
<1>4. r.snap.count < r.send /\ status[s] # "unsent" /\ machine \in Machines
  BY <1>3 DEF ChatInv, Timely
<1>5. replaying' = (replaying /\ ~f.replay)
  BY <1>1, <1>2 DEF ChatInv, Owned
<1>6. /\ Owned(flights', active', loading', replaying')
      /\ Airborne(flights') = Airborne(flights) \ {s}
      /\ Requested(flights') \subseteq Requested(flights)
  BY <1>1, <1>5, ReleaseGives
<1>7. machine' \in Machines /\ machine'.ctx.count <= s
  <2> HIDE DEF r
  <2> QED BY <1>1, <1>2, <1>4, CountedKeeps
<1>8. /\ queue \in Seq(Requests) /\ OneEach(queue) /\ s \notin SendsOf(queue)
      /\ SendsOf(queue) \cap Airborne(flights) = {}
      /\ Restoring(idbOps) => SendsOf(idb) \cap (SendsOf(queue) \cup Airborne(flights)) = {}
      /\ idb \in Seq(Requests) /\ OneEach(idb)
  BY <1>3 DEF ChatInv, Placed
<1>9. o \in IdbOps /\ o.op = "add" /\ o.request = r
  BY <1>2, OpFacts
<1>10. \A g \in flights' : g \in flights /\ g.request.send # s
  BY <1>1 DEF ChatInv, Owned
<1> HIDE DEF r, s, o
<1>11. /\ queue' \in Seq(Requests) /\ OneEach(queue') /\ ToSet(queue') = ToSet(queue) \cup {r}
       /\ SendsOf(queue') = SendsOf(queue) \cup {s}
  <2>1. /\ Append(queue, r) \in Seq(Requests) /\ OneEach(Append(queue, r))
        /\ ToSet(Append(queue, r)) = ToSet(queue) \cup {r}
        /\ SendsOf(Append(queue, r)) = SendsOf(queue) \cup {r.send}
        /\ <<r>> \o queue \in Seq(Requests) /\ OneEach(<<r>> \o queue)
        /\ ToSet(<<r>> \o queue) = ToSet(queue) \cup {r}
        /\ SendsOf(<<r>> \o queue) = SendsOf(queue) \cup {r.send}
    BY <1>2, <1>8, Queued
  <2> QED BY <1>1, <1>2, <2>1
<1>12. /\ Issued(idbOps', status) /\ (Restoring(idbOps') <=> Restoring(idbOps))
       /\ f.replay => AddsOf(idbOps') = AddsOf(idbOps)
       /\ ~f.replay => AddsOf(idbOps') = AddsOf(idbOps) \cup {s}
       /\ AddedRequests(idbOps') \subseteq AddedRequests(idbOps) \cup {r}
  <2>1. CASE f.replay
    BY <1>1, <2>1 DEF ChatInv
  <2>2. CASE ~f.replay
    <3>1. o.op # "getAll" /\ o.op # "remove" /\ o.request.send \notin AddsOf(idbOps)
      <4>1. s \notin AddsOf(idbOps)
        BY <2>2 DEF ChatInv, Unrecorded, s
      <4> QED BY <1>2, <1>9, <4>1
    <3>2. Issued(idbOps, status)
      BY DEF ChatInv
    <3>3. /\ Issued(Append(idbOps, o), status)
          /\ Restoring(Append(idbOps, o)) <=> Restoring(idbOps)
          /\ o.op = "add" => /\ AddsOf(Append(idbOps, o)) = AddsOf(idbOps) \cup {o.request.send}
                             /\ AddedRequests(Append(idbOps, o))
                                  = AddedRequests(idbOps) \cup {o.request}
      BY <1>9, <3>1, <3>2, AnOpMore
    <3> QED BY <1>1, <1>2, <1>9, <2>2, <3>3
  <2> QED BY <2>1, <2>2
<1>13. Placed(queue', idb', Airborne(flights'), Restoring(idbOps'))
  BY <1>1, <1>3, <1>6, <1>8, <1>11, <1>12 DEF Placed
<1>14. Unrecorded(flights', idb', idbOps')
  <2>1. ~f.replay => s \notin SendsOf(idb)
    BY DEF ChatInv, Unrecorded, s
  <2> QED BY <1>1, <1>10, <1>12, <2>1 DEF ChatInv, Unrecorded
<1>15. Timely(Known(queue', idb', flights', idbOps'), status, machine')
  <2>1. Known(queue', idb', flights', idbOps') \subseteq Known(queue, idb, flights, idbOps)
    BY <1>1, <1>3, <1>6, <1>11, <1>12 DEF Known
  <2>2. Timely(Known(queue', idb', flights', idbOps'), status, machine)
    BY <2>1, LessIsTimely DEF ChatInv
  <2>3. \A t \in Sends : status[t] = "unsent" => s < t
    BY <1>2, <1>4, <2>2, SendFacts DEF Timely
  <2>4. machine'.ctx.count \in Nat
    BY <1>7 DEF Machines
  <2>5. \A t \in Sends : status[t] = "unsent" => machine'.ctx.count < t
    BY <1>2, <1>7, <2>3, <2>4, SendFacts
  <2> HIDE DEF Known
  <2> QED BY <1>7, <2>2, <2>5 DEF Timely
<1>16. AnsweredOnce(answers', SendsOf(queue') \cup Airborne(flights'), SendsOf(idb'),
                    Restoring(idbOps'), status')
  <2>1. SendsOf(queue') \cup Airborne(flights') \subseteq SendsOf(queue) \cup Airborne(flights)
    BY <1>3, <1>6, <1>11
  <2>2. AnsweredOnce(answers, SendsOf(queue') \cup Airborne(flights'), SendsOf(idb),
                     Restoring(idbOps), status)
    BY <2>1, LessIsAnswered DEF ChatInv
  <2> QED BY <1>1, <1>12, <2>2 DEF AnsweredOnce
<1>17. Bounded'
  BY <1>1 DEF ChatInv, Bounded
<1> QED BY <1>1, <1>6, <1>12, <1>13, <1>14, <1>15, <1>16, <1>17 DEF ChatInv

(* The offline queue, with or without the records, is replayed.            *)
LEMMA StartReplayStep ==
  ASSUME ChatInv, NEW todo \in Seq(Requests), OneEach(todo), StartReplay(todo),
         SendsOf(todo) \cap Airborne(flights) = {}
  PROVE  /\ Owned(flights', active', loading', replaying')
         /\ queue' \in Seq(Requests) /\ OneEach(queue')
         /\ SendsOf(queue') \cap Airborne(flights') = {}
         /\ SendsOf(queue') \cup Airborne(flights') = SendsOf(todo) \cup Airborne(flights)
         /\ ToSet(queue') \cup Requested(flights') \subseteq ToSet(todo) \cup Requested(flights)
         /\ \A g \in flights' :
               g.replay \/ \E f \in flights : g.request = f.request /\ g.replay = f.replay
<1>1. CASE replaying \/ todo = <<>> \/ ~online'
  <2>1. queue' = todo /\ UNCHANGED <<flights, active, loading, replaying>>
    BY <1>1 DEF StartReplay
  <2> QED BY <2>1 DEF ChatInv
<1>2. CASE ~(replaying \/ todo = <<>> \/ ~online')
  <2>1. ReplayNext(todo, flights) /\ todo # <<>> /\ ~replaying
    BY <1>2 DEF StartReplay
  <2>2. Apart(flights) /\ ~Replays(flights)
    BY <2>1 DEF ChatInv, Owned, Apart, Replays
  <2> QED BY <2>1, <2>2, ReplayTakes
<1> QED BY <1>1, <1>2

LEMMA GoOnlineStep ==
  ASSUME ChatInv, GoOnline
  PROVE  ChatInv'
<1>1. /\ StartReplay(queue) /\ online' = TRUE
      /\ UNCHANGED <<machine, status, answers, idb, idbOps, timer, session, saved, reloads>>
  BY DEF GoOnline, storeVars
<1>2. /\ queue \in Seq(Requests) /\ OneEach(queue) /\ SendsOf(queue) \cap Airborne(flights) = {}
      /\ Restoring(idbOps) => SendsOf(idb) \cap (SendsOf(queue) \cup Airborne(flights)) = {}
      /\ idb \in Seq(Requests) /\ OneEach(idb)
  BY DEF ChatInv, Placed
<1>3. /\ Owned(flights', active', loading', replaying')
      /\ queue' \in Seq(Requests) /\ OneEach(queue')
      /\ SendsOf(queue') \cap Airborne(flights') = {}
      /\ SendsOf(queue') \cup Airborne(flights') = SendsOf(queue) \cup Airborne(flights)
      /\ ToSet(queue') \cup Requested(flights') \subseteq ToSet(queue) \cup Requested(flights)
      /\ \A g \in flights' :
            g.replay \/ \E f \in flights : g.request = f.request /\ g.replay = f.replay
  BY <1>1, <1>2, StartReplayStep
<1>4. Placed(queue', idb, Airborne(flights'), Restoring(idbOps))
  BY <1>2, <1>3 DEF Placed
<1>5. Unrecorded(flights', idb, idbOps)
  BY <1>3 DEF ChatInv, Unrecorded
<1>6. Timely(Known(queue', idb, flights', idbOps), status, machine)
  <2>1. Known(queue', idb, flights', idbOps) \subseteq Known(queue, idb, flights, idbOps)
    BY <1>3 DEF Known
  <2> QED BY <2>1, LessIsTimely DEF ChatInv
<1>7. AnsweredOnce(answers, SendsOf(queue') \cup Airborne(flights'), SendsOf(idb),
                   Restoring(idbOps), status)
  BY <1>3 DEF ChatInv
<1>8. Bounded'
  BY <1>1 DEF ChatInv, Bounded
<1> QED BY <1>1, <1>3, <1>4, <1>5, <1>6, <1>7, <1>8 DEF ChatInv

LEMMA RestoreStep ==
  ASSUME ChatInv, Restore
  PROVE  ChatInv'
<1>1. /\ idbOps # <<>> /\ Head(idbOps).op = "getAll" /\ idbOps' = Tail(idbOps)
      /\ UNCHANGED <<machine, status, answers, idb, timer, online, session, saved, reloads>>
      /\ idb = <<>> => UNCHANGED <<queue, flights, active, loading, replaying>>
      /\ idb # <<>> => StartReplay(queue \o idb)
  BY DEF Restore, storeVars
<1>2. Issued(idbOps, status)
  BY DEF ChatInv
<1>3. /\ Head(idbOps) = idbOps[1] /\ Issued(idbOps', status) /\ ~Restoring(idbOps')
      /\ AddsOf(idbOps') \subseteq AddsOf(idbOps)
      /\ AddedRequests(idbOps') \subseteq AddedRequests(idbOps)
  BY <1>1, <1>2, AnOpLess
<1>4. Restoring(idbOps)
  BY <1>1, <1>3 DEF Restoring
<1>5. /\ queue \in Seq(Requests) /\ OneEach(queue) /\ idb \in Seq(Requests) /\ OneEach(idb)
      /\ SendsOf(queue) \cap Airborne(flights) = {}
      /\ SendsOf(idb) \cap (SendsOf(queue) \cup Airborne(flights)) = {}
  BY <1>4 DEF ChatInv, Placed
<1> DEFINE todo == queue \o idb
<1>6. /\ todo \in Seq(Requests) /\ OneEach(todo)
      /\ ToSet(todo) = ToSet(queue) \cup ToSet(idb)
      /\ SendsOf(todo) = SendsOf(queue) \cup SendsOf(idb)
  <2>1. SendsOf(queue) \cap SendsOf(idb) = {}
    BY <1>5
  <2> QED BY <1>5, <2>1, Joined
<1>7. /\ Owned(flights', active', loading', replaying')
      /\ queue' \in Seq(Requests) /\ OneEach(queue')
      /\ SendsOf(queue') \cap Airborne(flights') = {}
      /\ SendsOf(queue') \cup Airborne(flights')
           \subseteq SendsOf(queue) \cup SendsOf(idb) \cup Airborne(flights)
      /\ ToSet(queue') \cup Requested(flights')
           \subseteq ToSet(queue) \cup ToSet(idb) \cup Requested(flights)
      /\ \A g \in flights' :
            g.replay \/ \E f \in flights : g.request = f.request /\ g.replay = f.replay
  <2>1. CASE idb = <<>>
    BY <1>1, <1>5, <2>1 DEF ChatInv
  <2>2. CASE idb # <<>>
    <3>1. StartReplay(todo) /\ SendsOf(todo) \cap Airborne(flights) = {}
      BY <1>1, <1>5, <1>6, <2>2
    <3> HIDE DEF todo
    <3>2. /\ Owned(flights', active', loading', replaying')
          /\ queue' \in Seq(Requests) /\ OneEach(queue')
          /\ SendsOf(queue') \cap Airborne(flights') = {}
          /\ SendsOf(queue') \cup Airborne(flights') = SendsOf(todo) \cup Airborne(flights)
          /\ ToSet(queue') \cup Requested(flights')
               \subseteq ToSet(todo) \cup Requested(flights)
          /\ \A g \in flights' :
                g.replay \/ \E f \in flights : g.request = f.request /\ g.replay = f.replay
      BY <1>6, <3>1, StartReplayStep
    <3> QED BY <1>6, <3>2
  <2> QED BY <2>1, <2>2
<1> HIDE DEF todo
<1>8. Placed(queue', idb, Airborne(flights'), Restoring(idbOps'))
  BY <1>3, <1>5, <1>7 DEF Placed
<1>9. Unrecorded(flights', idb, idbOps')
  BY <1>3, <1>7 DEF ChatInv, Unrecorded
<1>10. Timely(Known(queue', idb, flights', idbOps'), status, machine)
  <2>1. Known(queue', idb, flights', idbOps') \subseteq Known(queue, idb, flights, idbOps)
    BY <1>3, <1>7 DEF Known
  <2> QED BY <2>1, LessIsTimely DEF ChatInv
<1>11. AnsweredOnce(answers, SendsOf(queue') \cup Airborne(flights'), SendsOf(idb),
                    Restoring(idbOps'), status)
  BY <1>3, <1>4, <1>7 DEF ChatInv, AnsweredOnce
<1>12. Bounded'
  BY <1>1 DEF ChatInv, Bounded
<1> QED BY <1>1, <1>3, <1>7, <1>8, <1>9, <1>10, <1>11, <1>12 DEF ChatInv

-----------------------------------------------------------------------------
LEMMA ChatStarts ==
  ASSUME ChatInit
  PROVE  ChatInv
<1> DEFINE ops == <<[op |-> "getAll"]>>
<1>1. ops \in Seq(IdbOps) /\ DOMAIN ops = {1} /\ ops[1] = [op |-> "getAll"]
  <2>1. [op |-> "getAll"] \in IdbOps
    BY OpFacts
  <2> HIDE DEF IdbOps
  <2> QED BY <2>1
<1>2. /\ queue = <<>> /\ idb = <<>> /\ idbOps = ops /\ flights = {}
      /\ active = None /\ loading = FALSE /\ replaying = FALSE /\ machine = NewMachine
      /\ answers = [s \in Sends |-> 0] /\ status = [s \in Sends |-> "unsent"]
  BY DEF ChatInit
<1>3. ops[1].op = "getAll"
  BY <1>1
<1> HIDE DEF ops
<1>4. ToSet(ops) = {ops[1]}
  BY <1>1 DEF ToSet
<1>5. AddsOf(ops) = {} /\ AddedRequests(ops) = {}
  BY <1>3, <1>4 DEF AddsOf, AddedRequests
<1>6. <<>> \in Seq(Requests) /\ OneEach(<<>>) /\ ToSet(<<>>) = {} /\ SendsOf(<<>>) = {}
  BY DEF OneEach, ToSet, SendsOf
<1>7. Airborne({}) = {} /\ Requested({}) = {}
  BY DEF Airborne, Requested
<1>8. Owned(flights, active, loading, replaying)
  BY <1>2 DEF Owned
<1>9. Placed(queue, idb, Airborne(flights), Restoring(idbOps))
  BY <1>2, <1>6 DEF Placed
<1>10. Issued(idbOps, status)
  BY <1>1, <1>2, <1>3, <1>4 DEF Issued, AddsOnce
<1>11. Unrecorded(flights, idb, idbOps)
  BY <1>2, <1>5 DEF Unrecorded
<1>12. Timely(Known(queue, idb, flights, idbOps), status, machine)
  <2>1. NewMachine \in Machines /\ NewMachine.ctx.count = 0
    BY SendsAssumption DEF NewMachine, NewContext, Machines, ChatStates, Pendings
  <2>2. Known(queue, idb, flights, idbOps) = {}
    BY <1>2, <1>5, <1>6, <1>7 DEF Known
  <2>3. \A s \in Sends : 0 < s
    BY SendFacts
  <2> HIDE DEF Known
  <2> QED BY <1>2, <2>1, <2>2, <2>3 DEF Timely, Statuses
<1>13. AnsweredOnce(answers, SendsOf(queue) \cup Airborne(flights), SendsOf(idb),
                    Restoring(idbOps), status)
  BY <1>2 DEF AnsweredOnce
<1>14. Bounded
  <2>1. reloads \in 0 .. MaxReloads
    BY ReloadsAssumption DEF ChatInit
  <2> QED BY <2>1 DEF ChatInit, Bounded
<1> QED BY <1>8, <1>9, <1>10, <1>11, <1>12, <1>13, <1>14 DEF ChatInv

LEMMA ChatKeeps ==
  ASSUME ChatInv, ChatNext
  PROVE  ChatInv'
<1>1. CASE InitSession \/ ClearChat \/ LoadChatSession
  BY <1>1, SessionSteps
<1>2. CASE GoOffline \/ TransactionReady \/ SaveSession
  BY <1>2, QuietSteps
<1>3. CASE CancelPending
  BY <1>3, CancelStep
<1>4. CASE Settled
  <2>1. PICK f \in flights :
             (\E outcome \in Outcomes : Answer(f, outcome)) \/ Settle(f) \/ Fail(f) \/ Requeue(f)
    BY <1>4 DEF Settled, Answered
  <2> QED BY <2>1, ReturnStep, SettleStep, RequeueStep
<1>5. CASE \E s \in Sends, cancels \in BOOLEAN : SendMessage(s, cancels)
  BY <1>5, SendStep
<1>6. CASE GoOnline
  BY <1>6, GoOnlineStep
<1>7. CASE IdbWrite
  BY <1>7, IdbWriteStep
<1>8. CASE Restore
  BY <1>8, RestoreStep
<1>9. CASE Reload
  BY <1>9, ReloadStep
<1> QED BY <1>1, <1>2, <1>3, <1>4, <1>5, <1>6, <1>7, <1>8, <1>9 DEF ChatNext

LEMMA AtMostOne ==
  ASSUME NEW S, \A x, y \in S : x = y
  PROVE  Cardinality(S) <= 1
<1>1. CASE S = {}
  BY <1>1, FS_EmptySet
<1>2. CASE S # {}
  <2>1. PICK x \in S : TRUE
    BY <1>2
  <2>2. S = {x}
    BY <2>1
  <2> QED BY <2>2, FS_Singleton
<1> QED BY <1>1, <1>2

LEMMA ChatMeans ==
  ASSUME ChatInv
  PROVE  SpinnerHasRequest /\ OneAnswerEach
<1>1. Owned(flights, active, loading, replaying)
  BY DEF ChatInv
<1>2. SpinnerHasRequest
  <2>1. ASSUME NEW s PROVE s \in {f.request.send : f \in {g \in flights : ~g.aborted}}
                           <=> s \in {active} \ {None}
    BY <1>1, FlightFacts, SendFacts DEF Owned
  <2>2. {f.request.send : f \in {g \in flights : ~g.aborted}} = {active} \ {None}
    BY <2>1
  <2> QED BY <1>1, <2>2 DEF Owned, SpinnerHasRequest
<1>3. Cardinality({f \in flights : ~f.aborted}) <= 1
  <2>1. \A f, g \in {h \in flights : ~h.aborted} : f = g
    BY <1>1 DEF Owned
  <2> QED BY <2>1, AtMostOne
<1>4. Cardinality({f \in flights : f.replay}) <= 1
  <2>1. \A f, g \in {h \in flights : h.replay} : f = g
    BY <1>1 DEF Owned
  <2> QED BY <2>1, AtMostOne
<1>5. AnsweredOncePerLoad
  <2>1. \A s \in Sends : answers[s] = 0 \/ answers[s] = 1
    BY DEF ChatInv, AnsweredOnce
  <2> QED BY <2>1 DEF AnsweredOncePerLoad
<1> QED BY <1>1, <1>2, <1>3, <1>4, <1>5 DEF Owned, OneAnswerEach, OneAnswerToCome

(* A step drops a record only by a removal that was issued, and those are  *)
(* issued for messages that are done.                                      *)
LEMMA RecordsLeaveDone ==
  ASSUME ChatInv, ChatNext
  PROVE  \A i \in DOMAIN idb : (\A j \in DOMAIN idb' : idb'[j].send # idb[i].send)
            => status[idb[i].send] \in Done
<1>1. CASE idb' = idb
  BY <1>1
<1>2. CASE IdbWrite
  <2> DEFINE h == Head(idbOps)
             Good == {r \in ToSet(idb) : r.send # h.send}
  <2>1. /\ idbOps # <<>> /\ h.op # "getAll"
        /\ h.op = "add" => idb' = Append(idb, h.request)
        /\ h.op # "add" => idb' = Filtered(idb, Good)
    BY <1>2 DEF IdbWrite
  <2>2. Issued(idbOps, status) /\ idb \in Seq(Requests)
    BY DEF ChatInv, Placed
  <2>3. h \in IdbOps /\ h \in ToSet(idbOps)
    BY <2>1, <2>2, AnOpLess
  <2> SUFFICES ASSUME NEW i \in DOMAIN idb, \A j \in DOMAIN idb' : idb'[j].send # idb[i].send
               PROVE  status[idb[i].send] \in Done
    OBVIOUS
  <2>4. idb[i] \in ToSet(idb) /\ idb[i] \notin ToSet(idb')
    BY DEF ToSet
  <2>5. CASE h.op = "add"
    <3>1. h.request \in Requests
      BY <2>3, <2>5, OpFacts
    <3> HIDE DEF h, Requests
    <3>2. ToSet(idb') = ToSet(idb) \cup {h.request}
      BY <2>1, <2>2, <2>5, <3>1, AppendMembers
    <3> QED BY <2>4, <3>2
  <2>6. CASE h.op # "add"
    <3>1. h.op = "remove"
      BY <2>1, <2>3, <2>6, OpFacts
    <3>2. status[h.send] \in Done
      BY <2>2, <2>3, <3>1 DEF Issued
    <3>3. ToSet(idb') = ToSet(idb) \cap Good
      <4> HIDE DEF Good, h, Requests
      <4> QED BY <2>1, <2>2, <2>6, FilteredMembers
    <3>4. idb[i].send = h.send
      BY <2>4, <3>3
    <3> QED BY <3>2, <3>4
  <2> QED BY <2>5, <2>6
<1>3. idb' = idb \/ IdbWrite
  BY DEF ChatNext, InitSession, CancelPending, Settled, Answered, ClearChat, LoadChatSession,
         SendMessage, GoOffline, GoOnline, Restore, TransactionReady, SaveSession, Reload,
         Settle, Answer, Fail, Requeue, Finish, queueVars
<1> QED BY <1>1, <1>2, <1>3

-----------------------------------------------------------------------------
(* The inductive invariant of the chat session (useChat.ts): who owns the  *)
(* controller, where a message may be, what IndexedDB has still to do, and *)
(* in which order messages were sent.                                      *)
THEOREM ChatInvariance == ChatSpec => []ChatInv
<1>1. ChatInit => ChatInv
  BY ChatStarts
<1>2. ChatInv /\ [ChatNext]_chatVars => ChatInv'
  <2> SUFFICES ASSUME ChatInv, [ChatNext]_chatVars PROVE ChatInv'
    OBVIOUS
  <2>1. CASE ChatNext
    BY <2>1, ChatKeeps
  <2>2. CASE UNCHANGED chatVars
    BY <2>2 DEF chatVars, ChatInv, Bounded
  <2> QED BY <2>1, <2>2
<1> QED BY <1>1, <1>2, PTL DEF ChatSpec

(* The run's specification moves the chat session as its own does.         *)
LEMMA SessionMoves == MCChatSpec => ChatSpec
<1>1. MCChatInit => ChatInit
  BY DEF MCChatInit
<1>2. [MCChatNext]_mcVars => [ChatNext]_chatVars
  BY DEF MCChatNext, mcVars
<1> QED BY <1>1, <1>2, PTL DEF MCChatSpec, ChatSpec

(* The spinner turns exactly while a request that will still answer owns   *)
(* the controller (useChat.ts:649, the finally blocks).                    *)
THEOREM SpinnerKeepsItsRequest == MCChatSpec => []SpinnerHasRequest
<1>1. ChatInv => SpinnerHasRequest
  BY ChatMeans
<1> QED BY <1>1, ChatInvariance, SessionMoves, PTL

(* However sends, cancellations, replays, restores and reloads interleave, *)
(* one call at most can still answer and no message is answered twice in a *)
(* page load (useChat.ts:602-700).                                         *)
THEOREM AnswersComeOnce == MCChatSpec => []OneAnswerEach
<1>1. ChatInv => OneAnswerEach
  BY ChatMeans
<1> QED BY <1>1, ChatInvariance, SessionMoves, PTL

(* A record leaves IndexedDB only after its message was answered or marked *)
(* failed: a reload at any moment loses none (offlineMessageQueue.ts).     *)
THEOREM RecordsOutliveSends == MCChatSpec => RecordOutlivesSend
<1>1. ChatInv /\ [ChatNext]_chatVars =>
        [\A i \in DOMAIN idb : (\A j \in DOMAIN idb' : idb'[j].send # idb[i].send)
            => status[idb[i].send] \in {"sent", "failed"}]_chatVars
  BY RecordsLeaveDone DEF Done
<1> QED BY <1>1, ChatInvariance, SessionMoves, PTL DEF ChatSpec, RecordOutlivesSend

-----------------------------------------------------------------------------
(***************************************************************************)
(* The other parts of the chat move by their own steps or rest.            *)
(***************************************************************************)
LEMMA PartsMove ==
  ASSUME [MCChatNext]_mcVars
  PROVE  /\ [StoreNext]_historyVars /\ [ComposerNext]_boxVars /\ [AssistantNext]_assistantVars
         /\ [SearchNext]_searchVars /\ [SplitNext]_splitVars /\ [ShellNext]_shellVars
         /\ [MessageListNext]_messageListVars /\ [SideListNext]_sideListVars
         /\ [BannerNext]_bannerVars /\ [DialogsNext]_dialogsVars /\ [TextNext]_textVars
<1>1. CASE UNCHANGED mcVars
  BY <1>1 DEF mcVars, alertsVars
<1>2. CASE MCChatNext
  <2>1. /\ [StoreNext]_historyVars /\ [ComposerNext]_boxVars
        /\ [AssistantNext]_assistantVars /\ [SearchNext]_searchVars
    BY <1>2 DEF MCChatNext
  <2>2. /\ [SplitNext]_splitVars /\ [ShellNext]_shellVars
        /\ [MessageListNext]_messageListVars /\ [SideListNext]_sideListVars
    BY <1>2 DEF MCChatNext
  <2>3. [BannerNext]_bannerVars /\ [DialogsNext]_dialogsVars /\ [TextNext]_textVars
    BY <1>2 DEF MCChatNext, alertsVars
  <2> QED BY <2>1, <2>2, <2>3
<1> QED BY <1>1, <1>2

-----------------------------------------------------------------------------
(* The box and its drafts.  A text that was sent is one that was typed, so *)
(* no new text is among them; a text typed is in the box of its session,   *)
(* in its draft, or nowhere, so sending it takes it out of both.           *)
DraftsInv ==
  /\ chat \in BoxSessions \cup {NoChat}
  /\ drafts \in [BoxSessions -> Texts \cup {Empty}]
  /\ box \in Texts \cup {Empty}
  /\ home \in [Texts -> BoxSessions \cup {NoChat}]
  /\ sent \subseteq {t \in Texts : Typed(t)}
  /\ box # Empty => chat # NoChat
  /\ DraftsFollowUser

LEMMA DraftsStart == ComposerInit => DraftsInv
BY DEF ComposerInit, DraftsInv, DraftsFollowUser, DraftsStayHome, SentStaysSent

LEMMA EmptyIsNoText == Empty \notin Texts /\ NoChat \notin BoxSessions
BY ComposerAssumption DEF Empty, Texts

LEMMA DraftsStay == DraftsInv /\ [ComposerNext]_boxVars => DraftsInv'
<1> SUFFICES ASSUME DraftsInv, [ComposerNext]_boxVars PROVE DraftsInv'
  OBVIOUS
<1> USE EmptyIsNoText DEF DraftsInv, DraftsFollowUser, DraftsStayHome, SentStaysSent, Typed, Show
<1> HIDE DEF Texts, Empty, NoChat
<1>1. ASSUME NEW t \in Texts, Type(t) PROVE DraftsInv'
  BY <1>1 DEF Type
<1>2. ASSUME NEW s \in BoxSessions \cup {NoChat}, SwitchSession(s) PROVE DraftsInv'
  BY <1>2 DEF SwitchSession
<1>3. ASSUME NEW s \in BoxSessions, DraftExpires(s) PROVE DraftsInv'
  BY <1>3 DEF DraftExpires
<1>4. CASE Erase \/ SaveDraft \/ Focus
  BY <1>4 DEF Erase, SaveDraft, Focus
<1>5. CASE SubmitMessage
  BY <1>5 DEF SubmitMessage
<1>6. CASE WarnNoWallet \/ CoolDownTicks \/ LinkWallet \/ ToggleLoading \/ UNCHANGED boxVars
  BY <1>6 DEF WarnNoWallet, CoolDownTicks, LinkWallet, ToggleLoading, boxVars
<1> QED BY <1>1, <1>2, <1>3, <1>4, <1>5, <1>6 DEF ComposerNext

(* No draft is shown in a chat it was not typed in, and no message comes   *)
(* back into a box after it was sent, for any sessions, texts and timers   *)
(* (ChatInput.tsx:287).                                                    *)
THEOREM DraftsStayWithUser == MCChatSpec => []DraftsFollowUser
<1>1. MCChatInit => DraftsInv
  BY DraftsStart DEF MCChatInit
<1>2. DraftsInv /\ [MCChatNext]_mcVars => DraftsInv'
  BY DraftsStay, PartsMove
<1>3. DraftsInv => DraftsFollowUser
  BY DEF DraftsInv
<1> QED BY <1>1, <1>2, <1>3, PTL DEF MCChatSpec

-----------------------------------------------------------------------------
(* What the guardrails match never gets to the model, and what it is       *)
(* answered offers nothing to pay and adds nothing to the data collected;  *)
(* a number read whole stays the user's through every answer of the model. *)
Refusal == [intent |-> "guardrail", low |-> FALSE, data |-> NoData, guardrail |-> TRUE]

AnswerInv ==
  /\ stage \in {"idle", "model", "arrived", "shown"}
  /\ stage = "model" => ~Guarded(message)
  /\ stage \in {"arrived", "shown"} =>
       /\ Guarded(message) => reply \in {Refusal, NoReply}
       /\ ReadWhole(message) => reply.data.amountIn \in {0, message.amount}
  /\ PaymentsAreGrounded

LEMMA AnswerStarts == AssistantInit => AnswerInv
BY DEF AssistantInit, AnswerInv, PaymentsAreGrounded, BlockedMeansNoPayment, AmountIsTheUsers,
       OpensWhatHasGround, NoData

(* The data collected takes no amount but one the answer has a ground for. *)
LEMMA GatheredHasGround ==
  ASSUME NEW m, NEW r,
         Guarded(m) => r \in {Refusal, NoReply},
         ReadWhole(m) => r.data.amountIn \in {0, m.amount}
  PROVE  \/ Gathered(r).amountIn = details.amountIn
         \/ HasGround(m, r) /\ Gathered(r).amountIn = r.data.amountIn
<1>1. CASE ~Converts(r)
  BY <1>1 DEF Gathered
<1>2. CASE Converts(r) /\ ~(r.data.amountIn > 0)
  BY <1>2 DEF Gathered
<1>3. CASE Converts(r) /\ r.data.amountIn > 0
  <2>1. ~Guarded(m)
    BY <1>3 DEF Converts, Refusal, NoReply
  <2>2. ReadWhole(m) => r.data.amountIn = m.amount
    BY <1>3
  <2> QED BY <1>3, <2>1, <2>2 DEF Gathered, HasGround
<1> QED BY <1>1, <1>2, <1>3

LEMMA AnswerStays == AnswerInv /\ [AssistantNext]_assistantVars => AnswerInv'
<1> SUFFICES ASSUME AnswerInv, [AssistantNext]_assistantVars PROVE AnswerInv'
  OBVIOUS
<1> USE DEF AnswerInv, PaymentsAreGrounded, BlockedMeansNoPayment, AmountIsTheUsers
<1>1. Refusal.data.amountIn = 0 /\ NoReply.data.amountIn = 0 /\ Refusal # NoReply
  BY DEF Refusal, NoReply, NoData
<1>2. UNCHANGED <<details, due, prefill, grounded>> => OpensWhatHasGround'
  BY DEF OpensWhatHasGround
<1>3. ASSUME NEW m \in Messages, NEW hasKey \in BOOLEAN, Post(m, hasKey) PROVE AnswerInv'
  <2>1. /\ stage' \in {"arrived", "model"} /\ message' = m
        /\ UNCHANGED <<details, due, prefill, grounded>>
    BY <1>3 DEF Post, Arrives
  <2>2. CASE Guarded(m)
    BY <1>1, <1>2, <1>3, <2>1, <2>2 DEF Post, Arrives, Refusal
  <2>3. CASE ~Guarded(m) /\ m.faq # "none"
    BY <1>2, <1>3, <2>1, <2>3 DEF Post, Arrives, NoData
  <2>4. CASE ~Guarded(m) /\ m.faq = "none" /\ ~hasKey
    BY <1>2, <1>3, <2>1, <2>4 DEF Post, Arrives, NoReply, NoData
  <2>5. CASE ~Guarded(m) /\ m.faq = "none" /\ hasKey
    BY <1>2, <1>3, <2>1, <2>5 DEF Post
  <2> QED BY <2>2, <2>3, <2>4, <2>5
<1>4. ASSUME NEW a \in ModelAnswers, ModelSays(a) PROVE AnswerInv'
  <2>1. /\ stage = "model" /\ stage' = "arrived" /\ message' = message
        /\ reply' = [Parsed(a) EXCEPT !.data = Merge(message, @)]
        /\ UNCHANGED <<details, due, prefill, grounded>>
    BY <1>4 DEF ModelSays, Arrives, transactionVars
  <2>2. reply'.data = Merge(message, Parsed(a).data)
    BY <2>1 DEF Parsed, NoReply
  <2>3. ReadWhole(message) => reply'.data.amountIn = message.amount
    BY <2>2 DEF Merge, ExtractAmount, ReadWhole
  <2> QED BY <1>2, <2>1, <2>3
<1>5. CASE ModelThrows \/ FallsBack
  BY <1>1, <1>2, <1>5 DEF ModelThrows, FallsBack, Arrives, transactionVars
<1>6. ASSUME NEW c \in [connected : BOOLEAN, admin : BOOLEAN], Replied(c)
      PROVE  AnswerInv'
  <2>1. /\ stage = "arrived" /\ message' = message /\ reply' = reply /\ prefill' = prefill
        /\ details' = Gathered(reply) /\ due' \in {{details'}, due}
        /\ grounded' = IF HasGround(message, reply) THEN grounded \cup {reply.data.amountIn}
                                                    ELSE grounded
        /\ \/ stage' = "idle"
           \/ /\ stage' = "shown" /\ prepared' = Shown(reply)
              /\ \E auto, ready : offered' = SuggestedActions(reply, c, auto, ready)
    BY <1>6 DEF Replied
  <2>2. ASSUME Guarded(message), reply # NoReply, stage' = "shown"
        PROVE  "confirm_fiat" \notin offered' /\ prepared' = 0
    <3>1. reply = Refusal
      BY <2>1, <2>2
    <3> QED BY <2>1, <2>2, <3>1 DEF Refusal, SuggestedActions, GuardrailActions, Shown, Converts
  <2>3. stage' = "shown" => prepared' \in {0, reply.data.amountIn}
    BY <2>1 DEF Shown
  <2>4. OpensWhatHasGround'
    <3>1. details'.amountIn \in grounded' \cup {0}
      BY <2>1, GatheredHasGround DEF OpensWhatHasGround
    <3>2. grounded \subseteq grounded'
      BY <2>1
    <3> QED BY <2>1, <3>1, <3>2 DEF OpensWhatHasGround
  <2> QED BY <2>1, <2>2, <2>3, <2>4
<1>7. ASSUME NEW differs \in BOOLEAN, ReadyTimerFires(differs) PROVE AnswerInv'
  <2>1. /\ due # {} /\ due' = {} /\ UNCHANGED <<stage, message, reply, offered, prepared>>
        /\ details' = details /\ grounded' = grounded
    BY <1>7 DEF ReadyTimerFires
  <2>2. prefill' \in {prefill} \cup {data.amountIn : data \in due}
    BY <1>7 DEF ReadyTimerFires
  <2>3. OpensWhatHasGround'
    BY <2>1, <2>2 DEF OpensWhatHasGround
  <2> QED BY <2>1, <2>3
<1>8. CASE DialogCloses
  BY <1>8 DEF DialogCloses, OpensWhatHasGround
<1>9. ASSUME NEW event, ChangeChat(event) PROVE AnswerInv'
  <2>1. /\ details' \in {NoData, details} /\ prepared' = 0
        /\ UNCHANGED <<message, reply, due, prefill, grounded>>
        /\ stage' \in {"idle", stage} /\ stage' # "shown"
    BY <1>9 DEF ChangeChat
  <2>2. OpensWhatHasGround'
    BY <2>1 DEF OpensWhatHasGround, NoData
  <2> QED BY <2>1, <2>2
<1>10. CASE UNCHANGED assistantVars
  BY <1>2, <1>10 DEF assistantVars, transactionVars
<1> QED BY <1>3, <1>4, <1>5, <1>6, <1>7, <1>8, <1>9, <1>10 DEF AssistantNext

(* Whatever the user wrote and the model answered, over any conversation,  *)
(* timer and change of chat: the answer to a message the guardrails        *)
(* matched offers and shows no payment unless it was lost; an amount shown *)
(* for a number that is read whole is that number; and the dialog, which   *)
(* opens by itself after any message, a blocked one too, fills in only an  *)
(* amount of an answer that had a ground for it: a conversion the          *)
(* guardrails let through, with the user's number where it reads whole and *)
(* the model's where there is none (ai/chat/route.ts:204-250,              *)
(* useChat.ts:393-453, 588-598, 942-970).                                  *)
THEOREM PaymentsStayGrounded == MCChatSpec => []PaymentsAreGrounded
<1>1. MCChatInit => AnswerInv
  BY AnswerStarts DEF MCChatInit
<1>2. AnswerInv /\ [MCChatNext]_mcVars => AnswerInv'
  BY AnswerStays, PartsMove
<1>3. AnswerInv => PaymentsAreGrounded
  BY DEF AnswerInv
<1> QED BY <1>1, <1>2, <1>3, PTL DEF MCChatSpec

-----------------------------------------------------------------------------
(***************************************************************************)
(* What the screen shows is of now.                                        *)
(***************************************************************************)
(* A poll of the current epoch was made by a wallet that is connected.     *)
DepthInv ==
  /\ epoch \in Nat \ {0}
  /\ \A p \in depthPolls : p.epoch \in 1 .. epoch /\ (p.epoch = epoch => shellAddress # 0)
  /\ DepthOfThisSession

LEMMA DepthStarts == ShellInit => DepthInv
BY DEF ShellInit, DepthInv, DepthOfThisSession

LEMMA DepthStays == DepthInv /\ [ShellNext]_shellVars => DepthInv'
<1> SUFFICES ASSUME DepthInv, [ShellNext]_shellVars PROVE DepthInv'
  OBVIOUS
<1> USE DEF DepthInv, DepthOfThisSession
<1>1. ASSUME NEW a, NEW wrongNet, WalletMoves(a, wrongNet) PROVE DepthInv'
  <2>1. CASE (a = 0) = (shellAddress = 0)
    BY <1>1, <2>1 DEF WalletMoves, depthSide
  <2>2. CASE (a = 0) # (shellAddress = 0) /\ a = 0
    BY <1>1, <2>2 DEF WalletMoves
  <2>3. CASE (a = 0) # (shellAddress = 0) /\ a # 0
    <3>1. /\ epoch' = epoch + 1 /\ shellAddress' = a /\ depth = 0 /\ depth' = 0
          /\ depthPolls' = depthPolls \cup {[id |-> depthPolled + 1, epoch |-> epoch + 1]}
      BY <1>1, <2>3 DEF WalletMoves, PollDepth
    <3> QED BY <2>3, <3>1
  <2> QED BY <2>1, <2>2, <2>3
<1>2. CASE DepthTick
  <2>1. /\ shellAddress # 0 /\ UNCHANGED <<epoch, shellAddress, depth>>
        /\ depthPolls' = depthPolls \cup {[id |-> depthPolled + 1, epoch |-> epoch]}
    BY <1>2 DEF DepthTick, PollDepth, walletSide
  <2> QED BY <2>1
<1>3. ASSUME NEW p \in depthPolls, NEW ok, DepthAnswers(p, ok) PROVE DepthInv'
  BY <1>3 DEF DepthAnswers, Cancelled, walletSide
<1>4. CASE UNCHANGED <<walletSide, depthSide>>
  BY <1>4 DEF walletSide, depthSide
<1>5. ASSUME NEW c, NEW ok, AdminKnown(c, ok) PROVE DepthInv'
  BY <1>5 DEF AdminKnown, depthSide
<1>6. ASSUME NEW byCommand, TransactionOpens(byCommand) PROVE UNCHANGED <<walletSide, depthSide>>
  BY <1>6 DEF TransactionOpens
<1>7. ASSUME NEW open, ShowSidebar(open) PROVE UNCHANGED <<walletSide, depthSide>>
  BY <1>7 DEF ShowSidebar
<1>8. ShellOnline \/ ShellOffline \/ NoticeEnds \/ AdminOpens \/ DepositCloses
      \/ DepositSucceeds \/ BankCloses \/ CloseSheet \/ SheetCloses \/ Resize
      \/ UNCHANGED shellVars => UNCHANGED <<walletSide, depthSide>>
  BY DEF ShellOnline, ShellOffline, NoticeEnds, AdminOpens, DepositCloses, DepositSucceeds,
         BankCloses, CloseSheet, SheetCloses, Resize, shellVars
<1> QED BY <1>1, <1>2, <1>3, <1>4, <1>5, <1>6, <1>7, <1>8 DEF ShellNext

(* The last search pending is for the filters and the sessions of now.     *)
SearchesOf(some) == [instance : Nat, filters : Filters, history : some]

EndsWith(pend, f, h) ==
  pend # <<>> /\ pend[Len(pend)].filters = f /\ pend[Len(pend)].history = h

SearchInv ==
  /\ history \in SearchedHistories /\ filters \in Filters /\ instance \in Nat
  /\ searches \in Seq(SearchesOf(SearchedHistories))
  /\ searches # <<>> => EndsWith(searches, filters, history)
  /\ SearchSettles

LEMMA DebouncedFacts ==
  ASSUME NEW pend \in Seq(SearchesOf(SearchedHistories)), NEW n \in Nat, NEW f \in Filters,
         NEW h \in SearchedHistories
  PROVE  /\ Debounced(pend, n, f, h) \in Seq(SearchesOf(SearchedHistories))
         /\ EndsWith(Debounced(pend, n, f, h), f, h)
<1> DEFINE S == SearchesOf(SearchedHistories)
           q == Filtered(pend, {t \in ToSet(pend) : t.instance # n})
           e == [instance |-> n, filters |-> f, history |-> h]
<1>1. e \in S /\ e.filters = f /\ e.history = h
  BY DEF SearchesOf
<1>2. q \in Seq(S)
  BY FilteredType
<1>3. Debounced(pend, n, f, h) = Append(q, e)
  BY DEF Debounced
<1> HIDE DEF S, q, e
<1>4. Append(q, e) \in Seq(S) /\ Append(q, e) # <<>> /\ Append(q, e)[Len(Append(q, e))] = e
  BY <1>1, <1>2, AppendProperties
<1> QED BY <1>1, <1>3, <1>4 DEF S, EndsWith

LEMMA SearchStarts == SearchInit => SearchInv
<1> SUFFICES ASSUME SearchInit PROVE SearchInv
  OBVIOUS
<1>1. NoFilter \in Filters
  BY DEF NoFilter, Filters
<1>2. <<>> \in Seq(SearchesOf(SearchedHistories)) /\ 1 \in Nat
  OBVIOUS
<1>3. /\ searches = Debounced(<<>>, 1, NoFilter, history) /\ filters = NoFilter
      /\ history \in SearchedHistories /\ instance = 1
  BY DEF SearchInit
<1>4. /\ searches \in Seq(SearchesOf(SearchedHistories))
      /\ EndsWith(searches, filters, history)
  BY <1>1, <1>2, <1>3, DebouncedFacts
<1>5. searches # <<>>
  BY <1>4 DEF EndsWith
<1> QED BY <1>1, <1>2, <1>3, <1>4, <1>5 DEF SearchInv, SearchSettles

LEMMA SearchStays == SearchInv /\ [SearchNext]_searchVars => SearchInv'
<1> SUFFICES ASSUME SearchInv, [SearchNext]_searchVars PROVE SearchInv'
  OBVIOUS
<1> USE DEF SearchInv, SearchSettles
<1> HIDE DEF Filters, SearchesOf
<1>1. ASSUME NEW f \in Filters, SetFilters(f) PROVE SearchInv'
  <2>1. /\ filters' = f /\ UNCHANGED <<history, instance>>
        /\ searches' = Debounced(searches, instance, f, history)
    BY <1>1 DEF SetFilters
  <2>2. /\ searches' \in Seq(SearchesOf(SearchedHistories))
        /\ EndsWith(searches', filters', history')
    BY <2>1, DebouncedFacts
  <2>3. searches' # <<>>
    BY <2>2 DEF EndsWith
  <2> QED BY <2>1, <2>2, <2>3
<1>2. ASSUME NEW h \in SearchedHistories, HistoryMoves(h) PROVE SearchInv'
  <2>1. /\ history' = h /\ instance' = instance + 1 /\ UNCHANGED filters
        /\ searches' = Debounced(searches, instance + 1, filters, h) /\ instance + 1 \in Nat
    BY <1>2 DEF HistoryMoves
  <2>2. /\ searches' \in Seq(SearchesOf(SearchedHistories))
        /\ EndsWith(searches', filters', history')
    BY <2>1, DebouncedFacts
  <2>3. searches' # <<>>
    BY <2>2 DEF EndsWith
  <2> QED BY <2>1, <2>2, <2>3
<1>3. CASE SearchRuns
  <2> DEFINE n == Len(searches)
  <2>1. /\ searches # <<>> /\ searches' = Tail(searches)
        /\ UNCHANGED <<history, filters, instance, panelOpen>>
        /\ panelOpen => results' = SearchChatHistory(Head(searches).history,
                                                     Head(searches).filters)
    BY <1>3 DEF SearchRuns
  <2>2. /\ n \in Nat /\ n >= 1 /\ Head(searches) = searches[1]
        /\ Tail(searches) \in Seq(SearchesOf(SearchedHistories))
        /\ Len(Tail(searches)) = n - 1
        /\ \A i \in 1 .. n - 1 : Tail(searches)[i] = searches[i + 1]
    BY <2>1, HeadTailProperties, EmptySeq, LenProperties
  <2>3. CASE n = 1
    <3> DEFINE t == Tail(searches)
    <3>3. t \in Seq(SearchesOf(SearchedHistories)) /\ Len(t) = 0
      BY <2>2, <2>3
    <3> HIDE DEF t
    <3>1. t = <<>>
      BY <3>3, EmptySeq
    <3> USE DEF t
    <3>2. Head(searches).filters = filters /\ Head(searches).history = history
      BY <2>1, <2>2, <2>3 DEF EndsWith
    <3> QED BY <2>1, <2>2, <3>1, <3>2
  <2>4. CASE n > 1
    <3> DEFINE t == Tail(searches)
    <3>1. n - 1 \in 1 .. n - 1 /\ n - 1 + 1 = n /\ n - 1 # 0
      BY <2>2, <2>4
    <3>2. t[n - 1] = searches[n] /\ Len(t) = n - 1
      BY <2>2, <2>4, <3>1
    <3>3. t # <<>>
      BY <3>1, <3>2
    <3>4. EndsWith(t, filters, history)
      BY <2>1, <3>2, <3>3 DEF EndsWith
    <3> QED BY <2>1, <2>2, <3>3, <3>4
  <2> QED BY <2>2, <2>3, <2>4
<1>4. ASSUME NEW i \in DOMAIN results, Activate(i) PROVE SearchInv'
  BY <1>4 DEF Activate
<1>5. CASE SelectResult \/ ClosePanel \/ UNCHANGED searchVars
  BY <1>5 DEF SelectResult, ClosePanel, searchVars
<1> QED BY <1>1, <1>2, <1>3, <1>4, <1>5 DEF SearchNext

(* What the effect last saw is the state, so announcements alternate.      *)
ToastInv == /\ isOnline \in BOOLEAN /\ wasOnlineRef = isOnline /\ wasOffline \in BOOLEAN
            /\ ToastsMatchStatus

LEMMA ToastsStart == SplitInit => ToastInv
BY DEF SplitInit, ToastInv, ToastsMatchStatus

LEMMA ToastsStay == ToastInv /\ [SplitNext]_splitVars => ToastInv'
<1> SUFFICES ASSUME ToastInv, [SplitNext]_splitVars PROVE ToastInv'
  OBVIOUS
<1>1. CASE UNCHANGED onlineSide
  BY <1>1 DEF onlineSide, ToastInv, ToastsMatchStatus
<1>2. CASE BrowserOffline
  BY <1>2 DEF BrowserOffline, Announce, ToastInv, ToastsMatchStatus
<1>3. CASE BrowserOnline
  BY <1>3 DEF BrowserOnline, ToastInv, ToastsMatchStatus
<1>4. ASSUME NEW p, NEW reachable \in BOOLEAN, ProbeAnswers(p, reachable) PROVE ToastInv'
  BY <1>4 DEF ProbeAnswers, Announce, ToastInv, ToastsMatchStatus
<1>5. ASSUME NEW l, NEW r, OpenSplit(l, r) PROVE UNCHANGED onlineSide
  BY <1>5 DEF OpenSplit, Batch
<1>6. ASSUME NEW d, NEW t, SelectThread(d, t) PROVE UNCHANGED onlineSide
  BY <1>6 DEF SelectThread, Batch
<1>7. ASSUME NEW m, HandleMessageClick(m) PROVE UNCHANGED onlineSide
  BY <1>7 DEF HandleMessageClick, Batch
<1>8. ASSUME NEW d, NEW m, CopyMessage(d, m) PROVE UNCHANGED onlineSide
  BY <1>8 DEF CopyMessage
<1>9. ASSUME NEW d, CopyMarkEnds(d) \/ ThreadsChange(d) PROVE UNCHANGED onlineSide
  BY <1>9 DEF CopyMarkEnds, ThreadsChange
<1>10. CloseSplit \/ SwapSessions \/ UNCHANGED splitVars => UNCHANGED onlineSide
  BY DEF CloseSplit, SwapSessions, Batch, splitVars
<1> QED BY <1>1, <1>2, <1>3, <1>4, <1>5, <1>6, <1>7, <1>8, <1>9, <1>10 DEF SplitNext

BannerInv == hideTimers \in Nat /\ BannerGoes

LEMMA BannerStarts == BannerInit => BannerInv
<1> SUFFICES ASSUME BannerInit PROVE BannerInv
  OBVIOUS
<1>1. hideTimers = 0 /\ bannerOnline = netUp /\ bannerShown = ~netUp /\ netUp \in BOOLEAN
  BY DEF BannerInit
<1>2. hideTimers \in Nat
  BY <1>1
<1>3. ~(bannerShown /\ bannerOnline)
  BY <1>1
<1> QED BY <1>2, <1>3 DEF BannerInv, BannerGoes

LEMMA BannerStays == BannerInv /\ [BannerNext]_bannerVars => BannerInv'
BY DEF BannerInv, BannerGoes, BannerNext, bannerVars, NetDrops, NetReturns, BannerHides,
       BannerSkeletonEnds, NetProbed, BannerFalls, BannerRises, TimersAfter

(* The count of locks is the number of the dialogs set up, each of which   *)
(* is open, and the overflow kept is that of a page that scrolls.          *)
Scrolls(set) == IF set = {} THEN "" ELSE "hidden"

LockInv ==
  /\ opened \in [Modals -> BOOLEAN]
  /\ trapped \subseteq {m \in Modals : opened[m]} /\ IsFiniteSet(trapped)
  /\ \A m \in Modals : opened[m] /\ m # Sheet => m \in trapped
  /\ lockCount = Cardinality(trapped) /\ overflow = Scrolls(trapped) /\ kept = ""

LEMMA LocksStart == DialogsInit => LockInv
BY FS_EmptySet DEF DialogsInit, LockInv, Scrolls

LEMMA AcquireLocks ==
  ASSUME LockInv, NEW m \in Modals, m \notin trapped, Acquire, trapped' = trapped \cup {m}
  PROVE  /\ IsFiniteSet(trapped') /\ lockCount' = Cardinality(trapped')
         /\ overflow' = Scrolls(trapped') /\ kept' = ""
<1>1. /\ IsFiniteSet(trapped') /\ Cardinality(trapped') = Cardinality(trapped) + 1
      /\ Cardinality(trapped) \in Nat
  BY FS_AddElement, FS_CardinalityType DEF LockInv
<1>2. Cardinality(trapped) = 0 => trapped = {}
  BY FS_EmptySet DEF LockInv
<1> QED BY <1>1, <1>2 DEF LockInv, Acquire, Scrolls

LEMMA ReleaseLocks ==
  ASSUME LockInv, NEW m \in trapped, ReleaseScroll, trapped' = trapped \ {m}
  PROVE  /\ IsFiniteSet(trapped') /\ lockCount' = Cardinality(trapped')
         /\ overflow' = Scrolls(trapped') /\ kept' = ""
<1>1. /\ IsFiniteSet(trapped') /\ Cardinality(trapped') = Cardinality(trapped) - 1
      /\ Cardinality(trapped) \in Nat
  BY FS_RemoveElement, FS_CardinalityType DEF LockInv
<1>2. /\ Cardinality(trapped) = 0 <=> trapped = {}
      /\ Cardinality(trapped') = 0 <=> trapped' = {}
  BY <1>1, FS_EmptySet DEF LockInv
<1>3. trapped # {}
  OBVIOUS
<1>4. lockCount # 0 /\ lockCount' = Cardinality(trapped')
  BY <1>1, <1>2, <1>3 DEF LockInv, ReleaseScroll
<1>5. lockCount = 1 <=> Cardinality(trapped') = 0
  <2>1. lockCount = Cardinality(trapped)
    BY DEF LockInv
  <2> QED BY <1>1, <2>1
<1>6. lockCount = 1 <=> trapped' = {}
  BY <1>2, <1>5
<1> QED BY <1>1, <1>3, <1>4, <1>6 DEF LockInv, ReleaseScroll, Scrolls

LEMMA LocksStay == LockInv /\ [DialogsNext]_dialogsVars => LockInv'
<1> SUFFICES ASSUME LockInv, [DialogsNext]_dialogsVars PROVE LockInv'
  OBVIOUS
<1>1. ASSUME NEW m \in Modals, NEW late, OpenDialog(m, late) PROVE LockInv'
  <2>1. m \notin trapped /\ opened' = [opened EXCEPT ![m] = TRUE]
    BY <1>1 DEF OpenDialog, LockInv
  <2>2. Acquire /\ trapped' = trapped \cup {m}
    BY <1>1, <2>1 DEF OpenDialog, SetUp
  <2> QED BY <2>1, <2>2, AcquireLocks DEF LockInv
<1>2. ASSUME NEW m \in Modals, CloseDialog(m) PROVE LockInv'
  <2>1. m \in trapped /\ opened' = [opened EXCEPT ![m] = FALSE]
    BY <1>2 DEF CloseDialog, LockInv
  <2>2. ReleaseScroll /\ trapped' = trapped \ {m}
    BY <1>2 DEF CloseDialog, TearDown
  <2> QED BY <2>1, <2>2, ReleaseLocks DEF LockInv
<1>3. ASSUME NEW m \in Modals, NEW n \in Modals, HandOver(m, n) PROVE LockInv'
  <2>1. /\ m \in trapped /\ n \notin trapped /\ m # n
        /\ opened' = [opened EXCEPT ![m] = FALSE, ![n] = TRUE]
        /\ trapped' = (trapped \ {m}) \cup {n} /\ UNCHANGED <<lockCount, overflow, kept>>
    BY <1>3 DEF HandOver, LockInv
  <2>2. /\ IsFiniteSet(trapped \ {m})
        /\ Cardinality(trapped \ {m}) = Cardinality(trapped) - 1
    BY <2>1, FS_RemoveElement DEF LockInv
  <2>3. /\ IsFiniteSet(trapped')
        /\ Cardinality(trapped') = Cardinality(trapped \ {m}) + 1
    BY <2>1, <2>2, FS_AddElement
  <2>4. Cardinality(trapped') = Cardinality(trapped)
    <3>1. Cardinality(trapped) \in Nat
      BY FS_CardinalityType DEF LockInv
    <3> QED BY <2>2, <2>3, <3>1
  <2>5. trapped # {} /\ trapped' # {}
    BY <2>1
  <2> QED BY <2>1, <2>3, <2>4, <2>5 DEF LockInv, Scrolls
<1>4. CASE Escape
  <2>1. /\ opened' = [m \in Modals |-> opened[m] /\ m \notin trapped]
        /\ lockCount' = 0 /\ overflow' = kept /\ kept' = "" /\ trapped' = {}
    BY <1>4 DEF Escape
  <2> QED BY <2>1, FS_EmptySet DEF LockInv, Scrolls
<1>5. CASE AnimateClose
  <2>1. CASE Sheet \in trapped
    <3>1. ReleaseScroll /\ trapped' = trapped \ {Sheet} /\ UNCHANGED opened
      BY <1>5, <2>1 DEF AnimateClose, TearDown
    <3> QED BY <2>1, <3>1, ReleaseLocks DEF LockInv
  <2>2. CASE Sheet \notin trapped
    BY <1>5, <2>2 DEF AnimateClose, trapVars, LockInv
  <2> QED BY <2>1, <2>2
<1>6. CASE SheetSlidOut
  <2>1. opened' = [opened EXCEPT ![Sheet] = FALSE]
    BY <1>6 DEF SheetSlidOut
  <2>2. CASE Sheet \in trapped
    <3>1. ReleaseScroll /\ trapped' = trapped \ {Sheet}
      BY <1>6, <2>2 DEF SheetSlidOut, TearDown
    <3> QED BY <2>1, <2>2, <3>1, ReleaseLocks DEF LockInv
  <2>3. CASE Sheet \notin trapped
    BY <1>6, <2>1, <2>3 DEF SheetSlidOut, trapVars, LockInv
  <2> QED BY <2>2, <2>3
<1>7. ASSUME NEW m \in Modals, NEW there, FrameArrives(m, there) PROVE LockInv'
  BY <1>7 DEF FrameArrives, LockInv
<1>8. ASSUME NEW far, DragSheet(far) PROVE LockInv'
  BY <1>8 DEF DragSheet, trapVars, LockInv
<1>9. CASE UNCHANGED dialogsVars
  BY <1>9 DEF dialogsVars, trapVars, LockInv
<1> QED BY <1>1, <1>2, <1>3, <1>4, <1>5, <1>6, <1>7, <1>8, <1>9 DEF DialogsNext

(* A window is at least a page, but that of the messages after a list was  *)
(* emptied under a load; a load of sessions was of a list that no page     *)
(* holds.                                                                  *)
ListInv ==
  /\ listed \in Nat /\ shownCount \in Nat
  /\ loadingMore \in BOOLEAN
  /\ sessionsListed \in Nat /\ activeFromEnd \in Nat
  /\ sideCount \in Nat /\ sideCount >= ListPage
  /\ sideLoading \in Nat /\ (sideLoading = 0 \/ sideLoading > ListPage)
  /\ ListsShowEnough /\ PlaceIsKept

LEMMA ListsStart == ListInit => ListInv
<1> SUFFICES ASSUME ListInit PROVE ListInv
  OBVIOUS
<1>1. /\ listed \in Nat /\ shownCount = ListPage /\ sessionsListed = 0 /\ activeFromEnd = 0
      /\ sideCount = ListPage /\ sideLoading = 0 /\ ListPage \in Nat /\ ListPage > 0
  BY ShellAssumption DEF ListInit
<1>2. ListsShowEnough
  BY <1>1 DEF ListsShowEnough, InWindow, Smaller
<1>3. loadingMore \in BOOLEAN /\ PlaceIsKept
  BY DEF ListInit, PlaceIsKept
<1> QED BY <1>1, <1>2, <1>3 DEF ListInv

LEMMA MessagesStay ==
  ListInv /\ [MessageListNext]_messageListVars /\ [SideListNext]_sideListVars => ListInv'
<1> SUFFICES ASSUME ListInv, [MessageListNext]_messageListVars, [SideListNext]_sideListVars
             PROVE  ListInv'
  OBVIOUS
<1>1. /\ listed' \in Nat /\ shownCount' \in Nat
      /\ listed' <= ListPage => InWindow(listed', shownCount') = listed'
  <2> USE ShellAssumption DEF ListInv, ListsShowEnough, InWindow, Smaller
  <2>1. ASSUME NEW n \in 0 .. MaxListed, ListChanges(n) PROVE <1>1!:
    <3>1. listed' = n /\ shownCount' \in {ListPage, shownCount}
      BY <2>1 DEF ListChanges, CountFor
    <3>2. n = listed => shownCount' = shownCount
      BY <2>1 DEF ListChanges
    <3>3. n # listed /\ n <= ListPage => shownCount' = ListPage
      BY <2>1 DEF ListChanges, CountFor
    <3> QED BY <3>1, <3>2, <3>3
  <2>2. CASE MoreArrives
    <3>1. listed' = listed /\ shownCount' = Smaller(shownCount + ListPage, listed)
      BY <2>2 DEF MoreArrives, NextCount
    <3> QED BY <3>1
  <2>3. CASE MessagesRemount
    <3>1. listed' = listed /\ shownCount' = ListPage
      BY <2>3 DEF MessagesRemount
    <3> QED BY <3>1
  <2>4. CASE UNCHANGED <<listed, shownCount>>
    BY <2>4
  <2>5. ThinkingChanges \/ LoadMore \/ ScrollsToEnd \/ UNCHANGED messageListVars
        => UNCHANGED <<listed, shownCount>>
    BY DEF ThinkingChanges, LoadMore, ScrollsToEnd, messageListVars
  <2>6. ASSUME NEW c, NEW stored, DismissCard(c, stored) PROVE UNCHANGED <<listed, shownCount>>
    BY <2>6 DEF DismissCard
  <2>7. ASSUME NEW cs, OtherTabDismisses(cs) PROVE UNCHANGED <<listed, shownCount>>
    BY <2>7 DEF OtherTabDismisses
  <2> QED BY <2>1, <2>2, <2>3, <2>4, <2>5, <2>6, <2>7 DEF MessageListNext
<1>3. loadingMore' \in BOOLEAN /\ PlaceIsKept'
  <2> USE DEF ListInv, PlaceIsKept
  <2>1. ASSUME NEW n, ListChanges(n) PROVE <1>3!:
    BY <2>1 DEF ListChanges, ScrollsSoon
  <2>2. CASE MoreArrives \/ MessagesRemount \/ LoadMore
    BY <2>2 DEF MoreArrives, MessagesRemount, LoadMore
  <2>3. CASE ThinkingChanges
    <3>1. /\ loadingMore' = loadingMore /\ keepPlace' = keepPlace
          /\ loadingMore => ~scrollTimer'
      BY <2>3 DEF ThinkingChanges, ScrollsSoon
    <3> QED BY <3>1
  <2>6. CASE ScrollsToEnd \/ UNCHANGED messageListVars
    BY <2>6 DEF ScrollsToEnd, messageListVars
  <2>4. ASSUME NEW c, NEW stored, DismissCard(c, stored) PROVE <1>3!:
    BY <2>4 DEF DismissCard
  <2>5. ASSUME NEW cs, OtherTabDismisses(cs) PROVE <1>3!:
    BY <2>5 DEF OtherTabDismisses
  <2> QED BY <2>1, <2>2, <2>3, <2>4, <2>5, <2>6 DEF MessageListNext
<1>2. /\ sessionsListed' \in Nat /\ activeFromEnd' \in Nat
      /\ sideCount' \in Nat /\ sideCount' >= ListPage
      /\ sideLoading' \in Nat /\ (sideLoading' = 0 \/ sideLoading' > ListPage)
      /\ sessionsListed' <= ListPage => sideCount' >= sessionsListed'
      /\ activeFromEnd' <= InWindow(sessionsListed', sideCount')
  <2> USE ShellAssumption DEF ListInv, ListsShowEnough, InWindow, Smaller
  <2>1. ASSUME NEW n \in 0 .. MaxListed, NEW a \in 0 .. MaxListed, SessionsChange(n, a)
        PROVE  <1>2!:
    BY <2>1 DEF SessionsChange, Expanded, CountFor
  <2>2. CASE LoadMoreSessions
    BY <2>2 DEF LoadMoreSessions
  <2>3. CASE MoreSessionsArrive
    BY <2>3 DEF MoreSessionsArrive, NextCount, Expanded
  <2>4. CASE SidebarRemounts
    BY <2>4 DEF SidebarRemounts, Expanded
  <2>5. CASE UNCHANGED sideListVars
    BY <2>5 DEF sideListVars
  <2> QED BY <2>1, <2>2, <2>3, <2>4, <2>5 DEF SideListNext
<1> QED BY <1>1, <1>2, <1>3 DEF ListInv, ListsShowEnough

ScreenInv ==
  DepthInv /\ SearchInv /\ ToastInv /\ BannerInv /\ LockInv /\ ListInv

(* Depth, results, announcements, banner, scrolling and lists are those of *)
(* now, for any polls, searches, connections, dialogs and pages            *)
(* (StellarChatInterface.tsx:276-307, ChatSearchPanel.tsx:103-119,         *)
(* OfflineStatusBanner.tsx:42-89, useAccessibleModal.ts).                  *)
THEOREM ScreenStaysCurrent == MCChatSpec => []ScreenIsCurrent
<1>1. MCChatInit => ScreenInv
  BY DepthStarts, SearchStarts, ToastsStart, BannerStarts, LocksStart, ListsStart
     DEF MCChatInit, ScreenInv
<1>2. ScreenInv /\ [MCChatNext]_mcVars => ScreenInv'
  BY PartsMove, DepthStays, SearchStays, ToastsStay, BannerStays, LocksStay, MessagesStay
     DEF ScreenInv
<1>3. ScreenInv => ScreenIsCurrent
  <2>1. LockInv => ScrollFollowsDialogs
    BY DEF LockInv, Scrolls, ScrollFollowsDialogs
  <2> QED BY <2>1 DEF ScreenInv, ScreenIsCurrent, DepthInv, SearchInv, ToastInv, BannerInv,
                      ListInv
<1> QED BY <1>1, <1>2, <1>3, PTL DEF MCChatSpec

-----------------------------------------------------------------------------
(***************************************************************************)
(* The saved conversations.                                                *)
(***************************************************************************)
Shaped == [current : Ids \cup {NoSession}, at : UNION {[some -> Nat] : some \in SUBSET Ids},
           pins : Seq(Ids), stale : SUBSET Ids]

(* A history is coherent and was last changed at the n-th edit at most.    *)
Sound(h, n) ==
  /\ h \in Shaped
  /\ \A x \in DOMAIN h.at : h.at[x] <= n
  /\ h.current # NoSession => h.current \in DOMAIN h.at
  /\ ToSet(h.pins) \subseteq DOMAIN h.at /\ IsInjective(h.pins)

Copies(v, n) == v \in [Hooks -> Shaped] /\ \A h \in Hooks : Sound(v[h], n)

StoreInv ==
  /\ edits \in Nat /\ edits <= MaxEdits
  /\ Sound(storage, edits) /\ Sound(stash, edits)
  /\ Copies(view, edits)
  /\ DeletionUndoable

LEMMA SoundParts ==
  ASSUME NEW some \in SUBSET Ids, NEW at \in [some -> Nat], NEW pins \in Seq(Ids),
         NEW stale \in SUBSET Ids, NEW cur, cur = NoSession \/ cur \in some,
         ToSet(pins) \subseteq some, IsInjective(pins),
         NEW n, \A x \in some : at[x] <= n
  PROVE  Sound([current |-> cur, at |-> at, pins |-> pins, stale |-> stale], n)
<1> DEFINE h == [current |-> cur, at |-> at, pins |-> pins, stale |-> stale]
<1>1. h \in Shaped
  BY DEF Shaped
<1>2. h.current = cur /\ h.at = at /\ h.pins = pins /\ DOMAIN at = some
  OBVIOUS
<1> QED BY <1>1, <1>2 DEF Sound

LEMMA SoundOpens ==
  ASSUME NEW n, NEW h, Sound(h, n)
  PROVE  /\ h = [current |-> h.current, at |-> h.at, pins |-> h.pins, stale |-> h.stale]
         /\ DOMAIN h.at \in SUBSET Ids /\ h.at \in [DOMAIN h.at -> Nat]
         /\ h.pins \in Seq(Ids) /\ h.stale \in SUBSET Ids
         /\ h.current = NoSession \/ h.current \in DOMAIN h.at
BY DEF Sound, Shaped

LEMMA SoundLater ==
  ASSUME NEW n \in Nat, NEW m \in Nat, n <= m, NEW h, Sound(h, n)
  PROVE  Sound(h, m)
<1>1. \A x \in DOMAIN h.at : h.at[x] \in Nat /\ h.at[x] <= n
  BY SoundOpens DEF Sound
<1>2. \A x \in DOMAIN h.at : h.at[x] <= m
  BY <1>1
<1> QED BY <1>2 DEF Sound

LEMMA NothingSound == \A n \in Nat : Sound(NoHistory, n)
<1>1. <<>> \in [{} -> Nat] /\ {} \in SUBSET Ids /\ <<>> \in Seq(Ids) /\ DOMAIN <<>> = {}
  OBVIOUS
<1>2. ToSet(<<>>) = {} /\ IsInjective(<<>>)
  BY <1>1 DEF ToSet, IsInjective
<1> QED BY <1>1, <1>2, SoundParts DEF NoHistory

(* A part of a history that has its current session is sound.              *)
LEMMA KeepSound ==
  ASSUME NEW n, NEW h, Sound(h, n), NEW some \in SUBSET DOMAIN h.at,
         NEW cur, cur = NoSession \/ cur \in some
  PROVE  Sound([Keep(h, some) EXCEPT !.current = cur], n)
<1> DEFINE at    == Restrict(h.at, some)
           pins  == Filtered(h.pins, some)
           stale == h.stale \cap some
           D     == DOMAIN h.at
<1>1. /\ D \in SUBSET Ids /\ h.at \in [D -> Nat] /\ h.pins \in Seq(Ids) /\ h.stale \in SUBSET Ids
      /\ \A x \in D : h.at[x] <= n
      /\ IsInjective(h.pins)
  BY SoundOpens DEF Sound
<1>2. some \in SUBSET Ids /\ at \in [some -> Nat] /\ \A x \in some : at[x] <= n
  BY <1>1 DEF Restrict
<1>3. pins \in Seq(Ids) /\ IsInjective(pins)
  BY <1>1, FilteredType, FilteredDistinct
<1>4. ToSet(pins) = ToSet(h.pins) \cap some
  BY <1>1, FilteredMembers
<1>5. ToSet(pins) \subseteq some /\ stale \in SUBSET Ids
  BY <1>1, <1>4
<1>6. [Keep(h, some) EXCEPT !.current = cur]
        = [current |-> cur, at |-> at, pins |-> pins, stale |-> stale]
  BY DEF Keep
<1> HIDE DEF at, pins, stale, D
<1>7. Sound([current |-> cur, at |-> at, pins |-> pins, stale |-> stale], n)
  BY <1>2, <1>3, <1>5, SoundParts
<1> QED BY <1>6, <1>7

LEMMA KeptSound ==
  ASSUME NEW n, NEW h, Sound(h, n), NEW some \in SUBSET DOMAIN h.at,
         h.current = NoSession \/ h.current \in some
  PROVE  Sound(Keep(h, some), n)
<1>1. [Keep(h, some) EXCEPT !.current = h.current] = Keep(h, some)
  BY DEF Keep
<1> QED BY <1>1, KeepSound

-----------------------------------------------------------------------------
(* Among finitely many sessions there are the k newest.                    *)
Newer(some, D, at) == \A x \in some, gone \in D \ some : at[x] >= at[gone]

LEMMA NewestExist ==
  ASSUME NEW D, IsFiniteSet(D), NEW at \in [D -> Nat], NEW m \in Nat,
         \A x \in D : at[x] <= m, NEW k \in Nat, k <= Cardinality(D)
  PROVE  \E some \in SUBSET D : Cardinality(some) = k /\ Newer(some, D, at)
<1> DEFINE P(i) == \E some \in SUBSET D : Cardinality(some) = i /\ Newer(some, D, at)
           S == {i \in Nat : i <= Cardinality(D) => P(i)}
<1>1. Cardinality(D) \in Nat
  BY FS_CardinalityType
<1>2. 0 \in S
  <2>1. {} \in SUBSET D /\ Cardinality({}) = 0 /\ Newer({}, D, at)
    BY FS_EmptySet DEF Newer
  <2> QED BY <2>1
<1>3. ASSUME NEW i \in Nat, i \in S, i + 1 <= Cardinality(D) PROVE P(i + 1)
  <2>1. PICK some \in SUBSET D : Cardinality(some) = i /\ Newer(some, D, at)
    BY <1>1, <1>3
  <2>2. IsFiniteSet(some) /\ D \ some # {}
    <3>1. IsFiniteSet(some)
      BY FS_Subset
    <3>2. some # D
      BY <1>1, <1>3, <2>1
    <3> QED BY <3>1, <3>2
  <2> DEFINE T == {m - at[x] : x \in D \ some}
  <2>3. T \in SUBSET Nat /\ T # {}
    <3>1. \A x \in D \ some : m - at[x] \in Nat
      OBVIOUS
    <3> QED BY <2>2, <3>1
  <2>4. PICK t \in T : \A u \in T : t <= u
    <3> HIDE DEF T
    <3> QED BY <2>3, LeastExists
  <2>5. PICK x \in D \ some : t = m - at[x]
    BY <2>4
  <2>6. \A y \in D \ some : at[y] <= at[x]
    <3> TAKE y \in D \ some
    <3>1. m - at[x] <= m - at[y]
      BY <2>4, <2>5
    <3>2. at[x] \in Nat /\ at[y] \in Nat
      OBVIOUS
    <3> QED BY <3>1, <3>2
  <2>7. Cardinality(some \cup {x}) = i + 1 /\ some \cup {x} \in SUBSET D
    BY <2>1, <2>2, FS_AddElement
  <2>8. Newer(some \cup {x}, D, at)
    BY <2>1, <2>6 DEF Newer
  <2> QED BY <2>7, <2>8
<1>4. \A i \in Nat : i \in S => i + 1 \in S
  <2> TAKE i \in Nat
  <2> HAVE i \in S
  <2> QED BY <1>3
<1>5. k \in S
  <2> HIDE DEF S
  <2> QED BY <1>2, <1>4, SetInduction
<1> QED BY <1>5

(* The newest sessions kept, the latest change among them.                 *)
LEMMA CleanedSound ==
  ASSUME NEW n \in Nat, NEW h, Sound(h, n), h.current \in DOMAIN h.at,
         \A x \in DOMAIN h.at \ {h.current} : h.at[x] < h.at[h.current]
  PROVE  Sound(Cleaned(h), n)
<1> DEFINE D == DOMAIN h.at
           c == h.current
<1>1. D \in SUBSET Ids /\ h.at \in [D -> Nat] /\ \A x \in D : h.at[x] <= n
  BY SoundOpens DEF Sound
<1>0. MaxSessions \in Nat /\ MaxSessions # 0 /\ IsFiniteSet(Ids)
  BY StoreAssumption
<1>2. IsFiniteSet(D) /\ Cardinality(D) \in Nat
  BY <1>0, <1>1, FS_Subset, FS_CardinalityType
<1>3. CASE Cardinality(D) <= MaxSessions
  BY <1>3 DEF Cleaned
<1>4. CASE ~(Cardinality(D) <= MaxSessions)
  <2> DEFINE some == Newest(h.at)
  <2>1. \E top \in SUBSET D : Cardinality(top) = MaxSessions /\ Newer(top, D, h.at)
    <3>1. MaxSessions <= Cardinality(D)
      BY <1>0, <1>2, <1>4
    <3> HIDE DEF D
    <3> QED BY <1>0, <1>1, <1>2, <3>1, NewestExist
  <2>2. some \in SUBSET D /\ Cardinality(some) = MaxSessions /\ Newer(some, D, h.at)
    BY <2>1 DEF Newest, kSubset, Newer
  <2>5. Cleaned(h) = Keep(h, some)
    BY <1>4 DEF Cleaned
  <2> HIDE DEF some
  <2>3. some # {}
    <3>1. Cardinality({}) = 0
      BY FS_EmptySet
    <3> QED BY <1>0, <2>2, <3>1
  <2>4. c \in some
    <3> SUFFICES ASSUME c \notin some PROVE FALSE
      OBVIOUS
    <3>1. PICK x \in some : TRUE
      BY <2>3
    <3>2. x \in D \ {c} /\ c \in D \ some
      BY <2>2, <3>1
    <3>3. h.at[x] >= h.at[c] /\ h.at[x] < h.at[c]
      BY <2>2, <3>2 DEF Newer
    <3>4. h.at[x] \in Nat /\ h.at[c] \in Nat
      BY <1>1, <3>2
    <3> QED BY <3>3, <3>4
  <2> QED BY <2>2, <2>4, <2>5, KeptSound
<1> QED BY <1>3, <1>4

(* A history of which two parts change.                                    *)
LEMMA NewCurrent ==
  ASSUME NEW n, NEW h, Sound(h, n), NEW c
  PROVE  [h EXCEPT !.current = c]
           = [current |-> c, at |-> h.at, pins |-> h.pins, stale |-> h.stale]
<1>1. PICK c0, a, p, s : h = [current |-> c0, at |-> a, pins |-> p, stale |-> s]
  BY SoundOpens
<1> QED BY <1>1

LEMMA NewAt ==
  ASSUME NEW n, NEW h, Sound(h, n), NEW a
  PROVE  [h EXCEPT !.at = a]
           = [current |-> h.current, at |-> a, pins |-> h.pins, stale |-> h.stale]
<1>1. PICK c, a0, p, s : h = [current |-> c, at |-> a0, pins |-> p, stale |-> s]
  BY SoundOpens
<1> QED BY <1>1

LEMMA NewPins ==
  ASSUME NEW n, NEW h, Sound(h, n), NEW p
  PROVE  [h EXCEPT !.pins = p]
           = [current |-> h.current, at |-> h.at, pins |-> p, stale |-> h.stale]
<1>1. PICK c, a, p0, s : h = [current |-> c, at |-> a, pins |-> p0, stale |-> s]
  BY SoundOpens
<1> QED BY <1>1

LEMMA NewCurrentAt ==
  ASSUME NEW n, NEW h, Sound(h, n), NEW c, NEW a
  PROVE  [h EXCEPT !.current = c, !.at = a]
           = [current |-> c, at |-> a, pins |-> h.pins, stale |-> h.stale]
<1> DEFINE r == [current |-> c, at |-> h.at, pins |-> h.pins, stale |-> h.stale]
<1>1. [h EXCEPT !.current = c, !.at = a] = [[h EXCEPT !.current = c] EXCEPT !.at = a]
  OBVIOUS
<1>2. [h EXCEPT !.current = c] = r
  BY NewCurrent
<1>3. [r EXCEPT !.at = a] = [current |-> c, at |-> a, pins |-> h.pins, stale |-> h.stale]
  OBVIOUS
<1> HIDE DEF r
<1> QED BY <1>1, <1>2, <1>3

LEMMA NewStale ==
  ASSUME NEW n, NEW h, Sound(h, n), NEW p, NEW s
  PROVE  /\ [h EXCEPT !.pins = p, !.stale = s]
             = [current |-> h.current, at |-> h.at, pins |-> p, stale |-> s]
         /\ [h EXCEPT !.stale = s]
             = [current |-> h.current, at |-> h.at, pins |-> h.pins, stale |-> s]
<1> DEFINE r == [current |-> h.current, at |-> h.at, pins |-> p, stale |-> h.stale]
<1>1. [h EXCEPT !.pins = p, !.stale = s] = [[h EXCEPT !.pins = p] EXCEPT !.stale = s]
  OBVIOUS
<1>2. [h EXCEPT !.pins = p] = r
  BY NewPins
<1>3. [r EXCEPT !.stale = s] = [current |-> h.current, at |-> h.at, pins |-> p, stale |-> s]
  OBVIOUS
<1>4. PICK c, a, q, s0 : h = [current |-> c, at |-> a, pins |-> q, stale |-> s0]
  BY SoundOpens
<1>5. [h EXCEPT !.stale = s] = [current |-> h.current, at |-> h.at, pins |-> h.pins, stale |-> s]
  BY <1>4
<1> HIDE DEF r
<1> QED BY <1>1, <1>2, <1>3, <1>5

LEMMA CreatedSound ==
  ASSUME NEW h, edits \in Nat, edits < MaxEdits, Sound(h, edits)
  PROVE  Sound(Created(h, edits + 1), edits + 1)
<1> DEFINE id == edits + 1
           D  == DOMAIN h.at \cup {id}
           at == [x \in D |-> IF x = id THEN id ELSE h.at[x]]
           g  == [current |-> id, at |-> at, pins |-> h.pins, stale |-> h.stale]
<1>1. id \in Ids /\ id \in Nat
  BY StoreAssumption, FS_CardinalityType
<1>2. /\ \A x \in DOMAIN h.at : h.at[x] \in Nat /\ h.at[x] <= edits
      /\ DOMAIN h.at \in SUBSET Ids
  BY SoundOpens DEF Sound
<1>3. D \in SUBSET Ids /\ at \in [D -> Nat]
  BY <1>1, <1>2
<1>4. \A x \in D : at[x] <= id /\ (x # id => at[x] < id)
  BY <1>1, <1>2
<1>5. [h EXCEPT !.current = id, !.at = at] = g
  <2> HIDE DEF at, id
  <2> QED BY NewCurrentAt
<1>9. Created(h, id) = Cleaned([h EXCEPT !.current = id, !.at = at])
  BY DEF Created
<1>6. Sound(g, id)
  <2>1. ToSet(h.pins) \subseteq D /\ IsInjective(h.pins) /\ id \in D
    BY DEF Sound
  <2>2. h.pins \in Seq(Ids) /\ h.stale \in SUBSET Ids
    BY SoundOpens
  <2>3. id \in D /\ \A x \in D : at[x] <= id
    BY <1>4
  <2> HIDE DEF D, at, id
  <2> QED BY <1>3, <2>1, <2>2, <2>3, SoundParts
<1>7. /\ g.current = id /\ g.at = at /\ DOMAIN g.at = D /\ at[id] = id /\ id \in D
  OBVIOUS
<1> HIDE DEF g, at, D, id
<1>8. Sound(Cleaned(g), id)
  <2>1. g.current \in DOMAIN g.at
    BY <1>7
  <2>2. \A x \in DOMAIN g.at \ {g.current} : g.at[x] < g.at[g.current]
    BY <1>4, <1>7
  <2> QED BY <1>1, <1>6, <2>1, <2>2, CleanedSound
<1> QED BY <1>5, <1>8, <1>9 DEF id

LEMMA CopiesLater ==
  ASSUME NEW v, NEW n \in Nat, NEW m \in Nat, n <= m, Copies(v, n)
  PROVE  Copies(v, m)
BY SoundLater DEF Copies

(* Some copies are replaced, the others stay.                              *)
Replaced(v, some, g) == [h \in Hooks |-> IF h \in some THEN g ELSE v[h]]

LEMMA CopySet ==
  ASSUME NEW v, NEW n \in Nat, Copies(v, n), NEW some, NEW g, Sound(g, n)
  PROVE  Copies(Replaced(v, some, g), n)
<1>1. g \in Shaped
  BY DEF Sound
<1>2. \A k \in Hooks : Replaced(v, some, g)[k] = IF k \in some THEN g ELSE v[k]
  BY DEF Replaced
<1>3. \A k \in Hooks : Sound(Replaced(v, some, g)[k], n)
  BY <1>2 DEF Copies
<1>4. Replaced(v, some, g) \in [Hooks -> Shaped]
  BY <1>1 DEF Copies, Replaced
<1> QED BY <1>3, <1>4 DEF Copies

LEMMA NewCurrentSound ==
  ASSUME NEW n, NEW h, Sound(h, n), NEW c, c = NoSession \/ c \in DOMAIN h.at
  PROVE  Sound([h EXCEPT !.current = c], n)
<1>1. /\ DOMAIN h.at \in SUBSET Ids /\ h.at \in [DOMAIN h.at -> Nat] /\ h.pins \in Seq(Ids)
      /\ h.stale \in SUBSET Ids
  BY SoundOpens
<1>2. /\ \A x \in DOMAIN h.at : h.at[x] <= n
      /\ ToSet(h.pins) \subseteq DOMAIN h.at /\ IsInjective(h.pins)
  BY DEF Sound
<1>3. Sound([current |-> c, at |-> h.at, pins |-> h.pins, stale |-> h.stale], n)
  BY <1>1, <1>2, SoundParts
<1> QED BY <1>3, NewCurrent

LEMMA NewStaleSound ==
  ASSUME NEW n, NEW h, Sound(h, n), NEW s \in SUBSET Ids
  PROVE  Sound([h EXCEPT !.stale = s], n)
<1>1. /\ DOMAIN h.at \in SUBSET Ids /\ h.at \in [DOMAIN h.at -> Nat] /\ h.pins \in Seq(Ids)
      /\ h.current = NoSession \/ h.current \in DOMAIN h.at
  BY SoundOpens
<1>2. /\ \A x \in DOMAIN h.at : h.at[x] <= n
      /\ ToSet(h.pins) \subseteq DOMAIN h.at /\ IsInjective(h.pins)
  BY DEF Sound
<1>3. Sound([current |-> h.current, at |-> h.at, pins |-> h.pins, stale |-> s], n)
  BY <1>1, <1>2, SoundParts
<1> QED BY <1>3, NewStale

(* The pins change.                                                        *)
LEMMA NewPinsSound ==
  ASSUME NEW n, NEW h, Sound(h, n), NEW p \in Seq(Ids), IsInjective(p),
         ToSet(p) \subseteq DOMAIN h.at, NEW s \in SUBSET Ids
  PROVE  Sound([h EXCEPT !.pins = p], n) /\ Sound([h EXCEPT !.pins = p, !.stale = s], n)
<1>1. /\ DOMAIN h.at \in SUBSET Ids /\ h.at \in [DOMAIN h.at -> Nat] /\ h.stale \in SUBSET Ids
      /\ h.current = NoSession \/ h.current \in DOMAIN h.at
  BY SoundOpens
<1>2. \A x \in DOMAIN h.at : h.at[x] <= n
  BY DEF Sound
<1>3. Sound([current |-> h.current, at |-> h.at, pins |-> p, stale |-> h.stale], n)
  BY <1>1, <1>2, SoundParts
<1>4. Sound([current |-> h.current, at |-> h.at, pins |-> p, stale |-> s], n)
  BY <1>1, <1>2, SoundParts
<1>5. Sound([h EXCEPT !.pins = p], n)
  BY <1>3, NewPins
<1>6. Sound([h EXCEPT !.pins = p, !.stale = s], n)
  <2>1. [h EXCEPT !.pins = p, !.stale = s]
          = [current |-> h.current, at |-> h.at, pins |-> p, stale |-> s]
    BY NewStale
  <2> QED BY <1>4, <2>1
<1> QED BY <1>5, <1>6

LEMMA UpdatedSound ==
  ASSUME NEW n \in Nat, NEW h, Sound(h, n), h.current \in DOMAIN h.at
  PROVE  Sound([h EXCEPT !.at[h.current] = n + 1], n + 1)
<1> DEFINE a == [h.at EXCEPT ![h.current] = n + 1]
<1>1. /\ DOMAIN h.at \in SUBSET Ids /\ h.at \in [DOMAIN h.at -> Nat] /\ h.pins \in Seq(Ids)
      /\ h.stale \in SUBSET Ids
  BY SoundOpens
<1>2. /\ \A x \in DOMAIN h.at : h.at[x] <= n
      /\ ToSet(h.pins) \subseteq DOMAIN h.at /\ IsInjective(h.pins)
  BY DEF Sound
<1>3. a \in [DOMAIN h.at -> Nat] /\ \A x \in DOMAIN h.at : a[x] <= n + 1
  BY <1>1, <1>2
<1>4. [h EXCEPT !.at[h.current] = n + 1] = [h EXCEPT !.at = a]
  OBVIOUS
<1> HIDE DEF a
<1>5. Sound([current |-> h.current, at |-> a, pins |-> h.pins, stale |-> h.stale], n + 1)
  BY <1>1, <1>2, <1>3, SoundParts
<1> QED BY <1>4, <1>5, NewAt

LEMMA DeletedSound ==
  ASSUME NEW n, NEW h, Sound(h, n), NEW id
  PROVE  Sound(Deleted(h, id), n)
<1> DEFINE some == DOMAIN h.at \ {id}
           cur  == IF h.current = id THEN NoSession ELSE h.current
<1>1. cur = NoSession \/ cur \in some
  BY SoundOpens
<1>2. Deleted(h, id) = [Keep(h, some) EXCEPT !.current = cur]
  BY DEF Deleted, Keep
<1> HIDE DEF some, cur
<1>3. some \in SUBSET DOMAIN h.at
  BY DEF some
<1> QED BY <1>1, <1>2, <1>3, KeepSound

LEMMA StoreStarts == StoreInit => StoreInv
<1> SUFFICES ASSUME StoreInit PROVE StoreInv
  OBVIOUS
<1>1. Sound(NoHistory, 0)
  BY NothingSound
<1>2. NoHistory \in Shaped
  BY <1>1 DEF Sound
<1>3. view \in [Hooks -> Shaped] /\ \A h \in Hooks : view[h] = NoHistory
  BY <1>2 DEF StoreInit
<1>4. Copies(view, 0)
  BY <1>1, <1>3 DEF Copies
<1>5. 0 \in Nat /\ 0 <= MaxEdits
  BY StoreAssumption
<1> QED BY <1>1, <1>4, <1>5 DEF StoreInit, StoreInv, DeletionUndoable

(* A step that replaces some copies and leaves storage and the undo alone, *)
(* or makes one more edit.                                                 *)
Changes(some, g, n) ==
  /\ view' = Replaced(view, some, g) /\ Sound(g, n) /\ edits' = n
  /\ n \in Nat /\ edits <= n /\ n <= MaxEdits

LEMMA ChangeKeeps ==
  ASSUME StoreInv, NEW some, NEW g, NEW n, Changes(some, g, n)
  PROVE  /\ edits' \in Nat /\ edits' <= MaxEdits /\ Copies(view', edits')
         /\ Sound(storage, edits') /\ Sound(stash, edits')
<1>1. edits \in Nat /\ n \in Nat /\ edits <= n /\ edits' = n /\ n <= MaxEdits
  BY DEF StoreInv, Changes
<1>2. Sound(storage, n) /\ Sound(stash, n)
  BY <1>1, SoundLater DEF StoreInv
<1>3. Copies(view, n)
  BY <1>1, CopiesLater DEF StoreInv
<1>4. Copies(Replaced(view, some, g), n)
  BY <1>1, <1>3, CopySet DEF Changes
<1> QED BY <1>1, <1>2, <1>4 DEF Changes

LEMMA OneCopy ==
  ASSUME StoreInv, NEW h \in Hooks PROVE Sound(view[h], edits)
BY DEF StoreInv, Copies

LEMMA UnmountedKeeps ==
  ASSUME StoreInv, NEW some, Unmounted(some)
  PROVE  Copies(view', edits) /\ Sound(stash', edits) /\ DeletionUndoable'
<1>1. Sound(NoHistory, edits)
  BY NothingSound DEF StoreInv
<1>2. NoHistory \in Shaped
  BY <1>1 DEF Sound
<1>3. /\ view' = [h \in Hooks |-> IF h \in some THEN NoHistory ELSE view[h]]
      /\ stash' = NoHistory /\ deleteTimers' = {}
  BY DEF Unmounted
<1>4. view \in [Hooks -> Shaped] /\ \A h \in Hooks : Sound(view[h], edits)
  BY DEF StoreInv, Copies
<1>5. view' \in [Hooks -> Shaped]
  BY <1>2, <1>3, <1>4
<1>6. \A h \in Hooks : Sound(view'[h], edits)
  BY <1>1, <1>3, <1>4
<1>7. DeletionUndoable'
  BY <1>3 DEF DeletionUndoable
<1> QED BY <1>1, <1>3, <1>5, <1>6, <1>7 DEF Copies

(* Pinning and ordering leave a list of distinct sessions of the copy.     *)
LEMMA ToggledSound ==
  ASSUME NEW n, NEW h, Sound(h, n), NEW id \in DOMAIN h.at
  PROVE  /\ Sound([h EXCEPT !.pins = Filtered(@, Ids \ {id}), !.stale = @ \ {id}], n)
         /\ ~(\E i \in DOMAIN h.pins : h.pins[i] = id)
              => Sound([h EXCEPT !.pins = <<id>> \o @], n)
<1> DEFINE p == Filtered(h.pins, Ids \ {id})
           q == <<id>> \o h.pins
           s == h.stale \ {id}
<1>1. /\ DOMAIN h.at \in SUBSET Ids /\ h.pins \in Seq(Ids) /\ h.stale \in SUBSET Ids
      /\ ToSet(h.pins) \subseteq DOMAIN h.at /\ IsInjective(h.pins)
  BY SoundOpens DEF Sound
<1>2. p \in Seq(Ids) /\ IsInjective(p)
  BY <1>1, FilteredType, FilteredDistinct
<1>3. ToSet(p) = ToSet(h.pins) \cap (Ids \ {id})
  BY <1>1, FilteredMembers
<1>4. ToSet(p) \subseteq DOMAIN h.at /\ s \in SUBSET Ids
  BY <1>1, <1>3
<1>5. Sound([h EXCEPT !.pins = p, !.stale = s], n)
  <2> HIDE DEF p, s
  <2> QED BY <1>2, <1>4, NewPinsSound
<1>6. ASSUME ~(\E i \in DOMAIN h.pins : h.pins[i] = id)
      PROVE  Sound([h EXCEPT !.pins = q], n)
  <2>1. id \in Ids /\ <<id>> \in Seq(Ids) /\ ToSet(<<id>>) = {id} /\ IsInjective(<<id>>)
    BY <1>1 DEF ToSet, IsInjective
  <2>2. id \notin ToSet(h.pins)
    BY <1>6 DEF ToSet
  <2> DEFINE one == <<id>>
  <2>6. one \in Seq(Ids) /\ ToSet(one) = {id} /\ IsInjective(one) /\ q = one \o h.pins
    BY <2>1
  <2> HIDE DEF one, q
  <2>3. q \in Seq(Ids) /\ ToSet(q) = {id} \cup ToSet(h.pins)
    BY <1>1, <2>6, JoinFacts
  <2>7. ToSet(one) \cap ToSet(h.pins) = {}
    BY <2>2, <2>6
  <2>4. IsInjective(q)
    BY <1>1, <2>6, <2>7, JoinFacts
  <2>5. ToSet(q) \subseteq DOMAIN h.at
    BY <1>1, <2>3
  <2> QED BY <2>3, <2>4, <2>5, <1>1, NewPinsSound
<1> QED BY <1>5, <1>6

LEMMA ReorderedSound ==
  ASSUME NEW n, NEW h, Sound(h, n), NEW order \in Seq(ToSet(h.pins)), IsInjective(order)
  PROVE  Sound([h EXCEPT !.pins = order \o Filtered(@, Ids \ ToSet(order)),
                         !.stale = @ \ ToSet(order)], n)
<1> DEFINE rest == Filtered(h.pins, Ids \ ToSet(order))
           p    == order \o rest
           s    == h.stale \ ToSet(order)
<1>1. /\ DOMAIN h.at \in SUBSET Ids /\ h.pins \in Seq(Ids) /\ h.stale \in SUBSET Ids
      /\ ToSet(h.pins) \subseteq DOMAIN h.at /\ IsInjective(h.pins)
  BY SoundOpens DEF Sound
<1>2. rest \in Seq(Ids) /\ IsInjective(rest)
  BY <1>1, FilteredType, FilteredDistinct
<1>3. ToSet(rest) = ToSet(h.pins) \cap (Ids \ ToSet(order))
  BY <1>1, FilteredMembers
<1>4. ToSet(order) \subseteq ToSet(h.pins) /\ order \in Seq(Ids)
  <2>1. \A i \in DOMAIN order : order[i] \in ToSet(h.pins)
    OBVIOUS
  <2>2. ToSet(order) \subseteq ToSet(h.pins)
    BY <2>1 DEF ToSet
  <2>3. ToSet(h.pins) \subseteq Ids
    BY <1>1
  <2>4. order \in Seq(Ids)
    <3> DEFINE T == ToSet(h.pins)
    <3>1. order \in Seq(T) /\ T \subseteq Ids
      BY <2>3
    <3> HIDE DEF T
    <3> QED BY <3>1
  <2> QED BY <2>2, <2>4
<1> HIDE DEF rest
<1>5. p \in Seq(Ids) /\ ToSet(p) = ToSet(order) \cup ToSet(rest)
  BY <1>2, <1>4, JoinFacts
<1>6. IsInjective(p)
  <2>1. ToSet(order) \cap ToSet(rest) = {}
    BY <1>3
  <2> QED BY <1>2, <1>4, <2>1, JoinFacts
<1>7. ToSet(p) \subseteq DOMAIN h.at /\ s \in SUBSET Ids
  BY <1>1, <1>3, <1>4, <1>5
<1>8. Sound([h EXCEPT !.pins = p, !.stale = s], n)
  <2> HIDE DEF p, s
  <2> QED BY <1>5, <1>6, <1>7, NewPinsSound
<1> QED BY <1>8 DEF rest

LEMMA SetReplaces ==
  ASSUME NEW some, NEW g, Set(some, g)
  PROVE  view' = Replaced(view, some, g)
BY DEF Set, Replaced

(* One lemma for the steps of useChat's copy, one for the sidebar's.       *)
LEMMA ChatCopyStays ==
  ASSUME StoreInv, Boot \/ NewSession \/ UpdateCurrent \/ \E id \in Ids : LoadSession(id)
  PROVE  StoreInv'
<1> DEFINE h == view["chat"]
<1>0. edits \in Nat /\ edits <= MaxEdits /\ MaxEdits \in Nat /\ Sound(h, edits)
  <2>1. "chat" \in Hooks
    BY DEF Hooks
  <2>2. Sound(h, edits)
    BY <2>1, OneCopy
  <2> QED BY <2>2, StoreAssumption, FS_CardinalityType DEF StoreInv
<1> HIDE DEF h
<1>1. ASSUME NEW g, NEW n, Sound(g, n), Set({"chat"}, g), edits' = n, n \in Nat, edits <= n,
             n <= MaxEdits, UNCHANGED <<storage, sideVars>>
      PROVE  StoreInv'
  <2>1. view' = Replaced(view, {"chat"}, g)
    BY <1>1, SetReplaces
  <2>2. Changes({"chat"}, g, n)
    BY <1>1, <2>1 DEF Changes
  <2>3. /\ edits' \in Nat /\ edits' <= MaxEdits /\ Copies(view', edits')
        /\ Sound(storage, edits') /\ Sound(stash, edits')
    BY <2>2, ChangeKeeps
  <2>4. storage' = storage /\ stash' = stash /\ hidden' = hidden
        /\ deleteTimers' = deleteTimers
    BY <1>1 DEF sideVars
  <2> QED BY <2>3, <2>4 DEF StoreInv, DeletionUndoable
<1>2. ASSUME edits < MaxEdits
      PROVE  edits + 1 \in Nat /\ edits <= edits + 1 /\ edits + 1 <= MaxEdits
  BY <1>0, <1>2
<1>3. CASE Boot \/ NewSession
  <2>1. edits < MaxEdits /\ edits' = edits + 1 /\ Set({"chat"}, Created(h, edits + 1))
        /\ UNCHANGED <<storage, sideVars>>
    BY <1>3 DEF Boot, NewSession, NextId, h
  <2>2. Sound(Created(h, edits + 1), edits + 1)
    BY <1>0, <2>1, CreatedSound
  <2> QED BY <1>1, <1>2, <2>1, <2>2
<1>4. ASSUME NEW g, Sound(g, edits), g.current \in DOMAIN g.at, edits < MaxEdits
      PROVE  Sound(Touched(g, g.current), edits + 1)
  BY <1>0, <1>4, UpdatedSound DEF Touched
<1>5. CASE UpdateCurrent
  <2>1. /\ h.current \in DOMAIN h.at /\ edits < MaxEdits /\ edits' = edits + 1
        /\ Set({"chat"}, Touched(h, h.current)) /\ UNCHANGED <<storage, sideVars>>
    BY <1>5 DEF UpdateCurrent, Has, ShownId, h
  <2> QED BY <1>0, <1>1, <1>2, <1>4, <2>1
<1>6. ASSUME NEW id \in Ids, LoadSession(id) PROVE StoreInv'
  <2> DEFINE g == [h EXCEPT !.current = id]
  <2>1. id \in DOMAIN h.at /\ UNCHANGED <<storage, sideVars>>
    BY <1>6 DEF LoadSession, Has, h
  <2>2. Sound(g, edits)
    BY <1>0, <2>1, NewCurrentSound
  <2>3. g.current = id /\ g.at = h.at
    <3>1. g = [current |-> id, at |-> h.at, pins |-> h.pins, stale |-> h.stale]
      BY <1>0, NewCurrent
    <3> QED BY <3>1
  <2>4. \/ edits < MaxEdits /\ edits' = edits + 1 /\ Set({"chat"}, Touched(g, id))
        \/ edits' = edits /\ Set({"chat"}, g)
    BY <1>6 DEF LoadSession, h
  <2> HIDE DEF g
  <2>5. CASE edits < MaxEdits /\ edits' = edits + 1 /\ Set({"chat"}, Touched(g, id))
    <3>1. Sound(Touched(g, g.current), edits + 1)
      BY <1>4, <2>1, <2>2, <2>3, <2>5
    <3> QED BY <1>1, <1>2, <2>1, <2>3, <2>5, <3>1
  <2>6. CASE edits' = edits /\ Set({"chat"}, g)
    BY <1>0, <1>1, <2>1, <2>2, <2>6
  <2> QED BY <2>4, <2>5, <2>6
<1> QED BY <1>3, <1>5, <1>6

LEMMA SideCopyStays ==
  ASSUME StoreInv, \/ \E id \in Ids : DeleteTimerFires(id) \/ TogglePin(id)
                   \/ \E order : ReorderPinned(order)
                   \/ ClearAll
  PROVE  StoreInv'
<1>0. /\ edits \in Nat /\ edits <= MaxEdits /\ "side" \in Hooks
      /\ Sound(view["side"], edits)
  <2>1. "side" \in Hooks
    BY DEF Hooks
  <2> QED BY <2>1, OneCopy DEF StoreInv
<1>1. ASSUME NEW g, Sound(g, edits), Set({"side"}, g), edits' = edits
      PROVE  edits' \in Nat /\ edits' <= MaxEdits /\ Copies(view', edits')
  <2>1. Changes({"side"}, g, edits)
    BY <1>0, <1>1, SetReplaces DEF Changes
  <2> QED BY <2>1, ChangeKeeps
<1>2. ASSUME NEW id \in Ids, DeleteTimerFires(id) PROVE StoreInv'
  <2>1. Sound(Deleted(view["side"], id), edits)
    BY <1>0, DeletedSound
  <2>2. edits' \in Nat /\ edits' <= MaxEdits /\ Copies(view', edits')
    BY <1>1, <1>2, <2>1 DEF DeleteTimerFires
  <2>3. storage' = storage /\ stash' = stash /\ edits' = edits
    BY <1>2 DEF DeleteTimerFires
  <2>4. deleteTimers' = {}
    BY <1>2 DEF DeleteTimerFires, StoreInv, DeletionUndoable
  <2> QED BY <2>2, <2>3, <2>4 DEF StoreInv, DeletionUndoable
<1>3. ASSUME NEW g, Sound(g, edits), Set({"side"}, g), UNCHANGED <<storage, edits, sideVars>>
      PROVE  StoreInv'
  <2>1. edits' \in Nat /\ edits' <= MaxEdits /\ Copies(view', edits')
    BY <1>1, <1>3
  <2> QED BY <1>3, <2>1 DEF StoreInv, DeletionUndoable, sideVars
<1>4. ASSUME NEW id \in Ids, TogglePin(id) PROVE StoreInv'
  <2> DEFINE h == view["side"]
             p == [h EXCEPT !.pins = Filtered(@, Ids \ {id}), !.stale = @ \ {id}]
             q == [h EXCEPT !.pins = <<id>> \o @]
             there == \E i \in DOMAIN h.pins : h.pins[i] = id
  <2>1. id \in DOMAIN h.at /\ Set({"side"}, IF there THEN p ELSE q)
        /\ UNCHANGED <<storage, edits, sideVars>>
    BY <1>4 DEF TogglePin, Visible
  <2>2. Sound(p, edits) /\ (~there => Sound(q, edits))
    <3> HIDE DEF h
    <3>1. Sound(h, edits)
      BY <1>0 DEF h
    <3> QED BY <2>1, <3>1, ToggledSound
  <2> HIDE DEF p, q, there
  <2> QED BY <1>3, <2>1, <2>2
<1>5. ASSUME NEW order, ReorderPinned(order) PROVE StoreInv'
  <2> DEFINE h == view["side"]
             g == [h EXCEPT !.pins = order \o Filtered(@, Ids \ ToSet(order)),
                            !.stale = @ \ ToSet(order)]
  <2>1. order \in Seq(ToSet(h.pins)) /\ IsInjective(order) /\ Set({"side"}, g)
        /\ UNCHANGED <<storage, edits, sideVars>>
    BY <1>5 DEF ReorderPinned
  <2>2. Sound(g, edits)
    <3> HIDE DEF h
    <3>1. Sound(h, edits)
      BY <1>0 DEF h
    <3> QED BY <2>1, <3>1, ReorderedSound
  <2> HIDE DEF g
  <2> QED BY <1>3, <2>1, <2>2
<1>6. CASE ClearAll
  <2> DEFINE g == [view["side"] EXCEPT !.current = NoSession]
  <2>1. /\ stash' = g /\ storage' = NoHistory /\ Set({"side"}, NoHistory)
        /\ edits' = edits /\ hidden' = hidden /\ deleteTimers' = deleteTimers
    BY <1>6 DEF ClearAll
  <2>2. Sound(g, edits)
    BY <1>0, NewCurrentSound
  <2>3. Sound(NoHistory, edits)
    BY <1>0, NothingSound
  <2>4. edits' \in Nat /\ edits' <= MaxEdits /\ Copies(view', edits')
    BY <1>1, <2>1, <2>3
  <2> HIDE DEF g
  <2> QED BY <2>1, <2>2, <2>3, <2>4 DEF StoreInv, DeletionUndoable
<1> QED BY <1>2, <1>4, <1>5, <1>6

LEMMA StoreStays == StoreInv /\ [StoreNext]_historyVars => StoreInv'
<1> SUFFICES ASSUME StoreInv, [StoreNext]_historyVars PROVE StoreInv'
  OBVIOUS
<1>0. edits \in Nat /\ Sound(storage, edits) /\ Sound(stash, edits) /\ Copies(view, edits)
  BY DEF StoreInv
<1>1. ASSUME NEW some \in Groups, Mount(some) PROVE StoreInv'
  <2>1. ToSet(storage.pins) \in SUBSET Ids
    BY <1>0, SoundOpens DEF ToSet
  <2>2. Sound(Loaded(storage), edits)
    BY <1>0, <2>1, NewStaleSound DEF Loaded
  <2>3. /\ view' = Replaced(view, some, Loaded(storage)) /\ edits' = edits
        /\ UNCHANGED <<storage, sideVars>>
    BY <1>1, SetReplaces DEF Mount
  <2>4. Changes(some, Loaded(storage), edits)
    BY <2>2, <2>3 DEF Changes, StoreInv
  <2>5. edits' \in Nat /\ edits' <= MaxEdits /\ Copies(view', edits')
    BY <2>4, ChangeKeeps
  <2> QED BY <2>3, <2>5 DEF StoreInv, DeletionUndoable, sideVars
<1>2. ASSUME NEW h \in Hooks, Save(h) PROVE StoreInv'
  <2>1. Sound(view[h], edits)
    BY OneCopy
  <2> QED BY <1>2, <2>1 DEF Save, StoreInv, DeletionUndoable, sideVars
<1>3. ASSUME NEW id \in Ids, DeleteSession(id) PROVE StoreInv'
  <2>1. id # NoSession
    BY StoreAssumption, FS_CardinalityType DEF NoSession
  <2> QED BY <1>3, <2>1 DEF DeleteSession, StoreInv, DeletionUndoable
<1>4. CASE UndoDelete
  BY <1>4 DEF UndoDelete, StoreInv, DeletionUndoable
<1>5. CASE ClearTimerFires
  <2>1. Sound(NoHistory, edits)
    BY <1>0, NothingSound
  <2> QED BY <1>5, <2>1 DEF ClearTimerFires, StoreInv, DeletionUndoable
<1>6. ASSUME NEW some, Unmounted(some), edits' = edits, storage' \in {storage, stash}
      PROVE  StoreInv'
  <2>1. Copies(view', edits) /\ Sound(stash', edits) /\ DeletionUndoable'
    BY <1>6, UnmountedKeeps
  <2>2. Sound(storage', edits)
    BY <1>0, <1>6
  <2> QED BY <1>6, <2>1, <2>2 DEF StoreInv
<1>7. CASE UndoClearAll
  <2>1. CASE stash.at # <<>>
    BY <1>6, <1>7, <2>1 DEF UndoClearAll
  <2>2. CASE ~(stash.at # <<>>)
    <3>1. Sound(NoHistory, edits)
      BY <1>0, NothingSound
    <3> QED BY <1>7, <2>2, <3>1 DEF UndoClearAll, StoreInv, DeletionUndoable
  <2> QED BY <2>1, <2>2
<1>8. CASE UnmountSide \/ ReloadPage
  BY <1>6, <1>8 DEF UnmountSide, ReloadPage
<1>9. CASE UNCHANGED historyVars
  BY <1>9 DEF historyVars, StoreInv, DeletionUndoable
<1> QED BY <1>1, <1>2, <1>3, <1>4, <1>5, <1>7, <1>8, <1>9, ChatCopyStays, SideCopyStays
        DEF StoreNext

(* Over any number of sessions, edits, mounts, saves of the three copies   *)
(* over one another in any order and cleared or undone deletions, the      *)
(* current session and the pinned ones are sessions of their history, in   *)
(* storage and in each copy, and only the row whose undo button is there   *)
(* is waiting to be deleted (useChatHistory.ts:143,                        *)
(* ChatHistorySidebar.tsx:391).                                            *)
THEOREM HistoryStaysCoherent == MCChatSpec => []HistoryKept
<1>1. MCChatInit => StoreInv
  BY StoreStarts DEF MCChatInit
<1>2. StoreInv /\ [MCChatNext]_mcVars => StoreInv'
  BY StoreStays, PartsMove
<1>3. StoreInv => HistoryKept
  <2> SUFFICES ASSUME StoreInv PROVE HistoryKept
    OBVIOUS
  <2>1. \A h \in Hooks : Sound(view[h], edits)
    BY OneCopy
  <2>2. \A past \in {storage, stash} \cup {view[h] : h \in Hooks} : Sound(past, edits)
    BY <2>1 DEF StoreInv
  <2> QED BY <2>2 DEF StoreInv, HistoryKept, HistoryCoherent, Sound, Has
<1> QED BY <1>1, <1>2, <1>3, PTL DEF MCChatSpec

-----------------------------------------------------------------------------
(***************************************************************************)
(* A message's text: the places of a term or a keyword in it               *)
(***************************************************************************)
Written == Alphabet \cup {0}

LEMMA ShownArePlain == ShownTexts \subseteq Seq(Written)
<1> SUFFICES ASSUME NEW t \in ShownTexts PROVE t \in Seq(Written)
  OBVIOUS
<1>1. PICK n \in 0 .. MaxText : t \in [1 .. n -> Written]
  BY DEF ShownTexts, Written
<1>2. n \in Nat
  BY TextAssumption
<1> QED BY <1>1, <1>2

LEMMA WrittenIsNat == Seq(Written) \subseteq Seq(Nat)
<1>1. Written \subseteq Nat
  BY TextAssumption DEF Written
<1> SUFFICES ASSUME NEW s \in Seq(Written) PROVE s \in Seq(Nat)
  OBVIOUS
<1> QED BY <1>1, SeqMonotonic

(* What lower case makes of each letter.                                   *)
LoweredEach(text) == [i \in DOMAIN text |-> Lower[text[i]]]

LEMMA LoweredLetters ==
  ASSUME NEW text \in Seq(Written)
  PROVE  /\ LoweredEach(text) \in Seq(Seq(Written)) /\ Len(LoweredEach(text)) = Len(text)
         /\ \A i \in 1 .. Len(text) :
              /\ LoweredEach(text)[i] = Lower[text[i]]
              /\ Lower[text[i]] \in Seq(Written) /\ Lower[text[i]] # <<>>
         /\ LowerCase(text) = FlattenSeq(LoweredEach(text))
<1> DEFINE n == Len(text)
           each == LoweredEach(text)
<1>1. n \in Nat /\ DOMAIN text = 1 .. n /\ \A i \in 1 .. n : text[i] \in Written
  OBVIOUS
<1>2. Lower \in [Written -> Seq(Written) \ {<<>>}]
  BY TextAssumption DEF Written
<1> HIDE DEF n
<1>3. \A i \in 1 .. n : Lower[text[i]] \in Seq(Written) /\ Lower[text[i]] # <<>>
  BY <1>1, <1>2
<1>4. each = [i \in 1 .. n |-> Lower[text[i]]]
  BY <1>1 DEF LoweredEach
<1>5. LowerCase(text) = FlattenSeq(each)
  BY DEF LowerCase, LoweredEach
<1> HIDE DEF each
<1>6. each \in [1 .. n -> Seq(Written)]
  BY <1>3, <1>4
<1>7. each \in Seq(Seq(Written)) /\ Len(each) = n
  BY <1>1, <1>6
<1> QED BY <1>3, <1>4, <1>5, <1>7 DEF n, each

LEMMA LowerIsWritten ==
  ASSUME NEW text \in Seq(Written)
  PROVE  LowerCase(text) \in Seq(Written) /\ (LowerCase(text) = <<>> <=> text = <<>>)
<1> DEFINE each == LoweredEach(text)
           all  == LowerCase(text)
<1>1. /\ each \in Seq(Seq(Written)) /\ Len(each) = Len(text) /\ all = FlattenSeq(each)
      /\ \A i \in 1 .. Len(text) : each[i] = Lower[text[i]] /\ Lower[text[i]] # <<>>
                                   /\ Lower[text[i]] \in Seq(Written)
  BY LoweredLetters
<1> HIDE DEF each, all
<1>2. all \in Seq(Written) /\ ToSet(all) = UNION {ToSet(each[i]) : i \in DOMAIN each}
  BY <1>1, FlattenMembers
<1>3. Len(text) \in Nat /\ DOMAIN each = 1 .. Len(text)
  BY <1>1, LenProperties
<1>4. CASE text = <<>>
  <2>1. DOMAIN each = {}
    BY <1>3, <1>4, EmptySeq
  <2>2. ToSet(all) = {}
    BY <1>2, <2>1
  <2>3. DOMAIN all = {}
    BY <2>2 DEF ToSet
  <2>4. Len(all) = 0
    BY <1>2, <2>3, LenProperties
  <2> QED BY <1>2, <1>4, <2>4, EmptySeq DEF all
<1>5. CASE text # <<>>
  <2>1. 1 \in 1 .. Len(text)
    BY <1>3, <1>5, EmptySeq
  <2> DEFINE first == each[1]
  <2>2. first \in Seq(Written) /\ first # <<>>
    BY <1>1, <2>1
  <2> HIDE DEF first
  <2>3. 1 \in DOMAIN first
    BY <2>2, EmptySeq, LenProperties
  <2>4. first[1] \in ToSet(first)
    BY <2>3 DEF ToSet
  <2>5. ToSet(all) # {}
    BY <1>2, <1>3, <2>1, <2>4 DEF first
  <2>6. all # <<>>
    BY <2>5 DEF ToSet
  <2> QED BY <1>2, <1>5, <2>6 DEF all
<1> QED BY <1>4, <1>5

(* Of a level text, lower case changes the letters and no place.           *)
LEMMA LevelLower ==
  ASSUME NEW text \in Seq(Written), Level(text)
  PROVE  /\ Len(LowerCase(text)) = Len(text)
         /\ \A i \in 1 .. Len(text) : LowerCase(text)[i] = Lower[text[i]][1]
<1> DEFINE n == Len(text)
           each == LoweredEach(text)
<1>1. n \in Nat /\ DOMAIN text = 1 .. n
  OBVIOUS
<1>2. /\ each \in Seq(Seq(Written)) /\ Len(each) = n /\ LowerCase(text) = FlattenSeq(each)
      /\ \A i \in 1 .. n : each[i] = Lower[text[i]] /\ Lower[text[i]] \in Seq(Written)
  BY LoweredLetters
<1>3. \A i \in 1 .. n : Len(each[i]) = 1 /\ each[i] \in Seq(Written)
  BY <1>1, <1>2 DEF Level
<1> HIDE DEF each, n
<1>4. PICK sums \in [0 .. n -> Seq(Written)] : Joins(sums, each) /\ FlattenSeq(each) = sums[n]
  BY <1>2, FlattenSums
<1>5. sums[0] = <<>> /\ \A k \in 1 .. n : sums[k] = sums[k - 1] \o each[k]
  BY <1>2, <1>4 DEF Joins
<1> DEFINE P(k) == Len(sums[k]) = k /\ \A i \in 1 .. k : sums[k][i] = each[i][1]
           K == {k \in 0 .. n : P(k)}
<1>6. 0 \in K
  BY <1>1, <1>5
<1>7. ASSUME NEW k \in 0 .. n - 1, k \in K PROVE k + 1 \in K
  <2> DEFINE p == sums[k]
             q == each[k + 1]
  <2>1. k \in Nat /\ k + 1 \in 1 .. n /\ k + 1 \in 0 .. n /\ (k + 1) - 1 = k
    BY <1>1
  <2>2. P(k)
    BY <1>7
  <2>3. sums[k + 1] = p \o q
    BY <1>5, <2>1
  <2>4. p \in Seq(Written) /\ q \in Seq(Written) /\ Len(p) = k /\ Len(q) = 1
    <3>1. p \in Seq(Written)
      BY <1>4, <1>7
    <3>2. q \in Seq(Written) /\ Len(q) = 1
      BY <1>3, <2>1
    <3> QED BY <2>2, <3>1, <3>2
  <2>5. \A i \in 1 .. k : p[i] = each[i][1]
    BY <2>2
  <2>6. q[1] = each[k + 1][1]
    OBVIOUS
  <2> HIDE DEF p, q
  <2>7. /\ Len(p \o q) = k + 1
        /\ \A i \in 1 .. k + 1 : (p \o q)[i] = IF i <= k THEN p[i] ELSE q[i - k]
    <3>1. /\ Len(p \o q) = Len(p) + Len(q)
          /\ \A i \in 1 .. Len(p) + Len(q) : (p \o q)[i] = IF i <= Len(p) THEN p[i]
                                                                       ELSE q[i - Len(p)]
      BY <2>4, ConcatProperties
    <3> QED BY <2>4, <3>1
  <2>8. \A i \in 1 .. k + 1 : (p \o q)[i] = each[i][1]
    <3> TAKE i \in 1 .. k + 1
    <3>1. CASE i <= k
      BY <2>1, <2>5, <2>7, <3>1
    <3>2. CASE ~(i <= k)
      <4>1. i = k + 1 /\ i - k = 1
        BY <2>1, <3>2
      <4> QED BY <2>6, <2>7, <3>2, <4>1
    <3> QED BY <3>1, <3>2
  <2> QED BY <2>1, <2>3, <2>7, <2>8
<1> HIDE DEF K
<1>8. 0 .. n \subseteq K
  BY <1>1, <1>6, <1>7, IntervalInduction
<1>9. P(n)
  <2>1. n \in K
    BY <1>1, <1>8
  <2> QED BY <2>1 DEF K
<1> QED BY <1>2, <1>4, <1>9 DEF n

(* Nor of a part of it.                                                    *)
LEMMA LowerPart ==
  ASSUME NEW text \in Seq(Written), Level(text),
         NEW a \in 1 .. Len(text), NEW b \in a .. Len(text)
  PROVE  LowerCase(SubSeq(text, a, b)) = SubSeq(LowerCase(text), a, b)
<1> DEFINE n == Len(text)
           part == SubSeq(text, a, b)
           lower == LowerCase(text)
           m == b - a + 1
<1>1. /\ n \in Nat /\ DOMAIN text = 1 .. n /\ a \in Nat /\ b \in Nat /\ 1 <= a /\ a <= b
      /\ b <= n
  OBVIOUS
<1>2. lower \in Seq(Written) /\ Len(lower) = n /\ \A i \in 1 .. n : lower[i] = Lower[text[i]][1]
  BY LowerIsWritten, LevelLower
<1>3. \A i \in 1 .. n : Len(Lower[text[i]]) = 1
  BY <1>1 DEF Level
<1> HIDE DEF lower
<1>4. part \in Seq(Written) /\ Len(part) = m /\ \A i \in 1 .. m : part[i] = text[a + i - 1]
  BY <1>1
<1>5. /\ SubSeq(lower, a, b) \in Seq(Written) /\ Len(SubSeq(lower, a, b)) = m
      /\ \A i \in 1 .. m : SubSeq(lower, a, b)[i] = lower[a + i - 1]
  BY <1>1, <1>2
<1>6. \A i \in 1 .. m : a + i - 1 \in 1 .. n
  BY <1>1
<1> HIDE DEF part, n
<1>7. Level(part)
  <2>1. DOMAIN part = 1 .. m
    BY <1>4, LenProperties
  <2> QED BY <1>3, <1>4, <1>6, <2>1 DEF Level
<1>8. /\ LowerCase(part) \in Seq(Written) /\ Len(LowerCase(part)) = m
      /\ \A i \in 1 .. m : LowerCase(part)[i] = Lower[part[i]][1]
  BY <1>4, <1>7, LowerIsWritten, LevelLower
<1>9. \A i \in 1 .. m : LowerCase(part)[i] = SubSeq(lower, a, b)[i]
  BY <1>2, <1>4, <1>5, <1>6, <1>8
<1> HIDE DEF m
<1> QED BY <1>5, <1>8, <1>9, SeqEqual DEF part, lower

(* Within a text's ends, substring is SubSeq; it always gives letters of   *)
(* the text.                                                               *)
LEMMA SubstringInside ==
  ASSUME NEW V, NEW text \in Seq(V), NEW a \in Int, NEW b \in Int, 1 <= a, b <= Len(text)
  PROVE  Substring(text, a, b) = SubSeq(text, a, b)
<1>1. (IF a < 1 THEN 1 ELSE a) = a
  OBVIOUS
<1>2. (IF b > Len(text) THEN Len(text) ELSE b) = b
  <2>1. Len(text) \in Nat
    BY LenProperties
  <2> QED BY <2>1
<1> QED BY <1>1, <1>2 DEF Substring

LEMMA SubstringType ==
  ASSUME NEW V, NEW text \in Seq(V), NEW a \in Int, NEW b \in Int
  PROVE  Substring(text, a, b) \in Seq(V)
<1> DEFINE c == IF a < 1 THEN 1 ELSE a
           d == IF b > Len(text) THEN Len(text) ELSE b
<1>1. c \in Int /\ d \in Int /\ 1 <= c /\ d <= Len(text) /\ Len(text) \in Nat
  OBVIOUS
<1>2. Substring(text, a, b) = SubSeq(text, c, d)
  BY DEF Substring
<1> HIDE DEF c, d
<1>3. \A i \in c .. d : text[i] \in V
  BY <1>1
<1>4. SubSeq(text, c, d) \in Seq(V)
  BY <1>1, <1>3, SubSeqProperties
<1> QED BY <1>2, <1>4

Marks == [first : Nat, last : Nat]

TermsOf(V) == [word : Seq(V) \ {<<>>}, whole : BOOLEAN]

(* The scan of the first places: its marks are matches, one after the      *)
(* other, and no match is outside of all of them.                          *)
Scanned(found, text, term, i) ==
  /\ found \in Seq(Marks)
  /\ \A k \in 1 .. Len(found) :
       /\ found[k].first \in 1 .. i /\ Matches(text, term, found[k].first)
       /\ found[k].last = found[k].first + Len(term.word) - 1
  /\ \A j, k \in 1 .. Len(found) : j < k => found[j].last < found[k].first
  /\ \A p \in 1 .. i : Matches(text, term, p) =>
       \E k \in 1 .. Len(found) : found[k].first <= p /\ p <= found[k].last

(* One place more: a match that begins after the last mark is marked; one  *)
(* that begins before its end is inside of it.                             *)
LEMMA ScanStep ==
  ASSUME NEW text, NEW V, NEW term \in TermsOf(V), NEW i \in Nat, NEW found,
         Scanned(found, text, term, i),
         NEW next, next = IF Clear(found, i + 1) /\ Matches(text, term, i + 1)
                          THEN Append(found, [first |-> i + 1,
                                              last |-> i + 1 + Len(term.word) - 1])
                          ELSE found
  PROVE  Scanned(next, text, term, i + 1)
<1> DEFINE w == Len(term.word)
           l == Len(found)
           M(p) == Matches(text, term, p)
           mark == [first |-> i + 1, last |-> i + 1 + w - 1]
<1>1. w \in Nat /\ w >= 1
  <2>1. term.word \in Seq(V) /\ term.word # <<>>
    BY DEF TermsOf
  <2> QED BY <2>1, EmptySeq, LenProperties
<1>2. /\ found \in Seq(Marks) /\ l \in Nat
      /\ \A k \in 1 .. l : /\ found[k].first \in 1 .. i /\ M(found[k].first)
                          /\ found[k].last = found[k].first + w - 1
      /\ \A j, k \in 1 .. l : j < k => found[j].last < found[k].first
      /\ \A p \in 1 .. i : M(p) => \E k \in 1 .. l : found[k].first <= p /\ p <= found[k].last
  BY LenProperties DEF Scanned
<1>3. \A k \in 1 .. l : /\ found[k].first \in Nat /\ found[k].last \in Nat
                       /\ found[k].first <= found[k].last /\ found[k].first <= i
  BY <1>1, <1>2
<1>4. Clear(found, i + 1) <=> (l = 0 \/ found[l].last < i + 1)
  BY <1>2, EmptySeq DEF Clear, Last
<1> HIDE DEF w, l, M
<1>5. CASE Clear(found, i + 1) /\ M(i + 1)
  <2> DEFINE new == Append(found, mark)
  <2>1. next = new
    BY <1>5 DEF M, w
  <2>2. mark \in Marks /\ mark.first = i + 1 /\ mark.last = i + w
    BY <1>1 DEF Marks
  <2> HIDE DEF mark
  <2>3. /\ new \in Seq(Marks) /\ Len(new) = l + 1 /\ new[l + 1] = mark
        /\ \A k \in 1 .. l : new[k] = found[k]
    BY <1>2, <2>2, AppendProperties DEF l
  <2> HIDE DEF new
  <2>4. \A k \in 1 .. l + 1 : k \in 1 .. l \/ k = l + 1
    BY <1>2
  <2>5. ASSUME NEW k \in 1 .. l + 1
        PROVE  new[k].first \in 1 .. i + 1 /\ M(new[k].first)
               /\ new[k].last = new[k].first + w - 1
    <3>1. CASE k = l + 1
      <4>1. new[k] = mark
        BY <2>3, <3>1
      <4>2. M(new[k].first)
        BY <1>5, <2>2, <4>1
      <4>3. new[k].first \in 1 .. i + 1 /\ new[k].last = new[k].first + w - 1
        BY <1>1, <2>2, <4>1
      <4> QED BY <4>2, <4>3
    <3>2. CASE k \in 1 .. l
      <4>1. new[k] = found[k]
        BY <2>3, <3>2
      <4>2. M(found[k].first) /\ found[k].first \in 1 .. i
            /\ found[k].last = found[k].first + w - 1
        BY <1>2, <3>2
      <4>3. found[k].first \in 1 .. i + 1
        BY <4>2
      <4> QED BY <4>1, <4>2, <4>3
    <3> QED BY <2>4, <3>1, <3>2
  <2>6. ASSUME NEW j \in 1 .. l + 1, NEW k \in 1 .. l + 1, j < k
        PROVE  new[j].last < new[k].first
    <3>1. CASE k = l + 1
      <4>1. j \in 1 .. l /\ l \in 1 .. l /\ l # 0 /\ l \in Nat
        BY <1>2, <2>6, <3>1
      <4>2. found[l].last < i + 1
        BY <1>4, <1>5, <4>1
      <4>3. found[j].last <= found[l].last
        <5>1. CASE j = l
          BY <1>3, <4>1, <5>1
        <5>2. CASE j # l
          <6>1. j < l
            BY <4>1, <5>2
          <6>2. found[j].last < found[l].first
            BY <1>2, <4>1, <6>1
          <6> QED BY <1>3, <4>1, <6>2
        <5> QED BY <5>1, <5>2
      <4>4. new[j].last = found[j].last /\ new[k].first = i + 1
        BY <2>2, <2>3, <3>1, <4>1
      <4> QED BY <1>3, <4>1, <4>2, <4>3, <4>4
    <3>2. CASE k \in 1 .. l
      <4>1. j \in 1 .. l
        BY <1>2, <2>6, <3>2
      <4> QED BY <1>2, <2>3, <2>6, <3>2, <4>1
    <3> QED BY <2>4, <3>1, <3>2
  <2>7. ASSUME NEW p \in 1 .. i + 1, M(p)
        PROVE  \E k \in 1 .. l + 1 : new[k].first <= p /\ p <= new[k].last
    <3>1. CASE p = i + 1
      <4>1. l + 1 \in 1 .. l + 1 /\ new[l + 1].first <= p /\ p <= new[l + 1].last
        BY <1>1, <1>2, <2>2, <2>3, <3>1
      <4> QED BY <4>1
    <3>2. CASE p # i + 1
      <4>1. p \in 1 .. i
        BY <3>2
      <4>2. PICK k \in 1 .. l : found[k].first <= p /\ p <= found[k].last
        BY <1>2, <2>7, <4>1
      <4>3. k \in 1 .. l + 1 /\ new[k] = found[k]
        BY <1>2, <2>3
      <4> QED BY <4>2, <4>3
    <3> QED BY <3>1, <3>2
  <2> QED BY <2>1, <2>3, <2>5, <2>6, <2>7 DEF Scanned, M, w
<1>6. CASE ~(Clear(found, i + 1) /\ M(i + 1))
  <2>1. next = found
    BY <1>6 DEF M
  <2>2. \A k \in 1 .. l : found[k].first \in 1 .. i + 1
    BY <1>2
  <2>3. ASSUME NEW p \in 1 .. i + 1, M(p)
        PROVE  \E k \in 1 .. l : found[k].first <= p /\ p <= found[k].last
    <3>1. CASE p = i + 1
      <4>1. l # 0 /\ ~(found[l].last < i + 1)
        BY <1>4, <1>6, <2>3, <3>1
      <4>2. l \in 1 .. l
        BY <1>2, <4>1
      <4>3. found[l].first <= i /\ i + 1 <= found[l].last /\ found[l].first \in Nat
        BY <1>3, <4>1, <4>2
      <4> QED BY <3>1, <4>2, <4>3
    <3>2. CASE p # i + 1
      <4>1. p \in 1 .. i
        BY <3>2
      <4> QED BY <1>2, <2>3, <4>1
    <3> QED BY <3>1, <3>2
  <2> QED BY <1>2, <2>1, <2>2, <2>3 DEF Scanned, M, w, l
<1> QED BY <1>5, <1>6

(* So Found is the scan of the whole text: its function has a solution.    *)
LEMMA FoundScans ==
  ASSUME NEW V, NEW text \in Seq(V), NEW term \in TermsOf(V)
  PROVE  Scanned(Found(text, term), text, term, Len(text))
<1> DEFINE n  == Len(text)
           w  == Len(term.word)
           mark(i) == [first |-> i, last |-> i + w - 1]
           next == [i \in 1 .. n |-> [f \in Seq(Marks) |->
                      IF Clear(f, i) /\ Matches(text, term, i) THEN Append(f, mark(i)) ELSE f]]
           G(f) == f = [i \in 0 .. n |->
                          IF i = 0 THEN <<>>
                          ELSE IF Clear(f[i - 1], i) /\ Matches(text, term, i)
                               THEN Append(f[i - 1], mark(i)) ELSE f[i - 1]]
<1>1. n \in Nat /\ <<>> \in Seq(Marks)
  OBVIOUS
<1>2. Steps(next, n, Seq(Marks))
  <2>1. w \in Nat
    BY DEF TermsOf
  <2>2. w # 0
    BY EmptySeq DEF TermsOf
  <2>3. \A i \in 1 .. n : mark(i) \in Marks
    <3> HIDE DEF n, w
    <3> QED BY <1>1, <2>1, <2>2 DEF Marks
  <2> HIDE DEF mark, n
  <2>4. next \in [1 .. n -> [Seq(Marks) -> Seq(Marks)]]
    BY <2>3
  <2> QED BY <2>4 DEF Steps
<1>3. PICK g : Run(g, n, Seq(Marks), <<>>, next)
  <2> HIDE DEF n, next
  <2> QED BY <1>1, <1>2, Recursion
<1>4. G(g)
  <2>1. g \in [0 .. n -> Seq(Marks)] /\ g[0] = <<>> /\ \A i \in 1 .. n : g[i] = next[i][g[i - 1]]
    <3> HIDE DEF next, n
    <3> QED BY <1>3 DEF Run
  <2>2. ASSUME NEW i \in 0 .. n
        PROVE  g[i] = IF i = 0 THEN <<>>
                      ELSE IF Clear(g[i - 1], i) /\ Matches(text, term, i)
                           THEN Append(g[i - 1], mark(i)) ELSE g[i - 1]
    <3>1. CASE i = 0
      BY <2>1, <3>1
    <3>2. CASE i # 0
      <4>1. i \in 1 .. n /\ i - 1 \in 0 .. n
        BY <1>1, <3>2
      <4>2. g[i - 1] \in Seq(Marks) /\ g[i] = next[i][g[i - 1]]
        BY <2>1, <4>1
      <4> HIDE DEF mark
      <4> QED BY <3>2, <4>1, <4>2
    <3> QED BY <3>1, <3>2
  <2> QED BY <2>1, <2>2
<1> DEFINE it == CHOOSE f : G(f)
<1>5. G(it)
  BY <1>4
<1>6. Found(text, term) = it[n]
  BY DEF Found
<1> HIDE DEF it
<1>7. /\ it[0] = <<>>
      /\ \A i \in 0 .. n - 1 :
           it[i + 1] = IF Clear(it[i], i + 1) /\ Matches(text, term, i + 1)
                       THEN Append(it[i], mark(i + 1)) ELSE it[i]
  <2>1. it[0] = <<>>
    BY <1>1, <1>5
  <2>2. ASSUME NEW i \in 0 .. n - 1
        PROVE  it[i + 1] = IF Clear(it[i], i + 1) /\ Matches(text, term, i + 1)
                           THEN Append(it[i], mark(i + 1)) ELSE it[i]
    <3>1. i + 1 \in 0 .. n /\ i + 1 # 0 /\ (i + 1) - 1 = i
      BY <1>1
    <3> HIDE DEF mark, n
    <3> QED BY <1>5, <3>1
  <2> QED BY <2>1, <2>2
<1> HIDE DEF G, n, next
<1> DEFINE S == {i \in 0 .. n : Scanned(it[i], text, term, i)}
<1>8. 0 \in S
  <2>1. Scanned(<<>>, text, term, 0)
    BY DEF Scanned
  <2> QED BY <1>1, <1>7, <2>1
<1>9. ASSUME NEW i \in 0 .. n - 1, i \in S PROVE i + 1 \in S
  <2>1. i \in Nat /\ i + 1 \in 0 .. n
    BY <1>1
  <2>2. Scanned(it[i], text, term, i)
    BY <1>9
  <2>3. Scanned(it[i + 1], text, term, i + 1)
    BY <1>7, <2>1, <2>2, ScanStep
  <2> QED BY <2>1, <2>3
<1>10. \A i \in 0 .. n - 1 : i \in S => i + 1 \in S
  BY <1>9
<1> HIDE DEF S
<1>11. 0 .. n \subseteq S
  BY <1>1, <1>8, <1>10, IntervalInduction
<1>12. n \in S
  BY <1>1, <1>11
<1> QED BY <1>6, <1>12 DEF S, n

-----------------------------------------------------------------------------
(***************************************************************************)
(* Its masks                                                               *)
(***************************************************************************)
(* Sorting only adds the match; where it is put decides nothing below.     *)
LEMMA InsertedMembers ==
  ASSUME NEW sorted \in Seq(Marks), NEW m \in Marks
  PROVE  Inserted(sorted, m) \in Seq(Marks) /\ ToSet(Inserted(sorted, m)) = ToSet(sorted) \cup {m}
<1> DEFINE early == {x \in ToSet(sorted) : x.first <= m.first}
           p == Filtered(sorted, early)
           q == Filtered(sorted, ToSet(sorted) \ early)
           one == <<m>>
<1>1. early \subseteq ToSet(sorted)
  OBVIOUS
<1>2. Inserted(sorted, m) = p \o one \o q
  BY DEF Inserted
<1> HIDE DEF early
<1>3. p \in Seq(Marks) /\ ToSet(p) = ToSet(sorted) \cap early
  BY FilteredType, FilteredMembers
<1>4. q \in Seq(Marks) /\ ToSet(q) = ToSet(sorted) \cap (ToSet(sorted) \ early)
  BY FilteredType, FilteredMembers
<1>5. one \in Seq(Marks) /\ ToSet(one) = {m}
  BY DEF ToSet
<1> HIDE DEF p, q, one
<1>6. p \o one \in Seq(Marks) /\ ToSet(p \o one) = ToSet(p) \cup ToSet(one)
  BY <1>3, <1>5, JoinFacts
<1> DEFINE po == p \o one
<1>7. po \in Seq(Marks) /\ ToSet(po) = ToSet(p) \cup ToSet(one) /\ p \o one \o q = po \o q
  BY <1>6
<1> HIDE DEF po
<1>8. po \o q \in Seq(Marks) /\ ToSet(po \o q) = ToSet(po) \cup ToSet(q)
  BY <1>4, <1>7, JoinFacts
<1> QED BY <1>1, <1>2, <1>3, <1>4, <1>5, <1>7, <1>8

(* The terms found, in whatever order, are those of each term.             *)
LEMMA FoundTogether ==
  ASSUME NEW V, NEW text, LowerCase(text) \in Seq(V)
  PROVE  /\ FindSensitiveTerms(text) \in Seq(Marks)
         /\ ToSet(FindSensitiveTerms(text))
              = UNION {ToSet(Found(LowerCase(text), Terms[i])) : i \in DOMAIN Terms}
<1> DEFINE lower == LowerCase(text)
<1>0. lower \in Seq(V)
  OBVIOUS
<1> DEFINE each == [i \in DOMAIN Terms |-> Found(lower, Terms[i])]
           all  == FlattenSeq(each)
           n    == Len(all)
           next == [i \in 1 .. n |-> [s \in Seq(Marks) |-> Inserted(s, all[i])]]
           G(f) == f = [i \in 0 .. n |-> IF i = 0 THEN <<>> ELSE Inserted(f[i - 1], all[i])]
           it   == CHOOSE f : G(f)
<1> HIDE DEF lower
<1>1. Terms \in Seq(TermsOf(Alphabet))
  BY TextAssumption DEF TermsOf
<1>2. \A i \in DOMAIN Terms : Found(lower, Terms[i]) \in Seq(Marks)
  <2> TAKE i \in DOMAIN Terms
  <2>1. Terms[i] \in TermsOf(Alphabet)
    BY <1>1
  <2>2. Found(lower, Terms[i]) \in Seq(Marks)
    <3> DEFINE W == V \cup Alphabet
    <3>1. lower \in Seq(W) /\ Terms[i] \in TermsOf(W)
      <4>1. \A x \in Seq(Alphabet) : x \in Seq(W)
        OBVIOUS
      <4> HIDE DEF W
      <4>2. Terms[i] \in TermsOf(W)
        BY <2>1, <4>1 DEF TermsOf
      <4> QED BY <1>0, <4>2 DEF W
    <3> HIDE DEF W
    <3> QED BY <3>1, FoundScans DEF Scanned
  <2> QED BY <2>2
<1>3. /\ each \in Seq(Seq(Marks)) /\ DOMAIN each = DOMAIN Terms
      /\ \A i \in DOMAIN Terms : each[i] = Found(lower, Terms[i])
  <2>1. each \in [1 .. Len(Terms) -> Seq(Marks)] /\ Len(Terms) \in Nat
    BY <1>1, <1>2, LenProperties
  <2>2. each \in Seq(Seq(Marks))
    <3> HIDE DEF each
    <3> QED BY <2>1
  <2> QED BY <2>2
<1> HIDE DEF each
<1>4. all \in Seq(Marks) /\ ToSet(all) = UNION {ToSet(each[i]) : i \in DOMAIN each}
  BY <1>3, FlattenMembers
<1>5. UNION {ToSet(each[i]) : i \in DOMAIN each}
        = UNION {ToSet(Found(lower, Terms[i])) : i \in DOMAIN Terms}
  BY <1>3
<1>6. FindSensitiveTerms(text) = it[n]
  BY DEF FindSensitiveTerms, each, lower
<1> HIDE DEF all
<1>7. n \in Nat /\ <<>> \in Seq(Marks) /\ \A i \in 1 .. n : all[i] \in Marks
  BY <1>4
<1>8. Steps(next, n, Seq(Marks))
  <2> HIDE DEF n
  <2>1. \A i \in 1 .. n, s \in Seq(Marks) : Inserted(s, all[i]) \in Seq(Marks)
    BY <1>7, InsertedMembers
  <2> QED BY <2>1 DEF Steps
<1>9. PICK g : Run(g, n, Seq(Marks), <<>>, next)
  <2> HIDE DEF n, next
  <2> QED BY <1>7, <1>8, Recursion
<1>10. G(g)
  <2>1. g \in [0 .. n -> Seq(Marks)] /\ g[0] = <<>> /\ \A i \in 1 .. n : g[i] = next[i][g[i - 1]]
    <3> HIDE DEF next, n
    <3> QED BY <1>9 DEF Run
  <2>2. ASSUME NEW i \in 1 .. n PROVE g[i] = Inserted(g[i - 1], all[i])
    <3>1. i - 1 \in 0 .. n
      BY <1>7
    <3>2. g[i - 1] \in Seq(Marks) /\ g[i] = next[i][g[i - 1]]
      BY <2>1, <3>1
    <3> QED BY <3>2
  <2>3. \A i \in 0 .. n : i = 0 \/ i \in 1 .. n
    BY <1>7
  <2> HIDE DEF n, next
  <2>4. \A i \in 0 .. n : g[i] = IF i = 0 THEN <<>> ELSE Inserted(g[i - 1], all[i])
    BY <2>1, <2>2, <2>3
  <2> QED BY <2>1, <2>4
<1>11. G(it)
  BY <1>10
<1> HIDE DEF it
<1>12. it[0] = <<>> /\ \A i \in 0 .. n - 1 : it[i + 1] = Inserted(it[i], all[i + 1])
  <2>1. it[0] = <<>>
    BY <1>7, <1>11
  <2>2. ASSUME NEW i \in 0 .. n - 1 PROVE it[i + 1] = Inserted(it[i], all[i + 1])
    <3>1. i + 1 \in 0 .. n /\ i + 1 # 0 /\ (i + 1) - 1 = i
      BY <1>7
    <3> HIDE DEF n
    <3> QED BY <1>11, <3>1
  <2> QED BY <2>1, <2>2
<1> HIDE DEF G, next
<1> DEFINE P(i) == it[i] \in Seq(Marks) /\ ToSet(it[i]) = {all[k] : k \in 1 .. i}
           S == {i \in 0 .. n : P(i)}
<1>13. 0 \in S
  <2>1. it[0] \in Seq(Marks) /\ ToSet(it[0]) = {} /\ {all[k] : k \in 1 .. 0} = {}
    BY <1>12 DEF ToSet
  <2> QED BY <1>7, <2>1
<1>14. ASSUME NEW i \in 0 .. n - 1, i \in S PROVE i + 1 \in S
  <2>1. i \in Nat /\ i + 1 \in 0 .. n /\ i + 1 \in 1 .. n /\ all[i + 1] \in Marks
    BY <1>7
  <2>2. it[i] \in Seq(Marks) /\ ToSet(it[i]) = {all[k] : k \in 1 .. i}
    BY <1>14
  <2>3. it[i + 1] = Inserted(it[i], all[i + 1])
    BY <1>12
  <2>4. it[i + 1] \in Seq(Marks) /\ ToSet(it[i + 1]) = ToSet(it[i]) \cup {all[i + 1]}
    BY <2>1, <2>2, <2>3, InsertedMembers
  <2>5. 1 .. i + 1 = 1 .. i \cup {i + 1}
    BY <2>1
  <2> HIDE DEF n
  <2>6. {all[k] : k \in 1 .. i + 1} = {all[k] : k \in 1 .. i} \cup {all[i + 1]}
    BY <2>5
  <2> QED BY <2>1, <2>2, <2>4, <2>6
<1>15. \A i \in 0 .. n - 1 : i \in S => i + 1 \in S
  BY <1>14
<1> HIDE DEF S
<1>16. 0 .. n \subseteq S
  BY <1>7, <1>13, <1>15, IntervalInduction
<1>17. it[n] \in Seq(Marks) /\ ToSet(it[n]) = {all[k] : k \in 1 .. n}
  <2>1. n \in S
    BY <1>7, <1>16
  <2> QED BY <2>1 DEF S
<1>18. ToSet(all) = {all[k] : k \in 1 .. n}
  BY <1>4 DEF ToSet
<1> QED BY <1>4, <1>5, <1>6, <1>17, <1>18 DEF lower

(* A match lies in the text.                                               *)
LEMMA FoundInside ==
  ASSUME NEW V, NEW text \in Seq(V), NEW term \in TermsOf(V), NEW m \in ToSet(Found(text, term))
  PROVE  m \in Marks /\ 1 <= m.first /\ m.first <= m.last /\ m.last <= Len(text)
<1> DEFINE found == Found(text, term)
           w == Len(term.word)
<1>1. Scanned(found, text, term, Len(text))
  BY FoundScans
<1>2. found \in Seq(Marks)
  BY <1>1 DEF Scanned
<1> HIDE DEF found
<1>3. PICK k \in 1 .. Len(found) : m = found[k]
  BY <1>2 DEF ToSet, found
<1>4. /\ m.first \in 1 .. Len(text) /\ Matches(text, term, m.first)
      /\ m.last = m.first + w - 1
  BY <1>1, <1>3 DEF Scanned
<1>5. m.first + w - 1 <= Len(text)
  BY <1>4 DEF Matches, At
<1>6. w \in Nat /\ w # 0
  <2>1. term.word \in Seq(V) /\ term.word # <<>>
    BY DEF TermsOf
  <2> QED BY <2>1, EmptySeq, LenProperties
<1>7. m \in Marks
  BY <1>2, <1>3
<1> HIDE DEF w
<1> QED BY <1>4, <1>5, <1>6, <1>7

(* A letter is a number, and so are the characters of the masks.           *)
LEMMA TermsAreLetters ==
  ASSUME NEW i \in DOMAIN Terms
  PROVE  Terms[i] \in TermsOf(Nat)
<1>1. Terms \in Seq(TermsOf(Alphabet)) /\ Alphabet \subseteq Nat
  BY TextAssumption DEF TermsOf
<1>2. Terms[i] \in TermsOf(Alphabet)
  BY <1>1
<1>3. \A x \in Seq(Alphabet) : x \in Seq(Nat)
  <2> DEFINE A == Alphabet
  <2>1. A \subseteq Nat
    BY <1>1
  <2> HIDE DEF A
  <2>2. ASSUME NEW x \in Seq(A) PROVE x \in Seq(Nat)
    <3>1. x \in [1 .. Len(x) -> A] /\ Len(x) \in Nat
      OBVIOUS
    <3>2. x \in [1 .. Len(x) -> Nat]
      BY <2>1, <3>1
    <3> QED BY <3>1, <3>2
  <2> QED BY <2>2 DEF A
<1> QED BY <1>2, <1>3 DEF TermsOf

(* A stretch of a text is replaced by one of its length.                   *)
Patch(t, a, b, mask) == SubSeq(t, 1, a - 1) \o mask \o SubSeq(t, b + 1, Len(t))

Patched(r, t, a, b, mask, V) ==
  /\ r \in Seq(V) /\ Len(r) = Len(t)
  /\ \A i \in 1 .. Len(t) : r[i] = IF a <= i /\ i <= b THEN mask[i - a + 1] ELSE t[i]

(* It keeps the length, and every letter outside of it.                    *)
LEMMA PatchFacts ==
  ASSUME NEW V, NEW t \in Seq(V), NEW a \in Nat, NEW b \in Nat, 1 <= a, a <= b, b <= Len(t),
         NEW mask \in Seq(V), Len(mask) = b - a + 1
  PROVE  Patched(Patch(t, a, b, mask), t, a, b, mask, V)
<1> DEFINE n == Len(t)
           p == SubSeq(t, 1, a - 1)
           q == SubSeq(t, b + 1, n)
           pm == p \o mask
           r == pm \o q
<1>1. n \in Nat
  OBVIOUS
<1>2. /\ p \in Seq(V) /\ Len(p) = a - 1 /\ \A i \in 1 .. a - 1 : p[i] = t[i]
  OBVIOUS
<1>3. /\ q \in Seq(V) /\ Len(q) = n - b /\ \A i \in 1 .. n - b : q[i] = t[b + i]
  OBVIOUS
<1> HIDE DEF p, q
<1>4. /\ pm \in Seq(V) /\ Len(pm) = b
      /\ \A i \in 1 .. b : pm[i] = IF i <= a - 1 THEN p[i] ELSE mask[i - (a - 1)]
  <2>1. /\ pm \in Seq(V) /\ Len(pm) = Len(p) + Len(mask)
        /\ \A i \in 1 .. Len(p) + Len(mask) :
             pm[i] = IF i <= Len(p) THEN p[i] ELSE mask[i - Len(p)]
    BY <1>2, ConcatProperties
  <2>2. Len(p) + Len(mask) = b
    BY <1>2
  <2> QED BY <1>2, <2>1, <2>2
<1> HIDE DEF pm
<1>5. /\ r \in Seq(V) /\ Len(r) = n
      /\ \A i \in 1 .. n : r[i] = IF i <= b THEN pm[i] ELSE q[i - b]
  <2>1. /\ r \in Seq(V) /\ Len(r) = Len(pm) + Len(q)
        /\ \A i \in 1 .. Len(pm) + Len(q) :
             r[i] = IF i <= Len(pm) THEN pm[i] ELSE q[i - Len(pm)]
    BY <1>3, <1>4, ConcatProperties
  <2>2. Len(pm) = b /\ Len(pm) + Len(q) = n
    BY <1>1, <1>3, <1>4
  <2> HIDE DEF r, n
  <2> QED BY <2>1, <2>2
<1>6. Patch(t, a, b, mask) = r
  BY DEF Patch, pm, p, q
<1> HIDE DEF r, n
<1>7. \A i \in 1 .. n : r[i] = IF a <= i /\ i <= b THEN mask[i - a + 1] ELSE t[i]
  <2> TAKE i \in 1 .. n
  <2>1. CASE i <= a - 1
    <3>1. i \in 1 .. a - 1 /\ i \in 1 .. b /\ i <= b /\ ~(a <= i)
      BY <1>1, <2>1
    <3>2. r[i] = pm[i]
      BY <1>5, <3>1
    <3>3. pm[i] = p[i]
      BY <1>4, <2>1, <3>1
    <3>4. p[i] = t[i]
      BY <1>2, <3>1
    <3> QED BY <3>1, <3>2, <3>3, <3>4
  <2>2. CASE a <= i /\ i <= b
    <3>1. i - (a - 1) = i - a + 1 /\ ~(i <= a - 1) /\ i \in 1 .. b
      BY <1>1, <2>2
    <3> QED BY <1>4, <1>5, <2>2, <3>1
  <2>3. CASE b < i
    <3>1. i - b \in 1 .. n - b /\ b + (i - b) = i /\ ~(i <= b)
      BY <1>1, <2>3
    <3> QED BY <1>3, <1>5, <3>1
  <2> QED BY <1>1, <2>1, <2>2, <2>3
<1> QED BY <1>5, <1>6, <1>7 DEF n, Patched

Letter(style) == IF style = "block" THEN Block ELSE Star

(* These two masks are as long as the word, so no later match moves.       *)
LEMMA WholeMask ==
  ASSUME NEW V, NEW word \in Seq(V), NEW style \in {"asterisk", "block"}
  PROVE  /\ GenerateMask(word, style) \in Seq(Nat)
         /\ Len(GenerateMask(word, style)) = Len(word)
         /\ \A i \in 1 .. Len(word) : GenerateMask(word, style)[i] = Letter(style)
<1>1. GenerateMask(word, style) = [i \in 1 .. Len(word) |-> Letter(style)]
  <2>1. DOMAIN word = 1 .. Len(word)
    OBVIOUS
  <2>2. CASE style = "asterisk"
    <3>1. GenerateMask(word, style) = [i \in DOMAIN word |-> Star] /\ Letter(style) = Star
      BY <2>2 DEF GenerateMask, Letter
    <3> QED BY <2>1, <3>1
  <2>3. CASE style = "block"
    <3>1. GenerateMask(word, style) = [i \in DOMAIN word |-> Block] /\ Letter(style) = Block
      BY <2>3 DEF GenerateMask, Letter
    <3> QED BY <2>1, <3>1
  <2> QED BY <2>2, <2>3
<1>2. Letter(style) \in Nat
  BY DEF Letter, Star, Block
<1> QED BY <1>1, <1>2

Covered(marks, i) == \E m \in marks : m.first <= i /\ i <= m.last

(* The masks put in from the left, whatever the order and however the      *)
(* matches overlap, cover the letters of the matches and no others.        *)
LEMMA MaskCoversMarks ==
  ASSUME NEW text \in Seq(Written), Level(text), NEW style \in {"asterisk", "block"}
  PROVE  /\ MaskText(text, style) \in Seq(Nat) /\ Len(MaskText(text, style)) = Len(text)
         /\ \A i \in 1 .. Len(text) :
              MaskText(text, style)[i] =
                IF Covered(ToSet(FindSensitiveTerms(text)), i) THEN Letter(style) ELSE text[i]
<1> DEFINE found == FindSensitiveTerms(text)
           n     == Len(found)
           L     == Len(text)
           lower == LowerCase(text)
           One(before, m) ==
             LET mask  == GenerateMask(Substring(text, m.first, m.last), style)
                 first == m.first + before.offset
                 last  == m.last + before.offset
             IN [text   |-> Substring(before.text, 1, first - 1) \o mask
                            \o Substring(before.text, last + 1, Len(before.text)),
                 offset |-> before.offset + Len(mask) - (m.last - m.first + 1)]
           start == [text |-> text, offset |-> 0]
           S     == [text : {t \in Seq(Nat) : Len(t) = L}, offset : {0}]
           G(f)  == f = [k \in 0 .. n |-> IF k = 0 THEN start ELSE One(f[k - 1], found[k])]
           it    == CHOOSE f : G(f)
           next  == [k \in 1 .. n |-> [b \in S |-> One(b, found[k])]]
<1>1. /\ found \in Seq(Marks) /\ n \in Nat /\ L \in Nat /\ DOMAIN found = 1 .. n
      /\ ToSet(found) = UNION {ToSet(Found(lower, Terms[i])) : i \in DOMAIN Terms}
      /\ lower \in Seq(Nat) /\ Len(lower) = L /\ text \in Seq(Nat)
  <2>0. lower \in Seq(Nat) /\ Len(lower) = L /\ text \in Seq(Nat)
    BY LowerIsWritten, LevelLower, WrittenIsNat
  <2>1. found \in Seq(Marks)
    BY <2>0, FoundTogether
  <2> HIDE DEF found
  <2>2. n \in Nat /\ DOMAIN found = 1 .. n
    BY <2>1
  <2> QED BY <2>0, <2>1, <2>2, FoundTogether DEF found
<1>2. MaskText(text, style) = it[n].text
  BY DEF MaskText
<1> HIDE DEF found, it, lower
<1>3. \A k \in 1 .. n : /\ found[k] \in Marks /\ 1 <= found[k].first
                       /\ found[k].first <= found[k].last /\ found[k].last <= L
  <2> TAKE k \in 1 .. n
  <2>1. found[k] \in ToSet(found)
    BY <1>1 DEF ToSet
  <2>2. PICK i \in DOMAIN Terms : found[k] \in ToSet(Found(lower, Terms[i]))
    BY <1>1, <2>1
  <2>3. Terms[i] \in TermsOf(Nat)
    BY TermsAreLetters
  <2> QED BY <1>1, <2>2, <2>3, FoundInside
<1>4. ASSUME NEW b \in S, NEW k \in 1 .. n
      PROVE  /\ One(b, found[k]) \in S
             /\ \A i \in 1 .. L : One(b, found[k]).text[i] =
                  IF found[k].first <= i /\ i <= found[k].last THEN Letter(style) ELSE b.text[i]
  <2> DEFINE m    == found[k]
             word == Substring(text, m.first, m.last)
             mask == GenerateMask(word, style)
             r    == Patch(b.text, m.first, m.last, mask)
  <2>1. /\ b.text \in Seq(Nat) /\ Len(b.text) = L /\ b.offset = 0
        /\ m.first \in Nat /\ m.last \in Nat /\ 1 <= m.first /\ m.first <= m.last /\ m.last <= L
    BY <1>3 DEF Marks
  <2> HIDE DEF m
  <2>2. word \in Seq(Nat) /\ Len(word) = m.last - m.first + 1
    <3> DEFINE a == m.first
               b1 == m.last
    <3>1. a \in 1 .. Len(text) + 1 /\ b1 \in 0 .. Len(text) /\ a \in Nat /\ b1 \in Nat /\ a <= b1
      BY <1>1, <2>1
    <3> HIDE DEF a, b1
    <3>2. SubSeq(text, a, b1) \in Seq(Nat) /\ Len(SubSeq(text, a, b1)) = b1 - a + 1
      <4>1. \A i \in a .. b1 : text[i] \in Nat
        <5> TAKE i \in a .. b1
        <5> DEFINE l == Len(text)
        <5>1. i \in a .. b1 /\ l \in Nat /\ a \in 1 .. l + 1 /\ b1 \in 0 .. l /\ i \in Int
          BY <1>1, <3>1
        <5> HIDE DEF l
        <5>2. i \in 1 .. l
          BY <5>1
        <5>3. i \in 1 .. Len(text)
          BY <5>2 DEF l
        <5> QED BY <1>1, <5>3, ElementOfSeq
      <4>2. a \in Int /\ b1 \in Int
        BY <3>1
      <4>3. /\ SubSeq(text, a, b1) \in Seq(Nat)
            /\ Len(SubSeq(text, a, b1)) = IF a <= b1 THEN b1 - a + 1 ELSE 0
        BY <4>1, <4>2, SubSeqProperties
      <4> QED BY <3>1, <4>3
    <3>3. Substring(text, a, b1) = SubSeq(text, a, b1)
      BY <3>1, SubstringInside
    <3> QED BY <3>2, <3>3 DEF a, b1
  <2> HIDE DEF word
  <2>3. /\ mask \in Seq(Nat) /\ Len(mask) = m.last - m.first + 1
        /\ \A i \in 1 .. m.last - m.first + 1 : mask[i] = Letter(style)
    BY <2>2, WholeMask
  <2> HIDE DEF mask
  <2>4. /\ r \in Seq(Nat) /\ Len(r) = L
        /\ \A i \in 1 .. L : r[i] = IF m.first <= i /\ i <= m.last THEN mask[i - m.first + 1]
                                                                   ELSE b.text[i]
    <3> DEFINE a == m.first
               b1 == m.last
               t == b.text
    <3>1. a \in Nat /\ b1 \in Nat /\ 1 <= a /\ a <= b1 /\ b1 <= Len(t) /\ t \in Seq(Nat)
          /\ mask \in Seq(Nat) /\ Len(mask) = b1 - a + 1 /\ Len(t) = L
      BY <2>1, <2>3
    <3> HIDE DEF a, b1, t, L
    <3>2. Patched(Patch(t, a, b1, mask), t, a, b1, mask, Nat)
      BY <3>1, PatchFacts
    <3> QED BY <3>1, <3>2 DEF a, b1, t, Patched
  <2>5. One(b, m) = [text |-> r, offset |-> 0]
    <3>1. m.first + b.offset = m.first /\ m.last + b.offset = m.last
          /\ b.offset + Len(mask) - (m.last - m.first + 1) = 0
      <4> DEFINE a == m.first
                 b1 == m.last
                 o == b.offset
                 w == Len(mask)
      <4>1. a \in Nat /\ b1 \in Nat /\ o = 0 /\ w = b1 - a + 1
        BY <2>1, <2>3
      <4> HIDE DEF a, b1, o, w
      <4>2. a + o = a /\ b1 + o = b1 /\ o + w - (b1 - a + 1) = 0
        BY <4>1
      <4> QED BY <4>2 DEF a, b1, o, w
    <3>2. One(b, m) =
            [text   |-> Substring(b.text, 1, (m.first + b.offset) - 1) \o mask
                          \o Substring(b.text, (m.last + b.offset) + 1, Len(b.text)),
             offset |-> b.offset + Len(mask) - (m.last - m.first + 1)]
      BY DEF mask, word
    <3>3. /\ Substring(b.text, 1, m.first - 1) = SubSeq(b.text, 1, m.first - 1)
          /\ Substring(b.text, m.last + 1, Len(b.text)) = SubSeq(b.text, m.last + 1, Len(b.text))
      <4> DEFINE a == m.first
                 b1 == m.last
                 t == b.text
      <4>1. /\ t \in Seq(Nat) /\ Len(t) \in Nat /\ a - 1 \in Int /\ a - 1 <= Len(t)
            /\ b1 + 1 \in Int /\ 1 <= b1 + 1 /\ Len(t) <= Len(t) /\ 1 \in Int /\ 1 <= 1
        <5>1. /\ t \in Seq(Nat) /\ Len(t) = L /\ L \in Nat
              /\ a \in Nat /\ b1 \in Nat /\ a <= b1 /\ b1 <= L
          BY <1>1, <2>1
        <5> HIDE DEF a, b1, t, L
        <5> QED BY <5>1
      <4> HIDE DEF a, b1, t
      <4>2. Substring(t, 1, a - 1) = SubSeq(t, 1, a - 1)
        BY <4>1, SubstringInside
      <4>3. Substring(t, b1 + 1, Len(t)) = SubSeq(t, b1 + 1, Len(t))
        BY <4>1, SubstringInside
      <4> QED BY <4>2, <4>3 DEF a, b1, t
    <3> HIDE DEF One
    <3> QED BY <3>1, <3>2, <3>3 DEF Patch
  <2> HIDE DEF r, One
  <2>6. \A i \in 1 .. L : m.first <= i /\ i <= m.last => mask[i - m.first + 1] = Letter(style)
    <3> TAKE i \in 1 .. L
    <3> HAVE m.first <= i /\ i <= m.last
    <3> DEFINE a == m.first
               b1 == m.last
    <3>1. a \in Nat /\ b1 \in Nat /\ a <= i /\ i <= b1 /\ i \in Nat
      BY <1>1, <2>1
    <3> HIDE DEF a, b1
    <3>2. i - a + 1 \in 1 .. b1 - a + 1
      BY <3>1
    <3> QED BY <2>3, <3>2 DEF a, b1
  <2>7. One(b, m) \in S /\ One(b, m).text = r
    BY <2>4, <2>5
  <2> HIDE DEF S
  <2>8. \A i \in 1 .. L : One(b, m).text[i] =
                  IF m.first <= i /\ i <= m.last THEN Letter(style) ELSE b.text[i]
    BY <2>4, <2>6, <2>7
  <2> QED BY <2>7, <2>8 DEF m
<1>5. start \in S
  BY <1>1
<1> HIDE DEF One, n, L, S, start
<1>6. Steps(next, n, S)
  BY <1>4 DEF Steps
<1>7. PICK g : Run(g, n, S, start, next)
  <2> HIDE DEF next
  <2> QED BY <1>1, <1>5, <1>6, Recursion
<1>8. G(g)
  <2>1. g \in [0 .. n -> S] /\ g[0] = start /\ \A k \in 1 .. n : g[k] = next[k][g[k - 1]]
    <3> HIDE DEF next
    <3> QED BY <1>7 DEF Run
  <2>2. ASSUME NEW k \in 1 .. n PROVE g[k] = One(g[k - 1], found[k])
    <3>1. k - 1 \in 0 .. n
      BY <1>1
    <3>2. g[k - 1] \in S /\ g[k] = next[k][g[k - 1]]
      BY <2>1, <3>1
    <3> QED BY <3>2
  <2>3. \A k \in 0 .. n : k = 0 \/ k \in 1 .. n
    BY <1>1
  <2> HIDE DEF next
  <2>4. \A k \in 0 .. n : g[k] = IF k = 0 THEN start ELSE One(g[k - 1], found[k])
    BY <2>1, <2>2, <2>3
  <2> QED BY <2>1, <2>4
<1>9. G(it)
  BY <1>8 DEF it
<1>10. it[0] = start /\ \A k \in 0 .. n - 1 : it[k + 1] = One(it[k], found[k + 1])
  <2>1. it[0] = start
    BY <1>1, <1>9
  <2>2. ASSUME NEW k \in 0 .. n - 1 PROVE it[k + 1] = One(it[k], found[k + 1])
    <3>1. k + 1 \in 0 .. n /\ k + 1 # 0 /\ (k + 1) - 1 = k
      BY <1>1
    <3> QED BY <1>9, <3>1
  <2> QED BY <2>1, <2>2
<1> HIDE DEF G, next
<1> DEFINE Hit(k, i) == \E j \in 1 .. k : found[j].first <= i /\ i <= found[j].last
           P(k) == /\ it[k] \in S
                   /\ \A i \in 1 .. L : it[k].text[i] = IF Hit(k, i) THEN Letter(style) ELSE text[i]
           K == {k \in 0 .. n : P(k)}
<1>11. 0 \in K
  <2>1. \A i \in 1 .. L : ~Hit(0, i)
    OBVIOUS
  <2>2. it[0].text = text
    BY <1>10 DEF start
  <2> HIDE DEF Hit
  <2> QED BY <1>1, <1>5, <1>10, <2>1, <2>2
<1>12. ASSUME NEW k \in 0 .. n - 1, k \in K PROVE k + 1 \in K
  <2>1. k \in Nat /\ k + 1 \in 0 .. n /\ k + 1 \in 1 .. n
    BY <1>1
  <2>2. P(k)
    BY <1>12
  <2>3. it[k + 1] = One(it[k], found[k + 1])
    BY <1>10
  <2>4. /\ it[k + 1] \in S
        /\ \A i \in 1 .. L : it[k + 1].text[i] =
             IF found[k + 1].first <= i /\ i <= found[k + 1].last THEN Letter(style)
                                                               ELSE it[k].text[i]
    BY <1>4, <2>1, <2>2, <2>3
  <2>5. \A i : Hit(k + 1, i) <=> (found[k + 1].first <= i /\ i <= found[k + 1].last) \/ Hit(k, i)
    <3>1. 1 .. k + 1 = 1 .. k \cup {k + 1}
      BY <2>1
    <3> QED BY <3>1
  <2> HIDE DEF Hit
  <2>6. \A i \in 1 .. L : it[k + 1].text[i] = IF Hit(k + 1, i) THEN Letter(style) ELSE text[i]
    BY <2>2, <2>4, <2>5
  <2> QED BY <2>1, <2>4, <2>6
<1>13. \A k \in 0 .. n - 1 : k \in K => k + 1 \in K
  BY <1>12
<1> HIDE DEF K
<1>14. 0 .. n \subseteq K
  BY <1>1, <1>11, <1>13, IntervalInduction
<1>15. P(n)
  <2>1. n \in K
    BY <1>1, <1>14
  <2> QED BY <2>1 DEF K
<1>16. \A i : Hit(n, i) <=> Covered(ToSet(found), i)
  BY <1>1 DEF Covered, ToSet
<1> HIDE DEF Hit
<1>17. it[n].text \in Seq(Nat) /\ Len(it[n].text) = L
  BY <1>15 DEF S
<1>18. \A i \in 1 .. L : it[n].text[i] =
                       IF Covered(ToSet(found), i) THEN Letter(style) ELSE text[i]
  BY <1>15, <1>16
<1> QED BY <1>2, <1>17, <1>18 DEF L, found

-----------------------------------------------------------------------------
(***************************************************************************)
(* The parts of a search result                                            *)
(***************************************************************************)
Seg == [text : Seq(Nat), on : BOOLEAN]

AllText(segs) == FlattenSeq([i \in DOMAIN segs |-> segs[i].text])

(* The text of one part more is joined at the end.                         *)
LEMMA AllTextGrows ==
  ASSUME NEW segs \in Seq(Seg), NEW seg \in Seg
  PROVE  AllText(Append(segs, seg)) = AllText(segs) \o seg.text
<1> DEFINE n == Len(segs)
           more == Append(segs, seg)
           u == [i \in 1 .. n |-> segs[i].text]
           v == [i \in 1 .. n + 1 |-> more[i].text]
           x == seg.text
<1>1. n \in Nat /\ DOMAIN segs = 1 .. n /\ \A i \in 1 .. n : segs[i] \in Seg
  BY LenProperties
<1>2. /\ more \in Seq(Seg) /\ Len(more) = n + 1 /\ more[n + 1] = seg
      /\ \A i \in 1 .. n : more[i] = segs[i]
  BY AppendProperties
<1> HIDE DEF more, n
<1>3. DOMAIN more = 1 .. n + 1 /\ \A i \in 1 .. n + 1 : more[i] \in Seg
  BY <1>2, LenProperties
<1>4. u \in Seq(Seq(Nat)) /\ Len(u) = n /\ \A i \in 1 .. n : u[i] = segs[i].text
  <2>1. \A i \in 1 .. n : segs[i].text \in Seq(Nat)
    BY <1>1 DEF Seg
  <2>2. u \in [1 .. n -> Seq(Nat)]
    BY <2>1
  <2>3. u \in Seq(Seq(Nat)) /\ Len(u) = n
    <3> HIDE DEF u
    <3> QED BY <1>1, <2>2
  <2> QED BY <2>3
<1>5. v \in Seq(Seq(Nat)) /\ Len(v) = n + 1 /\ \A i \in 1 .. n + 1 : v[i] = more[i].text
  BY <1>1, <1>3 DEF Seg
<1>6. x \in Seq(Nat)
  BY DEF Seg
<1>7. AllText(segs) = FlattenSeq(u) /\ AllText(more) = FlattenSeq(v)
  BY <1>1, <1>3 DEF AllText
<1> HIDE DEF u, v, x
<1> DEFINE w == Append(u, x)
<1>8. /\ w \in Seq(Seq(Nat)) /\ Len(w) = n + 1 /\ w[n + 1] = x
      /\ \A i \in 1 .. n : w[i] = u[i]
  BY <1>4, <1>6, AppendProperties
<1> HIDE DEF w
<1>9. \A i \in 1 .. n + 1 : v[i] = w[i]
  <2> TAKE i \in 1 .. n + 1
  <2>1. CASE i = n + 1
    BY <1>2, <1>5, <1>8, <2>1 DEF x
  <2>2. CASE i # n + 1
    <3>1. i \in 1 .. n
      BY <1>1, <2>2
    <3> QED BY <1>2, <1>4, <1>5, <1>8, <3>1
  <2> QED BY <2>1, <2>2
<1>10. v = w
  BY <1>1, <1>5, <1>8, <1>9, SeqEqual
<1>11. FlattenSeq(w) = FlattenSeq(u) \o x
  BY <1>4, <1>6, FlattenAppend DEF w
<1> QED BY <1>7, <1>10, <1>11 DEF more, x

(* The part of a text from a to b is a mark, or meets none.                *)
Pieced(seg, text, marks) ==
  \E a, b \in 1 .. Len(text) :
    /\ a <= b /\ seg.text = SubSeq(text, a, b)
    /\ seg.on => \E k \in 1 .. Len(marks) : marks[k].first = a /\ marks[k].last = b
    /\ ~seg.on => \A k \in 1 .. Len(marks) : marks[k].last < a \/ b < marks[k].first

(* Parts that make up the text up to c.                                    *)
Built(segs, text, marks, c) ==
  /\ segs \in Seq(Seg) /\ AllText(segs) = SubSeq(text, 1, c)
  /\ \A i \in 1 .. Len(segs) : Pieced(segs[i], text, marks)

Lit(segs) == \E i \in 1 .. Len(segs) : segs[i].on

(* A stretch more, or none when it would be empty.                         *)
LEMMA SegmentAdded ==
  ASSUME NEW text \in Seq(Nat), NEW marks, NEW c \in 0 .. Len(text), NEW d \in 0 .. Len(text),
         c <= d, NEW on \in BOOLEAN, NEW segs, Built(segs, text, marks, c),
         c < d => Pieced([text |-> SubSeq(text, c + 1, d), on |-> on], text, marks)
  PROVE  /\ Built(segs \o Segment(text, c + 1, d, on), text, marks, d)
         /\ Lit(segs) => Lit(segs \o Segment(text, c + 1, d, on))
         /\ (c < d /\ on) => Lit(segs \o Segment(text, c + 1, d, on))
<1> DEFINE part == SubSeq(text, c + 1, d)
           seg  == [text |-> part, on |-> on]
           add  == Segment(text, c + 1, d, on)
           l    == Len(segs)
           n    == Len(text)
<1>1. n \in Nat /\ segs \in Seq(Seg) /\ l \in Nat
  BY LenProperties DEF Built
<1>2. CASE c = d
  <2>1. add = <<>>
    <3>1. c + 1 > d
      BY <1>1, <1>2
    <3> QED BY <3>1 DEF Segment
  <2> HIDE DEF add
  <2>2. segs \o add = segs
    BY <1>1, <2>1, ConcatEmptySeq
  <2>3. ~(c < d)
    BY <1>1, <1>2
  <2> QED BY <1>2, <2>2, <2>3 DEF add
<1>3. CASE c # d
  <2>1. c < d /\ ~(c + 1 > d) /\ c + 1 \in 1 .. n /\ d \in 1 .. n /\ c + 1 \in Nat
    BY <1>1, <1>3
  <2>2. part \in Seq(Nat)
    <3>1. \A i \in c + 1 .. d : text[i] \in Nat
      BY <1>1, <2>1
    <3> QED BY <2>1, <3>1, SubSeqProperties
  <2>3. SubSeq(text, 1, c) \o part = SubSeq(text, 1, d)
    <3>1. 1 \in 1 .. n + 1 /\ c \in 1 - 1 .. n /\ d \in c .. n
      BY <1>1, <2>1
    <3> QED BY <3>1, ConcatAdjacentSubSeq
  <2>4. add = <<seg>>
    BY <2>1 DEF Segment
  <2>5. Pieced(seg, text, marks)
    BY <2>1
  <2> HIDE DEF part
  <2>6. seg \in Seg /\ seg.text = part /\ seg.on = on
    BY <2>2 DEF Seg
  <2> HIDE DEF seg, add
  <2>7. segs \o add = Append(segs, seg)
    BY <1>1, <2>4, <2>6, AppendIsConcat
  <2> DEFINE more == Append(segs, seg)
  <2>8. /\ more \in Seq(Seg) /\ Len(more) = l + 1 /\ more[l + 1] = seg
        /\ \A i \in 1 .. l : more[i] = segs[i]
    BY <1>1, <2>6, AppendProperties
  <2>9. AllText(more) = SubSeq(text, 1, d)
    BY <1>1, <2>3, <2>6, AllTextGrows DEF Built
  <2> HIDE DEF more
  <2>10. \A i \in 1 .. l + 1 : Pieced(more[i], text, marks)
    <3> TAKE i \in 1 .. l + 1
    <3>1. CASE i = l + 1
      BY <2>5, <2>8, <3>1
    <3>2. CASE i # l + 1
      <4>1. i \in 1 .. l
        BY <1>1, <3>2
      <4> QED BY <2>8, <4>1 DEF Built
    <3> QED BY <3>1, <3>2
  <2>11. Built(more, text, marks, d)
    BY <2>8, <2>9, <2>10 DEF Built
  <2>12. Lit(segs) => Lit(more)
    <3> HAVE Lit(segs)
    <3>1. PICK i \in 1 .. l : segs[i].on
      BY DEF Lit
    <3>2. i \in 1 .. Len(more) /\ more[i] = segs[i]
      BY <1>1, <2>8
    <3> QED BY <3>1, <3>2 DEF Lit
  <2>13. on => Lit(more)
    <3> HAVE on
    <3>1. l + 1 \in 1 .. Len(more)
      BY <1>1, <2>8
    <3>2. more[l + 1] = seg /\ seg.on = on
      BY <2>6, <2>8
    <3>3. more[l + 1].on
      BY <3>2, Zenon
    <3> QED BY <3>1, <3>3 DEF Lit
  <2> QED BY <2>7, <2>11, <2>12, <2>13 DEF more, add
<1> QED BY <1>2, <1>3

(* A stretch is a part or none.                                            *)
LEMMA SegmentType ==
  ASSUME NEW text \in Seq(Nat), NEW a \in Nat, NEW b \in Int, 1 <= a, b <= Len(text),
         NEW on \in BOOLEAN
  PROVE  Segment(text, a, b, on) \in Seq(Seg)
<1> DEFINE part == SubSeq(text, a, b)
<1>1. CASE a > b
  BY <1>1 DEF Segment
<1>2. CASE ~(a > b)
  <2>1. \A i \in a .. b : text[i] \in Nat
    OBVIOUS
  <2>2. part \in Seq(Nat)
    BY <2>1, SubSeqProperties
  <2>3. Segment(text, a, b, on) = <<[text |-> part, on |-> on]>>
    BY <1>2 DEF Segment
  <2> HIDE DEF part
  <2>4. [text |-> part, on |-> on] \in Seg
    BY <2>2 DEF Seg
  <2> QED BY <2>3, <2>4
<1> QED BY <1>1, <1>2

(* Marks in a text of length n, one after the other.                       *)
Ordered(marks, n) ==
  /\ marks \in Seq(Marks)
  /\ \A k \in 1 .. Len(marks) :
       1 <= marks[k].first /\ marks[k].first <= marks[k].last /\ marks[k].last <= n
  /\ \A j, k \in 1 .. Len(marks) : j < k => marks[j].last < marks[k].first

(* Split at its marks, a text is whole, its marked parts are the marks and *)
(* the others meet none.                                                   *)
LEMMA SplitShows ==
  ASSUME NEW text \in Seq(Nat), NEW marks, Ordered(marks, Len(text))
  PROVE  /\ Built(SplitByHighlights(text, marks), text, marks, Len(text))
         /\ marks # <<>> => Lit(SplitByHighlights(text, marks))
<1> DEFINE n == Len(marks)
           L == Len(text)
           First(k) == IF k = 1 THEN 1 ELSE marks[k - 1].last + 1
           One(s, k) == s \o Segment(text, First(k), marks[k].first - 1, FALSE)
                          \o Segment(text, marks[k].first, marks[k].last, TRUE)
           End(k) == IF k = 0 THEN 0 ELSE marks[k].last
           G(f) == f = [k \in 0 .. n |-> IF k = 0 THEN <<>> ELSE One(f[k - 1], k)]
           it == CHOOSE f : G(f)
           next == [k \in 1 .. n |-> [s \in Seq(Seg) |-> One(s, k)]]
<1>1. n \in Nat /\ L \in Nat /\ marks \in Seq(Marks)
  BY LenProperties DEF Ordered
<1>2. \A k \in 1 .. n : /\ marks[k].first \in Nat /\ marks[k].last \in Nat
                       /\ 1 <= marks[k].first /\ marks[k].first <= marks[k].last
                       /\ marks[k].last <= L
  <2> TAKE k \in 1 .. n
  <2>1. marks[k] \in Marks
    BY <1>1
  <2> QED BY <2>1 DEF Ordered, Marks
<1>3. \A j, k \in 1 .. n : j < k => marks[j].last < marks[k].first
  BY DEF Ordered
<1>4. SplitByHighlights(text, marks)
        = it[n] \o Segment(text, IF marks = <<>> THEN 1 ELSE Last(marks).last + 1, L, FALSE)
  BY DEF SplitByHighlights
<1> HIDE DEF it
<1>5. IF marks = <<>> THEN n = 0 ELSE n \in 1 .. n /\ Last(marks) = marks[n]
  BY <1>1, EmptySeq DEF Last
<1> HIDE DEF n, L
<1>6. \A k \in 1 .. n :
        /\ End(k - 1) \in 0 .. L /\ First(k) = End(k - 1) + 1
        /\ End(k - 1) <= marks[k].first - 1
        /\ marks[k].first - 1 \in 0 .. L /\ (marks[k].first - 1) + 1 = marks[k].first
        /\ End(k) = marks[k].last /\ End(k) \in 0 .. L /\ marks[k].first - 1 < End(k)
  <2> TAKE k \in 1 .. n
  <2> DEFINE f == marks[k].first
             l == marks[k].last
  <2>1. f \in Nat /\ l \in Nat /\ 1 <= f /\ f <= l /\ l <= L
    BY <1>2
  <2>2. f - 1 \in 0 .. L /\ (f - 1) + 1 = f /\ l \in 0 .. L /\ f - 1 < l
    <3> HIDE DEF f, l
    <3> QED BY <1>1, <2>1
  <2>3. End(k) = l
    BY <1>1
  <2>4. CASE k = 1
    <3>1. End(k - 1) = 0 /\ First(k) = 1
      BY <2>4
    <3>2. 0 <= f - 1 /\ 0 \in 0 .. L /\ 1 = 0 + 1
      BY <1>1, <2>1
    <3> HIDE DEF End, First
    <3> QED BY <2>2, <2>3, <3>1, <3>2
  <2>5. CASE k # 1
    <3>1. k - 1 \in 1 .. n /\ k - 1 < k /\ k - 1 # 0
      BY <1>1, <2>5
    <3> DEFINE e == marks[k - 1].last
    <3>2. End(k - 1) = e /\ First(k) = e + 1
      BY <2>5, <3>1
    <3>3. e \in Nat /\ e <= L /\ e < f
      BY <1>2, <1>3, <3>1
    <3>4. e \in 0 .. L /\ e <= f - 1
      <4> HIDE DEF e, f
      <4> QED BY <1>1, <2>1, <3>3
    <3> HIDE DEF End, First
    <3> QED BY <2>2, <2>3, <3>2, <3>4
  <2> QED BY <2>4, <2>5
<1> HIDE DEF First, End
<1>7. ASSUME NEW k \in 1 .. n, NEW s \in Seq(Seg) PROVE One(s, k) \in Seq(Seg)
  <2> DEFINE f == marks[k].first
             l == marks[k].last
  <2>1. f \in Nat /\ l \in Nat /\ 1 <= f /\ f <= l /\ l <= L
    BY <1>2
  <2>2. First(k) \in Nat /\ 1 <= First(k)
    BY <1>1, <1>6
  <2> HIDE DEF f, l
  <2> DEFINE a == Segment(text, First(k), f - 1, FALSE)
             b == Segment(text, f, l, TRUE)
  <2>3. a \in Seq(Seg)
    <3>1. f - 1 \in Int /\ f - 1 <= Len(text)
      BY <1>1, <2>1 DEF L
    <3> QED BY <2>2, <3>1, SegmentType
  <2>4. b \in Seq(Seg)
    <3>1. l \in Int /\ l <= Len(text)
      BY <2>1 DEF L
    <3> QED BY <2>1, <3>1, SegmentType
  <2>5. One(s, k) = s \o a \o b
    BY DEF f, l
  <2> HIDE DEF a, b, One
  <2> QED BY <2>3, <2>4, <2>5
<1>8. ASSUME NEW k \in 1 .. n, NEW s, Built(s, text, marks, End(k - 1))
      PROVE  Built(One(s, k), text, marks, End(k)) /\ Lit(One(s, k))
  <2> DEFINE f == marks[k].first
             l == marks[k].last
             e == End(k - 1)
             a == Segment(text, e + 1, f - 1, FALSE)
             b == Segment(text, f, l, TRUE)
             sa == s \o a
  <2>1. /\ f \in Nat /\ l \in Nat /\ 1 <= f /\ f <= l /\ l <= L
        /\ e \in 0 .. L /\ e <= f - 1 /\ f - 1 \in 0 .. L /\ (f - 1) + 1 = f
        /\ l \in 0 .. L /\ f - 1 < l
    BY <1>2, <1>6
  <2>2. One(s, k) = sa \o b /\ End(k) = l
    BY <1>6
  <2>3. ASSUME e < f - 1
        PROVE  Pieced([text |-> SubSeq(text, e + 1, f - 1), on |-> FALSE], text, marks)
    <3> DEFINE seg == [text |-> SubSeq(text, e + 1, f - 1), on |-> FALSE]
    <3>1. e + 1 \in 1 .. L /\ f - 1 \in 1 .. L /\ e + 1 <= f - 1
      <4> HIDE DEF f, l, e
      <4> QED BY <1>1, <2>1, <2>3
    <3>2. ASSUME NEW j \in 1 .. n PROVE marks[j].last < e + 1 \/ f - 1 < marks[j].first
      <4>1. marks[j].last \in Nat /\ marks[j].first \in Nat /\ marks[j].first <= marks[j].last
        BY <1>2
      <4>2. CASE j >= k
        <5>1. j = k \/ k < j
          BY <1>1, <4>2
        <5>2. f <= marks[j].first
          <6>1. CASE j = k
            BY <2>1, <6>1
          <6>2. CASE k < j
            <7>1. l < marks[j].first
              BY <1>3, <6>2
            <7> HIDE DEF f, l, e
            <7> QED BY <2>1, <4>1, <7>1
          <6> QED BY <5>1, <6>1, <6>2
        <5> HIDE DEF f, l, e
        <5> QED BY <2>1, <4>1, <5>2
      <4>3. CASE ~(j >= k)
        <5>1. k - 1 \in 1 .. n /\ j <= k - 1 /\ k - 1 # 0
          BY <1>1, <4>3
        <5>2. e = marks[k - 1].last /\ marks[k - 1].last \in Nat
              /\ marks[k - 1].first <= marks[k - 1].last /\ marks[k - 1].first \in Nat
          BY <1>2, <5>1 DEF End
        <5>3. marks[j].last <= marks[k - 1].last
          <6>1. CASE j = k - 1
            BY <5>2, <6>1
          <6>2. CASE j # k - 1
            <7>1. j < k - 1
              BY <1>1, <5>1, <6>2
            <7>2. marks[j].last < marks[k - 1].first
              BY <1>3, <5>1, <7>1
            <7> QED BY <4>1, <5>2, <7>2
          <6> QED BY <6>1, <6>2
        <5> HIDE DEF e, f
        <5> QED BY <2>1, <4>1, <5>2, <5>3
      <4> QED BY <4>2, <4>3
    <3>3. seg.text = SubSeq(text, e + 1, f - 1) /\ ~seg.on
      OBVIOUS
    <3> HIDE DEF e, f, seg
    <3>4. Pieced(seg, text, marks)
      BY <3>1, <3>2, <3>3 DEF Pieced, n, L
    <3> QED BY <3>4 DEF seg
  <2>4. Built(sa, text, marks, f - 1)
    <3> HIDE DEF f, l, e
    <3>1. e \in 0 .. Len(text) /\ f - 1 \in 0 .. Len(text) /\ Built(s, text, marks, e)
      BY <1>8, <2>1 DEF e, L
    <3> QED BY <2>1, <2>3, <3>1, SegmentAdded
  <2>5. Pieced([text |-> SubSeq(text, f, l), on |-> TRUE], text, marks)
    <3> DEFINE seg == [text |-> SubSeq(text, f, l), on |-> TRUE]
    <3>1. f \in 1 .. Len(text) /\ l \in 1 .. Len(text) /\ f <= l
      <4> HIDE DEF f, l, e
      <4> QED BY <2>1 DEF L
    <3>2. k \in 1 .. Len(marks) /\ marks[k].first = f /\ marks[k].last = l
      BY DEF n
    <3>3. seg.text = SubSeq(text, f, l) /\ seg.on
      OBVIOUS
    <3> HIDE DEF e, f, l, seg
    <3>4. Pieced(seg, text, marks)
      BY <3>1, <3>2, <3>3 DEF Pieced
    <3> QED BY <3>4 DEF seg
  <2>6. Built(sa \o b, text, marks, l) /\ Lit(sa \o b)
    <3> DEFINE c == f - 1
    <3>1. /\ c \in 0 .. Len(text) /\ l \in 0 .. Len(text) /\ c <= l /\ c < l /\ c + 1 = f
      <4> HIDE DEF f, l, e
      <4> QED BY <2>1 DEF L
    <3> HIDE DEF f, l, e, sa, c
    <3>2. Built(sa, text, marks, c)
      BY <2>4 DEF c
    <3>3. Pieced([text |-> SubSeq(text, c + 1, l), on |-> TRUE], text, marks)
      BY <2>5, <3>1
    <3>4. /\ Built(sa \o Segment(text, c + 1, l, TRUE), text, marks, l)
          /\ Lit(sa \o Segment(text, c + 1, l, TRUE))
      BY <3>1, <3>2, <3>3, SegmentAdded
    <3> QED BY <3>1, <3>4
  <2> QED BY <2>2, <2>6
<1> HIDE DEF One
<1>9. Steps(next, n, Seq(Seg))
  BY <1>7 DEF Steps
<1>10. <<>> \in Seq(Seg)
  OBVIOUS
<1>11. PICK g : Run(g, n, Seq(Seg), <<>>, next)
  <2> HIDE DEF next
  <2> QED BY <1>1, <1>9, <1>10, Recursion
<1>12. G(g)
  <2>1. g \in [0 .. n -> Seq(Seg)] /\ g[0] = <<>> /\ \A k \in 1 .. n : g[k] = next[k][g[k - 1]]
    <3> HIDE DEF next
    <3> QED BY <1>11 DEF Run
  <2>2. ASSUME NEW k \in 1 .. n PROVE g[k] = One(g[k - 1], k)
    <3>1. k - 1 \in 0 .. n
      BY <1>1
    <3>2. g[k - 1] \in Seq(Seg) /\ g[k] = next[k][g[k - 1]]
      BY <2>1, <3>1
    <3> QED BY <3>2
  <2>3. \A k \in 0 .. n : k = 0 \/ k \in 1 .. n
    BY <1>1
  <2> HIDE DEF next
  <2>4. \A k \in 0 .. n : g[k] = IF k = 0 THEN <<>> ELSE One(g[k - 1], k)
    BY <2>1, <2>2, <2>3
  <2> QED BY <2>1, <2>4
<1>13. G(it)
  BY <1>12 DEF it
<1>14. it[0] = <<>> /\ \A k \in 0 .. n - 1 : it[k + 1] = One(it[k], k + 1)
  <2>1. it[0] = <<>>
    BY <1>1, <1>13
  <2>2. ASSUME NEW k \in 0 .. n - 1 PROVE it[k + 1] = One(it[k], k + 1)
    <3>1. k + 1 \in 0 .. n /\ k + 1 # 0 /\ (k + 1) - 1 = k
      BY <1>1
    <3> QED BY <1>13, <3>1
  <2> QED BY <2>1, <2>2
<1> HIDE DEF G, next
<1> DEFINE P(k) == Built(it[k], text, marks, End(k)) /\ (k # 0 => Lit(it[k]))
           K == {k \in 0 .. n : P(k)}
<1>15. 0 \in K
  <2>1. Built(<<>>, text, marks, 0)
    <3>1. AllText(<<>>) = <<>>
      BY DEF AllText, FlattenSeq
    <3>2. SubSeq(text, 1, 0) = <<>>
      BY SubSeqEmpty
    <3>3. <<>> \in Seq(Seg) /\ \A i \in 1 .. Len(<<>>) : FALSE
      BY <1>10, EmptySeq
    <3> HIDE DEF P
    <3> QED BY <3>1, <3>2, <3>3, Zenon DEF Built
  <2> QED BY <1>1, <1>14, <2>1 DEF End
<1>16. ASSUME NEW k \in 0 .. n - 1, k \in K PROVE k + 1 \in K
  <2>1. k + 1 \in 1 .. n /\ k + 1 \in 0 .. n /\ (k + 1) - 1 = k
    BY <1>1
  <2>2. Built(it[k], text, marks, End((k + 1) - 1))
    BY <1>16, <2>1
  <2>3. Built(One(it[k], k + 1), text, marks, End(k + 1)) /\ Lit(One(it[k], k + 1))
    BY <1>8, <2>1, <2>2
  <2> QED BY <1>14, <2>1, <2>3
<1>17. \A k \in 0 .. n - 1 : k \in K => k + 1 \in K
  BY <1>16
<1> HIDE DEF K
<1>18. 0 .. n \subseteq K
  BY <1>1, <1>15, <1>17, IntervalInduction
<1>19. P(n)
  <2>1. n \in K
    BY <1>1, <1>18
  <2> QED BY <2>1 DEF K
<1>20. End(n) \in 0 .. L /\ (IF marks = <<>> THEN 1 ELSE Last(marks).last + 1) = End(n) + 1
       /\ (marks # <<>> => n # 0)
  <2>1. CASE marks = <<>>
    <3>1. n = 0
      BY <1>5, <2>1
    <3> QED BY <1>1, <2>1, <3>1 DEF End
  <2>2. CASE marks # <<>>
    <3>1. n \in 1 .. n /\ Last(marks) = marks[n]
      BY <1>5, <2>2
    <3>2. n # 0 /\ End(n) = marks[n].last
      BY <1>1, <3>1 DEF End
    <3> QED BY <1>6, <2>2, <3>1, <3>2
  <2> QED BY <2>1, <2>2
<1> DEFINE e == End(n)
           res == it[n] \o Segment(text, e + 1, L, FALSE)
<1>21. SplitByHighlights(text, marks) = res
  BY <1>4, <1>20
<1>22. ASSUME e < L
       PROVE  Pieced([text |-> SubSeq(text, e + 1, L), on |-> FALSE], text, marks)
  <2> DEFINE seg == [text |-> SubSeq(text, e + 1, L), on |-> FALSE]
  <2>1. e + 1 \in 1 .. L /\ L \in 1 .. L /\ e + 1 <= L
    BY <1>1, <1>20, <1>22
  <2>2. ASSUME NEW j \in 1 .. n PROVE marks[j].last < e + 1
    <3>1. n \in 1 .. n /\ n # 0 /\ e = marks[n].last
      BY <1>1 DEF End
    <3>2. marks[j].last <= marks[n].last
      <4>1. CASE j = n
        BY <1>2, <4>1
      <4>2. CASE j # n
        <5>1. marks[j].last < marks[n].first
          BY <1>1, <1>3, <3>1, <4>2
        <5> QED BY <1>2, <3>1, <5>1
      <4> QED BY <4>1, <4>2
    <3> HIDE DEF e
    <3> QED BY <1>2, <3>1, <3>2
  <2>3. seg.text = SubSeq(text, e + 1, L) /\ ~seg.on
    OBVIOUS
  <2> HIDE DEF e, seg
  <2>4. Pieced(seg, text, marks)
    BY <2>1, <2>2, <2>3 DEF Pieced, n, L
  <2> QED BY <2>4 DEF seg
<1>23. Built(res, text, marks, L) /\ (Lit(it[n]) => Lit(res))
  <2>1. e \in 0 .. Len(text) /\ L \in 0 .. Len(text) /\ e <= L /\ Built(it[n], text, marks, e)
    BY <1>1, <1>19, <1>20 DEF L
  <2> HIDE DEF e
  <2> QED BY <1>22, <2>1, SegmentAdded
<1> QED BY <1>19, <1>20, <1>21, <1>23 DEF L

(* The marks of a text are its keyword's places, and leave out none.       *)
MarksOf(marks, text, word) ==
  /\ Ordered(marks, Len(text))
  /\ word = <<>> => marks = <<>>
  /\ \A k \in 1 .. Len(marks) :
       At(text, word, marks[k].first) /\ marks[k].last = marks[k].first + Len(word) - 1
  /\ word # <<>> => \A p \in 1 .. Len(text) : At(text, word, p) =>
       \E k \in 1 .. Len(marks) : marks[k].first <= p /\ p <= marks[k].last

(* The keyword's places are such marks.                                    *)
LEMMA HighlightsFound ==
  ASSUME NEW text \in Seq(Written), NEW word \in Seq(Written)
  PROVE  MarksOf(FindHighlights(text, word), LowerCase(text), LowerCase(word))
<1> DEFINE lower == LowerCase(text)
           sought == LowerCase(word)
<1>0. lower \in Seq(Nat) /\ sought \in Seq(Nat) /\ (sought = <<>> <=> word = <<>>)
  BY LowerIsWritten, WrittenIsNat
<1>1. CASE word = <<>>
  <2>1. FindHighlights(text, word) = <<>>
    BY <1>1 DEF FindHighlights
  <2>2. Ordered(<<>>, Len(lower))
    BY EmptySeq DEF Ordered
  <2> QED BY <1>0, <1>1, <2>1, <2>2, EmptySeq DEF MarksOf
<1>2. CASE word # <<>>
  <2> DEFINE term == [word |-> sought, whole |-> FALSE]
             found == Found(lower, term)
  <2>1. FindHighlights(text, word) = found
    BY <1>2 DEF FindHighlights
  <2>2. term \in TermsOf(Nat) /\ term.word = sought /\ term.whole = FALSE
    BY <1>0, <1>2 DEF TermsOf
  <2> HIDE DEF term, lower, sought
  <2>3. Scanned(found, lower, term, Len(lower))
    BY <1>0, <2>2, FoundScans
  <2>4. \A m \in ToSet(found) : 1 <= m.first /\ m.first <= m.last /\ m.last <= Len(lower)
    BY <1>0, <2>2, FoundInside
  <2>5. \A p : Matches(lower, term, p) <=> At(lower, sought, p)
    BY <2>2 DEF Matches
  <2> HIDE DEF found
  <2>6. found \in Seq(Marks) /\ \A k \in 1 .. Len(found) : found[k] \in ToSet(found)
    BY <2>3 DEF Scanned, ToSet
  <2>7. Ordered(found, Len(lower))
    BY <2>3, <2>4, <2>6 DEF Ordered, Scanned
  <2>8. \A k \in 1 .. Len(found) :
          At(lower, sought, found[k].first) /\ found[k].last = found[k].first + Len(sought) - 1
    BY <2>2, <2>3, <2>5 DEF Scanned
  <2>9. \A p \in 1 .. Len(lower) : At(lower, sought, p) =>
          \E k \in 1 .. Len(found) : found[k].first <= p /\ p <= found[k].last
    BY <2>3, <2>5 DEF Scanned
  <2> QED BY <1>0, <1>2, <2>1, <2>7, <2>8, <2>9 DEF MarksOf, lower, sought
<1> QED BY <1>1, <1>2

(* What is found in a stretch of a text is found in the text.              *)
LEMMA StretchOf ==
  ASSUME NEW text \in Seq(Nat), NEW word \in Seq(Nat), word # <<>>,
         NEW s \in 1 .. Len(text), NEW e \in s .. Len(text), NEW j \in 1 .. e - s + 1,
         At(SubSeq(text, s, e), word, j)
  PROVE  /\ At(text, word, s + j - 1) /\ s + j - 1 \in s .. e
         /\ s + j - 1 + Len(word) - 1 <= e
<1> DEFINE n == Len(text)
           w == Len(word)
           part == SubSeq(text, s, e)
           p == s + j - 1
           q == j + w - 1
<1>1. n \in Nat /\ w \in Nat /\ w >= 1
  BY EmptySeq, LenProperties
<1>2. Len(part) = e - s + 1
  BY <1>1
<1>3. q <= Len(part) /\ SubSeq(part, j, q) = word
  BY DEF At
<1> HIDE DEF n, w, part
<1>4. s \in 1 .. n /\ e \in 1 .. n /\ j \in 1 .. e - s + 1 /\ q \in 1 .. e - s + 1
  BY <1>1, <1>2, <1>3 DEF n
<1>5. SubSeq(part, j, q) = SubSeq(text, s + j - 1, s + q - 1)
  <2> HIDE DEF p, q
  <2> QED BY <1>4, SubSeqOfSubSeq DEF part, n
<1>6. s + q - 1 = p + w - 1 /\ p + w - 1 <= e /\ p \in s .. e /\ p + w - 1 <= n
  BY <1>1, <1>4
<1> QED BY <1>3, <1>5, <1>6 DEF At, w, n

ExcerptRight(segs, text, word) ==
  Level(text) =>
    /\ \E i \in 1 .. Len(text) + 1 : At(text, AllText(segs), i)
    /\ \A i \in DOMAIN segs :
         IF segs[i].on THEN LowerCase(segs[i].text) = LowerCase(word)
         ELSE word # <<>> => ~\E j \in DOMAIN LowerCase(segs[i].text) :
                                At(LowerCase(segs[i].text), LowerCase(word), j)
    /\ (word # <<>> /\ \E i \in DOMAIN LowerCase(text) : At(LowerCase(text), LowerCase(word), i)) =>
         \E i \in DOMAIN segs : segs[i].on

(* No mark begins before the excerpt, so a keyword that the excerpt shows  *)
(* whole is inside of one of the excerpt's marks.                          *)
LEMMA SnippetRight ==
  ASSUME NEW text \in Seq(Written), NEW word \in Seq(Written)
  PROVE  ExcerptRight(Snippet(text, word), text, word)
<1> SUFFICES ASSUME Level(text) PROVE ExcerptRight(Snippet(text, word), text, word)
  BY DEF ExcerptRight
<1> DEFINE n == Len(text)
           lower == LowerCase(text)
           sought == LowerCase(word)
           w == Len(sought)
           marks == FindHighlights(text, word)
           start == IF marks = <<>> \/ marks[1].first <= Before THEN 1
                                                     ELSE marks[1].first - Before
           most  == IF marks = <<>> THEN Before + After ELSE marks[1].last + After
           end   == IF Len(text) < most THEN Len(text) ELSE most
           good == {m \in ToSet(marks) : m.first >= start /\ m.last <= end}
           inside == Filtered(marks, good)
           part == SubSeq(text, start, end)
           moved == [i \in DOMAIN inside |-> [first |-> inside[i].first - start + 1,
                                              last  |-> inside[i].last - start + 1]]
           segs == SplitByHighlights(part, moved)
<1>1. Snippet(text, word) = segs
  BY DEF Snippet
<1>0. /\ text \in Seq(Nat) /\ lower \in Seq(Nat) /\ sought \in Seq(Nat) /\ Len(lower) = Len(text)
      /\ sought = <<>> <=> word = <<>>
  BY WrittenIsNat, LowerIsWritten, LevelLower
<1>2. MarksOf(marks, lower, sought)
  BY HighlightsFound
<1> HIDE DEF marks, lower, sought
<1>3. n \in Nat /\ w \in Nat /\ (word # <<>> => w >= 1) /\ Before \in Nat /\ After \in Nat
  BY <1>0, EmptySeq, LenProperties, TextAssumption
<1>4. marks \in Seq(Marks) /\ Len(marks) \in Nat
  BY <1>2, LenProperties DEF MarksOf, Ordered
<1>5. \A k \in 1 .. Len(marks) :
        /\ marks[k] \in Marks /\ marks[k].first \in Nat /\ marks[k].last \in Nat
        /\ 1 <= marks[k].first /\ marks[k].first <= marks[k].last /\ marks[k].last <= n
        /\ At(lower, sought, marks[k].first) /\ marks[k].last = marks[k].first + w - 1
  <2> TAKE k \in 1 .. Len(marks)
  <2>1. marks[k] \in Marks
    BY <1>4
  <2> QED BY <1>0, <1>2, <2>1 DEF MarksOf, Ordered, Marks
<1>6. \A j, k \in 1 .. Len(marks) : j < k => marks[j].last < marks[k].first
  BY <1>2 DEF MarksOf, Ordered
<1>7. marks # <<>> => 1 \in 1 .. Len(marks)
  BY <1>4, EmptySeq
<1>8. /\ start \in Nat /\ 1 <= start /\ end \in Nat /\ start <= end + 1 /\ end <= n
      /\ marks # <<>> => start <= marks[1].first /\ marks[1].last <= end
  <2>1. CASE marks = <<>>
    <3>1. start = 1 /\ most = Before + After
      BY <2>1
    <3>2. end \in Nat /\ end <= n
      BY <1>3, <3>1
    <3> HIDE DEF start, end
    <3> QED BY <2>1, <3>1, <3>2
  <2>2. CASE marks # <<>>
    <3> DEFINE f == marks[1].first
               l == marks[1].last
    <3>1. f \in Nat /\ l \in Nat /\ 1 <= f /\ f <= l /\ l <= n
      BY <1>5, <1>7, <2>2
    <3>2. start = (IF f <= Before THEN 1 ELSE f - Before) /\ most = l + After
      BY <2>2
    <3>3. end = IF n < most THEN n ELSE most
      OBVIOUS
    <3> HIDE DEF f, l, start, end, most, n
    <3>4. start \in Nat /\ 1 <= start /\ start <= f
      BY <1>3, <3>1, <3>2
    <3>5. end \in Nat /\ end <= n /\ l <= end
      BY <1>3, <3>1, <3>2, <3>3
    <3> QED BY <3>1, <3>4, <3>5 DEF f, l
  <2> QED BY <2>1, <2>2
<1> HIDE DEF start, end
<1>9. part \in Seq(Nat) /\ Len(part) = end - start + 1
  <2>1. \A i \in start .. end : text[i] \in Nat
    <3> TAKE i \in start .. end
    <3>1. i \in 1 .. n
      BY <1>3, <1>8
    <3> QED BY <1>0, <3>1, ElementOfSeq
  <2>2. /\ SubSeq(text, start, end) \in Seq(Nat)
        /\ Len(SubSeq(text, start, end)) = IF start <= end THEN end - start + 1 ELSE 0
    BY <1>8, <2>1, SubSeqProperties
  <2> QED BY <1>8, <2>2
<1> HIDE DEF n, w, part
<1>10. inside \in Seq(Marks) /\ \E at : KeptAt(at, inside, marks, good, Len(marks))
  <2> HIDE DEF good
  <2> QED BY <1>4, FilteredPlaces
<1>11. \A k \in 1 .. Len(marks) :
         marks[k] \in good <=> (start <= marks[k].first /\ marks[k].last <= end)
  <2>1. \A k \in 1 .. Len(marks) : marks[k] \in ToSet(marks)
    BY <1>4 DEF ToSet
  <2> QED BY <1>5, <1>8, <2>1
<1> HIDE DEF inside, good
<1>12. PICK at : KeptAt(at, inside, marks, good, Len(marks))
  BY <1>10
<1>13. /\ Len(inside) \in Nat /\ DOMAIN inside = 1 .. Len(inside)
       /\ \A i \in 1 .. Len(inside) :
            /\ at[i] \in 1 .. Len(marks) /\ inside[i] = marks[at[i]] /\ marks[at[i]] \in good
       /\ \A i, j \in 1 .. Len(inside) : i < j => at[i] < at[j]
       /\ \A k \in 1 .. Len(marks) : marks[k] \in good => \E i \in 1 .. Len(inside) : at[i] = k
  <2>1. Len(inside) \in Nat /\ DOMAIN inside = 1 .. Len(inside)
    BY <1>10
  <2>2. /\ at \in [1 .. Len(inside) -> 1 .. Len(marks)]
        /\ \A i \in 1 .. Len(inside) : inside[i] = marks[at[i]] /\ marks[at[i]] \in good
        /\ \A i, j \in 1 .. Len(inside) : i < j => at[i] < at[j]
        /\ \A k \in 1 .. Len(marks) : marks[k] \in good => \E i \in 1 .. Len(inside) : at[i] = k
    BY <1>12, Zenon DEF KeptAt
  <2> QED BY <2>1, <2>2
<1> DEFINE N == Len(inside)
<1>14. /\ moved \in Seq(Marks) /\ Len(moved) = N
       /\ \A i \in 1 .. N : /\ moved[i].first = marks[at[i]].first - start + 1
                            /\ moved[i].last = marks[at[i]].last - start + 1
                            /\ start <= marks[at[i]].first /\ marks[at[i]].last <= end
  <2> DEFINE mv(i) == [first |-> inside[i].first - start + 1,
                       last  |-> inside[i].last - start + 1]
  <2>1. ASSUME NEW i \in 1 .. N
        PROVE  /\ mv(i) \in Marks
               /\ mv(i).first = marks[at[i]].first - start + 1
               /\ mv(i).last = marks[at[i]].last - start + 1
               /\ start <= marks[at[i]].first /\ marks[at[i]].last <= end
    <3> DEFINE f == marks[at[i]].first
               l == marks[at[i]].last
    <3>1. f \in Nat /\ l \in Nat /\ f <= l /\ start <= f /\ l <= end
      BY <1>5, <1>11, <1>13
    <3>2. f - start + 1 \in Nat /\ l - start + 1 \in Nat
      <4> HIDE DEF f, l
      <4> QED BY <1>8, <3>1
    <3>3. mv(i) = [first |-> f - start + 1, last |-> l - start + 1]
      BY <1>13
    <3> HIDE DEF mv
    <3> QED BY <3>1, <3>2, <3>3 DEF Marks
  <2>2. moved = [i \in 1 .. N |-> mv(i)]
    BY <1>13
  <2> HIDE DEF mv, moved
  <2>3. moved \in [1 .. N -> Marks]
    BY <2>1, <2>2
  <2>4. moved \in Seq(Marks) /\ Len(moved) = N
    BY <1>13, <2>3
  <2>5. \A i \in 1 .. N : moved[i] = mv(i)
    BY <2>2
  <2> QED BY <2>1, <2>4, <2>5
<1> HIDE DEF moved, N
<1>15. Ordered(moved, Len(part))
  <2>1. ASSUME NEW i \in 1 .. N
        PROVE  1 <= moved[i].first /\ moved[i].first <= moved[i].last
               /\ moved[i].last <= Len(part)
    <3> DEFINE f == marks[at[i]].first
               l == marks[at[i]].last
    <3>1. f \in Nat /\ l \in Nat /\ f <= l /\ start <= f /\ l <= end
          /\ moved[i].first = f - start + 1 /\ moved[i].last = l - start + 1
      BY <1>5, <1>13, <1>14 DEF N
    <3> HIDE DEF f, l
    <3> QED BY <1>8, <1>9, <3>1
  <2>2. ASSUME NEW i \in 1 .. N, NEW j \in 1 .. N, i < j
        PROVE  moved[i].last < moved[j].first
    <3> DEFINE f == marks[at[j]].first
               l == marks[at[i]].last
    <3>1. at[i] < at[j] /\ at[i] \in 1 .. Len(marks) /\ at[j] \in 1 .. Len(marks)
      BY <1>13, <2>2 DEF N
    <3>2. l < f /\ f \in Nat /\ l \in Nat
      BY <1>5, <1>6, <3>1
    <3>3. moved[j].first = f - start + 1 /\ moved[i].last = l - start + 1
      BY <1>14
    <3> HIDE DEF f, l
    <3> QED BY <1>8, <3>2, <3>3
  <2> QED BY <1>14, <2>1, <2>2 DEF Ordered
<1>16. Built(segs, part, moved, Len(part)) /\ (moved # <<>> => Lit(segs))
  BY <1>9, <1>15, SplitShows
<1> HIDE DEF segs
<1>17. segs \in Seq(Seg) /\ DOMAIN segs = 1 .. Len(segs)
  BY <1>16, LenProperties DEF Built
<1>18. \E i \in 1 .. Len(text) + 1 : At(text, AllText(segs), i)
  <2>1. AllText(segs) = part
    BY <1>9, <1>16, SubSeqFull DEF Built
  <2>2. start \in 1 .. n + 1 /\ start + Len(part) - 1 = end
    BY <1>3, <1>8, <1>9
  <2>3. At(text, part, start)
    BY <1>8, <2>2 DEF At, part, n
  <2> QED BY <2>1, <2>2, <2>3 DEF n
<1>19. ASSUME NEW i \in DOMAIN segs, segs[i].on PROVE LowerCase(segs[i].text) = sought
  <2>1. Pieced(segs[i], part, moved)
    BY <1>16, <1>17 DEF Built
  <2>2. PICK a \in 1 .. Len(part), b \in 1 .. Len(part) :
          /\ a <= b /\ segs[i].text = SubSeq(part, a, b)
          /\ segs[i].on => \E k \in 1 .. Len(moved) : moved[k].first = a /\ moved[k].last = b
    BY <2>1 DEF Pieced
  <2>3. PICK k \in 1 .. N : moved[k].first = a /\ moved[k].last = b
    BY <1>14, <1>19, <2>2
  <2> DEFINE f == marks[at[k]].first
             l == marks[at[k]].last
  <2>4. f \in Nat /\ l \in Nat /\ f <= l /\ start <= f /\ l <= end
        /\ a = f - start + 1 /\ b = l - start + 1 /\ At(lower, sought, f) /\ l = f + w - 1
    BY <1>5, <1>13, <1>14, <2>3 DEF N
  <2>10. f \in Nat /\ l \in Nat /\ 1 <= f /\ f <= l /\ l <= n
    BY <1>5, <1>13, <2>3 DEF N
  <2>5. SubSeq(lower, f, l) = sought
    BY <2>4 DEF At, w
  <2> HIDE DEF f, l
  <2>6. start \in 1 .. n /\ end \in 1 .. n /\ a \in 1 .. end - start + 1 /\ b \in 1 .. end - start + 1
        /\ start + a - 1 = f /\ start + b - 1 = l
    BY <1>3, <1>8, <1>9, <2>4
  <2>7. SubSeq(SubSeq(text, start, end), a, b) = SubSeq(text, start + a - 1, start + b - 1)
    BY <2>6, SubSeqOfSubSeq DEF n
  <2>8. segs[i].text = SubSeq(text, f, l)
    BY <2>2, <2>6, <2>7 DEF part
  <2>9. f \in 1 .. Len(text) /\ l \in f .. Len(text)
    BY <1>3, <1>8, <2>10 DEF n
  <2>11. LowerCase(SubSeq(text, f, l)) = SubSeq(lower, f, l)
    BY <2>9, LowerPart DEF lower
  <2> QED BY <2>5, <2>8, <2>11
<1>20. ASSUME NEW i \in DOMAIN segs, ~segs[i].on, word # <<>>,
              NEW j \in DOMAIN LowerCase(segs[i].text),
              At(LowerCase(segs[i].text), sought, j)
       PROVE  FALSE
  <2>1. Pieced(segs[i], part, moved)
    BY <1>16, <1>17 DEF Built
  <2>2. PICK a \in 1 .. Len(part), b \in 1 .. Len(part) :
          /\ a <= b /\ segs[i].text = SubSeq(part, a, b)
          /\ ~segs[i].on => \A k \in 1 .. Len(moved) : moved[k].last < a \/ b < moved[k].first
    BY <2>1 DEF Pieced
  <2> DEFINE s == start + a - 1
             e == start + b - 1
             p == s + j - 1
  <2>3. /\ start \in 1 .. n /\ end \in 1 .. n /\ a \in 1 .. end - start + 1
        /\ b \in 1 .. end - start + 1 /\ s \in 1 .. n /\ e \in s .. n /\ e <= end
        /\ a \in Nat /\ b \in Nat
    BY <1>3, <1>8, <1>9, <2>2
  <2>4. LowerCase(segs[i].text) = SubSeq(lower, s, e)
    <3>1. SubSeq(SubSeq(text, start, end), a, b) = SubSeq(text, start + a - 1, start + b - 1)
      BY <2>3, SubSeqOfSubSeq DEF n
    <3>2. segs[i].text = SubSeq(text, s, e)
      BY <2>2, <3>1 DEF part
    <3> HIDE DEF s, e
    <3>3. LowerCase(SubSeq(text, s, e)) = SubSeq(lower, s, e)
      BY <2>3, LowerPart DEF n, lower
    <3> QED BY <3>2, <3>3
  <2>5. j \in 1 .. e - s + 1
    <3> HIDE DEF s, e
    <3>1. \A x \in s .. e : lower[x] \in Nat
      <4> TAKE x \in s .. e
      <4>1. x \in 1 .. Len(lower)
        BY <1>0, <1>3, <2>3 DEF n
      <4> QED BY <1>0, <4>1, ElementOfSeq
    <3>2. SubSeq(lower, s, e) \in Seq(Nat) /\ Len(SubSeq(lower, s, e)) = e - s + 1
      BY <1>0, <1>3, <2>3, <3>1, SubSeqProperties DEF n
    <3>3. DOMAIN SubSeq(lower, s, e) = 1 .. e - s + 1
      BY <3>2, LenProperties
    <3> QED BY <1>20, <2>4, <3>3
  <2>6. At(lower, sought, p) /\ p \in s .. e /\ p + w - 1 <= e
    <3> HIDE DEF s, e
    <3> QED BY <1>0, <1>20, <2>3, <2>4, <2>5, StretchOf DEF n, w
  <2>7. p \in 1 .. n
    <3> HIDE DEF p, s, e
    <3> QED BY <1>3, <2>3, <2>6
  <2>8. PICK k \in 1 .. Len(marks) : marks[k].first <= p /\ p <= marks[k].last
    BY <1>0, <1>2, <1>20, <2>6, <2>7 DEF MarksOf, n
  <2> DEFINE f == marks[k].first
             l == marks[k].last
             f1 == marks[1].first
  <2>9. f \in Nat /\ l \in Nat /\ l = f + w - 1 /\ f <= p /\ p <= l
    BY <1>5, <2>8
  <2>10. start <= f
    <3>1. 1 \in 1 .. Len(marks) /\ marks # <<>>
      BY <1>4, <2>8, EmptySeq
    <3>2. start <= f1 /\ f1 \in Nat
      BY <1>5, <1>8, <3>1
    <3>3. f1 <= f
      <4>1. CASE k = 1
        BY <3>2, <4>1
      <4>2. CASE k # 1
        <5>1. 1 < k
          BY <1>4, <4>2
        <5>2. marks[1].last < marks[k].first
          BY <1>6, <3>1, <5>1
        <5> QED BY <1>5, <3>1, <5>2
      <4> QED BY <4>1, <4>2
    <3> HIDE DEF f, f1
    <3> QED BY <1>8, <2>9, <3>2, <3>3
  <2>11. l <= end
    <3> HIDE DEF f, l, p, e, s
    <3>1. p \in Nat /\ e \in Nat
      BY <1>3, <2>3, <2>7
    <3> QED BY <1>3, <1>8, <2>3, <2>6, <2>9, <3>1
  <2>12. PICK x \in 1 .. N : at[x] = k
    <3>1. marks[k] \in good
      BY <1>11, <2>10, <2>11
    <3> QED BY <1>13, <3>1 DEF N
  <2>13. moved[x].first = f - start + 1 /\ moved[x].last = l - start + 1
    BY <1>14, <2>12
  <2>14. moved[x].last < a \/ b < moved[x].first
    BY <1>14, <1>20, <2>2
  <2> HIDE DEF f, l
  <2>15. l - start + 1 < a \/ b < f - start + 1
    BY <2>13, <2>14
  <2>16. s = start + a - 1 /\ e = start + b - 1
    OBVIOUS
  <2> HIDE DEF s, e, p
  <2>17. s <= p /\ p <= e /\ p \in Nat
    BY <2>3, <2>6, <2>7
  <2> QED BY <1>8, <2>3, <2>9, <2>15, <2>16, <2>17
<1>21. ASSUME word # <<>>, NEW p \in DOMAIN lower, At(lower, sought, p)
       PROVE  \E i \in DOMAIN segs : segs[i].on
  <2>1. PICK k \in 1 .. Len(marks) : marks[k].first <= p /\ p <= marks[k].last
    <3>1. p \in 1 .. Len(lower)
      BY <1>0, <1>21, LenProperties
    <3> QED BY <1>0, <1>2, <1>21, <3>1 DEF MarksOf
  <2>2. 1 \in 1 .. Len(marks) /\ marks # <<>>
    BY <1>4, <2>1, EmptySeq
  <2>3. marks[1] \in good
    BY <1>8, <1>11, <2>2
  <2>4. PICK x \in 1 .. N : at[x] = 1
    BY <1>13, <2>2, <2>3 DEF N
  <2>5. moved # <<>>
    BY <1>13, <1>14, <2>4, EmptySeq DEF N
  <2> QED BY <1>16, <1>17, <2>5 DEF Lit
<1> QED BY <1>1, <1>18, <1>19, <1>20, <1>21 DEF ExcerptRight, lower, sought

MaskedRight(masked, text, style) ==
  Level(text) =>
    /\ Len(masked) = Len(text)
    /\ \A i \in DOMAIN text :
         LET lower == LowerCase(text)
             hit   == \E t \in DOMAIN Terms : \E m \in Range(Found(lower, Terms[t])) :
                        i \in m.first .. m.last
         IN masked[i] = IF hit THEN (IF style = "block" THEN Block ELSE Star) ELSE text[i]

(* What MaskCovers says, of a text that is masked anew.                    *)
LEMMA MaskRight ==
  ASSUME NEW text \in Seq(Written), NEW style \in {"asterisk", "block"}
  PROVE  MaskedRight(MaskText(text, style), text, style)
<1> SUFFICES ASSUME Level(text) PROVE MaskedRight(MaskText(text, style), text, style)
  BY DEF MaskedRight
<1> DEFINE all == ToSet(FindSensitiveTerms(text))
           lower == LowerCase(text)
           hit(i) == \E t \in DOMAIN Terms : \E m \in Range(Found(lower, Terms[t])) :
                       i \in m.first .. m.last
           masked == MaskText(text, style)
<1>1. /\ Len(masked) = Len(text)
      /\ \A i \in 1 .. Len(text) :
           masked[i] = IF Covered(all, i) THEN Letter(style) ELSE text[i]
  BY MaskCoversMarks
<1>0. lower \in Seq(Nat)
  BY LowerIsWritten, WrittenIsNat
<1>2. all = UNION {ToSet(Found(lower, Terms[t])) : t \in DOMAIN Terms}
  BY <1>0, FoundTogether
<1>3. \A t \in DOMAIN Terms : Range(Found(lower, Terms[t])) = ToSet(Found(lower, Terms[t]))
  BY DEF Range, ToSet
<1> HIDE DEF all, masked, lower
<1>4. \A m \in all : m.first \in Nat /\ m.last \in Nat
  <2> TAKE m \in all
  <2>1. PICK t \in DOMAIN Terms : m \in ToSet(Found(lower, Terms[t]))
    BY <1>2
  <2>2. m \in Marks
    BY <1>0, <2>1, TermsAreLetters, FoundInside
  <2> QED BY <2>2 DEF Marks
<1>5. ASSUME NEW i \in DOMAIN text PROVE hit(i) <=> Covered(all, i)
  <2>1. i \in Nat
    BY LenProperties
  <2>2. \A m \in all : i \in m.first .. m.last <=> (m.first <= i /\ i <= m.last)
    BY <1>4, <2>1
  <2>3. hit(i) <=> \E m \in all : i \in m.first .. m.last
    BY <1>2, <1>3
  <2> HIDE DEF hit
  <2> QED BY <2>2, <2>3 DEF Covered
<1>6. Letter(style) = IF style = "block" THEN Block ELSE Star
  BY DEF Letter
<1>7. \A i \in DOMAIN text : masked[i] = IF hit(i) THEN Letter(style) ELSE text[i]
  <2> TAKE i \in DOMAIN text
  <2>1. i \in 1 .. Len(text)
    BY LenProperties
  <2> HIDE DEF hit
  <2> QED BY <1>1, <1>5, <2>1
<1> QED BY <1>1, <1>6, <1>7 DEF MaskedRight, masked, lower

TextInv == original \in Seq(Written) /\ keyword \in Seq(Written) /\ TextsAreMarkedRight

LEMMA TextParts ==
  /\ MaskCovers <=> ((maskOn /\ maskStyle \in {"asterisk", "block"}) =>
                      MaskedRight(display, original, maskStyle))
  /\ ExcerptMarksKeyword <=> ExcerptRight(excerpt, original, keyword)
BY DEF MaskCovers, MaskedRight, ExcerptMarksKeyword, ExcerptRight, AllText

(* No message yet, nothing is marked.                                      *)
LEMMA TextStarts == TextInit => TextInv
<1> SUFFICES ASSUME TextInit PROVE TextInv
  OBVIOUS
<1>1. original = <<>> /\ keyword = <<>> /\ ~maskOn /\ excerpt = <<>>
  BY DEF TextInit
<1>2. MaskCovers
  BY <1>1 DEF MaskCovers
<1>3. ExcerptRight(<<>>, <<>>, <<>>)
  <2>1. AllText(<<>>) = <<>>
    BY DEF AllText, FlattenSeq
  <2>2. 1 \in 1 .. Len(<<>>) + 1 /\ 1 + Len(<<>>) - 1 = 0 /\ Len(<<>>) = 0
    OBVIOUS
  <2>3. At(<<>>, <<>>, 1)
    BY <2>2, SubSeqEmpty DEF At
  <2> QED BY <2>1, <2>2, <2>3 DEF ExcerptRight
<1>4. ExcerptMarksKeyword
  BY <1>1, <1>3, TextParts
<1> QED BY <1>1, <1>2, <1>4 DEF TextInv, TextsAreMarkedRight

LEMMA DisplayRight ==
  ASSUME NEW text \in Seq(Written), NEW on, NEW style
  PROVE  (on /\ style \in {"asterisk", "block"}) =>
            MaskedRight(Display(text, on, style), text, style)
BY MaskRight DEF Display

LEMMA TextStays == TextInv /\ [TextNext]_textVars => TextInv'
<1> SUFFICES ASSUME TextInv, [TextNext]_textVars PROVE TextInv'
  OBVIOUS
<1> DEFINE Masked == (maskOn /\ maskStyle \in {"asterisk", "block"}) =>
                       MaskedRight(display, original, maskStyle)
           Marked == ExcerptRight(excerpt, original, keyword)
<1>1. original \in Seq(Written) /\ keyword \in Seq(Written) /\ Masked /\ Marked
  BY TextParts DEF TextInv, TextsAreMarkedRight
<1>2. SUFFICES original' \in Seq(Written) /\ keyword' \in Seq(Written) /\ Masked' /\ Marked'
  <2>1. (MaskCovers <=> Masked) /\ (ExcerptMarksKeyword <=> Marked)
    BY TextParts
  <2>2. (MaskCovers' <=> Masked') /\ (ExcerptMarksKeyword' <=> Marked')
    BY DEF MaskCovers, MaskedRight, ExcerptMarksKeyword, ExcerptRight, AllText
  <2> QED BY <2>2 DEF TextInv, TextsAreMarkedRight
<1>3. ASSUME NEW text \in ShownTexts, ShowMessage(text)
      PROVE  original' \in Seq(Written) /\ keyword' \in Seq(Written) /\ Masked' /\ Marked'
  <2>1. text \in Seq(Written)
    BY ShownArePlain
  <2>2. /\ original' = text /\ maskOn' = maskOn /\ maskStyle' = maskStyle /\ keyword' = keyword
        /\ display' = Display(text, maskOn, maskStyle) /\ excerpt' = Snippet(text, keyword)
    BY <1>3 DEF ShowMessage
  <2>3. Masked'
    BY <2>1, <2>2, DisplayRight
  <2>4. Marked'
    BY <1>1, <2>1, <2>2, SnippetRight
  <2> QED BY <1>1, <2>1, <2>2, <2>3, <2>4
<1>4. ASSUME NEW on, NEW style, SetMasking(on, style)
      PROVE  original' \in Seq(Written) /\ keyword' \in Seq(Written) /\ Masked' /\ Marked'
  <2>1. /\ original' = original /\ maskOn' = on /\ maskStyle' = style /\ keyword' = keyword
        /\ display' = Display(original, on, style) /\ excerpt' = excerpt
    BY <1>4 DEF SetMasking
  <2>2. Masked'
    BY <1>1, <2>1, DisplayRight
  <2> QED BY <1>1, <2>1, <2>2
<1>5. ASSUME NEW word \in ShownTexts, SearchFor(word)
      PROVE  original' \in Seq(Written) /\ keyword' \in Seq(Written) /\ Masked' /\ Marked'
  <2>1. word \in Seq(Written)
    BY ShownArePlain
  <2>2. /\ original' = original /\ maskOn' = maskOn /\ maskStyle' = maskStyle
        /\ keyword' = word /\ display' = display /\ excerpt' = Snippet(original, word)
    BY <1>5 DEF SearchFor
  <2>3. Marked'
    BY <1>1, <2>1, <2>2, SnippetRight
  <2> QED BY <1>1, <2>1, <2>2, <2>3
<1>6. CASE UNCHANGED textVars
  BY <1>1, <1>6 DEF textVars
<1> QED BY <1>3, <1>4, <1>5, <1>6 DEF TextNext

(* Whatever the text, the sensitive terms, the style and the keyword, if   *)
(* no letter of the text is longer in lower case: masked with asterisks or *)
(* blocks it hides exactly the letters of the terms' occurrences in any    *)
(* case and moves none, and a search result marks its keyword, all of it   *)
(* that it shows and nothing else (textMasking.ts:65-91,                   *)
(* chatSearch.ts:69-110).                                                  *)
THEOREM TextsStayMarked == MCChatSpec => []TextsAreMarkedRight
<1>1. MCChatInit => TextInv
  BY TextStarts DEF MCChatInit
<1>2. TextInv /\ [MCChatNext]_mcVars => TextInv'
  BY TextStays, PartsMove
<1>3. TextInv => TextsAreMarkedRight
  BY DEF TextInv
<1> QED BY <1>1, <1>2, <1>3, PTL DEF MCChatSpec
=============================================================================

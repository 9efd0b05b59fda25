-------------------------- MODULE BridgeHistoryProofs --------------------------
(***************************************************************************)
(* The waits FiatBridge promises are served in full, for any settings,     *)
(* changed at any time, and any eviction of the entries they are read      *)
(* from; and what it really pays and takes in is bounded by its lazily     *)
(* restarted windows and its latch, for any users and any amounts.         *)
(***************************************************************************)
EXTENDS BridgeHistory, FiatBridgeProofs

allVars == <<vars, histVars>>

-----------------------------------------------------------------------------
(* The recorded bridge is the bridge.                                      *)
LEMMA RecordedSteps == Inv /\ [HistoryNext]_allVars => [Next]_vars
<1> SUFFICES ASSUME Inv, HistoryNext PROVE Next
  BY DEF allVars, vars
<1>1. Payouts \subseteq Amounts
  BY PayoutsAssumption
<1>2. CASE DepositAndRecord
  BY <1>2 DEF DepositAndRecord, UserDeposits, Next
<1>3. CASE WithdrawAndRecord
  BY <1>1, <1>3 DEF WithdrawAndRecord, Next
<1>4. ASSUME NEW id \in Pending(wq), NEW amt \in Payouts, NEW p \in Prices \cup {0},
             NEW expected \in ExpectedPrices, NEW slip \in Slippages,
             ExecuteWithdrawal(id, amt, execNonce[wq.req[id].to], p, expected, slip)
      PROVE  Next
  <2> DEFINE nonce == execNonce[wq.req[id].to]
  <2>1. wq.req[id].to \in Users /\ execNonce \in [Users -> Nat]
    BY DEF Inv, TypeOK, QueueTypeOK, IsQueue, Request
  <2>2. nonce \in Nat /\ nonce < U64_MAX
    BY <1>4, <2>1 DEF ExecuteWithdrawal
  <2>3. nonce \in 0..U64_MAX
    BY <2>2, BridgeAssumption
  <2> QED BY <1>1, <1>4, <2>3 DEF QueuePays, Next
<1>5. CASE ExecuteAndRecord
  BY <1>4, <1>5 DEF ExecuteAndRecord
<1>6. CASE ConfigureAndRecord \/ ResetAndRecord
  BY <1>6 DEF ConfigureAndRecord, ResetAndRecord, Next
<1>7. CASE QueueAndClock
  BY <1>1, <1>7 DEF QueueAndClock, Next
<1> QED BY <1>2, <1>3, <1>5, <1>6, <1>7 DEF HistoryNext

-----------------------------------------------------------------------------
(* An entry written at ledger `at` to last `wait` ledgers is still there,  *)
(* or that wait is over.                                                   *)
Kept(entry, at, wait, now) ==
    /\ at <= now
    /\ (entry.at = at /\ at + wait <= entry.live) \/ at + wait < now

Remembrance == [at : Optional, cooldown : Nat, antiSandwich : Nat,
                largeAt : Optional, withdrawCooldown : Nat]

WaitsKept(d, entry, large, now) ==
    /\ d.at # None => /\ Kept(entry, d.at, d.cooldown, now)
                      /\ Kept(entry, d.at, d.antiSandwich, now)
    /\ d.largeAt # None => Kept(large, d.largeAt, d.withdrawCooldown, now)

DelayInv ==
    /\ last \in [Users -> Remembrance]
    /\ \A u \in Users : WaitsKept(last[u], lastDeposit[u], lastLarge[u], ledger)

(* A call that does not find the entry recent comes after the wait.        *)
LEMMA WaitServed ==
    ASSUME NEW entry \in Entry, NEW at \in Nat, NEW wait \in Nat, NEW now \in Nat,
           NEW delay \in Nat, Kept(entry, at, wait, now), ~Recent(entry, delay, now)
    PROVE  now >= at + Smaller(delay, wait)
BY DEF Kept, Recent, Entry, Optional, None, Smaller

LEMMA KeptLater ==
    ASSUME NEW entry, NEW at \in Nat, NEW wait \in Nat, NEW now \in Nat,
           Kept(entry, at, wait, now)
    PROVE  Kept(entry, at, wait, now + 1)
BY DEF Kept

LEMMA KeptEvicted ==
    ASSUME NEW entry \in Entry, NEW at \in Nat, NEW wait \in Nat, NEW now \in Nat,
           Kept(entry, at, wait, now), now > entry.live
    PROVE  Kept(NoEntry, at, wait, now)
BY DEF Kept, Entry, Optional, None

LEMMA KeptWritten ==
    ASSUME NEW entry \in Entry, NEW ttl \in Nat, NEW wait \in Nat, NEW now \in Nat,
           wait <= ttl
    PROVE  Kept(Touch(entry, ttl, now), now, wait, now)
BY DEF Kept, Touch, Entry, Optional, None

-----------------------------------------------------------------------------
LEMMA DelayTypes ==
    ASSUME Inv, DelayInv, NEW u \in Users
    PROVE  /\ ledger \in Nat /\ last[u] \in Remembrance
           /\ lastDeposit[u] \in Entry /\ lastLarge[u] \in Entry
           /\ cfg.cooldown \in Nat /\ cfg.antiSandwich \in Nat /\ cfg.withdrawCooldown \in Nat
           /\ last[u].at # None => last[u].at \in Nat
           /\ last[u].largeAt # None => last[u].largeAt \in Nat
           /\ WaitsKept(last[u], lastDeposit[u], lastLarge[u], ledger)
<1>1. TypeOK /\ ledger \in Nat /\ cfg \in Config
  BY LedgerType DEF Inv, TypeOK, PolicyTypeOK
<1>2. cfg.cooldown \in Nat /\ cfg.antiSandwich \in Nat /\ cfg.withdrawCooldown \in Nat
  BY <1>1, WindowAssumption DEF Config
<1>3. lastDeposit[u] \in Entry /\ lastLarge[u] \in Entry
  BY <1>1 DEF TypeOK, DepositTypeOK
<1> QED BY <1>1, <1>2, <1>3 DEF DelayInv, Remembrance, Optional

LEMMA DelayInit == HistoryInit => DelayInv
BY DEF HistoryInit, DelayInv, NoDeposit, Remembrance, WaitsKept, Optional

LEMMA DepositKeepsWaits ==
    ASSUME Inv, DelayInv, NEW u \in Users, NEW amt, NEW p, NEW expected, NEW slip,
           Deposit(u, amt, p, expected, slip),
           last' = [last EXCEPT ![u] =
                      Remembered(last[u], cfg.largeDeposit > 0 /\ amt >= cfg.largeDeposit)]
    PROVE  DelayInv'
<1> DEFINE large == cfg.largeDeposit > 0 /\ amt >= cfg.largeDeposit
           d == last[u]
<1>1. /\ ledger \in Nat /\ d \in Remembrance
      /\ lastDeposit[u] \in Entry /\ lastLarge[u] \in Entry
      /\ cfg.cooldown \in Nat /\ cfg.antiSandwich \in Nat /\ cfg.withdrawCooldown \in Nat
      /\ WaitsKept(d, lastDeposit[u], lastLarge[u], ledger)
  BY DelayTypes
<1>2. /\ lastDeposit' = [lastDeposit EXCEPT ![u] =
                           Touch(lastDeposit[u], LastDepositTtl(cfg), ledger)]
      /\ lastLarge' = IF large
                      THEN [lastLarge EXCEPT ![u] =
                              Touch(lastLarge[u], LastLargeTtl(cfg), ledger)]
                      ELSE lastLarge
      /\ ledger' = ledger
  BY DEF Deposit
<1>3. last' = [last EXCEPT ![u] = Remembered(d, large)]
  OBVIOUS
<1>4. last \in [Users -> Remembrance] /\ lastDeposit \in [Users -> Entry]
      /\ lastLarge \in [Users -> Entry]
  BY DEF Inv, TypeOK, DepositTypeOK, DelayInv
<1>5. LastDepositTtl(cfg) \in Nat /\ LastLargeTtl(cfg) \in Nat
      /\ cfg.cooldown <= LastDepositTtl(cfg) /\ cfg.antiSandwich <= LastDepositTtl(cfg)
      /\ cfg.withdrawCooldown <= LastLargeTtl(cfg)
  BY <1>1, WindowAssumption DEF LastDepositTtl, LastLargeTtl, Larger
<1>6. large \in BOOLEAN
  OBVIOUS
<1> HIDE DEF large
<1>7. Remembered(d, large) \in Remembrance
  BY <1>1, <1>6 DEF Remembered, Remembrance, Optional
<1>8. WaitsKept(Remembered(d, large), lastDeposit'[u], lastLarge'[u], ledger)
  <2>1. lastDeposit'[u] = Touch(lastDeposit[u], LastDepositTtl(cfg), ledger)
    BY <1>2, <1>4
  <2>2. Kept(lastDeposit'[u], ledger, cfg.cooldown, ledger)
        /\ Kept(lastDeposit'[u], ledger, cfg.antiSandwich, ledger)
    BY <1>1, <1>5, <2>1, KeptWritten
  <2>3. CASE large
    <3>1. lastLarge'[u] = Touch(lastLarge[u], LastLargeTtl(cfg), ledger)
      BY <1>2, <1>4, <2>3
    <3>2. Kept(lastLarge'[u], ledger, cfg.withdrawCooldown, ledger)
      BY <1>1, <1>5, <3>1, KeptWritten
    <3> QED BY <2>2, <2>3, <3>2 DEF WaitsKept, Remembered
  <2>4. CASE ~large
    BY <1>1, <1>2, <2>2, <2>4 DEF WaitsKept, Remembered
  <2> QED BY <2>3, <2>4
<1>9. ASSUME NEW v \in Users PROVE WaitsKept(last'[v], lastDeposit'[v], lastLarge'[v], ledger')
  <2>1. CASE v = u
    BY <1>2, <1>3, <1>4, <1>8, <2>1
  <2>2. CASE v # u
    <3>1. last'[v] = last[v] /\ lastDeposit'[v] = lastDeposit[v] /\ lastLarge'[v] = lastLarge[v]
      BY <1>2, <1>3, <1>4, <2>2
    <3> QED BY <1>2, <3>1 DEF DelayInv
  <2> QED BY <2>1, <2>2
<1>10. last' \in [Users -> Remembrance]
  BY <1>3, <1>4, <1>7
<1> QED BY <1>9, <1>10 DEF DelayInv

LEMMA TickKeepsWaits ==
    ASSUME Inv, DelayInv, Tick, last' = last
    PROVE  DelayInv'
<1>1. ASSUME NEW u \in Users
      PROVE  WaitsKept(last[u], lastDeposit[u], lastLarge[u], ledger + 1)
  <2>1. last[u] \in Remembrance /\ ledger \in Nat
        /\ (last[u].at # None => last[u].at \in Nat)
        /\ (last[u].largeAt # None => last[u].largeAt \in Nat)
        /\ WaitsKept(last[u], lastDeposit[u], lastLarge[u], ledger)
    BY DelayTypes
  <2>2. /\ last[u].cooldown \in Nat /\ last[u].antiSandwich \in Nat
        /\ last[u].withdrawCooldown \in Nat
    BY <2>1 DEF Remembrance
  <2> QED BY <2>1, <2>2, KeptLater DEF WaitsKept
<1>2. ledger' = ledger + 1 /\ lastDeposit' = lastDeposit /\ lastLarge' = lastLarge
  BY DEF Tick, depositVars
<1> QED BY <1>1, <1>2 DEF DelayInv

LEMMA EvictionKeepsWaits ==
    ASSUME Inv, DelayInv, NEW w \in Users, EvictLastDeposit(w) \/ EvictLastLarge(w),
           last' = last
    PROVE  DelayInv'
<1>1. ASSUME NEW u \in Users
      PROVE  WaitsKept(last[u], lastDeposit'[u], lastLarge'[u], ledger)
  <2>1. /\ last[u] \in Remembrance /\ ledger \in Nat
        /\ lastDeposit[u] \in Entry /\ lastLarge[u] \in Entry
        /\ last[u].at # None => last[u].at \in Nat
        /\ last[u].largeAt # None => last[u].largeAt \in Nat
        /\ WaitsKept(last[u], lastDeposit[u], lastLarge[u], ledger)
    BY DelayTypes
  <2>2. /\ last[u].cooldown \in Nat /\ last[u].antiSandwich \in Nat
        /\ last[u].withdrawCooldown \in Nat
    BY <2>1 DEF Remembrance
  <2>3. \/ lastDeposit'[u] = lastDeposit[u]
        \/ lastDeposit'[u] = NoEntry /\ ledger > lastDeposit[u].live
    BY DEF EvictLastDeposit, EvictLastLarge, Inv, TypeOK, DepositTypeOK
  <2>4. \/ lastLarge'[u] = lastLarge[u]
        \/ lastLarge'[u] = NoEntry /\ ledger > lastLarge[u].live
    BY DEF EvictLastDeposit, EvictLastLarge, Inv, TypeOK, DepositTypeOK
  <2>5. last[u].at # None => /\ Kept(lastDeposit'[u], last[u].at, last[u].cooldown, ledger)
                             /\ Kept(lastDeposit'[u], last[u].at, last[u].antiSandwich, ledger)
    BY <2>1, <2>2, <2>3, KeptEvicted DEF WaitsKept
  <2>6. last[u].largeAt # None =>
          Kept(lastLarge'[u], last[u].largeAt, last[u].withdrawCooldown, ledger)
    BY <2>1, <2>2, <2>4, KeptEvicted DEF WaitsKept
  <2> QED BY <2>5, <2>6 DEF WaitsKept
<1>2. ledger' = ledger
  BY DEF EvictLastDeposit, EvictLastLarge
<1> QED BY <1>1, <1>2 DEF DelayInv

LEMMA DelayStep == Inv /\ DelayInv /\ [HistoryNext]_allVars => DelayInv'
<1> SUFFICES ASSUME Inv, DelayInv, [HistoryNext]_allVars PROVE DelayInv'
  OBVIOUS
<1>1. CASE DepositAndRecord
  BY <1>1, DepositKeepsWaits DEF DepositAndRecord
<1>2. CASE QueueAndClock /\ (Tick \/ \E u \in Users : EvictLastDeposit(u) \/ EvictLastLarge(u))
  BY <1>2, TickKeepsWaits, EvictionKeepsWaits DEF QueueAndClock, histVars
<1>3. ASSUME UNCHANGED <<last, lastDeposit, lastLarge, ledger>> PROVE DelayInv'
  BY <1>3 DEF DelayInv
<1>4. CASE WithdrawAndRecord
  BY <1>3, <1>4 DEF WithdrawAndRecord, Withdraw, Pay, depositVars
<1>5. CASE ExecuteAndRecord
  <2>1. UNCHANGED last /\ UNCHANGED <<ledger, depositVars>>
    BY <1>5 DEF ExecuteAndRecord, ExecuteWithdrawal, Pay
  <2> QED BY <1>3, <2>1 DEF depositVars
<1>6. CASE ConfigureAndRecord
  <2>1. \A c : StoreConfig(c) => UnchangedButPolicy
    BY DEF StoreConfig
  <2>2. UnchangedButPolicy
    BY <1>6, <2>1
       DEF ConfigureAndRecord,
           Configure, SetLimit, SetLimitMaxCap, SetDailyDepositLimit, SetMinDeposit,
           SetCooldown, SetWithdrawalCooldown, SetLockPeriod, SetAntiSandwichDelay,
           SetOracle, SetFiatLimit, SetWithdrawalQuota, SetWithdrawalExpiry,
           SetBreakerThreshold, SetBreakerResetWindow
  <2> QED BY <1>3, <1>6, <2>2 DEF ConfigureAndRecord, UnchangedButPolicy, depositVars
<1>7. CASE ResetAndRecord
  BY <1>3, <1>7 DEF ResetAndRecord, ResetBreaker, depositVars
<1>8. ASSUME QueueAndClock, NEW u \in Users, NEW amt \in Payouts, NEW t \in Tiers,
             RequestWithdrawal(u, amt, t)
      PROVE  DelayInv'
  <2>1. UNCHANGED last /\ UNCHANGED <<ledger, depositVars>>
    BY <1>8 DEF QueueAndClock, RequestWithdrawal, histVars
  <2> QED BY <1>3, <2>1 DEF depositVars
<1>9. ASSUME QueueAndClock, NEW id \in Pending(wq), CancelWithdrawal(id) PROVE DelayInv'
  BY <1>3, <1>9 DEF QueueAndClock, CancelWithdrawal, Release, histVars, depositVars
<1>10. CASE QueueAndClock
  BY <1>2, <1>8, <1>9, <1>10 DEF QueueAndClock
<1>11. CASE UNCHANGED allVars
  BY <1>3, <1>11 DEF allVars, vars, histVars, depositVars
<1> QED BY <1>1, <1>4, <1>5, <1>6, <1>7, <1>10, <1>11 DEF HistoryNext

HistoryInv == Inv /\ DelayInv

(* The entries that delays are read from outlive the waits they stand for, *)
(* in every reachable state of the recorded bridge.                        *)
THEOREM HistoryInvariance == HistorySpec => []HistoryInv
<1>1. HistoryInit => HistoryInv
  BY InitInv, DelayInit DEF HistoryInit, HistoryInv
<1>2. HistoryInv /\ [HistoryNext]_allVars => HistoryInv'
  BY RecordedSteps, StepInv, DelayStep DEF HistoryInv
<1> QED BY <1>1, <1>2, PTL DEF HistorySpec, allVars

-----------------------------------------------------------------------------
(* Who may pay from the queue, take a deposit in or add a request.         *)
LEMMA OnlyThoseSteps ==
    ASSUME Inv, [HistoryNext]_allVars
    PROVE  /\ ExecuteAndRecord \/ execNonce' = execNonce
           /\ DepositAndRecord \/ userDeposited' = userDeposited
           /\ \/ \E u \in Users, amt \in Payouts, t \in Tiers : RequestWithdrawal(u, amt, t)
              \/ Pending(wq') \subseteq Pending(wq)
<1> DEFINE Requests == \E u \in Users, amt \in Payouts, t \in Tiers : RequestWithdrawal(u, amt, t)
           Still == UNCHANGED <<execNonce, userDeposited>>
<1>1. CASE DepositAndRecord
  <2>1. UNCHANGED queueVars
    BY <1>1 DEF DepositAndRecord, Deposit
  <2> QED BY <1>1, <2>1 DEF queueVars
<1>2. CASE WithdrawAndRecord
  BY <1>2 DEF WithdrawAndRecord, Withdraw, depositVars, queueVars
<1>3. ASSUME NEW id \in Pending(wq), NEW amt \in Payouts, NEW nonce, NEW p,
             NEW expected, NEW slip,
             ExecuteWithdrawal(id, amt, nonce, p, expected, slip)
      PROVE  userDeposited' = userDeposited /\ Pending(wq') \subseteq Pending(wq)
  <2>1. UNCHANGED depositVars
        /\ (wq' = Dequeue(wq, id) \/ wq' = Shrink(wq, id, amt))
    BY <1>3 DEF ExecuteWithdrawal
  <2>2. IsQueue(wq)
    BY InvMoney
  <2>3. Pending(wq') \subseteq Pending(wq)
    <3> DEFINE e == Dequeue(wq, id)
               f == Shrink(wq, id, amt)
    <3>1. IsDequeued(e, wq, id, wq.req[id].tier) /\ IsShrunk(f, wq, id, amt)
      BY <2>2, DequeueFields, ShrinkFields
    <3>2. wq' = e \/ wq' = f
      BY <2>1
    <3> HIDE DEF e, f
    <3>3. Pending(e) = Pending(wq) \ {id} /\ Pending(f) = Pending(wq)
      BY <3>1 DEF IsDequeued, IsShrunk, Others, Pending
    <3> QED BY <3>2, <3>3
  <2> QED BY <2>1, <2>3 DEF depositVars
<1>4. CASE ExecuteAndRecord
  BY <1>3, <1>4 DEF ExecuteAndRecord
<1>5. CASE ConfigureAndRecord
  <2>1. \A c : StoreConfig(c) => UnchangedButPolicy
    BY DEF StoreConfig
  <2>2. UnchangedButPolicy
    BY <1>5, <2>1
       DEF ConfigureAndRecord,
           Configure, SetLimit, SetLimitMaxCap, SetDailyDepositLimit, SetMinDeposit,
           SetCooldown, SetWithdrawalCooldown, SetLockPeriod, SetAntiSandwichDelay,
           SetOracle, SetFiatLimit, SetWithdrawalQuota, SetWithdrawalExpiry,
           SetBreakerThreshold, SetBreakerResetWindow
  <2> QED BY <2>2 DEF UnchangedButPolicy, depositVars, queueVars
<1>6. CASE ResetAndRecord
  BY <1>6 DEF ResetAndRecord, ResetBreaker, depositVars, queueVars
<1>7. CASE Requests
  BY <1>7 DEF RequestWithdrawal, depositVars
<1>8. ASSUME NEW id \in Pending(wq), CancelWithdrawal(id)
      PROVE  Still /\ Pending(wq') \subseteq Pending(wq)
  <2> DEFINE e == Dequeue(wq, id)
  <2>1. IsDequeued(e, wq, id, wq.req[id].tier)
    BY InvMoney, DequeueFields
  <2>2. wq' = e /\ Still
    BY <1>8 DEF CancelWithdrawal, Release, depositVars
  <2> HIDE DEF e
  <2>3. Pending(e) = Pending(wq) \ {id}
    BY <2>1 DEF IsDequeued, Others, Pending
  <2> QED BY <2>2, <2>3
<1>9. CASE Tick \/ \E u \in Users : EvictLastDeposit(u) \/ EvictLastLarge(u)
  BY <1>9 DEF Tick, EvictLastDeposit, EvictLastLarge, depositVars, queueVars
<1>10. CASE QueueAndClock
  BY <1>7, <1>8, <1>9, <1>10 DEF QueueAndClock
<1>11. CASE UNCHANGED allVars
  BY <1>11 DEF allVars, vars, depositVars, queueVars
<1> QED BY <1>1, <1>2, <1>4, <1>5, <1>6, <1>10, <1>11 DEF HistoryNext

(* No payout from the queue comes within the anti-sandwich delay of the    *)
(* payee's last deposit.  (A deposit may: it does not read that delay.)    *)
THEOREM AntiSandwichServed == HistorySpec => AntiSandwichHolds
<1> DEFINE Served == \A u \in Users : execNonce'[u] # execNonce[u] /\ last[u].at # None =>
                ledger >= last[u].at + Smaller(cfg.antiSandwich, last[u].antiSandwich)
<1>1. HistoryInv /\ [HistoryNext]_allVars => [Served]_allVars
  <2> SUFFICES ASSUME Inv, DelayInv, [HistoryNext]_allVars,
                      NEW u \in Users, execNonce'[u] # execNonce[u], last[u].at # None
               PROVE  ledger >= last[u].at + Smaller(cfg.antiSandwich, last[u].antiSandwich)
    BY DEF HistoryInv
  <2>1. PICK id \in Pending(wq), amt \in Payouts, p \in Prices \cup {0},
             expected \in ExpectedPrices, slip \in Slippages :
          ExecuteWithdrawal(id, amt, execNonce[wq.req[id].to], p, expected, slip)
    BY OnlyThoseSteps DEF ExecuteAndRecord
  <2>2. u = wq.req[id].to
    BY <2>1 DEF ExecuteWithdrawal, Inv, TypeOK, QueueTypeOK
  <2>3. ~Recent(lastDeposit[u], cfg.antiSandwich, ledger)
    BY <2>1, <2>2 DEF ExecuteWithdrawal
  <2>4. /\ ledger \in Nat /\ lastDeposit[u] \in Entry /\ cfg.antiSandwich \in Nat
        /\ last[u].at \in Nat /\ last[u].antiSandwich \in Nat
        /\ Kept(lastDeposit[u], last[u].at, last[u].antiSandwich, ledger)
    BY DelayTypes DEF WaitsKept, Remembrance
  <2> QED BY <2>3, <2>4, WaitServed
<1> QED BY <1>1, HistoryInvariance, PTL DEF HistorySpec, AntiSandwichHolds, allVars

(* Two deposits of a user are a cooldown apart.                            *)
THEOREM CooldownServed == HistorySpec => CooldownHolds
<1> DEFINE Served == \A u \in Users : userDeposited'[u] # userDeposited[u] /\ last[u].at # None =>
                ledger >= last[u].at + Smaller(cfg.cooldown, last[u].cooldown)
<1>1. HistoryInv /\ [HistoryNext]_allVars => [Served]_allVars
  <2> SUFFICES ASSUME Inv, DelayInv, [HistoryNext]_allVars,
                      NEW u \in Users, userDeposited'[u] # userDeposited[u], last[u].at # None
               PROVE  ledger >= last[u].at + Smaller(cfg.cooldown, last[u].cooldown)
    BY DEF HistoryInv
  <2>1. PICK w \in Users, amt \in Amounts, p \in Prices \cup {0},
             expected \in ExpectedPrices, slip \in Slippages :
          Deposit(w, amt, p, expected, slip)
    BY OnlyThoseSteps DEF DepositAndRecord
  <2>2. u = w
    BY <2>1 DEF Deposit, Inv, TypeOK, DepositTypeOK
  <2>3. ~Recent(lastDeposit[u], cfg.cooldown, ledger)
    BY <2>1, <2>2 DEF Deposit
  <2>4. /\ ledger \in Nat /\ lastDeposit[u] \in Entry /\ cfg.cooldown \in Nat
        /\ last[u].at \in Nat /\ last[u].cooldown \in Nat
        /\ Kept(lastDeposit[u], last[u].at, last[u].cooldown, ledger)
    BY DelayTypes DEF WaitsKept, Remembrance
  <2> QED BY <2>3, <2>4, WaitServed
<1> QED BY <1>1, HistoryInvariance, PTL DEF HistorySpec, CooldownHolds, allVars

(* The waits a deposit begins, the cooldown for the next deposit and the   *)
(* anti-sandwich delay for a queued payout, are served in full, although   *)
(* the one entry that keeps them may be evicted and either may be changed  *)
(* meanwhile (lib.rs:1050-1075, 1655-1668).                                *)
THEOREM DepositWaitsServed == HistorySpec => DepositWaitsHold
BY AntiSandwichServed, CooldownServed DEF DepositWaitsHold

(* No request is queued for a user within the withdrawal cooldown of the   *)
(* user's last large deposit.                                              *)
THEOREM LargeDepositServed == HistorySpec => LargeDepositHolds
<1> DEFINE Served == \A id \in Pending(wq') \ Pending(wq) :
                LET d == last[wq'.req[id].to] IN
                d.largeAt # None =>
                    ledger >= d.largeAt + Smaller(cfg.withdrawCooldown, d.withdrawCooldown)
<1>1. HistoryInv /\ [HistoryNext]_allVars => [Served]_allVars
  <2> SUFFICES ASSUME Inv, DelayInv, [HistoryNext]_allVars,
                      NEW id \in Pending(wq') \ Pending(wq)
               PROVE  LET d == last[wq'.req[id].to] IN
                      d.largeAt # None =>
                        ledger >= d.largeAt + Smaller(cfg.withdrawCooldown, d.withdrawCooldown)
    BY DEF HistoryInv
  <2>1. PICK u \in Users, amt \in Payouts, t \in Tiers : RequestWithdrawal(u, amt, t)
    BY OnlyThoseSteps
  <2>2. wq'.req[id].to = u
    <3> DEFINE r == [to |-> u, amount |-> amt, unlock |-> ledger + cfg.lock,
                     queued |-> ledger, tier |-> t]
    <3>1. wq' = Enqueue(wq, r) /\ r.to = u
      BY <2>1 DEF RequestWithdrawal
    <3> HIDE DEF r
    <3>2. wq'.req = [i \in Pending(wq) \cup {wq.nextId} |->
                        IF i = wq.nextId THEN r ELSE wq.req[i]]
      BY <3>1 DEF Enqueue
    <3>3. id = wq.nextId
      BY <3>2 DEF Pending
    <3> QED BY <3>1, <3>2, <3>3
  <2>3. ~Recent(lastLarge[u], cfg.withdrawCooldown, ledger)
    BY <2>1 DEF RequestWithdrawal
  <2> SUFFICES ASSUME last[u].largeAt # None
               PROVE  ledger >= last[u].largeAt
                                  + Smaller(cfg.withdrawCooldown, last[u].withdrawCooldown)
    BY <2>2
  <2>4. /\ ledger \in Nat /\ lastLarge[u] \in Entry /\ cfg.withdrawCooldown \in Nat
        /\ last[u].largeAt \in Nat /\ last[u].withdrawCooldown \in Nat
        /\ Kept(lastLarge[u], last[u].largeAt, last[u].withdrawCooldown, ledger)
    BY DelayTypes DEF WaitsKept, Remembrance
  <2> QED BY <2>3, <2>4, WaitServed
<1> QED BY <1>1, HistoryInvariance, PTL DEF HistorySpec, LargeDepositHolds, allVars

-----------------------------------------------------------------------------
(* A running total never falls, and stands still after `now`.              *)
Running(c, now) ==
    /\ c \in [0..MaxLedger -> Nat]
    /\ \A l, k \in 0..MaxLedger : l <= k => c[l] <= c[k]
    /\ \A l \in 0..MaxLedger : l >= now => c[l] = c[now]

LEMMA UpToFacts ==
  ASSUME NEW c, NEW now \in 0..MaxLedger, Running(c, now)
  PROVE  /\ \A l \in Int : UpTo(c, l) \in Nat
         /\ \A l, k \in Int : l <= k => UpTo(c, l) <= UpTo(c, k)
         /\ \A l \in Int : l >= now => UpTo(c, l) = UpTo(c, now)
  <1>1. MaxLedger \in Nat
    BY BridgeAssumption
  <1>2. ASSUME NEW l \in Int
        PROVE  /\ l < 0 => UpTo(c, l) = 0
               /\ ~(l < 0) => /\ Smaller(l, MaxLedger) \in 0..MaxLedger
                              /\ UpTo(c, l) = c[Smaller(l, MaxLedger)]
    BY <1>1 DEF UpTo, Smaller
  <1>3. \A l \in Int : UpTo(c, l) \in Nat
    <2>1. \A m \in 0..MaxLedger : c[m] \in Nat
      BY DEF Running
    <2> QED BY <1>2, <2>1
  <1>4. ASSUME NEW l \in Int, NEW k \in Int, l <= k
        PROVE  UpTo(c, l) <= UpTo(c, k)
    <2>1. CASE l < 0
      BY <1>2, <1>3, <2>1
    <2>2. CASE ~(l < 0)
      <3>1. ~(k < 0) /\ Smaller(l, MaxLedger) <= Smaller(k, MaxLedger)
        BY <1>1, <1>4, <2>2 DEF Smaller
      <3> QED BY <1>2, <2>2, <3>1 DEF Running
    <2> QED BY <2>1, <2>2
  <1>5. ASSUME NEW l \in Int, l >= now
        PROVE  UpTo(c, l) = UpTo(c, now)
    <2>1. Smaller(l, MaxLedger) >= now /\ Smaller(now, MaxLedger) = now
      BY <1>1, <1>5 DEF Smaller
    <2>2. ~(l < 0) /\ ~(now < 0) /\ now \in Int
      BY <1>5
    <2> QED BY <1>2, <2>1, <2>2 DEF Running
  <1> QED BY <1>3, <1>4, <1>5

(* Adding x at `now` raises every mark from `now` on.                      *)
LEMMA PlusFacts ==
  ASSUME NEW c, NEW now \in 0..MaxLedger, Running(c, now), NEW x \in Nat
  PROVE  /\ Running(Plus(c, now, x), now)
         /\ \A l \in Int : UpTo(Plus(c, now, x), l)
                             = IF l >= now THEN UpTo(c, l) + x ELSE UpTo(c, l)
  <1> DEFINE d == Plus(c, now, x)
  <1>1. MaxLedger \in Nat
    BY BridgeAssumption
  <1>2. \A l \in 0..MaxLedger : c[l] \in Nat /\ d[l] = IF l >= now THEN c[l] + x ELSE c[l]
    BY DEF Running, Plus
  <1>3. d \in [0..MaxLedger -> Nat]
    BY <1>2 DEF Plus
  <1> HIDE DEF d
  <1>4. Running(d, now)
    <2>1. \A l, k \in 0..MaxLedger : l <= k => d[l] <= d[k]
      BY <1>2 DEF Running
    <2>2. \A l \in 0..MaxLedger : l >= now => d[l] = d[now]
      BY <1>2 DEF Running
    <2> QED BY <1>3, <2>1, <2>2 DEF Running
  <1>5. ASSUME NEW l \in Int
        PROVE  UpTo(d, l) = IF l >= now THEN UpTo(c, l) + x ELSE UpTo(c, l)
    <2>1. CASE l < 0
      BY <2>1 DEF UpTo
    <2>2. CASE ~(l < 0)
      <3>1. Smaller(l, MaxLedger) \in 0..MaxLedger
            /\ (l >= now <=> Smaller(l, MaxLedger) >= now)
        BY <1>1, <2>2 DEF Smaller
      <3> QED BY <1>2, <2>2, <3>1 DEF UpTo
    <2> QED BY <2>1, <2>2
  <1> QED BY <1>4, <1>5 DEF d

LEMMA ZeroFacts ==
  ASSUME NEW now \in 0..MaxLedger
  PROVE  Running(Zero, now) /\ \A l \in Int : UpTo(Zero, l) = 0
  <1>1. MaxLedger \in Nat /\ \A l \in 0..MaxLedger : Zero[l] = 0
    BY BridgeAssumption DEF Zero
  <1>2. Zero \in [0..MaxLedger -> Nat]
    BY DEF Zero
  <1>3. \A l \in Int : ~(l < 0) => Smaller(l, MaxLedger) \in 0..MaxLedger
    BY <1>1 DEF Smaller
  <1>4. \A l \in Int : UpTo(Zero, l) = 0
    BY <1>1, <1>3 DEF UpTo
  <1> QED BY <1>1, <1>2, <1>4 DEF Running

LEMMA RunningLater ==
  ASSUME NEW c, NEW now \in 0..MaxLedger, Running(c, now), now + 1 <= MaxLedger
  PROVE  Running(c, now + 1)
  BY BridgeAssumption DEF Running

-----------------------------------------------------------------------------
(* A window's amount counts all that was added since it began, and nothing *)
(* was added once it was over.                                             *)
Since(c, w, now) == Sum(c, w.start, now)

Covers(c, w, now) ==
    /\ w.start = None => UpTo(c, now) = 0
    /\ w.start # None =>
         /\ Since(c, w, now) <= w.amount
         /\ \A l \in 0..MaxLedger :
               l >= w.start + WINDOW_LEDGERS - 1 => UpTo(c, l) = UpTo(c, now)

(* What was added shortly before the window began.                         *)
BeforeBy(c, w, bound) ==
    w.start # None =>
        \A l \in 0..w.start :
            w.start < l + WINDOW_LEDGERS => Sum(c, l, w.start - 1) <= bound

(* A limit is kept by the total, if the window is charged with it.         *)
Respected(limit, c, w, now) ==
    /\ Covers(c, w, now)
    /\ w.start # None => Since(c, w, now) <= limit
    /\ BeforeBy(c, w, limit)
    /\ \A l \in 0..MaxLedger : Sum(c, l, l + WINDOW_LEDGERS - 1) <= 2 * limit

LEMMA WindowFacts ==
  ASSUME NEW w \in Window, NEW now \in Nat, NEW x \in Nat
  PROVE  /\ w.amount \in Nat /\ w.start \in Int
         /\ w.start # None => w.start \in Nat
         /\ w.start = None <=> w.start = -1
         /\ Charge(w, now, x).amount = Rolled(w, now).amount + x
         /\ Charge(w, now, x).start = Rolled(w, now).start
         /\ \/ w.start # None /\ now < w.start + WINDOW_LEDGERS /\ Rolled(w, now) = w
            \/ /\ w.start = None \/ now >= w.start + WINDOW_LEDGERS
               /\ Rolled(w, now).amount = 0 /\ Rolled(w, now).start = now
  BY WindowAssumption DEF Window, Optional, None, Charge, Rolled

(* With nothing recorded every limit is kept.                              *)
LEMMA ZeroRespected ==
  ASSUME NEW w \in Window, NEW now \in 0..MaxLedger, w.start <= now, NEW limit \in Nat
  PROVE  Respected(limit, Zero, w, now)
  <1>1. now \in Nat /\ MaxLedger \in Nat /\ WINDOW_LEDGERS \in Nat
    BY BridgeAssumption, WindowAssumption
  <1>2. w.amount \in Nat /\ w.start \in Int
    BY DEF Window, Optional, None
  <1>3. \A l \in Int : UpTo(Zero, l) = 0
    BY ZeroFacts
  <1>4. \A l, k \in Int : Sum(Zero, l, k) = 0
    BY <1>3 DEF Sum
  <1> QED BY <1>1, <1>2, <1>3, <1>4 DEF Respected, Covers, Since, BeforeBy

(* Time passing adds nothing.                                              *)
LEMMA RespectedLater ==
  ASSUME NEW c, NEW now \in 0..MaxLedger, Running(c, now), now + 1 <= MaxLedger,
         NEW w \in Window, NEW limit \in Nat, Respected(limit, c, w, now)
  PROVE  Respected(limit, c, w, now + 1)
  <1>1. UpTo(c, now + 1) = UpTo(c, now)
    <2>1. now + 1 \in Int /\ now + 1 >= now
      OBVIOUS
    <2> QED BY <2>1, UpToFacts
  <1> QED BY <1>1 DEF Respected, Covers, Since, Sum

(* A charge the code admits keeps the limit.                               *)
LEMMA ChargeRespects ==
  ASSUME NEW c, NEW now \in 0..MaxLedger, Running(c, now),
         NEW w \in Window, w.start <= now, NEW limit \in Nat, NEW x \in Nat,
         Respected(limit, c, w, now), Rolled(w, now).amount + x <= limit
  PROVE  Respected(limit, Plus(c, now, x), Charge(w, now, x), now)
  <1> DEFINE W == WINDOW_LEDGERS
             v == Charge(w, now, x)
             U(l) == UpTo(c, l)
             V(l) == UpTo(Plus(c, now, x), l)
             s == w.start
             t == v.start
  <1>1. now \in Nat /\ MaxLedger \in Nat /\ W \in Nat \ {0}
    BY BridgeAssumption, WindowAssumption
  <1>2. /\ w.amount \in Nat /\ s \in Int /\ (s # None => s \in Nat)
        /\ v.amount <= limit /\ v.amount \in Int
        /\ \/ s # None /\ now < s + W /\ t = s /\ v.amount = w.amount + x
           \/ (s = None \/ now >= s + W) /\ t = now /\ v.amount = x
    BY <1>1, WindowFacts
  <1>3. /\ \A l \in Int : U(l) \in Nat
        /\ \A l, k \in Int : l <= k => U(l) <= U(k)
        /\ \A l \in Int : l >= now => U(l) = U(now)
    BY UpToFacts
  <1>4. \A l \in Int : V(l) = IF l >= now THEN U(l) + x ELSE U(l)
    BY PlusFacts
  <1>5. /\ s = None => U(now) = 0
        /\ s # None => U(now) - U(s - 1) <= w.amount /\ U(now) - U(s - 1) <= limit
        /\ s # None => \A l \in 0..MaxLedger : l >= s + W - 1 => U(l) = U(now)
        /\ s # None => \A l \in 0..s : s < l + W => U(s - 1) - U(l - 1) <= limit
        /\ \A l \in 0..MaxLedger : U(l + W - 1) - U(l - 1) <= 2 * limit
    BY DEF Respected, Covers, Since, BeforeBy, Sum
  <1>6. t \in 0..now /\ t # None
    BY <1>1, <1>2 DEF None
  <1> SUFFICES /\ V(now) - V(t - 1) <= v.amount
               /\ \A l \in 0..MaxLedger : l >= t + W - 1 => V(l) = V(now)
               /\ V(now) - V(t - 1) <= limit
               /\ \A l \in 0..t : t < l + W => V(t - 1) - V(l - 1) <= limit
               /\ \A l \in 0..MaxLedger : V(l + W - 1) - V(l - 1) <= 2 * limit
    BY <1>6 DEF Respected, Covers, Since, BeforeBy, Sum
  <1> HIDE DEF U, V, v, W
  <1>7. /\ V(now) - V(t - 1) <= v.amount
        /\ \A l \in 0..t : t < l + W => V(t - 1) - V(l - 1) <= limit
    <2>1. CASE s # None /\ now < s + W /\ t = s
      BY <1>1, <1>2, <1>3, <1>4, <1>5, <2>1
    <2>2. CASE (s = None \/ now >= s + W) /\ t = now /\ v.amount = x
      <3>1. U(now - 1) = U(now)
        <4>1. CASE s = None
          BY <1>1, <1>3, <1>5, <4>1
        <4>2. CASE s # None
          BY <1>1, <1>2, <1>3, <1>5, <2>2, <4>2
        <4> QED BY <4>1, <4>2
      <3>2. ASSUME NEW l \in 0..now, now < l + W
            PROVE  U(now - 1) - U(l - 1) <= limit
        <4>1. CASE s = None
          BY <1>1, <1>3, <1>5, <4>1
        <4>2. CASE s # None
          <5>1. s - 1 <= l - 1 /\ s - 1 \in Int /\ l - 1 \in Int
            BY <1>1, <1>2, <2>2, <3>2, <4>2
          <5>2. U(s - 1) <= U(l - 1)
            BY <1>3, <5>1
          <5> QED BY <1>1, <1>3, <1>5, <3>1, <4>2, <5>1, <5>2
        <4> QED BY <4>1, <4>2
      <3> QED BY <1>1, <1>3, <1>4, <2>2, <3>1, <3>2
    <2> QED BY <1>2, <2>1, <2>2
  <1>8. \A l \in 0..MaxLedger : l >= t + W - 1 => V(l) = V(now)
    <2> SUFFICES ASSUME NEW l \in 0..MaxLedger, l >= t + W - 1
                 PROVE  V(l) = V(now)
      OBVIOUS
    <2>1. l >= now
      BY <1>1, <1>2
    <2> QED BY <1>1, <1>3, <1>4, <2>1
  <1>9. V(now) - V(t - 1) <= limit
    BY <1>1, <1>2, <1>3, <1>4, <1>6, <1>7
  <1>10. ASSUME NEW l \in 0..MaxLedger
         PROVE  V(l + W - 1) - V(l - 1) <= 2 * limit
    <2>1. CASE l > now \/ l + W - 1 < now
      BY <1>1, <1>3, <1>4, <1>5, <2>1
    <2>2. CASE l <= now /\ l + W - 1 >= now
      <3>1. V(l + W - 1) = V(now)
        BY <1>1, <1>3, <1>4, <2>2
      <3>2. CASE t <= l
        <4>1. V(t - 1) <= V(l - 1)
          BY <1>1, <1>3, <1>4, <1>6, <2>2, <3>2
        <4> QED BY <1>1, <1>3, <1>4, <1>6, <1>9, <3>1, <4>1
      <3>3. CASE l < t
        <4>1. V(t - 1) - V(l - 1) <= limit
          BY <1>1, <1>6, <1>7, <2>2, <3>3
        <4> QED BY <1>1, <1>3, <1>4, <1>6, <1>9, <3>1, <4>1
      <3> QED BY <1>6, <3>2, <3>3
    <2> QED BY <1>1, <2>1, <2>2
  <1> QED BY <1>7, <1>8, <1>9, <1>10

-----------------------------------------------------------------------------
(* The breaker's window covers the outflow, the latch stops it, and once   *)
(* the latch was thrown nothing left.                                      *)
Halted(T, R, c, b, now) ==
    \A l \in 0..MaxLedger : Sum(c, l, l) >= T =>
        /\ Sum(c, l + 1, l + R) = 0
        /\ now <= l + R => b.tripped /\ b.trippedAt >= l

(* k of the n manual resets came before the window began.  Each bought one *)
(* payout that overshot, and the latch, when it is thrown, stands for one  *)
(* more.                                                                   *)
Overshot(T, c, b, now, n) ==
    /\ b.volume.start # None =>
         \E k \in 0..n :
            /\ Since(c, b.volume, now)
                  <= (T - 1) + (IF b.tripped THEN n - k + 1 ELSE n - k) * Largest
            /\ BeforeBy(c, b.volume, (T - 1) + k * Largest)
    /\ \A l \in 0..MaxLedger :
          Sum(c, l, l + WINDOW_LEDGERS - 1) <= 2 * (T - 1) + (1 + n) * Largest

BreakerKept(T, R, c, b, now, n) ==
    /\ Covers(c, b.volume, now)
    /\ b.tripped => UpTo(c, now) = UpTo(c, b.trippedAt)
    /\ n = 0 => Halted(T, R, c, b, now)
    /\ R + 1 >= WINDOW_LEDGERS => Overshot(T, c, b, now, n)

Breaker == [tripped : BOOLEAN, trippedAt : Nat, volume : Window]

LEMMA LargestFacts == Largest \in Nat /\ \A x \in Payouts : x <= Largest
  <1>1. PICK m \in Payouts : m \in Nat /\ \A x \in Payouts : x <= m
    BY PayoutsAssumption
  <1>2. Largest \in Payouts /\ \A x \in Payouts : x <= Largest
    BY <1>1 DEF Largest
  <1>3. Largest \in Int /\ m <= Largest
    BY <1>1, <1>2, PayoutsAssumption, BridgeAssumption
  <1> QED BY <1>1, <1>2, <1>3

LEMMA TimesFacts ==
  ASSUME NEW a \in Nat, NEW b \in Nat, NEW m \in Nat
  PROVE  /\ a * m \in Nat
         /\ (a + 1) * m = a * m + m
         /\ (a + b) * m = a * m + b * m
  OBVIOUS

LEMMA SharesFacts ==
  ASSUME NEW n \in Nat, NEW j \in 0..n, NEW m \in Nat
  PROVE  /\ j * m \in Nat /\ (n - j) * m \in Nat /\ (n - j) * m + j * m = n * m
         /\ (n - j + 1) * m = (n - j) * m + m
  <1>1. n - j \in Nat /\ j \in Nat /\ (n - j) + j = n
    OBVIOUS
  <1> QED BY <1>1, TimesFacts

LEMMA ZeroBreaker ==
  ASSUME NEW T \in Nat \ {0}, NEW R \in Nat, NEW now \in 0..MaxLedger,
         NEW b \in Breaker, b.volume.start <= now, b.trippedAt <= now
  PROVE  BreakerKept(T, R, Zero, b, now, 0)
  <1>1. now \in Nat /\ MaxLedger \in Nat /\ WINDOW_LEDGERS \in Nat
    BY BridgeAssumption, WindowAssumption
  <1>2. /\ b.volume.amount \in Nat /\ b.volume.start \in Int
        /\ b.tripped \in BOOLEAN /\ b.trippedAt \in Nat
    BY DEF Breaker, Window, Optional, None
  <1>3. \A l \in Int : UpTo(Zero, l) = 0
    BY ZeroFacts
  <1>4. \A l, k \in Int : Sum(Zero, l, k) = 0
    BY <1>3 DEF Sum
  <1>5. Covers(Zero, b.volume, now)
    BY <1>1, <1>2, <1>3, <1>4 DEF Covers, Since
  <1>6. Halted(T, R, Zero, b, now)
    BY <1>1, <1>4 DEF Halted
  <1>7. Overshot(T, Zero, b, now, 0)
    <2>1. Largest \in Nat /\ 0 * Largest = 0 /\ 1 * Largest = Largest
      BY LargestFacts
    <2>2. ASSUME b.volume.start # None
          PROVE  /\ Since(Zero, b.volume, now)
                      <= (T - 1) + (IF b.tripped THEN 0 - 0 + 1 ELSE 0 - 0) * Largest
                 /\ BeforeBy(Zero, b.volume, (T - 1) + 0 * Largest)
      BY <1>1, <1>2, <1>4, <2>1 DEF Since, BeforeBy
    <2>3. \A l \in 0..MaxLedger :
             Sum(Zero, l, l + WINDOW_LEDGERS - 1) <= 2 * (T - 1) + (1 + 0) * Largest
      BY <1>1, <1>4, <2>1
    <2>4. 0 \in 0..0
      OBVIOUS
    <2> QED BY <2>2, <2>3, <2>4 DEF Overshot
  <1> QED BY <1>2, <1>3, <1>5, <1>6, <1>7 DEF BreakerKept

LEMMA BreakerLater ==
  ASSUME NEW T \in Nat \ {0}, NEW R \in Nat, NEW c, NEW now \in 0..MaxLedger,
         Running(c, now), now + 1 <= MaxLedger,
         NEW b \in Breaker, NEW n \in Nat, BreakerKept(T, R, c, b, now, n)
  PROVE  BreakerKept(T, R, c, b, now + 1, n)
  <1>1. UpTo(c, now + 1) = UpTo(c, now)
    <2>1. now + 1 \in Int /\ now + 1 >= now
      OBVIOUS
    <2> QED BY <2>1, UpToFacts
  <1>2. n = 0 => Halted(T, R, c, b, now + 1)
    <2> SUFFICES ASSUME n = 0, NEW l \in 0..MaxLedger, Sum(c, l, l) >= T, now + 1 <= l + R
                 PROVE  b.tripped /\ b.trippedAt >= l
      BY DEF BreakerKept, Halted
    <2>1. now <= l + R
      BY BridgeAssumption
    <2> QED BY <2>1 DEF BreakerKept, Halted
  <1>3. Since(c, b.volume, now + 1) = Since(c, b.volume, now)
    BY <1>1 DEF Since, Sum
  <1> QED BY <1>1, <1>2, <1>3 DEF BreakerKept, Covers, Overshot

(* A manual reset of a thrown latch buys one more payout.                  *)
LEMMA ResetKeeps ==
  ASSUME NEW T \in Nat \ {0}, NEW R \in Nat, NEW c, NEW now \in 0..MaxLedger,
         Running(c, now), NEW b \in Breaker, b.tripped, NEW n \in Nat,
         BreakerKept(T, R, c, b, now, n)
  PROVE  BreakerKept(T, R, c, [b EXCEPT !.tripped = FALSE], now, n + 1)
  <1> DEFINE d == [b EXCEPT !.tripped = FALSE]
  <1>1. d.tripped = FALSE /\ d.volume = b.volume
    BY DEF Breaker
  <1> HIDE DEF d
  <1>2. ASSUME Overshot(T, c, b, now, n)
        PROVE  Overshot(T, c, d, now, n + 1)
    <2>1. Largest \in Nat /\ (1 + n) * Largest + Largest = (1 + (n + 1)) * Largest
          /\ (1 + n) * Largest \in Nat
      BY LargestFacts, TimesFacts
    <2>2. \A l \in 0..MaxLedger :
             Sum(c, l, l + WINDOW_LEDGERS - 1) <= 2 * (T - 1) + (1 + (n + 1)) * Largest
      <3> SUFFICES ASSUME NEW l \in 0..MaxLedger
                   PROVE  Sum(c, l, l + WINDOW_LEDGERS - 1)
                             <= 2 * (T - 1) + (1 + (n + 1)) * Largest
        OBVIOUS
      <3>1. Sum(c, l, l + WINDOW_LEDGERS - 1) \in Int
        <4>1. l - 1 \in Int /\ l + WINDOW_LEDGERS - 1 \in Int
          BY WindowAssumption
        <4> QED BY <4>1, UpToFacts DEF Sum
      <3>2. Sum(c, l, l + WINDOW_LEDGERS - 1) <= 2 * (T - 1) + (1 + n) * Largest
        BY <1>2 DEF Overshot
      <3> QED BY <2>1, <3>1, <3>2
    <2>3. ASSUME b.volume.start # None
          PROVE  \E k \in 0..(n + 1) :
                    /\ Since(c, b.volume, now) <= (T - 1) + ((n + 1) - k) * Largest
                    /\ BeforeBy(c, b.volume, (T - 1) + k * Largest)
      <3>1. PICK k \in 0..n :
               /\ Since(c, b.volume, now) <= (T - 1) + (n - k + 1) * Largest
               /\ BeforeBy(c, b.volume, (T - 1) + k * Largest)
        BY <1>2, <2>3 DEF Overshot
      <3>2. k \in 0..(n + 1) /\ n - k + 1 = (n + 1) - k
        OBVIOUS
      <3> QED BY <3>1, <3>2
    <2> QED BY <1>1, <2>2, <2>3 DEF Overshot
  <1>3. n + 1 # 0
    OBVIOUS
  <1>4. BreakerKept(T, R, c, d, now, n + 1)
    BY <1>1, <1>2, <1>3 DEF BreakerKept
  <1> QED BY <1>4 DEF d

(* A payout that is let through continues the breaker's window, or begins  *)
(* one: the old one is over, or the latch has been down its full time.     *)
LEMMA BreakerAfterFacts ==
  ASSUME NEW T \in Nat \ {0}, NEW R \in Nat, NEW now \in Nat, NEW x \in Nat,
         NEW b \in Breaker, BreakerAdmits(T, R, b, now),
         NEW d, d = BreakerAfter(T, b, now, x)
  PROVE  /\ d.tripped <=> d.volume.amount >= T
         /\ d.tripped => d.trippedAt = now
         /\ \/ /\ ~b.tripped /\ b.volume.start # None
               /\ now < b.volume.start + WINDOW_LEDGERS
               /\ d.volume.start = b.volume.start /\ d.volume.amount = b.volume.amount + x
            \/ /\ d.volume.start = now /\ d.volume.amount = x
               /\ \/ b.tripped /\ now > b.trippedAt + R
                  \/ /\ ~b.tripped
                     /\ b.volume.start = None \/ now >= b.volume.start + WINDOW_LEDGERS
  <1> DEFINE base  == IF b.tripped THEN [amount |-> 0, start |-> now] ELSE b.volume
             total == Charge(base, now, x)
             trips == total.amount >= T
  <1>1. d = [tripped |-> trips, trippedAt |-> IF trips THEN now ELSE b.trippedAt,
             volume |-> total]
    BY DEF BreakerAfter
  <1>2. d.tripped = trips /\ d.volume = total /\ (trips => d.trippedAt = now)
    BY <1>1
  <1>3. b.tripped => now > b.trippedAt + R
    BY DEF BreakerAdmits, BreakerClear, AutoResetDue
  <1>4. b.tripped => total.start = now /\ total.amount = x
    BY WindowAssumption DEF Charge, Rolled
  <1>5. b.volume \in Window
    BY DEF Breaker
  <1>6. ~b.tripped => total = Charge(b.volume, now, x)
    OBVIOUS
  <1>7. /\ Charge(b.volume, now, x).amount = Rolled(b.volume, now).amount + x
        /\ Charge(b.volume, now, x).start = Rolled(b.volume, now).start
        /\ \/ /\ b.volume.start # None /\ now < b.volume.start + WINDOW_LEDGERS
              /\ Rolled(b.volume, now) = b.volume
           \/ /\ b.volume.start = None \/ now >= b.volume.start + WINDOW_LEDGERS
              /\ Rolled(b.volume, now).amount = 0 /\ Rolled(b.volume, now).start = now
    BY <1>5, WindowFacts
  <1>8. /\ d.tripped <=> d.volume.amount >= T
        /\ d.tripped => d.trippedAt = now
    BY <1>2
  <1> HIDE DEF total, trips, base
  <1>9. CASE b.tripped
    BY <1>2, <1>3, <1>4, <1>8, <1>9
  <1>10. CASE ~b.tripped
    <2>1. d.volume = Charge(b.volume, now, x)
      BY <1>2, <1>6, <1>10
    <2>2. CASE /\ b.volume.start # None /\ now < b.volume.start + WINDOW_LEDGERS
               /\ Rolled(b.volume, now) = b.volume
      BY <1>7, <1>8, <1>10, <2>1, <2>2
    <2>3. CASE /\ b.volume.start = None \/ now >= b.volume.start + WINDOW_LEDGERS
               /\ Rolled(b.volume, now).amount = 0 /\ Rolled(b.volume, now).start = now
      <3>1. d.volume.start = now /\ d.volume.amount = 0 + x
        BY <1>7, <2>1, <2>3
      <3> QED BY <1>8, <1>10, <2>3, <3>1
    <2> QED BY <1>7, <2>2, <2>3
  <1> QED BY <1>9, <1>10

LEMMA PayoutKeeps ==
  ASSUME NEW T \in Nat \ {0}, NEW R \in Nat, NEW c, NEW now \in 0..MaxLedger, Running(c, now),
         NEW b \in Breaker, b.volume.start <= now, b.trippedAt <= now, NEW n \in Nat,
         NEW x \in Payouts, x > 0, BreakerKept(T, R, c, b, now, n), BreakerAdmits(T, R, b, now)
  PROVE  BreakerKept(T, R, Plus(c, now, x), BreakerAfter(T, b, now, x), now, n)
  <1> DEFINE W == WINDOW_LEDGERS
             d == BreakerAfter(T, b, now, x)
             U(l) == UpTo(c, l)
             V(l) == UpTo(Plus(c, now, x), l)
             s == b.volume.start
             t == d.volume.start
             Continues == ~b.tripped /\ s # None /\ now < s + W /\ t = s
                          /\ d.volume.amount = b.volume.amount + x
             Begins == t = now /\ d.volume.amount = x
                       /\ \/ b.tripped /\ now > b.trippedAt + R
                          \/ ~b.tripped /\ (s = None \/ now >= s + W)
  <1>1. /\ now \in Nat /\ MaxLedger \in Nat /\ W \in Nat \ {0} /\ x \in Nat
        /\ Largest \in Nat /\ x <= Largest
    BY BridgeAssumption, WindowAssumption, PayoutsAssumption, LargestFacts
  <1>2. /\ b.volume.amount \in Nat /\ s \in Int /\ (s # None => s \in Nat)
        /\ b.trippedAt \in Nat /\ b.tripped \in BOOLEAN
    BY DEF Breaker, Window, Optional, None
  <1>3. /\ d.tripped <=> d.volume.amount >= T
        /\ d.tripped => d.trippedAt = now
        /\ Continues \/ Begins
    BY <1>1, BreakerAfterFacts
  <1>4. /\ \A l \in Int : U(l) \in Nat
        /\ \A l, k \in Int : l <= k => U(l) <= U(k)
        /\ \A l \in Int : l >= now => U(l) = U(now)
    BY UpToFacts
  <1>5. \A l \in Int : V(l) = IF l >= now THEN U(l) + x ELSE U(l)
    BY <1>1, PlusFacts
  <1>6. /\ s = None => U(now) = 0
        /\ s # None => U(now) - U(s - 1) <= b.volume.amount
        /\ s # None => \A l \in 0..MaxLedger : l >= s + W - 1 => U(l) = U(now)
        /\ b.tripped => U(now) = U(b.trippedAt)
    BY DEF BreakerKept, Covers, Since, Sum
  <1>7. n = 0 => \A l \in 0..MaxLedger : U(l) - U(l - 1) >= T =>
                    /\ U(l + R) - U(l + 1 - 1) = 0
                    /\ now <= l + R => b.tripped /\ b.trippedAt >= l
    BY DEF BreakerKept, Halted, Sum
  <1>8. t \in 0..now /\ t # None
    BY <1>1, <1>2, <1>3 DEF None
  <1> HIDE DEF U, V, d, W
  <1>9. Begins => U(now - 1) = U(now)
    <2> SUFFICES ASSUME Begins
                 PROVE  U(now - 1) = U(now)
      OBVIOUS
    <2>1. CASE b.tripped
      <3>1. b.trippedAt <= now - 1 /\ b.trippedAt \in Int /\ now - 1 \in Int
        BY <1>1, <1>2, <2>1
      <3>2. U(b.trippedAt) <= U(now - 1) /\ U(now - 1) <= U(now)
        BY <1>1, <1>4, <3>1
      <3> QED BY <1>1, <1>4, <1>6, <2>1, <3>1, <3>2
    <2>2. CASE ~b.tripped /\ s = None
      BY <1>1, <1>4, <1>6, <2>2
    <2>3. CASE ~b.tripped /\ s # None
      BY <1>1, <1>2, <1>4, <1>6, <2>3
    <2> QED BY <2>1, <2>2, <2>3
  <1>10. V(now) - V(t - 1) <= d.volume.amount
    <2>1. CASE Continues
      BY <1>1, <1>2, <1>4, <1>5, <1>6, <2>1
    <2>2. CASE Begins
      BY <1>1, <1>4, <1>5, <1>9, <2>2
    <2> QED BY <1>3, <2>1, <2>2
  <1>11. Covers(Plus(c, now, x), d.volume, now)
    <2>1. \A l \in 0..MaxLedger : l >= t + W - 1 => V(l) = V(now)
      <3> SUFFICES ASSUME NEW l \in 0..MaxLedger, l >= t + W - 1
                   PROVE  V(l) = V(now)
        OBVIOUS
      <3>1. l >= now
        BY <1>1, <1>2, <1>3
      <3> QED BY <1>1, <1>4, <1>5, <3>1
    <2> QED BY <1>8, <1>10, <2>1 DEF Covers, Since, Sum, V, W
  <1>12. d.tripped => UpTo(Plus(c, now, x), now) = UpTo(Plus(c, now, x), d.trippedAt)
    BY <1>3
  <1>13. ASSUME n = 0
         PROVE  Halted(T, R, Plus(c, now, x), d, now)
    <2> SUFFICES ASSUME NEW l \in 0..MaxLedger, V(l) - V(l - 1) >= T
                 PROVE  /\ V(l + R) - V(l + 1 - 1) = 0
                        /\ now <= l + R => d.tripped /\ d.trippedAt >= l
      BY DEF Halted, Sum, V
    <2>1. CASE l < now
      <3>1. U(l) - U(l - 1) >= T
        BY <1>1, <1>5, <2>1
      <3>2. U(l + R) - U(l + 1 - 1) = 0 /\ (now <= l + R => b.tripped /\ b.trippedAt >= l)
        BY <1>7, <1>13, <3>1
      <3>3. ~(now <= l + R)
        BY <1>1, <1>2, <1>3, <3>2
      <3> QED BY <1>1, <1>4, <1>5, <2>1, <3>2, <3>3
    <2>2. CASE l = now
      <3>1. V(now) - V(now - 1) <= d.volume.amount /\ d.volume.amount \in Int
        <4>1. t - 1 <= now - 1 /\ t - 1 \in Int /\ now - 1 \in Int
          BY <1>1, <1>8
        <4>2. V(t - 1) <= V(now - 1)
          BY <1>1, <1>4, <1>5, <4>1
        <4>3. V(now) \in Int /\ V(t - 1) \in Int /\ V(now - 1) \in Int
          BY <1>1, <1>4, <1>5, <4>1
        <4> QED BY <1>1, <1>2, <1>3, <1>10, <4>2, <4>3
      <3>2. d.tripped /\ d.trippedAt = now
        BY <1>1, <1>3, <1>4, <1>5, <2>2, <3>1
      <3> QED BY <1>1, <1>4, <1>5, <2>2, <3>2
    <2>3. CASE l > now
      BY <1>1, <1>4, <1>5, <2>3
    <2> QED BY <1>1, <2>1, <2>2, <2>3
  <1>14. ASSUME R + 1 >= W
         PROVE  Overshot(T, Plus(c, now, x), d, now, n)
    <2> DEFINE A == T - 1
               M == Largest
    <2>1. /\ s # None => \E k \in 0..n :
             /\ U(now) - U(s - 1) <= A + (IF b.tripped THEN n - k + 1 ELSE n - k) * M
             /\ \A l \in 0..s : s < l + W => U(s - 1) - U(l - 1) <= A + k * M
          /\ \A l \in 0..MaxLedger : U(l + W - 1) - U(l - 1) <= 2 * A + (1 + n) * M
      BY <1>14 DEF BreakerKept, Overshot, BeforeBy, Since, Sum, U, W
    <2> HIDE DEF A, M
    <2>2. A \in Nat /\ A + 1 = T /\ M \in Nat /\ x <= M
      BY <1>1 DEF A, M
    <2>3. \A j \in 0..n :
             /\ j * M \in Nat /\ (n - j) * M \in Nat /\ (n - j) * M + j * M = n * M
             /\ (n - j + 1) * M = (n - j) * M + M
      BY <2>2, SharesFacts
    <2>4. (1 + n) * M = n * M + M /\ n * M \in Nat /\ (n - n) * M = 0 /\ (n - n + 1) * M = M
      BY <2>2, TimesFacts
    <2>5. \E j \in 0..n :
             /\ V(now) - V(t - 1) <= A + (IF d.tripped THEN n - j + 1 ELSE n - j) * M
             /\ \A l \in 0..t : t < l + W => V(t - 1) - V(l - 1) <= A + j * M
      <3>1. CASE Continues
        <4>1. PICK k \in 0..n :
                 /\ U(now) - U(s - 1) <= A + (n - k) * M
                 /\ \A l \in 0..s : s < l + W => U(s - 1) - U(l - 1) <= A + k * M
          BY <2>1, <3>1
        <4>2. V(now) = U(now) + x /\ V(t - 1) = U(s - 1) /\ U(now) \in Nat /\ U(s - 1) \in Nat
          BY <1>1, <1>2, <1>4, <1>5, <1>8, <3>1
        <4>3. V(now) - V(t - 1) <= A + (IF d.tripped THEN n - k + 1 ELSE n - k) * M
          <5>1. CASE d.tripped
            BY <1>1, <2>2, <2>3, <4>1, <4>2, <5>1
          <5>2. CASE ~d.tripped
            <6>1. d.volume.amount <= A
              BY <1>1, <1>2, <1>3, <2>2, <3>1, <5>2
            <6>2. V(now) - V(t - 1) <= A
              BY <1>1, <1>2, <1>10, <2>2, <3>1, <4>2, <6>1
            <6>3. (n - k) * M \in Nat
              BY <2>3
            <6> QED BY <1>1, <2>2, <4>2, <5>2, <6>2, <6>3
          <5> QED BY <5>1, <5>2
        <4>4. \A l \in 0..t : t < l + W => V(t - 1) - V(l - 1) <= A + k * M
          BY <1>1, <1>2, <1>4, <1>5, <1>8, <3>1, <4>1
        <4> QED BY <4>3, <4>4
      <3>2. CASE Begins
        <4>1. V(now) - V(t - 1) = x
          BY <1>1, <1>4, <1>5, <1>9, <3>2
        <4>2. V(now) - V(t - 1) <= A + (IF d.tripped THEN n - n + 1 ELSE n - n) * M
          BY <1>1, <1>3, <2>2, <2>4, <3>2, <4>1
        <4>3. ASSUME NEW l \in 0..now, now < l + W
              PROVE  U(now) - U(l - 1) <= A + n * M
          <5>1. CASE b.tripped
            <6>1. b.trippedAt <= l - 1 /\ b.trippedAt \in Int /\ l - 1 \in Int
              BY <1>1, <1>2, <1>14, <3>2, <4>3, <5>1
            <6>2. U(b.trippedAt) <= U(l - 1)
              BY <1>4, <6>1
            <6> QED BY <1>1, <1>4, <1>6, <2>2, <2>4, <5>1, <6>1, <6>2
          <5>2. CASE ~b.tripped /\ s = None
            BY <1>1, <1>4, <1>6, <2>2, <2>4, <5>2
          <5>3. CASE ~b.tripped /\ s # None
            <6>1. s - 1 <= l - 1 /\ s - 1 \in Int /\ l - 1 \in Int
              BY <1>1, <1>2, <3>2, <4>3, <5>3
            <6>2. U(s - 1) <= U(l - 1)
              BY <1>4, <6>1
            <6>3. PICK k \in 0..n : U(now) - U(s - 1) <= A + (n - k) * M
              BY <2>1, <5>3
            <6>4. (n - k) * M <= n * M /\ (n - k) * M \in Nat
              BY <2>3, <2>4
            <6> QED BY <1>1, <1>4, <2>2, <2>4, <6>1, <6>2, <6>3, <6>4
          <5> QED BY <5>1, <5>2, <5>3
        <4>4. \A l \in 0..t : t < l + W => V(t - 1) - V(l - 1) <= A + n * M
          BY <1>1, <1>4, <1>5, <1>9, <3>2, <4>3
        <4>5. n \in 0..n
          OBVIOUS
        <4> QED BY <4>2, <4>4, <4>5
      <3> QED BY <1>3, <3>1, <3>2
    <2>6. PICK j \in 0..n :
             /\ V(now) - V(t - 1) <= A + (IF d.tripped THEN n - j + 1 ELSE n - j) * M
             /\ \A l \in 0..t : t < l + W => V(t - 1) - V(l - 1) <= A + j * M
      BY <2>5
    <2>7. ASSUME NEW l \in 0..MaxLedger
          PROVE  V(l + W - 1) - V(l - 1) <= 2 * A + (1 + n) * M
      <3>1. CASE l > now \/ l + W - 1 < now
        BY <1>1, <1>4, <1>5, <2>1, <3>1
      <3>2. CASE l <= now /\ l + W - 1 >= now
        <4>1. V(l + W - 1) = V(now) /\ V(now) \in Int /\ V(t - 1) \in Int /\ V(l - 1) \in Int
          BY <1>1, <1>4, <1>5, <1>8, <3>2
        <4>2. V(now) - V(t - 1) <= A + (n - j) * M + M
          <5>1. (n - j) * M \in Nat /\ (n - j + 1) * M = (n - j) * M + M
            BY <2>3
          <5>2. V(now) - V(t - 1) <= A + (n - j + 1) * M \/ V(now) - V(t - 1) <= A + (n - j) * M
            BY <2>6
          <5> QED BY <2>2, <4>1, <5>1, <5>2
        <4>3. CASE t <= l
          <5>1. t - 1 <= l - 1 /\ t - 1 \in Int /\ l - 1 \in Int /\ l - 1 < now
            BY <1>1, <1>8, <3>2, <4>3
          <5>2. V(t - 1) <= V(l - 1)
            BY <1>1, <1>4, <1>5, <5>1
          <5> QED BY <2>2, <2>3, <2>4, <4>1, <4>2, <5>2
        <4>4. CASE l < t
          <5>1. V(t - 1) - V(l - 1) <= A + j * M
            BY <1>1, <1>8, <2>6, <3>2, <4>4
          <5> QED BY <2>2, <2>3, <2>4, <4>1, <4>2, <5>1
        <4> QED BY <1>8, <4>3, <4>4
      <3> QED BY <1>1, <3>1, <3>2
    <2> QED BY <1>8, <2>6, <2>7 DEF Overshot, BeforeBy, Since, Sum, V, W, A, M
  <1>15. BreakerKept(T, R, Plus(c, now, x), d, now, n)
    BY <1>11, <1>12, <1>13, <1>14 DEF BreakerKept, W
  <1> QED BY <1>15 DEF d

-----------------------------------------------------------------------------
(* The inductive invariant: every limit in force is kept by the total it   *)
(* bounds, and the breaker keeps the outflow.                              *)
VolumeTypes ==
    /\ resets \in Nat
    /\ Running(outflow, ledger) /\ breaker.volume.start <= ledger /\ breaker.trippedAt <= ledger
    /\ DOMAIN paidOut = Users /\ DOMAIN takenIn = Users /\ DOMAIN centsIn = Users
    /\ \A u \in Users :
          /\ Running(paidOut[u], ledger) /\ dailyOut[u].start <= ledger
          /\ Running(takenIn[u], ledger) /\ dailyIn[u].start <= ledger
          /\ Running(centsIn[u], ledger) /\ fiatIn[u].start <= ledger

IntakeKept ==
    \A u \in Users :
        /\ cfg.dailyDeposit > 0 => Respected(cfg.dailyDeposit, takenIn[u], dailyIn[u], ledger)
        /\ cfg.fiatLimit # None =>
              Respected(Larger(cfg.fiatLimit, 0), centsIn[u], fiatIn[u], ledger)

OutflowKept ==
    /\ cfg.quota > 0 => \A u \in Users : Respected(cfg.quota, paidOut[u], dailyOut[u], ledger)
    /\ cfg.breakerThreshold > 0 =>
          BreakerKept(cfg.breakerThreshold, cfg.breakerReset, outflow, breaker, ledger, resets)

VolumeInv == VolumeTypes /\ IntakeKept /\ OutflowKept

LEMMA VolumeArgs ==
  ASSUME Inv
  PROVE  /\ ledger \in 0..MaxLedger /\ ledger \in Nat /\ MaxLedger \in Nat
         /\ cfg.dailyDeposit \in Int /\ cfg.fiatLimit \in Int /\ cfg.quota \in Int
         /\ cfg.breakerThreshold \in Int /\ cfg.breakerReset \in Nat
         /\ Larger(cfg.fiatLimit, 0) \in Nat
         /\ breaker \in Breaker
         /\ dailyOut \in [Users -> Window] /\ dailyIn \in [Users -> Window]
         /\ fiatIn \in [Users -> Window]
  <1>1. TypeOK
    BY DEF Inv
  <1>2. MaxLedger \in Nat /\ U32_MAX \in Nat
    BY BridgeAssumption, WindowAssumption
  <1>3. cfg \in Config /\ ledger \in 0..MaxLedger
    BY <1>1 DEF TypeOK, PolicyTypeOK
  <1>4. /\ cfg.dailyDeposit \in Int /\ cfg.fiatLimit \in Int /\ cfg.quota \in Int
        /\ cfg.breakerThreshold \in Int /\ cfg.breakerReset \in 0..U32_MAX
    BY <1>3 DEF Config
  <1>5. /\ breaker \in Breaker
        /\ dailyOut \in [Users -> Window] /\ dailyIn \in [Users -> Window]
        /\ fiatIn \in [Users -> Window]
    BY <1>1 DEF TypeOK, OutflowTypeOK, DepositTypeOK, Breaker
  <1> QED BY <1>2, <1>3, <1>4, <1>5 DEF Larger

LEMMA VolumeInit == HistoryInit => VolumeInv
  <1> SUFFICES ASSUME HistoryInit PROVE VolumeInv
    OBVIOUS
  <1>1. /\ ledger = 0 /\ cfg = NewConfig /\ breaker = ClearBreaker /\ resets = 0 /\ outflow = Zero
        /\ dailyOut = [u \in Users |-> NoWindow] /\ dailyIn = [u \in Users |-> NoWindow]
        /\ fiatIn = [u \in Users |-> NoWindow]
        /\ paidOut = Nothing /\ takenIn = Nothing /\ centsIn = Nothing
    BY DEF HistoryInit, Init
  <1>2. Running(Zero, 0)
    BY ZeroFacts, BridgeAssumption
  <1>3. VolumeTypes
    BY <1>1, <1>2 DEF VolumeTypes, ClearBreaker, NoWindow, Nothing
  <1>4. ~(cfg.quota > 0) /\ ~(cfg.breakerThreshold > 0) /\ ~(cfg.dailyDeposit > 0)
        /\ ~(cfg.fiatLimit # None)
    BY <1>1 DEF NewConfig
  <1> QED BY <1>3, <1>4 DEF VolumeInv, IntakeKept, OutflowKept

(* An admitted charge keeps the total, the window and the limit.           *)
LEMMA Charged ==
  ASSUME NEW now \in 0..MaxLedger, NEW limit \in Nat, NEW x \in Nat,
         NEW c, Running(c, now), NEW w \in Window, w.start <= now,
         Respected(limit, c, w, now), Rolled(w, now).amount + x <= limit
  PROVE  /\ Running(Plus(c, now, x), now) /\ Charge(w, now, x).start <= now
         /\ Respected(limit, Plus(c, now, x), Charge(w, now, x), now)
  <1>1. now \in Nat
    BY BridgeAssumption
  <1>2. Running(Plus(c, now, x), now)
    BY PlusFacts
  <1>3. Respected(limit, Plus(c, now, x), Charge(w, now, x), now)
    BY ChargeRespects
  <1>4. Charge(w, now, x).start <= now
    BY <1>1, WindowFacts
  <1> QED BY <1>2, <1>3, <1>4

(* A deposit charges the two limits on what comes in, where they are set.  *)
LEMMA DepositKeepsVolume == Inv /\ VolumeInv /\ DepositAndRecord => VolumeInv'
  <1> SUFFICES ASSUME Inv, VolumeInv,
                      NEW u \in Users, NEW amt \in Amounts, NEW p \in Prices \cup {0},
                      NEW expected \in ExpectedPrices, NEW slip \in Slippages,
                      Deposit(u, amt, p, expected, slip),
                      takenIn' = IF cfg.dailyDeposit > 0
                                 THEN [takenIn EXCEPT ![u] = Plus(@, ledger, amt)] ELSE takenIn,
                      centsIn' = IF cfg.fiatLimit # None
                                 THEN [centsIn EXCEPT ![u] = Plus(@, ledger, UsdCents(amt, p))]
                                 ELSE centsIn,
                      UNCHANGED <<paidOut, outflow, resets>>
               PROVE  VolumeInv'
    BY DEF DepositAndRecord
  <1> DEFINE cents == UsdCents(amt, p)
             daily == cfg.dailyDeposit
             fiat  == Larger(cfg.fiatLimit, 0)
  <1>1. /\ ledger \in 0..MaxLedger /\ ledger \in Nat
        /\ daily \in Int /\ cfg.fiatLimit \in Int /\ fiat \in Nat
        /\ dailyIn \in [Users -> Window] /\ fiatIn \in [Users -> Window]
    BY VolumeArgs
  <1>2. /\ amt > 0 /\ Fits(daily, dailyIn[u], ledger, amt)
        /\ DepositPrice(p) /\ FiatLimitOk(u, amt, p)
        /\ dailyIn' = [dailyIn EXCEPT ![u] = ChargeIfOn(daily, @, ledger, amt)]
        /\ fiatIn' = IF cfg.fiatLimit = None THEN fiatIn
                     ELSE [fiatIn EXCEPT ![u] = Charge(@, ledger, cents)]
        /\ ledger' = ledger /\ cfg' = cfg /\ dailyOut' = dailyOut /\ breaker' = breaker
    BY DEF Deposit, policyVars, outVars
  <1>3. amt \in Nat /\ cents \in Nat
    <2>1. amt \in Nat
      BY <1>2, BridgeAssumption
    <2>2. p \in Nat
      BY <1>2, BridgeAssumption DEF DepositPrice
    <2> QED BY <2>1, <2>2, UsdCentsType
  <1>4. cfg.fiatLimit # None => Rolled(fiatIn[u], ledger).amount + cents <= fiat
    <2>1. ASSUME cfg.fiatLimit # None
          PROVE  /\ Rolled(fiatIn[u], ledger).amount + cents <= cfg.fiatLimit
                 /\ Rolled(fiatIn[u], ledger).amount \in Nat
      <3>1. fiatIn[u] \in Window
        BY <1>1
      <3> QED BY <1>1, <1>2, <2>1, <3>1, RolledType DEF FiatLimitOk, Window
    <2> QED BY <1>1, <1>3, <2>1 DEF Larger
  <1> HIDE DEF cents, daily, fiat
  <1>5. OutflowKept'
    BY <1>2 DEF VolumeInv, OutflowKept
  <1>6. /\ DOMAIN takenIn' = Users
        /\ \A v \in Users : /\ Running(takenIn'[v], ledger) /\ dailyIn'[v].start <= ledger
                            /\ daily > 0 => Respected(daily, takenIn'[v], dailyIn'[v], ledger)
    <2>1. CASE daily > 0
      <3>1. \A v \in Users : /\ Running(takenIn[v], ledger) /\ dailyIn[v].start <= ledger
                             /\ Respected(daily, takenIn[v], dailyIn[v], ledger)
        BY <2>1 DEF VolumeInv, VolumeTypes, IntakeKept, daily
      <3>2. /\ Rolled(dailyIn[u], ledger).amount + amt <= daily
            /\ dailyIn' = [dailyIn EXCEPT ![u] = Charge(@, ledger, amt)]
            /\ takenIn' = [takenIn EXCEPT ![u] = Plus(@, ledger, amt)]
        BY <1>2, <2>1 DEF Fits, ChargeIfOn, daily
      <3>3. DOMAIN takenIn = Users /\ daily \in Nat
        BY <1>1, <2>1 DEF VolumeInv, VolumeTypes
      <3>4. dailyIn[u] \in Window /\ ledger \in 0..MaxLedger
        BY <1>1
      <3>5. /\ Running(Plus(takenIn[u], ledger, amt), ledger)
            /\ Charge(dailyIn[u], ledger, amt).start <= ledger
            /\ Respected(daily, Plus(takenIn[u], ledger, amt), Charge(dailyIn[u], ledger, amt), ledger)
        BY <1>3, <3>1, <3>2, <3>3, <3>4, Charged
      <3>6. /\ DOMAIN takenIn' = Users
            /\ takenIn'[u] = Plus(takenIn[u], ledger, amt)
            /\ dailyIn'[u] = Charge(dailyIn[u], ledger, amt)
            /\ \A v \in Users : v # u => takenIn'[v] = takenIn[v] /\ dailyIn'[v] = dailyIn[v]
        BY <1>1, <3>2, <3>3
      <3> QED BY <3>1, <3>5, <3>6
    <2>2. CASE ~(daily > 0)
      <3>1. takenIn' = takenIn /\ dailyIn' = dailyIn
        BY <1>1, <1>2, <2>2 DEF ChargeIfOn, daily
      <3> QED BY <2>2, <3>1 DEF VolumeInv, VolumeTypes
    <2> QED BY <2>1, <2>2
  <1>7. /\ DOMAIN centsIn' = Users
        /\ \A v \in Users : /\ Running(centsIn'[v], ledger) /\ fiatIn'[v].start <= ledger
                            /\ cfg.fiatLimit # None =>
                                  Respected(fiat, centsIn'[v], fiatIn'[v], ledger)
    <2>1. CASE cfg.fiatLimit # None
      <3>1. \A v \in Users : /\ Running(centsIn[v], ledger) /\ fiatIn[v].start <= ledger
                             /\ Respected(fiat, centsIn[v], fiatIn[v], ledger)
        BY <2>1 DEF VolumeInv, VolumeTypes, IntakeKept, fiat
      <3>2. /\ fiatIn' = [fiatIn EXCEPT ![u] = Charge(@, ledger, cents)]
            /\ centsIn' = [centsIn EXCEPT ![u] = Plus(@, ledger, cents)]
        BY <1>2, <2>1 DEF cents
      <3>3. DOMAIN centsIn = Users
        BY DEF VolumeInv, VolumeTypes
      <3>4. fiatIn[u] \in Window /\ ledger \in 0..MaxLedger
        BY <1>1
      <3>5. /\ Running(Plus(centsIn[u], ledger, cents), ledger)
            /\ Charge(fiatIn[u], ledger, cents).start <= ledger
            /\ Respected(fiat, Plus(centsIn[u], ledger, cents), Charge(fiatIn[u], ledger, cents), ledger)
        BY <1>1, <1>3, <1>4, <2>1, <3>1, <3>4, Charged
      <3>6. /\ DOMAIN centsIn' = Users
            /\ centsIn'[u] = Plus(centsIn[u], ledger, cents)
            /\ fiatIn'[u] = Charge(fiatIn[u], ledger, cents)
            /\ \A v \in Users : v # u => centsIn'[v] = centsIn[v] /\ fiatIn'[v] = fiatIn[v]
        BY <1>1, <3>2, <3>3
      <3> QED BY <3>1, <3>5, <3>6
    <2>2. CASE ~(cfg.fiatLimit # None)
      BY <1>2, <2>2 DEF VolumeInv, VolumeTypes
    <2> QED BY <2>1, <2>2
  <1>8. VolumeTypes'
    BY <1>2, <1>6, <1>7 DEF VolumeInv, VolumeTypes
  <1>9. IntakeKept'
    BY <1>2, <1>6, <1>7 DEF IntakeKept, daily, fiat
  <1> QED BY <1>5, <1>8, <1>9 DEF VolumeInv

(* A payout charges the quota and the breaker, where they are set.         *)
LEMMA PayKeepsVolume ==
  ASSUME Inv, VolumeInv, NEW u \in Users, NEW amt \in Payouts, amt > 0,
         WithinLimits(u, amt), CountOutflow(u, amt), Pay(u, amt),
         UNCHANGED <<ledger, cfg, dailyIn, fiatIn>>
  PROVE  VolumeInv'
  <1> DEFINE T == cfg.breakerThreshold
             R == cfg.breakerReset
             quota == cfg.quota
             recorded == T > 0 \/ quota > 0
  <1>1. /\ ledger \in 0..MaxLedger /\ ledger \in Nat /\ amt \in Nat
        /\ T \in Int /\ R \in Nat /\ quota \in Int
        /\ breaker \in Breaker /\ dailyOut \in [Users -> Window]
    BY VolumeArgs, PayoutsAssumption, BridgeAssumption
  <1>2. /\ Fits(quota, dailyOut[u], ledger, amt)
        /\ BreakerAdmits(T, R, breaker, ledger)
        /\ dailyOut' = [dailyOut EXCEPT ![u] = ChargeIfOn(quota, @, ledger, amt)]
        /\ breaker' = BreakerAfter(T, breaker, ledger, amt)
    BY DEF WithinLimits, CountOutflow
  <1>3. /\ recorded => /\ paidOut' = [paidOut EXCEPT ![u] = Plus(@, ledger, amt)]
                       /\ outflow' = Plus(outflow, ledger, amt)
        /\ ~recorded => UNCHANGED <<paidOut, outflow>>
        /\ UNCHANGED <<takenIn, centsIn, resets>>
    BY DEF Pay
  <1>4. /\ DOMAIN paidOut = Users /\ Running(outflow, ledger) /\ resets \in Nat
        /\ breaker.volume.start <= ledger /\ breaker.trippedAt <= ledger
        /\ \A v \in Users : Running(paidOut[v], ledger) /\ dailyOut[v].start <= ledger
    BY DEF VolumeInv, VolumeTypes
  <1> HIDE DEF T, R, quota
  <1>5. Running(outflow', ledger)
    BY <1>1, <1>3, <1>4, PlusFacts
  <1>6. /\ DOMAIN paidOut' = Users
        /\ \A v \in Users : Running(paidOut'[v], ledger)
    <2>1. CASE recorded
      BY <1>1, <1>3, <1>4, <2>1, PlusFacts
    <2>2. CASE ~recorded
      BY <1>3, <1>4, <2>2
    <2> QED BY <2>1, <2>2
  <1>7. \A v \in Users : /\ dailyOut'[v].start <= ledger
                         /\ quota > 0 => Respected(quota, paidOut'[v], dailyOut'[v], ledger)
    <2>1. CASE quota > 0
      <3>1. \A v \in Users : /\ Running(paidOut[v], ledger) /\ dailyOut[v].start <= ledger
                             /\ Respected(quota, paidOut[v], dailyOut[v], ledger)
        BY <1>4, <2>1 DEF VolumeInv, OutflowKept, quota
      <3>2. /\ Rolled(dailyOut[u], ledger).amount + amt <= quota
            /\ dailyOut' = [dailyOut EXCEPT ![u] = Charge(@, ledger, amt)]
            /\ paidOut' = [paidOut EXCEPT ![u] = Plus(@, ledger, amt)]
        BY <1>2, <1>3, <2>1 DEF Fits, ChargeIfOn
      <3>3. quota \in Nat
        BY <1>1, <2>1
      <3>4. dailyOut[u] \in Window /\ ledger \in 0..MaxLedger
        BY <1>1
      <3>5. /\ Running(Plus(paidOut[u], ledger, amt), ledger)
            /\ Charge(dailyOut[u], ledger, amt).start <= ledger
            /\ Respected(quota, Plus(paidOut[u], ledger, amt), Charge(dailyOut[u], ledger, amt), ledger)
        BY <1>1, <3>1, <3>2, <3>3, <3>4, Charged
      <3>6. /\ DOMAIN paidOut' = Users
            /\ paidOut'[u] = Plus(paidOut[u], ledger, amt)
            /\ dailyOut'[u] = Charge(dailyOut[u], ledger, amt)
            /\ \A v \in Users : v # u => paidOut'[v] = paidOut[v] /\ dailyOut'[v] = dailyOut[v]
        BY <1>1, <1>4, <3>2
      <3> QED BY <3>1, <3>5, <3>6
    <2>2. CASE ~(quota > 0)
      <3>1. dailyOut' = dailyOut
        BY <1>1, <1>2, <2>2 DEF ChargeIfOn
      <3> QED BY <1>4, <2>2, <3>1
    <2> QED BY <2>1, <2>2
  <1>8. /\ breaker'.volume.start <= ledger /\ breaker'.trippedAt <= ledger
        /\ T > 0 => BreakerKept(T, R, outflow', breaker', ledger, resets)
    <2>1. CASE T > 0
      <3>1. T \in Nat \ {0} /\ BreakerKept(T, R, outflow, breaker, ledger, resets)
        BY <1>1, <2>1 DEF VolumeInv, OutflowKept, T, R
      <3>2. BreakerKept(T, R, outflow', breaker', ledger, resets)
        BY <1>1, <1>2, <1>3, <1>4, <2>1, <3>1, PayoutKeeps
      <3>3. breaker'.volume.start <= ledger
        BY <1>1, <1>2, <1>4, <3>1, BreakerAfterFacts
      <3>4. breaker'.trippedAt <= ledger
        <4>1. breaker'.trippedAt = ledger \/ breaker'.trippedAt = breaker.trippedAt
          BY <1>2, <2>1 DEF BreakerAfter
        <4> QED BY <1>1, <1>4, <4>1
      <3> QED BY <3>2, <3>3, <3>4
    <2>2. CASE ~(T > 0)
      <3>1. breaker' = breaker
        BY <1>1, <1>2, <2>2 DEF BreakerAfter
      <3> QED BY <1>4, <2>2, <3>1
    <2> QED BY <2>1, <2>2
  <1>9. VolumeTypes'
    BY <1>3, <1>4, <1>5, <1>6, <1>7, <1>8 DEF VolumeInv, VolumeTypes
  <1>10. IntakeKept'
    BY <1>3 DEF VolumeInv, IntakeKept
  <1>11. OutflowKept'
    BY <1>3, <1>7, <1>8 DEF OutflowKept, T, R, quota
  <1> QED BY <1>9, <1>10, <1>11 DEF VolumeInv

(* A limit that changes starts from nothing recorded; the others go on.    *)
LEMMA ConfigureKeepsVolume == Inv /\ Inv' /\ VolumeInv /\ ConfigureAndRecord => VolumeInv'
  <1> SUFFICES ASSUME Inv, Inv', VolumeInv, ConfigureAndRecord PROVE VolumeInv'
    OBVIOUS
  <1>1. UNCHANGED <<ledger, dailyIn, fiatIn, dailyOut, breaker>>
    <2>1. \A c : StoreConfig(c) => UnchangedButPolicy
      BY DEF StoreConfig
    <2>2. UnchangedButPolicy
      BY <2>1
         DEF ConfigureAndRecord,
             Configure, SetLimit, SetLimitMaxCap, SetDailyDepositLimit, SetMinDeposit,
             SetCooldown, SetWithdrawalCooldown, SetLockPeriod, SetAntiSandwichDelay,
             SetOracle, SetFiatLimit, SetWithdrawalQuota, SetWithdrawalExpiry,
             SetBreakerThreshold, SetBreakerResetWindow
    <2> QED BY <2>2 DEF UnchangedButPolicy, depositVars, outVars
  <1>2. /\ takenIn' = IF cfg'.dailyDeposit = cfg.dailyDeposit THEN takenIn ELSE Nothing
        /\ centsIn' = IF cfg'.fiatLimit = cfg.fiatLimit THEN centsIn ELSE Nothing
        /\ IF OutflowRules' = OutflowRules THEN UNCHANGED <<paidOut, outflow, resets>>
           ELSE paidOut' = Nothing /\ outflow' = Zero /\ resets' = 0
    BY DEF ConfigureAndRecord
  <1>3. /\ ledger \in 0..MaxLedger
        /\ cfg'.dailyDeposit \in Int /\ cfg'.quota \in Int /\ Larger(cfg'.fiatLimit, 0) \in Nat
        /\ cfg'.breakerThreshold \in Int /\ cfg'.breakerReset \in Nat
        /\ breaker \in Breaker /\ dailyOut \in [Users -> Window]
        /\ dailyIn \in [Users -> Window] /\ fiatIn \in [Users -> Window]
    <2>1. /\ cfg'.dailyDeposit \in Int /\ cfg'.quota \in Int /\ Larger(cfg'.fiatLimit, 0) \in Nat
          /\ cfg'.breakerThreshold \in Int /\ cfg'.breakerReset \in Nat
      <3>1. cfg' \in Config
        BY DEF Inv, TypeOK, PolicyTypeOK
      <3> QED BY <3>1, WindowAssumption DEF Config, Larger
    <2> QED BY <2>1, VolumeArgs
  <1>4. Running(Zero, ledger)
    BY <1>3, ZeroFacts
  <1>5. DOMAIN Nothing = Users /\ \A u \in Users : Nothing[u] = Zero
    BY DEF Nothing
  <1>6. VolumeTypes'
    <2>1. resets' \in Nat /\ Running(outflow', ledger)
      BY <1>2, <1>4 DEF VolumeInv, VolumeTypes
    <2>2. /\ DOMAIN paidOut' = Users /\ DOMAIN takenIn' = Users /\ DOMAIN centsIn' = Users
          /\ \A u \in Users : /\ Running(paidOut'[u], ledger) /\ Running(takenIn'[u], ledger)
                              /\ Running(centsIn'[u], ledger)
      BY <1>2, <1>4, <1>5 DEF VolumeInv, VolumeTypes
    <2> QED BY <1>1, <2>1, <2>2 DEF VolumeInv, VolumeTypes
  <1>7. IntakeKept'
    <2> SUFFICES ASSUME NEW u \in Users
                 PROVE  /\ cfg'.dailyDeposit > 0 =>
                              Respected(cfg'.dailyDeposit, takenIn'[u], dailyIn[u], ledger)
                        /\ cfg'.fiatLimit # None =>
                              Respected(Larger(cfg'.fiatLimit, 0), centsIn'[u], fiatIn[u], ledger)
      BY <1>1 DEF IntakeKept
    <2>1. /\ dailyIn[u] \in Window /\ dailyIn[u].start <= ledger
          /\ fiatIn[u] \in Window /\ fiatIn[u].start <= ledger
      BY <1>3 DEF VolumeInv, VolumeTypes
    <2>2. cfg'.dailyDeposit > 0 => Respected(cfg'.dailyDeposit, takenIn'[u], dailyIn[u], ledger)
      <3>1. CASE cfg'.dailyDeposit = cfg.dailyDeposit
        BY <1>2, <3>1 DEF VolumeInv, IntakeKept
      <3>2. CASE cfg'.dailyDeposit # cfg.dailyDeposit
        BY <1>2, <1>3, <1>5, <2>1, <3>2, ZeroRespected
      <3> QED BY <3>1, <3>2
    <2>3. cfg'.fiatLimit # None =>
            Respected(Larger(cfg'.fiatLimit, 0), centsIn'[u], fiatIn[u], ledger)
      <3>1. CASE cfg'.fiatLimit = cfg.fiatLimit
        BY <1>2, <3>1 DEF VolumeInv, IntakeKept
      <3>2. CASE cfg'.fiatLimit # cfg.fiatLimit
        BY <1>2, <1>3, <1>5, <2>1, <3>2, ZeroRespected
      <3> QED BY <3>1, <3>2
    <2> QED BY <2>2, <2>3
  <1>8. OutflowKept'
    <2>1. CASE OutflowRules' = OutflowRules
      <3>1. /\ cfg'.quota = cfg.quota /\ cfg'.breakerThreshold = cfg.breakerThreshold
            /\ cfg'.breakerReset = cfg.breakerReset
        BY <2>1 DEF OutflowRules
      <3> QED BY <1>1, <1>2, <2>1, <3>1 DEF VolumeInv, OutflowKept
    <2>2. CASE OutflowRules' # OutflowRules
      <3>1. cfg'.quota > 0 =>
              \A u \in Users : Respected(cfg'.quota, paidOut'[u], dailyOut[u], ledger)
        BY <1>2, <1>3, <1>5, <2>2, ZeroRespected DEF VolumeInv, VolumeTypes
      <3>2. cfg'.breakerThreshold > 0 =>
              BreakerKept(cfg'.breakerThreshold, cfg'.breakerReset, Zero, breaker, ledger, 0)
        BY <1>3, ZeroBreaker DEF VolumeInv, VolumeTypes
      <3> QED BY <1>1, <1>2, <2>2, <3>1, <3>2 DEF OutflowKept
    <2> QED BY <2>1, <2>2
  <1> QED BY <1>6, <1>7, <1>8 DEF VolumeInv

LEMMA ResetKeepsVolume == Inv /\ VolumeInv /\ ResetAndRecord => VolumeInv'
  <1> SUFFICES ASSUME Inv, VolumeInv, ResetAndRecord PROVE VolumeInv'
    OBVIOUS
  <1> DEFINE d == [breaker EXCEPT !.tripped = FALSE]
  <1>1. /\ breaker' = d
        /\ resets' = IF breaker.tripped THEN resets + 1 ELSE resets
        /\ UNCHANGED <<ledger, cfg, dailyIn, fiatIn, dailyOut, paidOut, outflow, takenIn, centsIn>>
    BY DEF ResetAndRecord, ResetBreaker, policyVars, depositVars
  <1>2. /\ ledger \in 0..MaxLedger /\ cfg.breakerThreshold \in Int /\ cfg.breakerReset \in Nat
        /\ breaker \in Breaker
    BY VolumeArgs
  <1>3. /\ breaker'.volume = breaker.volume /\ breaker'.trippedAt = breaker.trippedAt
        /\ ~breaker.tripped => breaker' = breaker
    BY <1>1, <1>2 DEF Breaker
  <1>4. cfg.breakerThreshold > 0 =>
          BreakerKept(cfg.breakerThreshold, cfg.breakerReset, outflow, breaker', ledger, resets')
    <2> SUFFICES ASSUME cfg.breakerThreshold > 0
                 PROVE  BreakerKept(cfg.breakerThreshold, cfg.breakerReset, outflow, breaker',
                                    ledger, resets')
      OBVIOUS
    <2>1. /\ BreakerKept(cfg.breakerThreshold, cfg.breakerReset, outflow, breaker, ledger, resets)
          /\ Running(outflow, ledger) /\ resets \in Nat
          /\ cfg.breakerThreshold \in Nat \ {0}
      BY <1>2 DEF VolumeInv, VolumeTypes, OutflowKept
    <2>2. CASE breaker.tripped
      BY <1>1, <1>2, <2>1, <2>2, ResetKeeps
    <2>3. CASE ~breaker.tripped
      BY <1>1, <1>3, <2>1, <2>3
    <2> QED BY <2>2, <2>3
  <1>5. VolumeTypes'
    BY <1>1, <1>3 DEF VolumeInv, VolumeTypes
  <1> QED BY <1>1, <1>4, <1>5 DEF VolumeInv, IntakeKept, OutflowKept

LEMMA TickKeepsVolume ==
  ASSUME Inv, VolumeInv, Tick, UNCHANGED histVars
  PROVE  VolumeInv'
  <1>1. /\ ledger' = ledger + 1 /\ ledger < MaxLedger
        /\ UNCHANGED <<cfg, dailyIn, fiatIn, dailyOut, breaker, paidOut, outflow, takenIn, centsIn,
                       resets>>
    BY DEF Tick, histVars, policyVars, depositVars, outVars
  <1>2. /\ ledger \in 0..MaxLedger /\ ledger \in Nat /\ ledger + 1 <= MaxLedger
        /\ cfg.dailyDeposit \in Int /\ cfg.quota \in Int /\ Larger(cfg.fiatLimit, 0) \in Nat
        /\ cfg.breakerThreshold \in Int /\ cfg.breakerReset \in Nat
        /\ breaker \in Breaker /\ dailyOut \in [Users -> Window]
        /\ dailyIn \in [Users -> Window] /\ fiatIn \in [Users -> Window]
    BY <1>1, VolumeArgs
  <1>3. /\ \A u \in Users : /\ dailyOut[u].start \in Int /\ dailyIn[u].start \in Int
                            /\ fiatIn[u].start \in Int
        /\ breaker.volume.start \in Int /\ breaker.trippedAt \in Int
    BY <1>2 DEF Breaker, Window, Optional, None
  <1>4. VolumeTypes'
    BY <1>1, <1>2, <1>3, RunningLater DEF VolumeInv, VolumeTypes
  <1>5. IntakeKept'
    BY <1>1, <1>2, RespectedLater DEF VolumeInv, VolumeTypes, IntakeKept
  <1>6. OutflowKept'
    BY <1>1, <1>2, RespectedLater, BreakerLater DEF VolumeInv, VolumeTypes, OutflowKept
  <1> QED BY <1>4, <1>5, <1>6 DEF VolumeInv

LEMMA VolumeStep == Inv /\ Inv' /\ VolumeInv /\ [HistoryNext]_allVars => VolumeInv'
  <1> SUFFICES ASSUME Inv, Inv', VolumeInv, [HistoryNext]_allVars PROVE VolumeInv'
    OBVIOUS
  <1>1. ASSUME UNCHANGED <<ledger, cfg, dailyIn, fiatIn, dailyOut, breaker, paidOut, outflow,
                           takenIn, centsIn, resets>>
        PROVE  VolumeInv'
    BY <1>1 DEF VolumeInv, VolumeTypes, IntakeKept, OutflowKept
  <1>2. CASE DepositAndRecord
    BY <1>2, DepositKeepsVolume
  <1>3. CASE WithdrawAndRecord
    BY <1>3, PayKeepsVolume DEF WithdrawAndRecord, Withdraw, policyVars, depositVars
  <1>4. ASSUME NEW id \in Pending(wq), NEW amt \in Payouts, NEW p, NEW expected, NEW slip,
               ExecuteWithdrawal(id, amt, execNonce[wq.req[id].to], p, expected, slip),
               Pay(wq.req[id].to, amt)
        PROVE  VolumeInv'
    <2>1. wq.req[id].to \in Users
      BY DEF Inv, TypeOK, QueueTypeOK, IsQueue, Request
    <2>2. /\ amt > 0 /\ WithinLimits(wq.req[id].to, amt) /\ CountOutflow(wq.req[id].to, amt)
          /\ UNCHANGED <<ledger, cfg, dailyIn, fiatIn>>
      BY <1>4 DEF ExecuteWithdrawal, policyVars, depositVars
    <2> QED BY <1>4, <2>1, <2>2, PayKeepsVolume
  <1>5. CASE ExecuteAndRecord
    BY <1>4, <1>5 DEF ExecuteAndRecord
  <1>6. CASE ConfigureAndRecord \/ ResetAndRecord
    BY <1>6, ConfigureKeepsVolume, ResetKeepsVolume
  <1>7. CASE QueueAndClock
    <2>1. CASE Tick
      BY <1>7, <2>1, TickKeepsVolume DEF QueueAndClock
    <2>2. CASE \E u \in Users, amt \in Payouts, t \in Tiers : RequestWithdrawal(u, amt, t)
      <3>1. UNCHANGED <<ledger, policyVars, depositVars, outVars>>
        BY <2>2 DEF RequestWithdrawal
      <3> QED BY <1>1, <1>7, <3>1 DEF QueueAndClock, histVars, policyVars, depositVars, outVars
    <2>3. CASE \E id \in Pending(wq) : CancelWithdrawal(id)
      <3>1. UNCHANGED <<ledger, policyVars, depositVars, outVars>>
        BY <2>3 DEF CancelWithdrawal, Release
      <3> QED BY <1>1, <1>7, <3>1 DEF QueueAndClock, histVars, policyVars, depositVars, outVars
    <2>4. CASE \E u \in Users : EvictLastDeposit(u) \/ EvictLastLarge(u)
      <3>1. UNCHANGED <<ledger, policyVars, dailyIn, fiatIn, outVars>>
        BY <2>4 DEF EvictLastDeposit, EvictLastLarge
      <3> QED BY <1>1, <1>7, <3>1 DEF QueueAndClock, histVars, policyVars, outVars
    <2> QED BY <1>7, <2>1, <2>2, <2>3, <2>4 DEF QueueAndClock
  <1>8. CASE UNCHANGED allVars
    BY <1>1, <1>8 DEF allVars, vars, histVars, policyVars, depositVars, outVars
  <1> QED BY <1>2, <1>3, <1>5, <1>6, <1>7, <1>8 DEF HistoryNext

(* In every reachable state of the recorded bridge each window covers what *)
(* it stands for (lib.rs: check_and_update_circuit_breaker,                *)
(* check_withdrawal_quota and the daily and fiat limits of deposit).       *)
THEOREM VolumeInvariance == HistorySpec => []VolumeInv
  <1>1. HistoryInit => VolumeInv
    BY VolumeInit
  <1>2. HistorySpec => []Inv
    BY HistoryInvariance, PTL DEF HistoryInv
  <1> QED BY <1>1, <1>2, VolumeStep, PTL DEF HistorySpec, allVars

(* However payouts are timed and split, no user is paid more than twice    *)
(* the quota in any interval of a window's length.                         *)
THEOREM QuotaHolds == HistorySpec => []QuotaBoundsUser
  <1>1. VolumeInv => QuotaBoundsUser
    BY DEF VolumeInv, OutflowKept, Respected, QuotaBoundsUser
  <1> QED BY <1>1, VolumeInvariance, PTL

(* Nor does a user deposit more than twice a limit in force.               *)
THEOREM DepositLimitsServed == HistorySpec => []DepositLimitsHold
  <1>1. VolumeInv => DepositLimitsHold
    BY DEF VolumeInv, IntakeKept, Respected, DepositLimitsHold
  <1> QED BY <1>1, VolumeInvariance, PTL

(* A ledger whose payouts reach the threshold is followed by none for the  *)
(* whole reset window.                                                     *)
THEOREM TripsHalt == HistorySpec => []TripHalts
  <1>1. VolumeInv => TripHalts
    BY DEF VolumeInv, OutflowKept, BreakerKept, Halted, TripHalts
  <1> QED BY <1>1, VolumeInvariance, PTL

(* What leaves in any interval of a window's length is bounded by twice    *)
(* the threshold and one largest payout for each reset and one more.       *)
THEOREM OutflowBounded == HistorySpec => []BreakerBoundsOutflow
  <1>1. VolumeInv => BreakerBoundsOutflow
    BY DEF VolumeInv, OutflowKept, BreakerKept, Overshot, BreakerBoundsOutflow
  <1> QED BY <1>1, VolumeInvariance, PTL
=============================================================================

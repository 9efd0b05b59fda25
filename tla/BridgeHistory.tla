---------------------------- MODULE BridgeHistory ----------------------------
(***************************************************************************)
(* FiatBridge with a memory the contract does not have: what was paid and  *)
(* taken in at every ledger, and what each depositor was last promised.    *)
(* The contract answers from lazily restarted windows and from temporary   *)
(* entries that expire; these properties compare its answers with what     *)
(* really happened.                                                        *)
(***************************************************************************)
EXTENDS FiatBridge

CONSTANT Payouts        \* amounts a payout may be asked for

(* Some payout is the largest, and it is not negative.                     *)
ASSUME PayoutsAssumption ==
    /\ Payouts \subseteq Amounts
    /\ \E m \in Payouts \cap Nat : \A x \in Payouts : x <= m

(* Running totals: each gives, for a ledger, the sum up to its end.        *)
VARIABLES
    paidOut,    \* user -> total paid to the user under the present rules
    outflow,    \* total paid to anybody under the present rules
    takenIn,    \* user -> total deposited under the present daily limit
    centsIn,    \* user -> total of its value under the present fiat limit
    last,       \* user -> the last deposit, the last large one, and their settings
    resets      \* reset_circuit_breaker calls that cleared a latch, likewise

histVars == <<paidOut, outflow, takenIn, centsIn, last, resets>>

Zero == [l \in 0..MaxLedger |-> 0]
Nothing == [u \in Users |-> Zero]

(* The running total once x is added at ledger `now`.                      *)
Plus(total, now, x) == [l \in 0..MaxLedger |-> IF l >= now THEN total[l] + x ELSE total[l]]
NoDeposit == [at |-> None, cooldown |-> 0, antiSandwich |-> 0,
              largeAt |-> None, withdrawCooldown |-> 0]

HistoryInit ==
    /\ Init
    /\ paidOut = Nothing /\ outflow = Zero /\ takenIn = Nothing /\ centsIn = Nothing
    /\ last = [u \in Users |-> NoDeposit] /\ resets = 0

Remembered(d, large) ==
    [at |-> ledger, cooldown |-> cfg.cooldown, antiSandwich |-> cfg.antiSandwich,
     largeAt |-> IF large THEN ledger ELSE d.largeAt,
     withdrawCooldown |-> IF large THEN cfg.withdrawCooldown ELSE d.withdrawCooldown]

DepositAndRecord ==
    \E u \in Users, amt \in Amounts, p \in Prices \cup {0},
       expected \in ExpectedPrices, slip \in Slippages :
        /\ Deposit(u, amt, p, expected, slip)
        /\ takenIn' = IF cfg.dailyDeposit > 0
                      THEN [takenIn EXCEPT ![u] = Plus(@, ledger, amt)] ELSE takenIn
        /\ centsIn' = IF cfg.fiatLimit # None
                      THEN [centsIn EXCEPT ![u] = Plus(@, ledger, UsdCents(amt, p))] ELSE centsIn
        /\ last' = [last EXCEPT ![u] = Remembered(@,
                        cfg.largeDeposit > 0 /\ amt >= cfg.largeDeposit)]
        /\ UNCHANGED <<paidOut, outflow, resets>>

Pay(u, amt) ==
    /\ IF cfg.breakerThreshold > 0 \/ cfg.quota > 0
       THEN /\ paidOut' = [paidOut EXCEPT ![u] = Plus(@, ledger, amt)]
            /\ outflow' = Plus(outflow, ledger, amt)
       ELSE UNCHANGED <<paidOut, outflow>>
    /\ UNCHANGED <<takenIn, centsIn, last, resets>>

WithdrawAndRecord ==
    \E u \in Users, amt \in Payouts : Withdraw(u, amt) /\ Pay(u, amt)

ExecuteAndRecord ==
    \E id \in Pending(wq), amt \in Payouts, p \in Prices \cup {0},
       expected \in ExpectedPrices, slip \in Slippages :
        /\ ExecuteWithdrawal(id, amt, execNonce[wq.req[id].to], p, expected, slip)
        /\ Pay(wq.req[id].to, amt)

(* Totals are kept under constant rules: a change of the rules clears them. *)
OutflowRules == <<cfg.breakerThreshold, cfg.breakerReset, cfg.quota>>

ConfigureAndRecord ==
    /\ Configure
    /\ takenIn' = IF cfg'.dailyDeposit = cfg.dailyDeposit THEN takenIn ELSE Nothing
    /\ centsIn' = IF cfg'.fiatLimit = cfg.fiatLimit THEN centsIn ELSE Nothing
    /\ IF OutflowRules' = OutflowRules THEN UNCHANGED <<paidOut, outflow, resets>>
       ELSE paidOut' = Nothing /\ outflow' = Zero /\ resets' = 0
    /\ UNCHANGED last

ResetAndRecord ==
    /\ ResetBreaker
    /\ resets' = IF breaker.tripped THEN resets + 1 ELSE resets
    /\ UNCHANGED <<paidOut, outflow, takenIn, centsIn, last>>

QueueAndClock ==
    /\ \/ \E u \in Users, amt \in Payouts, t \in Tiers : RequestWithdrawal(u, amt, t)
       \/ \E id \in Pending(wq) : CancelWithdrawal(id)
       \/ \E u \in Users : EvictLastDeposit(u) \/ EvictLastLarge(u)
       \/ Tick
    /\ UNCHANGED histVars

HistoryNext ==
    \/ DepositAndRecord \/ WithdrawAndRecord \/ ExecuteAndRecord
    \/ ConfigureAndRecord \/ ResetAndRecord \/ QueueAndClock

HistorySpec == HistoryInit /\ [][HistoryNext]_<<vars, histVars>>

-----------------------------------------------------------------------------
Smaller(a, b) == IF a <= b THEN a ELSE b

UpTo(total, l) == IF l < 0 THEN 0 ELSE total[Smaller(l, MaxLedger)]

(* What was added at the ledgers from..to.                                 *)
Sum(total, from, to) == UpTo(total, to) - UpTo(total, from - 1)

Largest == CHOOSE m \in Payouts : \A x \in Payouts : x <= m

(* The circuit breaker's window restarts at its own time, so an interval   *)
(* of WINDOW_LEDGERS straddles two: what is paid in ANY such interval      *)
(* stays below twice the threshold by the last payout, which may overshoot *)
(* by its whole amount, and each manual reset of a tripped breaker buys    *)
(* one more.  It needs a reset window that covers the volume window.       *)
BreakerBoundsOutflow ==
    cfg.breakerThreshold > 0 /\ cfg.breakerReset + 1 >= WINDOW_LEDGERS =>
        \A l \in 0..MaxLedger :
            Sum(outflow, l, l + WINDOW_LEDGERS - 1)
                <= 2 * (cfg.breakerThreshold - 1) + (1 + resets) * Largest

(* A ledger whose payouts reached the threshold is followed by none for    *)
(* the whole reset window, however the payouts are spread over users,      *)
(* direct withdrawals and the queue, unless the admin resets the breaker.  *)
TripHalts ==
    cfg.breakerThreshold > 0 /\ resets = 0 =>
        \A l \in 0..MaxLedger :
            Sum(outflow, l, l) >= cfg.breakerThreshold =>
                Sum(outflow, l + 1, l + cfg.breakerReset) = 0

(* No user is paid more than twice the quota in any interval of            *)
(* WINDOW_LEDGERS, through whichever path.                                 *)
QuotaBoundsUser ==
    cfg.quota > 0 => \A u \in Users, l \in 0..MaxLedger :
        Sum(paidOut[u], l, l + WINDOW_LEDGERS - 1) <= 2 * cfg.quota

(* The same for deposits under the daily limit and under the fiat limit,   *)
(* counted from the moment the present limit was set.                      *)
DepositLimitsHold ==
    \A u \in Users, l \in 0..MaxLedger :
        /\ cfg.dailyDeposit > 0 =>
             Sum(takenIn[u], l, l + WINDOW_LEDGERS - 1) <= 2 * cfg.dailyDeposit
        /\ cfg.fiatLimit # None =>
             Sum(centsIn[u], l, l + WINDOW_LEDGERS - 1) <= 2 * Larger(cfg.fiatLimit, 0)

(* A queued payout leaves the anti-sandwich delay after the payee's last   *)
(* deposit, the one in force then or now, whichever is less, although the  *)
(* entry it is read from may have expired.  Only execute_withdrawal reads  *)
(* that delay: the deposits, which the setter's documentation says it      *)
(* separates, never do, and this says nothing of them.                     *)
AntiSandwichHolds ==
    [][\A u \in Users : execNonce'[u] # execNonce[u] /\ last[u].at # None =>
        ledger >= last[u].at + Smaller(cfg.antiSandwich, last[u].antiSandwich)]_<<vars, histVars>>

(* Deposits of one user are a cooldown apart, in the same sense: the       *)
(* cooldown, and not the anti-sandwich delay, is what keeps them apart.    *)
CooldownHolds ==
    [][\A u \in Users : userDeposited'[u] # userDeposited[u] /\ last[u].at # None =>
        ledger >= last[u].at + Smaller(cfg.cooldown, last[u].cooldown)]_<<vars, histVars>>

(* The wait of a queued payout and the wait of the next deposit are read   *)
(* from one entry, which lasts as long as the longer of them               *)
(* (lib.rs:1050-1075, 1655-1668).                                          *)
DepositWaitsHold == AntiSandwichHolds /\ CooldownHolds

(* No request is queued for a user within the withdrawal cooldown of the   *)
(* user's last large deposit, in the same sense; smaller deposits in       *)
(* between neither lift nor restart the wait.                              *)
LargeDepositHolds ==
    [][\A id \in Pending(wq') \ Pending(wq) :
        LET d == last[wq'.req[id].to] IN
        d.largeAt # None =>
            ledger >= d.largeAt + Smaller(cfg.withdrawCooldown, d.withdrawCooldown)
      ]_<<vars, histVars>>
=============================================================================

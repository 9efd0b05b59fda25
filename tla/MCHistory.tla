------------------------------ MODULE MCHistory ------------------------------
(***************************************************************************)
(* BridgeHistory for TLC: payouts under the breaker and the quota in one   *)
(* scenario, deposits and requests under delays or limits in another.      *)
(* Both keep the parts of the bridge the other runs cover at rest.         *)
(***************************************************************************)
EXTENDS BridgeHistory, TLC

CONSTANTS
    Funding,        \* the one deposit of the payout scenario
    MaxResets,      \* manual resets of a tripped breaker, at most
    DelayedFunds,   \* deposits, in all, while delays are on
    MaxChanged      \* settings, at most, that differ from what init stored

NoChoices == [p \in Params |-> {}]

PayoutChoices ==
    [NoChoices EXCEPT !.breakerThreshold = {3}, !.breakerReset = {1}, !.quota = {2}]

IntakeChoices ==
    [NoChoices EXCEPT !.cooldown = {0, 2}, !.antiSandwich = {1, 3},
                      !.withdrawCooldown = {4}, !.largeDeposit = {2},
                      !.dailyDeposit = {0, 2}, !.fiatLimit = {2, 3}, !.oracle = {TRUE}]

Changed == Cardinality({p \in Params \ {"largeDeposit", "oracle"} : cfg[p] # NewConfig[p]})

(* One deposit of Funding at ledger 0, then payouts once the breaker or    *)
(* the quota is on; settings change at any time.                           *)
PayoutScenario ==
    /\ Changed' <= MaxChanged /\ cfg'.breakerThreshold * cfg'.quota = 0
    /\ receiptCounter' # receiptCounter =>
         receiptCounter = 0 /\ acct'.deposited = Funding
    /\ <<ledger, acct.withdrawn>>' # <<ledger, acct.withdrawn>> =>
         receiptCounter = 1 /\ cfg.breakerThreshold + cfg.quota > 0
    /\ lastDeposit' # lastDeposit => receiptCounter' # receiptCounter
    /\ resets' <= MaxResets

AtRest(settings) == \A p \in settings : cfg'[p] = NewConfig[p]
LimitSettings == {"dailyDeposit", "fiatLimit", "oracle"}
DelaySettings == {"cooldown", "antiSandwich", "withdrawCooldown", "largeDeposit"}

(* Deposits and requests under the delays; nothing leaves but through the  *)
(* queue.                                                                  *)
DelayScenario ==
    /\ AtRest(LimitSettings)
    /\ acct'.withdrawn # acct.withdrawn => execNonce' # execNonce
    /\ Cardinality(Pending(wq')) <= 1 /\ wq'.nextId <= 2
    /\ acct'.deposited <= DelayedFunds /\ receiptCounter' <= 3

(* Deposits alone, the first after the oracle is set; the clock is one     *)
(* ledger shorter.                                                         *)
LimitScenario ==
    /\ AtRest(DelaySettings)
    /\ receiptCounter' = 0 \/ cfg.oracle
    /\ UNCHANGED <<acct.withdrawn, acct.liabilities>>
    /\ \A u \in Users : lastDeposit'[u] # NoEntry \/ lastDeposit[u] = NoEntry
    /\ ledger' < MaxLedger

IntakeScenario ==
    /\ Changed' <= MaxChanged
    /\ DelayScenario \/ LimitScenario

UserSymmetry == Permutations(Users)
=============================================================================

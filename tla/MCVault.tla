------------------------------- MODULE MCVault -------------------------------
(***************************************************************************)
(* FiatBridge for TLC, seen as a vault: the queue and the books in one     *)
(* scenario, the fees and the settings in another.                         *)
(***************************************************************************)
EXTENDS FiatBridge, TLC

CONSTANTS
    MaxFees,        \* accrued fees, at most
    MaxSurplus,     \* tokens held beyond what the books owe, at most
    MaxChanged      \* settings, at most, that differ from what init stored

NoChoices == [p \in Params |-> {}]

QueueChoices == [NoChoices EXCEPT !.lock = {1}]

AllChoices ==
    [limit |-> {2}, maxCap |-> {3}, dailyDeposit |-> {2}, minDeposit |-> {2},
     cooldown |-> {1}, withdrawCooldown |-> {1}, largeDeposit |-> {2}, lock |-> {1},
     antiSandwich |-> {1}, oracle |-> {TRUE}, fiatLimit |-> {2}, quota |-> {2},
     expiry |-> {1}, breakerThreshold |-> {2}, breakerReset |-> {0}]

(* The queue alone: no fees, no donations, nobody denied, no pause.        *)
QueueScenario ==
    /\ UNCHANGED <<paused, denied, allow, fees>>
    /\ balance' = NetDeposited(acct')
    /\ cfg' # cfg => receiptCounter = 0

(* Fees, donations and all settings, few at a time and made before the     *)
(* first deposit (set_withdrawal_cooldown's pair counts as one); a denial, *)
(* a pause or a fee payout comes at any time, with no setting changed.     *)
Changed ==
    Cardinality({p \in Params \ {"largeDeposit"} : cfg[p] # NewConfig[p]})
        + (IF allow.on \/ allow.members # {} THEN 1 ELSE 0)

TreasuryScenario ==
    /\ fees'.vault <= MaxFees
    /\ balance' - NetDeposited(acct') <= MaxSurplus
    /\ <<cfg, allow>>' # <<cfg, allow>> =>
         receiptCounter = 0 /\ ledger = 0 /\ Changed' <= MaxChanged
    /\ paused' \/ denied' # {} \/ fees'.nonce # None => Changed' = 0
    /\ paused' => denied' = {}

UserSymmetry == Permutations(Users)
=============================================================================

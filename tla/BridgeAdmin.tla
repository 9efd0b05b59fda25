------------------------------ MODULE BridgeAdmin ------------------------------
(***************************************************************************)
(* Who may run the bridge contract (stellar-contracts/src/lib.rs): the     *)
(* admin and its hand-over, the timelocked actions, upgrades, the signers' *)
(* proposals, batches, the operators, and the paged indexes of the two     *)
(* address lists.  What the settings do to money is FiatBridge's.          *)
(*                                                                         *)
(* A call that returns an error changes nothing, so it is no step.  Every  *)
(* admin call is signed by the stored admin: it needs only that there is   *)
(* one.                                                                    *)
(***************************************************************************)
EXTENDS FiniteSets, Sequences, Lists

CONSTANTS
    Addresses, Nobody,
    FirstAdmin, Signers, Threshold,     \* arguments of init
    TimelockDelay,      \* MIN_TIMELOCK_DELAY
    MinUpgradeDelay,    \* MIN_UPGRADE_DELAY
    Inactivity,         \* DEFAULT_INACTIVITY_THRESHOLD
    Delays,             \* delays asked for
    Caps,               \* arguments of set_max_operators
    Operations, Batches,    \* operations proposed, batches run
    LastLedger, MaxActions, MaxProposals, MaxNonce, MaxSlots    \* bounds

Tunables == {"set_cooldown", "set_lock", "set_quota", "set_sandwich", "set_slippage_threshold"}
Malformed == 0      \* a payload too short to read
MaxBps == 10000

ASSUME AdminAssumption ==
    /\ Nobody \notin Addresses /\ FirstAdmin \in Addresses
    /\ Signers \subseteq Addresses /\ IsFiniteSet(Signers)
    /\ Threshold \in 1..Cardinality(Signers)
    /\ {TimelockDelay, MinUpgradeDelay} \subseteq Nat /\ Delays \subseteq Nat
    /\ Inactivity \in Nat /\ Caps \subseteq Nat
    /\ {LastLedger, MaxActions, MaxProposals, MaxNonce, MaxSlots} \subseteq Nat
    /\ LastLedger > 0
    /\ \A op \in Operations : DOMAIN op = {"name", "value"} /\ op.value \in Nat
    /\ \A ops \in Batches : Len(ops) \in Nat /\ \A i \in 1..Len(ops) : ops[i].value \in Nat

None == 0       \* no ledger
NoOffer == [to |-> Nobody, at |-> None]

VARIABLES
    seq,            \* env.ledger().sequence()
    admin, offer, renounceAt,           \* Admin, PendingAdmin, PendingRenounceLedger
    controls,       \* Paused, and the settings batches change
    actions, nextAction,                \* QueuedAdminAction, NextActionID
    upgradeAfter, upgradeDelay, cancelNonces,
    proposals,      \* MultisigProposal, by id from 1
    roster,         \* Operator, OperatorList, OperatorCount
    maxOperators, beats, nonces,        \* MaxOperators, heartbeats, OperatorNonce
    denied, deniedIndex, allowed, allowIndex

seatVars == <<admin, offer, renounceAt>>
lockedVars == <<actions, nextAction, upgradeAfter, upgradeDelay, cancelNonces>>
rosterVars == <<roster, maxOperators, beats, nonces>>
listVars == <<denied, deniedIndex, allowed, allowIndex>>
adminVars == <<seq, seatVars, controls, lockedVars, proposals, rosterVars, listVars>>

(* init, which its schema version lets run once.                           *)
AdminInit ==
    /\ seq = 1
    /\ admin = FirstAdmin /\ offer = NoOffer /\ renounceAt = None
    /\ controls = [paused |-> FALSE, tuned |-> [t \in Tunables |-> 0]]
    /\ actions = {} /\ nextAction = 0
    /\ upgradeAfter = None /\ upgradeDelay = MinUpgradeDelay
    /\ cancelNonces = [a \in Addresses |-> 0]
    /\ proposals = <<>>
    /\ roster = [active |-> {}, list |-> <<>>, count |-> 0]
    /\ maxOperators = 0
    /\ beats = [a \in Addresses |-> None] /\ nonces = [a \in Addresses |-> 0]
    /\ denied = {} /\ deniedIndex = <<>> /\ allowed = {} /\ allowIndex = <<>>

HasAdmin == admin # Nobody

-----------------------------------------------------------------------------
(* The admin's seat.                                                       *)
TransferAdmin(to) ==
    /\ HasAdmin /\ to # admin
    /\ offer' = [to |-> to, at |-> seq]
    /\ UNCHANGED <<seq, admin, renounceAt, controls, lockedVars, proposals, rosterVars, listVars>>

(* The admin named takes the seat, and with it a renunciation queued       *)
(* before.                                                                 *)
AcceptAdmin ==
    /\ offer # NoOffer /\ seq >= offer.at + TimelockDelay
    /\ admin' = offer.to /\ offer' = NoOffer
    /\ UNCHANGED <<seq, renounceAt, controls, lockedVars, proposals, rosterVars, listVars>>

RenounceTargetLate == seq + TimelockDelay + 1    \* a wrong RenounceTarget: one ledger more

RenounceTarget == seq + TimelockDelay

QueueRenounceAdmin ==
    /\ HasAdmin /\ ~controls.paused
    /\ renounceAt' = RenounceTarget
    /\ UNCHANGED <<seq, admin, offer, controls, lockedVars, proposals, rosterVars, listVars>>

CancelRenounceAdmin ==
    /\ HasAdmin /\ renounceAt # None /\ renounceAt' = None
    /\ UNCHANGED <<seq, admin, offer, controls, lockedVars, proposals, rosterVars, listVars>>

RenounceKeepsOffer ==      \* a wrong ExecuteRenounceAdmin: the admin named stays named
    /\ HasAdmin /\ renounceAt # None /\ seq > renounceAt
    /\ renounceAt' = None /\ admin' = Nobody
    /\ UNCHANGED <<seq, offer, controls, lockedVars, proposals, rosterVars, listVars>>

(* The pause is not looked at again.                                       *)
ExecuteRenounceAdmin ==
    /\ HasAdmin /\ renounceAt # None /\ seq > renounceAt
    /\ renounceAt' = None /\ admin' = Nobody /\ offer' = NoOffer
    /\ UNCHANGED <<seq, controls, lockedVars, proposals, rosterVars, listVars>>

-----------------------------------------------------------------------------
(* What an operation of a batch or of a proposal does, and when it fails.  *)
OpFails(op) ==
    \/ op.name \in Tunables /\ op.value = Malformed
    \/ op.name = "set_slippage_threshold" /\ op.value > MaxBps
    \/ op.name \notin Tunables \cup {"pause", "unpause"}

ExecuteSingleAdminOp(c, op) ==
    IF op.name \in Tunables THEN [c EXCEPT !.tuned[op.name] = op.value]
    ELSE [c EXCEPT !.paused = (op.name = "pause")]

SetPaused(b) ==
    /\ HasAdmin /\ controls' = [paused |-> b, tuned |-> controls.tuned]
    /\ UNCHANGED <<seq, seatVars, lockedVars, proposals, rosterVars, listVars>>

(* Operations that fail are passed over.                                   *)
BatchResult(c, ops) ==
    LET after[i \in 0..Len(ops)] ==
          IF i = 0 THEN c
          ELSE IF OpFails(ops[i]) THEN after[i - 1] ELSE ExecuteSingleAdminOp(after[i - 1], ops[i])
    IN after[Len(ops)]

(* An admin who has come to be an operator may not run a batch.            *)
ExecuteBatchAdmin(ops) ==
    /\ HasAdmin /\ admin \notin roster.active
    /\ controls' = BatchResult(controls, ops)
    /\ UNCHANGED <<seq, seatVars, lockedVars, proposals, rosterVars, listVars>>

-----------------------------------------------------------------------------
(* Timelocked actions, which do nothing when they are executed, and the    *)
(* upgrade, which anyone may execute.                                      *)
QueueAdminAction(delay) ==
    /\ HasAdmin /\ delay >= TimelockDelay /\ nextAction < MaxActions
    /\ actions' = actions \cup {[id |-> nextAction, target |-> seq + delay]}
    /\ nextAction' = nextAction + 1
    /\ UNCHANGED <<seq, seatVars, controls, upgradeAfter, upgradeDelay, cancelNonces,
                   proposals, rosterVars, listVars>>

ExecuteAdminAction(a) ==
    /\ HasAdmin /\ a \in actions /\ seq > a.target
    /\ actions' = actions \ {a}
    /\ UNCHANGED <<seq, seatVars, controls, nextAction, upgradeAfter, upgradeDelay,
                   cancelNonces, proposals, rosterVars, listVars>>

SetUpgradeDelay(delay) ==
    /\ HasAdmin /\ delay >= MinUpgradeDelay /\ upgradeDelay' = delay
    /\ UNCHANGED <<seq, seatVars, controls, actions, nextAction, upgradeAfter, cancelNonces,
                   proposals, rosterVars, listVars>>

ProposeUpgrade ==
    /\ HasAdmin /\ upgradeAfter' = seq + upgradeDelay
    /\ UNCHANGED <<seq, seatVars, controls, actions, nextAction, upgradeDelay, cancelNonces,
                   proposals, rosterVars, listVars>>

ExecuteUpgrade ==
    /\ upgradeAfter # None /\ seq >= upgradeAfter /\ upgradeAfter' = None
    /\ UNCHANGED <<seq, seatVars, controls, actions, nextAction, upgradeDelay, cancelNonces,
                   proposals, rosterVars, listVars>>

CancelUpgrade(nonce) ==
    /\ HasAdmin /\ nonce = cancelNonces[admin] /\ nonce < MaxNonce
    /\ upgradeAfter # None /\ upgradeAfter' = None
    /\ cancelNonces' = [cancelNonces EXCEPT ![admin] = @ + 1]
    /\ UNCHANGED <<seq, seatVars, controls, actions, nextAction, upgradeDelay,
                   proposals, rosterVars, listVars>>

-----------------------------------------------------------------------------
(* The signers' proposals.                                                 *)
SetProposals(ps) ==
    proposals' = ps /\ UNCHANGED <<seq, seatVars, lockedVars, rosterVars, listVars>>

SetApprovals(id, approvals) ==
    SetProposals([proposals EXCEPT ![id] =
        [op |-> proposals[id].op, approvals |-> approvals, executed |-> FALSE]])

ProposeMultisigAction(signer, op) ==
    /\ signer \in Signers /\ Len(proposals) < MaxProposals
    /\ SetProposals(Append(proposals, [op |-> op, approvals |-> <<signer>>, executed |-> FALSE]))
    /\ UNCHANGED controls

ApproveMultisigAction(signer, id) ==
    /\ signer \in Signers
    /\ ~proposals[id].executed /\ signer \notin ToSet(proposals[id].approvals)
    /\ SetApprovals(id, Append(proposals[id].approvals, signer))
    /\ UNCHANGED controls

RevokeMultisigApproval(signer, id) ==
    LET approvals == proposals[id].approvals IN
    /\ ~proposals[id].executed
    /\ \E i \in DOMAIN approvals :
          /\ approvals[i] = signer /\ \A j \in 1..(i - 1) : approvals[j] # signer
          /\ SetApprovals(id, RemoveAt(approvals, i))
    /\ UNCHANGED controls

(* Anyone may execute; a failing operation leaves the proposal open.       *)
ExecuteMultisigAction(id) ==
    /\ ~proposals[id].executed /\ Len(proposals[id].approvals) >= Threshold
    /\ ~OpFails(proposals[id].op)
    /\ controls' = ExecuteSingleAdminOp(controls, proposals[id].op)
    /\ SetProposals([proposals EXCEPT ![id] =
           [op |-> proposals[id].op, approvals |-> proposals[id].approvals, executed |-> TRUE]])

-----------------------------------------------------------------------------
(* The operators.  One who never sent a heartbeat is never inactive.       *)
Inactive(a) == beats[a] # None /\ seq > beats[a] + Inactivity

PruneKeepsListed(r) ==      \* a wrong Prune: the inactive lose the flag and stay listed
    [active |-> {a \in r.active : ~Inactive(a)}, list |-> r.list, count |-> Len(r.list)]

(* prune_inactive_operators_internal                                       *)
Prune(r) ==
    LET list == Filtered(r.list, {a \in r.active : ~Inactive(a)}) IN
    [active |-> r.active \ {a \in ToSet(r.list) : Inactive(a)},
     list |-> list, count |-> Len(list)]

Enrolled(r, a) ==
    LET list == IF a \in r.active THEN r.list ELSE Append(r.list, a) IN
    [active |-> r.active \cup {a}, list |-> list, count |-> Len(list)]

Dismissed(r, a) ==
    LET list == Filtered(r.list, ToSet(r.list) \ {a}) IN
    [active |-> r.active \ {a}, list |-> list, count |-> Len(list)]

(* validate_and_increment_nonce: the admin and the operator share it.      *)
ValidateAndIncrementNonce(a, nonce) ==
    nonce = nonces[a] /\ nonce < MaxNonce /\ nonces' = [nonces EXCEPT ![a] = @ + 1]

SetOperator(a, active, nonce) ==
    LET pruned == Prune(roster) IN
    /\ HasAdmin /\ a # admin
    /\ ValidateAndIncrementNonce(a, nonce)
    /\ active \/ a \in pruned.active
    /\ active /\ a \notin pruned.active /\ maxOperators > 0 => Len(pruned.list) < maxOperators
    /\ roster' = IF active THEN Enrolled(pruned, a) ELSE Dismissed(pruned, a)
    /\ UNCHANGED <<seq, seatVars, controls, lockedVars, proposals, maxOperators, beats, listVars>>

SetMaxOperators(cap) ==
    /\ HasAdmin /\ (cap > 0 => roster.count <= cap)
    /\ maxOperators' = cap
    /\ UNCHANGED <<seq, seatVars, controls, lockedVars, proposals, roster, beats, nonces, listVars>>

(* heartbeat, when the circuit breaker is clear                            *)
Heartbeat(a, nonce) ==
    /\ a \in roster.active
    /\ ValidateAndIncrementNonce(a, nonce)
    /\ beats' = [beats EXCEPT ![a] = seq]
    /\ UNCHANGED <<seq, seatVars, controls, lockedVars, proposals, roster, maxOperators, listVars>>

PruneInactiveOperators ==
    /\ HasAdmin /\ roster' = Prune(roster)
    /\ UNCHANGED <<seq, seatVars, controls, lockedVars, proposals, maxOperators, beats, nonces,
                   listVars>>

-----------------------------------------------------------------------------
(* The lists.  An address already on a list is appended again; a removal   *)
(* empties the first slot that holds it.                                   *)
Emptied(index, a) ==
    LET slots == {i \in DOMAIN index : index[i] = a} IN
    IF slots = {} THEN index
    ELSE [index EXCEPT ![CHOOSE i \in slots : \A j \in slots : i <= j] = Nobody]

DenyAddress(a) ==
    /\ HasAdmin /\ Len(deniedIndex) < MaxSlots
    /\ denied' = denied \cup {a} /\ deniedIndex' = Append(deniedIndex, a)
    /\ UNCHANGED <<seq, seatVars, controls, lockedVars, proposals, rosterVars, allowed, allowIndex>>

RemoveDeniedAddress(a) ==
    /\ HasAdmin
    /\ denied' = denied \ {a} /\ deniedIndex' = Emptied(deniedIndex, a)
    /\ UNCHANGED <<seq, seatVars, controls, lockedVars, proposals, rosterVars, allowed, allowIndex>>

AddTokenAllowlist(a) ==
    /\ HasAdmin /\ Len(allowIndex) < MaxSlots
    /\ allowed' = allowed \cup {a} /\ allowIndex' = Append(allowIndex, a)
    /\ UNCHANGED <<seq, seatVars, controls, lockedVars, proposals, rosterVars, denied, deniedIndex>>

RemoveTokenAllowlist(a) ==
    /\ HasAdmin
    /\ allowed' = allowed \ {a} /\ allowIndex' = Emptied(allowIndex, a)
    /\ UNCHANGED <<seq, seatVars, controls, lockedVars, proposals, rosterVars, denied, deniedIndex>>

(* The pages a reader gets, all together: the second leaves out addresses  *)
(* that are no longer allowed.                                             *)
GetDeniedAddresses == Filtered(deniedIndex, Addresses)
GetTokenAllowlist == Filtered(allowIndex, allowed)

-----------------------------------------------------------------------------
LedgerCloses ==
    /\ seq < LastLedger /\ seq' = seq + 1
    /\ UNCHANGED <<seatVars, controls, lockedVars, proposals, rosterVars, listVars>>

SeatNext ==
    \/ \E a \in Addresses : TransferAdmin(a)
    \/ AcceptAdmin \/ QueueRenounceAdmin \/ CancelRenounceAdmin \/ ExecuteRenounceAdmin

LockedNext ==
    \/ \E delay \in Delays : QueueAdminAction(delay) \/ SetUpgradeDelay(delay)
    \/ \E a \in actions : ExecuteAdminAction(a)
    \/ ProposeUpgrade \/ ExecuteUpgrade \/ \E nonce \in 0..MaxNonce : CancelUpgrade(nonce)

ControlsNext ==
    \/ \E b \in BOOLEAN : SetPaused(b)
    \/ \E ops \in Batches : ExecuteBatchAdmin(ops)

MultisigNext ==
    \/ \E signer \in Addresses, op \in Operations : ProposeMultisigAction(signer, op)
    \/ \E id \in DOMAIN proposals :
          \/ \E signer \in Addresses : \/ ApproveMultisigAction(signer, id)
                                       \/ RevokeMultisigApproval(signer, id)
          \/ ExecuteMultisigAction(id)

RosterNext ==
    \/ \E a \in Addresses, nonce \in 0..MaxNonce :
          Heartbeat(a, nonce) \/ \E active \in BOOLEAN : SetOperator(a, active, nonce)
    \/ \E cap \in Caps : SetMaxOperators(cap)
    \/ PruneInactiveOperators

ListsNext ==
    \E a \in Addresses : \/ DenyAddress(a) \/ RemoveDeniedAddress(a)
                         \/ AddTokenAllowlist(a) \/ RemoveTokenAllowlist(a)

AdminNext ==
    \/ SeatNext \/ LockedNext \/ ControlsNext \/ MultisigNext \/ RosterNext \/ ListsNext
    \/ LedgerCloses

AdminSpec == AdminInit /\ [][AdminNext]_adminVars

(***************************************************************************)
(* Properties                                                              *)
(***************************************************************************)
(* The storage is of its shape, and no wait is longer than it was set.     *)
AdminStorageOK ==
    /\ seq \in 1..LastLedger
    /\ admin \in Addresses \cup {Nobody} /\ offer.to \in Addresses \cup {Nobody}
    /\ offer.at <= seq /\ renounceAt <= seq + TimelockDelay
    /\ controls.paused \in BOOLEAN /\ controls.tuned \in [Tunables -> Nat]
    /\ \A a \in actions : a.id < nextAction
    /\ {upgradeAfter, upgradeDelay, maxOperators} \subseteq Nat
    /\ \A i \in DOMAIN proposals : proposals[i].op \in Operations
    /\ {cancelNonces, nonces} \subseteq [Addresses -> 0..MaxNonce]
    /\ beats \in [Addresses -> 0..seq]

(* The lists kept beside the flags agree with them: the operators' list    *)
(* and count with who is active, once each and within the cap, after any   *)
(* pruning; and the pages of the two address lists leave nobody out, those *)
(* of the allowlist nobody wrong in (lib.rs:2762-3130, 3220-3274).         *)
ListsMatchFlags ==
    /\ ToSet(roster.list) = roster.active /\ IsInjective(roster.list)
    /\ roster.count = Len(roster.list)
    /\ maxOperators > 0 => roster.count <= maxOperators
    /\ denied \subseteq ToSet(GetDeniedAddresses)
    /\ allowed = ToSet(GetTokenAllowlist)

(* Authority is neither forged nor revived: an executed proposal has the   *)
(* approvals of a threshold of distinct signers, and keeps them as they    *)
(* were; and no hand-over, offered before or after, brings an admin back   *)
(* once the admin has renounced (lib.rs:2359-2390, 3515-3536, 5470-5569).  *)
AuthorityHolds ==
    [][/\ ~HasAdmin => ~HasAdmin'
       /\ \A id \in DOMAIN proposals' :
             proposals'[id].executed =>
                 /\ ToSet(proposals'[id].approvals) \subseteq Signers
                 /\ Cardinality(ToSet(proposals'[id].approvals)) >= Threshold
                 /\ id \in DOMAIN proposals
                 /\ proposals'[id].approvals = proposals[id].approvals
      ]_adminVars

=============================================================================

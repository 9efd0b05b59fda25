------------------------------ MODULE AdminProofs ------------------------------
(***************************************************************************)
(* What BridgeAdmin and EscrowMigration keep for every set of addresses,   *)
(* signers, operations, delays and batches, and with no bound on their     *)
(* counters but those they name.                                           *)
(***************************************************************************)
EXTENDS EscrowMigration, FiniteSetTheorems, SequenceTheorems

Proposal == [op : Operations, approvals : Seq(Signers), executed : BOOLEAN]

(* A proposal's approvals name each signer once, so their number is that   *)
(* of the signers behind it, and an executed one had enough.               *)
Sealed(p) ==
    /\ \A i, j \in 1..Len(p.approvals) : p.approvals[i] = p.approvals[j] => i = j
    /\ p.executed => Len(p.approvals) >= Threshold

ProposalsSealed == \A id \in DOMAIN proposals : Sealed(proposals[id])

(* The inductive invariant: without it, an offer could outlive the admin,  *)
(* and a repeated approval count twice.                                    *)
AdminInv ==
    /\ proposals \in Seq(Proposal)
    /\ ProposalsSealed
    /\ ~HasAdmin => offer = NoOffer

-----------------------------------------------------------------------------
(* The threshold is a positive number and the signers are finitely many.   *)
LEMMA ThresholdIsCount == Threshold \in Nat /\ IsFiniteSet(Signers)
  <1>1. Cardinality(Signers) \in Nat
    BY AdminAssumption, FS_CardinalityType
  <1> QED BY <1>1, AdminAssumption

(* A sequence without repetitions has as many elements as places.          *)
LEMMA DistinctCount ==
  ASSUME NEW S, NEW s \in Seq(S),
         \A i, j \in 1..Len(s) : s[i] = s[j] => i = j
  PROVE  ToSet(s) \subseteq S /\ Cardinality(ToSet(s)) = Len(s)
  <1>1. s \in [1..Len(s) -> ToSet(s)] /\ ToSet(s) \subseteq S
    BY DEF ToSet
  <1>2. s \in Bijection(1..Len(s), ToSet(s))
    BY <1>1 DEF Bijection, Injection, Surjection, IsInjective, ToSet
  <1>3. IsFiniteSet(1..Len(s)) /\ Cardinality(1..Len(s)) = Len(s)
    <2>1. Len(s) \in Nat
      OBVIOUS
    <2>2. /\ IsFiniteSet(1..Len(s))
          /\ Cardinality(1..Len(s)) = IF 1 > Len(s) THEN 0 ELSE Len(s) - 1 + 1
      BY <2>1, FS_Interval
    <2> QED BY <2>1, <2>2
  <1> QED BY <1>1, <1>2, <1>3, FS_Bijection DEF ExistsBijection

(* One more approval, of a signer who gave none, keeps them distinct.      *)
LEMMA AppendDistinct ==
  ASSUME NEW S, NEW s \in Seq(S), NEW e \in S, e \notin ToSet(s),
         \A i, j \in 1..Len(s) : s[i] = s[j] => i = j
  PROVE  /\ Append(s, e) \in Seq(S)
         /\ \A i, j \in 1..Len(Append(s, e)) : Append(s, e)[i] = Append(s, e)[j] => i = j
  BY DEF ToSet

(* One approval less keeps them distinct.                                  *)
LEMMA RemoveDistinct ==
  ASSUME NEW S, NEW s \in Seq(S), NEW k \in 1..Len(s),
         \A i, j \in 1..Len(s) : s[i] = s[j] => i = j
  PROVE  /\ RemoveAt(s, k) \in Seq(S)
         /\ \A i, j \in 1..Len(RemoveAt(s, k)) :
               RemoveAt(s, k)[i] = RemoveAt(s, k)[j] => i = j
  <1> DEFINE a == SubSeq(s, 1, k - 1)
             b == SubSeq(s, k + 1, Len(s))
             place(i) == IF i < k THEN i ELSE i + 1
  <1>0. k \in Int /\ Len(s) \in Nat
    OBVIOUS
  <1>1. /\ a \in Seq(S) /\ Len(a) = k - 1
        /\ \A i \in 1..(k - 1) : a[i] = s[i]
    BY SubSeqProperties
  <1>2. /\ b \in Seq(S) /\ Len(b) = Len(s) - k
        /\ \A i \in 1..(Len(s) - k) : b[i] = s[k + i]
    BY SubSeqProperties
  <1>3. RemoveAt(s, k) = a \o b
    BY DEF RemoveAt
  <1> HIDE DEF a, b
  <1>4. /\ a \o b \in Seq(S) /\ Len(a \o b) = Len(s) - 1
        /\ \A i \in 1..(Len(s) - 1) : (a \o b)[i] = s[place(i)]
    <2>1. /\ a \o b \in Seq(S) /\ Len(a \o b) = Len(a) + Len(b)
          /\ \A i \in 1..(Len(a) + Len(b)) :
                (a \o b)[i] = IF i <= Len(a) THEN a[i] ELSE b[i - Len(a)]
      <3>1. a \in Seq(S) /\ b \in Seq(S)
        BY <1>1, <1>2
      <3> QED BY <3>1, ConcatProperties
    <2>2. Len(a) + Len(b) = Len(s) - 1
      BY <1>1, <1>2
    <2>3. ASSUME NEW i \in 1..(Len(s) - 1)
          PROVE  (a \o b)[i] = s[place(i)]
      <3>1. CASE i <= k - 1
        BY <1>1, <2>1, <2>2, <3>1
      <3>2. CASE i > k - 1
        <4>1. i - (k - 1) \in 1..(Len(s) - k) /\ k + (i - (k - 1)) = i + 1
          BY <3>2
        <4>2. (a \o b)[i] = b[i - (k - 1)]
          BY <1>1, <2>1, <2>2, <3>2
        <4>3. b[i - (k - 1)] = s[k + (i - (k - 1))]
          BY <1>2, <4>1
        <4>4. place(i) = i + 1
          BY <3>2
        <4> QED BY <4>1, <4>2, <4>3, <4>4
      <3>3. i <= k - 1 \/ i > k - 1
        BY <1>0
      <3> QED BY <3>1, <3>2, <3>3
    <2> QED BY <2>1, <2>2, <2>3
  <1>5. ASSUME NEW i \in 1..(Len(s) - 1), NEW j \in 1..(Len(s) - 1), s[place(i)] = s[place(j)]
        PROVE  i = j
    <2>1. place(i) \in 1..Len(s) /\ place(j) \in 1..Len(s)
      OBVIOUS
    <2>2. place(i) = place(j)
      BY <1>5, <2>1
    <2> QED BY <2>2
  <1> QED BY <1>3, <1>4, <1>5

-----------------------------------------------------------------------------
(* Nothing is proposed and nobody offered at first.                        *)
LEMMA InitAdminInv == AdminInit => AdminInv
  BY AdminAssumption DEF AdminInit, AdminInv, ProposalsSealed, HasAdmin

(* What is needed of a step for its proposals to stay sealed.              *)
LEMMA UntouchedProposals ==
  ASSUME AdminInv, UNCHANGED proposals, ~(admin' # Nobody) => offer' = NoOffer
  PROVE  AdminInv'
  BY DEF AdminInv, ProposalsSealed, HasAdmin

(* Replacing the approvals of one proposal that is not executed.           *)
LEMMA ApprovalsReplaced ==
  ASSUME AdminInv, NEW id \in DOMAIN proposals, ~proposals[id].executed,
         NEW approvals \in Seq(Signers),
         \A i, j \in 1..Len(approvals) : approvals[i] = approvals[j] => i = j,
         SetApprovals(id, approvals)
  PROVE  AdminInv'
  <1> DEFINE p == [op |-> proposals[id].op, approvals |-> approvals, executed |-> FALSE]
  <1>1. p \in Proposal /\ Sealed(p)
    <2>1. proposals[id] \in Proposal
      BY DEF AdminInv
    <2>2. proposals[id].op \in Operations
      BY <2>1 DEF Proposal
    <2>3. p.approvals = approvals /\ p.executed = FALSE
      OBVIOUS
    <2>4. p \in Proposal
      BY <2>2 DEF Proposal
    <2>5. Sealed(p)
      BY <2>3 DEF Sealed
    <2> QED BY <2>4, <2>5
  <1>2. proposals' = [proposals EXCEPT ![id] = p] /\ UNCHANGED <<admin, offer>>
    BY DEF SetApprovals, SetProposals, seatVars
  <1> HIDE DEF p
  <1>3. proposals' \in Seq(Proposal) /\ DOMAIN proposals' = DOMAIN proposals
    BY <1>1, <1>2 DEF AdminInv
  <1>4. \A n \in DOMAIN proposals : proposals'[n] = IF n = id THEN p ELSE proposals[n]
    BY <1>2
  <1> QED BY <1>1, <1>2, <1>3, <1>4 DEF AdminInv, ProposalsSealed, HasAdmin

-----------------------------------------------------------------------------
(* A new proposal has one approval.                                        *)
LEMMA ProposeKeepsInv ==
  ASSUME AdminInv, NEW signer, NEW op \in Operations, ProposeMultisigAction(signer, op)
  PROVE  AdminInv'
  <1> DEFINE p == [op |-> op, approvals |-> <<signer>>, executed |-> FALSE]
  <1>1. signer \in Signers /\ proposals' = Append(proposals, p) /\ UNCHANGED <<admin, offer>>
    BY DEF ProposeMultisigAction, SetProposals, seatVars
  <1>2. p \in Proposal
    BY <1>1 DEF Proposal
  <1>3. Sealed(p)
    <2>1. p.executed = FALSE /\ p.approvals = <<signer>>
      OBVIOUS
    <2> QED BY <2>1 DEF Sealed
  <1> HIDE DEF p
  <1>4. /\ proposals' \in Seq(Proposal) /\ Len(proposals') = Len(proposals) + 1
        /\ \A n \in 1..Len(proposals) : proposals'[n] = proposals[n]
        /\ proposals'[Len(proposals) + 1] = p
    BY <1>1, <1>2, AppendProperties DEF AdminInv
  <1>5. ASSUME NEW n \in DOMAIN proposals'
        PROVE  Sealed(proposals'[n])
    <2>1. n \in DOMAIN proposals \/ n = Len(proposals) + 1
      BY <1>4 DEF AdminInv
    <2> QED BY <1>3, <1>4, <2>1 DEF AdminInv, ProposalsSealed
  <1> QED BY <1>1, <1>4, <1>5 DEF AdminInv, ProposalsSealed, HasAdmin

(* What the invariant says of the approvals of one proposal.               *)
LEMMA ApprovalsDistinct ==
  ASSUME AdminInv, NEW id \in DOMAIN proposals
  PROVE  /\ proposals[id].approvals \in Seq(Signers)
         /\ \A i, j \in 1..Len(proposals[id].approvals) :
               proposals[id].approvals[i] = proposals[id].approvals[j] => i = j
  <1>1. proposals[id] \in Proposal /\ Sealed(proposals[id])
    BY DEF AdminInv, ProposalsSealed
  <1> QED BY <1>1 DEF Proposal, Sealed

(* A signer who approved is refused.                                       *)
LEMMA ApproveKeepsInv ==
  ASSUME AdminInv, NEW signer, NEW id \in DOMAIN proposals, ApproveMultisigAction(signer, id)
  PROVE  AdminInv'
  <1> DEFINE s == proposals[id].approvals
  <1>1. s \in Seq(Signers) /\ \A i, j \in 1..Len(s) : s[i] = s[j] => i = j
    BY ApprovalsDistinct
  <1>2. /\ signer \in Signers /\ signer \notin ToSet(s) /\ ~proposals[id].executed
        /\ SetApprovals(id, Append(s, signer))
    BY DEF ApproveMultisigAction
  <1> HIDE DEF s
  <1>3. /\ Append(s, signer) \in Seq(Signers)
        /\ \A i, j \in 1..Len(Append(s, signer)) :
              Append(s, signer)[i] = Append(s, signer)[j] => i = j
    BY <1>1, <1>2, AppendDistinct
  <1> QED BY <1>2, <1>3, ApprovalsReplaced

(* Some approval goes, and the others stay distinct.                       *)
LEMMA RevokeKeepsInv ==
  ASSUME AdminInv, NEW signer, NEW id \in DOMAIN proposals, RevokeMultisigApproval(signer, id)
  PROVE  AdminInv'
  <1> DEFINE s == proposals[id].approvals
  <1>1. s \in Seq(Signers) /\ \A i, j \in 1..Len(s) : s[i] = s[j] => i = j
    BY ApprovalsDistinct
  <1>2. ~proposals[id].executed /\ \E i \in DOMAIN s : SetApprovals(id, RemoveAt(s, i))
    BY DEF RevokeMultisigApproval
  <1>3. DOMAIN s = 1..Len(s)
    BY <1>1
  <1> HIDE DEF s
  <1>4. PICK k \in 1..Len(s) : SetApprovals(id, RemoveAt(s, k))
    BY <1>2, <1>3
  <1>5. /\ RemoveAt(s, k) \in Seq(Signers)
        /\ \A i, j \in 1..Len(RemoveAt(s, k)) :
              RemoveAt(s, k)[i] = RemoveAt(s, k)[j] => i = j
    BY <1>1, RemoveDistinct
  <1> QED BY <1>2, <1>4, <1>5, ApprovalsReplaced

(* An execution finds the threshold met and leaves the approvals alone.    *)
LEMMA ExecuteKeepsInv ==
  ASSUME AdminInv, NEW id \in DOMAIN proposals, ExecuteMultisigAction(id)
  PROVE  AdminInv'
  <1> DEFINE p == [op |-> proposals[id].op, approvals |-> proposals[id].approvals,
                   executed |-> TRUE]
  <1>1. /\ Len(proposals[id].approvals) >= Threshold
        /\ proposals' = [proposals EXCEPT ![id] = p] /\ UNCHANGED <<admin, offer>>
    BY DEF ExecuteMultisigAction, SetProposals, seatVars
  <1>2. proposals[id] \in Proposal /\ Sealed(proposals[id])
    BY DEF AdminInv, ProposalsSealed
  <1>3. p \in Proposal
    BY <1>2 DEF Proposal
  <1>4. Sealed(p)
    <2>1. p.approvals = proposals[id].approvals
      OBVIOUS
    <2> QED BY <1>1, <1>2, <2>1 DEF Sealed
  <1> HIDE DEF p
  <1>5. proposals' \in Seq(Proposal) /\ DOMAIN proposals' = DOMAIN proposals
    BY <1>1, <1>3 DEF AdminInv
  <1>6. \A n \in DOMAIN proposals : proposals'[n] = IF n = id THEN p ELSE proposals[n]
    BY <1>1
  <1> QED BY <1>1, <1>4, <1>5, <1>6 DEF AdminInv, ProposalsSealed, HasAdmin

-----------------------------------------------------------------------------
(* Every step keeps the invariant: only the signers' calls touch           *)
(* proposals, and only the seat's calls the seat.                          *)
LEMMA StepKeepsAdminInv == AdminInv /\ [AdminNext]_adminVars => AdminInv'
  <1> SUFFICES ASSUME AdminInv, [AdminNext]_adminVars
               PROVE  AdminInv'
    OBVIOUS
  <1>1. CASE SeatNext
    <2>1. UNCHANGED proposals
      BY <1>1 DEF SeatNext, TransferAdmin, AcceptAdmin, QueueRenounceAdmin, CancelRenounceAdmin,
                  ExecuteRenounceAdmin
    <2>2. CASE \E a \in Addresses : TransferAdmin(a)
      BY <2>1, <2>2, UntouchedProposals DEF TransferAdmin, HasAdmin
    <2>3. CASE AcceptAdmin \/ ExecuteRenounceAdmin
      BY <2>1, <2>3, UntouchedProposals DEF AcceptAdmin, ExecuteRenounceAdmin
    <2>4. CASE QueueRenounceAdmin \/ CancelRenounceAdmin
      BY <2>1, <2>4, UntouchedProposals DEF QueueRenounceAdmin, CancelRenounceAdmin, HasAdmin
    <2> QED BY <1>1, <2>2, <2>3, <2>4 DEF SeatNext
  <1>2. CASE MultisigNext
    <2>1. CASE \E signer \in Addresses, op \in Operations : ProposeMultisigAction(signer, op)
      BY <2>1, ProposeKeepsInv
    <2>2. CASE \E id \in DOMAIN proposals, signer \in Addresses : ApproveMultisigAction(signer, id)
      BY <2>2, ApproveKeepsInv
    <2>3. CASE \E id \in DOMAIN proposals, signer \in Addresses :
                  RevokeMultisigApproval(signer, id)
      BY <2>3, RevokeKeepsInv
    <2>4. CASE \E id \in DOMAIN proposals : ExecuteMultisigAction(id)
      BY <2>4, ExecuteKeepsInv
    <2> QED BY <1>2, <2>1, <2>2, <2>3, <2>4 DEF MultisigNext
  <1>3. CASE LockedNext
    BY <1>3, UntouchedProposals
       DEF AdminInv, HasAdmin, LockedNext, QueueAdminAction, ExecuteAdminAction, SetUpgradeDelay,
           ProposeUpgrade, ExecuteUpgrade, CancelUpgrade, seatVars
  <1>4. CASE ControlsNext
    BY <1>4, UntouchedProposals
       DEF AdminInv, HasAdmin, ControlsNext, SetPaused, ExecuteBatchAdmin, seatVars
  <1>5. CASE RosterNext
    BY <1>5, UntouchedProposals
       DEF AdminInv, HasAdmin, RosterNext, Heartbeat, SetOperator, SetMaxOperators,
           PruneInactiveOperators, seatVars
  <1>6. CASE ListsNext
    BY <1>6, UntouchedProposals
       DEF AdminInv, HasAdmin, ListsNext, DenyAddress, RemoveDeniedAddress, AddTokenAllowlist,
           RemoveTokenAllowlist, seatVars
  <1>7. CASE LedgerCloses \/ UNCHANGED adminVars
    BY <1>7, UntouchedProposals DEF AdminInv, HasAdmin, LedgerCloses, adminVars, seatVars
  <1> QED BY <1>1, <1>2, <1>3, <1>4, <1>5, <1>6, <1>7 DEF AdminNext

(* In every reachable state no offer outlives the admin, and every         *)
(* proposal has distinct approvals, enough of them once executed           *)
(* (lib.rs:3515-3536, 5470-5569).                                          *)
THEOREM AdminInvariance == AdminSpec => []AdminInv
  BY InitAdminInv, StepKeepsAdminInv, PTL DEF AdminSpec

-----------------------------------------------------------------------------
(* A proposal executed after a step has its quorum: the invariant counts.  *)
LEMMA QuorumBehind ==
  ASSUME AdminInv', NEW id \in DOMAIN proposals', proposals'[id].executed
  PROVE  /\ ToSet(proposals'[id].approvals) \subseteq Signers
         /\ Cardinality(ToSet(proposals'[id].approvals)) >= Threshold
  <1> DEFINE s == proposals'[id].approvals
  <1>1. proposals'[id] \in Proposal /\ Sealed(proposals'[id])
    BY DEF AdminInv, ProposalsSealed
  <1>2. /\ s \in Seq(Signers) /\ Len(s) >= Threshold
        /\ \A i, j \in 1..Len(s) : s[i] = s[j] => i = j
    BY <1>1 DEF Proposal, Sealed
  <1> HIDE DEF s
  <1>3. ToSet(s) \subseteq Signers /\ Cardinality(ToSet(s)) = Len(s)
    BY <1>2, DistinctCount
  <1>4. ToSet(s) \subseteq Signers /\ Cardinality(ToSet(s)) >= Threshold
    BY <1>2, <1>3
  <1> QED BY <1>4 DEF s

(* The step that executes a proposal, and any later one, leaves its        *)
(* approvals as they were.                                                 *)
LEMMA ApprovalsKept ==
  ASSUME AdminInv, AdminNext, NEW id \in DOMAIN proposals', proposals'[id].executed
  PROVE  id \in DOMAIN proposals /\ proposals'[id].approvals = proposals[id].approvals
  <1>1. CASE UNCHANGED proposals
    BY <1>1
  <1>2. CASE MultisigNext
    <2>1. ASSUME NEW signer, NEW op, ProposeMultisigAction(signer, op)
          PROVE  id \in DOMAIN proposals /\ proposals'[id] = proposals[id]
      <3> DEFINE p == [op |-> op, approvals |-> <<signer>>, executed |-> FALSE]
      <3>1. proposals' = Append(proposals, p) /\ p.executed = FALSE
        BY <2>1 DEF ProposeMultisigAction, SetProposals
      <3> HIDE DEF p
      <3>2. id # Len(proposals) + 1
        BY <3>1 DEF AdminInv
      <3> QED BY <3>1, <3>2 DEF AdminInv
    <2>2. ASSUME NEW n \in DOMAIN proposals, NEW approvals, SetApprovals(n, approvals)
          PROVE  id \in DOMAIN proposals /\ proposals'[id] = proposals[id]
      <3> DEFINE p == [op |-> proposals[n].op, approvals |-> approvals, executed |-> FALSE]
      <3>1. proposals' = [proposals EXCEPT ![n] = p] /\ p.executed = FALSE
        BY <2>2 DEF SetApprovals, SetProposals
      <3> HIDE DEF p
      <3> QED BY <3>1
    <2>3. ASSUME NEW n \in DOMAIN proposals, ExecuteMultisigAction(n)
          PROVE  id \in DOMAIN proposals /\ proposals'[id].approvals = proposals[id].approvals
      <3> DEFINE p == [op |-> proposals[n].op, approvals |-> proposals[n].approvals,
                       executed |-> TRUE]
      <3>1. proposals' = [proposals EXCEPT ![n] = p] /\ p.approvals = proposals[n].approvals
        BY <2>3 DEF ExecuteMultisigAction, SetProposals
      <3> HIDE DEF p
      <3> QED BY <3>1
    <2> QED BY <1>2, <2>1, <2>2, <2>3
            DEF MultisigNext, ApproveMultisigAction, RevokeMultisigApproval
  <1>3. UNCHANGED proposals \/ MultisigNext
    BY DEF AdminNext, SeatNext, TransferAdmin, AcceptAdmin, QueueRenounceAdmin,
           CancelRenounceAdmin, ExecuteRenounceAdmin, LockedNext, QueueAdminAction,
           ExecuteAdminAction, SetUpgradeDelay, ProposeUpgrade, ExecuteUpgrade, CancelUpgrade,
           ControlsNext, SetPaused, ExecuteBatchAdmin, RosterNext, Heartbeat, SetOperator,
           SetMaxOperators, PruneInactiveOperators, ListsNext, DenyAddress,
           RemoveDeniedAddress, AddTokenAllowlist, RemoveTokenAllowlist, LedgerCloses
  <1> QED BY <1>1, <1>2, <1>3

(* Without an admin there is no offer, and only an offer makes an admin.   *)
LEMMA SeatStaysEmpty == AdminInv /\ AdminNext /\ ~HasAdmin => ~HasAdmin'
  BY DEF AdminInv, HasAdmin, AdminNext, SeatNext, TransferAdmin, AcceptAdmin,
         QueueRenounceAdmin, CancelRenounceAdmin, ExecuteRenounceAdmin, LockedNext,
         QueueAdminAction, ExecuteAdminAction, SetUpgradeDelay, ProposeUpgrade, ExecuteUpgrade,
         CancelUpgrade, ControlsNext, SetPaused, ExecuteBatchAdmin, MultisigNext,
         ProposeMultisigAction, ApproveMultisigAction, RevokeMultisigApproval, SetApprovals,
         ExecuteMultisigAction, SetProposals, RosterNext, Heartbeat, SetOperator,
         SetMaxOperators, PruneInactiveOperators, ListsNext, DenyAddress,
         RemoveDeniedAddress, AddTokenAllowlist, RemoveTokenAllowlist, LedgerCloses, seatVars

(* Whoever the signers and whatever the threshold, an executed proposal    *)
(* had a quorum of distinct signers and keeps it, and an admin who         *)
(* renounced is never followed by another (lib.rs:2359-2390, 3515-3536,    *)
(* 5470-5569).                                                             *)
THEOREM AuthorityStays == AdminSpec => AuthorityHolds
  <1> DEFINE Held ==
        /\ ~HasAdmin => ~HasAdmin'
        /\ \A id \in DOMAIN proposals' :
              proposals'[id].executed =>
                  /\ ToSet(proposals'[id].approvals) \subseteq Signers
                  /\ Cardinality(ToSet(proposals'[id].approvals)) >= Threshold
                  /\ id \in DOMAIN proposals
                  /\ proposals'[id].approvals = proposals[id].approvals
  <1>1. AdminInv /\ AdminInv' /\ [AdminNext]_adminVars => [Held]_adminVars
    <2> SUFFICES ASSUME AdminInv, AdminInv', AdminNext
                 PROVE  Held
      OBVIOUS
    <2> QED BY QuorumBehind, ApprovalsKept, SeatStaysEmpty
  <1>2. AdminSpec => [][Held]_adminVars
    BY <1>1, AdminInvariance, PTL DEF AdminSpec
  <1> QED BY <1>2 DEF AuthorityHolds


-----------------------------------------------------------------------------
(* The storage, the operators and the address lists.                       *)
Controls == [paused : BOOLEAN, tuned : [Tunables -> Nat]]

StorageInv ==
    /\ seq \in 1..LastLedger
    /\ admin \in Addresses \cup {Nobody}
    /\ offer \in [to : Addresses \cup {Nobody}, at : 0..seq]
    /\ renounceAt \in 0..(seq + TimelockDelay)
    /\ controls \in Controls
    /\ nextAction \in Nat /\ \A a \in actions : a.id \in Nat /\ a.id < nextAction
    /\ upgradeAfter \in Nat /\ upgradeDelay \in Nat
    /\ cancelNonces \in [Addresses -> 0..MaxNonce] /\ nonces \in [Addresses -> 0..MaxNonce]
    /\ beats \in [Addresses -> 0..seq]

(* A list of operators that agrees with the flags, as every prune,         *)
(* enrolment and dismissal finds and leaves it.                            *)
RosterOf(r) ==
    /\ r.list \in Seq(Addresses) /\ IsInjective(r.list)
    /\ r.active = ToSet(r.list) /\ r.count = Len(r.list)

RosterInv ==
    /\ RosterOf(roster)
    /\ maxOperators \in Nat /\ (maxOperators > 0 => roster.count <= maxOperators)

(* Every address on a list has a slot of its index: the second index may   *)
(* hold more, which its reader leaves out.                                 *)
IndexOf(on, index) ==
    /\ on \subseteq Addresses /\ index \in Seq(Addresses \cup {Nobody})
    /\ on \subseteq ToSet(index)

IndexInv == IndexOf(denied, deniedIndex) /\ IndexOf(allowed, allowIndex)

-----------------------------------------------------------------------------
(* An operation leaves settings that are numbers.                          *)
LEMMA OperationType ==
  ASSUME NEW c \in Controls, NEW op, op.value \in Nat
  PROVE  ExecuteSingleAdminOp(c, op) \in Controls
  <1>1. CASE op.name \in Tunables
    <2>1. ExecuteSingleAdminOp(c, op) = [c EXCEPT !.tuned[op.name] = op.value]
      BY <1>1 DEF ExecuteSingleAdminOp
    <2>2. [c EXCEPT !.tuned[op.name] = op.value]
             = [paused |-> c.paused, tuned |-> [c.tuned EXCEPT ![op.name] = op.value]]
      BY DEF Controls
    <2>3. [c.tuned EXCEPT ![op.name] = op.value] \in [Tunables -> Nat] /\ c.paused \in BOOLEAN
      BY DEF Controls
    <2> QED BY <2>1, <2>2, <2>3 DEF Controls
  <1>2. CASE op.name \notin Tunables
    <2>1. ExecuteSingleAdminOp(c, op) = [c EXCEPT !.paused = (op.name = "pause")]
      BY <1>2 DEF ExecuteSingleAdminOp
    <2> QED BY <2>1 DEF Controls
  <1> QED BY <1>1, <1>2

(* The settings after each operation of a batch.                           *)
Ran(a, c, ops) ==
    a = [i \in 0..Len(ops) |-> IF i = 0 THEN c
                               ELSE IF OpFails(ops[i]) THEN a[i - 1]
                               ELSE ExecuteSingleAdminOp(a[i - 1], ops[i])]

(* So does a batch of any length, whichever of its operations fail.        *)
LEMMA BatchType ==
  ASSUME NEW c \in Controls, NEW ops \in Batches
  PROVE  BatchResult(c, ops) \in Controls
  <1> DEFINE n       == Len(ops)
             did(x, i) == IF OpFails(ops[i]) THEN x ELSE ExecuteSingleAdminOp(x, ops[i])
             next    == [i \in 1..n |-> [x \in Controls |-> did(x, i)]]
  <1>1. n \in Nat /\ \A i \in 1..n : ops[i].value \in Nat
    BY AdminAssumption
  <1>2. ASSUME NEW x \in Controls, NEW i \in 1..n PROVE did(x, i) \in Controls
    BY <1>1, OperationType
  <1>3. Steps(next, n, Controls)
    <2> HIDE DEF did, n
    <2> QED BY <1>2 DEF Steps
  <1>4. PICK f : Run(f, n, Controls, c, next)
    <2> HIDE DEF n, next
    <2> QED BY <1>1, <1>3, Recursion
  <1>5. f \in [0..n -> Controls] /\ f[0] = c /\ \A i \in 1..n : f[i] = next[i][f[i - 1]]
    <2> HIDE DEF n, next
    <2> QED BY <1>4 DEF Run
  <1>6. ASSUME NEW i \in 1..n PROVE f[i] = did(f[i - 1], i)
    <2>1. i - 1 \in 0..n
      BY <1>1
    <2> HIDE DEF did, n
    <2> QED BY <1>5, <2>1
  <1>7. Ran(f, c, ops)
    <2>1. ASSUME NEW i \in 0..n PROVE f[i] = IF i = 0 THEN c ELSE did(f[i - 1], i)
      <3>1. i # 0 => i \in 1..n
        BY <1>1
      <3> HIDE DEF did, n
      <3> QED BY <1>5, <1>6, <3>1
    <2>2. f = [i \in 0..n |-> f[i]]
      <3> HIDE DEF n, next
      <3> QED BY <1>5
    <2> QED BY <2>1, <2>2 DEF Ran
  <1> DEFINE it == CHOOSE a : Ran(a, c, ops)
  <1>8. Ran(it, c, ops)
    BY <1>7
  <1>9. BatchResult(c, ops) = it[n]
    BY DEF BatchResult, Ran
  <1> DEFINE Good == {m \in 0..n : it[m] \in Controls}
  <1>10. 0 \in Good
    <2> HIDE DEF it
    <2> QED BY <1>1, <1>8 DEF Ran
  <1>11. \A m \in 0..n - 1 : m \in Good => m + 1 \in Good
    <2> SUFFICES ASSUME NEW m \in 0..n - 1, it[m] \in Controls PROVE m + 1 \in Good
      BY DEF Good
    <2>1. m + 1 \in 1..n /\ m + 1 \in 0..n /\ m + 1 - 1 = m /\ m + 1 # 0
      BY <1>1
    <2>2. it[m + 1] = IF m + 1 = 0 THEN c
                      ELSE IF OpFails(ops[m + 1]) THEN it[m + 1 - 1]
                      ELSE ExecuteSingleAdminOp(it[m + 1 - 1], ops[m + 1])
      <3> HIDE DEF it, n, did, next
      <3> QED BY <1>8, <2>1 DEF Ran, n
    <2>3. it[m + 1] = did(it[m], m + 1)
      <3> HIDE DEF it, n
      <3> QED BY <2>1, <2>2
    <2>4. it[m + 1] \in Controls
      <3> HIDE DEF it, n, did
      <3> QED BY <1>2, <2>1, <2>3
    <2> HIDE DEF it, n
    <2> QED BY <2>1, <2>4
  <1>12. 0..n \subseteq Good
    <2> HIDE DEF Good, n
    <2> QED BY <1>1, <1>10, <1>11, IntervalInduction
  <1>13. n \in Good
    <2> HIDE DEF Good
    <2> QED BY <1>1, <1>12
  <1> QED BY <1>9, <1>13

-----------------------------------------------------------------------------
(* What a pruning, an enrolment and a dismissal leave of a coherent list.  *)
LEMMA PruneCoherent ==
  ASSUME NEW r, RosterOf(r)
  PROVE  RosterOf(Prune(r)) /\ Prune(r).count <= r.count
  <1> DEFINE kept == {a \in r.active : ~Inactive(a)}
             list == Filtered(r.list, kept)
  <1>1. /\ list \in Seq(Addresses) /\ Len(list) <= Len(r.list)
        /\ ToSet(list) = ToSet(r.list) \cap kept /\ IsInjective(list)
    <2> HIDE DEF kept
    <2> QED BY FilteredType, FilteredMembers, FilteredDistinct DEF RosterOf
  <1>2. Prune(r) = [active |-> r.active \ {a \in ToSet(r.list) : Inactive(a)},
                    list |-> list, count |-> Len(list)]
    BY DEF Prune
  <1> HIDE DEF list
  <1>3. Prune(r).list = list /\ Prune(r).count = Len(list) /\ Prune(r).active = ToSet(list)
    BY <1>1, <1>2 DEF RosterOf
  <1> QED BY <1>1, <1>3 DEF RosterOf

LEMMA EnrolCoherent ==
  ASSUME NEW r, RosterOf(r), NEW a \in Addresses
  PROVE  /\ RosterOf(Enrolled(r, a))
         /\ Enrolled(r, a).count = IF a \in r.active THEN r.count ELSE r.count + 1
  <1> DEFINE list == IF a \in r.active THEN r.list ELSE Append(r.list, a)
  <1>1. CASE a \in r.active
    BY <1>1 DEF Enrolled, RosterOf
  <1>2. CASE a \notin r.active
    <2>1. Enrolled(r, a) = [active |-> r.active \cup {a}, list |-> Append(r.list, a),
                            count |-> Len(Append(r.list, a))]
      BY <1>2 DEF Enrolled
    <2>2. r.list \in Seq(Addresses) /\ a \notin ToSet(r.list)
      BY <1>2 DEF RosterOf
    <2>3. /\ Append(r.list, a) \in Seq(Addresses) /\ Len(Append(r.list, a)) = Len(r.list) + 1
          /\ \A i, j \in 1..Len(Append(r.list, a)) :
                Append(r.list, a)[i] = Append(r.list, a)[j] => i = j
      BY <2>2, AppendDistinct DEF RosterOf, IsInjective
    <2>4. ToSet(Append(r.list, a)) = ToSet(r.list) \cup {a}
      BY <2>2, AppendMembers
    <2> QED BY <1>2, <2>1, <2>3, <2>4 DEF RosterOf, IsInjective
  <1> QED BY <1>1, <1>2

LEMMA DismissCoherent ==
  ASSUME NEW r, RosterOf(r), NEW a
  PROVE  RosterOf(Dismissed(r, a)) /\ Dismissed(r, a).count <= r.count
  <1> DEFINE kept == ToSet(r.list) \ {a}
             list == Filtered(r.list, kept)
  <1>1. /\ list \in Seq(Addresses) /\ Len(list) <= Len(r.list)
        /\ ToSet(list) = ToSet(r.list) \cap kept /\ IsInjective(list)
    <2> HIDE DEF kept
    <2> QED BY FilteredType, FilteredMembers, FilteredDistinct DEF RosterOf
  <1>2. Dismissed(r, a) = [active |-> r.active \ {a}, list |-> list, count |-> Len(list)]
    BY DEF Dismissed
  <1> HIDE DEF list
  <1>3. /\ Dismissed(r, a).list = list /\ Dismissed(r, a).count = Len(list)
        /\ Dismissed(r, a).active = ToSet(list)
    BY <1>1, <1>2 DEF RosterOf
  <1> QED BY <1>1, <1>3 DEF RosterOf

(* Emptying the first slot of an address leaves every other its slots.     *)
LEMMA EmptiedKeeps ==
  ASSUME NEW index \in Seq(Addresses \cup {Nobody}), NEW a
  PROVE  /\ Emptied(index, a) \in Seq(Addresses \cup {Nobody})
         /\ ToSet(index) \ {a} \subseteq ToSet(Emptied(index, a))
  <1> DEFINE slots == {i \in DOMAIN index : index[i] = a}
             first == CHOOSE i \in slots : \A j \in slots : i <= j
  <1>1. CASE slots = {}
    BY <1>1 DEF Emptied
  <1>2. CASE slots # {} /\ first \in DOMAIN index
    <2>1. Emptied(index, a) = [index EXCEPT ![first] = Nobody]
      BY <1>2 DEF Emptied
    <2>2. first \in DOMAIN index /\ \A i \in DOMAIN index : i # first => TRUE
      BY <1>2
    <2>3. index[first] = a
      <3>1. first \in slots
        <4>1. slots \in SUBSET Nat /\ slots # {}
          BY <1>2
        <4>2. \E i \in slots : \A j \in slots : i <= j
          <5> HIDE DEF slots
          <5> QED BY <4>1, LeastExists
        <4> QED BY <4>2
      <3> QED BY <3>1
    <2> HIDE DEF first, slots
    <2>4. Emptied(index, a) \in Seq(Addresses \cup {Nobody})
      BY <2>1, <2>2
    <2>5. \A i \in DOMAIN index : index[i] # a => Emptied(index, a)[i] = index[i]
      BY <2>1, <2>3
    <2>6. DOMAIN Emptied(index, a) = DOMAIN index
      BY <2>1
    <2> QED BY <2>4, <2>5, <2>6 DEF ToSet
  <1>3. slots # {} => first \in DOMAIN index
    <2>1. slots \in SUBSET Nat
      OBVIOUS
    <2>2. slots # {} => \E i \in slots : \A j \in slots : i <= j
      <3> HIDE DEF slots
      <3> QED BY <2>1, LeastExists
    <2> QED BY <2>2
  <1> QED BY <1>1, <1>2, <1>3

-----------------------------------------------------------------------------
(* What init leaves.                                                       *)
LEMMA InitStorage == AdminInit => StorageInv /\ RosterInv /\ IndexInv
  <1> SUFFICES ASSUME AdminInit PROVE StorageInv /\ RosterInv /\ IndexInv
    OBVIOUS
  <1>1. StorageInv
    BY AdminAssumption DEF AdminInit, StorageInv, NoOffer, None, Controls
  <1>2. ToSet(<<>>) = {} /\ IsInjective(<<>>) /\ Len(<<>>) = 0
    BY DEF ToSet, IsInjective
  <1>3. <<>> \in Seq(Addresses) /\ <<>> \in Seq(Addresses \cup {Nobody})
    OBVIOUS
  <1>4. RosterInv
    BY <1>2, <1>3 DEF AdminInit, RosterInv, RosterOf
  <1>5. IndexInv
    BY <1>3 DEF AdminInit, IndexInv, IndexOf
  <1> QED BY <1>1, <1>4, <1>5

(* The bounds and delays are numbers.                                      *)
LEMMA DelaysAreNumbers ==
  /\ TimelockDelay \in Nat /\ MinUpgradeDelay \in Nat /\ Inactivity \in Nat
  /\ LastLedger \in Nat /\ LastLedger > 0 /\ MaxNonce \in Nat
  /\ \A delay \in Delays : delay \in Nat
  BY AdminAssumption

(* Calls on the seat.                                                      *)
LEMMA SeatKeepsStorage ==
  ASSUME StorageInv, SeatNext
  PROVE  StorageInv'
  <1>1. ASSUME admin' \in Addresses \cup {Nobody},
               offer' \in [to : Addresses \cup {Nobody}, at : 0..seq],
               renounceAt' \in 0..(seq + TimelockDelay),
               UNCHANGED <<seq, controls, lockedVars, rosterVars>>
        PROVE  StorageInv'
    BY <1>1 DEF StorageInv, lockedVars, rosterVars
  <1>2. /\ seq \in Nat /\ TimelockDelay \in Nat /\ Nobody \in Addresses \cup {Nobody}
        /\ admin \in Addresses \cup {Nobody}
        /\ offer \in [to : Addresses \cup {Nobody}, at : 0..seq]
        /\ renounceAt \in 0..(seq + TimelockDelay)
    BY DelaysAreNumbers DEF StorageInv
  <1>3. NoOffer \in [to : Addresses \cup {Nobody}, at : 0..seq]
    BY <1>2 DEF NoOffer, None
  <1>4. ASSUME NEW a \in Addresses, TransferAdmin(a)
        PROVE  StorageInv'
    <2>1. offer' \in [to : Addresses \cup {Nobody}, at : 0..seq]
      BY <1>2, <1>4 DEF TransferAdmin
    <2> QED BY <1>1, <1>2, <1>4, <2>1 DEF TransferAdmin
  <1>5. CASE AcceptAdmin
    BY <1>1, <1>2, <1>3, <1>5 DEF AcceptAdmin
  <1>6. CASE QueueRenounceAdmin
    BY <1>1, <1>2, <1>6 DEF QueueRenounceAdmin, RenounceTarget
  <1>7. CASE CancelRenounceAdmin
    BY <1>1, <1>2, <1>7 DEF CancelRenounceAdmin, None
  <1>8. CASE ExecuteRenounceAdmin
    BY <1>1, <1>2, <1>3, <1>8 DEF ExecuteRenounceAdmin, None
  <1> QED BY <1>4, <1>5, <1>6, <1>7, <1>8 DEF SeatNext

(* Timelocked actions and upgrades.                                        *)
LEMMA LockedKeepsStorage ==
  ASSUME StorageInv, LockedNext
  PROVE  StorageInv'
  <1> DEFINE Numbered(as, n) == n \in Nat /\ \A a \in as : a.id \in Nat /\ a.id < n
  <1>1. ASSUME Numbered(actions', nextAction'), upgradeAfter' \in Nat, upgradeDelay' \in Nat,
               cancelNonces' \in [Addresses -> 0..MaxNonce],
               UNCHANGED <<seq, seatVars, controls, rosterVars>>
        PROVE  StorageInv'
    BY <1>1 DEF StorageInv, seatVars, rosterVars
  <1>2. /\ Numbered(actions, nextAction) /\ upgradeAfter \in Nat /\ upgradeDelay \in Nat
        /\ cancelNonces \in [Addresses -> 0..MaxNonce] /\ seq \in Nat
    BY DelaysAreNumbers DEF StorageInv
  <1>3. ASSUME NEW delay \in Delays, QueueAdminAction(delay)
        PROVE  StorageInv'
    <2>1. /\ actions' = actions \cup {[id |-> nextAction, target |-> seq + delay]}
          /\ nextAction' = nextAction + 1
      BY <1>3 DEF QueueAdminAction
    <2>2. Numbered(actions', nextAction')
      BY <1>2, <2>1
    <2> HIDE DEF Numbered
    <2> QED BY <1>1, <1>2, <1>3, <2>2 DEF QueueAdminAction
  <1>4. ASSUME NEW a \in actions, ExecuteAdminAction(a)
        PROVE  StorageInv'
    <2>1. Numbered(actions', nextAction')
      BY <1>2, <1>4 DEF ExecuteAdminAction
    <2> HIDE DEF Numbered
    <2> QED BY <1>1, <1>2, <1>4, <2>1 DEF ExecuteAdminAction
  <1> HIDE DEF Numbered
  <1>5. ASSUME UNCHANGED <<actions, nextAction>> PROVE Numbered(actions', nextAction')
    BY <1>2, <1>5
  <1>6. ASSUME NEW delay \in Delays, SetUpgradeDelay(delay)
        PROVE  StorageInv'
    BY <1>1, <1>2, <1>5, <1>6, DelaysAreNumbers DEF SetUpgradeDelay
  <1>7. CASE ProposeUpgrade
    BY <1>1, <1>2, <1>5, <1>7 DEF ProposeUpgrade
  <1>8. CASE ExecuteUpgrade
    BY <1>1, <1>2, <1>5, <1>8 DEF ExecuteUpgrade, None
  <1>9. ASSUME NEW nonce \in 0..MaxNonce, CancelUpgrade(nonce)
        PROVE  StorageInv'
    <2>1. admin \in Addresses /\ MaxNonce \in Nat
      BY <1>9, DelaysAreNumbers DEF CancelUpgrade, HasAdmin, StorageInv
    <2>2. cancelNonces' = [cancelNonces EXCEPT ![admin] = @ + 1]
      BY <1>9 DEF CancelUpgrade
    <2>3. cancelNonces' \in [Addresses -> 0..MaxNonce]
      <3>1. cancelNonces[admin] + 1 \in 0..MaxNonce
        BY <1>9, <2>1 DEF CancelUpgrade
      <3> QED BY <1>2, <2>1, <2>2, <3>1
    <2> QED BY <1>1, <1>2, <1>5, <1>9, <2>3 DEF CancelUpgrade, None
  <1> QED BY <1>3, <1>4, <1>6, <1>7, <1>8, <1>9 DEF LockedNext

(* The controls: set one by one, by a batch, or by a proposal.             *)
LEMMA ControlsKeepStorage ==
  ASSUME StorageInv, AdminInv, ControlsNext \/ MultisigNext
  PROVE  StorageInv'
  <1>1. ASSUME controls' \in Controls,
               UNCHANGED <<seq, seatVars, lockedVars, rosterVars>>
        PROVE  StorageInv'
    BY <1>1 DEF StorageInv, seatVars, lockedVars, rosterVars
  <1>2. ASSUME NEW b \in BOOLEAN, SetPaused(b)
        PROVE  StorageInv'
    <2>1. controls' \in Controls
      BY <1>2 DEF SetPaused, StorageInv, Controls
    <2> QED BY <1>1, <1>2, <2>1 DEF SetPaused
  <1>3. ASSUME NEW ops \in Batches, ExecuteBatchAdmin(ops)
        PROVE  StorageInv'
    <2>1. controls' \in Controls
      BY <1>3, BatchType DEF ExecuteBatchAdmin, StorageInv
    <2> QED BY <1>1, <1>3, <2>1 DEF ExecuteBatchAdmin
  <1>4. CASE MultisigNext /\ UNCHANGED controls
    <2>1. UNCHANGED <<seq, seatVars, lockedVars, rosterVars>>
      BY <1>4 DEF MultisigNext, ProposeMultisigAction, ApproveMultisigAction,
                  RevokeMultisigApproval, ExecuteMultisigAction, SetApprovals, SetProposals
    <2>2. controls' \in Controls
      BY <1>4 DEF StorageInv
    <2> QED BY <1>1, <2>1, <2>2
  <1>5. ASSUME NEW id \in DOMAIN proposals, ExecuteMultisigAction(id)
        PROVE  StorageInv'
    <2>1. proposals[id].op \in Operations
      <3>1. proposals[id] \in Proposal
        BY DEF AdminInv
      <3> QED BY <3>1 DEF Proposal
    <2>2. proposals[id].op.value \in Nat
      BY <2>1, AdminAssumption
    <2>3. controls' \in Controls
      BY <1>5, <2>2, OperationType DEF ExecuteMultisigAction, StorageInv
    <2> QED BY <1>1, <1>5, <2>3 DEF ExecuteMultisigAction, SetProposals
  <1>6. MultisigNext => UNCHANGED controls \/ \E id \in DOMAIN proposals : ExecuteMultisigAction(id)
    BY DEF MultisigNext, ProposeMultisigAction, ApproveMultisigAction, RevokeMultisigApproval
  <1> QED BY <1>2, <1>3, <1>4, <1>5, <1>6 DEF ControlsNext

(* The operators' calls, and those about operators.                        *)
LEMMA RosterKeepsStorage ==
  ASSUME StorageInv, RosterNext
  PROVE  StorageInv'
  <1>1. ASSUME NEW a \in Addresses, NEW nonce, ValidateAndIncrementNonce(a, nonce)
        PROVE  nonces' \in [Addresses -> 0..MaxNonce]
    <2>1. nonces \in [Addresses -> 0..MaxNonce] /\ MaxNonce \in Nat
      BY DelaysAreNumbers DEF StorageInv
    <2>2. /\ nonces[a] < MaxNonce
          /\ nonces' = [nonces EXCEPT ![a] = nonces[a] + 1]
      BY <1>1, <2>1 DEF ValidateAndIncrementNonce
    <2>3. nonces[a] + 1 \in 0..MaxNonce
      BY <2>1, <2>2
    <2> QED BY <2>1, <2>2, <2>3
  <1>2. ASSUME NEW a \in Addresses, NEW nonce \in 0..MaxNonce, Heartbeat(a, nonce)
        PROVE  StorageInv'
    <2>1. nonces' \in [Addresses -> 0..MaxNonce]
      BY <1>1, <1>2 DEF Heartbeat
    <2>2. beats' \in [Addresses -> 0..seq]
      BY <1>2 DEF Heartbeat, StorageInv
    <2> QED BY <1>2, <2>1, <2>2 DEF Heartbeat, StorageInv, seatVars, lockedVars
  <1>3. ASSUME NEW a \in Addresses, NEW nonce \in 0..MaxNonce, NEW active \in BOOLEAN,
               SetOperator(a, active, nonce)
        PROVE  StorageInv'
    <2>1. nonces' \in [Addresses -> 0..MaxNonce]
      BY <1>1, <1>3 DEF SetOperator
    <2> QED BY <1>3, <2>1 DEF SetOperator, StorageInv, seatVars, lockedVars
  <1>4. CASE (\E cap \in Caps : SetMaxOperators(cap)) \/ PruneInactiveOperators
    BY <1>4 DEF SetMaxOperators, PruneInactiveOperators, StorageInv, seatVars, lockedVars
  <1> QED BY <1>2, <1>3, <1>4 DEF RosterNext

LEMMA StepKeepsStorage ==
  ASSUME StorageInv, AdminInv, [AdminNext]_adminVars
  PROVE  StorageInv'
  <1>1. CASE ListsNext
    BY <1>1 DEF ListsNext, DenyAddress, RemoveDeniedAddress, AddTokenAllowlist,
                RemoveTokenAllowlist, StorageInv, seatVars, lockedVars, rosterVars
  <1>2. CASE LedgerCloses
    <2>1. /\ seq \in 1..LastLedger /\ LastLedger \in Nat /\ TimelockDelay \in Nat
          /\ seq < LastLedger /\ seq' = seq + 1
          /\ UNCHANGED <<seatVars, controls, lockedVars, rosterVars>>
      BY <1>2, DelaysAreNumbers DEF LedgerCloses, StorageInv
    <2>2. /\ seq' \in 1..LastLedger /\ \A n \in 0..seq : n \in 0..seq'
          /\ \A n \in 0..(seq + TimelockDelay) : n \in 0..(seq' + TimelockDelay)
      BY <2>1
    <2>3. /\ offer' \in [to : Addresses \cup {Nobody}, at : 0..seq']
          /\ renounceAt' \in 0..(seq' + TimelockDelay)
          /\ beats' \in [Addresses -> 0..seq']
      BY <2>1, <2>2 DEF StorageInv, seatVars, rosterVars
    <2> QED BY <2>1, <2>2, <2>3 DEF StorageInv, seatVars, lockedVars, rosterVars
  <1>3. CASE UNCHANGED adminVars
    BY <1>3 DEF adminVars, StorageInv, seatVars, lockedVars, rosterVars
  <1> QED BY <1>1, <1>2, <1>3, SeatKeepsStorage, LockedKeepsStorage, ControlsKeepStorage,
             RosterKeepsStorage DEF AdminNext

-----------------------------------------------------------------------------
(* Enrolment looks at the cap after the pruning it makes first.            *)
LEMMA SetOperatorKeepsRoster ==
  ASSUME RosterInv, NEW a \in Addresses, NEW active \in BOOLEAN, NEW nonce,
         SetOperator(a, active, nonce)
  PROVE  RosterInv'
  <1> DEFINE pruned == Prune(roster)
  <1>1. RosterOf(pruned) /\ pruned.count <= roster.count
    BY PruneCoherent DEF RosterInv
  <1>2. /\ active /\ a \notin pruned.active /\ maxOperators > 0 => Len(pruned.list) < maxOperators
        /\ roster' = IF active THEN Enrolled(pruned, a) ELSE Dismissed(pruned, a)
        /\ maxOperators' = maxOperators
    BY DEF SetOperator
  <1> HIDE DEF pruned
  <1>3. /\ maxOperators \in Nat /\ (maxOperators > 0 => roster.count <= maxOperators)
        /\ roster.count \in Nat /\ pruned.count \in Nat /\ pruned.count = Len(pruned.list)
    BY <1>1 DEF RosterInv, RosterOf
  <1>4. CASE active
    <2>1. /\ RosterOf(roster')
          /\ roster'.count = IF a \in pruned.active THEN pruned.count ELSE pruned.count + 1
      BY <1>1, <1>2, <1>4, EnrolCoherent
    <2>2. maxOperators > 0 => roster'.count <= maxOperators
      BY <1>1, <1>2, <1>3, <1>4, <2>1
    <2> QED BY <1>2, <1>3, <2>1, <2>2 DEF RosterInv
  <1>5. CASE ~active
    <2>1. RosterOf(roster') /\ roster'.count <= pruned.count
      BY <1>1, <1>2, <1>5, DismissCoherent
    <2>2. roster'.count \in Nat
      BY <2>1 DEF RosterOf
    <2> QED BY <1>1, <1>2, <1>3, <2>1, <2>2 DEF RosterInv
  <1> QED BY <1>4, <1>5

LEMMA StepKeepsRoster ==
  ASSUME RosterInv, [AdminNext]_adminVars
  PROVE  RosterInv'
  <1>1. CASE UNCHANGED <<roster, maxOperators>>
    BY <1>1 DEF RosterInv
  <1>2. CASE SeatNext
    BY <1>1, <1>2 DEF SeatNext, TransferAdmin, AcceptAdmin, QueueRenounceAdmin,
       CancelRenounceAdmin, ExecuteRenounceAdmin, rosterVars
  <1>3. CASE LockedNext
    BY <1>1, <1>3 DEF LockedNext, QueueAdminAction, ExecuteAdminAction, SetUpgradeDelay,
       ProposeUpgrade, ExecuteUpgrade, CancelUpgrade, rosterVars
  <1>4. CASE ControlsNext \/ MultisigNext
    BY <1>1, <1>4 DEF ControlsNext, SetPaused, ExecuteBatchAdmin, MultisigNext,
       ProposeMultisigAction, ApproveMultisigAction, RevokeMultisigApproval,
       ExecuteMultisigAction, SetApprovals, SetProposals, rosterVars
  <1>5. CASE ListsNext
    BY <1>1, <1>5 DEF ListsNext, DenyAddress, RemoveDeniedAddress, AddTokenAllowlist,
       RemoveTokenAllowlist, rosterVars
  <1>6. CASE LedgerCloses \/ UNCHANGED adminVars
    BY <1>1, <1>6 DEF LedgerCloses, adminVars, rosterVars
  <1>7. ASSUME NEW a \in Addresses, NEW nonce \in 0..MaxNonce, Heartbeat(a, nonce)
        PROVE  RosterInv'
    BY <1>1, <1>7 DEF Heartbeat
  <1>8. CASE \E cap \in Caps : SetMaxOperators(cap)
    BY <1>8, AdminAssumption DEF SetMaxOperators, RosterInv
  <1>9. CASE PruneInactiveOperators
    <2>1. roster' = Prune(roster) /\ maxOperators' = maxOperators
      BY <1>9 DEF PruneInactiveOperators
    <2>2. RosterOf(roster') /\ roster'.count <= roster.count
      BY <2>1, PruneCoherent DEF RosterInv
    <2>3. roster.count \in Nat /\ roster'.count \in Nat
      BY <2>2 DEF RosterInv, RosterOf
    <2> QED BY <2>1, <2>2, <2>3 DEF RosterInv
  <1>10. RosterNext => RosterInv'
    BY <1>7, <1>8, <1>9, SetOperatorKeepsRoster DEF RosterNext
  <1> QED BY <1>2, <1>3, <1>4, <1>5, <1>6, <1>10 DEF AdminNext

-----------------------------------------------------------------------------
(* An address that goes on a list, and one that comes off.                 *)
LEMMA ListedIndexed ==
  ASSUME NEW on, NEW index, IndexOf(on, index), NEW a \in Addresses
  PROVE  IndexOf(on \cup {a}, Append(index, a))
  <1>1. a \in Addresses \cup {Nobody} /\ index \in Seq(Addresses \cup {Nobody})
    BY DEF IndexOf
  <1>2. /\ Append(index, a) \in Seq(Addresses \cup {Nobody})
        /\ ToSet(Append(index, a)) = ToSet(index) \cup {a}
    BY <1>1, AppendMembers
  <1> QED BY <1>2 DEF IndexOf

LEMMA UnlistedIndexed ==
  ASSUME NEW on, NEW index, IndexOf(on, index), NEW a \in Addresses
  PROVE  IndexOf(on \ {a}, Emptied(index, a))
  <1>1. index \in Seq(Addresses \cup {Nobody})
    BY DEF IndexOf
  <1>2. /\ Emptied(index, a) \in Seq(Addresses \cup {Nobody})
        /\ ToSet(index) \ {a} \subseteq ToSet(Emptied(index, a))
    BY <1>1, EmptiedKeeps
  <1> QED BY <1>2 DEF IndexOf

LEMMA StepKeepsIndexes ==
  ASSUME IndexInv, [AdminNext]_adminVars
  PROVE  IndexInv'
  <1>1. CASE UNCHANGED listVars
    BY <1>1 DEF IndexInv, listVars
  <1>2. CASE SeatNext
    BY <1>1, <1>2 DEF SeatNext, TransferAdmin, AcceptAdmin, QueueRenounceAdmin,
       CancelRenounceAdmin, ExecuteRenounceAdmin
  <1>3. CASE LockedNext
    BY <1>1, <1>3 DEF LockedNext, QueueAdminAction, ExecuteAdminAction, SetUpgradeDelay,
       ProposeUpgrade, ExecuteUpgrade, CancelUpgrade
  <1>4. CASE ControlsNext \/ MultisigNext
    BY <1>1, <1>4 DEF ControlsNext, SetPaused, ExecuteBatchAdmin, MultisigNext,
       ProposeMultisigAction, ApproveMultisigAction, RevokeMultisigApproval,
       ExecuteMultisigAction, SetApprovals, SetProposals
  <1>5. CASE RosterNext
    BY <1>1, <1>5 DEF RosterNext, Heartbeat, SetOperator, SetMaxOperators,
       PruneInactiveOperators
  <1>6. CASE LedgerCloses \/ UNCHANGED adminVars
    BY <1>1, <1>6 DEF LedgerCloses, adminVars
  <1>7. ASSUME NEW a \in Addresses, DenyAddress(a)
        PROVE  IndexInv'
    BY <1>7, ListedIndexed DEF DenyAddress, IndexInv
  <1>8. ASSUME NEW a \in Addresses, RemoveDeniedAddress(a)
        PROVE  IndexInv'
    BY <1>8, UnlistedIndexed DEF RemoveDeniedAddress, IndexInv
  <1>9. ASSUME NEW a \in Addresses, AddTokenAllowlist(a)
        PROVE  IndexInv'
    BY <1>9, ListedIndexed DEF AddTokenAllowlist, IndexInv
  <1>10. ASSUME NEW a \in Addresses, RemoveTokenAllowlist(a)
         PROVE  IndexInv'
    BY <1>10, UnlistedIndexed DEF RemoveTokenAllowlist, IndexInv
  <1>11. ListsNext => IndexInv'
    BY <1>7, <1>8, <1>9, <1>10 DEF ListsNext
  <1> QED BY <1>2, <1>3, <1>4, <1>5, <1>6, <1>11 DEF AdminNext

-----------------------------------------------------------------------------
(* The three together, and with the proposals, in every reachable state.   *)
THEOREM StorageInvariance == AdminSpec => [](StorageInv /\ RosterInv /\ IndexInv)
  <1>1. /\ AdminInv /\ StorageInv /\ RosterInv /\ IndexInv /\ [AdminNext]_adminVars
        => (StorageInv /\ RosterInv /\ IndexInv)'
    BY StepKeepsStorage, StepKeepsRoster, StepKeepsIndexes
  <1> QED BY <1>1, InitStorage, AdminInvariance, PTL DEF AdminSpec

(* Every setting of the contract's storage is of its kind, however long    *)
(* the batches and whichever of their operations fail                      *)
(* (lib.rs:2308-2390, 4540-4590).                                          *)
THEOREM StorageOfItsShape == AdminSpec => []AdminStorageOK
  <1>1. StorageInv /\ RosterInv /\ AdminInv => AdminStorageOK
    <2> SUFFICES ASSUME StorageInv, RosterInv, AdminInv PROVE AdminStorageOK
      OBVIOUS
    <2>1. \A i \in DOMAIN proposals : proposals[i].op \in Operations
      <3> TAKE i \in DOMAIN proposals
      <3>1. proposals[i] \in Proposal
        BY DEF AdminInv
      <3> QED BY <3>1 DEF Proposal
    <2>2. offer.to \in Addresses \cup {Nobody} /\ offer.at <= seq
      BY DEF StorageInv
    <2>3. renounceAt <= seq + TimelockDelay
      BY AdminAssumption DEF StorageInv
    <2>4. controls.paused \in BOOLEAN /\ controls.tuned \in [Tunables -> Nat]
      BY DEF StorageInv, Controls
    <2> QED BY <2>1, <2>2, <2>3, <2>4 DEF AdminStorageOK, StorageInv, RosterInv
  <1> QED BY <1>1, StorageInvariance, AdminInvariance, PTL

(* The operators' list and count agree with the flags after any sequence   *)
(* of enrolments, dismissals and prunings, and the pages of both address   *)
(* lists leave nobody out (lib.rs:2762-3130, 3220-3274).                   *)
THEOREM ListsKeepUp == AdminSpec => []ListsMatchFlags
  <1>1. RosterInv /\ IndexInv => ListsMatchFlags
    <2> SUFFICES ASSUME RosterInv, IndexInv PROVE ListsMatchFlags
      OBVIOUS
    <2>1. /\ deniedIndex \in Seq(Addresses \cup {Nobody})
          /\ allowIndex \in Seq(Addresses \cup {Nobody})
          /\ denied \subseteq Addresses /\ denied \subseteq ToSet(deniedIndex)
          /\ allowed \subseteq ToSet(allowIndex)
      BY DEF IndexInv, IndexOf
    <2>2. ToSet(GetDeniedAddresses) = ToSet(deniedIndex) \cap Addresses
      BY <2>1, FilteredMembers DEF GetDeniedAddresses
    <2>3. ToSet(GetTokenAllowlist) = ToSet(allowIndex) \cap allowed
      BY <2>1, FilteredMembers DEF GetTokenAllowlist
    <2> QED BY <2>1, <2>2, <2>3 DEF ListsMatchFlags, RosterInv, RosterOf
  <1> QED BY <1>1, StorageInvariance, PTL

-----------------------------------------------------------------------------
(* The migration makes no step of the contract's other storage, so what    *)
(* holds of that holds here.                                               *)
THEOREM MigrationIsAdmin == MigrationSpec => AdminSpec
  <1>1. MigrationInit => AdminInit
    BY DEF MigrationInit
  <1>2. [MigrationNext]_<<adminVars, migrationVars>> => [AdminNext]_adminVars
    BY DEF MigrationNext, MigrationCalls, DepositReceipt, RequestExtendsTtls, MigrateEscrow,
           SetMigrationCursor
  <1> QED BY <1>1, <1>2, PTL DEF MigrationSpec, AdminSpec

(* What NoneLeftBehind lacks to be inductive: a cursor beyond the receipts *)
(* was set there, so that the ones deposited under it later count as       *)
(* passed over.                                                            *)
MigrationInv ==
    /\ receiptCounter \in Nat /\ cursor \in Nat /\ version \in {0, 1}
    /\ migrated \in 0..receiptCounter
    /\ DOMAIN receipts = 0..(receiptCounter - 1)
    /\ indexUntil \in [0..(receiptCounter - 1) -> Nat]
    /\ \A i \in Nat : receiptCounter <= i /\ i < cursor => i \in jumped
    /\ NoneLeftBehind

LEMMA InitMigration == MigrationInit => MigrationInv
  <1> SUFFICES ASSUME MigrationInit PROVE MigrationInv
    OBVIOUS
  <1>1. DOMAIN <<>> = {} /\ <<>> = [i \in {} |-> i]
    OBVIOUS
  <1>2. 0..(0 - 1) = {}
    OBVIOUS
  <1>3. receipts = <<>> /\ indexUntil = <<>> /\ records = <<>> /\ receiptCounter = 0
        /\ cursor = 0 /\ version = 0 /\ migrated = 0
    BY DEF MigrationInit
  <1>4. indexUntil \in [{} -> Nat]
    BY <1>1, <1>3
  <1>5. NoneLeftBehind
    BY <1>1, <1>2, <1>3 DEF NoneLeftBehind
  <1> QED BY <1>1, <1>2, <1>3, <1>4, <1>5 DEF MigrationInv

(* What is found now was found before: ledgers only go on.                 *)
LEMMA LedgersGoOn ==
  ASSUME StorageInv, [AdminNext]_adminVars
  PROVE  seq \in Nat /\ seq' \in Nat /\ seq <= seq'
  <1>1. seq \in Nat
    BY DEF StorageInv
  <1>2. seq' = seq \/ seq' = seq + 1
    BY DEF AdminNext, SeatNext, LockedNext, ControlsNext, MultisigNext, RosterNext, ListsNext,
       TransferAdmin, AcceptAdmin, QueueRenounceAdmin, CancelRenounceAdmin, ExecuteRenounceAdmin,
       SetPaused, ExecuteBatchAdmin, QueueAdminAction, SetUpgradeDelay, ExecuteAdminAction,
       ProposeUpgrade, ExecuteUpgrade, CancelUpgrade, ProposeMultisigAction,
       ApproveMultisigAction, RevokeMultisigApproval, ExecuteMultisigAction, SetApprovals,
       SetProposals, Heartbeat, SetOperator, SetMaxOperators, PruneInactiveOperators,
       DenyAddress, RemoveDeniedAddress, AddTokenAllowlist, RemoveTokenAllowlist,
       LedgerCloses, adminVars
  <1> QED BY <1>1, <1>2

LEMMA OtherCallsKeepMigration ==
  ASSUME MigrationInv, StorageInv, [AdminNext]_adminVars, UNCHANGED migrationVars
  PROVE  MigrationInv'
  <1>1. seq \in Nat /\ seq' \in Nat /\ seq <= seq'
    BY LedgersGoOn
  <1>2. \A i \in 0..(receiptCounter - 1) : Live(i)' => Live(i)
    BY <1>1 DEF MigrationInv, migrationVars, receiptVars, Live
  <1>3. NoneLeftBehind'
    BY <1>2 DEF MigrationInv, NoneLeftBehind, migrationVars, receiptVars
  <1> QED BY <1>3 DEF MigrationInv, migrationVars, receiptVars

(* A new receipt is above every mark, unless the cursor was set past it.   *)
LEMMA DepositKeepsMigration ==
  ASSUME MigrationInv, StorageInv, NEW from, NEW amount, DepositReceipt(from, amount)
  PROVE  MigrationInv'
  <1> DEFINE n == receiptCounter
  <1>1. n \in Nat /\ n' = n + 1 /\ (n' - 1) = n /\ seq \in Nat /\ MinTTL \in Nat
    BY MigrationAssumption DEF MigrationInv, StorageInv, DepositReceipt
  <1>2. UNCHANGED <<seq, records, cursor, version, jumped, migrated>>
    BY DEF DepositReceipt, adminVars
  <1>3. /\ DOMAIN receipts' = 0..n /\ \A i \in 0..(n - 1) : receipts'[i] = receipts[i]
        /\ DOMAIN indexUntil' = 0..n /\ \A i \in 0..(n - 1) : indexUntil'[i] = indexUntil[i]
    BY <1>1 DEF DepositReceipt
  <1>4. indexUntil' \in [0..n -> Nat]
    BY <1>1 DEF DepositReceipt, MigrationInv
  <1>5. \A i \in DOMAIN records : i \in 0..(n - 1)
    BY DEF MigrationInv, NoneLeftBehind
  <1>6. \A i \in DOMAIN records : records'[i] = receipts'[i]
    BY <1>2, <1>3, <1>5 DEF MigrationInv, NoneLeftBehind
  <1>7. NoneLeftBehind'
    <2>1. \A i \in 0..(n - 1) : Live(i)' => Live(i)
      BY <1>2, <1>3 DEF Live
    <2>2. n < Larger(cursor, migrated) => n \in jumped
      BY <1>1 DEF MigrationInv, Larger
    <2>3. DOMAIN records \subseteq 0..n
      BY <1>1, <1>5
    <2>4. \A i \in 0..n : i \in 0..(n - 1) \/ i = n
      BY <1>1
    <2>5. \A i \in 0..n : Live(i)' /\ i \notin jumped /\ i < Larger(cursor, migrated)
                          => i \in DOMAIN records
      BY <2>1, <2>2, <2>4 DEF MigrationInv, NoneLeftBehind
    <2>6. 0..(receiptCounter' - 1) = 0..n
      BY <1>1
    <2> QED BY <1>2, <1>6, <2>3, <2>5, <2>6 DEF NoneLeftBehind, Larger
  <1>8. \A i \in Nat : n' <= i /\ i < cursor => i \in jumped
    BY <1>1 DEF MigrationInv
  <1> QED BY <1>1, <1>2, <1>3, <1>4, <1>7, <1>8 DEF MigrationInv

LEMMA RequestKeepsMigration ==
  ASSUME MigrationInv, StorageInv, NEW to, RequestExtendsTtls(to)
  PROVE  MigrationInv'
  <1> DEFINE ttl == MinTTL + controls.tuned["set_lock"] + controls.tuned["set_cooldown"]
  <1>1. seq \in Nat /\ ttl \in Nat
    <2>1. controls.tuned \in [Tunables -> Nat] /\ {"set_lock", "set_cooldown"} \subseteq Tunables
      BY DEF StorageInv, Controls, Tunables
    <2> QED BY <2>1, MigrationAssumption DEF StorageInv
  <1>2. UNCHANGED <<seq, receiptCounter, receipts, records, cursor, version, jumped, migrated>>
    BY DEF RequestExtendsTtls, adminVars
  <1>3. indexUntil' = [i \in DOMAIN indexUntil |->
           IF Live(i) /\ receipts[i].depositor = to THEN Larger(indexUntil[i], seq + ttl)
           ELSE indexUntil[i]]
    BY DEF RequestExtendsTtls
  <1>4. /\ indexUntil' \in [0..(receiptCounter - 1) -> Nat]
        /\ \A i \in 0..(receiptCounter - 1) : Live(i)' => Live(i)
    <2> HIDE DEF ttl
    <2> QED BY <1>1, <1>2, <1>3 DEF MigrationInv, Larger, Live
  <1>5. NoneLeftBehind'
    BY <1>2, <1>4 DEF MigrationInv, NoneLeftBehind, Larger
  <1> QED BY <1>2, <1>4, <1>5 DEF MigrationInv

(* What a batch that ends at stop leaves: it copies each position it       *)
(* passes that can be found.                                               *)
LEMMA BatchKeepsMigration ==
  ASSUME MigrationInv, NEW stop \in cursor..Larger(cursor, receiptCounter),
         records' = RecordsAfter(stop), cursor' = stop, version' \in {0, 1},
         migrated' \in {migrated, receiptCounter},
         migrated' = receiptCounter \/ stop < receiptCounter,
         migrated' = receiptCounter => stop >= receiptCounter \/ migrated' = migrated,
         UNCHANGED <<adminVars, receiptVars, jumped>>
  PROVE  MigrationInv'
  <1> DEFINE n == receiptCounter
  <1>1. n \in Nat /\ cursor \in Nat /\ stop \in Nat /\ cursor <= stop /\ migrated \in 0..n
    BY DEF MigrationInv, Larger
  <1>2. stop <= n \/ stop = cursor
    BY <1>1 DEF Larger
  <1>3. Copied(stop) \subseteq 0..(n - 1) /\ Copied(stop) \subseteq cursor..(stop - 1)
    BY <1>1, <1>2 DEF Copied
  <1>4. /\ DOMAIN records' = DOMAIN records \cup Copied(stop)
        /\ \A i \in DOMAIN records' : records'[i] = receipts'[i]
    BY DEF RecordsAfter, MigrationInv, NoneLeftBehind, receiptVars
  <1>5. \A i \in 0..(n - 1) : Live(i)' <=> Live(i)
    BY DEF Live, adminVars, receiptVars
  <1>6. NoneLeftBehind'
    <2>1. DOMAIN records' \subseteq 0..(n - 1)
      BY <1>3, <1>4 DEF MigrationInv, NoneLeftBehind
    <2>2. ASSUME NEW i \in 0..(n - 1), Live(i), i \notin jumped, i < Larger(stop, migrated')
          PROVE  i \in DOMAIN records'
      <3>1. CASE i < Larger(cursor, migrated)
        BY <3>1, <2>2, <1>4 DEF MigrationInv, NoneLeftBehind
      <3>2. CASE ~(i < Larger(cursor, migrated))
        <4>1. i \in Nat /\ cursor <= i /\ migrated <= i
          BY <3>2, <1>1 DEF Larger
        <4>2. i < stop
          BY <4>1, <2>2, <1>1 DEF Larger
        <4>3. i \in Copied(stop)
          BY <4>1, <4>2, <2>2, <1>1 DEF Copied
        <4> QED BY <4>3, <1>4
      <3> QED BY <3>1, <3>2
    <2> QED BY <2>1, <2>2, <1>4, <1>5 DEF NoneLeftBehind, receiptVars, Larger
  <1>7. \A i \in Nat : n <= i /\ i < stop => i \in jumped
    BY <1>1, <1>2 DEF MigrationInv
  <1> QED BY <1>1, <1>6, <1>7 DEF MigrationInv, receiptVars

LEMMA MigrateKeepsMigration ==
  ASSUME MigrationInv, NEW batch, MigrateEscrow(batch)
  PROVE  MigrationInv'
  <1>1. PICK stop \in cursor..Larger(cursor, receiptCounter) :
          /\ records' = RecordsAfter(stop)
          /\ cursor' = stop
          /\ version' = IF stop >= receiptCounter THEN 1 ELSE 0
          /\ migrated' = IF stop >= receiptCounter THEN receiptCounter ELSE migrated
    BY DEF MigrateEscrow
  <1>2. stop \in Nat /\ receiptCounter \in Nat
    BY DEF MigrationInv, Larger
  <1>3. UNCHANGED <<adminVars, receiptVars, jumped>>
    BY DEF MigrateEscrow
  <1> QED BY <1>1, <1>2, <1>3, BatchKeepsMigration

LEMMA Between ==
  ASSUME NEW i \in Nat, NEW m \in Nat, NEW n \in Nat, i < n, ~(i < m)
  PROVE  i \in m..(n - 1)
  OBVIOUS

(* Wherever the cursor is set, and whatever is left of the number there.   *)
LEMMA CursorKeepsMigration ==
  ASSUME MigrationInv, NEW c \in Cursors, SetMigrationCursor(c)
  PROVE  MigrationInv'
  <1>1. cursor' \in Nat /\ cursor \in Nat /\ receiptCounter \in Nat
    BY MigrationAssumption DEF SetMigrationCursor, MigrationInv
  <1>2. jumped' = jumped \cup cursor..(cursor' - 1)
    BY DEF SetMigrationCursor
  <1>3. UNCHANGED <<seq, receiptCounter, receipts, indexUntil, records, version, migrated>>
    BY DEF SetMigrationCursor, adminVars, receiptVars
  <1>4. \A i \in Nat : i < cursor' => i < cursor \/ i \in jumped'
    <2> SUFFICES ASSUME NEW i \in Nat, i < cursor', ~(i < cursor) PROVE i \in jumped'
      OBVIOUS
    <2>1. i \in cursor..(cursor' - 1)
      BY <1>1, Between
    <2> QED BY <1>2, <2>1
  <1>5. NoneLeftBehind'
    <2>1. \A i \in 0..(receiptCounter - 1) : Live(i)' <=> Live(i)
      BY <1>3 DEF Live
    <2>2. \A i \in Nat : i < Larger(cursor', migrated)
                         => i < Larger(cursor, migrated) \/ i \in jumped'
      BY <1>1, <1>4 DEF MigrationInv, Larger
    <2>3. \A i \in jumped : i \in jumped'
      BY <1>2
    <2>4. \A i \in 0..(receiptCounter - 1) :
             Live(i)' /\ i \notin jumped' /\ i < Larger(cursor', migrated)
             => i \in DOMAIN records
      BY <2>1, <2>2, <2>3 DEF MigrationInv, NoneLeftBehind
    <2> QED BY <1>3, <2>4 DEF MigrationInv, NoneLeftBehind, Larger
  <1>6. \A i \in Nat : receiptCounter <= i /\ i < cursor' => i \in jumped'
    BY <1>2, <1>4 DEF MigrationInv
  <1> QED BY <1>1, <1>3, <1>5, <1>6 DEF MigrationInv

LEMMA StepKeepsMigration ==
  ASSUME MigrationInv, StorageInv, [MigrationNext]_<<adminVars, migrationVars>>
  PROVE  MigrationInv'
  <1>1. CASE MigrationCalls
    BY <1>1, DepositKeepsMigration, RequestKeepsMigration, MigrateKeepsMigration,
       CursorKeepsMigration DEF MigrationCalls
  <1>2. CASE ~MigrationCalls
    BY <1>2, OtherCallsKeepMigration DEF MigrationNext
  <1> QED BY <1>1, <1>2

THEOREM MigrationInvariance == MigrationSpec => [](MigrationInv /\ StorageInv)
  <1>1. MigrationSpec => []StorageInv
    BY MigrationIsAdmin, StorageInvariance, PTL
  <1>2. MigrationInv /\ StorageInv /\ [MigrationNext]_<<adminVars, migrationVars>>
        => MigrationInv'
    BY StepKeepsMigration
  <1>3. MigrationInit => MigrationInv
    BY InitMigration
  <1> QED BY <1>1, <1>2, <1>3, PTL DEF MigrationSpec

(* In whatever batches receipts are moved, and with whatever deposits,     *)
(* extensions and expiries between them, no receipt that can be found and  *)
(* that the cursor was not set past is left behind (lib.rs:4258-4341).     *)
THEOREM NoReceiptLeftBehind == MigrationSpec => []NoneLeftBehind
  <1>1. MigrationInv => NoneLeftBehind
    BY DEF MigrationInv
  <1> QED BY <1>1, MigrationInvariance, PTL

(* A record stays its receipt's copy, however often the cursor is set back *)
(* over it, because receipts never change (lib.rs:4300-4319, 4503-4522).   *)
THEOREM RecordsAreKept == MigrationSpec => RecordsStay
  <1> DEFINE Kept == \A i \in DOMAIN records : i \in DOMAIN records' /\ records'[i] = records[i]
  <1>1. MigrationInv /\ MigrationInv' /\ [MigrationNext]_<<adminVars, migrationVars>>
        => [Kept]_<<adminVars, migrationVars>>
    <2> SUFFICES ASSUME MigrationInv, MigrationInv', MigrationNext PROVE Kept
      OBVIOUS
    <2>1. /\ \A i \in DOMAIN records' : records'[i] = receipts'[i]
          /\ \A i \in DOMAIN records : i \in 0..(receiptCounter - 1) /\ records[i] = receipts[i]
      BY DEF MigrationInv, NoneLeftBehind
    <2>2. DOMAIN records \subseteq DOMAIN records'
      <3>1. CASE \E batch \in BatchSizes : MigrateEscrow(batch)
        BY <3>1 DEF MigrateEscrow, RecordsAfter
      <3>2. CASE UNCHANGED records
        BY <3>2
      <3> QED BY <3>1, <3>2 DEF MigrationNext, MigrationCalls, DepositReceipt,
                RequestExtendsTtls, SetMigrationCursor, migrationVars
    <2>3. \A i \in 0..(receiptCounter - 1) : receipts'[i] = receipts[i]
      <3>1. CASE \E a \in Addresses, amount \in Amounts : DepositReceipt(a, amount)
        BY <3>1 DEF DepositReceipt, MigrationInv
      <3>2. CASE UNCHANGED receipts
        BY <3>2
      <3> QED BY <3>1, <3>2 DEF MigrationNext, MigrationCalls, MigrateEscrow,
                RequestExtendsTtls, SetMigrationCursor, migrationVars, receiptVars
    <2> QED BY <2>1, <2>2, <2>3
  <1> QED BY <1>1, MigrationInvariance, PTL DEF MigrationSpec, RecordsStay
=============================================================================

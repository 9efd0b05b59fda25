---------------------------- MODULE DepositModal ----------------------------
(***************************************************************************)
(* The deposit and withdrawal dialog (components/StellarFiatModal.tsx)     *)
(* with the transaction helpers of lib/stellarContract.ts: one submission  *)
(* signs, sends and polls a transaction; its hash is kept in local storage *)
(* so that a reopened dialog or a reloaded page can go on polling; a       *)
(* confirmed deposit is handed to the payout dialog.                       *)
(*                                                                         *)
(* The network is external: a transaction sent is included, fails or is    *)
(* dropped, whatever the page hears of it.                                 *)
(***************************************************************************)
EXTENDS Naturals, FiniteSets

CONSTANTS MaxTxs,     \* transactions sent
          MaxReopens, \* times the dialog is opened
          MaxLoads    \* reloads of the page

ASSUME DepositAssumption ==
  MaxTxs \in Nat /\ MaxReopens \in Nat /\ MaxLoads \in Nat

Txs == 1 .. MaxTxs
NoTx == 0
Mock == MaxTxs + 1      \* the hash the demonstration button makes up

VARIABLES
  modalStep,     \* isOpen
  admin,     \* isAdminMode
  txStatus,  \* status
  txHash,    \* txHash
  record,    \* the entry under PENDING_TX_KEY
  acts,      \* submissions in flight
  recovery,  \* the transaction the recovery effect polls, if any
  recent,    \* lastSubmitAtRef is less than SUBMIT_COOLDOWN_MS old
  cooling,   \* so is the last execution of useIdempotentAction
  chain,     \* per transaction: what the network did
  kind,      \* per transaction: deposit or withdraw
  handed,    \* hashes handed to onDepositSuccess
  opens, loads

depositVars == <<modalStep, admin, txStatus, txHash, record, acts, recovery, recent,
                 cooling, chain, kind, handed, opens, loads>>
ledger == <<chain, kind>>

DepositInit ==
  /\ modalStep = FALSE /\ admin = FALSE
  /\ txStatus = "idle" /\ txHash = NoTx
  /\ record = NoTx /\ acts = {} /\ recovery = NoTx
  /\ recent = FALSE /\ cooling = FALSE
  /\ chain = [t \in Txs |-> "none"]
  /\ kind = [t \in Txs |-> "deposit"]
  /\ handed = {}
  /\ opens = 0 /\ loads = 0

Busy == txStatus \in {"pending", "loading"}
FormShown == modalStep /\ txStatus \in {"idle", "error"}
NextTx == Cardinality({t \in Txs : chain[t] # "none"}) + 1

(* isOpen becomes true: the reset effect, then the recovery effect, which  *)
(* looks at the hash alone and not at the record's isAdminMode             *)
Open(mode) ==
  /\ ~modalStep /\ opens < MaxReopens
  /\ opens' = opens + 1
  /\ modalStep' = TRUE /\ admin' = mode
  /\ txStatus' = IF record = NoTx THEN "idle" ELSE "loading"
  /\ txHash' = NoTx
  /\ recovery' = record
  /\ recent' = FALSE
  /\ UNCHANGED <<record, acts, cooling, ledger, handed, loads>>

(* another input of the reset effect changes (the amount asked for, the    *)
(* network of the connection): only the reset runs again                   *)
ResetAgain ==
  /\ modalStep
  /\ txStatus' = "idle" /\ txHash' = NoTx
  /\ recent' = FALSE
  /\ UNCHANGED <<modalStep, admin, record, acts, recovery, cooling, ledger, handed,
                 opens, loads>>

(* handleClose; the effect's clean-up abandons the recovery, a submission  *)
(* in flight goes on                                                       *)
CloseModal ==
  /\ modalStep
  /\ modalStep' = FALSE
  /\ txStatus' = "idle" /\ txHash' = NoTx
  /\ recovery' = NoTx
  /\ UNCHANGED <<admin, record, acts, recent, cooling, ledger, handed, opens,
                 loads>>

(* handleAction: the amount, the limit or a confirmation phrase is refused *)
Refused ==
  /\ FormShown
  /\ txStatus' = "error"
  /\ UNCHANGED <<modalStep, admin, txHash, record, acts, recovery, recent, cooling,
                 ledger, handed, opens, loads>>

(* ... or accepted; useIdempotentAction may still turn it away             *)
Idle == acts = {}

Submit ==
  /\ FormShown /\ Idle /\ ~recent
  /\ recent' = TRUE
  /\ IF cooling
       THEN txStatus' = "pending" /\ UNCHANGED <<acts, cooling>>
       ELSE /\ txStatus' = "loading"
            /\ acts' = acts \cup {[phase |-> "sign", tx |-> NoTx, admin |-> admin]}
            /\ cooling' = TRUE
  /\ UNCHANGED <<modalStep, admin, txHash, record, recovery, ledger, handed, opens,
                 loads>>

CoolDown ==
  /\ recent \/ cooling
  /\ recent' = FALSE /\ cooling' = FALSE
  /\ UNCHANGED <<modalStep, admin, txStatus, txHash, record, acts, recovery, ledger,
                 handed, opens, loads>>

(* submitAndWait: the signed transaction reaches the network ...           *)
Send(a) ==
  /\ a \in acts /\ a.phase = "sign" /\ NextTx \in Txs
  /\ chain' = [chain EXCEPT ![NextTx] = "sent"]
  /\ kind' = [kind EXCEPT ![NextTx] = IF a.admin THEN "withdraw" ELSE "deposit"]
  /\ acts' = (acts \ {a}) \cup {[phase |-> "sent", tx |-> NextTx, admin |-> a.admin]}
  /\ UNCHANGED <<modalStep, admin, txStatus, txHash, record, recovery, recent,
                 cooling, handed, opens, loads>>

(* ... and its answer the page: onHashKnown writes the record              *)
HashKnown(a) ==
  /\ a \in acts /\ a.phase = "sent"
  /\ record' = a.tx
  /\ acts' = (acts \ {a}) \cup {[phase |-> "poll", tx |-> a.tx, admin |-> a.admin]}
  /\ UNCHANGED <<modalStep, admin, txStatus, txHash, recovery, recent, cooling,
                 ledger, handed, opens, loads>>

(* external: the network includes the transaction or not                   *)
Land(t) ==
  /\ chain[t] = "sent"
  /\ \E to \in {"ok", "failed"} : chain' = [chain EXCEPT ![t] = to]
  /\ UNCHANGED <<modalStep, admin, txStatus, txHash, record, acts, recovery, recent,
                 cooling, kind, handed, opens, loads>>

PollConfirmsSent(t) == t \in Txs      \* a wrong PollConfirms: any answer of the network will do

PollNeverThrows(t) == FALSE      \* a wrong PollThrows: it asks for ever

(* pollTransaction: confirmed when the network says so; failed on chain,   *)
(* twenty times not found, or unreachable: it throws                       *)
PollConfirms(t) == t \in Txs /\ chain[t] = "ok"
PollThrows(t) == t \in Txs

ActConfirmed(a) ==
  /\ a \in acts /\ a.phase = "poll" /\ PollConfirms(a.tx)
  /\ txHash' = a.tx /\ txStatus' = "success"
  /\ record' = NoTx
  /\ acts' = (acts \ {a}) \cup {[phase |-> "stats", tx |-> a.tx, admin |-> a.admin]}
  /\ UNCHANGED <<modalStep, admin, recovery, recent, cooling, ledger, handed, opens,
                 loads>>

(* the bridge statistics were read again: a deposit is handed on, and the  *)
(* parent closes this dialog                                               *)
HandOverToPayout(tx) == handed' = handed \cup {tx}

ActHandsOver(a) ==
  /\ a \in acts /\ a.phase = "stats"
  /\ acts' = acts \ {a}
  /\ IF a.admin THEN UNCHANGED <<handed, modalStep, recovery>>
                ELSE HandOverToPayout(a.tx) /\ modalStep' = FALSE /\ recovery' = NoTx
  /\ UNCHANGED <<admin, txStatus, txHash, record, recent, cooling, ledger, opens,
                 loads>>

(* any step before confirmation throws: the wallet, the simulation, the    *)
(* send or the poll; the record goes, whichever transaction it names       *)
ActThrows(a) ==
  /\ a \in acts
  /\ a.phase = "poll" => PollThrows(a.tx)
  /\ a.phase # "stats"
  /\ acts' = acts \ {a}
  /\ txStatus' = "error"
  /\ record' = NoTx
  /\ UNCHANGED <<modalStep, admin, txHash, recovery, recent, cooling, ledger, handed,
                 opens, loads>>

Recovered ==
  /\ PollConfirms(recovery)
  /\ txHash' = recovery /\ txStatus' = "success"
  /\ record' = NoTx /\ recovery' = NoTx
  /\ UNCHANGED <<modalStep, admin, acts, recent, cooling, ledger, handed, opens,
                 loads>>

RecoveryThrows ==
  /\ PollThrows(recovery)
  /\ txStatus' = "error"
  /\ record' = NoTx /\ recovery' = NoTx
  /\ UNCHANGED <<modalStep, admin, txHash, acts, recent, cooling, ledger, handed,
                 opens, loads>>

(* the button "Continue to Fiat Payout" of the success view                *)
Continue ==
  /\ modalStep /\ txStatus = "success" /\ ~admin
  /\ HandOverToPayout(txHash)
  /\ modalStep' = FALSE /\ recovery' = NoTx
  /\ UNCHANGED <<admin, txStatus, txHash, record, acts, recent, cooling, ledger,
                 opens, loads>>

(* the button "(Demo: Simulate Success)" of the form                       *)
SimulateSuccess ==
  /\ FormShown
  /\ txHash' = Mock /\ txStatus' = "success"
  /\ UNCHANGED <<modalStep, admin, record, acts, recovery, recent, cooling, ledger,
                 handed, opens, loads>>

(* the page is reloaded: only local storage survives                       *)
ReloadApp ==
  /\ loads < MaxLoads
  /\ loads' = loads + 1
  /\ modalStep' = FALSE /\ admin' = FALSE
  /\ txStatus' = "idle" /\ txHash' = NoTx
  /\ acts' = {} /\ recovery' = NoTx
  /\ recent' = FALSE /\ cooling' = FALSE
  /\ UNCHANGED <<record, ledger, handed, opens>>

Settles(a) ==
  \/ HashKnown(a) \/ ActConfirmed(a) \/ ActHandsOver(a)
  \/ (a.phase # "sign" /\ ActThrows(a))

DepositNext ==
  \/ \E mode \in BOOLEAN : Open(mode)
  \/ ResetAgain \/ CloseModal \/ Refused \/ Submit \/ CoolDown
  \/ \E a \in acts : Send(a) \/ HashKnown(a) \/ ActConfirmed(a)
                       \/ ActHandsOver(a) \/ ActThrows(a)
  \/ \E t \in Txs : Land(t)
  \/ Recovered \/ RecoveryThrows \/ Continue \/ SimulateSuccess \/ ReloadApp

DepositSpec == DepositInit /\ [][DepositNext]_depositVars

(* Requests are answered or fail and pollTransaction gives up after twenty *)
(* attempts; nothing makes the user sign.                                  *)
DepositFairness == WF_depositVars(\E a \in acts : Settles(a))

(***************************************************************************)
(* Properties                                                              *)
(***************************************************************************)
(* The dialog's state is of its shape.                                     *)
DepositTypeOK ==
  /\ modalStep \in BOOLEAN /\ admin \in BOOLEAN
  /\ txStatus \in {"idle", "pending", "loading", "success", "error"}
  /\ txHash \in Txs \cup {NoTx, Mock} /\ record \in Txs \cup {NoTx}
  /\ acts \subseteq [phase : {"sign", "sent", "poll", "stats"},
                    tx : Txs \cup {NoTx}, admin : BOOLEAN]
  /\ recovery \in Txs \cup {NoTx} /\ handed \subseteq Txs \cup {Mock}
  /\ chain \in [Txs -> {"none", "sent", "ok", "failed"}]

(* What the dialog calls confirmed, and what it hands to the payout        *)
(* dialog, the network included: whether the submission, the recovery of a *)
(* reopened dialog or the one of a reloaded page got the answer, and in    *)
(* whatever order (StellarFiatModal.tsx:247-285, 571-621, 781-798).  The   *)
(* demonstration button's hash names no transaction.                       *)
ConfirmedIsOnChain ==
  /\ (txStatus = "success" /\ txHash # Mock) => txHash \in Txs /\ chain[txHash] = "ok"
  /\ \A t \in handed \ {Mock} : chain[t] = "ok"

(* A transaction that was sent is settled for the page: polling it ends in *)
(* a confirmation or an error (stellarContract.ts:147-188).                *)
SentSettles ==
  (\E a \in acts : a.phase # "sign") ~> (\A a \in acts : a.phase = "sign")

=============================================================================

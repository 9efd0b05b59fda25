---------------------------- MODULE PayoutWizard ----------------------------
(***************************************************************************)
(* The fiat payout dialog (components/BankDetailsModal.tsx) against the    *)
(* payout routes: choose a bank, verify an account, lock a quote, confirm, *)
(* follow the transfer.  The dialog never unmounts: closing it resets most *)
(* of its state while its requests go on, and a later deposit opens it     *)
(* again.  Every request in flight is kept apart from the state it will    *)
(* be applied to.                                                          *)
(***************************************************************************)
EXTENDS TransferTracker

CONSTANTS Banks,       \* banks /api/banks lists
          Accounts,    \* account numbers the user types
          Saved,       \* saved beneficiaries: records of a bank and an account
          MaxDeposits  \* deposits whose success opens the dialog

ASSUME WizardAssumption ==
  /\ MaxDeposits \in Nat
  /\ 0 \notin Accounts /\ \A b \in Saved : b.account \in Accounts

Customer == CHOOSE s \in Sessions : TRUE
NoBank == 0
NoAccount == [bank |-> NoBank, account |-> 0]
NoQuote == [deposit |-> 0, live |-> FALSE]

VARIABLES
  open, step, deposit,    \* the dialog, its step, the deposit it pays out
  banks, bank, account,   \* the list loaded, the bank and number entered
  verified, verifies,     \* verifiedAccount; verifications in flight
  quote, quoteLoading, quotes,  \* lockedQuote, its flag; quotes in flight
  flows,                  \* payouts in flight (useIdempotentAction)
  payoutLoading, payoutFailed,        \* payoutLoading, payoutError
  reference, payoutStatus,      \* transferReference, transferStatus
  polls, events,          \* status polls in flight; statuses of the timeline
  told,                   \* the dialog's notices of a payout's end
  paidFor                 \* history: the deposit each transfer was made for

form == <<banks, bank, account, verified, verifies>>
prices == <<quote, quoteLoading, quotes>>
tracking == <<reference, payoutStatus, polls, events, told>>
wizardVars == <<open, step, deposit, form, prices, flows, payoutLoading, payoutFailed,
                tracking, paidFor, trackerVars>>

WizardInit ==
  /\ TrackerInit
  /\ open = FALSE /\ step = 1 /\ deposit = 0
  /\ banks = {} /\ bank = NoBank /\ account = 0
  /\ verified = NoAccount /\ verifies = {}
  /\ quote = NoQuote /\ quoteLoading = FALSE /\ quotes = {}
  /\ flows = {} /\ payoutLoading = FALSE /\ payoutFailed = FALSE
  /\ reference = 0 /\ payoutStatus = "pending" /\ polls = {}
  /\ events = {} /\ told = {}
  /\ paidFor = [r \in Refs |-> 0]

(* fetchQuote, run by the effect that reaching step 3 or a new amount at   *)
(* step 3 triggers and by the Refresh button                               *)
FetchQuote(d) ==
  /\ quote' = NoQuote
  /\ quoteLoading' = TRUE
  /\ quotes' = quotes \cup {d}

(* a deposit succeeded: the parent sets the amount and opens the dialog    *)
OpenFor ==
  /\ deposit < MaxDeposits
  /\ deposit' = deposit + 1
  /\ open' = TRUE
  /\ IF step = 3 THEN FetchQuote(deposit + 1) ELSE UNCHANGED prices
  /\ UNCHANGED <<step, form, flows, payoutLoading, payoutFailed, tracking, paidFor,
                 trackerVars>>

BanksAnswer ==
  /\ open /\ banks = {}
  /\ banks' = Banks
  /\ UNCHANGED <<open, step, deposit, bank, account, verified, verifies, prices,
                 flows, payoutLoading, payoutFailed, tracking, paidFor, trackerVars>>

(* handleClose resets what it lists; requests in flight, the events of the *)
(* timeline and the idempotency hook are not among it                      *)
Close ==
  /\ open
  /\ open' = FALSE /\ step' = 1
  /\ banks' = {} /\ bank' = NoBank /\ account' = 0
  /\ verified' = NoAccount
  /\ quote' = NoQuote /\ quoteLoading' = FALSE
  /\ payoutLoading' = FALSE /\ payoutFailed' = FALSE
  /\ reference' = 0 /\ payoutStatus' = "pending"
  /\ UNCHANGED <<deposit, verifies, quotes, flows, polls, events, told, paidFor,
                 trackerVars>>

ChooseBank(b) ==
  /\ open /\ step = 1 /\ b \in banks
  /\ bank' = b
  /\ UNCHANGED <<open, step, deposit, banks, account, verified, verifies, prices,
                 flows, payoutLoading, payoutFailed, tracking, paidFor, trackerVars>>

(* handleSelectSavedBeneficiary: a bank that is not in the list loaded     *)
(* leaves the selection as it was                                          *)
UseSaved(b) ==
  /\ open /\ step = 1
  /\ bank' = IF b.bank \in banks THEN b.bank ELSE bank
  /\ account' = b.account
  /\ verified' = b
  /\ step' = 3
  /\ FetchQuote(deposit)
  /\ UNCHANGED <<open, deposit, banks, verifies, flows, payoutLoading, payoutFailed,
                 tracking, paidFor, trackerVars>>

(* the Next and Back buttons and the conditions that disable them          *)
Turn(from, to, enabled) ==
  /\ open /\ step = from /\ enabled
  /\ step' = to
  /\ IF to = 3 THEN FetchQuote(deposit) ELSE UNCHANGED prices
  /\ UNCHANGED <<open, deposit, form, flows, payoutLoading, payoutFailed, tracking, paidFor,
                 trackerVars>>

TurnPageAnyway ==      \* a wrong TurnPage: a number typed is enough to go on
  \/ Turn(1, 2, bank # NoBank)
  \/ Turn(2, 1, TRUE)
  \/ Turn(2, 3, account # 0)
  \/ Turn(3, 2, ~payoutLoading)

TurnPage ==
  \/ Turn(1, 2, bank # NoBank)
  \/ Turn(2, 1, TRUE)
  \/ Turn(2, 3, verified # NoAccount)
  \/ Turn(3, 2, ~payoutLoading)

TypeAccount(a) ==
  /\ open /\ step = 2
  /\ account' = a
  /\ verified' = NoAccount
  /\ UNCHANGED <<open, step, deposit, banks, bank, verifies, prices, flows,
                 payoutLoading, payoutFailed, tracking, paidFor, trackerVars>>

(* handleVerifyAccount: on leaving the field; the request keeps the bank   *)
(* and the number it was made for                                          *)
Verify ==
  /\ open /\ step = 2 /\ account # 0 /\ bank # NoBank
  /\ verified' = NoAccount
  /\ verifies' = verifies \cup {[bank |-> bank, account |-> account]}
  /\ UNCHANGED <<open, step, deposit, banks, bank, account, prices, flows,
                 payoutLoading, payoutFailed, tracking, paidFor, trackerVars>>

VerifyAnswer(v) ==
  /\ v \in verifies
  /\ verifies' = verifies \ {v}
  /\ verified' \in {v, verified}
  /\ UNCHANGED <<open, step, deposit, banks, bank, account, prices, flows,
                 payoutLoading, payoutFailed, tracking, paidFor, trackerVars>>

QuoteAnswer(d) ==
  /\ d \in quotes
  /\ quotes' = quotes \ {d}
  /\ quote' \in {[deposit |-> d, live |-> TRUE], NoQuote}
  /\ quoteLoading' = FALSE
  /\ UNCHANGED <<open, step, deposit, form, flows, payoutLoading, payoutFailed, tracking,
                 paidFor, trackerVars>>

QuoteExpires ==
  /\ step = 3 /\ quote.live
  /\ quote' = [quote EXCEPT !.live = FALSE]
  /\ UNCHANGED <<open, step, deposit, form, quoteLoading, quotes, flows, payoutLoading,
                 payoutFailed, tracking, paidFor, trackerVars>>

RefreshQuote ==
  /\ open /\ step = 3 /\ quote # NoQuote /\ ~quote.live /\ ~quoteLoading
  /\ FetchQuote(deposit)
  /\ UNCHANGED <<open, step, deposit, form, flows, payoutLoading, payoutFailed, tracking,
                 paidFor, trackerVars>>

(* useIdempotentAction.execute: nothing in flight (its cool-down is time,  *)
(* and only refuses more)                                                  *)
MayExecute == flows = {}

(* handleConfirmPayout, and the button that calls it                       *)
Confirm ==
  /\ open /\ step = 3
  /\ ~payoutLoading /\ ~quoteLoading
  /\ bank # NoBank /\ verified # NoAccount /\ quote.live
  /\ MayExecute
  /\ flows' = flows \cup {[phase |-> "recipient", deposit |-> quote.deposit,
                           ref |-> 0]}
  /\ payoutLoading' = TRUE /\ payoutFailed' = FALSE /\ events' = {"initiated"}
  /\ UNCHANGED <<open, step, deposit, form, prices, reference, payoutStatus, polls, told,
                 paidFor, trackerVars>>

RecipientMade(f) ==
  /\ f \in flows /\ f.phase = "recipient"
  /\ flows' = (flows \ {f}) \cup {[f EXCEPT !.phase = "transfer"]}
  /\ events' = events \cup {"pending"}
  /\ UNCHANGED <<open, step, deposit, form, prices, payoutLoading, payoutFailed, reference,
                 payoutStatus, polls, told, paidFor, trackerVars>>

(* the transfer request reaches the server, whose provider makes a new     *)
(* transfer: the request names no reference and the route reads no key     *)
TransferMade(f, outcome) ==
  /\ f \in flows /\ f.phase = "transfer"
  /\ Initiate(Customer, outcome)
  /\ flows' = (flows \ {f}) \cup {[f EXCEPT !.phase = "answer", !.ref = NextRef]}
  /\ paidFor' = [paidFor EXCEPT ![NextRef] = f.deposit]
  /\ UNCHANGED <<open, step, deposit, form, prices, payoutLoading, payoutFailed, tracking>>

(* the answer arrives once the route has recorded the transfer             *)
TransferAnswer(f) ==
  /\ f \in flows /\ f.phase = "answer" /\ store[f.ref] # NoRecord
  /\ f.ref \notin starting
  /\ flows' = (flows \ {f}) \cup {[f EXCEPT !.phase = "confirming"]}
  /\ reference' = f.ref
  /\ UNCHANGED <<open, step, deposit, form, prices, payoutLoading, payoutFailed, payoutStatus,
                 polls, events, told, paidFor, trackerVars>>

(* What the timeline and a notification say of a payout's end              *)
Tell(f, outcome) ==
  /\ events' = events \cup {outcome}
  /\ told' = told \cup {[outcome |-> outcome, deposit |-> f.deposit, ref |-> f.ref]}

(* after the 2.5 s the dialog waits: it shows the success step and says    *)
(* that the transfer is confirmed, whatever the provider has done by then  *)
Confirmed(f) ==
  /\ f \in flows /\ f.phase = "confirming"
  /\ flows' = flows \ {f}
  /\ step' = 4 /\ payoutLoading' = FALSE
  /\ Tell(f, "success")
  /\ UNCHANGED <<open, deposit, form, prices, payoutFailed, reference, payoutStatus, polls,
                 paidFor, trackerVars>>

FailsSpinning(f) ==      \* a wrong Fails: the button stays on "Processing"
  /\ f \in flows /\ f.phase # "confirming"
  /\ flows' = flows \ {f}
  /\ payoutFailed' = TRUE
  /\ Tell(f, "failed")
  /\ UNCHANGED <<open, step, deposit, form, prices, payoutLoading, reference, payoutStatus,
                 polls, paidFor, trackerVars>>

(* any request of the payout fails: refused, or its answer is lost; the    *)
(* dialog says that the payout failed, which the provider may go on with   *)
Fails(f) ==
  /\ f \in flows /\ f.phase # "confirming"
  /\ flows' = flows \ {f}
  /\ payoutLoading' = FALSE /\ payoutFailed' = TRUE
  /\ Tell(f, "failed")
  /\ UNCHANGED <<open, step, deposit, form, prices, reference, payoutStatus, polls,
                 paidFor, trackerVars>>

(* the five second poll of step 4; its answer is applied whatever became   *)
(* of the dialog meanwhile                                                 *)
PollStatus ==
  /\ step = 4 /\ reference # 0 /\ payoutStatus \notin Final
  /\ polls' = polls \cup {reference}
  /\ UNCHANGED <<open, step, deposit, form, prices, flows, payoutLoading, payoutFailed,
                 reference, payoutStatus, events, told, paidFor, trackerVars>>

PollAnswer(r) ==
  /\ r \in polls
  /\ polls' = polls \ {r}
  /\ payoutStatus' \in {StatusOf(r), payoutStatus}
  /\ UNCHANGED <<open, step, deposit, form, prices, flows, payoutLoading, payoutFailed,
                 reference, events, told, paidFor, trackerVars>>

CancelPayout ==
  /\ open /\ step = 4 /\ reference # 0 /\ "cancelled" \notin events
  /\ Cancel(reference)
  /\ events' = events \cup {"cancelled"}
  /\ UNCHANGED <<open, step, deposit, form, prices, flows, payoutLoading, payoutFailed,
                 reference, payoutStatus, polls, told, paidFor>>

Fill ==
  \/ OpenFor \/ BanksAnswer \/ Close \/ TurnPage \/ Verify
  \/ \E b \in Banks : ChooseBank(b)
  \/ \E b \in Saved : UseSaved(b)
  \/ \E a \in Accounts : TypeAccount(a)
  \/ \E v \in verifies : VerifyAnswer(v)
  \/ \E d \in quotes : QuoteAnswer(d)
  \/ QuoteExpires \/ RefreshQuote

Goes(f) == RecipientMade(f) \/ TransferAnswer(f) \/ Confirmed(f)
             \/ \E o \in {"answered", "lost"} : TransferMade(f, o)

Pay ==
  \/ Confirm \/ PollStatus \/ CancelPayout
  \/ \E f \in flows : Goes(f) \/ Fails(f)
  \/ \E r \in polls : PollAnswer(r)

(* the server and the provider beside the dialog                           *)
Serve ==
  /\ \/ \E r \in Refs : Record(r) \/ ProviderMoves(r)
     \/ \E h \in hooks : Webhook(h)
  /\ UNCHANGED <<open, step, deposit, form, prices, flows, payoutLoading, payoutFailed,
                 tracking, paidFor>>

WizardNext == Fill \/ Pay \/ Serve

WizardSpec == WizardInit /\ [][WizardNext]_wizardVars

(* A payout in flight is not held back: every fetch settles, and the pause *)
(* of handleConfirmPayout is a timer.                                      *)
PayoutGoesOn == \E f \in flows : Goes(f) \/ Fails(f)

WizardFairness == WF_wizardVars(PayoutGoesOn)

(***************************************************************************)
(* Properties                                                              *)
(***************************************************************************)
(* The dialog's state and its requests are of their shapes.                *)
WizardTypeOK ==
  /\ open \in BOOLEAN /\ step \in 1 .. 4 /\ deposit \in 0 .. MaxDeposits
  /\ banks \subseteq Banks /\ bank \in Banks \cup {NoBank}
  /\ account \in Accounts \cup {0}
  /\ quote.deposit \in 0 .. MaxDeposits /\ quotes \subseteq 1 .. MaxDeposits
  /\ payoutLoading \in BOOLEAN /\ payoutFailed \in BOOLEAN
  /\ reference \in Refs \cup {0} /\ polls \subseteq Refs
  /\ payoutStatus \in {"pending", "cancelled"} \cup Final
  /\ events \subseteq {"initiated", "pending", "success", "failed", "cancelled"}
  /\ told \subseteq [outcome : {"success", "failed"}, deposit : 0 .. MaxDeposits,
                     ref : Refs \cup {0}]

(* The confirmation step always has an account that was verified at some   *)
(* time, across edits, verifications under way, Back, saved beneficiaries  *)
(* and reopening (BankDetailsModal.tsx:358-425, 595-612, 950-1135).        *)
ConfirmHasAccount == step = 3 => verified # NoAccount

(* No outcome comes from nowhere.  The stored ones and those of the chat   *)
(* pages were reached by the provider; the status the dialog polls was     *)
(* reached by a transfer of this dialog; and the dialog calls a payout     *)
(* completed only when the provider has made a transfer for that very      *)
(* deposit, though the transfer may still be pending or fail later.  That  *)
(* a payout is called failed says nothing of the provider.                 *)
(* (webhook/route.ts:168-266, BankDetailsModal.tsx:304-332, 486-571)       *)
OutcomesHaveGround ==
  /\ OutcomesAreReal
  /\ payoutStatus \in Final =>
       \E r \in Refs : paidFor[r] # 0 /\ Reached(r, payoutStatus)
  /\ \A t \in told : t.outcome = "success" =>
       provider[t.ref] # "none" /\ paidFor[t.ref] = t.deposit

(* The confirm button does not stay on "Processing": a payout that began   *)
(* ends, in the success step or in an error (BankDetailsModal.tsx:450-571).*)
PayoutSettles == payoutLoading ~> ~payoutLoading

(* What DOUBLE_SUBMIT_PROTECTION.md promises: a deposit is paid out at     *)
(* most once.  The answer of a transfer the provider made may be lost; the *)
(* retry carries a new key no route reads, and a second transfer is made.  *)
PaidOnce ==
  \A r, q \in Refs : (r # q /\ paidFor[r] # 0) => paidFor[r] # paidFor[q]

=============================================================================

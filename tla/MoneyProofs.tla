------------------------------ MODULE MoneyProofs ------------------------------
(***************************************************************************)
(* What the money side of the frontend keeps for any number of sessions,   *)
(* transfers, transactions, reloads, requests and clients.  Each part is   *)
(* proved of its own specification; MCMoney, which moves one part at a     *)
(* time, takes only steps of theirs.                                       *)
(***************************************************************************)
EXTENDS MCMoney, Lists, FiniteSetTheorems, SequenceTheorems

(***************************************************************************)
(* Payouts.  What a page is told of them is its own and true, for any      *)
(* number of sessions, transfers and restarts; and the payout dialog,      *)
(* which drives these routes, keeps that promise and asks nobody to        *)
(* confirm a payout to no account.                                         *)
(***************************************************************************)
Statuses == {"none", "pending", "cancelled"} \cup Final

(* The inductive invariant of the tracker.  A fresh reference is one that  *)
(* nothing names yet: its owner is about to be written, and whatever named *)
(* it before would become somebody else's.                                 *)
FreshUnnamed ==
  \A r \in Refs : provider[r] = "none" =>
    /\ owner[r] = NoFeed /\ r \notin starting /\ store[r] = NoRecord
    /\ \A h \in hooks : h.ref # r
    /\ \A s \in Sessions : shown[s].ref # r

RecordsOwned == \A r \in Refs : store[r].session \in {NoFeed, owner[r]}

HooksAreReal == \A h \in hooks : Reached(h.ref, h.event)

TrackerInv ==
  /\ TrackerTypeOK
  /\ shown \in [Sessions -> [ref : Refs \cup {0}, status : Statuses]]
  /\ \E n \in Nat : Made = 1 .. n
  /\ FreshUnnamed /\ RecordsOwned /\ HooksAreReal
  /\ OwnStatusOnly /\ OutcomesAreReal

-----------------------------------------------------------------------------
(* References are made in order, so the next one is new.                   *)
LEMMA NextIsFresh ==
  ASSUME \E n \in Nat : Made = 1 .. n, NextRef \in Refs
  PROVE  /\ provider[NextRef] = "none"
         /\ \E n \in Nat : Made \cup {NextRef} = 1 .. n
<1>1. PICK n \in Nat : Made = 1 .. n
  OBVIOUS
<1>2. Cardinality(Made) = n
  BY <1>1, FS_Interval
<1>3. NextRef = n + 1
  BY <1>2 DEF NextRef
<1>4. NextRef \notin Made
  BY <1>1, <1>3
<1>5. Made \cup {NextRef} = 1 .. n + 1
  BY <1>1, <1>3
<1>6. provider[NextRef] = "none"
  BY <1>4 DEF Made
<1> QED BY <1>5, <1>6

LEMMA TrackerStarts == TrackerInit => TrackerInv
<1> SUFFICES ASSUME TrackerInit PROVE TrackerInv
  OBVIOUS
<1> USE TrackerAssumption DEF TrackerInit
<1>1. TrackerTypeOK
  BY DEF TrackerTypeOK, NoRecord, Final
<1>2. shown \in [Sessions -> [ref : Refs \cup {0}, status : Statuses]]
  BY DEF NoStatus, Statuses
<1>3. Made = 1 .. 0
  BY DEF Made
<1>4. FreshUnnamed
  BY DEF FreshUnnamed, NoStatus, Refs
<1>5. RecordsOwned /\ HooksAreReal
  BY DEF RecordsOwned, HooksAreReal, NoRecord
<1>6. OwnStatusOnly /\ OutcomesAreReal
  BY DEF OwnStatusOnly, OutcomesAreReal, NoStatus, NoRecord, Reached
<1> QED BY <1>1, <1>2, <1>3, <1>4, <1>5, <1>6 DEF TrackerInv

LEMMA TrackerStays == TrackerInv /\ [TrackerNext]_trackerVars => TrackerInv'
<1> SUFFICES ASSUME TrackerInv, [TrackerNext]_trackerVars PROVE TrackerInv'
  OBVIOUS
<1> USE TrackerAssumption
<1>types. /\ provider \in [Refs -> {"none", "sent"} \cup Final]
          /\ owner \in [Refs -> Sessions \cup {NoFeed}]
          /\ store \in [Refs -> [status : Statuses, session : Sessions \cup {NoFeed}]]
          /\ shown \in [Sessions -> [ref : Refs \cup {0}, status : Statuses]]
  BY DEF TrackerInv, TrackerTypeOK, Statuses, Final
<1>1. ASSUME NEW s \in Sessions, NEW o \in {"answered", "lost"}, Initiate(s, o)
      PROVE  TrackerInv'
  <2>1. /\ provider[NextRef] = "none"
        /\ \E n \in Nat : Made \cup {NextRef} = 1 .. n
    BY <1>1, NextIsFresh DEF TrackerInv, Initiate
  <2> DEFINE r == NextRef
  <2>2. /\ r \in Refs
        /\ provider' = [provider EXCEPT ![r] = "sent"]
        /\ owner' = [owner EXCEPT ![r] = s]
        /\ starting' \subseteq starting \cup {r}
        /\ UNCHANGED <<store, cancelled, seen, hooks, feed, shown, restarts>>
    BY <1>1 DEF Initiate, pages
  <2>3. /\ owner[r] = NoFeed /\ r \notin starting /\ store[r] = NoRecord
        /\ \A h \in hooks : h.ref # r
        /\ \A t \in Sessions : shown[t].ref # r
    BY <2>1, <2>2 DEF TrackerInv, FreshUnnamed
  <2>4. Made' = Made \cup {r}
    BY <2>2, <1>types DEF Made
  <2> HIDE DEF r
  <2>5. TrackerTypeOK'
    BY <2>2, <1>types DEF TrackerInv, TrackerTypeOK, Final
  <2>6. FreshUnnamed'
    BY <2>2, <1>types DEF TrackerInv, FreshUnnamed
  <2>7. RecordsOwned'
    BY <2>2, <2>3, <1>types DEF TrackerInv, RecordsOwned, NoRecord
  <2>8. HooksAreReal'
    BY <2>2, <2>3, <1>types DEF TrackerInv, HooksAreReal, Reached, TrackerTypeOK
  <2>9. OwnStatusOnly'
    BY <2>2, <2>3, <1>types DEF TrackerInv, OwnStatusOnly
  <2>10. OutcomesAreReal'
    BY <2>2, <2>3, <1>types DEF TrackerInv, OutcomesAreReal, Reached, NoRecord
  <2>11. \E n \in Nat : Made' = 1 .. n
    BY <2>1, <2>4 DEF r
  <2> QED BY <2>2, <2>5, <2>6, <2>7, <2>8, <2>9, <2>10, <2>11, <1>types DEF TrackerInv
<1>2. ASSUME NEW r \in Refs, Record(r)
      PROVE  TrackerInv'
  <2>1. /\ r \in starting /\ starting' = starting \ {r}
        /\ store' = [store EXCEPT ![r] = [status |-> "pending", session |-> owner[r]]]
        /\ UNCHANGED <<provider, owner, cancelled, seen, hooks, feed, shown, restarts>>
    BY <1>2 DEF Record, Recorded, pages
  <2>2. Made' = Made
    BY <2>1 DEF Made
  <2>3. TrackerTypeOK'
    BY <2>1, <1>types DEF TrackerInv, TrackerTypeOK
  <2>4. FreshUnnamed'
    BY <2>1, <1>types DEF TrackerInv, FreshUnnamed
  <2>5. RecordsOwned' /\ HooksAreReal'
    BY <2>1, <1>types DEF TrackerInv, RecordsOwned, HooksAreReal, Reached
  <2>6. OwnStatusOnly' /\ OutcomesAreReal'
    BY <2>1, <1>types DEF TrackerInv, OwnStatusOnly, OutcomesAreReal, Reached
  <2> QED BY <2>1, <2>2, <2>3, <2>4, <2>5, <2>6, <1>types DEF TrackerInv
<1>3. ASSUME NEW r \in Refs, ProviderMoves(r)
      PROVE  TrackerInv'
  <2>1. PICK to \in Final, ids \in BOOLEAN :
          /\ \/ provider[r] = "sent" /\ to # "reversed"
             \/ provider[r] = "success" /\ to = "reversed"
          /\ provider' = [provider EXCEPT ![r] = to]
          /\ hooks' = hooks \cup {[ref |-> r, event |-> to, id |-> ids]}
          /\ UNCHANGED <<owner, starting, store, cancelled, seen, feed, shown, restarts>>
    BY <1>3 DEF ProviderMoves, Hook, pages
  <2>2. Made' = Made
    BY <2>1, <1>types DEF Made, Final
  <2>3. TrackerTypeOK'
    BY <2>1, <1>types DEF TrackerInv, TrackerTypeOK
  <2>4. FreshUnnamed'
    BY <2>1, <1>types DEF TrackerInv, FreshUnnamed, Final
  <2>5. \A q \in Refs, status \in Statuses : Reached(q, status) => Reached(q, status)'
    BY <2>1, <1>types DEF Reached, Final
  <2>6. RecordsOwned' /\ OwnStatusOnly'
    BY <2>1 DEF TrackerInv, RecordsOwned, OwnStatusOnly
  <2>7. HooksAreReal'
    BY <2>1, <2>5, <1>types DEF TrackerInv, HooksAreReal, Reached, TrackerTypeOK, Final, Statuses
  <2>8. OutcomesAreReal'
    BY <2>1, <2>5, <1>types DEF TrackerInv, OutcomesAreReal
  <2> QED BY <2>1, <2>2, <2>3, <2>4, <2>6, <2>7, <2>8, <1>types DEF TrackerInv
<1>4. ASSUME NEW r \in Refs, Cancel(r)
      PROVE  TrackerInv'
  <2>1. /\ provider[r] # "none"
        /\ cancelled' = cancelled \cup {r}
        /\ store' = [store EXCEPT ![r] = [status |-> "cancelled", session |-> store[r].session]]
        /\ UNCHANGED <<provider, owner, starting, seen, hooks, feed, shown, restarts>>
    BY <1>4 DEF Cancel, Made, pages
  <2>2. Made' = Made
    BY <2>1 DEF Made
  <2>3. TrackerTypeOK'
    BY <2>1, <1>types DEF TrackerInv, TrackerTypeOK, Statuses
  <2>4. FreshUnnamed'
    BY <2>1, <1>types DEF TrackerInv, FreshUnnamed
  <2>5. RecordsOwned' /\ HooksAreReal'
    BY <2>1, <1>types DEF TrackerInv, RecordsOwned, HooksAreReal, Reached
  <2>6. OwnStatusOnly' /\ OutcomesAreReal'
    BY <2>1, <1>types DEF TrackerInv, OwnStatusOnly, OutcomesAreReal, Reached
  <2> QED BY <2>1, <2>2, <2>3, <2>4, <2>5, <2>6, <1>types DEF TrackerInv
<1>5. ASSUME NEW h \in hooks, Webhook(h)
      PROVE  TrackerInv'
  <2> DEFINE s == store[h.ref].session
  <2>1. /\ store' = [store EXCEPT ![h.ref] = [status |-> h.event, session |-> s]]
        /\ shown' = [t \in Sessions |-> IF t = s /\ feed[t] = "sse"
                                        THEN [ref |-> h.ref, status |-> h.event]
                                        ELSE shown[t]]
        /\ UNCHANGED <<provider, owner, starting, cancelled, hooks, feed, restarts>>
    BY <1>5 DEF Webhook, Published, Listening
  <2>2. /\ h.ref \in Refs /\ h.event \in Final /\ h.event \in Statuses
        /\ Reached(h.ref, h.event) /\ provider[h.ref] # "none"
        /\ s \in {NoFeed, owner[h.ref]} /\ s \in Sessions \cup {NoFeed}
    BY <1>types DEF TrackerInv, TrackerTypeOK, HooksAreReal, FreshUnnamed, RecordsOwned,
                    Statuses
  <2> HIDE DEF s
  <2>3. Made' = Made
    BY <2>1 DEF Made
  <2>4. TrackerTypeOK'
    BY <2>1, <2>2, <1>types DEF TrackerInv, TrackerTypeOK, Statuses
  <2>5. FreshUnnamed'
    BY <2>1, <2>2, <1>types DEF TrackerInv, FreshUnnamed
  <2>6. RecordsOwned' /\ HooksAreReal'
    BY <2>1, <2>2, <1>types DEF TrackerInv, RecordsOwned, HooksAreReal, Reached
  <2>7. OwnStatusOnly'
    BY <2>1, <2>2, <1>types DEF TrackerInv, OwnStatusOnly
  <2>8. OutcomesAreReal'
    BY <2>1, <2>2, <1>types DEF TrackerInv, OutcomesAreReal, Reached
  <2>9. shown' \in [Sessions -> [ref : Refs \cup {0}, status : Statuses]]
    BY <2>1, <2>2, <1>types
  <2> QED BY <2>1, <2>3, <2>4, <2>5, <2>6, <2>7, <2>8, <2>9 DEF TrackerInv
<1>6. ASSUME NEW h \in hooks, WebhookDone(h)
      PROVE  TrackerInv'
  <2>1. /\ hooks' = hooks \ {h}
        /\ UNCHANGED <<provider, owner, starting, store, cancelled, feed, shown, restarts>>
    BY <1>6 DEF WebhookDone, pages
  <2>2. TrackerTypeOK' /\ FreshUnnamed'
    BY <2>1 DEF TrackerInv, TrackerTypeOK, FreshUnnamed
  <2> QED BY <2>1, <2>2 DEF TrackerInv, RecordsOwned, HooksAreReal, OwnStatusOnly,
                           OutcomesAreReal, Reached, Made
<1>7. ASSUME NEW s \in Sessions, NEW r \in Refs, Poll(s, r)
      PROVE  TrackerInv'
  <2>1. /\ owner[r] = s
        /\ shown' = [shown EXCEPT ![s] = [ref |-> r, status |-> StatusOf(r)]]
        /\ UNCHANGED <<provider, owner, starting, store, cancelled, hooks, feed, restarts>>
    BY <1>7 DEF Poll
  <2>2. /\ StatusOf(r) \in Statuses
        /\ Reached(r, StatusOf(r))
    BY <1>types DEF StatusOf, Statuses, TrackerInv, OutcomesAreReal, Reached, Final
  <2>3. provider[r] # "none"
    BY <2>1 DEF TrackerInv, FreshUnnamed
  <2>4. shown' \in [Sessions -> [ref : Refs \cup {0}, status : Statuses]]
    BY <2>1, <2>2, <1>types
  <2>5. FreshUnnamed'
    BY <2>1, <2>3, <1>types DEF TrackerInv, FreshUnnamed
  <2>6. OwnStatusOnly'
    BY <2>1, <1>types DEF TrackerInv, OwnStatusOnly
  <2>7. OutcomesAreReal'
    BY <2>1, <2>2, <1>types DEF TrackerInv, OutcomesAreReal, Reached
  <2> QED BY <2>1, <2>4, <2>5, <2>6, <2>7
          DEF TrackerInv, TrackerTypeOK, RecordsOwned, HooksAreReal, Reached, Made
<1>8. ASSUME Restart
      PROVE  TrackerInv'
  <2>1. /\ restarts < MaxRestarts /\ restarts' = restarts + 1
        /\ starting' = {} /\ cancelled' = {}
        /\ store' = [r \in Refs |-> NoRecord]
        /\ feed' = [s \in Sessions |-> "poll"]
        /\ UNCHANGED <<provider, owner, hooks, shown>>
    BY <1>8 DEF Restart
  <2>2. TrackerTypeOK'
    BY <2>1 DEF TrackerInv, TrackerTypeOK, NoRecord
  <2>3. FreshUnnamed'
    BY <2>1 DEF TrackerInv, FreshUnnamed
  <2>4. RecordsOwned'
    BY <2>1 DEF RecordsOwned, NoRecord
  <2>5. OutcomesAreReal'
    BY <2>1 DEF TrackerInv, OutcomesAreReal, Reached, NoRecord
  <2> QED BY <2>1, <2>2, <2>3, <2>4, <2>5
          DEF TrackerInv, HooksAreReal, Reached, OwnStatusOnly, Made
<1>9. ASSUME UNCHANGED <<provider, owner, starting, store, cancelled, hooks, shown, restarts>>,
             feed' \in [Sessions -> {"sse", "poll"}]
      PROVE  TrackerInv'
  <2>1. TrackerTypeOK' /\ FreshUnnamed'
    BY <1>9 DEF TrackerInv, TrackerTypeOK, FreshUnnamed
  <2>2. (\E n \in Nat : Made = 1 .. n)'
    BY <1>9 DEF TrackerInv, Made
  <2> QED BY <1>9, <2>1, <2>2 DEF TrackerInv, RecordsOwned, HooksAreReal, OwnStatusOnly,
                                 OutcomesAreReal, Reached
<1>10. ASSUME NEW k \in seen, KeyForgotten(k)
       PROVE  TrackerInv'
  BY <1>9, <1>10 DEF KeyForgotten, pages, TrackerInv, TrackerTypeOK
<1>11. ASSUME NEW s \in Sessions, StreamBreaks(s) \/ StreamOpens(s)
       PROVE  TrackerInv'
  BY <1>9, <1>11 DEF StreamBreaks, StreamOpens, TrackerInv, TrackerTypeOK
<1>12. ASSUME UNCHANGED trackerVars
       PROVE  TrackerInv'
  BY <1>9, <1>12 DEF trackerVars, pages, TrackerInv, TrackerTypeOK
<1> QED BY <1>1, <1>2, <1>3, <1>4, <1>5, <1>6, <1>7, <1>8, <1>10, <1>11, <1>12 DEF TrackerNext

(* The tracker's types, freshness and ownership hold in every reachable    *)
(* state of the routes and the pages.                                      *)
THEOREM TrackerInvariance == TrackerSpec => []TrackerInv
BY TrackerStarts, TrackerStays, PTL DEF TrackerSpec

(* No page is ever shown the status of another session's transfer.         *)
THEOREM PagesSeeTheirOwn == TrackerSpec => []OwnStatusOnly
<1>1. TrackerInv => OwnStatusOnly
  BY DEF TrackerInv
<1> QED BY <1>1, TrackerInvariance, PTL

-----------------------------------------------------------------------------
(* The dialog's steps that leave the routes and the pages alone.           *)
LEMMA WizardStepsTrack == [WizardNext]_wizardVars => [TrackerNext]_trackerVars
<1> SUFFICES ASSUME [WizardNext]_wizardVars PROVE [TrackerNext]_trackerVars
  OBVIOUS
<1>1. Customer \in Sessions
  BY TrackerAssumption DEF Customer
<1>2. CASE Fill
  BY <1>2 DEF Fill, OpenFor, BanksAnswer, Close, TurnPage, Turn, Verify, ChooseBank, UseSaved,
              TypeAccount, VerifyAnswer, QuoteAnswer, QuoteExpires, RefreshQuote
<1>3. CASE Pay
  <2>1. ASSUME NEW f \in flows, NEW o \in {"answered", "lost"}, TransferMade(f, o)
        PROVE  TrackerNext
    BY <1>1, <2>1 DEF TransferMade, TrackerNext
  <2>2. ASSUME NEW f \in flows,
               RecipientMade(f) \/ TransferAnswer(f) \/ Confirmed(f) \/ Fails(f)
        PROVE  UNCHANGED trackerVars
    BY <2>2 DEF RecipientMade, TransferAnswer, Confirmed, Fails
  <2>3. CASE CancelPayout
    BY <2>3 DEF CancelPayout, Cancel, Made, TrackerNext
  <2>4. CASE Confirm \/ PollStatus \/ \E r \in polls : PollAnswer(r)
    BY <2>4 DEF Confirm, PollStatus, PollAnswer
  <2> QED BY <1>3, <2>1, <2>2, <2>3, <2>4 DEF Pay, Goes
<1>4. CASE Serve
  BY <1>4 DEF Serve, TrackerNext
<1>5. CASE UNCHANGED wizardVars
  BY <1>5 DEF wizardVars
<1> QED BY <1>2, <1>3, <1>4, <1>5 DEF WizardNext

(* The payout dialog and its server run are a run of the tracker: whatever *)
(* the dialog does, retries and cancellations included, keeps what was     *)
(* proved of the tracker.                                                  *)
THEOREM WizardKeepsTracker == WizardSpec => TrackerSpec
<1>1. WizardInit => TrackerInit
  BY DEF WizardInit
<1> QED BY <1>1, WizardStepsTrack, PTL DEF WizardSpec, TrackerSpec

(* The inductive invariant of the confirmation step.                       *)
AccountInv == ConfirmHasAccount /\ \A v \in verifies : v # NoAccount

(* The confirmation step always has an account that was verified, whatever *)
(* requests of earlier entries are answered late.                          *)
THEOREM ConfirmationHasAccount == WizardSpec => []ConfirmHasAccount
<1>1. WizardInit => AccountInv
  BY DEF WizardInit, AccountInv, ConfirmHasAccount
<1>2. AccountInv /\ [WizardNext]_wizardVars => AccountInv'
  <2> SUFFICES ASSUME AccountInv, [WizardNext]_wizardVars PROVE AccountInv'
    OBVIOUS
  <2> USE DEF AccountInv, ConfirmHasAccount
  <2>1. CASE OpenFor \/ BanksAnswer \/ Close \/ QuoteExpires \/ RefreshQuote
    BY <2>1 DEF OpenFor, BanksAnswer, Close, QuoteExpires, RefreshQuote, form, NoAccount
  <2>2. CASE TurnPage
    BY <2>2 DEF TurnPage, Turn, form, NoAccount
  <2>3. ASSUME NEW b \in Saved, UseSaved(b)
        PROVE  AccountInv'
    <3>1. b # NoAccount
      BY WizardAssumption DEF NoAccount
    <3> QED BY <2>3, <3>1 DEF UseSaved, NoAccount
  <2>4. CASE Verify
    <3>1. [bank |-> bank, account |-> account] # NoAccount
      BY <2>4 DEF Verify, NoAccount
    <3> QED BY <2>4, <3>1 DEF Verify, NoAccount
  <2>5. ASSUME NEW v \in verifies, VerifyAnswer(v)
        PROVE  AccountInv'
    BY <2>5 DEF VerifyAnswer, NoAccount
  <2>6. ASSUME NEW a \in Accounts, TypeAccount(a)
        PROVE  AccountInv'
    BY <2>6 DEF TypeAccount, NoAccount
  <2>7. ASSUME \/ \E b \in Banks : ChooseBank(b)
               \/ \E d \in quotes : QuoteAnswer(d)
        PROVE  AccountInv'
    BY <2>7 DEF ChooseBank, QuoteAnswer, form, NoAccount
  <2>8. CASE Pay
    <3>1. UNCHANGED <<verified, verifies>> /\ step' \in {step, 4}
      BY <2>8 DEF Pay, Goes, Confirm, PollStatus, CancelPayout, RecipientMade, TransferAnswer,
                  Confirmed, TransferMade, Fails, PollAnswer, form
    <3> QED BY <3>1 DEF NoAccount
  <2>9. CASE Serve \/ UNCHANGED wizardVars
    BY <2>9 DEF Serve, wizardVars, form, NoAccount
  <2> QED BY <2>1, <2>2, <2>3, <2>4, <2>5, <2>6, <2>7, <2>8, <2>9 DEF WizardNext, Fill
<1>3. AccountInv => ConfirmHasAccount
  BY DEF AccountInv
<1> QED BY <1>1, <1>2, <1>3, PTL DEF WizardSpec

(***************************************************************************)
(* Deposits.  The deposit dialog calls nothing confirmed, and hands        *)
(* nothing on, that the network did not include: for any number of         *)
(* transactions, openings and reloads, and whichever of submission and     *)
(* recovery is answered.                                                   *)
(***************************************************************************)
Submissions ==
  [phase : {"sign", "sent", "poll", "stats"}, tx : Txs \cup {NoTx}, admin : BOOLEAN]

Sent == {t \in Txs : chain[t] # "none"}

(* A submission past its poll polled a transaction the network included.   *)
PolledOk == \A a \in acts : a.phase = "stats" => a.tx \in Txs /\ chain[a.tx] = "ok"

(* The inductive invariant: hashes are sent in order, so that a new one    *)
(* never takes the place of one already confirmed.                         *)
DepositInv ==
  /\ DepositTypeOK
  /\ \E n \in Nat : Sent = 1 .. n
  /\ PolledOk
  /\ ConfirmedIsOnChain

-----------------------------------------------------------------------------
LEMMA NextTxIsNew ==
  ASSUME \E n \in Nat : Sent = 1 .. n, NextTx \in Txs
  PROVE  /\ chain[NextTx] = "none"
         /\ \E n \in Nat : Sent \cup {NextTx} = 1 .. n
<1>1. PICK n \in Nat : Sent = 1 .. n
  OBVIOUS
<1>2. Cardinality(Sent) = n
  BY <1>1, FS_Interval
<1>3. NextTx = n + 1
  BY <1>2 DEF NextTx, Sent
<1>4. NextTx \notin Sent
  BY <1>1, <1>3
<1>5. Sent \cup {NextTx} = 1 .. n + 1
  BY <1>1, <1>3
<1> QED BY <1>4, <1>5 DEF Sent

LEMMA DepositStarts == DepositInit => DepositInv
<1> SUFFICES ASSUME DepositInit PROVE DepositInv
  OBVIOUS
<1> USE DepositAssumption DEF DepositInit
<1>1. DepositTypeOK
  BY DEF DepositTypeOK
<1>2. Sent = 1 .. 0
  BY DEF Sent
<1>3. PolledOk /\ ConfirmedIsOnChain
  BY DEF PolledOk, ConfirmedIsOnChain
<1> QED BY <1>1, <1>2, <1>3 DEF DepositInv

(* The steps the network does not take: what they may do to the dialog.    *)
LEMMA PageStep ==
  ASSUME DepositInv, UNCHANGED chain, DepositTypeOK',
         PolledOk', ConfirmedIsOnChain'
  PROVE  DepositInv'
BY DEF DepositInv, Sent

LEMMA DepositStays == DepositInv /\ [DepositNext]_depositVars => DepositInv'
<1> SUFFICES ASSUME DepositInv, [DepositNext]_depositVars PROVE DepositInv'
  OBVIOUS
<1> USE DepositAssumption
<1>inv. DepositTypeOK /\ PolledOk /\ ConfirmedIsOnChain
  BY DEF DepositInv
<1>mock. Mock \notin Txs /\ NoTx \notin Txs /\ Mock # NoTx
  BY DEF Mock, Txs, NoTx
<1>1. ASSUME NEW mode \in BOOLEAN, Open(mode)
      PROVE  DepositInv'
  <2>1. DepositTypeOK'
    BY <1>1, <1>inv DEF Open, DepositTypeOK, ledger
  <2>2. PolledOk' /\ ConfirmedIsOnChain'
    BY <1>1, <1>inv DEF Open, PolledOk, ConfirmedIsOnChain, ledger
  <2> QED BY <1>1, <2>1, <2>2, PageStep DEF Open, ledger
<1>2. CASE ResetAgain \/ CloseModal \/ ReloadApp
  <2>1. DepositTypeOK'
    BY <1>2, <1>inv DEF ResetAgain, CloseModal, ReloadApp, DepositTypeOK, ledger
  <2>2. PolledOk' /\ ConfirmedIsOnChain'
    BY <1>2, <1>inv DEF ResetAgain, CloseModal, ReloadApp, PolledOk, ConfirmedIsOnChain, ledger
  <2> QED BY <1>2, <2>1, <2>2, PageStep DEF ResetAgain, CloseModal, ReloadApp, ledger
<1>3. CASE Refused \/ CoolDown
  <2>1. DepositTypeOK'
    BY <1>3, <1>inv DEF Refused, CoolDown, DepositTypeOK, ledger
  <2>2. PolledOk' /\ ConfirmedIsOnChain'
    BY <1>3, <1>inv DEF Refused, CoolDown, PolledOk, ConfirmedIsOnChain, ledger
  <2> QED BY <1>3, <2>1, <2>2, PageStep DEF Refused, CoolDown, ledger
<1>4. CASE Submit
  <2>1. /\ txStatus' \in {"pending", "loading"}
        /\ acts' \in {acts, acts \cup {[phase |-> "sign", tx |-> NoTx, admin |-> admin]}}
        /\ UNCHANGED <<modalStep, admin, txHash, record, recovery, chain, handed>>
    BY <1>4 DEF Submit, ledger
  <2>2. DepositTypeOK'
    BY <2>1, <1>inv DEF DepositTypeOK
  <2>3. PolledOk' /\ ConfirmedIsOnChain'
    BY <2>1, <1>inv DEF PolledOk, ConfirmedIsOnChain
  <2> QED BY <2>1, <2>2, <2>3, PageStep
<1>5. ASSUME NEW a \in acts, Send(a)
      PROVE  DepositInv'
  <2> DEFINE t == NextTx
             b == [phase |-> "sent", tx |-> t, admin |-> a.admin]
  <2>1. /\ t \in Txs /\ chain[t] = "none"
        /\ \E n \in Nat : Sent \cup {t} = 1 .. n
    BY <1>5, NextTxIsNew DEF DepositInv, Send
  <2>2. /\ chain' = [chain EXCEPT ![t] = "sent"]
        /\ acts' = (acts \ {a}) \cup {b}
        /\ UNCHANGED <<modalStep, admin, txStatus, txHash, record, recovery, handed>>
    BY <1>5 DEF Send
  <2>3. b.phase = "sent" /\ b \in Submissions
    BY <2>1, <1>5, <1>inv DEF Submissions, DepositTypeOK
  <2> HIDE DEF t, b
  <2>4. Sent' = Sent \cup {t}
    BY <2>1, <2>2, <1>inv DEF Sent, DepositTypeOK
  <2>5. DepositTypeOK'
    BY <2>1, <2>2, <2>3, <1>inv DEF DepositTypeOK, Submissions
  <2>6. PolledOk'
    BY <2>1, <2>2, <2>3, <1>inv DEF PolledOk, DepositTypeOK
  <2>7. ConfirmedIsOnChain'
    BY <2>1, <2>2, <1>inv DEF ConfirmedIsOnChain, DepositTypeOK
  <2> QED BY <2>1, <2>4, <2>5, <2>6, <2>7 DEF DepositInv
<1>6. ASSUME NEW t \in Txs, Land(t)
      PROVE  DepositInv'
  <2>1. PICK to \in {"ok", "failed"} : chain' = [chain EXCEPT ![t] = to]
    BY <1>6 DEF Land
  <2>2. /\ chain[t] = "sent"
        /\ UNCHANGED <<modalStep, admin, txStatus, txHash, record, acts, recovery, handed>>
    BY <1>6 DEF Land
  <2>3. Sent' = Sent
    BY <2>1, <2>2, <1>inv DEF Sent, DepositTypeOK
  <2>4. DepositTypeOK'
    BY <2>1, <2>2, <1>inv DEF DepositTypeOK
  <2>5. PolledOk'
    BY <2>1, <2>2, <1>inv DEF PolledOk, DepositTypeOK
  <2>6. ConfirmedIsOnChain'
    BY <2>1, <2>2, <1>inv DEF ConfirmedIsOnChain, DepositTypeOK
  <2> QED BY <2>3, <2>4, <2>5, <2>6 DEF DepositInv
<1>7. ASSUME NEW a \in acts, HashKnown(a)
      PROVE  DepositInv'
  <2> DEFINE b == [phase |-> "poll", tx |-> a.tx, admin |-> a.admin]
  <2>1. /\ record' = a.tx /\ acts' = (acts \ {a}) \cup {b}
        /\ UNCHANGED <<modalStep, admin, txStatus, txHash, recovery, chain, handed>>
    BY <1>7 DEF HashKnown, ledger
  <2>2. b.phase = "poll" /\ b \in Submissions /\ a.tx \in Txs \cup {NoTx}
    BY <1>7, <1>inv DEF Submissions, DepositTypeOK
  <2> HIDE DEF b
  <2>3. DepositTypeOK'
    BY <2>1, <2>2, <1>inv DEF DepositTypeOK, Submissions
  <2>4. PolledOk' /\ ConfirmedIsOnChain'
    BY <2>1, <2>2, <1>inv DEF PolledOk, ConfirmedIsOnChain
  <2> QED BY <2>1, <2>3, <2>4, PageStep
<1>8. ASSUME NEW a \in acts, ActConfirmed(a)
      PROVE  DepositInv'
  <2> DEFINE b == [phase |-> "stats", tx |-> a.tx, admin |-> a.admin]
  <2>1. /\ txHash' = a.tx /\ txStatus' = "success" /\ record' = NoTx
        /\ acts' = (acts \ {a}) \cup {b}
        /\ UNCHANGED <<modalStep, admin, recovery, chain, handed>>
    BY <1>8 DEF ActConfirmed, ledger
  <2>2. a.tx \in Txs /\ chain[a.tx] = "ok" /\ b.tx = a.tx /\ b \in Submissions
    BY <1>8, <1>inv DEF ActConfirmed, PollConfirms, Submissions, DepositTypeOK
  <2> HIDE DEF b
  <2>3. DepositTypeOK'
    BY <2>1, <2>2, <1>inv DEF DepositTypeOK, Submissions
  <2>4. PolledOk' /\ ConfirmedIsOnChain'
    BY <2>1, <2>2, <1>inv DEF PolledOk, ConfirmedIsOnChain
  <2> QED BY <2>1, <2>3, <2>4, PageStep
<1>9. ASSUME NEW a \in acts, ActHandsOver(a)
      PROVE  DepositInv'
  <2>1. /\ acts' = acts \ {a} /\ handed' \in {handed, handed \cup {a.tx}}
        /\ modalStep' \in {modalStep, FALSE} /\ recovery' \in {recovery, NoTx}
        /\ UNCHANGED <<admin, txStatus, txHash, record, chain>>
    BY <1>9 DEF ActHandsOver, HandOverToPayout, ledger
  <2>2. a.tx \in Txs /\ chain[a.tx] = "ok"
    BY <1>9, <1>inv DEF ActHandsOver, PolledOk
  <2>3. DepositTypeOK'
    BY <2>1, <2>2, <1>inv DEF DepositTypeOK
  <2>4. PolledOk' /\ ConfirmedIsOnChain'
    BY <2>1, <2>2, <1>inv DEF PolledOk, ConfirmedIsOnChain
  <2> QED BY <2>1, <2>3, <2>4, PageStep
<1>10. ASSUME NEW a \in acts, ActThrows(a)
       PROVE  DepositInv'
  <2>1. /\ acts' = acts \ {a} /\ txStatus' = "error" /\ record' = NoTx
        /\ UNCHANGED <<modalStep, admin, txHash, recovery, chain, handed>>
    BY <1>10 DEF ActThrows, ledger
  <2>2. DepositTypeOK'
    BY <2>1, <1>inv DEF DepositTypeOK
  <2>3. PolledOk' /\ ConfirmedIsOnChain'
    BY <2>1, <1>inv DEF PolledOk, ConfirmedIsOnChain
  <2> QED BY <2>1, <2>2, <2>3, PageStep
<1>11. CASE Recovered
  <2>1. /\ txHash' = recovery /\ record' = NoTx /\ recovery' = NoTx
        /\ txStatus' = "success"
        /\ UNCHANGED <<modalStep, admin, acts, chain, handed>>
    BY <1>11 DEF Recovered, ledger
  <2>2. recovery \in Txs /\ chain[recovery] = "ok"
    BY <1>11 DEF Recovered, PollConfirms
  <2>3. DepositTypeOK'
    BY <2>1, <2>2, <1>inv DEF DepositTypeOK
  <2>4. PolledOk' /\ ConfirmedIsOnChain'
    BY <2>1, <2>2, <1>inv DEF PolledOk, ConfirmedIsOnChain
  <2> QED BY <2>1, <2>3, <2>4, PageStep
<1>12. CASE RecoveryThrows
  <2>1. DepositTypeOK'
    BY <1>12, <1>inv DEF RecoveryThrows, DepositTypeOK, ledger
  <2>2. PolledOk' /\ ConfirmedIsOnChain'
    BY <1>12, <1>inv DEF RecoveryThrows, PolledOk, ConfirmedIsOnChain, ledger
  <2> QED BY <1>12, <2>1, <2>2, PageStep DEF RecoveryThrows, ledger
<1>13. CASE Continue
  <2>1. /\ txStatus = "success" /\ handed' = handed \cup {txHash}
        /\ modalStep' = FALSE /\ recovery' = NoTx
        /\ UNCHANGED <<admin, txStatus, txHash, record, acts, chain>>
    BY <1>13 DEF Continue, HandOverToPayout, ledger
  <2>2. txHash = Mock \/ (txHash \in Txs /\ chain[txHash] = "ok")
    BY <2>1, <1>inv DEF ConfirmedIsOnChain
  <2>3. DepositTypeOK'
    BY <2>1, <2>2, <1>inv DEF DepositTypeOK
  <2>4. PolledOk' /\ ConfirmedIsOnChain'
    BY <2>1, <2>2, <1>inv DEF PolledOk, ConfirmedIsOnChain
  <2> QED BY <2>1, <2>3, <2>4, PageStep
<1>14. CASE SimulateSuccess
  <2>1. DepositTypeOK'
    BY <1>14, <1>inv DEF SimulateSuccess, DepositTypeOK, ledger
  <2>2. PolledOk' /\ ConfirmedIsOnChain'
    BY <1>14, <1>inv DEF SimulateSuccess, PolledOk, ConfirmedIsOnChain, ledger
  <2> QED BY <1>14, <2>1, <2>2, PageStep DEF SimulateSuccess, ledger
<1>15. CASE UNCHANGED depositVars
  <2>1. DepositTypeOK' /\ PolledOk' /\ ConfirmedIsOnChain'
    BY <1>15, <1>inv DEF depositVars, DepositTypeOK, PolledOk, ConfirmedIsOnChain
  <2> QED BY <1>15, <2>1, PageStep DEF depositVars
<1> QED
  BY <1>1, <1>2, <1>3, <1>4, <1>5, <1>6, <1>7, <1>8, <1>9, <1>10, <1>11, <1>12,
     <1>13, <1>14, <1>15
  DEF DepositNext

-----------------------------------------------------------------------------
(* Every reachable state of the dialog satisfies the inductive invariant.  *)
THEOREM DepositInvariance == DepositSpec => []DepositInv
BY DepositStarts, DepositStays, PTL DEF DepositSpec

(* What the dialog calls confirmed, and what it hands to the payout dialog *)
(* (StellarFiatModal.tsx:247-285, 571-621, 781-798), is on the network.    *)
THEOREM ConfirmedStaysOnChain == DepositSpec => []ConfirmedIsOnChain
<1>1. DepositInv => ConfirmedIsOnChain
  BY DEF DepositInv
<1> QED BY DepositInvariance, <1>1, PTL

(***************************************************************************)
(* Prices.  A quote that may still be used is recent, for any number of    *)
(* keys and callers and however long the market is not asked.              *)
(***************************************************************************)
Prices == [from : {"nowhere", "table", "market"}, at : Nat]

(* A price of the market was stored when the market quoted it, an answer   *)
(* is at most a cache entry old, and a lock adds its own length to that.   *)
PricesInv ==
  /\ priceNow \in Nat
  /\ priceCache \in [Keys -> [price : Prices, stored : 0 .. priceNow]]
  /\ \A k \in Keys :
       priceCache[k].price.from = "market" => priceCache[k].price.at = priceCache[k].stored
  /\ \A a \in answeredAsks :
       /\ a.price \in Prices
       /\ a.price.from = "market" => priceNow < a.price.at + CacheFor
  /\ lockedQuote \in [price : Prices, expires : Nat]
  /\ lockedQuote.price.from = "market" =>
       lockedQuote.expires < lockedQuote.price.at + CacheFor + LockFor

LEMMA PricesStart == PricesInit => PricesInv
<1> SUFFICES ASSUME PricesInit PROVE PricesInv
  OBVIOUS
<1>1. NoPrice \in Prices /\ NoPrice.from # "market"
  BY DEF NoPrice, Prices
<1>2. NoEntry \in [price : Prices, stored : 0 .. 1] /\ NoEntry.price = NoPrice
  BY <1>1 DEF NoEntry
<1>3. NoLock \in [price : Prices, expires : Nat] /\ NoLock.price = NoPrice
  BY <1>1 DEF NoLock
<1> QED BY <1>1, <1>2, <1>3 DEF PricesInit, PricesInv

(* An answer of the cache is fresh, and one of the market is of now.       *)
LEMMA PricesStay == PricesInv /\ [PricesNext]_priceVars => PricesInv'
<1> SUFFICES ASSUME PricesInv, [PricesNext]_priceVars PROVE PricesInv'
  OBVIOUS
<1>0. CacheFor \in Nat \ {0} /\ LockFor \in Nat /\ priceNow \in Nat
  BY PriceQuotesAssumption DEF PricesInv
<1>1. ASSUME NEW k \in Keys, GetTokenPrice(k) PROVE PricesInv'
  <2>1. UNCHANGED <<priceNow, priceCache, lockedQuote>>
    BY <1>1 DEF GetTokenPrice
  <2>2. CASE FreshPrice(k)
    <3> DEFINE entry == priceCache[k]
    <3>1. /\ entry \in [price : Prices, stored : 0 .. priceNow]
          /\ entry.price.from = "market" => entry.price.at = entry.stored
          /\ priceNow < entry.stored + CacheFor
      BY <2>2 DEF PricesInv, FreshPrice
    <3>2. answeredAsks' = answeredAsks \cup {[key |-> k, price |-> entry.price]}
      BY <1>1, <2>2 DEF GetTokenPrice
    <3> HIDE DEF entry
    <3>3. \A a \in answeredAsks' : /\ a.price \in Prices
                                   /\ a.price.from = "market" => priceNow < a.price.at + CacheFor
      BY <3>1, <3>2 DEF PricesInv
    <3>4. \A a \in answeredAsks' :
            /\ a.price \in Prices
            /\ a.price.from = "market" => priceNow' < a.price.at + CacheFor
      BY <1>0, <2>1, <3>3
    <3> QED BY <2>1, <3>4 DEF PricesInv
  <2>3. CASE ~FreshPrice(k)
    <3>1. UNCHANGED answeredAsks
      BY <1>1, <2>3 DEF GetTokenPrice
    <3> QED BY <2>1, <3>1 DEF PricesInv
  <2> QED BY <2>2, <2>3
<1>2. ASSUME NEW k \in Keys, NEW up \in BOOLEAN, Fetched(k, up) PROVE PricesInv'
  <2> DEFINE price == FetchCryptoPrices(up)
  <2>1. price \in Prices /\ (price.from = "market" => price.at = priceNow)
    BY <1>0 DEF FetchCryptoPrices, Market, Table, Prices
  <2>2. /\ priceCache' = [priceCache EXCEPT ![k] = [price |-> price, stored |-> priceNow]]
        /\ answeredAsks' = answeredAsks \cup {[key |-> k, price |-> price]}
        /\ UNCHANGED <<priceNow, lockedQuote>>
    BY <1>2 DEF Fetched
  <2> HIDE DEF price
  <2>3. priceCache' \in [Keys -> [price : Prices, stored : 0 .. priceNow]]
    BY <1>0, <2>1, <2>2 DEF PricesInv
  <2>4. \A l \in Keys :
          priceCache'[l].price.from = "market" => priceCache'[l].price.at = priceCache'[l].stored
    BY <2>1, <2>2 DEF PricesInv
  <2>5. \A a \in answeredAsks' : /\ a.price \in Prices
                                 /\ a.price.from = "market" => priceNow < a.price.at + CacheFor
    BY <1>0, <2>1, <2>2 DEF PricesInv
  <2> QED BY <2>2, <2>3, <2>4, <2>5 DEF PricesInv
<1>3. ASSUME NEW a \in answeredAsks, FetchLockedQuote(a) PROVE PricesInv'
  <2>1. a.price \in Prices /\ (a.price.from = "market" => priceNow < a.price.at + CacheFor)
    BY DEF PricesInv
  <2>2. /\ lockedQuote' = [price |-> a.price, expires |-> priceNow + LockFor]
        /\ answeredAsks' \subseteq answeredAsks
        /\ UNCHANGED <<priceNow, priceCache>>
    BY <1>3 DEF FetchLockedQuote
  <2>3. a.price.at \in Nat
    BY <2>1 DEF Prices
  <2>4. /\ lockedQuote' \in [price : Prices, expires : Nat]
        /\ lockedQuote'.price.from = "market" =>
             lockedQuote'.expires < lockedQuote'.price.at + CacheFor + LockFor
    BY <1>0, <2>1, <2>2, <2>3
  <2> QED BY <2>2, <2>4 DEF PricesInv
<1>4. CASE PriceTimePasses
  <2>1. /\ answeredAsks' = {} /\ priceNow' = priceNow + 1
        /\ UNCHANGED <<priceCache, lockedQuote>>
    BY <1>4 DEF PriceTimePasses
  <2>2. priceCache' \in [Keys -> [price : Prices, stored : 0 .. priceNow']]
    BY <1>0, <2>1 DEF PricesInv
  <2> QED BY <1>0, <2>1, <2>2 DEF PricesInv
<1>5. CASE UNCHANGED priceVars
  BY <1>5 DEF priceVars, PricesInv
<1> QED BY <1>1, <1>2, <1>3, <1>4, <1>5 DEF PricesNext

(* A quote that a payout may still use rests on a market price no older    *)
(* than a cache entry and a lock together (cryptoPriceService.ts:374-402). *)
THEOREM QuotesStayRecent == PricesSpec => []QuoteIsRecent
<1>1. PricesInv => QuoteIsRecent
  <2> SUFFICES ASSUME PricesInv, lockedQuote.price.from = "market",
                      priceNow <= lockedQuote.expires
               PROVE  priceNow < lockedQuote.price.at + CacheFor + LockFor
    BY DEF QuoteIsRecent
  <2>1. /\ priceNow \in Nat /\ CacheFor \in Nat /\ LockFor \in Nat
        /\ lockedQuote.expires \in Nat /\ lockedQuote.price.at \in Nat
        /\ lockedQuote.expires < lockedQuote.price.at + CacheFor + LockFor
    BY PriceQuotesAssumption DEF PricesInv, Prices
  <2> QED BY <2>1
<1> QED BY <1>1, PricesStart, PricesStay, PTL DEF PricesSpec

(***************************************************************************)
(* The limiter.  A refusal is earned, for any number of clients, routes    *)
(* and requests, and however the handlers overlap.                         *)
(***************************************************************************)
Logged == [id : Nat, ip : Ips, route : ApiRoutes, at : Nat, ok : BOOLEAN]

LetIn(noted, ip, route, from) ==
  {e \in noted : e.ip = ip /\ e.route = route /\ e.ok /\ e.at >= from}

(* Those admitted before a request, in the window that ends with it.       *)
Behind(noted, e) ==
  {f \in noted : /\ f.ip = e.ip /\ f.route = e.route /\ f.ok
                    /\ f.at >= e.at - WindowMs + 1 /\ f.at < e.at + 1 /\ f.id < e.id}

(* What a window has counted, up to its limit, was let through since it    *)
(* began.                                                                  *)
WindowCounts(ip, route) ==
  LET w == windows[<<ip, route>>]
      n == Cardinality(LetIn(log, ip, route, w.windowStart))
  IN /\ w.count <= RouteLimit[route] => w.count <= n
     /\ w.count >= RouteLimit[route] => RouteLimit[route] <= n

ServerInv ==
  /\ clock \in Nat
  /\ windows \in [Ips \X ApiRoutes -> [count : Nat, windowStart : 0 .. clock]]
  /\ log \subseteq Logged /\ IsFiniteSet(log)
  /\ \A e \in log : e.id <= Cardinality(log) /\ e.at <= clock
  /\ \A ip \in Ips, route \in ApiRoutes : WindowCounts(ip, route)
  /\ \A e \in log : e.ok \/ Cardinality(Behind(log, e)) >= RouteLimit[e.route]

LEMMA ServerStarts == ServerInit => ServerInv
<1> SUFFICES ASSUME ServerInit PROVE ServerInv
  OBVIOUS
<1>1. log = {} /\ clock = 0 /\ windows = [k \in Ips \X ApiRoutes |-> NoWindow]
  BY DEF ServerInit
<1>2. windows \in [Ips \X ApiRoutes -> [count : Nat, windowStart : 0 .. clock]]
  BY <1>1 DEF NoWindow
<1>3. ASSUME NEW ip \in Ips, NEW route \in ApiRoutes PROVE WindowCounts(ip, route)
  <2>1. windows[<<ip, route>>] = NoWindow
    BY <1>1
  <2>2. LetIn(log, ip, route, 0) = {}
    BY <1>1 DEF LetIn
  <2>3. RouteLimit[route] \in Nat \ {0}
    BY ServerAssumption
  <2> QED BY <2>1, <2>2, <2>3, FS_EmptySet DEF WindowCounts, NoWindow
<1> QED BY <1>1, <1>2, <1>3, FS_EmptySet DEF ServerInv

(* One more request of a client and route.                                 *)
LEMMA ArrivalKeeps ==
  ASSUME ServerInv, NEW ip \in Ips, NEW route \in ApiRoutes, Arrive(ip, route)
  PROVE  ServerInv'
<1> DEFINE old == windows[<<ip, route>>]
           w   == ApplyRateLimit(old)
           ok  == w.count <= RouteLimit[route]
           id  == Cardinality(log) + 1
           e   == [id |-> id, ip |-> ip, route |-> route, at |-> clock, ok |-> ok]
           lim == RouteLimit[route]
<1>1. /\ windows' = [windows EXCEPT ![<<ip, route>>] = w]
      /\ log' = log \cup {e} /\ clock' = clock
  BY DEF Arrive
<1>2. /\ clock \in Nat /\ lim \in Nat \ {0} /\ WindowMs \in Nat \ {0}
      /\ old \in [count : Nat, windowStart : 0 .. clock]
      /\ IsFiniteSet(log) /\ Cardinality(log) \in Nat /\ id \in Nat
  BY ServerAssumption, FS_CardinalityType DEF ServerInv
<1>3. /\ Expired(old) => w = [count |-> 1, windowStart |-> clock]
      /\ ~Expired(old) => w = [count |-> old.count + 1, windowStart |-> old.windowStart]
  BY <1>2 DEF ApplyRateLimit
<1>4. w \in [count : Nat, windowStart : 0 .. clock]
  <2> HIDE DEF w, old
  <2> QED BY <1>2, <1>3
<1>5. e \in Logged
  <2> HIDE DEF ok, id
  <2>1. ok \in BOOLEAN
    BY DEF ok
  <2> QED BY <1>2, <2>1 DEF Logged
<1>6. e.id = id /\ e.ip = ip /\ e.route = route /\ e.at = clock /\ e.ok = ok
  OBVIOUS
<1>7. e \notin log
  <2> HIDE DEF e
  <2>1. \A f \in log : f.id <= Cardinality(log) /\ f.id \in Nat
    BY DEF ServerInv, Logged
  <2> QED BY <1>2, <1>6, <2>1
<1> HIDE DEF e
<1>8. IsFiniteSet(log') /\ Cardinality(log') = id
  BY <1>1, <1>2, <1>7, FS_AddElement
<1>9. log' \subseteq Logged /\ \A f \in log' : f.id <= Cardinality(log') /\ f.at <= clock
  <2>1. \A f \in log : f.id <= Cardinality(log) /\ f.id \in Nat /\ f.at <= clock
    BY DEF ServerInv, Logged
  <2> QED BY <1>1, <1>2, <1>5, <1>6, <1>8, <2>1 DEF ServerInv
<1> DEFINE n(from) == Cardinality(LetIn(log, ip, route, from))
<1>10. ASSUME NEW from
       PROVE  /\ IsFiniteSet(LetIn(log, ip, route, from)) /\ n(from) \in Nat
              /\ LetIn(log', ip, route, from) =
                   IF ok /\ clock >= from THEN LetIn(log, ip, route, from) \cup {e}
                                          ELSE LetIn(log, ip, route, from)
              /\ e \notin LetIn(log, ip, route, from)
  <2>1. LetIn(log, ip, route, from) \subseteq log
    BY DEF LetIn
  <2>2. IsFiniteSet(LetIn(log, ip, route, from)) /\ n(from) \in Nat
    BY <1>2, <2>1, FS_Subset, FS_CardinalityType
  <2> HIDE DEF ok
  <2> QED BY <1>1, <1>6, <1>7, <2>1, <2>2 DEF LetIn
<1>11. ASSUME NEW from, ok, clock >= from
       PROVE  Cardinality(LetIn(log', ip, route, from)) = n(from) + 1
  BY <1>10, <1>11, FS_AddElement
<1>12. /\ old.count <= lim => old.count <= n(old.windowStart)
       /\ old.count >= lim => lim <= n(old.windowStart)
  BY DEF ServerInv, WindowCounts
<1>13. ASSUME ~Expired(old)
       PROVE  /\ w.windowStart = old.windowStart /\ w.count = old.count + 1
              /\ old.windowStart <= clock /\ old.windowStart >= clock - WindowMs + 1
  <2>1. w = [count |-> old.count + 1, windowStart |-> old.windowStart]
    BY <1>3, <1>13
  <2>2. clock - old.windowStart < WindowMs /\ old.windowStart \in Nat /\ old.windowStart <= clock
    BY <1>2, <1>13 DEF Expired
  <2> HIDE DEF w, old
  <2> QED BY <1>2, <2>1, <2>2
<1>14. Expired(old) => /\ w.windowStart = clock /\ w.count = 1 /\ ok
  <2> SUFFICES ASSUME Expired(old) PROVE w.windowStart = clock /\ w.count = 1 /\ ok
    OBVIOUS
  <2>1. w = [count |-> 1, windowStart |-> clock]
    BY <1>3
  <2> HIDE DEF w
  <2> QED BY <1>2, <2>1
<1>15. /\ w.count \in Nat /\ old.count \in Nat /\ (ok <=> w.count <= lim)
       /\ n(clock) \in Nat /\ n(old.windowStart) \in Nat
  <2>1. w.count \in Nat /\ old.count \in Nat
    BY <1>2, <1>4
  <2> HIDE DEF w, old, n
  <2> QED BY <1>10, <2>1
<1>16. /\ windows' \in [Ips \X ApiRoutes -> [count : Nat, windowStart : 0 .. clock]]
       /\ windows'[<<ip, route>>] = w
       /\ \A k \in Ips \X ApiRoutes : k # <<ip, route>> => windows'[k] = windows[k]
  <2> HIDE DEF w
  <2> QED BY <1>1, <1>4 DEF ServerInv
<1> DEFINE m(from) == Cardinality(LetIn(log', ip, route, from))
<1>17. /\ w.count <= lim => w.count <= m(w.windowStart)
       /\ w.count >= lim => lim <= m(w.windowStart)
  <2>1. CASE Expired(old)
    <3>1. m(clock) = n(clock) + 1
      <4> HIDE DEF w, old, n, lim, ok
      <4> QED BY <1>2, <1>11, <1>14, <2>1
    <3> HIDE DEF w, old, n, m, lim, ok
    <3> QED BY <1>2, <1>14, <1>15, <2>1, <3>1
  <2>2. CASE ~Expired(old) /\ ok
    <3>1. m(old.windowStart) = n(old.windowStart) + 1
      <4> HIDE DEF w, old, n, lim, ok
      <4> QED BY <1>2, <1>11, <1>13, <2>2
    <3> HIDE DEF w, old, n, m, lim, ok
    <3> QED BY <1>2, <1>12, <1>13, <1>15, <2>2, <3>1
  <2>3. CASE ~Expired(old) /\ ~ok
    <3>1. m(old.windowStart) = n(old.windowStart)
      <4> HIDE DEF w, old, lim, ok
      <4> QED BY <1>10, <2>3
    <3> HIDE DEF w, old, n, m, lim, ok
    <3> QED BY <1>2, <1>12, <1>13, <1>15, <2>3, <3>1
  <2> QED BY <2>1, <2>2, <2>3
<1>18. ASSUME NEW ip2 \in Ips, NEW route2 \in ApiRoutes PROVE WindowCounts(ip2, route2)'
  <2>1. CASE ip2 = ip /\ route2 = route
    <3> HIDE DEF w
    <3> QED BY <1>16, <1>17, <2>1 DEF WindowCounts
  <2>2. CASE ip2 # ip \/ route2 # route
    <3>1. windows'[<<ip2, route2>>] = windows[<<ip2, route2>>]
      <4>1. <<ip2, route2>> \in Ips \X ApiRoutes /\ <<ip2, route2>> # <<ip, route>>
        BY <2>2
      <4> QED BY <1>16, <4>1
    <3>2. \A from : LetIn(log', ip2, route2, from) = LetIn(log, ip2, route2, from)
      BY <1>1, <1>6, <2>2 DEF LetIn
    <3>3. WindowCounts(ip2, route2)
      BY DEF ServerInv
    <3> QED BY <3>1, <3>2, <3>3 DEF WindowCounts
  <2> QED BY <2>1, <2>2
<1>19. ASSUME NEW f \in log PROVE Behind(log', f) = Behind(log, f)
  <2>1. f.id \in Nat /\ f.id < id /\ ~(e.id < f.id)
    BY <1>2, <1>6 DEF ServerInv, Logged
  <2> QED BY <1>1, <2>1 DEF Behind
<1>20. ~ok => Cardinality(Behind(log', e)) >= lim
  <2> SUFFICES ASSUME ~ok PROVE Cardinality(Behind(log', e)) >= lim
    OBVIOUS
  <2>1. ~Expired(old)
    BY <1>14
  <2>2. lim <= n(old.windowStart)
    <3> HIDE DEF w, old, n, lim, ok
    <3> QED BY <1>2, <1>12, <1>13, <1>15, <2>1
  <2>3. LetIn(log, ip, route, old.windowStart) \subseteq Behind(log', e)
    <3>1. ASSUME NEW g \in LetIn(log, ip, route, old.windowStart)
          PROVE  g \in Behind(log', e)
      <4>1. g \in log /\ g.ip = ip /\ g.route = route /\ g.ok /\ g.at >= old.windowStart
        BY DEF LetIn
      <4>2. g.id \in Nat /\ g.id < id /\ g.at \in Nat /\ g.at < clock + 1
        BY <1>2, <4>1 DEF ServerInv, Logged
      <4>3. g.at >= clock - WindowMs + 1
        <5>1. old.windowStart \in Nat
          BY <1>2
        <5> HIDE DEF w, old, n, lim, ok
        <5> QED BY <1>2, <1>13, <2>1, <4>1, <4>2, <5>1
      <4> HIDE DEF old, ok, id
      <4> QED BY <1>1, <1>6, <4>1, <4>2, <4>3 DEF Behind
    <3> QED BY <3>1
  <2>4. IsFiniteSet(Behind(log', e))
    <3>1. Behind(log', e) \subseteq log'
      BY DEF Behind
    <3> QED BY <1>8, <3>1, FS_Subset
  <2>5. /\ n(old.windowStart) <= Cardinality(Behind(log', e))
        /\ Cardinality(Behind(log', e)) \in Nat
    <3> HIDE DEF old
    <3> QED BY <2>3, <2>4, FS_Subset, FS_CardinalityType
  <2> HIDE DEF n, old, lim, w, ok
  <2> QED BY <1>2, <1>15, <2>2, <2>5
<1>21. \A f \in log' : f.ok \/ Cardinality(Behind(log', f)) >= RouteLimit[f.route]
  <2> HIDE DEF ok, w, old
  <2> QED BY <1>1, <1>6, <1>19, <1>20 DEF ServerInv
<1> HIDE DEF w, ok, id, lim, old, n, m
<1> QED BY <1>1, <1>2, <1>8, <1>9, <1>16, <1>18, <1>21 DEF ServerInv

LEMMA ServerStays == ServerInv /\ [ServerNext]_serverVars => ServerInv'
<1> SUFFICES ASSUME ServerInv, [ServerNext]_serverVars PROVE ServerInv'
  OBVIOUS
<1>1. CASE \E ip \in Ips, route \in ApiRoutes : Arrive(ip, route)
  BY <1>1, ArrivalKeeps
<1>2. CASE UNCHANGED <<clock, windows, log>>
  BY <1>2 DEF ServerInv, WindowCounts
<1>3. CASE \E c \in handling : Serves(c)
  BY <1>2, <1>3 DEF Serves, Invalid, BanksListed, BanksFallback, AccountVerified, VerifyFails,
     RecipientCreated, RecipientFails, TransferStarted, TransferFails, EventsRead, StatusRead,
     Returns
<1>4. CASE ClockTicks
  <2>1. clock \in Nat /\ clock' = clock + 1 /\ UNCHANGED <<windows, log>>
    BY <1>4 DEF ClockTicks, ServerInv
  <2>2. \A t \in 0 .. clock : t \in 0 .. clock'
    BY <2>1
  <2>3. windows' \in [Ips \X ApiRoutes -> [count : Nat, windowStart : 0 .. clock']]
    BY <2>1, <2>2 DEF ServerInv
  <2>4. \A e \in log : e.at <= clock'
    BY <2>1 DEF ServerInv, Logged
  <2>5. \A ip \in Ips, route \in ApiRoutes : WindowCounts(ip, route)'
    BY <2>1 DEF ServerInv, WindowCounts
  <2> QED BY <2>1, <2>3, <2>4, <2>5 DEF ServerInv
<1>5. CASE UNCHANGED serverVars
  BY <1>2, <1>5 DEF serverVars
<1> QED BY <1>1, <1>3, <1>4, <1>5 DEF ServerNext

(* A client is refused only after the route's full number of requests of *)
(* its own was admitted in the window that ends with the refusal           *)
(* (rateLimit.ts:50-80).                                                   *)
THEOREM RefusalsAreEarned == ServerSpec => []RefusalEarned
<1>1. ServerInv => RefusalEarned
  <2> SUFFICES ASSUME ServerInv, NEW e \in log
               PROVE  \/ e.ok
                      \/ Cardinality({f \in LetThrough(e.ip, e.route, e.at - WindowMs + 1, e.at + 1) :
                                        f.id < e.id}) >= RouteLimit[e.route]
    BY DEF RefusalEarned
  <2>1. {f \in LetThrough(e.ip, e.route, e.at - WindowMs + 1, e.at + 1) : f.id < e.id}
          = Behind(log, e)
    BY DEF LetThrough, Behind
  <2> QED BY <2>1 DEF ServerInv
<1> QED BY <1>1, ServerStarts, ServerStays, PTL DEF ServerSpec

(***************************************************************************)
(* Late answers: the figures of the deposit's form, the contract's figures *)
(* and the audit table, for any number of fetches, aborts and retries.     *)
(***************************************************************************)
(* What is being read for the form is of what the form shows, and while it *)
(* is being read the flag is up.                                           *)
FormInv ==
  /\ simulations \subseteq {[wallet |-> formWallet, amount |-> amount]}
  /\ simulations # {} => feeLoading
  /\ balanceReads \subseteq {formWallet}
  /\ balanceReads # {} => balanceLoading
  /\ FiguresAreCurrent

(* The newest fetch has the greatest id, and an older answer changes       *)
(* nothing on the screen.                                                  *)
StatsInv == fetchId \in Nat /\ StatsAreNewest

(* A request of the newest fetch asks for the query on the screen,         *)
(* wherever it waits.                                                      *)
Reads == [id : Nat, query : Queries, tries : Nat]
Apt(id, q) == {r \in Reads : r.id <= id /\ (r.id = id => r.query = q)}

AuditInv ==
  /\ latest \in Nat \ {0} /\ query \in Queries
  /\ reads \subseteq Apt(latest, query)
  /\ deskQueue \in Seq(Apt(latest, query))
  /\ serving \in Apt(latest, query) \cup {NoRead}
  /\ RowsMatchQuery

LEMMA FormStarts == FormInit => FormInv
BY DEF FormInit, FormInv, FiguresAreCurrent

(* A change of the form raises the flag of what it reads anew, or takes    *)
(* away what was drawn.                                                    *)
LEMMA FormChanges ==
  ASSUME FormInv, NEW o, NEW w, NEW a, FormBecomes(o, w, a)
  PROVE  FormInv'
<1>1. formWallet' = w /\ amount' = a /\ BalanceEffect(o, w) /\ FeeEffect(o, w, a)
  BY DEF FormBecomes
<1>2. /\ balanceReads' \subseteq {w} /\ (balanceReads' # {} => balanceLoading')
      /\ ~balanceLoading' /\ balance' # 0 => balance' = w
  <2>1. CASE o = formOpen /\ w = formWallet
    BY <2>1, <1>1 DEF BalanceEffect, FormInv, FiguresAreCurrent
  <2>2. CASE ~(o = formOpen /\ w = formWallet)
    BY <2>2, <1>1 DEF BalanceEffect
  <2> QED BY <2>1, <2>2
<1>3. /\ simulations' \subseteq {[wallet |-> w, amount |-> a]}
      /\ (simulations' # {} => feeLoading')
      /\ ~feeLoading' /\ fee' # NoFee => fee' = [wallet |-> w, amount |-> a]
  <2>1. CASE o = formOpen /\ w = formWallet /\ a = amount
    BY <2>1, <1>1 DEF FeeEffect, FormInv, FiguresAreCurrent
  <2>2. CASE ~(o = formOpen /\ w = formWallet /\ a = amount)
    BY <2>2, <1>1 DEF FeeEffect
  <2> QED BY <2>1, <2>2
<1> QED BY <1>1, <1>2, <1>3 DEF FormInv, FiguresAreCurrent

LEMMA FormStays == FormInv /\ [FormNext]_formVars => FormInv'
<1> SUFFICES ASSUME FormInv, [FormNext]_formVars PROVE FormInv'
  OBVIOUS
<1>1. CASE \/ \E a \in Amounts : OpenForm(a) \/ SetAmount(a)
           \/ CloseForm
           \/ \E w \in FormWallets \cup {0} : WalletChanges(w)
  BY <1>1, FormChanges DEF OpenForm, SetAmount, CloseForm, WalletChanges
<1>2. CASE UNCHANGED <<formFields, formReads>>
  BY <1>2 DEF FormInv, FiguresAreCurrent, formFields, formReads
<1>3. CASE \/ \E l \in BridgeLimits \cup {0} : LimitKnown(l)
           \/ TypeRisk \/ CancelTwoFactor \/ HandleAction
           \/ \E t \in {"none", "short", "full"} : TypeTwoFactor(t)
  BY <1>2, <1>3 DEF LimitKnown, TypeRisk, CancelTwoFactor, HandleAction, TypeTwoFactor
<1>4. ASSUME NEW w \in balanceReads, NEW ok \in BOOLEAN, BalanceKnown(w, ok) PROVE FormInv'
  BY <1>4 DEF BalanceKnown, FormInv, FiguresAreCurrent, formFields
<1>5. ASSUME NEW s \in simulations, NEW ok \in BOOLEAN, Simulated(s, ok) PROVE FormInv'
  BY <1>5 DEF Simulated, FormInv, FiguresAreCurrent, formFields
<1>6. ASSUME NEW a \in priceReads, NEW ok \in BOOLEAN, Estimated(a, ok) PROVE FormInv'
  BY <1>6 DEF Estimated, FormInv, FiguresAreCurrent, formFields
<1>7. CASE UNCHANGED formVars
  BY <1>2, <1>7 DEF formVars
<1> QED BY <1>1, <1>3, <1>4, <1>5, <1>6, <1>7 DEF FormNext

(* The fee and the balance drawn are of the amount and the wallet in the   *)
(* form (StellarFiatModal.tsx:117-158, 285-344).                           *)
THEOREM FiguresStayCurrent == FormSpec => []FiguresAreCurrent
<1>1. FormInv => FiguresAreCurrent
  BY DEF FormInv
<1> QED BY <1>1, FormStarts, FormStays, PTL DEF FormSpec

-----------------------------------------------------------------------------
LEMMA StatsStart == StatsInit => StatsInv
BY DEF StatsInit, StatsInv, StatsAreNewest

LEMMA StatsStay == StatsInv /\ [StatsNext]_statsVars => StatsInv'
<1> SUFFICES ASSUME StatsInv, [StatsNext]_statsVars PROVE StatsInv'
  OBVIOUS
<1> USE DEF StatsInv, StatsAreNewest
<1>1. CASE Refetch \/ RefreshStats
  BY <1>1 DEF Refetch, RefreshStats, RunFetch
<1>2. CASE CacheExpires \/ StatsUnmount \/ ContractMoves \/ UNCHANGED statsVars
  BY <1>2 DEF CacheExpires, StatsUnmount, ContractMoves, statsVars, face
<1>3. ASSUME NEW v \in views, Simulates(v) PROVE StatsInv'
  BY <1>3 DEF Simulates, face
<1>4. ASSUME NEW v \in views, StatsAnswer(v) PROVE StatsInv'
  BY <1>4 DEF StatsAnswer, Superseded, face
<1>5. ASSUME NEW v \in views, StatsFail(v) PROVE StatsInv'
  BY <1>5 DEF StatsFail, Superseded
<1> QED BY <1>1, <1>2, <1>3, <1>4, <1>5 DEF StatsNext

(* Mounted, neither loading nor in error, the contract's figures are those *)
(* of the newest fetch (useBridgeStats.ts:155-212).                        *)
THEOREM StatsStayNewest == StatsSpec => []StatsAreNewest
<1>1. StatsInv => StatsAreNewest
  BY DEF StatsInv
<1> QED BY <1>1, StatsStart, StatsStay, PTL DEF StatsSpec

-----------------------------------------------------------------------------
LEMMA AuditStarts == AuditInit => AuditInv
<1> SUFFICES ASSUME AuditInit PROVE AuditInv
  OBVIOUS
<1>1. [id |-> 1, query |-> 1, tries |-> 0] \in Apt(1, 1)
  BY AuditAssumption DEF Apt, Reads
<1> QED BY <1>1, AuditAssumption DEF AuditInit, AuditInv, RowsMatchQuery

(* The queue's loop takes requests from the queue, and leaves the rest.    *)
LEMMA QueueServes ==
  ASSUME NEW A, deskQueue \in Seq(A), serving \in A \cup {NoRead}
  PROVE  /\ ServeNext => deskQueue' \in Seq(A) /\ serving' \in A \cup {NoRead}
         /\ \A q \in Seq(A) : \A o : ServeQueued(q, o) =>
               deskQueue' \in Seq(A) /\ serving' \in A \cup {NoRead}
<1>1. ASSUME NEW q \in Seq(A), q # <<>> PROVE Head(q) \in A /\ Tail(q) \in Seq(A)
  BY <1>1
<1> QED BY <1>1 DEF ServeNext, ServeQueued

(* A new fetch makes every earlier one out of date.                        *)
LEMMA FetchKeeps ==
  ASSUME AuditInv, NEW q \in Queries, query' = q, Fetch(q), tableRows' = tableRows
  PROVE  AuditInv'
<1> DEFINE r == [id |-> latest + 1, query |-> q, tries |-> 0]
           A == Apt(latest + 1, q)
<1>1. latest \in Nat \ {0} /\ r \in A
  BY DEF AuditInv, Apt, Reads
<1>2. Apt(latest, query) \subseteq A
  <2>1. ASSUME NEW x \in Apt(latest, query) PROVE x \in A
    <3>1. x \in Reads /\ x.id \in Nat /\ x.id <= latest
      BY DEF Apt, Reads
    <3>2. x.id <= latest + 1 /\ x.id # latest + 1
      BY <1>1, <3>1
    <3> QED BY <3>1, <3>2 DEF Apt
  <2> QED BY <2>1
<1>3. reads \subseteq A /\ deskQueue \in Seq(A) /\ serving \in A \cup {NoRead}
  <2>1. deskQueue \in Seq(Apt(latest, query))
    BY DEF AuditInv
  <2> HIDE DEF A
  <2> QED BY <1>2, <2>1 DEF AuditInv
<1>4. /\ latest' = latest + 1 /\ tableLoading' = TRUE
      /\ serving' = serving
      /\ \/ reads' = reads \cup {r} /\ deskQueue' = deskQueue
         \/ deskQueue' = Append(deskQueue, r) /\ reads' = reads
  BY DEF Fetch
<1> HIDE DEF r
<1>5. /\ reads' \subseteq Apt(latest', query') /\ deskQueue' \in Seq(Apt(latest', query'))
      /\ serving' \in Apt(latest', query') \cup {NoRead}
  <2>1. A = Apt(latest', query')
    BY <1>4
  <2> HIDE DEF A
  <2> QED BY <1>1, <1>3, <1>4, <2>1
<1> QED BY <1>1, <1>4, <1>5 DEF AuditInv, RowsMatchQuery

LEMMA AuditStays == AuditInv /\ [AuditNext]_auditVars => AuditInv'
<1> SUFFICES ASSUME AuditInv, [AuditNext]_auditVars PROVE AuditInv'
  OBVIOUS
<1> DEFINE A == Apt(latest, query)
<1>1. /\ latest \in Nat \ {0} /\ query \in Queries /\ reads \subseteq A
      /\ deskQueue \in Seq(A) /\ serving \in A \cup {NoRead} /\ RowsMatchQuery
  BY DEF AuditInv
<1>2. ASSUME NEW r \in A PROVE r.id = latest => r.query = query
  BY DEF Apt
<1>3. ASSUME NEW r \in A, NEW n \in Nat PROVE [r EXCEPT !.tries = n] \in A
  BY DEF Apt, Reads
<1> HIDE DEF A
<1>4. ASSUME UNCHANGED <<latest, query>>, reads' \subseteq A,
             deskQueue' \in Seq(A), serving' \in A \cup {NoRead}, RowsMatchQuery'
      PROVE  AuditInv'
  BY <1>1, <1>4 DEF AuditInv, A
<1>5. ASSUME NEW r \in A, UNCHANGED query, \/ ~Aborted(r) /\ Shows(r)
                                          \/ Complains(r) \/ Ignores
      PROVE  RowsMatchQuery'
  <2>1. CASE ~Aborted(r) /\ Shows(r)
    BY <1>2, <1>5, <2>1 DEF Aborted, Shows, RowsMatchQuery
  <2>2. CASE Complains(r)
    BY <2>2 DEF Complains, RowsMatchQuery
  <2>3. CASE Ignores
    BY <1>1, <1>5, <2>3 DEF Ignores, RowsMatchQuery
  <2> QED BY <1>5, <2>1, <2>2, <2>3
<1>6. ASSUME NEW q \in Queries, AskPage(q) PROVE AuditInv'
  BY <1>6, FetchKeeps DEF AskPage
<1>7. ASSUME NEW r \in reads, ReadSettles(r) PROVE AuditInv'
  <2>1. r \in A /\ [r EXCEPT !.tries = 1] \in A
    BY <1>1, <1>3
  <2>2. Append(deskQueue, [r EXCEPT !.tries = 1]) \in Seq(A)
    BY <1>1, <2>1
  <2>3. deskQueue' \in Seq(A) /\ serving' \in A \cup {NoRead}
    BY <1>1, <1>7, <2>2, QueueServes DEF ReadSettles
  <2>4. RowsMatchQuery'
    BY <1>5, <1>7, <2>1 DEF ReadSettles
  <2>5. UNCHANGED <<latest, query>> /\ reads' \subseteq A
    BY <1>1, <1>7 DEF ReadSettles
  <2> QED BY <1>4, <2>3, <2>4, <2>5
<1>8. CASE ServedSettles
  <2> DEFINE r == serving
  <2>1. r \in A /\ r.tries + 1 \in Nat
    BY <1>1, <1>8 DEF ServedSettles, A, Apt, Reads
  <2>2. Append(deskQueue, [r EXCEPT !.tries = r.tries + 1]) \in Seq(A)
    BY <1>1, <1>3, <2>1
  <2>3. deskQueue' \in Seq(A) /\ serving' \in A \cup {NoRead}
    BY <1>1, <1>8, <2>2, QueueServes DEF ServedSettles
  <2>4. RowsMatchQuery'
    BY <1>5, <1>8, <2>1 DEF ServedSettles
  <2>5. UNCHANGED <<latest, query>> /\ reads' \subseteq A
    BY <1>1, <1>8 DEF ServedSettles
  <2> QED BY <1>4, <2>3, <2>4, <2>5
<1>9. CASE GoesOffline \/ UNCHANGED auditVars
  BY <1>1, <1>4, <1>9 DEF GoesOffline, auditVars, RowsMatchQuery
<1>10. CASE GoesOnline
  <2>1. deskQueue' \in Seq(A) /\ serving' \in A \cup {NoRead}
    BY <1>1, <1>10, QueueServes DEF GoesOnline
  <2> QED BY <1>1, <1>4, <1>10, <2>1 DEF GoesOnline, RowsMatchQuery
<1>11. ASSUME NEW reached \in BOOLEAN, PingAnswers(reached) PROVE AuditInv'
  <2>1. CASE UNCHANGED <<reads, deskQueue, serving, latest, tableLoading, fetchFailed>>
    BY <1>1, <1>4, <1>11, <2>1 DEF PingAnswers, RowsMatchQuery
  <2>2. CASE Fetch(query)
    BY <1>1, <1>11, <2>2, FetchKeeps DEF PingAnswers
  <2> QED BY <1>11, <2>1, <2>2 DEF PingAnswers
<1> QED BY <1>6, <1>7, <1>8, <1>9, <1>10, <1>11 DEF AuditNext

(* The rows drawn are those of the filter, page and order on the screen    *)
(* (AuditTable.tsx:74-137, networkQueue.ts:50-163).                        *)
THEOREM RowsStayMatched == AuditSpec => []RowsMatchQuery
<1>1. AuditInv => RowsMatchQuery
  BY DEF AuditInv
<1> QED BY <1>1, AuditStarts, AuditStays, PTL DEF AuditSpec

-----------------------------------------------------------------------------
(* A step of the parts together is one of each part or leaves it alone.    *)
LEMMA PartsMove ==
  MCMoneySpec => FormSpec /\ StatsSpec /\ AuditSpec
<1>1. MCMoneyInit => FormInit /\ StatsInit /\ AuditInit
  BY DEF MCMoneyInit
<1>2. [MCMoneyNext]_mcVars => [FormNext]_formVars /\ [StatsNext]_statsVars /\ [AuditNext]_auditVars
  BY DEF MCMoneyNext, mcVars
<1> QED BY <1>1, <1>2, PTL DEF MCMoneySpec, FormSpec, StatsSpec, AuditSpec

(* No late answer is drawn for what is asked now, in any of the three.     *)
THEOREM LateAnswersNeverShow == MCMoneySpec => []LateAnswersDiscarded
<1>1. FiguresAreCurrent /\ StatsAreNewest /\ RowsMatchQuery => LateAnswersDiscarded
  BY DEF LateAnswersDiscarded
<1> QED BY <1>1, PartsMove, FiguresStayCurrent, StatsStayNewest, RowsStayMatched, PTL

(***************************************************************************)
(* Filters.  A selection reaches the URL, for any number of categories'    *)
(* values, selections and steps back.                                      *)
(***************************************************************************)
(* What is under way, and the selection drawn, are the last one wanted; a  *)
(* URL may say anything a link can, which reading it cleans.               *)
Selections == {f \in [Categories2 -> Seq(Nat)] : f["status"] \in Seq(Values)}
Params == UNION {[D -> Seq(Nat)] : D \in SUBSET Categories2}

SelectionInv ==
  /\ wanted \in Selections /\ url \in Params
  /\ trail \in Seq(Params) /\ pushes \in Seq(Params)
  /\ added \in Nat /\ entries \in Seq([id : Nat, status : Values, asset : Values])
  /\ pending \in {Unset, wanted}
  /\ debounced \in {Unset, wanted}
  /\ (debounced = Unset /\ pushes # <<>>) =>
       pushes[Len(pushes)] = SerializeFilters(wanted)
  /\ SelectionReachesUrl

LEMMA SelectionSet ==
  ASSUME NEW f \in Selections, NEW c \in Categories2, NEW s \in Seq(Nat),
         c = "status" => s \in Seq(Values)
  PROVE  [f EXCEPT ![c] = s] \in Selections
<1>1. f \in [Categories2 -> Seq(Nat)] /\ f["status"] \in Seq(Values)
  BY DEF Selections
<1>2. [f EXCEPT ![c] = s] \in [Categories2 -> Seq(Nat)]
  BY <1>1
<1>3. [f EXCEPT ![c] = s]["status"] \in Seq(Values)
  BY <1>1 DEF Categories2
<1> QED BY <1>2, <1>3 DEF Selections

(* No selection is the value that stands for none.                         *)
LEMMA SelectionIsSet ==
  ASSUME NEW f \in Selections
  PROVE  f # Unset
<1>1. "status" \in DOMAIN f /\ DOMAIN Unset = {}
  BY DEF Selections, Categories2, Unset
<1> QED BY <1>1

LEMMA ListOfMembers ==
  ASSUME NEW V, NEW list \in Seq(V), NEW Good, ToSet(list) \subseteq Good
  PROVE  list \in Seq(Good)
<1>1. \A i \in 1 .. Len(list) : list[i] \in Good
  BY DEF ToSet
<1> QED BY <1>1

(* Whatever a URL says, a selection is read from it.                       *)
LEMMA ReadFromUrl ==
  ASSUME NEW p \in Params
  PROVE  DeserializeFilters(p) \in Selections
<1> DEFINE d == DeserializeFilters(p)
           good == Filtered(p["status"], Values)
<1>1. PICK D \in SUBSET Categories2 : p \in [D -> Seq(Nat)]
  BY DEF Params
<1>2. "status" \in DOMAIN p => good \in Seq(Nat) /\ good \in Seq(Values)
  <2> SUFFICES ASSUME "status" \in DOMAIN p PROVE good \in Seq(Nat) /\ good \in Seq(Values)
    OBVIOUS
  <2>1. p["status"] \in Seq(Nat)
    BY <1>1
  <2>2. good \in Seq(Nat) /\ ToSet(good) \subseteq Values
    BY <2>1, FilteredType, FilteredMembers
  <2> HIDE DEF good
  <2> QED BY <2>2, ListOfMembers
<1>3. d = [c \in Categories2 |-> IF c \notin DOMAIN p THEN <<>>
                                ELSE IF c = "status" THEN good ELSE p[c]]
  BY DEF DeserializeFilters
<1> HIDE DEF d, good
<1>4. \A c \in Categories2 : d[c] \in Seq(Nat)
  <2> TAKE c \in Categories2
  <2>1. d[c] = IF c \notin DOMAIN p THEN <<>> ELSE IF c = "status" THEN good ELSE p[c]
    BY <1>3
  <2>2. c \in DOMAIN p => p[c] \in Seq(Nat)
    BY <1>1
  <2>3. <<>> \in Seq(Nat)
    OBVIOUS
  <2> QED BY <1>2, <2>1, <2>2, <2>3
<1>5. d["status"] \in Seq(Values)
  <2>1. "status" \in Categories2
    BY DEF Categories2
  <2>2. d["status"] = IF "status" \notin DOMAIN p THEN <<>> ELSE good
    BY <1>3, <2>1
  <2>3. <<>> \in Seq(Values)
    OBVIOUS
  <2> QED BY <1>2, <2>2, <2>3
<1>6. d \in [Categories2 -> Seq(Nat)]
  BY <1>3, <1>4
<1> QED BY <1>5, <1>6 DEF Selections, d

(* A selection written to the URL is the one read back.                    *)
LEMMA RoundTrip ==
  ASSUME NEW f \in Selections
  PROVE  SerializeFilters(f) \in Params /\ DeserializeFilters(SerializeFilters(f)) = f
<1> DEFINE p == SerializeFilters(f)
           D == {c \in Categories2 : f[c] # <<>>}
<1>1. f \in [Categories2 -> Seq(Nat)] /\ f["status"] \in Seq(Values)
  BY DEF Selections
<1>2. p = [c \in D |-> f[c]]
  BY DEF SerializeFilters
<1>3. p \in [D -> Seq(Nat)] /\ D \in SUBSET Categories2
  BY <1>1, <1>2
<1>4. Filtered(f["status"], Values) = f["status"]
  <2>1. ToSet(f["status"]) \subseteq Values
    BY <1>1 DEF ToSet
  <2> QED BY <1>1, <2>1, FilteredAll
<1> DEFINE d == DeserializeFilters(p)
<1>5. d = [c \in Categories2 |-> IF c \notin D THEN <<>>
                                ELSE IF c = "status" THEN Filtered(p["status"], Values)
                                ELSE p[c]]
  <2>1. DOMAIN p = D
    BY <1>2
  <2> HIDE DEF p, D
  <2> QED BY <2>1 DEF DeserializeFilters
<1>6. \A c \in Categories2 : d[c] = f[c]
  <2> TAKE c \in Categories2
  <2>1. c \in D => p[c] = f[c]
    BY <1>2
  <2>2. c \notin D => f[c] = <<>>
    OBVIOUS
  <2>3. d[c] = IF c \notin D THEN <<>>
               ELSE IF c = "status" THEN Filtered(p["status"], Values) ELSE p[c]
    <3> HIDE DEF d, p, D
    <3> QED BY <1>5
  <2> HIDE DEF d, p, D
  <2> QED BY <1>4, <2>1, <2>2, <2>3
<1>7. d = f
  <2>1. d = [c \in Categories2 |-> d[c]]
    BY DEF DeserializeFilters
  <2> HIDE DEF d
  <2> QED BY <1>1, <1>6, <2>1
<1>8. p \in Params
  <2> HIDE DEF p, D
  <2> QED BY <1>3 DEF Params
<1> QED BY <1>7, <1>8

-----------------------------------------------------------------------------
LEMMA SelectionStarts == ReceiptsInit => SelectionInv
<1> SUFFICES ASSUME ReceiptsInit PROVE SelectionInv
  OBVIOUS
<1>1. NoFilters \in [Categories2 -> Seq(Nat)] /\ NoFilters["status"] \in Seq(Values)
  BY DEF NoFilters, Categories2
<1>2. Unset \in Params
  <2>1. Unset \in [{} -> Seq(Nat)]
    BY DEF Unset
  <2> QED BY <2>1 DEF Params
<1> DEFINE stray == [NoFilters EXCEPT !["status"] = <<StrayStatus>>]
           p == SerializeFilters(stray)
<1>3. stray \in [Categories2 -> Seq(Nat)]
  <2>1. StrayStatus \in Nat
    BY ReceiptsAssumption
  <2>2. <<StrayStatus>> \in Seq(Nat)
    BY <2>1
  <2> QED BY <1>1, <2>2
<1>4. p \in Params
  <2> HIDE DEF stray
  <2>1. p \in [{d \in Categories2 : stray[d] # <<>>} -> Seq(Nat)]
    BY <1>3 DEF SerializeFilters
  <2> HIDE DEF p
  <2> QED BY <2>1 DEF Params
<1>5. DeserializeFilters(Unset) = NoFilters
  BY DEF DeserializeFilters, Unset, NoFilters
<1>6. DeserializeFilters(p) = NoFilters
  <2>1. <<StrayStatus>> \in Seq(Nat) /\ StrayStatus \notin Values
    BY ReceiptsAssumption
  <2>2. Filtered(<<StrayStatus>>, Values) = <<>>
    <3> DEFINE r == Filtered(<<StrayStatus>>, Values)
    <3>1. r \in Seq(Nat) /\ ToSet(r) = ToSet(<<StrayStatus>>) \cap Values
      BY <2>1, FilteredType, FilteredMembers
    <3>2. ToSet(<<StrayStatus>>) = {StrayStatus}
      BY DEF ToSet
    <3> HIDE DEF r
    <3>3. ToSet(r) = {}
      BY <2>1, <3>1, <3>2
    <3>4. Len(r) = 0
      <4>1. Len(r) \in Nat /\ DOMAIN r = 1 .. Len(r)
        BY <3>1
      <4>2. 1 \notin DOMAIN r
        BY <3>3 DEF ToSet
      <4> QED BY <4>1, <4>2
    <3>5. r = <<>>
      BY <3>1, <3>4
    <3> QED BY <3>5 DEF r
  <2>3. p = [c \in {"status"} |-> <<StrayStatus>>]
    BY DEF SerializeFilters, NoFilters, Categories2
  <2> HIDE DEF p
  <2> QED BY <2>2, <2>3 DEF DeserializeFilters, NoFilters
<1>7. url \in Params /\ DeserializeFilters(url) = NoFilters
  BY <1>2, <1>4, <1>5, <1>6 DEF ReceiptsInit
<1> QED BY <1>1, <1>7 DEF ReceiptsInit, SelectionInv, SelectionReachesUrl, Selections

(* What the drawer shows is a selection, and so is what a click makes it.  *)
LEMMA ClicksSelect ==
  ASSUME SelectionInv, NEW c \in Categories2
  PROVE  /\ FilterState \in Selections
         /\ Options(c) \subseteq Values
         /\ \A v \in Values : Toggled(c, v) \in Selections
         /\ \A s \in Seq(Values) : [FilterState EXCEPT ![c] = s] \in Selections
<1>1. FilterState \in Selections
  BY ReadFromUrl DEF FilterState, SelectionInv
<1>2. Options(c) \subseteq Values
  <2> DEFINE E == [id : Nat, status : Values, asset : Values]
  <2>1. \A i \in DOMAIN entries : entries[i] \in E
    <3>1. entries \in Seq(E)
      BY DEF SelectionInv
    <3> HIDE DEF E
    <3> QED BY <3>1
  <2>2. \A e \in E : e[c] \in Values
    <3>1. CASE c = "status"
      BY <3>1
    <3>2. CASE c = "asset"
      BY <3>2
    <3> QED BY <3>1, <3>2 DEF Categories2
  <2> QED BY <2>1, <2>2 DEF Options, Range
<1> HIDE DEF FilterState
<1> DEFINE now == FilterState[c]
<1>3. now \in Seq(Nat) /\ (c = "status" => now \in Seq(Values)) /\ Values \subseteq Nat
  BY <1>1, ReceiptsAssumption DEF Selections
<1>4. ASSUME NEW v \in Values PROVE Toggled(c, v) \in Selections
  <2> DEFINE s == IF v \in Range(now) THEN Filtered(now, Range(now) \ {v}) ELSE Append(now, v)
  <2>1. s \in Seq(Nat) /\ (c = "status" => s \in Seq(Values))
    <3> HIDE DEF now
    <3> QED BY <1>3, FilteredType
  <2>2. Toggled(c, v) = [FilterState EXCEPT ![c] = s]
    <3>1. FilterState \in [Categories2 -> Seq(Nat)]
      BY <1>1 DEF Selections
    <3> QED BY <3>1 DEF Toggled
  <2> HIDE DEF s
  <2> QED BY <1>1, <2>1, <2>2, SelectionSet
<1>5. ASSUME NEW s \in Seq(Values) PROVE [FilterState EXCEPT ![c] = s] \in Selections
  <2>1. s \in Seq(Nat)
    <3>1. Values \subseteq Nat
      BY <1>3
    <3> QED BY <3>1, SeqMonotonic
  <2> QED BY <1>1, <2>1, SelectionSet
<1> QED BY <1>1, <1>2, <1>4, <1>5

LEMMA UpdateKeeps ==
  ASSUME SelectionInv, NEW f \in Selections, UpdateUrl(f)
  PROVE  SelectionInv'
<1>1. /\ wanted' = f /\ debounced' = f /\ pending' \in {Unset, f}
      /\ UNCHANGED <<url, trail, pushes, entries, added>>
  BY DEF UpdateUrl, Agree, drawerVars
<1>2. debounced' # Unset
  BY <1>1, SelectionIsSet
<1> QED BY <1>1, <1>2 DEF SelectionInv, SelectionReachesUrl

LEMMA FiltersStay ==
  ASSUME SelectionInv,
         \/ \E c \in Categories2 : CycleFilterCategory(c) \/ \E v \in Values : ToggleFilter(c, v)
         \/ ClearAllFilters
  PROVE  SelectionInv'
<1>1. ASSUME NEW c \in Categories2, CycleFilterCategory(c) PROVE SelectionInv'
  <2> DEFINE now  == FilterState[c]
             rest == IF now # <<>> /\ Last(now) \in Options(c)
                       THEN {v \in Options(c) : v > Last(now)} ELSE Options(c)
             next == IF rest = {} THEN <<>> ELSE <<CHOOSE v \in rest : \A w \in rest : v <= w>>
  <2>1. rest \subseteq Values /\ Values \subseteq Nat
    BY ClicksSelect, ReceiptsAssumption
  <2>2. next \in Seq(Values)
    <3>1. CASE rest = {}
      BY <3>1
    <3>2. CASE rest # {}
      <4>1. \E v \in rest : \A w \in rest : v <= w
        <5> HIDE DEF rest
        <5> QED BY <2>1, <3>2, LeastExists
      <4> DEFINE least == CHOOSE v \in rest : \A w \in rest : v <= w
      <4>2. least \in rest
        BY <4>1
      <4>3. next = <<least>>
        BY <3>2
      <4> HIDE DEF least, rest, next
      <4> QED BY <2>1, <4>2, <4>3
    <3> QED BY <3>1, <3>2
  <2>3. UpdateUrl([FilterState EXCEPT ![c] = next])
    BY <1>1 DEF CycleFilterCategory
  <2> HIDE DEF next
  <2> QED BY <2>2, <2>3, ClicksSelect, UpdateKeeps
<1>2. ASSUME NEW c \in Categories2, NEW v \in Values, ToggleFilter(c, v) PROVE SelectionInv'
  BY <1>2, ClicksSelect, UpdateKeeps DEF ToggleFilter
<1>3. CASE ClearAllFilters
  <2>1. NoFilters \in Selections
    <3>1. <<>> \in Seq(Nat) /\ <<>> \in Seq(Values)
      OBVIOUS
    <3>2. NoFilters \in [Categories2 -> Seq(Nat)] /\ NoFilters["status"] = <<>>
      BY <3>1 DEF NoFilters, Categories2
    <3> QED BY <3>1, <3>2 DEF Selections
  <2> QED BY <1>3, <2>1, UpdateKeeps DEF ClearAllFilters
<1> QED BY <1>1, <1>2, <1>3

(* The timer fires, a URL arrives, the user steps back.                    *)
LEMMA UrlStays ==
  ASSUME SelectionInv, FlushFilters \/ PushLands \/ GoBack
  PROVE  SelectionInv'
<1>1. /\ wanted \in Selections /\ url \in Params /\ trail \in Seq(Params)
      /\ pushes \in Seq(Params) /\ pending \in {Unset, wanted} /\ debounced \in {Unset, wanted}
  BY DEF SelectionInv
<1>2. CASE FlushFilters
  <2> DEFINE p == SerializeFilters(wanted)
  <2>1. /\ pushes' = Append(pushes, p) /\ debounced' = Unset
        /\ UNCHANGED <<url, trail, pending, wanted, entries, added>>
    BY <1>1, <1>2 DEF FlushFilters, drawerVars
  <2>2. p \in Params
    BY <1>1, RoundTrip
  <2> HIDE DEF p
  <2>3. pushes' \in Seq(Params) /\ pushes' # <<>> /\ pushes'[Len(pushes')] = p
    BY <1>1, <2>1, <2>2
  <2>4. pushes'[Len(pushes')] = SerializeFilters(wanted')
    BY <2>1, <2>3 DEF p
  <2> QED BY <2>1, <2>3, <2>4 DEF SelectionInv, SelectionReachesUrl
<1>3. CASE PushLands
  <2>1. /\ pushes # <<>> /\ url' = Head(pushes) /\ pushes' = Tail(pushes)
        /\ trail' = Append(trail, url)
        /\ pending' = IF pending = Unset THEN Unset ELSE Agree(pending, Head(pushes))
        /\ UNCHANGED <<debounced, wanted, entries, added>>
    BY <1>3 DEF PushLands, drawerVars
  <2>2. /\ url' \in Params /\ pushes' \in Seq(Params) /\ trail' \in Seq(Params)
        /\ pushes' # <<>> => pushes'[Len(pushes')] = pushes[Len(pushes)]
        /\ pushes' = <<>> => Head(pushes) = pushes[Len(pushes)]
    <3>1. Head(pushes) \in Params /\ Tail(pushes) \in Seq(Params)
      BY <1>1, <2>1, HeadTailProperties
    <3>2. /\ Len(pushes) \in Nat \ {0} /\ Len(Tail(pushes)) = Len(pushes) - 1
          /\ Head(pushes) = pushes[1]
          /\ \A i \in 1 .. Len(Tail(pushes)) : Tail(pushes)[i] = pushes[i + 1]
      BY <1>1, <2>1, HeadTailProperties
    <3>3. Append(trail, url) \in Seq(Params)
      BY <1>1
    <3>4. ASSUME Tail(pushes) # <<>>
          PROVE  Tail(pushes)[Len(Tail(pushes))] = pushes[Len(pushes)]
      <4> DEFINE t == Tail(pushes)
      <4>1. t \in Seq(Params) /\ t # <<>>
        BY <3>1, <3>4
      <4>2. Len(t) = Len(pushes) - 1 /\ \A i \in 1 .. Len(t) : t[i] = pushes[i + 1]
        BY <3>2
      <4> HIDE DEF t
      <4>3. Len(t) \in Nat \ {0}
        BY <4>1
      <4>4. t[Len(t)] = pushes[Len(pushes)]
        BY <3>2, <4>2, <4>3
      <4> QED BY <4>4 DEF t
    <3>5. Tail(pushes) = <<>> => Head(pushes) = pushes[Len(pushes)]
      BY <3>2
    <3> QED BY <2>1, <3>1, <3>3, <3>4, <3>5
  <2>3. pending' \in {Unset, wanted}
    BY <1>1, <2>1 DEF Agree
  <2>4. debounced = Unset => pushes[Len(pushes)] = SerializeFilters(wanted)
    BY <2>1 DEF SelectionInv
  <2>5. ASSUME debounced = Unset, pushes' = <<>>
        PROVE  pending' = Unset /\ DeserializeFilters(url') = wanted
    <3>1. DeserializeFilters(Head(pushes)) = wanted
      BY <1>1, <2>2, <2>4, <2>5, RoundTrip
    <3> QED BY <1>1, <2>1, <3>1 DEF Agree
  <2> QED BY <1>1, <2>1, <2>2, <2>3, <2>4, <2>5 DEF SelectionInv, SelectionReachesUrl
<1>4. CASE GoBack
  <2> DEFINE p == Last(trail)
  <2>1. /\ trail # <<>> /\ pushes = <<>> /\ url' = p /\ trail' = Front(trail)
        /\ pending' = IF pending = Unset THEN Unset ELSE Agree(pending, p)
        /\ wanted' = IF debounced = Unset THEN DeserializeFilters(p) ELSE wanted
        /\ UNCHANGED <<debounced, pushes, entries, added>>
    BY <1>4 DEF GoBack, drawerVars
  <2>2. p \in Params /\ trail' \in Seq(Params)
    BY <1>1, <2>1 DEF Last, Front
  <2>3. DeserializeFilters(p) \in Selections
    BY <2>2, ReadFromUrl
  <2> HIDE DEF p
  <2>4. CASE debounced = Unset
    <3>1. pending = Unset
      BY <2>1, <2>4 DEF SelectionInv, SelectionReachesUrl
    <3> QED BY <1>1, <2>1, <2>2, <2>3, <2>4, <3>1 DEF SelectionInv, SelectionReachesUrl
  <2>5. CASE debounced # Unset
    <3>1. pending' \in {Unset, wanted}
      BY <1>1, <2>1 DEF Agree
    <3> QED BY <1>1, <2>1, <2>2, <2>5, <3>1 DEF SelectionInv, SelectionReachesUrl
  <2> QED BY <2>4, <2>5
<1> QED BY <1>2, <1>3, <1>4

LEMMA SelectionStays == SelectionInv /\ [ReceiptsNext]_receiptsVars => SelectionInv'
<1> SUFFICES ASSUME SelectionInv, [ReceiptsNext]_receiptsVars PROVE SelectionInv'
  OBVIOUS
<1>1. ASSUME entries' \in Seq([id : Nat, status : Values, asset : Values]), added' \in Nat,
             UNCHANGED filterVars
      PROVE  SelectionInv'
  BY <1>1 DEF SelectionInv, SelectionReachesUrl, filterVars
<1>2. ASSUME NEW s \in Values, NEW a \in Values, AddEntry(s, a) PROVE SelectionInv'
  <2> DEFINE E   == [id : Nat, status : Values, asset : Values]
             new == [id |-> added + 1, status |-> s, asset |-> a]
             all == <<new>> \o entries
             k   == IF Len(all) < MaxEntries THEN Len(all) ELSE MaxEntries
  <2>1. entries' = SubSeq(all, 1, k) /\ added' = added + 1 /\ UNCHANGED filterVars
    BY <1>2 DEF AddEntry
  <2>2. new \in E /\ MaxEntries \in Nat /\ added + 1 \in Nat
    BY ReceiptsAssumption DEF SelectionInv
  <2>3. entries \in Seq(E)
    BY DEF SelectionInv
  <2> HIDE DEF new, E
  <2>4. all \in Seq(E) /\ Len(all) \in Nat
    BY <2>2, <2>3
  <2> HIDE DEF all
  <2>5. k \in 0 .. Len(all)
    BY <2>2, <2>4
  <2> HIDE DEF k
  <2>6. SubSeq(all, 1, k) \in Seq(E)
    BY <2>4, <2>5
  <2> QED BY <1>1, <2>1, <2>2, <2>6 DEF E
<1>3. ASSUME NEW key \in BOOLEAN, ClearEntries(key) PROVE SelectionInv'
  BY <1>1, <1>3 DEF ClearEntries, SelectionInv
<1>4. CASE ClearingEnds \/ OpenDrawer \/ CloseDrawer \/ SkeletonEnds \/ UNCHANGED receiptsVars
  BY <1>1, <1>4 DEF ClearingEnds, OpenDrawer, CloseDrawer, SkeletonEnds, receiptsVars,
                    drawerVars, SelectionInv
<1> QED BY <1>2, <1>3, <1>4, FiltersStay, UrlStays DEF ReceiptsNext

(* When the timer and the router are done, the URL and the drawer show the *)
(* user's last selection (useTransactionFilters.ts:329-388).               *)
THEOREM SelectionsArrive == ReceiptsSpec => []SelectionReachesUrl
<1>1. SelectionInv => SelectionReachesUrl
  BY DEF SelectionInv
<1> QED BY <1>1, SelectionStarts, SelectionStays, PTL DEF ReceiptsSpec

(***************************************************************************)
(* Shapes.  Every part's state keeps its shape, for any bounds, clients,   *)
(* accounts and lists.  A part whose type invariant is not inductive as it *)
(* stands gets what it lacks beside it.                                    *)
(***************************************************************************)
LEMMA FormShapeStarts == FormInit => DepositFormTypeOK
BY DEF FormInit, DepositFormTypeOK, NoFee

LEMMA FormShapeChanges ==
  ASSUME DepositFormTypeOK, NEW o \in BOOLEAN, NEW w \in FormWallets \cup {0},
         NEW a \in Amounts \cup {0}, FormBecomes(o, w, a),
         riskTyped' \in BOOLEAN, riskWarned' \in Amounts \cup {0}
  PROVE  DepositFormTypeOK'
<1>1. formOpen' = o /\ formWallet' = w /\ amount' = a /\ formAdmin' = formAdmin
  BY DEF FormBecomes
<1>2. /\ balance' \in FormWallets \cup {0} /\ balanceReads' \subseteq FormWallets
      /\ balanceLoading' \in BOOLEAN
  BY DEF FormBecomes, BalanceEffect, DepositFormTypeOK
<1>3. feeLoading' \in BOOLEAN
  BY DEF FormBecomes, FeeEffect, DepositFormTypeOK
<1>4. estimate' \in Amounts \cup {0} /\ priceReads' \subseteq Amounts
  BY DEF FormBecomes, EstimateEffect, DepositFormTypeOK
<1> QED BY <1>1, <1>2, <1>3, <1>4 DEF DepositFormTypeOK

LEMMA FormShapeStays == DepositFormTypeOK /\ [FormNext]_formVars => DepositFormTypeOK'
<1> SUFFICES ASSUME DepositFormTypeOK, [FormNext]_formVars PROVE DepositFormTypeOK'
  OBVIOUS
<1>0. /\ formOpen \in BOOLEAN /\ riskTyped \in BOOLEAN /\ riskWarned \in Amounts \cup {0}
      /\ formWallet \in FormWallets \cup {0} /\ amount \in Amounts \cup {0}
  BY DEF DepositFormTypeOK
<1>1. ASSUME NEW a \in Amounts, OpenForm(a) PROVE DepositFormTypeOK'
  BY <1>0, <1>1, FormShapeChanges DEF OpenForm, WarnEffect
<1>2. ASSUME NEW a \in Amounts, SetAmount(a) PROVE DepositFormTypeOK'
  BY <1>0, <1>2, FormShapeChanges DEF SetAmount, WarnEffect
<1>3. CASE CloseForm
  BY <1>0, <1>3, FormShapeChanges DEF CloseForm, confirmations
<1>4. ASSUME NEW w \in FormWallets \cup {0}, WalletChanges(w) PROVE DepositFormTypeOK'
  BY <1>0, <1>4, FormShapeChanges DEF WalletChanges, confirmations
<1>5. CASE \E l \in BridgeLimits \cup {0} : LimitKnown(l)
  BY <1>5 DEF LimitKnown, DepositFormTypeOK, formFields, formReads, confirmations
<1>6. CASE TypeRisk \/ CancelTwoFactor \/ HandleAction
           \/ \E t \in {"none", "short", "full"} : TypeTwoFactor(t)
  BY <1>6 DEF TypeRisk, CancelTwoFactor, HandleAction, TypeTwoFactor, DepositFormTypeOK,
              formFields, formReads
<1>7. ASSUME NEW w \in balanceReads, NEW ok \in BOOLEAN, BalanceKnown(w, ok)
      PROVE DepositFormTypeOK'
  BY <1>7 DEF BalanceKnown, DepositFormTypeOK, formFields, confirmations
<1>8. ASSUME NEW s \in simulations, NEW ok \in BOOLEAN, Simulated(s, ok)
      PROVE DepositFormTypeOK'
  BY <1>8 DEF Simulated, DepositFormTypeOK, formFields, confirmations
<1>9. ASSUME NEW a \in priceReads, NEW ok \in BOOLEAN, Estimated(a, ok)
      PROVE DepositFormTypeOK'
  BY <1>9 DEF Estimated, DepositFormTypeOK, formFields, confirmations
<1>10. CASE UNCHANGED formVars
  BY <1>10 DEF formVars, DepositFormTypeOK, formFields, formReads, confirmations
<1> QED BY <1>1, <1>2, <1>3, <1>4, <1>5, <1>6, <1>7, <1>8, <1>9, <1>10 DEF FormNext

-----------------------------------------------------------------------------
PricesShape ==
  /\ PricesTypeOK
  /\ priceCache \in [Keys -> [price : Prices, stored : 0 .. priceNow]]
  /\ inflight \in [Keys -> SUBSET (1 .. MaxAsks)]
  /\ lockedQuote.expires \in Nat

LEMMA PricesShapeStarts == PricesInit => PricesShape
<1> SUFFICES ASSUME PricesInit PROVE PricesShape
  OBVIOUS
<1>1. NoEntry \in [price : Prices, stored : 0 .. 1]
  BY DEF NoEntry, NoPrice, Prices
<1> QED BY <1>1, PriceQuotesAssumption DEF PricesInit, PricesShape, PricesTypeOK, NoLock

LEMMA PricesShapeStays == PricesShape /\ [PricesNext]_priceVars => PricesShape'
<1> SUFFICES ASSUME PricesShape, [PricesNext]_priceVars PROVE PricesShape'
  OBVIOUS
<1> USE PriceQuotesAssumption
<1>0. priceNow \in 1 .. MaxPriceNow /\ asks \in 0 .. MaxAsks /\ MaxPriceNow \in Nat
  BY DEF PricesShape, PricesTypeOK
<1>1. ASSUME NEW k \in Keys, GetTokenPrice(k) PROVE PricesShape'
  <2>1. inflight' \in [Keys -> SUBSET (1 .. MaxAsks)]
    BY <1>0, <1>1 DEF GetTokenPrice, PricesShape
  <2> QED BY <1>0, <1>1, <2>1 DEF GetTokenPrice, PricesShape, PricesTypeOK
<1>2. ASSUME NEW k \in Keys, NEW up \in BOOLEAN, Fetched(k, up) PROVE PricesShape'
  <2>1. FetchCryptoPrices(up) \in Prices
    BY <1>0 DEF FetchCryptoPrices, Market, Table, Prices
  <2>2. priceCache' \in [Keys -> [price : Prices, stored : 0 .. priceNow]]
    BY <1>0, <1>2, <2>1 DEF Fetched, PricesShape
  <2>3. inflight' \in [Keys -> SUBSET (1 .. MaxAsks)]
    BY <1>2 DEF Fetched, PricesShape
  <2>4. UNCHANGED <<priceNow, asks, lockedQuote>>
    BY <1>2 DEF Fetched
  <2> QED BY <1>0, <2>2, <2>3, <2>4 DEF PricesShape, PricesTypeOK
<1>3. ASSUME NEW a \in answeredAsks, FetchLockedQuote(a) PROVE PricesShape'
  BY <1>0, <1>3 DEF FetchLockedQuote, PricesShape, PricesTypeOK
<1>4. CASE PriceTimePasses
  <2>1. /\ priceNow' = priceNow + 1 /\ priceNow' \in 1 .. MaxPriceNow
        /\ UNCHANGED <<priceCache, inflight, asks, lockedQuote>>
    BY <1>0, <1>4 DEF PriceTimePasses
  <2>2. priceCache' \in [Keys -> [price : Prices, stored : 0 .. priceNow']]
    BY <1>0, <2>1 DEF PricesShape
  <2> QED BY <1>0, <2>1, <2>2 DEF PricesShape, PricesTypeOK
<1>5. CASE UNCHANGED priceVars
  BY <1>5 DEF priceVars, PricesShape, PricesTypeOK
<1> QED BY <1>1, <1>2, <1>3, <1>4, <1>5 DEF PricesNext

-----------------------------------------------------------------------------
(* Every retry timer stands for a fetch that failed.                       *)
MarketShape ==
  /\ MarketTypeOK
  /\ tickFetches + retryTimers <= ticks
  /\ knownTimer => retryTimers > 0

LEMMA MarketShapeStarts == MarketInit => MarketShape
<1> SUFFICES ASSUME MarketInit PROVE MarketShape
  OBVIOUS
<1>1. /\ ticks = 1 /\ tickFetches = 1 /\ retryTimers = 0 /\ converts = 1 /\ currency = 1
      /\ ~knownTimer
  BY DEF MarketInit
<1>2. {knownTimer, tickError, tickData, tickStale, tickerMounted, converting, convError}
         \subseteq BOOLEAN
  BY DEF MarketInit
<1>3. /\ rateFetches \subseteq [id : 1 .. converts, currency : Currencies]
      /\ rateCache \in [Currencies -> {NoRate, "market", "fallback"}]
      /\ fiatShown.currency \in Currencies \cup {0}
  BY <1>1, MarketAssumption DEF MarketInit, Nothing, NoRate
<1> QED BY <1>1, <1>2, <1>3, MarketAssumption DEF MarketShape, MarketTypeOK

LEMMA MarketShapeStays == MarketShape /\ [MarketNext]_marketVars => MarketShape'
<1> SUFFICES ASSUME MarketShape, [MarketNext]_marketVars PROVE MarketShape'
  OBVIOUS
<1>m. MaxTicks \in Nat /\ MaxConverts \in Nat
  BY MarketAssumption
<1>0. /\ ticks \in Nat /\ tickFetches \in Nat /\ retryTimers \in Nat /\ converts \in Nat
      /\ knownTimer \in BOOLEAN
  BY DEF MarketShape, MarketTypeOK
<1> DEFINE Rates == /\ converting \in BOOLEAN /\ convError \in BOOLEAN
                    /\ currency \in Currencies /\ converts \in 1 .. MaxConverts
                    /\ rateFetches \subseteq [id : 1 .. converts, currency : Currencies]
                    /\ rateCache \in [Currencies -> {NoRate, "market", "fallback"}]
                    /\ fiatShown.currency \in Currencies \cup {0}
           Ticks == /\ ticks \in 1 .. MaxTicks /\ tickFetches \in 0 .. ticks
                    /\ retryTimers \in 0 .. ticks
                    /\ knownTimer \in BOOLEAN /\ tickError \in BOOLEAN /\ tickData \in BOOLEAN
                    /\ tickStale \in BOOLEAN /\ tickerMounted \in BOOLEAN
                    /\ tickFetches + retryTimers <= ticks
                    /\ knownTimer => retryTimers > 0
<1>a. /\ ticks \in 1 .. MaxTicks /\ MaxTicks \in Nat
      /\ tickFetches + retryTimers <= ticks
  BY <1>m DEF MarketShape, MarketTypeOK
<1>1. MarketShape <=> Rates /\ Ticks
  BY DEF MarketShape, MarketTypeOK
<1>2. (Rates /\ Ticks)' => MarketShape'
  BY DEF MarketShape, MarketTypeOK
<1>3. UNCHANGED rateVars => Rates'
  BY <1>1 DEF rateVars
<1>4. UNCHANGED tickerVars => Ticks'
  BY <1>1 DEF tickerVars
<1>5. CASE RefreshPrices \/ RetryFires \/ LostTimerFires
  <2>1. /\ tickerMounted /\ ticks < MaxTicks /\ ticks' = ticks + 1
        /\ tickFetches' = tickFetches + 1 /\ knownTimer' = FALSE /\ tickError' = FALSE
        /\ UNCHANGED <<tickData, tickStale, tickerMounted, rateVars>>
    BY <1>5 DEF RefreshPrices, RetryFires, LostTimerFires, FetchPrices
  <2>2. PICK left \in 0 .. retryTimers : retryTimers' = left
    BY <1>0, <1>1, <1>5 DEF RefreshPrices, RetryFires, LostTimerFires
  <2>a. /\ knownTimer' \in BOOLEAN /\ tickError' \in BOOLEAN /\ tickData' \in BOOLEAN
        /\ tickStale' \in BOOLEAN /\ tickerMounted' \in BOOLEAN
    BY <1>1, <2>1
  <2>b. /\ ticks' \in 1 .. MaxTicks /\ tickFetches' \in 0 .. ticks'
        /\ retryTimers' \in 0 .. ticks' /\ tickFetches' + retryTimers' <= ticks'
    <3>1. /\ ticks + 1 \in 1 .. MaxTicks /\ tickFetches + 1 \in 0 .. ticks + 1
          /\ left \in 0 .. ticks + 1 /\ tickFetches + 1 + left <= ticks + 1
      BY <1>0, <1>a, <2>1
    <3>2. tickFetches' = tickFetches + 1 /\ ticks' = ticks + 1
      BY <2>1
    <3> QED BY <2>2, <3>1, <3>2
  <2>3. Ticks'
    BY <2>1, <2>a, <2>b, Zenon
  <2> QED BY <1>2, <1>3, <2>1, <2>3
<1>6. CASE TickerAnswers \/ TickerFails \/ TickerUnmounts
  <2>0. ticks' = ticks /\ ticks \in 1 .. MaxTicks
    BY <1>1, <1>6 DEF TickerAnswers, TickerFails, TickerUnmounts
  <2>a. /\ knownTimer' \in BOOLEAN /\ tickError' \in BOOLEAN /\ tickData' \in BOOLEAN
        /\ tickStale' \in BOOLEAN /\ tickerMounted' \in BOOLEAN
    BY <1>1, <1>6 DEF TickerAnswers, TickerFails, TickerUnmounts
  <2>b. \E f, r \in 0 .. ticks : tickFetches' = f /\ retryTimers' = r /\ f + r <= ticks
    <3>1. CASE TickerAnswers
      BY <1>0, <1>a, <3>1 DEF TickerAnswers
    <3>2. CASE TickerFails
      BY <1>0, <1>a, <3>2 DEF TickerFails
    <3>3. CASE TickerUnmounts
      BY <1>0, <1>a, <1>1, <3>3 DEF TickerUnmounts
    <3> QED BY <1>6, <3>1, <3>2, <3>3
  <2>d. knownTimer' => retryTimers' > 0
    <3>1. CASE knownTimer' = knownTimer /\ retryTimers' = retryTimers
      BY <1>1, <3>1
    <3>2. CASE ~knownTimer'
      BY <3>2
    <3>3. CASE retryTimers' = retryTimers + 1
      BY <1>0, <3>3
    <3> QED BY <1>6, <3>1, <3>2, <3>3 DEF TickerAnswers, TickerFails, TickerUnmounts
  <2>c. /\ ticks' \in 1 .. MaxTicks /\ tickFetches' \in 0 .. ticks'
        /\ retryTimers' \in 0 .. ticks' /\ tickFetches' + retryTimers' <= ticks'
    BY <2>0, <2>b
  <2>1. Ticks'
    BY <2>a, <2>c, <2>d, Zenon
  <2>2. UNCHANGED rateVars
    BY <1>6 DEF TickerAnswers, TickerFails, TickerUnmounts
  <2> QED BY <1>2, <1>3, <2>1, <2>2
<1>7. ASSUME NEW c \in Currencies, NEW force \in BOOLEAN, Convert(c, force),
             currency' \in Currencies, UNCHANGED <<rateCache, tickerVars>>
      PROVE  MarketShape'
  <2>1. converts' = converts + 1 /\ converts' \in 1 .. MaxConverts /\ convError' = FALSE
    <3>1. converts \in 1 .. MaxConverts /\ converts < MaxConverts
      BY <1>1, <1>7 DEF Convert
    <3> QED BY <1>m, <1>7, <3>1 DEF Convert
  <2>2. /\ rateFetches' \subseteq [id : 1 .. converts', currency : Currencies]
        /\ converting' \in BOOLEAN /\ fiatShown'.currency \in Currencies \cup {0}
    <3>1. rateFetches \subseteq [id : 1 .. converts', currency : Currencies]
      BY <1>0, <1>1, <2>1
    <3>2. [id |-> converts + 1, currency |-> c] \in [id : 1 .. converts', currency : Currencies]
      BY <1>0, <2>1
    <3>3. rateFetches' \subseteq rateFetches \cup {[id |-> converts + 1, currency |-> c]}
      BY <1>7 DEF Convert
    <3>4. converting' \in BOOLEAN /\ fiatShown'.currency \in Currencies \cup {0}
      <4>1. CASE ~force /\ rateCache[c] # NoRate
        <5>1. converting' = FALSE /\ fiatShown' = [currency |-> c, source |-> rateCache[c]]
          BY <1>7, <4>1 DEF Convert
        <5> QED BY <5>1
      <4>2. CASE ~(~force /\ rateCache[c] # NoRate)
        BY <1>1, <1>7, <4>2 DEF Convert
      <4> QED BY <4>1, <4>2
    <3> QED BY <3>1, <3>2, <3>3, <3>4
  <2> QED BY <1>1, <1>2, <1>4, <1>7, <2>1, <2>2
<1>8. CASE ForceRefresh \/ \E c \in Currencies : ChooseCurrency(c)
  BY <1>1, <1>7, <1>8 DEF ForceRefresh, ChooseCurrency
<1>9. ASSUME NEW f \in rateFetches, NEW source \in {"market", "fallback"}, RateArrives(f, source)
      PROVE MarketShape'
  BY <1>1, <1>2, <1>4, <1>9 DEF RateArrives
<1>10. ASSUME NEW f \in rateFetches, RateMissing(f) PROVE MarketShape'
  BY <1>1, <1>2, <1>4, <1>10 DEF RateMissing, Nothing
<1>11. ASSUME NEW c \in Currencies, RateExpires(c) PROVE MarketShape'
  BY <1>1, <1>2, <1>4, <1>11 DEF RateExpires
<1>12. CASE UNCHANGED marketVars
  BY <1>1, <1>2, <1>3, <1>4, <1>12 DEF marketVars
<1> QED BY <1>5, <1>6, <1>8, <1>9, <1>10, <1>11, <1>12
  DEF MarketNext, TickerNext, RateNext

-----------------------------------------------------------------------------
StatsShape ==
  /\ StatsTypeOK /\ fetchId \in Nat
  /\ shownStats \in [id : 0 .. fetchId, version : 0 .. version]

LEMMA StatsShapeStarts == StatsInit => StatsShape
<1> SUFFICES ASSUME StatsInit PROVE StatsShape
  OBVIOUS
<1>1. {statsLoading, statsError, statsMounted} \subseteq BOOLEAN
  BY DEF StatsInit
<1>2. View(1, 0, FALSE) \in [id : 1 .. 1, read : 0 .. 1, hit : BOOLEAN]
  BY DEF View
<1>3. version = 0 /\ viewCache = 0 /\ fetchId = 1 /\ views = {View(1, 0, FALSE)}
      /\ shownStats = [id |-> 0, version |-> 0]
  BY DEF StatsInit
<1>4. views \subseteq [id : 1 .. fetchId, read : 0 .. version + 1, hit : BOOLEAN]
  <2>1. 1 .. fetchId = 1 .. 1 /\ 0 .. version + 1 = 0 .. 1
    BY <1>3
  <2> QED BY <1>2, <1>3, <2>1
<1>5. version \in 0 .. MaxVersions /\ viewCache \in 0 .. version + 1
  BY <1>3, StatsAssumption
<1>6. shownStats \in [id : 0 .. fetchId, version : 0 .. version]
  BY <1>3
<1> QED BY <1>1, <1>3, <1>4, <1>5, <1>6 DEF StatsShape, StatsTypeOK

LEMMA StatsShapeStays == StatsShape /\ [StatsNext]_statsVars => StatsShape'
<1> SUFFICES ASSUME StatsShape, [StatsNext]_statsVars PROVE StatsShape'
  OBVIOUS
<1> USE StatsAssumption
<1>0. version \in Nat /\ fetchId \in Nat /\ viewCache \in Nat
  BY DEF StatsShape, StatsTypeOK
<1>1. ASSUME NEW cached \in 0 .. version + 1, RunFetch(cached),
             viewCache' \in {0, viewCache}, UNCHANGED <<version, shownStats, statsMounted>>
      PROVE  StatsShape'
  <2>1. fetchId' = fetchId + 1 /\ statsLoading' = TRUE /\ statsError' = FALSE
    BY <1>1 DEF RunFetch
  <2>2. views' \subseteq [id : 1 .. fetchId', read : 0 .. version + 1, hit : BOOLEAN]
    <3>1. views \subseteq [id : 1 .. fetchId', read : 0 .. version + 1, hit : BOOLEAN]
      BY <1>0, <2>1 DEF StatsShape, StatsTypeOK
    <3>2. View(fetchId + 1, cached, cached > 0) \in
             [id : 1 .. fetchId', read : 0 .. version + 1, hit : BOOLEAN]
      BY <1>0, <2>1 DEF View
    <3> QED BY <1>1, <3>1, <3>2 DEF RunFetch
  <2>3. shownStats' \in [id : 0 .. fetchId', version : 0 .. version']
    BY <1>0, <1>1, <2>1 DEF StatsShape
  <2>4. {statsLoading', statsError', statsMounted'} \subseteq BOOLEAN
    BY <1>1, <2>1 DEF StatsShape, StatsTypeOK
  <2>5. version' \in 0 .. MaxVersions /\ viewCache' \in 0 .. version' + 1
    BY <1>0, <1>1 DEF StatsShape, StatsTypeOK
  <2>6. shownStats'.id \in 0 .. fetchId' /\ shownStats'.version \in 0 .. version'
    BY <2>3
  <2>7. version' = version /\ fetchId' \in Nat
    BY <1>0, <1>1, <2>1
  <2> QED BY <2>2, <2>3, <2>4, <2>5, <2>6, <2>7 DEF StatsShape, StatsTypeOK
<1>2. CASE Refetch \/ RefreshStats
  <2>1. viewCache \in 0 .. version + 1 /\ 0 \in 0 .. version + 1
    BY <1>0 DEF StatsShape, StatsTypeOK
  <2> QED BY <1>1, <1>2, <2>1 DEF Refetch, RefreshStats
<1>3. ASSUME NEW v \in views, Simulates(v) PROVE StatsShape'
  <2>1. View(v.id, version + 1, FALSE) \in [id : 1 .. fetchId, read : 0 .. version + 1, hit : BOOLEAN]
    BY <1>0 DEF View, StatsShape, StatsTypeOK
  <2> QED BY <1>0, <1>3, <2>1 DEF Simulates, StatsShape, StatsTypeOK, face
<1>4. ASSUME NEW v \in views, StatsAnswer(v) PROVE StatsShape'
  <2>1. v.id \in 1 .. fetchId /\ v.read \in 0 .. version + 1
    BY DEF StatsShape, StatsTypeOK
  <2>2. shownStats' \in [id : 0 .. fetchId, version : 0 .. version]
    BY <1>0, <1>4, <2>1 DEF StatsAnswer, StatsShape, face
  <2>3. viewCache' \in 0 .. version + 1 /\ views' \subseteq views
        /\ statsLoading' \in BOOLEAN /\ statsError' = statsError
        /\ UNCHANGED <<version, fetchId, statsMounted>>
    BY <1>0, <1>4, <2>1 DEF StatsAnswer, StatsShape, StatsTypeOK, face
  <2> QED BY <2>2, <2>3 DEF StatsShape, StatsTypeOK
<1>5. ASSUME NEW v \in views, StatsFail(v) PROVE StatsShape'
  BY <1>5 DEF StatsFail, StatsShape, StatsTypeOK
<1>6. CASE CacheExpires \/ StatsUnmount
  <2>1. viewCache' \in 0 .. version + 1 /\ UNCHANGED <<version, views, fetchId, face>>
    BY <1>0, <1>6 DEF CacheExpires, StatsUnmount, StatsShape, StatsTypeOK
  <2>2. {statsLoading', statsError', statsMounted'} \subseteq BOOLEAN
    BY <1>6 DEF CacheExpires, StatsUnmount, StatsShape, StatsTypeOK, face
  <2> QED BY <2>1, <2>2 DEF StatsShape, StatsTypeOK, face
<1>7. CASE ContractMoves
  <2>1. version' = version + 1 /\ version' \in 0 .. MaxVersions
        /\ UNCHANGED <<viewCache, views, fetchId, face, statsMounted>>
    BY <1>0, <1>7 DEF ContractMoves
  <2>2. views' \subseteq [id : 1 .. fetchId', read : 0 .. version' + 1, hit : BOOLEAN]
    BY <1>0, <2>1 DEF StatsShape, StatsTypeOK
  <2>3. shownStats' \in [id : 0 .. fetchId', version : 0 .. version']
    BY <1>0, <2>1 DEF StatsShape, face
  <2> QED BY <1>0, <2>1, <2>2, <2>3 DEF StatsShape, StatsTypeOK, face
<1>8. CASE UNCHANGED statsVars
  BY <1>8 DEF statsVars, StatsShape, StatsTypeOK
<1> QED BY <1>2, <1>3, <1>4, <1>5, <1>6, <1>7, <1>8 DEF StatsNext

-----------------------------------------------------------------------------
(* A window counts requests of the log, whose ids are its numbers.         *)
ServerShape ==
  /\ ServerTypeOK
  /\ IsFiniteSet(log) /\ Cardinality(log) <= MaxCalls
  /\ \A e \in log : e.id <= Cardinality(log)
  /\ \A k \in Ips \X ApiRoutes : windows[k].count <= Cardinality(log)

LEMMA ServerShapeStarts == ServerInit => ServerShape
<1> SUFFICES ASSUME ServerInit PROVE ServerShape
  OBVIOUS
<1>1. /\ clock = 0 /\ windows = [k \in Ips \X ApiRoutes |-> NoWindow]
      /\ handling = {} /\ activeSpans = {} /\ log = {}
  BY DEF ServerInit
<1>2. Cardinality(log) = 0 /\ IsFiniteSet(log)
  BY <1>1, FS_EmptySet
<1>3. MaxCalls \in Nat /\ MaxClock \in Nat
  BY ServerAssumption
<1>4. windows \in [Ips \X ApiRoutes -> [count : 0 .. MaxCalls, windowStart : 0 .. MaxClock]]
  BY <1>1, <1>3 DEF NoWindow
<1> QED BY <1>1, <1>2, <1>3, <1>4 DEF ServerShape, ServerTypeOK, NoWindow

LEMMA ServerShapeStays == ServerShape /\ [ServerNext]_serverVars => ServerShape'
<1> SUFFICES ASSUME ServerShape, [ServerNext]_serverVars PROVE ServerShape'
  OBVIOUS
<1>0. /\ MaxCalls \in Nat /\ MaxClock \in Nat /\ clock \in 0 .. MaxClock
      /\ Cardinality(log) \in Nat /\ IsFiniteSet(log)
  BY ServerAssumption, FS_CardinalityType DEF ServerShape, ServerTypeOK
<1>1. ASSUME NEW ip \in Ips, NEW route \in ApiRoutes, Arrive(ip, route) PROVE ServerShape'
  <2> DEFINE id == Cardinality(log) + 1
             w == ApplyRateLimit(windows[<<ip, route>>])
             ok == w.count <= RouteLimit[route]
             e == [id |-> id, ip |-> ip, route |-> route, at |-> clock, ok |-> ok]
  <2>1. id <= MaxCalls
    BY <1>1 DEF Arrive
  <2>2. windows' = [windows EXCEPT ![<<ip, route>>] = w] /\ log' = log \cup {e} /\ clock' = clock
    BY <1>1 DEF Arrive
  <2>3. ok => /\ handling' = handling \cup {[id |-> id, route |-> route]}
              /\ activeSpans' \subseteq activeSpans \cup {id}
    BY <1>1 DEF Arrive
  <2>4. ~ok => UNCHANGED <<handling, activeSpans>>
    BY <1>1 DEF Arrive
  <2>5. w \in [count : 0 .. MaxCalls, windowStart : 0 .. MaxClock] /\ w.count <= id
    <3> DEFINE v == windows[<<ip, route>>]
    <3>1. v \in [count : 0 .. MaxCalls, windowStart : 0 .. MaxClock] /\ v.count <= Cardinality(log)
      BY DEF ServerShape, ServerTypeOK
    <3>2. w \in {[count |-> 1, windowStart |-> clock], [v EXCEPT !.count = v.count + 1]}
      BY DEF ApplyRateLimit
    <3> HIDE DEF v, w
    <3> QED BY <1>0, <2>1, <3>1, <3>2
  <2>6. ok \in BOOLEAN
    OBVIOUS
  <2> HIDE DEF w, ok
  <2>7. e \in [id : 1 .. MaxCalls, ip : Ips, route : ApiRoutes, at : 0 .. MaxClock, ok : BOOLEAN]
    BY <1>0, <2>1, <2>6
  <2>8. e \notin log
    <3>1. e.id = id /\ ~(id <= Cardinality(log))
      BY <1>0
    <3> HIDE DEF e
    <3> QED BY <3>1 DEF ServerShape
  <2>9. Cardinality(log') = id /\ IsFiniteSet(log')
    <3> HIDE DEF e
    <3> QED BY <1>0, <2>2, <2>8, FS_AddElement
  <2>10. windows' \in [Ips \X ApiRoutes -> [count : 0 .. MaxCalls, windowStart : 0 .. MaxClock]]
    BY <2>2, <2>5 DEF ServerShape, ServerTypeOK
  <2>11. \A k \in Ips \X ApiRoutes : windows'[k].count <= Cardinality(log')
    <3> TAKE k \in Ips \X ApiRoutes
    <3>1. windows[k].count \in Nat /\ windows[k].count <= Cardinality(log)
      BY <1>0 DEF ServerShape, ServerTypeOK
    <3>2. windows \in [Ips \X ApiRoutes -> [count : 0 .. MaxCalls, windowStart : 0 .. MaxClock]]
      BY DEF ServerShape, ServerTypeOK
    <3>3. windows'[k].count <= id
      BY <1>0, <2>2, <2>5, <3>1, <3>2
    <3> QED BY <2>9, <3>3
  <2>12. \A f \in log' : f.id <= Cardinality(log')
    <3> TAKE f \in log'
    <3>1. CASE f \in log
      <4>1. f.id \in Nat /\ f.id <= Cardinality(log)
        BY <1>0, <3>1 DEF ServerShape, ServerTypeOK
      <4> QED BY <1>0, <2>9, <4>1
    <3>2. CASE f = e
      BY <1>0, <2>9, <3>2
    <3> QED BY <2>2, <3>1, <3>2
  <2>13. log' \subseteq [id : 1 .. MaxCalls, ip : Ips, route : ApiRoutes, at : 0 .. MaxClock,
                         ok : BOOLEAN]
    <3> HIDE DEF e
    <3> QED BY <2>2, <2>7 DEF ServerShape, ServerTypeOK
  <2>14. \A c \in handling' : \E f \in log' : f.id = c.id /\ f.ok
    <3>1. ASSUME ok PROVE \E f \in log' : f.id = id /\ f.ok
      <4>1. e \in log' /\ e.id = id /\ e.ok
        BY <2>2, <3>1
      <4> QED BY <4>1
    <3>2. \A c \in handling : \E f \in log' : f.id = c.id /\ f.ok
      BY <2>2 DEF ServerShape, ServerTypeOK
    <3> QED BY <2>3, <2>4, <3>1, <3>2
  <2>15. activeSpans' \subseteq 1 .. MaxCalls
    <3>1. id \in 1 .. MaxCalls
      BY <1>0, <2>1
    <3> HIDE DEF id
    <3> QED BY <2>3, <2>4, <3>1 DEF ServerShape, ServerTypeOK
  <2>16. clock' \in 0 .. MaxClock /\ Cardinality(log') <= MaxCalls
    BY <1>0, <2>1, <2>2, <2>9
  <2> QED BY <2>9, <2>10, <2>11, <2>12, <2>13, <2>14, <2>15, <2>16 DEF ServerShape, ServerTypeOK
<1>2. ASSUME NEW c \in handling, Serves(c) PROVE ServerShape'
  <2>1. handling' \subseteq handling /\ activeSpans' \subseteq activeSpans
        /\ UNCHANGED <<clock, windows, log>>
    BY <1>2 DEF Serves, Returns, Invalid, BanksListed, BanksFallback, AccountVerified, VerifyFails,
                RecipientCreated, RecipientFails, TransferStarted, TransferFails, EventsRead,
                StatusRead
  <2> QED BY <2>1 DEF ServerShape, ServerTypeOK
<1>3. CASE ClockTicks
  BY <1>0, <1>3 DEF ClockTicks, ServerShape, ServerTypeOK
<1>4. CASE UNCHANGED serverVars
  BY <1>4 DEF serverVars, ServerShape, ServerTypeOK
<1> QED BY <1>1, <1>2, <1>3, <1>4 DEF ServerNext

-----------------------------------------------------------------------------
(* A request keeps its shape in the table, in the queue and in service.    *)
Fetches == [id : 1 .. MaxFetches, query : Queries, tries : 0 .. MaxRetry]

AuditShape ==
  /\ query \in Queries /\ tableRows \in Queries \cup {0}
  /\ tableLoading \in BOOLEAN /\ fetchFailed \in BOOLEAN
  /\ reads \subseteq Fetches /\ deskQueue \in Seq(Fetches) /\ serving \in Fetches \cup {NoRead}
  /\ latest \in 1 .. MaxFetches /\ pings \in 0 .. 1

LEMMA AuditShapeStarts == AuditInit => AuditShape
<1> SUFFICES ASSUME AuditInit PROVE AuditShape
  OBVIOUS
<1>1. [id |-> 1, query |-> 1, tries |-> 0] \in Fetches
  BY AuditAssumption DEF Fetches
<1>2. tableLoading \in BOOLEAN /\ fetchFailed \in BOOLEAN
  BY DEF AuditInit
<1>3. query \in Queries /\ tableRows \in Queries \cup {0}
      /\ latest \in 1 .. MaxFetches /\ pings \in 0 .. 1
  BY AuditAssumption DEF AuditInit
<1>4. reads \subseteq Fetches /\ deskQueue \in Seq(Fetches) /\ serving = NoRead
  BY <1>1 DEF AuditInit
<1> QED BY <1>2, <1>3, <1>4 DEF AuditShape

LEMMA FetchShape ==
  ASSUME AuditShape, NEW q \in Queries, Fetch(q), query' \in Queries, tableRows' = tableRows,
         pings' \in 0 .. 1
  PROVE  AuditShape'
<1> DEFINE r == [id |-> latest + 1, query |-> q, tries |-> 0]
<1>1. /\ latest \in 1 .. MaxFetches /\ latest < MaxFetches /\ MaxFetches \in Nat /\ MaxRetry \in Nat
      /\ deskQueue \in Seq(Fetches)
  BY AuditAssumption DEF AuditShape, Fetch
<1>2. r \in Fetches
  BY <1>1 DEF Fetches
<1>3. latest' \in 1 .. MaxFetches
  BY <1>1 DEF Fetch
<1>4. /\ tableLoading' = TRUE /\ fetchFailed' = FALSE /\ serving' = serving
      /\ \/ reads' = reads \cup {r} /\ deskQueue' = deskQueue
         \/ deskQueue' = Append(deskQueue, r) /\ reads' = reads
  BY DEF Fetch
<1> HIDE DEF r
<1>5. Append(deskQueue, r) \in Seq(Fetches)
  BY <1>1, <1>2
<1> QED BY <1>2, <1>3, <1>4, <1>5 DEF AuditShape

LEMMA AuditShapeStays == AuditShape /\ [AuditNext]_auditVars => AuditShape'
<1> SUFFICES ASSUME AuditShape, [AuditNext]_auditVars PROVE AuditShape'
  OBVIOUS
<1>1. /\ query \in Queries /\ tableRows \in Queries \cup {0}
      /\ tableLoading \in BOOLEAN /\ fetchFailed \in BOOLEAN
      /\ reads \subseteq Fetches /\ deskQueue \in Seq(Fetches) /\ serving \in Fetches \cup {NoRead}
      /\ latest \in 1 .. MaxFetches /\ pings \in 0 .. 1 /\ MaxRetry \in Nat \ {0}
  BY AuditAssumption DEF AuditShape
<1>2. ASSUME NEW r \in Fetches, NEW n \in 0 .. MaxRetry PROVE [r EXCEPT !.tries = n] \in Fetches
  BY DEF Fetches
<1>3. ASSUME NEW r \in Fetches, Shows(r) \/ Complains(r) \/ Ignores
      PROVE  /\ tableRows' \in Queries \cup {0}
             /\ tableLoading' \in BOOLEAN /\ fetchFailed' \in BOOLEAN
  BY <1>1, <1>3 DEF Shows, Complains, Ignores, Fetches
<1>4. ASSUME NEW q \in Queries, AskPage(q) PROVE AuditShape'
  BY <1>1, <1>4, FetchShape DEF AskPage, watch
<1>5. ASSUME NEW r \in reads, ReadSettles(r) PROVE AuditShape'
  <2>1. r \in Fetches /\ [r EXCEPT !.tries = 1] \in Fetches
    BY <1>1, <1>2
  <2>2. Append(deskQueue, [r EXCEPT !.tries = 1]) \in Seq(Fetches)
    BY <1>1, <2>1
  <2>3. deskQueue' \in Seq(Fetches) /\ serving' \in Fetches \cup {NoRead}
    BY <1>1, <1>5, <2>2, QueueServes DEF ReadSettles
  <2>4. /\ tableRows' \in Queries \cup {0}
        /\ tableLoading' \in BOOLEAN /\ fetchFailed' \in BOOLEAN
    BY <1>3, <1>5, <2>1 DEF ReadSettles
  <2>5. reads' \subseteq reads /\ UNCHANGED <<query, latest, pings>>
    BY <1>5 DEF ReadSettles, watch
  <2> QED BY <1>1, <2>3, <2>4, <2>5 DEF AuditShape
<1>6. CASE ServedSettles
  <2>1. serving \in Fetches /\ serving # NoRead
    BY <1>1, <1>6 DEF ServedSettles
  <2>2. serving.tries < MaxRetry =>
          Append(deskQueue, [serving EXCEPT !.tries = serving.tries + 1]) \in Seq(Fetches)
    <3> SUFFICES ASSUME serving.tries < MaxRetry
                 PROVE  Append(deskQueue, [serving EXCEPT !.tries = serving.tries + 1]) \in Seq(Fetches)
      OBVIOUS
    <3>1. serving.tries + 1 \in 0 .. MaxRetry
      BY <1>1, <2>1 DEF Fetches
    <3>2. [serving EXCEPT !.tries = serving.tries + 1] \in Fetches
      BY <1>2, <2>1, <3>1
    <3> QED BY <1>1, <3>2
  <2>3. deskQueue' \in Seq(Fetches) /\ serving' \in Fetches \cup {NoRead}
    BY <1>1, <1>6, <2>2, QueueServes DEF ServedSettles
  <2>4. /\ tableRows' \in Queries \cup {0}
        /\ tableLoading' \in BOOLEAN /\ fetchFailed' \in BOOLEAN
    BY <1>3, <1>6, <2>1 DEF ServedSettles
  <2>5. UNCHANGED <<reads, query, latest, pings>>
    BY <1>6 DEF ServedSettles, watch
  <2> QED BY <1>1, <2>3, <2>4, <2>5 DEF AuditShape
<1>7. CASE GoesOffline \/ UNCHANGED auditVars
  BY <1>1, <1>7 DEF GoesOffline, auditVars, AuditShape
<1>8. CASE GoesOnline
  <2>1. deskQueue' \in Seq(Fetches) /\ serving' \in Fetches \cup {NoRead}
    BY <1>1, <1>8, QueueServes DEF GoesOnline
  <2> QED BY <1>1, <1>8, <2>1 DEF GoesOnline, AuditShape
<1>9. ASSUME NEW reached \in BOOLEAN, PingAnswers(reached) PROVE AuditShape'
  <2>1. pings' \in 0 .. 1 /\ UNCHANGED <<query, tableRows>>
    BY <1>1, <1>9 DEF PingAnswers
  <2>2. CASE UNCHANGED <<reads, deskQueue, serving, latest, tableLoading, fetchFailed>>
    BY <1>1, <2>1, <2>2 DEF AuditShape
  <2>3. CASE Fetch(query)
    BY <1>1, <2>1, <2>3, FetchShape
  <2> QED BY <1>9, <2>2, <2>3 DEF PingAnswers
<1> QED BY <1>4, <1>5, <1>6, <1>7, <1>8, <1>9 DEF AuditNext

LEMMA AuditHasShape == AuditShape => AuditTypeOK
<1> SUFFICES ASSUME AuditShape PROVE AuditTypeOK
  OBVIOUS
<1>1. Range(deskQueue) \subseteq Fetches
  BY DEF AuditShape, Range
<1>2. \A r \in reads \cup Range(deskQueue) :
         r.id \in 1 .. MaxFetches /\ r.query \in Queries /\ r.tries \in 0 .. MaxRetry
  BY <1>1 DEF AuditShape, Fetches
<1> QED BY <1>2 DEF AuditShape, AuditTypeOK

-----------------------------------------------------------------------------
(* The drawer's entries and filters are shaped by SelectionInv.            *)
DrawerShape ==
  /\ Len(entries) <= MaxEntries /\ added \in 0 .. MaxAdded /\ selects \in 0 .. MaxSelects
  /\ {drawerOpen, skeleton, skeletonTimer, clearing} \subseteq BOOLEAN
  /\ drawerOpen /\ skeleton => skeletonTimer

LEMMA DrawerStarts == ReceiptsInit => DrawerShape
<1> SUFFICES ASSUME ReceiptsInit PROVE DrawerShape
  OBVIOUS
<1>1. {drawerOpen, skeleton, skeletonTimer, clearing} \subseteq BOOLEAN /\ ~drawerOpen
  BY DEF ReceiptsInit
<1>2. Len(entries) = 0 /\ added = 0 /\ selects = 0
  BY DEF ReceiptsInit
<1> QED BY <1>1, <1>2, ReceiptsAssumption DEF DrawerShape

LEMMA DrawerStays ==
  SelectionInv /\ DrawerShape /\ [ReceiptsNext]_receiptsVars => DrawerShape'
<1> SUFFICES ASSUME SelectionInv, DrawerShape, [ReceiptsNext]_receiptsVars PROVE DrawerShape'
  OBVIOUS
<1>0. MaxEntries \in Nat \ {0} /\ MaxAdded \in Nat /\ MaxSelects \in Nat
  BY ReceiptsAssumption
<1>1. ASSUME NEW f, UpdateUrl(f) PROVE DrawerShape'
  BY <1>0, <1>1 DEF UpdateUrl, drawerVars, DrawerShape
<1>2. CASE \/ \E c \in Categories2 : CycleFilterCategory(c) \/ \E v \in Values : ToggleFilter(c, v)
           \/ ClearAllFilters
  BY <1>1, <1>2 DEF CycleFilterCategory, ToggleFilter, ClearAllFilters
<1>3. CASE FlushFilters \/ PushLands \/ GoBack \/ UNCHANGED receiptsVars
  BY <1>3 DEF FlushFilters, PushLands, GoBack, receiptsVars, filterVars, drawerVars, DrawerShape
<1>4. ASSUME NEW s \in Values, NEW a \in Values, AddEntry(s, a) PROVE DrawerShape'
  <2> DEFINE all == <<[id |-> added + 1, status |-> s, asset |-> a]>> \o entries
             n == IF Len(all) < MaxEntries THEN Len(all) ELSE MaxEntries
  <2>1. all \in Seq([id : Nat, status : Values, asset : Values])
    BY DEF SelectionInv
  <2>2. entries' = SubSeq(all, 1, n)
    BY <1>4 DEF AddEntry
  <2> HIDE DEF all
  <2>3. Len(entries') <= MaxEntries
    BY <1>0, <2>1, <2>2
  <2>4. /\ added' \in 0 .. MaxAdded
        /\ UNCHANGED <<drawerOpen, skeleton, skeletonTimer, clearing, selects>>
    BY <1>0, <1>4 DEF AddEntry, filterVars, DrawerShape
  <2> QED BY <2>3, <2>4 DEF DrawerShape
<1>5. ASSUME NEW key \in BOOLEAN, ClearEntries(key) PROVE DrawerShape'
  <2>1. Len(entries') <= MaxEntries
    BY <1>0, <1>5 DEF ClearEntries
  <2> QED BY <1>5, <2>1 DEF ClearEntries, DrawerShape, filterVars
<1>6. CASE ClearingEnds \/ OpenDrawer \/ CloseDrawer \/ SkeletonEnds
  <2>1. UNCHANGED <<entries, added, selects>>
    BY <1>6 DEF ClearingEnds, OpenDrawer, CloseDrawer, SkeletonEnds, filterVars
  <2>2. {drawerOpen', skeleton', skeletonTimer', clearing'} \subseteq BOOLEAN
    BY <1>6 DEF ClearingEnds, OpenDrawer, CloseDrawer, SkeletonEnds, DrawerShape
  <2>3. drawerOpen' /\ skeleton' => skeletonTimer'
    BY <1>6 DEF ClearingEnds, OpenDrawer, CloseDrawer, SkeletonEnds, DrawerShape
  <2> QED BY <2>1, <2>2, <2>3 DEF DrawerShape
<1> QED BY <1>2, <1>3, <1>4, <1>5, <1>6 DEF ReceiptsNext

LEMMA ReceiptsHaveShape == SelectionInv /\ DrawerShape => ReceiptsTypeOK
<1> SUFFICES ASSUME SelectionInv, DrawerShape PROVE ReceiptsTypeOK
  OBVIOUS
<1>1. DOMAIN Unset \subseteq Categories2
  BY DEF Unset
<1>2. DOMAIN wanted \subseteq Categories2 /\ DOMAIN url \subseteq Categories2
  BY DEF SelectionInv, Selections, Params
<1>3. pending \in {Unset, wanted} /\ debounced \in {Unset, wanted}
  BY DEF SelectionInv
<1> QED BY <1>1, <1>2, <1>3 DEF DrawerShape, ReceiptsTypeOK

-----------------------------------------------------------------------------
(* A payout that has its answer has a reference; a record without a status *)
(* is none; the dialog is open for a deposit.                              *)
Payouts ==
  [phase : {"recipient", "transfer", "answer", "confirming"},
   deposit : 0 .. MaxDeposits, ref : Refs \cup {0}]

RecordsHaveStatus == \A r \in Refs : store[r].status = "none" => store[r] = NoRecord

WizardShape ==
  /\ WizardTypeOK
  /\ open => deposit > 0
  /\ quote \in [deposit : 0 .. MaxDeposits, live : BOOLEAN]
  /\ flows \subseteq Payouts
  /\ \A f \in flows : f.phase \in {"answer", "confirming"} => f.ref \in Refs
  /\ RecordsHaveStatus

LEMMA RecordsKeepStatus ==
  TrackerTypeOK /\ RecordsHaveStatus /\ [TrackerNext]_trackerVars => RecordsHaveStatus'
<1> SUFFICES ASSUME TrackerTypeOK, RecordsHaveStatus, [TrackerNext]_trackerVars
             PROVE  RecordsHaveStatus'
  OBVIOUS
<1>0. /\ DOMAIN store = Refs
      /\ \A r \in Refs : store[r].status = "none" => store[r] = NoRecord
      /\ \A h \in hooks : h.event \in Final
  BY DEF TrackerTypeOK, RecordsHaveStatus
<1>1. ASSUME NEW r \in Refs, NEW s, NEW status, status # "none",
             store' = [store EXCEPT ![r] = [status |-> status, session |-> s]]
      PROVE  RecordsHaveStatus'
  <2>1. ASSUME NEW q \in Refs, store'[q].status = "none" PROVE store'[q] = NoRecord
    <3>1. CASE q = r
      BY <1>0, <1>1, <2>1, <3>1
    <3>2. CASE q # r
      BY <1>0, <1>1, <2>1, <3>2
    <3> QED BY <3>1, <3>2
  <2> QED BY <2>1 DEF RecordsHaveStatus
<1>2. ASSUME UNCHANGED store PROVE RecordsHaveStatus'
  BY <1>0, <1>2 DEF RecordsHaveStatus
<1>3. ASSUME NEW s, NEW o, Initiate(s, o) PROVE RecordsHaveStatus'
  BY <1>2, <1>3 DEF Initiate
<1>4. ASSUME NEW r \in Refs, Record(r) PROVE RecordsHaveStatus'
  BY <1>1, <1>4 DEF Record, Recorded
<1>5. ASSUME NEW r \in Refs, ProviderMoves(r) PROVE RecordsHaveStatus'
  BY <1>2, <1>5 DEF ProviderMoves
<1>6. ASSUME NEW r \in Refs, Cancel(r) PROVE RecordsHaveStatus'
  BY <1>1, <1>6 DEF Cancel
<1>7. ASSUME NEW h \in hooks, Webhook(h) PROVE RecordsHaveStatus'
  <2>1. h.event # "none" /\ h.ref \in Refs
    BY <1>0 DEF Final, TrackerTypeOK
  <2> QED BY <1>1, <1>7, <2>1 DEF Webhook
<1>8. ASSUME NEW h \in hooks, WebhookDone(h) PROVE RecordsHaveStatus'
  BY <1>2, <1>8 DEF WebhookDone
<1>9. ASSUME NEW k \in seen, KeyForgotten(k) PROVE RecordsHaveStatus'
  BY <1>2, <1>9 DEF KeyForgotten
<1>10. ASSUME NEW s \in Sessions, NEW r \in Refs, Poll(s, r) PROVE RecordsHaveStatus'
  BY <1>2, <1>10 DEF Poll
<1>11. ASSUME NEW s \in Sessions, StreamBreaks(s) \/ StreamOpens(s) PROVE RecordsHaveStatus'
  BY <1>2, <1>11 DEF StreamBreaks, StreamOpens
<1>12. CASE Restart
  BY <1>12 DEF Restart, RecordsHaveStatus
<1>13. CASE UNCHANGED trackerVars
  BY <1>2, <1>13 DEF trackerVars
<1> QED BY <1>3, <1>4, <1>5, <1>6, <1>7, <1>8, <1>9, <1>10, <1>11, <1>12, <1>13 DEF TrackerNext

LEMMA WizardShapeStarts == WizardInit => WizardShape
<1> SUFFICES ASSUME WizardInit PROVE WizardShape
  OBVIOUS
<1>1. MaxDeposits \in Nat
  BY WizardAssumption
<1>2. RecordsHaveStatus
  BY DEF WizardInit, TrackerInit, RecordsHaveStatus
<1>3. quote \in [deposit : 0 .. MaxDeposits, live : BOOLEAN] /\ quote.deposit = 0
  BY <1>1 DEF WizardInit, NoQuote
<1>4. /\ open = FALSE /\ step \in 1 .. 4 /\ deposit \in 0 .. MaxDeposits
      /\ banks \subseteq Banks /\ bank \in Banks \cup {NoBank} /\ account \in Accounts \cup {0}
      /\ quotes = {} /\ flows = {} /\ reference = 0 /\ polls = {} /\ payoutStatus = "pending"
      /\ events = {} /\ told = {}
  BY <1>1 DEF WizardInit
<1>5. payoutLoading \in BOOLEAN /\ payoutFailed \in BOOLEAN
  BY DEF WizardInit
<1> QED BY <1>1, <1>2, <1>3, <1>4, <1>5 DEF WizardShape, WizardTypeOK

LEMMA WizardShapeStays ==
  TrackerInv /\ WizardShape
    /\ ([WizardNext]_wizardVars \/ (TrackerNext /\ UNCHANGED pageVars)) => WizardShape'
<1> SUFFICES ASSUME TrackerInv, WizardShape,
                    [WizardNext]_wizardVars \/ (TrackerNext /\ UNCHANGED pageVars)
             PROVE  WizardShape'
  OBVIOUS
<1> DEFINE D == 0 .. MaxDeposits
           Q == [deposit : D, live : BOOLEAN]
           Settled == {"pending", "cancelled"} \cup Final
           Pushed == {"initiated", "pending", "success", "failed", "cancelled"}
           Notices == [outcome : {"success", "failed"}, deposit : D, ref : Refs \cup {0}]
           Named(fs) == \A f \in fs : f.phase \in {"answer", "confirming"} => f.ref \in Refs
<1> DEFINE StepOK   == step \in 1 .. 4
           OpenOK   == open \in BOOLEAN /\ deposit \in D /\ (open => deposit \in 1 .. MaxDeposits)
           FormOK   == /\ banks \subseteq Banks /\ bank \in Banks \cup {NoBank}
                       /\ account \in Accounts \cup {0}
           PricesOK == quote \in Q /\ quotes \subseteq 1 .. MaxDeposits
           TrackOK  == /\ reference \in Refs \cup {0} /\ polls \subseteq Refs
                       /\ payoutStatus \in Settled
                       /\ events \subseteq Pushed /\ told \subseteq Notices
           FlowsOK  == flows \subseteq Payouts /\ Named(flows)
           FlagsOK  == payoutLoading \in BOOLEAN /\ payoutFailed \in BOOLEAN
<1>0. /\ MaxDeposits \in Nat /\ (\A b \in Saved : b.account \in Accounts)
      /\ TrackerTypeOK /\ RecordsHaveStatus
  BY WizardAssumption DEF TrackerInv, WizardShape
<1>w. /\ step \in 1 .. 4 /\ deposit \in D
      /\ banks \subseteq Banks /\ bank \in Banks \cup {NoBank}
      /\ account \in Accounts \cup {0}
      /\ quote \in Q /\ quotes \subseteq 1 .. MaxDeposits
      /\ reference \in Refs \cup {0} /\ polls \subseteq Refs /\ payoutStatus \in Settled
      /\ events \subseteq Pushed /\ told \subseteq Notices
      /\ flows \subseteq Payouts /\ Named(flows)
  BY DEF WizardShape, WizardTypeOK
<1>b. open \in BOOLEAN /\ payoutLoading \in BOOLEAN /\ payoutFailed \in BOOLEAN
  BY DEF WizardShape, WizardTypeOK
<1>d. open => deposit \in 1 .. MaxDeposits
  BY <1>0, <1>w DEF WizardShape
<1>r. RecordsHaveStatus'
  <2>1. [TrackerNext]_trackerVars
    BY WizardStepsTrack
  <2> QED BY <1>0, <2>1, RecordsKeepStatus
<1>1. ASSUME StepOK', OpenOK', FormOK', PricesOK', TrackOK', FlowsOK', FlagsOK'
      PROVE  WizardShape'
  <2>1. quote'.deposit \in D
    BY <1>1
  <2>2. open' => deposit' > 0
    <3> SUFFICES ASSUME open' PROVE deposit' > 0
      OBVIOUS
    <3>1. PICK n \in 1 .. MaxDeposits : deposit' = n
      BY <1>1
    <3>2. n > 0
      OBVIOUS
    <3> QED BY <3>1, <3>2
  <2>3. WizardTypeOK'
    BY <1>1, <2>1 DEF WizardTypeOK
  <2> QED BY <1>1, <1>r, <2>2, <2>3 DEF WizardShape
<1>q. ASSUME NEW d \in 1 .. MaxDeposits, FetchQuote(d)
      PROVE  PricesOK'
  <2>1. 0 \in D
    BY <1>0
  <2> QED BY <1>q, <1>w, <2>1 DEF FetchQuote, NoQuote
<1> HIDE DEF D, Q, Settled, Pushed, Notices, Named, StepOK, OpenOK, FormOK, PricesOK, TrackOK, FlowsOK, FlagsOK
(* one conjunct at a time: what the actions leave alone stays typed        *)
<1>2. ASSUME UNCHANGED <<open, deposit>> PROVE OpenOK'
  BY <1>2, <1>b, <1>d, <1>w DEF OpenOK
<1>3. ASSUME UNCHANGED form
      PROVE  FormOK'
  BY <1>3, <1>w DEF form, FormOK
<1>4. ASSUME UNCHANGED prices PROVE PricesOK'
  BY <1>4, <1>w DEF prices, PricesOK
<1>5. ASSUME UNCHANGED flows PROVE FlowsOK'
  BY <1>5, <1>w DEF FlowsOK
<1>6. ASSUME UNCHANGED tracking
      PROVE  TrackOK'
  BY <1>6, <1>w DEF tracking, TrackOK
<1>7. ASSUME UNCHANGED <<payoutLoading, payoutFailed>>
      PROVE  FlagsOK'
  BY <1>7, <1>b DEF FlagsOK
<1>s. UNCHANGED step => StepOK'
  BY <1>w DEF StepOK
<1>8. CASE OpenFor
  <2>1. deposit + 1 \in 1 .. MaxDeposits /\ deposit + 1 \in D
    BY <1>0, <1>8, <1>w DEF OpenFor, D
  <2>2. OpenOK'
    BY <1>8, <2>1 DEF OpenFor, OpenOK
  <2>3. PricesOK'
    BY <1>4, <1>8, <1>q, <2>1 DEF OpenFor, PricesOK
  <2> QED BY <1>1, <1>3, <1>5, <1>6, <1>7, <1>8, <1>s, <2>2, <2>3 DEF OpenFor
<1>9. CASE BanksAnswer
  <2>1. FormOK'
    BY <1>9, <1>w DEF BanksAnswer, FormOK
  <2> QED BY <1>1, <1>2, <1>4, <1>5, <1>6, <1>7, <1>9, <1>s, <2>1 DEF BanksAnswer
<1>10. CASE Close
  <2>1. FormOK'
    BY <1>10 DEF Close, FormOK
  <2>2. PricesOK'
    <3>1. 0 \in D
      BY <1>0 DEF D
    <3> QED BY <1>10, <1>w, <3>1 DEF Close, NoQuote, Q, PricesOK
  <2>3. TrackOK'
    BY <1>10, <1>w DEF Close, Settled, TrackOK
  <2>4. open' = FALSE /\ payoutLoading' = FALSE /\ payoutFailed' = FALSE /\ UNCHANGED <<deposit, flows>>
    BY <1>10 DEF Close
  <2>5. StepOK'
    BY <1>10 DEF Close, StepOK
  <2>6. OpenOK'
    BY <1>w, <2>4 DEF OpenOK
  <2>7. FlagsOK'
    BY <2>4 DEF FlagsOK
  <2> QED BY <1>1, <1>5, <2>1, <2>2, <2>3, <2>4, <2>5, <2>6, <2>7
<1>11. ASSUME NEW b \in Banks, ChooseBank(b) PROVE WizardShape'
  <2>1. FormOK'
    BY <1>11, <1>w DEF ChooseBank, FormOK
  <2> QED BY <1>1, <1>2, <1>4, <1>5, <1>6, <1>7, <1>11, <1>s, <2>1 DEF ChooseBank
<1>12. ASSUME NEW b \in Saved, UseSaved(b) PROVE WizardShape'
  <2>1. FormOK'
    BY <1>0, <1>12, <1>w DEF UseSaved, FormOK
  <2>2. deposit \in 1 .. MaxDeposits
    BY <1>12, <1>d DEF UseSaved
  <2>3. PricesOK'
    BY <1>12, <1>q, <2>2 DEF UseSaved, PricesOK
  <2>4. StepOK'
    BY <1>12 DEF UseSaved, StepOK
  <2>u. UNCHANGED <<open, deposit, flows, payoutLoading, payoutFailed, tracking>>
    BY <1>12 DEF UseSaved
  <2> QED BY <1>1, <1>2, <1>5, <1>6, <1>7, <2>1, <2>3, <2>4, <2>u
<1>13. ASSUME NEW from, NEW to \in 1 .. 4, NEW enabled, Turn(from, to, enabled) PROVE WizardShape'
  <2>1. deposit \in 1 .. MaxDeposits
    BY <1>13, <1>d DEF Turn
  <2>2. PricesOK'
    BY <1>4, <1>13, <1>q, <2>1 DEF Turn, PricesOK
  <2>u. UNCHANGED <<open, deposit, form, flows, payoutLoading, payoutFailed, tracking>> /\ step' = to
    BY <1>13 DEF Turn
  <2>3. StepOK'
    BY <2>u DEF StepOK
  <2> QED BY <1>1, <1>2, <1>3, <1>5, <1>6, <1>7, <2>2, <2>3, <2>u
<1>14. CASE TurnPage
  <2>1. 1 \in 1 .. 4 /\ 2 \in 1 .. 4 /\ 3 \in 1 .. 4
    OBVIOUS
  <2> QED BY <1>13, <1>14, <2>1 DEF TurnPage
<1>15. ASSUME NEW a \in Accounts, TypeAccount(a) PROVE WizardShape'
  <2>1. FormOK'
    BY <1>15, <1>w DEF TypeAccount, FormOK
  <2> QED BY <1>1, <1>2, <1>4, <1>5, <1>6, <1>7, <1>15, <1>s, <2>1 DEF TypeAccount
<1>16. CASE Verify
  <2>1. FormOK'
    BY <1>16, <1>w DEF Verify, FormOK
  <2> QED BY <1>1, <1>2, <1>4, <1>5, <1>6, <1>7, <1>16, <1>s, <2>1 DEF Verify
<1>17. ASSUME NEW v, VerifyAnswer(v) PROVE WizardShape'
  <2>1. FormOK'
    BY <1>17, <1>w DEF VerifyAnswer, FormOK
  <2>u. UNCHANGED <<open, step, deposit, prices, flows, payoutLoading, payoutFailed, tracking>>
    BY <1>17 DEF VerifyAnswer
  <2> QED BY <1>1, <1>2, <1>4, <1>5, <1>6, <1>7, <2>1, <1>s, <2>u
<1>18. ASSUME NEW d \in quotes, QuoteAnswer(d) PROVE WizardShape'
  <2>1. d \in D /\ 0 \in D
    BY <1>0, <1>w DEF D
  <2>2. [deposit |-> d, live |-> TRUE] \in Q /\ NoQuote \in Q
    BY <2>1 DEF Q, NoQuote
  <2>3. PricesOK'
    BY <1>18, <1>w, <2>2 DEF QuoteAnswer, PricesOK
  <2>u. UNCHANGED <<open, step, deposit, form, flows, payoutLoading, payoutFailed, tracking>>
    BY <1>18 DEF QuoteAnswer
  <2> QED BY <1>1, <1>2, <1>3, <1>5, <1>6, <1>7, <2>3, <1>s, <2>u
<1>19. CASE QuoteExpires
  <2>1. [quote EXCEPT !.live = FALSE] \in Q
    BY <1>w DEF Q
  <2>2. PricesOK'
    BY <1>19, <1>w, <2>1 DEF QuoteExpires, PricesOK
  <2>u. UNCHANGED <<open, step, deposit, form, flows, payoutLoading, payoutFailed, tracking>>
    BY <1>19 DEF QuoteExpires
  <2> QED BY <1>1, <1>2, <1>3, <1>5, <1>6, <1>7, <2>2, <1>s, <2>u
<1>20. CASE RefreshQuote
  <2>1. deposit \in 1 .. MaxDeposits
    BY <1>20, <1>d DEF RefreshQuote
  <2>2. PricesOK'
    BY <1>20, <1>q, <2>1 DEF RefreshQuote, PricesOK
  <2> QED BY <1>1, <1>2, <1>3, <1>5, <1>6, <1>7, <1>20, <1>s, <2>2 DEF RefreshQuote
<1>21. ASSUME NEW gone, NEW g \in Payouts, g.phase \in {"answer", "confirming"} => g.ref \in Refs,
              flows' = (flows \ {gone}) \cup {g} \/ flows' = flows \ {gone} \/ flows' = flows \cup {g}
       PROVE  FlowsOK'
  <2>1. \A f \in flows' : f \in flows \/ f = g
    BY <1>21
  <2> QED BY <1>21, <1>w, <2>1 DEF Named, FlowsOK
<1>22. CASE Confirm
  <2> DEFINE g == [phase |-> "recipient", deposit |-> quote.deposit, ref |-> 0]
  <2>1. g \in Payouts /\ g.phase = "recipient"
    BY <1>w DEF Payouts, Q, D
  <2>2. flows' = flows \cup {g}
    BY <1>22 DEF Confirm
  <2> HIDE DEF g
  <2>3. FlowsOK'
    BY <1>21, <2>1, <2>2 DEF FlowsOK
  <2>4. TrackOK'
    BY <1>22, <1>w DEF Confirm, Pushed, TrackOK
  <2>5. FlagsOK'
    BY <1>22 DEF Confirm, FlagsOK
  <2> QED BY <1>1, <1>2, <1>3, <1>4, <1>22, <1>s, <2>3, <2>4, <2>5 DEF Confirm
<1>23. ASSUME NEW f \in flows
       PROVE  /\ f \in Payouts
              /\ [f EXCEPT !.phase = "transfer"] \in Payouts
              /\ [f EXCEPT !.phase = "transfer"].phase = "transfer"
              /\ [f EXCEPT !.phase = "confirming"] \in Payouts
              /\ [f EXCEPT !.phase = "confirming"].ref = f.ref
              /\ \A r \in Refs : /\ [f EXCEPT !.phase = "answer", !.ref = r] \in Payouts
                                 /\ [f EXCEPT !.phase = "answer", !.ref = r].ref = r
  BY <1>w DEF Payouts
<1>24. ASSUME NEW f \in flows, RecipientMade(f) PROVE WizardShape'
  <2>1. flows' = (flows \ {f}) \cup {[f EXCEPT !.phase = "transfer"]}
    BY <1>24 DEF RecipientMade
  <2>2. FlowsOK'
    BY <1>21, <1>23, <2>1 DEF FlowsOK
  <2>3. TrackOK'
    BY <1>24, <1>w DEF RecipientMade, Pushed, TrackOK
  <2>u. UNCHANGED <<open, step, deposit, form, prices, payoutLoading, payoutFailed>>
    BY <1>24 DEF RecipientMade
  <2> QED BY <1>1, <1>2, <1>3, <1>4, <1>7, <2>2, <2>3, <1>s, <2>u
<1>25. ASSUME NEW f \in flows, NEW o, TransferMade(f, o) PROVE WizardShape'
  <2>1. NextRef \in Refs /\ flows' = (flows \ {f}) \cup {[f EXCEPT !.phase = "answer", !.ref = NextRef]}
    BY <1>25 DEF TransferMade, Initiate
  <2> DEFINE g == [f EXCEPT !.phase = "answer", !.ref = NextRef]
  <2>3. g \in Payouts /\ g.ref \in Refs
    BY <1>23, <2>1
  <2> HIDE DEF g
  <2>4. flows' = (flows \ {f}) \cup {g}
    BY <2>1 DEF g
  <2>2. FlowsOK'
    BY <1>21, <2>3, <2>4 DEF FlowsOK
  <2>u. UNCHANGED <<open, step, deposit, form, prices, payoutLoading, payoutFailed, tracking>>
    BY <1>25 DEF TransferMade
  <2> QED BY <1>1, <1>2, <1>3, <1>4, <1>6, <1>7, <2>2, <1>s, <2>u
<1>26. ASSUME NEW f \in flows, TransferAnswer(f) PROVE WizardShape'
  <2>1. f.ref \in Refs /\ flows' = (flows \ {f}) \cup {[f EXCEPT !.phase = "confirming"]}
    BY <1>26, <1>w DEF TransferAnswer, Named
  <2>2. FlowsOK'
    BY <1>21, <1>23, <2>1 DEF FlowsOK
  <2>3. TrackOK'
    BY <1>26, <1>w, <2>1 DEF TransferAnswer, TrackOK
  <2>u. UNCHANGED <<open, step, deposit, form, prices, payoutLoading, payoutFailed>>
    BY <1>26 DEF TransferAnswer
  <2> QED BY <1>1, <1>2, <1>3, <1>4, <1>7, <2>2, <2>3, <1>s, <2>u
<1>27. ASSUME NEW f PROVE /\ flows' = flows \ {f} => FlowsOK'
  BY <1>w DEF Named, FlowsOK
<1>t. ASSUME NEW f \in flows, NEW outcome \in {"success", "failed"}, Tell(f, outcome),
             UNCHANGED <<reference, payoutStatus, polls>>
      PROVE  TrackOK'
  <2>1. f.deposit \in D /\ f.ref \in Refs \cup {0}
    BY <1>w DEF Payouts, D
  <2>2. [outcome |-> outcome, deposit |-> f.deposit, ref |-> f.ref] \in Notices
    BY <2>1 DEF Notices
  <2>3. events' \subseteq Pushed /\ told' \subseteq Notices
    BY <1>t, <1>w, <2>2 DEF Tell, Pushed
  <2> QED BY <1>t, <1>w, <2>3 DEF TrackOK
<1>28. ASSUME NEW f \in flows, Confirmed(f) PROVE WizardShape'
  <2>1. FlagsOK'
    BY <1>28, <1>b DEF Confirmed, FlagsOK
  <2>2. StepOK'
    BY <1>28 DEF Confirmed, StepOK
  <2>3. TrackOK'
    BY <1>28, <1>t DEF Confirmed
  <2>u. UNCHANGED <<open, deposit, form, prices>> /\ flows' = flows \ {f}
    BY <1>28 DEF Confirmed
  <2> QED BY <1>1, <1>2, <1>3, <1>4, <1>27, <2>1, <2>2, <2>3, <2>u
<1>29. ASSUME NEW f \in flows, Fails(f) PROVE WizardShape'
  <2>1. FlagsOK'
    BY <1>29 DEF Fails, FlagsOK
  <2>2. TrackOK'
    BY <1>29, <1>t DEF Fails
  <2>u. UNCHANGED <<open, step, deposit, form, prices>> /\ flows' = flows \ {f}
    BY <1>29 DEF Fails
  <2> QED BY <1>1, <1>2, <1>3, <1>4, <1>27, <2>1, <2>2, <1>s, <2>u
<1>30. CASE PollStatus
  <2>1. TrackOK'
    BY <1>30, <1>w DEF PollStatus, TrackOK
  <2>u. UNCHANGED <<open, step, deposit, form, prices, flows, payoutLoading, payoutFailed>>
    BY <1>30 DEF PollStatus
  <2> QED BY <1>1, <1>2, <1>3, <1>4, <1>5, <1>7, <2>1, <1>s, <2>u
<1>31. ASSUME NEW r \in polls, PollAnswer(r) PROVE WizardShape'
  <2>1. r \in Refs
    BY <1>w
  <2>2. StatusOf(r) \in Settled
    <3>1. store[r].status \in {"none", "pending", "cancelled"} \cup Final
      BY <1>0, <2>1 DEF TrackerTypeOK
    <3>2. store[r] # NoRecord => store[r].status # "none"
      BY <1>0, <2>1 DEF RecordsHaveStatus
    <3> QED BY <3>1, <3>2 DEF StatusOf, Settled
  <2>3. TrackOK'
    BY <1>31, <1>w, <2>2 DEF PollAnswer, TrackOK
  <2>u. UNCHANGED <<open, step, deposit, form, prices, flows, payoutLoading, payoutFailed>>
    BY <1>31 DEF PollAnswer
  <2> QED BY <1>1, <1>2, <1>3, <1>4, <1>5, <1>7, <2>3, <1>s, <2>u
<1>32. CASE CancelPayout
  <2>1. TrackOK'
    BY <1>32, <1>w DEF CancelPayout, Pushed, TrackOK
  <2> QED BY <1>1, <1>2, <1>3, <1>4, <1>5, <1>7, <1>32, <1>s, <2>1 DEF CancelPayout
<1>33. ASSUME UNCHANGED <<open, step, deposit, form, prices, flows, payoutLoading, payoutFailed,
                          tracking>>
       PROVE  WizardShape'
  BY <1>1, <1>2, <1>3, <1>4, <1>5, <1>6, <1>7, <1>33, <1>s
<1>34. CASE Serve
  BY <1>33, <1>34 DEF Serve
<1>35. CASE UNCHANGED wizardVars
  BY <1>33, <1>35 DEF wizardVars
<1>36. CASE TrackerNext /\ UNCHANGED pageVars
  BY <1>33, <1>36 DEF pageVars
<1>37. CASE Fill
  BY <1>8, <1>9, <1>10, <1>11, <1>12, <1>14, <1>15, <1>16, <1>17, <1>18, <1>19, <1>20, <1>37 DEF Fill
<1>38. CASE Pay
  BY <1>22, <1>24, <1>25, <1>26, <1>28, <1>29, <1>30, <1>31, <1>32, <1>38 DEF Pay, Goes
<1> QED BY <1>34, <1>35, <1>36, <1>37, <1>38 DEF WizardNext

-----------------------------------------------------------------------------
(* What the browser keeps and the operations under way name accounts of    *)
(* the extension, and a selection always one.                              *)
WalletOps ==
  [id : Nat, kind : {"restore", "connect", "select", "balance"},
   address : WalletAccounts \cup {0}, index : WalletAccounts]

WalletShape ==
  /\ WalletTypeOK
  /\ walletKept \in [address : WalletAccounts \cup {0}, index : WalletAccounts, stale : BOOLEAN]
  /\ walletOps \subseteq WalletOps
  /\ \A o \in walletOps : o.kind = "select" => o.address \in WalletAccounts

LEMMA WalletShapeStarts == WalletInit => WalletShape
<1> SUFFICES ASSUME WalletInit PROVE WalletShape
  OBVIOUS
<1>1. 1 \in WalletAccounts /\ MaxWalletOps \in Nat
  BY WalletAssumption
<1>2. walletKept \in [address : WalletAccounts \cup {0}, index : WalletAccounts, stale : BOOLEAN]
  <2>1. CASE walletKept = NothingKept
    BY <1>1, <2>1 DEF NothingKept
  <2>2. CASE walletKept \in [address : WalletAccounts, index : {1}, stale : BOOLEAN]
    BY <1>1, <2>2
  <2> QED BY <2>1, <2>2 DEF WalletInit
<1>3. {installed, accountsKnown, connecting, walletError, sessionExpired, isAdmin,
       guardError} \subseteq BOOLEAN
  BY DEF WalletInit
<1>4. /\ walletActive \in WalletAccounts /\ net \in Nets
      /\ connection.address = 0 /\ balanceOf = 0
      /\ selectedIndex = 1 /\ walletCount = 0 /\ walletOps = {}
  BY DEF WalletInit, Disconnected
<1> QED BY <1>1, <1>2, <1>3, <1>4 DEF WalletShape, WalletTypeOK

(* The guard's state is boolean, whatever the address becomes.             *)
LEMMA GuardShape ==
  ASSUME WalletShape, NEW a \in WalletAccounts \cup {0}, NEW n, Connected(a, n)
  PROVE  connection'.address = a /\ isAdmin' \in BOOLEAN /\ guardError' \in BOOLEAN
BY DEF Connected, CheckAdmin, guardVars, WalletShape, WalletTypeOK

LEMMA WalletShapeStays == WalletShape /\ [WalletNext]_walletVars => WalletShape'
<1> SUFFICES ASSUME WalletShape, [WalletNext]_walletVars PROVE WalletShape'
  OBVIOUS
<1> DEFINE Kept == [address : WalletAccounts \cup {0}, index : WalletAccounts, stale : BOOLEAN]
           Known == WalletAccounts \cup {0}
<1>0. /\ 1 \in WalletAccounts /\ MaxWalletOps \in Nat
      /\ walletCount \in 0 .. MaxWalletOps /\ walletKept \in Kept
      /\ walletActive \in WalletAccounts /\ net \in Nets /\ selectedIndex \in WalletAccounts
      /\ connection.address \in Known /\ balanceOf \in Known /\ walletOps \subseteq WalletOps
      /\ \A o \in walletOps : o.kind = "select" => o.address \in WalletAccounts
  BY WalletAssumption DEF WalletShape, WalletTypeOK
<1>b. /\ installed \in BOOLEAN /\ accountsKnown \in BOOLEAN /\ connecting \in BOOLEAN
      /\ walletError \in BOOLEAN /\ sessionExpired \in BOOLEAN /\ isAdmin \in BOOLEAN
      /\ guardError \in BOOLEAN
  BY DEF WalletShape, WalletTypeOK
<1>1. ASSUME walletActive' \in WalletAccounts, UNCHANGED net, walletKept' \in Kept,
             connection'.address \in Known, balanceOf' \in Known, selectedIndex' \in WalletAccounts,
             walletCount' \in 0 .. MaxWalletOps, walletOps' \subseteq WalletOps,
             \A o \in walletOps' : o.kind = "select" => o.address \in WalletAccounts,
             installed' \in BOOLEAN, accountsKnown' \in BOOLEAN, connecting' \in BOOLEAN,
             walletError' \in BOOLEAN, sessionExpired' \in BOOLEAN, isAdmin' \in BOOLEAN,
             guardError' \in BOOLEAN
      PROVE  WalletShape'
  <2>1. walletKept'.address \in Known
    BY <1>1
  <2>2. net' \in Nets
    BY <1>0, <1>1
  <2>3. {installed', accountsKnown', connecting', walletError', sessionExpired', isAdmin',
         guardError'} \subseteq BOOLEAN
    BY <1>1
  <2> QED BY <1>1, <2>1, <2>2, <2>3 DEF WalletShape, WalletTypeOK
<1>2. NothingKept \in Kept
  BY <1>0 DEF NothingKept
<1>3. ASSUME NEW a \in Known, NEW n, Connected(a, n)
      PROVE  connection'.address \in Known /\ isAdmin' \in BOOLEAN /\ guardError' \in BOOLEAN
  BY <1>3, GuardShape
<1>4. ASSUME NEW o \in walletOps, NEW a \in Known
      PROVE  /\ [o EXCEPT !.kind = "balance"] \in WalletOps
             /\ [o EXCEPT !.kind = "balance"].kind = "balance"
             /\ [o EXCEPT !.kind = "balance", !.address = a] \in WalletOps
             /\ [o EXCEPT !.kind = "balance", !.address = a].kind = "balance"
  BY <1>0 DEF WalletOps
<1>5. CASE FreighterFound
  <2>1. UNCHANGED <<walletActive, net, balanceOf, connecting, walletError, walletCount>>
        /\ installed' = TRUE
    BY <1>5 DEF FreighterFound
  <2>2. CASE walletKept.address # 0 /\ walletKept.stale
    <3>1. /\ walletKept' = NothingKept /\ sessionExpired' = TRUE /\ accountsKnown' = FALSE
          /\ selectedIndex' = 1 /\ Connected(0, "none") /\ UNCHANGED walletOps
      BY <1>5, <2>2 DEF FreighterFound
    <3>2. connection'.address \in Known /\ isAdmin' \in BOOLEAN /\ guardError' \in BOOLEAN
      BY <1>3, <3>1
    <3> QED BY <1>0, <1>1, <1>2, <1>b, <2>1, <3>1, <3>2, Zenon
  <2>3. CASE ~(walletKept.address # 0 /\ walletKept.stale)
    <3> DEFINE o == [id |-> 0, kind |-> "restore", address |-> walletKept.address,
                     index |-> walletKept.index]
    <3>1. /\ UNCHANGED <<walletKept, sessionExpired, accountsKnown, selectedIndex, connection,
                         isAdmin, guardError>>
          /\ walletOps' \subseteq walletOps \cup {o}
      BY <1>5, <2>3 DEF FreighterFound, guardVars
    <3>2. o \in WalletOps /\ o.kind = "restore"
      BY <1>0 DEF WalletOps
    <3> HIDE DEF o
    <3>3. \A x \in walletOps' : x \in WalletOps /\ (x.kind = "select" => x.address \in WalletAccounts)
      BY <1>0, <3>1, <3>2
    <3> QED BY <1>0, <1>1, <1>b, <2>1, <3>1, <3>3
  <2> QED BY <2>2, <2>3
<1>6. ASSUME NEW o \in walletOps, NEW withAccounts \in BOOLEAN, Restores(o, withAccounts)
      PROVE  WalletShape'
  <2>1. UNCHANGED <<installed, walletActive, net, walletKept, balanceOf, connecting, walletError,
                    sessionExpired, walletCount>>
    BY <1>6 DEF Restores
  <2>2. CASE walletActive = o.address
    <3> DEFINE p == [o EXCEPT !.kind = "balance"]
    <3>1. /\ accountsKnown' \in BOOLEAN
          /\ selectedIndex' \in {o.index, selectedIndex}
          /\ Connected(walletActive, net)
          /\ walletOps' = (walletOps \ {o}) \cup {p}
      BY <1>6, <1>b, <2>2 DEF Restores
    <3>2. connection'.address \in Known /\ isAdmin' \in BOOLEAN /\ guardError' \in BOOLEAN
      BY <1>0, <1>3, <3>1
    <3>3. p \in WalletOps /\ p.kind = "balance"
      BY <1>0, <1>4
    <3> HIDE DEF p
    <3>4. \A x \in walletOps' : x \in WalletOps /\ (x.kind = "select" => x.address \in WalletAccounts)
      BY <1>0, <3>1, <3>3
    <3>5. selectedIndex' \in WalletAccounts
      BY <1>0, <3>1 DEF WalletOps
    <3> QED BY <1>0, <1>1, <1>b, <2>1, <3>1, <3>2, <3>4, <3>5
  <2>3. CASE walletActive # o.address
    <3>1. walletOps' \subseteq walletOps
          /\ UNCHANGED <<accountsKnown, selectedIndex, connection, isAdmin, guardError>>
      BY <1>6, <2>3 DEF Restores, guardVars
    <3> QED BY <1>0, <1>1, <1>b, <2>1, <3>1
  <2> QED BY <2>2, <2>3
<1>7. ASSUME NEW o \in WalletOps, o.kind # "select" \/ o.address \in WalletAccounts,
             walletOps' = walletOps \cup {o}, walletCount < MaxWalletOps,
             walletCount' = walletCount + 1,
             connecting' \in BOOLEAN, walletError' \in BOOLEAN, sessionExpired' \in BOOLEAN,
             UNCHANGED <<installed, walletActive, net, walletKept, connection, accountsKnown,
                         selectedIndex, balanceOf, guardVars>>
      PROVE  WalletShape'
  <2>1. walletCount' \in 0 .. MaxWalletOps
    BY <1>0, <1>7
  <2>2. \A x \in walletOps' : x \in WalletOps /\ (x.kind = "select" => x.address \in WalletAccounts)
    BY <1>0, <1>7
  <2> QED BY <1>0, <1>1, <1>7, <1>b, <2>1, <2>2 DEF guardVars
<1>8. CASE Connect
  <2>1. WalletOp("connect", 0) \in WalletOps /\ WalletOp("connect", 0).kind = "connect"
    BY <1>0 DEF WalletOp, WalletOps
  <2>2. /\ connecting' = TRUE /\ walletError' = FALSE /\ sessionExpired' = FALSE
        /\ walletOps' = walletOps \cup {WalletOp("connect", 0)}
        /\ walletCount < MaxWalletOps /\ walletCount' = walletCount + 1
        /\ UNCHANGED <<installed, walletActive, net, walletKept, connection, accountsKnown,
                       selectedIndex, balanceOf, guardVars>>
    BY <1>8 DEF Connect
  <2> QED BY <1>7, <2>1, <2>2
<1>9. ASSUME NEW i \in WalletAccounts, SelectAccount(i) PROVE WalletShape'
  <2>1. WalletOp("select", i) \in WalletOps /\ WalletOp("select", i).address = i
    BY <1>0 DEF WalletOp, WalletOps
  <2>2. /\ connecting' = connecting /\ walletError' = walletError
        /\ sessionExpired' = sessionExpired
        /\ walletOps' = walletOps \cup {WalletOp("select", i)}
        /\ walletCount < MaxWalletOps /\ walletCount' = walletCount + 1
        /\ UNCHANGED <<installed, walletActive, net, walletKept, connection, accountsKnown,
                       selectedIndex, balanceOf, guardVars>>
    BY <1>9 DEF SelectAccount
  <2> QED BY <1>7, <1>b, <2>1, <2>2
<1>10. ASSUME NEW o \in walletOps, NEW withAccounts \in BOOLEAN, ConnectAnswers(o, withAccounts)
       PROVE  WalletShape'
  <2>1. /\ connecting' = FALSE
        /\ UNCHANGED <<installed, walletActive, net, balanceOf, sessionExpired, walletCount>>
    BY <1>10 DEF ConnectAnswers
  <2>2. CASE net # "testnet"
    <3>1. /\ walletError' = TRUE /\ accountsKnown' = FALSE /\ selectedIndex' = 1
          /\ Connected(0, "none") /\ walletOps' = walletOps \ {o} /\ UNCHANGED walletKept
      BY <1>10, <2>2 DEF ConnectAnswers
    <3>2. connection'.address \in Known /\ isAdmin' \in BOOLEAN /\ guardError' \in BOOLEAN
      BY <1>3, <3>1
    <3> QED BY <1>0, <1>1, <1>b, <2>1, <3>1, <3>2
  <2>3. CASE net = "testnet"
    <3> DEFINE p == [o EXCEPT !.kind = "balance", !.address = walletActive]
    <3>1. /\ walletKept' = [address |-> walletActive, stale |-> FALSE,
                            index |-> IF withAccounts THEN walletActive ELSE walletKept.index]
          /\ selectedIndex' \in {walletActive, selectedIndex}
          /\ Connected(walletActive, net)
          /\ walletOps' = (walletOps \ {o}) \cup {p}
          /\ UNCHANGED walletError
      BY <1>10, <2>3 DEF ConnectAnswers
    <3>2. accountsKnown' \in BOOLEAN
      BY <1>10, <1>b, <2>3 DEF ConnectAnswers
    <3>3. connection'.address \in Known /\ isAdmin' \in BOOLEAN /\ guardError' \in BOOLEAN
      BY <1>0, <1>3, <3>1
    <3>4. walletKept' \in Kept
      BY <1>0, <3>1
    <3>5. p \in WalletOps /\ p.kind = "balance"
      BY <1>0, <1>4
    <3> HIDE DEF p
    <3>6. \A x \in walletOps' : x \in WalletOps /\ (x.kind = "select" => x.address \in WalletAccounts)
      BY <1>0, <3>1, <3>5
    <3> QED BY <1>0, <1>1, <1>b, <2>1, <3>1, <3>2, <3>3, <3>4, <3>6
  <2> QED BY <2>2, <2>3
<1>11. ASSUME NEW o \in walletOps, ConnectFails(o) PROVE WalletShape'
  <2>1. walletOps' \subseteq walletOps /\ connecting' = FALSE /\ walletError' = TRUE
        /\ UNCHANGED <<installed, walletActive, net, walletKept, connection, accountsKnown,
                       selectedIndex, balanceOf, sessionExpired, walletCount, isAdmin, guardError>>
    BY <1>11 DEF ConnectFails, guardVars
  <2> QED BY <1>0, <1>1, <1>b, <2>1
<1>12. CASE Disconnect
  <2>1. /\ walletKept' = NothingKept /\ Connected(0, "none")
        /\ accountsKnown' = FALSE /\ selectedIndex' = 1 /\ balanceOf' = 0
        /\ walletError' = FALSE /\ sessionExpired' = FALSE
        /\ UNCHANGED <<installed, walletActive, net, walletOps, connecting, walletCount>>
    BY <1>12 DEF Disconnect
  <2>2. connection'.address \in Known /\ isAdmin' \in BOOLEAN /\ guardError' \in BOOLEAN
    BY <1>3, <2>1
  <2> QED BY <1>0, <1>1, <1>2, <1>b, <2>1, <2>2
<1>13. ASSUME NEW o \in walletOps, AccountAllowed(o) PROVE WalletShape'
  <2> DEFINE p == [o EXCEPT !.kind = "balance"]
  <2>1. /\ o.kind = "select" /\ selectedIndex' = o.address /\ walletActive' = o.address
        /\ walletKept' = [address |-> o.address, index |-> o.address, stale |-> FALSE]
        /\ Connected(o.address, connection.net)
        /\ walletOps' = (walletOps \ {o}) \cup {p}
        /\ UNCHANGED <<installed, net, accountsKnown, balanceOf, connecting, walletError,
                       sessionExpired, walletCount>>
    BY <1>13 DEF AccountAllowed
  <2>2. o.address \in WalletAccounts
    BY <1>0, <2>1
  <2>3. connection'.address \in Known /\ isAdmin' \in BOOLEAN /\ guardError' \in BOOLEAN
    BY <1>3, <2>1, <2>2
  <2>4. walletKept' \in Kept
    BY <2>1, <2>2
  <2>5. p \in WalletOps /\ p.kind = "balance"
    BY <1>0, <1>4
  <2> HIDE DEF p
  <2>6. \A x \in walletOps' : x \in WalletOps /\ (x.kind = "select" => x.address \in WalletAccounts)
    BY <1>0, <2>1, <2>5
  <2> QED BY <1>0, <1>1, <1>b, <2>1, <2>2, <2>3, <2>4, <2>6
<1>14. ASSUME NEW o \in walletOps, AccountRefused(o) PROVE WalletShape'
  <2>1. walletOps' \subseteq walletOps /\ walletError' = TRUE
        /\ UNCHANGED <<installed, walletActive, net, walletKept, connection, accountsKnown,
                       selectedIndex, balanceOf, connecting, sessionExpired, walletCount,
                       isAdmin, guardError>>
    BY <1>14 DEF AccountRefused, guardVars
  <2> QED BY <1>0, <1>1, <1>b, <2>1
<1>15. ASSUME NEW o \in walletOps, BalanceArrives(o) PROVE WalletShape'
  <2>1. walletOps' \subseteq walletOps /\ balanceOf' \in {o.address, balanceOf}
        /\ UNCHANGED <<installed, walletActive, net, walletKept, connection, accountsKnown,
                       selectedIndex, connecting, walletError, sessionExpired, walletCount,
                       isAdmin, guardError>>
    BY <1>15 DEF BalanceArrives, guardVars
  <2>2. balanceOf' \in Known
    BY <1>0, <2>1 DEF WalletOps
  <2> QED BY <1>0, <1>1, <1>b, <2>1, <2>2
<1>16. CASE ClearSessionExpired
  <2>1. sessionExpired' = FALSE
        /\ UNCHANGED <<installed, walletActive, net, walletKept, connection, accountsKnown,
                       selectedIndex, balanceOf, walletOps, connecting, walletError,
                       walletCount, isAdmin, guardError>>
    BY <1>16 DEF ClearSessionExpired, guardVars
  <2> QED BY <1>0, <1>1, <1>b, <2>1
<1>17. ASSUME NEW c \in checks, NEW ok \in BOOLEAN, AdminAnswers(c, ok) PROVE WalletShape'
  <2>1. isAdmin' \in BOOLEAN /\ guardError' \in BOOLEAN
    BY <1>17, <1>b DEF AdminAnswers
  <2>2. UNCHANGED <<installed, walletActive, net, walletKept, connection, accountsKnown,
                    selectedIndex, balanceOf, walletOps, connecting, walletError,
                    sessionExpired, walletCount>>
    BY <1>17 DEF AdminAnswers
  <2> QED BY <1>0, <1>1, <1>b, <2>1, <2>2
<1>18. CASE UNCHANGED walletVars
  BY <1>0, <1>1, <1>b, <1>18 DEF walletVars, guardVars
<1> QED BY <1>5, <1>6, <1>8, <1>9, <1>10, <1>11, <1>12, <1>13, <1>14, <1>15, <1>16, <1>17, <1>18
  DEF WalletNext

-----------------------------------------------------------------------------
(* Filters name kinds, pages count from one, and what is drawn fits one    *)
(* page.                                                                   *)
Filters == Kinds \cup {All}
Pages == Nat \ {0}
Gets == [page : Pages, filter : Filters, optimistic : BOOLEAN, clears : BOOLEAN]

GetsBag(b) == IsABag(b) /\ DOMAIN b \subseteq Gets

DeskShape ==
  /\ AdminTypeOK
  /\ GetsBag(requests)
  /\ total \in Nat /\ rows \in Seq(Kinds)
  /\ job \in [page : Nat, pages : Nat, filter : Filters, rows : Nat]

(* Bags of requests: just one, one more, one fewer.                        *)
LEMMA GetsOne == ASSUME NEW r \in Gets PROVE GetsBag(SetToBag({r}))
BY DEF GetsBag, IsABag, SetToBag

LEMMA GetsPut ==
  ASSUME NEW b, GetsBag(b), NEW r \in Gets
  PROVE  GetsBag(b (+) SetToBag({r})) /\ GetsBag(b (-) SetToBag({r}))
<1> DEFINE one == SetToBag({r})
<1>1. DOMAIN one = {r} /\ one[r] = 1 /\ \A e \in {r} : one[e] = 1
  BY DEF SetToBag
<1>2. /\ b = [e \in DOMAIN b |-> b[e]] /\ \A e \in DOMAIN b : b[e] \in Nat /\ b[e] > 0
      /\ DOMAIN b \subseteq Gets
  BY DEF GetsBag, IsABag
<1> HIDE DEF one
<1>4. GetsBag(b (+) one)
  BY <1>1, <1>2 DEF GetsBag, IsABag, (+)
<1>5. GetsBag(b (-) one)
  BY <1>1, <1>2 DEF GetsBag, IsABag, (-)
<1> QED BY <1>4, <1>5 DEF one

(* What the GET handler answers.                                           *)
LEMMA PageAnswered ==
  ASSUME adminLog \in Seq(Kinds), NEW page \in Pages, NEW filter \in Filters
  PROVE  LET answer == PageOf(page, filter)
         IN  /\ answer.page \in Pages /\ answer.pages \in Pages /\ answer.total \in Nat
             /\ answer.rows \in Seq(Kinds)
             /\ Len(answer.rows) <= PageRows /\ Len(answer.rows) <= answer.total
<1> DEFINE found == IF filter = All THEN adminLog ELSE Filtered(adminLog, {filter})
           pageCount == IF found = <<>> THEN 1 ELSE (Len(found) + PageRows - 1) \div PageRows
           at == IF page > pageCount THEN pageCount ELSE page
           last == IF at * PageRows < Len(found) THEN at * PageRows ELSE Len(found)
           first == (at - 1) * PageRows + 1
           drawn == SubSeq(found, first, last)
<1>1. PageRows \in Nat /\ PageRows >= 1 /\ page \in Nat /\ page >= 1
  BY DeskAssumption DEF Pages
<1>2. found \in Seq(Kinds)
  BY FilteredType
<1>3. PageOf(page, filter) = [page |-> at, total |-> Len(found), pages |-> pageCount, rows |-> drawn]
  BY DEF PageOf
<1> HIDE DEF found
<1>4. Len(found) \in Nat
  BY <1>2
<1>5. pageCount \in Nat /\ pageCount >= 1
  <2>1. CASE found = <<>>
    BY <2>1
  <2>2. CASE found # <<>>
    <3>1. Len(found) >= 1
      BY <1>2, <2>2
    <3> DEFINE n == Len(found) + PageRows - 1
               q == n \div PageRows
    <3>2. n \in Nat /\ n >= PageRows
      BY <1>1, <1>4, <3>1
    <3> HIDE DEF n
    <3>3. q \in Nat /\ q >= 1
      BY <1>1, <3>2
    <3> QED BY <2>2, <3>3 DEF n
  <2> QED BY <2>1, <2>2
<1> HIDE DEF pageCount
<1>6. at \in Nat /\ at >= 1
  BY <1>1, <1>5
<1> HIDE DEF at
<1>7. (at - 1) * PageRows + PageRows = at * PageRows /\ (at - 1) * PageRows \in Nat /\ at * PageRows \in Nat
  BY <1>1, <1>6
<1>8. /\ first \in Nat /\ first >= 1 /\ last \in Nat
      /\ last <= Len(found) /\ last <= first + PageRows - 1
  BY <1>1, <1>4, <1>7
<1> HIDE DEF first, last
<1>9. \A i \in first .. last : found[i] \in Kinds
  <2>1. \A i \in first .. last : i \in 1 .. Len(found)
    BY <1>4, <1>8
  <2> QED BY <1>2, <2>1
<1>10. drawn \in Seq(Kinds) /\ Len(drawn) = IF first <= last THEN last - first + 1 ELSE 0
  BY <1>8, <1>9, SubSeqProperties
<1>11. Len(drawn) <= PageRows /\ Len(drawn) <= Len(found)
  BY <1>1, <1>4, <1>8, <1>10
<1> HIDE DEF drawn
<1>12. at \in Pages /\ pageCount \in Pages
  BY <1>5, <1>6 DEF Pages
<1> QED BY <1>3, <1>4, <1>10, <1>11, <1>12

LEMMA DeskShapeStarts == AdminInit => DeskShape
<1> SUFFICES ASSUME AdminInit PROVE DeskShape
  OBVIOUS
<1>1. Entries \in Seq(Kinds) /\ PageRows \in Nat \ {0} /\ MaxDeskMoves \in Nat
  BY DeskAssumption
<1>2. Get(1, All, FALSE, FALSE) \in Gets
  BY DEF Get, Gets, Pages, Filters
<1>3. GetsBag(requests)
  BY <1>2, GetsOne DEF AdminInit
<1>4. Len(<<>>) = 0 /\ <<>> \in Seq(Kinds)
  OBVIOUS
<1>5. /\ guess \in [page : Nat, filter : Kinds \cup {All}]
      /\ job \in [page : Nat, pages : Nat, filter : Filters, rows : Nat]
      /\ job.page \in Nat /\ job.rows \in Nat
  BY DEF AdminInit, NoGuess, NoJob, Filters
<1>6. dialog \in [open : BOOLEAN, typed : BOOLEAN, confirming : BOOLEAN]
  BY DEF AdminInit
<1>7. /\ secret \in BOOLEAN /\ allowlist \in Verdicts
      /\ adminLog \in {Entries, <<>>}
      /\ deskPage \in Nat \ {0} /\ deskFilter \in Kinds \cup {All}
      /\ totalPages \in Nat \ {0} /\ total \in Nat /\ rows \in Seq(Kinds)
      /\ Len(rows) <= PageRows /\ Len(rows) <= total
  BY <1>1, <1>4 DEF AdminInit
<1>8. deskLoading \in BOOLEAN /\ deskError \in BOOLEAN
  BY DEF AdminInit
<1>9. /\ deleting \in Kinds \cup {All, "no"}
      /\ recon \in {"loading", "shown", "none"}
      /\ deskMoves \in 0..MaxDeskMoves
  BY <1>1 DEF AdminInit
<1>10. IsABag(requests)
  BY <1>3 DEF GetsBag
<1> QED BY <1>3, <1>5, <1>6, <1>7, <1>8, <1>9, <1>10 DEF DeskShape, AdminTypeOK

LEMMA DeskShapeStays == DeskShape /\ [AdminNext]_adminVars => DeskShape'
<1> SUFFICES ASSUME DeskShape, [AdminNext]_adminVars PROVE DeskShape'
  OBVIOUS
<1> DEFINE Jobs == [page : Nat, pages : Nat, filter : Filters, rows : Nat]
           Guesses == [page : Nat, filter : Filters]
           Dialogs3 == [open : BOOLEAN, typed : BOOLEAN, confirming : BOOLEAN]
           Drawn(rs, n, m) == /\ rs \in Seq(Kinds) /\ n \in Nat /\ m \in Pages
                              /\ Len(rs) <= PageRows /\ Len(rs) <= n
<1>0. /\ MaxDeskMoves \in Nat /\ deskMoves \in 0 .. MaxDeskMoves
      /\ adminLog \in {Entries, <<>>} /\ adminLog \in Seq(Kinds)
      /\ deskPage \in Pages /\ deskFilter \in Filters /\ guess \in Guesses /\ job \in Jobs
      /\ deleting \in Filters \cup {"no"} /\ recon \in {"loading", "shown", "none"}
      /\ GetsBag(requests) /\ allowlist \in Verdicts
  <2>1. Entries \in Seq(Kinds) /\ MaxDeskMoves \in Nat
    BY DeskAssumption
  <2>2. adminLog \in {Entries, <<>>}
    BY DEF DeskShape, AdminTypeOK
  <2>3. adminLog \in Seq(Kinds)
    <3>1. CASE adminLog = Entries
      BY <2>1, <3>1
    <3>2. CASE adminLog = <<>>
      BY <3>2, EmptySeq
    <3> QED BY <2>2, <3>1, <3>2
  <2> QED BY <2>1, <2>2, <2>3 DEF DeskShape, AdminTypeOK, Pages, Filters
<1>b. /\ secret \in BOOLEAN /\ deskLoading \in BOOLEAN /\ deskError \in BOOLEAN
      /\ dialog \in Dialogs3
  BY DEF DeskShape, AdminTypeOK
<1>d. Drawn(rows, total, totalPages)
  BY DEF DeskShape, AdminTypeOK, Pages
<1>1. ASSUME secret' \in BOOLEAN, allowlist' \in Verdicts, adminLog' \in {Entries, <<>>},
             deskPage' \in Pages, deskFilter' \in Filters, Drawn(rows', total', totalPages'),
             deskLoading' \in BOOLEAN, deskError' \in BOOLEAN, guess' \in Guesses,
             GetsBag(requests'), job' \in Jobs, dialog' \in Dialogs3,
             deleting' \in Filters \cup {"no"}, recon' \in {"loading", "shown", "none"},
             deskMoves' \in 0 .. MaxDeskMoves
      PROVE  DeskShape'
  <2>1. IsABag(requests')
    BY <1>1 DEF GetsBag
  <2>2. job'.page \in Nat /\ job'.rows \in Nat
    BY <1>1
  <2>3. deleting' \in Kinds \cup {All, "no"} /\ guess' \in [page : Nat, filter : Kinds \cup {All}]
    BY <1>1 DEF Filters
  <2>4. AdminTypeOK'
    BY <1>1, <2>1, <2>2, <2>3 DEF AdminTypeOK, Pages, Filters
  <2> QED BY <1>1, <2>4 DEF DeskShape
<1>2. ASSUME Click PROVE deskMoves' \in 0 .. MaxDeskMoves
  BY <1>0, <1>2 DEF Click
<1> HIDE DEF Jobs, Guesses, Dialogs3, Drawn
<1>3. ASSUME NEW p \in Pages, NEW f \in Filters, NEW b, GetsBag(b), PageEffect(p, f, b)
      PROVE  deskPage' \in Pages /\ deskFilter' \in Filters /\ GetsBag(requests')
  <2>1. Get(p, f, FALSE, FALSE) \in Gets
    BY DEF Get, Gets
  <2>2. GetsBag(b (+) SetToBag({Get(p, f, FALSE, FALSE)}))
    BY <1>3, <2>1, GetsPut
  <2> QED BY <1>3, <2>2 DEF PageEffect
<1>4. ASSUME NEW p \in Pages, NEW f \in Filters, Ask(p, f) PROVE DeskShape'
  <2>1. Get(p, f, TRUE, FALSE) \in Gets
    BY DEF Get, Gets
  <2>2. GetsBag(requests (+) SetToBag({Get(p, f, TRUE, FALSE)}))
    BY <1>0, <2>1, GetsPut
  <2>3. deskPage' \in Pages /\ deskFilter' \in Filters /\ GetsBag(requests')
    BY <1>3, <1>4, <2>2 DEF Ask
  <2>4. guess' \in Guesses /\ deskMoves' \in 0 .. MaxDeskMoves
    BY <1>2, <1>4 DEF Ask, Guesses, Pages
  <2>5. deskLoading' \in BOOLEAN /\ deskError' \in BOOLEAN
    BY <1>4 DEF Ask
  <2>6. UNCHANGED <<secret, allowlist, adminLog, rows, total, totalPages, job, dialog, deleting, recon>>
    BY <1>4 DEF Ask, served, answerVars, exportVars, dialogVars
  <2>7. Drawn(rows', total', totalPages')
    BY <1>d, <2>6
  <2> QED BY <1>0, <1>1, <1>b, <2>3, <2>4, <2>5, <2>6, <2>7
<1>5. CASE HandlePageChange
  <2>1. PageShown \in Pages /\ totalPages \in Pages
    BY <1>0, <1>d DEF PageShown, Guesses, Pages, Drawn
  <2>2. PageShown + 1 \in Pages /\ (PageShown > 1 => PageShown - 1 \in Pages)
    BY <2>1 DEF Pages
  <2> QED BY <1>0, <1>4, <1>5, <2>2 DEF HandlePageChange
<1>6. ASSUME NEW k \in Kinds \cup {All}, HandleFilterChange(k) PROVE DeskShape'
  <2>1. k \in Filters /\ 1 \in Pages
    BY DEF Filters, Pages
  <2> QED BY <1>4, <1>6, <2>1 DEF HandleFilterChange
<1>7. ASSUME NEW r \in BagToSet(requests), RequestSettled(r)
      PROVE  /\ r \in Gets /\ GetsBag(requests (-) SetToBag({r})) /\ guess' \in Guesses
             /\ dialog' \in Dialogs3
             /\ UNCHANGED <<secret, allowlist, adminLog, job, deleting, recon, deskMoves>>
  <2>1. r \in Gets
    BY <1>0 DEF GetsBag, BagToSet
  <2>2. GetsBag(requests (-) SetToBag({r}))
    BY <1>0, <2>1, GetsPut
  <2>3. NoGuess \in Guesses
    BY DEF NoGuess, Guesses, Filters
  <2>4. [dialog EXCEPT !.confirming = FALSE] \in Dialogs3
    BY <1>b DEF Dialogs3
  <2>5. guess' \in {NoGuess, guess} /\ dialog' \in {dialog, [dialog EXCEPT !.confirming = FALSE]}
    BY <1>7 DEF RequestSettled
  <2>6. UNCHANGED <<secret, allowlist, adminLog, job, deleting, recon, deskMoves>>
    BY <1>7 DEF RequestSettled, served, exportVars
  <2> QED BY <1>0, <1>b, <2>1, <2>2, <2>3, <2>4, <2>5, <2>6
<1>8. ASSUME NEW r \in BagToSet(requests), AuditArrives(r) PROVE DeskShape'
  <2> DEFINE answer == PageOf(r.page, r.filter)
  <2>1. RequestSettled(r)
    BY <1>8 DEF AuditArrives
  <2>2. /\ r \in Gets /\ GetsBag(requests (-) SetToBag({r})) /\ guess' \in Guesses
        /\ dialog' \in Dialogs3
        /\ UNCHANGED <<secret, allowlist, adminLog, job, deleting, recon, deskMoves>>
    BY <1>7, <2>1
  <2>3. r.page \in Pages /\ r.filter \in Filters
    BY <2>2 DEF Gets
  <2>4. /\ answer.page \in Pages /\ answer.pages \in Pages /\ answer.total \in Nat
        /\ answer.rows \in Seq(Kinds)
        /\ Len(answer.rows) <= PageRows /\ Len(answer.rows) <= answer.total
    BY <1>0, <2>3, PageAnswered
  <2> HIDE DEF answer
  <2>5. /\ rows' = answer.rows /\ total' = answer.total /\ totalPages' = answer.pages
        /\ PageEffect(answer.page, deskFilter, requests (-) SetToBag({r}))
    BY <1>8 DEF AuditArrives, answer
  <2>6. deskLoading' \in BOOLEAN /\ deskError' \in BOOLEAN
    BY <1>8, <1>b DEF AuditArrives
  <2>7. deskPage' \in Pages /\ deskFilter' \in Filters /\ GetsBag(requests')
    BY <1>0, <1>3, <2>2, <2>4, <2>5
  <2>8. Drawn(rows', total', totalPages')
    BY <2>4, <2>5 DEF Drawn
  <2> QED BY <1>0, <1>1, <1>b, <2>2, <2>6, <2>7, <2>8
<1>9. ASSUME NEW r \in BagToSet(requests), AuditFails(r) PROVE DeskShape'
  <2>1. RequestSettled(r)
    BY <1>9 DEF AuditFails
  <2>2. /\ GetsBag(requests (-) SetToBag({r})) /\ guess' \in Guesses
        /\ dialog' \in Dialogs3
        /\ UNCHANGED <<secret, allowlist, adminLog, job, deleting, recon, deskMoves>>
    BY <1>7, <2>1
  <2>3. requests' = requests (-) SetToBag({r}) /\ deskLoading' = FALSE /\ deskError' = TRUE
        /\ UNCHANGED <<deskPage, deskFilter, rows, total, totalPages>>
    BY <1>9 DEF AuditFails, answerVars
  <2>4. Drawn(rows', total', totalPages')
    BY <1>d, <2>3
  <2> QED BY <1>0, <1>1, <1>b, <2>2, <2>3, <2>4
(* the rest leaves the page, its answers and the log's kind alone          *)
<1>10. ASSUME UNCHANGED <<secret, allowlist, deskPage, deskFilter, rows, total, totalPages, guess>>,
              deskLoading' \in BOOLEAN, deskError' \in BOOLEAN, adminLog' \in {adminLog, <<>>},
              GetsBag(requests'), job' \in Jobs, dialog' \in Dialogs3,
              deleting' \in Filters \cup {"no"}, recon' \in {"loading", "shown", "none"},
              deskMoves' \in 0 .. MaxDeskMoves
       PROVE  DeskShape'
  <2>1. Drawn(rows', total', totalPages')
    BY <1>d, <1>10
  <2>2. adminLog' \in {Entries, <<>>}
    BY <1>0, <1>10
  <2> QED BY <1>0, <1>1, <1>b, <1>10, <2>1, <2>2
<1> USE DEF served, answerVars, exportVars, dialogVars
<1>11. CASE StartExport
  <2>1. job' \in Jobs
    BY <1>0, <1>d, <1>11 DEF StartExport, Jobs, Drawn, Pages
  <2>2. UNCHANGED <<secret, allowlist, deskPage, deskFilter, rows, total, totalPages, guess,
                    deskLoading, deskError, adminLog, requests, dialog, deleting, recon>>
    BY <1>11 DEF StartExport
  <2> QED BY <1>0, <1>2, <1>b, <1>10, <1>11, <2>1, <2>2 DEF StartExport
<1>12. CASE ExportPage
  <2>1. job.page \in Pages /\ job.filter \in Filters
    BY <1>0, <1>12 DEF ExportPage, Jobs, Pages
  <2>2. PageOf(job.page, job.filter).rows \in Seq(Kinds)
    BY <1>0, <2>1, PageAnswered
  <2> DEFINE got == job.rows + Len(PageOf(job.page, job.filter).rows)
  <2>3. got \in Nat
    BY <1>0, <2>2 DEF Jobs
  <2> HIDE DEF got
  <2>4. job' = IF job.page < job.pages THEN [job EXCEPT !.page = @ + 1, !.rows = got] ELSE NoJob
    BY <1>12 DEF ExportPage, got
  <2>5. NoJob \in Jobs
    BY DEF NoJob, Jobs, Filters
  <2>6. [job EXCEPT !.page = @ + 1, !.rows = got] \in Jobs
    <3> DEFINE next == job.page + 1
    <3>1. next \in Nat
      BY <1>0 DEF Jobs
    <3>2. [job EXCEPT !.page = @ + 1, !.rows = got] = [job EXCEPT !.page = next, !.rows = got]
      OBVIOUS
    <3> HIDE DEF next
    <3>3. [job EXCEPT !.page = next, !.rows = got] \in Jobs
      BY <1>0, <2>3, <3>1 DEF Jobs
    <3> QED BY <3>2, <3>3
  <2>7. job' \in Jobs
    BY <2>4, <2>5, <2>6
  <2>8. UNCHANGED <<secret, allowlist, deskPage, deskFilter, rows, total, totalPages, guess,
                    deskLoading, deskError, adminLog, requests, dialog, deleting, recon, deskMoves>>
    BY <1>12 DEF ExportPage
  <2> QED BY <1>0, <1>b, <1>10, <2>7, <2>8
<1>13. CASE ExportFails
  <2>1. job' \in Jobs
    BY <1>13 DEF ExportFails, NoJob, Jobs, Filters
  <2>2. deskError' = TRUE
        /\ UNCHANGED <<secret, allowlist, deskPage, deskFilter, rows, total, totalPages, guess,
                       deskLoading, adminLog, requests, dialog, deleting, recon, deskMoves>>
    BY <1>13 DEF ExportFails
  <2> QED BY <1>0, <1>b, <1>10, <2>1, <2>2
<1>14. CASE ExportMarkEnds
  <2>1. UNCHANGED <<secret, allowlist, deskPage, deskFilter, rows, total, totalPages, guess, job,
                    deskLoading, deskError, adminLog, requests, dialog, deleting, recon, deskMoves>>
    BY <1>14 DEF ExportMarkEnds
  <2> QED BY <1>0, <1>b, <1>10, <2>1
<1>15. CASE OpenClearDialog
  <2>1. dialog' \in Dialogs3
    BY <1>b, <1>15 DEF OpenClearDialog, Dialogs3
  <2>2. UNCHANGED <<secret, allowlist, deskPage, deskFilter, rows, total, totalPages, guess, job,
                    deskLoading, deskError, adminLog, requests, deleting, recon>>
    BY <1>15 DEF OpenClearDialog
  <2> QED BY <1>0, <1>2, <1>b, <1>10, <1>15, <2>1, <2>2 DEF OpenClearDialog
<1>16. CASE DialogMoves
  <2>1. dialog' \in Dialogs3
    BY <1>b, <1>16 DEF DialogMoves, Dialogs3
  <2>2. UNCHANGED <<secret, allowlist, deskPage, deskFilter, rows, total, totalPages, guess, job,
                    deskLoading, deskError, adminLog, requests, deleting, recon, deskMoves>>
    BY <1>16 DEF DialogMoves
  <2> QED BY <1>0, <1>b, <1>10, <2>1, <2>2
<1>17. CASE HandleClearAuditLogs
  <2>1. dialog' \in Dialogs3
    BY <1>b, <1>17 DEF HandleClearAuditLogs, Dialogs3
  <2>2. deleting' = deskFilter
        /\ UNCHANGED <<secret, allowlist, deskPage, deskFilter, rows, total, totalPages, guess, job,
                       deskLoading, deskError, adminLog, requests, recon, deskMoves>>
    BY <1>17 DEF HandleClearAuditLogs
  <2> QED BY <1>0, <1>b, <1>10, <2>1, <2>2
<1>18. CASE LogsCleared
  <2>1. dialog' \in Dialogs3
    BY <1>b, <1>18 DEF LogsCleared, Dialogs3
  <2>2. deleting \in Filters /\ 1 \in Pages
    BY <1>0, <1>18 DEF LogsCleared, Pages
  <2>3. Get(1, deleting, FALSE, TRUE) \in Gets
    BY <2>2 DEF Get, Gets
  <2>4. GetsBag(requests')
    BY <1>0, <1>18, <2>3, GetsPut DEF LogsCleared
  <2>5. /\ adminLog' = <<>> /\ deleting' = "no" /\ deskLoading' = TRUE /\ deskError' = FALSE
        /\ UNCHANGED <<secret, allowlist, deskPage, deskFilter, rows, total, totalPages, guess, job,
                       recon, deskMoves>>
    BY <1>18 DEF LogsCleared
  <2> QED BY <1>0, <1>10, <2>1, <2>4, <2>5
<1>19. CASE ClearFails
  <2>1. dialog' \in Dialogs3
    BY <1>b, <1>19 DEF ClearFails, Dialogs3
  <2>2. /\ deleting' = "no" /\ deskError' = TRUE
        /\ UNCHANGED <<secret, allowlist, deskPage, deskFilter, rows, total, totalPages, guess, job,
                       deskLoading, adminLog, requests, recon, deskMoves>>
    BY <1>19 DEF ClearFails
  <2> QED BY <1>0, <1>b, <1>10, <2>1, <2>2
<1>20. ASSUME NEW ok \in BOOLEAN, MetricsArrive(ok) PROVE DeskShape'
  <2>1. recon' \in {"loading", "shown", "none"}
    BY <1>0, <1>20 DEF MetricsArrive
  <2>2. UNCHANGED <<secret, allowlist, deskPage, deskFilter, rows, total, totalPages, guess, job,
                    deskLoading, deskError, adminLog, requests, dialog, deleting, deskMoves>>
    BY <1>20 DEF MetricsArrive
  <2> QED BY <1>0, <1>b, <1>10, <2>1, <2>2
<1>21. CASE UNCHANGED adminVars
  <2>1. UNCHANGED <<secret, allowlist, deskPage, deskFilter, rows, total, totalPages, guess, job,
                    deskLoading, deskError, adminLog, requests, dialog, deleting, recon, deskMoves>>
    BY <1>21 DEF adminVars
  <2> QED BY <1>0, <1>b, <1>10, <2>1
<1> QED BY <1>5, <1>6, <1>8, <1>9, <1>11, <1>12, <1>13, <1>14, <1>15, <1>16, <1>17, <1>18, <1>19,
           <1>20, <1>21 DEF AdminNext

-----------------------------------------------------------------------------
(* No list holds more people than were ever added, nor one of them twice.  *)
PeopleOf(list, n) ==
  /\ list \in Seq(Person) /\ Len(list) <= n
  /\ \A i \in 1 .. Len(list) : list[i].id <= n
  /\ \A i, j \in 1 .. Len(list) : list[i].id = list[j].id => i = j

WatchOf(list) == list \in Seq(Watchable) /\ IsInjective(list)

PeopleShape ==
  /\ lists \in [Places -> Seq(Person)] /\ \A p \in Places : PeopleOf(lists[p], peopleCount)
  /\ PeopleOf(storedList, peopleCount)
  /\ cursor \in [Places -> 0 .. PeopleMax] /\ peopleCount \in 0 .. PeopleMax
  /\ personForm \in [open : BOOLEAN, editing : 0 .. PeopleMax]

WatchShape ==
  /\ watched \in [Places -> Seq(Watchable)] /\ \A p \in Places : WatchOf(watched[p])
  /\ WatchOf(storedWatch)

PrefsShape ==
  /\ prefs \in [threshold : Nat \ {0}, twoFactor : BOOLEAN]
  /\ storedPrefs \in [threshold : Nat, twoFactor : {"absent", "true", "false"}]

PreferencesShape == PeopleShape /\ WatchShape /\ PrefsShape /\ visits \in 0 .. MaxVisits

LEMMA PreferencesHaveShape == PreferencesShape => PreferencesTypeOK
<1> SUFFICES ASSUME PreferencesShape PROVE PreferencesTypeOK
  OBVIOUS
<1>1. ASSUME NEW p \in Places
      PROVE  /\ IsInjective([i \in DOMAIN lists[p] |-> lists[p][i].id])
             /\ \A i \in DOMAIN lists[p] : lists[p][i] \in Person
  <2>1. lists[p] \in Seq(Person) /\ DOMAIN lists[p] = 1 .. Len(lists[p])
    BY DEF PreferencesShape, PeopleShape, PeopleOf
  <2>2. \A i, j \in 1 .. Len(lists[p]) : lists[p][i].id = lists[p][j].id => i = j
    BY DEF PreferencesShape, PeopleShape, PeopleOf
  <2> QED BY <2>1, <2>2 DEF IsInjective
<1>2. \A i \in DOMAIN storedList : storedList[i] \in Person
  BY DEF PreferencesShape, PeopleShape, PeopleOf
<1>3. /\ \A p \in Places : watched[p] \in Seq(Watchable) /\ IsInjective(watched[p])
      /\ storedWatch \in Seq(Watchable)
  BY DEF PreferencesShape, WatchShape, WatchOf
<1>4. prefs.threshold > 0 /\ prefs.twoFactor \in BOOLEAN /\ storedPrefs.twoFactor \in {"absent", "true", "false"}
  BY DEF PreferencesShape, PrefsShape
<1> QED BY <1>1, <1>2, <1>3, <1>4 DEF PreferencesShape, PeopleShape, PreferencesTypeOK

LEMMA PreferencesShapeStarts == PreferencesInit => PreferencesShape
<1> SUFFICES ASSUME PreferencesInit PROVE PreferencesShape
  OBVIOUS
<1>1. PeopleMax \in Nat /\ MaxVisits \in Nat
  BY PreferencesAssumption
<1>2. <<>> \in Seq(Person) /\ Len(<<>>) = 0 /\ <<>> \in Seq(Watchable) /\ DOMAIN <<>> = {}
  OBVIOUS
<1>3. PeopleOf(<<>>, 0)
  BY <1>2 DEF PeopleOf
<1>4. WatchOf(<<>>)
  BY <1>2 DEF WatchOf, IsInjective
<1>5. PeopleShape
  <2>1. lists \in [Places -> Seq(Person)] /\ \A p \in Places : PeopleOf(lists[p], peopleCount)
    BY <1>2, <1>3 DEF PreferencesInit
  <2> QED BY <1>1, <1>3, <2>1 DEF PreferencesInit, PeopleShape, NoForm
<1>6. WatchShape
  BY <1>2, <1>4 DEF PreferencesInit, WatchShape
<1>7. PrefsShape
  BY DEF PreferencesInit, PrefsShape, DefaultPrefs, NothingStored
<1> QED BY <1>1, <1>5, <1>6, <1>7 DEF PreferencesInit, PreferencesShape

(* What the handlers do to a list.                                         *)
LEMMA PersonAdded ==
  ASSUME NEW n \in 0 .. PeopleMax - 1, NEW list, PeopleOf(list, n), NEW name \in Names
  PROVE  PeopleOf(Append(list, [id |-> n + 1, name |-> name]), n + 1)
<1> DEFINE e == [id |-> n + 1, name |-> name]
           l == Append(list, e)
<1>1. PeopleMax \in Nat
  BY PreferencesAssumption
<1>2. e \in Person /\ e.id = n + 1
  BY <1>1 DEF Person
<1>3. /\ list \in Seq(Person) /\ Len(list) <= n /\ Len(list) \in Nat
      /\ \A i \in 1 .. Len(list) : list[i].id <= n /\ list[i] \in Person
  BY DEF PeopleOf
<1>4. /\ l \in Seq(Person) /\ Len(l) = Len(list) + 1
      /\ \A i \in 1 .. Len(l) : l[i] = IF i = Len(list) + 1 THEN e ELSE list[i]
  BY <1>2, <1>3
<1> HIDE DEF l, e
<1>5. \A i \in 1 .. Len(list) : list[i].id \in Nat
  BY <1>3 DEF Person
<1>6. \A i \in 1 .. Len(l) : l[i].id <= n + 1 /\ (i # Len(list) + 1 => l[i].id <= n /\ i \in 1 .. Len(list))
  BY <1>1, <1>2, <1>3, <1>4, <1>5
<1>7. ASSUME NEW i \in 1 .. Len(l), NEW j \in 1 .. Len(l), l[i].id = l[j].id PROVE i = j
  <2>1. CASE i = Len(list) + 1 /\ j = Len(list) + 1
    BY <2>1
  <2>2. CASE i = Len(list) + 1 /\ j # Len(list) + 1
    BY <1>2, <1>3, <1>4, <1>6, <1>7, <2>2
  <2>3. CASE i # Len(list) + 1 /\ j = Len(list) + 1
    BY <1>2, <1>3, <1>4, <1>6, <1>7, <2>3
  <2>4. CASE i # Len(list) + 1 /\ j # Len(list) + 1
    <3>1. i \in 1 .. Len(list) /\ j \in 1 .. Len(list) /\ list[i].id = list[j].id
      BY <1>4, <1>6, <1>7, <2>4
    <3> QED BY <3>1 DEF PeopleOf
  <2> QED BY <2>1, <2>2, <2>3, <2>4
<1>8. Len(l) <= n + 1
  BY <1>3, <1>4
<1> QED BY <1>4, <1>6, <1>7, <1>8 DEF PeopleOf, l, e

LEMMA PersonRenamed ==
  ASSUME NEW n, NEW list, PeopleOf(list, n), NEW id \in 1 .. PeopleMax, NEW name \in Names
  PROVE  PeopleOf([i \in DOMAIN list |->
                     IF list[i].id = id THEN [id |-> id, name |-> name] ELSE list[i]], n)
<1> DEFINE l == [i \in DOMAIN list |->
                   IF list[i].id = id THEN [id |-> id, name |-> name] ELSE list[i]]
<1>1. list \in Seq(Person) /\ DOMAIN list = 1 .. Len(list) /\ Len(list) \in Nat
  BY DEF PeopleOf
<1>2. ASSUME NEW i \in 1 .. Len(list) PROVE l[i] \in Person /\ l[i].id = list[i].id
  <2>0. list[i] \in Person
    BY <1>1
  <2>1. [id |-> id, name |-> name] \in Person
    BY DEF Person
  <2>2. l[i] = IF list[i].id = id THEN [id |-> id, name |-> name] ELSE list[i]
    BY <1>1
  <2> HIDE DEF l
  <2> QED BY <2>0, <2>1, <2>2
<1>3. l \in Seq(Person) /\ Len(l) = Len(list)
  BY <1>1, <1>2
<1> HIDE DEF l
<1>4. PeopleOf(l, n)
  BY <1>2, <1>3 DEF PeopleOf
<1> QED BY <1>4 DEF l

(* A list of some of its places, in their order.                           *)
LEMMA PeopleLeft ==
  ASSUME NEW n \in Nat, NEW list, PeopleOf(list, n), NEW l \in Seq(Person), NEW at,
         at \in [1 .. Len(l) -> 1 .. Len(list)], Len(l) <= Len(list),
         \A i \in 1 .. Len(l) : l[i] = list[at[i]],
         \A i, j \in 1 .. Len(l) : at[i] = at[j] => i = j
  PROVE  PeopleOf(l, n)
<1>1. Len(l) <= n
  BY DEF PeopleOf
<1>2. \A i \in 1 .. Len(l) : at[i] \in 1 .. Len(list) /\ l[i].id = list[at[i]].id
  OBVIOUS
<1>3. \A i \in 1 .. Len(l) : l[i].id <= n
  BY <1>2 DEF PeopleOf
<1>4. ASSUME NEW i \in 1 .. Len(l), NEW j \in 1 .. Len(l), l[i].id = l[j].id PROVE i = j
  <2>1. at[i] = at[j]
    BY <1>2, <1>4 DEF PeopleOf
  <2> QED BY <2>1
<1> QED BY <1>1, <1>3, <1>4 DEF PeopleOf

LEMMA PersonDeleted ==
  ASSUME NEW n \in Nat, NEW list, PeopleOf(list, n), NEW Good
  PROVE  PeopleOf(Filtered(list, Good), n)
<1> DEFINE l == Filtered(list, Good)
<1>1. list \in Seq(Person)
  BY DEF PeopleOf
<1>2. l \in Seq(Person) /\ Len(l) <= Len(list)
  BY <1>1, FilteredType
<1>3. PICK at : KeptAt(at, l, list, Good, Len(list))
  BY <1>1, FilteredPlaces
<1> HIDE DEF l
<1>4. /\ at \in [1 .. Len(l) -> 1 .. Len(list)]
      /\ \A i \in 1 .. Len(l) : l[i] = list[at[i]]
      /\ \A i, j \in 1 .. Len(l) : i < j => at[i] < at[j]
  BY <1>3 DEF KeptAt
<1>5. ASSUME NEW i \in 1 .. Len(l), NEW j \in 1 .. Len(l), at[i] = at[j] PROVE i = j
  <2>1. at[i] \in Nat /\ at[j] \in Nat
    BY <1>1, <1>4
  <2>2. ~(i < j) /\ ~(j < i)
    BY <1>4, <1>5, <2>1
  <2> QED BY <1>2, <2>2
<1>6. PeopleOf(l, n)
  BY <1>2, <1>4, <1>5, PeopleLeft
<1> QED BY <1>6 DEF l

LEMMA PersonRemoved ==
  ASSUME NEW n \in Nat, NEW list, PeopleOf(list, n), NEW k \in 1 .. Len(list)
  PROVE  PeopleOf(RemoveAt(list, k), n)
<1> DEFINE l == RemoveAt(list, k)
           m == Len(list)
<1>1. list \in Seq(Person) /\ m \in Nat /\ k \in Nat /\ m >= 1
  BY DEF PeopleOf
<1> DEFINE a == SubSeq(list, 1, k - 1)
           b == SubSeq(list, k + 1, m)
           at == [i \in 1 .. m - 1 |-> IF i < k THEN i ELSE i + 1]
<1>2. a \in Seq(Person) /\ Len(a) = k - 1 /\ \A i \in 1 .. k - 1 : a[i] = list[i]
  BY <1>1
<1>3. b \in Seq(Person) /\ Len(b) = m - k /\ \A i \in 1 .. m - k : b[i] = list[k + i]
  BY <1>1
<1>4. l = a \o b
  BY DEF RemoveAt
<1>5. /\ at \in [1 .. m - 1 -> 1 .. m]
      /\ \A i, j \in 1 .. m - 1 : at[i] = at[j] => i = j
  BY <1>1
<1>6. \A i \in 1 .. m - 1 : at[i] = IF i < k THEN i ELSE i + 1
  OBVIOUS
<1>7. k \in 1 .. m
  OBVIOUS
<1> HIDE DEF l, a, b, m, at
<1>8. l \in Seq(Person) /\ Len(l) = m - 1
  <2>1. a \o b \in Seq(Person) /\ Len(a \o b) = Len(a) + Len(b)
    BY <1>2, <1>3, ConcatProperties
  <2>2. (k - 1) + (m - k) = m - 1
    BY <1>1
  <2> QED BY <1>2, <1>3, <1>4, <2>1, <2>2
<1>9. ASSUME NEW i \in 1 .. m - 1 PROVE l[i] = list[at[i]]
  <2>1. l[i] = IF i <= k - 1 THEN a[i] ELSE b[i - (k - 1)]
    <3>1. i \in 1 .. Len(a) + Len(b)
      BY <1>1, <1>2, <1>3, <1>7
    <3>2. (a \o b)[i] = IF i <= Len(a) THEN a[i] ELSE b[i - Len(a)]
      BY <1>2, <1>3, <3>1, ConcatProperties
    <3> QED BY <1>2, <1>4, <3>2
  <2>2. CASE i < k
    BY <1>1, <1>2, <1>6, <2>1, <2>2
  <2>3. CASE ~(i < k)
    <3>1. i - (k - 1) \in 1 .. m - k /\ k + (i - (k - 1)) = i + 1
      BY <1>1, <1>7, <2>3
    <3>2. l[i] = list[k + (i - (k - 1))]
      BY <1>1, <1>3, <2>1, <2>3, <3>1
    <3> QED BY <1>6, <2>3, <3>1, <3>2
  <2> QED BY <2>2, <2>3
<1>10. /\ at \in [1 .. Len(l) -> 1 .. Len(list)] /\ Len(l) <= Len(list)
       /\ \A i \in 1 .. Len(l) : l[i] = list[at[i]]
       /\ \A i, j \in 1 .. Len(l) : at[i] = at[j] => i = j
  BY <1>1, <1>5, <1>8, <1>9, m = Len(list) DEF m
<1>11. PeopleOf(l, n)
  BY <1>8, <1>10, PeopleLeft
<1> QED BY <1>11 DEF l

(* One more person was added elsewhere.                                    *)
LEMMA PeopleCounted ==
  ASSUME NEW n \in Nat, NEW list, PeopleOf(list, n)
  PROVE  PeopleOf(list, n + 1)
<1>1. /\ Len(list) \in Nat /\ list \in Seq(Person)
      /\ \A i \in 1 .. Len(list) : list[i] \in Person
  BY DEF PeopleOf
<1>2. \A i \in 1 .. Len(list) : list[i].id \in Nat
  BY <1>1, PreferencesAssumption DEF Person
<1>3. \A i \in 1 .. Len(list) : list[i].id <= n + 1
  BY <1>2 DEF PeopleOf
<1> QED BY <1>1, <1>3 DEF PeopleOf

(* A place that changes its list leaves the lists of all places, and the   *)
(* one stored, such.                                                       *)
LEMMA PlaceSaves ==
  ASSUME PeopleShape, NEW n \in Nat, NEW p \in Places, NEW l, PeopleOf(l, n),
         n = peopleCount \/ n = peopleCount + 1,
         lists' = [lists EXCEPT ![p] = l], storedList' \in {storedList, l}
  PROVE  /\ lists' \in [Places -> Seq(Person)] /\ \A q \in Places : PeopleOf(lists'[q], n)
         /\ PeopleOf(storedList', n)
<1>1. peopleCount \in Nat
  BY PreferencesAssumption DEF PeopleShape
<1>2. \A q \in Places : PeopleOf(lists[q], n)
  BY <1>1, PeopleCounted DEF PeopleShape
<1>3. PeopleOf(storedList, n)
  BY <1>1, PeopleCounted DEF PeopleShape
<1>4. l \in Seq(Person) /\ lists \in [Places -> Seq(Person)]
  BY DEF PeopleOf, PeopleShape
<1>5. lists' \in [Places -> Seq(Person)] /\ \A q \in Places : lists'[q] \in {lists[q], l}
  BY <1>4
<1> QED BY <1>2, <1>3, <1>5

LEMMA PeopleStay == PreferencesShape /\ [PreferencesNext]_preferenceVars => PeopleShape'
<1> SUFFICES ASSUME PreferencesShape, [PreferencesNext]_preferenceVars PROVE PeopleShape'
  OBVIOUS
<1>0. /\ PeopleMax \in Nat /\ "settings" \in Places /\ "bank" \in Places
      /\ lists \in [Places -> Seq(Person)] /\ cursor \in [Places -> 0 .. PeopleMax]
      /\ peopleCount \in 0 .. PeopleMax /\ peopleCount \in Nat
      /\ personForm \in [open : BOOLEAN, editing : 0 .. PeopleMax]
  BY PreferencesAssumption DEF PreferencesShape, PeopleShape
<1>p. PeopleShape /\ PeopleOf(storedList, peopleCount) /\ \A p \in Places : PeopleOf(lists[p], peopleCount)
  BY DEF PreferencesShape, PeopleShape
<1> DEFINE ListsStay(n) == /\ lists' \in [Places -> Seq(Person)]
                           /\ \A q \in Places : PeopleOf(lists'[q], n)
                           /\ PeopleOf(storedList', n)
<1>1. ASSUME NEW p \in Places, NEW name \in Names, Added(p, name)
      PROVE  peopleCount' \in 0 .. PeopleMax /\ ListsStay(peopleCount')
  <2> DEFINE l == Append(lists[p], [id |-> peopleCount + 1, name |-> name])
  <2>1. /\ peopleCount \in 0 .. PeopleMax - 1 /\ peopleCount' = peopleCount + 1
        /\ peopleCount + 1 \in Nat /\ peopleCount + 1 \in 0 .. PeopleMax
    BY <1>0, <1>1 DEF Added
  <2>2. PeopleOf(l, peopleCount + 1)
    BY <1>p, <2>1, PersonAdded
  <2>3. lists' = [lists EXCEPT ![p] = l] /\ storedList' \in {storedList, l}
    BY <1>1 DEF Added, Saves
  <2> HIDE DEF l
  <2>4. ListsStay(peopleCount + 1)
    BY <1>p, <2>1, <2>2, <2>3, PlaceSaves
  <2> QED BY <2>1, <2>4
<1>2. ASSUME NEW p \in Places, NEW id \in 1 .. PeopleMax, NEW name \in Names, Renamed(p, id, name)
      PROVE  ListsStay(peopleCount)
  <2> DEFINE l == [i \in DOMAIN lists[p] |->
                     IF lists[p][i].id = id THEN [id |-> id, name |-> name] ELSE lists[p][i]]
  <2>1. PeopleOf(l, peopleCount)
    BY <1>p, PersonRenamed
  <2>2. lists' = [lists EXCEPT ![p] = l] /\ storedList' \in {storedList, l}
    BY <1>2 DEF Renamed
  <2> HIDE DEF l
  <2> QED BY <1>0, <1>p, <2>1, <2>2, PlaceSaves
<1>3. ASSUME NEW p \in Places, NEW id, WithoutPerson(p, id)
      PROVE  ListsStay(peopleCount)
  <2> DEFINE l == Filtered(lists[p], {b \in ToSet(lists[p]) : b.id # id})
  <2>1. PeopleOf(l, peopleCount)
    BY <1>0, <1>p, PersonDeleted
  <2>2. lists' = [lists EXCEPT ![p] = l] /\ storedList' \in {storedList, l}
    BY <1>3 DEF WithoutPerson
  <2> HIDE DEF l
  <2> QED BY <1>0, <1>p, <2>1, <2>2, PlaceSaves
<1>4. ListsStay(peopleCount) /\ UNCHANGED peopleCount => ListsStay(peopleCount')
  OBVIOUS
<1>5. UNCHANGED <<lists, storedList>> => ListsStay(peopleCount)
  BY <1>0, <1>p
<1> HIDE DEF ListsStay
<1>6. ASSUME ListsStay(peopleCount'), peopleCount' \in 0 .. PeopleMax,
             cursor' \in [Places -> 0 .. PeopleMax],
             personForm' \in [open : BOOLEAN, editing : 0 .. PeopleMax]
      PROVE  PeopleShape'
  BY <1>6 DEF PeopleShape, ListsStay
<1>7. ASSUME UNCHANGED <<lists, storedList, peopleCount>>
      PROVE  ListsStay(peopleCount') /\ peopleCount' \in 0 .. PeopleMax
  BY <1>0, <1>4, <1>5, <1>7
<1>8. NoForm \in [open : BOOLEAN, editing : 0 .. PeopleMax]
  BY <1>0 DEF NoForm
<1>9. CASE ToggleForm
  <2>1. personForm' \in [open : BOOLEAN, editing : 0 .. PeopleMax]
    BY <1>0, <1>9 DEF ToggleForm
  <2> QED BY <1>0, <1>6, <1>7, <1>9, <2>1 DEF ToggleForm
<1>10. ASSUME NEW id \in 1 .. PeopleMax, EditBeneficiary(id) PROVE PeopleShape'
  <2>1. personForm' \in [open : BOOLEAN, editing : 0 .. PeopleMax]
    BY <1>0, <1>10 DEF EditBeneficiary
  <2> QED BY <1>0, <1>6, <1>7, <1>10, <2>1 DEF EditBeneficiary
<1>11. ASSUME NEW name \in Names, SubmitForm(name) PROVE PeopleShape'
  <2>1. personForm' = NoForm /\ UNCHANGED cursor
    BY <1>11 DEF SubmitForm
  <2>2. CASE personForm.editing # 0 /\ Renamed("settings", personForm.editing, name) /\ UNCHANGED peopleCount
    <3>1. personForm.editing \in 1 .. PeopleMax
      BY <1>0, <2>2
    <3> QED BY <1>0, <1>2, <1>4, <1>6, <1>8, <2>1, <2>2, <3>1
  <2>3. CASE Added("settings", name)
    BY <1>0, <1>1, <1>6, <1>8, <2>1, <2>3
  <2> QED BY <1>11, <2>2, <2>3 DEF SubmitForm
<1>12. ASSUME NEW name \in Names, SaveBeneficiary(name) PROVE PeopleShape'
  BY <1>0, <1>1, <1>6, <1>12 DEF SaveBeneficiary
<1>13. ASSUME NEW id \in 1 .. PeopleMax, NEW name \in Names, SaveRename(id, name) PROVE PeopleShape'
  BY <1>0, <1>2, <1>4, <1>6, <1>13 DEF SaveRename
<1>14. ASSUME NEW p \in Places, NEW id \in 1 .. PeopleMax, DeleteBeneficiary(p, id) PROVE PeopleShape'
  BY <1>0, <1>3, <1>4, <1>6, <1>14 DEF DeleteBeneficiary
<1>15. ASSUME NEW key, Pressed(key) PROVE PeopleShape'
  <2>1. ASSUME NEW p \in Places
        PROVE  (CASE key = "ArrowUp" /\ cursor[p] > 1 -> cursor[p] - 1
                  [] key = "ArrowDown" /\ cursor[p] < Len(lists[p]) -> cursor[p] + 1
                  [] OTHER -> cursor[p]) \in 0 .. PeopleMax
    <3>1. cursor[p] \in 0 .. PeopleMax /\ Len(lists[p]) \in Nat /\ Len(lists[p]) <= peopleCount
      BY <1>0, <1>p DEF PeopleOf
    <3> QED BY <1>0, <3>1
  <2>2. cursor' \in [Places -> 0 .. PeopleMax]
    BY <2>1, <1>15 DEF Pressed
  <2> QED BY <1>0, <1>6, <1>7, <1>15, <2>2 DEF Pressed
<1>16. CASE PressedDelete
  <2> DEFINE Kept(p) == IF cursor[p] = 0 \/ cursor[p] > Len(lists[p]) THEN lists[p]
                        ELSE RemoveAt(lists[p], cursor[p])
  <2>1. ASSUME NEW p \in Places PROVE PeopleOf(Kept(p), peopleCount) /\ Kept(p) \in Seq(Person)
    <3>1. cursor[p] \in 0 .. PeopleMax /\ Len(lists[p]) \in Nat
      BY <1>0
    <3>2. CASE cursor[p] = 0 \/ cursor[p] > Len(lists[p])
      BY <1>0, <1>p, <3>2
    <3>3. CASE ~(cursor[p] = 0 \/ cursor[p] > Len(lists[p]))
      <4>1. cursor[p] \in 1 .. Len(lists[p])
        BY <1>0, <3>1, <3>3
      <4>2. PeopleOf(RemoveAt(lists[p], cursor[p]), peopleCount)
        BY <1>0, <1>p, <4>1, PersonRemoved
      <4>3. RemoveAt(lists[p], cursor[p]) \in Seq(Person)
        BY <4>2 DEF PeopleOf
      <4> QED BY <3>3, <4>2, <4>3
    <3> QED BY <3>2, <3>3
  <2>2. lists' = [p \in Places |-> Kept(p)] /\ \E p \in Places : storedList' = Kept(p)
    BY <1>16 DEF PressedDelete
  <2>3. UNCHANGED <<cursor, peopleCount, personForm>>
    BY <1>16 DEF PressedDelete
  <2> HIDE DEF Kept
  <2>4. ListsStay(peopleCount)
    BY <2>1, <2>2 DEF ListsStay
  <2> QED BY <1>0, <1>4, <1>6, <2>3, <2>4
<1>17. CASE Revisit
  <2>1. storedList \in Seq(Person)
    BY <1>p DEF PeopleOf
  <2>2. lists' = [p \in Places |-> storedList] /\ UNCHANGED <<storedList, peopleCount>>
    BY <1>17 DEF Revisit
  <2>3. ListsStay(peopleCount)
    BY <1>p, <2>1, <2>2 DEF ListsStay
  <2>4. cursor' \in [Places -> 0 .. PeopleMax] /\ personForm' = NoForm
    BY <1>0, <1>17 DEF Revisit
  <2> QED BY <1>0, <1>4, <1>6, <1>8, <2>2, <2>3, <2>4
<1>18. ASSUME UNCHANGED listVars PROVE PeopleShape'
  <2>1. UNCHANGED <<lists, cursor, storedList, peopleCount, personForm>>
    BY <1>18 DEF listVars
  <2> QED BY <1>0, <1>6, <1>7, <2>1
<1>19. ASSUME NEW a, AddAddress(a) \/ RemoveAddress(a) PROVE PeopleShape'
  BY <1>18, <1>19 DEF AddAddress, RemoveAddress
<1>20. ASSUME NEW t, SetThreshold(t) PROVE PeopleShape'
  BY <1>18, <1>20 DEF SetThreshold
<1>21. CASE SetTwoFactor
  BY <1>18, <1>21 DEF SetTwoFactor
<1>22. CASE UNCHANGED preferenceVars
  BY <1>18, <1>22 DEF preferenceVars
<1> QED BY <1>9, <1>10, <1>11, <1>12, <1>13, <1>14, <1>15, <1>16, <1>17, <1>19, <1>20, <1>21, <1>22
        DEF PreferencesNext

LEMMA PreferencesShapeStays == PreferencesShape /\ [PreferencesNext]_preferenceVars => PreferencesShape'
<1> SUFFICES ASSUME PreferencesShape, [PreferencesNext]_preferenceVars PROVE PreferencesShape'
  OBVIOUS
<1>0. MaxVisits \in Nat /\ "settings" \in Places /\ visits \in 0 .. MaxVisits /\ Thresholds \subseteq Nat
  BY PreferencesAssumption DEF PreferencesShape
<1>1. PeopleShape'
  BY PeopleStay
<1>w. watched \in [Places -> Seq(Watchable)] /\ WatchShape /\ WatchOf(watched["settings"])
      /\ watched["settings"] \in Seq(Watchable)
  BY <1>0 DEF PreferencesShape, WatchShape, WatchOf
<1>2. ASSUME NEW l, WatchOf(l), watched' = [watched EXCEPT !["settings"] = l],
             storedWatch' = watched'["settings"]
      PROVE  WatchShape'
  <2>1. l \in Seq(Watchable) /\ watched'["settings"] = l
    BY <1>0, <1>2, <1>w DEF WatchOf
  <2>2. watched' \in [Places -> Seq(Watchable)] /\ \A q \in Places : watched'[q] \in {watched[q], l}
    BY <1>2, <1>w, <2>1
  <2>3. \A q \in Places : WatchOf(watched'[q])
    BY <1>2, <1>w, <2>2 DEF WatchShape
  <2>4. WatchOf(storedWatch')
    BY <1>2, <2>1
  <2> QED BY <2>2, <2>3, <2>4 DEF WatchShape
<1>3. ASSUME UNCHANGED watchlistVars PROVE WatchShape'
  BY <1>3, <1>w DEF watchlistVars, WatchShape
<1>4. ASSUME UNCHANGED prefVars PROVE PrefsShape'
  BY <1>4 DEF prefVars, PrefsShape, PreferencesShape
<1>5. ASSUME NEW a \in Watchable, AddAddress(a) PROVE WatchShape'
  <2> DEFINE s == watched["settings"]
  <2>1. s \in Seq(Watchable) /\ IsInjective(s) /\ DOMAIN s = 1 .. Len(s) /\ Len(s) \in Nat
    BY <1>w DEF WatchOf
  <2>2. \A i \in 1 .. Len(s) : s[i] # a
    BY <1>5, <2>1 DEF AddAddress, Contains
  <2>3. watched' = [watched EXCEPT !["settings"] = Append(s, a)] /\ storedWatch' = watched'["settings"]
    BY <1>5 DEF AddAddress
  <2> HIDE DEF s
  <2>4. /\ Append(s, a) \in Seq(Watchable) /\ DOMAIN Append(s, a) = 1 .. Len(s) + 1
        /\ \A i \in 1 .. Len(s) + 1 : Append(s, a)[i] = IF i = Len(s) + 1 THEN a ELSE s[i]
    BY <2>1
  <2>5. ASSUME NEW i \in 1 .. Len(s) + 1, NEW j \in 1 .. Len(s) + 1, Append(s, a)[i] = Append(s, a)[j]
        PROVE  i = j
    <3>1. \A k \in 1 .. Len(s) + 1 : k # Len(s) + 1 => k \in 1 .. Len(s)
      BY <2>1
    <3>2. \A k, l \in 1 .. Len(s) : s[k] = s[l] => k = l
      BY <2>1 DEF IsInjective
    <3> QED BY <2>2, <2>4, <2>5, <3>1, <3>2
  <2>6. IsInjective(Append(s, a))
    BY <2>4, <2>5 DEF IsInjective
  <2>7. WatchOf(Append(s, a))
    BY <2>4, <2>6 DEF WatchOf
  <2> QED BY <1>2, <2>3, <2>7
<1>6. ASSUME NEW a \in Watchable, RemoveAddress(a) PROVE WatchShape'
  <2> DEFINE s == watched["settings"]
             l == Filtered(s, ToSet(s) \ {a})
  <2>1. s \in Seq(Watchable) /\ IsInjective(s)
    BY <1>w DEF WatchOf
  <2>2. watched' = [watched EXCEPT !["settings"] = l] /\ storedWatch' = watched'["settings"]
    BY <1>6 DEF RemoveAddress
  <2>3. l \in Seq(Watchable) /\ IsInjective(l)
    BY <2>1, FilteredType, FilteredDistinct
  <2>4. WatchOf(l)
    BY <2>3 DEF WatchOf
  <2> HIDE DEF l
  <2> QED BY <1>2, <2>2, <2>4
<1>7. CASE Revisit
  <2>1. storedWatch \in Seq(Watchable) /\ WatchOf(storedWatch)
    BY <1>w DEF WatchShape, WatchOf
  <2>2. WatchShape'
    BY <1>7, <2>1 DEF Revisit, WatchShape
  <2>3. visits' \in 0 .. MaxVisits
    BY <1>0, <1>7 DEF Revisit
  <2>4. PrefsShape'
    <3>1. storedPrefs.threshold \in Nat /\ storedPrefs.twoFactor \in {"absent", "true", "false"}
      BY DEF PreferencesShape, PrefsShape
    <3>2. (IF storedPrefs.threshold > 0 THEN storedPrefs.threshold ELSE DefaultPrefs.threshold) \in Nat \ {0}
      BY <3>1 DEF DefaultPrefs
    <3>3. (IF storedPrefs.twoFactor = "absent" THEN DefaultPrefs.twoFactor
           ELSE storedPrefs.twoFactor = "true") \in BOOLEAN
      BY <3>1 DEF DefaultPrefs
    <3>4. prefs' \in [threshold : Nat \ {0}, twoFactor : BOOLEAN]
      BY <1>7, <3>2, <3>3 DEF Revisit
    <3>5. UNCHANGED storedPrefs
      BY <1>7 DEF Revisit
    <3> QED BY <3>4, <3>5 DEF PreferencesShape, PrefsShape
  <2> QED BY <1>1, <2>2, <2>3, <2>4 DEF PreferencesShape
<1>8. ASSUME NEW t \in Thresholds, SetThreshold(t) PROVE PrefsShape'
  <2>1. t \in Nat \ {0}
    BY <1>0, <1>8 DEF SetThreshold
  <2> QED BY <1>8, <2>1 DEF SetThreshold, PreferencesShape, PrefsShape
<1>9. ASSUME SetTwoFactor PROVE PrefsShape'
  BY <1>9 DEF SetTwoFactor, PreferencesShape, PrefsShape
<1>10. ASSUME UNCHANGED <<watchlistVars, prefVars, visits>> PROVE PreferencesShape'
  BY <1>0, <1>1, <1>3, <1>4, <1>10 DEF PreferencesShape
<1>11. ASSUME ToggleForm \/ PressedDelete \/ (\E id \in 1 .. PeopleMax : EditBeneficiary(id))
              \/ (\E key \in {"ArrowUp", "ArrowDown"} : Pressed(key))
       PROVE  PreferencesShape'
  BY <1>10, <1>11 DEF ToggleForm, PressedDelete, EditBeneficiary, Pressed
<1>12. ASSUME NEW name \in Names, SubmitForm(name) \/ SaveBeneficiary(name)
       PROVE  PreferencesShape'
  BY <1>10, <1>12 DEF SubmitForm, SaveBeneficiary
<1>13. ASSUME NEW id, (\E name \in Names : SaveRename(id, name)) \/ (\E p \in Places : DeleteBeneficiary(p, id))
       PROVE  PreferencesShape'
  BY <1>10, <1>13 DEF SaveRename, DeleteBeneficiary
<1>14. ASSUME NEW a \in Watchable, AddAddress(a) \/ RemoveAddress(a) PROVE PreferencesShape'
  <2>1. UNCHANGED <<prefVars, visits>>
    BY <1>14 DEF AddAddress, RemoveAddress
  <2> QED BY <1>0, <1>1, <1>4, <1>5, <1>6, <1>14, <2>1 DEF PreferencesShape
<1>15. ASSUME SetTwoFactor \/ \E t \in Thresholds : SetThreshold(t) PROVE PreferencesShape'
  <2>1. UNCHANGED <<watchlistVars, visits>>
    BY <1>15 DEF SetTwoFactor, SetThreshold
  <2> QED BY <1>0, <1>1, <1>3, <1>8, <1>9, <1>15, <2>1 DEF PreferencesShape
<1>16. ASSUME UNCHANGED preferenceVars PROVE PreferencesShape'
  BY <1>10, <1>16 DEF preferenceVars
<1> QED BY <1>7, <1>11, <1>12, <1>13, <1>14, <1>15, <1>16 DEF PreferencesNext

-----------------------------------------------------------------------------
(* All parts together.                                                     *)
MoneyShape ==
  /\ scene \in MoneyScenes
  /\ TrackerInv /\ WizardShape /\ DepositInv /\ DepositFormTypeOK /\ PricesShape
  /\ MarketShape /\ ServerShape /\ AuditShape /\ DeskShape /\ StatsShape
  /\ SelectionInv /\ DrawerShape /\ WalletShape /\ PreferencesShape

LEMMA MoneyShapeTypes == MoneyShape => MoneyPartsTypeOK
<1> SUFFICES ASSUME MoneyShape PROVE MoneyPartsTypeOK
  OBVIOUS
<1>1. TrackerTypeOK /\ WizardTypeOK /\ DepositTypeOK /\ DepositFormTypeOK
  BY DEF MoneyShape, TrackerInv, WizardShape, DepositInv
<1>2. PricesTypeOK /\ MarketTypeOK /\ ServerTypeOK /\ AdminTypeOK /\ StatsTypeOK /\ WalletTypeOK
  BY DEF MoneyShape, PricesShape, MarketShape, ServerShape, DeskShape, StatsShape, WalletShape
<1>3. AuditTypeOK /\ ReceiptsTypeOK /\ PreferencesTypeOK
  BY AuditHasShape, ReceiptsHaveShape, PreferencesHaveShape DEF MoneyShape
<1> QED BY <1>1, <1>2, <1>3 DEF MoneyShape, MoneyPartsTypeOK

LEMMA MoneyShapeStarts == MCMoneyInit => MoneyShape
<1> SUFFICES ASSUME MCMoneyInit PROVE MoneyShape
  OBVIOUS
<1>1. /\ scene \in MoneyScenes /\ WizardInit /\ DepositInit /\ FormInit /\ PricesInit
      /\ MarketInit /\ ServerInit /\ AuditInit /\ AdminInit /\ StatsInit /\ ReceiptsInit
      /\ WalletInit /\ PreferencesInit
  BY DEF MCMoneyInit
<1>2. TrackerInv
  BY <1>1, TrackerStarts DEF WizardInit
<1> QED BY <1>1, <1>2, WizardShapeStarts, DepositStarts, FormShapeStarts, PricesShapeStarts,
           MarketShapeStarts, ServerShapeStarts, AuditShapeStarts, DeskShapeStarts,
           StatsShapeStarts, SelectionStarts, DrawerStarts, WalletShapeStarts,
           PreferencesShapeStarts
        DEF MoneyShape

LEMMA MoneyShapeStays == MoneyShape /\ [MCMoneyNext]_mcVars => MoneyShape'
<1> SUFFICES ASSUME MoneyShape, [MCMoneyNext]_mcVars PROVE MoneyShape'
  OBVIOUS
<1>1. [WizardNext]_wizardVars \/ (TrackerNext /\ UNCHANGED pageVars)
  BY DEF MCMoneyNext, mcVars
<1>2. /\ [DepositNext]_depositVars /\ [FormNext]_formVars /\ [PricesNext]_priceVars
      /\ [MarketNext]_marketVars /\ [ServerNext]_serverVars /\ [AuditNext]_auditVars
  BY DEF MCMoneyNext, mcVars
<1>3. /\ [AdminNext]_adminVars /\ [StatsNext]_statsVars /\ [ReceiptsNext]_receiptsVars
      /\ [WalletNext]_walletVars /\ [PreferencesNext]_preferenceVars /\ UNCHANGED scene
  BY DEF MCMoneyNext, mcVars
<1>4. TrackerInv' /\ WizardShape'
  <2>1. [TrackerNext]_trackerVars
    BY <1>1, WizardStepsTrack
  <2> QED BY <1>1, <2>1, TrackerStays, WizardShapeStays DEF MoneyShape
<1>5. /\ DepositInv' /\ DepositFormTypeOK' /\ PricesShape' /\ MarketShape' /\ ServerShape'
      /\ AuditShape'
  BY <1>2, DepositStays, FormShapeStays, PricesShapeStays, MarketShapeStays, ServerShapeStays,
     AuditShapeStays DEF MoneyShape
<1>6. /\ DeskShape' /\ StatsShape' /\ SelectionInv' /\ DrawerShape' /\ WalletShape'
      /\ PreferencesShape'
  BY <1>3, DeskShapeStays, StatsShapeStays, SelectionStays, DrawerStays, WalletShapeStays,
     PreferencesShapeStays DEF MoneyShape
<1> QED BY <1>3, <1>4, <1>5, <1>6 DEF MoneyShape

(* The state of every part of the money side keeps its shape: requests in  *)
(* flight and what their answers are applied to, across every order of the *)
(* two, for any bounds.                                                    *)
THEOREM MoneyPartsKeepShape == MCMoneySpec => []MoneyPartsTypeOK
BY MoneyShapeStarts, MoneyShapeStays, MoneyShapeTypes, PTL DEF MCMoneySpec

-----------------------------------------------------------------------------
(* What the dialog says of a payout.  The inductive invariant follows a    *)
(* reference from the transfer made under it to the payout's answer, the   *)
(* dialog's polls and its notices; a price that can be confirmed is of     *)
(* some deposit.                                                           *)
Paid == {r \in Refs : paidFor[r] # 0}

FlowGround(f) ==
  /\ f.deposit # 0
  /\ f.phase \in {"answer", "confirming"} => f.ref \in Paid /\ paidFor[f.ref] = f.deposit

NoticeGround(t) == t.outcome = "success" => t.ref \in Paid /\ paidFor[t.ref] = t.deposit

StatusGround == payoutStatus \in Final => \E r \in Paid : Reached(r, payoutStatus)

DialogInv ==
  /\ DOMAIN paidFor = Refs /\ \A r \in Paid : provider[r] # "none"
  /\ quote.live => quote.deposit # 0
  /\ \A f \in flows : FlowGround(f)
  /\ reference = 0 \/ reference \in Paid
  /\ polls \subseteq Paid
  /\ \A t \in told : NoticeGround(t)
  /\ StatusGround

LEMMA DialogStarts == WizardInit => DialogInv
BY DEF WizardInit, TrackerInit, DialogInv, Paid, NoQuote, StatusGround, Final

(* What the provider reached it does not take back.                        *)
LEMMA OutcomesLast ==
  ASSUME TrackerInv, [TrackerNext]_trackerVars, NEW r \in Refs, provider[r] # "none"
  PROVE  /\ provider'[r] # "none"
         /\ \A status \in Final : Reached(r, status) => Reached(r, status)'
<1>1. DOMAIN provider = Refs
  BY DEF TrackerInv, TrackerTypeOK
<1>2. CASE \E s \in Sessions, o \in {"answered", "lost"} : Initiate(s, o)
  <2>1. NextRef \in Refs /\ provider' = [provider EXCEPT ![NextRef] = "sent"]
    BY <1>2 DEF Initiate
  <2>2. provider[NextRef] = "none"
    BY <2>1, NextIsFresh DEF TrackerInv
  <2>3. provider'[r] = provider[r]
    BY <1>1, <2>1, <2>2
  <2> QED BY <2>3 DEF Reached
<1>3. ASSUME NEW q \in Refs, ProviderMoves(q)
      PROVE  /\ provider'[r] # "none"
             /\ \A status \in Final : Reached(r, status) => Reached(r, status)'
  BY <1>1, <1>3 DEF ProviderMoves, Reached, Final
<1>4. CASE UNCHANGED provider
  BY <1>4 DEF Reached
<1>5. CASE UNCHANGED trackerVars
  BY <1>4, <1>5 DEF trackerVars
<1>6. \/ \E s \in Sessions, o \in {"answered", "lost"} : Initiate(s, o)
      \/ \E q \in Refs : ProviderMoves(q)
      \/ UNCHANGED provider \/ UNCHANGED trackerVars
  BY DEF TrackerNext, Record, Cancel, Webhook, WebhookDone, KeyForgotten, Poll, StreamBreaks,
         StreamOpens, Restart
<1> QED BY <1>2, <1>3, <1>4, <1>5, <1>6

LEMMA DialogStays ==
  TrackerInv /\ WizardShape /\ DialogInv
    /\ ([WizardNext]_wizardVars \/ (TrackerNext /\ UNCHANGED pageVars)) => DialogInv'
<1> SUFFICES ASSUME TrackerInv, WizardShape, DialogInv,
                    [WizardNext]_wizardVars \/ (TrackerNext /\ UNCHANGED pageVars)
             PROVE  DialogInv'
  OBVIOUS
<1>1. [TrackerNext]_trackerVars
  BY WizardStepsTrack
<1>2. /\ DOMAIN paidFor = Refs /\ (\A r \in Paid : provider[r] # "none")
      /\ (quote.live => quote.deposit # 0) /\ (\A f \in flows : FlowGround(f))
      /\ (reference = 0 \/ reference \in Paid) /\ polls \subseteq Paid
      /\ (\A t \in told : NoticeGround(t)) /\ StatusGround
  BY DEF DialogInv
<1>3. quotes \subseteq 1 .. MaxDeposits /\ MaxDeposits \in Nat
      /\ flows \subseteq Payouts
  BY WizardAssumption DEF WizardShape, WizardTypeOK
(* A reference given out is new, and one given out is kept.                *)
<1> DEFINE Kept == /\ DOMAIN paidFor' = Refs /\ Paid \subseteq Paid'
                   /\ \A r \in Paid : paidFor'[r] = paidFor[r]
                   /\ \A r \in Paid' : provider'[r] # "none"
<1>4. UNCHANGED paidFor => Kept
  BY <1>1, <1>2, OutcomesLast DEF Paid
<1>5. ASSUME NEW f \in flows, NEW o, TransferMade(f, o)
      PROVE  Kept /\ NextRef \in Paid' /\ paidFor'[NextRef] = f.deposit
  <2>1. /\ NextRef \in Refs /\ paidFor' = [paidFor EXCEPT ![NextRef] = f.deposit]
        /\ provider' = [provider EXCEPT ![NextRef] = "sent"]
    BY <1>5 DEF TransferMade, Initiate
  <2>2. provider[NextRef] = "none" /\ DOMAIN provider = Refs
    BY <2>1, NextIsFresh DEF TrackerInv, TrackerTypeOK
  <2>3. NextRef \notin Paid /\ f.deposit # 0
    BY <1>2, <2>2 DEF FlowGround
  <2> QED BY <1>2, <2>1, <2>2, <2>3 DEF Paid
<1>6. ASSUME Kept PROVE /\ \A f : FlowGround(f) => FlowGround(f)'
                        /\ \A t : NoticeGround(t) => NoticeGround(t)'
                        /\ (payoutStatus' \in {payoutStatus, "pending"}) => StatusGround'
  <2>1. \A f : FlowGround(f) => FlowGround(f)'
    BY <1>6 DEF FlowGround
  <2>2. \A t : NoticeGround(t) => NoticeGround(t)'
    BY <1>6 DEF NoticeGround
  <2>3. ASSUME payoutStatus' = payoutStatus, payoutStatus \in Final PROVE StatusGround'
    <3>1. PICK r \in Paid : Reached(r, payoutStatus)
      BY <1>2, <2>3 DEF StatusGround
    <3>2. r \in Paid' /\ Reached(r, payoutStatus)'
      BY <1>1, <1>2, <1>6, <2>3, <3>1, OutcomesLast DEF Paid
    <3> QED BY <2>3, <3>2 DEF StatusGround
  <2>4. "pending" \notin Final
    BY DEF Final
  <2> QED BY <2>1, <2>2, <2>3, <2>4 DEF StatusGround
<1> HIDE DEF Kept
<1>7. ASSUME Kept, quote'.live => quote'.deposit # 0, \A f \in flows' : FlowGround(f)',
             reference' \in {reference, 0} \/ reference' \in Paid', polls' \subseteq Paid',
             \A t \in told' : NoticeGround(t)', StatusGround'
      PROVE  DialogInv'
  BY <1>2, <1>7 DEF DialogInv, Kept
(* The dialog before a payout is confirmed, and the routes.                *)
<1>8. ASSUME UNCHANGED <<flows, polls, told, paidFor>>, reference' \in {reference, 0},
             payoutStatus' \in {payoutStatus, "pending"}, quote'.live => quote'.deposit # 0
      PROVE  DialogInv'
  <2>1. Kept
    BY <1>4, <1>8
  <2>2. polls' \subseteq Paid'
    BY <1>2, <1>8, <2>1 DEF Kept
  <2> QED BY <1>2, <1>6, <1>7, <1>8, <2>1, <2>2
<1>9. CASE Fill
  <2>1. UNCHANGED <<flows, polls, told, paidFor>>
    BY <1>9 DEF Fill, OpenFor, BanksAnswer, Close, TurnPage, Turn, Verify, ChooseBank, UseSaved,
                TypeAccount, VerifyAnswer, QuoteAnswer, QuoteExpires, RefreshQuote, tracking
  <2>2. reference' \in {reference, 0} /\ payoutStatus' \in {payoutStatus, "pending"}
    BY <1>9 DEF Fill, OpenFor, BanksAnswer, Close, TurnPage, Turn, Verify, ChooseBank, UseSaved,
                TypeAccount, VerifyAnswer, QuoteAnswer, QuoteExpires, RefreshQuote, tracking
  <2>3. quote' \in {quote, NoQuote} \/ (\E d \in quotes : quote' = [deposit |-> d, live |-> TRUE])
        \/ quote' = [quote EXCEPT !.live = FALSE]
    BY <1>9 DEF Fill, OpenFor, BanksAnswer, Close, TurnPage, Turn, Verify, ChooseBank, UseSaved,
                TypeAccount, VerifyAnswer, QuoteAnswer, QuoteExpires, RefreshQuote, FetchQuote,
                prices
  <2>4. quote'.live => quote'.deposit # 0
    <3>1. ASSUME NEW d \in quotes, quote' = [deposit |-> d, live |-> TRUE]
          PROVE  quote'.deposit # 0
      BY <1>3, <3>1
    <3>2. quote' = NoQuote => ~quote'.live
      BY DEF NoQuote
    <3>3. quote' = [quote EXCEPT !.live = FALSE] => ~quote'.live
      BY DEF WizardShape
    <3> QED BY <1>2, <2>3, <3>1, <3>2, <3>3
  <2> QED BY <1>8, <2>1, <2>2, <2>4
<1>10. CASE Serve \/ UNCHANGED wizardVars \/ (TrackerNext /\ UNCHANGED pageVars)
  <2>1. UNCHANGED <<flows, polls, told, paidFor, reference, payoutStatus, quote>>
    BY <1>10 DEF Serve, wizardVars, pageVars, tracking, prices
  <2> QED BY <1>2, <1>8, <2>1
(* The payout.                                                             *)
<1>11. ASSUME Kept, UNCHANGED <<quote, polls, payoutStatus>>
       PROVE  /\ quote'.live => quote'.deposit # 0
              /\ polls' \subseteq Paid' /\ StatusGround'
              /\ \A f \in flows : FlowGround(f)'
              /\ \A t \in told : NoticeGround(t)'
              /\ reference \in {reference, 0} \/ reference \in Paid'
  BY <1>2, <1>6, <1>11 DEF Kept
<1>12. CASE Confirm
  <2>1. PICK g : /\ g = [phase |-> "recipient", deposit |-> quote.deposit, ref |-> 0]
                 /\ quote.live /\ flows' = flows \cup {g}
                 /\ UNCHANGED <<quote, polls, payoutStatus, told, reference, paidFor>>
    BY <1>12 DEF Confirm, prices
  <2>2. FlowGround(g)'
    BY <1>2, <2>1 DEF FlowGround
  <2>3. Kept
    BY <1>4, <2>1
  <2>4. \A f \in flows' : FlowGround(f)'
    <3>1. \A f \in flows : FlowGround(f)'
      BY <1>11, <2>1, <2>3
    <3> QED BY <2>1, <2>2, <3>1
  <2> QED BY <1>7, <1>11, <2>1, <2>3, <2>4
<1>13. ASSUME NEW f \in flows, RecipientMade(f) PROVE DialogInv'
  <2> DEFINE g == [f EXCEPT !.phase = "transfer"]
  <2>1. /\ flows' = (flows \ {f}) \cup {g}
        /\ UNCHANGED <<quote, polls, payoutStatus, told, reference, paidFor>>
    BY <1>13 DEF RecipientMade, prices
  <2>2. FlowGround(g)'
    <3>1. f \in Payouts /\ FlowGround(f)
      BY <1>2, <1>3
    <3> QED BY <3>1 DEF FlowGround, Payouts
  <2> HIDE DEF g
  <2>3. Kept
    BY <1>4, <2>1
  <2>4. \A h \in flows' : FlowGround(h)'
    BY <1>11, <2>1, <2>2, <2>3
  <2> QED BY <1>7, <1>11, <2>1, <2>3, <2>4
<1>14. ASSUME NEW f \in flows, NEW o, TransferMade(f, o) PROVE DialogInv'
  <2>1. PICK g : /\ g = [f EXCEPT !.phase = "answer", !.ref = NextRef]
                 /\ flows' = (flows \ {f}) \cup {g}
                 /\ UNCHANGED <<quote, polls, payoutStatus, told, reference>>
    BY <1>14 DEF TransferMade, Initiate, prices, tracking
  <2>2. Kept /\ NextRef \in Paid' /\ paidFor'[NextRef] = f.deposit
    BY <1>5, <1>14
  <2>3. FlowGround(g)'
    <3>1. f \in Payouts /\ FlowGround(f)
      BY <1>2, <1>3
    <3>2. g.deposit = f.deposit /\ g.ref = NextRef
      BY <2>1, <3>1 DEF Payouts
    <3>3. g.deposit # 0 /\ g.ref \in Paid' /\ paidFor'[g.ref] = g.deposit
      BY <2>2, <3>1, <3>2 DEF FlowGround
    <3> QED BY <3>3 DEF FlowGround
  <2>4. \A h \in flows' : FlowGround(h)'
    <3>1. \A h \in flows : FlowGround(h)'
      BY <1>11, <2>1, <2>2
    <3> QED BY <2>1, <2>3, <3>1
  <2> QED BY <1>7, <1>11, <2>1, <2>2, <2>4
<1>15. ASSUME NEW f \in flows, TransferAnswer(f) PROVE DialogInv'
  <2> DEFINE g == [f EXCEPT !.phase = "confirming"]
  <2>1. /\ flows' = (flows \ {f}) \cup {g} /\ reference' = f.ref /\ f.phase = "answer"
        /\ UNCHANGED <<quote, polls, payoutStatus, told, paidFor>>
    BY <1>15 DEF TransferAnswer, prices
  <2>2. f \in Payouts /\ FlowGround(f) /\ f.ref \in Paid /\ paidFor[f.ref] = f.deposit
    BY <1>2, <1>3, <2>1 DEF FlowGround
  <2>3. FlowGround(g)
    <3>1. g.deposit = f.deposit /\ g.ref = f.ref
      BY <2>2 DEF Payouts
    <3> HIDE DEF g
    <3> QED BY <2>2, <3>1 DEF FlowGround
  <2> HIDE DEF g
  <2>4. Kept
    BY <1>4, <2>1
  <2>5. (\A h \in flows' : FlowGround(h)') /\ reference' \in Paid'
    BY <1>6, <1>11, <2>1, <2>2, <2>3, <2>4 DEF Kept
  <2> QED BY <1>7, <1>11, <2>1, <2>4, <2>5
<1>16. ASSUME NEW f \in flows, Confirmed(f) \/ Fails(f) PROVE DialogInv'
  <2>1. PICK outcome : Tell(f, outcome) /\ (outcome = "success" => f.phase = "confirming")
    BY <1>16 DEF Confirmed, Fails
  <2> DEFINE t == [outcome |-> outcome, deposit |-> f.deposit, ref |-> f.ref]
  <2>2. told' = told \cup {t} /\ flows' = flows \ {f}
        /\ UNCHANGED <<quote, polls, payoutStatus, reference, paidFor>>
    BY <1>16, <2>1 DEF Tell, Confirmed, Fails, prices
  <2>3. NoticeGround(t)
    BY <1>2, <2>1 DEF NoticeGround, FlowGround
  <2> HIDE DEF t
  <2>4. Kept
    BY <1>4, <2>2
  <2>5. (\A n \in told' : NoticeGround(n)') /\ \A h \in flows' : FlowGround(h)'
    BY <1>6, <1>11, <2>2, <2>3, <2>4
  <2> QED BY <1>7, <1>11, <2>2, <2>4, <2>5
<1>17. CASE PollStatus
  <2>1. /\ reference # 0 /\ polls' = polls \cup {reference}
        /\ UNCHANGED <<quote, payoutStatus, told, reference, paidFor, flows>>
    BY <1>17 DEF PollStatus, prices
  <2>2. Kept
    BY <1>4, <2>1
  <2>3. polls' \subseteq Paid'
    BY <1>2, <2>1, <2>2 DEF Kept
  <2> QED BY <1>2, <1>6, <1>7, <2>1, <2>2, <2>3
<1>18. ASSUME NEW r \in polls, PollAnswer(r) PROVE DialogInv'
  <2>1. /\ polls' = polls \ {r} /\ payoutStatus' \in {StatusOf(r), payoutStatus}
        /\ UNCHANGED <<quote, told, reference, paidFor, flows, provider>>
    BY <1>18 DEF PollAnswer, prices, trackerVars
  <2>2. Kept
    BY <1>4, <2>1
  <2>3. r \in Paid /\ r \in Refs
    BY <1>2 DEF Paid
  <2>4. StatusOf(r) \in Final => Reached(r, StatusOf(r))
    BY <2>3 DEF StatusOf, TrackerInv, OutcomesAreReal, Final
  <2>5. StatusGround'
    <3>1. CASE payoutStatus' = payoutStatus
      BY <1>6, <2>2, <3>1
    <3>2. ASSUME payoutStatus' = StatusOf(r), payoutStatus' \in Final PROVE StatusGround'
      <4>1. Reached(r, payoutStatus)' /\ r \in Paid'
        BY <2>1, <2>2, <2>3, <2>4, <3>2 DEF Reached, Kept
      <4> QED BY <4>1 DEF StatusGround
    <3> QED BY <2>1, <3>1, <3>2 DEF StatusGround
  <2>6. polls' \subseteq Paid'
    BY <1>2, <2>1, <2>2 DEF Kept
  <2> QED BY <1>2, <1>6, <1>7, <2>1, <2>2, <2>5, <2>6
<1>19. CASE CancelPayout
  <2>1. UNCHANGED <<quote, polls, payoutStatus, told, reference, paidFor, flows>>
    BY <1>19 DEF CancelPayout, prices
  <2> QED BY <1>2, <1>8, <2>1
<1>20. CASE Pay
  BY <1>12, <1>13, <1>14, <1>15, <1>16, <1>17, <1>18, <1>19, <1>20 DEF Pay, Goes
<1> QED BY <1>9, <1>10, <1>20 DEF WizardNext

(* No success, failure or reversal is stored, or shown on a chat page,     *)
(* that the provider did not reach, for any number of sessions, transfers  *)
(* and restarts; the status the payout dialog polled was reached by a      *)
(* transfer of its own, and what it calls completed was at least made, for *)
(* the very deposit.                                                       *)
THEOREM OutcomesStayGrounded == MCMoneySpec => []OutcomesHaveGround
<1>1. MCMoneyInit => MoneyShape /\ DialogInv
  BY MoneyShapeStarts, DialogStarts DEF MCMoneyInit
<1>2. MoneyShape /\ DialogInv /\ [MCMoneyNext]_mcVars => (MoneyShape /\ DialogInv)'
  <2> SUFFICES ASSUME MoneyShape, DialogInv, [MCMoneyNext]_mcVars
               PROVE  (MoneyShape /\ DialogInv)'
    OBVIOUS
  <2>1. [WizardNext]_wizardVars \/ (TrackerNext /\ UNCHANGED pageVars)
    BY DEF MCMoneyNext, mcVars
  <2>2. TrackerInv /\ WizardShape
    BY DEF MoneyShape
  <2>3. DialogInv'
    BY <2>1, <2>2, DialogStays
  <2> QED BY <2>3, MoneyShapeStays
<1>3. MoneyShape /\ DialogInv => OutcomesHaveGround
  <2> SUFFICES ASSUME MoneyShape, DialogInv PROVE OutcomesHaveGround
    OBVIOUS
  <2>1. OutcomesAreReal
    BY DEF MoneyShape, TrackerInv
  <2>2. payoutStatus \in Final => \E r \in Refs : paidFor[r] # 0 /\ Reached(r, payoutStatus)
    BY DEF DialogInv, StatusGround, Paid
  <2>3. \A t \in told : t.outcome = "success" =>
          provider[t.ref] # "none" /\ paidFor[t.ref] = t.deposit
    BY DEF DialogInv, NoticeGround
  <2> QED BY <2>1, <2>2, <2>3 DEF OutcomesHaveGround
<1> QED BY <1>1, <1>2, <1>3, PTL DEF MCMoneySpec
=============================================================================

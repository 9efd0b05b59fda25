# A formal model of Stellar-Dex-Chat

TLA+ modules, TLC configurations and TLAPS proofs for Stellar-Dex-Chat. The
repository holds two programs:

- a Soroban smart contract, `FiatBridge`
  (`src/Dechat/stellar-contracts/src/lib.rs`, `math.rs`, `oracle.rs`), that takes
  token deposits, queues and pays withdrawals, limits what flows in and out,
  collects fees, and is run by an admin, operators and signers;
- a Next.js application (`src/Dechat/dex_with_fiat_frontend`), a chat that turns
  messages into deposits and bank payouts, with its API routes.

Paths below are relative to `src/Dechat/`, those of the application to
`dex_with_fiat_frontend/src/`; line numbers without a file are those of
`stellar-contracts/src/lib.rs`.

## 1. Inventory

### The contract

| part | state | operations | what makes it correct |
|---|---|---|---|
| Vault books | `TokenConfig` (`total_deposited`, `total_withdrawn`, `total_liabilities`, `limit`), `UserDeposited`, the receipt counter, the token balance | `deposit`, `withdraw`, `request_withdrawal`, `execute_withdrawal`, `cancel_withdrawal`, `reclaim_expired_withdrawal`, `check_invariants` | withdrawn <= deposited; what is reserved is what the queue asks for and never more than what is left; tokens cover the books |
| Withdrawal queue | `WithdrawQueue(id)`, `NextRequestID`, cached lengths and heads, per tier too | enqueue, remove, shrink, the two head scans, `get_next_priority_withdrawal` | cached lengths and heads equal a scan of the stored requests; the scheduler names the oldest request of the best tier |
| Rate limits | `UserDailyDeposit`, `UserDailyVolume`, `UserDailyWithdrawal`, `GlobalDailyWithdrawn`, `CircuitBreakerTripped(At)` | window roll and charge, breaker trip, auto-reset, manual reset | what really moves in any interval is bounded; a trip stops payouts for the reset window |
| Delays | temporary entries `LastDeposit`, `LastLargeDeposit` with TTLs | read on deposit, request and payout; expire | a promised wait is served in full although the entry may be evicted |
| Fee vault | `FeeVault`, the caller and legacy fee nonces | `accrue_fee`, `withdraw_fees`, `withdraw_fees_batch`, `migrate_fee_withdrawal_nonce` | a fee payout takes fees and nothing else |
| Policy | pause flag, denylist, allowlists, every limit and delay | the setters | a rule that is set is obeyed by every call that mentions it |
| Governance | `Admin`, `PendingAdmin`, `PendingRenounceLedger`, queued actions, proposals of the signers, the queued upgrade | hand-over, renunciation, timelocked actions, batches, upgrade, multisig | nothing runs without its quorum; a renounced contract has no admin again |
| Operators | list, count, cap, flags, heartbeats, nonces | `set_operator`, `set_max_operators`, `heartbeat`, pruning | list, count, cap and flags agree |
| Paged indexes | `DeniedIndex`, `TokenAllowlistIndex` and their counters | append, empty a slot, paged views | a page leaves out nobody who is on the list |
| Escrow migration | `Receipt`, `ReceiptIndex` with their TTLs, cursor, version, escrow records | receipts of `deposit`, extension by `request_withdrawal`, `migrate_escrow`, `set_migration_cursor` | no receipt that can be found is left behind; a record is its receipt's |
| Events, views | none | hashing, reads, publishing | no other operation decides on them |

A contract call is atomic: it runs alone, and one that returns `Err` or panics
leaves no trace. There are no interleavings inside a call; what is hard is
the order of calls of different actors (depositors, the admin, operators,
signers, and anybody, who may execute a request), the ledger moving
between them, the network evicting temporary entries, and settings changing
under requests that were queued with the old ones.

### The application

| part | state | what makes it correct |
|---|---|---|
| Chat session (`useChat.ts`, `chatStateMachine.ts`, `offlineMessageQueue.ts`) | machine, abort controller, spinner, offline queue in memory and in IndexedDB | a message is answered once, a queued one survives a reload, the spinner stops |
| Saved conversations (`useChatHistory.ts`, `ChatHistorySidebar.tsx`) | three copies of one localStorage entry (the page's, the chat hook's, the sidebar's), pins, undo timers | copies that overwrite each other stay coherent; only what can be undone is deleted |
| Composer, drafts, retries | box, draft per session, debounce, retry timers | a draft stays in its chat, what was sent does not come back |
| Assistant (`app/api/ai/chat`, `aiAssistant.ts`, `messageParser.ts`) | the stages of an answer, the data the conversation holds, the timer that opens the deposit dialog | the answer to a blocked message offers no payment; an amount shown, or filled in by the timer, comes from a message that gave ground for it |
| Search, masking | filters, debounce, matches | asterisks and blocks cover every term of the list, in texts whose letters keep their length in lower case; results belong to the filters |
| Page, alerts, dialogs, split view, telemetry | panels, paged lists, toasts, offline banner, focus and scroll lock, panes, consent | what the screen shows is of now, and a short list is shown whole |
| Payout tracking (`initiate-transfer`, `webhook`, `transfer-status`, `payment-status/stream`) | in-memory status map, cancelled set, replay cache, streams | no outcome stored or published is invented; a page sees its own transfers |
| Payout dialog (`BankDetailsModal.tsx`) | four steps, requests under way, locked quote | never confirms without a verified account; always comes to an end; calls a payout completed only when the provider has made a transfer for that deposit |
| Deposit dialog (`StellarFiatModal.tsx`, `stellarContract.ts`) | submission, recovery from localStorage, poll | what it calls confirmed is on chain; what was sent is settled |
| Prices, rates, ticker (`cryptoPriceService.ts`, `PriceTicker.tsx`) | cache, shared requests, locked quote | a quote in use is recent |
| API routes and limiter (`rateLimit.ts`, `app/api/*`) | window per client, open spans | a refusal is earned |
| Audit table, admin dashboard, bridge statistics | queries, retry queue, overlapping fetches | a late answer is not shown for what is asked now |
| Receipts and filters (`useTransactionFilters.ts`) | optimistic selection, URL, router | the URL ends at the last selection |
| Wallet, admin guard, preferences | connection kept for a day, copies of two lists | types and the actions above; no property of its own |

The parts of the application share one event loop, and the handlers of the
server another: a step runs undisturbed up to its next `await`, and everything
can happen there. What is hard is what comes late: an answer, a timer, a
webhook, a debounced save, an IndexedDB transaction, a page load in between.

`PROJECT.json` lists every part with its status, and every hazard at its line
with the properties that cover it.

## 2. Modules

| module | models |
|---|---|
| `WithdrawQueue` | the queue's keys as one record; `Enqueue`, `Dequeue`, `Shrink`, `Advance`, `NextPriority` on it, `Coherent` and `Backed` about it |
| `RollingLimits` | the lazily restarted 24-hour window that four counters share, and the circuit breaker |
| `FiatBridge` | every entry point that moves money, books, requests, limits or policy, the clock and evictions; `mul_div_floor` and `check_slippage` as operators |
| `Escrow` | what the vault promises, without queue, limits, clock or settings; `FiatBridge!ImplementsEscrow` is the refinement |
| `BridgeHistory` | `FiatBridge` with history variables: the running totals, ledger by ledger, of what was paid and taken in, what each depositor was last promised |
| `BridgeAdmin` | the admin's seat, timelocks, upgrade, batches, the signers' proposals, the operators, the two paged indexes |
| `EscrowMigration` | receipts and their move into escrow records; EXTENDS `BridgeAdmin`, whose admin, pause, denylist, lock and cooldown it reads |
| `ChatMachine`, `ChatSession` | the transition table as an operator; one tab of the chat over it, with sends, aborts, replays, IndexedDB and reloads |
| `SessionStore` | the saved conversations, in three mounted copies |
| `Composer`, `MessageRetry` | box and drafts; resends of a failed message |
| `Assistant` | guardrails, FAQ, parser, model, check and merge of an answer; the data collected over the conversation and the deposit dialog that opens by itself |
| `ChatSearch`, `MessageText` | the search panel; masks and excerpts as sequences of letters |
| `ChatShell`, `Alerts`, `Dialogs`, `SplitView`, `Telemetry` | the page's panels, polls and paged lists, toasts, notifications and the offline banner, modal behaviour, two panes, consent and events |
| `TransferTracker` | the payout routes and the stores they share, with the provider and the pages that stream and poll |
| `PayoutWizard` | the payout dialog, which EXTENDS the tracker and drives its routes; what its timeline and notices tell |
| `DepositModal`, `DepositForm` | a transaction signed, sent, polled, recovered and handed on; the figures of the form before that |
| `PriceQuotes`, `MarketData` | the price cache and locked quote; ticker and conversions |
| `ServerRoutes` | the rate-limited routes with their windows and spans |
| `AuditDesk`, `AdminDesk`, `BridgeStats` | the audit table over the shared retry queue, the dashboard, the bridge's figures |
| `Receipts`, `Wallet`, `Preferences` | history and filters, the wallet connection and guard, preferences and lists |
| `Lists` | `Filtered`: JavaScript's `filter` and Rust's `retain`, with the lemmas about it and about joining lists; the operators' list, the paged indexes, the records in IndexedDB, the search timers and the saved pins are filtered by it |
| `MCVault`, `MCHistory`, `MCAdmin`, `MCChat`, `MCMoney`, `MCLive` | the instances for TLC: values, scenes, scenarios, symmetry |
| `FiatBridgeProofs`, `BridgeHistoryProofs`, `AdminProofs`, `MoneyProofs`, `ChatProofs`, `ChatShapeProofs` | the proofs (section 5) |

How the contract's modules read against the code:

- `acct`, `balance`, `fees` are `TokenConfig`'s totals, the token contract's
  balance of the bridge, and the fee vault with its two nonces (`None` is an
  absent key). `cfg` is the record of every stored parameter, one field per key.
- A guard is a condition of the code, in its order, up to `Ok`; an `Err`, a panic
  (overflow checks are on) and a failing token transfer are the absence of a
  step. `check_invariants`, where the code calls it, is the guard
  `InvariantsHold(acct', balance')`, and it is absent from exactly the calls
  that do not make it: `withdraw_fees`, `withdraw_fees_batch`, `accrue_fee`,
  `reclaim_expired_withdrawal`.
- `BreakerAfter` includes the auto-reset and the volume the same call then
  charges. `withdraw` and `execute_withdrawal` charge the breaker,
  `request_withdrawal` only asks whether it is clear (1456), as the code does.
- `withdraw_fees` moves the caller's nonce by two, because two blocks of its code
  (3444-3451) each increment it. `execute_withdrawal` reads neither the denylist
  nor an expiry: neither does the action.
- In `BridgeAdmin` an admin call needs an admin, the one stored, who signs it.
  `accept_admin` keeps a queued renunciation, `execute_renounce_admin` looks at no
  pause, a batch passes over the operations that fail, a queued action does
  nothing but disappear: all as in the code. What a batch or a proposal stores
  is one value per setting; its meaning for money is `FiatBridge`'s, where the
  same settings have setters.
- `EscrowMigration` has of `deposit` and `request_withdrawal` what they do to receipts
  (`DepositReceipt`, `RequestExtendsTtls`); which of them the limits let through is
  `FiatBridge`'s. A `ReceiptIndex` entry is found up to the ledger `indexUntil` says;
  the persistent `Receipt` stays. `jumped` and `migrated` are history: what the cursor
  was set past, and how many receipts there were when the version was set.

Abstracted there: authorisation in the vault (an action is taken by whoever the
code accepts); the receipt's contents, memo, reference and events; one token,
since `init` registers one and no entry point registers another. A temporary
entry is the ledger it holds and the ledger its TTL guarantees it for; after that
it *may* be evicted at any time or stay, which is all the contract may rely on.
`None` is -1, so a fiat limit of -1 is excluded by `BridgeAssumption`. Amounts
are integers; where the code adds with a check the sum stays `<= I128_MAX` or
the call fails.

`Escrow` knows a pool, open claims and a paid total. The refinement says that
cached lengths, heads, tiers, limits, nonces and settings make no difference to
who is owed what: a deposit is `Fund`, a `withdraw` is `Spend` (and must fit the
*unreserved* pool, which the contract never checks directly), a request is `Claim`
under a fresh id, a payout is `Settle`, a cancellation or reclaim is `Abandon`, and
everything else is a stutter.

How the application's modules read against the code:

- An action is one run of the event loop, or of a handler, up to its next
  `await`; what goes on after it is kept in a set of flights, flows, requests or
  handlers, each with what its closure captured, and continues as another
  action, so that a value read before the `await` is the old one after it.
- Timers are flags that may fire at any time once set; where durations are
  compared (toasts, price ages, limiter windows) there is a clock, with bounds.
- React effects belong to the action that changes what they depend on, with
  their clean-up; a debounced function is one pending value, the last one.
- A reload keeps localStorage and IndexedDB and nothing else; a restart of the
  server loses its maps, its replay cache and its streams.
- The payout provider, the chain, the wallet extension and the language model
  are external: they answer anything their callers accept or throw, late or
  never, and the provider repeats and reorders its events.
- Texts are left out (a message is what the patterns find in it), except in
  `MessageText`, which is about places in a text.

## 3. Runs

Every property of a passing run has a mutant in `PROJECT.json`: a plausible bug
written beside the definition it replaces (marked "a wrong ..."), under which the
run finds the property violated.

| run | module | checks | what it shows |
|---|---|---|---|
| `VaultQueue` | `MCVault` | `TypeOK`, `QueueCoherent`, `ReservationsBacked`, `SchedulerSound`, `ImplementsEscrow` | requests of two users in two tiers, queued, paid whole or in part, cancelled and reclaimed in any order, with direct withdrawals between |
| `VaultTreasury` | `MCVault` | `BooksSound`, `OnlyFeesCostSolvency`, `FrozenWhileShort` | fees, donations, pause, denial and every setter; the books balance, only a fee payout opens a shortfall, and under one nothing moves but reclaims |
| `Payouts` | `MCHistory` | `BreakerBoundsOutflow`, `TripHalts`, `QuotaBoundsUser` | direct and queued payouts under a breaker or quota that is set, changed, tripped and reset |
| `Intake` | `MCHistory` | `DepositLimitsHold`, `DepositWaitsHold`, `LargeDepositHolds` | deposits under the daily and the fiat limit with a moving price; deposits, requests and payouts while delays change and entries expire |
| `Admin` | `MCAdmin` | `AdminStorageOK`, `ListsMatchFlags`, `NoneLeftBehind`, `AuthorityHolds` | hand-overs, renunciations, upgrades and batches against pauses; proposals approved, revoked and executed in any order; operators enlisted, dismissed and pruned; lists with repeated entries; receipts that expire, are extended and are added between batches, and a cursor set ahead, back and round to 0 |
| `Chat` | `MCChat` | `ChatPartsTypeOK`, `SpinnerHasRequest`, `OneAnswerEach`, `RecordOutlivesSend`, `HistoryKept`, `DraftsFollowUser`, `PaymentsAreGrounded`, `TextsAreMarkedRight`, `ScreenIsCurrent` | the fifteen parts of the chat side |
| `Money` | `MCMoney` | `MoneyPartsTypeOK`, `OwnStatusOnly`, `OutcomesHaveGround`, `ConfirmHasAccount`, `ConfirmedIsOnChain`, `LateAnswersDiscarded`, `SelectionReachesUrl`, `QuoteIsRecent`, `RefusalEarned` | the thirteen parts of the money side; the payout dialog moves together with the tracker |
| `Live` | `MCLive` | `SpinnerStops`, `QueueServed`, `PayoutSettles`, `SentSettles` | what must eventually happen, under the fairness below |
| `FeesShort` | `MCVault` | `Solvent` (violated) | a deposit, an accrued fee, a fee payout: the balance is below what the books owe |
| `DeniedPaid` | `MCVault` | `DeniedNotPaid` (violated) | a request queued before a denial is paid after it |
| `Overshoot` | `MCVault` | `BreachRejected` (violated) | the payout that passes the threshold goes through |
| `PaidOnce` | `MCMoney` | `PaidOnce` (violated) | the answer of a transfer that was made is lost, the user confirms again: one deposit is paid out twice |

Some properties join what is said of related parts: `OneAnswerEach`, `HistoryKept`,
`DraftsFollowUser`, `ScreenIsCurrent`, `LateAnswersDiscarded`, `DepositWaitsHold`,
`PaymentsAreGrounded` and `OutcomesHaveGround` are conjunctions of properties stated, with their reasons,
in the modules they are about.

### Scenes

`MCChat`, `MCMoney`, `MCLive` and `MCAdmin` compose many parts. In the first two a
variable `scene`, chosen at the start, says which part moves; the others keep one
of their initial states. The parts put together this way share no variable of
the models, so their product would show nothing more and is not explored. Where
parts do meet they move together: `PayoutWizard` with `TransferTracker`, the session
with its machine, queue and IndexedDB; in `MCAdmin` the seat with controls and
timelocks, the signers with the controls they share with the admin, the
operators with a seat that changes hands, the receipts with pauses and settings.

### Bounds, and why they are enough

Every bound is a constant of a `.cfg`, used as a guard of the action that counts.

- *Queue* (`VaultQueue`): two users, tiers {0, 2}; `U64_MAX = 3` allows three ids,
  `I128_MAX = 4` bounds what is taken in. Three requests are the least for a
  removal from the middle, and for a head whose successor is not the next id;
  tier 1 is empty, so the scheduler must skip a tier. Donations, fees and policy
  rest here: the books' part does not read them.
- *Treasury*: one user suffices, since no rule of the books compares users. At
  most one setting differs from `init`'s (`MaxChanged`), set before the first
  deposit; a denial, a pause and a fee payout come at any time. Each setter and
  each of its refusals is taken. `MaxFees = 1` and `MaxSurplus = 1` are enough to
  open, fill and reopen a shortfall.
- *Payouts*: `WINDOW = 2` ledgers stands for 17280 and `DefaultReset = 2` for the
  reset window, with a run of four ledgers: an interval that straddles two
  windows, and a reset window that ends inside the run, both happen. The reset
  window of 1 keeps the inequality `breakerReset + 1 >= WINDOW_LEDGERS` tight; the
  premise of `BreakerBoundsOutflow` is needed, since with an immediate auto-reset
  every trip buys a new window. `MaxResets = 1`.
- *Intake*: six ledgers; delays from 0 to 4, two settings changed at any time: an
  entry of TTL 1 expires and is evicted while a delay of 3 that was set later
  still counts. Or prices 0, 1, 2 and limits 2, 3, over five ledgers with a window
  of 2 (`DelayScenario`, `LimitScenario`: the contract reads no delay in charging a
  limit).
- *Admin*: three addresses, all signers, a threshold of two, two proposals: an
  approval can be taken back and given again, by another. A timelock of two
  within five ledgers lets a hand-over and a renunciation overlap in both
  orders. Two uses of a nonce, a cap of one, an inactivity of one ledger: an
  operator can be pruned inside the call that enlists another. Three index
  slots: an address listed twice and removed once. Three receipts of two users in three
  ledgers (`FewReceipts`), entries that last one more ledger, batches of none, one and
  two, a cursor word of 4: an entry expires between two batches, or is extended over the end;
  the cursor is set past receipts to come, and a refused value and one that wraps are tried.
- *Chat*: two messages and one reload (a send, a replay and a restore of the same
  message); three session ids of which two are kept (an eviction), three edits;
  three texts and two sessions; texts of three letters, two in lower case, one in upper
  case, one that is two letters long in lower case (and a space), keywords of one or two
  letters, terms that overlap;
  `MinimalCount = 1` and `AutoCount = 2` stand for the third and the fifth message, so
  that of two messages (`MaxAsked`) the second may open the deposit dialog whatever it is; two openings more than the dialogs need to nest; lists of up
  to five entries in pages of two, so that a list may need three pages and may fit
  one; two losses of the network, with a check of each under way; amounts of
  at most six digits (`LongestAmount`, which the proofs assume too). `ShellFewSides`,
  `AlertsOneSide` and `TextOneSide` keep apart effects that touch disjoint state.
- *Money*: two transfers, one restart, two sessions, two banks and accounts (an
  edit while a verification is under way); two transactions and two reopenings
  or one reload in between; limiter windows of 3 in a clock of 4, one request per
  window; quotes that live two ticks each in seven; three overlapping fetches.
  The tracker's scene follows one transfer (`OneTransfer`), the dialog's leaves
  webhooks and restarts to it (`NoHooks`); `OneHandler` and `OneMarket` leave out
  interleavings of handlers and timers that share no state.
- *Live*: one transfer, one transaction, two messages, and a user who neither
  clears nor loads a chat (`SendingNext`), which changes the machine alone.
- *Violations*: the settings of the run each stands beside, with what the story
  needs.

Deadlock is checked in the vault's runs, where some setter can always be called.
The other configurations say `CHECK_DEADLOCK FALSE`: their bounds are on what
people do, and when nobody does anything more the system rests.

### Fairness

The contract has none: a request is paid if somebody calls, and nobody has to.
In the application (`ChatFairness`, `WizardFairness`, `DepositFairness`; each scene of
`MCLive` takes its own):

- `WF(Settled)`, `WF(PayoutGoesOn)`, `WF(a submission settles)`: a fetch resolves,
  fails or times out; `withRetry` gives up after four attempts and
  `pollTransaction` after twenty; `handleConfirmPayout`'s pause is a timer.
- `SF(Answered)`: a message replayed again and again is answered some time; the
  connection may drop during each attempt, so weak fairness would not do.
- `WF(IdbWrite \/ Restore)`: IndexedDB finishes its transactions.
- `WF(GoOnline)`: a lost connection comes back. `QueueServed` is stated for a
  connection that drops for ever again, since replay starts with an `online`
  event.

Nothing obliges the user to type, sign, confirm or wait.

## 4. What the code does and its text denies

`PROJECT.json` has them with the quoted lines. Four have a counterexample run:

1. `withdraw_fees` may spend depositors' tokens (`FeesShort`): `accrue_fee` is a
   book entry no token backs and `withdraw_fees` never calls `check_invariants`,
   although the comment above that function lists it. `FrozenWhileShort` shows what
   follows: every deposit, payout, request and cancellation fails until tokens
   arrive from outside.
2. A denied address can still be paid from the queue (`DeniedPaid`).
3. The payout that breaches the breaker's threshold is admitted (`Overshoot`); the
   README of the contract and the comment above the check say it is rejected
   (another comment, at 5060, says it executes).
4. A payout can be made twice for one deposit (`PaidOnce`): each press makes a new
   idempotency key, and no route reads it.

The others were met while translating. In the contract: `request_withdrawal`
does not contribute to the breaker's volume; the window is not rolling;
`set_withdrawal_expiry(0)` is not the default but zero; `withdraw_fees` increments a
nonce twice; `get_fee_withdrawal_batch_nonce` reads a key nothing writes; `deposit` never
reads the anti-sandwich delay, which the text of its setter describes as a delay between
consecutive deposits and only `execute_withdrawal` enforces;
a renunciation may be executed while paused; an operator may take the admin's
seat; a batch stores delays its setters refuse; the
escrow migration is declared complete once and for good, on no receipts at once, and
receipts deposited since are never moved; a cursor set past receipts lets the
migration complete without them, and 2^64 passes for a cursor and is 0; an escrow record
names one token for all; a batch of the migration bounds what it writes and not what it
visits. In the application: a cancelled
send leaves the machine where it accepts no message; an ungrouped 1000 is read
as 100; the limiter's window is fixed, not sliding; dates of pins are not
revived from storage; a cancelled fee simulation leaves its spinner; a webhook
that comes before its record is overwritten; a reversal after a success is
taken for a replay; the check of the model's answer binds `&&` before `||`; two
routes leave a span open; the banner that hides late; long chats that keep their
page count.

Five of these limit what a property can say, and the properties are stated accordingly:

- *The payout dialog tells before it knows.* 2.5 seconds after the route's answer it says
  "Bank transfer confirmed" and "Fiat payout successfully completed!" (the "Simulation
  block", `BankDetailsModal.tsx:534`) while the provider's transfer is pending; it says "Payout failed"
  when only the answer was lost; a late poll of an earlier payout may set the status
  shown. `OutcomesHaveGround` therefore promises of a told success that a transfer was made for
  that very deposit, not that it arrived, and of a told failure nothing.
- *The deposit dialog opens by itself.* From the fifth message with data at hand
  (`useChat.ts:442`) it opens whatever the intent of the message, after a blocked or a
  cancelling one too, and in another chat when the timer ends there. `PaymentsAreGrounded` promises that an
  answer to a blocked message *shows* no payment, and of the dialog only which amounts it may
  hold. Where a message names no number the amount is the model's.
- *Positions in lower-cased text* (`sensitiveTerms.ts:140`, `chatSearch.ts:72`) are applied to
  the text itself, so a letter that is longer in lower case shifts every mask and highlight
  after it. `MessageText` has such a letter; `TextsAreMarkedRight` is of texts without one.
- *The anti-sandwich delay* is not one between deposits: `DepositWaitsHold` speaks of
  queued payouts for it, and of deposits for the cooldown.
- *A deep link* (`useDeepLink.ts`) always ends in "not found": its effect runs before the
  history is loaded. `SessionStore` has no action for it.

## 5. Proofs

For every set of users, tiers, amounts, sessions, transfers, messages, signers and
operations, every limit, lifetime and window, and every choice of settings that
satisfies the assumptions of the modules:

| module | theorem | states |
|---|---|---|
| `FiatBridgeProofs` | `DequeueCoherent`, `DequeueBacked` | a request taken out leaves caches and sum right |
| | `Invariance` | `Spec => []Inv` |
| | `TypeCorrect` | `Spec => []TypeOK` |
| | `BooksStaySound` | `Spec => []BooksSound` |
| | `ReservationsStayBacked` | `Spec => []ReservationsBacked` |
| | `QueueStaysCoherent` | `Spec => []QueueCoherent` |
| | `SchedulerStaysSound` | `Spec => []SchedulerSound` |
| | `OnlyFeesOpenAShortfall` | `Spec => OnlyFeesCostSolvency` |
| | `ShortfallFreezes` | `Spec => FrozenWhileShort` |
| | `VaultIsEscrow` | `Spec => ImplementsEscrow` |
| `BridgeHistoryProofs` | `HistoryInvariance` | `HistorySpec => []HistoryInv` |
| | `AntiSandwichServed` | `HistorySpec => AntiSandwichHolds` |
| | `CooldownServed` | `HistorySpec => CooldownHolds` |
| | `DepositWaitsServed` | `HistorySpec => DepositWaitsHold` |
| | `LargeDepositServed` | `HistorySpec => LargeDepositHolds` |
| | `VolumeInvariance` | `HistorySpec => []VolumeInv` |
| | `OutflowBounded` | `HistorySpec => []BreakerBoundsOutflow` |
| | `TripsHalt` | `HistorySpec => []TripHalts` |
| | `QuotaHolds` | `HistorySpec => []QuotaBoundsUser` |
| | `DepositLimitsServed` | `HistorySpec => []DepositLimitsHold` |
| `AdminProofs` | `AdminInvariance` | `AdminSpec => []AdminInv` |
| | `AuthorityStays` | `AdminSpec => AuthorityHolds` |
| | `StorageInvariance` | `AdminSpec => [](StorageInv /\ RosterInv /\ IndexInv)` |
| | `StorageOfItsShape` | `AdminSpec => []AdminStorageOK` |
| | `ListsKeepUp` | `AdminSpec => []ListsMatchFlags` |
| | `MigrationIsAdmin` | `MigrationSpec => AdminSpec` |
| | `MigrationInvariance` | `MigrationSpec => [](MigrationInv /\ StorageInv)` |
| | `NoReceiptLeftBehind` | `MigrationSpec => []NoneLeftBehind` |
| | `RecordsAreKept` | `MigrationSpec => RecordsStay` |
| `MoneyProofs` | `TrackerInvariance` | `TrackerSpec => []TrackerInv` |
| | `PagesSeeTheirOwn` | `TrackerSpec => []OwnStatusOnly` |
| | `WizardKeepsTracker` | `WizardSpec => TrackerSpec` |
| | `OutcomesStayGrounded` | `MCMoneySpec => []OutcomesHaveGround` |
| | `ConfirmationHasAccount` | `WizardSpec => []ConfirmHasAccount` |
| | `DepositInvariance` | `DepositSpec => []DepositInv` |
| | `ConfirmedStaysOnChain` | `DepositSpec => []ConfirmedIsOnChain` |
| | `QuotesStayRecent` | `PricesSpec => []QuoteIsRecent` |
| | `RefusalsAreEarned` | `ServerSpec => []RefusalEarned` |
| | `FiguresStayCurrent` | `FormSpec => []FiguresAreCurrent` |
| | `StatsStayNewest` | `StatsSpec => []StatsAreNewest` |
| | `RowsStayMatched` | `AuditSpec => []RowsMatchQuery` |
| | `LateAnswersNeverShow` | `MCMoneySpec => []LateAnswersDiscarded` |
| | `SelectionsArrive` | `ReceiptsSpec => []SelectionReachesUrl` |
| | `MoneyPartsKeepShape` | `MCMoneySpec => []MoneyPartsTypeOK` |
| `ChatProofs` | `ChatInvariance` | `ChatSpec => []ChatInv` |
| | `SpinnerKeepsItsRequest` | `MCChatSpec => []SpinnerHasRequest` |
| | `AnswersComeOnce` | `MCChatSpec => []OneAnswerEach` |
| | `RecordsOutliveSends` | `MCChatSpec => RecordOutlivesSend` |
| | `DraftsStayWithUser` | `MCChatSpec => []DraftsFollowUser` |
| | `PaymentsStayGrounded` | `MCChatSpec => []PaymentsAreGrounded` |
| | `ScreenStaysCurrent` | `MCChatSpec => []ScreenIsCurrent` |
| | `HistoryStaysCoherent` | `MCChatSpec => []HistoryKept` |
| | `TextsStayMarked` | `MCChatSpec => []TextsAreMarkedRight` |
| `ChatShapeProofs` | `ChatPartsKeepShape` | `MCChatSpec => []ChatPartsTypeOK` |

**The vault.** The inductive invariant is

    Inv == TypeOK /\ BooksSound /\ ReservationsBacked /\ QueueCoherent

and no conjunct stands alone. `TypeOK` says reservations are natural numbers,
and the code subtracts a request's amount from them without a check: that needs
`ReservationsBacked`, which says the request is part of the sum.
`BooksSound` survives a reclaim, which makes no invariant check, only because
the amount it gives back is not negative and not more than what is reserved.
`QueueCoherent` needs the ids of pending requests below `nextId`, which is part
of `IsQueue` in `TypeOK`.

`ReservationsBacked` is a sum over the pending requests. `WithdrawQueue!Backed`
states it without a fold, as the existence of running totals: a function on ids
that starts at zero, grows by a request's amount at each pending id and ends at
`total_liabilities`. The witness is adjusted from the changed id onwards when a
request enters, shrinks or leaves, so that no induction over the queue is needed.
`FiatBridgeProofs` begins with the queue alone, one lemma per operation and per
property, and goes on with one step per action of `Next`.

`SchedulerSound`, the two shortfall theorems and the refinement follow from `Inv`
alone. The lemma `StepKinds` sorts the steps of `Next` into those that move money or
requests and the quiet ones, which keep `acct` and the queue and lower the
balance only while lowering the fee vault; the theorems split on it. In the
refinement, `Spend` and `Claim` fit the unreserved pool because of
`check_invariants`, which `withdraw` runs after the fact: this is where dropping the
reservation from that check breaks the proof, as it breaks the run.

`BridgeHistoryProofs` strengthens `Inv` with `DelayInv`: for each user, the
entry a delay is read from is the one the last deposit wrote and its TTL covers
the delays then in force, or those delays are over. It survives setters and
evictions because it speaks of the delays at deposit time, which is also why the
properties promise the smaller of the delay then and the delay now.

**Volumes.** `BridgeHistory` keeps running totals: for each ledger, all that was
moved up to it. What moves in an interval is a difference of two of them, a
payment raises those from its ledger on, and no sum is ever folded. For a window
that several limits share, `Respected` says that the counter covers what moved
since the window's start and that nothing moved once it was over, that what moved
since the start, or in less than a window's length before it, is within the limit,
and that any window's length saw at most twice that: it touches two windows.
`BreakerKept` says more. While the breaker is tripped nothing has moved since the
ledger of the trip; the charge that trips it goes through and may pass the threshold,
so a window holds at most `threshold - 1` and one largest payment, and one more for
every manual reset in it. The resets are shared out between what came before the
window's start and what came since, which is why the invariant has "for some `k` of
the `n` resets": without it two windows would each claim them all. The premise
`breakerReset + 1 >= WINDOW_LEDGERS` enters where a window begins after a trip: what is
then moved is that far from what tripped it.

**Governance.** `AdminInv` says that an offer of the seat does not outlive the
admin, that each approval of a proposal is another signer's, and that an
executed proposal had enough. The code compares the threshold with the *length*
of a list that revocations shorten; only distinctness, kept by `Append` because a
signer who approved is refused and by the removal of any one place, makes that
length a number of signers (`DistinctCount`, over the library's facts on
bijections). `RosterInv` says that the operators' list repeats nobody, holds those
whose flag is up and has the stored count for its length: enrolment counts up by
one and pruning down by the number it drops, and both are right only because of
the other two facts. `IndexInv` says of the paged lists that everyone who is on has
a slot, which an address listed twice and removed once would lose if a removal
emptied the wrong one. The fold of a batch over its operations is followed by the
lemmas on recursion of `Lists`: settings stay of their shape whichever operations
fail.

**Migration.** `NoneLeftBehind` is not inductive: a cursor set beyond the receipts there
are would pass receipts not yet deposited. `MigrationInv` adds that such positions
count as set past. `RecordsStay` follows from it because receipts
never change; no run lists it. That an entry which can be found now could be found
when the cursor passed it rests on three things: ledgers only go on
(`LedgersGoOn`, over every other call of the contract), an extension revives nothing
and shortens nothing, and lock and cooldown are numbers, which is `StorageInv`'s,
carried over by `MigrationIsAdmin`.

**Lists.** The library's induction theorems take an operator as a parameter, and
the provers cannot instantiate them. Their parameters that are *sets* can be:
`SetInduction` is the well-foundedness of the natural numbers applied to the numbers
outside a set, and `Recursion` follows, that a function defined by recursion up to
the length of a list exists and satisfies its equation. From it come what `Filtered` returns: a list of the same type, with exactly the elements
that stay, in their order (`KeptAt`), without repetitions if there were none,
and unchanged if all stay. These are used for operators, pages, records, search
timers and pins. `JoinFacts` says that two lists without repetitions that share nothing
make one without: what pinning and reordering need. `FlattenSums` gives the lists of
`FlattenSeq` joined one by one from the first, and `FlattenAppend` one list more.

**Payouts.** `TrackerInv` adds to the two properties that a reference not made yet is
named nowhere, that a record's session is the one that asked, and that an event
under way is one the provider reached: without the first, a reference would be
given an owner after a page had seen it. `WizardKeepsTracker` says that the dialog's
behaviours are behaviours of the tracker, so all that is proved of the tracker holds
under the dialog; and the last step of the dialog has a verified account, because
whatever drops one leaves or forbids that step, and an answer is never an empty
account. It may be the account of an earlier number: an answer is stored whatever
was typed since, and nothing compares the two (`VerifyAnswer`), so more is not true.
`DialogInv` carries what the dialog tells: `paidFor` (history) keeps which deposit each of its
transfers was made for, and every flow under way, the reference shown, every poll
and every notice is of a transfer in it; what the provider reached it does not take back
(`OutcomesLast`), so the status of a late poll is still one a transfer of the dialog reached.

**Deposits.** `DepositInv` adds that transactions are numbered in the order they
were sent, so that a new one never takes the place of one confirmed, and that
whatever goes on after a poll, be it a submission or a recovery, has its
transaction on chain.

**Prices and limits.** `PricesInv` dates every price: an entry of the cache holds a
market price made when it was stored, an answer under way is of an entry that was
fresh when it was asked, and a lock adds its own length. `ServerInv` ties a
counter to the log of requests: while a window is below its limit its count is at
most the number of requests the log has in it, and a full count has the full
number there. Equality would be wrong: the counter counts refused requests too.

**Late answers.** In each of the three places something marks what is still asked:
the figures' requests are for the wallet and amount on the form (an edit clears
them), the newest fetch of the bridge's figures has the greatest id, and a request
of the audit table with the newest id asks for the query drawn, in whichever
place of the shared retry queue it waits (`Apt`). In `SelectionInv` what waits to be
pushed, and the last URL pushed, stand for the selection last wanted; the
property holds when neither is left.

**Chat.** `ChatInv` has a conjunct for each place a message can be. `Owned`: the
controller's request is in flight and not aborted, the spinner turns exactly
then, and one replay loop runs. `Placed`: no message is queued and in flight, and
until the records of IndexedDB are restored none of them is queued or in flight
either, since a restore puts them in the queue. `Issued` and `Unrecorded`: the operations
waiting for IndexedDB add a message once and remove only what was answered or
failed, so that a record never returns after its removal. `Timely`: messages are sent in
their order and a request's snapshot counts only earlier ones, which bounds the
machine's count. `AnsweredOnce`: an answered message is queued nowhere and in no
flight. `ChatPartsTypeOK` had bounded the count more loosely than the invariant
allows, and was tightened. The session is the same under `MCChatSpec`, where
other parts move too (`SessionMoves`, `PartsMove`).

**Drafts, answers, screen.** `DraftsInv` adds to the two properties that what was
sent was typed, so that a text typed now was never sent, and that a box with a text has
a chat. `AnswerInv` follows a message through the stages: what the guardrails match
never waits for the model, and an amount read whole survives the merge with whatever
the model extracted. `grounded` (history) is the set of the amounts some answer had a ground for; what
the conversation collects keeps to it (`GatheredHasGround`), because a blocked answer
has no data and one about something else adds none, and so do the timer and the dialog. `ScreenInv` has a conjunct for each thing that ends late. A poll of
the current epoch was made by a connected wallet (`DepthInv`); the last of the searches
pending is for the filters and sessions of now (`SearchInv`); what the effect last saw is
the state announced (`ToastInv`); a banner that shows "back online" has a timer
(`BannerInv`); the page is locked exactly while somebody holds a lock, and the style kept
is that of before the first one (`LockInv`); a window of a list is a page long at least, and a timer under way was set for a
longer list (`ListInv`).

**Saved conversations.** `StoreInv` says of the storage, of each of the three copies and of the
stash that each is `Sound`: a history of its shape whose current session and pins are
its own, and in which nothing was changed later than the last edit. The date is what makes the
eviction safe: the code deletes all but the newest sessions and does not look at which
one is current. The session just made is, strictly, the newest, so it is among those
kept (`CleanedSound`); had the eviction run on any other change, nothing would say
so. That the `MaxSessions` newest exist at all is an induction over their number
(`NewestExist`); without it the choice in `Newest` would say nothing.

**Masks and marks.** This proof is about texts of any length and any list of terms, where
TLC has texts of up to three letters, and nearly all of it is about functions: each loop of the
code is a recursion, followed by the lemmas of `Lists`. `Scanned` is the scan's invariant:
its marks are matches, one after the other, and every match begins inside of one.
Where no letter is longer in lower case (`Level`) a position in the lower-cased text is one in
the text, and a stretch of the one is the lower case of that stretch of the other. Such a text
is masked right because asterisks and blocks are as long as the word, so that the
offset stays zero, and a mask put over another covers what both cover
(`MaskCoversMarks`); the order of the matches does not matter to it. `Built` is the
invariant of the split: the parts so far are the text so far, each is a mark or meets
none. An excerpt shows no keyword unmarked because one it shows whole begins
inside of a mark, which ends no later than that keyword does, and so lies in the excerpt
(`SnippetRight`). `Found` and `FindSensitiveTerms` had been written with a recursion
from the right and with `SortSeq`, about which nothing could be proved; they are now the scan from the
left and the stable insertion that they model.

**Shapes.** `MoneyPartsKeepShape` and `ChatPartsKeepShape` are the type invariants of all
parts together; each part has a lemma for its start and one for its steps. Several
are not inductive as they stand, and what they lack is said in the part's `Shape`.
On the money side: an operation of the wallet names an account; the lists of people are
bounded by the ids handed out; what the bag of GETs holds are requests; the wizard is open
only for a deposit, and every record has a status. On the chat side: a retry waits only
while an attempt is left, and a row that is gone has none (`RetryShape`); the answer under
way is not counted yet (`AnswerShape`); a search pending at place `i` of the timers is of
instance `i` at least, so that no more are pending than were mounted, and a filtered list
of timers still is so (`InOrder`, through the places `FilteredPlaces` gives); the probes of
the connection in flight are among those sent (`SplitShape`); what is shown of a text holds its letters and
the masks' signs and nothing else, wherever a shifted mask is put
(`MaskedIsInked`); a dialog
waits for a frame only while it is set up, and no more locks are held than there are dialogs (`DialogShape`, over
`LockInv`); a toast was raised and shown by now; and each check of the connection under
way, like each timer of the banner, is of a loss of its own or of the one the page was opened in (`BannerCounts`). For these
proofs filters of the model that were `SelectSeq` became `Filtered`, assumptions of the
kind "each member of `Messages` has these fields" became inclusions in a set of records,
and the bounds of the instances were given their types.

Assumed: the named assumptions of the modules on their constants, all evaluated
by TLC in the runs.

Every invariant and every action property of the passing runs is what a theorem above
states; what is left to TLC alone is liveness (the `Live` run) and the properties of the
violation runs, which are false and of which TLC shows how.
Out of the prover's reach: liveness, `ENABLED`, and anything in a module with a
`RECURSIVE` operator.

## 6. Not modelled

- *Views* and *events* of the contract: no other operation decides on what they keep.
  Of receipts, references, memos and hashes, and that the persistent entry of a receipt
  may be archived: nothing in the code removes it. `set_withdraw_operator`,
  `set_operator_daily_limit` and `set_emergency_recovery` store values that no
  modelled call reads.
- *Presentation*: the landing page, timelines, receipts on paper,
  contexts of theme and language, the reconciliation page, which only fetches
  and renders.
- *Code nothing mounts*: `app/admin/page-old.tsx`, `CCIPBridgeModal.tsx`,
  `WalletActionSheet.tsx`, `auditLogExamples.ts`.
- *Admin audit log*: kept in localStorage, which the route that serves it does not
  have on the server; its answer is always empty.
- *Schemas, configuration, measurements, encodings*: validation of single values
  and counters that are only written. `markdownSanitizer.ts` is a list of patterns
  over text.
- In modelled parts: formats of account numbers and amounts, prompts and wording,
  the note of a payout, how far a list is scrolled. The `sessions` that the search reads are
  the page's copy as of its load, so the results it offers may be gone: in `SessionStore`
  they are offered beside the sidebar's rows, and one that the chat's copy does not have loads nothing.

What may still be worth doing: the widths of the contract's numbers (i128, u64
ledgers and windows as u32), which the models take as unbounded but for the cursor.

------------------------------ MODULE FiatBridge ------------------------------
(***************************************************************************)
(* The FiatBridge Soroban contract (stellar-contracts/src/lib.rs): the     *)
(* token vault, its withdrawal queue, its rate limits and its fee vault.   *)
(*                                                                         *)
(* A contract call is atomic, and one that returns Err or panics leaves no *)
(* trace: every action below is one successful call, its guard the         *)
(* conditions under which the code reaches Ok.  init registers one token   *)
(* and no entry point registers another, so there is one TokenConfig.      *)
(* Authorisation is left out: an action is taken by a caller the code      *)
(* accepts (admin, withdraw operator, depositor, or anybody).              *)
(***************************************************************************)
EXTENDS WithdrawQueue, RollingLimits

CONSTANTS
    Amounts,        \* amounts a caller may pass
    Prices,         \* answers of the oracle contract
    ExpectedPrices, \* benchmark prices a caller may pass; 0 skips the test
    Slippages,      \* slippage bounds, in basis points, a caller may pass
    PriceScale,     \* ORACLE_PRICE_DECIMALS / 100
    DefaultExpiry,  \* WITHDRAWAL_EXPIRY_WINDOW_LEDGERS
    DefaultReset,   \* CIRCUIT_BREAKER_RESET_LEDGERS
    InitLimit,      \* limit and
    InitMinDeposit, \*   min_deposit given to init
    Choices,        \* parameter name -> values its setter is called with
    I128_MAX,       \* a token amount never exceeds it: the call fails
    U64_MAX,        \* a counter (request id, nonce, receipt) never exceeds it
    MaxLedger       \* the ledgers of the run

Params == {"limit", "maxCap", "dailyDeposit", "minDeposit", "cooldown",
           "withdrawCooldown", "largeDeposit", "lock", "antiSandwich", "oracle",
           "fiatLimit", "quota", "expiry", "breakerThreshold", "breakerReset"}

LedgerParams == {"cooldown", "withdrawCooldown", "lock", "antiSandwich",
                 "expiry", "breakerReset"}

ASSUME BridgeAssumption ==
    /\ Amounts \subseteq Int
    /\ Prices \subseteq Int /\ ExpectedPrices \subseteq Int /\ Slippages \subseteq Nat
    /\ PriceScale \in Nat \ {0}
    /\ DefaultExpiry \in 0..U32_MAX /\ DefaultReset \in 0..U32_MAX
    /\ InitLimit \in Nat /\ InitMinDeposit \in 1..(InitLimit - 1)
    /\ I128_MAX \in Nat /\ U64_MAX \in Nat
    /\ MaxLedger \in Nat /\ MaxLedger + WINDOW_LEDGERS <= U32_MAX
    /\ DOMAIN Choices = Params
    /\ \A p \in Params \ {"oracle"} : Choices[p] \subseteq Int
    /\ \A p \in LedgerParams : Choices[p] \subseteq 0..U32_MAX
    /\ Choices.oracle \subseteq BOOLEAN
    /\ None \notin Choices.fiatLimit      \* a fiat limit of -1 would read as no limit

VARIABLES
    ledger,         \* env.ledger().sequence()
    paused, cfg, denied, allow,                     \* what the admin sets
    acct, balance, fees,                            \* money
    receiptCounter, userDeposited, lastDeposit,     \* deposits
    lastLarge, dailyIn, fiatIn,
    wq, execNonce,                                  \* withdrawal queue
    dailyOut, breaker                               \* outflow limits

policyVars  == <<paused, cfg, denied, allow>>
depositVars == <<receiptCounter, userDeposited, lastDeposit, lastLarge, dailyIn, fiatIn>>
queueVars   == <<wq, execNonce>>
outVars     == <<dailyOut, breaker>>
vars == <<ledger, policyVars, acct, balance, fees, depositVars, queueVars, outVars>>

(***************************************************************************)
(* The integer arithmetic deposits are valued with (math.rs) and the       *)
(* slippage test of lib.rs.  Rust's `/` and `%` truncate toward zero;      *)
(* TLA+'s \div and % floor, so truncation is spelled out.                  *)
(***************************************************************************)
BPS == 10000

TruncDiv(a, d) == IF a >= 0 THEN a \div d ELSE -((-a) \div d)
TruncRem(a, d) == a - d * TruncDiv(a, d)

(* checked_mul_div_floor, for a positive divisor.                          *)
MulDivFloor(a, b, d) ==
    IF a * b >= 0 \/ TruncRem(a * b, d) = 0
    THEN TruncDiv(a * b, d)
    ELSE TruncDiv(a * b, d) - 1

(* check_slippage, as the condition under which it returns Ok.  Only a     *)
(* price below the benchmark counts; a quotient equal to the limit is also *)
(* refused when its remainder is half the benchmark or more.               *)
SlippageOk(expected, actual, maxBps) ==
    LET scaled == (expected - actual) * BPS
        rem    == TruncRem(scaled, expected)
    IN  expected > 0 /\ actual < expected =>
           /\ scaled <= maxBps * expected
           /\ TruncDiv(scaled, expected) <= maxBps
           /\ TruncDiv(scaled, expected) = maxBps =>
                ~(rem > 0 /\ rem >= TruncDiv(expected, 2))

-----------------------------------------------------------------------------
(* A temporary-storage entry: the ledger it holds and the last ledger its  *)
(* TTL guarantees it for.  NoEntry is an entry never written or evicted.   *)
NoEntry == [at |-> None, live |-> None]

NewConfig ==
    [limit |-> InitLimit, maxCap |-> I128_MAX, dailyDeposit |-> 0,
     minDeposit |-> InitMinDeposit, cooldown |-> 0, withdrawCooldown |-> 0,
     largeDeposit |-> 0, lock |-> 0, antiSandwich |-> 0, oracle |-> FALSE,
     fiatLimit |-> None, quota |-> 0, expiry |-> DefaultExpiry,
     breakerThreshold |-> 0, breakerReset |-> DefaultReset]

(* The state a successful init leaves.                                     *)
Init ==
    /\ ledger = 0
    /\ paused = FALSE /\ denied = {} /\ cfg = NewConfig
    /\ allow = [on |-> FALSE, members |-> {}]
    /\ acct = [deposited |-> 0, withdrawn |-> 0, liabilities |-> 0]
    /\ balance = 0
    /\ fees = [vault |-> 0, nonce |-> None, legacy |-> None]
    /\ receiptCounter = 0
    /\ userDeposited = [u \in Users |-> 0]
    /\ lastDeposit = [u \in Users |-> NoEntry]
    /\ lastLarge = [u \in Users |-> NoEntry]
    /\ dailyIn = [u \in Users |-> NoWindow]
    /\ fiatIn = [u \in Users |-> NoWindow]
    /\ wq = EmptyQueue
    /\ execNonce = [u \in Users |-> 0]
    /\ dailyOut = [u \in Users |-> NoWindow]
    /\ breaker = ClearBreaker

-----------------------------------------------------------------------------
NetDeposited(a) == a.deposited - a.withdrawn

BooksWithoutReservations(a) == a.withdrawn <= a.deposited   \* a wrong BooksBalance
InvariantsOfBooksOnly(a, held) == a.withdrawn <= a.deposited /\ a.liabilities <= NetDeposited(a)
                                                \* a wrong InvariantsHold

InvariantsOfHeldOnly(a, held) == NetDeposited(a) <= held    \* another

(* check_invariants.                                                       *)
BooksBalance(a) == a.withdrawn <= a.deposited /\ a.liabilities <= NetDeposited(a)
InvariantsHold(a, held) == BooksBalance(a) /\ NetDeposited(a) <= held

RecentOneShort(entry, delay, now) ==            \* a wrong Recent
    delay > 0 /\ entry.at # None /\ now + 1 < entry.at + delay

(* An entry of temporary storage still within `delay` ledgers of `now`.    *)
Recent(entry, delay, now) ==
    delay > 0 /\ entry.at # None /\ now < entry.at + delay

(* set and extend_ttl of a temporary entry that must live `ttl` ledgers.   *)
Touch(entry, ttl, now) ==
    [at   |-> now,
     live |-> IF entry.live < now + ttl THEN now + ttl ELSE entry.live]

Larger(a, b) == IF a >= b THEN a ELSE b

TtlOfCooldownOnly(c) == Larger(c.cooldown, 1)   \* a wrong LastDepositTtl
TtlOfDayOnly(c) == WINDOW_LEDGERS               \* a wrong LastLargeTtl
(* The TTLs deposit asks for: long enough for whoever reads the entry.     *)
LastDepositTtl(c) == Larger(Larger(c.cooldown, c.antiSandwich), 1)
LastLargeTtl(c) == Larger(c.withdrawCooldown, WINDOW_LEDGERS)

(* The token's allowlist.  No entry point writes the global flag (the key  *)
(* AllowlistEnabled), so the code's global branch is never taken.          *)
Listed(u) == allow.on => u \in allow.members

(* The price validate_fiat_limit works with; 0 when it is not consulted.   *)
DepositPrice(p) ==
    IF cfg.oracle THEN p \in Prices /\ p > 0 ELSE p = 0 /\ cfg.fiatLimit = None

UsdCents(amt, p) == MulDivFloor(amt, p, PriceScale)

FiatLimitOk(u, amt, p) ==
    cfg.fiatLimit # None =>
        Rolled(fiatIn[u], ledger).amount + UsdCents(amt, p) <= cfg.fiatLimit

(* deposit                                                                 *)
Deposit(u, amt, p, expected, slip) ==
    /\ ~paused
    /\ amt > 0
    /\ ~Recent(lastDeposit[u], cfg.cooldown, ledger)
    /\ Listed(u) /\ u \notin denied
    /\ amt >= cfg.minDeposit /\ amt <= cfg.limit
    /\ Fits(cfg.dailyDeposit, dailyIn[u], ledger, amt)
    /\ DepositPrice(p) /\ FiatLimitOk(u, amt, p)
    /\ SlippageOk(expected, p, slip)
    /\ acct.deposited + amt <= I128_MAX /\ balance + amt <= I128_MAX
    /\ receiptCounter < U64_MAX
    /\ acct' = [acct EXCEPT !.deposited = @ + amt]
    /\ balance' = balance + amt
    /\ InvariantsHold(acct', balance')
    /\ receiptCounter' = receiptCounter + 1
    /\ userDeposited' = [userDeposited EXCEPT ![u] = @ + amt]
    /\ lastDeposit' = [lastDeposit EXCEPT ![u] =
           Touch(@, LastDepositTtl(cfg), ledger)]
    /\ lastLarge' = IF cfg.largeDeposit > 0 /\ amt >= cfg.largeDeposit
                    THEN [lastLarge EXCEPT ![u] = Touch(@, LastLargeTtl(cfg), ledger)]
                    ELSE lastLarge
    /\ dailyIn' = [dailyIn EXCEPT ![u] = ChargeIfOn(cfg.dailyDeposit, @, ledger, amt)]
    /\ fiatIn' = IF cfg.fiatLimit = None THEN fiatIn
                 ELSE [fiatIn EXCEPT ![u] = Charge(@, ledger, UsdCents(amt, p))]
    /\ UNCHANGED <<ledger, policyVars, fees, queueVars, outVars>>

(* The quota and the circuit breaker, which every payout passes through.   *)
WithinLimits(u, amt) ==
    /\ Fits(cfg.quota, dailyOut[u], ledger, amt)
    /\ BreakerAdmits(cfg.breakerThreshold, cfg.breakerReset, breaker, ledger)

CountOutflow(u, amt) ==
    /\ dailyOut' = [dailyOut EXCEPT ![u] = ChargeIfOn(cfg.quota, @, ledger, amt)]
    /\ breaker' = BreakerAfter(cfg.breakerThreshold, breaker, ledger, amt)

(* withdraw: the admin or the withdraw operator pays u at once.            *)
Withdraw(u, amt) ==
    /\ ~paused
    /\ amt > 0 /\ amt <= balance
    /\ u \notin denied
    /\ WithinLimits(u, amt)
    /\ CountOutflow(u, amt)
    /\ balance' = balance - amt
    /\ acct' = [acct EXCEPT !.withdrawn = @ + amt]
    /\ InvariantsHold(acct', balance')
    /\ UNCHANGED <<ledger, policyVars, fees, depositVars, queueVars>>

(* request_withdrawal: the admin queues a payout and reserves its amount.  *)
RequestWithdrawal(u, amt, tier) ==
    LET request == [to |-> u, amount |-> amt, unlock |-> ledger + cfg.lock,
                    queued |-> ledger, tier |-> tier]
    IN  /\ ~paused
        /\ BreakerClear(breaker, cfg.breakerReset, ledger)
        /\ amt > 0
        /\ u \notin denied
        /\ ~Recent(lastLarge[u], cfg.withdrawCooldown, ledger)
        /\ ledger + cfg.lock <= U32_MAX
        /\ wq.nextId < U64_MAX
        /\ wq' = Enqueue(wq, request)
        /\ acct.liabilities + amt <= NetDeposited(acct)
        /\ amt <= userDeposited[u]
        /\ acct' = [acct EXCEPT !.liabilities = @ + amt]
        /\ InvariantsHold(acct', balance)
        /\ UNCHANGED <<ledger, policyVars, balance, fees, depositVars, execNonce, outVars>>

(* The benchmark test of execute_withdrawal, which asks the oracle itself. *)
ExecutionPriceOk(p, expected, slip) ==
    expected > 0 => /\ cfg.oracle /\ p \in Prices /\ p > 0
                    /\ SlippageOk(expected, p, slip)

(* execute_withdrawal: anybody may pay an unlocked request, whole or in    *)
(* part, quoting the recipient's execution nonce.                          *)
ExecuteWithdrawal(id, amt, nonce, p, expected, slip) ==
    LET request == wq.req[id]
        u       == request.to
    IN  /\ ~paused
        /\ nonce = execNonce[u] /\ nonce < U64_MAX
        /\ ledger >= request.unlock
        /\ ~Recent(lastDeposit[u], cfg.antiSandwich, ledger)
        /\ amt > 0 /\ amt <= request.amount
        /\ WithinLimits(u, amt)
        /\ amt <= balance
        /\ ExecutionPriceOk(p, expected, slip)
        /\ CountOutflow(u, amt)
        /\ execNonce' = [execNonce EXCEPT ![u] = @ + 1]
        /\ balance' = balance - amt
        /\ wq' = IF amt = request.amount THEN Dequeue(wq, id) ELSE Shrink(wq, id, amt)
        /\ acct' = [acct EXCEPT !.withdrawn = @ + amt, !.liabilities = @ - amt]
        /\ InvariantsHold(acct', balance')
        /\ UNCHANGED <<ledger, policyVars, fees, depositVars>>

(* A request leaves the queue unpaid and its reservation is released.      *)
Release(id) ==
    /\ acct' = [acct EXCEPT !.liabilities = @ - wq.req[id].amount]
    /\ wq' = Dequeue(wq, id)
    /\ UNCHANGED <<ledger, policyVars, balance, fees, depositVars, execNonce, outVars>>

(* cancel_withdrawal                                                       *)
CancelWithdrawal(id) ==
    /\ ~paused
    /\ Release(id)
    /\ InvariantsHold(acct', balance)

(* reclaim_expired_withdrawal: not stopped by a pause, no invariant check. *)
ReclaimExpired(id) ==
    /\ ledger > wq.req[id].queued + cfg.expiry
    /\ Release(id)

-----------------------------------------------------------------------------
(* accrue_fee: a book entry, no token moves.                               *)
AccrueFee(amt) ==
    /\ amt > 0 /\ fees.vault + amt <= I128_MAX
    /\ fees' = [fees EXCEPT !.vault = @ + amt]
    /\ UNCHANGED <<ledger, policyVars, acct, balance, depositVars, queueVars, outVars>>

OrZero(n) == IF n = None THEN 0 ELSE n

PayFees(amt) ==
    /\ amt <= balance           \* the token contract's own condition
    /\ balance' = balance - amt
    /\ UNCHANGED <<ledger, policyVars, acct, depositVars, queueVars, outVars>>

(* withdraw_fees: pauses and check_invariants are not consulted.  The      *)
(* caller's nonce moves by two, once per block of code that increments it. *)
WithdrawFees(amt) ==
    /\ amt > 0 /\ amt <= fees.vault
    /\ OrZero(fees.nonce) + 2 <= U64_MAX /\ OrZero(fees.legacy) < U64_MAX
    /\ fees' = [vault  |-> fees.vault - amt,
                nonce  |-> OrZero(fees.nonce) + 2,
                legacy |-> OrZero(fees.legacy) + 1]
    /\ PayFees(amt)

SweepWithoutDebit(nonce, listed) ==             \* a wrong WithdrawFeesBatch
    /\ nonce = OrZero(fees.nonce) /\ nonce < U64_MAX
    /\ fees' = [fees EXCEPT !.nonce = nonce + 1]
    /\ PayFees(IF listed THEN fees.vault ELSE 0)

(* withdraw_fees_batch: sweeps the vault if the caller lists the token.    *)
WithdrawFeesBatch(nonce, listed) ==
    LET swept == IF listed THEN fees.vault ELSE 0 IN
    /\ nonce = OrZero(fees.nonce) /\ nonce < U64_MAX
    /\ fees' = [fees EXCEPT !.vault = @ - swept, !.nonce = nonce + 1]
    /\ PayFees(swept)

(* migrate_fee_withdrawal_nonce                                            *)
MigrateFeeNonce ==
    /\ fees.legacy # None
    /\ fees' = [fees EXCEPT !.nonce = IF @ = None THEN fees.legacy ELSE @,
                            !.legacy = None]
    /\ UNCHANGED <<ledger, policyVars, acct, balance, depositVars, queueVars, outVars>>

(* A transfer straight to the contract's address, outside deposit.         *)
Donate(amt) ==
    /\ amt > 0 /\ balance + amt <= I128_MAX
    /\ balance' = balance + amt
    /\ UNCHANGED <<ledger, policyVars, acct, fees, depositVars, queueVars, outVars>>

-----------------------------------------------------------------------------
UnchangedButPolicy ==
    UNCHANGED <<ledger, acct, balance, fees, depositVars, queueVars, outVars>>

StorePaused(b) ==
    paused' = b /\ UnchangedButPolicy /\ UNCHANGED <<cfg, denied, allow>>

Pause == StorePaused(TRUE)
Unpause == StorePaused(FALSE)

StoreDenied(s) ==
    denied' = s /\ UnchangedButPolicy /\ UNCHANGED <<paused, cfg, allow>>

DenyAddress(u) == StoreDenied(denied \cup {u})
RemoveDeniedAddress(u) == StoreDenied(denied \ {u})

StoreAllow(a) ==
    allow' = a /\ UnchangedButPolicy /\ UNCHANGED <<paused, cfg, denied>>

SetTokenAllowlistEnabled(b) == StoreAllow([allow EXCEPT !.on = b])
AddTokenAllowlist(u) == StoreAllow([allow EXCEPT !.members = @ \cup {u}])
RemoveTokenAllowlist(u) == StoreAllow([allow EXCEPT !.members = @ \ {u}])

(* The setters of one stored parameter, each after the test its code makes *)
(* (the three delays refuse u32::MAX; the others take any value).          *)
StoreConfig(c) ==
    cfg' = c /\ UnchangedButPolicy /\ UNCHANGED <<paused, denied, allow>>

SetLimit(v) ==
    /\ v <= cfg.maxCap /\ BreakerClear(breaker, cfg.breakerReset, ledger)
    /\ StoreConfig([cfg EXCEPT !.limit = v])
SetLimitMaxCap(v) == v \in 1..cfg.maxCap /\ StoreConfig([cfg EXCEPT !.maxCap = v])
SetDailyDepositLimit(v) == v <= cfg.limit /\ StoreConfig([cfg EXCEPT !.dailyDeposit = v])
SetMinDeposit(v) == v >= 1 /\ StoreConfig([cfg EXCEPT !.minDeposit = v])
SetCooldown(v) == v # U32_MAX /\ StoreConfig([cfg EXCEPT !.cooldown = v])
SetWithdrawalCooldown(v, threshold) ==
    /\ v # U32_MAX /\ threshold >= 0 /\ threshold # I128_MAX
    /\ StoreConfig([cfg EXCEPT !.withdrawCooldown = v, !.largeDeposit = threshold])
SetLockPeriod(v) == StoreConfig([cfg EXCEPT !.lock = v])
SetAntiSandwichDelay(v) == v # U32_MAX /\ StoreConfig([cfg EXCEPT !.antiSandwich = v])
SetOracle == StoreConfig([cfg EXCEPT !.oracle = TRUE])
SetFiatLimit(v) == StoreConfig([cfg EXCEPT !.fiatLimit = v])
SetWithdrawalQuota(v) == StoreConfig([cfg EXCEPT !.quota = v])
SetWithdrawalExpiry(v) == StoreConfig([cfg EXCEPT !.expiry = v])
SetBreakerThreshold(v) == StoreConfig([cfg EXCEPT !.breakerThreshold = v])
SetBreakerResetWindow(v) == StoreConfig([cfg EXCEPT !.breakerReset = v])

(* reset_circuit_breaker: only the latch is cleared, not the volume.       *)
ResetBreaker ==
    /\ breaker' = [breaker EXCEPT !.tripped = FALSE]
    /\ UNCHANGED <<ledger, policyVars, acct, balance, fees, depositVars, queueVars, dailyOut>>

-----------------------------------------------------------------------------
Tick ==
    /\ ledger < MaxLedger
    /\ ledger' = ledger + 1
    /\ UNCHANGED <<policyVars, acct, balance, fees, depositVars, queueVars, outVars>>

(* The network drops a temporary entry once its TTL has run out.           *)
EvictLastDeposit(u) ==
    /\ lastDeposit[u] # NoEntry /\ ledger > lastDeposit[u].live
    /\ lastDeposit' = [lastDeposit EXCEPT ![u] = NoEntry]
    /\ UNCHANGED <<ledger, policyVars, acct, balance, fees, receiptCounter, userDeposited,
                   lastLarge, dailyIn, fiatIn, queueVars, outVars>>

EvictLastLarge(u) ==
    /\ lastLarge[u] # NoEntry /\ ledger > lastLarge[u].live
    /\ lastLarge' = [lastLarge EXCEPT ![u] = NoEntry]
    /\ UNCHANGED <<ledger, policyVars, acct, balance, fees, receiptCounter, userDeposited,
                   lastDeposit, dailyIn, fiatIn, queueVars, outVars>>

-----------------------------------------------------------------------------
UserDeposits ==
    \E u \in Users, amt \in Amounts, p \in Prices \cup {0},
       expected \in ExpectedPrices, slip \in Slippages :
        Deposit(u, amt, p, expected, slip)

QueuePays ==
    \E id \in Pending(wq), amt \in Amounts, p \in Prices \cup {0},
       expected \in ExpectedPrices, slip \in Slippages :
        \E nonce \in 0..U64_MAX : ExecuteWithdrawal(id, amt, nonce, p, expected, slip)

(* Choices says which values each setter is called with.                   *)
Configure ==
    \/ \E v \in Choices.limit : SetLimit(v)
    \/ \E v \in Choices.maxCap : SetLimitMaxCap(v)
    \/ \E v \in Choices.dailyDeposit : SetDailyDepositLimit(v)
    \/ \E v \in Choices.minDeposit : SetMinDeposit(v)
    \/ \E v \in Choices.cooldown : SetCooldown(v)
    \/ \E v \in Choices.withdrawCooldown, t \in Choices.largeDeposit :
          SetWithdrawalCooldown(v, t)
    \/ \E v \in Choices.lock : SetLockPeriod(v)
    \/ \E v \in Choices.antiSandwich : SetAntiSandwichDelay(v)
    \/ TRUE \in Choices.oracle /\ SetOracle
    \/ \E v \in Choices.fiatLimit : SetFiatLimit(v)
    \/ \E v \in Choices.quota : SetWithdrawalQuota(v)
    \/ \E v \in Choices.expiry : SetWithdrawalExpiry(v)
    \/ \E v \in Choices.breakerThreshold : SetBreakerThreshold(v)
    \/ \E v \in Choices.breakerReset : SetBreakerResetWindow(v)

Next ==
    \/ UserDeposits
    \/ \E u \in Users, amt \in Amounts : Withdraw(u, amt)
    \/ \E u \in Users, amt \in Amounts, t \in Tiers : RequestWithdrawal(u, amt, t)
    \/ QueuePays
    \/ \E id \in Pending(wq) : CancelWithdrawal(id) \/ ReclaimExpired(id)
    \/ \E amt \in Amounts : AccrueFee(amt) \/ WithdrawFees(amt) \/ Donate(amt)
    \/ \E nonce \in 0..U64_MAX, listed \in BOOLEAN : WithdrawFeesBatch(nonce, listed)
    \/ MigrateFeeNonce
    \/ Pause \/ Unpause
    \/ \E u \in Users : DenyAddress(u) \/ RemoveDeniedAddress(u)
    \/ \E b \in BOOLEAN : SetTokenAllowlistEnabled(b)
    \/ \E u \in Users : AddTokenAllowlist(u) \/ RemoveTokenAllowlist(u)
    \/ Configure
    \/ ResetBreaker
    \/ Tick
    \/ \E u \in Users : EvictLastDeposit(u) \/ EvictLastLarge(u)

Spec == Init /\ [][Next]_vars

-----------------------------------------------------------------------------
(* Every variable holds what its storage key holds.                        *)
Entry == [at : Optional, live : Optional]
Window == [amount : Nat, start : Optional]

Config ==
    [limit : Int, maxCap : Int, dailyDeposit : Int, minDeposit : Int,
     cooldown : 0..U32_MAX, withdrawCooldown : 0..U32_MAX, largeDeposit : Int,
     lock : 0..U32_MAX, antiSandwich : 0..U32_MAX, oracle : BOOLEAN,
     fiatLimit : Int, quota : Int, expiry : 0..U32_MAX,
     breakerThreshold : Int, breakerReset : 0..U32_MAX]

PolicyTypeOK ==
    /\ paused \in BOOLEAN /\ denied \subseteq Users /\ cfg \in Config
    /\ allow \in [on : BOOLEAN, members : SUBSET Users]

MoneyTypeOK ==
    /\ acct \in [deposited : Nat, withdrawn : Nat, liabilities : Nat]
    /\ balance \in Nat
    /\ fees \in [vault : Nat, nonce : Optional, legacy : Optional]

DepositTypeOK ==
    /\ receiptCounter \in Nat /\ userDeposited \in [Users -> Nat]
    /\ lastDeposit \in [Users -> Entry] /\ lastLarge \in [Users -> Entry]
    /\ dailyIn \in [Users -> Window] /\ fiatIn \in [Users -> Window]

QueueTypeOK == IsQueue(wq) /\ execNonce \in [Users -> Nat]

OutflowTypeOK ==
    /\ dailyOut \in [Users -> Window]
    /\ breaker \in [tripped : BOOLEAN, trippedAt : Nat, volume : Window]

TypeOK ==
    /\ ledger \in 0..MaxLedger
    /\ PolicyTypeOK /\ MoneyTypeOK /\ DepositTypeOK /\ QueueTypeOK /\ OutflowTypeOK

(* The books never owe more than was taken in: withdrawals stay within     *)
(* deposits and reservations within what is left, although reclaims,       *)
(* direct withdrawals, partial payouts and fee payouts interleave.         *)
BooksSound == BooksBalance(acct)

(* The cached lengths and heads of the queue and of each tier say what a   *)
(* scan of the stored requests would, after any order of enqueues, full    *)
(* payouts, cancellations and reclaims from the front, middle or back.     *)
QueueCoherent == Coherent(wq)

(* total_liabilities is exactly the sum of what the pending requests still *)
(* ask for, however requests, partial payouts and releases interleave.     *)
ReservationsBacked == Backed(wq, acct.liabilities)

(* The scheduler names the oldest request of the lowest tier holding any,  *)
(* and comes back empty-handed only when every tier it may scan is empty.  *)
SchedulerSound ==
    LET next == NextPriority(wq)
        seen == {i \in Pending(wq) : wq.req[i].tier <= wq.nextId /\ wq.req[i].tier <= MaxTierScan}
    IN  /\ next = None => seen = {}
        /\ next # None =>
             /\ next \in Pending(wq)
             /\ \A i \in Pending(wq) :
                  \/ wq.req[next].tier < wq.req[i].tier
                  \/ wq.req[next].tier = wq.req[i].tier /\ next <= i

(* The tokens held cover what the books owe.  The comment above            *)
(* check_invariants and INVARIANT_TESTING.md say fee payouts keep this.    *)
Solvent == NetDeposited(acct) <= balance

(* No call pays a denied address, as the comment above is_denied says:     *)
(* denied addresses cannot withdraw.                                       *)
DeniedNotPaid == [][\A u \in denied : execNonce'[u] = execNonce[u]]_vars

(* A withdrawal that would push the rolling volume above the threshold is  *)
(* rejected, as FIAT_BRIDGE_README.md and the comment above                *)
(* check_and_update_circuit_breaker say.                                   *)
BreachRejected ==
    [][cfg.breakerThreshold > 0 /\ acct'.withdrawn # acct.withdrawn =>
        breaker'.volume.amount <= cfg.breakerThreshold]_vars

(* No call but a fee payout can open a shortfall.                          *)
OnlyFeesCostSolvency ==
    [][Solvent /\ ~Solvent' => fees'.vault < fees.vault]_vars

(* While there is a shortfall no depositor's money moves and no request is *)
(* added: until a donation covers it, requests can only be reclaimed.      *)
FrozenWhileShort ==
    [][~Solvent /\ ~Solvent' =>
        /\ acct'.deposited = acct.deposited /\ acct'.withdrawn = acct.withdrawn
        /\ Pending(wq') \subseteq Pending(wq)]_vars

(* The vault implements Escrow.                                            *)
Claims == [i \in Pending(wq) |-> [to |-> wq.req[i].to, owed |-> wq.req[i].amount]]

E == INSTANCE Escrow WITH
        Payees    <- Users,
        Sums      <- Amounts,
        pool      <- NetDeposited(acct) - acct.liabilities,
        claims    <- Claims,
        nextClaim <- wq.nextId,
        paid      <- acct.withdrawn

ImplementsEscrow == E!EscrowSpec
=============================================================================

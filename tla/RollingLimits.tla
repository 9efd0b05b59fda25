---------------------------- MODULE RollingLimits ----------------------------
(***************************************************************************)
(* The volume limits of FiatBridge.  Each is a counter with the ledger its *)
(* window began at; the window restarts lazily, at the first charge        *)
(* WINDOW_LEDGERS after that ledger.  The circuit breaker adds a latch.    *)
(***************************************************************************)
EXTENDS Integers

CONSTANTS
    WINDOW_LEDGERS,     \* length of a window, 17 280 ledgers in the code
    U32_MAX             \* as a reset window: auto-reset is off

ASSUME WindowAssumption == WINDOW_LEDGERS \in Nat \ {0} /\ U32_MAX \in Nat

NoWindow == [amount |-> 0, start |-> -1]        \* no record stored yet

(* The record a charge at ledger `now` starts from.                        *)
Rolled(w, now) ==
    IF w.start = -1 \/ now >= w.start + WINDOW_LEDGERS
    THEN [amount |-> 0, start |-> now]
    ELSE w

ChargeLatest(w, now, x) == [amount |-> x, start |-> Rolled(w, now).start]  \* a wrong Charge

Charge(w, now, x) ==
    [amount |-> Rolled(w, now).amount + x, start |-> Rolled(w, now).start]

FitsAlone(limit, w, now, x) == limit > 0 => x <= limit                 \* a wrong Fits

(* A limit that is zero or negative is off: nothing is checked or counted. *)
Fits(limit, w, now, x) == limit > 0 => Rolled(w, now).amount + x <= limit

ChargeIfOn(limit, w, now, x) == IF limit > 0 THEN Charge(w, now, x) ELSE w

-----------------------------------------------------------------------------
ClearBreaker == [tripped |-> FALSE, trippedAt |-> 0, volume |-> NoWindow]

AutoResetEarly(b, resetWindow, now) ==      \* a wrong AutoResetDue
    resetWindow # U32_MAX /\ now >= b.trippedAt + resetWindow

AutoResetDue(b, resetWindow, now) ==
    resetWindow # U32_MAX /\ now > b.trippedAt + resetWindow

(* require_circuit_breaker_clear: looks at the latch even when the         *)
(* threshold is off, and never clears it.                                  *)
BreakerClear(b, resetWindow, now) == b.tripped => AutoResetDue(b, resetWindow, now)

(* check_and_update_circuit_breaker: does the withdrawal go ahead?         *)
BreakerAdmits(threshold, resetWindow, b, now) ==
    threshold > 0 => BreakerClear(b, resetWindow, now)

BreakerTripsAbove(threshold, b, now, x) ==      \* a wrong BreakerAfter
    LET base  == IF b.tripped THEN [amount |-> 0, start |-> now] ELSE b.volume
        total == Charge(base, now, x)
        trips == total.amount > threshold
    IN  IF threshold <= 0 THEN b
        ELSE [tripped   |-> trips,
              trippedAt |-> IF trips THEN now ELSE b.trippedAt,
              volume    |-> total]

(* ... and the breaker it leaves behind.  An auto-reset restarts the       *)
(* volume; the withdrawal that reaches the threshold is itself admitted.   *)
BreakerAfter(threshold, b, now, x) ==
    LET base  == IF b.tripped THEN [amount |-> 0, start |-> now] ELSE b.volume
        total == Charge(base, now, x)
        trips == total.amount >= threshold
    IN  IF threshold <= 0 THEN b
        ELSE [tripped   |-> trips,
              trippedAt |-> IF trips THEN now ELSE b.trippedAt,
              volume    |-> total]
=============================================================================

------------------------------- MODULE Escrow -------------------------------
(***************************************************************************)
(* What the vault promises, without a queue, limits, clocks or settings:   *)
(* money is in the pool, reserved by one claim, or paid out.  A claim is   *)
(* opened once under a fresh id for one payee, is only ever paid to that   *)
(* payee and never beyond its amount, and nothing but the pool is spent on *)
(* anything else.                                                          *)
(***************************************************************************)
EXTENDS Integers

CONSTANTS
    Payees,     \* who a claim may be for
    Sums        \* the sums that may move

VARIABLES
    pool,       \* taken in and not reserved
    claims,     \* open claims: id -> payee and amount still owed
    nextClaim,  \* ids below it have been used
    paid        \* paid out so far

escrowVars == <<pool, claims, nextClaim, paid>>

EscrowInit ==
    /\ pool = 0 /\ paid = 0
    /\ claims = [i \in {} |-> 0] /\ nextClaim = 0

Fund(x) ==
    /\ x > 0
    /\ pool' = pool + x
    /\ UNCHANGED <<claims, nextClaim, paid>>

Spend(x) ==
    /\ x > 0 /\ x <= pool
    /\ pool' = pool - x /\ paid' = paid + x
    /\ UNCHANGED <<claims, nextClaim>>

Claim(to, x) ==
    /\ x > 0 /\ x <= pool
    /\ pool' = pool - x
    /\ claims' = [i \in DOMAIN claims \cup {nextClaim} |->
                    IF i = nextClaim THEN [to |-> to, owed |-> x] ELSE claims[i]]
    /\ nextClaim' = nextClaim + 1
    /\ UNCHANGED paid

Without(id) == [i \in DOMAIN claims \ {id} |-> claims[i]]

Settle(id, x) ==
    /\ x > 0 /\ x <= claims[id].owed
    /\ claims' = IF x = claims[id].owed THEN Without(id)
                 ELSE [claims EXCEPT ![id].owed = @ - x]
    /\ paid' = paid + x
    /\ UNCHANGED <<pool, nextClaim>>

Abandon(id) ==
    /\ pool' = pool + claims[id].owed
    /\ claims' = Without(id)
    /\ UNCHANGED <<nextClaim, paid>>

EscrowNext ==
    \/ \E x \in Sums : Fund(x) \/ Spend(x)
    \/ \E to \in Payees, x \in Sums : Claim(to, x)
    \/ \E id \in DOMAIN claims : Abandon(id) \/ \E x \in Sums : Settle(id, x)

EscrowSpec == EscrowInit /\ [][EscrowNext]_escrowVars
=============================================================================

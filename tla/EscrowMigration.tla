---------------------------- MODULE EscrowMigration ----------------------------
(***************************************************************************)
(* The receipts of deposits and their move into escrow records             *)
(* (stellar-contracts/src/lib.rs), while the admin changes, the contract   *)
(* is paused and unpaused, and ledgers close.  A receipt stays; the entry  *)
(* that finds it by its number is temporary, and a number whose entry has  *)
(* expired is passed over.  Which deposits and requests the limits let     *)
(* through, and what they do to money, is FiatBridge's.                    *)
(***************************************************************************)
EXTENDS BridgeAdmin

CONSTANTS
    Amounts,        \* amounts deposited
    MinTTL,         \* MIN_TTL
    BatchSizes,     \* arguments of migrate_escrow
    Cursors,        \* arguments of set_migration_cursor, an i128
    CursorMax,      \* i128::MAX
    Word,           \* 2^64: the cursor is stored as a u64
    MaxReceipts     \* bound

ASSUME MigrationAssumption ==
    /\ Amounts \subseteq Nat /\ MinTTL \in Nat /\ BatchSizes \subseteq Nat
    /\ Cursors \subseteq Int /\ Word \in Nat \ {0} /\ MaxReceipts \in Nat

VARIABLES
    receiptCounter, receipts,   \* ReceiptCounter; Receipt, by number from 0
    indexUntil,                 \* the last ledger of each ReceiptIndex
    records,                    \* EscrowRecord, by id
    cursor, version,            \* EscrowMigrationCursor, EscrowStorageVersion
    jumped, migrated    \* history: the positions the cursor was set past, and
                        \* the receipts there were when the version was set

receiptVars == <<receiptCounter, receipts, indexUntil>>
migrationVars == <<receiptVars, records, cursor, version, jumped, migrated>>

MigrationInit ==
    /\ AdminInit
    /\ receiptCounter = 0 /\ receipts = <<>> /\ indexUntil = <<>>
    /\ records = <<>> /\ cursor = 0 /\ version = 0
    /\ jumped = {} /\ migrated = 0

Live(i) == seq <= indexUntil[i]
Larger(m, n) == IF m >= n THEN m ELSE n

-----------------------------------------------------------------------------
(* The part of deposit that writes the receipt and its index entry.        *)
DepositReceipt(from, amount) ==
    /\ ~controls.paused /\ from \notin denied /\ receiptCounter < MaxReceipts
    /\ receiptCounter' = receiptCounter + 1
    /\ receipts' = [i \in 0..receiptCounter |->
           IF i < receiptCounter THEN receipts[i]
           ELSE [depositor |-> from, amount |-> amount, ledger |-> seq]]
    /\ indexUntil' = [i \in 0..receiptCounter |->
           IF i < receiptCounter THEN indexUntil[i] ELSE seq + MinTTL]
    /\ UNCHANGED <<adminVars, records, cursor, version, jumped, migrated>>

(* extend_receipt_ttls_for_depositor, as request_withdrawal calls it: what *)
(* has expired is not found, and no entry's time gets shorter.             *)
RequestExtendsTtls(to) ==
    LET ttl == MinTTL + controls.tuned["set_lock"] + controls.tuned["set_cooldown"] IN
    /\ HasAdmin /\ ~controls.paused /\ to \notin denied
    /\ indexUntil' = [i \in DOMAIN indexUntil |->
           IF Live(i) /\ receipts[i].depositor = to THEN Larger(indexUntil[i], seq + ttl)
           ELSE indexUntil[i]]
    /\ UNCHANGED <<adminVars, receiptCounter, receipts, records, cursor, version, jumped, migrated>>

(* The receipts a batch that stops at position stop has copied.  It stops  *)
(* at the end or when it has copied batch of them, whichever is first.     *)
Copied(stop) == {i \in cursor..(stop - 1) : Live(i)}

StopsAt(stop, batch) ==
    /\ stop < receiptCounter => Cardinality(Copied(stop)) = batch
    /\ \A early \in cursor..(stop - 1) : Cardinality(Copied(early)) < batch

RecordsLastMissed(stop) ==   \* a wrong RecordsAfter: the batch ends before its last copy
    [i \in DOMAIN records \cup (Copied(stop) \ {stop - 1}) |->
        IF i \in Copied(stop) THEN receipts[i] ELSE records[i]]

RecordsPacked(stop) ==      \* a wrong RecordsAfter: no id is left empty
    LET Place(i) == cursor + Cardinality(Copied(i))
        Copies(id) == {i \in Copied(stop) : Place(i) = id}
    IN [id \in DOMAIN records \cup {Place(i) : i \in Copied(stop)} |->
           IF Copies(id) # {} THEN receipts[CHOOSE i \in Copies(id) : TRUE] ELSE records[id]]

RecordsAfter(stop) ==
    [i \in DOMAIN records \cup Copied(stop) |->
        IF i \in Copied(stop) THEN receipts[i] ELSE records[i]]

MigrateEscrow(batch) ==
    /\ HasAdmin /\ version = 0
    /\ \E stop \in cursor..Larger(cursor, receiptCounter) :
          /\ StopsAt(stop, batch)
          /\ records' = RecordsAfter(stop)
          /\ cursor' = stop
          /\ version' = IF stop >= receiptCounter THEN 1 ELSE 0
          /\ migrated' = IF stop >= receiptCounter THEN receiptCounter ELSE migrated
    /\ UNCHANGED <<adminVars, receiptVars, jumped>>

(* A positive number may still be 0 as a u64.                              *)
SetMigrationCursor(c) ==
    /\ HasAdmin /\ c > 0 /\ c # CursorMax
    /\ cursor' = c % Word
    /\ jumped' = jumped \cup cursor..((c % Word) - 1)
    /\ UNCHANGED <<adminVars, receiptVars, records, version, migrated>>

-----------------------------------------------------------------------------
MigrationCalls ==
    \/ \E a \in Addresses, amount \in Amounts : DepositReceipt(a, amount)
    \/ \E a \in Addresses : RequestExtendsTtls(a)
    \/ \E batch \in BatchSizes : MigrateEscrow(batch)
    \/ \E c \in Cursors : SetMigrationCursor(c)

MigrationNext == MigrationCalls \/ (AdminNext /\ UNCHANGED migrationVars)

MigrationSpec == MigrationInit /\ [][MigrationNext]_<<adminVars, migrationVars>>

(***************************************************************************)
(* Properties                                                              *)
(***************************************************************************)
(* Nothing that can still be found is left behind: a receipt whose index   *)
(* entry lives has an escrow record once the cursor is past it or the      *)
(* version is set with it among the receipts, in whatever batches and      *)
(* with whatever deposits between them - unless the admin set the cursor   *)
(* past it.  And a record says what the receipt of its number says, also   *)
(* when numbers were passed over or gone over again (lib.rs:4257-4343).    *)
NoneLeftBehind ==
    /\ \A i \in 0..(receiptCounter - 1) :
          Live(i) /\ i \notin jumped /\ i < Larger(cursor, migrated) => i \in DOMAIN records
    /\ DOMAIN records \subseteq 0..(receiptCounter - 1)
    /\ \A i \in DOMAIN records : records[i] = receipts[i]

(* A record that was written stays as it is, however often the cursor is   *)
(* set back over it (lib.rs:4300-4319, 4503-4522).                         *)
RecordsStay ==
    [][\A i \in DOMAIN records : i \in DOMAIN records' /\ records'[i] = records[i]
      ]_<<adminVars, migrationVars>>

=============================================================================

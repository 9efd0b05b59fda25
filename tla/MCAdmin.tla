-------------------------------- MODULE MCAdmin --------------------------------
(***************************************************************************)
(* BridgeAdmin and EscrowMigration for TLC.  Their groups of calls meet in the admin's seat and  *)
(* in the controls; each scene lets some of them move and leaves the other *)
(* storage as init left it.                                                *)
(***************************************************************************)
EXTENDS EscrowMigration, TLC

CONSTANTS a1, a2, a3,
          AdminScenes   \* the scenes of the run

VARIABLE scene

Op(name, value) == [name |-> name, value |-> value]
SomeOperations == {Op("pause", 0), Op("set_slippage_threshold", 10001), Op("set_quota", 5)}
SomeBatches ==
    {<<Op("pause", 0), Op("set_limit", 5), Op("set_cooldown", 5)>>,
     <<Op("set_lock", Malformed), Op("set_slippage_threshold", 10001), Op("unpause", 0)>>}

MCAdminInit == scene \in AdminScenes /\ MigrationInit

(* Three ledgers and the deposits of two: an entry can expire, or be kept. *)
FewReceipts == seq' <= 3 /\ \A i \in DOMAIN receipts' : receipts'[i].depositor # a3

(* The seat with pauses, batches and upgrades; the signers' proposals with *)
(* the controls they share with the admin; the operators under changing    *)
(* admins; the lists; the receipts with pauses and hand-overs.             *)
MCAdminNext ==
    /\ UNCHANGED scene
    /\ \/ scene = "migration" /\ MigrationCalls
       \/ UNCHANGED migrationVars /\
          \/ scene = "seat" /\ (SeatNext \/ LockedNext \/ ControlsNext \/ LedgerCloses)
          \/ scene = "signers" /\ (MultisigNext \/ ControlsNext)
          \/ scene = "roster" /\ (RosterNext \/ SeatNext \/ LedgerCloses) /\ renounceAt' = None
          \/ scene = "lists" /\ ListsNext
          \/ scene = "migration" /\ (ControlsNext \/ LedgerCloses)
    /\ scene = "migration" => FewReceipts

MCAdminSpec == MCAdminInit /\ [][MCAdminNext]_<<scene, adminVars, migrationVars>>
=============================================================================

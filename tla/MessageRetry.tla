----------------------------- MODULE MessageRetry -----------------------------
(***************************************************************************)
(* The resends of one failed message (hooks/useMessageRetry.ts, used by    *)
(* components/Message.tsx): a few automatic ones after growing waits, and  *)
(* the Retry button, both through one handler that answers later.          *)
(***************************************************************************)
EXTENDS Naturals

CONSTANTS
    MaxAutoRetries,     \* MAX_AUTO_RETRIES: 3
    MaxManual,          \* presses of the button (bound)
    MaxMounts           \* times the row comes back (bound)

ASSUME RetryAssumption == {MaxAutoRetries, MaxManual, MaxMounts} \subseteq Nat

VARIABLES
    failed,     \* isFailed: the message has an error
    attempts,   \* automatic attempts since the message failed
    resends,    \* handler calls of the mounted row that have not settled
    orphans,    \* those of rows that were unmounted meanwhile
    retrying,   \* isRetrying
    waiting,    \* the timer of the next automatic attempt is set
    present,    \* the message's row is mounted
    manual,     \* presses so far
    mounts      \* times the row came back so far

retryVars == <<failed, attempts, resends, orphans, retrying, waiting, present, manual,
               mounts>>

rowVars == <<orphans, mounts>>

(* The scheduling effect, run after every change of what it depends on.    *)
Schedules(isFailed, tried, inFlight, mounted) ==
    isFailed /\ mounted /\ ~inFlight /\ tried < MaxAutoRetries

RetryInit ==
    /\ failed = FALSE /\ attempts = 0 /\ resends = 0 /\ retrying = FALSE
    /\ waiting = FALSE /\ present = TRUE /\ manual = 0 /\ orphans = 0 /\ mounts = 0

MessageFails ==
    /\ ~failed /\ failed' = TRUE
    /\ waiting' = Schedules(TRUE, attempts, retrying, present)
    /\ UNCHANGED <<attempts, resends, retrying, present, manual, rowVars>>

(* The message is no longer failed: a fresh budget, no timer.              *)
MessageRecovers ==
    /\ failed /\ failed' = FALSE
    /\ attempts' = 0 /\ waiting' = FALSE
    /\ UNCHANGED <<resends, retrying, present, manual, rowVars>>

(* runRetry: a settled or throwing handler clears the flag at once.        *)
RunRetry ==
    /\ resends' = resends + 1 /\ retrying' = TRUE /\ waiting' = FALSE

AutoRetry ==
    /\ waiting /\ attempts' = attempts + 1
    /\ RunRetry
    /\ UNCHANGED <<failed, present, manual, rowVars>>

RetryNow ==
    /\ failed /\ present /\ ~retrying /\ manual < MaxManual /\ manual' = manual + 1
    /\ RunRetry
    /\ UNCHANGED <<failed, attempts, present, rowVars>>

HandlerSettles ==
    /\ resends > 0 /\ resends' = resends - 1 /\ retrying' = FALSE
    /\ waiting' = Schedules(failed, attempts, FALSE, TRUE)
    /\ UNCHANGED <<failed, attempts, present, manual, rowVars>>

(* finish touches no state once the row is gone (isMountedRef).            *)
OrphanSettles ==
    /\ orphans > 0 /\ orphans' = orphans - 1
    /\ UNCHANGED <<failed, attempts, resends, retrying, waiting, present, manual, mounts>>

(* The row leaves the rendered page: its timer and state go, a resend that *)
(* is under way does not, and a row that comes back knows nothing of it.   *)
RowUnmounts ==
    /\ present /\ present' = FALSE
    /\ orphans' = orphans + resends /\ resends' = 0
    /\ waiting' = FALSE /\ retrying' = FALSE /\ attempts' = 0
    /\ UNCHANGED <<failed, manual, mounts>>

RowMounts ==
    /\ ~present /\ present' = TRUE /\ mounts < MaxMounts /\ mounts' = mounts + 1
    /\ waiting' = Schedules(failed, 0, FALSE, TRUE)
    /\ UNCHANGED <<failed, attempts, resends, retrying, manual, orphans>>

RetryNext ==
    \/ MessageFails \/ MessageRecovers \/ AutoRetry \/ RetryNow \/ HandlerSettles \/ OrphanSettles
    \/ RowUnmounts \/ RowMounts

-----------------------------------------------------------------------------
RetryTypeOK ==
    /\ {failed, retrying, waiting, present} \subseteq BOOLEAN
    /\ attempts \in 0..MaxAutoRetries /\ {resends, orphans} \subseteq Nat
    /\ mounts \in 0..MaxMounts /\ manual \in 0..MaxManual

=============================================================================

-------------------------------- MODULE MCLive --------------------------------
(***************************************************************************)
(* What must eventually happen on the page, for TLC: the chat's spinner    *)
(* and offline queue, a payout under way and a transaction sent.  One part *)
(* moves in each scene, and its fairness is that of its own steps.         *)
(***************************************************************************)
EXTENDS ChatSession, PayoutWizard, DepositModal, TLC

CONSTANTS LiveScenes   \* the parts that move in the run

VARIABLE scene

liveVars == <<scene, chatVars, wizardVars, depositVars>>

OneSaved == {[bank |-> 1, account |-> 1]}

MCLiveInit ==
    /\ scene \in LiveScenes
    /\ ChatInit /\ (scene # "session" => online)
    /\ WizardInit
    /\ DepositInit

(* The session of a user who sends and cancels, and neither clears nor     *)
(* loads a chat nor asks the flow to stop: those move the machine and      *)
(* leave requests, queue and spinner alone.                                *)
SendingNext ==
    \/ InitSession \/ CancelPending \/ Settled
    \/ \E s \in Sends : SendMessage(s, FALSE)
    \/ GoOffline \/ GoOnline \/ IdbWrite \/ Restore \/ Reload

(* Webhooks arrive while the dialog waits at its last step.                *)
HooksAtTheEnd == hooks' # hooks => step = 4 /\ flows = {} /\ deposit = 1

MCLiveNext ==
    /\ UNCHANGED scene
    /\ IF scene = "session" THEN SendingNext ELSE UNCHANGED chatVars
    /\ IF scene = "payout" THEN WizardNext /\ HooksAtTheEnd ELSE UNCHANGED wizardVars
    /\ IF scene = "deposit" THEN DepositNext ELSE UNCHANGED depositVars

(* ChatFairness, WizardFairness and DepositFairness, each in its scene.    *)
LiveFairness ==
    /\ WF_chatVars(scene = "session" /\ Settled)
    /\ SF_chatVars(scene = "session" /\ Answered)
    /\ WF_chatVars(scene = "session" /\ (IdbWrite \/ Restore))
    /\ WF_chatVars(scene = "session" /\ GoOnline)
    /\ WF_wizardVars(scene = "payout" /\ PayoutGoesOn /\ HooksAtTheEnd)
    /\ WF_depositVars(scene = "deposit" /\ \E a \in acts : Settles(a))

MCLiveSpec == MCLiveInit /\ [][MCLiveNext]_liveVars /\ LiveFairness
=============================================================================

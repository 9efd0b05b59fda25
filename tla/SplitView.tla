----------------------------- MODULE SplitView -----------------------------
(***************************************************************************)
(* The comparison of two threads (useSplitView, SplitViewComparison) and   *)
(* the connection status it announces (useOnlineStatus).  The panes draw   *)
(* an optimistic copy of the hook's state, which an effect overwrites      *)
(* when the state changes.  The browser's "online" event is believed only  *)
(* after a probe of up to five seconds; "offline" is believed at once.     *)
(***************************************************************************)
EXTENDS Naturals, FiniteSets

CONSTANTS Threads,         \* ids of sessions that may exist
          Bubbles,         \* ids of messages that may be selected
          MaxProbes,       \* bound: "online" events
          MaxSplitMoves    \* bound: clicks in the comparison

ASSUME SplitAssumption == MaxProbes \in Nat /\ MaxSplitMoves \in Nat

VARIABLES
    threads,        \* the sessions the history holds
    split,          \* state of useSplitView; 0 is null
    panes,          \* what the panes draw: the optimistic copy
    copied,         \* per pane, the message with the check mark, 0 for none
    copyTimers,     \* pending resets of the check mark, by pane
    browserOnline,  \* navigator.onLine
    probes,         \* probes of the network in flight
    probeCount,
    isOnline, wasOffline,   \* state of useOnlineStatus
    wasOnlineRef,   \* the value the previous effect saw
    lastToast,      \* history: the last announcement made
    splitMoves

splitPanel == <<threads, split, panes, copied, copyTimers, splitMoves>>
onlineSide == <<browserOnline, probes, probeCount, isOnline, wasOffline, wasOnlineRef, lastToast>>
splitVars == <<splitPanel, onlineSide>>

Sides == {"left", "right"}
Closed == [isOpen |-> FALSE, left |-> 0, right |-> 0, selected |-> 0]
Drawn(s) == [left |-> s.left, right |-> s.right, selected |-> s.selected]

SplitInit ==
    /\ threads \in {Threads, {}}
    /\ split = Closed
    /\ panes = Drawn(Closed)
    /\ copied = [d \in Sides |-> 0]
    /\ copyTimers = [d \in Sides |-> 0]
    /\ splitMoves = 0
    /\ browserOnline \in BOOLEAN
    /\ probes = {}
    /\ probeCount = 0
    /\ isOnline = browserOnline            \* the mount effect
    /\ wasOffline = FALSE
    /\ wasOnlineRef = isOnline
    /\ lastToast = IF isOnline THEN "none" ELSE "offline"

(* A handler sets the optimistic copy and the state in one batch; the      *)
(* effect then runs only when one of the three ids of the state changed.   *)
Batch(state, optimistic) ==
    /\ splitMoves < MaxSplitMoves
    /\ splitMoves' = splitMoves + 1
    /\ split' = state
    /\ panes' = IF Drawn(state) # Drawn(split) THEN Drawn(state) ELSE optimistic
    /\ UNCHANGED <<threads, onlineSide>>

(* The header's button. *)
OpenSplit(l, r) ==
    /\ ~split.isOpen
    /\ IF threads = {} THEN l = 0 /\ r = 0
       ELSE /\ l \in threads
            /\ IF threads = {l} THEN r = split.right ELSE r \in threads \ {l}
    /\ Batch([split EXCEPT !.isOpen = TRUE, !.left = l, !.right = r, !.selected = 0], panes)
    /\ UNCHANGED <<copied, copyTimers>>

(* A pane is drawn only while one of the two threads still exists. *)
PanesShown == split.isOpen /\ {panes.left, panes.right} \cap threads # {}

CloseSplit ==
    /\ split.isOpen
    /\ Batch(Closed, panes)
    /\ copied' = [d \in Sides |-> 0]       \* the panes unmount
    /\ copyTimers' = [d \in Sides |-> 0]

SwapSessions ==
    /\ split.isOpen
    /\ Batch([split EXCEPT !.left = split.right, !.right = split.left, !.selected = 0],
             [left |-> IF panes.right # 0 THEN panes.right ELSE split.right,
              right |-> IF panes.left # 0 THEN panes.left ELSE split.left,
              selected |-> 0])
    /\ UNCHANGED <<copied, copyTimers>>

SelectThread(d, t) ==
    /\ PanesShown
    /\ t \in threads \cup {0}
    /\ Batch([split EXCEPT ![d] = t, !.selected = 0], [panes EXCEPT ![d] = t, !.selected = 0])
    /\ UNCHANGED <<copied, copyTimers>>

(* A click on the selected message takes the selection back. *)
HandleMessageClick(m) ==
    /\ PanesShown
    /\ LET chosen == IF panes.selected = m THEN 0 ELSE m
       IN  Batch([split EXCEPT !.selected = chosen], [panes EXCEPT !.selected = chosen])
    /\ UNCHANGED <<copied, copyTimers>>

(* The check mark is set before the clipboard answers; handleCopyMessage   *)
(* of the panel swallows a refusal, so the mark stays two seconds anyway.  *)
CopyMessage(d, m) ==
    /\ PanesShown
    /\ copyTimers[d] < 2
    /\ copied' = [copied EXCEPT ![d] = m]
    /\ copyTimers' = [copyTimers EXCEPT ![d] = @ + 1]
    /\ splitMoves < MaxSplitMoves
    /\ splitMoves' = splitMoves + 1
    /\ UNCHANGED <<threads, split, panes, onlineSide>>

(* Timers are not cancelled: an earlier one clears a later check mark.     *)
CopyMarkEnds(d) ==
    /\ copyTimers[d] > 0
    /\ copyTimers' = [copyTimers EXCEPT ![d] = @ - 1]
    /\ copied' = [copied EXCEPT ![d] = 0]
    /\ UNCHANGED <<threads, split, panes, splitMoves, onlineSide>>

(* A session is deleted from, or added to, the history behind the panel.   *)
ThreadsChange(t) ==
    /\ splitMoves < MaxSplitMoves
    /\ splitMoves' = splitMoves + 1
    /\ threads' = IF t \in threads THEN threads \ {t} ELSE threads \cup {t}
    /\ UNCHANGED <<split, panes, copied, copyTimers, onlineSide>>

----------------------------------------------------------------------------
(* The effect of SplitViewComparison on the new values of the hook.        *)
Announce(online, offlineSeen) ==
    LET goes == wasOnlineRef /\ ~online
        back == ~wasOnlineRef /\ online /\ offlineSeen
    IN  /\ isOnline' = online
        /\ wasOnlineRef' = online
        /\ lastToast' = IF goes THEN "offline" ELSE IF back THEN "back" ELSE lastToast
        /\ wasOffline' = (offlineSeen /\ ~back)

BrowserOffline ==
    /\ browserOnline
    /\ browserOnline' = FALSE
    /\ Announce(FALSE, TRUE)
    /\ UNCHANGED <<probes, probeCount, splitPanel>>

BrowserOnline ==
    /\ ~browserOnline
    /\ probeCount < MaxProbes
    /\ browserOnline' = TRUE
    /\ probeCount' = probeCount + 1
    /\ probes' = probes \cup {probeCount + 1}
    /\ UNCHANGED <<isOnline, wasOffline, wasOnlineRef, lastToast, splitPanel>>

(* A probe answers, possibly after the connection was lost again: its      *)
(* verdict is taken without another look at the browser.                   *)
ProbeAnswers(p, reachable) ==
    /\ p \in probes
    /\ probes' = probes \ {p}
    /\ Announce(reachable, wasOffline \/ reachable)
    /\ UNCHANGED <<browserOnline, probeCount, splitPanel>>

SplitNext ==
    \/ \E l, r \in Threads \cup {0} : OpenSplit(l, r)
    \/ CloseSplit
    \/ SwapSessions
    \/ \E d \in Sides, t \in Threads \cup {0} : SelectThread(d, t)
    \/ \E m \in Bubbles : HandleMessageClick(m)
    \/ \E d \in Sides, m \in Bubbles : CopyMessage(d, m)
    \/ \E d \in Sides : CopyMarkEnds(d)
    \/ \E t \in Threads : ThreadsChange(t)
    \/ BrowserOffline
    \/ BrowserOnline
    \/ \E p \in 1..MaxProbes, reachable \in BOOLEAN : ProbeAnswers(p, reachable)

----------------------------------------------------------------------------
SplitTypeOK ==
    /\ threads \subseteq Threads
    /\ split \in [isOpen : BOOLEAN, left : Threads \cup {0}, right : Threads \cup {0},
                  selected : Bubbles \cup {0}]
    /\ copied \in [Sides -> Bubbles \cup {0}]
    /\ copyTimers \in [Sides -> 0..2]
    /\ browserOnline \in BOOLEAN /\ isOnline \in BOOLEAN /\ wasOffline \in BOOLEAN
    /\ probes \subseteq 1..MaxProbes
    /\ wasOnlineRef = isOnline
    /\ splitMoves \in 0..MaxSplitMoves

(* The announcements alternate: the user is told the connection is back    *)
(* exactly when told before that it was lost, and never told twice in a    *)
(* row that it was lost.                                                   *)
(* Code: useOnlineStatus and the toast effect of SplitViewComparison.tsx.  *)
ToastsMatchStatus == IF isOnline THEN lastToast # "offline" ELSE lastToast = "offline"

=============================================================================

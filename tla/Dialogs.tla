------------------------------ MODULE Dialogs ------------------------------
(***************************************************************************)
(* The dialogs of the page: useAccessibleModal, which every dialog calls,  *)
(* and the bottom sheet, which slides out for 300 ms before it closes.     *)
(* An open dialog locks the page's scrolling, takes the focus, listens for *)
(* Escape on the document, and gives the focus back to what had it.        *)
(***************************************************************************)
EXTENDS Integers, FiniteSets

CONSTANTS Modals,          \* the dialogs of the page
          Sheet,           \* the one of them that is a bottom sheet
          Faulty,          \* dialogs that hold nothing focusable
          MaxOpenings      \* bound: dialogs opened

ASSUME DialogsAssumption ==
    IsFiniteSet(Modals) /\ Sheet \in Modals /\ MaxOpenings \in Nat

VARIABLES
    opened,         \* isOpen of each dialog
    sliding,        \* isClosing of the sheet
    dragged,        \* the sheet is dragged past the threshold
    slideTimers,    \* closings of the sheet still to come
    trapped,        \* the dialogs whose effect is set up
    opener,         \* what had the focus when each was set up
    focus,          \* a dialog, "page", or "body" when nothing has it
    lockCount,      \* scrollLockCount
    overflow,       \* body.style.overflow
    kept,           \* scrollLockPreviousOverflow
    awaiting,       \* dialogs given one more frame for their container
    complained,     \* dialogs that reported a trap that cannot work
    openings

sheetVars == <<sliding, dragged, slideTimers>>
trapVars == <<trapped, opener, focus, lockCount, overflow, kept, awaiting, complained>>
dialogsVars == <<opened, sheetVars, trapVars, openings>>

DialogsInit ==
    /\ opened = [m \in Modals |-> FALSE]
    /\ sliding = FALSE /\ dragged = FALSE /\ slideTimers = 0
    /\ trapped = {}
    /\ opener = [m \in Modals |-> "page"]
    /\ focus = "page"
    /\ lockCount = 0 /\ overflow = "" /\ kept = ""
    /\ awaiting = {} /\ complained = {}
    /\ openings = 0

(* acquireScrollLock and releaseScrollLock.                                *)
Acquire ==
    /\ lockCount' = lockCount + 1
    /\ overflow' = "hidden"
    /\ kept' = IF lockCount = 0 THEN overflow ELSE kept

ReleaseScroll ==
    /\ lockCount' = IF lockCount = 0 THEN 0 ELSE lockCount - 1
    /\ overflow' = IF lockCount = 1 THEN kept ELSE overflow
    /\ kept' = IF lockCount = 1 THEN "" ELSE kept

(* The effect sets the trap up.  A container that is not there yet gets    *)
(* one frame; one that holds nothing focusable and refuses the focus is    *)
(* reported once.                                                          *)
SetUp(m, late) ==
    /\ Acquire
    /\ trapped' = trapped \cup {m}
    /\ opener' = [opener EXCEPT ![m] = focus]
    /\ awaiting' = IF late THEN awaiting \cup {m} ELSE awaiting
    /\ focus' = IF late \/ m \in Faulty THEN focus ELSE m
    /\ complained' = IF ~late /\ m \in Faulty THEN complained \cup {m} ELSE complained \ {m}

(* The focus goes back if what had it is still on the page.                *)
Back(m, stays) ==
    IF opener[m] = "page" \/ opener[m] \in {d \in Modals : stays[d]} THEN opener[m]
    ELSE "body"

(* The effect's cleanup                                                    *)
TearDown(m, stays) ==
    /\ ReleaseScroll
    /\ trapped' = trapped \ {m}
    /\ awaiting' = awaiting \ {m}
    /\ focus' = Back(m, stays)
    /\ UNCHANGED <<opener, complained>>

----------------------------------------------------------------------------
OpenDialog(m, late) ==
    /\ openings < MaxOpenings
    /\ openings' = openings + 1
    /\ ~opened[m]
    /\ opened' = [opened EXCEPT ![m] = TRUE]
    /\ IF m \in trapped THEN UNCHANGED trapVars ELSE SetUp(m, late)
    \* the sheet forgets a drag and a closing under way, not its timer
    /\ IF m = Sheet THEN sliding' = FALSE /\ dragged' = FALSE ELSE UNCHANGED <<sliding, dragged>>
    /\ UNCHANGED slideTimers

FrameArrives(m, there) ==
    /\ m \in awaiting
    /\ awaiting' = awaiting \ {m}
    /\ focus' = IF there /\ m \notin Faulty THEN m ELSE focus
    /\ complained' = IF there /\ m \notin Faulty THEN complained ELSE complained \cup {m}
    /\ UNCHANGED <<opened, sheetVars, trapped, opener, lockCount, overflow, kept, openings>>

(* A dialog that is not the sheet closes at once. *)
CloseDialog(m) ==
    /\ opened[m] /\ m # Sheet
    /\ opened' = [opened EXCEPT ![m] = FALSE]
    /\ TearDown(m, opened')
    /\ UNCHANGED <<sheetVars, openings>>

(* Two dialogs in one batch: the deposit closes and the payout opens; all  *)
(* cleanups run before any set-up.                                         *)
HandOver(m, n) ==
    /\ openings < MaxOpenings
    /\ openings' = openings + 1
    /\ opened[m] /\ ~opened[n] /\ m # Sheet /\ n # Sheet
    /\ opened' = [opened EXCEPT ![m] = FALSE, ![n] = TRUE]
    /\ LET back == Back(m, opened')
       IN  /\ opener' = [opener EXCEPT ![n] = back]
           /\ focus' = IF n \in Faulty THEN back ELSE n
    /\ trapped' = (trapped \ {m}) \cup {n}
    /\ awaiting' = awaiting \ {m}
    /\ complained' = IF n \in Faulty THEN complained \cup {n} ELSE complained \ {n}
    /\ UNCHANGED <<lockCount, overflow, kept, sheetVars>>

(* Escape reaches the listener of every trap, not only the topmost's.      *)
Escape ==
    /\ trapped # {}
    /\ opened' = [m \in Modals |-> opened[m] /\ m \notin trapped]
    /\ lockCount' = 0 /\ overflow' = kept /\ kept' = ""
    /\ trapped' = {} /\ awaiting' = {}
    /\ focus' \in {IF opener[m] = "page" THEN "page" ELSE "body" : m \in trapped}
    /\ UNCHANGED <<opener, complained, sheetVars, openings>>

----------------------------------------------------------------------------
(* The sheet: a drag past the threshold, the overlay and the button all    *)
(* call animateClose, which sets a timer it never cancels.                 *)

DragSheet(far) ==
    /\ opened[Sheet] /\ ~sliding
    /\ dragged # far
    /\ dragged' = far
    /\ UNCHANGED <<opened, sliding, slideTimers, trapVars, openings>>

AnimateClose ==
    /\ opened[Sheet]
    /\ slideTimers < 2
    /\ sliding' = TRUE
    /\ slideTimers' = slideTimers + 1
    /\ IF Sheet \in trapped THEN TearDown(Sheet, opened) ELSE UNCHANGED trapVars
    /\ UNCHANGED <<opened, dragged, openings>>

SheetSlidOut ==
    /\ slideTimers > 0
    /\ slideTimers' = slideTimers - 1
    /\ sliding' = FALSE /\ dragged' = FALSE
    /\ opened' = [opened EXCEPT ![Sheet] = FALSE]
    /\ IF Sheet \in trapped THEN TearDown(Sheet, opened') ELSE UNCHANGED trapVars
    /\ UNCHANGED openings

DialogsNext ==
    \/ \E m \in Modals, late \in BOOLEAN : OpenDialog(m, late)
    \/ \E m \in Modals, there \in BOOLEAN : FrameArrives(m, there)
    \/ \E m \in Modals : CloseDialog(m)
    \/ \E m, n \in Modals : HandOver(m, n)
    \/ Escape
    \/ \E far \in BOOLEAN : DragSheet(far)
    \/ AnimateClose
    \/ SheetSlidOut

----------------------------------------------------------------------------
(* The dialogs open, the focus they hold and the sheet are of their shapes. *)
DialogsTypeOK ==
    /\ opened \in [Modals -> BOOLEAN]
    /\ sliding \in BOOLEAN /\ dragged \in BOOLEAN /\ slideTimers \in 0..2
    /\ trapped \subseteq Modals /\ awaiting \subseteq trapped /\ complained \subseteq Modals
    /\ opener \in [Modals -> Modals \cup {"page", "body"}]
    /\ focus \in Modals \cup {"page", "body"}
    /\ lockCount \in 0..Cardinality(Modals)
    /\ overflow \in {"", "hidden"} /\ kept \in {"", "hidden"}
    /\ openings \in 0..MaxOpenings

(* The page scrolls exactly when no dialog holds it: whatever the order in *)
(* which dialogs open over one another and close, the last one to go gives *)
(* the scrolling back.                                                     *)
(* Code: acquireScrollLock and releaseScrollLock of useAccessibleModal.ts. *)
ScrollFollowsDialogs == (overflow = "hidden") <=> (trapped # {})

=============================================================================

---------------------------- MODULE SessionStore -----------------------------
(***************************************************************************)
(* The saved conversations: every component that calls useChatHistory has  *)
(* a copy of its own of the one record in localStorage, loaded when the    *)
(* component mounts and written back, whole, half a second after it        *)
(* changed.  "chat" is the copy of useChat, "page" that of                 *)
(* StellarChatInterface itself, which the search and the split view read   *)
(* and nothing edits, "side" that of ChatHistorySidebar, which comes and   *)
(* goes while the page stays.                                              *)
(***************************************************************************)
EXTENDS Lists, Naturals, Sequences, SequencesExt, FiniteSets, FiniteSetsExt, Functions

CONSTANTS
    Ids,            \* session ids, in the order they are made
    MaxSessions,    \* chatHistory.ts: 50
    MaxEdits,       \* creations and updates, in all page loads together
    MaxPages        \* page loads and sidebar mounts

ASSUME StoreAssumption ==
    /\ IsFiniteSet(Ids) /\ Ids = 1..Cardinality(Ids)
    /\ MaxSessions \in Nat \ {0} /\ MaxPages \in Nat
    /\ MaxEdits \in 0..Cardinality(Ids)

NoSession == 0

Hooks == {"chat", "page", "side"}

(* The hooks whose components mount in one commit.                         *)
Groups == {{"chat", "page"}, {"side"}}

VARIABLES
    storage,        \* localStorage[defi_chat_history]
    view,           \* historyState of each hook
    phase,          \* of each hook: off, on, crashed
    dirty,          \* the hooks whose debounced save is pending
    edits,          \* creations and updates so far: lastUpdated of the next one
    openPages,          \* loads and mounts so far
    booted,         \* useChat's machine has left UNINITIALIZED in this page
    hidden,         \* pendingDeleteId
    deleteTimers,   \* the sessions that a running delete timer will delete
    stash,          \* stashedSessionsRef, while pendingClearAll: a history
    clearingAll        \* pendingClearAll

sideVars == <<hidden, deleteTimers, stash, clearingAll>>
historyVars == <<storage, view, phase, dirty, edits, openPages, booted, hidden, deleteTimers,
               stash, clearingAll>>

(* A history: at gives lastUpdated of each session, pins the pinned ones,  *)
(* newest pinnedAt first, and stale those of them whose pinnedAt came from *)
(* storage: it is a string there and loadFromLocalStorage leaves it one.   *)
Histories ==
    [current : Ids \cup {NoSession},
     at : UNION {[some -> 0..MaxEdits] : some \in SUBSET Ids},
     pins : BoundedSeq(Ids, Cardinality(Ids)), stale : SUBSET Ids]

NoHistory == [current |-> NoSession, at |-> <<>>, pins |-> <<>>, stale |-> {}]

Has(history, id) == id \in DOMAIN history.at

Keep(history, some) ==
    [current |-> history.current, at |-> Restrict(history.at, some),
     pins |-> Filtered(history.pins, some),
     stale |-> history.stale \cap some]

Newest(at) == CHOOSE some \in kSubset(MaxSessions, DOMAIN at) :
                  \A kept \in some, gone \in DOMAIN at \ some : at[kept] >= at[gone]

(* cleanupOldSessions, applied when a session is made and only then.       *)
Cleaned(history) ==
    IF Cardinality(DOMAIN history.at) <= MaxSessions THEN history
    ELSE Keep(history, Newest(history.at))

(* createNewSession: the new session is the newest and the current one.    *)
Created(history, id) ==
    Cleaned([history EXCEPT !.current = id,
                            !.at = [x \in DOMAIN @ \cup {id} |->
                                      IF x = id THEN edits + 1 ELSE @[x]]])

(* Sorting two pinned sessions calls getTime on both their pinnedAt.       *)
Renders(history) == Len(history.pins) < 2 \/ history.stale = {}

Loaded(stored) == [stored EXCEPT !.stale = ToSet(stored.pins)]

On(h) == phase[h] = "on"

(* A new state of some hooks: it is rendered, and saved later unless it is *)
(* empty.  No error boundary is around the chat: a copy that does not      *)
(* render takes the whole page down.                                       *)
Set(some, history) ==
    /\ view' = [h \in Hooks |-> IF h \in some THEN history ELSE view[h]]
    /\ IF Renders(history)
       THEN /\ phase' = [h \in Hooks |-> IF h \in some THEN "on" ELSE phase[h]]
            /\ dirty' = IF history.at # <<>> THEN dirty \cup some ELSE dirty \ some
       ELSE /\ phase' = [h \in Hooks |-> IF h \in some \/ On(h) THEN "crashed"
                                                             ELSE phase[h]]
            /\ dirty' = {}

-----------------------------------------------------------------------------
StoreInit ==
    /\ storage = NoHistory /\ view = [h \in Hooks |-> NoHistory]
    /\ phase = [h \in Hooks |-> "off"] /\ dirty = {} /\ edits = 0 /\ openPages = 0
    /\ booted = FALSE
    /\ hidden = NoSession /\ deleteTimers = {} /\ stash = NoHistory /\ clearingAll = FALSE

Mount(some) ==
    /\ \A h \in some : phase[h] = "off"
    /\ openPages < MaxPages /\ openPages' = openPages + 1
    /\ "side" \in some => On("chat")
    /\ Set(some, Loaded(storage))
    /\ UNCHANGED <<storage, edits, booted, sideVars>>

NextId == edits + 1

ShownId == view["chat"].current

(* useChat's initialisation: a copy of the current conversation, or an     *)
(* empty one when there is none.  A current one that is empty leaves the   *)
(* machine UNINITIALIZED: that is Boot not taken.                          *)
Boot ==
    /\ On("chat") /\ ~booted /\ booted' = TRUE
    /\ edits < MaxEdits /\ edits' = edits + 1
    /\ Set({"chat"}, Created(view["chat"], NextId))
    /\ UNCHANGED <<storage, openPages, sideVars>>

(* The page's buttons work once the effects of its load have run.          *)
Ready == On("chat") /\ (booted \/ ShownId # NoSession)

NewSession ==
    /\ Ready /\ edits < MaxEdits /\ edits' = edits + 1
    /\ Set({"chat"}, Created(view["chat"], NextId))
    /\ UNCHANGED <<storage, openPages, booted, sideVars>>

Touched(history, id) == [history EXCEPT !.at[id] = edits + 1]

UpdateCurrent ==
    /\ On("chat") /\ booted /\ edits < MaxEdits /\ edits' = edits + 1
    /\ Has(view["chat"], ShownId)
    /\ Set({"chat"}, Touched(view["chat"], ShownId))
    /\ UNCHANGED <<storage, openPages, booted, sideVars>>

Visible == DOMAIN view["side"].at \ {hidden}

(* The rows of the sidebar and the results of the search, which looks in   *)
(* the page's copy.  A deep link offers none: useDeepLink runs in the      *)
(* page's first commit, when useChat's copy is still empty.                *)
Offered == Visible \cup DOMAIN view["page"].at

(* One of them is opened in the chat, whose copy may not have it; the      *)
(* messages put on the screen are then saved as an update of the session.  *)
LoadSession(id) ==
    /\ Ready /\ id \in Offered /\ Has(view["chat"], id)
    /\ LET opened == [view["chat"] EXCEPT !.current = id]
       IN  IF booted /\ id # ShownId
           THEN /\ edits < MaxEdits /\ edits' = edits + 1
                /\ Set({"chat"}, Touched(opened, id))
           ELSE Set({"chat"}, opened) /\ UNCHANGED edits
    /\ UNCHANGED <<storage, openPages, booted, sideVars>>

DeleteSessionToo(id) ==      \* a wrong DeleteSession: an earlier timer is not cleared
    /\ On("side") /\ id \in Visible
    /\ hidden' = id /\ deleteTimers' = deleteTimers \cup {id}
    /\ UNCHANGED <<storage, view, phase, dirty, edits, openPages, booted, stash, clearingAll>>

(* handleDeleteSession: the row is hidden at once, the session deleted     *)
(* when the undo period ends; a second deletion takes the timer over.      *)
DeleteSession(id) ==
    /\ On("side") /\ id \in Visible
    /\ hidden' = id /\ deleteTimers' = {id}
    /\ UNCHANGED <<storage, view, phase, dirty, edits, openPages, booted, stash, clearingAll>>

UndoDelete ==
    /\ On("side") /\ hidden # NoSession /\ ~clearingAll
    /\ hidden' = NoSession /\ deleteTimers' = {}
    /\ UNCHANGED <<storage, view, phase, dirty, edits, openPages, booted, stash, clearingAll>>

DeletedStillCurrent(history, id) ==      \* a wrong Deleted: it may stay the current session
    Keep(history, DOMAIN history.at \ {id})

Deleted(history, id) ==
    LET kept == Keep(history, DOMAIN history.at \ {id})
    IN  [kept EXCEPT !.current = IF @ = id THEN NoSession ELSE @]

DeleteTimerFires(id) ==
    /\ On("side") /\ id \in deleteTimers
    /\ deleteTimers' = deleteTimers \ {id} /\ hidden' = NoSession
    /\ Set({"side"}, Deleted(view["side"], id))
    /\ UNCHANGED <<storage, edits, openPages, booted, stash, clearingAll>>

TogglePin(id) ==
    /\ On("side") /\ id \in Visible
    /\ Set({"side"},
           IF \E i \in DOMAIN view["side"].pins : view["side"].pins[i] = id
           THEN [view["side"] EXCEPT !.pins = Filtered(@, Ids \ {id}),
                                     !.stale = @ \ {id}]
           ELSE [view["side"] EXCEPT !.pins = <<id>> \o @])
    /\ UNCHANGED <<storage, edits, openPages, booted, sideVars>>

(* onDrop, movePinned: the moved rows get fresh, ordered pinnedAt dates,   *)
(* so they come before the pinned rows a search has filtered out.          *)
ReorderPinned(order) ==
    /\ On("side") /\ Len(order) > 1
    /\ order \in Seq(ToSet(view["side"].pins)) /\ IsInjective(order)
    /\ Set({"side"}, [view["side"] EXCEPT
                       !.pins = order \o Filtered(@, Ids \ ToSet(order)),
                       !.stale = @ \ ToSet(order)])
    /\ UNCHANGED <<storage, edits, openPages, booted, sideVars>>

(* handleClearAll: the sidebar's copy and the storage, not the chat's copy.*)
ClearAll ==
    /\ On("side")
    /\ stash' = [view["side"] EXCEPT !.current = NoSession] /\ clearingAll' = TRUE
    /\ storage' = NoHistory
    /\ Set({"side"}, NoHistory)
    /\ UNCHANGED <<edits, openPages, booted, hidden, deleteTimers>>

ClearTimerFires ==
    /\ On("side") /\ clearingAll
    /\ stash' = NoHistory /\ clearingAll' = FALSE
    /\ UNCHANGED <<storage, view, phase, dirty, edits, openPages, booted, hidden, deleteTimers>>

Unmounted(some) ==
    /\ phase' = [h \in Hooks |-> IF h \in some THEN "off" ELSE phase[h]]
    /\ view' = [h \in Hooks |-> IF h \in some THEN NoHistory ELSE view[h]]
    /\ dirty' = dirty \ some
    /\ hidden' = NoSession /\ deleteTimers' = {} /\ stash' = NoHistory /\ clearingAll' = FALSE

(* undoClearAll: the stash goes to storage and the page is reloaded.       *)
UndoClearAll ==
    /\ On("side") /\ clearingAll
    /\ IF stash.at # <<>>
       THEN /\ storage' = stash /\ booted' = FALSE
            /\ Unmounted(Hooks)
       ELSE /\ stash' = NoHistory /\ clearingAll' = FALSE
            /\ UNCHANGED <<storage, view, phase, dirty, booted, hidden, deleteTimers>>
    /\ UNCHANGED <<edits, openPages>>

(* The debounced save: the whole copy, whatever the storage holds by now.  *)
Save(h) ==
    /\ h \in dirty /\ On(h)
    /\ storage' = view[h] /\ dirty' = dirty \ {h}
    /\ UNCHANGED <<view, phase, edits, openPages, booted, sideVars>>

(* The sidebar is replaced by a skeleton whenever the chat is loading.     *)
UnmountSide ==
    /\ On("side") /\ Unmounted({"side"})
    /\ UNCHANGED <<storage, edits, openPages, booted>>

ReloadPage ==
    /\ phase["chat"] # "off" /\ Unmounted(Hooks) /\ booted' = FALSE
    /\ UNCHANGED <<storage, edits, openPages>>

StoreNext ==
    \/ \E some \in Groups : Mount(some)
    \/ \E h \in Hooks : Save(h)
    \/ Boot \/ NewSession \/ UpdateCurrent
    \/ \E id \in Ids : LoadSession(id) \/ DeleteSession(id) \/ DeleteTimerFires(id)
                       \/ TogglePin(id)
    \/ \E order \in SetToAllKPermutations(ToSet(view["side"].pins)) : ReorderPinned(order)
    \/ UndoDelete \/ ClearAll \/ ClearTimerFires \/ UndoClearAll
    \/ UnmountSide \/ ReloadPage

-----------------------------------------------------------------------------
StoreTypeOK ==
    /\ storage \in Histories /\ stash \in Histories
    /\ view \in [Hooks -> Histories]
    /\ phase \in [Hooks -> {"off", "on", "crashed"}] /\ dirty \subseteq Hooks
    /\ edits \in 0..MaxEdits /\ openPages \in 0..MaxPages
    /\ hidden \in Ids \cup {NoSession} /\ deleteTimers \subseteq Ids
    /\ {booted, clearingAll} \subseteq BOOLEAN

(* Whatever copies were written over one another, the current session and  *)
(* every pinned one are sessions of the same history, in storage and in    *)
(* each copy, after evictions, deletions and undone clears.                *)
HistoryCoherent ==
    \A history \in {storage, stash} \cup {view[h] : h \in Hooks} :
        /\ history.current # NoSession => Has(history, history.current)
        /\ ToSet(history.pins) \subseteq DOMAIN history.at /\ IsInjective(history.pins)

(* A session is deleted only out of the one row whose undo button is still *)
(* on screen: no timer of an earlier or an undone deletion is running.     *)
DeletionUndoable == deleteTimers \subseteq {hidden} \ {NoSession}

=============================================================================

------------------------------- MODULE Composer -------------------------------
(***************************************************************************)
(* The message box (components/ChatInput.tsx) and its drafts               *)
(* (lib/draftUtils.ts): one draft per chat session in localStorage, saved  *)
(* half a second after the last keystroke, restored when the session       *)
(* changes and whenever the window gains focus.                            *)
(*                                                                         *)
(* A text is a number, 0 the empty one; home[t] is the session whose box   *)
(* it was typed in.                                                        *)
(***************************************************************************)
EXTENDS Naturals

CONSTANTS
    BoxSessions,       \* chat sessions
    MaxTexts        \* texts typed

Texts == 1..MaxTexts
Empty == 0
NoChat == "no session"

ASSUME ComposerAssumption == MaxTexts \in Nat /\ NoChat \notin BoxSessions

VARIABLES
    box,        \* message
    chat,       \* the sessionId prop
    drafts,     \* localStorage: the draft of each session, or Empty
    saving,     \* the 500 ms timer is running, for the box and chat of now
    sent,       \* texts given to onSendMessage (history)
    home,       \* where each text was typed, or NoChat (history)
    linked,     \* the wallet is connected
    busy,       \* isLoading
    sendCooling,    \* useIdempotentAction's second after a submission
    warned      \* walletWarning

boxVars == <<box, chat, drafts, saving, sent, home, linked, busy, sendCooling, warned>>

Typed(t) == home[t] # NoChat

(* A change of box or chat restarts the timer; without a session none runs.*)
Show(text, inChat) ==
    /\ box' = text /\ chat' = inChat
    /\ saving' = (inChat # NoChat)

ComposerInit ==
    /\ box = Empty /\ chat = NoChat /\ drafts = [s \in BoxSessions |-> Empty]
    /\ saving = FALSE /\ sent = {} /\ home = [t \in Texts |-> NoChat]
    /\ linked \in BOOLEAN /\ busy = FALSE /\ sendCooling = FALSE /\ warned = FALSE

(* handleInputChange, selectCommand, insertEmoji: the box has a new text.  *)
Type(t) ==
    /\ chat # NoChat /\ ~Typed(t) /\ \A u \in 1..(t - 1) : Typed(u)
    /\ home' = [home EXCEPT ![t] = chat]
    /\ Show(t, chat)
    /\ UNCHANGED <<drafts, sent, linked, busy, sendCooling, warned>>

Erase ==
    /\ box # Empty
    /\ Show(Empty, chat)
    /\ UNCHANGED <<drafts, sent, home, linked, busy, sendCooling, warned>>

(* saveDraft; an empty text clears the draft.                              *)
SaveDraft ==
    /\ saving /\ saving' = FALSE
    /\ drafts' = [drafts EXCEPT ![chat] = box]
    /\ UNCHANGED <<box, chat, sent, home, linked, busy, sendCooling, warned>>

(* submitMessage: without a wallet a warning; disabled while empty,        *)
(* loading or just submitted; else the message goes, with its draft.       *)
WarnNoWallet ==
    /\ ~linked /\ warned' = TRUE
    /\ UNCHANGED <<box, chat, drafts, saving, sent, home, linked, busy, sendCooling>>

SubmitKeepingDraft ==      \* a wrong SubmitMessage: the draft is not cleared with the box
    /\ linked /\ box # Empty /\ ~busy /\ ~sendCooling
    /\ sent' = sent \cup {box} /\ sendCooling' = TRUE /\ warned' = FALSE
    /\ Show(Empty, chat)
    /\ UNCHANGED <<drafts, home, linked, busy>>

SubmitMessage ==
    /\ linked /\ box # Empty /\ ~busy /\ ~sendCooling
    /\ sent' = sent \cup {box} /\ sendCooling' = TRUE /\ warned' = FALSE
    /\ drafts' = IF chat = NoChat THEN drafts ELSE [drafts EXCEPT ![chat] = Empty]
    /\ Show(Empty, chat)
    /\ UNCHANGED <<home, linked, busy>>

(* useIdempotentAction lets the next submission through after a second.    *)
CoolDownTicks ==
    /\ sendCooling /\ sendCooling' = FALSE
    /\ UNCHANGED <<box, chat, drafts, saving, sent, home, linked, busy, warned>>

SwitchKeepingBox(s) ==      \* a wrong SwitchSession: without a draft the box is left alone
    /\ s # chat
    /\ Show(IF s = NoChat \/ drafts[s] = Empty THEN box ELSE drafts[s], s)
    /\ UNCHANGED <<drafts, sent, home, linked, busy, sendCooling, warned>>

(* The effect on sessionId: the box gets the draft of the new session, and *)
(* the timer that would have saved the old text is cleared.                *)
SwitchSession(s) ==
    /\ s # chat
    /\ Show(IF s = NoChat THEN Empty ELSE drafts[s], s)
    /\ UNCHANGED <<drafts, sent, home, linked, busy, sendCooling, warned>>

(* onFocus: a draft that differs replaces what is in the box.              *)
Focus ==
    /\ chat # NoChat /\ drafts[chat] \notin {Empty, box}
    /\ Show(drafts[chat], chat)
    /\ UNCHANGED <<drafts, sent, home, linked, busy, sendCooling, warned>>

(* getDraft and clearExpiredDrafts drop a draft a day old.                 *)
DraftExpires(s) ==
    /\ drafts[s] # Empty /\ drafts' = [drafts EXCEPT ![s] = Empty]
    /\ UNCHANGED <<box, chat, saving, sent, home, linked, busy, sendCooling, warned>>

LinkWallet ==
    /\ linked' = ~linked /\ warned' = (warned /\ linked)
    /\ UNCHANGED <<box, chat, drafts, saving, sent, home, busy, sendCooling>>

ToggleLoading ==
    /\ busy' = ~busy
    /\ UNCHANGED <<box, chat, drafts, saving, sent, home, linked, sendCooling, warned>>

ComposerNext ==
    \/ \E t \in Texts : Type(t)
    \/ \E s \in BoxSessions \cup {NoChat} : SwitchSession(s)
    \/ \E s \in BoxSessions : DraftExpires(s)
    \/ Erase \/ SaveDraft \/ WarnNoWallet \/ SubmitMessage \/ CoolDownTicks \/ Focus
    \/ LinkWallet \/ ToggleLoading

-----------------------------------------------------------------------------
ComposerTypeOK ==
    /\ box \in Texts \cup {Empty} /\ chat \in BoxSessions \cup {NoChat}
    /\ drafts \in [BoxSessions -> Texts \cup {Empty}]
    /\ sent \subseteq Texts /\ home \in [Texts -> BoxSessions \cup {NoChat}]
    /\ {saving, linked, busy, sendCooling, warned} \subseteq BOOLEAN

(* A text stays in the session it was typed in: no switch, focus or late   *)
(* save shows it in, or stores it as the draft of, another session.        *)
DraftsStayHome ==
    /\ box # Empty => home[box] = chat
    /\ \A s \in BoxSessions : drafts[s] # Empty => home[drafts[s]] = s

(* A message that was sent never comes back into the box, where a second   *)
(* press would send it again: neither a timer that was running, nor the    *)
(* focus of the window, nor a visit to another session revives it.         *)
SentStaysSent == box \notin sent /\ \A s \in BoxSessions : drafts[s] \notin sent
=============================================================================

------------------------------- MODULE ChatShell -------------------------------
(***************************************************************************)
(* The page of the chat (components/StellarChatInterface.tsx): which       *)
(* panels are open, the connection banner, the administrator's check and   *)
(* the poll of the withdrawal queue's depth.  The wallet changes as it     *)
(* likes (module Wallet says how); the panels' insides are modules of      *)
(* their own.  Its two long lists, the messages (ChatMessages.tsx) and the *)
(* sidebar's sessions (ChatHistorySidebar.tsx), are shown page by page     *)
(* from their end, and are here too.                                       *)
(***************************************************************************)
EXTENDS Naturals, FiniteSets

CONSTANTS ShellAccounts,   \* addresses the wallet may connect
          ShellAdmin,      \* the contract's administrator
          MaxShellMoves,   \* changes of the wallet
          MaxDepthPolls,   \* polls of the queue's depth
          MaxFlips,        \* times the browser loses the network
          ListPage,        \* entries of a page: 20 messages, 60 sessions in the code
          MaxListed,       \* entries of a list
          HelpCards        \* the cards of an empty chat

ASSUME ShellAssumption ==
  /\ ShellAccounts \subseteq Nat \ {0}
  /\ MaxShellMoves \in Nat /\ MaxDepthPolls \in Nat /\ MaxFlips \in Nat
  /\ ListPage \in Nat \ {0} /\ MaxListed \in Nat

VARIABLES
  shellAddress, mismatch,       \* connection.address (0: none), isNetworkMismatch
  epoch,                        \* changes of connection.isConnected
  moves,
  shellChecks, shellAdmin,      \* getAdmin calls under way, isAdmin
  depthPolls, depthPolled,      \* polls: epoch of the effect; polls made
  depth,                        \* withdrawalQueueDepth: epoch that read it, 0 null
  shellOnline, reconnected, noticeTimer, flips,
  depositOpen, adminMode, bankOpen,     \* StellarFiatModal and its mode, BankDetailsModal
  sidebar, sheet, narrow,       \* showSidebar, isSheetMounted, isMobile
  closing, forgotten            \* the close timer of the ref, those it lost

walletSide == <<shellAddress, mismatch, epoch, moves, shellChecks, shellAdmin>>
depthSide == <<depthPolls, depthPolled, depth>>
netSide == <<shellOnline, reconnected, noticeTimer, flips>>
panelSide == <<depositOpen, adminMode, bankOpen>>
sheetSide == <<sidebar, sheet, narrow, closing, forgotten>>
shellVars == <<walletSide, depthSide, netSide, panelSide, sheetSide>>

ShellInit ==
  /\ shellAddress = 0 /\ mismatch = FALSE /\ epoch = 1 /\ moves = 0
  /\ shellChecks = {} /\ shellAdmin = FALSE
  /\ depthPolls = {} /\ depthPolled = 0 /\ depth = 0
  /\ shellOnline \in BOOLEAN /\ reconnected = FALSE /\ noticeTimer = FALSE /\ flips = 0
  /\ depositOpen = FALSE /\ adminMode = FALSE /\ bankOpen = FALSE
  /\ sidebar = FALSE /\ sheet = FALSE /\ narrow \in BOOLEAN
  /\ closing = FALSE /\ forgotten = 0

(***************************************************************************)
(* The wallet's effects                                                    *)
(***************************************************************************)
(* A poll of the effect instance that is current now                       *)
PollDepth(e) ==
  /\ depthPolled < MaxDepthPolls /\ depthPolled' = depthPolled + 1
  /\ depthPolls' = depthPolls \cup {[id |-> depthPolled + 1, epoch |-> e]}

(* The connection changes: the administrator is asked for again, and, when *)
(* isConnected changed, the depth's effect is cleaned up and run again.    *)
WalletMoves(a, wrongNet) ==
  /\ moves < MaxShellMoves /\ moves' = moves + 1
  /\ <<a, wrongNet>> # <<shellAddress, mismatch>>
  /\ a = 0 => ~wrongNet
  /\ shellAddress' = a /\ mismatch' = wrongNet
  /\ IF a = shellAddress THEN UNCHANGED <<shellChecks, shellAdmin>>
     ELSE IF a = 0 THEN shellAdmin' = FALSE /\ UNCHANGED shellChecks
     ELSE /\ shellChecks' = shellChecks \cup {[id |-> moves + 1, address |-> a]}
          /\ UNCHANGED shellAdmin
  /\ IF (a = 0) = (shellAddress = 0) THEN UNCHANGED <<epoch, depthSide>>
     ELSE /\ epoch' = epoch + 1
          /\ IF a = 0 THEN depth' = 0 /\ UNCHANGED <<depthPolls, depthPolled>>
                      ELSE PollDepth(epoch + 1) /\ UNCHANGED depth
  /\ UNCHANGED <<netSide, panelSide, sheetSide>>

AdminKnown(c, ok) ==
  /\ c \in shellChecks /\ shellChecks' = shellChecks \ {c}
  /\ shellAdmin' = (ok /\ c.address = ShellAdmin)
  /\ UNCHANGED <<shellAddress, mismatch, epoch, moves, depthSide, netSide, panelSide,
                 sheetSide>>

(* Every thirty seconds while connected                                    *)
DepthTick ==
  /\ shellAddress # 0
  /\ PollDepth(epoch)
  /\ UNCHANGED <<depth, walletSide, netSide, panelSide, sheetSide>>

NeverCancelled(p) == FALSE      \* a wrong Cancelled: no clean-up, every answer is taken

(* cancelled: the clean-up of the effect that made the poll has run        *)
Cancelled(p) == p.epoch # epoch

DepthAnswers(p, ok) ==
  /\ p \in depthPolls /\ depthPolls' = depthPolls \ {p}
  /\ depth' = IF Cancelled(p) THEN depth ELSE IF ok THEN p.epoch ELSE 0
  /\ UNCHANGED <<depthPolled, walletSide, netSide, panelSide, sheetSide>>

(***************************************************************************)
(* The connection banner                                                   *)
(***************************************************************************)
ShellOnline ==
  /\ ~shellOnline /\ shellOnline' = TRUE
  /\ reconnected' = TRUE /\ noticeTimer' = TRUE
  /\ UNCHANGED <<flips, walletSide, depthSide, panelSide, sheetSide>>

ShellOfflineOnly ==      \* a wrong ShellOffline: the notice is not taken back
  /\ shellOnline /\ flips < MaxFlips /\ flips' = flips + 1
  /\ shellOnline' = FALSE
  /\ UNCHANGED <<reconnected, noticeTimer, walletSide, depthSide, panelSide, sheetSide>>

ShellOffline ==
  /\ shellOnline /\ flips < MaxFlips /\ flips' = flips + 1
  /\ shellOnline' = FALSE /\ reconnected' = FALSE /\ noticeTimer' = FALSE
  /\ UNCHANGED <<walletSide, depthSide, panelSide, sheetSide>>

NoticeEnds ==
  /\ noticeTimer /\ noticeTimer' = FALSE /\ reconnected' = FALSE
  /\ UNCHANGED <<shellOnline, flips, walletSide, depthSide, panelSide, sheetSide>>

(***************************************************************************)
(* The dialogs                                                             *)
(***************************************************************************)
(* handleTransactionReady and a confirm_fiat action; the composer's        *)
(* command and the deposit link do not look at the network (the link is    *)
(* not there on the wrong one).                                            *)
TransactionOpens(byCommand) ==
  /\ byCommand \/ ~mismatch
  /\ depositOpen' = TRUE /\ adminMode' = FALSE
  /\ UNCHANGED <<bankOpen, walletSide, depthSide, netSide, sheetSide>>

AdminOpens ==
  /\ shellAddress # 0 /\ ~mismatch /\ shellAdmin
  /\ depositOpen' = TRUE /\ adminMode' = TRUE
  /\ UNCHANGED <<bankOpen, walletSide, depthSide, netSide, sheetSide>>

DepositCloses ==
  /\ depositOpen /\ depositOpen' = FALSE /\ adminMode' = FALSE
  /\ UNCHANGED <<bankOpen, walletSide, depthSide, netSide, sheetSide>>

(* handleDepositSuccess, which the deposit dialog calls, closed meanwhile  *)
(* or not; the administrator's mode never does.                            *)
DepositSucceeds ==
  /\ ~adminMode
  /\ depositOpen' = FALSE /\ bankOpen' = TRUE
  /\ UNCHANGED <<adminMode, walletSide, depthSide, netSide, sheetSide>>

BankCloses ==
  /\ bankOpen /\ bankOpen' = FALSE
  /\ UNCHANGED <<depositOpen, adminMode, walletSide, depthSide, netSide, sheetSide>>

(***************************************************************************)
(* The sidebar, a sheet on narrow screens                                  *)
(***************************************************************************)
(* the header's button and the composer's command                          *)
ShowSidebar(open) ==
  /\ open # sidebar /\ sidebar' = open
  /\ sheet' = (sheet \/ (open /\ narrow))
  /\ UNCHANGED <<narrow, closing, forgotten, walletSide, depthSide, netSide, panelSide>>

(* closeSheet: backdrop, Escape, a session chosen; the ref's timer is      *)
(* replaced, not cleared.                                                  *)
CloseSheet ==
  /\ sheet /\ forgotten < 1
  /\ closing' = TRUE
  /\ forgotten' = IF closing THEN forgotten + 1 ELSE forgotten
  /\ UNCHANGED <<sidebar, sheet, narrow, walletSide, depthSide, netSide, panelSide>>

SheetCloses ==
  /\ \/ closing /\ closing' = FALSE /\ UNCHANGED forgotten
     \/ forgotten > 0 /\ forgotten' = forgotten - 1 /\ UNCHANGED closing
  /\ sheet' = FALSE /\ sidebar' = FALSE
  /\ UNCHANGED <<narrow, walletSide, depthSide, netSide, panelSide>>

Resize ==
  /\ narrow' = ~narrow /\ sidebar' = FALSE /\ sheet' = FALSE
  /\ UNCHANGED <<closing, forgotten, walletSide, depthSide, netSide, panelSide>>

ShellNext ==
  \/ \E a \in ShellAccounts \cup {0}, wrongNet \in BOOLEAN : WalletMoves(a, wrongNet)
  \/ \E c \in shellChecks, ok \in BOOLEAN : AdminKnown(c, ok)
  \/ \E p \in depthPolls, ok \in BOOLEAN : DepthAnswers(p, ok)
  \/ DepthTick \/ ShellOnline \/ ShellOffline \/ NoticeEnds
  \/ \E byCommand \in BOOLEAN : TransactionOpens(byCommand)
  \/ AdminOpens \/ DepositCloses \/ DepositSucceeds \/ BankCloses
  \/ \E open \in BOOLEAN : ShowSidebar(open)
  \/ CloseSheet \/ SheetCloses \/ Resize

(***************************************************************************)
(* The lists, shown page by page                                           *)
(***************************************************************************)
VARIABLES
  listed,                 \* messages of the chat (allMessages.length)
  shownCount,             \* visibleCount of useChatPagination
  loadingMore,            \* isLoadingMore: its 400 ms timer is pending
  thinking,               \* isLoading, a property of ChatMessages
  scrollTimer,            \* the 100 ms timer of the automatic scroll is pending
  keepPlace,              \* shouldPreserveScroll
  dismissed, dismissals,  \* dismissedCards, and localStorage's ({}: none)
  sessionsListed,         \* filteredUnpinned.length
  activeFromEnd,          \* how many sessions from the active one on, 0: it is not listed
  sideCount,              \* visibleCount of useSessionPagination
  sideLoading             \* its timer: the length it was set for, 0: none

messageListVars == <<listed, shownCount, loadingMore, thinking, scrollTimer, keepPlace,
                     dismissed, dismissals>>
sideListVars == <<sessionsListed, activeFromEnd, sideCount, sideLoading>>

Smaller(m, n) == IF m < n THEN m ELSE n

(* slice(-count), of which slice(-0) is the whole list                     *)
InWindow(n, count) == IF count = 0 THEN n ELSE Smaller(n, count)
NextCount(n, count) == Smaller(count + ListPage, n)

CountStays(n, count) == count      \* a wrong CountFor: a list that got short is no reason

(* the effect on a changed length                                          *)
CountFor(n, count) == IF n <= ListPage THEN ListPage ELSE count

ScrollsAnyway(n, busy) == busy \/ n > 0      \* a wrong ScrollsSoon: whatever is loaded

(* the effect of the automatic scroll, which first clears its timer        *)
ScrollsSoon(n, busy) == (busy \/ n > 0) /\ ~loadingMore /\ ~keepPlace

ListInit ==
  /\ listed \in 0 .. MaxListed /\ shownCount = ListPage /\ loadingMore = FALSE
  /\ thinking = FALSE /\ scrollTimer = (listed > 0) /\ keepPlace = FALSE
  /\ dismissed = {} /\ dismissals = {}
  /\ sessionsListed = 0 /\ activeFromEnd = 0 /\ sideCount = ListPage /\ sideLoading = 0

(* A message comes, or another session does, of n messages                 *)
ListChanges(n) ==
  /\ listed' = n
  /\ IF n = listed THEN UNCHANGED <<shownCount, scrollTimer>>
     ELSE shownCount' = CountFor(n, shownCount) /\ scrollTimer' = ScrollsSoon(n, thinking)
  /\ dismissed' = IF dismissals = {} THEN dismissed ELSE dismissals
  /\ UNCHANGED <<loadingMore, thinking, keepPlace, dismissals>>

ThinkingChanges ==
  /\ thinking' = ~thinking /\ scrollTimer' = ScrollsSoon(listed, ~thinking)
  /\ UNCHANGED <<listed, shownCount, loadingMore, keepPlace, dismissed, dismissals>>

(* The reader reached the top (the observer): the place is remembered.     *)
LoadMore ==
  /\ listed > shownCount /\ ~loadingMore
  /\ loadingMore' = TRUE /\ keepPlace' = TRUE /\ scrollTimer' = FALSE
  /\ UNCHANGED <<listed, shownCount, thinking, dismissed, dismissals>>

(* The timer reads the list of now; then the place is restored.            *)
MoreArrives ==
  /\ loadingMore /\ loadingMore' = FALSE
  /\ shownCount' = NextCount(listed, shownCount)
  /\ keepPlace' = FALSE /\ scrollTimer' = (thinking \/ listed > 0)
  /\ UNCHANGED <<listed, thinking, dismissed, dismissals>>

ScrollsToEnd ==
  /\ scrollTimer /\ scrollTimer' = FALSE
  /\ UNCHANGED <<listed, shownCount, loadingMore, thinking, keepPlace, dismissed, dismissals>>

(* The cards stand in an empty chat; localStorage may refuse.              *)
DismissCard(c, stored) ==
  /\ listed = 0 /\ ~thinking /\ c \notin dismissed
  /\ dismissed' = dismissed \cup {c}
  /\ dismissals' = IF stored THEN dismissed' ELSE dismissals
  /\ UNCHANGED <<listed, shownCount, loadingMore, thinking, scrollTimer, keepPlace>>

(* Another tab writes its own list over the stored one.                    *)
OtherTabDismisses(cs) ==
  /\ cs # {} /\ dismissals' = cs
  /\ UNCHANGED <<listed, shownCount, loadingMore, thinking, scrollTimer, keepPlace, dismissed>>

MessagesRemount ==
  /\ shownCount' = ListPage /\ loadingMore' = FALSE /\ keepPlace' = FALSE
  /\ scrollTimer' = (thinking \/ listed > 0) /\ dismissed' = dismissals
  /\ UNCHANGED <<listed, thinking, dismissals>>

MessageListNext ==
  \/ \E n \in 0 .. MaxListed : ListChanges(n)
  \/ ThinkingChanges \/ LoadMore \/ MoreArrives \/ ScrollsToEnd \/ MessagesRemount
  \/ \E c \in HelpCards, stored \in BOOLEAN : DismissCard(c, stored)
  \/ \E cs \in SUBSET HelpCards : OtherTabDismisses(cs)

NotExpanded(n, active, before, count) == count      \* a wrong Expanded: no such effect

(* The sidebar's effect: a window that does not reach the active session,  *)
(* as it was rendered before the other effects, is widened to it.          *)
Expanded(n, active, before, count) == IF active > Smaller(n, before) THEN active ELSE count

(* Sessions come, go, are pinned, searched or chosen                       *)
SessionsChange(n, active) ==
  /\ active <= n /\ sessionsListed' = n /\ activeFromEnd' = active
  /\ sideCount' = Expanded(n, active, sideCount, IF n = sessionsListed THEN sideCount
                                                 ELSE CountFor(n, sideCount))
  /\ UNCHANGED sideLoading

LoadMoreSessions ==
  /\ sessionsListed > sideCount /\ sideLoading = 0 /\ sideLoading' = sessionsListed
  /\ UNCHANGED <<sessionsListed, activeFromEnd, sideCount>>

(* Here the timer has the length of when it was set.                       *)
MoreSessionsArrive ==
  LET count == NextCount(sideLoading, sideCount)
  IN /\ sideLoading > 0 /\ sideLoading' = 0
     /\ sideCount' = Expanded(sessionsListed, activeFromEnd, count, count)
     /\ UNCHANGED <<sessionsListed, activeFromEnd>>

SidebarRemounts ==
  /\ sideLoading' = 0
  /\ sideCount' = Expanded(sessionsListed, activeFromEnd, ListPage, ListPage)
  /\ UNCHANGED <<sessionsListed, activeFromEnd>>

SideListNext ==
  \/ \E n, active \in 0 .. MaxListed : SessionsChange(n, active)
  \/ LoadMoreSessions \/ MoreSessionsArrive \/ SidebarRemounts

(***************************************************************************)
(* Properties                                                              *)
(***************************************************************************)
(* The page's state is of its shape.                                       *)
ShellTypeOK ==
  /\ shellAddress \in ShellAccounts \cup {0} /\ depth \in 0 .. epoch
  /\ {mismatch, shellAdmin, shellOnline, reconnected, noticeTimer, depositOpen, adminMode,
      bankOpen, sidebar, sheet, narrow, closing} \subseteq BOOLEAN
  /\ forgotten \in 0 .. 1 /\ (sheet => narrow) /\ (reconnected => noticeTimer /\ shellOnline)

(* A depth of the withdrawal queue on the screen was read for the wallet   *)
(* session that is open now: no late answer of an earlier session comes    *)
(* back after a disconnect (StellarChatInterface.tsx:276-307).             *)
DepthOfThisSession == depth # 0 => shellAddress # 0 /\ depth = epoch

(* The lists' state is of its shape.                                       *)
ListTypeOK ==
  /\ {listed, shownCount, sessionsListed, activeFromEnd, sideCount, sideLoading}
       \subseteq 0 .. MaxListed + ListPage
  /\ {loadingMore, thinking, scrollTimer, keepPlace} \subseteq BOOLEAN
  /\ dismissed \cup dismissals \subseteq HelpCards

(* A list that fits one page is shown whole, and the sidebar shows the     *)
(* active session, whatever was loaded, searched, deleted or switched to   *)
(* while a page was on its way (useChatPagination.ts:47-56, 83-89,         *)
(* useSessionPagination.ts:50-68, ChatHistorySidebar.tsx:349-359).         *)
ListsShowEnough ==
  /\ listed <= ListPage => InWindow(listed, shownCount) = listed
  /\ sessionsListed <= ListPage => sideCount >= sessionsListed
  /\ activeFromEnd <= InWindow(sessionsListed, sideCount)

(* While older messages are on their way, the reader's place is kept and   *)
(* no timer is set that would scroll to the end (ChatMessages.tsx:180-220).*)
PlaceIsKept == loadingMore => keepPlace /\ ~scrollTimer

=============================================================================

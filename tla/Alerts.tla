-------------------------------- MODULE Alerts --------------------------------
(***************************************************************************)
(* What the application tells the user: the toasts (lib/toastStore.ts,     *)
(* components/ToastProvider.tsx), the notifications behind the bell        *)
(* (hooks/useNotifications.ts, components/NotificationsCenter.tsx), and    *)
(* what raises toasts: the watch over the payments of a wallet             *)
(* (hooks/useWatchedWalletNotifications.ts), the stream of payment         *)
(* statuses (hooks/usePaystackWebhookStatus.ts) and the landing page's     *)
(* offline banner (components/OfflineStatusBanner.tsx).                    *)
(***************************************************************************)
EXTENDS Lists, Naturals, Sequences, SequencesExt, FiniteSets

CONSTANTS Notes,        \* messages of notifications
          DedupeMs,     \* dedupeWindowMs
          ToastMs,      \* a toast's duration, and the 5 s of a visible item
          MaxVisible,   \* MAX_VISIBLE_TOASTS
          MaxKept,      \* notifications kept, 50 in the code
          MaxNow,       \* time the model runs for
          MaxRaised,    \* toasts raised
          MaxPayments,  \* payments of the watched wallet
          MaxPolls,     \* polls of its payments
          MaxDrops      \* times the landing page's browser loses the network

ASSUME AlertsAssumption ==
  /\ DedupeMs \in Nat /\ ToastMs \in Nat \ {0} /\ MaxVisible \in Nat \ {0}
  /\ MaxKept \in Nat \ {0} /\ MaxNow \in Nat \ {0}
  /\ {MaxRaised, MaxPayments, MaxPolls, MaxDrops} \subseteq Nat

VARIABLES
  now,
  toasts, raised,   \* oldest first; toasts raised so far
  notes, noteCount, \* notifications, newest first, as localStorage has them
  bell,             \* the bell's panel is open
  payments,         \* external: the wallet's payments, TRUE for incoming
  lastSeen,         \* lastSeenRef: payments seen, 0 also for none
  watchPolls, polled, watching,
  announced,        \* payments announced, in order
  streamOpen,       \* the page's EventSource of payment statuses
  netUp, drops, netProbes,        \* navigator.onLine; useOnlineStatus's checks under way
  bannerOnline,                   \* isOnline of the banner, and its previousOnlineState
  bannerShown, reconnecting,      \* showBanner, isReconnecting
  hideTimers, bannerSkeleton      \* its 500 ms timers, none ever cleared; isLoading

toastVars == <<toasts, raised>>
noteVars == <<notes, noteCount, bell>>
watchVars == <<payments, lastSeen, watchPolls, polled, watching, announced>>
bannerVars == <<netUp, drops, netProbes, bannerOnline, bannerShown, reconnecting,
                hideTimers, bannerSkeleton>>
quietVars == <<now, noteVars, watchVars, streamOpen>>   \* what the banner leaves alone
alertsVars == <<now, toastVars, noteVars, watchVars, streamOpen, bannerVars>>

AlertsInit ==
  /\ now = 1 /\ toasts = <<>> /\ raised = 0
  /\ notes = <<>> /\ noteCount = 0 /\ bell = FALSE
  /\ payments \in {<<>>, <<TRUE>>} /\ lastSeen = Len(payments)
  /\ watchPolls = {} /\ polled = 0 /\ watching = TRUE /\ announced = <<>>
  /\ streamOpen = TRUE

(* The first render takes the network for up; the effects correct it.      *)
BannerInit ==
  /\ netUp \in BOOLEAN /\ drops = 0 /\ netProbes = 0
  /\ bannerOnline = netUp /\ bannerShown = ~netUp /\ reconnecting = FALSE
  /\ hideTimers = 0 /\ bannerSkeleton = TRUE

(***************************************************************************)
(* Toasts                                                                  *)
(***************************************************************************)
(* The provider shows the first three; an item that appears starts its own *)
(* timer.                                                                  *)
WithTimers(ts) ==
  [i \in DOMAIN ts |-> IF i <= MaxVisible /\ ts[i].seen = 0
                         THEN [ts[i] EXCEPT !.seen = now] ELSE ts[i]]

Duplicate(text) ==
  \E t \in Range(toasts) : t.text = text /\ now - t.at < DedupeMs

AddToast(text) ==
  IF Duplicate(text) THEN UNCHANGED toastVars
  ELSE /\ raised < MaxRaised /\ raised' = raised + 1
       /\ toasts' = WithTimers(Append(toasts, [id |-> raised + 1, text |-> text,
                                               at |-> now, seen |-> 0]))

(* the store's timer, the item's timer, its button or a swipe              *)
RemoveToast(t) ==
  /\ toasts' = WithTimers(Filtered(toasts, {u \in Range(toasts) : u.id # t.id}))
  /\ UNCHANGED <<raised, now, noteVars, watchVars, streamOpen>>

Due(t) == now >= t.at + ToastMs \/ (t.seen > 0 /\ now >= t.seen + ToastMs)
ToastExpires(t) == Due(t) /\ RemoveToast(t)
DismissToast(t) == t.seen > 0 /\ RemoveToast(t)

(* Timers fire before time passes them.                                    *)
TimePasses ==
  /\ now < MaxNow /\ \A t \in Range(toasts) : ~Due(t)
  /\ now' = now + 1
  /\ UNCHANGED <<toastVars, noteVars, watchVars, streamOpen>>

(***************************************************************************)
(* Notifications                                                           *)
(***************************************************************************)
(* addNotification: the newest fifty are kept, and each is a toast too.    *)
AddNotification(text) ==
  LET all == <<[id |-> noteCount + 1, read |-> FALSE]>> \o notes
  IN /\ noteCount < MaxRaised /\ noteCount' = noteCount + 1
     /\ notes' = SubSeq(all, 1, IF Len(all) < MaxKept THEN Len(all) ELSE MaxKept)
     /\ AddToast(text)
     /\ UNCHANGED <<now, bell, watchVars, streamOpen>>

ToggleBell ==
  bell' = ~bell /\ UNCHANGED <<now, toastVars, notes, noteCount, watchVars, streamOpen>>

MarkAsRead(i) ==
  /\ bell /\ i \in DOMAIN notes /\ ~notes[i].read
  /\ notes' = [notes EXCEPT ![i].read = TRUE]
  /\ UNCHANGED <<now, toastVars, noteCount, bell, watchVars, streamOpen>>

(* the buttons and the keys M and D                                        *)
MarkAllAsRead ==
  /\ bell
  /\ notes' = [i \in DOMAIN notes |-> [notes[i] EXCEPT !.read = TRUE]]
  /\ UNCHANGED <<now, toastVars, noteCount, bell, watchVars, streamOpen>>

ClearNotifications ==
  /\ bell /\ notes' = <<>>
  /\ UNCHANGED <<now, toastVars, noteCount, bell, watchVars, streamOpen>>

(***************************************************************************)
(* The watched wallet, already initialised                                 *)
(***************************************************************************)
PaymentMade(incoming) ==
  /\ Len(payments) < MaxPayments /\ payments' = Append(payments, incoming)
  /\ UNCHANGED <<now, toastVars, noteVars, lastSeen, watchPolls, polled, watching,
                 announced, streamOpen>>

(* poll, up to its await: the last id is read first                        *)
PollPayments ==
  /\ watching /\ polled < MaxPolls /\ polled' = polled + 1
  /\ watchPolls' = watchPolls \cup {[id |-> polled + 1, last |-> lastSeen]}
  /\ UNCHANGED <<now, toastVars, noteVars, payments, lastSeen, watching, announced,
                 streamOpen>>

(* The first n payments are the answer (0 also when it failed): the newest *)
(* incoming one but the last seen is announced.                            *)
PaymentsArrive(p, n) ==
  LET incoming == {i \in 1 .. n : payments[i] /\ i # p.last}
      newest   == CHOOSE i \in incoming : \A j \in incoming : j <= i
  IN /\ p \in watchPolls /\ n \in 0 .. Len(payments)
     /\ watchPolls' = watchPolls \ {p}
     /\ IF ~watching \/ n = 0 \/ n = p.last
          THEN UNCHANGED <<lastSeen, announced, toastVars>>
          ELSE /\ lastSeen' = n
               /\ IF incoming = {} THEN UNCHANGED <<announced, toastVars>>
                  ELSE /\ announced' = Append(announced, newest)
                       /\ AddToast(<<newest>>)
     /\ UNCHANGED <<now, noteVars, payments, polled, watching, streamOpen>>

(* The watchlist changes or the page goes.                                 *)
StopWatching ==
  /\ watching /\ watching' = FALSE
  /\ UNCHANGED <<now, toastVars, noteVars, payments, lastSeen, watchPolls, polled,
                 announced, streamOpen>>

(***************************************************************************)
(* The stream of payment statuses                                          *)
(***************************************************************************)
(* A status of the page's session: "pending" and "cancelled" are no toast. *)
PaymentStatus(status) ==
  /\ streamOpen
  /\ \/ status = "success" /\ AddToast(<<1, 1>>)
     \/ status \in {"failed", "reversed"} /\ AddToast(<<1, 2>>)
     \/ status \in {"pending", "cancelled"} /\ UNCHANGED toastVars
  /\ UNCHANGED <<now, noteVars, watchVars, streamOpen>>

(* onerror closes the source, which is never opened again.                 *)
StreamFails ==
  /\ streamOpen /\ streamOpen' = FALSE
  /\ UNCHANGED <<now, toastVars, noteVars, watchVars>>

AlertsNext ==
  \/ TimePasses \/ ToggleBell \/ MarkAllAsRead \/ ClearNotifications
  \/ \E t \in Range(toasts) : ToastExpires(t) \/ DismissToast(t)
  \/ \E text \in Notes : AddNotification(<<0, text>>)
  \/ \E i \in 1 .. MaxKept : MarkAsRead(i)
  \/ \E incoming \in BOOLEAN : PaymentMade(incoming)
  \/ PollPayments \/ StopWatching \/ StreamFails
  \/ \E status \in {"pending", "success", "failed", "reversed", "cancelled"} :
       PaymentStatus(status)
  \/ \E p \in watchPolls, n \in 0 .. MaxPayments : PaymentsArrive(p, n)

(***************************************************************************)
(* The banner                                                              *)
(***************************************************************************)
(* the effect, after isOnline fell or stayed down                          *)
BannerFalls ==
  /\ bannerOnline' = FALSE
  /\ IF bannerOnline THEN bannerShown' = TRUE /\ reconnecting' = FALSE
                     ELSE UNCHANGED <<bannerShown, reconnecting>>
  /\ UNCHANGED <<hideTimers, toastVars>>

TimersCleared == 0      \* a wrong TimersAfter: the effect's clean-up clears its timer

(* the latch it resets makes the effect run again, which clears nothing    *)
TimersAfter == hideTimers + 1

(* ... and after a reconnect: a toast, and the banner is to go             *)
BannerRises ==
  /\ bannerOnline' = TRUE /\ reconnecting' = TRUE /\ hideTimers' = TimersAfter
  /\ AddToast(<<2, 1>>)
  /\ UNCHANGED bannerShown

NetDrops ==
  /\ netUp /\ drops < MaxDrops /\ drops' = drops + 1 /\ netUp' = FALSE
  /\ BannerFalls
  /\ UNCHANGED <<netProbes, bannerSkeleton, quietVars>>

NetReturns ==
  /\ ~netUp /\ netUp' = TRUE /\ netProbes' = netProbes + 1
  /\ UNCHANGED <<drops, bannerOnline, bannerShown, reconnecting, hideTimers, bannerSkeleton,
                 toastVars, quietVars>>

(* verifyConnectivity answers, whatever the browser thinks by now.         *)
NetProbed(reached) ==
  /\ netProbes > 0 /\ netProbes' = netProbes - 1
  /\ IF reached THEN BannerRises ELSE BannerFalls
  /\ UNCHANGED <<netUp, drops, bannerSkeleton, quietVars>>

BannerHides ==
  /\ hideTimers > 0 /\ hideTimers' = hideTimers - 1
  /\ bannerShown' = FALSE /\ reconnecting' = FALSE
  /\ UNCHANGED <<netUp, drops, netProbes, bannerOnline, bannerSkeleton, toastVars, quietVars>>

BannerSkeletonEnds ==
  /\ bannerSkeleton /\ bannerSkeleton' = FALSE
  /\ UNCHANGED <<netUp, drops, netProbes, bannerOnline, bannerShown, reconnecting, hideTimers,
                 toastVars, quietVars>>

BannerNext ==
  \/ NetDrops \/ NetReturns \/ BannerHides \/ BannerSkeletonEnds
  \/ \E reached \in BOOLEAN : NetProbed(reached)

(***************************************************************************)
(* Properties                                                              *)
(***************************************************************************)
(* The alerts' state is of its shape.                                      *)
AlertsTypeOK ==
  /\ now \in 1 .. MaxNow /\ raised \in 0 .. MaxRaised /\ noteCount \in 0 .. MaxRaised
  /\ Len(notes) <= MaxKept /\ {bell, watching} \subseteq BOOLEAN
  /\ \A t \in Range(toasts) : t.id \in 1 .. raised /\ t.at \in 1 .. now /\ t.seen \in 0 .. now
  /\ lastSeen \in 0 .. Len(payments) /\ polled \in 0 .. MaxPolls
  /\ {streamOpen, netUp, bannerOnline, bannerShown, reconnecting, bannerSkeleton}
       \subseteq BOOLEAN
  /\ netProbes \in 0 .. MaxDrops + 1 /\ hideTimers \in 0 .. MaxDrops + 1

(* Once the connection is back the offline banner goes: it is still there  *)
(* only while a timer that will hide it runs, however the checks of the    *)
(* connection overlap with new losses of it                                *)
(* (OfflineStatusBanner.tsx:42-89, useOnlineStatus.ts:52-71).              *)
BannerGoes == bannerShown /\ bannerOnline => hideTimers > 0

=============================================================================

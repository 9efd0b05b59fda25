------------------------------- MODULE Receipts -------------------------------
(***************************************************************************)
(* The receipts drawer (components/ReceiptDrawer.tsx): the transaction     *)
(* history behind it (hooks/useTxHistory.ts) and its filters, which are    *)
(* kept in the page's URL (hooks/useTransactionFilters.ts,                 *)
(* lib/filterUrlSerializer.ts, lib/transactionFilters.ts).  A selection is *)
(* shown at once, written to the URL 150 ms after the last one, and the    *)
(* router needs time to get there.                                         *)
(***************************************************************************)
EXTENDS Naturals, Sequences, FiniteSets, Lists

CONSTANTS Values,       \* values of a category; those of a status are valid
          StrayStatus,  \* a status only a link could name
          MaxSelects,   \* selections the user makes
          MaxEntries,   \* entries the history keeps, 100 in the code
          MaxAdded      \* transactions recorded

ASSUME ReceiptsAssumption ==
  /\ Values \subseteq Nat /\ StrayStatus \in Nat \ Values
  /\ MaxSelects \in Nat /\ MaxEntries \in Nat \ {0} /\ MaxAdded \in Nat

Categories2 == {"status", "asset"}
NoFilters == [c \in Categories2 |-> <<>>]
Unset == [c \in {} |-> <<>>]

VARIABLES
  entries,         \* the history, newest first, in memory and localStorage
  added,
  drawerOpen, skeleton, skeletonTimer,   \* isOpen, isLoading and its timer
  clearing,        \* isDeleting
  url,             \* the filter parameters of the URL
  trail,           \* earlier URLs of the browser's history
  pending,         \* pendingFilterStateRef, equal to the optimistic state
  debounced,       \* the state the debounce timer will write, Unset without one
  pushes,          \* URLs given to the router, not yet arrived
  wanted, selects  \* the last selection (or URL gone back to), their number

drawerVars == <<entries, added, drawerOpen, skeleton, skeletonTimer, clearing>>
filterVars == <<url, trail, pending, debounced, pushes, wanted, selects>>
receiptsVars == <<drawerVars, filterVars>>

(* serializeFilters: only categories with a selection get a parameter.     *)
SerializeFilters(f) == [c \in {d \in Categories2 : f[d] # <<>>} |-> f[c]]

(* deserializeFilters: statuses that do not exist are dropped              *)
DeserializeFilters(params) ==
  [c \in Categories2 |->
     IF c \notin DOMAIN params THEN <<>>
     ELSE IF c = "status" THEN Filtered(params[c], Values)
     ELSE params[c]]

(* A link may open the page with any filters.                              *)
ReceiptsInit ==
  /\ entries = <<>> /\ added = 0
  /\ drawerOpen = FALSE /\ skeleton = TRUE /\ skeletonTimer = FALSE /\ clearing = FALSE
  /\ url \in {Unset, SerializeFilters([NoFilters EXCEPT !["status"] = <<StrayStatus>>])}
  /\ trail = <<>> /\ pending = Unset /\ debounced = Unset /\ pushes = <<>>
  /\ wanted = NoFilters /\ selects = 0

(* filterState: the optimistic selection, else the URL's                   *)
FilterState == IF pending # Unset THEN pending ELSE DeserializeFilters(url)

(* filterTransactions: or within a category, and between them              *)
FilterTransactions(f) ==
  SelectSeq(entries, LAMBDA e :
    \A c \in Categories2 : f[c] = <<>> \/ e[c] \in Range(f[c]))

(* computeFilterStats: the values of the history, which are shown sorted   *)
Options(c) == {e[c] : e \in Range(entries)}

NeverAgree(selection, params) == selection      \* a wrong Agree: the optimistic filters stay

(***************************************************************************)
(* The filters                                                             *)
(***************************************************************************)
(* The effect on the URL and the optimistic state: once they agree the     *)
(* URL rules.                                                              *)
Agree(selection, params) ==
  IF selection = DeserializeFilters(params) THEN Unset ELSE selection

(* updateUrl, with the effect that follows it                              *)
UpdateUrl(f) ==
  /\ selects < MaxSelects /\ selects' = selects + 1
  /\ debounced' = f /\ wanted' = f
  /\ pending' = Agree(f, url)
  /\ UNCHANGED <<url, trail, pushes, drawerVars>>

Toggled(c, v) ==
  [FilterState EXCEPT ![c] = IF v \in Range(@) THEN Filtered(@, Range(@) \ {v})
                                               ELSE Append(@, v)]

ToggleFilter(c, v) == v \in Options(c) /\ UpdateUrl(Toggled(c, v))

ClearAllFilters == UpdateUrl(NoFilters)

(* cycleFilterCategory: the option after the last one selected; a value    *)
(* that is no option starts again at the first.                            *)
CycleFilterCategory(c) ==
  LET now  == FilterState[c]
      rest == IF now # <<>> /\ Last(now) \in Options(c)
                THEN {v \in Options(c) : v > Last(now)} ELSE Options(c)
  IN /\ Options(c) # {}
     /\ UpdateUrl([FilterState EXCEPT ![c] =
                     IF rest = {} THEN <<>> ELSE <<CHOOSE v \in rest : \A w \in rest : v <= w>>])

(* The debounce timer fires: mergeFilterParams replaces the three          *)
(* parameters and leaves the others.                                       *)
FlushFilters ==
  /\ debounced # Unset
  /\ pushes' = Append(pushes, SerializeFilters(debounced))
  /\ debounced' = Unset
  /\ UNCHANGED <<url, trail, pending, wanted, selects, drawerVars>>

PushLands ==
  /\ pushes # <<>>
  /\ url' = Head(pushes) /\ pushes' = Tail(pushes) /\ trail' = Append(trail, url)
  /\ pending' = IF pending = Unset THEN Unset ELSE Agree(pending, Head(pushes))
  /\ UNCHANGED <<debounced, wanted, selects, drawerVars>>

(* The browser's Back, when no navigation is under way                     *)
GoBack ==
  /\ trail # <<>> /\ pushes = <<>>
  /\ url' = Last(trail) /\ trail' = Front(trail)
  /\ pending' = IF pending = Unset THEN Unset ELSE Agree(pending, Last(trail))
  /\ wanted' = IF debounced = Unset THEN DeserializeFilters(Last(trail)) ELSE wanted
  /\ UNCHANGED <<debounced, pushes, selects, drawerVars>>

(***************************************************************************)
(* The history and the drawer                                              *)
(***************************************************************************)
AddEntry(status, asset) ==
  /\ added < MaxAdded /\ added' = added + 1
  /\ LET all == <<[id |-> added + 1, status |-> status, asset |-> asset]>> \o entries
     IN entries' = SubSeq(all, 1, IF Len(all) < MaxEntries THEN Len(all) ELSE MaxEntries)
  /\ UNCHANGED <<drawerOpen, skeleton, skeletonTimer, clearing, filterVars>>

(* clearEntries, by the button or by Backspace anywhere while it is open   *)
ClearEntries(key) ==
  /\ ~clearing
  /\ IF key THEN drawerOpen ELSE entries # <<>>
  /\ entries' = <<>> /\ clearing' = TRUE
  /\ UNCHANGED <<added, drawerOpen, skeleton, skeletonTimer, filterVars>>

ClearingEnds ==
  /\ clearing /\ clearing' = FALSE
  /\ UNCHANGED <<entries, added, drawerOpen, skeleton, skeletonTimer, filterVars>>

(* The skeleton's effect: closing the drawer clears its timer.             *)
OpenDrawer ==
  /\ ~drawerOpen /\ drawerOpen' = TRUE
  /\ skeleton' = TRUE /\ skeletonTimer' = TRUE
  /\ UNCHANGED <<entries, added, clearing, filterVars>>

CloseDrawer ==
  /\ drawerOpen /\ drawerOpen' = FALSE /\ skeletonTimer' = FALSE
  /\ UNCHANGED <<entries, added, skeleton, clearing, filterVars>>

SkeletonStays ==      \* a wrong SkeletonEnds: the skeleton is not taken away
  /\ skeletonTimer /\ skeletonTimer' = FALSE
  /\ UNCHANGED <<entries, added, drawerOpen, skeleton, clearing, filterVars>>

SkeletonEnds ==
  /\ skeletonTimer /\ skeletonTimer' = FALSE /\ skeleton' = FALSE
  /\ UNCHANGED <<entries, added, drawerOpen, clearing, filterVars>>

ReceiptsNext ==
  \/ \E c \in Categories2 : CycleFilterCategory(c) \/ \E v \in Values : ToggleFilter(c, v)
  \/ ClearAllFilters \/ FlushFilters \/ PushLands \/ GoBack
  \/ \E s \in Values, a \in Values : AddEntry(s, a)
  \/ \E key \in BOOLEAN : ClearEntries(key)
  \/ ClearingEnds \/ OpenDrawer \/ CloseDrawer \/ SkeletonEnds

ReceiptsSpec == ReceiptsInit /\ [][ReceiptsNext]_receiptsVars

(***************************************************************************)
(* Properties                                                              *)
(***************************************************************************)
(* The drawer's state is of its shape.                                     *)
ReceiptsTypeOK ==
  /\ Len(entries) <= MaxEntries /\ added \in 0 .. MaxAdded /\ selects \in 0 .. MaxSelects
  /\ {drawerOpen, skeleton, skeletonTimer, clearing} \subseteq BOOLEAN
  /\ \A f \in {url, pending, debounced} : DOMAIN f \subseteq Categories2
  /\ drawerOpen /\ skeleton => skeletonTimer

(* Once the debounce timer and the router are done, the URL and what the   *)
(* drawer shows are the user's last selection: no optimistic selection     *)
(* stays behind, however selections, arriving URLs and steps back in the   *)
(* browser's history were mixed (useTransactionFilters.ts:329-388).        *)
SelectionReachesUrl ==
  (debounced = Unset /\ pushes = <<>>) =>
    pending = Unset /\ DeserializeFilters(url) = wanted

=============================================================================

------------------------------ MODULE ChatSearch ------------------------------
(***************************************************************************)
(* The search panel (components/ChatSearchPanel.tsx) over the chat history *)
(* (lib/chatSearch.ts).  A search runs 300 ms after the last change of the *)
(* filters; when the sessions change, the panel makes a new debounced      *)
(* search and leaves the old one's timer running.  What a message says is  *)
(* the set of keywords it contains.                                        *)
(***************************************************************************)
EXTENDS Lists, Naturals, Sequences, SequencesExt, FiniteSets

CONSTANTS SearchedHistories,     \* versions of the sessions: sequences of sessions
          Keywords, Wallets, Days,   \* from 1; 0 is an empty filter
          MaxFilterEdits, MaxHistoryEdits

ASSUME SearchAssumption ==
  /\ Keywords \cup Wallets \cup Days \subseteq Nat \ {0}
  /\ MaxFilterEdits \in Nat /\ MaxHistoryEdits \in Nat
  /\ SearchedHistories \subseteq
       Seq([wallet : Wallets \cup {0},
            messages : Seq([role : {"user", "assistant", "system"}, day : Days,
                            words : SUBSET Keywords])])

NoFilter == [keyword |-> 0, wallet |-> 0, from |-> 0, to |-> 0]
Filters == [keyword : Keywords \cup {0}, wallet : Wallets \cup {0},
            from : Days \cup {0}, to : Days \cup {0}]

VARIABLES
  history, historyEdits,   \* the sessions the panel is given
  filters, filterEdits,
  instance,                \* the debounced search of the last render
  searches,                \* pending timers, the next one to fire first
  results, activeIndex,    \* matches: session and message; 0 for none active
  panelOpen, chosen        \* the result last selected

searchVars == <<history, historyEdits, filters, filterEdits, instance, searches,
                results, activeIndex, panelOpen, chosen>>

NoChoice == <<0, 0>>

(* matchesDateRange: both days are included                                *)
InRange(m, f) ==
  /\ f.from # 0 => m.day >= f.from
  /\ f.to # 0 => m.day <= f.to

(* searchChatHistory: session by session, every filter that is set         *)
SearchChatHistory(h, f) ==
  LET hits(i) == Filtered([j \in DOMAIN h[i].messages |-> <<i, j>>],
        {p \in {i} \X DOMAIN h[i].messages :
           LET m == h[i].messages[p[2]]
           IN /\ m.role # "system"
              /\ f.wallet # 0 => h[i].wallet = f.wallet
              /\ InRange(m, f)
              /\ f.keyword # 0 => f.keyword \in m.words})
  IN IF f = NoFilter THEN <<>> ELSE FlattenSeq([i \in DOMAIN h |-> hits(i)])

(* A call of an instance replaces its own timer and starts another, which  *)
(* fires after all that run already.                                       *)
Debounced(queue, n, f, h) ==
  Append(Filtered(queue, {t \in ToSet(queue) : t.instance # n}),
         [instance |-> n, filters |-> f, history |-> h])

(* Opening the panel searches for nothing.                                 *)
SearchInit ==
  /\ history \in SearchedHistories /\ historyEdits = 0
  /\ filters = NoFilter /\ filterEdits = 0 /\ instance = 1
  /\ searches = Debounced(<<>>, 1, NoFilter, history)
  /\ results = <<>> /\ activeIndex = 0
  /\ panelOpen = TRUE /\ chosen = NoChoice

(* The fields, and the button that empties them                            *)
SetFilters(f) ==
  /\ panelOpen /\ f # filters
  /\ filterEdits < MaxFilterEdits /\ filterEdits' = filterEdits + 1
  /\ filters' = f
  /\ searches' = Debounced(searches, instance, f, history)
  /\ UNCHANGED <<history, historyEdits, instance, results, activeIndex, panelOpen, chosen>>

(* The history changes under the panel: a new callback, and the effect     *)
(* calls it with the filters there are.                                    *)
HistoryMoves(h) ==
  /\ panelOpen /\ h # history
  /\ historyEdits < MaxHistoryEdits /\ historyEdits' = historyEdits + 1
  /\ history' = h /\ instance' = instance + 1
  /\ searches' = Debounced(searches, instance + 1, filters, h)
  /\ UNCHANGED <<filters, filterEdits, results, activeIndex, panelOpen, chosen>>

(* A timer fires; the effect on the results activates the first one.       *)
SearchRuns ==
  /\ searches # <<>> /\ searches' = Tail(searches)
  /\ IF panelOpen
       THEN /\ results' = SearchChatHistory(Head(searches).history, Head(searches).filters)
            /\ activeIndex' = IF results' = <<>> THEN 0 ELSE 1
       ELSE UNCHANGED <<results, activeIndex>>
  /\ UNCHANGED <<history, historyEdits, filters, filterEdits, instance, panelOpen, chosen>>

(* the arrow keys and the pointer                                          *)
Activate(i) ==
  /\ panelOpen /\ i \in DOMAIN results /\ i # activeIndex
  /\ activeIndex' = i
  /\ UNCHANGED <<history, historyEdits, filters, filterEdits, instance, searches,
                 results, panelOpen, chosen>>

(* Enter or a click: the session is loaded and the panel goes.             *)
SelectResult ==
  /\ panelOpen /\ activeIndex # 0
  /\ chosen' = results[activeIndex]
  /\ panelOpen' = FALSE
  /\ UNCHANGED <<history, historyEdits, filters, filterEdits, instance, searches,
                 results, activeIndex>>

ClosePanel ==
  /\ panelOpen /\ panelOpen' = FALSE
  /\ UNCHANGED <<history, historyEdits, filters, filterEdits, instance, searches,
                 results, activeIndex, chosen>>

SearchNext ==
  \/ \E f \in Filters : SetFilters(f)
  \/ \E h \in SearchedHistories : HistoryMoves(h)
  \/ \E i \in DOMAIN results : Activate(i)
  \/ SearchRuns \/ SelectResult \/ ClosePanel

(***************************************************************************)
(* Properties                                                              *)
(***************************************************************************)
(* The panel's state is of its shape, its active result one it lists.      *)
SearchTypeOK ==
  /\ history \in SearchedHistories /\ filters \in Filters
  /\ Len(searches) <= instance
  /\ IF results = <<>> THEN activeIndex = 0 ELSE activeIndex \in DOMAIN results

(* When no search is pending, the results are what the filters on the      *)
(* screen find in the sessions as they are, whichever timers of earlier    *)
(* callbacks were still running when either changed                        *)
(* (ChatSearchPanel.tsx:103-119, chatSearch.ts:34-63).                     *)
SearchSettles ==
  (panelOpen /\ searches = <<>>) => results = SearchChatHistory(history, filters)

=============================================================================

---------------------------- MODULE Preferences ----------------------------
(***************************************************************************)
(* What the user's browser remembers between visits: the preferences of    *)
(* UserPreferencesContext, the saved beneficiaries (useBeneficiaries) and  *)
(* the watched wallets (useWatchlist), with the forms of UserSettings.     *)
(*                                                                         *)
(* useBeneficiaries and useWatchlist keep their list in the state of the   *)
(* component that calls them and write the whole list to one key of        *)
(* localStorage.  Two components that are always mounted call each:        *)
(* UserSettings with BankDetailsModal, and UserSettings with the chat.     *)
(* A place below is one of the two copies.                                 *)
(***************************************************************************)
EXTENDS Integers, Sequences, FiniteSets, SequencesExt, Lists

CONSTANTS Places,          \* the mounted copies of each list
          PeopleMax,       \* bound: beneficiaries ever added
          Names,           \* names a beneficiary may be given
          Watchable,        \* addresses a user may watch
          Thresholds,      \* values typed as the high-value threshold
          MaxVisits        \* bound: reloads of the page

ASSUME PreferencesAssumption ==
    /\ "settings" \in Places /\ "bank" \in Places
    /\ PeopleMax \in Nat /\ MaxVisits \in Nat /\ Thresholds \subseteq Nat

VARIABLES
    lists,          \* beneficiaries held by each place, sequences of [id, name]
    cursor,         \* selectedIndex of each place, 1-based; 0 is the code's -1
    storedList,     \* 'stellar_beneficiaries' in localStorage
    peopleCount,    \* ids handed out
    personForm,           \* UserSettings: the beneficiary form
    watched,        \* watchlist held by each place
    storedWatch,    \* 'stellar_watchlist'
    prefs,          \* state of UserPreferencesContext
    storedPrefs,    \* its keys in localStorage; 0 where a key is absent
    visits

listVars == <<lists, cursor, storedList, peopleCount, personForm>>
watchlistVars == <<watched, storedWatch>>
prefVars == <<prefs, storedPrefs>>
preferenceVars == <<listVars, watchlistVars, prefVars, visits>>

NoForm == [open |-> FALSE, editing |-> 0]

DefaultPrefs == [threshold |-> 1000, twoFactor |-> TRUE]
NothingStored == [threshold |-> 0, twoFactor |-> "absent"]

PreferencesInit ==
    /\ lists = [p \in Places |-> <<>>]
    /\ cursor = [p \in Places |-> 0]
    /\ storedList = <<>>
    /\ peopleCount = 0
    /\ personForm = NoForm
    /\ watched = [p \in Places |-> <<>>]
    /\ storedWatch = <<>>
    /\ prefs = DefaultPrefs
    /\ storedPrefs = NothingStored
    /\ visits = 0

(* A place changes its list; the effect on the list writes all of it.      *)
Saves(p, list) ==
    /\ lists' = [lists EXCEPT ![p] = list]
    /\ storedList' = IF list = lists[p] THEN storedList ELSE list

(* addBeneficiary. *)
Added(p, name) ==
    /\ peopleCount < PeopleMax
    /\ peopleCount' = peopleCount + 1
    /\ Saves(p, Append(lists[p], [id |-> peopleCount + 1, name |-> name]))

(* renameBeneficiary and deleteBeneficiary; a list that has not the id is  *)
(* replaced by an equal one, which the effect still writes.                *)
Renamed(p, id, name) ==
    LET list == [i \in DOMAIN lists[p] |->
                     IF lists[p][i].id = id THEN [id |-> id, name |-> name] ELSE lists[p][i]]
    IN  /\ lists' = [lists EXCEPT ![p] = list]
        /\ storedList' = list

WithoutPerson(p, id) ==
    LET list == Filtered(lists[p], {b \in ToSet(lists[p]) : b.id # id})
    IN  /\ lists' = [lists EXCEPT ![p] = list]
        /\ storedList' = list

Held(p) == {lists[p][i].id : i \in DOMAIN lists[p]}

----------------------------------------------------------------------------
(* UserSettings: the form that adds a beneficiary or renames one.          *)

ToggleForm ==
    /\ personForm' = [open |-> ~personForm.open, editing |-> 0]
    /\ UNCHANGED <<lists, cursor, storedList, peopleCount, watchlistVars, prefVars, visits>>

EditBeneficiary(id) ==
    /\ id \in Held("settings")
    /\ personForm' = [open |-> TRUE, editing |-> id]
    /\ UNCHANGED <<lists, cursor, storedList, peopleCount, watchlistVars, prefVars, visits>>

SubmitForm(name) ==
    /\ personForm.open
    /\ personForm' = NoForm
    /\ \/ /\ personForm.editing # 0
          /\ Renamed("settings", personForm.editing, name)
          /\ UNCHANGED peopleCount
       \/ /\ personForm.editing = 0
          /\ Added("settings", name)
    /\ UNCHANGED <<cursor, watchlistVars, prefVars, visits>>

(* BankDetailsModal: saving the verified account, and the rename and       *)
(* delete buttons both dialogs have.                                       *)
SaveBeneficiary(name) ==
    /\ Added("bank", name)
    /\ UNCHANGED <<cursor, personForm, watchlistVars, prefVars, visits>>

SaveRename(id, name) ==
    /\ id \in Held("bank")
    /\ Renamed("bank", id, name)
    /\ UNCHANGED <<cursor, peopleCount, personForm, watchlistVars, prefVars, visits>>

DeleteBeneficiary(p, id) ==
    /\ id \in Held(p)
    /\ WithoutPerson(p, id)
    /\ UNCHANGED <<cursor, peopleCount, personForm, watchlistVars, prefVars, visits>>

(* The listener each place puts on the window: it does not ask where the   *)
(* key was pressed, so every place answers every key.                      *)
Pressed(key) ==
    /\ key \in {"ArrowUp", "ArrowDown"}
    /\ cursor' = [p \in Places |->
           CASE key = "ArrowUp" /\ cursor[p] > 1 -> cursor[p] - 1
             [] key = "ArrowDown" /\ cursor[p] < Len(lists[p]) -> cursor[p] + 1
             [] OTHER -> cursor[p]]
    /\ cursor' # cursor
    /\ UNCHANGED <<lists, storedList, peopleCount, personForm, watchlistVars, prefVars, visits>>

(* Delete: every place drops what its cursor is on; the place whose effect *)
(* runs last has the last word in localStorage.                            *)
PressedDelete ==
    LET Kept(p) == IF cursor[p] = 0 \/ cursor[p] > Len(lists[p]) THEN lists[p]
                   ELSE RemoveAt(lists[p], cursor[p])
        dropping == {p \in Places : Kept(p) # lists[p]}
    IN  /\ dropping # {}
        /\ lists' = [p \in Places |-> Kept(p)]
        /\ \E p \in dropping : storedList' = Kept(p)
        /\ UNCHANGED <<cursor, peopleCount, personForm, watchlistVars, prefVars, visits>>

----------------------------------------------------------------------------
(* The watchlist: only UserSettings edits it; the chat polls its own copy. *)

AddAddress(a) ==
    /\ ~Contains(watched["settings"], a)
    /\ watched' = [watched EXCEPT !["settings"] = Append(@, a)]
    /\ storedWatch' = watched'["settings"]
    /\ UNCHANGED <<listVars, prefVars, visits>>

RemoveAddress(a) ==
    /\ Contains(watched["settings"], a)
    /\ watched' = [watched EXCEPT !["settings"] = Filtered(@, ToSet(@) \ {a})]
    /\ storedWatch' = watched'["settings"]
    /\ UNCHANGED <<listVars, prefVars, visits>>

(* The setters of the context; the settings only pass a threshold above 0. *)
SetThreshold(t) ==
    /\ prefs.twoFactor /\ t > 0
    /\ prefs' = [prefs EXCEPT !.threshold = t]
    /\ storedPrefs' = [storedPrefs EXCEPT !.threshold = t]
    /\ UNCHANGED <<listVars, watchlistVars, visits>>

SetTwoFactor ==
    /\ prefs' = [prefs EXCEPT !.twoFactor = ~@]
    /\ storedPrefs' = [storedPrefs EXCEPT !.twoFactor = IF prefs.twoFactor THEN "false" ELSE "true"]
    /\ UNCHANGED <<listVars, watchlistVars, visits>>

(* A reload: every place starts empty and reads its key; isLoaded keeps the *)
(* effect from writing the empty list over the stored one.                  *)
Revisit ==
    /\ visits < MaxVisits
    /\ visits' = visits + 1
    /\ lists' = [p \in Places |-> storedList]
    /\ cursor' = [p \in Places |-> 0]
    /\ personForm' = NoForm
    /\ watched' = [p \in Places |-> storedWatch]
    /\ prefs' = [threshold |-> IF storedPrefs.threshold > 0 THEN storedPrefs.threshold
                               ELSE DefaultPrefs.threshold,
                 twoFactor |-> IF storedPrefs.twoFactor = "absent" THEN DefaultPrefs.twoFactor
                               ELSE storedPrefs.twoFactor = "true"]
    /\ UNCHANGED <<storedList, peopleCount, storedWatch, storedPrefs>>

PreferencesNext ==
    \/ ToggleForm
    \/ \E id \in 1..PeopleMax : EditBeneficiary(id)
    \/ \E name \in Names : SubmitForm(name)
    \/ \E name \in Names : SaveBeneficiary(name)
    \/ \E id \in 1..PeopleMax, name \in Names : SaveRename(id, name)
    \/ \E p \in Places, id \in 1..PeopleMax : DeleteBeneficiary(p, id)
    \/ \E key \in {"ArrowUp", "ArrowDown"} : Pressed(key)
    \/ PressedDelete
    \/ \E a \in Watchable : AddAddress(a)
    \/ \E a \in Watchable : RemoveAddress(a)
    \/ \E t \in Thresholds : SetThreshold(t)
    \/ SetTwoFactor
    \/ Revisit

----------------------------------------------------------------------------
Person == [id : 1..PeopleMax, name : Names]

PreferencesTypeOK ==
    /\ \A p \in Places : IsInjective([i \in DOMAIN lists[p] |-> lists[p][i].id])
    /\ \A p \in Places : \A i \in DOMAIN lists[p] : lists[p][i] \in Person
    /\ cursor \in [Places -> 0..PeopleMax]
    /\ \A i \in DOMAIN storedList : storedList[i] \in Person
    /\ peopleCount \in 0..PeopleMax
    /\ personForm \in [open : BOOLEAN, editing : 0..PeopleMax]
    /\ \A p \in Places : watched[p] \in Seq(Watchable) /\ IsInjective(watched[p])
    /\ storedWatch \in Seq(Watchable)
    /\ prefs.threshold > 0 /\ prefs.twoFactor \in BOOLEAN
    /\ storedPrefs.twoFactor \in {"absent", "true", "false"}
    /\ visits \in 0..MaxVisits

=============================================================================

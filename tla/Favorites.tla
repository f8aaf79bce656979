------------------------------ MODULE Favorites ------------------------------
(***************************************************************************)
(* The star on the details pages (ResourceDetailsFavoriteButton.tsx), in    *)
(* several tabs of one user.  The list of favorites is one user preference, *)
(* "console.favorites": a tab writes a whole list, made of the one of its   *)
(* last render, and sees what the others wrote later.                       *)
(***************************************************************************)
EXTENDS Subsequences, SequencesExt

CONSTANTS
    Tabs,
    PageOf,             \* the url that each tab shows
    NameTexts,          \* what the field of the modal may hold
    ProperTexts,        \* those without characters that are refused
    TrimName,           \* String.trim on them
    NoName,             \* the empty text
    DefaultName,        \* the sanitized name that the modal opens with, of each tab
    ModalClosed,
    MaxFavoriteCount    \* 10 in the code

ASSUME FavoriteAssumption ==
    /\ DOMAIN PageOf = Tabs
    /\ ProperTexts \subseteq NameTexts
    /\ DefaultName \in [Tabs -> ProperTexts]
    /\ TrimName \in [NameTexts -> NameTexts]
    /\ \A n \in NameTexts : TrimName[TrimName[n]] = TrimName[n]
    /\ NoName \in ProperTexts
    /\ ModalClosed \notin NameTexts
    /\ MaxFavoriteCount \in Nat \ {0}

VARIABLES
    preference,     \* the list in the ConfigMap of the user's settings
    favorites,      \* of each tab: the list of its last render
    preferenceSeen, \* the tabs that have loaded it
    naming          \* of each tab: the text of its modal

favoriteVars == <<preference, favorites, preferenceSeen, naming>>

FavoritesInit ==
    /\ preference = <<>>
    /\ favorites = [t \in Tabs |-> <<>>]
    /\ preferenceSeen = {}
    /\ naming = [t \in Tabs |-> ModalClosed]

(* External: the preference is loaded, or the change of another tab arrives. *)
PreferenceArrives(t) ==
    /\ favorites' = [favorites EXCEPT ![t] = preference]
    /\ preferenceSeen' = preferenceSeen \cup {t}
    /\ UNCHANGED <<preference, naming>>

(* External: setFavorites shows the list at once and writes it. *)
SetFavorites(t, list) ==
    /\ favorites' = [favorites EXCEPT ![t] = list]
    /\ preference' = list
    /\ UNCHANGED preferenceSeen

IsStarred(t) ==
    /\ t \in preferenceSeen
    /\ \E f \in ToSet(favorites[t]) : f.url = PageOf[t]

IsDisabled(t) ==
    \/ t \notin preferenceSeen
    \/ Len(favorites[t]) >= MaxFavoriteCount /\ ~IsStarred(t)

(* handleFavoriteButtonClick of a starred page: all its entries go. *)
Unstar(t) ==
    /\ naming[t] = ModalClosed
    /\ IsStarred(t)
    /\ SetFavorites(t, SubSeqAt(favorites[t],
                       {i \in DOMAIN favorites[t] : favorites[t][i].url # PageOf[t]}))
    /\ UNCHANGED naming

OpenModal(t) ==
    /\ naming[t] = ModalClosed
    /\ ~IsStarred(t) /\ ~IsDisabled(t)
    /\ naming' = [naming EXCEPT ![t] = DefaultName[t]]
    /\ UNCHANGED <<preference, favorites, preferenceSeen>>

HandleNameChange(t) ==
    /\ naming[t] # ModalClosed
    /\ \E n \in NameTexts : naming' = [naming EXCEPT ![t] = n]
    /\ UNCHANGED <<preference, favorites, preferenceSeen>>

HandleModalClose(t) ==
    /\ naming[t] # ModalClosed
    /\ naming' = [naming EXCEPT ![t] = ModalClosed]
    /\ UNCHANGED <<preference, favorites, preferenceSeen>>

(* Variant: the name is compared as it was typed. *)
VariantComparesTyped(t) ==
    /\ TrimName[naming[t]] # NoName
    /\ TrimName[naming[t]] \in ProperTexts
    /\ \A f \in ToSet(favorites[t]) : f.name # naming[t]

(* The name that is refused leaves the modal as it is. *)
NameAccepted(t) ==
    /\ TrimName[naming[t]] # NoName
    /\ TrimName[naming[t]] \in ProperTexts
    /\ \A f \in ToSet(favorites[t]) : f.name # TrimName[naming[t]]

(* Neither the limit nor the star is looked at again. *)
HandleConfirmStar(t) ==
    /\ naming[t] # ModalClosed
    /\ NameAccepted(t)
    /\ SetFavorites(t, Append(favorites[t], [name |-> TrimName[naming[t]], url |-> PageOf[t]]))
    /\ naming' = [naming EXCEPT ![t] = ModalClosed]

FavoritesNext ==
    \E t \in Tabs :
        \/ PreferenceArrives(t) \/ Unstar(t) \/ OpenModal(t)
        \/ HandleNameChange(t) \/ HandleModalClose(t) \/ HandleConfirmStar(t)

-----------------------------------------------------------------------------
Favorite == [name : {TrimName[n] : n \in ProperTexts} \ {NoName}, url : {PageOf[t] : t \in Tabs}]

(* The lists and the modals have their types. *)
FavoritesTypeOK ==
    /\ preference \in Seq(Favorite)
    /\ favorites \in [Tabs -> Seq(Favorite)]
    /\ preferenceSeen \subseteq Tabs
    /\ naming \in [Tabs -> NameTexts \cup {ModalClosed}]

(* handleConfirmStar refuses a name that is taken, in the list of its own last *)
(* render: whatever the tabs do at once, no list holds a name twice.  Of the   *)
(* limit this cannot be said: a tab may add to a list that others filled.      *)
NamesApart(list) == IsInjective([i \in DOMAIN list |-> list[i].name])

NoNameTwice == NamesApart(preference) /\ \A t \in Tabs : NamesApart(favorites[t])

=============================================================================

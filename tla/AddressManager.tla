--------------------------- MODULE AddressManager ---------------------------
(***************************************************************************)
(* The Addresses section of the BrokerApp form: the cards of AddressManager *)
(* and the modal that edits one of them, over the reducer that keeps the    *)
(* rows and writes them into the CR after each action.  The modal itself is *)
(* AddressEditModal; here it sends any row that DoneMaySend lets through.   *)
(*                                                                         *)
(* SET_MODEL replaces the rows: when the page opens with the CR of the      *)
(* cluster, and when the user comes back from the YAML view.  The modal     *)
(* covers the page, so no card and no view switch is in reach of the user   *)
(* while a row is edited.                                                   *)
(***************************************************************************)
EXTENDS BrokerAppAddresses

CONSTANTS
    LoadedCRs,  \* the CRs that the cluster may give the form
    TypedCRs,   \* the CRs of the texts that the user may type instead
    Payloads,   \* the rows the user may make in the modal
    MaxRows     \* bound on the rows that ADD_ADDRESS makes

(* Any CR and any text: the cluster's is not validated, a text in Load. *)
ASSUME LoadedCRsAssumption ==
    /\ LoadedCRs \cup TypedCRs \subseteq CR
    /\ Payloads \subseteq Row

VARIABLES
    rows,        \* state.addresses of the form
    cr,          \* spec.addresses and spec.capabilities of state.cr
    editing,     \* the row the modal edits, 0 for null
    isNewEntry,  \* the modal edits a row that HandleAdd made
    before,      \* history: the rows when the modal was opened, while it is open
    loaded       \* history: the CR last loaded, as a set, {} once the rows were edited

vars == <<rows, cr, editing, isNewEntry, before, loaded>>

(* Every action of the reducer ends by writing the rows into the CR. *)
SetRows(new) ==
    /\ rows' = new
    /\ cr' = Sync(new)

Init ==
    \E c \in LoadedCRs :
        /\ rows = Hydrate(c)
        /\ cr = Sync(Hydrate(c))
        /\ editing = 0
        /\ isNewEntry = FALSE
        /\ before = <<>>
        /\ loaded = {c}

(* SET_MODEL when the user comes back from the YAML view, where he changed *)
(* the text to one of TypedCRs or left it.  A text that validation refuses *)
(* keeps him there.  Reload loads the cluster's CR without it, as Init.    *)
Load(c) ==
    /\ editing = 0
    /\ Validated(c)
    /\ SetRows(Hydrate(c))
    /\ loaded' = {c}
    /\ UNCHANGED <<editing, isNewEntry, before>>

HandleAdd ==
    /\ editing = 0
    /\ Len(rows) < MaxRows
    /\ SetRows(Append(rows, NewRow))
    /\ editing' = Len(rows) + 1
    /\ isNewEntry' = TRUE
    /\ before' = rows
    /\ loaded' = {}

HandleEdit(i) ==
    /\ editing = 0
    /\ editing' = i
    /\ isNewEntry' = FALSE
    /\ before' = rows
    /\ UNCHANGED <<rows, cr, loaded>>

HandleRemove(i) ==
    /\ editing = 0
    /\ SetRows(RemoveAt(rows, i))
    /\ loaded' = {}
    /\ UNCHANGED <<editing, isNewEntry, before>>

(* Done of the modal: UPDATE_ADDRESS, then handleSaveModal. *)
HandleDone(p) ==
    /\ editing # 0
    /\ DoneMaySend(rows, editing, p)
    /\ SetRows([rows EXCEPT ![editing] = UpdateAddress(@, p)])
    /\ editing' = 0
    /\ isNewEntry' = FALSE
    /\ before' = <<>>
    /\ loaded' = {}

(* Variant: the row is removed though it was there before the modal. *)
VariantCancelRemoves ==
    /\ editing # 0
    /\ SetRows(RemoveAt(rows, editing))
    /\ editing' = 0
    /\ isNewEntry' = FALSE
    /\ before' = <<>>
    /\ UNCHANGED loaded

(* Variant: the modal is closed without forgetting the row. *)
VariantCancelKeepsEditing ==
    /\ editing # 0
    /\ SetRows(IF isNewEntry THEN RemoveAt(rows, editing) ELSE rows)
    /\ isNewEntry' = FALSE
    /\ UNCHANGED <<editing, before, loaded>>

HandleCancelModal ==
    /\ editing # 0
    /\ SetRows(IF isNewEntry THEN RemoveAt(rows, editing) ELSE rows)
    /\ editing' = 0
    /\ isNewEntry' = FALSE
    /\ before' = <<>>
    /\ UNCHANGED loaded

Next ==
    \/ \E c \in TypedCRs \cup {cr} : Load(c)
    \/ HandleAdd
    \/ \E i \in DOMAIN rows : HandleEdit(i) \/ HandleRemove(i)
    \/ \E p \in Payloads : HandleDone(p)
    \/ HandleCancelModal

Spec == Init /\ [][Next]_vars

-----------------------------------------------------------------------------
(* What the form writes: trimmed names and selectors, routing where it counts. *)
WrittenSpec == {e \in AddressSpec : e.address \in Names /\ TrimSelectors[e.selectors] = e.selectors}
WrittenProducer == {p \in MatchAddress : p.address \in Names /\ p.subscriptions = {}}
WrittenConsumer == {q \in MatchAddress : q.address \in Names /\ ~q.pubSub}

(* The rows are rows, the CR is one that the form writes, and the modal edits *)
(* a row there is: AddressEditModal reads state.addresses[index] unguarded.   *)
TypeOK ==
    /\ ToSet(rows) \subseteq Row
    /\ cr \in [addresses : Seq(WrittenSpec), producerOf : Seq(WrittenProducer),
               consumerOf : Seq(WrittenConsumer), further : {FALSE}]
    /\ editing \in 0..Len(rows)
    /\ isNewEntry \in BOOLEAN
    /\ isNewEntry => editing = Len(rows)

(* No two rows have one address, as the duplicate check of the cards sees it. *)
DistinctRows(list) ==
    \A i, j \in DOMAIN list :
        Trim[list[i].address] = Trim[list[j].address] /\ i # j =>
            Trim[list[i].address] = Blank

AddressesIn(c) ==
    AddressesOf(c.addresses) \cup AddressesOf(c.producerOf) \cup AddressesOf(c.consumerOf)

(* No address stands in the CR trimmed in one place and untrimmed in another. *)
SpelledOnce(c) ==
    \A t, u \in AddressesIn(c) : Trim[t] = Trim[u] /\ Trim[t] # Blank => t = u

(* A CR that passes validation gives an address two rows exactly when it      *)
(* spells it in two ways, owned and external ones together: validation does   *)
(* not look at the capabilities, and hydration compares without trimming.     *)
OverlapsAreSpellings ==
    \A c \in loaded : Validated(c) => (DistinctRows(rows) <=> SpelledOnce(c))

(* Rows apart stay apart, through cards, modal and both views: nothing but a  *)
(* text that spells an address in two ways brings it a second row.            *)
RowsStayApart ==
    [][DistinctRows(rows) =>
         \/ DistinctRows(rows')
         \/ \E c \in TypedCRs : Load(c) /\ ~SpelledOnce(c)]_vars

(* A row as it comes back from the CR. *)
Trimmed(r) == [r EXCEPT !.address = Trim[@], !.selectors = TrimSelectors[@]]

(* The user who looks at the YAML and is let back finds the rows he left, each *)
(* named row with its owner, direction, routing, queues and selectors and none *)
(* merged with another, exactly when no address had two rows.                 *)
SwitchingViewsKeepsRows ==
    Validated(cr) =>
       (DistinctRows(rows) <=>
          /\ ToSet(Hydrate(cr)) = {Trimmed(rows[i]) : i \in Named(rows)}
          /\ \A i, j \in Named(rows) : Trimmed(rows[i]) = Trimmed(rows[j]) => i = j)

DistinctAddresses(entries) == IsInjective([i \in DOMAIN entries |-> entries[i].address])

(* What the rows can say of a CR: one capability, an address once in each of  *)
(* its lists, trimmed everywhere; routing only where its list has it; entries *)
(* that agree with the address the app owns or with each other, and           *)
(* subscriptions only where the producer side is pub/sub.                     *)
Representable(c) ==
    /\ ~c.further
    /\ ToSet(c.addresses) \subseteq WrittenSpec
    /\ ToSet(c.producerOf) \subseteq WrittenProducer
    /\ ToSet(c.consumerOf) \subseteq WrittenConsumer
    /\ DistinctAddresses(c.producerOf) /\ DistinctAddresses(c.consumerOf)
    /\ \A o \in ToSet(c.addresses) :
          /\ \A p \in ToSet(c.producerOf) :
                p.address = o.address => p.app = NoApp /\ p.pubSub = o.pubSub
          /\ \A q \in ToSet(c.consumerOf) :
                q.address = o.address => q.app = NoApp /\ q.subscriptions = o.subscriptions
    /\ \A p \in ToSet(c.producerOf), q \in ToSet(c.consumerOf) :
          p.address = q.address /\ p.address \notin AddressesOf(c.addresses) =>
              /\ p.app = q.app
              /\ q.subscriptions # {} => p.pubSub

SameEntries(s, t) == Len(s) = Len(t) /\ ToSet(s) = ToSet(t)

(* Opening the form, or passing through it, keeps the addresses and the       *)
(* capabilities of a CR that passes validation, up to their order, exactly    *)
(* when it is representable: nothing else is lost, and what is lost is known. *)
KeptExactlyIfRepresentable ==
    \A c \in loaded : Validated(c) =>
        (Representable(c) <=>
            /\ ~c.further
            /\ SameEntries(cr.addresses, c.addresses)
            /\ SameEntries(cr.producerOf, c.producerOf)
            /\ SameEntries(cr.consumerOf, c.consumerOf))

(* k8s.ts:309-312 "Prevents invalid values (malformed names, bad CPU/memory   *)
(* quantities, duplicate or overlapping addresses) from bypassing form-level  *)
(* validation when switching from YAML to Form view": a text that is taken    *)
(* over gives no two rows of one address, which the form itself never lets    *)
(* the user make.                                                             *)
OverlapsRefused == [][\A c \in TypedCRs : Load(c) => DistinctRows(rows')]_vars

(* Cancelling the modal leaves the rows as they were when it was opened, the  *)
(* row that HandleAdd made included.                                          *)
CancelDiscards == [][HandleCancelModal => rows' = before]_vars

=============================================================================

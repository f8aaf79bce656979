-------------------------- MODULE AddressEditModal --------------------------
(***************************************************************************)
(* AddressEditModal: the fields that the user edits, buffered until Done.   *)
(* The app of an external address is looked up among the BrokerApps that a  *)
(* watch lists, under the namespace and the name that were confirmed, and   *)
(* decides the routing of its own addresses.                                *)
(*                                                                         *)
(* The three typeahead fields are TypeaheadSelect.  Their list closes with  *)
(* a selection, with onClose when the user clicks elsewhere or presses      *)
(* Escape, or with the arrow of the toggle, which calls nothing.  At most   *)
(* one list is open.  A click on another control of the modal closes it     *)
(* first, but Done and Cancel are handled before the list sees the click.   *)
(***************************************************************************)
EXTENDS BrokerAppAddresses

CONSTANTS
    Namespaces, AppNames,  \* Apps are the pairs of them
    NoText,                \* the empty namespace or name
    Declared,              \* spec.addresses of the listed app: names and pubSub
    InvalidSelector,       \* a text that validateCelExpression refuses
    OpenedRows,              \* the rows the modal may be opened with
    Others                 \* the other rows of the form

ASSUME ModalAssumption ==
    /\ Apps = Namespaces \X AppNames
    /\ NoText \notin Namespaces \cup AppNames
    /\ Declared \in [Apps -> SUBSET [address : Names, pubSub : BOOLEAN]]
    /\ InvalidSelector \notin Selectors \cup {NoSelector}
    /\ OpenedRows \subseteq Row
    /\ Others \in Seq(Row)

VARIABLES
    entry,               \* state.addresses[index]
    local,               \* the local* fields
    confirmedNamespace,
    confirmedApp,
    open,                \* the open typeahead list, "none", or "closed" without modal
    nameTouched,
    appsLoaded,          \* of the watch, FALSE while there is none
    namedIn              \* history: the namespace in force when the app was named

fields == <<local, confirmedNamespace, confirmedApp, nameTouched, namedIn>>
vars == <<entry, open, appsLoaded, fields>>

Fields == [address : Texts, ownership : {"owned", "external"}, produces : BOOLEAN,
           consumes : BOOLEAN, pubSub : BOOLEAN, subscriptions : SUBSET Subscriptions,
           namespace : Namespaces \cup {NoText}, app : AppNames \cup {NoText},
           selectors : Selectors \cup {NoSelector, InvalidSelector}]

FieldsOf(e) ==
    [address |-> e.address, ownership |-> e.ownership, produces |-> Produces(e),
     consumes |-> Consumes(e), pubSub |-> e.pubSub, subscriptions |-> e.subscriptions,
     namespace |-> IF e.app = NoApp THEN NoText ELSE e.app[1],
     app |-> IF e.app = NoApp THEN NoText ELSE e.app[2], selectors |-> e.selectors]

-----------------------------------------------------------------------------
(* What the modal derives from its fields. *)

External == local.ownership = "external"

(* targetApp, once the watch has listed it: the addresses it declares. *)
TargetAddresses ==
    IF appsLoaded /\ <<confirmedNamespace, confirmedApp>> \in Apps
    THEN Declared[<<confirmedNamespace, confirmedApp>>] ELSE {}

(* ownerDeclared: the name is compared as it was typed. *)
OwnerDeclared == {d \in TargetAddresses : External /\ d.address = local.address}

EffectivePubSub ==
    IF OwnerDeclared = {} THEN local.pubSub ELSE \E d \in OwnerDeclared : d.pubSub

HasPartialRef == External /\ (local.app = NoText) # (local.namespace = NoText)

Duplicate ==
    /\ Trim[local.address] # Blank
    /\ \E r \in ToSet(Others) : Trim[r.address] = Trim[local.address]

(* Variant: the subscriptions are asked for by the switch, not the owner. *)
VariantIsModalValid ==
    /\ nameTouched => Trim[local.address] # Blank
    /\ ~Duplicate
    /\ External => local.produces \/ local.consumes
    /\ local.pubSub /\ local.consumes => local.subscriptions # {}
    /\ ~HasPartialRef
    /\ local.selectors # InvalidSelector

IsModalValid ==
    /\ nameTouched => Trim[local.address] # Blank
    /\ ~Duplicate
    /\ External => local.produces \/ local.consumes
    /\ EffectivePubSub /\ local.consumes => local.subscriptions # {}
    /\ ~HasPartialRef
    /\ local.selectors # InvalidSelector

ResolvedDirection ==
    CASE local.produces /\ local.consumes -> "both"
      [] local.produces /\ ~local.consumes -> "produces"
      [] ~local.produces /\ local.consumes -> "consumes"
      [] OTHER -> "none"

Payload ==
    [address |-> local.address, ownership |-> local.ownership,
     direction |-> ResolvedDirection, pubSub |-> EffectivePubSub,
     subscriptions |-> local.subscriptions,
     app |-> IF External /\ local.app # NoText THEN <<local.namespace, local.app>> ELSE NoApp,
     selectors |-> IF External THEN NoSelector ELSE TrimSelectors[local.selectors]]

-----------------------------------------------------------------------------
(* The watch runs for an external address only; it may have its list at once. *)
MayBeLoaded(ownership) == {FALSE, ownership = "external"}

Init ==
    /\ entry \in OpenedRows
    /\ local = FieldsOf(entry)
    /\ confirmedNamespace = local.namespace
    /\ confirmedApp = local.app
    /\ open = "none"
    /\ nameTouched = FALSE
    /\ appsLoaded \in MayBeLoaded(entry.ownership)
    /\ namedIn = local.namespace

(* The modal is mounted again, for any of the rows. *)
Open ==
    /\ open = "closed"
    /\ open' = "none"
    /\ entry' \in OpenedRows
    /\ local' = FieldsOf(entry')
    /\ confirmedNamespace' = local'.namespace
    /\ confirmedApp' = local'.app
    /\ nameTouched' = FALSE
    /\ appsLoaded' \in MayBeLoaded(entry'.ownership)
    /\ namedIn' = local'.namespace

AppsLoad ==
    /\ External /\ ~appsLoaded
    /\ open # "closed"
    /\ appsLoaded' = TRUE
    /\ UNCHANGED <<entry, open, fields>>

(* Variant: the watch goes on for an address that became owned. *)
VariantSetOwnership(o) ==
    /\ open = "none"
    /\ local.ownership # o
    /\ local' = [local EXCEPT !.ownership = o]
    /\ UNCHANGED <<entry, open, appsLoaded, confirmedNamespace, confirmedApp, nameTouched, namedIn>>

SetOwnership(o) ==
    /\ open = "none"
    /\ local.ownership # o
    /\ local' = [local EXCEPT !.ownership = o]
    /\ appsLoaded' \in MayBeLoaded(o)
    /\ UNCHANGED <<entry, open, confirmedNamespace, confirmedApp, nameTouched, namedIn>>

(* A click on the input or on the arrow of a closed typeahead. *)
OpenList(f) ==
    /\ open = "none"
    /\ External
    /\ f = "app" => local.namespace # NoText
    /\ open' = f
    /\ UNCHANGED <<entry, appsLoaded, fields>>

(* The arrow of an open one: setIsOpen(!isOpen), without onClose. *)
ToggleCloses ==
    /\ open \in {"namespace", "app", "address"}
    /\ open' = "none"
    /\ UNCHANGED <<entry, appsLoaded, fields>>

(* A click elsewhere, or Escape: onOpenChange(false), then onClose. *)
ListCloses ==
    /\ open \in {"namespace", "app", "address"}
    /\ open' = "none"
    /\ confirmedNamespace' = IF open = "namespace" /\ local.namespace # NoText
                             THEN local.namespace ELSE confirmedNamespace
    /\ confirmedApp' = IF open = "app" /\ local.app # NoText THEN local.app ELSE confirmedApp
    /\ nameTouched' = (nameTouched \/ open = "address")
    /\ UNCHANGED <<entry, local, appsLoaded, namedIn>>

-----------------------------------------------------------------------------
(* App namespace. *)

(* Variant: typing keeps the app that was named. *)
VariantTypeNamespace(n) ==
    /\ External
    /\ open \in {"none", "namespace"}
    /\ open' = "namespace"
    /\ local' = [local EXCEPT !.namespace = n]
    /\ confirmedNamespace' = IF n = NoText THEN NoText ELSE confirmedNamespace
    /\ UNCHANGED <<entry, appsLoaded, confirmedApp, nameTouched, namedIn>>

TypeNamespace(n) ==
    /\ External
    /\ open \in {"none", "namespace"}
    /\ open' = "namespace"
    /\ local' = [local EXCEPT !.namespace = n, !.app = NoText]
    /\ confirmedNamespace' = IF n = NoText THEN NoText ELSE confirmedNamespace
    /\ confirmedApp' = NoText
    /\ UNCHANGED <<entry, appsLoaded, nameTouched, namedIn>>

(* Of the list, or the typed one that "Create" offers. *)
SelectNamespace(n) ==
    /\ open = "namespace"
    /\ appsLoaded \/ n = local.namespace
    /\ open' = "none"
    /\ local' = [local EXCEPT !.namespace = n, !.app = NoText]
    /\ confirmedNamespace' = n
    /\ confirmedApp' = NoText
    /\ UNCHANGED <<entry, appsLoaded, nameTouched, namedIn>>

-----------------------------------------------------------------------------
(* App name.  The field of a disabled toggle still takes text. *)

TypeApp(x) ==
    /\ External
    /\ open \in {"none", "app"}
    /\ open' = IF local.namespace = NoText THEN open ELSE "app"
    /\ local' = [local EXCEPT !.app = x]
    /\ confirmedApp' = IF x = NoText THEN NoText ELSE confirmedApp
    /\ namedIn' = local.namespace
    /\ UNCHANGED <<entry, appsLoaded, confirmedNamespace, nameTouched>>

SelectApp(x) ==
    /\ open = "app"
    /\ \/ appsLoaded /\ confirmedNamespace # NoText
       \/ x = local.app
    /\ open' = "none"
    /\ local' = [local EXCEPT !.app = x]
    /\ confirmedApp' = x
    /\ namedIn' = local.namespace
    /\ UNCHANGED <<entry, appsLoaded, confirmedNamespace, nameTouched>>

-----------------------------------------------------------------------------
(* Address: a typeahead of the addresses of the confirmed app, or an input. *)

TypeAddress(t) ==
    /\ External
    /\ open \in {"none", "address"}
    /\ open' = "address"
    /\ local' = [local EXCEPT !.address = t]
    /\ UNCHANGED <<entry, appsLoaded, confirmedNamespace, confirmedApp, nameTouched, namedIn>>

(* The app that owns the address decides its routing. *)
SelectAddress(n) ==
    /\ open = "address"
    /\ \/ \E d \in TargetAddresses : d.address = n
       \/ n = Trim[local.address]
    /\ open' = "none"
    /\ local' = [local EXCEPT !.address = n,
                     !.pubSub = IF \E d \in TargetAddresses : d.address = n
                                THEN [address |-> n, pubSub |-> TRUE] \in TargetAddresses
                                ELSE @]
    /\ nameTouched' = TRUE
    /\ UNCHANGED <<entry, appsLoaded, confirmedNamespace, confirmedApp, namedIn>>

(* The input of an owned address loses focus before anything else is clicked. *)
EnterAddress(t) ==
    /\ ~External
    /\ open = "none"
    /\ local' = [local EXCEPT !.address = t]
    /\ nameTouched' = TRUE
    /\ UNCHANGED <<entry, open, appsLoaded, confirmedNamespace, confirmedApp, namedIn>>

-----------------------------------------------------------------------------
(* The other fields, each with its condition to be on screen. *)

SetOther(new) ==
    /\ open = "none"
    /\ local' = new
    /\ UNCHANGED <<entry, open, appsLoaded, confirmedNamespace, confirmedApp, nameTouched, namedIn>>

SetDirection ==
    \/ SetOther([local EXCEPT !.produces = ~@])
    \/ SetOther([local EXCEPT !.consumes = ~@])

SetPubSub ==
    /\ OwnerDeclared = {}
    /\ SetOther([local EXCEPT !.pubSub = ~@])

EditSubscriptions(q) ==
    /\ EffectivePubSub
    /\ External => local.consumes
    /\ SetOther([local EXCEPT !.subscriptions = IF q \in @ THEN @ \ {q} ELSE @ \cup {q}])

EnterSelectors(c) ==
    /\ ~External
    /\ SetOther([local EXCEPT !.selectors = c])

-----------------------------------------------------------------------------
HandleDone ==
    /\ open # "closed"
    /\ IsModalValid
    /\ entry' = UpdateAddress(entry, Payload)
    /\ open' = "closed"
    /\ UNCHANGED <<appsLoaded, fields>>

Cancel ==
    /\ open # "closed"
    /\ open' = "closed"
    /\ UNCHANGED <<entry, appsLoaded, fields>>

Next ==
    \/ Open
    \/ AppsLoad
    \/ \E o \in {"owned", "external"} : SetOwnership(o)
    \/ \E f \in {"namespace", "app", "address"} : OpenList(f)
    \/ ToggleCloses
    \/ ListCloses
    \/ \E n \in Namespaces \cup {NoText} : TypeNamespace(n)
    \/ \E n \in Namespaces : SelectNamespace(n)
    \/ \E x \in AppNames \cup {NoText} : TypeApp(x)
    \/ \E x \in AppNames : SelectApp(x)
    \/ \E t \in Texts : TypeAddress(t) \/ EnterAddress(t)
    \/ \E n \in Names : SelectAddress(n)
    \/ SetDirection
    \/ SetPubSub
    \/ \E q \in Subscriptions : EditSubscriptions(q)
    \/ \E c \in Selectors \cup {NoSelector, InvalidSelector} : EnterSelectors(c)
    \/ HandleDone
    \/ Cancel

(* The watch delivers its list while the modal waits for it. *)
Spec == Init /\ [][Next]_vars /\ WF_vars(AppsLoad)

-----------------------------------------------------------------------------
(* The fields have their types; the watch of BrokerApps runs for an external   *)
(* address only.                                                              *)
TypeOK ==
    /\ entry \in Row
    /\ local \in Fields
    /\ confirmedNamespace \in Namespaces \cup {NoText}
    /\ confirmedApp \in AppNames \cup {NoText}
    /\ open \in {"none", "namespace", "app", "address", "closed"}
    /\ nameTouched \in BOOLEAN
    /\ appsLoaded \in BOOLEAN
    /\ appsLoaded => External
    /\ namedIn \in Namespaces \cup {NoText}

(* Whatever the user did in the modal, what it stores is what the rest of the *)
(* form counts on: AddressManager models the modal by DoneMaySend alone.      *)
SendsWhatTheFormExpects ==
    [][HandleDone => DoneMaySend(<<entry>> \o Others, 1, Payload)]_vars

(* An app is referenced in the namespace in which the user named it: no       *)
(* change of the namespace carries the name over to another one.              *)
AppNamedInItsNamespace == local.app # NoText => namedIn = local.namespace

(* AddressEditModal.tsx:417 "The owner decides the routing: referencing its   *)
(* address with the other semantics would get the app rejected by the         *)
(* operator": no stored reference has the other semantics, if the list of     *)
(* BrokerApps was there and the address is the owner's to the letter.         *)
OwnerDecidesRouting ==
    [][HandleDone /\ appsLoaded /\ entry'.app \in Apps
       => \A d \in Declared[entry'.app] :
             d.address = entry'.address => entry'.pubSub = d.pubSub]_vars

=============================================================================

---------------------------- MODULE BrokerAppForm ----------------------------
(***************************************************************************)
(* The Service Selector and Resources sections of the BrokerApp form, and   *)
(* the modal that copies labels of a BrokerService into the selector, over  *)
(* brokerAppReducer.  Its addresses are AddressManager: no action on one    *)
(* half changes the other, but for SET_MODEL, which replaces both.          *)
(*                                                                         *)
(* The reducer never mutates rows; the ids they carry are positions here.   *)
(* An object of the CR is a function from the names of its entries.         *)
(***************************************************************************)
EXTENDS LabelRows

CONSTANTS
    Quantities,     \* quantities that validate
    BadQuantity,    \* a text that is none
    NoObject,       \* an object that is absent
    ClusterApps,    \* the BrokerApps that are opened or reloaded
    AppTexts,       \* the texts of the YAML view, as parsed
    MaxQuantities   \* bound on the quantities that quantities are added to

Parts == {"limits", "requests"}
QuantityNames == {"cpu", "memory"}

Quantity == Quantities \cup {BadQuantity}

PartOf(resources, part) ==
    IF resources # NoObject /\ part \in DOMAIN resources THEN resources[part] ELSE NoObject

(* spec.resources: the quantities of the form, another one, and another part. *)
IsResources(resources) ==
    resources = NoObject \/
        /\ DOMAIN resources \subseteq Parts \cup {"claims"}
        /\ \A p \in Parts \cap DOMAIN resources :
              /\ DOMAIN resources[p] \subseteq QuantityNames \cup {"storage"}
              /\ Range(resources[p]) \subseteq Quantity

(* No part of it is an empty object, and neither is it itself. *)
NothingEmpty(resources) ==
    resources # NoObject =>
        /\ DOMAIN resources # {}
        /\ \A p \in Parts : PartOf(resources, p) # NoObject => DOMAIN resources[p] # {}

IsApp(c) ==
    /\ DOMAIN c = {"selector", "resources"}
    /\ IsLabels(c.selector)
    /\ IsResources(c.resources)

ASSUME AppFormAssumption ==
    /\ BadQuantity \notin Quantities
    /\ \A c \in ClusterApps \cup AppTexts : IsApp(c) /\ NothingEmpty(c.resources)
    /\ MaxLabelRows \in Nat \ {0}
    /\ MaxQuantities \in Nat

VARIABLES
    matchLabels,    \* the rows of the selector
    app,            \* state.cr: its selector and its resources
    appHasChanges,  \* hasChanges
    copying         \* the copy modal: closed, no service selected, or one, with the keys ticked

appVars == <<matchLabels, app, appHasChanges, copying>>

Closed == [phase |-> "closed"]
NoneSelected == [phase |-> "services"]

(* The record that syncServiceSelectorFromLabels makes of the rows. *)
WithSelector(c, rows) == [c EXCEPT !.selector = LabelsToRecord(rows)]

(* matchLabelsFromRecord: one blank row when there are no labels. *)
MatchLabelsFromRecord(labels) == IF labels = <<>> THEN <<EmptyLabelRow>> ELSE labels

ValidateBrokerAppCR(c) ==
    \A p \in Parts, n \in QuantityNames :
        LET part == PartOf(c.resources, p)
        IN  part # NoObject /\ n \in DOMAIN part => part[n] # BadQuantity

IsAppFormValid ==
    /\ ValidateBrokerAppCR(app)
    /\ ~HasDuplicates(matchLabels)
    /\ KeysOf(matchLabels) # {}

-----------------------------------------------------------------------------
SetAppModel(c, rows, changed) ==
    /\ matchLabels' = rows
    /\ app' = WithSelector(c, rows)
    /\ appHasChanges' = changed
    /\ UNCHANGED copying

(* createInitialBrokerAppState, or SET_MODEL with the BrokerApp of the watch. *)
AppInit ==
    /\ \E c \in ClusterApps \cup {[selector |-> <<>>, resources |-> NoObject]} :
         /\ matchLabels = MatchLabelsFromRecord(c.selector)
         /\ app = WithSelector(c, MatchLabelsFromRecord(c.selector))
    /\ appHasChanges = FALSE
    /\ copying = Closed

(* The modal covers the form. *)
OnForm == copying = Closed

(* The end of the reducer after an action on the rows. *)
EditRows(rows) ==
    /\ matchLabels' = rows
    /\ app' = WithSelector(app, rows)
    /\ appHasChanges' = TRUE

AddMatchLabel ==
    /\ OnForm
    /\ Len(matchLabels) < MaxLabelRows
    /\ EditRows(Append(matchLabels, EmptyLabelRow))
    /\ UNCHANGED copying

(* The remove button: the last row is only cleared, unless it is clear. *)
RemoveMatchLabel(i) ==
    /\ OnForm
    /\ Len(matchLabels) > 1 \/ matchLabels[i] # EmptyLabelRow
    /\ EditRows(IF Len(matchLabels) = 1 THEN <<EmptyLabelRow>> ELSE RemoveAt(matchLabels, i))
    /\ UNCHANGED copying

EditRow(i, r) ==
    /\ OnForm
    /\ Len(matchLabels) <= MaxLabelRows
    /\ EditRows([matchLabels EXCEPT ![i] = r])
    /\ UNCHANGED copying

TypeKey(i, k) == EditRow(i, [matchLabels[i] EXCEPT !.key = k])

(* The keys suggested are those of the services that no other row has; the *)
(* value goes with the key it belonged to.                                 *)
SelectKey(i, k) ==
    /\ k \in UNION {KeysOf(l) : l \in ServiceLabels}
    /\ k \notin KeysOf(matchLabels) \/ k = matchLabels[i].key
    /\ EditRow(i, [key |-> k, value |-> NoValue])

(* Typed, or selected among the values of the key. *)
SetValue(i, v) == EditRow(i, [matchLabels[i] EXCEPT !.value = v])

-----------------------------------------------------------------------------
(* The copy modal. *)
OpenCopyLabels ==
    /\ OnForm
    /\ copying' = NoneSelected
    /\ UNCHANGED <<matchLabels, app, appHasChanges>>

(* Every label is ticked. *)
HandleSelectService(l) ==
    /\ ~OnForm
    /\ copying' = [phase |-> "labels", labels |-> l, keys |-> KeysOf(l)]
    /\ UNCHANGED <<matchLabels, app, appHasChanges>>

ToggleKey(k) ==
    /\ copying.phase = "labels"
    /\ k \in KeysOf(copying.labels)
    /\ copying' = [copying EXCEPT !.keys = IF k \in @ THEN @ \ {k} ELSE @ \cup {k}]
    /\ UNCHANGED <<matchLabels, app, appHasChanges>>

CloseCopyLabels ==
    /\ ~OnForm
    /\ copying' = Closed
    /\ UNCHANGED <<matchLabels, app, appHasChanges>>

(* The labels that are ticked, in the order of the service; that a key which *)
(* was ticked again comes last is left out.                                  *)
Chosen ==
    SubSeqAt(copying.labels,
             {i \in DOMAIN copying.labels : copying.labels[i].key \in copying.keys})

(* Variant: the service has the last word. *)
VariantCopyReplaces(rows, labels) ==
    SubSeqAt(rows, {i \in DOMAIN rows : rows[i].key \notin KeysOf(labels) \cup {NoKey}})
        \o labels

(* COPY_MATCH_LABELS_FROM_SERVICE: keys that have a row are left out, blank  *)
(* rows go.                                                                  *)
CopiedRows(rows, labels) ==
    SubSeqAt(rows, {i \in DOMAIN rows : rows[i] # EmptyLabelRow})
        \o SubSeqAt(labels, {i \in DOMAIN labels : labels[i].key \notin KeysOf(rows)})

(* Its button is disabled while no key is ticked. *)
HandleConfirmCopy ==
    /\ copying.phase = "labels"
    /\ copying.keys # {}
    /\ LET rows == CopiedRows(matchLabels, Chosen)
       IN  EditRows(IF rows = <<>> THEN <<EmptyLabelRow>> ELSE rows)
    /\ copying' = Closed

-----------------------------------------------------------------------------
(* Quantities. *)
Fields(object) == IF object = NoObject THEN <<>> ELSE object

With(object, name, value) ==
    [x \in {name} \cup DOMAIN Fields(object) |-> IF x = name THEN value ELSE Fields(object)[x]]

Without(object, name) == Restrict(object, DOMAIN object \ {name})

CleanupResources(resources) ==
    LET empty == {p \in Parts : PartOf(resources, p) # NoObject /\ DOMAIN resources[p] = {}}
        kept == Restrict(resources, DOMAIN resources \ empty)
    IN  IF DOMAIN kept = {} THEN NoObject ELSE kept

(* Variant: empty objects are left where they are. *)
VariantNoCleanup(resources, part, name) ==
    IF PartOf(resources, part) = NoObject THEN resources
    ELSE With(resources, part, Without(resources[part], name))

Cleared(resources, part, name) ==
    IF resources = NoObject THEN NoObject
    ELSE CleanupResources(IF PartOf(resources, part) = NoObject THEN resources
                          ELSE With(resources, part, Without(resources[part], name)))

EditResources(resources) ==
    /\ OnForm
    /\ app' = [WithSelector(app, matchLabels) EXCEPT !.resources = resources]
    /\ appHasChanges' = TRUE
    /\ UNCHANGED <<matchLabels, copying>>

QuantitiesOf(resources) ==
    UNION {{p} \X (DOMAIN Fields(PartOf(resources, p)) \cap QuantityNames) : p \in Parts}

(* SET_CPU_REQUEST, SET_CPU_LIMIT, SET_MEMORY_REQUEST, SET_MEMORY_LIMIT. *)
SetQuantity(part, name, q) ==
    /\ Cardinality(QuantitiesOf(app.resources) \ {<<part, name>>}) < MaxQuantities
    /\ EditResources(With(app.resources, part, With(PartOf(app.resources, part), name, q)))

ClearQuantity(part, name) == EditResources(Cleared(app.resources, part, name))

(* SET_NAME and the actions on addresses. *)
EditOtherField == EditResources(app.resources)

-----------------------------------------------------------------------------
(* onSwitchToForm of a text that is accepted; rows with a key twice are kept *)
(* for the user to correct, at most MaxLabelRows of them here.               *)
SwitchAppToForm(c) ==
    /\ OnForm
    /\ HasDuplicates(matchLabels) => Len(matchLabels) <= MaxLabelRows
    /\ ValidateBrokerAppCR(c)
    /\ SetAppModel(c, IF HasDuplicates(matchLabels)
                      THEN MergeWithYaml(matchLabels, c.selector)
                      ELSE MatchLabelsFromRecord(c.selector), TRUE)

(* Reload, which is not validated. *)
ReloadApp(c) ==
    /\ OnForm
    /\ SetAppModel(c, MatchLabelsFromRecord(c.selector), FALSE)

EditSelector ==
    \/ AddMatchLabel
    \/ \E i \in DOMAIN matchLabels :
         \/ RemoveMatchLabel(i)
         \/ \E k \in Keys \cup {NoKey} : TypeKey(i, k) \/ SelectKey(i, k)
         \/ \E v \in Values : SetValue(i, v)

CopyLabels ==
    \/ OpenCopyLabels
    \/ \E l \in ServiceLabels : HandleSelectService(l)
    \/ \E k \in Keys : ToggleKey(k)
    \/ CloseCopyLabels
    \/ HandleConfirmCopy

AppNext ==
    \/ EditSelector
    \/ CopyLabels
    \/ \E p \in Parts, n \in QuantityNames :
         ClearQuantity(p, n) \/ \E q \in Quantity : SetQuantity(p, n, q)
    \/ EditOtherField
    \/ \E c \in AppTexts \cup {app} : SwitchAppToForm(c)
    \/ \E c \in ClusterApps : ReloadApp(c)

-----------------------------------------------------------------------------
(* The rows and the CR have their types, and the CR always has the selector of *)
(* the rows.                                                                   *)
AppTypeOK ==
    /\ matchLabels \in Seq(LabelRow)
    /\ IsApp(app)
    /\ app.selector = LabelsToRecord(matchLabels)
    /\ appHasChanges \in BOOLEAN
    /\ copying \in {Closed, NoneSelected}
                   \cup [phase : {"labels"}, labels : ServiceLabels, keys : SUBSET Keys]

(* What Save sends of the form: a selector that has each row with a key and    *)
(* nothing else, inherited keys aside, and no empty object that clearing       *)
(* fields left behind.  There is always a row to type in.                      *)
SelectorIsTheRows ==
    /\ matchLabels # <<>>
    /\ IsAppFormValid =>
         /\ \A r \in ToSet(matchLabels) :
              r.key \notin Inherited \cup {NoKey} => r \in ToSet(app.selector)
         /\ ToSet(app.selector) \subseteq ToSet(matchLabels)
    /\ NothingEmpty(app.resources)

(* "Keys that already exist in the form are skipped so existing choices are    *)
(* preserved": a copy loses no row with a key and changes no label that the    *)
(* selector has, and each label that was ticked has a row after it.            *)
CopyKeeps ==
    HandleConfirmCopy =>
        /\ {r \in ToSet(matchLabels) : r.key # NoKey} \subseteq ToSet(matchLabels')
        /\ ToSet(app.selector) \subseteq ToSet(app'.selector)
        /\ KeysOf(matchLabels') = KeysOf(matchLabels) \cup copying.keys

=============================================================================

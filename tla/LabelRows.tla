------------------------------ MODULE LabelRows ------------------------------
(***************************************************************************)
(* Labels as both forms edit them: rows of a key and a value, in which a    *)
(* key may be empty or stand twice, against the labels of a CR, which are a *)
(* JavaScript object.  Such an object is here the sequence of its entries,  *)
(* in the order of their insertion, with no key twice.                      *)
(*                                                                         *)
(* "key in record" also finds the keys that every object inherits, such as  *)
(* "constructor": a row with one of them never reaches the CR.              *)
(***************************************************************************)
EXTENDS Subsequences, SequencesExt

CONSTANTS
    Keys,           \* label keys
    NoKey,          \* the empty key of a row
    Inherited,      \* the keys that are properties of Object.prototype
    Values,         \* label values
    NoValue,        \* the empty one
    ServiceLabels,  \* the labels of the BrokerServices that may be copied from
    MaxLabelRows    \* bound on the rows that are typed in or added to

ASSUME LabelAssumption ==
    /\ NoKey \notin Keys
    /\ Inherited \subseteq Keys
    /\ NoValue \in Values

LabelRow == [key : Keys \cup {NoKey}, value : Values]

EmptyLabelRow == [key |-> NoKey, value |-> NoValue]

KeysOf(rows) == {r.key : r \in ToSet(rows)} \ {NoKey}

(* The labels of a CR. *)
IsLabels(entries) ==
    /\ entries \in Seq([key : Keys, value : Values])
    /\ IsInjective([i \in DOMAIN entries |-> entries[i].key])

ASSUME ServiceLabelAssumption == \A l \in ServiceLabels : IsLabels(l)

(* validateLabelEntries(rows) # null. *)
HasDuplicates(rows) ==
    \E i, j \in DOMAIN rows : i # j /\ rows[i].key = rows[j].key /\ rows[i].key # NoKey

(* First occurrence wins. *)
LabelsToRecord(rows) ==
    SubSeqAt(rows, {i \in DOMAIN rows : /\ rows[i].key \notin Inherited \cup {NoKey}
                                        /\ \A j \in 1..(i - 1) : rows[j].key # rows[i].key})

(* The rows stay, and the keys that only the YAML has become rows. *)
MergeWithYaml(rows, labels) ==
    rows \o SubSeqAt(labels, {i \in DOMAIN labels : labels[i].key \notin KeysOf(rows)})

=============================================================================

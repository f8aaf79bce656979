------------------------- MODULE BrokerAppAddresses -------------------------
(***************************************************************************)
(* The addresses of a BrokerApp, as rows of the form and as the two fields *)
(* of its CR that the form manages, spec.addresses and spec.capabilities,  *)
(* with the conversions of reducers/brokerapp/reducer.ts between them.     *)
(*                                                                         *)
(* A row shows an address that the app owns or one of another app, whether *)
(* the app produces to it and consumes from it, its routing (pubSub) and   *)
(* its durable subscription queues.  The CR says the same in three lists.  *)
(* Namespace and name of another app are one value here, and so are the    *)
(* two CEL selectors of an owned address: the conversions carry each pair  *)
(* along unread.                                                           *)
(***************************************************************************)
EXTENDS Subsequences, SequencesExt

CONSTANTS
    Names,          \* names of addresses
    Blank,          \* the empty address
    Texts,          \* what an address field may hold: names, blanks, untrimmed names
    Trim,           \* String.trim on them
    Subscriptions,  \* names of durable subscription queues
    Apps,           \* other BrokerApps, by namespace and name
    NoApp,
    Selectors,      \* CEL expressions for producers and consumers
    NoSelector,
    TrimSelectors   \* String.trim on them; blank ones become NoSelector

ASSUME AddressAssumption ==
    /\ Names \cup {Blank} \subseteq Texts
    /\ Blank \notin Names
    /\ Trim \in [Texts -> Names \cup {Blank}]
    /\ \A n \in Names \cup {Blank} : Trim[n] = n
    /\ NoApp \notin Apps
    /\ NoSelector \notin Selectors
    /\ TrimSelectors \in [Selectors \cup {NoSelector} -> Selectors \cup {NoSelector}]
    /\ \A c \in Selectors \cup {NoSelector} : TrimSelectors[TrimSelectors[c]] = TrimSelectors[c]
    /\ TrimSelectors[NoSelector] = NoSelector

(* A row of the form; an absent pubSub or subscriptions is FALSE or empty. *)
Row == [address : Texts, ownership : {"owned", "external"},
        direction : {"produces", "consumes", "both", "none"}, pubSub : BOOLEAN,
        subscriptions : SUBSET Subscriptions, app : Apps \cup {NoApp},
        selectors : Selectors \cup {NoSelector}]

(* The entries of spec.addresses, and of both lists of a capability: texts as *)
(* they stand in the cluster or in a YAML text, trimmed or not.               *)
AddressSpec == [address : Texts, pubSub : BOOLEAN, subscriptions : SUBSET Subscriptions,
                selectors : Selectors \cup {NoSelector}]
MatchAddress == [address : Texts, app : Apps \cup {NoApp}, pubSub : BOOLEAN,
                 subscriptions : SUBSET Subscriptions]

(* The CR; further tells whether spec.capabilities has a second entry. *)
CR == [addresses : Seq(AddressSpec), producerOf : Seq(MatchAddress),
       consumerOf : Seq(MatchAddress), further : BOOLEAN]

(* validateBrokerAppCR asks this of spec.addresses, and nothing of the        *)
(* addresses in spec.capabilities.                                            *)
Validated(c) ==
    /\ \A i \in DOMAIN c.addresses : Trim[c.addresses[i].address] # Blank
    /\ IsInjective([i \in DOMAIN c.addresses |-> Trim[c.addresses[i].address]])

-----------------------------------------------------------------------------
(* From the rows to the CR: syncAddressesToCR. *)

Produces(r) == r.direction \in {"produces", "both"}

Consumes(r) == r.direction \in {"consumes", "both"}

Owned(r) == r.ownership = "owned"

(* The rows with an address: the others are left out of the CR. *)
Named(rows) == {i \in DOMAIN rows : Trim[rows[i].address] # Blank}

CleanAddress(r) == [address |-> Trim[r.address], pubSub |-> r.pubSub,
                    subscriptions |-> r.subscriptions,
                    selectors |-> TrimSelectors[r.selectors]]

(* Of its routing, a producer writes pubSub and a consumer subscriptions. *)
ProducerEntry(r) ==
    [address |-> Trim[r.address], app |-> r.app, pubSub |-> r.pubSub, subscriptions |-> {}]

ConsumerEntry(r) ==
    [address |-> Trim[r.address], app |-> r.app, pubSub |-> FALSE,
     subscriptions |-> r.subscriptions]

(* The three lists that the rows become. *)
OwnedEntries(rows) ==
    SubSeqAt([i \in DOMAIN rows |-> CleanAddress(rows[i])],
             {i \in Named(rows) : Owned(rows[i])})

ProducerEntries(rows) ==
    SubSeqAt([i \in DOMAIN rows |-> ProducerEntry(rows[i])],
             {i \in Named(rows) : Produces(rows[i])})

ConsumerEntries(rows) ==
    SubSeqAt([i \in DOMAIN rows |-> ConsumerEntry(rows[i])],
             {i \in Named(rows) : Consumes(rows[i])})

Sync(rows) ==
    [addresses |-> OwnedEntries(rows), producerOf |-> ProducerEntries(rows),
     consumerOf |-> ConsumerEntries(rows), further |-> FALSE]

-----------------------------------------------------------------------------
(* From the CR to the rows: hydrateAddresses, of the first capability only.   *)
(* Addresses are compared as they stand, untrimmed.                          *)

AddressesOf(entries) == {e.address : e \in ToSet(entries)}

FirstOf(entries, a) == entries[SelectInSeq(entries, LAMBDA e : e.address = a)]

(* A Map built from pairs keeps the last one of a key. *)
LastOf(entries, a) == entries[SelectLastInSeq(entries, LAMBDA e : e.address = a)]

(* Variant: the first matching list decides, "both" is never found. *)
VariantFirstDirection(cr, a) ==
    IF a \in AddressesOf(cr.producerOf) THEN "produces"
    ELSE IF a \in AddressesOf(cr.consumerOf) THEN "consumes" ELSE "none"

ResolveDirection(cr, a) ==
    LET produces == a \in AddressesOf(cr.producerOf)
        consumes == a \in AddressesOf(cr.consumerOf)
    IN  CASE produces /\ consumes -> "both"
          [] produces /\ ~consumes -> "produces"
          [] consumes /\ ~produces -> "consumes"
          [] OTHER -> "none"

OwnedRow(cr, e) ==
    [address |-> e.address, ownership |-> "owned",
     direction |-> ResolveDirection(cr, e.address), pubSub |-> e.pubSub,
     subscriptions |-> e.subscriptions, app |-> NoApp, selectors |-> e.selectors]

(* The app that the first capability entry of an address names. *)
OwnerOf(cr, a) ==
    IF a \in AddressesOf(cr.producerOf) THEN FirstOf(cr.producerOf, a).app
                                        ELSE FirstOf(cr.consumerOf, a).app

SubscriptionsOf(cr, a) ==
    IF a \in AddressesOf(cr.consumerOf) THEN LastOf(cr.consumerOf, a).subscriptions ELSE {}

ExternalRow(cr, a) ==
    [address |-> a, ownership |-> "external", direction |-> ResolveDirection(cr, a),
     pubSub |-> \/ SubscriptionsOf(cr, a) # {}
                \/ a \in AddressesOf(cr.producerOf) /\ LastOf(cr.producerOf, a).pubSub,
     subscriptions |-> SubscriptionsOf(cr, a), app |-> OwnerOf(cr, a),
     selectors |-> NoSelector]

(* The addresses the capability names, in the order they are looked at. *)
CapabilityNames(cr) ==
    [i \in DOMAIN cr.producerOf |-> cr.producerOf[i].address]
        \o [i \in DOMAIN cr.consumerOf |-> cr.consumerOf[i].address]

(* Variant: an address in both lists is not recognised the second time. *)
VariantExternalNamesRepeat(cr) ==
    LET named == CapabilityNames(cr)
    IN  SubSeqAt(named, {i \in DOMAIN named : named[i] \notin AddressesOf(cr.addresses)})

(* Those the app does not own, once each. *)
ExternalNames(cr) ==
    LET named == CapabilityNames(cr)
    IN  SubSeqAt(named, {i \in DOMAIN named : /\ named[i] \notin AddressesOf(cr.addresses)
                                             /\ \A j \in 1..(i - 1) : named[j] # named[i]})

Hydrate(cr) ==
    [i \in DOMAIN cr.addresses |-> OwnedRow(cr, cr.addresses[i])]
        \o [i \in DOMAIN ExternalNames(cr) |-> ExternalRow(cr, ExternalNames(cr)[i])]

-----------------------------------------------------------------------------
(* What the modal and the reducer do to one row. *)

(* ADD_ADDRESS appends this row. *)
NewRow == [address |-> Blank, ownership |-> "owned", direction |-> "produces",
           pubSub |-> FALSE, subscriptions |-> {}, app |-> NoApp,
           selectors |-> NoSelector]

(* Variant: the addresses are compared as they were typed. *)
VariantDoneComparesTexts(rows, i, p) ==
    /\ \A j \in DOMAIN rows \ {i} : rows[j].address # p.address
    /\ p.ownership = "external" => p.direction # "none" /\ p.selectors = NoSelector
    /\ p.ownership = "owned" => p.app = NoApp /\ TrimSelectors[p.selectors] = p.selectors
    /\ p.pubSub /\ Consumes(p) => p.subscriptions # {}

(* What Done of the modal may send for row i, whatever the user did in it:  *)
(* no second row with the address, a direction for an external address, a   *)
(* subscription for a pub/sub consumer, an app for external addresses only, *)
(* trimmed selectors for owned ones only.  The address may be blank: the    *)
(* modal asks for it only after its field was left.                         *)
DoneMaySend(rows, i, p) ==
    /\ Trim[p.address] # Blank =>
          \A j \in DOMAIN rows \ {i} : Trim[rows[j].address] # Trim[p.address]
    /\ p.ownership = "external" => p.direction # "none" /\ p.selectors = NoSelector
    /\ p.ownership = "owned" => p.app = NoApp /\ TrimSelectors[p.selectors] = p.selectors
    /\ p.pubSub /\ Consumes(p) => p.subscriptions # {}

(* Variant: an external address keeps subscriptions it does not consume with. *)
VariantUpdateKeepsSubscriptions(r, p) ==
    [p EXCEPT !.subscriptions = IF p.pubSub THEN p.subscriptions ELSE {}]

(* UPDATE_ADDRESS.  The payload has every field of the row. *)
UpdateAddress(r, p) ==
    [p EXCEPT
        !.app = IF p.ownership = "external" THEN p.app ELSE NoApp,
        !.selectors = IF p.ownership = "external" THEN NoSelector ELSE p.selectors,
        !.subscriptions = IF p.pubSub /\ (p.ownership = "owned" \/ Consumes(p))
                          THEN p.subscriptions ELSE {}]

=============================================================================

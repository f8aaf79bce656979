------------------------ MODULE AddressEditModalProofs ------------------------
(***************************************************************************)
(* Theorems about the address modal, for every set of namespaces, apps,    *)
(* texts and declared addresses, every row it is opened with and any other *)
(* rows of the form.  ModalInv is inductive: types, and the name of an app *)
(* staying with the namespace it was given in.                             *)
(***************************************************************************)
EXTENDS AddressEditModal, TLAPS

ModalInv == TypeOK /\ AppNamedInItsNamespace

(* The fields of a row are fields of the modal. *)
LEMMA FieldsOfRow ==
    ASSUME NEW e \in Row
    PROVE  FieldsOf(e) \in Fields
<1>1. e.app # NoApp => e.app[1] \in Namespaces /\ e.app[2] \in AppNames
  BY ModalAssumption DEF Row
<1>2. Produces(e) \in BOOLEAN /\ Consumes(e) \in BOOLEAN
  BY DEF Produces, Consumes
<1> QED
  BY <1>1, <1>2 DEF FieldsOf, Fields, Row

(* What a valid modal sends is a row. *)
LEMMA PayloadIsRow ==
    ASSUME TypeOK, IsModalValid
    PROVE  Payload \in Row
<1>1. local \in Fields
  BY DEF TypeOK
<1>2. EffectivePubSub \in BOOLEAN
  BY <1>1 DEF EffectivePubSub, Fields
<1>3. ResolvedDirection \in {"produces", "consumes", "both", "none"}
  BY <1>1 DEF ResolvedDirection, Fields
<1>4. External /\ local.app # NoText => <<local.namespace, local.app>> \in Apps
  BY <1>1, ModalAssumption DEF IsModalValid, HasPartialRef, External, Fields
<1>5. ~External => TrimSelectors[local.selectors] \in Selectors \cup {NoSelector}
  BY <1>1, AddressAssumption DEF IsModalValid, Fields
<1> QED
  BY <1>1, <1>2, <1>3, <1>4, <1>5 DEF Payload, Row, Fields

(* UPDATE_ADDRESS stores a row. *)
LEMMA UpdatedIsRow ==
    ASSUME NEW r, NEW p \in Row
    PROVE  UpdateAddress(r, p) \in Row
BY DEF UpdateAddress, Row

(* The modal is mounted with the fields of its row. *)
LEMMA MountedFields ==
    ASSUME NEW e \in Row, NEW f, f = FieldsOf(e)
    PROVE  /\ f \in Fields
           /\ f.namespace \in Namespaces \cup {NoText}
           /\ f.app \in AppNames \cup {NoText}
           /\ f.ownership = e.ownership
<1>1. f \in Fields
  BY FieldsOfRow
<1> QED
  BY <1>1 DEF Fields, FieldsOf

LEMMA ModalInit == Init => ModalInv
<1> SUFFICES ASSUME Init PROVE ModalInv
  OBVIOUS
<1>1. entry \in Row
  BY ModalAssumption DEF Init
<1>2. /\ local \in Fields
      /\ local.namespace \in Namespaces \cup {NoText}
      /\ local.app \in AppNames \cup {NoText}
      /\ local.ownership = entry.ownership
  BY <1>1, MountedFields DEF Init
<1>3. appsLoaded \in BOOLEAN /\ (appsLoaded => External)
  BY <1>2 DEF Init, MayBeLoaded, External
<1> QED
  BY <1>1, <1>2, <1>3 DEF ModalInv, Init, TypeOK, AppNamedInItsNamespace

LEMMA OpenKeeps == ModalInv /\ Open => ModalInv'
<1> SUFFICES ASSUME Open PROVE ModalInv'
  OBVIOUS
<1>1. entry' \in Row
  BY ModalAssumption DEF Open
<1>2. /\ local' \in Fields
      /\ local'.namespace \in Namespaces \cup {NoText}
      /\ local'.app \in AppNames \cup {NoText}
      /\ local'.ownership = entry'.ownership
  BY <1>1, MountedFields DEF Open
<1>3. appsLoaded' \in BOOLEAN /\ (appsLoaded' => External')
  BY <1>2 DEF Open, MayBeLoaded, External
<1> QED
  BY <1>1, <1>2, <1>3 DEF ModalInv, Open, TypeOK, AppNamedInItsNamespace

(* A step that only edits other fields than the owner and the app. *)
LEMMA OtherFieldsKeep ==
    ASSUME ModalInv, local' \in Fields,
           local'.ownership = local.ownership,
           local'.namespace = local.namespace, local'.app = local.app,
           nameTouched' \in BOOLEAN, open' \in {"none", "namespace", "app", "address", "closed"},
           UNCHANGED <<entry, appsLoaded, confirmedNamespace, confirmedApp, namedIn>>
    PROVE  ModalInv'
BY DEF ModalInv, TypeOK, AppNamedInItsNamespace, External

(* Each step of the modal keeps ModalInv. *)
LEMMA StepsKeep == ModalInv /\ [Next]_vars => ModalInv'
<1> SUFFICES ASSUME ModalInv, [Next]_vars PROVE ModalInv'
  OBVIOUS
<1> USE DEF ModalInv
<1>1. CASE Open
  BY <1>1, OpenKeeps
<1>2. CASE AppsLoad
  BY <1>2 DEF AppsLoad, TypeOK, AppNamedInItsNamespace, External, fields
<1>3. ASSUME NEW o \in {"owned", "external"}, SetOwnership(o) PROVE ModalInv'
  BY <1>3 DEF SetOwnership, MayBeLoaded, TypeOK, AppNamedInItsNamespace, External, Fields
<1>4. ASSUME NEW f \in {"namespace", "app", "address"}, OpenList(f) PROVE ModalInv'
  BY <1>4 DEF OpenList, TypeOK, AppNamedInItsNamespace, External, fields
<1>5. CASE ToggleCloses
  BY <1>5 DEF ToggleCloses, TypeOK, AppNamedInItsNamespace, External, fields
<1>6. CASE ListCloses
  BY <1>6 DEF ListCloses, TypeOK, AppNamedInItsNamespace, External, Fields
<1>7. ASSUME NEW n \in Namespaces \cup {NoText}, TypeNamespace(n) PROVE ModalInv'
  BY <1>7 DEF TypeNamespace, TypeOK, AppNamedInItsNamespace, External, Fields
<1>8. ASSUME NEW n \in Namespaces, SelectNamespace(n) PROVE ModalInv'
  BY <1>8 DEF SelectNamespace, TypeOK, AppNamedInItsNamespace, External, Fields
<1>9. ASSUME NEW x \in AppNames \cup {NoText}, TypeApp(x) PROVE ModalInv'
  BY <1>9 DEF TypeApp, TypeOK, AppNamedInItsNamespace, External, Fields
<1>10. ASSUME NEW x \in AppNames, SelectApp(x) PROVE ModalInv'
  BY <1>10 DEF SelectApp, TypeOK, AppNamedInItsNamespace, External, Fields
<1>11. ASSUME NEW t \in Texts, TypeAddress(t) \/ EnterAddress(t) PROVE ModalInv'
  BY <1>11, OtherFieldsKeep DEF TypeAddress, EnterAddress, TypeOK, Fields
<1>12. ASSUME NEW n \in Names, SelectAddress(n) PROVE ModalInv'
  <2>1. local' \in Fields /\ local'.ownership = local.ownership
        /\ local'.namespace = local.namespace /\ local'.app = local.app
    <3>1. n \in Texts
      BY AddressAssumption
    <3>2. ([address |-> n, pubSub |-> TRUE] \in TargetAddresses) \in BOOLEAN
      OBVIOUS
    <3> QED
      BY <1>12, <3>1, <3>2 DEF SelectAddress, TypeOK, Fields
  <2> QED
    BY <1>12, <2>1, OtherFieldsKeep DEF SelectAddress
<1>13. ASSUME NEW new \in Fields, SetOther(new), new.ownership = local.ownership,
              new.namespace = local.namespace, new.app = local.app
       PROVE  ModalInv'
  BY <1>13, OtherFieldsKeep DEF SetOther, TypeOK
<1>14. CASE SetDirection
  BY <1>13, <1>14 DEF SetDirection, TypeOK, Fields
<1>15. CASE SetPubSub
  BY <1>13, <1>15 DEF SetPubSub, TypeOK, Fields
<1>16. ASSUME NEW q \in Subscriptions, EditSubscriptions(q) PROVE ModalInv'
  BY <1>13, <1>16 DEF EditSubscriptions, TypeOK, Fields
<1>17. ASSUME NEW c \in Selectors \cup {NoSelector, InvalidSelector}, EnterSelectors(c)
       PROVE  ModalInv'
  BY <1>13, <1>17 DEF EnterSelectors, TypeOK, Fields
<1>18. CASE HandleDone
  <2>1. entry' \in Row
    BY <1>18, PayloadIsRow, UpdatedIsRow DEF HandleDone
  <2> QED
    BY <1>18, <2>1 DEF HandleDone, TypeOK, AppNamedInItsNamespace, External, fields
<1>19. CASE Cancel
  BY <1>19 DEF Cancel, TypeOK, AppNamedInItsNamespace, External, fields
<1>20. CASE UNCHANGED vars
  BY <1>20 DEF vars, fields, TypeOK, AppNamedInItsNamespace, External
<1> QED
  BY <1>1, <1>2, <1>3, <1>4, <1>5, <1>6, <1>7, <1>8, <1>9, <1>10, <1>11, <1>12,
     <1>14, <1>15, <1>16, <1>17, <1>18, <1>19, <1>20 DEF Next

(* The rows after the first one are the other rows of the form. *)
LEMMA OtherRows ==
    ASSUME NEW e, NEW j \in DOMAIN (<<e>> \o Others) \ {1}
    PROVE  (<<e>> \o Others)[j] \in ToSet(Others)
<1>1. Others \in Seq(Row)
  BY ModalAssumption
<1>2. Len(Others) \in Nat /\ DOMAIN Others = 1..Len(Others)
  BY <1>1
<1>3. <<e>> \in Seq({e}) /\ Len(<<e>>) = 1
  OBVIOUS
<1>4. DOMAIN (<<e>> \o Others) = 1..(1 + Len(Others))
  BY <1>1, <1>2, <1>3
<1>5. j \in Int /\ j > 1 /\ j <= 1 + Len(Others)
  BY <1>2, <1>4
<1>6. (<<e>> \o Others)[j] = Others[j - 1] /\ j - 1 \in DOMAIN Others
  BY <1>1, <1>2, <1>3, <1>5
<1> QED
  BY <1>6 DEF ToSet

(* A valid modal sends what DoneMaySend lets through. *)
LEMMA DoneSends ==
    ASSUME TypeOK, HandleDone
    PROVE  DoneMaySend(<<entry>> \o Others, 1, Payload)
<1> USE DEF HandleDone
<1>1. local \in Fields
  BY DEF TypeOK
<1>2. /\ Payload.address = local.address /\ Payload.ownership = local.ownership
      /\ Payload.direction = ResolvedDirection /\ Payload.pubSub = EffectivePubSub
      /\ Payload.subscriptions = local.subscriptions
      /\ ~External => Payload.app = NoApp
      /\ External => Payload.selectors = NoSelector
      /\ ~External => Payload.selectors = TrimSelectors[local.selectors]
  BY DEF Payload
<1>3. ASSUME Trim[local.address] # Blank, NEW j \in DOMAIN (<<entry>> \o Others) \ {1}
      PROVE  Trim[(<<entry>> \o Others)[j].address] # Trim[local.address]
  BY <1>3, OtherRows DEF IsModalValid, Duplicate
<1>4. External => ResolvedDirection # "none"
  BY <1>1 DEF IsModalValid, ResolvedDirection, Fields
<1>5. Consumes(Payload) => local.consumes
  BY <1>1, <1>2 DEF Consumes, ResolvedDirection, Fields
<1>6. local.selectors \in Selectors \cup {NoSelector}
  BY <1>1 DEF IsModalValid, Fields
<1>7. ~External => TrimSelectors[Payload.selectors] = Payload.selectors
  BY <1>2, <1>6, AddressAssumption
<1> QED
  BY <1>1, <1>2, <1>3, <1>4, <1>5, <1>7 DEF DoneMaySend, IsModalValid, External, Fields

-----------------------------------------------------------------------------
(* ModalInv holds in every state of the modal. *)
THEOREM ModalInvariant == Spec => []ModalInv
BY ModalInit, StepsKeep, PTL DEF Spec

(* The variables of the modal have their types, and the watch of BrokerApps *)
(* runs for external addresses only.                                        *)
THEOREM TypeCorrect == Spec => []TypeOK
<1>1. ModalInv => TypeOK
  BY DEF ModalInv
<1> QED
  BY <1>1, ModalInvariant, PTL

(* An app is referenced in the namespace in which the user named it, whatever *)
(* else was typed, selected or abandoned in the two fields.                   *)
THEOREM AppStaysInItsNamespace == Spec => []AppNamedInItsNamespace
<1>1. ModalInv => AppNamedInItsNamespace
  BY DEF ModalInv
<1> QED
  BY <1>1, ModalInvariant, PTL

(* Whatever the user does in the modal, Done sends a row that the rest of the *)
(* form counts on; AddressManager knows nothing else of the modal.            *)
THEOREM SendsOnlyWhatIsExpected == Spec => SendsWhatTheFormExpects
<1>1. TypeOK /\ [Next]_vars => [HandleDone => DoneMaySend(<<entry>> \o Others, 1, Payload)]_vars
  BY DoneSends
<1> QED
  BY <1>1, TypeCorrect, PTL DEF Spec, SendsWhatTheFormExpects

=============================================================================

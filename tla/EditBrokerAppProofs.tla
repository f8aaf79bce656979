------------------------ MODULE EditBrokerAppProofs ------------------------
(***************************************************************************)
(* Theorems about the BrokerApp edit page, for every value of the          *)
(* constants.  AppInv is inductive: the shared steps keep EditInv by the   *)
(* lemmas of EditPageProofs, and deleting a quantity from the object the   *)
(* page holds changes its content, never the version it tells.             *)
(***************************************************************************)
EXTENDS EditBrokerApp, EditPageProofs

(* What the page loads is a truthful document. *)
LEMMA FromWatchTruthful ==
    ASSUME NEW d \in Doc, Truthful(d)
    PROVE  FromWatch(d) \in Doc /\ Truthful(FromWatch(d))
<1>1. d.content \in Contents
  BY DEF Doc
<1> QED
  BY <1>1, WithContentType, TruthfulContent, ConversionTypes DEF FromWatch

(* What is left when a quantity is deleted is a truthful document. *)
LEMMA WithoutQuantityTruthful ==
    ASSUME NEW d \in Doc, Truthful(d)
    PROVE  /\ WithContent(d, WithoutQuantity[d.content]) \in Doc
           /\ Truthful(WithContent(d, WithoutQuantity[d.content]))
<1>1. d.content \in Contents /\ WithoutQuantity[d.content] \in Contents
  BY WithoutQuantityAssumption DEF Doc
<1> QED
  BY <1>1, WithContentType, TruthfulContent

(* A page that was just opened satisfies the invariant. *)
LEMMA InitEstablishes == Init => AppInv
<1> SUFFICES ASSUME Init PROVE AppInv
  OBVIOUS
<1>1. PICK c \in CRContents : cluster = Stored(c, 1)
  BY DEF Init, K8sInit
<1>2. watched \in Doc /\ Truthful(watched)
  BY <1>1, K8sInitTyped DEF Init, K8sInit, K8sTypeOK, Truthful, Stored
<1>3. EditInv
  BY <1>2, FromWatchTruthful, SessionInitEstablishes DEF Init
<1> QED
  BY <1>2, <1>3 DEF AppInv, TypeOK, EditInv, Init

-----------------------------------------------------------------------------

(* What the API server, other writers and the watch do keeps it. *)
LEMMA ServerKeepsApp ==
    ASSUME AppInv, ServerStep, UNCHANGED sessionVars, PageFollowsWatch
    PROVE  AppInv'
<1>1. EditInv'
  BY ServerStepKeeps DEF AppInv
<1>2. cluster'.rv \in Nat /\ cluster.rv \in Nat /\ cluster.rv <= cluster'.rv
  BY MaxVersionAssumption
     DEF AppInv, EditInv, EditTypeOK, K8sTypeOK, Doc, Version, ServerStep, OtherWriter,
         Stored, WatchEvent, ServerAccepts, ServerRefuses, AnswerLost
<1>3. CASE brokerApp' = watched' /\ shared' = FALSE
  BY <1>1, <1>3
     DEF AppInv, TypeOK, EditInv, EditTypeOK, K8sTypeOK, DocumentsTruthful, Truthful
<1>4. CASE UNCHANGED pageVars
  <2>1. Truthful(brokerApp)'
    BY <1>2, <1>4, MaxVersionAssumption
       DEF AppInv, TypeOK, Truthful, Doc, Version, pageVars
  <2> QED
    BY <1>1, <1>4, <2>1 DEF AppInv, TypeOK, EditInv, pageVars
<1> QED
  BY <1>3, <1>4 DEF PageFollowsWatch

(* Steps that leave the cluster and the object the page holds alone. *)
LEMMA QuietKeepsApp ==
    ASSUME AppInv, EditInv', UNCHANGED <<cluster, brokerApp>>, shared' \in BOOLEAN
    PROVE  AppInv'
BY DEF AppInv, TypeOK, EditInv, Truthful

(* Deleting a quantity in place changes contents, never versions. *)
LEMMA ClearQuantityKeepsApp ==
    ASSUME AppInv, ClearQuantity, UNCHANGED k8sVars
    PROVE  AppInv'
<1>1. form \in Doc /\ Truthful(form) /\ brokerApp \in Doc /\ Truthful(brokerApp)
  BY DEF AppInv, TypeOK, EditInv, EditTypeOK, SessionTypeOK, DocumentsTruthful
<1>2. form' \in Doc /\ Truthful(form')
  BY <1>1, WithoutQuantityTruthful DEF ClearQuantity
<1>3. brokerApp' \in Doc /\ Truthful(brokerApp')
  BY <1>1, WithoutQuantityTruthful DEF ClearQuantity
<1>4. SessionTypeOK'
  BY <1>2 DEF AppInv, EditInv, EditTypeOK, SessionTypeOK, ClearQuantity
<1>5. DocumentsTruthful'
  BY <1>2, SessionStepFrame
     DEF AppInv, EditInv, DocumentsTruthful, Truthful, ClearQuantity, k8sVars
<1>6. FlagsFollowDocuments'
  BY DEF AppInv, EditInv, EditTypeOK, SessionTypeOK, FlagsFollowDocuments, ClearQuantity,
         Open, Pane, NoPane
<1>7. EditInv'
  BY <1>4, <1>5, <1>6, SessionStepFrame DEF AppInv, EditInv, EditTypeOK
<1> QED
  BY <1>3, <1>7 DEF AppInv, TypeOK, EditInv, Truthful, ClearQuantity, k8sVars

(* Opening the page on the held or on the delivered object keeps it. *)
LEMMA OpenPageKeepsApp ==
    ASSUME AppInv, OpenPage
    PROVE  AppInv'
<1>1. PICK d \in {watched, brokerApp} : brokerApp' = d /\ FreshSession(FromWatch(d))
  BY DEF OpenPage
<1>2. d \in Doc /\ Truthful(d)
  BY <1>1 DEF AppInv, TypeOK, EditInv, EditTypeOK, K8sTypeOK, DocumentsTruthful
<1>3. FromWatch(d) \in Doc /\ Truthful(FromWatch(d))
  BY <1>2, FromWatchTruthful
<1>4. EditInv'
  BY <1>1, <1>3, FreshSessionKeeps DEF AppInv, OpenPage
<1> QED
  BY <1>1, <1>2, <1>4 DEF AppInv, TypeOK, EditInv, Truthful, OpenPage, k8sVars

(* A reload from the held object keeps it. *)
LEMMA PerformReloadKeepsApp ==
    ASSUME AppInv, PerformReload, UNCHANGED k8sVars
    PROVE  AppInv'
<1>1. brokerApp \in Doc /\ Truthful(brokerApp)
  BY DEF AppInv, TypeOK
<1>2. EditInv'
  BY <1>1, SetModelKeeps
     DEF AppInv, PerformReload, EditInv, EditTypeOK, SessionTypeOK, k8sVars
<1> QED
  BY <1>2, QuietKeepsApp DEF PerformReload, k8sVars

(* Every step of the page keeps the invariant. *)
LEMMA NextKeeps == AppInv /\ [Next]_vars => AppInv'
<1> SUFFICES ASSUME AppInv, [Next]_vars PROVE AppInv'
  OBVIOUS
<1>1. CASE ServerStep /\ UNCHANGED sessionVars /\ PageFollowsWatch
  BY <1>1, ServerKeepsApp
<1>2. CASE SessionStep /\ UNCHANGED k8sVars /\ SharingAfterSessionStep
  <2>1. EditInv'
    BY <1>2, SessionStepKeeps DEF AppInv
  <2> QED
    BY <1>2, <2>1, QuietKeepsApp DEF AppInv, TypeOK, SharingAfterSessionStep, k8sVars
<1>3. CASE ClearQuantity /\ UNCHANGED k8sVars
  BY <1>3, ClearQuantityKeepsApp
<1>4. CASE HandleReloadAsks /\ UNCHANGED <<k8sVars, pageVars>>
  <2>1. EditInv'
    BY <1>4, AsksKeeps DEF AppInv
  <2> QED
    BY <1>4, <2>1, QuietKeepsApp DEF AppInv, TypeOK, k8sVars, pageVars
<1>5. CASE OpenPage
  BY <1>5, OpenPageKeepsApp
<1>6. CASE LeavePage /\ UpdateForgotten /\ UNCHANGED pageVars
  <2>1. EditInv'
    BY <1>6, LeavePageKeeps DEF AppInv
  <2> QED
    BY <1>6, <2>1, QuietKeepsApp DEF AppInv, TypeOK, UpdateForgotten, pageVars
<1>7. CASE PerformReload /\ UNCHANGED k8sVars
  BY <1>7, PerformReloadKeepsApp
<1>8. CASE (Save \/ SaveRejects) /\ UNCHANGED pageVars
  <2>1. EditInv'
    BY <1>8, SaveKeeps, SaveRejectsKeeps DEF AppInv
  <2>2. UNCHANGED cluster
    BY <1>8 DEF Save, SendUpdate, SaveRejects
  <2> QED
    BY <1>8, <2>1, <2>2, QuietKeepsApp DEF AppInv, TypeOK, pageVars
<1>9. CASE SaveResolves /\ UNCHANGED pageVars
  <2>1. EditInv'
    BY <1>9, LeaveKeeps DEF AppInv, SaveResolves, SaveSucceeds
  <2> QED
    BY <1>9, <2>1, QuietKeepsApp DEF AppInv, TypeOK, SaveResolves, UpdateForgotten, pageVars
<1>10. CASE UNCHANGED vars
  BY <1>10 DEF vars, sessionVars, AppInv, TypeOK, EditInv, EditTypeOK, K8sTypeOK,
               SessionTypeOK, DocumentsTruthful, FlagsFollowDocuments, Truthful
<1> QED
  BY <1>1, <1>2, <1>3, <1>4, <1>5, <1>6, <1>7, <1>8, <1>9, <1>10 DEF Next

(* The inductive invariant of the page (EditBrokerAppPage.tsx): types,     *)
(* truthful documents, flags that follow the documents, and a truthful     *)
(* held object.                                                            *)
THEOREM AppInvariant == Spec => []AppInv
<1>1. Init => AppInv
  BY InitEstablishes
<1>2. AppInv /\ [Next]_vars => AppInv'
  BY NextKeeps
<1> QED
  BY <1>1, <1>2, PTL DEF Spec, SafetySpec

(* The variables of the page keep their types. *)
THEOREM TypeCorrect == Spec => []TypeOK
<1>1. AppInv => TypeOK
  BY DEF AppInv
<1> QED
  BY <1>1, AppInvariant, PTL

(* Cancel and Reload skip their dialog only when form and editor still hold *)
(* what was loaded from the cluster (handleCancel, handleReload).           *)
THEOREM NothingUnsavedUnasked == Spec => []NothingUnsavedWhenNotAsked
<1>1. AppInv => NothingUnsavedWhenNotAsked
  BY EditInvImplies DEF AppInv
<1> QED
  BY <1>1, AppInvariant, PTL

(* Whatever view a document went through, and however often it was          *)
(* converted, its resourceVersion is that of the state it was derived from. *)
THEOREM DocumentsStayTruthful == Spec => []DocumentsTruthful
<1>1. AppInv => DocumentsTruthful
  BY EditInvImplies DEF AppInv
<1> QED
  BY <1>1, AppInvariant, PTL

(* Only the API server changes the cluster; every other step leaves it. *)
LEMMA ClusterChangesOnServer ==
    ASSUME [Next]_vars, cluster' # cluster
    PROVE  ServerStep
BY DEF Next, vars, OpenPage, UpdateForgotten, Save, SendUpdate, SaveResolves, SaveRejects,
       k8sVars

(* No update of the page overwrites a write it was not derived from: not    *)
(* those of others, and not its own whose answer was lost (onSubmit).       *)
THEOREM UpdatesLoseNothing == Spec => NoLostUpdate
<1>1. ASSUME AppInv, [Next]_vars
      PROVE  [update.phase = "sent" /\ update' # update /\ cluster' # cluster
                 => update.doc.base = cluster.rv]_k8sVars
  BY <1>1, ClusterChangesOnServer, ServerStepLosesNothing DEF AppInv
<1> QED
  BY <1>1, AppInvariant, PTL DEF Spec, SafetySpec, NoLostUpdate

(* A step of the page is a step of the abstract store, or invisible to it. *)
LEMMA NextRefines ==
    AppInv /\ [Next]_vars => Store!StoreNext \/ UNCHANGED Store!storeVars
<1> SUFFICES ASSUME AppInv, [Next]_vars
             PROVE  Store!StoreNext \/ UNCHANGED Store!storeVars
  OBVIOUS
<1>1. CASE ServerStep
  BY <1>1, ServerStepRefines DEF AppInv
<1>2. CASE Save
  BY <1>2, SaveRefines DEF AppInv, Store!StoreNext
<1>3. CASE UpdateForgotten \/ SaveRejects
  BY <1>3, UpdateEndsRefines DEF AppInv, UpdateForgotten, SaveRejects
<1>4. CASE UNCHANGED <<cluster, update>>
  BY <1>4, StoreStutters
<1> QED
  BY <1>1, <1>2, <1>3, <1>4 DEF Next, vars, OpenPage, SaveResolves, k8sVars

(* The page implements the abstract store. *)
THEOREM Refinement == Spec => ImplementsStore
<1>1. Init => Store!StoreInit
  BY StoreInitRefined DEF Init
<1>2. AppInv /\ [Next]_vars => [Store!StoreNext]_Store!storeVars
  BY NextRefines
<1> QED
  BY <1>1, <1>2, AppInvariant, PTL
     DEF Spec, SafetySpec, ImplementsStore, Store!StoreSpec

=============================================================================

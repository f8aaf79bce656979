---------------------- MODULE EditBrokerServiceProofs ----------------------
(***************************************************************************)
(* Theorems about the BrokerService edit page, for every set of contents,  *)
(* every way validation and conversion sort and map them, and every bound  *)
(* on versions.  ServiceInv is inductive: the shared steps keep EditInv by *)
(* the lemmas of EditPageProofs, and here is what each step does to the    *)
(* calls.                                                                  *)
(***************************************************************************)
EXTENDS EditBrokerService, EditPageProofs

(* A page that was just opened satisfies the invariant. *)
LEMMA InitEstablishes == Init => ServiceInv
<1> SUFFICES ASSUME Init PROVE ServiceInv
  OBVIOUS
<1>1. PICK c \in CRContents : cluster = Stored(c, 1)
  BY DEF Init, K8sInit
<1>2. watched = cluster /\ watched \in Doc /\ Truthful(watched) /\ loaded = watched
  BY <1>1, K8sInitTyped
     DEF Init, K8sInit, K8sTypeOK, Truthful, Stored, SessionInit
<1>3. EditInv
  BY <1>2, SessionInitEstablishes DEF Init
<1>4. TypeOK
  BY <1>3 DEF TypeOK, EditInv, Init, Get
<1>5. CallsInv
  BY <1>2, MaxVersionAssumption
     DEF CallsInv, FlagsMatchCalls, Init, K8sInit, SessionInit, NoGet, Doc, Version
<1> QED
  BY <1>3, <1>4, <1>5 DEF ServiceInv

-----------------------------------------------------------------------------
(* One lemma per step of the page. *)

(* What the API server, other writers and the watch do keeps it. *)
LEMMA ServerKeepsService ==
    ASSUME ServiceInv, ServerStep, UNCHANGED <<sessionVars, pageVars>>
    PROVE  ServiceInv'
<1>1. EditInv'
  BY ServerStepKeeps DEF ServiceInv
<1>2. TypeOK'
  BY <1>1 DEF ServiceInv, TypeOK, EditInv, pageVars
<1>3. cluster'.rv \in Nat /\ cluster.rv \in Nat /\ cluster.rv <= cluster'.rv
  BY MaxVersionAssumption
     DEF ServiceInv, EditInv, EditTypeOK, K8sTypeOK, Doc, Version, ServerStep,
         OtherWriter, Stored, WatchEvent, ServerAccepts, ServerRefuses, AnswerLost
<1>4. update' # NoCall <=> update # NoCall
  BY DEF ServiceInv, EditInv, EditTypeOK, K8sTypeOK, Call, NoCall, ServerStep,
         OtherWriter, WatchEvent, ServerAccepts, ServerRefuses, AnswerLost
<1>5. FlagsMatchCalls'
  BY <1>4 DEF ServiceInv, CallsInv, FlagsMatchCalls, sessionVars, pageVars
<1>6. loaded'.rv <= cluster'.rv
  BY <1>3, MaxVersionAssumption
     DEF ServiceInv, CallsInv, EditInv, EditTypeOK, SessionTypeOK, Doc, Version,
         sessionVars
<1>7. get'.phase = "answered" => Truthful(get.doc)' /\ loaded'.rv <= get'.doc.rv
  <2>1. get.phase = "answered" => get.doc \in Doc
    BY DEF ServiceInv, TypeOK, Get, NoGet
  <2> QED
    BY <1>3, <2>1, MaxVersionAssumption
       DEF ServiceInv, CallsInv, Truthful, Doc, Version, sessionVars, pageVars
<1>8. CallsInv'
  BY <1>5, <1>6, <1>7 DEF ServiceInv, CallsInv, sessionVars
<1> QED
  BY <1>1, <1>2, <1>8 DEF ServiceInv

(* Steps of the session, and asking before a reload. *)
LEMMA SessionKeepsService ==
    ASSUME ServiceInv, SessionStep \/ ReloadAsks, UNCHANGED <<k8sVars, pageVars>>
    PROVE  ServiceInv'
<1>1. EditInv'
  BY SessionStepKeeps, AsksKeeps DEF ServiceInv, ReloadAsks
<1>2. TypeOK'
  BY <1>1 DEF ServiceInv, TypeOK, EditInv, pageVars
<1>3. UNCHANGED <<mounted, loaded, isSubmitting>>
  BY DEF SessionStep, ReloadAsks, EditField, PaneEmits, TypeYaml, HandleYamlContentChange,
         SwitchToYaml, SwitchToForm, HandleKeepYaml, HandleResetToDefault,
         HandleCancelAsks, HandleReloadAsks, DismissDialog, OpenDialog,
         HandleYamlSaveRejects, DismissError
<1>4. modal' # "none" => mounted
  BY DEF ServiceInv, CallsInv, SessionStep, ReloadAsks, EditField, PaneEmits, TypeYaml,
         HandleYamlContentChange, SwitchToYaml, SwitchToForm, SwitchToFormConverts,
         SwitchToFormSkips, SwitchToFormFails, HandleKeepYaml, HandleResetToDefault,
         HandleCancelAsks, HandleReloadAsks, CancelButton, ReloadButton, Open,
         DismissDialog, OpenDialog, HandleYamlSaveRejects, DismissError
<1>5. CallsInv'
  BY <1>3, <1>4
     DEF ServiceInv, CallsInv, FlagsMatchCalls, Truthful, k8sVars, pageVars
<1> QED
  BY <1>1, <1>2, <1>5 DEF ServiceInv

(* Opening the page keeps it: no call of an earlier page is left. *)
LEMMA OpenPageKeepsService ==
    ASSUME ServiceInv, OpenPage
    PROVE  ServiceInv'
<1>1. watched \in Doc /\ Truthful(watched)
  BY DEF ServiceInv, EditInv, EditTypeOK, K8sTypeOK, DocumentsTruthful
<1>2. EditInv'
  BY <1>1, FreshSessionKeeps DEF ServiceInv, OpenPage
<1>3. TypeOK'
  BY <1>2 DEF ServiceInv, TypeOK, EditInv, OpenPage
<1>4. update = NoCall /\ get = NoGet /\ ~isReloading
  BY DEF ServiceInv, CallsInv, FlagsMatchCalls, OpenPage
<1>5. CallsInv'
  BY <1>1, <1>4 DEF CallsInv, FlagsMatchCalls, OpenPage, FreshSession, Truthful, NoGet,
                    k8sVars
<1> QED
  BY <1>2, <1>3, <1>5 DEF ServiceInv

(* The page is left, by its controls or by a save that succeeded. *)
LEMMA LeavingKeepsService ==
    ASSUME ServiceInv, Leave, CallsAbandoned
    PROVE  ServiceInv'
<1>1. EditInv'
  BY LeaveKeeps DEF ServiceInv, CallsAbandoned
<1>2. TypeOK'
  BY <1>1 DEF ServiceInv, TypeOK, EditInv, CallsAbandoned, Get
<1>3. CallsInv'
  BY DEF ServiceInv, CallsInv, FlagsMatchCalls, Leave, CallsAbandoned, UpdateForgotten,
         NoGet
<1> QED
  BY <1>1, <1>2, <1>3 DEF ServiceInv

(* Sending the k8sGet of a reload keeps it. *)
LEMMA PerformReloadKeepsService ==
    ASSUME ServiceInv, PerformReload, UNCHANGED k8sVars
    PROVE  ServiceInv'
<1>1. editorType = "form" /\ mounted /\ pane.phase # "ready"
  BY DEF PerformReload, ReloadAgreed, ReloadButton, Open, ServiceInv, EditInv, CallsInv,
         FlagsFollowDocuments
<1>2. SessionTypeOK'
  BY DEF ServiceInv, EditInv, EditTypeOK, SessionTypeOK, PerformReload, Modal
<1>3. DocumentsTruthful'
  BY <1>1, SessionStepFrame
     DEF ServiceInv, EditInv, DocumentsTruthful, Truthful, PerformReload, k8sVars
<1>4. FlagsFollowDocuments'
  BY <1>1 DEF ServiceInv, EditInv, FlagsFollowDocuments, PerformReload
<1>5. EditInv'
  BY <1>2, <1>3, <1>4, SessionStepFrame DEF ServiceInv, EditInv, EditTypeOK
<1>6. TypeOK'
  BY <1>5 DEF ServiceInv, TypeOK, EditInv, PerformReload, Get
<1>7. CallsInv'
  BY <1>1 DEF ServiceInv, CallsInv, FlagsMatchCalls, Truthful, PerformReload, NoGet,
              k8sVars
<1> QED
  BY <1>5, <1>6, <1>7 DEF ServiceInv

(* The answer of k8sGet, or its failure, keeps it. *)
LEMMA GetKeepsService ==
    ASSUME ServiceInv, GetServed \/ GetFails,
           UNCHANGED <<k8sVars, sessionVars, isReloading, reloadError>>
    PROVE  ServiceInv'
<1>1. EditInv'
  BY DEF ServiceInv, EditInv, EditTypeOK, K8sTypeOK, SessionTypeOK, DocumentsTruthful,
         FlagsFollowDocuments, Truthful, k8sVars, sessionVars
<1>2. get.phase = "sent" /\ get \in [phase : {"sent", "failed"}, asked : BOOLEAN]
  BY DEF ServiceInv, TypeOK, Get, NoGet, GetServed, GetFails
<1>3. cluster \in Doc /\ Truthful(cluster)
  BY DEF ServiceInv, EditInv, EditTypeOK, K8sTypeOK, DocumentsTruthful
<1>4. get' \in Get /\ get' # NoGet
      /\ (get'.phase = "answered" => get'.doc = cluster)
  BY <1>2, <1>3 DEF GetServed, GetFails, Get, NoGet
<1>5. TypeOK'
  BY <1>1, <1>4 DEF ServiceInv, TypeOK, EditInv
<1>6. get # NoGet
  BY <1>2 DEF NoGet
<1>7. CallsInv'
  BY <1>3, <1>4, <1>6
     DEF ServiceInv, CallsInv, FlagsMatchCalls, Truthful, k8sVars, sessionVars
<1> QED
  BY <1>1, <1>5, <1>7 DEF ServiceInv

(* Loading the answer into the form keeps it. *)
LEMMA ReloadSucceedsKeepsService ==
    ASSUME ServiceInv, ReloadSucceeds, UNCHANGED k8sVars
    PROVE  ServiceInv'
<1>1. get.doc \in Doc /\ Truthful(get.doc) /\ get # NoGet
  BY DEF ServiceInv, CallsInv, TypeOK, Get, NoGet, ReloadSucceeds
<1>2. EditInv'
  BY <1>1, SetModelKeeps
     DEF ServiceInv, EditInv, EditTypeOK, SessionTypeOK, ReloadSucceeds, k8sVars
<1>3. TypeOK'
  BY <1>2 DEF ServiceInv, TypeOK, EditInv, ReloadSucceeds, Get
<1>4. loaded'.rv = get.doc.rv
  BY <1>1, WithContentType, ConversionTypes
     DEF ReloadSucceeds, SetModelFromCluster, Doc
<1>5. CallsInv'
  BY <1>1, <1>4
     DEF ServiceInv, CallsInv, FlagsMatchCalls, Truthful, ReloadSucceeds, NoGet, k8sVars
<1> QED
  BY <1>2, <1>3, <1>5 DEF ServiceInv

(* A failed reload keeps it. *)
LEMMA ReloadFailsKeepsService ==
    ASSUME ServiceInv, ReloadFails, UNCHANGED k8sVars
    PROVE  ServiceInv'
<1>1. pane' = IF editorType = "yaml" THEN Loading(FALSE) ELSE NoPane
  BY DEF ReloadFails, PaneRemounts
<1>2. SessionTypeOK'
  BY <1>1 DEF ServiceInv, EditInv, EditTypeOK, SessionTypeOK, ReloadFails, Loading, Pane
<1>3. DocumentsTruthful'
  BY <1>1, SessionStepFrame
     DEF ServiceInv, EditInv, DocumentsTruthful, Truthful, ReloadFails, Loading, NoPane,
         k8sVars
<1>4. FlagsFollowDocuments'
  BY <1>1 DEF ServiceInv, EditInv, FlagsFollowDocuments, ReloadFails, Loading, NoPane
<1>5. EditInv'
  BY <1>2, <1>3, <1>4, SessionStepFrame DEF ServiceInv, EditInv, EditTypeOK
<1>6. TypeOK'
  BY <1>5 DEF ServiceInv, TypeOK, EditInv, ReloadFails, Get
<1>7. get # NoGet
  BY DEF ReloadFails, NoGet
<1>8. CallsInv'
  BY <1>7
     DEF ServiceInv, CallsInv, FlagsMatchCalls, Truthful, ReloadFails, NoGet, k8sVars
<1> QED
  BY <1>5, <1>6, <1>8 DEF ServiceInv

(* Sending the update of a save keeps it. *)
LEMMA SaveKeepsService ==
    ASSUME ServiceInv, Save, UNCHANGED pageVars
    PROVE  ServiceInv'
<1>1. EditInv'
  BY SaveKeeps DEF ServiceInv
<1>2. TypeOK'
  BY <1>1 DEF ServiceInv, TypeOK, EditInv, pageVars
<1>3. /\ SaveStarts
      /\ mounted
      /\ UNCHANGED cluster /\ update' # NoCall
  BY DEF Save, HandleFormSubmit, HandleYamlSave, Open, SendUpdate, NoCall
<1>4. CallsInv'
  BY <1>3 DEF ServiceInv, CallsInv, FlagsMatchCalls, Truthful, SaveStarts, pageVars
<1> QED
  BY <1>1, <1>2, <1>4 DEF ServiceInv

(* A rejected save keeps it. *)
LEMMA SaveRejectsKeepsService ==
    ASSUME ServiceInv, SaveRejects, UNCHANGED pageVars
    PROVE  ServiceInv'
<1>1. EditInv'
  BY SaveRejectsKeeps DEF ServiceInv
<1>2. TypeOK'
  BY <1>1 DEF ServiceInv, TypeOK, EditInv, pageVars
<1>3. CallsInv'
  BY DEF ServiceInv, CallsInv, FlagsMatchCalls, Truthful, SaveRejects, SaveFails, pageVars
<1> QED
  BY <1>1, <1>2, <1>3 DEF ServiceInv

-----------------------------------------------------------------------------

(* Every step of the page keeps the invariant. *)
LEMMA NextKeeps == ServiceInv /\ [Next]_vars => ServiceInv'
<1> SUFFICES ASSUME ServiceInv, [Next]_vars PROVE ServiceInv'
  OBVIOUS
<1>1. CASE ServerStep /\ UNCHANGED <<sessionVars, pageVars>>
  BY <1>1, ServerKeepsService
<1>2. CASE (SessionStep \/ ReloadAsks) /\ UNCHANGED <<k8sVars, pageVars>>
  BY <1>2, SessionKeepsService
<1>3. CASE OpenPage
  BY <1>3, OpenPageKeepsService
<1>4. CASE LeavePage /\ CallsAbandoned
  BY <1>4, LeavingKeepsService
     DEF LeavePage, HandleCancelLeaves, ConfirmCancel, PageCloses
<1>5. CASE PerformReload /\ UNCHANGED k8sVars
  BY <1>5, PerformReloadKeepsService
<1>6. CASE (GetServed \/ GetFails)
              /\ UNCHANGED <<k8sVars, sessionVars, isReloading, reloadError>>
  BY <1>6, GetKeepsService
<1>7. CASE (ReloadSucceeds \/ ReloadFails) /\ UNCHANGED k8sVars
  BY <1>7, ReloadSucceedsKeepsService, ReloadFailsKeepsService
<1>8. CASE Save /\ UNCHANGED pageVars
  BY <1>8, SaveKeepsService
<1>9. CASE SaveResolves
  BY <1>9, LeavingKeepsService DEF SaveResolves, SaveSucceeds
<1>10. CASE SaveRejects /\ UNCHANGED pageVars
  BY <1>10, SaveRejectsKeepsService
<1>11. CASE UNCHANGED vars
  BY <1>11 DEF vars, sessionVars, ServiceInv, TypeOK, EditInv, EditTypeOK, K8sTypeOK,
               SessionTypeOK, DocumentsTruthful, FlagsFollowDocuments, CallsInv,
               FlagsMatchCalls, Truthful
<1> QED
  BY <1>1, <1>2, <1>3, <1>4, <1>5, <1>6, <1>7, <1>8, <1>9, <1>10, <1>11 DEF Next

(* The inductive invariant of the page (EditBrokerServicePage.tsx): types, *)
(* truthful documents, flags that follow the documents, and the ties       *)
(* between the calls in flight and the page that made them.                *)
THEOREM ServiceInvariant == Spec => []ServiceInv
<1>1. Init => ServiceInv
  BY InitEstablishes
<1>2. ServiceInv /\ [Next]_vars => ServiceInv'
  BY NextKeeps
<1> QED
  BY <1>1, <1>2, PTL DEF Spec, SafetySpec

(* The variables of the page keep their types. *)
THEOREM TypeCorrect == Spec => []TypeOK
<1>1. ServiceInv => TypeOK
  BY DEF ServiceInv
<1> QED
  BY <1>1, ServiceInvariant, PTL

(* Cancel and Reload skip their dialog only when form and editor still hold *)
(* what was loaded from the cluster (handleCancel, handleReload).           *)
THEOREM NothingUnsavedUnasked == Spec => []NothingUnsavedWhenNotAsked
<1>1. ServiceInv => NothingUnsavedWhenNotAsked
  BY EditInvImplies DEF ServiceInv
<1> QED
  BY <1>1, ServiceInvariant, PTL

(* What a switch to the form converts is what the YAML editor shows. *)
THEOREM RefFollowsEditor == Spec => []RefMatchesEditor
<1>1. ServiceInv => RefMatchesEditor
  BY EditInvImplies DEF ServiceInv
<1> QED
  BY <1>1, ServiceInvariant, PTL

(* The flags that disable controls are those of the mounted page's calls. *)
THEOREM FlagsAreOfCalls == Spec => []FlagsMatchCalls
<1>1. ServiceInv => FlagsMatchCalls
  BY DEF ServiceInv, CallsInv
<1> QED
  BY <1>1, ServiceInvariant, PTL

-----------------------------------------------------------------------------
(* Action properties *)

(* Only the API server changes the cluster; every other step leaves it. *)
LEMMA ClusterChangesOnServer ==
    ASSUME [Next]_vars, cluster' # cluster
    PROVE  ServerStep
BY DEF Next, vars, OpenPage, CallsAbandoned, UpdateForgotten, Save, SendUpdate, SaveResolves,
       SaveRejects, k8sVars

(* No update of the page overwrites a write it was not derived from: not    *)
(* those of others, and not its own whose answer was lost (onSubmit).       *)
THEOREM UpdatesLoseNothing == Spec => NoLostUpdate
<1>1. ASSUME ServiceInv, [Next]_vars
      PROVE  [update.phase = "sent" /\ update' # update /\ cluster' # cluster
                 => update.doc.base = cluster.rv]_k8sVars
  BY <1>1, ClusterChangesOnServer, ServerStepLosesNothing DEF ServiceInv
<1> QED
  BY <1>1, ServiceInvariant, PTL DEF Spec, SafetySpec, NoLostUpdate

(* A reload never takes an open form back to an older resourceVersion,      *)
(* however late its answer is (handleReload).                               *)
THEOREM ReloadsMoveForward == Spec => LoadsMoveForward
<1>1. ASSUME ServiceInv, [Next]_vars
      PROVE  [mounted /\ mounted' => loaded'.rv >= loaded.rv]_vars
  <2> SUFFICES ASSUME Next, mounted, mounted' PROVE loaded'.rv >= loaded.rv
    BY <1>1
  <2>1. loaded.rv \in Nat
    BY <1>1, MaxVersionAssumption
       DEF ServiceInv, EditInv, EditTypeOK, SessionTypeOK, Doc, Version
  <2>2. CASE ReloadSucceeds
    <3>1. get.doc \in Doc /\ loaded.rv <= get.doc.rv
      BY <1>1, <2>2 DEF ServiceInv, CallsInv, TypeOK, Get, NoGet, ReloadSucceeds
    <3>2. loaded'.rv = get.doc.rv
      BY <2>2, <3>1, WithContentType, ConversionTypes
         DEF ReloadSucceeds, SetModelFromCluster, Doc
    <3> QED
      BY <2>1, <3>1, <3>2, MaxVersionAssumption DEF Doc, Version
  <2>3. CASE ~ReloadSucceeds
    <3>1. UNCHANGED loaded
      BY <2>3 DEF Next, sessionVars, SessionStep, ReloadAsks, EditField, PaneEmits,
           TypeYaml, HandleYamlContentChange, SwitchToYaml, SwitchToForm, HandleKeepYaml,
           HandleResetToDefault, HandleCancelAsks, HandleReloadAsks, DismissDialog,
           OpenDialog, HandleYamlSaveRejects, DismissError, OpenPage, LeavePage,
           HandleCancelLeaves, ConfirmCancel, PageCloses, Leave, PerformReload,
           ReloadFails, Save, HandleFormSubmit, HandleYamlSave, SaveStarts,
           SaveResolves, SaveSucceeds, SaveRejects, SaveFails
    <3> QED
      BY <2>1, <3>1
  <2> QED
    BY <2>2, <2>3
<1> QED
  BY <1>1, ServiceInvariant, PTL DEF Spec, SafetySpec, LoadsMoveForward

-----------------------------------------------------------------------------
(* Refinement *)

(* A step of the page is a step of the abstract store, or invisible to it. *)
LEMMA NextRefines ==
    ServiceInv /\ [Next]_vars => Store!StoreNext \/ UNCHANGED Store!storeVars
<1> SUFFICES ASSUME ServiceInv, [Next]_vars
             PROVE  Store!StoreNext \/ UNCHANGED Store!storeVars
  OBVIOUS
<1>1. CASE ServerStep
  BY <1>1, ServerStepRefines DEF ServiceInv
<1>2. CASE Save
  BY <1>2, SaveRefines DEF ServiceInv, Store!StoreNext
<1>3. CASE UpdateForgotten \/ SaveRejects
  BY <1>3, UpdateEndsRefines DEF ServiceInv, UpdateForgotten, SaveRejects
<1>4. CASE UNCHANGED <<cluster, update>>
  BY <1>4, StoreStutters
<1> QED
  BY <1>1, <1>2, <1>3, <1>4
     DEF Next, vars, OpenPage, CallsAbandoned, SaveResolves, k8sVars

(* The page implements the abstract store: with the version a document was  *)
(* derived from in place of the resourceVersion it carries, every step of   *)
(* page, server and watch is a step of the store or invisible to it.        *)
THEOREM Refinement == Spec => ImplementsStore
<1>1. Init => Store!StoreInit
  BY StoreInitRefined DEF Init
<1>2. ServiceInv /\ [Next]_vars => [Store!StoreNext]_Store!storeVars
  BY NextRefines
<1> QED
  BY <1>1, <1>2, ServiceInvariant, PTL
     DEF Spec, SafetySpec, ImplementsStore, Store!StoreSpec

=============================================================================

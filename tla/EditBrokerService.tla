------------------------- MODULE EditBrokerService -------------------------
(***************************************************************************)
(* The page that edits a BrokerService (EditBrokerServicePage.tsx): an     *)
(* editing session whose Save is k8sUpdate and whose Reload is an          *)
(* asynchronous k8sGet.  The session, the API server and the watch         *)
(* interleave freely: the user goes on typing, switching views and saving  *)
(* while calls are in flight.                                              *)
(***************************************************************************)
EXTENDS EditPage

VARIABLES isReloading,
          reloadError,   \* the alert above the editor is shown
          get            \* the k8sGet call of handleReload

pageVars == <<isReloading, reloadError, get>>

vars == <<cluster, watched, update, sessionVars, isReloading, reloadError, get>>

NoGet == [phase |-> "idle"]

(* asked is history: the user confirmed in the dialog that unsaved changes  *)
(* may be lost.                                                             *)
Get == {NoGet}
       \cup [phase : {"sent", "failed"}, asked : BOOLEAN]
       \cup [phase : {"answered"}, doc : Doc, asked : BOOLEAN]

(* The page's own flags and its k8sGet have their types. *)
TypeOK ==
    /\ EditTypeOK
    /\ isReloading \in BOOLEAN
    /\ reloadError \in BOOLEAN
    /\ get \in Get

(* createBrokerServiceStateFromCr keeps the watched CR as it is. *)
Init ==
    /\ K8sInit
    /\ SessionInit(watched)
    /\ isReloading = FALSE
    /\ reloadError = FALSE
    /\ get = NoGet

-----------------------------------------------------------------------------

(* Variant: the answer of an abandoned k8sGet still reaches the page. *)
VariantGetOutlivesPage ==
    /\ UpdateForgotten
    /\ isReloading' = FALSE
    /\ UNCHANGED <<reloadError, get>>

(* Calls in flight lose their caller with the page: a late answer of k8sGet *)
(* sets state of an unmounted component.                                    *)
CallsAbandoned ==
    /\ UpdateForgotten
    /\ get' = NoGet
    /\ isReloading' = FALSE
    /\ UNCHANGED reloadError

(* The page is opened on the watched CR. *)
OpenPage ==
    /\ ~mounted
    /\ FreshSession(watched)
    /\ reloadError' = FALSE
    /\ UNCHANGED <<k8sVars, isReloading, get>>

(* performReload and handleReload up to the await. *)
PerformReload ==
    /\ ReloadAgreed
    /\ ~isReloading
    /\ modal' = "none"
    /\ submitError' = FALSE
    /\ hasUnsavedYamlChanges' = FALSE
    /\ isReloading' = TRUE
    /\ reloadError' = FALSE
    /\ get' = [phase |-> "sent", asked |-> modal = "reload"]
    /\ UNCHANGED <<mounted, form, hasChanges, loaded, editorType, pane, yamlContentRef,
                   isSubmitting>>

GetServed ==
    /\ get.phase = "sent"
    /\ get' = [phase |-> "answered", doc |-> cluster, asked |-> get.asked]

GetFails ==
    /\ get.phase = "sent"
    /\ get' = [get EXCEPT !.phase = "failed"]

(* k8sGet resolved: SET_MODEL with resetChanges, then the finally blocks. *)
ReloadSucceeds ==
    /\ get.phase = "answered"
    /\ SetModelFromCluster(get.doc)
    /\ PaneRemounts
    /\ isReloading' = FALSE
    /\ get' = NoGet
    /\ UNCHANGED <<mounted, editorType, yamlContentRef, hasUnsavedYamlChanges, modal,
                   isSubmitting, submitError, reloadError>>

(* Variant: isReloading is reset on success only. *)
VariantReloadFailureKeepsSpinning ==
    /\ get.phase = "failed"
    /\ PaneRemounts
    /\ reloadError' = TRUE
    /\ get' = NoGet
    /\ UNCHANGED <<mounted, form, hasChanges, loaded, editorType, yamlContentRef,
                   hasUnsavedYamlChanges, modal, isSubmitting, submitError, isReloading>>

(* k8sGet rejected: the error is shown and the form is kept. *)
ReloadFails ==
    /\ get.phase = "failed"
    /\ PaneRemounts
    /\ reloadError' = TRUE
    /\ isReloading' = FALSE
    /\ get' = NoGet
    /\ UNCHANGED <<mounted, form, hasChanges, loaded, editorType, yamlContentRef,
                   hasUnsavedYamlChanges, modal, isSubmitting, submitError>>

SaveResolves ==
    /\ update.phase = "accepted"
    /\ SaveSucceeds
    /\ CallsAbandoned

(* Reload is disabled while one runs. *)
ReloadAsks == ~isReloading /\ HandleReloadAsks

Next ==
    \/ ServerStep /\ UNCHANGED <<sessionVars, pageVars>>
    \/ SessionStep /\ UNCHANGED <<k8sVars, pageVars>>
    \/ ReloadAsks /\ UNCHANGED <<k8sVars, pageVars>>
    \/ OpenPage
    \/ LeavePage /\ CallsAbandoned
    \/ PerformReload /\ UNCHANGED k8sVars
    \/ (GetServed \/ GetFails)
          /\ UNCHANGED <<k8sVars, sessionVars, isReloading, reloadError>>
    \/ (ReloadSucceeds \/ ReloadFails) /\ UNCHANGED k8sVars
    \/ Save /\ UNCHANGED pageVars
    \/ SaveResolves
    \/ SaveRejects /\ UNCHANGED pageVars

(* Every call ends: the browser resolves or rejects the promise of a        *)
(* request, and JavaScript then runs its continuation.                      *)
Fairness ==
    /\ WF_vars((ServerAccepts \/ ServerRefuses) /\ UNCHANGED <<sessionVars, pageVars>>)
    /\ WF_vars((GetServed \/ GetFails)
                  /\ UNCHANGED <<k8sVars, sessionVars, isReloading, reloadError>>)
    /\ WF_vars(SaveResolves)
    /\ WF_vars(SaveRejects /\ UNCHANGED pageVars)
    /\ WF_vars((ReloadSucceeds \/ ReloadFails) /\ UNCHANGED k8sVars)

SafetySpec == Init /\ [][Next]_vars

Spec == SafetySpec /\ Fairness

-----------------------------------------------------------------------------

(* The flags that disable the controls stand for calls in flight of the     *)
(* page that is mounted: a save or reload of a page that was closed is      *)
(* never taken for one of the page opened after it.                         *)
FlagsMatchCalls ==
    /\ isSubmitting <=> update # NoCall
    /\ isReloading <=> get # NoGet
    /\ isSubmitting \/ isReloading => mounted

(* Loading from the cluster never takes an open form back to an older       *)
(* version than it was loaded from before.                                  *)
LoadsMoveForward ==
    [][mounted /\ mounted' => loaded'.rv >= loaded.rv]_vars

(* Save and Reload always come back: the controls they disable are enabled  *)
(* again (the finally blocks), whatever the answers are.                    *)
ControlsComeBack ==
    /\ isSubmitting ~> ~isSubmitting
    /\ isReloading ~> ~isReloading

(* A reload that began without the dialog, because nothing was unsaved,     *)
(* discards nothing when its answer arrives.                                *)
ReloadAsksBeforeDiscarding ==
    [][get.phase = "answered" /\ ~get.asked /\ mounted /\ mounted' /\ get' = NoGet
          => ~HasAnyUnsavedChanges]_vars

(* Reset to Default discards the rejected text: until the remounted editor  *)
(* has emitted its own text, no switch converts or rejects the old one.     *)
ResetDiscardsText ==
    [][SwitchToForm /\ pane.phase = "loading" /\ pane.afterReset
          => yamlContentRef = NoYaml]_vars

(* The inductive invariant: the shared one, and what ties the calls to the  *)
(* session.  Only a mounted page has a dialog or a call; the document a     *)
(* k8sGet answered with is the cluster's, at a version not older than the   *)
(* one the session was loaded from.                                         *)
CallsInv ==
    /\ FlagsMatchCalls
    /\ modal # "none" => mounted
    /\ loaded.rv <= cluster.rv
    /\ get.phase = "answered" => Truthful(get.doc) /\ loaded.rv <= get.doc.rv

ServiceInv == TypeOK /\ EditInv /\ CallsInv

=============================================================================

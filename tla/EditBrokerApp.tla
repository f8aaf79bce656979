--------------------------- MODULE EditBrokerApp ---------------------------
(***************************************************************************)
(* The page that edits a BrokerApp (EditBrokerAppPage.tsx): an editing     *)
(* session whose Save is k8sUpdate and whose Reload copies, at once, the   *)
(* CR that the watch delivered last.                                       *)
(*                                                                         *)
(* That CR is a JavaScript object the page holds until the watch delivers  *)
(* another one.  SET_MODEL copies it only at the top: the form's           *)
(* spec.resources are the held object's own, and clearing a quantity       *)
(* deletes it from them, hence from the object that Reload copies.         *)
(***************************************************************************)
EXTENDS EditPage

CONSTANT WithoutQuantity    \* a content once a CPU or memory quantity is cleared

ASSUME WithoutQuantityAssumption == WithoutQuantity \in [Contents -> Contents]

VARIABLES brokerApp,    \* the object the page holds as the watched CR
          shared        \* the form's spec.resources are still that object's

pageVars == <<brokerApp, shared>>

vars == <<cluster, watched, update, sessionVars, brokerApp, shared>>

(* The object the page holds, and whether the form shares it, have their     *)
(* types.                                                                   *)
TypeOK ==
    /\ EditTypeOK
    /\ brokerApp \in Doc
    /\ shared \in BOOLEAN

(* The reducer starts with SET_MODEL of the watched CR. *)
FromWatch(d) == WithContent(d, FromCluster[d.content])

Init ==
    /\ K8sInit
    /\ SessionInit(FromWatch(watched))
    /\ brokerApp = watched
    /\ shared = TRUE

-----------------------------------------------------------------------------

(* A delivery of the watch is a new object; the form keeps the old one. *)
PageFollowsWatch ==
    IF watched' = watched THEN UNCHANGED pageVars
                          ELSE brokerApp' = watched' /\ shared' = FALSE

(* SET_MODEL with yaml takes its resources from the parsed text. *)
Converts == editorType = "yaml" /\ editorType' = "form" /\ yamlContentRef # NoYaml

(* Setting a quantity copies the objects on its path, another edit does not. *)
SharingAfterSessionStep ==
    /\ \/ shared' = (shared /\ ~Converts)
       \/ form' # form /\ shared' = FALSE
    /\ UNCHANGED brokerApp

(* SET_CPU_REQUEST and its siblings with an empty value: delete, in place. *)
ClearQuantity ==
    /\ Open("form")
    /\ form' = WithContent(form, WithoutQuantity[form.content])
    /\ form' # form
    /\ hasChanges' = TRUE
    /\ brokerApp' = IF shared
                    THEN WithContent(brokerApp, WithoutQuantity[brokerApp.content])
                    ELSE brokerApp
    /\ UNCHANGED <<mounted, loaded, editorType, pane, yamlContentRef,
                   hasUnsavedYamlChanges, modal, isSubmitting, submitError, shared>>

(* The page is opened on the watched CR: on a new object, or on the one it  *)
(* still holds when only the form had been taken away.                      *)
OpenPage ==
    /\ ~mounted
    /\ brokerApp' \in {watched, brokerApp}
    /\ FreshSession(FromWatch(brokerApp'))
    /\ shared' = TRUE
    /\ UNCHANGED k8sVars

(* performReload with the synchronous handleReload of this page. *)
PerformReload ==
    /\ ReloadAgreed
    /\ modal' = "none"
    /\ submitError' = FALSE
    /\ hasUnsavedYamlChanges' = FALSE
    /\ SetModelFromCluster(brokerApp)
    /\ PaneRemounts
    /\ shared' = TRUE
    /\ UNCHANGED <<mounted, editorType, yamlContentRef, isSubmitting, brokerApp>>

SaveResolves ==
    /\ update.phase = "accepted"
    /\ SaveSucceeds
    /\ UpdateForgotten

Next ==
    \/ ServerStep /\ UNCHANGED sessionVars /\ PageFollowsWatch
    \/ SessionStep /\ UNCHANGED k8sVars /\ SharingAfterSessionStep
    \/ ClearQuantity /\ UNCHANGED k8sVars
    \/ HandleReloadAsks /\ UNCHANGED <<k8sVars, pageVars>>
    \/ OpenPage
    \/ LeavePage /\ UpdateForgotten /\ UNCHANGED pageVars
    \/ PerformReload /\ UNCHANGED k8sVars
    \/ Save /\ UNCHANGED pageVars
    \/ SaveResolves /\ UNCHANGED pageVars
    \/ SaveRejects /\ UNCHANGED pageVars

(* Every call ends, and its continuation runs. *)
Fairness ==
    /\ WF_vars((ServerAccepts \/ ServerRefuses) /\ UNCHANGED <<sessionVars, pageVars>>)
    /\ WF_vars(SaveResolves /\ UNCHANGED pageVars)
    /\ WF_vars(SaveRejects /\ UNCHANGED pageVars)

SafetySpec == Init /\ [][Next]_vars

Spec == SafetySpec /\ Fairness

-----------------------------------------------------------------------------

(* Save always comes back: the controls it disables are enabled again.      *)
ControlsComeBack == isSubmitting ~> ~isSubmitting

(* The promise of the reload dialog: the form is reset to the state of the  *)
(* resource on the cluster, whenever the watch is up to date.               *)
ReloadShowsCluster ==
    [][PerformReload /\ brokerApp.rv = cluster.rv
          => form'.content = FromCluster[cluster.content]]_vars

(* The inductive invariant: the shared one, and the object the page holds   *)
(* is truthful about its version even when its resources were changed.      *)
AppInv ==
    /\ EditInv
    /\ TypeOK
    /\ Truthful(brokerApp)

=============================================================================

------------------------- MODULE ResourceFormEditor -------------------------
(***************************************************************************)
(* The editing session of shared-components/ResourceFormEditor.tsx with    *)
(* the form reducer of its page: a form view and a YAML view of one CR,    *)
(* the toggle between them, Save, Cancel and Reload with their             *)
(* confirmation dialogs, and the flags that decide whether they are shown. *)
(*                                                                         *)
(* An action here is a handler of the component and changes the session    *)
(* only.  The edit pages conjoin what their callbacks do (onSubmit,        *)
(* onReload) to it.  Handlers run one at a time; between two handlers the  *)
(* component has rendered, so a disabled control or one behind an open     *)
(* dialog is a guard.                                                      *)
(***************************************************************************)
EXTENDS EditedDocuments

VARIABLES
    mounted,                 \* the page shows the editor
    form,                    \* the reducer's cr, and the rows it does not show
    hasChanges,              \* the reducer's flag
    loaded,                  \* history: the form as it was last set from the cluster
    editorType,              \* which view is shown
    pane,                    \* the mounted YAML editor, if any
    yamlContentRef,          \* the ref that survives the YAML editor
    hasUnsavedYamlChanges,
    modal,                   \* the dialog that is open
    isSubmitting,
    submitError              \* an error alert is shown

sessionVars == <<mounted, form, hasChanges, loaded, editorType, pane, yamlContentRef,
                 hasUnsavedYamlChanges, modal, isSubmitting, submitError>>

NoPane == [phase |-> "none"]

(* A remounted editor has emitted nothing yet.  afterReset is history: it   *)
(* was Reset to Default that remounted it.                                  *)
Loading(afterReset) == [phase |-> "loading", afterReset |-> afterReset]

Pane == {NoPane}
        \cup [phase : {"loading"}, afterReset : BOOLEAN]
        \cup [phase : {"ready"}, baseline : Doc, text : Doc \cup {NoYaml}]

Modal == {"none", "convertError", "cancel", "reload"}

SessionTypeOK ==
    /\ mounted \in BOOLEAN
    /\ form \in Doc
    /\ hasChanges \in BOOLEAN
    /\ loaded \in Doc
    /\ editorType \in {"form", "yaml"}
    /\ pane \in Pane
    /\ yamlContentRef \in Doc \cup {NoYaml}
    /\ hasUnsavedYamlChanges \in BOOLEAN
    /\ modal \in Modal
    /\ isSubmitting \in BOOLEAN
    /\ submitError \in BOOLEAN

(* The state of a component that was just mounted on document d. *)
FreshSession(d) ==
    /\ mounted' = TRUE
    /\ form' = d
    /\ hasChanges' = FALSE
    /\ loaded' = d
    /\ editorType' = "form"
    /\ pane' = NoPane
    /\ yamlContentRef' = NoYaml
    /\ hasUnsavedYamlChanges' = FALSE
    /\ modal' = "none"
    /\ isSubmitting' = FALSE
    /\ submitError' = FALSE

SessionInit(d) ==
    /\ mounted = TRUE
    /\ form = d
    /\ hasChanges = FALSE
    /\ loaded = d
    /\ editorType = "form"
    /\ pane = NoPane
    /\ yamlContentRef = NoYaml
    /\ hasUnsavedYamlChanges = FALSE
    /\ modal = "none"
    /\ isSubmitting = FALSE
    /\ submitError = FALSE

Open(view) == mounted /\ editorType = view /\ modal = "none"

HasAnyUnsavedChanges == hasChanges \/ hasUnsavedYamlChanges

-----------------------------------------------------------------------------
(* The form view.  Its fields stay enabled while a save or a reload runs.   *)

EditField(c) ==
    /\ Open("form")
    /\ form' = WithContent(form, c)
    /\ hasChanges' = TRUE
    /\ UNCHANGED <<mounted, loaded, editorType, pane, yamlContentRef,
                   hasUnsavedYamlChanges, modal, isSubmitting, submitError>>

-----------------------------------------------------------------------------
(* The YAML view: handleYamlContentChange through the change tracker.       *)

(* The mounted editor has loaded and emits its first text: the baseline. *)
PaneEmits ==
    /\ mounted
    /\ pane.phase = "loading"
    /\ LET text == WithContent(form, ToYaml[form.content])
       IN  /\ pane' = [phase |-> "ready", baseline |-> text, text |-> text]
           /\ yamlContentRef' = text
    /\ hasUnsavedYamlChanges' = FALSE
    /\ submitError' = FALSE
    /\ UNCHANGED <<mounted, form, hasChanges, loaded, editorType, modal, isSubmitting>>

(* Variant: the ref is written only while the text differs from the baseline. *)
VariantRefOnlyWhenChanged(text) ==
    /\ Open("yaml")
    /\ pane.phase = "ready"
    /\ pane' = [pane EXCEPT !.text = text]
    /\ yamlContentRef' = IF text # pane.baseline THEN text ELSE yamlContentRef
    /\ hasUnsavedYamlChanges' = (text # pane.baseline)
    /\ submitError' = FALSE
    /\ UNCHANGED <<mounted, form, hasChanges, loaded, editorType, modal, isSubmitting>>

(* Variant: the text is compared with the previous one, not with the baseline. *)
VariantComparesWithPrevious(text) ==
    /\ Open("yaml")
    /\ pane.phase = "ready"
    /\ pane' = [pane EXCEPT !.text = text]
    /\ yamlContentRef' = text
    /\ hasUnsavedYamlChanges' = (text # pane.text)
    /\ submitError' = FALSE
    /\ UNCHANGED <<mounted, form, hasChanges, loaded, editorType, modal, isSubmitting>>

(* The user changes the text, or empties it. *)
HandleYamlContentChange(text) ==
    /\ Open("yaml")
    /\ pane.phase = "ready"
    /\ pane' = [pane EXCEPT !.text = text]
    /\ yamlContentRef' = text
    /\ hasUnsavedYamlChanges' = (text # pane.baseline)
    /\ submitError' = FALSE
    /\ UNCHANGED <<mounted, form, hasChanges, loaded, editorType, modal, isSubmitting>>

TypeYaml ==
    \/ \E c \in CRContents :
          /\ pane.phase = "ready"
          /\ HandleYamlContentChange(WithContent(pane.baseline, c))
    \/ HandleYamlContentChange(NoYaml)

-----------------------------------------------------------------------------
(* handleModeSwitch *)

SwitchToYaml ==
    /\ Open("form")
    /\ ~isSubmitting
    /\ submitError' = FALSE
    /\ hasUnsavedYamlChanges' = FALSE
    /\ pane' = Loading(FALSE)
    /\ editorType' = "yaml"
    /\ UNCHANGED <<mounted, form, hasChanges, loaded, yamlContentRef, modal,
                   isSubmitting>>

(* Variant: SET_MODEL with yaml resets hasChanges as a reload does. *)
VariantConversionIsClean ==
    /\ yamlContentRef # NoYaml
    /\ yamlContentRef.content \in Convertible
    /\ form' = WithContent(yamlContentRef,
                           FromYaml[<<form.content, yamlContentRef.content>>])
    /\ hasChanges' = FALSE
    /\ editorType' = "form"
    /\ pane' = NoPane
    /\ UNCHANGED modal

(* onSwitchToForm accepts the ref's text: SET_MODEL with yaml. *)
SwitchToFormConverts ==
    /\ yamlContentRef # NoYaml
    /\ yamlContentRef.content \in Convertible
    /\ form' = WithContent(yamlContentRef,
                           FromYaml[<<form.content, yamlContentRef.content>>])
    /\ hasChanges' = TRUE
    /\ editorType' = "form"
    /\ pane' = NoPane
    /\ UNCHANGED modal

(* Variant: the empty text is converted like any other. *)
VariantBlankConverted ==
    /\ yamlContentRef = NoYaml
    /\ form' = yamlContentRef
    /\ hasChanges' = TRUE
    /\ editorType' = "form"
    /\ pane' = NoPane
    /\ UNCHANGED modal

(* An empty ref is not converted: the form keeps what it had. *)
SwitchToFormSkips ==
    /\ yamlContentRef = NoYaml
    /\ editorType' = "form"
    /\ pane' = NoPane
    /\ UNCHANGED <<form, hasChanges, modal>>

(* onSwitchToForm reports an error: the dialog opens and the view stays. *)
SwitchToFormFails ==
    /\ yamlContentRef # NoYaml
    /\ yamlContentRef.content \notin Convertible
    /\ modal' = "convertError"
    /\ UNCHANGED <<form, hasChanges, editorType, pane>>

SwitchToForm ==
    /\ Open("yaml")
    /\ ~isSubmitting
    /\ submitError' = FALSE
    /\ SwitchToFormConverts \/ SwitchToFormSkips \/ SwitchToFormFails
    /\ UNCHANGED <<mounted, loaded, yamlContentRef, hasUnsavedYamlChanges, isSubmitting>>

HandleKeepYaml ==
    /\ modal = "convertError"
    /\ modal' = "none"
    /\ UNCHANGED <<mounted, form, hasChanges, loaded, editorType, pane, yamlContentRef,
                   hasUnsavedYamlChanges, isSubmitting, submitError>>

(* "Reset to Default" remounts the YAML editor; the ref keeps its text. *)
HandleResetToDefault ==
    /\ modal = "convertError"
    /\ modal' = "none"
    /\ hasUnsavedYamlChanges' = FALSE
    /\ pane' = Loading(TRUE)
    /\ UNCHANGED <<mounted, form, hasChanges, loaded, editorType, yamlContentRef,
                   isSubmitting, submitError>>

-----------------------------------------------------------------------------
(* Leaving the page.  The component's state is gone with it. *)

Leave ==
    /\ mounted' = FALSE
    /\ pane' = NoPane
    /\ modal' = "none"
    /\ isSubmitting' = FALSE
    /\ UNCHANGED <<form, hasChanges, loaded, editorType, yamlContentRef,
                   hasUnsavedYamlChanges, submitError>>

OpenDialog(m) ==
    /\ modal' = m
    /\ UNCHANGED <<mounted, form, hasChanges, loaded, editorType, pane, yamlContentRef,
                   hasUnsavedYamlChanges, isSubmitting, submitError>>

(* handleCancel: asks when there are unsaved changes, else onCancel navigates. *)
CancelButton == Open("form") /\ ~isSubmitting

HandleCancelAsks == CancelButton /\ HasAnyUnsavedChanges /\ OpenDialog("cancel")

HandleCancelLeaves == CancelButton /\ ~HasAnyUnsavedChanges /\ Leave

ConfirmCancel == modal = "cancel" /\ Leave

DismissDialog == modal \in {"cancel", "reload"} /\ OpenDialog("none")

(* The page takes the editor away: the access review or the watch changed   *)
(* its answer, or the user navigated elsewhere in the console.              *)
PageCloses == mounted /\ Leave

-----------------------------------------------------------------------------
(* Reload: handleReload asks, or performReload starts at once. *)

ReloadButton == Open("form") /\ ~isSubmitting

HandleReloadAsks == ReloadButton /\ HasAnyUnsavedChanges /\ OpenDialog("reload")

(* handleReload without unsaved changes, or "Reload" in the dialog. *)
ReloadAgreed == (ReloadButton /\ ~HasAnyUnsavedChanges) \/ modal = "reload"

(* The end of performReload: yamlKey changes, so a mounted YAML editor      *)
(* starts anew; nothing to remount in the form view.                        *)
PaneRemounts == pane' = IF editorType = "yaml" THEN Loading(FALSE) ELSE NoPane

(* Variant: a reload refreshes the metadata and keeps the edited content. *)
VariantReloadMetadataOnly(d) ==
    /\ form' = [form EXCEPT !.rv = d.rv]
    /\ loaded' = form'
    /\ hasChanges' = FALSE

(* SET_MODEL with resetChanges. *)
SetModelFromCluster(d) ==
    /\ form' = WithContent(d, FromCluster[d.content])
    /\ loaded' = form'
    /\ hasChanges' = FALSE

-----------------------------------------------------------------------------
(* Save: handleFormSubmit and handleYamlSave. *)

SaveStarts ==
    /\ submitError' = FALSE
    /\ isSubmitting' = TRUE
    /\ UNCHANGED <<mounted, form, hasChanges, loaded, editorType, pane, yamlContentRef,
                   hasUnsavedYamlChanges, modal>>

HandleFormSubmit ==
    /\ Open("form")
    /\ ~isSubmitting
    /\ form.content \in Saveable
    /\ SaveStarts

(* What onYamlSave lets through: a CR the validators accept. *)
AcceptedText(text) == text # NoYaml /\ text.content \in Saveable

(* onYamlSave accepts the editor's text and calls onSubmit with it. *)
HandleYamlSave ==
    /\ Open("yaml")
    /\ ~isSubmitting
    /\ pane.phase = "ready"
    /\ AcceptedText(pane.text)
    /\ SaveStarts

(* onYamlSave throws: an alert, and nothing is sent. *)
HandleYamlSaveRejects ==
    /\ Open("yaml")
    /\ ~isSubmitting
    /\ pane.phase = "ready"
    /\ ~AcceptedText(pane.text)
    /\ submitError' = TRUE
    /\ UNCHANGED <<mounted, form, hasChanges, loaded, editorType, pane, yamlContentRef,
                   hasUnsavedYamlChanges, modal, isSubmitting>>

(* onSubmit resolved: it navigated to the details page. *)
SaveSucceeds == mounted /\ isSubmitting /\ Leave

(* Variant: isSubmitting is reset on success only. *)
VariantFailureKeepsSubmitting ==
    /\ mounted
    /\ isSubmitting
    /\ submitError' = TRUE
    /\ UNCHANGED <<mounted, form, hasChanges, loaded, editorType, pane, yamlContentRef,
                   hasUnsavedYamlChanges, modal, isSubmitting>>

(* onSubmit rejected: the alert is shown and the session goes on. *)
SaveFails ==
    /\ mounted
    /\ isSubmitting
    /\ isSubmitting' = FALSE
    /\ submitError' = TRUE
    /\ UNCHANGED <<mounted, form, hasChanges, loaded, editorType, pane, yamlContentRef,
                   hasUnsavedYamlChanges, modal>>

DismissError ==
    /\ mounted
    /\ modal = "none"
    /\ submitError
    /\ submitError' = FALSE
    /\ UNCHANGED <<mounted, form, hasChanges, loaded, editorType, pane, yamlContentRef,
                   hasUnsavedYamlChanges, modal, isSubmitting>>

(* The handlers that involve nothing but the session. *)
SessionStep ==
    \/ \E c \in FormContents : EditField(c)
    \/ PaneEmits
    \/ TypeYaml
    \/ SwitchToYaml
    \/ SwitchToForm
    \/ HandleKeepYaml
    \/ HandleResetToDefault
    \/ HandleCancelAsks
    \/ DismissDialog
    \/ HandleYamlSaveRejects
    \/ DismissError

-----------------------------------------------------------------------------
(* Properties of a session that both edit pages check. *)

(* Cancel and Reload ask only when hasAnyUnsavedChanges is set, so when it  *)
(* is not set the form must still be exactly what was loaded from the       *)
(* cluster, and a YAML editor must still hold the dump of it.               *)
NothingUnsavedWhenNotAsked ==
    mounted /\ ~HasAnyUnsavedChanges =>
        /\ form = loaded
        /\ pane.phase = "ready" => pane.text = WithContent(loaded, ToYaml[loaded.content])

(* What a switch to the form would convert (yamlContentRef) is what the     *)
(* YAML editor shows, from its first emission to its unmounting.            *)
RefMatchesEditor == pane.phase = "ready" => yamlContentRef = pane.text

(* The inductive strengthening of both: the flags follow every change of    *)
(* the form and of the text, the ref follows the text, and a YAML editor    *)
(* exists in the YAML view only, so a reload agreed to in the form view     *)
(* finds no editor whose changes its resetting of the flag would hide.      *)
FlagsFollowDocuments ==
    /\ ~hasChanges => form = loaded
    /\ pane.phase # "none" => editorType = "yaml"
    /\ modal \in {"cancel", "reload"} => editorType = "form"
    /\ modal = "convertError" => editorType = "yaml"
    /\ pane.phase = "ready" =>
          /\ pane.baseline = WithContent(form, ToYaml[form.content])
          /\ ~hasUnsavedYamlChanges => pane.text = pane.baseline
          /\ yamlContentRef = pane.text

=============================================================================

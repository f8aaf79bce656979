--------------------------- MODULE EditPageProofs ---------------------------
(***************************************************************************)
(* What every edit page may rely on: each step that the pages share keeps  *)
(* the types, keeps documents truthful and keeps the flags of the session  *)
(* in step with its documents.  The proofs of the two pages cite these     *)
(* lemmas for the shared steps and add their own steps.                    *)
(***************************************************************************)
EXTENDS EditPage, TLAPS

(* Changing the content of a document leaves its version alone. *)
LEMMA WithContentType ==
    ASSUME NEW d \in Doc, NEW c \in Contents
    PROVE  /\ WithContent(d, c) \in Doc
           /\ WithContent(d, c).content = c
           /\ WithContent(d, c).rv = d.rv
           /\ WithContent(d, c).base = d.base
BY DEF WithContent, Doc

(* What the conversions return is a content again. *)
LEMMA ConversionTypes ==
    ASSUME NEW c \in Contents, NEW y \in Contents
    PROVE  /\ FromCluster[c] \in Contents
           /\ FromYaml[<<c, y>>] \in Contents
           /\ ToYaml[c] \in Contents
           /\ ToYaml[c] \in CRContents
BY ContentsAssumption

-----------------------------------------------------------------------------
(* Types *)

(* The resource, the watch and the idle call are typed initially. *)
LEMMA K8sInitTyped == K8sInit => K8sTypeOK
<1> SUFFICES ASSUME K8sInit PROVE K8sTypeOK
  OBVIOUS
<1>1. PICK c \in CRContents : cluster = Stored(c, 1)
  BY DEF K8sInit
<1>2. 1 \in Version /\ c \in Contents
  BY MaxVersionAssumption, ContentsAssumption DEF Version
<1>3. cluster \in Doc
  BY <1>1, <1>2 DEF Stored, Doc
<1> QED
  BY <1>3 DEF K8sInit, K8sTypeOK, Call

(* They stay typed in every step of the server and the watch. *)
LEMMA ServerStepTyped == K8sTypeOK /\ ServerStep => K8sTypeOK'
<1> SUFFICES ASSUME K8sTypeOK, ServerStep PROVE K8sTypeOK'
  OBVIOUS
<1> USE DEF K8sTypeOK
<1>0. CRContents \subseteq Contents /\ MaxVersion \in Nat \ {0}
  BY ContentsAssumption, MaxVersionAssumption
<1>1. ASSUME NEW c \in Contents, cluster.rv < MaxVersion
      PROVE  Stored(c, cluster.rv + 1) \in Doc
  BY <1>0, <1>1 DEF Stored, Doc, Version
<1>2. ASSUME NEW c \in CRContents, OtherWriter(c) PROVE K8sTypeOK'
  BY <1>0, <1>1, <1>2 DEF OtherWriter
<1>3. CASE WatchEvent
  BY <1>3 DEF WatchEvent
<1>4. CASE ServerAccepts
  <2>1. update \in [phase : {"sent", "accepted", "refused"}, doc : Doc]
    BY <1>4 DEF ServerAccepts, Call, NoCall
  <2>2. update.doc.content \in Contents
    BY <2>1 DEF Doc
  <2> QED
    BY <1>1, <1>4, <2>1, <2>2 DEF ServerAccepts, Call
<1>5. CASE ServerRefuses \/ AnswerLost
  <2>1. update \in [phase : {"sent", "accepted", "refused"}, doc : Doc]
    BY <1>5 DEF ServerRefuses, AnswerLost, Call, NoCall
  <2> QED
    BY <1>5, <2>1 DEF ServerRefuses, AnswerLost, Call
<1> QED
  BY <1>2, <1>3, <1>4, <1>5 DEF ServerStep

-----------------------------------------------------------------------------
(* Every step that the pages share keeps the shared invariant.              *)

(* A step of the cluster, the watch or the calls leaves the session alone. *)
LEMMA ServerStepKeeps ==
    EditInv /\ ServerStep /\ UNCHANGED sessionVars => EditInv'
<1> SUFFICES ASSUME EditInv, ServerStep, UNCHANGED sessionVars PROVE EditInv'
  OBVIOUS
<1>1. EditTypeOK'
  BY ServerStepTyped DEF EditInv, EditTypeOK, SessionTypeOK, sessionVars
<1>2. FlagsFollowDocuments'
  BY DEF EditInv, FlagsFollowDocuments, sessionVars
<1>3. cluster'.rv \in Nat /\ cluster.rv \in Nat /\ cluster.rv <= cluster'.rv
  BY MaxVersionAssumption
     DEF EditInv, EditTypeOK, K8sTypeOK, Doc, Version, ServerStep, OtherWriter, Stored,
         WatchEvent, ServerAccepts, ServerRefuses, AnswerLost
<1>4. ASSUME NEW d \in Doc, Truthful(d) PROVE d.rv = d.base /\ d.base <= cluster'.rv
  BY <1>3, <1>4, MaxVersionAssumption DEF Truthful, Doc, Version
<1>5. Truthful(cluster)' /\ cluster'.content \in CRContents
  BY <1>4, MaxVersionAssumption
     DEF EditInv, EditTypeOK, K8sTypeOK, DocumentsTruthful, ServerStep, OtherWriter, Stored,
         WatchEvent, ServerAccepts, ServerRefuses, AnswerLost, Truthful, Doc, Version, NoCall
<1>6. Truthful(watched)'
  BY <1>4 DEF EditInv, EditTypeOK, K8sTypeOK, DocumentsTruthful, ServerStep, OtherWriter,
              WatchEvent, ServerAccepts, ServerRefuses, AnswerLost, Truthful
<1>7. update' # NoCall => Truthful(update.doc)' /\ update'.doc.content \in CRContents
  <2>1. update' = update \/ (update # NoCall /\ update'.doc = update.doc)
    BY DEF EditInv, EditTypeOK, K8sTypeOK, Call, NoCall, ServerStep, OtherWriter,
           WatchEvent, ServerAccepts, ServerRefuses, AnswerLost
  <2>2. update # NoCall => update.doc \in Doc
    BY DEF EditInv, EditTypeOK, K8sTypeOK, Call
  <2> QED
    BY <1>4, <2>1, <2>2 DEF EditInv, DocumentsTruthful, Truthful
<1>8. DocumentsTruthful'
  <2>1. UNCHANGED <<form, yamlContentRef, pane>>
    BY DEF sessionVars
  <2>2. /\ form \in Doc
        /\ yamlContentRef # NoYaml => yamlContentRef \in Doc
        /\ pane.phase = "ready" => pane.baseline \in Doc
        /\ pane.phase = "ready" /\ pane.text # NoYaml => pane.text \in Doc
    BY DEF EditInv, EditTypeOK, SessionTypeOK, Pane, NoPane
  <2> QED
    BY <1>4, <1>5, <1>6, <1>7, <2>1, <2>2 DEF EditInv, DocumentsTruthful, Truthful
<1> QED
  BY <1>1, <1>2, <1>5, <1>7, <1>8 DEF EditInv

-----------------------------------------------------------------------------
(* Steps of the session.  The cluster stands still in them, so a document   *)
(* is truthful after the step if it was before it.                          *)

(* The part of EditInv that a step of the session alone can disturb. *)
LEMMA SessionStepFrame ==
    EditInv /\ UNCHANGED k8sVars
        => /\ K8sTypeOK'
           /\ cluster'.content \in CRContents
           /\ update' # NoCall => update'.doc.content \in CRContents
           /\ Truthful(cluster)' /\ Truthful(watched)'
           /\ update' # NoCall => Truthful(update.doc)'
BY DEF EditInv, EditTypeOK, K8sTypeOK, DocumentsTruthful, Truthful, k8sVars

(* A truthful document with other contents is truthful. *)
LEMMA TruthfulContent ==
    ASSUME NEW d \in Doc, NEW c \in Contents, Truthful(d)
    PROVE  Truthful(WithContent(d, c))
BY WithContentType DEF Truthful

(* Editing a field keeps the shared invariant. *)
LEMMA EditFieldKeeps ==
    ASSUME NEW c \in FormContents, EditInv, EditField(c), UNCHANGED k8sVars
    PROVE  EditInv'
<1>1. c \in Contents
  BY ContentsAssumption
<1>2. form \in Doc /\ Truthful(form) /\ UNCHANGED cluster
  BY DEF EditInv, EditTypeOK, SessionTypeOK, DocumentsTruthful, k8sVars
<1>3. WithContent(form, c) \in Doc /\ Truthful(WithContent(form, c))
  BY <1>1, <1>2, WithContentType, TruthfulContent
<1>4. SessionTypeOK'
  BY <1>3 DEF EditInv, EditTypeOK, SessionTypeOK, EditField, Open
<1>5. DocumentsTruthful'
  BY <1>2, <1>3, SessionStepFrame
     DEF EditInv, DocumentsTruthful, EditField, Truthful, k8sVars
<1>6. FlagsFollowDocuments'
  BY DEF EditInv, EditTypeOK, SessionTypeOK, FlagsFollowDocuments, EditField, Open, Pane,
         NoPane
<1> QED
  BY <1>4, <1>5, <1>6, SessionStepFrame DEF EditInv, EditTypeOK

(* The first text of a mounted YAML editor keeps it. *)
LEMMA PaneEmitsKeeps ==
    ASSUME EditInv, PaneEmits, UNCHANGED k8sVars
    PROVE  EditInv'
<1> DEFINE text == WithContent(form, ToYaml[form.content])
<1>1. form \in Doc /\ Truthful(form) /\ form.content \in Contents /\ UNCHANGED cluster
  BY DEF EditInv, EditTypeOK, SessionTypeOK, DocumentsTruthful, Doc, k8sVars
<1>2. text \in Doc /\ Truthful(text)
  BY <1>1, WithContentType, TruthfulContent, ConversionTypes
<1>3. /\ pane' = [phase |-> "ready", baseline |-> text, text |-> text]
      /\ yamlContentRef' = text
      /\ UNCHANGED <<mounted, form, hasChanges, loaded, editorType, modal, isSubmitting>>
      /\ hasUnsavedYamlChanges' = FALSE /\ submitError' = FALSE
  BY DEF PaneEmits
<1>4. SessionTypeOK'
  BY <1>2, <1>3 DEF EditInv, EditTypeOK, SessionTypeOK, Pane
<1>5. DocumentsTruthful'
  BY <1>1, <1>2, <1>3, SessionStepFrame DEF DocumentsTruthful, Truthful
<1>6. FlagsFollowDocuments'
  BY <1>3 DEF EditInv, FlagsFollowDocuments, PaneEmits
<1> QED
  BY <1>4, <1>5, <1>6, SessionStepFrame DEF EditInv, EditTypeOK

(* What a text may be that the user types into the YAML editor. *)
LEMMA TypeYamlText ==
    ASSUME EditInv, TypeYaml
    PROVE  \E text \in Doc \cup {NoYaml} :
              /\ HandleYamlContentChange(text)
              /\ text # NoYaml => Truthful(text)
<1>1. ASSUME NEW c \in CRContents, pane.phase = "ready",
             HandleYamlContentChange(WithContent(pane.baseline, c))
      PROVE  /\ WithContent(pane.baseline, c) \in Doc
             /\ Truthful(WithContent(pane.baseline, c))
  <2>1. pane.baseline \in Doc /\ Truthful(pane.baseline) /\ c \in Contents
    BY <1>1, ContentsAssumption
       DEF EditInv, EditTypeOK, SessionTypeOK, DocumentsTruthful, Pane, NoPane
  <2> QED
    BY <2>1, WithContentType DEF Truthful
<1> QED
  BY <1>1 DEF TypeYaml

(* Typing in the YAML editor keeps it. *)
LEMMA TypeYamlKeeps ==
    ASSUME EditInv, TypeYaml, UNCHANGED k8sVars
    PROVE  EditInv'
<1>1. PICK text \in Doc \cup {NoYaml} :
         HandleYamlContentChange(text) /\ (text # NoYaml => Truthful(text))
  BY TypeYamlText
<1>2. /\ pane \in [phase : {"ready"}, baseline : Doc, text : Doc \cup {NoYaml}]
      /\ pane' = [pane EXCEPT !.text = text]
      /\ yamlContentRef' = text
      /\ hasUnsavedYamlChanges' = (text # pane.baseline) /\ submitError' = FALSE
      /\ UNCHANGED <<mounted, form, hasChanges, loaded, editorType, modal, isSubmitting>>
      /\ editorType = "yaml" /\ modal = "none"
  BY <1>1 DEF HandleYamlContentChange, EditInv, EditTypeOK, SessionTypeOK, Pane, NoPane, Open
<1>3. /\ pane' \in [phase : {"ready"}, baseline : Doc, text : Doc \cup {NoYaml}]
      /\ pane'.phase = "ready" /\ pane'.baseline = pane.baseline /\ pane'.text = text
  BY <1>2
<1>4. SessionTypeOK'
  BY <1>2, <1>3 DEF EditInv, EditTypeOK, SessionTypeOK, Pane
<1>5. DocumentsTruthful'
  BY <1>1, <1>2, <1>3, SessionStepFrame
     DEF EditInv, DocumentsTruthful, Truthful, k8sVars
<1>6. FlagsFollowDocuments'
  BY <1>2, <1>3 DEF EditInv, FlagsFollowDocuments
<1> QED
  BY <1>4, <1>5, <1>6, SessionStepFrame DEF EditInv, EditTypeOK

(* Steps that change no document: dialogs, alerts and refused saves. *)
LEMMA NoDocumentChangesKeeps ==
    ASSUME EditInv,
           UNCHANGED k8sVars,
           UNCHANGED <<form, hasChanges, loaded, editorType, pane, yamlContentRef,
                       hasUnsavedYamlChanges>>,
           mounted' \in BOOLEAN, isSubmitting' \in BOOLEAN, submitError' \in BOOLEAN,
           \/ modal' = "none"
           \/ modal' \in {"cancel", "reload"} /\ editorType = "form"
           \/ modal' = "convertError" /\ editorType = "yaml"
    PROVE  EditInv'
<1>1. SessionTypeOK'
  BY DEF EditInv, EditTypeOK, SessionTypeOK, Modal
<1>2. DocumentsTruthful'
  BY SessionStepFrame DEF EditInv, DocumentsTruthful, Truthful, k8sVars
<1>3. FlagsFollowDocuments'
  BY DEF EditInv, FlagsFollowDocuments
<1> QED
  BY <1>1, <1>2, <1>3, SessionStepFrame DEF EditInv, EditTypeOK

(* Switching to the YAML view keeps it. *)
LEMMA SwitchToYamlKeeps ==
    ASSUME EditInv, SwitchToYaml, UNCHANGED k8sVars
    PROVE  EditInv'
<1>1. SessionTypeOK'
  BY DEF EditInv, EditTypeOK, SessionTypeOK, SwitchToYaml, Loading, Pane, Open
<1>2. DocumentsTruthful'
  BY SessionStepFrame DEF EditInv, DocumentsTruthful, Truthful, SwitchToYaml, Loading,
                          k8sVars
<1>3. FlagsFollowDocuments'
  BY DEF EditInv, FlagsFollowDocuments, SwitchToYaml, Loading, Open
<1> QED
  BY <1>1, <1>2, <1>3, SessionStepFrame DEF EditInv, EditTypeOK

(* Switching to the form keeps it, converted, skipped or refused. *)
LEMMA SwitchToFormKeeps ==
    ASSUME EditInv, SwitchToForm, UNCHANGED k8sVars
    PROVE  EditInv'
<1>1. CASE SwitchToFormConverts
  <2> DEFINE d == WithContent(yamlContentRef,
                              FromYaml[<<form.content, yamlContentRef.content>>])
  <2>1. /\ yamlContentRef \in Doc /\ Truthful(yamlContentRef)
        /\ yamlContentRef.content \in Contents /\ form.content \in Contents
    BY <1>1 DEF SwitchToFormConverts, EditInv, EditTypeOK, SessionTypeOK,
                DocumentsTruthful, Doc
  <2>2. d \in Doc /\ Truthful(d)
    BY <2>1, WithContentType, TruthfulContent, ConversionTypes
  <2>3. /\ form' = d /\ hasChanges' = TRUE /\ editorType' = "form" /\ pane' = NoPane
        /\ modal = "none" /\ submitError' = FALSE
        /\ UNCHANGED <<mounted, loaded, yamlContentRef, hasUnsavedYamlChanges, modal,
                       isSubmitting>>
    BY <1>1 DEF SwitchToForm, SwitchToFormConverts, Open
  <2>4. SessionTypeOK'
    BY <2>2, <2>3 DEF EditInv, EditTypeOK, SessionTypeOK, Pane
  <2>5. DocumentsTruthful'
    BY <2>2, <2>3, SessionStepFrame
       DEF EditInv, DocumentsTruthful, Truthful, NoPane, k8sVars
  <2>6. FlagsFollowDocuments'
    BY <2>3 DEF FlagsFollowDocuments, NoPane
  <2> QED
    BY <2>4, <2>5, <2>6, SessionStepFrame DEF EditInv, EditTypeOK
<1>2. CASE SwitchToFormSkips
  <2>1. SessionTypeOK'
    BY <1>2 DEF EditInv, EditTypeOK, SessionTypeOK, SwitchToForm, SwitchToFormSkips, Pane
  <2>2. DocumentsTruthful'
    BY <1>2, SessionStepFrame DEF EditInv, DocumentsTruthful, Truthful, SwitchToForm,
                                  SwitchToFormSkips, NoPane, k8sVars
  <2>3. FlagsFollowDocuments'
    BY <1>2 DEF EditInv, FlagsFollowDocuments, SwitchToForm, SwitchToFormSkips, NoPane, Open
  <2> QED
    BY <2>1, <2>2, <2>3, SessionStepFrame DEF EditInv, EditTypeOK
<1>3. CASE SwitchToFormFails
  BY <1>3, NoDocumentChangesKeeps
     DEF SwitchToForm, SwitchToFormFails, Open, EditInv, EditTypeOK, SessionTypeOK
<1> QED
  BY <1>1, <1>2, <1>3 DEF SwitchToForm

(* Reset to Default keeps it, although the ref keeps its text. *)
LEMMA HandleResetToDefaultKeeps ==
    ASSUME EditInv, HandleResetToDefault, UNCHANGED k8sVars
    PROVE  EditInv'
<1>1. SessionTypeOK'
  BY DEF EditInv, EditTypeOK, SessionTypeOK, HandleResetToDefault, Loading, Pane, Modal
<1>2. DocumentsTruthful'
  BY SessionStepFrame DEF EditInv, DocumentsTruthful, Truthful, HandleResetToDefault,
                          Loading, k8sVars
<1>3. FlagsFollowDocuments'
  BY DEF EditInv, FlagsFollowDocuments, HandleResetToDefault, Loading
<1> QED
  BY <1>1, <1>2, <1>3, SessionStepFrame DEF EditInv, EditTypeOK

(* A handler that asks before it cancels or reloads opens a dialog only. *)
LEMMA AsksKeeps ==
    ASSUME EditInv, HandleCancelAsks \/ HandleReloadAsks, UNCHANGED k8sVars
    PROVE  EditInv'
BY NoDocumentChangesKeeps
   DEF HandleCancelAsks, HandleReloadAsks, CancelButton, ReloadButton, Open, OpenDialog,
       EditInv, EditTypeOK, SessionTypeOK

(* Every step of the session keeps it. *)
LEMMA SessionStepKeeps ==
    EditInv /\ SessionStep /\ UNCHANGED k8sVars => EditInv'
<1> SUFFICES ASSUME EditInv, SessionStep, UNCHANGED k8sVars PROVE EditInv'
  OBVIOUS
<1>1. ASSUME NEW c \in FormContents, EditField(c) PROVE EditInv'
  BY <1>1, EditFieldKeeps
<1>2. CASE PaneEmits
  BY <1>2, PaneEmitsKeeps
<1>3. CASE TypeYaml
  BY <1>3, TypeYamlKeeps
<1>4. CASE SwitchToYaml
  BY <1>4, SwitchToYamlKeeps
<1>5. CASE SwitchToForm
  BY <1>5, SwitchToFormKeeps
<1>6. CASE HandleResetToDefault
  BY <1>6, HandleResetToDefaultKeeps
<1>7. CASE HandleCancelAsks
  BY <1>7, AsksKeeps
<1>8. CASE HandleKeepYaml \/ DismissDialog \/ HandleYamlSaveRejects \/ DismissError
  BY <1>8, NoDocumentChangesKeeps
     DEF HandleKeepYaml, DismissDialog, OpenDialog, HandleYamlSaveRejects, DismissError,
         Open, EditInv, EditTypeOK, SessionTypeOK
<1> QED
  BY <1>1, <1>2, <1>3, <1>4, <1>5, <1>6, <1>7, <1>8 DEF SessionStep

-----------------------------------------------------------------------------
(* Opening, leaving, saving and reloading. *)

(* A session opened on a truthful document satisfies it. *)
LEMMA FreshSessionKeeps ==
    ASSUME EditInv, UNCHANGED k8sVars,
           \E d \in Doc : Truthful(d) /\ FreshSession(d)
    PROVE  EditInv'
<1>1. PICK d \in Doc : Truthful(d) /\ FreshSession(d)
  OBVIOUS
<1>2. SessionTypeOK'
  BY <1>1 DEF FreshSession, SessionTypeOK, Pane, Modal
<1>3. DocumentsTruthful'
  BY <1>1, SessionStepFrame DEF FreshSession, DocumentsTruthful, Truthful, NoPane, k8sVars
<1>4. FlagsFollowDocuments'
  BY <1>1 DEF FreshSession, FlagsFollowDocuments, NoPane
<1> QED
  BY <1>2, <1>3, <1>4, SessionStepFrame DEF EditInv, EditTypeOK

(* So does the first session. *)
LEMMA SessionInitEstablishes ==
    ASSUME K8sInit, \E d \in Doc : Truthful(d) /\ SessionInit(d)
    PROVE  EditInv
<1>1. PICK d \in Doc : Truthful(d) /\ SessionInit(d)
  OBVIOUS
<1>2. EditTypeOK
  BY <1>1, K8sInitTyped DEF EditTypeOK, SessionInit, SessionTypeOK, Pane, Modal
<1>3. PICK c \in CRContents : cluster = Stored(c, 1)
  BY DEF K8sInit
<1>4. Truthful(cluster) /\ cluster.content \in CRContents
  BY <1>3 DEF Truthful, Stored
<1>5. DocumentsTruthful
  BY <1>1, <1>4 DEF K8sInit, SessionInit, DocumentsTruthful, NoPane
<1>6. FlagsFollowDocuments
  BY <1>1 DEF SessionInit, FlagsFollowDocuments, NoPane
<1> QED
  BY <1>2, <1>4, <1>5, <1>6 DEF EditInv, K8sInit

(* The page goes away, and with it the caller of an update. *)
LEMMA LeaveKeeps ==
    ASSUME EditInv, Leave, UpdateForgotten
    PROVE  EditInv'
<1>1. EditTypeOK'
  BY DEF EditInv, EditTypeOK, K8sTypeOK, SessionTypeOK, Leave, UpdateForgotten, Call, Pane,
         Modal
<1>2. DocumentsTruthful'
  BY DEF EditInv, DocumentsTruthful, Truthful, Leave, UpdateForgotten, NoPane
<1>3. FlagsFollowDocuments'
  BY DEF EditInv, FlagsFollowDocuments, Leave, NoPane
<1> QED
  BY <1>1, <1>2, <1>3 DEF EditInv, UpdateForgotten

(* Leaving by Cancel, by its dialog or by the page closing keeps it. *)
LEMMA LeavePageKeeps ==
    ASSUME EditInv, LeavePage, UpdateForgotten
    PROVE  EditInv'
BY LeaveKeeps DEF LeavePage, HandleCancelLeaves, ConfirmCancel, PageCloses

(* What Save sends is a truthful document with the content of a CR. *)
LEMMA SaveSendsTruth ==
    ASSUME EditInv, Save
    PROVE  /\ SaveStarts
           /\ \E d \in Doc : SendUpdate(d) /\ Truthful(d) /\ d.content \in CRContents
<1>1. CASE HandleFormSubmit /\ SendUpdate(form)
  BY <1>1, ContentsAssumption
     DEF HandleFormSubmit, EditInv, EditTypeOK, SessionTypeOK, DocumentsTruthful
<1>2. CASE HandleYamlSave /\ SendUpdate(pane.text)
  <2>1. pane.text \in Doc /\ Truthful(pane.text) /\ pane.text.content \in CRContents
    BY <1>2, ContentsAssumption
       DEF HandleYamlSave, AcceptedText, EditInv, EditTypeOK, SessionTypeOK,
           DocumentsTruthful, Pane, NoPane
  <2> QED
    BY <1>2, <2>1 DEF HandleYamlSave
<1> QED
  BY <1>1, <1>2 DEF Save

(* A save in flight keeps it. *)
LEMMA SaveKeeps ==
    ASSUME EditInv, Save
    PROVE  EditInv'
<1>1. PICK d \in Doc : SendUpdate(d) /\ Truthful(d) /\ d.content \in CRContents
  BY SaveSendsTruth
<1>2. SaveStarts
  BY SaveSendsTruth
<1>3. EditTypeOK'
  BY <1>1, <1>2
     DEF EditInv, EditTypeOK, K8sTypeOK, SessionTypeOK, SendUpdate, Call, SaveStarts
<1>4. DocumentsTruthful'
  BY <1>1, <1>2 DEF EditInv, DocumentsTruthful, Truthful, SendUpdate, SaveStarts
<1>5. FlagsFollowDocuments'
  BY <1>2 DEF EditInv, FlagsFollowDocuments, SaveStarts
<1> QED
  BY <1>1, <1>3, <1>4, <1>5 DEF EditInv, SendUpdate

(* A rejected save keeps it. *)
LEMMA SaveRejectsKeeps ==
    ASSUME EditInv, SaveRejects
    PROVE  EditInv'
<1>1. EditTypeOK'
  BY DEF EditInv, EditTypeOK, K8sTypeOK, SessionTypeOK, SaveRejects, SaveFails, Call
<1>2. DocumentsTruthful'
  BY DEF EditInv, DocumentsTruthful, Truthful, SaveRejects, SaveFails
<1>3. FlagsFollowDocuments'
  BY DEF EditInv, FlagsFollowDocuments, SaveRejects, SaveFails
<1> QED
  BY <1>1, <1>2, <1>3 DEF EditInv, SaveRejects

(* The form is set from a truthful document of the cluster, and a YAML      *)
(* editor that is shown starts anew.                                        *)
LEMMA SetModelKeeps ==
    ASSUME EditInv,
           UNCHANGED <<cluster, watched, update, editorType, yamlContentRef>>,
           \E d \in Doc : Truthful(d) /\ SetModelFromCluster(d),
           PaneRemounts,
           modal' \in {modal, "none"},
           mounted' \in BOOLEAN, isSubmitting' \in BOOLEAN, submitError' \in BOOLEAN,
           hasUnsavedYamlChanges' \in BOOLEAN
    PROVE  EditInv'
<1>1. PICK d \in Doc : Truthful(d) /\ SetModelFromCluster(d)
  OBVIOUS
<1>2. d.content \in Contents
  BY DEF Doc
<1>3. form' \in Doc /\ Truthful(form') /\ loaded' = form' /\ hasChanges' = FALSE
  BY <1>1, <1>2, WithContentType, TruthfulContent, ConversionTypes
     DEF SetModelFromCluster
<1>4. pane' = IF editorType = "yaml" THEN Loading(FALSE) ELSE NoPane
  BY DEF PaneRemounts
<1>5. SessionTypeOK'
  BY <1>3, <1>4 DEF EditInv, EditTypeOK, SessionTypeOK, Loading, Pane, Modal
<1>6. DocumentsTruthful'
  BY <1>3, <1>4, SessionStepFrame
     DEF EditInv, DocumentsTruthful, Truthful, Loading, NoPane, k8sVars
<1>7. FlagsFollowDocuments'
  BY <1>3, <1>4 DEF EditInv, FlagsFollowDocuments, Loading, NoPane
<1> QED
  BY <1>5, <1>6, <1>7, SessionStepFrame DEF EditInv, EditTypeOK, k8sVars

-----------------------------------------------------------------------------
(* Consequences of the shared invariant. *)

(* The properties of a session follow from the shared invariant. *)
LEMMA EditInvImplies ==
    EditInv => /\ NothingUnsavedWhenNotAsked
               /\ RefMatchesEditor
               /\ DocumentsTruthful
BY DEF EditInv, FlagsFollowDocuments, NothingUnsavedWhenNotAsked, RefMatchesEditor,
       HasAnyUnsavedChanges

(* The server applies an update only at the version it was derived from. *)
LEMMA ServerStepLosesNothing ==
    ASSUME EditInv, ServerStep, update.phase = "sent", update' # update, cluster' # cluster
    PROVE  update.doc.base = cluster.rv
BY DEF EditInv, DocumentsTruthful, Truthful, ServerStep, OtherWriter, WatchEvent,
       ServerAccepts, ServerRefuses, AnswerLost, NoCall

-----------------------------------------------------------------------------
(* The refinement: what each step of a page is to the abstract store. *)

(* The initial states are initial states of the store. *)
LEMMA StoreInitRefined == K8sInit => Store!StoreInit
<1> SUFFICES ASSUME K8sInit PROVE Store!StoreInit
  OBVIOUS
<1>1. PICK c \in CRContents : cluster = Stored(c, 1)
  BY DEF K8sInit
<1> QED
  BY <1>1 DEF K8sInit, Stored, Store!StoreInit, Store!NoRequest, NoCall

(* A step that leaves the cluster and the call alone is invisible. *)
LEMMA StoreStutters ==
    cluster' = cluster /\ update' = update => UNCHANGED Store!storeVars
BY DEF Store!storeVars, NoCall

(* What happens to the cluster happens to the store. *)
LEMMA ServerStepRefines ==
    EditInv /\ ServerStep => Store!StoreNext \/ UNCHANGED Store!storeVars
<1> SUFFICES ASSUME EditInv, ServerStep
             PROVE  Store!StoreNext \/ UNCHANGED Store!storeVars
  OBVIOUS
<1>1. ASSUME NEW c \in CRContents, OtherWriter(c) PROVE Store!OtherWrite
  BY <1>1 DEF OtherWriter, Stored, Store!OtherWrite, NoCall
<1>2. CASE WatchEvent
  BY <1>2, StoreStutters DEF WatchEvent
<1>3. ASSUME update.phase \in {"sent", "accepted"}
      PROVE  /\ update # NoCall
             /\ update \in [phase : {"sent", "accepted", "refused"}, doc : Doc]
  BY <1>3 DEF EditInv, EditTypeOK, K8sTypeOK, Call, NoCall
<1>4. CASE ServerAccepts
  <2>1. update' = [update EXCEPT !.phase = "accepted"] /\ update.phase = "sent"
    BY <1>4 DEF ServerAccepts
  <2>2. update # NoCall /\ update' # NoCall /\ update'.doc = update.doc
        /\ update'.phase = "accepted"
    BY <1>3, <2>1 DEF NoCall
  <2>3. update.doc.base = cluster.rv /\ cluster.rv < MaxVersion
        /\ cluster' = Stored(update.doc.content, cluster.rv + 1)
    BY <1>4, <2>2 DEF ServerAccepts, EditInv, DocumentsTruthful, Truthful
  <2>4. Store!Replace
    BY <2>1, <2>2, <2>3 DEF Store!Replace, Stored
  <2> QED
    BY <2>4 DEF Store!StoreNext
<1>5. CASE ServerRefuses \/ AnswerLost
  <2>1. update' = [update EXCEPT !.phase = "refused"] /\ UNCHANGED cluster
        /\ update.phase \in {"sent", "accepted"}
    BY <1>5 DEF ServerRefuses, AnswerLost
  <2>2. update # NoCall /\ update' # NoCall /\ update'.doc = update.doc
        /\ update'.phase = "refused"
    BY <1>3, <2>1 DEF NoCall
  <2>3. Store!Deny
    BY <2>1, <2>2 DEF Store!Deny
  <2> QED
    BY <2>3 DEF Store!StoreNext
<1> QED
  BY <1>1, <1>2, <1>4, <1>5 DEF ServerStep, Store!StoreNext

(* Sending an update is asking the store. *)
LEMMA SaveRefines == EditInv /\ Save => Store!Ask
<1> SUFFICES ASSUME EditInv, Save PROVE Store!Ask
  OBVIOUS
<1>1. PICK d \in Doc : SendUpdate(d) /\ Truthful(d) /\ d.content \in CRContents
  BY SaveSendsTruth
<1>2. /\ update = NoCall /\ UNCHANGED cluster
      /\ update' = [phase |-> "sent", doc |-> d]
  BY <1>1 DEF SendUpdate
<1>3. update' # NoCall
  BY <1>2 DEF NoCall
<1>4. d.base \in 1..cluster.rv
  BY <1>1, MaxVersionAssumption DEF Truthful, Doc, Version, EditInv, EditTypeOK, K8sTypeOK
<1> QED
  BY <1>1, <1>2, <1>3, <1>4 DEF Store!Ask, Store!NoRequest, NoCall

(* An update that ends, or is forgotten, is settled. *)
LEMMA UpdateEndsRefines ==
    EditInv /\ update' = NoCall /\ UNCHANGED cluster
        => Store!StoreNext \/ UNCHANGED Store!storeVars
<1> SUFFICES ASSUME EditInv, update' = NoCall, UNCHANGED cluster, update # NoCall
             PROVE  Store!Settle
  BY StoreStutters DEF Store!StoreNext
<1>1. update.phase \in {"sent", "accepted", "refused"}
  BY DEF EditInv, EditTypeOK, K8sTypeOK, Call
<1> QED
  BY <1>1 DEF Store!Settle, Store!NoRequest, NoCall

=============================================================================

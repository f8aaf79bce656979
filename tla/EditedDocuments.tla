-------------------------- MODULE EditedDocuments --------------------------
(***************************************************************************)
(* The documents that travel between the API server, the form reducer and  *)
(* the YAML editor, and what the conversions between them do.              *)
(*                                                                         *)
(* The text of a document matters to an editing session only through the   *)
(* answers the code computes from it: can it be saved, can it be shown in  *)
(* the form, and what does a conversion turn it into.  A content is        *)
(* therefore a member of a small set, and validation and conversion are    *)
(* given as sets and functions on it.  The form's contents include the     *)
(* rows that the CR does not show (two label rows with the same key).      *)
(***************************************************************************)
EXTENDS Naturals

CONSTANTS
    Contents,       \* classes of contents that validation and conversion tell apart
    FormContents,   \* what the form's fields can produce
    CRContents,     \* what a CR can hold: on the cluster, or as YAML text
    Convertible,    \* accepted by onSwitchToForm
    Saveable,       \* accepted by isFormValid and by onYamlSave
    FromCluster,    \* SET_MODEL without yaml: the form's content for a CR of the cluster
    FromYaml,       \* SET_MODEL with yaml: from the form's content and the YAML's content
    ToYaml,         \* the YAML dump of the form's CR
    NoYaml,         \* the empty text
    MaxVersion      \* bound: the last resourceVersion a run reaches

ASSUME ContentsAssumption ==
    /\ FormContents \subseteq Contents
    /\ CRContents \subseteq Contents
    /\ Convertible \subseteq CRContents
    /\ Saveable \subseteq CRContents
    /\ FromCluster \in [Contents -> Contents]
    /\ FromYaml \in [Contents \X Contents -> Contents]
    /\ ToYaml \in [Contents -> CRContents]

ASSUME MaxVersionAssumption == MaxVersion \in Nat \ {0}

Version == 1..MaxVersion

(* A document: its content, its metadata.resourceVersion and, as history,   *)
(* base: the version of the cluster its content was derived from.  No code  *)
(* reads base.                                                              *)
Doc == [content : Contents, rv : Version, base : Version]

ASSUME NoYamlAssumption == NoYaml \notin Doc

(* The document an API server that reached version v stores. *)
Stored(c, v) == [content |-> c, rv |-> v, base |-> v]

(* The same object with other contents: resourceVersion goes with it. *)
WithContent(d, c) == [d EXCEPT !.content = c]

=============================================================================

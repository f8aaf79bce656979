------------------------------ MODULE EditPage ------------------------------
(***************************************************************************)
(* What the two edit pages have in common: an editing session whose Save   *)
(* is k8sUpdate on the resource, the promise that binds them to the        *)
(* abstract store, and the invariants of every such page.                  *)
(***************************************************************************)
EXTENDS K8sResource, ResourceFormEditor

editVars == <<k8sVars, sessionVars>>

EditTypeOK == K8sTypeOK /\ SessionTypeOK

LeavePage == HandleCancelLeaves \/ ConfirmCancel \/ PageCloses

(* Variant: the update carries the resourceVersion of the watched CR. *)
VariantSavesLatestVersion ==
    \/ HandleFormSubmit /\ SendUpdate([form EXCEPT !.rv = watched.rv])
    \/ HandleYamlSave /\ SendUpdate(pane.text)

(* onSubmit: k8sUpdate of the form's cr, or of the parsed YAML. *)
Save ==
    \/ HandleFormSubmit /\ SendUpdate(form)
    \/ HandleYamlSave /\ SendUpdate(pane.text)

(* Variant: a refused update is sent again with the version of the watch. *)
VariantRetriesOnRefusal ==
    /\ update.phase = "refused"
    /\ mounted
    /\ update' = [phase |-> "sent", doc |-> [update.doc EXCEPT !.rv = watched.rv]]
    /\ UNCHANGED <<cluster, watched, sessionVars>>

(* k8sUpdate rejected. *)
SaveRejects ==
    /\ update.phase = "refused"
    /\ SaveFails
    /\ update' = NoCall
    /\ UNCHANGED <<cluster, watched>>

(* The caller of an update is gone with its page, or has its answer.  What  *)
(* an abandoned update still does to the cluster is a write of another      *)
(* writer.                                                                  *)
UpdateForgotten ==
    /\ update' = NoCall
    /\ UNCHANGED <<cluster, watched>>

-----------------------------------------------------------------------------

(* The abstract store: a request is derived from the version its document   *)
(* was based on, whatever resourceVersion it carries.                       *)
Store == INSTANCE VersionedStore WITH
    Contents <- CRContents,
    resource <- [content |-> cluster.content, version |-> cluster.rv],
    request <- IF update = NoCall THEN update
               ELSE [phase |-> update.phase, content |-> update.doc.content,
                     from |-> update.doc.base]

(* The page implements the store: nothing it does replaces a version of the *)
(* resource other than the one the replacement was derived from.            *)
ImplementsStore == Store!StoreSpec

(* An update that the API server applies replaces exactly the version its   *)
(* content was derived from, so no write of anybody, the page's own earlier *)
(* save with a lost answer included, is ever overwritten unseen.            *)
NoLostUpdate ==
    [][update.phase = "sent" /\ update' # update /\ cluster' # cluster
          => update.doc.base = cluster.rv]_k8sVars

(* A document tells the truth about its origin: the resourceVersion it      *)
(* carries is that of the cluster state its content was derived from, and   *)
(* the cluster has reached that version.                                    *)
Truthful(d) == d.rv = d.base /\ d.base <= cluster.rv

(* Every conversion between form, YAML text, ref and request keeps          *)
(* documents truthful.                                                      *)
DocumentsTruthful ==
    /\ Truthful(cluster)
    /\ Truthful(watched)
    /\ Truthful(form)
    /\ yamlContentRef # NoYaml => Truthful(yamlContentRef)
    /\ pane.phase = "ready" => Truthful(pane.baseline)
    /\ pane.phase = "ready" /\ pane.text # NoYaml => Truthful(pane.text)
    /\ update # NoCall => Truthful(update.doc)

(* The inductive invariant of the part that the two pages share.  Only      *)
(* contents of a CR are ever on the cluster or on their way to it.          *)
EditInv ==
    /\ EditTypeOK
    /\ DocumentsTruthful
    /\ FlagsFollowDocuments
    /\ cluster.content \in CRContents
    /\ update # NoCall => update.doc.content \in CRContents

=============================================================================

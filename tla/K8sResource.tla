---------------------------- MODULE K8sResource ----------------------------
(***************************************************************************)
(* The one custom resource an edit page works on, as the console sees it:  *)
(* the object on the API server, the copy useK8sWatchResource last         *)
(* delivered to the page, and the page's k8sUpdate call.                   *)
(*                                                                         *)
(* None of this is code of the repository.  It is modelled from how the    *)
(* edit pages use the console SDK: they send the whole object, its         *)
(* metadata.resourceVersion included, and expect the API server to refuse  *)
(* it when that version is no longer the current one.                      *)
(***************************************************************************)
EXTENDS EditedDocuments

VARIABLES cluster,      \* the document on the API server
          watched,      \* the document the page's watch delivered last
          update        \* the page's k8sUpdate call

k8sVars == <<cluster, watched, update>>

NoCall == [phase |-> "idle"]

Call == {NoCall} \cup [phase : {"sent", "accepted", "refused"}, doc : Doc]

K8sTypeOK ==
    /\ cluster \in Doc
    /\ watched \in Doc
    /\ update \in Call

K8sInit ==
    /\ cluster \in {Stored(c, 1) : c \in CRContents}
    /\ watched = cluster
    /\ update = NoCall

-----------------------------------------------------------------------------

(* Another writer (the operator's status, kubectl, another user) updates    *)
(* the object.  The content may stay the same: status updates only move     *)
(* the resourceVersion.                                                     *)
OtherWriter(c) ==
    /\ cluster.rv < MaxVersion
    /\ cluster' = Stored(c, cluster.rv + 1)
    /\ UNCHANGED <<watched, update>>

(* The watch delivers the current object; versions in between are skipped. *)
WatchEvent ==
    /\ watched # cluster
    /\ watched' = cluster
    /\ UNCHANGED <<cluster, update>>

(* k8sUpdate(d): the call leaves the browser. *)
SendUpdate(d) ==
    /\ update = NoCall
    /\ update' = [phase |-> "sent", doc |-> d]
    /\ UNCHANGED <<cluster, watched>>

(* The API server applies the update: its resourceVersion is current. *)
ServerAccepts ==
    /\ update.phase = "sent"
    /\ update.doc.rv = cluster.rv
    /\ cluster.rv < MaxVersion
    /\ cluster' = Stored(update.doc.content, cluster.rv + 1)
    /\ update' = [update EXCEPT !.phase = "accepted"]
    /\ UNCHANGED watched

(* The call is rejected: 409 on a stale version, an admission webhook, a    *)
(* lost permission, a network failure.                                      *)
ServerRefuses ==
    /\ update.phase = "sent"
    /\ update' = [update EXCEPT !.phase = "refused"]
    /\ UNCHANGED <<cluster, watched>>

(* The update was applied but its answer is lost: the promise rejects. *)
AnswerLost ==
    /\ update.phase = "accepted"
    /\ update' = [update EXCEPT !.phase = "refused"]
    /\ UNCHANGED <<cluster, watched>>

ServerStep ==
    \/ \E c \in CRContents : OtherWriter(c)
    \/ WatchEvent
    \/ ServerAccepts
    \/ ServerRefuses
    \/ AnswerLost

=============================================================================

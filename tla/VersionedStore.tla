--------------------------- MODULE VersionedStore ---------------------------
(***************************************************************************)
(* What the edit pages promise about the resource they edit, with nothing  *)
(* of how an editor works: the resource is a content and a version; it is  *)
(* changed by other writers, or by a request of the editor that carries    *)
(* the version it was derived from and is applied only when that version   *)
(* is still the current one.  A request that was applied may nevertheless  *)
(* be answered with an error (the answer was lost), and a request may be   *)
(* forgotten when the page that sent it is gone.                           *)
(*                                                                         *)
(* EditBrokerService and EditBrokerApp are shown to implement it.          *)
(***************************************************************************)
EXTENDS Naturals

CONSTANTS Contents,     \* what a resource may contain
          MaxVersion    \* bound: the last version a run lets the resource reach

VARIABLES resource,     \* [content, version]: the object on the API server
          request       \* the editor's update in flight, or its outcome

storeVars == <<resource, request>>

Version == 1..MaxVersion

NoRequest == [phase |-> "idle"]

Request == {NoRequest} \cup
           [phase : {"sent", "accepted", "refused"}, content : Contents, from : Version]

StoreTypeOK ==
    /\ resource \in [content : Contents, version : Version]
    /\ request \in Request

StoreInit ==
    /\ resource \in [content : Contents, version : {1}]
    /\ request = NoRequest

-----------------------------------------------------------------------------

(* Somebody else updates the resource; only its version counts as evidence. *)
OtherWrite ==
    /\ resource.version < MaxVersion
    /\ \E c \in Contents :
          resource' = [content |-> c, version |-> resource.version + 1]
    /\ UNCHANGED request

(* The editor asks for an update derived from a version that existed. *)
Ask ==
    /\ request = NoRequest
    /\ \E c \in Contents, v \in 1..resource.version :
          request' = [phase |-> "sent", content |-> c, from |-> v]
    /\ UNCHANGED resource

(* The update is applied: the version it was derived from is the current one. *)
Replace ==
    /\ request.phase = "sent"
    /\ request.from = resource.version
    /\ resource.version < MaxVersion
    /\ resource' = [content |-> request.content, version |-> resource.version + 1]
    /\ request' = [request EXCEPT !.phase = "accepted"]

(* The update is refused, or its acceptance is lost on the way back. *)
Deny ==
    /\ request.phase \in {"sent", "accepted"}
    /\ request' = [request EXCEPT !.phase = "refused"]
    /\ UNCHANGED resource

(* The editor has handled the outcome, or no longer waits for it. *)
Settle ==
    /\ request # NoRequest
    /\ request' = NoRequest
    /\ UNCHANGED resource

StoreNext == OtherWrite \/ Ask \/ Replace \/ Deny \/ Settle

StoreSpec == StoreInit /\ [][StoreNext]_storeVars

=============================================================================

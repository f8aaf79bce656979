----------------------------- MODULE MCPkiSetup -----------------------------
(* A shell that sets up and cleans up and one that only creates the           *)
(* certificate of a service, with the operator in one namespace; two roots.   *)
EXTENDS PkiSetup

CONSTANT operators

MCIssuedLeaves == {Resource("service", operators)}

=============================================================================

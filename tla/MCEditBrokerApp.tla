-------------------------- MODULE MCEditBrokerApp --------------------------
(***************************************************************************)
(* Instance for TLC.  sized and unsized are CRs the form represents        *)
(* exactly, with and without a CPU request.  twoCaps is a CR with a second *)
(* entry in spec.capabilities: validation accepts it, and SET_MODEL drops  *)
(* the entry.  invalid is a CR that validation rejects.  dupSized and      *)
(* dupUnsized are forms with two match label rows of the same key: their   *)
(* CR shows the first row only, they cannot be saved, and converting YAML  *)
(* into them keeps the rows (preserveLabels).                              *)
(***************************************************************************)
EXTENDS EditBrokerApp

CONSTANTS sized, unsized, twoCaps, invalid, dupSized, dupUnsized

Dup(c) == IF c \in {sized, twoCaps, dupSized} THEN dupSized ELSE dupUnsized

MCFromCluster == [c \in Contents |-> IF c = twoCaps THEN sized ELSE c]

MCFromYaml ==
    [p \in Contents \X Contents |->
        IF p[1] \in {dupSized, dupUnsized} THEN Dup(p[2]) ELSE MCFromCluster[p[2]]]

MCToYaml ==
    [c \in Contents |->
        CASE c = dupSized -> sized [] c = dupUnsized -> unsized [] OTHER -> c]

MCWithoutQuantity ==
    [c \in Contents |->
        CASE c \in {sized, twoCaps} -> unsized [] c = dupSized -> dupUnsized [] OTHER -> c]

=============================================================================

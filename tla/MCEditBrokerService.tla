------------------------ MODULE MCEditBrokerService ------------------------
(***************************************************************************)
(* Instance for TLC.  plain1 and plain2 are CRs the form represents        *)
(* exactly.  foreign is a CR the form cannot represent (a memory limit of  *)
(* 512M): only other writers and the YAML editor produce it, validation    *)
(* rejects it, and SET_MODEL turns it into plain1 (2Gi).  dupRows is a     *)
(* form with two label rows of the same key: its CR shows the first one    *)
(* only (plain1), it cannot be saved, and converting YAML into it keeps    *)
(* the rows (preserveLabels).                                              *)
(***************************************************************************)
EXTENDS EditBrokerService

CONSTANTS plain1, plain2, foreign, dupRows

MCFromCluster == [c \in Contents |-> IF c = foreign THEN plain1 ELSE c]

MCFromYaml == [p \in Contents \X Contents |-> IF p[1] = dupRows THEN dupRows ELSE p[2]]

MCToYaml == [c \in Contents |-> IF c = dupRows THEN plain1 ELSE c]

=============================================================================

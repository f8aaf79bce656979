-------------------------- MODULE BrokerServiceForm --------------------------
(***************************************************************************)
(* The form of a BrokerService: the CR, and what brokerServiceReducer keeps *)
(* beside it to edit labels, memory and environment variables.  Every       *)
(* action but SET_MODEL ends by writing all three into the CR.              *)
(*                                                                         *)
(* A memory quantity is a number of Mi or Gi, or one that the two fields    *)
(* cannot show.  The rest of the CR that matters is whether its resources   *)
(* hold more than limits.memory.                                            *)
(***************************************************************************)
EXTENDS LabelRows

CONSTANTS
    EnvNames,         \* names of environment variables, trimmed
    NoEnvName,        \* the empty name
    EnvNameTexts,     \* what the field may hold
    TrimEnvName,      \* String.trim on them
    FormMemories,     \* <number>Mi or <number>Gi, the number positive
    DefaultMemory,    \* 2Gi
    ZeroMemory,       \* a number of Mi or Gi that is not positive
    BadMemory,        \* what the fields hold when the number is missing
    OtherMemory,      \* a quantity in another format
    NoMemory,         \* absent
    ClusterServices,  \* the BrokerServices that are opened or reloaded
    ServiceTexts      \* the texts of the YAML view, as parsed

(* FORM_MEMORY_REGEX matches these. *)
Shown == FormMemories \cup {ZeroMemory}

Memories == Shown \cup {BadMemory, OtherMemory, NoMemory}

EnvVar == [name : EnvNameTexts, value : Values]

(* labels of an absent metadata.labels are <<>>, and so is env. *)
IsService(c) ==
    /\ DOMAIN c = {"labels", "memory", "further", "env"}
    /\ IsLabels(c.labels)
    /\ c.memory \in Memories
    /\ c.further \in BOOLEAN
    /\ c.env \in Seq(EnvVar)

ASSUME ServiceFormAssumption ==
    /\ EnvNames \cup {NoEnvName} \subseteq EnvNameTexts
    /\ NoEnvName \notin EnvNames
    /\ TrimEnvName \in [EnvNameTexts -> EnvNames \cup {NoEnvName}]
    /\ \A n \in EnvNames : TrimEnvName[n] = n
    /\ DefaultMemory \in FormMemories
    /\ FormMemories \cap {ZeroMemory, BadMemory, OtherMemory, NoMemory} = {}
    /\ ZeroMemory \notin {BadMemory, OtherMemory, NoMemory}
    /\ \A c \in ClusterServices \cup ServiceTexts : IsService(c)
    /\ \A c \in ClusterServices : \A e \in ToSet(c.env) : e.name \in EnvNames

VARIABLES
    service,            \* state.cr
    labels,             \* its label rows
    memory,             \* memoryValue and memoryUnit
    envVars,            \* its rows of environment variables
    serviceHasChanges,  \* hasChanges
    foreignMemory       \* history: the memory last given, by a document or the user,
                        \* has another format

serviceVars ==
    <<service, labels, memory, envVars, serviceHasChanges, foreignMemory>>

ParseMemory(m) == IF m \in Shown THEN m ELSE DefaultMemory

(* syncEnvVarsToSpec leaves out the rows without a name. *)
NamedEnvVars(rows) ==
    SubSeqAt([i \in DOMAIN rows |-> [rows[i] EXCEPT !.name = TrimEnvName[@]]],
             {i \in DOMAIN rows : TrimEnvName[rows[i].name] # NoEnvName})

(* syncLabelsToMetadata, syncMemoryToSpec and syncEnvVarsToSpec. *)
Synced(l, m, e) ==
    [labels |-> LabelsToRecord(l), memory |-> m, further |-> FALSE, env |-> NamedEnvVars(e)]

DistinctNames(env) ==
    \A i, j \in DOMAIN env : i # j /\ env[i].name = env[j].name => env[i].name = NoEnvName

ValidateBrokerServiceCR(c) ==
    /\ c.memory \in FormMemories \cup {NoMemory}
    /\ DistinctNames(c.env)

(* Variant: label rows with one key twice are accepted. *)
VariantDuplicateLabelsValid ==
    /\ ValidateBrokerServiceCR(service)
    /\ KeysOf(labels) # {}
    /\ DistinctNames(envVars)

(* Variant: only the rows are looked at, not the CR they become. *)
VariantRowsOnlyValid ==
    /\ service.memory \in FormMemories \cup {NoMemory}
    /\ ~HasDuplicates(labels)
    /\ KeysOf(labels) # {}
    /\ DistinctNames(envVars)

(* The Save button is enabled, as far as the form has a say. *)
IsServiceFormValid ==
    /\ ValidateBrokerServiceCR(service)
    /\ ~HasDuplicates(labels)
    /\ KeysOf(labels) # {}
    /\ DistinctNames(envVars)

-----------------------------------------------------------------------------
(* createBrokerServiceStateFromCr: the CR is kept as it is. *)
ServiceInit ==
    /\ service \in ClusterServices
    /\ labels = service.labels
    /\ memory = ParseMemory(service.memory)
    /\ envVars = service.env
    /\ serviceHasChanges = FALSE
    /\ foreignMemory = (service.memory = OtherMemory)

(* The end of the reducer after any action on fields. *)
EditService(l, m, e) ==
    /\ labels' = l
    /\ memory' = m
    /\ envVars' = e
    /\ service' = Synced(l, m, e)
    /\ serviceHasChanges' = TRUE

(* SET_NAME, SET_IMAGE, SET_APP_SELECTOR_EXPRESSION. *)
EditOtherOfService ==
    /\ EditService(labels, memory, envVars)
    /\ UNCHANGED foreignMemory

AddLabel ==
    /\ Len(labels) < MaxLabelRows
    /\ EditService(Append(labels, EmptyLabelRow), memory, envVars)
    /\ UNCHANGED foreignMemory

RemoveLabel(i) ==
    /\ EditService(RemoveAt(labels, i), memory, envVars)
    /\ UNCHANGED foreignMemory

UpdateLabel(i) ==
    /\ Len(labels) <= MaxLabelRows
    /\ \/ \E k \in Keys \cup {NoKey} : EditService([labels EXCEPT ![i].key = k], memory, envVars)
       \/ \E v \in Values : EditService([labels EXCEPT ![i].value = v], memory, envVars)
    /\ UNCHANGED foreignMemory

(* The rows are replaced, whatever they held. *)
CopyLabelsFromService(l) ==
    /\ EditService(l, memory, envVars)
    /\ UNCHANGED foreignMemory

SetMemory(m) ==
    /\ EditService(labels, m, envVars)
    /\ foreignMemory' = FALSE

AddEnvVar ==
    /\ Len(envVars) < MaxLabelRows
    /\ EditService(labels, memory, Append(envVars, [name |-> NoEnvName, value |-> NoValue]))
    /\ UNCHANGED foreignMemory

RemoveEnvVar(i) ==
    /\ EditService(labels, memory, RemoveAt(envVars, i))
    /\ UNCHANGED foreignMemory

UpdateEnvVar(i) ==
    /\ \/ \E n \in EnvNameTexts : EditService(labels, memory, [envVars EXCEPT ![i].name = n])
       \/ \E v \in Values : EditService(labels, memory, [envVars EXCEPT ![i].value = v])
    /\ UNCHANGED foreignMemory

(* Variant: the rows of the form are always kept. *)
VariantSetServiceModelMerges(c, l, changed) ==
    /\ labels' = MergeWithYaml(labels, c.labels)
    /\ memory' = ParseMemory(c.memory)
    /\ envVars' = c.env
    /\ service' = Synced(MergeWithYaml(labels, c.labels), ParseMemory(c.memory), c.env)
    /\ serviceHasChanges' = changed
    /\ foreignMemory' = (c.memory = OtherMemory)

(* Variant: the labels of the document are not written again from the rows. *)
VariantSetServiceModelCopiesLabels(c, l, changed) ==
    /\ labels' = l
    /\ memory' = ParseMemory(c.memory)
    /\ envVars' = c.env
    /\ service' = [Synced(l, ParseMemory(c.memory), c.env) EXCEPT !.labels = c.labels]
    /\ serviceHasChanges' = changed
    /\ foreignMemory' = (c.memory = OtherMemory)

(* SET_MODEL with the rows l for the labels. *)
SetServiceModel(c, l, changed) ==
    /\ labels' = l
    /\ memory' = ParseMemory(c.memory)
    /\ envVars' = c.env
    /\ service' = Synced(l, ParseMemory(c.memory), c.env)
    /\ serviceHasChanges' = changed
    /\ foreignMemory' = (c.memory = OtherMemory)

(* onSwitchToForm of a text that is accepted: labels twice in the rows are    *)
(* kept for the user to correct, at most MaxLabelRows of them here.           *)
SwitchServiceToForm(c) ==
    /\ HasDuplicates(labels) => Len(labels) <= MaxLabelRows
    /\ ValidateBrokerServiceCR(c)
    /\ SetServiceModel(c, IF HasDuplicates(labels) THEN MergeWithYaml(labels, c.labels)
                                                   ELSE c.labels, TRUE)

(* The answer of a reload, which is not validated. *)
ReloadService(c) == SetServiceModel(c, c.labels, FALSE)

ServiceNext ==
    \/ EditOtherOfService
    \/ AddLabel
    \/ \E i \in DOMAIN labels : RemoveLabel(i) \/ UpdateLabel(i)
    \/ \E l \in ServiceLabels : CopyLabelsFromService(l)
    \/ \E m \in Shown \cup {BadMemory} : SetMemory(m)
    \/ AddEnvVar
    \/ \E i \in DOMAIN envVars : RemoveEnvVar(i) \/ UpdateEnvVar(i)
    \/ \E c \in ServiceTexts \cup {service} : SwitchServiceToForm(c)
    \/ \E c \in ClusterServices : ReloadService(c)

-----------------------------------------------------------------------------
(* The rows have their types, and once the form has changed anything the CR   *)
(* says what the rows say.                                                    *)
ServiceTypeOK ==
    /\ IsService(service)
    /\ labels \in Seq(LabelRow)
    /\ memory \in Shown \cup {BadMemory}
    /\ envVars \in Seq(EnvVar)
    /\ serviceHasChanges \in BOOLEAN
    /\ serviceHasChanges => service = Synced(labels, memory, envVars)

(* What Save writes is what the rows show: each row with a key is a label with *)
(* its value, and there is no other, inherited keys aside.                     *)
LabelsAreTheRows ==
    IsServiceFormValid =>
        /\ \A r \in ToSet(labels) :
              r.key \notin Inherited \cup {NoKey} => r \in ToSet(service.labels)
        /\ ToSet(service.labels) \subseteq ToSet(labels)

(* Save writes no environment variable twice, though the fields may hold its   *)
(* name with blanks around it, and leaves out no row with a name.              *)
EnvIsUnambiguous ==
    IsServiceFormValid =>
        /\ IsInjective([i \in DOMAIN service.env |-> service.env[i].name])
        /\ \A e \in ToSet(envVars) :
              TrimEnvName[e.name] # NoEnvName =>
                  [e EXCEPT !.name = TrimEnvName[@]] \in ToSet(service.env)

(* Coming back from the YAML view, the form has the labels of the text, unless *)
(* it had a key twice: then none of its rows is lost, and no row comes in for  *)
(* a key it has already.                                                       *)
TakesLabels ==
    \A c \in ServiceTexts \cup {service} : SwitchServiceToForm(c) =>
        IF HasDuplicates(labels)
        THEN /\ IsPrefix(labels, labels')
             /\ KeysOf(labels') = KeysOf(labels) \cup KeysOf(c.labels)
             /\ Len(labels') = Len(labels) + Cardinality(KeysOf(c.labels) \ KeysOf(labels))
        ELSE labels' = c.labels

(* While the memory that the form was given has a format that its two fields   *)
(* cannot show, Save is disabled.                                              *)
RejectsOtherFormats == foreignMemory => ~IsServiceFormValid

=============================================================================

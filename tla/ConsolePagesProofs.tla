-------------------------- MODULE ConsolePagesProofs --------------------------
(***************************************************************************)
(* The pages of the console, for any labels, resources, documents, answers  *)
(* and tabs: what the forms save, when the Metrics section warns, and that  *)
(* favorites keep their names apart.                                        *)
(***************************************************************************)
EXTENDS ConsolePages, SubsequencesProofs

-----------------------------------------------------------------------------
(* Labels. *)

(* The empty row is a row, and so is one with another key or value. *)
LEMMA RowEdited ==
    /\ EmptyLabelRow \in LabelRow
    /\ \A r \in LabelRow : r.key \in Keys \cup {NoKey} /\ r.value \in Values
    /\ \A r \in LabelRow, k \in Keys \cup {NoKey} : [r EXCEPT !.key = k] \in LabelRow
    /\ \A r \in LabelRow, v \in Values : [r EXCEPT !.value = v] \in LabelRow
    /\ \A k \in Keys : [key |-> k, value |-> NoValue] \in LabelRow
    /\ [key : Keys, value : Values] \subseteq LabelRow
BY LabelAssumption DEF LabelRow, EmptyLabelRow

(* Labels of a CR may be shown as rows. *)
LEMMA LabelsAreRows ==
    ASSUME NEW l, IsLabels(l)
    PROVE  /\ l \in Seq(LabelRow) /\ Len(l) \in Nat /\ DOMAIN l = 1..Len(l)
           /\ \A i \in DOMAIN l : l[i].key \in Keys /\ l[i].key # NoKey
           /\ \A i, j \in DOMAIN l : l[i].key = l[j].key => i = j
<1>1. l \in Seq([key : Keys, value : Values])
  BY DEF IsLabels
<1>2. l \in Seq(LabelRow)
  BY <1>1, RowEdited, SeqMonotonic
<1>3. Len(l) \in Nat /\ DOMAIN l = 1..Len(l)
  BY <1>1, LenProperties
<1>4. \A i \in DOMAIN l : l[i] \in [key : Keys, value : Values]
  BY <1>1, <1>3, ElementOfSeq
<1>5. \A i, j \in DOMAIN l : l[i].key = l[j].key => i = j
  <2> DEFINE f == [i \in DOMAIN l |-> l[i].key]
  <2>1. IsInjective(f)
    BY DEF IsLabels
  <2> QED
    BY <2>1 DEF IsInjective
<1> QED
  BY <1>2, <1>3, <1>4, <1>5, LabelAssumption

(* The keys of rows, at their positions. *)
LEMMA KeysAt ==
    ASSUME NEW rows
    PROVE  \A k : k \in KeysOf(rows) <=> k # NoKey /\ \E i \in DOMAIN rows : rows[i].key = k
BY DEF KeysOf, ToSet

(* Elements at positions have different keys if the positions have. *)
LEMMA KeysStayApart ==
    ASSUME NEW S, NEW s \in Seq(S), NEW P \in SUBSET DOMAIN s,
           \A p, q \in P : p < q => s[p].key # s[q].key
    PROVE  \A m, n \in DOMAIN SubSeqAt(s, P) :
              SubSeqAt(s, P)[m].key = SubSeqAt(s, P)[n].key => m = n
<1> DEFINE u == SubSeqAt(s, P)
           N == Cardinality(P)
<1>1. /\ N \in Nat /\ DOMAIN u = 1..N
      /\ \A n \in 1..N : Nth(P, n) \in P /\ u[n] = s[Nth(P, n)]
      /\ \A m, n \in 1..N : m < n => Nth(P, m) < Nth(P, n)
  <2>1. P \in SUBSET DOMAIN s
    OBVIOUS
  <2> QED
    BY ONLY <2>1, s \in Seq(S), SubSeqAtProperties
<1> HIDE DEF u, N
<1>2. ASSUME NEW m \in 1..N, NEW n \in 1..N, m < n
      PROVE  u[m].key # u[n].key
  BY <1>1, <1>2
<1>3. \A m, n \in 1..N : m = n \/ m < n \/ n < m
  BY <1>1
<1> QED
  BY <1>1, <1>2, <1>3 DEF u

(* The positions that reach the labels of the CR. *)
Recorded(rows) ==
    {i \in DOMAIN rows : /\ rows[i].key \notin Inherited \cup {NoKey}
                         /\ \A j \in 1..(i - 1) : rows[j].key # rows[i].key}

(* The record of any rows is the labels of a CR, made of those rows. *)
LEMMA RecordIsLabels ==
    ASSUME NEW rows \in Seq(LabelRow)
    PROVE  /\ IsLabels(LabelsToRecord(rows))
           /\ ToSet(LabelsToRecord(rows)) = {rows[i] : i \in Recorded(rows)}
<1> DEFINE P == Recorded(rows)
           u == SubSeqAt(rows, P)
<1>1. /\ Len(rows) \in Nat /\ DOMAIN rows = 1..Len(rows)
      /\ \A i \in DOMAIN rows : rows[i] \in LabelRow
  BY LenProperties, ElementOfSeq
<1>2. P \in SUBSET DOMAIN rows
  BY DEF Recorded
<1>3. LabelsToRecord(rows) = u
  BY DEF LabelsToRecord, Recorded
<1>4. \A p \in P : rows[p] \in [key : Keys, value : Values]
  BY <1>1 DEF Recorded, LabelRow
<1>5. \A p, q \in P : p < q => rows[p].key # rows[q].key
  <2> SUFFICES ASSUME NEW p \in P, NEW q \in P, p < q
               PROVE  rows[p].key # rows[q].key
    OBVIOUS
  <2>1. p \in 1..(q - 1)
    BY <1>1, <1>2
  <2> QED
    BY <2>1 DEF Recorded
<1> HIDE DEF P
<1>6. u \in Seq([key : Keys, value : Values])
  BY <1>2, <1>4, SubSeqAtType
<1>7. \A m, n \in DOMAIN u : u[m].key = u[n].key => m = n
  BY <1>2, <1>5, KeysStayApart
<1>8. ToSet(u) = {rows[p] : p \in P}
  BY <1>2, ElementsAt
<1> HIDE DEF u
<1>9. IsLabels(u)
  BY <1>6, <1>7 DEF IsLabels, IsInjective
<1> QED
  BY <1>3, <1>8, <1>9 DEF P

(* Without a key twice, each row with a key of its own is in the record. *)
LEMMA RecordOfDistinct ==
    ASSUME NEW rows \in Seq(LabelRow), ~HasDuplicates(rows)
    PROVE  /\ \A r \in ToSet(rows) :
                 r.key \notin Inherited \cup {NoKey} => r \in ToSet(LabelsToRecord(rows))
           /\ ToSet(LabelsToRecord(rows)) \subseteq ToSet(rows)
<1>1. Len(rows) \in Nat /\ DOMAIN rows = 1..Len(rows)
  BY LenProperties
<1>2. ASSUME NEW i \in DOMAIN rows, rows[i].key \notin Inherited \cup {NoKey}
      PROVE  i \in Recorded(rows)
  <2> SUFFICES ASSUME NEW j \in 1..(i - 1)
               PROVE  rows[j].key # rows[i].key
    BY <1>2 DEF Recorded
  <2>1. j \in DOMAIN rows /\ j # i
    BY <1>1
  <2> QED
    BY <2>1, <1>2 DEF HasDuplicates
<1>3. Recorded(rows) \subseteq DOMAIN rows
  BY DEF Recorded
<1>4. ToSet(LabelsToRecord(rows)) = {rows[i] : i \in Recorded(rows)}
  BY RecordIsLabels
<1>5. ToSet(rows) = {rows[i] : i \in DOMAIN rows}
  BY DEF ToSet
<1> QED
  BY <1>2, <1>3, <1>4, <1>5

(* The positions of labels whose key no row has. *)
Missing(rows, labelsAt) == {i \in DOMAIN labelsAt : labelsAt[i].key \notin KeysOf(rows)}

(* Rows with the labels behind them whose key no row has: how many they are   *)
(* and which keys they have.                                                  *)
LEMMA MissingAppended ==
    ASSUME NEW rows \in Seq(LabelRow), NEW base \in Seq(LabelRow), NEW l, IsLabels(l)
    PROVE  LET u == SubSeqAt(l, Missing(base, l))
           IN  /\ rows \o u \in Seq(LabelRow)
               /\ IsPrefix(rows, rows \o u)
               /\ ToSet(rows \o u) = ToSet(rows) \cup {l[i] : i \in Missing(base, l)}
               /\ Len(rows \o u) = Len(rows) + Cardinality(KeysOf(l) \ KeysOf(base))
<1> DEFINE P == Missing(base, l)
           u == SubSeqAt(l, P)
           t == [n \in DOMAIN u |-> u[n].key]
<1>1. /\ l \in Seq(LabelRow) /\ Len(l) \in Nat /\ DOMAIN l = 1..Len(l)
      /\ \A i \in DOMAIN l : l[i].key \in Keys /\ l[i].key # NoKey
      /\ \A i, j \in DOMAIN l : l[i].key = l[j].key => i = j
  BY LabelsAreRows
<1>2. P \in SUBSET DOMAIN l
  BY DEF Missing
<1>3. \A p, q \in P : p < q => l[p].key # l[q].key
  BY <1>1, <1>2
<1>4. \A k : k \in KeysOf(l) \ KeysOf(base) <=> \E p \in P : l[p].key = k
  BY <1>1, KeysAt DEF Missing
<1> HIDE DEF P
<1>5. u \in Seq(LabelRow)
  BY <1>1, <1>2, SubSeqAtProperties
<1>6. ToSet(u) = {l[p] : p \in P}
  BY <1>1, <1>2, ElementsAt
<1>7. \A m, n \in DOMAIN u : u[m].key = u[n].key => m = n
  BY <1>1, <1>2, <1>3, KeysStayApart
<1> HIDE DEF u
<1>8. /\ Len(u) \in Nat /\ DOMAIN u = 1..Len(u)
      /\ \A i \in DOMAIN u : u[i].key \in Keys \cup {NoKey}
  BY <1>5, LenProperties, ElementOfSeq, RowEdited
<1>9. Len(u) = Cardinality(KeysOf(l) \ KeysOf(base))
  <2>1. t \in Seq(Keys \cup {NoKey}) /\ Len(t) = Len(u) /\ DOMAIN t = DOMAIN u
    BY <1>8
  <2>2. IsInjective(t)
    BY <1>7 DEF IsInjective
  <2>3. ToSet(t) = KeysOf(l) \ KeysOf(base)
    <3>1. \A k : k \in ToSet(t) <=> \E r \in ToSet(u) : r.key = k
      BY DEF ToSet
    <3>2. \A k : k \in ToSet(t) <=> k \in KeysOf(l) \ KeysOf(base)
      BY <3>1, <1>4, <1>6
    <3> QED
      BY <3>2
  <2> QED
    BY <2>1, <2>2, <2>3, NoneTwice
<1>10. rows \o u \in Seq(LabelRow) /\ Len(rows \o u) = Len(rows) + Len(u)
  BY <1>5, ConcatProperties
<1>11. IsPrefix(rows, rows \o u)
  <2>1. Len(rows) \in Nat /\ Len(rows) <= Len(rows \o u)
    BY <1>8, <1>10, LenProperties
  <2>2. SubSeq(rows \o u, 1, Len(rows)) = rows
    BY <1>5, SubSeqOfConcat1, ConcatProperties
  <2>3. SubSeq(rows, 1, Len(rows)) = rows
    BY SubSeqFull
  <2> QED
    BY <2>1, <2>2, <2>3 DEF IsPrefix
<1>12. ToSet(rows \o u) = ToSet(rows) \cup {l[p] : p \in P}
  BY <1>5, <1>6, ElementsOfConcat
<1> QED
  BY <1>9, <1>10, <1>11, <1>12 DEF u, P

(* mergeFormLabelsWithYaml keeps the rows and brings each key once. *)
LEMMA MergedRows ==
    ASSUME NEW rows \in Seq(LabelRow), NEW l, IsLabels(l)
    PROVE  /\ MergeWithYaml(rows, l) \in Seq(LabelRow)
           /\ IsPrefix(rows, MergeWithYaml(rows, l))
           /\ KeysOf(MergeWithYaml(rows, l)) = KeysOf(rows) \cup KeysOf(l)
           /\ Len(MergeWithYaml(rows, l)) = Len(rows) + Cardinality(KeysOf(l) \ KeysOf(rows))
<1> DEFINE m == MergeWithYaml(rows, l)
<1>1. m = rows \o SubSeqAt(l, Missing(rows, l))
  BY DEF MergeWithYaml, Missing
<1>2. /\ m \in Seq(LabelRow) /\ IsPrefix(rows, m)
      /\ ToSet(m) = ToSet(rows) \cup {l[i] : i \in Missing(rows, l)}
      /\ Len(m) = Len(rows) + Cardinality(KeysOf(l) \ KeysOf(rows))
  BY <1>1, MissingAppended
<1> HIDE DEF m
<1>3. KeysOf(m) = KeysOf(rows) \cup KeysOf(l)
  <2>1. ToSet(l) = {l[i] : i \in DOMAIN l}
    BY DEF ToSet
  <2> QED
    BY <2>1, <1>2 DEF KeysOf, Missing
<1> QED
  BY <1>2, <1>3 DEF m

(* Rows stay rows when one of them is typed in, or goes, or is added. *)
LEMMA RowsEdited ==
    ASSUME NEW rows \in Seq(LabelRow)
    PROVE  /\ Append(rows, EmptyLabelRow) \in Seq(LabelRow)
           /\ \A i \in DOMAIN rows : RemoveAt(rows, i) \in Seq(LabelRow)
           /\ \A i \in DOMAIN rows, r \in LabelRow : [rows EXCEPT ![i] = r] \in Seq(LabelRow)
           /\ \A i \in DOMAIN rows, k \in Keys \cup {NoKey} :
                 [rows EXCEPT ![i].key = k] \in Seq(LabelRow)
           /\ \A i \in DOMAIN rows, v \in Values :
                 [rows EXCEPT ![i].value = v] \in Seq(LabelRow)
<1>1. DOMAIN rows = 1..Len(rows) /\ \A i \in DOMAIN rows : rows[i] \in LabelRow
  BY LenProperties, ElementOfSeq
<1>2. \A i \in DOMAIN rows, r \in LabelRow : [rows EXCEPT ![i] = r] \in Seq(LabelRow)
  BY <1>1, ExceptSeq
<1>3. \A i \in DOMAIN rows : RemoveAt(rows, i) \in Seq(LabelRow)
  BY RemoveAtProperties
<1>4. Append(rows, EmptyLabelRow) \in Seq(LabelRow)
  BY RowEdited, AppendProperties
<1>5. \A i \in DOMAIN rows, k \in Keys \cup {NoKey} :
        [rows EXCEPT ![i].key = k] \in Seq(LabelRow)
  <2>1. \A i \in DOMAIN rows, k \in Keys \cup {NoKey} : [rows[i] EXCEPT !.key = k] \in LabelRow
    BY <1>1, RowEdited
  <2> QED
    BY <1>2, <2>1
<1>6. \A i \in DOMAIN rows, v \in Values : [rows EXCEPT ![i].value = v] \in Seq(LabelRow)
  <2>1. \A i \in DOMAIN rows, v \in Values : [rows[i] EXCEPT !.value = v] \in LabelRow
    BY <1>1, RowEdited
  <2> QED
    BY <1>2, <2>1
<1> QED
  BY <1>2, <1>3, <1>4, <1>5, <1>6

-----------------------------------------------------------------------------
(* The form of a BrokerService. *)

(* The CR is what the reducer writes from the rows, or still the one that was *)
(* opened, which the rows show.                                               *)
CRAndRows ==
    \/ service = Synced(labels, memory, envVars)
    \/ service \in ClusterServices /\ labels = service.labels /\ envVars = service.env

ServiceInv == ServiceTypeOK /\ CRAndRows

(* A variable whose name is trimmed. *)
LEMMA TrimmedVariable ==
    ASSUME NEW e \in EnvVar
    PROVE  /\ [e EXCEPT !.name = TrimEnvName[@]] \in EnvVar
           /\ [e EXCEPT !.name = TrimEnvName[@]].name = TrimEnvName[e.name]
           /\ e.name \in EnvNames => [e EXCEPT !.name = TrimEnvName[@]] = e
<1>1. e.name \in EnvNameTexts /\ e.value \in Values
  BY DEF EnvVar
<1>2. TrimEnvName[e.name] \in EnvNameTexts
  BY <1>1, ServiceFormAssumption
<1>3. e.name \in EnvNames => TrimEnvName[e.name] = e.name
  BY ServiceFormAssumption
<1> QED
  BY <1>1, <1>2, <1>3 DEF EnvVar

(* The variables that the CR gets: those with a name, trimmed. *)
LEMMA NamedVariables ==
    ASSUME NEW e \in Seq(EnvVar)
    PROVE  /\ NamedEnvVars(e) \in Seq(EnvVar)
           /\ \A i \in DOMAIN NamedEnvVars(e) : NamedEnvVars(e)[i].name # NoEnvName
           /\ ToSet(NamedEnvVars(e)) =
                {[e[i] EXCEPT !.name = TrimEnvName[@]] :
                    i \in {j \in DOMAIN e : TrimEnvName[e[j].name] # NoEnvName}}
<1> DEFINE t == [i \in DOMAIN e |-> [e[i] EXCEPT !.name = TrimEnvName[@]]]
           P == {i \in DOMAIN e : TrimEnvName[e[i].name] # NoEnvName}
           u == SubSeqAt(t, P)
<1>1. /\ Len(e) \in Nat /\ DOMAIN e = 1..Len(e)
      /\ \A i \in DOMAIN e : e[i] \in EnvVar
  BY LenProperties, ElementOfSeq
<1>2. \A i \in DOMAIN e : t[i] \in EnvVar /\ t[i].name = TrimEnvName[e[i].name]
  BY <1>1, TrimmedVariable
<1>3. t \in Seq(EnvVar) /\ DOMAIN t = DOMAIN e
  <2>1. DOMAIN t = DOMAIN e /\ t = [i \in DOMAIN e |-> t[i]]
    OBVIOUS
  <2> HIDE DEF t
  <2>2. t \in [1..Len(e) -> EnvVar]
    BY <1>1, <1>2, <2>1
  <2> QED
    BY <1>1, <2>1, <2>2, IsASeq
<1>4. P \in SUBSET DOMAIN t /\ \A p \in P : t[p].name # NoEnvName
  BY <1>2
<1>5. NamedEnvVars(e) = u
  BY DEF NamedEnvVars
<1>6. {t[p] : p \in P} = {[e[i] EXCEPT !.name = TrimEnvName[@]] : i \in P}
  OBVIOUS
<1> HIDE DEF t
<1>7. u \in Seq(EnvVar) /\ ToSet(u) = {t[p] : p \in P}
  BY <1>3, <1>4, SubSeqAtProperties, ElementsAt
<1>8. \A i \in DOMAIN u : u[i].name # NoEnvName
  <2>1. \A i \in DOMAIN u : u[i] \in ToSet(u)
    BY DEF ToSet
  <2> QED
    BY <2>1, <1>4, <1>7
<1> QED
  BY <1>5, <1>6, <1>7, <1>8

(* What the reducer writes is a BrokerService. *)
LEMMA SyncedIsService ==
    ASSUME NEW l \in Seq(LabelRow), NEW m \in Memories, NEW e \in Seq(EnvVar)
    PROVE  IsService(Synced(l, m, e))
BY RecordIsLabels, NamedVariables DEF IsService, Synced

(* What the fields show of any memory. *)
LEMMA ParsedMemory ==
    \A m : ParseMemory(m) \in Shown
BY ServiceFormAssumption DEF ParseMemory, Shown

(* An edit leaves rows that the CR is written from. *)
LEMMA EditKeeps ==
    ASSUME NEW l \in Seq(LabelRow), NEW m \in Shown \cup {BadMemory},
           NEW e \in Seq(EnvVar), EditService(l, m, e)
    PROVE  ServiceInv'
<1>1. /\ labels' = l /\ memory' = m /\ envVars' = e /\ service' = Synced(l, m, e)
      /\ serviceHasChanges' = TRUE
  BY DEF EditService
<1>2. IsService(Synced(l, m, e))
  BY SyncedIsService DEF Memories
<1>3. ServiceTypeOK'
  BY <1>1, <1>2 DEF ServiceTypeOK
<1> QED
  BY <1>1, <1>3 DEF ServiceInv, CRAndRows

(* So does a document. *)
LEMMA SetModelKeeps ==
    ASSUME NEW c, IsService(c), NEW l \in Seq(LabelRow), NEW changed \in BOOLEAN,
           SetServiceModel(c, l, changed)
    PROVE  ServiceInv'
<1> DEFINE m == ParseMemory(c.memory)
<1>1. /\ labels' = l /\ memory' = m /\ envVars' = c.env /\ service' = Synced(l, m, c.env)
      /\ serviceHasChanges' = changed
  BY DEF SetServiceModel
<1>2. m \in Shown /\ c.env \in Seq(EnvVar)
  BY ParsedMemory DEF IsService
<1> HIDE DEF m
<1>3. IsService(Synced(l, m, c.env))
  BY <1>2, SyncedIsService DEF Memories
<1>4. ServiceTypeOK'
  BY <1>1, <1>2, <1>3 DEF ServiceTypeOK
<1> QED
  BY <1>1, <1>4 DEF ServiceInv, CRAndRows

(* The form opens on what the cluster has. *)
LEMMA ServiceInitInv == ServiceInit => ServiceInv
<1> SUFFICES ASSUME ServiceInit
             PROVE  ServiceInv
  OBVIOUS
<1>1. /\ service \in ClusterServices /\ labels = service.labels /\ envVars = service.env
      /\ memory = ParseMemory(service.memory) /\ serviceHasChanges = FALSE
  BY DEF ServiceInit
<1>2. IsService(service)
  BY <1>1, ServiceFormAssumption
<1>3. labels \in Seq(LabelRow) /\ envVars \in Seq(EnvVar) /\ memory \in Shown
  BY <1>1, <1>2, LabelsAreRows, ParsedMemory DEF IsService
<1> QED
  BY <1>1, <1>2, <1>3 DEF ServiceInv, ServiceTypeOK, CRAndRows

(* Every action of the form keeps its invariant. *)
LEMMA ServiceNextInv ==
    ASSUME ServiceInv, ServiceNext
    PROVE  ServiceInv'
<1>1. /\ labels \in Seq(LabelRow) /\ memory \in Shown \cup {BadMemory}
      /\ envVars \in Seq(EnvVar) /\ IsService(service)
  BY DEF ServiceInv, ServiceTypeOK
<1>2. /\ DOMAIN envVars = 1..Len(envVars)
      /\ \A i \in DOMAIN envVars : envVars[i] \in EnvVar
  BY <1>1, LenProperties, ElementOfSeq
<1>3. CASE EditOtherOfService
  BY <1>1, <1>3, EditKeeps DEF EditOtherOfService
<1>4. CASE AddLabel
  BY <1>1, <1>4, RowsEdited, EditKeeps DEF AddLabel
<1>5. ASSUME NEW i \in DOMAIN labels, RemoveLabel(i)
      PROVE  ServiceInv'
  BY <1>1, <1>5, RowsEdited, EditKeeps DEF RemoveLabel
<1>6. ASSUME NEW i \in DOMAIN labels, UpdateLabel(i)
      PROVE  ServiceInv'
  <2>1. ASSUME NEW k \in Keys \cup {NoKey},
               EditService([labels EXCEPT ![i].key = k], memory, envVars)
        PROVE  ServiceInv'
    BY <1>1, <2>1, RowsEdited, EditKeeps
  <2>2. ASSUME NEW v \in Values, EditService([labels EXCEPT ![i].value = v], memory, envVars)
        PROVE  ServiceInv'
    BY <1>1, <2>2, RowsEdited, EditKeeps
  <2> QED
    BY <1>6, <2>1, <2>2 DEF UpdateLabel
<1>7. ASSUME NEW l \in ServiceLabels, CopyLabelsFromService(l)
      PROVE  ServiceInv'
  <2>1. l \in Seq(LabelRow)
    BY ServiceLabelAssumption, LabelsAreRows
  <2> QED
    BY <1>1, <1>7, <2>1, EditKeeps DEF CopyLabelsFromService
<1>8. ASSUME NEW m \in Shown \cup {BadMemory}, SetMemory(m)
      PROVE  ServiceInv'
  BY <1>1, <1>8, EditKeeps DEF SetMemory
<1>9. CASE AddEnvVar
  <2>1. [name |-> NoEnvName, value |-> NoValue] \in EnvVar
    BY ServiceFormAssumption, LabelAssumption DEF EnvVar
  <2>2. Append(envVars, [name |-> NoEnvName, value |-> NoValue]) \in Seq(EnvVar)
    BY <1>1, <2>1, AppendProperties
  <2> QED
    BY <1>1, <1>9, <2>2, EditKeeps DEF AddEnvVar
<1>10. ASSUME NEW i \in DOMAIN envVars, RemoveEnvVar(i)
       PROVE  ServiceInv'
  <2>1. RemoveAt(envVars, i) \in Seq(EnvVar)
    BY <1>1, RemoveAtProperties
  <2> QED
    BY <1>1, <1>10, <2>1, EditKeeps DEF RemoveEnvVar
<1>11. ASSUME NEW i \in DOMAIN envVars, UpdateEnvVar(i)
       PROVE  ServiceInv'
  <2>1. \A n \in EnvNameTexts : [envVars[i] EXCEPT !.name = n] \in EnvVar
    BY <1>2 DEF EnvVar
  <2>2. \A v \in Values : [envVars[i] EXCEPT !.value = v] \in EnvVar
    BY <1>2 DEF EnvVar
  <2>3. \A e \in EnvVar : [envVars EXCEPT ![i] = e] \in Seq(EnvVar)
    BY <1>1, <1>2, ExceptSeq
  <2>4. ASSUME NEW n \in EnvNameTexts,
               EditService(labels, memory, [envVars EXCEPT ![i].name = n])
        PROVE  ServiceInv'
    <3>1. [envVars EXCEPT ![i].name = n] \in Seq(EnvVar)
      BY <2>1, <2>3
    <3> QED
      BY <1>1, <2>4, <3>1, EditKeeps
  <2>5. ASSUME NEW v \in Values, EditService(labels, memory, [envVars EXCEPT ![i].value = v])
        PROVE  ServiceInv'
    <3>1. [envVars EXCEPT ![i].value = v] \in Seq(EnvVar)
      BY <2>2, <2>3
    <3> QED
      BY <1>1, <2>5, <3>1, EditKeeps
  <2> QED
    BY <1>11, <2>4, <2>5 DEF UpdateEnvVar
<1>12. ASSUME NEW c \in ServiceTexts \cup {service}, SwitchServiceToForm(c)
       PROVE  ServiceInv'
  <2> DEFINE l == IF HasDuplicates(labels) THEN MergeWithYaml(labels, c.labels) ELSE c.labels
  <2>1. IsService(c)
    BY <1>1, ServiceFormAssumption
  <2>2. IsLabels(c.labels)
    BY <2>1 DEF IsService
  <2>3. l \in Seq(LabelRow)
    BY <1>1, <2>2, MergedRows, LabelsAreRows
  <2>4. SetServiceModel(c, l, TRUE)
    BY <1>12 DEF SwitchServiceToForm
  <2> HIDE DEF l
  <2> QED
    BY <2>1, <2>3, <2>4, SetModelKeeps
<1>13. ASSUME NEW c \in ClusterServices, ReloadService(c)
       PROVE  ServiceInv'
  <2>1. IsService(c)
    BY ServiceFormAssumption
  <2>2. c.labels \in Seq(LabelRow)
    BY <2>1, LabelsAreRows DEF IsService
  <2> QED
    BY <1>13, <2>1, <2>2, SetModelKeeps DEF ReloadService
<1> QED
  BY <1>3, <1>4, <1>5, <1>6, <1>7, <1>8, <1>9, <1>10, <1>11, <1>12, <1>13
  DEF ServiceNext

(* A form that may be saved saves its label rows. *)
LEMMA SavesItsLabels == ServiceInv => LabelsAreTheRows
<1> SUFFICES ASSUME ServiceInv, IsServiceFormValid
             PROVE  /\ \A r \in ToSet(labels) :
                         r.key \notin Inherited \cup {NoKey} => r \in ToSet(service.labels)
                    /\ ToSet(service.labels) \subseteq ToSet(labels)
  BY DEF LabelsAreTheRows
<1>1. labels \in Seq(LabelRow) /\ ~HasDuplicates(labels)
  BY DEF ServiceInv, ServiceTypeOK, IsServiceFormValid
<1>2. CASE service = Synced(labels, memory, envVars)
  BY <1>1, <1>2, RecordOfDistinct DEF Synced
<1>3. CASE labels = service.labels
  BY <1>3
<1> QED
  BY <1>2, <1>3 DEF ServiceInv, CRAndRows

(* A form that may be saved saves its variables, each name once. *)
LEMMA SavesItsVariables == ServiceInv => EnvIsUnambiguous
<1> SUFFICES ASSUME ServiceInv, IsServiceFormValid
             PROVE  /\ IsInjective([i \in DOMAIN service.env |-> service.env[i].name])
                    /\ \A e \in ToSet(envVars) :
                          TrimEnvName[e.name] # NoEnvName =>
                              [e EXCEPT !.name = TrimEnvName[@]] \in ToSet(service.env)
  BY DEF EnvIsUnambiguous
<1>1. envVars \in Seq(EnvVar) /\ DistinctNames(service.env)
  BY DEF ServiceInv, ServiceTypeOK, IsServiceFormValid, ValidateBrokerServiceCR
<1>2. ToSet(envVars) = {envVars[i] : i \in DOMAIN envVars}
  BY DEF ToSet
<1>3. /\ \A i \in DOMAIN service.env : service.env[i].name # NoEnvName
      /\ \A e \in ToSet(envVars) :
            TrimEnvName[e.name] # NoEnvName =>
                [e EXCEPT !.name = TrimEnvName[@]] \in ToSet(service.env)
  <2>1. CASE service = Synced(labels, memory, envVars)
    <3>1. service.env = NamedEnvVars(envVars)
      BY <2>1 DEF Synced
    <3> QED
      BY <1>1, <1>2, <3>1, NamedVariables
  <2>2. CASE service \in ClusterServices /\ envVars = service.env
    <3>1. \A e \in ToSet(service.env) : e.name \in EnvNames
      BY <2>2, ServiceFormAssumption
    <3>2. \A e \in ToSet(envVars) : e \in EnvVar
      BY <1>1, <1>2, LenProperties, ElementOfSeq
    <3>3. \A e \in ToSet(envVars) : [e EXCEPT !.name = TrimEnvName[@]] = e
      BY <2>2, <3>1, <3>2, TrimmedVariable
    <3>4. \A i \in DOMAIN service.env : service.env[i].name # NoEnvName
      BY <1>2, <2>2, <3>1, ServiceFormAssumption
    <3> QED
      BY <2>2, <3>3, <3>4
  <2> QED
    BY <2>1, <2>2 DEF ServiceInv, CRAndRows
<1>4. IsInjective([i \in DOMAIN service.env |-> service.env[i].name])
  BY <1>1, <1>3 DEF DistinctNames, IsInjective
<1> QED
  BY <1>3, <1>4

(* The switch to the form takes the labels of the text. *)
LEMMA SwitchTakes ==
    ASSUME ServiceInv
    PROVE  TakesLabels
<1> SUFFICES ASSUME NEW c \in ServiceTexts \cup {service}, SwitchServiceToForm(c)
             PROVE  IF HasDuplicates(labels)
                    THEN /\ IsPrefix(labels, labels')
                         /\ KeysOf(labels') = KeysOf(labels) \cup KeysOf(c.labels)
                         /\ Len(labels') = Len(labels)
                                           + Cardinality(KeysOf(c.labels) \ KeysOf(labels))
                    ELSE labels' = c.labels
  BY DEF TakesLabels
<1>1. labels \in Seq(LabelRow) /\ IsLabels(c.labels)
  BY ServiceFormAssumption DEF ServiceInv, ServiceTypeOK, IsService
<1>2. labels' = IF HasDuplicates(labels) THEN MergeWithYaml(labels, c.labels) ELSE c.labels
  BY DEF SwitchServiceToForm, SetServiceModel
<1> QED
  BY <1>1, <1>2, MergedRows

-----------------------------------------------------------------------------
(* The form of a BrokerApp: its resources. *)

(* An object with an entry more has that entry, and what it had. *)
LEMMA EntryAdded ==
    ASSUME NEW o, NEW name, NEW value
    PROVE  /\ DOMAIN With(o, name, value) = {name} \cup DOMAIN Fields(o)
           /\ With(o, name, value)[name] = value
           /\ \A x \in DOMAIN Fields(o) : x # name => With(o, name, value)[x] = Fields(o)[x]
BY DEF With

(* The entries of a part of the resources. *)
LEMMA PartFields ==
    ASSUME NEW resources, IsResources(resources), NEW p \in Parts
    PROVE  /\ DOMAIN Fields(PartOf(resources, p)) \subseteq QuantityNames \cup {"storage"}
           /\ Range(Fields(PartOf(resources, p))) \subseteq Quantity
<1>1. /\ DOMAIN << >> = {} /\ Range(<< >>) = {}
  BY DEF Range
<1>2. CASE PartOf(resources, p) = NoObject
  BY <1>1, <1>2 DEF Fields
<1>3. CASE PartOf(resources, p) # NoObject
  BY <1>3 DEF Fields, PartOf, IsResources
<1> QED
  BY <1>2, <1>3

(* Resources with another part that has a quantity are resources, and none of *)
(* their objects is empty if that part is not.                                *)
LEMMA PartReplaced ==
    ASSUME NEW resources, IsResources(resources), NEW p \in Parts, NEW part,
           DOMAIN part \subseteq QuantityNames \cup {"storage"}, Range(part) \subseteq Quantity
    PROVE  /\ IsResources(With(resources, p, part))
           /\ NothingEmpty(resources) /\ DOMAIN part # {} => NothingEmpty(With(resources, p, part))
<1> DEFINE w == With(resources, p, part)
<1>1. /\ DOMAIN w = {p} \cup DOMAIN Fields(resources) /\ w[p] = part
      /\ \A x \in DOMAIN Fields(resources) : x # p => w[x] = Fields(resources)[x]
  BY DEF With
<1>2. Fields(resources) = IF resources = NoObject THEN << >> ELSE resources
  BY DEF Fields
<1>3. DOMAIN << >> = {}
  OBVIOUS
<1> HIDE DEF w
<1>4. IsResources(w)
  BY <1>1, <1>2, <1>3 DEF IsResources, Parts
<1>5. ASSUME NothingEmpty(resources), DOMAIN part # {}, w # NoObject
      PROVE  NothingEmpty(w)
  <2>1. DOMAIN w # {}
    BY <1>1
  <2>2. ASSUME NEW x \in Parts, PartOf(w, x) # NoObject
        PROVE  DOMAIN w[x] # {}
    <3>1. CASE x = p
      BY <3>1, <1>1, <1>5
    <3>2. CASE x # p
      <4>1. x \in DOMAIN Fields(resources) /\ w[x] = Fields(resources)[x] /\ w[x] # NoObject
        BY <2>2, <3>2, <1>1 DEF PartOf
      <4>2. resources # NoObject /\ PartOf(resources, x) = w[x]
        BY <4>1, <1>2, <1>3 DEF PartOf
      <4> QED
        BY <4>1, <4>2, <1>2, <1>5 DEF NothingEmpty
    <3> QED
      BY <3>1, <3>2
  <2> QED
    BY <2>1, <2>2 DEF NothingEmpty
<1> QED
  BY <1>4, <1>5 DEF w, NothingEmpty

(* A quantity that is set is one more entry of its part. *)
LEMMA QuantitySet ==
    ASSUME NEW resources, IsResources(resources), NothingEmpty(resources),
           NEW p \in Parts, NEW name \in QuantityNames, NEW quantity \in Quantity
    PROVE  LET r == With(resources, p, With(PartOf(resources, p), name, quantity))
           IN  IsResources(r) /\ NothingEmpty(r)
<1> DEFINE part == With(PartOf(resources, p), name, quantity)
<1>1. /\ DOMAIN part = {name} \cup DOMAIN Fields(PartOf(resources, p)) /\ part[name] = quantity
      /\ \A x \in DOMAIN Fields(PartOf(resources, p)) :
            x # name => part[x] = Fields(PartOf(resources, p))[x]
  BY DEF With
<1> HIDE DEF part
<1>2. /\ DOMAIN part \subseteq QuantityNames \cup {"storage"}
      /\ Range(part) \subseteq Quantity /\ DOMAIN part # {}
  BY <1>1, PartFields DEF Range
<1>3. IsResources(With(resources, p, part)) /\ NothingEmpty(With(resources, p, part))
  BY <1>2, PartReplaced
<1> QED
  BY <1>3 DEF part

(* cleanupResources leaves no empty object. *)
LEMMA CleanedUp ==
    ASSUME NEW resources, IsResources(resources), resources # NoObject
    PROVE  IsResources(CleanupResources(resources)) /\ NothingEmpty(CleanupResources(resources))
<1> DEFINE empty == {p \in Parts : PartOf(resources, p) # NoObject /\ DOMAIN resources[p] = {}}
           kept == Restrict(resources, DOMAIN resources \ empty)
           cleaned == CleanupResources(resources)
<1>1. cleaned = IF DOMAIN kept = {} THEN NoObject ELSE kept
  BY DEF CleanupResources
<1>2. /\ DOMAIN kept = DOMAIN resources \ empty
      /\ \A x \in DOMAIN kept : kept[x] = resources[x]
  BY DEF Restrict
<1> HIDE DEF kept, cleaned
<1>3. IsResources(cleaned)
  BY <1>1, <1>2 DEF IsResources
<1>4. ASSUME NEW p \in Parts, cleaned # NoObject, PartOf(cleaned, p) # NoObject
      PROVE  DOMAIN cleaned[p] # {}
  <2>1. cleaned = kept /\ p \in DOMAIN kept /\ kept[p] # NoObject
    BY <1>1, <1>4 DEF PartOf
  <2>2. PartOf(resources, p) = kept[p] /\ p \notin empty
    BY <1>2, <2>1 DEF PartOf
  <2> QED
    BY <1>2, <2>1, <2>2
<1>5. NothingEmpty(cleaned)
  BY <1>1, <1>4 DEF NothingEmpty
<1> QED
  BY <1>3, <1>5 DEF cleaned

(* Nor does clearing a field. *)
LEMMA QuantityCleared ==
    ASSUME NEW resources, IsResources(resources), NothingEmpty(resources),
           NEW p \in Parts, NEW name \in QuantityNames
    PROVE  LET r == Cleared(resources, p, name)
           IN  IsResources(r) /\ NothingEmpty(r)
<1>1. CASE resources = NoObject
  BY <1>1 DEF Cleared, IsResources, NothingEmpty
<1>2. CASE resources # NoObject /\ PartOf(resources, p) = NoObject
  BY <1>2, CleanedUp DEF Cleared
<1>3. CASE resources # NoObject /\ PartOf(resources, p) # NoObject
  <2> DEFINE part == Without(resources[p], name)
             w == With(resources, p, part)
  <2>1. Fields(PartOf(resources, p)) = resources[p] /\ Fields(resources[p]) = resources[p]
    BY <1>3 DEF Fields, PartOf
  <2>2. DOMAIN part \subseteq DOMAIN resources[p] /\ Range(part) \subseteq Range(resources[p])
    BY DEF Without, Restrict, Range
  <2> HIDE DEF part
  <2>3. DOMAIN part \subseteq QuantityNames \cup {"storage"} /\ Range(part) \subseteq Quantity
    BY <2>1, <2>2, PartFields
  <2>4. IsResources(w)
    BY <2>3, PartReplaced
  <2>5. Cleared(resources, p, name) = CleanupResources(w)
    BY <1>3 DEF Cleared, part
  <2>6. CASE w # NoObject
    BY <2>4, <2>5, <2>6, CleanedUp
  <2>7. CASE w = NoObject
    <3>1. {x \in Parts : PartOf(w, x) # NoObject /\ DOMAIN w[x] = {}} = {}
      BY <2>7 DEF PartOf
    <3>2. Restrict(w, DOMAIN w \ {}) = w
      BY DEF Restrict, With
    <3>3. Cleared(resources, p, name) = NoObject
      BY <2>5, <2>7, <3>1, <3>2 DEF CleanupResources
    <3> QED
      BY <3>3 DEF IsResources, NothingEmpty
  <2> QED
    BY <2>6, <2>7
<1> QED
  BY <1>1, <1>2, <1>3


-----------------------------------------------------------------------------
(* The form of a BrokerApp: its rows and the copy modal. *)

(* The modal ticks only keys that the service has. *)
AppInv ==
    /\ AppTypeOK
    /\ matchLabels # <<>>
    /\ NothingEmpty(app.resources)
    /\ copying.phase = "labels" => copying.keys \subseteq KeysOf(copying.labels)

(* There is always a row for labels of a CR. *)
LEMMA RowsShown ==
    ASSUME NEW l, IsLabels(l)
    PROVE  MatchLabelsFromRecord(l) \in Seq(LabelRow) /\ MatchLabelsFromRecord(l) # << >>
BY LabelsAreRows, RowEdited DEF MatchLabelsFromRecord

(* A CR with the selector of some rows is a CR, with those resources. *)
LEMMA SelectorWritten ==
    ASSUME NEW c, IsApp(c), NEW rows \in Seq(LabelRow)
    PROVE  /\ IsApp(WithSelector(c, rows))
           /\ WithSelector(c, rows).selector = LabelsToRecord(rows)
           /\ WithSelector(c, rows).resources = c.resources
<1> DEFINE w == WithSelector(c, rows)
<1>1. DOMAIN c = {"selector", "resources"} /\ IsResources(c.resources)
  BY DEF IsApp
<1>2. /\ DOMAIN w = {"selector", "resources"}
      /\ w.selector = LabelsToRecord(rows) /\ w.resources = c.resources
  BY <1>1 DEF WithSelector
<1> HIDE DEF w
<1> QED
  BY <1>1, <1>2, RecordIsLabels DEF IsApp, w

(* An edit of the rows keeps the invariant, and so does closing the modal by *)
(* it.                                                                       *)
LEMMA RowsKeep ==
    ASSUME AppInv, NEW rows \in Seq(LabelRow), rows # << >>, EditRows(rows),
           copying' \in {copying, Closed}
    PROVE  AppInv'
<1>1. IsApp(app) /\ NothingEmpty(app.resources)
  BY DEF AppInv, AppTypeOK
<1>2. matchLabels' = rows /\ app' = WithSelector(app, rows) /\ appHasChanges' = TRUE
  BY DEF EditRows
<1>3. /\ IsApp(app') /\ app'.selector = LabelsToRecord(rows)
      /\ app'.resources = app.resources
  BY <1>1, <1>2, SelectorWritten
<1>4. AppTypeOK'
  BY <1>2, <1>3 DEF AppInv, AppTypeOK
<1>5. (copying.phase = "labels" => copying.keys \subseteq KeysOf(copying.labels))'
  BY DEF AppInv, Closed
<1> QED
  BY <1>1, <1>2, <1>3, <1>4, <1>5 DEF AppInv

(* So does a document. *)
LEMMA AppModelKeeps ==
    ASSUME AppInv, NEW c, IsApp(c), NothingEmpty(c.resources),
           NEW rows \in Seq(LabelRow), rows # << >>, NEW changed \in BOOLEAN,
           SetAppModel(c, rows, changed)
    PROVE  AppInv'
<1>1. /\ matchLabels' = rows /\ app' = WithSelector(c, rows) /\ appHasChanges' = changed
      /\ copying' = copying
  BY DEF SetAppModel
<1>2. /\ IsApp(app') /\ app'.selector = LabelsToRecord(rows)
      /\ app'.resources = c.resources
  BY <1>1, SelectorWritten
<1>3. AppTypeOK'
  BY <1>1, <1>2 DEF AppInv, AppTypeOK
<1> QED
  BY <1>1, <1>2, <1>3 DEF AppInv

(* So do other resources of which none is empty. *)
LEMMA ResourcesKeep ==
    ASSUME AppInv, NEW r, IsResources(r), NothingEmpty(r), EditResources(r)
    PROVE  AppInv'
<1> DEFINE w == WithSelector(app, matchLabels)
<1>1. IsApp(app) /\ matchLabels \in Seq(LabelRow)
  BY DEF AppInv, AppTypeOK
<1>2. IsApp(w) /\ w.selector = LabelsToRecord(matchLabels)
  BY <1>1, SelectorWritten
<1>3. /\ app' = [w EXCEPT !.resources = r] /\ appHasChanges' = TRUE
      /\ matchLabels' = matchLabels /\ copying' = copying
  BY DEF EditResources
<1> HIDE DEF w
<1>4. IsApp(app') /\ app'.selector = LabelsToRecord(matchLabels) /\ app'.resources = r
  BY <1>2, <1>3 DEF IsApp
<1>5. AppTypeOK'
  BY <1>3, <1>4 DEF AppInv, AppTypeOK
<1> QED
  BY <1>3, <1>4, <1>5 DEF AppInv

(* The labels that are ticked are labels, with the keys that are ticked. *)
LEMMA ChosenAreLabels ==
    ASSUME AppInv, copying.phase = "labels"
    PROVE  IsLabels(Chosen) /\ KeysOf(Chosen) = copying.keys
<1> DEFINE l == copying.labels
           P == {i \in DOMAIN l : l[i].key \in copying.keys}
           u == SubSeqAt(l, P)
<1>1. copying.labels \in ServiceLabels
  BY DEF AppInv, AppTypeOK, Closed, NoneSelected
<1>2. IsLabels(l) /\ copying.keys \subseteq KeysOf(l)
  BY <1>1, ServiceLabelAssumption DEF AppInv
<1>3. u = Chosen
  BY DEF Chosen
<1>4. /\ P \in SUBSET DOMAIN l
      /\ \A k : k \in copying.keys <=> \E p \in P : l[p].key = k
  BY <1>2, KeysAt
<1> HIDE DEF l
<1>5. /\ l \in Seq([key : Keys, value : Values]) /\ Len(l) \in Nat /\ DOMAIN l = 1..Len(l)
      /\ \A i \in DOMAIN l : l[i] \in [key : Keys, value : Values] /\ l[i].key # NoKey
      /\ \A i, j \in DOMAIN l : l[i].key = l[j].key => i = j
  BY <1>2, LabelsAreRows, ElementOfSeq DEF IsLabels
<1> HIDE DEF P
<1>6. \A p, q \in P : p < q => l[p].key # l[q].key
  BY <1>4, <1>5
<1>7. /\ u \in Seq([key : Keys, value : Values])
      /\ \A m, n \in DOMAIN u : u[m].key = u[n].key => m = n
      /\ ToSet(u) = {l[p] : p \in P}
  BY <1>4, <1>5, <1>6, SubSeqAtType, KeysStayApart, ElementsAt
<1> HIDE DEF u
<1>8. IsLabels(u)
  BY <1>7 DEF IsLabels, IsInjective
<1>9. \A k : k \in KeysOf(u) <=> k \in copying.keys
  BY <1>4, <1>5, <1>7 DEF KeysOf
<1> QED
  BY <1>3, <1>8, <1>9

(* Labels copied behind rows: no row with a key is lost, each label has a row, *)
(* and what was in the selector still is.                                      *)
LEMMA CopiedKeeps ==
    ASSUME NEW rows \in Seq(LabelRow), NEW l, IsLabels(l)
    PROVE  /\ CopiedRows(rows, l) \in Seq(LabelRow)
           /\ {r \in ToSet(rows) : r.key # NoKey} \subseteq ToSet(CopiedRows(rows, l))
           /\ KeysOf(CopiedRows(rows, l)) = KeysOf(rows) \cup KeysOf(l)
           /\ ToSet(LabelsToRecord(rows)) \subseteq ToSet(LabelsToRecord(CopiedRows(rows, l)))
<1> DEFINE P == {i \in DOMAIN rows : rows[i] # EmptyLabelRow}
           u == SubSeqAt(rows, P)
           w == SubSeqAt(l, Missing(rows, l))
           m == CopiedRows(rows, l)
<1>1. /\ Len(rows) \in Nat /\ DOMAIN rows = 1..Len(rows)
      /\ ToSet(rows) = {rows[i] : i \in DOMAIN rows}
  BY LenProperties DEF ToSet
<1>2. P \in SUBSET DOMAIN rows /\ \A i \in DOMAIN rows : rows[i].key # NoKey => i \in P
  BY DEF EmptyLabelRow
<1>3. m = u \o w
  BY DEF CopiedRows, Missing
<1> HIDE DEF P
<1>4. /\ u \in Seq(LabelRow) /\ ToSet(u) = {rows[p] : p \in P}
      /\ Len(u) = Cardinality(P) /\ Cardinality(P) \in Nat
      /\ \A n \in 1..Cardinality(P) : Nth(P, n) \in P /\ u[n] = rows[Nth(P, n)]
      /\ \A i, n \in 1..Cardinality(P) : i < n => Nth(P, i) < Nth(P, n)
      /\ \A p \in P : \E n \in 1..Cardinality(P) : Nth(P, n) = p
  BY <1>2, SubSeqAtProperties, ElementsAt
<1> HIDE DEF u
<1>5. m \in Seq(LabelRow) /\ ToSet(m) = ToSet(u) \cup {l[i] : i \in Missing(rows, l)}
  <2>1. /\ u \o w \in Seq(LabelRow)
        /\ ToSet(u \o w) = ToSet(u) \cup {l[i] : i \in Missing(rows, l)}
    BY ONLY <1>4, rows \in Seq(LabelRow), IsLabels(l), MissingAppended
  <2> QED
    BY <1>3, <2>1
<1>6. \A n \in 1..Cardinality(P) : n \in DOMAIN m /\ m[n] = u[n]
  <2>1. IsPrefix(u, m)
    BY <1>3, <1>4, MissingAppended
  <2>2. Len(u) \in Nat /\ Len(m) \in Nat /\ DOMAIN m = 1..Len(m) /\ Len(u) <= Len(m)
    BY <1>4, <1>5, <2>1, LenProperties DEF IsPrefix
  <2>3. SubSeq(m, 1, Len(u)) = u
    BY <1>4, <2>1, SubSeqFull DEF IsPrefix
  <2>4. \A n \in 1..Len(u) : SubSeq(m, 1, Len(u))[n] = m[n]
    BY <1>5, <2>2, SubSeqProperties
  <2> QED
    BY <1>4, <2>2, <2>3, <2>4
<1> HIDE DEF m, w
<1>7. {r \in ToSet(rows) : r.key # NoKey} \subseteq ToSet(m)
  BY <1>1, <1>2, <1>4, <1>5
<1>8. KeysOf(m) = KeysOf(rows) \cup KeysOf(l)
  <2>1. \A k : k \in KeysOf(m) <=> k \in KeysOf(rows) \cup KeysOf(l)
    <3>1. \A k : k \in KeysOf(m) <=> k # NoKey /\ \E r \in ToSet(m) : r.key = k
      BY DEF KeysOf
    <3>2. \A k : /\ k \in KeysOf(rows) <=> k # NoKey /\ \E i \in DOMAIN rows : rows[i].key = k
                 /\ k \in KeysOf(l) <=> k # NoKey /\ \E i \in DOMAIN l : l[i].key = k
      BY KeysAt
    <3>3. /\ \A r \in ToSet(m) : \/ \E i \in DOMAIN rows : r = rows[i]
                                 \/ \E i \in DOMAIN l : r = l[i]
          /\ \A i \in DOMAIN rows : rows[i].key # NoKey => rows[i] \in ToSet(m)
          /\ \A i \in DOMAIN l : l[i].key \notin KeysOf(rows) => l[i] \in ToSet(m)
      BY <1>1, <1>2, <1>4, <1>5 DEF Missing
    <3> QED
      BY <3>1, <3>2, <3>3
  <2> QED
    BY <2>1
<1>9. ASSUME NEW i \in Recorded(rows)
      PROVE  rows[i] \in {m[n] : n \in Recorded(m)}
  <2>1. /\ i \in DOMAIN rows /\ rows[i].key \notin Inherited \cup {NoKey}
        /\ \A j \in 1..(i - 1) : rows[j].key # rows[i].key
    BY DEF Recorded
  <2>2. PICK n \in 1..Cardinality(P) : Nth(P, n) = i
    BY <1>2, <1>4, <2>1
  <2>3. m[n] = rows[i] /\ n \in DOMAIN m
    BY <1>4, <1>6, <2>2
  <2>4. ASSUME NEW j \in 1..(n - 1)
        PROVE  m[j].key # m[n].key
    <3>1. j \in 1..Cardinality(P) /\ j < n
      BY <1>4
    <3>2. Nth(P, j) \in DOMAIN rows /\ Nth(P, j) < i /\ m[j] = rows[Nth(P, j)]
      BY <1>2, <1>4, <1>6, <2>2, <3>1
    <3>3. Nth(P, j) \in 1..(i - 1)
      BY <1>1, <2>1, <3>2
    <3> QED
      BY <2>1, <2>3, <3>2, <3>3
  <2>5. n \in Recorded(m)
    BY <2>1, <2>3, <2>4 DEF Recorded
  <2> QED
    BY <2>3, <2>5
<1>10. ToSet(LabelsToRecord(rows)) \subseteq ToSet(LabelsToRecord(m))
  BY <1>5, <1>9, RecordIsLabels
<1> QED
  BY <1>5, <1>7, <1>8, <1>10 DEF m

(* The rows after a copy: there is a row, as a key was ticked. *)
LEMMA CopyWrites ==
    ASSUME AppInv, HandleConfirmCopy
    PROVE  /\ CopiedRows(matchLabels, Chosen) \in Seq(LabelRow)
           /\ CopiedRows(matchLabels, Chosen) # << >>
           /\ EditRows(CopiedRows(matchLabels, Chosen))
           /\ copying' = Closed
<1> DEFINE m == CopiedRows(matchLabels, Chosen)
<1>1. matchLabels \in Seq(LabelRow) /\ copying.phase = "labels" /\ copying.keys # {}
  BY DEF AppInv, AppTypeOK, HandleConfirmCopy
<1>2. IsLabels(Chosen) /\ KeysOf(Chosen) = copying.keys
  BY <1>1, ChosenAreLabels
<1>3. m \in Seq(LabelRow) /\ KeysOf(m) = KeysOf(matchLabels) \cup copying.keys
  BY <1>1, <1>2, CopiedKeeps
<1>4. /\ EditRows(IF m = << >> THEN <<EmptyLabelRow>> ELSE m)
      /\ copying' = Closed
  BY DEF HandleConfirmCopy
<1> HIDE DEF m
<1>5. m # << >>
  <2>1. KeysOf(<< >>) = {}
    BY DEF KeysOf, ToSet
  <2> QED
    BY <1>1, <1>3, <2>1
<1> QED
  BY <1>3, <1>4, <1>5 DEF m

(* A copy keeps the choices that were made. *)
LEMMA CopiesWhatWasTicked ==
    ASSUME AppInv
    PROVE  CopyKeeps
<1> SUFFICES ASSUME HandleConfirmCopy
             PROVE  /\ {r \in ToSet(matchLabels) : r.key # NoKey} \subseteq ToSet(matchLabels')
                    /\ ToSet(app.selector) \subseteq ToSet(app'.selector)
                    /\ KeysOf(matchLabels') = KeysOf(matchLabels) \cup copying.keys
  BY DEF CopyKeeps
<1>1. /\ matchLabels \in Seq(LabelRow) /\ IsApp(app)
      /\ app.selector = LabelsToRecord(matchLabels)
      /\ copying.phase = "labels"
  BY DEF AppInv, AppTypeOK, HandleConfirmCopy
<1>2. IsLabels(Chosen) /\ KeysOf(Chosen) = copying.keys
  BY <1>1, ChosenAreLabels
<1>3. /\ CopiedRows(matchLabels, Chosen) \in Seq(LabelRow)
      /\ matchLabels' = CopiedRows(matchLabels, Chosen)
      /\ app' = WithSelector(app, CopiedRows(matchLabels, Chosen))
  BY CopyWrites DEF EditRows
<1>4. app'.selector = LabelsToRecord(matchLabels')
  BY <1>1, <1>3, SelectorWritten
<1> QED
  BY <1>1, <1>2, <1>3, <1>4, CopiedKeeps

(* The form opens on what the cluster has, or empty. *)
LEMMA AppInitInv == AppInit => AppInv
<1> SUFFICES ASSUME AppInit
             PROVE  AppInv
  OBVIOUS
<1> DEFINE new == [selector |-> << >>, resources |-> NoObject]
<1>1. PICK c \in ClusterApps \cup {new} :
         /\ matchLabels = MatchLabelsFromRecord(c.selector)
         /\ app = WithSelector(c, MatchLabelsFromRecord(c.selector))
  BY DEF AppInit
<1>2. IsApp(c) /\ NothingEmpty(c.resources)
  <2>1. IsLabels(<< >>)
    BY DEF IsLabels, IsInjective
  <2>2. IsApp(new) /\ NothingEmpty(new.resources)
    BY <2>1 DEF IsApp, IsResources, NothingEmpty
  <2> QED
    BY <2>2, AppFormAssumption
<1>3. matchLabels \in Seq(LabelRow) /\ matchLabels # << >>
  BY <1>1, <1>2, RowsShown DEF IsApp
<1>4. IsApp(app) /\ app.selector = LabelsToRecord(matchLabels) /\ app.resources = c.resources
  BY <1>1, <1>2, <1>3, SelectorWritten
<1>5. appHasChanges = FALSE /\ copying = Closed
  BY DEF AppInit
<1> QED
  BY <1>2, <1>3, <1>4, <1>5 DEF AppInv, AppTypeOK, Closed

(* Every action on the rows keeps the invariant. *)
LEMMA EditSelectorKeeps ==
    ASSUME AppInv, EditSelector
    PROVE  AppInv'
<1>1. /\ matchLabels \in Seq(LabelRow) /\ matchLabels # << >>
      /\ Len(matchLabels) \in Nat /\ DOMAIN matchLabels = 1..Len(matchLabels)
      /\ \A i \in DOMAIN matchLabels : matchLabels[i] \in LabelRow
  BY LenProperties, ElementOfSeq DEF AppInv, AppTypeOK
<1>2. CASE AddMatchLabel
  <2>1. /\ Append(matchLabels, EmptyLabelRow) \in Seq(LabelRow)
        /\ Append(matchLabels, EmptyLabelRow) # << >>
    BY <1>1, RowEdited, AppendProperties
  <2> QED
    BY <1>2, <2>1, RowsKeep DEF AddMatchLabel
<1>3. ASSUME NEW i \in DOMAIN matchLabels, RemoveMatchLabel(i)
      PROVE  AppInv'
  <2>1. <<EmptyLabelRow>> \in Seq(LabelRow) /\ <<EmptyLabelRow>> # << >>
    BY RowEdited
  <2>2. CASE Len(matchLabels) = 1
    BY <1>3, <2>1, <2>2, RowsKeep DEF RemoveMatchLabel
  <2>3. CASE Len(matchLabels) # 1
    <3>1. /\ RemoveAt(matchLabels, i) \in Seq(LabelRow)
          /\ Len(RemoveAt(matchLabels, i)) = Len(matchLabels) - 1
      BY <1>1, RemoveAtProperties
    <3>2. Len(matchLabels) > 1
      BY <1>1, <2>3
    <3>3. RemoveAt(matchLabels, i) # << >>
      BY <1>1, <3>1, <3>2
    <3> QED
      BY <1>3, <2>3, <3>1, <3>3, RowsKeep DEF RemoveMatchLabel
  <2> QED
    BY <2>2, <2>3
<1>4. ASSUME NEW i \in DOMAIN matchLabels, NEW r \in LabelRow, EditRow(i, r)
      PROVE  AppInv'
  <2>1. [matchLabels EXCEPT ![i] = r] \in Seq(LabelRow)
    BY <1>1, RowsEdited
  <2>2. [matchLabels EXCEPT ![i] = r] # << >>
    BY <1>1
  <2> QED
    BY <1>4, <2>1, <2>2, RowsKeep DEF EditRow
<1>5. ASSUME NEW i \in DOMAIN matchLabels, NEW k \in Keys \cup {NoKey}, TypeKey(i, k)
      PROVE  AppInv'
  <2>1. [matchLabels[i] EXCEPT !.key = k] \in LabelRow
    BY <1>1, RowEdited
  <2> QED
    BY <1>4, <1>5, <2>1 DEF TypeKey
<1>6. ASSUME NEW i \in DOMAIN matchLabels, NEW k \in Keys \cup {NoKey}, SelectKey(i, k)
      PROVE  AppInv'
  <2>1. k \in UNION {KeysOf(l) : l \in ServiceLabels}
    BY <1>6 DEF SelectKey
  <2>2. k # NoKey
    BY <2>1 DEF KeysOf
  <2>3. [key |-> k, value |-> NoValue] \in LabelRow
    BY <2>2, RowEdited
  <2> QED
    BY <1>4, <1>6, <2>3 DEF SelectKey
<1>7. ASSUME NEW i \in DOMAIN matchLabels, NEW v \in Values, SetValue(i, v)
      PROVE  AppInv'
  <2>1. [matchLabels[i] EXCEPT !.value = v] \in LabelRow
    BY <1>1, RowEdited
  <2> QED
    BY <1>4, <1>7, <2>1 DEF SetValue
<1> QED
  BY <1>2, <1>3, <1>5, <1>6, <1>7 DEF EditSelector

(* So does every action of the copy modal. *)
LEMMA CopyLabelsKeeps ==
    ASSUME AppInv, CopyLabels
    PROVE  AppInv'
<1> DEFINE FormAsBefore == UNCHANGED <<matchLabels, app, appHasChanges>>
           IsCopying(c) ==
             /\ c \in {Closed, NoneSelected}
                        \cup [phase : {"labels"}, labels : ServiceLabels, keys : SUBSET Keys]
             /\ c.phase = "labels" => c.keys \subseteq KeysOf(c.labels)
<1>1. ASSUME FormAsBefore, IsCopying(copying')
      PROVE  AppInv'
  BY <1>1 DEF AppInv, AppTypeOK
<1>2. CASE OpenCopyLabels
  BY <1>1, <1>2 DEF OpenCopyLabels, NoneSelected
<1>3. ASSUME NEW l \in ServiceLabels, HandleSelectService(l)
      PROVE  AppInv'
  <2>1. KeysOf(l) \subseteq Keys
    <3>1. IsLabels(l)
      BY ServiceLabelAssumption
    <3> QED
      BY <3>1, KeysAt, LabelsAreRows
  <2>2. copying' = [phase |-> "labels", labels |-> l, keys |-> KeysOf(l)]
    BY <1>3 DEF HandleSelectService
  <2>3. IsCopying(copying')
    BY <2>1, <2>2
  <2> QED
    BY <1>1, <1>3, <2>3 DEF HandleSelectService
<1>4. ASSUME NEW k \in Keys, ToggleKey(k)
      PROVE  AppInv'
  <2>1. /\ copying \in [phase : {"labels"}, labels : ServiceLabels, keys : SUBSET Keys]
        /\ copying.keys \subseteq KeysOf(copying.labels) /\ k \in KeysOf(copying.labels)
    BY <1>4 DEF AppInv, AppTypeOK, ToggleKey, Closed, NoneSelected
  <2> DEFINE ticked == IF k \in copying.keys THEN copying.keys \ {k} ELSE copying.keys \cup {k}
  <2>2. copying' = [copying EXCEPT !.keys = ticked]
    BY <1>4 DEF ToggleKey
  <2>3. ticked \subseteq Keys /\ ticked \subseteq KeysOf(copying.labels)
    BY <2>1
  <2> HIDE DEF ticked
  <2>4. IsCopying(copying')
    BY <2>1, <2>2, <2>3
  <2> QED
    BY <1>1, <1>4, <2>4 DEF ToggleKey
<1>5. CASE CloseCopyLabels
  BY <1>1, <1>5 DEF CloseCopyLabels, Closed
<1>6. CASE HandleConfirmCopy
  BY <1>6, CopyWrites, RowsKeep
<1> QED
  BY <1>2, <1>3, <1>4, <1>5, <1>6 DEF CopyLabels

(* And every other one. *)
LEMMA AppNextInv ==
    ASSUME AppInv, AppNext
    PROVE  AppInv'
<1>1. /\ matchLabels \in Seq(LabelRow) /\ matchLabels # << >>
      /\ IsApp(app) /\ IsResources(app.resources) /\ NothingEmpty(app.resources)
  BY DEF AppInv, AppTypeOK, IsApp
<1>2. ASSUME NEW p \in Parts, NEW n \in QuantityNames, ClearQuantity(p, n)
      PROVE  AppInv'
  BY <1>1, <1>2, QuantityCleared, ResourcesKeep DEF ClearQuantity
<1>3. ASSUME NEW p \in Parts, NEW n \in QuantityNames, NEW q \in Quantity, SetQuantity(p, n, q)
      PROVE  AppInv'
  BY <1>1, <1>3, QuantitySet, ResourcesKeep DEF SetQuantity
<1>4. CASE EditOtherField
  BY <1>1, <1>4, ResourcesKeep DEF EditOtherField
<1>5. ASSUME NEW c \in AppTexts \cup {app}, SwitchAppToForm(c)
      PROVE  AppInv'
  <2> DEFINE rows == IF HasDuplicates(matchLabels)
                     THEN MergeWithYaml(matchLabels, c.selector)
                     ELSE MatchLabelsFromRecord(c.selector)
  <2>1. IsApp(c) /\ NothingEmpty(c.resources) /\ IsLabels(c.selector)
    BY <1>1, AppFormAssumption DEF IsApp
  <2>2. rows \in Seq(LabelRow) /\ rows # << >>
    <3>1. CASE HasDuplicates(matchLabels)
      <4>1. rows \in Seq(LabelRow) /\ IsPrefix(matchLabels, rows)
        BY <1>1, <2>1, <3>1, MergedRows
      <4>2. Len(matchLabels) <= Len(rows) /\ Len(matchLabels) \in Nat /\ Len(matchLabels) # 0
        BY <1>1, <4>1, LenProperties, EmptySeq DEF IsPrefix
      <4>3. Len(<< >>) = 0
        OBVIOUS
      <4> HIDE DEF rows
      <4>4. rows # << >>
        BY <4>2, <4>3
      <4> QED
        BY <4>1, <4>4
    <3>2. CASE ~HasDuplicates(matchLabels)
      BY <2>1, <3>2, RowsShown
    <3> QED
      BY <3>1, <3>2
  <2>3. SetAppModel(c, rows, TRUE)
    BY <1>5 DEF SwitchAppToForm
  <2> HIDE DEF rows
  <2> QED
    BY <2>1, <2>2, <2>3, AppModelKeeps
<1>6. ASSUME NEW c \in ClusterApps, ReloadApp(c)
      PROVE  AppInv'
  <2>1. IsApp(c) /\ NothingEmpty(c.resources) /\ IsLabels(c.selector)
    BY AppFormAssumption DEF IsApp
  <2>2. /\ MatchLabelsFromRecord(c.selector) \in Seq(LabelRow)
        /\ MatchLabelsFromRecord(c.selector) # << >>
    BY <2>1, RowsShown
  <2>3. SetAppModel(c, MatchLabelsFromRecord(c.selector), FALSE)
    BY <1>6 DEF ReloadApp
  <2> QED
    BY <2>1, <2>2, <2>3, AppModelKeeps
<1> QED
  BY <1>2, <1>3, <1>4, <1>5, <1>6, EditSelectorKeeps, CopyLabelsKeeps DEF AppNext

(* A form that may be saved saves its match labels, and no empty object. *)
LEMMA SavesItsSelector == AppInv => SelectorIsTheRows
<1> SUFFICES ASSUME AppInv
             PROVE  SelectorIsTheRows
  OBVIOUS
<1>1. /\ matchLabels \in Seq(LabelRow) /\ matchLabels # << >>
      /\ app.selector = LabelsToRecord(matchLabels) /\ NothingEmpty(app.resources)
  BY DEF AppInv, AppTypeOK
<1>2. IsAppFormValid => ~HasDuplicates(matchLabels)
  BY DEF IsAppFormValid
<1> QED
  BY <1>1, <1>2, RecordOfDistinct DEF SelectorIsTheRows

-----------------------------------------------------------------------------
(* The star. *)

StarInv == FavoritesTypeOK /\ NoNameTwice

(* A list without some of its favorites has no name twice. *)
LEMMA LessStaysApart ==
    ASSUME NEW s \in Seq(Favorite), NamesApart(s), NEW P \in SUBSET DOMAIN s
    PROVE  SubSeqAt(s, P) \in Seq(Favorite) /\ NamesApart(SubSeqAt(s, P))
<1> DEFINE u == SubSeqAt(s, P)
           N == Cardinality(P)
<1>1. /\ N \in Nat /\ u \in Seq(Favorite) /\ DOMAIN u = 1..N
      /\ \A n \in 1..N : Nth(P, n) \in P /\ u[n] = s[Nth(P, n)]
      /\ \A m, n \in 1..N : m < n => Nth(P, m) < Nth(P, n)
  <2>1. P \in SUBSET DOMAIN s
    OBVIOUS
  <2> QED
    BY ONLY <2>1, s \in Seq(Favorite), SubSeqAtProperties
<1>2. \A i, j \in DOMAIN s : s[i].name = s[j].name => i = j
  BY DEF NamesApart, IsInjective
<1>3. DOMAIN s = 1..Len(s) /\ Len(s) \in Nat
  BY LenProperties
<1> HIDE DEF u, N
<1>4. ASSUME NEW m \in 1..N, NEW n \in 1..N, m < n
      PROVE  u[m].name # u[n].name
  BY <1>1, <1>2, <1>3, <1>4
<1>5. \A m, n \in 1..N : m = n \/ m < n \/ n < m
  BY <1>1
<1>6. \A m, n \in 1..N : u[m].name = u[n].name => m = n
  BY <1>4, <1>5
<1> QED
  BY <1>1, <1>6 DEF NamesApart, IsInjective, u

(* Neither has one with a name more that it did not have. *)
LEMMA MoreStaysApart ==
    ASSUME NEW s \in Seq(Favorite), NamesApart(s),
           NEW e \in Favorite, \A f \in ToSet(s) : f.name # e.name
    PROVE  Append(s, e) \in Seq(Favorite) /\ NamesApart(Append(s, e))
<1> DEFINE t == Append(s, e)
<1>1. /\ Len(s) \in Nat /\ DOMAIN s = 1..Len(s)
      /\ \A i, j \in DOMAIN s : s[i].name = s[j].name => i = j
      /\ \A i \in DOMAIN s : s[i].name # e.name
  BY LenProperties DEF NamesApart, IsInjective, ToSet
<1>2. /\ t \in Seq(Favorite) /\ DOMAIN t = 1..(Len(s) + 1)
      /\ t[Len(s) + 1] = e /\ \A i \in 1..Len(s) : t[i] = s[i]
  BY AppendProperties, LenProperties
<1> HIDE DEF t
<1>3. \A i, j \in DOMAIN t : t[i].name = t[j].name => i = j
  BY <1>1, <1>2
<1> QED
  BY <1>2, <1>3 DEF NamesApart, IsInjective, t

(* A list that a tab writes, with no name twice, keeps them apart everywhere. *)
LEMMA ListKeeps ==
    ASSUME StarInv, NEW t \in Tabs, NEW list \in Seq(Favorite), NamesApart(list),
           SetFavorites(t, list), naming' \in [Tabs -> NameTexts \cup {ModalClosed}]
    PROVE  StarInv'
<1>1. /\ favorites' = [favorites EXCEPT ![t] = list] /\ preference' = list
      /\ preferenceSeen' = preferenceSeen
  BY DEF SetFavorites
<1>2. /\ favorites \in [Tabs -> Seq(Favorite)] /\ preferenceSeen \subseteq Tabs
      /\ \A x \in Tabs : NamesApart(favorites[x])
  BY DEF StarInv, FavoritesTypeOK, NoNameTwice
<1>3. /\ favorites' \in [Tabs -> Seq(Favorite)]
      /\ \A x \in Tabs : favorites'[x] = IF x = t THEN list ELSE favorites[x]
  BY <1>1, <1>2
<1>4. NoNameTwice'
  BY <1>1, <1>2, <1>3 DEF NoNameTwice, NamesApart
<1> QED
  BY <1>1, <1>2, <1>3, <1>4 DEF StarInv, FavoritesTypeOK

(* No list has a favorite at first. *)
LEMMA StarInitInv == FavoritesInit => StarInv
<1> SUFFICES ASSUME FavoritesInit
             PROVE  StarInv
  OBVIOUS
<1>1. /\ preference = << >> /\ favorites = [t \in Tabs |-> << >>]
      /\ preferenceSeen = {} /\ naming = [t \in Tabs |-> ModalClosed]
  BY DEF FavoritesInit
<1>2. << >> \in Seq(Favorite) /\ NamesApart(<< >>)
  BY DEF NamesApart, IsInjective
<1> QED
  BY <1>1, <1>2 DEF StarInv, FavoritesTypeOK, NoNameTwice

(* What a tab does leaves no name twice, whatever the others wrote. *)
LEMMA StarNextInv ==
    ASSUME StarInv, FavoritesNext
    PROVE  StarInv'
<1>1. PICK t \in Tabs :
        \/ PreferenceArrives(t) \/ Unstar(t) \/ OpenModal(t)
        \/ HandleNameChange(t) \/ HandleModalClose(t) \/ HandleConfirmStar(t)
  BY DEF FavoritesNext
<1>2. /\ preference \in Seq(Favorite) /\ favorites \in [Tabs -> Seq(Favorite)]
      /\ preferenceSeen \subseteq Tabs /\ naming \in [Tabs -> NameTexts \cup {ModalClosed}]
      /\ NamesApart(preference) /\ \A x \in Tabs : NamesApart(favorites[x])
  BY DEF StarInv, FavoritesTypeOK, NoNameTwice
<1>3. CASE PreferenceArrives(t)
  <2>1. /\ favorites' = [favorites EXCEPT ![t] = preference] /\ preference' = preference
        /\ preferenceSeen' = preferenceSeen \cup {t} /\ naming' = naming
    BY <1>3 DEF PreferenceArrives
  <2>2. /\ favorites' \in [Tabs -> Seq(Favorite)]
        /\ \A x \in Tabs : favorites'[x] = IF x = t THEN preference ELSE favorites[x]
    BY <1>2, <2>1
  <2>3. NoNameTwice'
    BY <1>2, <2>1, <2>2 DEF NoNameTwice, NamesApart
  <2> QED
    BY <1>2, <2>1, <2>2, <2>3 DEF StarInv, FavoritesTypeOK
<1>4. CASE Unstar(t)
  <2> DEFINE P == {i \in DOMAIN favorites[t] : favorites[t][i].url # PageOf[t]}
  <2>1. SetFavorites(t, SubSeqAt(favorites[t], P)) /\ naming' = naming
    BY <1>4 DEF Unstar
  <2>2. P \in SUBSET DOMAIN favorites[t] /\ favorites[t] \in Seq(Favorite)
    BY <1>2
  <2> HIDE DEF P
  <2>3. SubSeqAt(favorites[t], P) \in Seq(Favorite) /\ NamesApart(SubSeqAt(favorites[t], P))
    BY <1>2, <2>2, LessStaysApart
  <2> QED
    BY <1>2, <2>1, <2>3, ListKeeps
<1>5. ASSUME UNCHANGED <<preference, favorites, preferenceSeen>>,
             naming' \in [Tabs -> NameTexts \cup {ModalClosed}]
      PROVE  StarInv'
  <2>1. NoNameTwice'
    BY <1>2, <1>5 DEF NoNameTwice, NamesApart
  <2> QED
    BY <1>2, <1>5, <2>1 DEF StarInv, FavoritesTypeOK
<1>6. CASE OpenModal(t)
  <2>1. DefaultName[t] \in NameTexts
    BY FavoriteAssumption
  <2> QED
    BY <1>2, <1>5, <1>6, <2>1 DEF OpenModal
<1>7. CASE HandleNameChange(t)
  BY <1>2, <1>5, <1>7 DEF HandleNameChange
<1>8. CASE HandleModalClose(t)
  BY <1>2, <1>5, <1>8 DEF HandleModalClose
<1>9. CASE HandleConfirmStar(t)
  <2> DEFINE e == [name |-> TrimName[naming[t]], url |-> PageOf[t]]
  <2>1. /\ naming[t] \in NameTexts /\ NameAccepted(t)
        /\ SetFavorites(t, Append(favorites[t], e))
        /\ naming' = [naming EXCEPT ![t] = ModalClosed]
    BY <1>2, <1>9 DEF HandleConfirmStar
  <2>2. /\ TrimName[naming[t]] # NoName /\ TrimName[naming[t]] \in ProperTexts
        /\ \A f \in ToSet(favorites[t]) : f.name # TrimName[naming[t]]
    BY <2>1 DEF NameAccepted
  <2>3. TrimName[TrimName[naming[t]]] = TrimName[naming[t]]
    BY <2>1, FavoriteAssumption
  <2>4. e \in Favorite
    BY <2>2, <2>3 DEF Favorite
  <2>5. e.name = TrimName[naming[t]] /\ favorites[t] \in Seq(Favorite)
    BY <1>2
  <2> HIDE DEF e
  <2>6. Append(favorites[t], e) \in Seq(Favorite) /\ NamesApart(Append(favorites[t], e))
    BY <1>2, <2>2, <2>4, <2>5, MoreStaysApart
  <2>7. naming' \in [Tabs -> NameTexts \cup {ModalClosed}]
    BY <1>2, <2>1
  <2> QED
    BY <2>1, <2>6, <2>7, ListKeeps
<1> QED
  BY <1>1, <1>3, <1>4, <1>6, <1>7, <1>8, <1>9


-----------------------------------------------------------------------------
(* The Metrics section: the queries of its charts. *)

(* What a function gives of a finite set is finite. *)
LEMMA FiniteImage ==
    ASSUME NEW S, IsFiniteSet(S), NEW f, DOMAIN f = S, f = [x \in S |-> f[x]]
    PROVE  IsFiniteSet({f[x] : x \in S})
<1>1. f \in Surjection(S, {f[x] : x \in S})
  BY DEF Surjection
<1> QED
  BY <1>1, FS_Surjection

(* A sequence is the function of its elements. *)
LEMMA SequenceOf ==
    ASSUME NEW S, NEW s \in Seq(S)
    PROVE  /\ Len(s) \in Nat /\ DOMAIN s = 1..Len(s) /\ s = [i \in 1..Len(s) |-> s[i]]
BY LenProperties

(* So is what is made of its elements. *)
LEMMA SequenceMade ==
    ASSUME NEW n \in Nat, NEW f, f = [i \in 1..n |-> f[i]]
    PROVE  Len(f) = n /\ DOMAIN f = 1..n
<1>1. f \in [1..n -> {f[i] : i \in 1..n}]
  OBVIOUS
<1>2. f \in Seq({f[i] : i \in 1..n})
  BY <1>1, IsASeq
<1>3. DOMAIN f = 1..n /\ DOMAIN f = 1..Len(f) /\ Len(f) \in Nat
  BY <1>1, <1>2, LenProperties
<1> QED
  BY <1>3

(* A finite set is put into a sequence. *)
LEMMA SetInSequence ==
    ASSUME NEW S, IsFiniteSet(S)
    PROVE  SetToSeq(S) \in Seq(S)
<1>1. Cardinality(S) \in Nat /\ \E f \in [1..Cardinality(S) -> S] : IsInjective(f)
  BY FS_CardinalityType DEF ExistsBijection, Bijection, Injection, IsInjective
<1>2. SetToSeq(S) \in [1..Cardinality(S) -> S]
  BY <1>1 DEF SetToSeq
<1> QED
  BY <1>1, <1>2, IsASeq

IsQuery(query) ==
    query.namespace \in DOMAIN Answers /\ query.legend \in Seq(Pieces) \cup {Undefined}

IsQueries(queries) ==
    /\ Len(queries) \in Nat /\ DOMAIN queries = 1..Len(queries)
    /\ queries = [i \in 1..Len(queries) |-> queries[i]]
    /\ \A i \in 1..Len(queries) : IsQuery(queries[i])

(* Queries at all places are the queries of a chart. *)
LEMMA QueriesMade ==
    ASSUME NEW n \in Nat, NEW f, f = [i \in 1..n |-> f[i]], \A i \in 1..n : IsQuery(f[i])
    PROVE  IsQueries(f)
BY SequenceMade DEF IsQueries

(* A query without a legend, and one whose legend is made of pieces. *)
LEMMA QueryMade ==
    ASSUME NEW n \in DOMAIN Answers, NEW key, NEW legend \in Seq(Pieces) \cup {Undefined}
    PROVE  IsQuery(Query(n, key, legend))
BY DEF IsQuery, Query

(* The charts of an object have the queries that their names say. *)
LEMMA ChartQueries ==
    ASSUME NEW o \in Objects, NEW c \in DOMAIN Charts(o)
    PROVE  IsQueries(Charts(o)[c].queries)
<1>1. CASE o.kind = "service"
  <2> DEFINE namespaces == BoundAppNamespaces(o)
             f == [ref \in o.provisionedApps |-> ref.namespace]
  <2>1. IsFiniteSet(o.provisionedApps)
    BY <1>1, SectionAssumption
  <2>2. IsFiniteSet({f[ref] : ref \in o.provisionedApps})
    BY <2>1, FiniteImage
  <2>3. {f[ref] : ref \in o.provisionedApps} = {ref.namespace : ref \in o.provisionedApps}
    OBVIOUS
  <2>4. namespaces \in Seq({ref.namespace : ref \in o.provisionedApps})
    BY <2>2, <2>3, SetInSequence DEF BoundAppNamespaces, SortedOnce
  <2>5. Len(namespaces) \in Nat /\ DOMAIN namespaces = 1..Len(namespaces)
    BY <2>4, LenProperties
  <2>6. CASE c = "pod"
    <3>1. Charts(o)[c].queries = <<Query(o.namespace, <<o.namespace, "pod">>, Undefined)>>
      BY <1>1, <2>6 DEF Charts, ServiceCharts
    <3>2. \A q : Len(<<q>>) = 1 /\ DOMAIN <<q>> = 1..1 /\ <<q>> = [i \in 1..1 |-> <<q>>[i]]
      OBVIOUS
    <3>3. IsQuery(Query(o.namespace, <<o.namespace, "pod">>, Undefined))
      BY <1>1, SectionAssumption, QueryMade
    <3> DEFINE q == Query(o.namespace, <<o.namespace, "pod">>, Undefined)
    <3>4. IsQuery(q) /\ Charts(o)[c].queries = <<q>>
      BY <3>1, <3>3
    <3> HIDE DEF q
    <3>5. \A i \in 1..1 : IsQuery(<<q>>[i])
      BY <3>4
    <3> QED
      BY <3>2, <3>4, <3>5 DEF IsQueries
  <2>7. CASE c = "queues"
    <3> DEFINE q == Charts(o)[c].queries
    <3>1. q = [i \in DOMAIN namespaces |->
                 Query(namespaces[i], <<namespaces[i], "apps">>, Undefined)]
      BY <1>1, <2>7 DEF Charts, ServiceCharts
    <3> HIDE DEF q, namespaces
    <3>2. q = [i \in 1..Len(namespaces) |-> q[i]]
      BY <2>5, <3>1
    <3>3. {ref.namespace : ref \in o.provisionedApps} \subseteq DOMAIN Answers
      BY <1>1, SectionAssumption DEF AppRef
    <3>4. \A i \in 1..Len(namespaces) : namespaces[i] \in DOMAIN Answers
      BY <2>4, <2>5, <3>3, ElementOfSeq
    <3>5. \A i \in 1..Len(namespaces) : IsQuery(q[i])
      BY <2>5, <3>1, <3>4, QueryMade
    <3> QED
      BY <2>5, <3>2, <3>5, QueriesMade DEF q
  <2> QED
    BY <1>1, <2>6, <2>7 DEF Charts, ServiceCharts
<1>2. CASE o.kind = "app"
  <2> DEFINE reads == AppQueueReads(o)
             others == {m.app : m \in ConsumedAddresses(o)}
             f == [m \in ConsumedAddresses(o) |-> m.app]
             q == Charts(o)[c].queries
  <2>1. o.kind # "service"
    BY <1>2
  <2>2. IsFiniteSet(o.consumerOf)
    BY <1>2, SectionAssumption
  <2>3. IsFiniteSet(ConsumedAddresses(o))
    BY <2>2, FS_Subset DEF ConsumedAddresses
  <2>4. IsFiniteSet({f[m] : m \in ConsumedAddresses(o)})
    BY <2>3, FiniteImage
  <2>5. {f[m] : m \in ConsumedAddresses(o)} = others
    OBVIOUS
  <2>6. SetToSeq(others) \in Seq(others)
    BY <2>4, <2>5, SetInSequence
  <2>7. reads \in Seq(others \cup {o.ref})
    <3>1. SetToSeq(others) \in Seq(others \cup {o.ref})
      BY <2>6, SeqMonotonic
    <3>2. <<o.ref>> \in Seq(others \cup {o.ref})
      OBVIOUS
    <3> QED
      BY <3>1, <3>2, ConcatProperties DEF AppQueueReads
  <2>8. Len(reads) \in Nat /\ DOMAIN reads = 1..Len(reads)
    BY <2>7, LenProperties
  <2> DEFINE addresses(ref) == {m.address : m \in {m \in ConsumedAddresses(o) : m.app = ref}}
             key(i) == <<reads[i].namespace, reads[i].name, addresses(reads[i])>>
             legend(i) == IF i = 1 THEN << >> ELSE <<reads[i].namespace, reads[i].name>>
             asked == [i \in DOMAIN reads |-> Query(reads[i].namespace, key(i), legend(i))]
  <2>9. q = asked
    <3>1. AppCharts(o) = [queues |-> [group |-> "broker", queries |-> asked]]
      BY DEF AppCharts
    <3>2. Charts(o) = AppCharts(o)
      BY <2>1 DEF Charts
    <3> HIDE DEF asked
    <3>3. c = "queues"
      BY <3>1, <3>2
    <3> QED
      BY <3>1, <3>2, <3>3
  <2>10. others \cup {o.ref} \subseteq AppRef
    BY <2>1, SectionAssumption DEF ConsumedAddresses
  <2> HIDE DEF q, reads, key
  <2>11. q = [i \in 1..Len(reads) |-> q[i]]
    BY <2>8, <2>9
  <2>12. ASSUME NEW i \in 1..Len(reads)
         PROVE  IsQuery(q[i])
    <3>1. reads[i] \in AppRef
      BY <2>7, <2>10, ElementOfSeq
    <3>2. reads[i].namespace \in DOMAIN Answers /\ reads[i].name \in Pieces
      BY <3>1 DEF AppRef
    <3>3. reads[i].namespace \in Pieces
      BY <3>2, SectionAssumption
    <3>4. legend(i) \in Seq(Pieces)
      BY <3>2, <3>3
    <3>5. q[i] = Query(reads[i].namespace, key(i), legend(i))
      BY <2>8, <2>9
    <3> HIDE DEF legend
    <3> QED
      BY <3>2, <3>4, <3>5, QueryMade
  <2> QED
    BY <2>8, <2>11, <2>12, QueriesMade DEF q
<1> QED
  BY <1>1, <1>2, SectionAssumption

-----------------------------------------------------------------------------
(* The chains of polls. *)

IsLink(link) == DOMAIN link = {"query", "results", "answeredTo", "done", "asked"}

(* A link is one of its query, and shows what that very query was answered. *)
IsLinkOf(link, query) ==
    /\ IsLink(link) /\ link.query = query /\ link.results \in Seq(Result)
    /\ link.results # << >> => link.done /\ link.answeredTo = query.key

IsChain(chain, queries) ==
    /\ DOMAIN chain = DOMAIN queries /\ chain = [i \in DOMAIN queries |-> chain[i]]
    /\ \A i \in DOMAIN queries : IsLinkOf(chain[i], queries[i])

LinksInv ==
    /\ object \in Objects
    /\ DOMAIN links = VisibleCharts(object, group)
    /\ \A c \in DOMAIN links : IsChain(links[c], Charts(object)[c].queries)

(* A link that begins shows nothing yet. *)
LEMMA LinkBegins ==
    ASSUME NEW query
    PROVE  IsLinkOf(FreshLink(query), query)
BY DEF FreshLink, IsLinkOf, IsLink

(* A chain that is rendered again is one of the new queries: a link that goes *)
(* on has the key it had.                                                     *)
LEMMA ChainRendered ==
    ASSUME NEW chain, NEW old, IsQueries(old), IsChain(chain, old) \/ chain = << >>,
           NEW queries, IsQueries(queries)
    PROVE  IsChain(Rendered(chain, queries), queries)
<1> DEFINE t == Rendered(chain, queries)
           goesOn(i) == i <= Len(chain) /\ \A j \in 1..i : chain[j].query.key = queries[j].key
<1>1. t = [i \in DOMAIN queries |-> IF goesOn(i) THEN [chain[i] EXCEPT !.query = queries[i]]
                                                 ELSE FreshLink(queries[i])]
  BY DEF Rendered
<1>2. DOMAIN queries = 1..Len(queries) /\ Len(queries) \in Nat
  BY DEF IsQueries
<1>3. ASSUME NEW i \in DOMAIN queries, goesOn(i)
      PROVE  IsLinkOf([chain[i] EXCEPT !.query = queries[i]], queries[i])
  <2>1. i \in 1..i /\ i <= Len(chain) /\ chain[i].query.key = queries[i].key
    BY <1>2, <1>3
  <2>2. chain # << >>
    BY <2>1, <1>2
  <2>3. Len(chain) = Len(old) /\ DOMAIN chain = 1..Len(old)
    BY <2>2, SequenceMade DEF IsChain, IsQueries
  <2>4. i \in DOMAIN old
    BY <1>2, <2>1, <2>3 DEF IsQueries
  <2>5. IsLinkOf(chain[i], old[i])
    BY <2>2, <2>4 DEF IsChain
  <2> QED
    BY <2>1, <2>5 DEF IsLinkOf, IsLink
<1>4. \A i \in DOMAIN queries : ~goesOn(i) => IsLinkOf(FreshLink(queries[i]), queries[i])
  BY LinkBegins
<1> HIDE DEF goesOn
<1>5. \A i \in DOMAIN queries : IsLinkOf(t[i], queries[i])
  BY <1>1, <1>3, <1>4
<1>6. DOMAIN t = DOMAIN queries /\ t = [i \in DOMAIN queries |-> t[i]]
  BY <1>1
<1> HIDE DEF t
<1> QED
  BY <1>5, <1>6 DEF IsChain, t

(* Whatever is shown then, the charts have the links of their queries. *)
LEMMA ChartsRendered ==
    ASSUME LinksInv, NEW o \in Objects, NEW g
    PROVE  /\ DOMAIN RenderedCharts(o, g) = VisibleCharts(o, g)
           /\ \A c \in VisibleCharts(o, g) :
                 IsChain(RenderedCharts(o, g)[c], Charts(o)[c].queries)
<1>1. DOMAIN RenderedCharts(o, g) = VisibleCharts(o, g)
  BY DEF RenderedCharts
<1>2. ASSUME NEW c \in VisibleCharts(o, g)
      PROVE  IsChain(RenderedCharts(o, g)[c], Charts(o)[c].queries)
  <2> DEFINE chain == IF c \in DOMAIN links THEN links[c] ELSE << >>
             queries == Charts(o)[c].queries
  <2>1. RenderedCharts(o, g)[c] = Rendered(chain, queries)
    BY DEF RenderedCharts
  <2>2. IsQueries(queries)
    BY ChartQueries DEF VisibleCharts
  <2>3. CASE c \in DOMAIN links
    <3>1. c \in DOMAIN Charts(object) /\ object \in Objects
      BY <2>3 DEF LinksInv, VisibleCharts
    <3>2. IsQueries(Charts(object)[c].queries)
      BY <3>1, ChartQueries
    <3>3. IsChain(chain, Charts(object)[c].queries)
      BY <2>3 DEF LinksInv
    <3> HIDE DEF chain, queries
    <3> QED
      BY <2>1, <2>2, <3>2, <3>3, ChainRendered DEF queries
  <2>4. CASE c \notin DOMAIN links
    <3>1. chain = << >>
      BY <2>4
    <3> HIDE DEF chain, queries
    <3> QED
      BY <2>1, <2>2, <3>1, ChainRendered DEF queries
  <2> QED
    BY <2>3, <2>4
<1> QED
  BY <1>1, <1>2

(* A link that changes is still one of its query. *)
LEMMA LinkChanges ==
    ASSUME LinksInv, NEW c, NEW i, Mounted(c, i), NEW link,
           IsLinkOf(link, links[c][i].query),
           links' = [links EXCEPT ![c] = [links[c] EXCEPT ![i] = link]],
           UNCHANGED <<object, group>>
    PROVE  LinksInv'
<1> DEFINE queries == Charts(object)[c].queries
           chain == [links[c] EXCEPT ![i] = link]
<1>1. c \in DOMAIN links /\ i \in DOMAIN links[c]
  BY DEF Mounted
<1>2. IsChain(links[c], queries)
  BY <1>1 DEF LinksInv
<1>3. IsLinkOf(link, queries[i]) /\ i \in DOMAIN queries
  BY <1>1, <1>2 DEF IsChain, IsLinkOf
<1> HIDE DEF queries
<1>4. IsChain(chain, queries)
  BY <1>1, <1>2, <1>3 DEF IsChain
<1>5. /\ DOMAIN links' = DOMAIN links
      /\ \A x \in DOMAIN links : links'[x] = IF x = c THEN chain ELSE links[x]
  BY <1>1
<1> QED
  BY <1>4, <1>5 DEF LinksInv, queries

(* At first every chart begins its chain. *)
LEMMA LinksInitInv == MetricsInit => LinksInv
<1> SUFFICES ASSUME MetricsInit
             PROVE  LinksInv
  OBVIOUS
<1>1. /\ object \in Objects /\ group = AllGroups
      /\ links = [c \in VisibleCharts(object, AllGroups) |->
                    Rendered(<< >>, Charts(object)[c].queries)]
  BY DEF MetricsInit
<1>2. ASSUME NEW c \in VisibleCharts(object, AllGroups)
      PROVE  IsChain(Rendered(<< >>, Charts(object)[c].queries), Charts(object)[c].queries)
  <2>1. IsQueries(Charts(object)[c].queries)
    BY <1>1, ChartQueries DEF VisibleCharts
  <2> QED
    BY <2>1, ChainRendered
<1> QED
  BY <1>1, <1>2 DEF LinksInv

(* Every step keeps the links those of the queries that are shown. *)
LEMMA LinksNextInv ==
    ASSUME LinksInv, MetricsNext
    PROVE  LinksInv'
<1>1. ASSUME NEW o \in Objects, WatchShows(o)
      PROVE  LinksInv'
  BY <1>1, ChartsRendered DEF WatchShows, LinksInv
<1>2. ASSUME NEW g, FilterByGroup(g)
      PROVE  LinksInv'
  <2>1. object \in Objects
    BY DEF LinksInv
  <2> QED
    BY <1>2, <2>1, ChartsRendered DEF FilterByGroup, LinksInv
<1>3. CASE ChangeTime
  <2> DEFINE again(link) == [link EXCEPT !.asked = TRUE]
  <2>1. \A link, query : IsLinkOf(link, query) => IsLinkOf(again(link), query)
    BY DEF IsLinkOf, IsLink
  <2>2. /\ object' = object /\ group' = group
        /\ links' = [c \in DOMAIN links |-> [i \in DOMAIN links[c] |-> again(links[c][i])]]
    BY <1>3 DEF ChangeTime
  <2> HIDE DEF again
  <2>3. ASSUME NEW c \in DOMAIN links
        PROVE  IsChain(links'[c], Charts(object)[c].queries)
    <3> DEFINE queries == Charts(object)[c].queries
    <3>1. IsChain(links[c], queries)
      BY DEF LinksInv
    <3>2. links'[c] = [i \in DOMAIN links[c] |-> again(links[c][i])]
      BY <2>2
    <3> HIDE DEF queries
    <3>3. IsChain(links'[c], queries)
      BY <2>1, <3>1, <3>2 DEF IsChain
    <3> QED
      BY <3>3 DEF queries
  <2> QED
    BY <2>2, <2>3 DEF LinksInv
<1>4. ASSUME NEW c, NEW i, Mounted(c, i)
      PROVE  IsLinkOf(links[c][i], links[c][i].query)
  BY <1>4 DEF Mounted, LinksInv, IsChain, IsLinkOf
<1>5. ASSUME NEW c \in ChartIds, NEW i \in 1..MaxLinks, QueryAnswers(c, i)
      PROVE  LinksInv'
  <2>1. PICK results \in Answers[links[c][i].query.namespace] :
           links' = [links EXCEPT ![c][i] =
                       [@ EXCEPT !.results = results, !.answeredTo = links[c][i].query.key,
                                 !.done = TRUE, !.asked = FALSE]]
    BY <1>5 DEF QueryAnswers
  <2> DEFINE link == [links[c][i] EXCEPT !.results = results,
                                         !.answeredTo = links[c][i].query.key,
                                         !.done = TRUE, !.asked = FALSE]
  <2>2. Mounted(c, i) /\ UNCHANGED <<object, group>>
    BY <1>5 DEF QueryAnswers
  <2>3. results \in Seq(Result)
    <3>1. object \in Objects /\ c \in DOMAIN Charts(object) /\ c \in DOMAIN links
      BY <2>2 DEF LinksInv, Mounted, VisibleCharts
    <3> DEFINE queries == Charts(object)[c].queries
    <3>2. IsQueries(queries) /\ IsChain(links[c], queries)
      BY <3>1, ChartQueries DEF LinksInv
    <3> HIDE DEF queries
    <3>3. i \in DOMAIN queries /\ links[c][i].query = queries[i]
      BY <2>2, <3>2 DEF Mounted, IsChain, IsLinkOf
    <3>4. links[c][i].query.namespace \in DOMAIN Answers
      BY <3>2, <3>3 DEF IsQueries, IsQuery
    <3> QED
      BY <3>4, SectionAssumption
  <2>4. IsLinkOf(link, links[c][i].query)
    BY <1>4, <2>2, <2>3 DEF IsLinkOf, IsLink
  <2>5. links' = [links EXCEPT ![c] = [links[c] EXCEPT ![i] = link]]
    BY <2>1
  <2> HIDE DEF link
  <2> QED
    BY <2>2, <2>4, <2>5, LinkChanges
<1>6. ASSUME NEW c \in ChartIds, NEW i \in 1..MaxLinks, QueryFails(c, i)
      PROVE  LinksInv'
  <2> DEFINE link == [links[c][i] EXCEPT !.done = TRUE, !.asked = FALSE]
  <2>1. Mounted(c, i) /\ UNCHANGED <<object, group>>
    BY <1>6 DEF QueryFails
  <2>2. IsLinkOf(link, links[c][i].query)
    BY <1>4, <2>1 DEF IsLinkOf, IsLink
  <2>3. links' = [links EXCEPT ![c] = [links[c] EXCEPT ![i] = link]]
    BY <1>6 DEF QueryFails
  <2> HIDE DEF link
  <2> QED
    BY <2>1, <2>2, <2>3, LinkChanges
<1>7. ASSUME NEW c \in ChartIds, NEW i \in 1..MaxLinks, Poll(c, i)
      PROVE  LinksInv'
  <2> DEFINE link == [links[c][i] EXCEPT !.asked = TRUE]
  <2>1. Mounted(c, i) /\ UNCHANGED <<object, group>>
    BY <1>7 DEF Poll
  <2>2. IsLinkOf(link, links[c][i].query)
    BY <1>4, <2>1 DEF IsLinkOf, IsLink
  <2>3. links' = [links EXCEPT ![c] = [links[c] EXCEPT ![i] = link]]
    BY <1>7 DEF Poll
  <2> HIDE DEF link
  <2> QED
    BY <2>1, <2>2, <2>3, LinkChanges
<1>8. CASE ReviewStep
  BY <1>8 DEF ReviewStep, ReviewEnds, LinksInv
<1> QED
  BY <1>1, <1>2, <1>3, <1>5, <1>6, <1>7, <1>8 DEF MetricsNext, QueryEnds

-----------------------------------------------------------------------------
(* The lines of a chart. *)

(* The pieces of the names under which series are told apart. *)
LinePieces == Pieces \cup [namespace : DOMAIN Answers]

(* No number is appended to a name before the last step. *)
LEMMA NoNumberYet ==
    \A n \in Nat : Numbered(n) \notin LinePieces
<1> SUFFICES ASSUME NEW n \in Nat, Numbered(n) \in LinePieces
             PROVE  FALSE
  OBVIOUS
<1>1. Numbered(n) \in [nth : Nat]
  BY DEF Numbered
<1>2. Numbered(n) \in [namespace : DOMAIN Answers]
  BY <1>1, SectionAssumption DEF LinePieces
<1>3. DOMAIN Numbered(n) = {"nth"} /\ DOMAIN Numbered(n) = {"namespace"}
  BY <1>1, <1>2
<1> QED
  BY <1>3

(* The queries and the links of a chain. *)
LEMMA ChainAt ==
    ASSUME NEW chain, NEW queries, IsQueries(queries), IsChain(chain, queries)
    PROVE  /\ IsFiniteSet(DOMAIN chain) /\ DOMAIN chain \subseteq Nat
           /\ \A i \in DOMAIN chain :
                 /\ chain[i].query.namespace \in DOMAIN Answers
                 /\ chain[i].query.legend \in Seq(Pieces) \cup {Undefined}
                 /\ chain[i].results \in Seq(Result)
                 /\ ProperResults(chain[i]) \in SUBSET DOMAIN chain[i].results
                 /\ DOMAIN chain[i].results \subseteq Nat
                 /\ IsFiniteSet(ProperResults(chain[i]))
<1>1. DOMAIN chain = 1..Len(queries) /\ Len(queries) \in Nat
  BY DEF IsChain, IsQueries
<1>2. IsFiniteSet(DOMAIN chain) /\ DOMAIN chain \subseteq Nat
  BY <1>1, FS_Interval
<1>3. ASSUME NEW i \in DOMAIN chain
      PROVE  /\ chain[i].query.namespace \in DOMAIN Answers
             /\ chain[i].query.legend \in Seq(Pieces) \cup {Undefined}
             /\ chain[i].results \in Seq(Result)
  BY <1>1 DEF IsChain, IsQueries, IsLinkOf, IsQuery
<1>4. ASSUME NEW i \in DOMAIN chain
      PROVE  /\ ProperResults(chain[i]) \in SUBSET DOMAIN chain[i].results
             /\ DOMAIN chain[i].results \subseteq Nat
             /\ IsFiniteSet(ProperResults(chain[i]))
  <2>1. /\ DOMAIN chain[i].results = 1..Len(chain[i].results)
        /\ Len(chain[i].results) \in Nat
    BY <1>3, LenProperties
  <2>2. IsFiniteSet(DOMAIN chain[i].results)
    BY <2>1, FS_Interval
  <2>3. ProperResults(chain[i]) \in SUBSET DOMAIN chain[i].results
    BY DEF ProperResults
  <2> QED
    BY <2>1, <2>2, <2>3, FS_Subset
<1> QED
  BY <1>2, <1>3, <1>4

(* The name of a result is made of pieces. *)
LEMMA NameMade ==
    ASSUME NEW chain, NEW queries, IsQueries(queries), IsChain(chain, queries),
           NEW i \in DOMAIN chain, NEW p \in DOMAIN chain[i].results
    PROVE  NameAt(chain, i, p) \in Seq(Pieces)
<1> DEFINE query == chain[i].query
           label == chain[i].results[p].label
           several == \E j \in DOMAIN chain : chain[j].query.namespace # query.namespace
<1>1. /\ query.namespace \in DOMAIN Answers /\ query.legend \in Seq(Pieces) \cup {Undefined}
      /\ chain[i].results \in Seq(Result)
  BY ChainAt
<1>2. label \in Seq(Pieces)
  <2>1. chain[i].results[p] \in Result
    BY <1>1, LenProperties, ElementOfSeq
  <2> QED
    BY <2>1 DEF Result
<1>3. <<query.namespace>> \in Seq(Pieces)
  BY <1>1, SectionAssumption
<1>4. NameAt(chain, i, p) = SeriesName(query, label, several)
  BY DEF NameAt
<1> HIDE DEF query, label, several
<1>5. query.legend \in Seq(Pieces) => query.legend \o label \in Seq(Pieces)
  BY <1>2, ConcatProperties
<1>6. <<query.namespace>> \o label \in Seq(Pieces)
  BY <1>2, <1>3, ConcatProperties
<1> QED
  BY <1>1, <1>2, <1>4, <1>5, <1>6 DEF SeriesName

(* Each name of a query has a first result that has it. *)
LEMMA FirstOfName ==
    ASSUME NEW chain, NEW queries, IsQueries(queries), IsChain(chain, queries),
           NEW i \in DOMAIN chain, NEW p \in ProperResults(chain[i])
    PROVE  \E m \in ProperResults(chain[i]) :
              /\ NameAt(chain, i, m) = NameAt(chain, i, p)
              /\ Merged(chain, i, m) = Merged(chain, i, p)
              /\ \A r \in Merged(chain, i, m) : m <= r
<1> DEFINE M == Merged(chain, i, p)
<1>1. p \in M /\ M \subseteq ProperResults(chain[i])
  BY DEF Merged
<1>2. /\ IsFiniteSet(ProperResults(chain[i]))
      /\ ProperResults(chain[i]) \in SUBSET DOMAIN chain[i].results
      /\ DOMAIN chain[i].results \subseteq Nat
  BY ChainAt
<1>3. IsFiniteSet(M) /\ M \in SUBSET Int /\ M # {}
  BY <1>1, <1>2, FS_Subset
<1> HIDE DEF M
<1>4. Min(M) \in M /\ \A r \in M : Min(M) <= r
  BY <1>3, FirstAndLast
<1>5. NameAt(chain, i, Min(M)) = NameAt(chain, i, p) /\ Min(M) \in ProperResults(chain[i])
  BY <1>4 DEF M, Merged
<1>6. Merged(chain, i, Min(M)) = M
  BY <1>5 DEF M, Merged
<1> QED
  BY <1>4, <1>5, <1>6 DEF M

(* What the series of a chain are. *)
LEMMA SeriesOfChain ==
    ASSUME NEW chain, NEW queries, IsQueries(queries), IsChain(chain, queries)
    PROVE  /\ \A s \in MergedSeries(chain) :
                 /\ s.query \in DOMAIN chain /\ s.query \in Nat
                 /\ s.at \in ProperResults(chain[s.query]) /\ s.at \in Nat
                 /\ s = SeriesAt(chain, s.query, s.at)
                 /\ s.name = NameAt(chain, s.query, s.at)
                 /\ s.results = Merged(chain, s.query, s.at)
                 /\ \A r \in s.results : s.at <= r
                 /\ s.name \in Seq(Pieces) /\ s.namespace \in DOMAIN Answers
           /\ \A i \in DOMAIN chain : \A p \in ProperResults(chain[i]) :
                 (\A r \in Merged(chain, i, p) : p <= r)
                     => SeriesAt(chain, i, p) \in MergedSeries(chain)
<1> DEFINE firsts(i) == {p \in ProperResults(chain[i]) : \A r \in Merged(chain, i, p) : p <= r}
           of(i) == {SeriesAt(chain, i, p) : p \in firsts(i)}
<1>1. MergedSeries(chain) = UNION {of(i) : i \in DOMAIN chain}
  BY DEF MergedSeries
<1>2. \A s : s \in MergedSeries(chain) <=>
         \E i \in DOMAIN chain : \E p \in firsts(i) : s = SeriesAt(chain, i, p)
  BY <1>1
<1>3. ASSUME NEW i \in DOMAIN chain, NEW p \in firsts(i)
      PROVE  LET s == SeriesAt(chain, i, p)
             IN  /\ s.query = i /\ s.at = p /\ i \in Nat /\ p \in Nat
                 /\ s.name = NameAt(chain, i, p) /\ s.results = Merged(chain, i, p)
                 /\ s.name \in Seq(Pieces) /\ s.namespace \in DOMAIN Answers
  <2>1. /\ i \in Nat /\ p \in ProperResults(chain[i])
        /\ p \in DOMAIN chain[i].results /\ p \in Nat
        /\ chain[i].query.namespace \in DOMAIN Answers
    BY ChainAt
  <2>2. NameAt(chain, i, p) \in Seq(Pieces)
    BY <2>1, NameMade
  <2> QED
    BY <2>1, <2>2 DEF SeriesAt
<1>4. ASSUME NEW s \in MergedSeries(chain)
      PROVE  /\ s.query \in DOMAIN chain /\ s.query \in Nat
             /\ s.at \in ProperResults(chain[s.query]) /\ s.at \in Nat
             /\ s = SeriesAt(chain, s.query, s.at)
             /\ s.name = NameAt(chain, s.query, s.at)
             /\ s.results = Merged(chain, s.query, s.at)
             /\ \A r \in s.results : s.at <= r
             /\ s.name \in Seq(Pieces) /\ s.namespace \in DOMAIN Answers
  <2>1. PICK i \in DOMAIN chain : \E p \in firsts(i) : s = SeriesAt(chain, i, p)
    BY <1>2
  <2>2. PICK p \in firsts(i) : s = SeriesAt(chain, i, p)
    BY <2>1
  <2>3. /\ s.query = i /\ s.at = p /\ i \in Nat /\ p \in Nat
        /\ s.name = NameAt(chain, i, p) /\ s.results = Merged(chain, i, p)
        /\ s.name \in Seq(Pieces) /\ s.namespace \in DOMAIN Answers
    BY <1>3, <2>2
  <2> QED
    BY <2>2, <2>3
<1>5. ASSUME NEW i \in DOMAIN chain, NEW p \in ProperResults(chain[i]),
             \A r \in Merged(chain, i, p) : p <= r
      PROVE  SeriesAt(chain, i, p) \in MergedSeries(chain)
  BY <1>2, <1>5
<1> QED
  BY <1>4, <1>5

(* There are finitely many. *)
LEMMA SeriesAreFinite ==
    ASSUME NEW chain, NEW queries, IsQueries(queries), IsChain(chain, queries)
    PROVE  IsFiniteSet(MergedSeries(chain))
<1> DEFINE firsts(i) == {p \in ProperResults(chain[i]) : \A r \in Merged(chain, i, p) : p <= r}
           of(i) == {SeriesAt(chain, i, p) : p \in firsts(i)}
           f == [i \in DOMAIN chain |-> of(i)]
<1>1. ASSUME NEW i \in DOMAIN chain
      PROVE  IsFiniteSet(of(i))
  <2> DEFINE g == [p \in firsts(i) |-> SeriesAt(chain, i, p)]
  <2>1. IsFiniteSet(ProperResults(chain[i]))
    BY ChainAt
  <2>2. IsFiniteSet(firsts(i))
    BY <2>1, FS_Subset
  <2>3. of(i) = {g[p] : p \in firsts(i)}
    OBVIOUS
  <2>4. DOMAIN g = firsts(i) /\ g = [p \in firsts(i) |-> g[p]]
    OBVIOUS
  <2> HIDE DEF g, firsts
  <2>5. IsFiniteSet({g[p] : p \in firsts(i)})
    BY <2>2, <2>4, FiniteImage
  <2> QED
    BY <2>3, <2>5
<1>2. /\ DOMAIN f = DOMAIN chain /\ f = [i \in DOMAIN chain |-> f[i]]
      /\ \A i \in DOMAIN chain : IsFiniteSet(f[i])
  BY <1>1
<1>3. MergedSeries(chain) = UNION {f[i] : i \in DOMAIN chain}
  BY DEF MergedSeries
<1>4. IsFiniteSet(DOMAIN chain)
  BY ChainAt
<1> HIDE DEF f
<1>5. IsFiniteSet({f[i] : i \in DOMAIN chain})
  BY <1>2, <1>4, FiniteImage
<1>6. \A T \in {f[i] : i \in DOMAIN chain} : IsFiniteSet(T)
  BY <1>2
<1> QED
  BY <1>3, <1>5, <1>6, FS_UNION

(* The lines of a query show each of its proper results once, and no other. *)
LEMMA ResultsShownOnce ==
    ASSUME NEW chain, NEW queries, IsQueries(queries), IsChain(chain, queries),
           NEW i \in DOMAIN chain
    PROVE  LET series == MergedSeries(chain)
           IN  /\ \A p \in ProperResults(chain[i]) :
                    \E s \in series : \A t \in series : t.query = i /\ p \in t.results <=> t = s
               /\ \A s \in series : s.query = i => s.results \subseteq ProperResults(chain[i])
<1> DEFINE series == MergedSeries(chain)
<1>1. ASSUME NEW p \in ProperResults(chain[i])
      PROVE  \E s \in series : \A t \in series : t.query = i /\ p \in t.results <=> t = s
  <2>1. PICK m \in ProperResults(chain[i]) :
           /\ NameAt(chain, i, m) = NameAt(chain, i, p)
           /\ Merged(chain, i, m) = Merged(chain, i, p)
           /\ \A r \in Merged(chain, i, m) : m <= r
    BY FirstOfName
  <2> DEFINE s == SeriesAt(chain, i, m)
  <2>2. s \in series
    BY <2>1, SeriesOfChain
  <2>3. s.query = i /\ s.at = m /\ s.results = Merged(chain, i, p)
    BY <2>1 DEF SeriesAt
  <2>4. p \in s.results
    BY <2>3 DEF Merged
  <2>5. ASSUME NEW t \in series, t.query = i, p \in t.results
        PROVE  t = s
    <3>1. /\ t.at \in ProperResults(chain[i]) /\ t = SeriesAt(chain, i, t.at)
          /\ t.results = Merged(chain, i, t.at) /\ \A r \in t.results : t.at <= r
          /\ t.at \in Nat
      BY <2>5, SeriesOfChain
    <3>2. NameAt(chain, i, p) = NameAt(chain, i, t.at)
      BY <2>5, <3>1 DEF Merged
    <3>3. m \in t.results /\ t.at \in Merged(chain, i, m)
      BY <2>1, <3>1, <3>2 DEF Merged
    <3>4. m \in Nat
      BY <2>2, <2>3, SeriesOfChain
    <3>5. t.at = m
      BY <2>1, <3>1, <3>3, <3>4
    <3> QED
      BY <3>1, <3>5
  <2> HIDE DEF s, series
  <2> QED
    BY <2>2, <2>3, <2>4, <2>5
<1>2. ASSUME NEW s \in series, s.query = i
      PROVE  s.results \subseteq ProperResults(chain[i])
  BY <1>2, SeriesOfChain DEF Merged
<1> QED
  BY <1>1, <1>2

(* Two sequences with an element more that are the same. *)
LEMMA AppendsAlike ==
    ASSUME NEW S, NEW s \in Seq(S), NEW T, NEW t \in Seq(T), NEW x, NEW y,
           Append(s, x) = Append(t, y)
    PROVE  s = t /\ x = y
<1> DEFINE U == S \cup T \cup {x, y}
<1>1. s \in Seq(U) /\ t \in Seq(U) /\ x \in U /\ y \in U
  BY SeqMonotonic
<1> HIDE DEF U
<1>2. /\ Len(s) \in Nat /\ s = [i \in 1..Len(s) |-> s[i]]
      /\ Len(t) \in Nat /\ t = [i \in 1..Len(t) |-> t[i]]
  BY <1>1, SequenceOf
<1>3. /\ Len(Append(s, x)) = Len(s) + 1 /\ Append(s, x)[Len(s) + 1] = x
      /\ \A i \in 1..Len(s) : Append(s, x)[i] = s[i]
  BY <1>1, AppendProperties
<1>4. /\ Len(Append(t, y)) = Len(t) + 1 /\ Append(t, y)[Len(t) + 1] = y
      /\ \A i \in 1..Len(t) : Append(t, y)[i] = t[i]
  BY <1>1, AppendProperties
<1>5. Len(s) = Len(t)
  <2>1. Len(s) + 1 = Len(t) + 1
    BY ONLY <1>3, <1>4, Append(s, x) = Append(t, y)
  <2> DEFINE m == Len(s)
             n == Len(t)
  <2>2. m \in Nat /\ n \in Nat /\ m + 1 = n + 1
    BY <1>2, <2>1
  <2> HIDE DEF m, n
  <2>3. m = n
    BY ONLY <2>2
  <2> QED
    BY <2>3 DEF m, n
<1>6. \A i \in 1..Len(s) : s[i] = t[i]
  BY <1>3, <1>4, <1>5
<1>7. s = t
  BY <1>2, <1>5, <1>6
<1> QED
  BY <1>3, <1>4, <1>5, <1>7

(* What ends with a number is none of the names before. *)
LEMMA NumberedIsNew ==
    ASSUME NEW s \in Seq(LinePieces), NEW t \in Seq(LinePieces), NEW n \in Nat
    PROVE  Append(s, Numbered(n)) # t
<1> SUFFICES ASSUME Append(s, Numbered(n)) = t
             PROVE  FALSE
  OBVIOUS
<1> DEFINE U == LinePieces \cup {Numbered(n)}
<1>1. s \in Seq(U) /\ Numbered(n) \in U
  BY SeqMonotonic
<1> HIDE DEF U
<1>2. Len(t) = Len(s) + 1 /\ t[Len(s) + 1] = Numbered(n) /\ Len(s) \in Nat
  BY <1>1, AppendProperties, LenProperties
<1>3. t[Len(s) + 1] \in LinePieces
  BY <1>2, ElementOfSeq
<1> QED
  BY <1>2, <1>3, NoNumberYet

(* The order of the series is total: of two, one comes before the other. *)
LEMMA SeriesOrdered ==
    ASSUME NEW chain, NEW queries, IsQueries(queries), IsChain(chain, queries)
    PROVE  /\ \A s, t \in MergedSeries(chain) : s # t =>
                 \/ NotAfter(s, t) /\ ~NotAfter(t, s)
                 \/ NotAfter(t, s) /\ ~NotAfter(s, t)
           /\ \A s, t, u \in MergedSeries(chain) :
                 NotAfter(s, t) /\ NotAfter(t, u) => NotAfter(s, u)
           /\ \A s \in MergedSeries(chain) : NotAfter(s, s)
<1>1. \A s \in MergedSeries(chain) :
         s.query \in Nat /\ s.at \in Nat /\ s = SeriesAt(chain, s.query, s.at)
  BY SeriesOfChain
<1>2. ASSUME NEW s \in MergedSeries(chain), NEW t \in MergedSeries(chain), s # t
      PROVE  \/ NotAfter(s, t) /\ ~NotAfter(t, s)
             \/ NotAfter(t, s) /\ ~NotAfter(s, t)
  <2>1. s.query # t.query \/ s.at # t.at
    BY <1>1, <1>2
  <2>2. s.query \in Nat /\ s.at \in Nat /\ t.query \in Nat /\ t.at \in Nat
    BY <1>1
  <2> QED
    BY <2>1, <2>2 DEF NotAfter
<1>3. ASSUME NEW s \in MergedSeries(chain), NEW t \in MergedSeries(chain),
             NEW u \in MergedSeries(chain), NotAfter(s, t), NotAfter(t, u)
      PROVE  NotAfter(s, u)
  <2>1. /\ s.query \in Nat /\ s.at \in Nat /\ t.query \in Nat /\ t.at \in Nat
        /\ u.query \in Nat /\ u.at \in Nat
    BY <1>1
  <2> QED
    BY <1>3, <2>1 DEF NotAfter
<1>4. ASSUME NEW s \in MergedSeries(chain)
      PROVE  NotAfter(s, s)
  BY <1>1 DEF NotAfter
<1> QED
  BY <1>2, <1>3, <1>4

(* The name of a series, under its namespace where another has it too. *)
LEMMA NamesByNamespace ==
    ASSUME NEW chain, NEW queries, IsQueries(queries), IsChain(chain, queries),
           NEW s \in MergedSeries(chain)
    PROVE  /\ DOMAIN ByNamespace(MergedSeries(chain)) = MergedSeries(chain)
           /\ ByNamespace(MergedSeries(chain))[s] \in Seq(LinePieces)
<1> DEFINE series == MergedSeries(chain)
           names == [t \in series |-> t.name]
<1>1. s.name \in Seq(LinePieces) /\ InNamespace(s.namespace) \in LinePieces
  <2>1. s.name \in Seq(Pieces) /\ s.namespace \in DOMAIN Answers
    BY SeriesOfChain
  <2> QED
    BY <2>1, SeqMonotonic DEF LinePieces, InNamespace
<1>2. Append(s.name, InNamespace(s.namespace)) \in Seq(LinePieces)
  BY <1>1, AppendProperties
<1>3. /\ DOMAIN ByNamespace(series) = series
      /\ ByNamespace(series)[s] = IF Shared(names, s) THEN Append(s.name, InNamespace(s.namespace))
                                                      ELSE s.name
  BY DEF ByNamespace
<1> QED
  BY <1>1, <1>2, <1>3

(* No two lines have one name. *)
LEMMA LinesNamedApart ==
    ASSUME NEW chain, NEW queries, IsQueries(queries), IsChain(chain, queries)
    PROVE  IsInjective(LineNames(MergedSeries(chain)))
<1> DEFINE series == MergedSeries(chain)
           names == ByNamespace(series)
           alike(s) == {t \in series : names[t] = names[s] /\ NotAfter(t, s)}
           lines == LineNames(series)
<1>1. /\ DOMAIN lines = series
      /\ \A s \in series :
            lines[s] = IF Shared(names, s) THEN Append(names[s], Numbered(Cardinality(alike(s))))
                                           ELSE names[s]
  BY DEF LineNames
<1>2. DOMAIN names = series /\ \A s \in series : names[s] \in Seq(LinePieces)
  BY NamesByNamespace DEF ByNamespace
<1>3. IsFiniteSet(series)
  BY SeriesAreFinite
<1>4. /\ \A s, t \in series : s # t => \/ NotAfter(s, t) /\ ~NotAfter(t, s)
                                       \/ NotAfter(t, s) /\ ~NotAfter(s, t)
      /\ \A s, t, u \in series : NotAfter(s, t) /\ NotAfter(t, u) => NotAfter(s, u)
      /\ \A s \in series : NotAfter(s, s)
  BY SeriesOrdered
<1> HIDE DEF series, names, lines
<1>5. ASSUME NEW s \in series
      PROVE  IsFiniteSet(alike(s)) /\ Cardinality(alike(s)) \in Nat
  BY <1>3, FS_Subset, FS_CardinalityType
<1>6. ASSUME NEW s \in series, NEW t \in series, names[s] = names[t],
             NotAfter(s, t), ~NotAfter(t, s)
      PROVE  Cardinality(alike(s)) # Cardinality(alike(t))
  <2>1. alike(s) \in SUBSET alike(t)
    BY <1>4, <1>6
  <2>2. t \in alike(t) /\ t \notin alike(s)
    BY <1>4, <1>6
  <2>3. IsFiniteSet(alike(t))
    BY <1>5
  <2> HIDE DEF alike
  <2> QED
    BY <2>1, <2>2, <2>3, FS_Subset
<1> HIDE DEF alike
<1>7. ASSUME NEW s \in series, NEW t \in series, lines[s] = lines[t], s # t
      PROVE  FALSE
  <2>1. CASE Shared(names, s) /\ Shared(names, t)
    <3>1. Append(names[s], Numbered(Cardinality(alike(s))))
             = Append(names[t], Numbered(Cardinality(alike(t))))
      BY <1>1, <1>7, <2>1
    <3>2. /\ names[s] = names[t]
          /\ Numbered(Cardinality(alike(s))) = Numbered(Cardinality(alike(t)))
      BY <1>2, <3>1, AppendsAlike
    <3>3. Cardinality(alike(s)) = Cardinality(alike(t))
      BY <3>2 DEF Numbered
    <3> QED
      BY <1>4, <1>6, <1>7, <3>2, <3>3
  <2>2. CASE Shared(names, s) /\ ~Shared(names, t)
    <3>1. Append(names[s], Numbered(Cardinality(alike(s)))) = names[t]
      BY <1>1, <1>7, <2>2
    <3> QED
      BY <1>2, <1>5, <3>1, NumberedIsNew
  <2>3. CASE ~Shared(names, s) /\ Shared(names, t)
    <3>1. Append(names[t], Numbered(Cardinality(alike(t)))) = names[s]
      BY <1>1, <1>7, <2>3
    <3> QED
      BY <1>2, <1>5, <3>1, NumberedIsNew
  <2>4. CASE ~Shared(names, s) /\ ~Shared(names, t)
    BY <1>1, <1>2, <1>7, <2>4 DEF Shared
  <2> QED
    BY <2>1, <2>2, <2>3, <2>4
<1> QED
  BY <1>1, <1>7 DEF IsInjective, lines, series

(* So the lines of every chart are told apart. *)
LEMMA ChartsToldApart == LinksInv => EveryChartToldApart
<1> SUFFICES ASSUME LinksInv, NEW c \in DOMAIN links
             PROVE  LinesApart(links[c])
  BY DEF EveryChartToldApart
<1> DEFINE queries == Charts(object)[c].queries
           chain == links[c]
<1>1. IsQueries(queries) /\ IsChain(chain, queries)
  BY ChartQueries DEF LinksInv, VisibleCharts
<1> HIDE DEF queries, chain
<1>2. IsInjective(LineNames(MergedSeries(chain)))
  BY <1>1, LinesNamedApart
<1>3. \A i \in DOMAIN chain : chain[i].results # << >> => chain[i].answeredTo = chain[i].query.key
  BY <1>1 DEF IsChain, IsLinkOf
<1> QED
  BY <1>1, <1>2, <1>3, ResultsShownOnce DEF LinesApart, chain

-----------------------------------------------------------------------------
(* The rounds of access reviews. *)

IsRound(r) ==
    /\ DOMAIN r = {"namespaces", "answers"}
    /\ r.answers \in [r.namespaces -> {"pending", "allowed", "refused"}]

Rounds == {r \in {reviews[i] : i \in DOMAIN reviews} : IsRound(r)}

(* What the hook says is what a round of the namespaces said it says so of. *)
SaidBy(r) == RoundDone(r) /\ refused.for = r.namespaces /\ refused.namespaces = RefusedIn(r)

(* The round begun last is of the namespaces of the object; once it is done,  *)
(* it has the word, and before, no round has or an earlier one.               *)
ReviewsInv ==
    /\ reviews \in Seq(Rounds) /\ reviews # << >>
    /\ reviews[Len(reviews)].namespaces = ChartNamespaces(object)
    /\ \/ refused.for = {} /\ refused.namespaces = {}
       \/ \E i \in DOMAIN reviews : SaidBy(reviews[i])
    /\ LET last == reviews[Len(reviews)]
       IN  RoundDone(last) /\ last.namespaces # {} => SaidBy(last)

(* The rounds at their places. *)
LEMMA RoundsAt ==
    ASSUME ReviewsInv
    PROVE  /\ Len(reviews) \in Nat \ {0} /\ DOMAIN reviews = 1..Len(reviews)
           /\ \A i \in DOMAIN reviews : IsRound(reviews[i])
           /\ Last(reviews) = reviews[Len(reviews)]
<1>1. reviews \in Seq(Rounds) /\ reviews # << >>
  BY DEF ReviewsInv
<1>2. Len(reviews) \in Nat /\ DOMAIN reviews = 1..Len(reviews) /\ Len(reviews) # 0
  BY <1>1, LenProperties, EmptySeq
<1>3. \A i \in DOMAIN reviews : reviews[i] \in Rounds
  BY <1>1, <1>2, ElementOfSeq
<1> QED
  BY <1>2, <1>3 DEF Rounds, Last

(* Rounds at all places of a sequence make it one of rounds. *)
LEMMA AreRounds ==
    ASSUME NEW n \in Nat, reviews' = [i \in 1..n |-> reviews'[i]],
           \A i \in 1..n : IsRound(reviews'[i])
    PROVE  reviews' \in Seq(Rounds') /\ Len(reviews') = n /\ DOMAIN reviews' = 1..n
<1>1. DOMAIN reviews' = 1..n
  OBVIOUS
<1>2. \A i \in 1..n : reviews'[i] \in Rounds'
  BY <1>1 DEF Rounds, IsRound
<1>3. reviews' \in [1..n -> Rounds']
  BY <1>2
<1>4. reviews' \in Seq(Rounds')
  BY <1>3, IsASeq
<1> QED
  BY <1>1, <1>4, LenProperties

(* A round that begins is not done, unless it is of no namespace. *)
LEMMA RoundBegins ==
    ASSUME NEW namespaces
    PROVE  /\ IsRound(NewRound(namespaces)) /\ NewRound(namespaces).namespaces = namespaces
           /\ namespaces # {} => ~RoundDone(NewRound(namespaces))
BY DEF IsRound, NewRound, RoundDone

(* At first there is one round, that of the first object. *)
LEMMA ReviewsInitInv == MetricsInit => ReviewsInv
<1> SUFFICES ASSUME MetricsInit
             PROVE  ReviewsInv
  OBVIOUS
<1> DEFINE r == NewRound(ChartNamespaces(object))
<1>1. reviews = <<r>> /\ refused = [for |-> {}, namespaces |-> {}]
  BY DEF MetricsInit
<1>2. /\ IsRound(r) /\ r.namespaces = ChartNamespaces(object)
      /\ r.namespaces # {} => ~RoundDone(r)
  BY RoundBegins
<1> HIDE DEF r
<1>3. /\ Len(reviews) = 1 /\ DOMAIN reviews = {1} /\ reviews[1] = r
      /\ reviews # << >>
  BY <1>1
<1>4. r \in Rounds
  BY <1>2, <1>3 DEF Rounds
<1>5. reviews \in Seq(Rounds)
  BY <1>1, <1>4
<1> QED
  BY <1>1, <1>2, <1>3, <1>5 DEF ReviewsInv

(* A step that begins no round and ends no review, of an object with the same *)
(* namespaces.                                                                *)
LEMMA ReviewsStay ==
    ASSUME ReviewsInv, UNCHANGED <<reviews, refused>>,
           ChartNamespaces(object)' = ChartNamespaces(object)
    PROVE  ReviewsInv'
BY DEF ReviewsInv, Rounds, SaidBy

(* The watch shows other namespaces: a round begins. *)
LEMMA RoundAdded ==
    ASSUME ReviewsInv, NEW o \in Objects, object' = o, refused' = refused,
           reviews' = Append(reviews, NewRound(ChartNamespaces(o)))
    PROVE  ReviewsInv'
<1> DEFINE r == NewRound(ChartNamespaces(o))
           n == Len(reviews)
<1>1. n \in Nat \ {0} /\ DOMAIN reviews = 1..n /\ \A i \in DOMAIN reviews : IsRound(reviews[i])
  BY RoundsAt
<1>2. /\ IsRound(r) /\ r.namespaces = ChartNamespaces(o)
      /\ r.namespaces # {} => ~RoundDone(r)
  BY RoundBegins
<1>3. reviews' = Append(reviews, r)
  OBVIOUS
<1> HIDE DEF r
<1>4. /\ DOMAIN reviews' = 1..(n + 1) /\ reviews'[n + 1] = r
      /\ \A i \in 1..n : reviews'[i] = reviews[i]
      /\ reviews' = [i \in 1..(n + 1) |-> reviews'[i]]
  <2> DEFINE S == Rounds \cup {r}
             t == Append(reviews, r)
  <2>1. reviews \in Seq(S) /\ r \in S
    BY SeqMonotonic DEF ReviewsInv
  <2> HIDE DEF S
  <2>2. /\ t \in Seq(S) /\ Len(t) = n + 1 /\ t[n + 1] = r
        /\ \A i \in 1..n : t[i] = reviews[i]
    BY <2>1, AppendProperties
  <2> HIDE DEF t, n
  <2>3. DOMAIN t = 1..(n + 1) /\ t = [i \in 1..(n + 1) |-> t[i]]
    BY <2>2, SequenceOf
  <2>4. reviews' = t
    BY <1>3 DEF t
  <2> QED
    BY <2>2, <2>3, <2>4
<1> HIDE DEF n
<1>5. \A i \in 1..(n + 1) : IsRound(reviews'[i])
  BY <1>1, <1>2, <1>4
<1>6. n + 1 \in Nat
  BY <1>1
<1>7. reviews' \in Seq(Rounds') /\ Len(reviews') = n + 1
  BY <1>4, <1>5, <1>6, AreRounds
<1>8. reviews' # << >>
  BY <1>1, <1>4
<1>9. ASSUME NEW i \in DOMAIN reviews, SaidBy(reviews[i])
      PROVE  (\E k \in DOMAIN reviews : SaidBy(reviews[k]))'
  <2>1. i \in 1..n /\ i \in 1..(n + 1)
    BY <1>1
  <2>2. i \in DOMAIN reviews' /\ reviews'[i] = reviews[i]
    BY <1>4, <2>1
  <2>3. RoundDone(reviews'[i]) /\ refused'.for = reviews'[i].namespaces
        /\ refused'.namespaces = RefusedIn(reviews'[i])
    BY <1>9, <2>2 DEF SaidBy
  <2> QED
    BY <2>2, <2>3 DEF SaidBy
<1>10. (\/ refused.for = {} /\ refused.namespaces = {}
        \/ \E i \in DOMAIN reviews : SaidBy(reviews[i]))'
  BY <1>9 DEF ReviewsInv
<1> QED
  BY <1>2, <1>4, <1>7, <1>8, <1>10 DEF ReviewsInv

(* A review ends, with any answer. *)
LEMMA ReviewKeeps ==
    ASSUME ReviewsInv, NEW i \in DOMAIN reviews, NEW ns \in reviews[i].namespaces,
           ReviewEnds(i, ns)
    PROVE  ReviewsInv'
<1> DEFINE n == Len(reviews)
<1>1. n \in Nat \ {0} /\ DOMAIN reviews = 1..n /\ \A k \in DOMAIN reviews : IsRound(reviews[k])
  BY RoundsAt
<1>2. PICK answer \in {"allowed", "refused", "failed"} :
         LET r == [reviews[i] EXCEPT !.answers[ns] = Outcome(answer)]
         IN  reviews' = [reviews EXCEPT ![i] = r] /\ refused' = RefusedAfter(i, r)
  BY DEF ReviewEnds
<1> DEFINE r == [reviews[i] EXCEPT !.answers[ns] = Outcome(answer)]
<1>3. reviews' = [reviews EXCEPT ![i] = r] /\ refused' = RefusedAfter(i, r)
  BY <1>2
<1>4. Outcome(answer) \in {"pending", "allowed", "refused"}
  BY DEF Outcome
<1>5. IsRound(r) /\ r.namespaces = reviews[i].namespaces
  BY <1>1, <1>4 DEF IsRound
<1>6. ~RoundDone(reviews[i]) /\ object' = object
  BY DEF ReviewEnds, RoundDone
<1> HIDE DEF r, n
<1>7. /\ DOMAIN reviews' = 1..n
      /\ \A k \in 1..n : reviews'[k] = IF k = i THEN r ELSE reviews[k]
      /\ reviews' = [k \in 1..n |-> reviews'[k]]
  BY <1>1, <1>3
<1>8. \A k \in 1..n : IsRound(reviews'[k])
  BY <1>1, <1>5, <1>7
<1>9. reviews' \in Seq(Rounds') /\ Len(reviews') = n
  BY <1>1, <1>7, <1>8, AreRounds
<1>10. reviews' # << >> /\ n \in DOMAIN reviews'
  BY <1>1, <1>7
<1>11. reviews'[n].namespaces = reviews[n].namespaces /\ reviews[n].namespaces = ChartNamespaces(object)
  BY <1>1, <1>5, <1>7 DEF ReviewsInv, n
<1>12. CASE RoundDone(r) /\ IsCurrent(i)
  <2>1. refused' = [for |-> r.namespaces, namespaces |-> RefusedIn(r)]
    BY <1>3, <1>12 DEF RefusedAfter
  <2>2. i = n /\ reviews'[n] = r
    BY <1>1, <1>7, <1>12 DEF IsCurrent, n
  <2>3. /\ RoundDone(reviews'[n]) /\ refused'.for = reviews'[n].namespaces
        /\ refused'.namespaces = RefusedIn(reviews'[n])
    BY <1>12, <2>1, <2>2
  <2> QED
    BY <1>6, <1>9, <1>10, <1>11, <2>3 DEF ReviewsInv, SaidBy
<1>13. CASE ~(RoundDone(r) /\ IsCurrent(i))
  <2>1. refused' = refused
    BY <1>3, <1>13 DEF RefusedAfter
  <2>2. ASSUME NEW k \in DOMAIN reviews, SaidBy(reviews[k])
        PROVE  (\E x \in DOMAIN reviews : SaidBy(reviews[x]))'
    <3>1. k # i /\ k \in DOMAIN reviews' /\ reviews'[k] = reviews[k]
      BY <1>1, <1>6, <1>7, <2>2 DEF SaidBy
    <3>2. /\ RoundDone(reviews'[k]) /\ refused'.for = reviews'[k].namespaces
          /\ refused'.namespaces = RefusedIn(reviews'[k])
      BY <2>1, <2>2, <3>1 DEF SaidBy
    <3> QED
      BY <3>1, <3>2 DEF SaidBy
  <2>3. RoundDone(reviews'[n]) => i # n
    <3>1. CASE i = n
      <4>1. IsCurrent(i) /\ reviews'[n] = r
        BY <1>1, <1>7, <1>11, <3>1 DEF IsCurrent, n
      <4> QED
        BY <4>1, <1>13
    <3> QED
      BY <3>1
  <2>4. /\ RoundDone(reviews'[n]) /\ reviews'[n].namespaces # {} =>
             /\ refused'.for = reviews'[n].namespaces
             /\ refused'.namespaces = RefusedIn(reviews'[n])
    <3>1. RoundDone(reviews'[n]) => reviews'[n] = reviews[n]
      BY <1>1, <1>7, <2>3
    <3> QED
      BY <3>1, <2>1 DEF ReviewsInv, SaidBy, n
  <2>5. (\/ refused.for = {} /\ refused.namespaces = {}
         \/ \E x \in DOMAIN reviews : SaidBy(reviews[x]))'
    BY <2>1, <2>2 DEF ReviewsInv
  <2> QED
    BY <1>6, <1>9, <1>10, <1>11, <2>4, <2>5 DEF ReviewsInv, SaidBy
<1> QED
  BY <1>12, <1>13

(* Every step keeps the rounds. *)
LEMMA ReviewsNextInv ==
    ASSUME ReviewsInv, MetricsNext
    PROVE  ReviewsInv'
<1>1. ASSUME NEW o \in Objects, WatchShows(o)
      PROVE  ReviewsInv'
  <2>1. CASE ChartNamespaces(o) = ChartNamespaces(object)
    BY <1>1, <2>1, ReviewsStay DEF WatchShows
  <2>2. CASE ChartNamespaces(o) # ChartNamespaces(object)
    BY <1>1, <2>2, RoundAdded DEF WatchShows
  <2> QED
    BY <2>1, <2>2
<1>2. ASSUME NEW g, FilterByGroup(g)
      PROVE  ReviewsInv'
  BY <1>2, ReviewsStay DEF FilterByGroup
<1>3. CASE ChangeTime
  BY <1>3, ReviewsStay DEF ChangeTime
<1>4. ASSUME NEW c, NEW i, QueryEnds(c, i) \/ Poll(c, i)
      PROVE  ReviewsInv'
  BY <1>4, ReviewsStay DEF QueryEnds, QueryAnswers, QueryFails, Poll
<1>5. CASE ReviewStep
  BY <1>5, ReviewKeeps DEF ReviewStep
<1> QED
  BY <1>1, <1>2, <1>3, <1>4, <1>5 DEF MetricsNext

(* So the warning is that of the round begun last. *)
LEMMA WarnsOfItsOwn == ReviewsInv => WarnsOfTheLastRound
<1> SUFFICES ASSUME ReviewsInv
             PROVE  WarnsOfTheLastRound
  OBVIOUS
<1> DEFINE last == reviews[Len(reviews)]
<1>1. Last(reviews) = last /\ last.namespaces = ChartNamespaces(object)
  BY RoundsAt DEF ReviewsInv
<1>2. /\ RoundDone(last) /\ last.namespaces # {} => SaidBy(last)
      /\ \/ refused.for = {} /\ refused.namespaces = {}
         \/ \E i \in DOMAIN reviews : SaidBy(reviews[i])
  BY DEF ReviewsInv
<1> HIDE DEF last
<1>3. CASE RoundDone(last)
  <2>1. CASE last.namespaces # {}
    BY <1>1, <1>2, <1>3, <2>1 DEF WarnsOfTheLastRound, Warned, SaidBy
  <2>2. CASE last.namespaces = {}
    <3>1. RefusedIn(last) = {}
      BY <2>2 DEF RefusedIn
    <3>2. refused.for = {} => refused.namespaces = {}
      BY <1>2 DEF SaidBy, RefusedIn
    <3> QED
      BY <1>1, <1>3, <2>2, <3>1, <3>2 DEF WarnsOfTheLastRound, Warned
  <2> QED
    BY <2>1, <2>2
<1>4. CASE ~RoundDone(last)
  BY <1>1, <1>2, <1>4 DEF WarnsOfTheLastRound, Warned, SaidBy
<1> QED
  BY <1>3, <1>4

-----------------------------------------------------------------------------
(* The section as a whole. *)

MetricsInv == LinksInv /\ ReviewsInv /\ group \in SectionGroups \cup {AllGroups}

(* Its invariant gives its types. *)
LEMMA MetricsTypes == MetricsInv => MetricsTypeOK
<1> SUFFICES ASSUME MetricsInv
             PROVE  MetricsTypeOK
  OBVIOUS
<1>1. LinksInv /\ ReviewsInv /\ group \in SectionGroups \cup {AllGroups}
  BY DEF MetricsInv
<1>2. object \in Objects /\ DOMAIN links = VisibleCharts(object, group)
  BY <1>1 DEF LinksInv
<1>3. ASSUME NEW c \in DOMAIN links
      PROVE  /\ [i \in DOMAIN links[c] |-> links[c][i].query] = Charts(object)[c].queries
             /\ \A i \in DOMAIN links[c] : links[c][i].results # << >> => links[c][i].done
  <2> DEFINE queries == Charts(object)[c].queries
  <2>1. IsChain(links[c], queries)
    BY <1>1 DEF LinksInv
  <2>2. IsQueries(queries)
    BY <1>2, ChartQueries DEF VisibleCharts
  <2> HIDE DEF queries
  <2>3. [i \in DOMAIN links[c] |-> links[c][i].query] = [i \in DOMAIN queries |-> queries[i]]
    BY <2>1 DEF IsChain, IsLinkOf
  <2>4. [i \in DOMAIN queries |-> queries[i]] = queries
    BY <2>2 DEF IsQueries
  <2> QED
    BY <2>1, <2>3, <2>4 DEF IsChain, IsLinkOf, queries
<1>4. \A i \in DOMAIN reviews :
        reviews[i].answers \in [reviews[i].namespaces -> {"pending", "allowed", "refused"}]
  BY <1>1, RoundsAt DEF IsRound
<1>5. Last(reviews).namespaces = ChartNamespaces(object)
  BY <1>1, RoundsAt DEF ReviewsInv
<1>6. refused.namespaces \subseteq refused.for
  BY <1>1 DEF ReviewsInv, SaidBy, RefusedIn
<1> QED
  BY <1>1, <1>2, <1>3, <1>4, <1>5, <1>6 DEF MetricsTypeOK

(* The section opens on any object, without a filter. *)
LEMMA MetricsInitInv == MetricsInit => MetricsInv
BY LinksInitInv, ReviewsInitInv DEF MetricsInit, MetricsInv

(* And keeps its invariant. *)
LEMMA MetricsNextInv ==
    ASSUME MetricsInv, MetricsNext
    PROVE  MetricsInv'
<1>1. LinksInv' /\ ReviewsInv'
  BY LinksNextInv, ReviewsNextInv DEF MetricsInv
<1>2. group' \in SectionGroups \cup {AllGroups}
  BY DEF MetricsNext, MetricsInv, WatchShows, FilterByGroup, ChangeTime, QueryEnds,
         QueryAnswers, QueryFails, Poll, ReviewStep, ReviewEnds
<1> QED
  BY <1>1, <1>2 DEF MetricsInv

-----------------------------------------------------------------------------
(* The pages. *)

(* Each page has the invariant of its component. *)
ConsoleInv ==
    /\ page \in Pages
    /\ page = "service" => ServiceInv
    /\ page = "app" => AppInv
    /\ page = "metrics" => MetricsInv
    /\ page = "star" => StarInv

(* A page that is opened has its invariant. *)
LEMMA ConsoleInit == Init => ConsoleInv
BY ServiceInitInv, AppInitInv, MetricsInitInv, StarInitInv DEF Init, ConsoleInv

(* And keeps it, whatever it does. *)
LEMMA ConsoleNext == ConsoleInv /\ [Next]_vars => ConsoleInv'
<1> SUFFICES ASSUME ConsoleInv, [Next]_vars
             PROVE  ConsoleInv'
  OBVIOUS
<1>1. CASE ServiceStep
  BY <1>1, ServiceNextInv DEF ServiceStep, ConsoleInv
<1>2. CASE AppStep
  BY <1>2, AppNextInv DEF AppStep, ConsoleInv
<1>3. CASE MetricsStep
  BY <1>3, MetricsNextInv DEF MetricsStep, ConsoleInv
<1>4. CASE StarStep
  BY <1>4, StarNextInv DEF StarStep, ConsoleInv
<1>5. CASE UNCHANGED vars
  <2>1. /\ page' = page
        /\ UNCHANGED serviceVars /\ UNCHANGED appVars
        /\ UNCHANGED metricsVars /\ UNCHANGED favoriteVars
    BY <1>5 DEF vars
  <2>2. ServiceInv => ServiceInv'
    BY <2>1 DEF serviceVars, ServiceInv, ServiceTypeOK, CRAndRows
  <2>3. AppInv => AppInv'
    BY <2>1 DEF appVars, AppInv, AppTypeOK
  <2>4. MetricsInv => MetricsInv'
    <3>1. UNCHANGED <<object, group, links, reviews, refused>>
      BY <2>1 DEF metricsVars
    <3>2. LinksInv => LinksInv'
      BY <3>1 DEF LinksInv
    <3>3. ReviewsInv => ReviewsInv'
      BY <3>1, ReviewsStay
    <3> QED
      BY <3>1, <3>2, <3>3 DEF MetricsInv
  <2>5. StarInv => StarInv'
    BY <2>1 DEF favoriteVars, StarInv, FavoritesTypeOK, NoNameTwice, NamesApart
  <2> QED
    BY <2>1, <2>2, <2>3, <2>4, <2>5 DEF ConsoleInv
<1> QED
  BY <1>1, <1>2, <1>3, <1>4, <1>5 DEF Next

(* The inductive invariant of the pages: each keeps that of its component     *)
(* (BrokerServiceForm.tsx, BrokerAppForm.tsx and their reducers,              *)
(* MetricsSection.tsx and its hooks, ResourceDetailsFavoriteButton.tsx).      *)
THEOREM ConsolePagesInvariant == Spec => []ConsoleInv
<1>1. Init => ConsoleInv
  BY ConsoleInit
<1>2. ConsoleInv /\ [Next]_vars => ConsoleInv'
  BY ConsoleNext
<1> QED
  BY <1>1, <1>2, PTL DEF Spec

(* The state of the page that is shown has its types. *)
THEOREM ConsoleTypes == Spec => []TypeOK
<1>1. ConsoleInv => TypeOK
  BY MetricsTypes DEF ConsoleInv, TypeOK, ServiceInv, AppInv, StarInv
<1> QED
  BY <1>1, ConsolePagesInvariant, PTL

(* What Save sends of a BrokerService has each row with a key as a label, and *)
(* no other label, inherited keys aside (syncLabels of                        *)
(* brokerservice/reducer.ts, which lets the first row of a key win).          *)
THEOREM LabelsSaved == Spec => []SavedLabelsAreTheRows
<1>1. ConsoleInv => SavedLabelsAreTheRows
  BY SavesItsLabels DEF ConsoleInv, SavedLabelsAreTheRows
<1> QED
  BY <1>1, ConsolePagesInvariant, PTL

(* It names no environment variable twice, though names are trimmed as they    *)
(* are written to the CR, and leaves out no row with a name.                   *)
THEOREM VariablesSaved == Spec => []SavedEnvIsUnambiguous
<1>1. ConsoleInv => SavedEnvIsUnambiguous
  BY SavesItsVariables DEF ConsoleInv, SavedEnvIsUnambiguous
<1> QED
  BY <1>1, ConsolePagesInvariant, PTL

(* Back from the YAML view the form has the labels of the text, unless it had  *)
(* a key twice: then no row is lost and none comes in for a key it has         *)
(* (mergeFormLabelsWithYaml).                                                  *)
THEOREM TextTaken == Spec => SwitchTakesLabels
<1>1. ConsoleInv => [page = "service" => TakesLabels]_vars
  BY SwitchTakes DEF ConsoleInv
<1> QED
  BY <1>1, ConsolePagesInvariant, PTL DEF SwitchTakesLabels

(* What Save sends of a BrokerApp is what the form shows: its selector has     *)
(* each row with a key and nothing else, inherited keys aside, and clearing    *)
(* fields leaves no empty object behind (cleanupResources).                    *)
THEOREM AppSaved == Spec => []AppIsTheForm
<1>1. ConsoleInv => AppIsTheForm
  BY SavesItsSelector DEF ConsoleInv, AppIsTheForm
<1> QED
  BY <1>1, ConsolePagesInvariant, PTL

(* COPY_MATCH_LABELS_FROM_SERVICE loses no row with a key, changes no label of *)
(* the selector, and brings each label that was ticked.                        *)
THEOREM ChoicesKept == Spec => CopyKeepsChoices
<1>1. ConsoleInv => [page = "app" => CopyKeeps]_vars
  BY CopiesWhatWasTicked DEF ConsoleInv
<1> QED
  BY <1>1, ConsolePagesInvariant, PTL DEF CopyKeepsChoices

(* The warning of useNamespacesWithoutMetricsAccess is what the last round of  *)
(* reviews says, however late the rounds before it answer.                     *)
THEOREM WarningSaid == Spec => []WarningOfTheLastRound
<1>1. ConsoleInv => WarningOfTheLastRound
  BY WarnsOfItsOwn DEF ConsoleInv, MetricsInv, WarningOfTheLastRound
<1> QED
  BY <1>1, ConsolePagesInvariant, PTL

(* The lines of a chart have different names, and those of a query show each   *)
(* result that this very query was answered, once, and nothing else            *)
(* (toChartSeries, and the keys of RangeQueryChain), whatever the data brings  *)
(* but names that end as if they were numbered.                                *)
THEOREM LinesKnown == Spec => []LinesToldApart
<1>1. ConsoleInv => LinesToldApart
  BY ChartsToldApart DEF ConsoleInv, MetricsInv, LinesToldApart
<1> QED
  BY <1>1, ConsolePagesInvariant, PTL

(* Whatever the tabs write at once, no list of favorites has a name twice,     *)
(* though handleConfirmStar looks only at the list of its own last render.     *)
THEOREM NamesUnique == Spec => []NamesStayUnique
<1>1. ConsoleInv => NamesStayUnique
  BY DEF ConsoleInv, NamesStayUnique, StarInv
<1> QED
  BY <1>1, ConsolePagesInvariant, PTL

=============================================================================

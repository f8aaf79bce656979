------------------------ MODULE AddressManagerProofs ------------------------
(***************************************************************************)
(* The rows of the addresses and the CR that is written from them: what the *)
(* conversions keep, for any CR and any rows the form can hold, and from it *)
(* the properties of the Addresses section, with any bounds.                *)
(***************************************************************************)
EXTENDS AddressManager, SubsequencesProofs

(* What the fields of a row that the form holds have to do with each other: *)
(* an owned address names no app; one of another app has a direction, no    *)
(* selectors, and subscriptions only where it is consumed and pub/sub.      *)
RowAgrees(r) ==
    /\ r.ownership = "owned" => r.app = NoApp
    /\ r.ownership = "external" =>
          /\ r.direction # "none"
          /\ r.selectors = NoSelector
          /\ r.subscriptions # {} => r.pubSub /\ Consumes(r)
          /\ r.pubSub => r.subscriptions # {} \/ Produces(r)

FormRow == {r \in Row : RowAgrees(r)}

(* A CR of entries that the form writes; one that validateBrokerAppCR accepts. *)
ProperCR == [addresses : Seq(WrittenSpec), producerOf : Seq(WrittenProducer),
             consumerOf : Seq(WrittenConsumer), further : BOOLEAN]
DistinctCR(c) == c \in ProperCR /\ DistinctAddresses(c.addresses)

-----------------------------------------------------------------------------
(* Trim gives a name or the empty text, and leaves names alone. *)
LEMMA TrimText ==
    /\ \A t \in Texts : Trim[t] \in Names \cup {Blank} /\ (Trim[t] # Blank => Trim[t] \in Names)
    /\ \A n \in Names : n \in Texts /\ Trim[n] = n /\ n # Blank
    /\ Blank \in Texts /\ Trim[Blank] = Blank
<1>1. \A n \in Names \cup {Blank} : Trim[n] = n
  BY AddressAssumption
<1>2. Trim \in [Texts -> Names \cup {Blank}] /\ Blank \notin Names /\ Names \cup {Blank} \subseteq Texts
  BY AddressAssumption
<1> QED
  BY <1>1, <1>2

(* Selectors are trimmed once. *)
LEMMA TrimSelector ==
    /\ \A c \in Selectors \cup {NoSelector} :
         /\ TrimSelectors[c] \in Selectors \cup {NoSelector}
         /\ TrimSelectors[TrimSelectors[c]] = TrimSelectors[c]
    /\ TrimSelectors[NoSelector] = NoSelector
<1>1. TrimSelectors \in [Selectors \cup {NoSelector} -> Selectors \cup {NoSelector}]
  BY AddressAssumption
<1>2. \A c \in Selectors \cup {NoSelector} : TrimSelectors[TrimSelectors[c]] = TrimSelectors[c]
  BY AddressAssumption
<1>3. TrimSelectors[NoSelector] = NoSelector
  BY AddressAssumption
<1> QED
  BY <1>1, <1>2, <1>3

(* The fields of a row. *)
LEMMA RowFields ==
    ASSUME NEW r \in Row
    PROVE  /\ r.address \in Texts /\ r.ownership \in {"owned", "external"}
           /\ r.direction \in {"produces", "consumes", "both", "none"}
           /\ r.pubSub \in BOOLEAN /\ r.subscriptions \in SUBSET Subscriptions
           /\ r.app \in Apps \cup {NoApp} /\ r.selectors \in Selectors \cup {NoSelector}
BY DEF Row

(* The entries of a named row are entries of the CR. *)
LEMMA EntryTypes ==
    ASSUME NEW r \in Row, Trim[r.address] # Blank
    PROVE  /\ CleanAddress(r) \in WrittenSpec /\ CleanAddress(r).address = Trim[r.address]
           /\ ProducerEntry(r) \in WrittenProducer /\ ProducerEntry(r).address = Trim[r.address]
           /\ ConsumerEntry(r) \in WrittenConsumer /\ ConsumerEntry(r).address = Trim[r.address]
<1>1. Trim[r.address] \in Names /\ Trim[r.address] \in Texts
  BY TrimText, RowFields
<1>2. CleanAddress(r) \in WrittenSpec /\ CleanAddress(r).address = Trim[r.address]
  <2>1. CleanAddress(r) \in AddressSpec
    BY <1>1, RowFields, TrimSelector DEF CleanAddress, AddressSpec
  <2>2. /\ CleanAddress(r).address = Trim[r.address]
        /\ CleanAddress(r).selectors = TrimSelectors[r.selectors]
    BY DEF CleanAddress
  <2> QED
    BY <1>1, <2>1, <2>2, RowFields, TrimSelector DEF WrittenSpec
<1>3. ProducerEntry(r) \in WrittenProducer /\ ProducerEntry(r).address = Trim[r.address]
  BY <1>1, RowFields DEF ProducerEntry, WrittenProducer, MatchAddress
<1>4. ConsumerEntry(r) \in WrittenConsumer /\ ConsumerEntry(r).address = Trim[r.address]
  BY <1>1, RowFields DEF ConsumerEntry, WrittenConsumer, MatchAddress
<1> QED
  BY <1>2, <1>3, <1>4

(* The lists that syncAddressesToCR writes have the types of the CR. *)
LEMMA SyncType ==
    ASSUME NEW list \in Seq(Row)
    PROVE  /\ Sync(list) \in ProperCR
           /\ Sync(list) \in [addresses : Seq(WrittenSpec), producerOf : Seq(WrittenProducer),
                              consumerOf : Seq(WrittenConsumer), further : {FALSE}]
<1> USE DEF Named
<1>1. /\ Len(list) \in Nat /\ DOMAIN list = 1..Len(list)
      /\ \A i \in DOMAIN list : list[i] \in Row
  BY LenProperties, ElementOfSeq
<1>2. OwnedEntries(list) \in Seq(WrittenSpec)
  <2> DEFINE f == [i \in DOMAIN list |-> CleanAddress(list[i])]
             P == {i \in Named(list) : Owned(list[i])}
             T == {CleanAddress(list[i]) : i \in DOMAIN list}
  <2>1. f \in Seq(T) /\ DOMAIN f = DOMAIN list
    BY <1>1
  <2>2. P \in SUBSET DOMAIN f /\ \A i \in P : f[i] \in WrittenSpec
    BY <1>1, EntryTypes
  <2> HIDE DEF f, P, T
  <2>3. SubSeqAt(f, P) \in Seq(WrittenSpec)
    BY <2>1, <2>2, SubSeqAtType
  <2> QED
    BY <2>3 DEF OwnedEntries, f, P
<1>3. ProducerEntries(list) \in Seq(WrittenProducer)
  <2> DEFINE f == [i \in DOMAIN list |-> ProducerEntry(list[i])]
             P == {i \in Named(list) : Produces(list[i])}
             T == {ProducerEntry(list[i]) : i \in DOMAIN list}
  <2>1. f \in Seq(T) /\ DOMAIN f = DOMAIN list
    BY <1>1
  <2>2. P \in SUBSET DOMAIN f /\ \A i \in P : f[i] \in WrittenProducer
    BY <1>1, EntryTypes
  <2> HIDE DEF f, P, T
  <2>3. SubSeqAt(f, P) \in Seq(WrittenProducer)
    BY <2>1, <2>2, SubSeqAtType
  <2> QED
    BY <2>3 DEF ProducerEntries, f, P
<1>4. ConsumerEntries(list) \in Seq(WrittenConsumer)
  <2> DEFINE f == [i \in DOMAIN list |-> ConsumerEntry(list[i])]
             P == {i \in Named(list) : Consumes(list[i])}
             T == {ConsumerEntry(list[i]) : i \in DOMAIN list}
  <2>1. f \in Seq(T) /\ DOMAIN f = DOMAIN list
    BY <1>1
  <2>2. P \in SUBSET DOMAIN f /\ \A i \in P : f[i] \in WrittenConsumer
    BY <1>1, EntryTypes
  <2> HIDE DEF f, P, T
  <2>3. SubSeqAt(f, P) \in Seq(WrittenConsumer)
    BY <2>1, <2>2, SubSeqAtType
  <2> QED
    BY <2>3 DEF ConsumerEntries, f, P
<1> QED
  BY <1>2, <1>3, <1>4 DEF Sync, ProperCR

(* What stands in them is what the rows become, and nothing else. *)
LEMMA SyncElements ==
    ASSUME NEW list \in Seq(Row)
    PROVE  /\ ToSet(Sync(list).addresses) =
                {CleanAddress(list[i]) : i \in {j \in Named(list) : Owned(list[j])}}
           /\ ToSet(Sync(list).producerOf) =
                {ProducerEntry(list[i]) : i \in {j \in Named(list) : Produces(list[j])}}
           /\ ToSet(Sync(list).consumerOf) =
                {ConsumerEntry(list[i]) : i \in {j \in Named(list) : Consumes(list[j])}}
<1> USE DEF Named
<1>1. Len(list) \in Nat /\ DOMAIN list = 1..Len(list)
  BY LenProperties
<1>2. ToSet(OwnedEntries(list)) =
        {CleanAddress(list[i]) : i \in {j \in Named(list) : Owned(list[j])}}
  <2> DEFINE f == [i \in DOMAIN list |-> CleanAddress(list[i])]
             P == {i \in Named(list) : Owned(list[i])}
             T == {CleanAddress(list[i]) : i \in DOMAIN list}
  <2>1. f \in Seq(T) /\ DOMAIN f = DOMAIN list /\ P \in SUBSET DOMAIN f
    BY <1>1
  <2>2. \A i \in P : f[i] = CleanAddress(list[i])
    OBVIOUS
  <2> HIDE DEF f, P, T
  <2>3. ToSet(SubSeqAt(f, P)) = {f[i] : i \in P}
    BY <2>1, ElementsAt
  <2> QED
    BY <2>2, <2>3 DEF OwnedEntries, f, P
<1>3. ToSet(ProducerEntries(list)) =
        {ProducerEntry(list[i]) : i \in {j \in Named(list) : Produces(list[j])}}
  <2> DEFINE f == [i \in DOMAIN list |-> ProducerEntry(list[i])]
             P == {i \in Named(list) : Produces(list[i])}
             T == {ProducerEntry(list[i]) : i \in DOMAIN list}
  <2>1. f \in Seq(T) /\ DOMAIN f = DOMAIN list /\ P \in SUBSET DOMAIN f
    BY <1>1
  <2>2. \A i \in P : f[i] = ProducerEntry(list[i])
    OBVIOUS
  <2> HIDE DEF f, P, T
  <2>3. ToSet(SubSeqAt(f, P)) = {f[i] : i \in P}
    BY <2>1, ElementsAt
  <2> QED
    BY <2>2, <2>3 DEF ProducerEntries, f, P
<1>4. ToSet(ConsumerEntries(list)) =
        {ConsumerEntry(list[i]) : i \in {j \in Named(list) : Consumes(list[j])}}
  <2> DEFINE f == [i \in DOMAIN list |-> ConsumerEntry(list[i])]
             P == {i \in Named(list) : Consumes(list[i])}
             T == {ConsumerEntry(list[i]) : i \in DOMAIN list}
  <2>1. f \in Seq(T) /\ DOMAIN f = DOMAIN list /\ P \in SUBSET DOMAIN f
    BY <1>1
  <2>2. \A i \in P : f[i] = ConsumerEntry(list[i])
    OBVIOUS
  <2> HIDE DEF f, P, T
  <2>3. ToSet(SubSeqAt(f, P)) = {f[i] : i \in P}
    BY <2>1, ElementsAt
  <2> QED
    BY <2>2, <2>3 DEF ConsumerEntries, f, P
<1> QED
  BY <1>2, <1>3, <1>4 DEF Sync

(* Entries at positions that differ in their addresses have different ones. *)
LEMMA DistinctAt ==
    ASSUME NEW T, NEW f \in Seq(T), NEW P \in SUBSET DOMAIN f,
           \A p, q \in P : f[p].address = f[q].address => p = q
    PROVE  DistinctAddresses(SubSeqAt(f, P))
<1> DEFINE u == SubSeqAt(f, P)
           N == Cardinality(P)
<1>1. /\ N \in Nat /\ DOMAIN u = 1..N
      /\ \A n \in 1..N : Nth(P, n) \in P /\ u[n] = f[Nth(P, n)]
      /\ \A m, n \in 1..N : m < n => Nth(P, m) < Nth(P, n)
  BY SubSeqAtProperties
<1>2. P \subseteq Int
  BY LenProperties
<1> HIDE DEF u, N
<1>3. ASSUME NEW m \in 1..N, NEW n \in 1..N, u[m].address = u[n].address
      PROVE  m = n
  <2>1. Nth(P, m) = Nth(P, n) /\ Nth(P, m) \in Int
    BY <1>1, <1>2, <1>3
  <2>2. ~(m < n) /\ ~(n < m)
    BY <2>1, <1>1
  <2> QED
    BY <2>2, <1>1
<1>4. DistinctAddresses(u)
  BY <1>1, <1>3 DEF DistinctAddresses, IsInjective
<1> QED
  BY <1>4 DEF u

(* Rows without a name twice give lists without an address twice. *)
LEMMA SyncDistinct ==
    ASSUME NEW list \in Seq(Row), DistinctRows(list)
    PROVE  /\ DistinctAddresses(Sync(list).addresses)
           /\ DistinctAddresses(Sync(list).producerOf)
           /\ DistinctAddresses(Sync(list).consumerOf)
<1>1. /\ Len(list) \in Nat /\ DOMAIN list = 1..Len(list)
      /\ \A i \in DOMAIN list : list[i] \in Row
  BY LenProperties, ElementOfSeq
<1>2. \A p, q \in Named(list) :
        Trim[list[p].address] = Trim[list[q].address] => p = q
  BY DEF DistinctRows, Named
<1>3. \A p \in Named(list) : p \in DOMAIN list /\ list[p] \in Row /\ Trim[list[p].address] # Blank
  BY <1>1 DEF Named
<1>4. DistinctAddresses(OwnedEntries(list))
  <2> DEFINE f == [i \in DOMAIN list |-> CleanAddress(list[i])]
             P == {i \in Named(list) : Owned(list[i])}
             T == {CleanAddress(list[i]) : i \in DOMAIN list}
  <2>1. f \in Seq(T) /\ DOMAIN f = DOMAIN list
    BY <1>1
  <2>2. P \in SUBSET DOMAIN f /\ \A p \in P : f[p].address = Trim[list[p].address]
    BY <1>3, EntryTypes
  <2>3. \A p, q \in P : f[p].address = f[q].address => p = q
    BY <2>2, <1>2
  <2> HIDE DEF f, P, T
  <2>4. DistinctAddresses(SubSeqAt(f, P))
    BY <2>1, <2>2, <2>3, DistinctAt
  <2> QED
    BY <2>4 DEF OwnedEntries, f, P
<1>5. DistinctAddresses(ProducerEntries(list))
  <2> DEFINE f == [i \in DOMAIN list |-> ProducerEntry(list[i])]
             P == {i \in Named(list) : Produces(list[i])}
             T == {ProducerEntry(list[i]) : i \in DOMAIN list}
  <2>1. f \in Seq(T) /\ DOMAIN f = DOMAIN list
    BY <1>1
  <2>2. P \in SUBSET DOMAIN f /\ \A p \in P : f[p].address = Trim[list[p].address]
    BY <1>3, EntryTypes
  <2>3. \A p, q \in P : f[p].address = f[q].address => p = q
    BY <2>2, <1>2
  <2> HIDE DEF f, P, T
  <2>4. DistinctAddresses(SubSeqAt(f, P))
    BY <2>1, <2>2, <2>3, DistinctAt
  <2> QED
    BY <2>4 DEF ProducerEntries, f, P
<1>6. DistinctAddresses(ConsumerEntries(list))
  <2> DEFINE f == [i \in DOMAIN list |-> ConsumerEntry(list[i])]
             P == {i \in Named(list) : Consumes(list[i])}
             T == {ConsumerEntry(list[i]) : i \in DOMAIN list}
  <2>1. f \in Seq(T) /\ DOMAIN f = DOMAIN list
    BY <1>1
  <2>2. P \in SUBSET DOMAIN f /\ \A p \in P : f[p].address = Trim[list[p].address]
    BY <1>3, EntryTypes
  <2>3. \A p, q \in P : f[p].address = f[q].address => p = q
    BY <2>2, <1>2
  <2> HIDE DEF f, P, T
  <2>4. DistinctAddresses(SubSeqAt(f, P))
    BY <2>1, <2>2, <2>3, DistinctAt
  <2> QED
    BY <2>4 DEF ConsumerEntries, f, P
<1> QED
  BY <1>4, <1>5, <1>6 DEF Sync

-----------------------------------------------------------------------------
(* The first and the last entry of an address are entries with it, and the     *)
(* only one where no address stands twice.                                     *)
LEMMA FirstAndLastOf ==
    ASSUME NEW S, NEW entries \in Seq(S), NEW a \in AddressesOf(entries)
    PROVE  /\ FirstOf(entries, a) \in ToSet(entries) /\ FirstOf(entries, a).address = a
           /\ LastOf(entries, a) \in ToSet(entries) /\ LastOf(entries, a).address = a
<1> DEFINE P == {i \in 1..Len(entries) : entries[i].address = a}
<1>1. Len(entries) \in Nat /\ DOMAIN entries = 1..Len(entries)
  BY LenProperties
<1>2. P \in SUBSET (1..Len(entries)) /\ P \in SUBSET Int /\ P # {}
  BY <1>1 DEF AddressesOf, ToSet
<1>3. IsFiniteSet(P)
  <2>1. IsFiniteSet(1..Len(entries))
    BY <1>1, FS_Interval
  <2> HIDE DEF P
  <2> QED
    BY <2>1, <1>2, FS_Subset
<1>4. FirstOf(entries, a) = entries[Min(P)] /\ LastOf(entries, a) = entries[Max(P)]
  BY <1>2 DEF FirstOf, LastOf, SelectInSeq, SelectLastInSeq
<1>5. Min(P) \in P /\ Max(P) \in P
  <2> HIDE DEF P
  <2> QED
    BY <1>2, <1>3, FirstAndLast
<1>6. \A i \in P : entries[i] \in ToSet(entries) /\ entries[i].address = a
  BY <1>1 DEF ToSet
<1> QED
  BY <1>4, <1>5, <1>6

(* Entries with different addresses are told apart by them. *)
LEMMA EntryOfAddress ==
    ASSUME NEW S, NEW entries \in Seq(S), DistinctAddresses(entries),
           NEW e \in ToSet(entries), NEW d \in ToSet(entries), d.address = e.address
    PROVE  d = e
BY DEF DistinctAddresses, IsInjective, ToSet

(* The addresses of a list of entries, in their order. *)
LEMMA AddressesInOrder ==
    ASSUME NEW S, NEW entries \in Seq(S), \A e \in S : e.address \in Texts
    PROVE  /\ [i \in DOMAIN entries |-> entries[i].address] \in Seq(Texts)
           /\ ToSet([i \in DOMAIN entries |-> entries[i].address]) = AddressesOf(entries)
<1> DEFINE f == [i \in DOMAIN entries |-> entries[i].address]
<1>1. /\ Len(entries) \in Nat /\ DOMAIN entries = 1..Len(entries)
      /\ \A i \in DOMAIN entries : entries[i] \in S
  BY LenProperties, ElementOfSeq
<1>2. f \in [1..Len(entries) -> Texts]
  BY <1>1
<1>3. f \in Seq(Texts)
  BY <1>1, <1>2
<1>4. ToSet(f) = AddressesOf(entries)
  BY <1>1 DEF ToSet, AddressesOf
<1> QED
  BY <1>3, <1>4

(* The names the capability brings are those it has and the app does not own,  *)
(* each once.                                                                  *)
LEMMA ExternalNamesOnce ==
    ASSUME NEW c \in CR
    PROVE  /\ ExternalNames(c) \in Seq(Texts)
           /\ ToSet(ExternalNames(c)) = (AddressesOf(c.producerOf) \cup AddressesOf(c.consumerOf))
                                            \ AddressesOf(c.addresses)
           /\ IsInjective(ExternalNames(c))
<1> DEFINE f == [i \in DOMAIN c.producerOf |-> c.producerOf[i].address]
           g == [i \in DOMAIN c.consumerOf |-> c.consumerOf[i].address]
           named == CapabilityNames(c)
           Owns == AddressesOf(c.addresses)
           P == {i \in DOMAIN named : /\ named[i] \notin Owns
                                      /\ \A j \in 1..(i - 1) : named[j] # named[i]}
<1>1. c.producerOf \in Seq(MatchAddress) /\ c.consumerOf \in Seq(MatchAddress)
  BY DEF CR
<1>2. f \in Seq(Texts) /\ ToSet(f) = AddressesOf(c.producerOf)
  <2>1. \A e \in MatchAddress : e.address \in Texts
    BY DEF MatchAddress
  <2> QED
    BY <2>1, <1>1, AddressesInOrder
<1>3. g \in Seq(Texts) /\ ToSet(g) = AddressesOf(c.consumerOf)
  <2>1. \A e \in MatchAddress : e.address \in Texts
    BY DEF MatchAddress
  <2> QED
    BY <2>1, <1>1, AddressesInOrder
<1>4. named \in Seq(Texts) /\ ToSet(named) = ToSet(f) \cup ToSet(g)
  <2>1. named = f \o g
    BY DEF CapabilityNames
  <2> HIDE DEF f, g, named
  <2> QED
    BY <2>1, <1>2, <1>3, ConcatProperties, ElementsOfConcat
<1>5. ExternalNames(c) = SubSeqAt(named, P)
  BY DEF ExternalNames
<1>6. P \in SUBSET DOMAIN named /\ Len(named) \in Nat /\ DOMAIN named = 1..Len(named)
  BY <1>4, LenProperties
<1>7. \A p, q \in P : named[p] = named[q] => p = q
  <2> SUFFICES ASSUME NEW p \in P, NEW q \in P, named[p] = named[q]
               PROVE  p = q
    OBVIOUS
  <2>1. p \in Int /\ q \in Int /\ 1 <= p /\ 1 <= q
    BY <1>6
  <2>2. p < q => p \in 1..(q - 1)
    BY <2>1
  <2>3. q < p => q \in 1..(p - 1)
    BY <2>1
  <2>4. ~(p < q) /\ ~(q < p)
    <3> HIDE DEF named
    <3> QED
      BY <2>2, <2>3
  <2> QED
    BY <2>1, <2>4
<1>8. \A i \in DOMAIN named : named[i] \notin Owns => \E p \in P : named[p] = named[i]
  <2> SUFFICES ASSUME NEW i \in DOMAIN named, named[i] \notin Owns
               PROVE  \E p \in P : named[p] = named[i]
    OBVIOUS
  <2> HIDE DEF named
  <2> DEFINE Q == {j \in DOMAIN named : named[j] = named[i]}
  <2>1. Q \in SUBSET (1..Len(named)) /\ Q \in SUBSET Int /\ Q # {}
    BY <1>6
  <2>2. IsFiniteSet(Q)
    <3>1. IsFiniteSet(1..Len(named))
      BY <1>6, FS_Interval
    <3> HIDE DEF Q
    <3> QED
      BY <3>1, <2>1, FS_Subset
  <2> DEFINE m == Min(Q)
  <2>3. m \in Q /\ \A j \in Q : m <= j
    <3> HIDE DEF Q
    <3> QED
      BY <2>1, <2>2, FirstAndLast
  <2> HIDE DEF m
  <2>4. ASSUME NEW j \in 1..(m - 1)
        PROVE  named[j] # named[m]
    <3>1. j \in DOMAIN named /\ ~(m <= j)
      BY <2>1, <2>3, <1>6
    <3> QED
      BY <3>1, <2>3
  <2> QED
    BY <2>3, <2>4
<1> HIDE DEF named, P, f, g
<1>9. SubSeqAt(named, P) \in Seq(Texts) /\ ToSet(SubSeqAt(named, P)) = {named[p] : p \in P}
  BY <1>4, <1>6, SubSeqAtProperties, ElementsAt
<1>10. {named[p] : p \in P} = ToSet(named) \ Owns
  <2>1. \A p \in P : p \in DOMAIN named /\ named[p] \notin Owns
    BY DEF P
  <2> QED
    BY <2>1, <1>8 DEF ToSet
<1>11. IsInjective(SubSeqAt(named, P))
  <2> DEFINE u == SubSeqAt(named, P)
             N == Cardinality(P)
  <2>1. /\ N \in Nat /\ DOMAIN u = 1..N
        /\ \A n \in 1..N : Nth(P, n) \in P /\ u[n] = named[Nth(P, n)]
        /\ \A m, n \in 1..N : m < n => Nth(P, m) < Nth(P, n)
    BY <1>4, <1>6, SubSeqAtProperties
  <2>2. P \subseteq Int
    BY <1>6
  <2> HIDE DEF u, N
  <2>3. ASSUME NEW m \in 1..N, NEW n \in 1..N, u[m] = u[n]
        PROVE  m = n
    <3>1. Nth(P, m) = Nth(P, n) /\ Nth(P, m) \in Int
      BY <2>1, <2>2, <2>3, <1>7
    <3>2. ~(m < n) /\ ~(n < m)
      BY <3>1, <2>1
    <3> QED
      BY <3>2, <2>1
  <2>4. IsInjective(u)
    BY <2>1, <2>3 DEF IsInjective
  <2> QED
    BY <2>4 DEF u
<1> QED
  BY <1>2, <1>3, <1>4, <1>5, <1>9, <1>10, <1>11

(* What a CR holds. *)
LEMMA CRFields ==
    ASSUME NEW c \in CR
    PROVE  /\ c.addresses \in Seq(AddressSpec) /\ ToSet(c.addresses) \subseteq AddressSpec
           /\ c.producerOf \in Seq(MatchAddress) /\ ToSet(c.producerOf) \subseteq MatchAddress
           /\ c.consumerOf \in Seq(MatchAddress) /\ ToSet(c.consumerOf) \subseteq MatchAddress
           /\ AddressesOf(c.addresses) \subseteq Texts
           /\ AddressesOf(c.producerOf) \subseteq Texts
           /\ AddressesOf(c.consumerOf) \subseteq Texts
<1>1. /\ c.addresses \in Seq(AddressSpec)
      /\ c.producerOf \in Seq(MatchAddress)
      /\ c.consumerOf \in Seq(MatchAddress)
  BY DEF CR
<1>2. \A S : \A s \in Seq(S) : ToSet(s) \subseteq S
  BY LenProperties, ElementOfSeq DEF ToSet
<1>3. /\ \A e \in AddressSpec : e.address \in Texts
      /\ \A e \in MatchAddress : e.address \in Texts
  BY DEF AddressSpec, MatchAddress
<1> QED
  BY <1>1, <1>2, <1>3 DEF AddressesOf

(* A list is one of its elements' type. *)
LEMMA SeqOfElements ==
    ASSUME NEW S, NEW T, NEW u \in Seq(S), ToSet(u) \subseteq T
    PROVE  u \in Seq(T)
<1>1. Len(u) \in Nat /\ u \in [1..Len(u) -> S] /\ DOMAIN u = 1..Len(u)
  BY LenProperties
<1>2. \A i \in 1..Len(u) : u[i] \in T
  BY <1>1 DEF ToSet
<1>3. u \in [1..Len(u) -> T]
  BY <1>1, <1>2
<1> QED
  BY <1>1, <1>3

(* What one holds that the form may have written: it is a CR, of names only. *)
LEMMA ProperFields ==
    ASSUME NEW c \in ProperCR
    PROVE  /\ c \in CR
           /\ c.addresses \in Seq(WrittenSpec) /\ ToSet(c.addresses) \subseteq WrittenSpec
           /\ c.producerOf \in Seq(WrittenProducer) /\ ToSet(c.producerOf) \subseteq WrittenProducer
           /\ c.consumerOf \in Seq(WrittenConsumer) /\ ToSet(c.consumerOf) \subseteq WrittenConsumer
           /\ AddressesOf(c.addresses) \subseteq Names
           /\ AddressesOf(c.producerOf) \subseteq Names
           /\ AddressesOf(c.consumerOf) \subseteq Names
<1>1. /\ c.addresses \in Seq(WrittenSpec)
      /\ c.producerOf \in Seq(WrittenProducer)
      /\ c.consumerOf \in Seq(WrittenConsumer)
      /\ c.further \in BOOLEAN
      /\ c = [addresses |-> c.addresses, producerOf |-> c.producerOf,
              consumerOf |-> c.consumerOf, further |-> c.further]
  BY DEF ProperCR
<1>2. \A S : \A s \in Seq(S) : ToSet(s) \subseteq S
  BY LenProperties, ElementOfSeq DEF ToSet
<1>3. /\ \A e \in WrittenSpec : e.address \in Names
      /\ \A e \in WrittenProducer : e.address \in Names
      /\ \A e \in WrittenConsumer : e.address \in Names
  BY DEF WrittenSpec, WrittenProducer, WrittenConsumer
<1>4. /\ c.addresses \in Seq(AddressSpec)
      /\ c.producerOf \in Seq(MatchAddress)
      /\ c.consumerOf \in Seq(MatchAddress)
  <2>1. /\ WrittenSpec \subseteq AddressSpec
        /\ WrittenProducer \subseteq MatchAddress /\ WrittenConsumer \subseteq MatchAddress
    BY DEF WrittenSpec, WrittenProducer, WrittenConsumer
  <2> QED
    BY <1>1, <2>1, SeqMonotonic
<1>5. c \in CR
  BY <1>1, <1>4 DEF CR
<1> QED
  BY <1>1, <1>2, <1>3, <1>5 DEF AddressesOf

(* The direction of a row says in which lists the address stands. *)
LEMMA Direction ==
    ASSUME NEW c, NEW a
    PROVE  /\ ResolveDirection(c, a) \in {"produces", "consumes", "both", "none"}
           /\ ResolveDirection(c, a) \in {"produces", "both"} <=> a \in AddressesOf(c.producerOf)
           /\ ResolveDirection(c, a) \in {"consumes", "both"} <=> a \in AddressesOf(c.consumerOf)
           /\ ResolveDirection(c, a) = "none" <=> a \notin AddressesOf(c.producerOf)
                                                       \cup AddressesOf(c.consumerOf)
BY DEF ResolveDirection

(* The rows that an entry and a name of the capability become are rows the     *)
(* form can hold, with their address.                                          *)
LEMMA RowTypes ==
    ASSUME NEW c \in CR
    PROVE  /\ \A e \in AddressSpec :
                /\ OwnedRow(c, e) \in FormRow
                /\ OwnedRow(c, e).address = e.address /\ OwnedRow(c, e).ownership = "owned"
           /\ \A a \in AddressesOf(c.producerOf) \cup AddressesOf(c.consumerOf) :
                /\ ExternalRow(c, a) \in FormRow
                /\ ExternalRow(c, a).address = a /\ ExternalRow(c, a).ownership = "external"
<1>1. ASSUME NEW e \in AddressSpec
      PROVE  /\ OwnedRow(c, e) \in FormRow
             /\ OwnedRow(c, e).address = e.address /\ OwnedRow(c, e).ownership = "owned"
  <2>1. /\ e.address \in Texts /\ e.pubSub \in BOOLEAN
        /\ e.subscriptions \in SUBSET Subscriptions /\ e.selectors \in Selectors \cup {NoSelector}
    BY DEF AddressSpec
  <2> DEFINE d == ResolveDirection(c, e.address)
  <2>3. d \in {"produces", "consumes", "both", "none"}
    BY Direction
  <2> HIDE DEF d
  <2>4. OwnedRow(c, e) = [address |-> e.address, ownership |-> "owned", direction |-> d,
                          pubSub |-> e.pubSub, subscriptions |-> e.subscriptions,
                          app |-> NoApp, selectors |-> e.selectors]
    BY DEF OwnedRow, d
  <2>5. OwnedRow(c, e) \in Row
    BY <2>1, <2>3, <2>4 DEF Row
  <2>6. OwnedRow(c, e).app = NoApp /\ OwnedRow(c, e).ownership = "owned"
    BY <2>4
  <2>7. RowAgrees(OwnedRow(c, e))
    BY <2>6 DEF RowAgrees
  <2> QED
    BY <2>4, <2>5, <2>7 DEF FormRow
<1>2. ASSUME NEW a \in AddressesOf(c.producerOf) \cup AddressesOf(c.consumerOf)
      PROVE  /\ ExternalRow(c, a) \in FormRow
             /\ ExternalRow(c, a).address = a /\ ExternalRow(c, a).ownership = "external"
  <2> DEFINE d == ResolveDirection(c, a)
             subs == SubscriptionsOf(c, a)
             pubSub == \/ subs # {}
                       \/ a \in AddressesOf(c.producerOf) /\ LastOf(c.producerOf, a).pubSub
             app == OwnerOf(c, a)
  <2>1. a \in Texts
    BY CRFields
  <2>2. /\ d \in {"produces", "consumes", "both"}
        /\ a \in AddressesOf(c.producerOf) => d \in {"produces", "both"}
        /\ a \in AddressesOf(c.consumerOf) => d \in {"consumes", "both"}
    BY Direction
  <2>3. /\ a \in AddressesOf(c.producerOf) =>
             FirstOf(c.producerOf, a) \in MatchAddress /\ LastOf(c.producerOf, a) \in MatchAddress
        /\ a \in AddressesOf(c.consumerOf) =>
             FirstOf(c.consumerOf, a) \in MatchAddress /\ LastOf(c.consumerOf, a) \in MatchAddress
    BY CRFields, FirstAndLastOf
  <2>4. app \in Apps \cup {NoApp}
    BY <2>3 DEF OwnerOf, MatchAddress
  <2>5. /\ subs \in SUBSET Subscriptions
        /\ subs # {} => a \in AddressesOf(c.consumerOf)
    BY <2>3 DEF SubscriptionsOf, MatchAddress
  <2>6. /\ pubSub \in BOOLEAN
        /\ subs # {} => pubSub
        /\ pubSub => subs # {} \/ a \in AddressesOf(c.producerOf)
    BY <2>3 DEF MatchAddress
  <2>7. ExternalRow(c, a) = [address |-> a, ownership |-> "external", direction |-> d,
                             pubSub |-> pubSub, subscriptions |-> subs, app |-> app,
                             selectors |-> NoSelector]
    BY DEF ExternalRow
  <2> HIDE DEF d, subs, pubSub, app
  <2>8. ExternalRow(c, a) \in Row
    BY <2>1, <2>2, <2>4, <2>5, <2>6, <2>7 DEF Row
  <2>9. /\ ExternalRow(c, a).address = a /\ ExternalRow(c, a).ownership = "external"
        /\ ExternalRow(c, a).direction = d /\ ExternalRow(c, a).subscriptions = subs
        /\ ExternalRow(c, a).selectors = NoSelector
    BY <2>7
  <2>10. ExternalRow(c, a).pubSub = pubSub
    BY <2>7
  <2>11. RowAgrees(ExternalRow(c, a))
    BY <2>2, <2>5, <2>6, <2>9, <2>10 DEF RowAgrees, Produces, Consumes
  <2> QED
    BY <2>8, <2>9, <2>11 DEF FormRow
<1> QED
  BY <1>1, <1>2

(* The addresses the capability names and the app does not own. *)
External(c) == (AddressesOf(c.producerOf) \cup AddressesOf(c.consumerOf)) \ AddressesOf(c.addresses)

(* hydrateAddresses: a row for each entry of spec.addresses, then one for each *)
(* further address.                                                            *)
LEMMA HydrateRows ==
    ASSUME NEW c \in CR
    PROVE  /\ Hydrate(c) \in Seq(FormRow)
           /\ ToSet(Hydrate(c)) = {OwnedRow(c, e) : e \in ToSet(c.addresses)}
                                    \cup {ExternalRow(c, a) : a \in External(c)}
           /\ DistinctAddresses(c.addresses) => DistinctAddresses(Hydrate(c))
<1> DEFINE ext == ExternalNames(c)
           f == [i \in DOMAIN c.addresses |-> OwnedRow(c, c.addresses[i])]
           g == [i \in DOMAIN ext |-> ExternalRow(c, ext[i])]
           M == Len(c.addresses)
           N == Len(ext)
<1>1. /\ M \in Nat /\ DOMAIN c.addresses = 1..M
      /\ \A i \in 1..M : c.addresses[i] \in AddressSpec
      /\ ToSet(c.addresses) = {c.addresses[i] : i \in 1..M}
  BY CRFields, LenProperties, ElementOfSeq DEF ToSet
<1>2. /\ N \in Nat /\ DOMAIN ext = 1..N
      /\ \A i \in 1..N : ext[i] \in External(c)
      /\ External(c) = {ext[i] : i \in 1..N}
      /\ \A i, j \in 1..N : ext[i] = ext[j] => i = j
  <2> HIDE DEF ext
  <2>1. /\ ext \in Seq(Texts) /\ ToSet(ext) = External(c) /\ IsInjective(ext)
    BY ExternalNamesOnce DEF ext, External
  <2>2. N \in Nat /\ DOMAIN ext = 1..N
    BY <2>1, LenProperties
  <2> QED
    BY <2>1, <2>2 DEF ToSet, IsInjective
<1>3. External(c) \subseteq AddressesOf(c.producerOf) \cup AddressesOf(c.consumerOf)
  BY DEF External
<1>4. Hydrate(c) = f \o g
  BY DEF Hydrate
<1> HIDE DEF M, N, ext
<1>5. /\ f \in Seq(FormRow) /\ Len(f) = M
      /\ \A i \in 1..M : f[i] = OwnedRow(c, c.addresses[i])
                          /\ f[i].address = c.addresses[i].address
  <2>1. \A i \in 1..M : OwnedRow(c, c.addresses[i]) \in FormRow
    BY <1>1, RowTypes
  <2>2. f \in [1..M -> FormRow]
    BY <1>1, <2>1
  <2> QED
    BY <2>2, <1>1, RowTypes
<1>6. /\ g \in Seq(FormRow) /\ Len(g) = N
      /\ \A i \in 1..N : g[i] = ExternalRow(c, ext[i]) /\ g[i].address = ext[i]
  <2>1. \A i \in 1..N : ExternalRow(c, ext[i]) \in FormRow /\ ExternalRow(c, ext[i]).address = ext[i]
    BY <1>2, <1>3, RowTypes
  <2>2. g \in [1..N -> FormRow]
    BY <1>2, <2>1
  <2> QED
    BY <2>1, <2>2, <1>2
<1>7. ToSet(f) = {OwnedRow(c, e) : e \in ToSet(c.addresses)}
  BY <1>1 DEF ToSet
<1>8. ToSet(g) = {ExternalRow(c, a) : a \in External(c)}
  BY <1>2 DEF ToSet
<1> HIDE DEF f, g
<1>9. /\ f \o g \in Seq(FormRow)
      /\ ToSet(f \o g) = ToSet(f) \cup ToSet(g)
      /\ DOMAIN (f \o g) = 1..(M + N)
      /\ \A i \in 1..(M + N) : (f \o g)[i] = IF i <= M THEN f[i] ELSE g[i - M]
  <2>1. f \o g \in Seq(FormRow) /\ ToSet(f \o g) = ToSet(f) \cup ToSet(g)
    BY <1>5, <1>6, ConcatProperties, ElementsOfConcat
  <2>2. /\ Len(f \o g) = Len(f) + Len(g)
        /\ \A i \in 1..(Len(f) + Len(g)) :
              (f \o g)[i] = IF i <= Len(f) THEN f[i] ELSE g[i - Len(f)]
    BY <1>5, <1>6, ConcatProperties
  <2>3. DOMAIN (f \o g) = 1..Len(f \o g)
    BY <2>1, LenProperties
  <2> QED
    BY <2>1, <2>2, <2>3, <1>5, <1>6
<1>10. ASSUME DistinctAddresses(c.addresses)
       PROVE  DistinctAddresses(f \o g)
  <2> DEFINE u == f \o g
  <2>1. \A i, j \in 1..M : c.addresses[i].address = c.addresses[j].address => i = j
    BY <1>1, <1>10 DEF DistinctAddresses, IsInjective
  <2>2. \A i \in 1..M, j \in 1..N : c.addresses[i].address # ext[j]
    BY <1>1, <1>2 DEF External, AddressesOf
  <2>3. \A i \in 1..M : i \in 1..(M + N) /\ u[i].address = c.addresses[i].address
    BY <1>1, <1>2, <1>5, <1>9
  <2>4. ASSUME NEW i \in 1..(M + N), ~(i <= M)
        PROVE  i - M \in 1..N /\ u[i].address = ext[i - M]
    <3>1. i - M \in 1..N
      BY <1>1, <1>2, <2>4
    <3>2. u[i] = g[i - M]
      BY <1>9, <2>4
    <3> QED
      BY <3>1, <3>2, <1>6
  <2> HIDE DEF u
  <2>5. ASSUME NEW i \in 1..(M + N), NEW j \in 1..(M + N), u[i].address = u[j].address
        PROVE  i = j
    <3>1. CASE i <= M /\ j <= M
      <4>1. i \in 1..M /\ j \in 1..M
        BY <3>1, <1>1, <1>2
      <4> QED
        BY <4>1, <2>1, <2>3, <2>5
    <3>2. CASE i <= M /\ ~(j <= M)
      <4>1. i \in 1..M
        BY <3>2, <1>1, <1>2
      <4>2. j - M \in 1..N /\ u[j].address = ext[j - M]
        BY <3>2, <2>4
      <4> QED
        BY <4>1, <4>2, <2>2, <2>3, <2>5
    <3>3. CASE ~(i <= M) /\ j <= M
      <4>1. j \in 1..M
        BY <3>3, <1>1, <1>2
      <4>2. i - M \in 1..N /\ u[i].address = ext[i - M]
        BY <3>3, <2>4
      <4> QED
        BY <4>1, <4>2, <2>2, <2>3, <2>5
    <3>4. CASE ~(i <= M) /\ ~(j <= M)
      <4>1. i - M \in 1..N /\ u[i].address = ext[i - M]
        BY <3>4, <2>4
      <4>2. j - M \in 1..N /\ u[j].address = ext[j - M]
        BY <3>4, <2>4
      <4>3. i - M = j - M
        BY <4>1, <4>2, <2>5, <1>2
      <4> QED
        BY <4>3, <1>1
    <3> QED
      BY <3>1, <3>2, <3>3, <3>4
  <2>6. DOMAIN u = 1..(M + N)
    BY <1>9 DEF u
  <2>7. DistinctAddresses(u)
    BY <2>5, <2>6 DEF DistinctAddresses, IsInjective
  <2> QED
    BY <2>7 DEF u
<1> QED
  BY <1>4, <1>7, <1>8, <1>9, <1>10

(* Trimmed they are different when no address is spelled in two ways, and only *)
(* then.                                                                       *)
LEMMA RowsApart ==
    ASSUME NEW c \in CR, DistinctAddresses(c.addresses)
    PROVE  DistinctRows(Hydrate(c)) <=> SpelledOnce(c)
<1> DEFINE h == Hydrate(c)
<1>1. DistinctAddresses(h)
  BY HydrateRows
<1>2. ToSet(h) = {OwnedRow(c, e) : e \in ToSet(c.addresses)}
                    \cup {ExternalRow(c, a) : a \in External(c)}
  BY HydrateRows
<1>3. /\ \A e : OwnedRow(c, e).address = e.address
      /\ \A a : ExternalRow(c, a).address = a
  BY DEF OwnedRow, ExternalRow
<1> HIDE DEF h
<1>4. \A i, j \in DOMAIN h : h[i].address = h[j].address => i = j
  BY <1>1 DEF DistinctAddresses, IsInjective
<1>5. AddressesIn(c) = {h[i].address : i \in DOMAIN h}
  <2>1. AddressesIn(c) = {e.address : e \in ToSet(c.addresses)} \cup External(c)
    BY DEF AddressesIn, External, AddressesOf
  <2>2. {r.address : r \in ToSet(h)} = {e.address : e \in ToSet(c.addresses)} \cup External(c)
    BY <1>2, <1>3
  <2> QED
    BY <2>1, <2>2 DEF ToSet
<1>6. ASSUME DistinctRows(h)
      PROVE  SpelledOnce(c)
  BY <1>5, <1>6 DEF DistinctRows, SpelledOnce
<1>7. ASSUME SpelledOnce(c)
      PROVE  DistinctRows(h)
  BY <1>4, <1>5, <1>7 DEF DistinctRows, SpelledOnce
<1> QED
  BY <1>6, <1>7 DEF h

(* What validation accepts declares no address twice, trimmed or not. *)
LEMMA ValidatedDistinct ==
    ASSUME NEW c, Validated(c)
    PROVE  DistinctAddresses(c.addresses)
BY DEF Validated, DistinctAddresses, IsInjective

(* A CR that the form may have written spells its names in one way. *)
LEMMA ProperSpelledOnce ==
    ASSUME NEW c \in ProperCR
    PROVE  SpelledOnce(c)
BY ProperFields, TrimText DEF SpelledOnce, AddressesIn

-----------------------------------------------------------------------------
(* Rows are equal when their fields are. *)
LEMMA SameRow ==
    ASSUME NEW q \in Row, NEW r \in Row,
           q.address = r.address, q.ownership = r.ownership, q.direction = r.direction,
           q.pubSub = r.pubSub, q.subscriptions = r.subscriptions, q.app = r.app,
           q.selectors = r.selectors
    PROVE  q = r
BY DEF Row

(* A trimmed row is the row but for its address and selectors. *)
LEMMA TrimmedRow ==
    ASSUME NEW r \in Row
    PROVE  /\ Trimmed(r) \in Row
           /\ Trimmed(r).address = Trim[r.address] /\ Trimmed(r).ownership = r.ownership
           /\ Trimmed(r).direction = r.direction /\ Trimmed(r).pubSub = r.pubSub
           /\ Trimmed(r).subscriptions = r.subscriptions /\ Trimmed(r).app = r.app
           /\ Trimmed(r).selectors = TrimSelectors[r.selectors]
<1>1. Trim[r.address] \in Texts
  BY TrimText, RowFields
<1>2. TrimSelectors[r.selectors] \in Selectors \cup {NoSelector}
  BY TrimSelector, RowFields
<1> QED
  BY <1>1, <1>2 DEF Trimmed, Row

(* The CR has a named row's address in the lists that the row calls for, and   *)
(* its entries there are the row's.                                            *)
LEMMA EntriesOfARow ==
    ASSUME NEW list \in Seq(Row), DistinctRows(list), NEW i \in Named(list),
           NEW c, c = Sync(list), NEW r, r = list[i], NEW a, a = Trim[r.address]
    PROVE  /\ a \in AddressesOf(c.addresses) <=> Owned(r)
           /\ a \in AddressesOf(c.producerOf) <=> Produces(r)
           /\ a \in AddressesOf(c.consumerOf) <=> Consumes(r)
           /\ Produces(r) => FirstOf(c.producerOf, a) = ProducerEntry(r)
                              /\ LastOf(c.producerOf, a) = ProducerEntry(r)
           /\ Consumes(r) => FirstOf(c.consumerOf, a) = ConsumerEntry(r)
                              /\ LastOf(c.consumerOf, a) = ConsumerEntry(r)
<1>1. \A j \in Named(list) : /\ list[j] \in Row
                             /\ CleanAddress(list[j]).address = Trim[list[j].address]
                             /\ ProducerEntry(list[j]).address = Trim[list[j].address]
                             /\ ConsumerEntry(list[j]).address = Trim[list[j].address]
  BY LenProperties, ElementOfSeq DEF Named, CleanAddress, ProducerEntry, ConsumerEntry
<1>2. \A j \in Named(list) : Trim[list[j].address] = a => j = i
  BY DEF DistinctRows, Named
<1>3. /\ ToSet(c.addresses) =
           {CleanAddress(list[j]) : j \in {k \in Named(list) : Owned(list[k])}}
      /\ ToSet(c.producerOf) =
           {ProducerEntry(list[j]) : j \in {k \in Named(list) : Produces(list[k])}}
      /\ ToSet(c.consumerOf) =
           {ConsumerEntry(list[j]) : j \in {k \in Named(list) : Consumes(list[k])}}
  BY SyncElements
<1>4. a \in AddressesOf(c.addresses) <=> Owned(r)
  BY <1>1, <1>2, <1>3 DEF AddressesOf
<1>5. a \in AddressesOf(c.producerOf) <=> Produces(r)
  BY <1>1, <1>2, <1>3 DEF AddressesOf
<1>6. a \in AddressesOf(c.consumerOf) <=> Consumes(r)
  BY <1>1, <1>2, <1>3 DEF AddressesOf
<1>7. /\ c.producerOf \in Seq(WrittenProducer) /\ DistinctAddresses(c.producerOf)
      /\ c.consumerOf \in Seq(WrittenConsumer) /\ DistinctAddresses(c.consumerOf)
  BY SyncType, SyncDistinct, ProperFields
<1>8. ASSUME Produces(r)
      PROVE  FirstOf(c.producerOf, a) = ProducerEntry(r) /\ LastOf(c.producerOf, a) = ProducerEntry(r)
  <2>1. ProducerEntry(r) \in ToSet(c.producerOf) /\ ProducerEntry(r).address = a
    BY <1>1, <1>3, <1>8
  <2>2. /\ FirstOf(c.producerOf, a) \in ToSet(c.producerOf) /\ FirstOf(c.producerOf, a).address = a
        /\ LastOf(c.producerOf, a) \in ToSet(c.producerOf) /\ LastOf(c.producerOf, a).address = a
    BY <1>5, <1>7, <1>8, FirstAndLastOf
  <2> QED
    BY <2>1, <2>2, <1>7, EntryOfAddress
<1>9. ASSUME Consumes(r)
      PROVE  FirstOf(c.consumerOf, a) = ConsumerEntry(r) /\ LastOf(c.consumerOf, a) = ConsumerEntry(r)
  <2>1. ConsumerEntry(r) \in ToSet(c.consumerOf) /\ ConsumerEntry(r).address = a
    BY <1>1, <1>3, <1>9
  <2>2. /\ FirstOf(c.consumerOf, a) \in ToSet(c.consumerOf) /\ FirstOf(c.consumerOf, a).address = a
        /\ LastOf(c.consumerOf, a) \in ToSet(c.consumerOf) /\ LastOf(c.consumerOf, a).address = a
    BY <1>6, <1>7, <1>9, FirstAndLastOf
  <2> QED
    BY <2>1, <2>2, <1>7, EntryOfAddress
<1> QED
  BY <1>4, <1>5, <1>6, <1>8, <1>9

(* A named row comes back from the CR as it was, trimmed. *)
LEMMA RowComesBack ==
    ASSUME NEW list \in Seq(FormRow), DistinctRows(list), NEW i \in Named(list),
           NEW c, c = Sync(list), NEW r, r = list[i]
    PROVE  /\ Owned(r) => OwnedRow(c, CleanAddress(r)) = Trimmed(r)
           /\ ~Owned(r) => /\ ExternalRow(c, Trim[r.address]) = Trimmed(r)
                           /\ Trim[r.address] \in External(c)
<1> DEFINE a == Trim[r.address]
<1>1. list \in Seq(Row)
  BY SeqMonotonic DEF FormRow
<1>2. r \in Row /\ RowAgrees(r) /\ Trim[r.address] # Blank
  BY LenProperties, ElementOfSeq DEF Named, FormRow
<1>3. /\ a \in AddressesOf(c.addresses) <=> Owned(r)
      /\ a \in AddressesOf(c.producerOf) <=> Produces(r)
      /\ a \in AddressesOf(c.consumerOf) <=> Consumes(r)
      /\ Produces(r) => FirstOf(c.producerOf, a) = ProducerEntry(r)
                         /\ LastOf(c.producerOf, a) = ProducerEntry(r)
      /\ Consumes(r) => FirstOf(c.consumerOf, a) = ConsumerEntry(r)
                         /\ LastOf(c.consumerOf, a) = ConsumerEntry(r)
  BY <1>1, EntriesOfARow
<1>4. c \in CR
  BY <1>1, SyncType, ProperFields
<1>5. ResolveDirection(c, a) = r.direction
  BY <1>2, <1>3, RowFields DEF ResolveDirection, Produces, Consumes
<1>6. Trimmed(r) \in Row /\ Trimmed(r).address = a /\ Trimmed(r).ownership = r.ownership
      /\ Trimmed(r).direction = r.direction /\ Trimmed(r).pubSub = r.pubSub
      /\ Trimmed(r).subscriptions = r.subscriptions /\ Trimmed(r).app = r.app
      /\ Trimmed(r).selectors = TrimSelectors[r.selectors]
  BY <1>2, TrimmedRow
<1> HIDE DEF a
<1>7. ASSUME Owned(r)
      PROVE  OwnedRow(c, CleanAddress(r)) = Trimmed(r)
  <2> DEFINE q == OwnedRow(c, CleanAddress(r))
  <2>1. /\ CleanAddress(r) \in AddressSpec /\ CleanAddress(r).address = a
        /\ CleanAddress(r).pubSub = r.pubSub /\ CleanAddress(r).subscriptions = r.subscriptions
        /\ CleanAddress(r).selectors = TrimSelectors[r.selectors]
    BY <1>2, EntryTypes DEF CleanAddress, WrittenSpec, a
  <2>2. q \in Row
    BY <2>1, <1>4, RowTypes DEF FormRow
  <2>3. /\ q.address = a /\ q.ownership = "owned" /\ q.direction = r.direction
        /\ q.subscriptions = r.subscriptions /\ q.app = NoApp
        /\ q.selectors = TrimSelectors[r.selectors]
    BY <2>1, <1>5 DEF OwnedRow
  <2>4. q.pubSub = r.pubSub
    BY <2>1 DEF OwnedRow
  <2>5. r.ownership = "owned" /\ r.app = NoApp
    BY <1>2, <1>7 DEF Owned, RowAgrees
  <2> HIDE DEF q
  <2>6. q = Trimmed(r)
    BY <2>2, <2>3, <2>4, <2>5, <1>6, SameRow
  <2> QED
    BY <2>6 DEF q
<1>8. ASSUME ~Owned(r)
      PROVE  ExternalRow(c, a) = Trimmed(r) /\ a \in External(c)
  <2> DEFINE q == ExternalRow(c, a)
  <2>1. /\ r.ownership = "external" /\ r.direction # "none" /\ r.selectors = NoSelector
        /\ r.subscriptions # {} => r.pubSub /\ Consumes(r)
        /\ r.pubSub => r.subscriptions # {} \/ Produces(r)
        /\ Produces(r) \/ Consumes(r)
    BY <1>2, <1>8, RowFields DEF Owned, RowAgrees, Produces, Consumes
  <2>2. a \in External(c)
    BY <2>1, <1>3, <1>8 DEF External
  <2>3. q \in Row /\ q.address = a /\ q.ownership = "external"
    BY <2>2, <1>4, RowTypes DEF External, FormRow
  <2>4. /\ Produces(r) => ProducerEntry(r).app = r.app /\ ProducerEntry(r).pubSub = r.pubSub
        /\ Consumes(r) => ConsumerEntry(r).app = r.app
                           /\ ConsumerEntry(r).subscriptions = r.subscriptions
    BY DEF ProducerEntry, ConsumerEntry
  <2>5. SubscriptionsOf(c, a) = r.subscriptions
    BY <2>1, <2>4, <1>3 DEF SubscriptionsOf
  <2>6. OwnerOf(c, a) = r.app
    BY <2>1, <2>4, <1>3 DEF OwnerOf
  <2>7. q.direction = r.direction /\ q.subscriptions = r.subscriptions /\ q.app = r.app
        /\ q.selectors = TrimSelectors[r.selectors]
    BY <2>1, <2>5, <2>6, <1>5, TrimSelector DEF ExternalRow
  <2>8. q.pubSub = r.pubSub
    <3>1. q.pubSub = (\/ r.subscriptions # {}
                      \/ a \in AddressesOf(c.producerOf) /\ LastOf(c.producerOf, a).pubSub)
      BY <2>5 DEF ExternalRow
    <3>2. a \in AddressesOf(c.producerOf) => LastOf(c.producerOf, a).pubSub = r.pubSub
      BY <2>4, <1>3
    <3>3. r.pubSub \in BOOLEAN /\ q.pubSub \in BOOLEAN
      BY <1>2, <2>3, RowFields
    <3> HIDE DEF q
    <3> QED
      BY <3>1, <3>2, <3>3, <2>1, <1>3
  <2> HIDE DEF q
  <2>9. q = Trimmed(r)
    BY <2>1, <2>3, <2>7, <2>8, <1>2, <1>6, SameRow
  <2> QED
    BY <2>2, <2>9 DEF q
<1> QED
  BY <1>7, <1>8 DEF a

(* Writing rows into the CR and reading them again gives the named rows. *)
LEMMA RoundTrip ==
    ASSUME NEW list \in Seq(FormRow), DistinctRows(list)
    PROVE  ToSet(Hydrate(Sync(list))) = {Trimmed(list[i]) : i \in Named(list)}
<1> DEFINE c == Sync(list)
<1>1. list \in Seq(Row)
  BY SeqMonotonic DEF FormRow
<1>2. c \in CR
  BY <1>1, SyncType, ProperFields
<1>3. ToSet(Hydrate(c)) = {OwnedRow(c, e) : e \in ToSet(c.addresses)}
                             \cup {ExternalRow(c, x) : x \in External(c)}
  BY <1>2, HydrateRows
<1>4. /\ ToSet(c.addresses) =
           {CleanAddress(list[j]) : j \in {k \in Named(list) : Owned(list[k])}}
      /\ ToSet(c.producerOf) =
           {ProducerEntry(list[j]) : j \in {k \in Named(list) : Produces(list[k])}}
      /\ ToSet(c.consumerOf) =
           {ConsumerEntry(list[j]) : j \in {k \in Named(list) : Consumes(list[k])}}
  BY <1>1, SyncElements
<1>5. \A i \in Named(list) :
        /\ Owned(list[i]) => OwnedRow(c, CleanAddress(list[i])) = Trimmed(list[i])
        /\ ~Owned(list[i]) => /\ ExternalRow(c, Trim[list[i].address]) = Trimmed(list[i])
                              /\ Trim[list[i].address] \in External(c)
  BY RowComesBack
<1> HIDE DEF c
<1>6. \A x \in External(c) : \E i \in Named(list) : ~Owned(list[i]) /\ x = Trim[list[i].address]
  <2> SUFFICES ASSUME NEW x \in External(c)
               PROVE  \E i \in Named(list) : ~Owned(list[i]) /\ x = Trim[list[i].address]
    OBVIOUS
  <2>1. \E i \in Named(list) : x = Trim[list[i].address]
    BY <1>4 DEF External, AddressesOf, ProducerEntry, ConsumerEntry
  <2>2. PICK i \in Named(list) : x = Trim[list[i].address]
    BY <2>1
  <2>3. ~Owned(list[i])
    <3>1. CleanAddress(list[i]).address = x
      BY <2>2 DEF CleanAddress
    <3>2. Owned(list[i]) => CleanAddress(list[i]) \in ToSet(c.addresses)
      BY <1>4
    <3>3. x \notin AddressesOf(c.addresses)
      BY DEF External
    <3> QED
      BY <3>1, <3>2, <3>3 DEF AddressesOf
  <2> QED
    BY <2>2, <2>3
<1>7. {OwnedRow(c, e) : e \in ToSet(c.addresses)} \cup {ExternalRow(c, x) : x \in External(c)}
        = {Trimmed(list[i]) : i \in Named(list)}
  <2>1. \A e \in ToSet(c.addresses) : OwnedRow(c, e) \in {Trimmed(list[i]) : i \in Named(list)}
    BY <1>4, <1>5
  <2>2. \A x \in External(c) : ExternalRow(c, x) \in {Trimmed(list[i]) : i \in Named(list)}
    BY <1>5, <1>6
  <2>3. \A i \in Named(list) :
          \/ Trimmed(list[i]) \in {OwnedRow(c, e) : e \in ToSet(c.addresses)}
          \/ Trimmed(list[i]) \in {ExternalRow(c, x) : x \in External(c)}
    BY <1>4, <1>5
  <2> QED
    BY <2>1, <2>2, <2>3
<1> QED
  BY <1>3, <1>7 DEF c

(* They come back each as a row of its own exactly when none has the address   *)
(* of another, of a CR that is let back into the form.                         *)
LEMMA ComesBackIff ==
    ASSUME NEW list \in Seq(FormRow), Validated(Sync(list))
    PROVE  DistinctRows(list) <=>
              /\ ToSet(Hydrate(Sync(list))) = {Trimmed(list[i]) : i \in Named(list)}
              /\ \A i, j \in Named(list) : Trimmed(list[i]) = Trimmed(list[j]) => i = j
<1> DEFINE c == Sync(list)
           h == Hydrate(c)
<1>1. list \in Seq(Row)
  BY SeqMonotonic DEF FormRow
<1>2. \A i \in DOMAIN list : list[i] \in Row
  BY <1>1, LenProperties, ElementOfSeq
<1>3. \A i \in DOMAIN list : Trimmed(list[i]).address = Trim[list[i].address]
  BY <1>2, TrimmedRow
<1>4. c \in CR
  BY <1>1, SyncType, ProperFields
<1>5. h \in Seq(FormRow) /\ DistinctAddresses(h)
  BY <1>4, ValidatedDistinct, HydrateRows
<1>6. ASSUME DistinctRows(list)
      PROVE  /\ ToSet(h) = {Trimmed(list[i]) : i \in Named(list)}
             /\ \A i, j \in Named(list) : Trimmed(list[i]) = Trimmed(list[j]) => i = j
  <2>1. ToSet(h) = {Trimmed(list[i]) : i \in Named(list)}
    BY <1>6, RoundTrip
  <2> HIDE DEF h
  <2>2. \A i, j \in Named(list) : Trimmed(list[i]) = Trimmed(list[j]) => i = j
    BY <1>3, <1>6 DEF DistinctRows, Named
  <2> QED
    BY <2>1, <2>2
<1>7. ASSUME ToSet(h) = {Trimmed(list[i]) : i \in Named(list)},
             \A i, j \in Named(list) : Trimmed(list[i]) = Trimmed(list[j]) => i = j
      PROVE  DistinctRows(list)
  <2> HIDE DEF h
  <2> SUFFICES ASSUME NEW i \in DOMAIN list, NEW j \in DOMAIN list,
                      Trim[list[i].address] = Trim[list[j].address], i # j,
                      Trim[list[i].address] # Blank
               PROVE  FALSE
    BY DEF DistinctRows
  <2>1. i \in Named(list) /\ j \in Named(list)
    BY DEF Named
  <2>2. Trimmed(list[i]) \in ToSet(h) /\ Trimmed(list[j]) \in ToSet(h)
    BY <1>7, <2>1
  <2>3. Trimmed(list[i]).address = Trimmed(list[j]).address
    BY <1>3
  <2>4. Trimmed(list[i]) = Trimmed(list[j])
    BY <1>5, <2>2, <2>3, EntryOfAddress
  <2> QED
    BY <1>7, <2>1, <2>4
<1> QED
  BY <1>6, <1>7 DEF h, c

-----------------------------------------------------------------------------
(* Two lists with the same addresses, the first of which has none twice, are   *)
(* equal up to their order exactly when the second has none twice either and   *)
(* the first has all of it.                                                    *)
LEMMA SameEntriesIff ==
    ASSUME NEW S, NEW s \in Seq(S), NEW t \in Seq(S), DistinctAddresses(s),
           AddressesOf(s) = AddressesOf(t)
    PROVE  SameEntries(s, t) <=> DistinctAddresses(t) /\ ToSet(t) \subseteq ToSet(s)
<1>1. \A u \in Seq(S) : DistinctAddresses(u) => IsInjective(u)
  BY DEF DistinctAddresses, IsInjective
<1>2. \A u \in Seq(S) : Len(u) = Cardinality(ToSet(u)) <=> IsInjective(u)
  BY NoneTwice
<1>3. Len(s) = Cardinality(ToSet(s))
  BY <1>1, <1>2
<1>4. ASSUME SameEntries(s, t)
      PROVE  DistinctAddresses(t) /\ ToSet(t) \subseteq ToSet(s)
  <2>1. Len(s) = Len(t) /\ ToSet(t) = ToSet(s)
    BY <1>4 DEF SameEntries
  <2>2. IsInjective(t)
    BY <2>1, <1>2, <1>3
  <2>3. \A i \in DOMAIN t : t[i] \in ToSet(s)
    BY <2>1 DEF ToSet
  <2>4. \A d, e \in ToSet(s) : d.address = e.address => d = e
    BY EntryOfAddress
  <2>5. \A i, j \in DOMAIN t : t[i].address = t[j].address => i = j
    BY <2>2, <2>3, <2>4 DEF IsInjective
  <2> QED
    BY <2>1, <2>5 DEF DistinctAddresses, IsInjective
<1>5. ASSUME DistinctAddresses(t), ToSet(t) \subseteq ToSet(s)
      PROVE  SameEntries(s, t)
  <2>1. ToSet(s) \subseteq ToSet(t)
    <3> SUFFICES ASSUME NEW e \in ToSet(s)
                 PROVE  e \in ToSet(t)
      OBVIOUS
    <3>1. PICK d \in ToSet(t) : d.address = e.address
      BY DEF AddressesOf
    <3>2. d = e
      BY <3>1, <1>5, EntryOfAddress
    <3> QED
      BY <3>2
  <2>2. ToSet(s) = ToSet(t)
    BY <2>1, <1>5
  <2>3. Len(t) = Cardinality(ToSet(t))
    BY <1>1, <1>2, <1>5
  <2> QED
    BY <2>2, <2>3, <1>3 DEF SameEntries
<1> QED
  BY <1>4, <1>5

(* The rows that a CR becomes all have a name, and are found again in the      *)
(* lists written from them.                                                    *)
LEMMA HydratedRow ==
    ASSUME NEW c, DistinctCR(c), NEW k, k = Sync(Hydrate(c)), NEW r \in ToSet(Hydrate(c))
    PROVE  /\ r \in Row /\ r.address \in Names /\ Trim[r.address] = r.address
           /\ Owned(r) => CleanAddress(r) \in ToSet(k.addresses)
           /\ Produces(r) <=> r.address \in AddressesOf(c.producerOf)
           /\ Consumes(r) <=> r.address \in AddressesOf(c.consumerOf)
           /\ Produces(r) => ProducerEntry(r) \in ToSet(k.producerOf)
           /\ Consumes(r) => ConsumerEntry(r) \in ToSet(k.consumerOf)
<1>1. c \in CR /\ c \in ProperCR
  BY ProperFields DEF DistinctCR
<1>2. Hydrate(c) \in Seq(Row)
  BY <1>1, HydrateRows, SeqMonotonic DEF FormRow
<1>3. \/ \E e \in ToSet(c.addresses) : r = OwnedRow(c, e)
      \/ \E a \in External(c) : r = ExternalRow(c, a)
  BY <1>1, HydrateRows
<1>4. /\ r.address \in Names
      /\ r.direction = ResolveDirection(c, r.address)
  <2>1. ASSUME NEW e \in ToSet(c.addresses), r = OwnedRow(c, e)
        PROVE  r.address \in Names /\ r.direction = ResolveDirection(c, r.address)
    <3>1. e \in WrittenSpec
      BY <1>1, ProperFields
    <3> QED
      BY <2>1, <3>1 DEF OwnedRow, WrittenSpec
  <2>2. ASSUME NEW a \in External(c), r = ExternalRow(c, a)
        PROVE  r.address \in Names /\ r.direction = ResolveDirection(c, r.address)
    <3>1. a \in Names
      BY <1>1, ProperFields DEF External
    <3> QED
      BY <2>2, <3>1 DEF ExternalRow
  <2> QED
    BY <2>1, <2>2, <1>3
<1>5. Produces(r) <=> r.address \in AddressesOf(c.producerOf)
  BY <1>4, Direction DEF Produces
<1>6. Consumes(r) <=> r.address \in AddressesOf(c.consumerOf)
  BY <1>4, Direction DEF Consumes
<1>7. Trim[r.address] = r.address /\ Trim[r.address] # Blank
  BY <1>4, TrimText
<1>8. PICK i \in DOMAIN Hydrate(c) : r = Hydrate(c)[i]
  BY DEF ToSet
<1>9. i \in Named(Hydrate(c))
  BY <1>7, <1>8 DEF Named
<1>10. r \in Row
  BY <1>2, <1>8, LenProperties, ElementOfSeq
<1>11. /\ Owned(r) => CleanAddress(r) \in ToSet(k.addresses)
       /\ Produces(r) => ProducerEntry(r) \in ToSet(k.producerOf)
       /\ Consumes(r) => ConsumerEntry(r) \in ToSet(k.consumerOf)
  BY <1>2, <1>8, <1>9, SyncElements
<1> QED
  BY <1>4, <1>5, <1>6, <1>7, <1>10, <1>11

(* What the CR written from the rows of another has in common with it: it has  *)
(* the same addresses in each list, and none twice.                            *)
LEMMA SameAddresses ==
    ASSUME NEW c, DistinctCR(c), NEW k, k = Sync(Hydrate(c))
    PROVE  /\ k \in ProperCR
           /\ DistinctAddresses(k.addresses) /\ DistinctAddresses(k.producerOf)
           /\ DistinctAddresses(k.consumerOf)
           /\ AddressesOf(k.addresses) = AddressesOf(c.addresses)
           /\ AddressesOf(k.producerOf) = AddressesOf(c.producerOf)
           /\ AddressesOf(k.consumerOf) = AddressesOf(c.consumerOf)
<1> DEFINE list == Hydrate(c)
<1>1. c \in CR /\ c \in ProperCR /\ DistinctAddresses(c.addresses)
  BY ProperFields DEF DistinctCR
<1>2. list \in Seq(Row) /\ DistinctRows(list)
  BY <1>1, HydrateRows, RowsApart, ProperSpelledOnce, SeqMonotonic DEF FormRow
<1>3. k \in ProperCR
  BY <1>2, SyncType
<1>4. /\ DistinctAddresses(k.addresses) /\ DistinctAddresses(k.producerOf)
      /\ DistinctAddresses(k.consumerOf)
  BY <1>2, SyncDistinct
<1>5. /\ ToSet(k.addresses) = {CleanAddress(list[i]) : i \in {j \in Named(list) : Owned(list[j])}}
      /\ ToSet(k.producerOf) = {ProducerEntry(list[i]) : i \in {j \in Named(list) : Produces(list[j])}}
      /\ ToSet(k.consumerOf) = {ConsumerEntry(list[i]) : i \in {j \in Named(list) : Consumes(list[j])}}
  BY <1>2, SyncElements
<1>6. \A i \in Named(list) : list[i] \in ToSet(list)
  BY DEF Named, ToSet
<1>7. ToSet(list) = {OwnedRow(c, e) : e \in ToSet(c.addresses)}
                       \cup {ExternalRow(c, a) : a \in External(c)}
  BY <1>1, HydrateRows
<1>8. \A r \in ToSet(list) :
        /\ r.address \in Names /\ Trim[r.address] = r.address
        /\ Owned(r) => CleanAddress(r) \in ToSet(k.addresses)
        /\ Produces(r) <=> r.address \in AddressesOf(c.producerOf)
        /\ Consumes(r) <=> r.address \in AddressesOf(c.consumerOf)
        /\ Produces(r) => ProducerEntry(r) \in ToSet(k.producerOf)
        /\ Consumes(r) => ConsumerEntry(r) \in ToSet(k.consumerOf)
  BY HydratedRow
<1> HIDE DEF list
<1>9. \A r \in ToSet(list) : Owned(r) <=> r.address \in AddressesOf(c.addresses)
  <2>1. \A e \in ToSet(c.addresses) : /\ Owned(OwnedRow(c, e))
                                      /\ OwnedRow(c, e).address \in AddressesOf(c.addresses)
    BY DEF Owned, OwnedRow, AddressesOf
  <2>2. \A a \in External(c) : ~Owned(ExternalRow(c, a)) /\ ExternalRow(c, a).address = a
                              /\ a \notin AddressesOf(c.addresses)
    BY DEF Owned, ExternalRow, External
  <2> QED
    BY <2>1, <2>2, <1>7
<1>10. \A a \in Names : a \in AddressesOf(c.addresses) \cup AddressesOf(c.producerOf)
                                   \cup AddressesOf(c.consumerOf)
                          => \E r \in ToSet(list) : r.address = a
  <2>1. \A e \in ToSet(c.addresses) : OwnedRow(c, e).address = e.address
    BY DEF OwnedRow
  <2>2. \A a \in External(c) : ExternalRow(c, a).address = a
    BY DEF ExternalRow
  <2>3. ASSUME NEW a \in AddressesOf(c.addresses)
        PROVE  \E r \in ToSet(list) : r.address = a
    <3>1. PICK e \in ToSet(c.addresses) : e.address = a
      BY DEF AddressesOf
    <3> QED
      BY <3>1, <2>1, <1>7
  <2>4. ASSUME NEW a \in External(c)
        PROVE  \E r \in ToSet(list) : r.address = a
    BY <2>2, <2>4, <1>7
  <2> QED
    BY <2>3, <2>4 DEF External
<1>11. \A r : CleanAddress(r).address = Trim[r.address]
               /\ ProducerEntry(r).address = Trim[r.address]
               /\ ConsumerEntry(r).address = Trim[r.address]
  BY DEF CleanAddress, ProducerEntry, ConsumerEntry
<1>12. AddressesOf(c.addresses) \cup AddressesOf(c.producerOf) \cup AddressesOf(c.consumerOf)
         \subseteq Names
  BY <1>1, ProperFields
<1>13. AddressesOf(k.addresses) = AddressesOf(c.addresses)
  <2>1. \A d \in ToSet(k.addresses) : d.address \in AddressesOf(c.addresses)
    BY <1>5, <1>6, <1>8, <1>9, <1>11
  <2>2. ASSUME NEW a \in AddressesOf(c.addresses)
        PROVE  \E d \in ToSet(k.addresses) : d.address = a
    <3>1. PICK r \in ToSet(list) : r.address = a
      BY <1>10, <1>12
    <3> QED
      BY <3>1, <1>8, <1>9, <1>11
  <2> QED
    BY <2>1, <2>2 DEF AddressesOf
<1>14. AddressesOf(k.producerOf) = AddressesOf(c.producerOf)
  <2>1. \A d \in ToSet(k.producerOf) : d.address \in AddressesOf(c.producerOf)
    BY <1>5, <1>6, <1>8, <1>11
  <2>2. ASSUME NEW a \in AddressesOf(c.producerOf)
        PROVE  \E d \in ToSet(k.producerOf) : d.address = a
    <3>1. PICK r \in ToSet(list) : r.address = a
      BY <1>10, <1>12
    <3> QED
      BY <3>1, <1>8, <1>11
  <2> QED
    BY <2>1, <2>2 DEF AddressesOf
<1>15. AddressesOf(k.consumerOf) = AddressesOf(c.consumerOf)
  <2>1. \A d \in ToSet(k.consumerOf) : d.address \in AddressesOf(c.consumerOf)
    BY <1>5, <1>6, <1>8, <1>11
  <2>2. ASSUME NEW a \in AddressesOf(c.consumerOf)
        PROVE  \E d \in ToSet(k.consumerOf) : d.address = a
    <3>1. PICK r \in ToSet(list) : r.address = a
      BY <1>10, <1>12
    <3> QED
      BY <3>1, <1>8, <1>11
  <2> QED
    BY <2>1, <2>2 DEF AddressesOf
<1> QED
  BY <1>3, <1>4, <1>13, <1>14, <1>15

(* Entries are equal when their fields are. *)
LEMMA SameEntry ==
    /\ \A p, q \in WrittenProducer :
         p = q <=> p.address = q.address /\ p.app = q.app /\ p.pubSub = q.pubSub
    /\ \A p, q \in WrittenConsumer :
         p = q <=> p.address = q.address /\ p.app = q.app /\ p.subscriptions = q.subscriptions
BY DEF WrittenProducer, WrittenConsumer, MatchAddress

(* An entry of spec.addresses always comes back as it was. *)
LEMMA OwnedEntriesKept ==
    ASSUME NEW c, DistinctCR(c)
    PROVE  SameEntries(Sync(Hydrate(c)).addresses, c.addresses)
<1> DEFINE k == Sync(Hydrate(c))
<1>1. c \in CR /\ c \in ProperCR /\ DistinctAddresses(c.addresses)
  BY ProperFields DEF DistinctCR
<1>2. /\ k \in ProperCR /\ DistinctAddresses(k.addresses)
      /\ AddressesOf(k.addresses) = AddressesOf(c.addresses)
  BY SameAddresses
<1>3. ASSUME NEW e \in ToSet(c.addresses)
      PROVE  e \in ToSet(k.addresses)
  <2>1. e \in AddressSpec /\ TrimSelectors[e.selectors] = e.selectors
    BY <1>1, ProperFields DEF WrittenSpec
  <2> DEFINE r == OwnedRow(c, e)
  <2>2. r \in ToSet(Hydrate(c)) /\ Owned(r)
    BY <1>1, HydrateRows DEF Owned, OwnedRow
  <2>3. CleanAddress(r) \in ToSet(k.addresses) /\ Trim[r.address] = r.address
    BY <2>2, HydratedRow
  <2>4. r.address = e.address /\ r.pubSub = e.pubSub /\ r.subscriptions = e.subscriptions
        /\ r.selectors = e.selectors
    BY DEF OwnedRow
  <2> HIDE DEF r
  <2>5. CleanAddress(r) = e
    BY <2>1, <2>3, <2>4 DEF CleanAddress, AddressSpec
  <2> QED
    BY <2>3, <2>5
<1> HIDE DEF k
<1>4. k.addresses \in Seq(WrittenSpec) /\ c.addresses \in Seq(WrittenSpec)
  BY <1>1, <1>2, ProperFields
<1>5. SameEntries(k.addresses, c.addresses)
  BY <1>1, <1>2, <1>3, <1>4, SameEntriesIff
<1> QED
  BY <1>5 DEF k

(* An entry of a capability comes back as it was exactly when it agrees with   *)
(* the address the app owns, or with the other entry of the address.           *)
LEMMA CapabilityEntryKept ==
    ASSUME NEW c, DistinctCR(c), DistinctAddresses(c.producerOf), DistinctAddresses(c.consumerOf),
           NEW k, k = Sync(Hydrate(c))
    PROVE  /\ \A p \in ToSet(c.producerOf) : p \in ToSet(k.producerOf) <=>
                /\ \A o \in ToSet(c.addresses) :
                      p.address = o.address => p.app = NoApp /\ p.pubSub = o.pubSub
                /\ \A q \in ToSet(c.consumerOf) :
                      p.address = q.address /\ p.address \notin AddressesOf(c.addresses)
                          => (q.subscriptions # {} => p.pubSub)
           /\ \A q \in ToSet(c.consumerOf) : q \in ToSet(k.consumerOf) <=>
                /\ \A o \in ToSet(c.addresses) :
                      q.address = o.address => q.app = NoApp /\ q.subscriptions = o.subscriptions
                /\ \A p \in ToSet(c.producerOf) :
                      p.address = q.address /\ p.address \notin AddressesOf(c.addresses)
                          => p.app = q.app
<1> DEFINE Owns == AddressesOf(c.addresses)
<1>1. c \in CR /\ c \in ProperCR /\ DistinctAddresses(c.addresses)
  BY ProperFields DEF DistinctCR
<1>2. /\ k \in ProperCR
      /\ DistinctAddresses(k.producerOf) /\ DistinctAddresses(k.consumerOf)
  BY SameAddresses
<1>3. /\ c.addresses \in Seq(WrittenSpec) /\ ToSet(c.addresses) \subseteq WrittenSpec
      /\ c.producerOf \in Seq(WrittenProducer) /\ ToSet(c.producerOf) \subseteq WrittenProducer
      /\ c.consumerOf \in Seq(WrittenConsumer) /\ ToSet(c.consumerOf) \subseteq WrittenConsumer
      /\ k.producerOf \in Seq(WrittenProducer) /\ ToSet(k.producerOf) \subseteq WrittenProducer
      /\ k.consumerOf \in Seq(WrittenConsumer) /\ ToSet(k.consumerOf) \subseteq WrittenConsumer
  BY <1>1, <1>2, ProperFields
<1>4. \A p \in ToSet(c.producerOf) : /\ p.address \in AddressesOf(c.producerOf)
                                    /\ FirstOf(c.producerOf, p.address) = p
                                    /\ LastOf(c.producerOf, p.address) = p
  <2> SUFFICES ASSUME NEW p \in ToSet(c.producerOf)
               PROVE  /\ p.address \in AddressesOf(c.producerOf)
                      /\ FirstOf(c.producerOf, p.address) = p
                      /\ LastOf(c.producerOf, p.address) = p
    OBVIOUS
  <2>1. p.address \in AddressesOf(c.producerOf)
    BY DEF AddressesOf
  <2> QED
    BY <2>1, <1>3, FirstAndLastOf, EntryOfAddress
<1>5. \A q \in ToSet(c.consumerOf) : /\ q.address \in AddressesOf(c.consumerOf)
                                    /\ FirstOf(c.consumerOf, q.address) = q
                                    /\ LastOf(c.consumerOf, q.address) = q
  <2> SUFFICES ASSUME NEW q \in ToSet(c.consumerOf)
               PROVE  /\ q.address \in AddressesOf(c.consumerOf)
                      /\ FirstOf(c.consumerOf, q.address) = q
                      /\ LastOf(c.consumerOf, q.address) = q
    OBVIOUS
  <2>1. q.address \in AddressesOf(c.consumerOf)
    BY DEF AddressesOf
  <2> QED
    BY <2>1, <1>3, FirstAndLastOf, EntryOfAddress
<1>6. \A d, e \in ToSet(k.producerOf) : d.address = e.address => d = e
  BY <1>2, <1>3, EntryOfAddress
<1>7. \A d, e \in ToSet(k.consumerOf) : d.address = e.address => d = e
  BY <1>2, <1>3, EntryOfAddress
<1>8. \A d, e \in ToSet(c.addresses) : d.address = e.address => d = e
  BY <1>1, <1>3, EntryOfAddress
<1>9. ToSet(Hydrate(c)) = {OwnedRow(c, e) : e \in ToSet(c.addresses)}
                              \cup {ExternalRow(c, a) : a \in External(c)}
  BY <1>1, HydrateRows
<1>10. \A r \in ToSet(Hydrate(c)) :
         /\ Trim[r.address] = r.address
         /\ r.address \in AddressesOf(c.producerOf) => ProducerEntry(r) \in ToSet(k.producerOf)
         /\ r.address \in AddressesOf(c.consumerOf) => ConsumerEntry(r) \in ToSet(k.consumerOf)
  BY HydratedRow
<1>11. ASSUME NEW a \in AddressesOf(c.producerOf)
       PROVE  SubscriptionsOf(c, a) # {} <=>
                \E q \in ToSet(c.consumerOf) : q.address = a /\ q.subscriptions # {}
  <2>1. CASE a \in AddressesOf(c.consumerOf)
    <3>1. PICK q \in ToSet(c.consumerOf) : q.address = a
      BY <2>1 DEF AddressesOf
    <3>2. SubscriptionsOf(c, a) = q.subscriptions
      BY <2>1, <3>1, <1>5 DEF SubscriptionsOf
    <3>3. \A d \in ToSet(c.consumerOf) : d.address = a => d = q
      BY <3>1, <1>3, EntryOfAddress
    <3> QED
      BY <3>1, <3>2, <3>3
  <2>2. CASE a \notin AddressesOf(c.consumerOf)
    BY <2>2 DEF SubscriptionsOf, AddressesOf
  <2> QED
    BY <2>1, <2>2
<1>12. ASSUME NEW p \in ToSet(c.producerOf)
       PROVE  p \in ToSet(k.producerOf) <=>
                /\ \A o \in ToSet(c.addresses) :
                      p.address = o.address => p.app = NoApp /\ p.pubSub = o.pubSub
                /\ \A q \in ToSet(c.consumerOf) :
                      p.address = q.address /\ p.address \notin Owns
                          => (q.subscriptions # {} => p.pubSub)
  <2>1. ASSUME NEW d \in ToSet(k.producerOf), d.address = p.address
        PROVE  p \in ToSet(k.producerOf) <=> p.app = d.app /\ p.pubSub = d.pubSub
    BY <2>1, <1>3, <1>6, SameEntry
  <2>2. CASE p.address \in Owns
    <3>1. PICK o \in ToSet(c.addresses) : o.address = p.address
      BY <2>2 DEF AddressesOf
    <3> DEFINE d == ProducerEntry(OwnedRow(c, o))
    <3>2. OwnedRow(c, o) \in ToSet(Hydrate(c)) /\ OwnedRow(c, o).address = p.address
      BY <3>1, <1>9 DEF OwnedRow
    <3>3. d \in ToSet(k.producerOf) /\ d.address = p.address
      BY <3>2, <1>4, <1>10 DEF ProducerEntry
    <3>4. d.app = NoApp /\ d.pubSub = o.pubSub
      BY DEF ProducerEntry, OwnedRow
    <3> HIDE DEF d
    <3>5. \A e \in ToSet(c.addresses) : p.address = e.address => e = o
      BY <3>1, <1>8
    <3> QED
      BY <3>1, <3>3, <3>4, <3>5, <2>1, <2>2
  <2>3. CASE p.address \notin Owns
    <3> DEFINE a == p.address
               r == ExternalRow(c, a)
               d == ProducerEntry(r)
    <3>1. a \in External(c) /\ a \in AddressesOf(c.producerOf)
      BY <2>3, <1>4 DEF External
    <3>2. r \in ToSet(Hydrate(c)) /\ r.address = a
      BY <3>1, <1>9 DEF ExternalRow
    <3>3. d \in ToSet(k.producerOf) /\ d.address = a
      BY <3>1, <3>2, <1>10 DEF ProducerEntry
    <3>4. d.app = p.app
      BY <3>1, <1>4 DEF ProducerEntry, ExternalRow, OwnerOf
    <3>5. d.pubSub = (SubscriptionsOf(c, a) # {} \/ p.pubSub)
      <4>1. d.pubSub = (\/ SubscriptionsOf(c, a) # {}
                        \/ a \in AddressesOf(c.producerOf) /\ LastOf(c.producerOf, a).pubSub)
        BY DEF ProducerEntry, ExternalRow
      <4>2. LastOf(c.producerOf, a) = p
        BY <1>4
      <4> HIDE DEF d, a
      <4>3. p.pubSub \in BOOLEAN
        BY <1>3 DEF WrittenProducer, MatchAddress
      <4> QED
        BY <4>1, <4>2, <4>3, <3>1
    <3>6. p.pubSub \in BOOLEAN
      BY <1>3 DEF WrittenProducer, MatchAddress
    <3>7. \A o \in ToSet(c.addresses) : p.address # o.address
      BY <2>3 DEF AddressesOf
    <3>8. p \in ToSet(k.producerOf) <=> p.app = d.app /\ p.pubSub = d.pubSub
      <4> HIDE DEF d
      <4> QED
        BY <3>3, <2>1
    <3> HIDE DEF d, r
    <3>9. p \in ToSet(k.producerOf) <=> (SubscriptionsOf(c, a) # {} => p.pubSub)
      BY <3>4, <3>5, <3>6, <3>8
    <3>10. SubscriptionsOf(c, a) # {} <=>
             \E q \in ToSet(c.consumerOf) : q.address = a /\ q.subscriptions # {}
      BY <3>1, <1>11
    <3> QED
      BY <3>7, <3>9, <3>10, <2>3
  <2> QED
    BY <2>2, <2>3
<1>13. ASSUME NEW q \in ToSet(c.consumerOf)
       PROVE  q \in ToSet(k.consumerOf) <=>
                /\ \A o \in ToSet(c.addresses) :
                      q.address = o.address => q.app = NoApp /\ q.subscriptions = o.subscriptions
                /\ \A p \in ToSet(c.producerOf) :
                      p.address = q.address /\ p.address \notin Owns => p.app = q.app
  <2>1. ASSUME NEW d \in ToSet(k.consumerOf), d.address = q.address
        PROVE  q \in ToSet(k.consumerOf) <=> q.app = d.app /\ q.subscriptions = d.subscriptions
    BY <2>1, <1>3, <1>7, SameEntry
  <2>2. CASE q.address \in Owns
    <3>1. PICK o \in ToSet(c.addresses) : o.address = q.address
      BY <2>2 DEF AddressesOf
    <3> DEFINE d == ConsumerEntry(OwnedRow(c, o))
    <3>2. OwnedRow(c, o) \in ToSet(Hydrate(c)) /\ OwnedRow(c, o).address = q.address
      BY <3>1, <1>9 DEF OwnedRow
    <3>3. d \in ToSet(k.consumerOf) /\ d.address = q.address
      BY <3>2, <1>5, <1>10 DEF ConsumerEntry
    <3>4. d.app = NoApp /\ d.subscriptions = o.subscriptions
      BY DEF ConsumerEntry, OwnedRow
    <3> HIDE DEF d
    <3>5. \A e \in ToSet(c.addresses) : q.address = e.address => e = o
      BY <3>1, <1>8
    <3> QED
      BY <3>1, <3>3, <3>4, <3>5, <2>1, <2>2
  <2>3. CASE q.address \notin Owns
    <3> DEFINE a == q.address
               r == ExternalRow(c, a)
               d == ConsumerEntry(r)
    <3>1. a \in External(c) /\ a \in AddressesOf(c.consumerOf)
      BY <2>3, <1>5 DEF External
    <3>2. r \in ToSet(Hydrate(c)) /\ r.address = a
      BY <3>1, <1>9 DEF ExternalRow
    <3>3. d \in ToSet(k.consumerOf) /\ d.address = a
      BY <3>1, <3>2, <1>10 DEF ConsumerEntry
    <3>4. d.subscriptions = q.subscriptions
      BY <3>1, <1>5 DEF ConsumerEntry, ExternalRow, SubscriptionsOf
    <3>5. d.app = OwnerOf(c, a)
      BY DEF ConsumerEntry, ExternalRow
    <3>6. \A o \in ToSet(c.addresses) : q.address # o.address
      BY <2>3 DEF AddressesOf
    <3> HIDE DEF d, r
    <3>7. q \in ToSet(k.consumerOf) <=> q.app = OwnerOf(c, a)
      BY <3>3, <3>4, <3>5, <2>1
    <3>8. CASE a \in AddressesOf(c.producerOf)
      <4>1. PICK p \in ToSet(c.producerOf) : p.address = a
        BY <3>8 DEF AddressesOf
      <4>2. OwnerOf(c, a) = p.app
        BY <3>8, <4>1, <1>4 DEF OwnerOf
      <4>3. \A e \in ToSet(c.producerOf) : e.address = a => e = p
        BY <4>1, <1>3, EntryOfAddress
      <4> QED
        BY <3>6, <3>7, <4>1, <4>2, <4>3, <2>3
    <3>9. CASE a \notin AddressesOf(c.producerOf)
      <4>1. OwnerOf(c, a) = q.app
        BY <3>9, <1>5 DEF OwnerOf
      <4>2. \A p \in ToSet(c.producerOf) : p.address # q.address
        BY <3>9 DEF AddressesOf
      <4> QED
        BY <3>6, <3>7, <4>1, <4>2
    <3> QED
      BY <3>8, <3>9
  <2> QED
    BY <2>2, <2>3
<1> QED
  BY <1>12, <1>13

(* A CR is kept up to its order exactly when the rows can say what it says. *)
LEMMA KeptIff ==
    ASSUME NEW c, DistinctCR(c), NEW k, k = Sync(Hydrate(c))
    PROVE  Representable(c) <=>
             /\ ~c.further
             /\ SameEntries(k.addresses, c.addresses)
             /\ SameEntries(k.producerOf, c.producerOf)
             /\ SameEntries(k.consumerOf, c.consumerOf)
<1>1. c \in ProperCR /\ c.further \in BOOLEAN
  BY DEF DistinctCR, ProperCR
<1>2. /\ k \in ProperCR
      /\ DistinctAddresses(k.producerOf) /\ DistinctAddresses(k.consumerOf)
      /\ AddressesOf(k.producerOf) = AddressesOf(c.producerOf)
      /\ AddressesOf(k.consumerOf) = AddressesOf(c.consumerOf)
  BY SameAddresses
<1>3. /\ c.producerOf \in Seq(WrittenProducer) /\ c.consumerOf \in Seq(WrittenConsumer)
      /\ k.producerOf \in Seq(WrittenProducer) /\ k.consumerOf \in Seq(WrittenConsumer)
  BY <1>1, <1>2, ProperFields
<1>4. /\ SameEntries(k.addresses, c.addresses)
      /\ ToSet(c.addresses) \subseteq WrittenSpec
      /\ ToSet(c.producerOf) \subseteq WrittenProducer
      /\ ToSet(c.consumerOf) \subseteq WrittenConsumer
  BY <1>1, OwnedEntriesKept, ProperFields
<1>5. SameEntries(k.producerOf, c.producerOf) <=>
        DistinctAddresses(c.producerOf) /\ ToSet(c.producerOf) \subseteq ToSet(k.producerOf)
  BY <1>2, <1>3, SameEntriesIff
<1>6. SameEntries(k.consumerOf, c.consumerOf) <=>
        DistinctAddresses(c.consumerOf) /\ ToSet(c.consumerOf) \subseteq ToSet(k.consumerOf)
  BY <1>2, <1>3, SameEntriesIff
<1>7. CASE ~(DistinctAddresses(c.producerOf) /\ DistinctAddresses(c.consumerOf))
  BY <1>5, <1>6, <1>7 DEF Representable
<1>8. CASE DistinctAddresses(c.producerOf) /\ DistinctAddresses(c.consumerOf)
  <2>1. \A p \in ToSet(c.producerOf) : p \in ToSet(k.producerOf) <=>
          /\ \A o \in ToSet(c.addresses) :
                p.address = o.address => p.app = NoApp /\ p.pubSub = o.pubSub
          /\ \A q \in ToSet(c.consumerOf) :
                p.address = q.address /\ p.address \notin AddressesOf(c.addresses)
                    => (q.subscriptions # {} => p.pubSub)
    BY <1>8, CapabilityEntryKept
  <2>2. \A q \in ToSet(c.consumerOf) : q \in ToSet(k.consumerOf) <=>
          /\ \A o \in ToSet(c.addresses) :
                q.address = o.address => q.app = NoApp /\ q.subscriptions = o.subscriptions
          /\ \A p \in ToSet(c.producerOf) :
                p.address = q.address /\ p.address \notin AddressesOf(c.addresses)
                    => p.app = q.app
    BY <1>8, CapabilityEntryKept
  <2>3. (ToSet(c.producerOf) \subseteq ToSet(k.producerOf)
           /\ ToSet(c.consumerOf) \subseteq ToSet(k.consumerOf)) <=>
          /\ \A o \in ToSet(c.addresses) :
                /\ \A p \in ToSet(c.producerOf) :
                      p.address = o.address => p.app = NoApp /\ p.pubSub = o.pubSub
                /\ \A q \in ToSet(c.consumerOf) :
                      q.address = o.address => q.app = NoApp /\ q.subscriptions = o.subscriptions
          /\ \A p \in ToSet(c.producerOf), q \in ToSet(c.consumerOf) :
                p.address = q.address /\ p.address \notin AddressesOf(c.addresses) =>
                    /\ p.app = q.app
                    /\ q.subscriptions # {} => p.pubSub
    BY <2>1, <2>2
  <2> QED
    BY <2>3, <1>4, <1>5, <1>6, <1>8 DEF Representable
<1> QED
  BY <1>7, <1>8

(* What validation accepts and the form keeps, or could say, is of the entries *)
(* that it writes: of any other CR neither side holds.                         *)
LEMMA KeptExactlyIff ==
    ASSUME NEW c \in CR, Validated(c), NEW k, k = Sync(Hydrate(c))
    PROVE  Representable(c) <=>
             /\ ~c.further
             /\ SameEntries(k.addresses, c.addresses)
             /\ SameEntries(k.producerOf, c.producerOf)
             /\ SameEntries(k.consumerOf, c.consumerOf)
<1>1. Hydrate(c) \in Seq(Row)
  BY HydrateRows, SeqMonotonic DEF FormRow
<1>2. k \in ProperCR
  BY <1>1, SyncType
<1>3. /\ ToSet(k.addresses) \subseteq WrittenSpec
      /\ ToSet(k.producerOf) \subseteq WrittenProducer
      /\ ToSet(k.consumerOf) \subseteq WrittenConsumer
  BY <1>2, ProperFields
<1> DEFINE OfTheForm == /\ ToSet(c.addresses) \subseteq WrittenSpec
                        /\ ToSet(c.producerOf) \subseteq WrittenProducer
                        /\ ToSet(c.consumerOf) \subseteq WrittenConsumer
<1>4. CASE OfTheForm
  <2>1. /\ c.addresses \in Seq(WrittenSpec)
        /\ c.producerOf \in Seq(WrittenProducer)
        /\ c.consumerOf \in Seq(WrittenConsumer)
    BY <1>4, CRFields, SeqOfElements
  <2>2. c \in ProperCR
    BY <2>1 DEF CR, ProperCR
  <2>3. DistinctCR(c)
    BY <2>2, ValidatedDistinct DEF DistinctCR
  <2> QED
    BY <2>3, KeptIff
<1>5. CASE ~OfTheForm
  <2>1. ~Representable(c)
    BY <1>5 DEF Representable
  <2>2. ~(/\ SameEntries(k.addresses, c.addresses)
          /\ SameEntries(k.producerOf, c.producerOf)
          /\ SameEntries(k.consumerOf, c.consumerOf))
    BY <1>3, <1>5 DEF SameEntries
  <2> QED
    BY <2>1, <2>2
<1> QED
  BY <1>4, <1>5

-----------------------------------------------------------------------------
(* The rows are of the kind that comes back from the CR, and the CR is theirs. *)
RowsInv ==
    /\ rows \in Seq(FormRow)
    /\ cr = Sync(rows)

(* While the modal is open the rows are those it found, and the one that       *)
(* HandleAdd made is the last.                                                 *)
ModalInv ==
    /\ editing \in 0..Len(rows)
    /\ isNewEntry \in BOOLEAN
    /\ isNewEntry => editing # 0 /\ editing = Len(rows) /\ loaded = {}
    /\ editing # 0 => /\ before \in Seq(FormRow)
                      /\ rows = IF isNewEntry THEN Append(before, NewRow) ELSE before

(* A CR that was loaded and not edited since is the one the rows were made of. *)
LoadedInv == \A c \in loaded : c \in CR /\ rows = Hydrate(c)

IInv == RowsInv /\ ModalInv /\ LoadedInv

(* The CRs that may be loaded: those of the cluster, the texts, and what the   *)
(* form has written itself.                                                    *)
LEMMA LoadedCR ==
    /\ \A c \in LoadedCRs \cup TypedCRs : c \in CR
    /\ RowsInv => cr \in ProperCR /\ cr \in CR
<1>1. \A c \in LoadedCRs \cup TypedCRs : c \in CR
  BY LoadedCRsAssumption
<1>2. ASSUME RowsInv
      PROVE  cr \in ProperCR /\ cr \in CR
  <2>1. rows \in Seq(Row)
    BY <1>2, SeqMonotonic DEF RowsInv, FormRow
  <2> QED
    BY <2>1, <1>2, SyncType, ProperFields DEF RowsInv
<1> QED
  BY <1>1, <1>2

(* The row that ADD_ADDRESS appends is one the form can hold, without a name. *)
LEMMA NewRowType == NewRow \in FormRow /\ NewRow.address = Blank
<1>1. Blank \in Texts
  BY TrimText
<1>2. NewRow \in Row
  BY <1>1 DEF NewRow, Row
<1>3. NewRow.ownership = "owned" /\ NewRow.app = NoApp /\ NewRow.address = Blank
  BY DEF NewRow
<1>4. RowAgrees(NewRow)
  BY <1>3 DEF RowAgrees
<1> QED
  BY <1>2, <1>3, <1>4 DEF FormRow

(* What UPDATE_ADDRESS makes of a row that Done sends. *)
LEMMA UpdatedRow ==
    ASSUME NEW list, NEW i, NEW r, NEW p \in Row, DoneMaySend(list, i, p)
    PROVE  UpdateAddress(r, p) \in FormRow /\ UpdateAddress(r, p).address = p.address
<1> DEFINE u == UpdateAddress(r, p)
           app == IF p.ownership = "external" THEN p.app ELSE NoApp
           selectors == IF p.ownership = "external" THEN NoSelector ELSE p.selectors
           subs == IF p.pubSub /\ (p.ownership = "owned" \/ Consumes(p)) THEN p.subscriptions ELSE {}
<1>1. u = [p EXCEPT !.app = app, !.selectors = selectors, !.subscriptions = subs]
  BY DEF UpdateAddress
<1>2. app \in Apps \cup {NoApp} /\ selectors \in Selectors \cup {NoSelector}
      /\ subs \in SUBSET Subscriptions
  BY RowFields
<1>3. /\ p.ownership = "owned" => app = NoApp
      /\ p.ownership = "external" => p.direction # "none" /\ selectors = NoSelector
      /\ p.ownership = "external" /\ subs # {} => p.pubSub /\ Consumes(p)
  BY DEF DoneMaySend
<1>4. p.ownership = "external" /\ p.pubSub => subs # {} \/ Produces(p)
  BY RowFields DEF DoneMaySend, Produces, Consumes
<1> HIDE DEF u, app, selectors, subs
<1>5. /\ u \in Row /\ u.address = p.address /\ u.ownership = p.ownership
      /\ u.direction = p.direction /\ u.pubSub = p.pubSub
      /\ u.subscriptions = subs /\ u.app = app /\ u.selectors = selectors
  BY <1>1, <1>2 DEF Row
<1>6. RowAgrees(u)
  BY <1>3, <1>4, <1>5 DEF RowAgrees, Produces, Consumes
<1> QED
  BY <1>5, <1>6 DEF FormRow, u

(* Names stay apart when a row goes and when a row without a name comes. *)
LEMMA StillDistinct ==
    ASSUME NEW list \in Seq(FormRow)
    PROVE  /\ \A i \in DOMAIN list :
                /\ RemoveAt(list, i) \in Seq(FormRow)
                /\ DistinctRows(list) => DistinctRows(RemoveAt(list, i))
           /\ Append(list, NewRow) \in Seq(FormRow)
           /\ DistinctRows(list) => DistinctRows(Append(list, NewRow))
<1> DEFINE N == Len(list)
<1>1. N \in Nat /\ DOMAIN list = 1..N
  BY LenProperties
<1>2. ASSUME NEW i \in DOMAIN list
      PROVE  /\ RemoveAt(list, i) \in Seq(FormRow)
             /\ DistinctRows(list) => DistinctRows(RemoveAt(list, i))
  <2> DEFINE u == RemoveAt(list, i)
  <2>1. /\ u \in Seq(FormRow) /\ Len(u) = N - 1
        /\ \A j \in 1..(N - 1) : u[j] = IF j < i THEN list[j] ELSE list[j + 1]
    BY RemoveAtProperties
  <2>2. DOMAIN u = 1..(N - 1)
    BY <2>1, LenProperties
  <2> HIDE DEF u, N
  <2> DEFINE at(j) == IF j < i THEN j ELSE j + 1
  <2>3. \A j \in 1..(N - 1) : at(j) \in 1..N /\ u[j] = list[at(j)]
    BY <2>1, <1>1
  <2>4. \A j, k \in 1..(N - 1) : at(j) = at(k) => j = k
    BY <1>1
  <2> HIDE DEF at
  <2>5. DistinctRows(list) => DistinctRows(u)
    BY <2>2, <2>3, <2>4, <1>1 DEF DistinctRows
  <2> QED
    BY <2>1, <2>5 DEF u
<1>3. /\ Append(list, NewRow) \in Seq(FormRow)
      /\ DistinctRows(list) => DistinctRows(Append(list, NewRow))
  <2> DEFINE u == Append(list, NewRow)
  <2>1. /\ u \in Seq(FormRow) /\ Len(u) = N + 1
        /\ \A j \in 1..N : u[j] = list[j]
        /\ u[N + 1] = NewRow
    BY NewRowType, AppendProperties
  <2>2. DOMAIN u = 1..(N + 1)
    BY <2>1, LenProperties
  <2> HIDE DEF u, N
  <2>3. \A j \in 1..(N + 1) : j \in 1..N \/ j = N + 1
    BY <1>1
  <2>4. Trim[u[N + 1].address] = Blank
    BY <2>1, NewRowType, TrimText
  <2>5. DistinctRows(list) => DistinctRows(u)
    BY <2>1, <2>2, <2>3, <2>4, <1>1 DEF DistinctRows
  <2> QED
    BY <2>1, <2>5 DEF u
<1> QED
  BY <1>2, <1>3

(* The page opens in a state of the invariant. *)
LEMMA InitInv == Init => IInv
<1> SUFFICES ASSUME Init
             PROVE  IInv
  OBVIOUS
<1>1. PICK c \in LoadedCRs : /\ rows = Hydrate(c) /\ cr = Sync(Hydrate(c)) /\ editing = 0
                             /\ isNewEntry = FALSE /\ before = <<>> /\ loaded = {c}
  BY DEF Init
<1>2. c \in CR
  BY LoadedCR
<1>3. Hydrate(c) \in Seq(FormRow)
  BY <1>2, HydrateRows
<1>4. RowsInv
  BY <1>1, <1>3 DEF RowsInv
<1>5. ModalInv
  <2>1. Len(rows) \in Nat
    BY <1>1, <1>3, LenProperties
  <2>2. editing \in 0..Len(rows)
    BY <2>1, <1>1
  <2> QED
    BY <2>2, <1>1 DEF ModalInv
<1>6. LoadedInv
  BY <1>1, <1>2 DEF LoadedInv
<1> QED
  BY <1>4, <1>5, <1>6 DEF IInv

(* A CR is loaded: the rows and the CR written back are those of that CR.      *)
LEMMA LoadInv ==
    ASSUME IInv, NEW c \in TypedCRs \cup {cr}, Load(c)
    PROVE  IInv'
<1>1. c \in CR
  BY LoadedCR DEF IInv
<1>2. /\ rows' = Hydrate(c) /\ cr' = Sync(Hydrate(c)) /\ loaded' = {c} /\ editing = 0
      /\ editing' = editing /\ isNewEntry' = isNewEntry /\ before' = before
  BY DEF Load, SetRows
<1>3. Hydrate(c) \in Seq(FormRow)
  BY <1>1, HydrateRows
<1>4. RowsInv'
  BY <1>2, <1>3 DEF RowsInv
<1>5. ModalInv'
  <2>1. Len(rows') \in Nat
    BY <1>2, <1>3, LenProperties
  <2>2. isNewEntry = FALSE
    BY <1>2 DEF IInv, ModalInv
  <2>3. editing' \in 0..Len(rows')
    BY <2>1, <1>2
  <2> QED
    BY <2>2, <2>3, <1>2 DEF ModalInv
<1>6. LoadedInv'
  BY <1>1, <1>2 DEF LoadedInv
<1> QED
  BY <1>4, <1>5, <1>6 DEF IInv

(* The new row is the last one, and the modal opens on it.                     *)
LEMMA HandleAddInv ==
    ASSUME IInv, HandleAdd
    PROVE  IInv'
<1>1. /\ rows' = Append(rows, NewRow) /\ cr' = Sync(rows') /\ loaded' = {}
      /\ editing' = Len(rows) + 1 /\ isNewEntry' = TRUE /\ before' = rows
  BY DEF HandleAdd, SetRows
<1>2. rows \in Seq(FormRow) /\ Len(rows) \in Nat
  BY LenProperties DEF IInv, RowsInv
<1>3. rows' \in Seq(FormRow) /\ Len(rows') = Len(rows) + 1
  BY <1>1, <1>2, StillDistinct, NewRowType, AppendProperties
<1>4. RowsInv'
  BY <1>1, <1>3 DEF RowsInv
<1>5. ModalInv'
  <2>1. editing' \in 0..Len(rows') /\ editing' # 0 /\ editing' = Len(rows')
    BY <1>1, <1>2, <1>3
  <2> QED
    BY <2>1, <1>1, <1>2 DEF ModalInv
<1>6. LoadedInv'
  BY <1>1 DEF LoadedInv
<1> QED
  BY <1>4, <1>5, <1>6 DEF IInv

(* Opening the modal on a row changes no row.                                  *)
LEMMA HandleEditInv ==
    ASSUME IInv, NEW i \in DOMAIN rows, HandleEdit(i)
    PROVE  IInv'
<1>1. /\ rows' = rows /\ cr' = cr /\ loaded' = loaded
      /\ editing' = i /\ isNewEntry' = FALSE /\ before' = rows
  BY DEF HandleEdit
<1>2. rows \in Seq(FormRow) /\ Len(rows) \in Nat /\ DOMAIN rows = 1..Len(rows)
  BY LenProperties DEF IInv, RowsInv
<1>3. RowsInv'
  BY <1>1 DEF IInv, RowsInv
<1>4. ModalInv'
  <2>1. i \in 0..Len(rows)
    BY <1>2
  <2> QED
    BY <2>1, <1>1, <1>2 DEF ModalInv
<1>5. LoadedInv'
  BY <1>1 DEF IInv, LoadedInv
<1> QED
  BY <1>3, <1>4, <1>5 DEF IInv

(* A row goes; no modal is open, so none loses its row.                        *)
LEMMA HandleRemoveInv ==
    ASSUME IInv, NEW i \in DOMAIN rows, HandleRemove(i)
    PROVE  IInv'
<1>1. /\ rows' = RemoveAt(rows, i) /\ cr' = Sync(rows') /\ loaded' = {} /\ editing = 0
      /\ editing' = editing /\ isNewEntry' = isNewEntry /\ before' = before
  BY DEF HandleRemove, SetRows
<1>2. rows' \in Seq(FormRow)
  BY <1>1, StillDistinct DEF IInv, RowsInv
<1>3. RowsInv'
  BY <1>1, <1>2 DEF RowsInv
<1>4. ModalInv'
  <2>1. Len(rows') \in Nat
    BY <1>2, LenProperties
  <2>2. isNewEntry = FALSE
    BY <1>1 DEF IInv, ModalInv
  <2>3. editing' \in 0..Len(rows')
    BY <2>1, <1>1
  <2> QED
    BY <2>2, <2>3, <1>1 DEF ModalInv
<1>5. LoadedInv'
  BY <1>1 DEF LoadedInv
<1> QED
  BY <1>3, <1>4, <1>5 DEF IInv

(* Done may send only a name that no other row has, so the rows stay distinct. *)
LEMMA HandleDoneInv ==
    ASSUME IInv, NEW p \in Payloads, HandleDone(p)
    PROVE  IInv' /\ (DistinctRows(rows) => DistinctRows(rows'))
<1> DEFINE u == UpdateAddress(rows[editing], p)
<1>1. /\ editing # 0 /\ DoneMaySend(rows, editing, p)
      /\ rows' = [rows EXCEPT ![editing] = u] /\ cr' = Sync(rows') /\ loaded' = {}
      /\ editing' = 0 /\ isNewEntry' = FALSE
  BY DEF HandleDone, SetRows
<1>2. /\ rows \in Seq(FormRow)
      /\ Len(rows) \in Nat /\ DOMAIN rows = 1..Len(rows)
  BY LenProperties DEF IInv, RowsInv
<1>3. editing \in 1..Len(rows)
  <2>1. editing \in 0..Len(rows)
    BY DEF IInv, ModalInv
  <2> QED
    BY <2>1, <1>1, <1>2
<1>4. u \in FormRow /\ u.address = p.address
  <2>1. p \in Row
    BY LoadedCRsAssumption
  <2> QED
    BY <2>1, <1>1, UpdatedRow
<1> HIDE DEF u
<1>5. /\ rows' \in Seq(FormRow) /\ Len(rows') = Len(rows)
      /\ \A j \in 1..Len(rows) : rows'[j] = IF j = editing THEN u ELSE rows[j]
  BY <1>1, <1>2, <1>3, <1>4, ExceptSeq
<1>6. ASSUME DistinctRows(rows)
      PROVE  DistinctRows(rows')
  <2>1. DOMAIN rows' = 1..Len(rows)
    BY <1>5, LenProperties
  <2>2. Trim[u.address] # Blank =>
          \A j \in 1..Len(rows) : j # editing => Trim[rows[j].address] # Trim[u.address]
    BY <1>1, <1>2, <1>4 DEF DoneMaySend
  <2>3. ASSUME NEW i \in 1..Len(rows), NEW j \in 1..Len(rows), i # j,
               Trim[rows'[i].address] = Trim[rows'[j].address]
        PROVE  Trim[rows'[i].address] = Blank
    <3>1. CASE i # editing /\ j # editing
      BY <3>1, <2>3, <1>2, <1>5, <1>6 DEF DistinctRows
    <3>2. CASE i = editing \/ j = editing
      BY <3>2, <2>2, <2>3, <1>5
    <3> QED
      BY <3>1, <3>2
  <2> QED
    BY <2>1, <2>3 DEF DistinctRows
<1>7. RowsInv'
  BY <1>1, <1>5 DEF RowsInv
<1>8. ModalInv'
  <2>1. editing' \in 0..Len(rows')
    BY <1>1, <1>2, <1>5
  <2> QED
    BY <2>1, <1>1 DEF ModalInv
<1>9. LoadedInv'
  BY <1>1 DEF LoadedInv
<1> QED
  BY <1>6, <1>7, <1>8, <1>9 DEF IInv

(* The row that HandleAdd made goes, and with it nothing else. *)
LEMMA CancelRestores ==
    ASSUME IInv, HandleCancelModal
    PROVE  rows' = before /\ before \in Seq(FormRow)
<1>1. /\ editing # 0
      /\ rows' = IF isNewEntry THEN RemoveAt(rows, editing) ELSE rows
  BY DEF HandleCancelModal, SetRows
<1>2. /\ before \in Seq(FormRow)
      /\ rows = IF isNewEntry THEN Append(before, NewRow) ELSE before
      /\ isNewEntry => editing = Len(rows)
  BY <1>1 DEF IInv, ModalInv
<1>3. CASE isNewEntry
  <2>1. Len(Append(before, NewRow)) = Len(before) + 1
    BY <1>2, NewRowType, AppendProperties
  <2>2. editing = Len(before) + 1
    BY <2>1, <1>2, <1>3
  <2>3. RemoveAt(Append(before, NewRow), Len(before) + 1) = before
    BY <1>2, NewRowType, RemoveLastAppended
  <2> QED
    BY <2>2, <2>3, <1>1, <1>2, <1>3
<1>4. CASE ~isNewEntry
  BY <1>1, <1>2, <1>4
<1> QED
  BY <1>2, <1>3, <1>4

(* Cancelling removes at most the row under edit and closes the modal.         *)
LEMMA HandleCancelModalInv ==
    ASSUME IInv, HandleCancelModal
    PROVE  IInv'
<1>1. /\ editing # 0 /\ rows' = (IF isNewEntry THEN RemoveAt(rows, editing) ELSE rows)
      /\ cr' = Sync(rows') /\ loaded' = loaded
      /\ editing' = 0 /\ isNewEntry' = FALSE
  BY DEF HandleCancelModal, SetRows
<1>2. rows' \in Seq(FormRow)
  BY CancelRestores
<1>3. RowsInv'
  BY <1>1, <1>2 DEF RowsInv
<1>4. ModalInv'
  <2>1. editing' \in 0..Len(rows')
    BY <1>1, <1>2, LenProperties
  <2> QED
    BY <2>1, <1>1 DEF ModalInv
<1>5. LoadedInv'
  BY <1>1 DEF IInv, ModalInv, LoadedInv
<1> QED
  BY <1>3, <1>4, <1>5 DEF IInv

(* Cancelling leaves rows apart, since it takes at most one away.              *)
LEMMA CancelApart ==
    ASSUME IInv, HandleCancelModal, DistinctRows(rows)
    PROVE  DistinctRows(rows')
<1>1. editing # 0 /\ rows' = (IF isNewEntry THEN RemoveAt(rows, editing) ELSE rows)
  BY DEF HandleCancelModal, SetRows
<1>2. rows \in Seq(FormRow) /\ Len(rows) \in Nat /\ DOMAIN rows = 1..Len(rows)
  BY LenProperties DEF IInv, RowsInv
<1>3. editing \in DOMAIN rows
  <2>1. editing \in 0..Len(rows)
    BY DEF IInv, ModalInv
  <2> QED
    BY <2>1, <1>1, <1>2
<1> QED
  BY <1>1, <1>2, <1>3, StillDistinct

(* Every step keeps the invariant.                                             *)
LEMMA NextInv == IInv /\ [Next]_vars => IInv'
<1> SUFFICES ASSUME IInv, [Next]_vars
             PROVE  IInv'
  OBVIOUS
<1>1. ASSUME NEW c \in TypedCRs \cup {cr}, Load(c)
      PROVE  IInv'
  BY <1>1, LoadInv
<1>2. CASE HandleAdd
  BY <1>2, HandleAddInv
<1>3. ASSUME NEW i \in DOMAIN rows, HandleEdit(i)
      PROVE  IInv'
  BY <1>3, HandleEditInv
<1>4. ASSUME NEW i \in DOMAIN rows, HandleRemove(i)
      PROVE  IInv'
  BY <1>4, HandleRemoveInv
<1>5. ASSUME NEW p \in Payloads, HandleDone(p)
      PROVE  IInv'
  BY <1>5, HandleDoneInv
<1>6. CASE HandleCancelModal
  BY <1>6, HandleCancelModalInv
<1>7. CASE UNCHANGED vars
  BY <1>7 DEF vars, IInv, RowsInv, ModalInv, LoadedInv
<1> QED
  BY <1>1, <1>2, <1>3, <1>4, <1>5, <1>6, <1>7 DEF Next

-----------------------------------------------------------------------------
(* The invariant holds of every behavior. *)
THEOREM AddressManagerInvariant == Spec => []IInv
<1>1. Init => IInv
  BY InitInv
<1>2. IInv /\ [Next]_vars => IInv'
  BY NextInv
<1> QED
  BY <1>1, <1>2, PTL DEF Spec

(* The rows are rows, the CR that the reducer writes has the shape of its      *)
(* type, and the modal edits a row there is: AddressEditModal reads            *)
(* state.addresses[index] without looking.                                     *)
THEOREM AddressManagerTypes == Spec => []TypeOK
<1>1. IInv => TypeOK
  <2> SUFFICES ASSUME IInv
               PROVE  TypeOK
    OBVIOUS
  <2>1. rows \in Seq(Row)
    BY SeqMonotonic DEF IInv, RowsInv, FormRow
  <2>2. ToSet(rows) \subseteq Row
    BY <2>1, LenProperties, ElementOfSeq DEF ToSet
  <2>3. cr \in [addresses : Seq(WrittenSpec), producerOf : Seq(WrittenProducer),
                consumerOf : Seq(WrittenConsumer), further : {FALSE}]
    BY <2>1, SyncType DEF IInv, RowsInv
  <2> QED
    BY <2>2, <2>3 DEF TypeOK, IInv, ModalInv
<1> QED
  BY <1>1, AddressManagerInvariant, PTL

(* Of every CR that validateBrokerAppCR accepts, hydrateAddresses gives an     *)
(* address two rows exactly when the CR spells it in two ways.                 *)
THEOREM OverlapsAreSpelled == Spec => []OverlapsAreSpellings
<1>1. IInv => OverlapsAreSpellings
  BY RowsApart, ValidatedDistinct DEF IInv, LoadedInv, OverlapsAreSpellings
<1> QED
  BY <1>1, AddressManagerInvariant, PTL

(* Rows with different addresses stay so through every card, every edit in the *)
(* modal and every change of views; only a text that spells an address in two  *)
(* ways gives it a second row.                                                 *)
THEOREM NoAddressTwice == Spec => RowsStayApart
<1>1. IInv /\ [Next]_vars => [DistinctRows(rows) =>
                                 \/ DistinctRows(rows')
                                 \/ \E c \in TypedCRs : Load(c) /\ ~SpelledOnce(c)]_vars
  <2> SUFFICES ASSUME IInv, [Next]_vars, DistinctRows(rows),
                      ~\E c \in TypedCRs : Load(c) /\ ~SpelledOnce(c)
               PROVE  DistinctRows(rows')
    OBVIOUS
  <2>1. rows \in Seq(FormRow)
    BY DEF IInv, RowsInv
  <2>2. ASSUME NEW c \in TypedCRs \cup {cr}, Load(c)
        PROVE  DistinctRows(rows')
    <3>1. c \in CR /\ DistinctAddresses(c.addresses)
      BY <2>2, LoadedCR, ValidatedDistinct DEF Load, IInv
    <3>2. SpelledOnce(c)
      BY <2>2, LoadedCR, ProperSpelledOnce DEF IInv
    <3> QED
      BY <2>2, <3>1, <3>2, RowsApart DEF Load, SetRows
  <2>3. CASE HandleAdd
    BY <2>1, <2>3, StillDistinct DEF HandleAdd, SetRows
  <2>4. ASSUME NEW i \in DOMAIN rows, HandleEdit(i)
        PROVE  DistinctRows(rows')
    BY <2>4 DEF HandleEdit
  <2>5. ASSUME NEW i \in DOMAIN rows, HandleRemove(i)
        PROVE  DistinctRows(rows')
    BY <2>1, <2>5, StillDistinct DEF HandleRemove, SetRows
  <2>6. ASSUME NEW p \in Payloads, HandleDone(p)
        PROVE  DistinctRows(rows')
    BY <2>6, HandleDoneInv
  <2>7. CASE HandleCancelModal
    BY <2>7, CancelApart
  <2>8. CASE UNCHANGED vars
    BY <2>8 DEF vars
  <2> QED
    BY <2>2, <2>3, <2>4, <2>5, <2>6, <2>7, <2>8 DEF Next
<1> QED
  BY <1>1, AddressManagerInvariant, PTL DEF Spec, RowsStayApart

(* syncAddressesToCR and hydrateAddresses are inverses on exactly those rows   *)
(* of the form of which no two have one address: a look at the YAML view       *)
(* loses and merges no named row of them and changes none.                     *)
THEOREM SwitchingViewsKeeps == Spec => []SwitchingViewsKeepsRows
<1>1. IInv => SwitchingViewsKeepsRows
  BY ComesBackIff DEF IInv, RowsInv, SwitchingViewsKeepsRows
<1> QED
  BY <1>1, AddressManagerInvariant, PTL

(* hydrateAddresses followed by syncAddressesToCR keeps a CR that validation   *)
(* accepts, up to the order of its lists, exactly when the rows can represent  *)
(* it; what may stand in a CR and not in a row is all in Representable.        *)
THEOREM KeptExactly == Spec => []KeptExactlyIfRepresentable
<1>1. IInv => KeptExactlyIfRepresentable
  <2> SUFFICES ASSUME IInv, NEW c \in loaded, Validated(c)
               PROVE  Representable(c) <=>
                        /\ ~c.further
                        /\ SameEntries(cr.addresses, c.addresses)
                        /\ SameEntries(cr.producerOf, c.producerOf)
                        /\ SameEntries(cr.consumerOf, c.consumerOf)
    BY DEF KeptExactlyIfRepresentable
  <2>1. c \in CR /\ cr = Sync(Hydrate(c))
    BY DEF IInv, RowsInv, LoadedInv
  <2> QED
    BY <2>1, KeptExactlyIff
<1> QED
  BY <1>1, AddressManagerInvariant, PTL

(* Cancelling the modal gives back the rows it was opened on. *)
THEOREM CancelDiscardsAlways == Spec => CancelDiscards
<1>1. IInv /\ [Next]_vars => [HandleCancelModal => rows' = before]_vars
  BY CancelRestores
<1> QED
  BY <1>1, AddressManagerInvariant, PTL DEF Spec, CancelDiscards

=============================================================================

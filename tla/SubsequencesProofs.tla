-------------------------- MODULE SubsequencesProofs --------------------------
(***************************************************************************)
(* The lemmas about sequences that the proofs about rows rest on: what the  *)
(* elements at some positions are, that their order and their number are    *)
(* those of the positions, and what removing and appending do.              *)
(***************************************************************************)
EXTENDS Subsequences, SequencesExt, FiniteSetTheorems, SequenceTheorems, TLAPS

(* The rank of a position among P: how many of P are not beyond it. *)
Rank(P, p) == Cardinality({q \in P : q <= p})

(* Ranks are numbers of 1..Cardinality(P), and grow with the position. *)
LEMMA RankGrows ==
    ASSUME NEW P \in SUBSET Int, IsFiniteSet(P), NEW p \in P
    PROVE  /\ Cardinality(P) \in Nat
           /\ Rank(P, p) \in 1..Cardinality(P)
           /\ \A q \in P : p < q => Rank(P, p) < Rank(P, q)
<1> DEFINE UpTo(x) == {q \in P : q <= x}
<1>1. \A x \in P : /\ IsFiniteSet(UpTo(x))
                   /\ Cardinality(UpTo(x)) \in Nat
                   /\ Cardinality(UpTo(x)) <= Cardinality(P)
  <2> SUFFICES ASSUME NEW x \in P
               PROVE  /\ IsFiniteSet(UpTo(x))
                      /\ Cardinality(UpTo(x)) \in Nat
                      /\ Cardinality(UpTo(x)) <= Cardinality(P)
    OBVIOUS
  <2>1. UpTo(x) \in SUBSET P
    OBVIOUS
  <2> HIDE DEF UpTo
  <2> QED
    BY <2>1, FS_Subset, FS_CardinalityType
<1>2. Cardinality(P) \in Nat
  BY FS_CardinalityType
<1>3. \A x \in P : Cardinality(UpTo(x)) # 0
  <2> SUFFICES ASSUME NEW x \in P
               PROVE  Cardinality(UpTo(x)) # 0
    OBVIOUS
  <2>1. x \in UpTo(x)
    OBVIOUS
  <2> HIDE DEF UpTo
  <2> QED
    BY <2>1, <1>1, FS_EmptySet
<1>4. ASSUME NEW q \in P, p < q
      PROVE  Cardinality(UpTo(p)) < Cardinality(UpTo(q))
  <2>1. UpTo(p) \in SUBSET UpTo(q)
    <3> SUFFICES ASSUME NEW x \in P, x <= p
                 PROVE  x <= q
      OBVIOUS
    <3>1. x \in Int /\ p \in Int /\ q \in Int
      OBVIOUS
    <3> QED
      BY <1>4, <3>1
  <2>2. q \in UpTo(q) /\ q \notin UpTo(p)
    BY <1>4
  <2> HIDE DEF UpTo
  <2>3. /\ Cardinality(UpTo(p)) <= Cardinality(UpTo(q))
        /\ Cardinality(UpTo(p)) # Cardinality(UpTo(q))
    BY <2>1, <2>2, <1>1, FS_Subset
  <2> QED
    BY <2>3, <1>1
<1> QED
  BY <1>1, <1>2, <1>3, <1>4 DEF Rank

(* Each position has a rank of its own, and each number up to their count is   *)
(* the rank of one.                                                            *)
LEMMA RankIsABijection ==
    ASSUME NEW P \in SUBSET Int, IsFiniteSet(P)
    PROVE  /\ \A p, q \in P : Rank(P, p) = Rank(P, q) => p = q
           /\ \A n \in 1..Cardinality(P) : \E p \in P : Rank(P, p) = n
<1> DEFINE N == Cardinality(P)
           f == [p \in P |-> Rank(P, p)]
<1>1. N \in Nat
  BY FS_CardinalityType
<1>2. \A p, q \in P : Rank(P, p) = Rank(P, q) => p = q
  <2> SUFFICES ASSUME NEW p \in P, NEW q \in P, Rank(P, p) = Rank(P, q)
               PROVE  p = q
    OBVIOUS
  <2>1. /\ p < q => Rank(P, p) < Rank(P, q)
        /\ q < p => Rank(P, q) < Rank(P, p)
        /\ Rank(P, p) \in Int
        /\ p \in Int /\ q \in Int
    BY RankGrows, <1>1
  <2> QED
    BY <2>1
<1>3. \A p \in P : Rank(P, p) \in 1..N
  BY RankGrows
<1>4. f \in Injection(P, 1..N)
  BY <1>2, <1>3 DEF Injection, IsInjective
<1>5. IsFiniteSet(1..N) /\ Cardinality(1..N) = N
  <2>1. /\ IsFiniteSet(1..N)
        /\ Cardinality(1..N) = IF 1 > N THEN 0 ELSE N - 1 + 1
    BY <1>1, FS_Interval
  <2> QED
    BY <2>1, <1>1
<1>6. f \in Surjection(P, 1..N)
  <2> HIDE DEF f
  <2> QED
    BY <1>4, <1>5, FS_Injection
<1> QED
  BY <1>2, <1>6 DEF Surjection

(* The n-th position is one of P, later ones are greater, and each is some n-th. *)
LEMMA NthPosition ==
    ASSUME NEW P \in SUBSET Int, IsFiniteSet(P)
    PROVE  /\ Cardinality(P) \in Nat
           /\ \A n \in 1..Cardinality(P) : Nth(P, n) \in P
           /\ \A m, n \in 1..Cardinality(P) : m < n => Nth(P, m) < Nth(P, n)
           /\ \A p \in P : \E n \in 1..Cardinality(P) : Nth(P, n) = p
<1>1. Cardinality(P) \in Nat
  BY FS_CardinalityType
<1>2. \A n \in 1..Cardinality(P) : Nth(P, n) \in P /\ Rank(P, Nth(P, n)) = n
  BY RankIsABijection DEF Nth, Rank
<1>3. ASSUME NEW m \in 1..Cardinality(P), NEW n \in 1..Cardinality(P), m < n
      PROVE  Nth(P, m) < Nth(P, n)
  <2> DEFINE p == Nth(P, m)
             q == Nth(P, n)
  <2>1. p \in P /\ q \in P /\ p \in Int /\ q \in Int /\ Rank(P, p) = m /\ Rank(P, q) = n
    BY <1>2
  <2> HIDE DEF p, q
  <2>2. q < p => Rank(P, q) < Rank(P, p)
    BY <2>1, RankGrows
  <2>3. p < q
    BY <2>1, <2>2, <1>1, <1>3
  <2> QED
    BY <2>3 DEF p, q
<1>4. ASSUME NEW p \in P
      PROVE  \E n \in 1..Cardinality(P) : Nth(P, n) = p
  <2> DEFINE n == Rank(P, p)
             q == Nth(P, n)
  <2>1. n \in 1..Cardinality(P)
    BY RankGrows
  <2>2. q \in P /\ Rank(P, q) = Rank(P, p)
    BY <2>1, <1>2
  <2>3. q = p
    <3> HIDE DEF q
    <3> QED
      BY <2>2, RankIsABijection
  <2> QED
    BY <2>1, <2>3
<1> QED
  BY <1>1, <1>2, <1>3, <1>4

(* The elements at positions of a sequence are a sequence of them, as many as  *)
(* there are positions.                                                        *)
LEMMA SubSeqAtProperties ==
    ASSUME NEW S, NEW s \in Seq(S), NEW P \in SUBSET DOMAIN s
    PROVE  /\ IsFiniteSet(P) /\ Cardinality(P) \in Nat
           /\ SubSeqAt(s, P) \in Seq(S)
           /\ Len(SubSeqAt(s, P)) = Cardinality(P)
           /\ DOMAIN SubSeqAt(s, P) = 1..Cardinality(P)
           /\ \A n \in 1..Cardinality(P) :
                 Nth(P, n) \in P /\ SubSeqAt(s, P)[n] = s[Nth(P, n)]
           /\ \A m, n \in 1..Cardinality(P) : m < n => Nth(P, m) < Nth(P, n)
           /\ \A p \in P : \E n \in 1..Cardinality(P) : Nth(P, n) = p
<1>1. DOMAIN s = 1..Len(s) /\ Len(s) \in Nat /\ s \in [1..Len(s) -> S]
  BY LenProperties
<1>2. IsFiniteSet(1..Len(s))
  BY <1>1, FS_Interval
<1>3. IsFiniteSet(P) /\ P \in SUBSET Int
  <2>1. P \in SUBSET (1..Len(s))
    BY <1>1
  <2>2. IsFiniteSet(P)
    BY <2>1, <1>2, FS_Subset
  <2> QED
    BY <2>1, <2>2
<1>4. /\ Cardinality(P) \in Nat
      /\ \A n \in 1..Cardinality(P) : Nth(P, n) \in P
      /\ \A m, n \in 1..Cardinality(P) : m < n => Nth(P, m) < Nth(P, n)
      /\ \A p \in P : \E n \in 1..Cardinality(P) : Nth(P, n) = p
  BY <1>3, NthPosition
<1>5. SubSeqAt(s, P) \in [1..Cardinality(P) -> S]
  BY <1>1, <1>4 DEF SubSeqAt
<1>6. SubSeqAt(s, P) \in Seq(S) /\ Len(SubSeqAt(s, P)) = Cardinality(P)
  BY <1>4, <1>5
<1> QED
  BY <1>3, <1>4, <1>5, <1>6 DEF SubSeqAt

(* It is a sequence over any set that holds the elements at the positions. *)
LEMMA SubSeqAtType ==
    ASSUME NEW S, NEW s \in Seq(S), NEW P \in SUBSET DOMAIN s, NEW T,
           \A p \in P : s[p] \in T
    PROVE  SubSeqAt(s, P) \in Seq(T)
<1>1. /\ Cardinality(P) \in Nat
      /\ \A n \in 1..Cardinality(P) : SubSeqAt(s, P)[n] \in T
      /\ SubSeqAt(s, P) = [n \in 1..Cardinality(P) |-> SubSeqAt(s, P)[n]]
  BY SubSeqAtProperties DEF SubSeqAt
<1> HIDE DEF SubSeqAt
<1>2. SubSeqAt(s, P) \in [1..Cardinality(P) -> T]
  BY <1>1
<1> QED
  BY <1>1, <1>2

(* What stands in it is what stands at the positions. *)
LEMMA ElementsAt ==
    ASSUME NEW S, NEW s \in Seq(S), NEW P \in SUBSET DOMAIN s
    PROVE  ToSet(SubSeqAt(s, P)) = {s[p] : p \in P}
<1>1. ToSet(SubSeqAt(s, P)) = {SubSeqAt(s, P)[n] : n \in 1..Cardinality(P)}
  BY SubSeqAtProperties DEF ToSet
<1>2. \A n \in 1..Cardinality(P) : Nth(P, n) \in P /\ SubSeqAt(s, P)[n] = s[Nth(P, n)]
  BY SubSeqAtProperties
<1>3. \A p \in P : \E n \in 1..Cardinality(P) : SubSeqAt(s, P)[n] = s[p]
  BY <1>2, SubSeqAtProperties
<1> QED
  BY <1>1, <1>2, <1>3

(* A finite set of positions has a first and a last one. *)
LEMMA FirstAndLast ==
    ASSUME NEW P \in SUBSET Int, IsFiniteSet(P), P # {}
    PROVE  /\ Min(P) \in P /\ \A p \in P : Min(P) <= p
           /\ Max(P) \in P /\ \A p \in P : p <= Max(P)
<1> DEFINE N == Cardinality(P)
<1>1. N \in Nat /\ N # 0
  BY FS_CardinalityType, FS_EmptySet
<1>2. /\ \A n \in 1..N : Nth(P, n) \in P /\ Nth(P, n) \in Int
      /\ \A m, n \in 1..N : m < n => Nth(P, m) < Nth(P, n)
      /\ \A p \in P : \E n \in 1..N : Nth(P, n) = p
  BY NthPosition
<1> HIDE DEF N
<1>3. 1 \in 1..N /\ N \in 1..N
  BY <1>1
<1>4. \A p \in P : Nth(P, 1) <= p /\ p <= Nth(P, N)
  <2> SUFFICES ASSUME NEW p \in P
               PROVE  Nth(P, 1) <= p /\ p <= Nth(P, N)
    OBVIOUS
  <2>1. PICK n \in 1..N : Nth(P, n) = p
    BY <1>2
  <2>2. (n = 1 \/ 1 < n) /\ (n = N \/ n < N)
    BY <1>1
  <2>3. (1 < n => Nth(P, 1) < Nth(P, n)) /\ (n < N => Nth(P, n) < Nth(P, N))
    BY <1>2, <1>3
  <2>4. Nth(P, 1) \in Int /\ Nth(P, N) \in Int /\ p \in Int
    BY <1>2, <1>3
  <2> QED
    BY <2>1, <2>2, <2>3, <2>4
<1>5. Nth(P, 1) \in P /\ Nth(P, N) \in P
  BY <1>2, <1>3
<1>6. Min(P) \in P /\ \A p \in P : Min(P) <= p
  BY <1>4, <1>5 DEF Min
<1>7. Max(P) \in P /\ \A p \in P : Max(P) >= p
  <2>1. \A p \in P : Nth(P, N) >= p
    BY <1>2, <1>3, <1>4
  <2> QED
    BY <2>1, <1>5 DEF Max
<1>8. \A p \in P : p <= Max(P)
  BY <1>7
<1> QED
  BY <1>6, <1>7, <1>8

(* A removal moves the elements behind the one removed by one place. *)
LEMMA RemoveAtProperties ==
    ASSUME NEW S, NEW s \in Seq(S), NEW i \in DOMAIN s
    PROVE  /\ RemoveAt(s, i) \in Seq(S)
           /\ Len(RemoveAt(s, i)) = Len(s) - 1
           /\ \A j \in 1..(Len(s) - 1) :
                 RemoveAt(s, i)[j] = IF j < i THEN s[j] ELSE s[j + 1]
<1> DEFINE u == SubSeq(s, 1, i - 1)
           v == SubSeq(s, i + 1, Len(s))
           N == Len(s)
<1>1. N \in Nat /\ i \in 1..N /\ \A j \in 1..N : s[j] \in S
  BY LenProperties
<1>2. /\ u \in Seq(S) /\ Len(u) = i - 1
      /\ \A j \in 1..(i - 1) : u[j] = s[j]
  <2>1. \A j \in 1..(i - 1) : s[j] \in S
    BY <1>1
  <2>2. /\ u \in Seq(S)
        /\ Len(u) = IF 1 <= i - 1 THEN i - 1 - 1 + 1 ELSE 0
        /\ \A j \in 1..(i - 1 - 1 + 1) : u[j] = s[1 + j - 1]
    BY <2>1, <1>1, SubSeqProperties
  <2> HIDE DEF u, N
  <2> QED
    BY <2>2, <1>1
<1>3. /\ v \in Seq(S) /\ Len(v) = N - i
      /\ \A j \in 1..(N - i) : v[j] = s[i + j]
  <2>1. \A j \in (i + 1)..N : s[j] \in S
    BY <1>1
  <2>2. /\ v \in Seq(S)
        /\ Len(v) = IF i + 1 <= N THEN N - (i + 1) + 1 ELSE 0
        /\ \A j \in 1..(N - (i + 1) + 1) : v[j] = s[(i + 1) + j - 1]
    BY <2>1, <1>1, SubSeqProperties
  <2> HIDE DEF v, N
  <2> QED
    BY <2>2, <1>1
<1>4. RemoveAt(s, i) = u \o v
  BY DEF RemoveAt
<1> HIDE DEF u, v
<1>5. /\ u \o v \in Seq(S)
      /\ Len(u \o v) = Len(u) + Len(v)
      /\ \A j \in 1..(Len(u) + Len(v)) : (u \o v)[j] = IF j <= Len(u) THEN u[j] ELSE v[j - Len(u)]
  BY <1>2, <1>3, ConcatProperties
<1>6. ASSUME NEW j \in 1..(N - 1)
      PROVE  (u \o v)[j] = IF j < i THEN s[j] ELSE s[j + 1]
  <2> HIDE DEF N
  <2>1. Len(u) + Len(v) = N - 1
    BY <1>1, <1>2, <1>3
  <2>2. (u \o v)[j] = IF j <= i - 1 THEN u[j] ELSE v[j - (i - 1)]
    BY <2>1, <1>2, <1>5
  <2>3. CASE j < i
    <3>1. j \in 1..(i - 1)
      BY <2>3, <1>1
    <3> QED
      BY <3>1, <2>2, <2>3, <1>1, <1>2
  <2>4. CASE ~(j < i)
    <3>1. j - (i - 1) \in 1..(N - i) /\ i + (j - (i - 1)) = j + 1
      BY <2>4, <1>1
    <3>2. v[j - (i - 1)] = s[j + 1]
      BY <3>1, <1>3
    <3> QED
      BY <3>2, <2>2, <2>4, <1>1
  <2> QED
    BY <2>3, <2>4
<1>7. Len(u \o v) = N - 1
  <2> HIDE DEF N
  <2> QED
    BY <1>1, <1>2, <1>3, <1>5
<1> QED
  BY <1>4, <1>5, <1>6, <1>7

(* An element that was appended is removed again. *)
LEMMA RemoveLastAppended ==
    ASSUME NEW S, NEW s \in Seq(S), NEW e \in S
    PROVE  RemoveAt(Append(s, e), Len(s) + 1) = s
<1> DEFINE t == Append(s, e)
<1>1. /\ t \in Seq(S) /\ Len(t) = Len(s) + 1 /\ Len(s) \in Nat
      /\ \A j \in 1..Len(s) : t[j] = s[j]
  BY AppendProperties, LenProperties
<1> HIDE DEF t
<1>2. Len(s) + 1 \in DOMAIN t
  BY <1>1
<1>3. /\ RemoveAt(t, Len(s) + 1) \in Seq(S)
      /\ Len(RemoveAt(t, Len(s) + 1)) = Len(s)
      /\ \A j \in 1..Len(s) : RemoveAt(t, Len(s) + 1)[j] = s[j]
  <2>1. /\ RemoveAt(t, Len(s) + 1) \in Seq(S)
        /\ Len(RemoveAt(t, Len(s) + 1)) = Len(t) - 1
        /\ \A j \in 1..(Len(t) - 1) :
              RemoveAt(t, Len(s) + 1)[j] = IF j < Len(s) + 1 THEN t[j] ELSE t[j + 1]
    BY <1>1, <1>2, RemoveAtProperties
  <2>2. Len(t) - 1 = Len(s)
    BY <1>1
  <2>3. \A j \in 1..Len(s) : j < Len(s) + 1
    BY <1>1
  <2> QED
    BY <1>1, <2>1, <2>2, <2>3
<1>4. RemoveAt(t, Len(s) + 1) = s
  BY <1>3, SeqEqual
<1> QED
  BY <1>4 DEF t

(* A concatenation holds what its halves hold. *)
LEMMA ElementsOfConcat ==
    ASSUME NEW S, NEW s \in Seq(S), NEW t \in Seq(S)
    PROVE  ToSet(s \o t) = ToSet(s) \cup ToSet(t)
<1>1. /\ Len(s) \in Nat /\ Len(t) \in Nat
      /\ DOMAIN s = 1..Len(s) /\ DOMAIN t = 1..Len(t)
      /\ DOMAIN (s \o t) = 1..(Len(s) + Len(t))
      /\ \A i \in 1..(Len(s) + Len(t)) :
            (s \o t)[i] = IF i <= Len(s) THEN s[i] ELSE t[i - Len(s)]
  BY ConcatProperties, LenProperties
<1> DEFINE u == s \o t
           M == Len(s)
           N == Len(t)
<1>2. /\ M \in Nat /\ N \in Nat /\ DOMAIN s = 1..M /\ DOMAIN t = 1..N
      /\ DOMAIN u = 1..(M + N)
      /\ \A i \in 1..(M + N) : u[i] = IF i <= M THEN s[i] ELSE t[i - M]
  BY <1>1
<1> HIDE DEF u, M, N
<1>3. ASSUME NEW i \in DOMAIN u
      PROVE  u[i] \in ToSet(s) \cup ToSet(t)
  <2>1. CASE i <= M
    BY <2>1, <1>2 DEF ToSet
  <2>2. CASE ~(i <= M)
    <3>1. i - M \in 1..N
      BY <2>2, <1>2
    <3> QED
      BY <3>1, <2>2, <1>2 DEF ToSet
  <2> QED
    BY <2>1, <2>2
<1>4. ASSUME NEW i \in DOMAIN s
      PROVE  s[i] \in ToSet(u)
  <2>1. i \in 1..(M + N) /\ i <= M
    BY <1>2
  <2> QED
    BY <2>1, <1>2 DEF ToSet
<1>5. ASSUME NEW i \in DOMAIN t
      PROVE  t[i] \in ToSet(u)
  <2>1. M + i \in 1..(M + N) /\ ~(M + i <= M) /\ (M + i) - M = i
    BY <1>2
  <2> QED
    BY <2>1, <1>2 DEF ToSet
<1>6. ToSet(u) = ToSet(s) \cup ToSet(t)
  BY <1>3, <1>4, <1>5 DEF ToSet
<1> QED
  BY <1>6 DEF u

(* A sequence holds as many elements as it is long exactly when it holds none  *)
(* twice.                                                                      *)
LEMMA NoneTwice ==
    ASSUME NEW S, NEW s \in Seq(S)
    PROVE  /\ IsFiniteSet(ToSet(s)) /\ Cardinality(ToSet(s)) \in Nat
           /\ Len(s) = Cardinality(ToSet(s)) <=> IsInjective(s)
<1>1. /\ Len(s) \in Nat /\ DOMAIN s = 1..Len(s) /\ s \in [1..Len(s) -> S]
  BY LenProperties
<1>2. IsFiniteSet(1..Len(s)) /\ Cardinality(1..Len(s)) = Len(s)
  <2>1. /\ IsFiniteSet(1..Len(s))
        /\ Cardinality(1..Len(s)) = IF 1 > Len(s) THEN 0 ELSE Len(s) - 1 + 1
    BY <1>1, FS_Interval
  <2> QED
    BY <2>1, <1>1
<1>3. s \in Surjection(1..Len(s), ToSet(s))
  BY <1>1 DEF Surjection, ToSet
<1>4. /\ IsFiniteSet(ToSet(s))
      /\ Cardinality(ToSet(s)) = Cardinality(1..Len(s)) <=> s \in Injection(1..Len(s), ToSet(s))
  BY <1>2, <1>3, FS_Surjection
<1>5. s \in Injection(1..Len(s), ToSet(s)) <=> IsInjective(s)
  BY <1>1, <1>3 DEF Injection, Surjection, IsInjective
<1> QED
  BY <1>2, <1>4, <1>5, FS_CardinalityType

=============================================================================

---------------------------- MODULE ConvertProofs ----------------------------
(* Lemmas about the operators of the conversion layer that the read and the*)
(* put verbs are built from: the fields of a structure and of its          *)
(* projection, the MATLAB names of a list of fields, the position of an    *)
(* enum's choice.                                                          *)
EXTENDS ConvertPut, FiniteSetTheorems, SequenceTheorems, TLAPS

-----------------------------------------------------------------------------
(* Sets of numbers.                                                        *)

\* A nonempty set of naturals has a least one.
LEMMA LeastExists ==
  ASSUME NEW S \in SUBSET Nat, S # {}
  PROVE  \E k \in S : \A j \in S : k <= j
<1> DEFINE Fam == {1..k : k \in S}
<1>1. IsWellFoundedOn(StrictSubsetOrdering(Nat), FiniteSubsetsOf(Nat))
  BY FS_StrictSubsetOrderingWellFounded
<1>2. Fam \subseteq FiniteSubsetsOf(Nat) /\ Fam # {}
  <2>1. \A k \in S : 1..k \in FiniteSubsetsOf(Nat)
    BY FS_Interval DEF FiniteSubsetsOf
  <2> QED BY <2>1
<1>3. PICK I \in Fam : \A J \in Fam : <<J, I>> \notin StrictSubsetOrdering(Nat)
  <2> HIDE DEF Fam
  <2> QED BY <1>1, <1>2, WFMin
<1>4. PICK k \in S : I = 1..k
  BY <1>3
<1>5. ASSUME NEW j \in S, j < k PROVE FALSE
  <2>1. 1..j \in Fam
    OBVIOUS
  <2>2. 1..j \subseteq 1..k /\ k \in 1..k /\ k \notin 1..j
    BY <1>5
  <2>3. <<1..j, 1..k>> \in StrictSubsetOrdering(Nat)
    BY <2>2 DEF StrictSubsetOrdering
  <2> QED
    BY <1>3, <1>4, <2>1, <2>3
<1> QED
  BY <1>5

\* Min of a nonempty set of naturals is its least element.
LEMMA MinIsLeast ==
  ASSUME NEW S \in SUBSET Nat, S # {}
  PROVE  Min(S) \in S /\ \A k \in S : Min(S) <= k
BY LeastExists DEF Min

\* In a finite set of integers the greater element has the greater rank.
LEMMA RankMonotonic ==
  ASSUME NEW K \in SUBSET Int, IsFiniteSet(K), NEW j \in K, NEW k \in K, j < k
  PROVE  Rank(K, j) < Rank(K, k)
<1> DEFINE J == {i \in K : i <= j}
           L == {i \in K : i <= k}
<1>1. J \subseteq L /\ k \in L /\ k \notin J
  <2>1. j \in Int /\ k \in Int
    OBVIOUS
  <2>2. \A i \in K : i <= j => i <= k
    BY <2>1
  <2>3. ~(k <= j) /\ k <= k
    BY <2>1
  <2> QED
    BY <2>2, <2>3
<1>2. IsFiniteSet(L) /\ IsFiniteSet(J)
  BY FS_Subset
<1>3. Cardinality(J) \in Nat /\ Cardinality(L) \in Nat
  BY <1>2, FS_CardinalityType
<1>4. Cardinality(J) <= Cardinality(L) /\ (Cardinality(L) = Cardinality(J) => L = J)
  <2> HIDE DEF J, L
  <2> QED BY <1>1, <1>2, FS_Subset
<1> QED
  BY <1>1, <1>3, <1>4 DEF Rank

\* The ranks of a finite set count it.
LEMMA RankRange ==
  ASSUME NEW K \in SUBSET Int, IsFiniteSet(K), NEW k \in K
  PROVE  Rank(K, k) \in 1..Cardinality(K)
<1> DEFINE L == {i \in K : i <= k}
<1>1. IsFiniteSet(L) /\ Cardinality(L) <= Cardinality(K)
  BY FS_Subset
<1>2. Cardinality(L) \in Nat /\ Cardinality(K) \in Nat
  BY <1>1, FS_CardinalityType
<1>3. k \in L
  OBVIOUS
<1>4. Cardinality(L) # 0
  <2> HIDE DEF L
  <2> QED BY <1>1, <1>3, FS_EmptySet
<1> QED
  BY <1>1, <1>2, <1>4 DEF Rank

\* Ascending lists a finite set of integers, each once and the least first.
LEMMA AscendingLists ==
  ASSUME NEW K \in SUBSET Int, IsFiniteSet(K)
  PROVE  /\ Cardinality(K) \in Nat
         /\ Ascending(K) \in [1..Cardinality(K) -> K]
         /\ \A k \in K : \E i \in 1..Cardinality(K) : Ascending(K)[i] = k
         /\ \A i, j \in 1..Cardinality(K) : i < j => Ascending(K)[i] < Ascending(K)[j]
<1> DEFINE n == Cardinality(K)
           f == [k \in K |-> Rank(K, k)]
<1>1. n \in Nat /\ IsFiniteSet(1..n) /\ Cardinality(1..n) = n
  BY FS_CardinalityType, FS_Interval
<1>2. \A j, k \in K : Rank(K, j) = Rank(K, k) => j = k
  <2> SUFFICES ASSUME NEW j \in K, NEW k \in K, j # k PROVE Rank(K, j) # Rank(K, k)
    OBVIOUS
  <2>1. Rank(K, j) \in Int /\ Rank(K, k) \in Int
    BY RankRange, <1>1
  <2>2. j < k \/ k < j
    OBVIOUS
  <2> QED
    BY <2>1, <2>2, RankMonotonic
<1>3. f \in Injection(K, 1..n)
  <2>1. f \in [K -> 1..n]
    BY RankRange
  <2> QED
    BY <1>2, <2>1 DEF Injection, IsInjective
<1>4. f \in Surjection(K, 1..n)
  <2> HIDE DEF f
  <2> QED BY <1>1, <1>3, FS_Injection
<1>5. \A i \in 1..n : \E k \in K : Rank(K, k) = i
  BY <1>4 DEF Surjection
<1>6. \A i \in 1..n : Ascending(K)[i] \in K /\ Rank(K, Ascending(K)[i]) = i
  BY <1>5 DEF Ascending
<1>7. Ascending(K) \in [1..n -> K]
  BY <1>6 DEF Ascending
<1>8. \A k \in K : \E i \in 1..n : Ascending(K)[i] = k
  BY <1>2, <1>6, RankRange
<1>9. ASSUME NEW i \in 1..n, NEW j \in 1..n, i < j PROVE Ascending(K)[i] < Ascending(K)[j]
  <2> DEFINE a == Ascending(K)[i]
             b == Ascending(K)[j]
  <2>1. a \in K /\ b \in K /\ Rank(K, a) = i /\ Rank(K, b) = j
    BY <1>6
  <2>2. ~(b < a)
    <3> HIDE DEF a, b
    <3> QED BY <1>9, <1>1, <2>1, RankMonotonic
  <2>3. a # b
    <3> HIDE DEF a, b
    <3> QED BY <1>9, <1>1, <2>1
  <2>4. a \in Int /\ b \in Int
    BY <2>1
  <2> HIDE DEF a, b
  <2>5. a < b
    BY <2>2, <2>3, <2>4
  <2> QED
    BY <2>5 DEF a, b
<1> QED
  BY <1>1, <1>7, <1>8, <1>9

-----------------------------------------------------------------------------
(* Structures.                                                             *)

\* The selected positions are a finite set of numbers.
LEMMA SelectedFinite ==
  ASSUME NEW t, NEW req, IsStructure(t)
  PROVE  /\ Selected(t, req) \in SUBSET Int /\ IsFiniteSet(Selected(t, req))
         /\ Selected(t, req) \subseteq 1..Len(t.names) /\ DOMAIN t.names = 1..Len(t.names)
<1>1. t.names \in Seq(STRING)
  BY DEF IsStructure
<1>2. Len(t.names) \in Nat /\ DOMAIN t.names = 1..Len(t.names)
  BY <1>1
<1>3. Selected(t, req) \subseteq 1..Len(t.names)
  BY <1>2 DEF Selected
<1>4. IsFiniteSet(1..Len(t.names))
  <2> DEFINE n == Len(t.names)
  <2>1. n \in Int
    BY <1>2
  <2> HIDE DEF n
  <2>2. IsFiniteSet(1..n)
    BY <2>1, FS_Interval
  <2> QED BY <2>2 DEF n
<1>5. IsFiniteSet(Selected(t, req))
  BY <1>3, <1>4, FS_Subset
<1> QED
  BY <1>2, <1>3, <1>5

\* A projection is a structure of the selected fields in their order.
LEMMA ProjectShape ==
  ASSUME NEW t, NEW req, IsStructure(t), req # Whole
  PROVE  LET keep == Ascending(Selected(t, req))
         IN  Project(t, req) = Struct(t.id, [i \in DOMAIN keep |-> t.names[keep[i]]],
                                      [i \in DOMAIN keep |-> t.kids[keep[i]]])
BY DEF Project

\* A field of a projection is the field of that name of the whole structure.
LEMMA ProjectField ==
  ASSUME NEW t, NEW req, NEW n, IsStructure(t), IsInjective(t.names)
  PROVE  Field(Project(t, req), n) \in {Null, Field(t, n)}
<1>1. CASE req = Whole
  BY <1>1 DEF Project
<1>2. CASE req # Whole
  <2> DEFINE keep == Ascending(Selected(t, req))
             p == Project(t, req)
  <2>1. /\ DOMAIN keep = 1..Cardinality(Selected(t, req))
        /\ \A i \in DOMAIN keep : keep[i] \in Selected(t, req)
    BY SelectedFinite, AscendingLists
  <2>2. p = Struct(t.id, [i \in DOMAIN keep |-> t.names[keep[i]]],
                   [i \in DOMAIN keep |-> t.kids[keep[i]]])
    BY <1>2, ProjectShape
  <2> HIDE DEF keep, p
  <2>3. /\ p.kind = "struct" /\ DOMAIN p.names = DOMAIN keep
        /\ \A i \in DOMAIN keep : p.names[i] = t.names[keep[i]] /\ p.kids[i] = t.kids[keep[i]]
    BY <2>2 DEF Struct
  <2>4. CASE ~ \E i \in DOMAIN p.names : p.names[i] = n
    <3>1. Field(p, n) = Null
      BY <2>4 DEF Field
    <3> QED BY <3>1 DEF p
  <2>5. CASE \E i \in DOMAIN p.names : p.names[i] = n
    <3> DEFINE c == CHOOSE i \in DOMAIN p.names : p.names[i] = n
               d == CHOOSE i \in DOMAIN t.names : t.names[i] = n
    <3>1. c \in DOMAIN p.names /\ p.names[c] = n
      BY <2>5
    <3>2. Field(p, n) = p.kids[c]
      BY <2>3, <2>5 DEF Field
    <3> HIDE DEF c
    <3>3. keep[c] \in DOMAIN t.names /\ t.names[keep[c]] = n
      BY <2>1, <2>3, <3>1 DEF Selected
    <3>4. d \in DOMAIN t.names /\ t.names[d] = n
      BY <3>3
    <3>5. t.kind = "struct"
      BY DEF IsStructure, Struct
    <3>6. Field(t, n) = t.kids[d]
      BY <3>3, <3>5 DEF Field
    <3> HIDE DEF d
    <3>7. d = keep[c]
      BY <3>3, <3>4 DEF IsInjective
    <3>8. Field(p, n) = Field(t, n)
      BY <2>3, <3>1, <3>2, <3>6, <3>7
    <3> QED BY <3>8 DEF p
  <2> QED
    BY <2>4, <2>5
<1> QED
  BY <1>1, <1>2

-----------------------------------------------------------------------------
(* Field names.                                                            *)

\* Among one more suffixes than there are names seen, one is free.
LEMMA SuffixFree ==
  ASSUME NEW b, NEW S, IsFiniteSet(S),
         \A j, k \in 2..(Cardinality(S) + 2) : Suffixed(b, j) = Suffixed(b, k) => j = k
  PROVE  LET free == {k \in 2..(Cardinality(S) + 2) : Suffixed(b, k) \notin S}
         IN  Min(free) \in free /\ \A k \in free : Min(free) <= k
<1> DEFINE n == Cardinality(S)
           free == {k \in 2..(n + 2) : Suffixed(b, k) \notin S}
           f == [k \in 2..(n + 2) |-> Suffixed(b, k)]
<1>1. n \in Nat
  BY FS_CardinalityType
<1> HIDE DEF n
<1>2. ASSUME free = {} PROVE FALSE
  <2>1. \A k \in 2..(n + 2) : Suffixed(b, k) \in S
    BY <1>2
  <2>2. f \in [2..(n + 2) -> S]
    BY <2>1
  <2>3. f \in Injection(2..(n + 2), S)
    BY <2>2 DEF Injection, IsInjective, n
  <2>4. Cardinality(2..(n + 2)) <= n
    <3> HIDE DEF f
    <3> QED BY <2>3, FS_Injection DEF n
  <2>5. Cardinality(2..(n + 2)) = n + 1
    BY <1>1, FS_Interval
  <2> QED
    BY <1>1, <2>4, <2>5
<1>3. free \in SUBSET Nat
  BY <1>1
<1>4. Min(free) \in free /\ \A k \in free : Min(free) <= k
  <2> HIDE DEF free
  <2> QED BY <1>2, <1>3, MinIsLeast
<1> QED
  BY <1>4 DEF n

\* Unseen gives a name that was not seen.
LEMMA UnseenFresh ==
  ASSUME NEW b, NEW S, IsFiniteSet(S),
         \A j, k \in 2..(Cardinality(S) + 2) : Suffixed(b, j) = Suffixed(b, k) => j = k
  PROVE  Unseen(b, S) \notin S
BY SuffixFree DEF Unseen

\* A name that is new to some of the names seen is seen among all of them, or it
\* is the one that is new to all.
LEMMA UnseenOfMore ==
  ASSUME NEW b, NEW T, IsFiniteSet(T), NEW S \in SUBSET T,
         \A j, k \in 2..(Cardinality(T) + 2) : Suffixed(b, j) = Suffixed(b, k) => j = k
  PROVE  Unseen(b, S) \in T \cup {Unseen(b, T)}
<1> DEFINE freeS == {k \in 2..(Cardinality(S) + 2) : Suffixed(b, k) \notin S}
           freeT == {k \in 2..(Cardinality(T) + 2) : Suffixed(b, k) \notin T}
           s == Min(freeS)
           t == Min(freeT)
<1>1. IsFiniteSet(S) /\ Cardinality(S) <= Cardinality(T)
  BY FS_Subset
<1>2. Cardinality(S) \in Nat /\ Cardinality(T) \in Nat
  BY <1>1, FS_CardinalityType
<1>3. s \in freeS /\ \A k \in freeS : s <= k
  <2>1. \A j \in 2..(Cardinality(S) + 2) : j \in 2..(Cardinality(T) + 2)
    BY <1>1, <1>2
  <2>2. \A j, k \in 2..(Cardinality(S) + 2) : Suffixed(b, j) = Suffixed(b, k) => j = k
    BY <2>1
  <2> QED
    BY <1>1, <2>2, SuffixFree
<1>4. t \in freeT /\ \A k \in freeT : t <= k
  BY SuffixFree
<1>5. CASE b \notin S
  BY <1>5 DEF Unseen
<1>6. CASE b \in S
  <2>1. Unseen(b, S) = Suffixed(b, s) /\ Unseen(b, T) = Suffixed(b, t)
    BY <1>6 DEF Unseen
  <2>2. s \in Nat /\ t \in Nat
    BY <1>2, <1>3, <1>4
  <2>3. CASE Suffixed(b, s) \notin T
    <3>1. s \in freeT
      BY <1>1, <1>2, <1>3, <2>3
    <3>2. t <= s
      BY <1>4, <3>1
    <3>3. t \in freeS
      BY <1>1, <1>2, <1>3, <1>4, <3>2
    <3>4. s = t
      BY <1>3, <2>2, <3>2, <3>3
    <3> QED
      BY <2>1, <3>4
  <2> QED
    BY <2>1, <2>3
<1> QED
  BY <1>5, <1>6

\* upto[n] lists the MATLAB names of the first n names.
NamesUpTo(names, upto) ==
  upto = [n \in 0..Len(names) |->
            IF n = 0 THEN <<>>
            ELSE LET out == upto[n - 1]
                 IN  Append(out, Unseen(mxFieldName(names[n]), ToSet(out)))]

\* The recursion of legalFieldNames has a solution.
LEMMA PrefixesExist ==
  ASSUME NEW names, Len(names) \in Nat
  PROVE  \E upto : NamesUpTo(names, upto)
<1> DEFINE N == Len(names)
           Ext(out, n) == Append(out, Unseen(mxFieldName(names[n]), ToSet(out)))
           Solves(u, m) == u = [n \in 0..m |-> IF n = 0 THEN <<>> ELSE Ext(u[n - 1], n)]
           Bad == {m \in 0..N : ~ \E u : Solves(u, m)}
<1>1. ASSUME Bad # {} PROVE FALSE
  <2>1. Bad \in SUBSET Nat
    OBVIOUS
  <2>2. PICK m \in Bad : \A j \in Bad : m <= j
    <3> HIDE DEF Bad
    <3> QED BY <1>1, <2>1, LeastExists
  <2>3. m # 0
    <3> DEFINE z == [n \in 0..0 |-> <<>>]
    <3>1. z = [n \in 0..0 |-> IF n = 0 THEN <<>> ELSE Ext(z[n - 1], n)]
      <4> HIDE DEF Ext
      <4> QED OBVIOUS
    <3>2. Solves(z, 0)
      BY <3>1
    <3> QED
      BY <3>2
  <2>4. m \in 0..N /\ m \in Nat /\ N \in Nat
    OBVIOUS
  <2>5. m - 1 \in 0..N /\ m - 1 \notin Bad
    <3> HIDE DEF Bad
    <3> QED BY <2>2, <2>3, <2>4
  <2>6. PICK u : Solves(u, m - 1)
    BY <2>5
  <2> DEFINE v == [n \in 0..m |-> IF n = m THEN Ext(u[m - 1], m) ELSE u[n]]
  <2> HIDE DEF Ext, Bad
  <2>7. \A n \in 0..(m - 1) : u[n] = IF n = 0 THEN <<>> ELSE Ext(u[n - 1], n)
    BY <2>6
  <2>8. \A n \in 0..m : v[n] = IF n = 0 THEN <<>> ELSE Ext(v[n - 1], n)
    <3>1. ASSUME NEW n \in 0..m, n = m PROVE v[n] = Ext(v[n - 1], n)
      BY <3>1, <2>3, <2>4
    <3>2. ASSUME NEW n \in 0..m, n # m PROVE v[n] = IF n = 0 THEN <<>> ELSE Ext(v[n - 1], n)
      <4>1. n \in 0..(m - 1) /\ (n # 0 => n - 1 \in 0..m /\ n - 1 # m)
        BY <3>2, <2>4
      <4>2. v[n] = u[n] /\ (n # 0 => v[n - 1] = u[n - 1])
        BY <3>2, <4>1
      <4> QED
        BY <2>7, <4>1, <4>2
    <3> QED
      BY <3>1, <3>2, <2>3
  <2>9. v = [n \in 0..m |-> IF n = 0 THEN <<>> ELSE Ext(v[n - 1], n)]
    <3>1. v = [n \in 0..m |-> v[n]]
      OBVIOUS
    <3> HIDE DEF v
    <3> QED BY <2>8, <3>1
  <2>10. Solves(v, m)
    BY <2>9
  <2> QED
    BY <2>2, <2>10 DEF Bad
<1>2. N \notin Bad
  BY <1>1
<1>3. PICK u : Solves(u, N)
  BY <1>2
<1>4. NamesUpTo(names, u)
  BY <1>3 DEF NamesUpTo
<1> QED
  BY <1>4

\* So its result is the last of such prefixes.
LEMMA LegalNamesUpTo ==
  ASSUME NEW names, Len(names) \in Nat
  PROVE  \E upto : NamesUpTo(names, upto) /\ legalFieldNames(names) = upto[Len(names)]
<1> DEFINE u == CHOOSE upto : NamesUpTo(names, upto)
<1>1. NamesUpTo(names, u)
  BY PrefixesExist
<1>2. legalFieldNames(names) = u[Len(names)]
  BY DEF legalFieldNames, NamesUpTo
<1> QED
  BY <1>1, <1>2

\* A list is a sequence of whatever it holds.
IsList(s) == \E V : s \in Seq(V)

\* What Append does to a list of anything.
LEMMA AppendToList ==
  ASSUME NEW s, IsList(s), NEW x
  PROVE  /\ IsList(Append(s, x)) /\ IsList(s)
         /\ Len(s) \in Nat /\ Len(Append(s, x)) = Len(s) + 1
         /\ DOMAIN s = 1..Len(s) /\ DOMAIN Append(s, x) = 1..(Len(s) + 1)
         /\ \A i \in 1..Len(s) : Append(s, x)[i] = s[i]
         /\ Append(s, x)[Len(s) + 1] = x
         /\ ToSet(Append(s, x)) = ToSet(s) \cup {x}
<1>1. PICK V : s \in Seq(V)
  BY DEF IsList
<1> DEFINE W == V \cup {x}
           t == Append(s, x)
<1>2. s \in Seq(W) /\ x \in W
  BY <1>1
<1>3. t \in Seq(W) /\ Len(t) = Len(s) + 1 /\ Len(s) \in Nat
  BY <1>2
<1>4. (\A i \in 1..Len(s) : t[i] = s[i]) /\ t[Len(s) + 1] = x
  BY <1>2
<1>5. DOMAIN s = 1..Len(s) /\ DOMAIN t = 1..(Len(s) + 1)
  BY <1>2, <1>3
<1>6. IsList(t)
  BY <1>3 DEF IsList
<1> HIDE DEF t, W
<1>7. ToSet(t) = ToSet(s) \cup {x}
  <2>1. ASSUME NEW y \in ToSet(t) PROVE y \in ToSet(s) \cup {x}
    <3>1. PICK i \in 1..(Len(s) + 1) : y = t[i]
      BY <2>1, <1>5 DEF ToSet
    <3>2. i \in 1..Len(s) \/ i = Len(s) + 1
      BY <1>3
    <3> QED
      BY <1>4, <1>5, <3>1, <3>2 DEF ToSet
  <2>2. ASSUME NEW y \in ToSet(s) PROVE y \in ToSet(t)
    <3>1. PICK i \in 1..Len(s) : y = s[i]
      BY <2>2, <1>5 DEF ToSet
    <3>2. i \in 1..(Len(s) + 1) /\ t[i] = y
      BY <1>3, <1>4, <3>1
    <3> QED
      BY <1>5, <3>2 DEF ToSet
  <2>3. x \in ToSet(t)
    <3>1. Len(s) + 1 \in 1..(Len(s) + 1)
      BY <1>3
    <3> QED
      BY <1>4, <1>5, <3>1 DEF ToSet
  <2> QED
    BY <2>1, <2>2, <2>3
<1> QED
  BY <1>3, <1>4, <1>5, <1>6, <1>7 DEF t

\* The prefixes are lists, each one name longer.
LEMMA PrefixesGrow ==
  ASSUME NEW names, Len(names) \in Nat, NEW upto, NamesUpTo(names, upto)
  PROVE  /\ upto[0] = <<>>
         /\ \A n \in 1..Len(names) :
              LET new == Unseen(mxFieldName(names[n]), ToSet(upto[n - 1]))
              IN  upto[n] = Append(upto[n - 1], new)
         /\ \A n \in 0..Len(names) : IsList(upto[n]) /\ Len(upto[n]) = n
<1>1. upto[0] = <<>>
  BY DEF NamesUpTo
<1>2. ASSUME NEW n \in 1..Len(names)
      PROVE  upto[n] = Append(upto[n - 1], Unseen(mxFieldName(names[n]), ToSet(upto[n - 1])))
  <2>1. n \in 0..Len(names) /\ n # 0
    OBVIOUS
  <2> QED
    BY <2>1 DEF NamesUpTo
<1> DEFINE Bad == {n \in 0..Len(names) : ~(IsList(upto[n]) /\ Len(upto[n]) = n)}
<1>3. ASSUME Bad # {} PROVE FALSE
  <2>1. Bad \in SUBSET Nat
    OBVIOUS
  <2>2. PICK n \in Bad : \A j \in Bad : n <= j
    <3> HIDE DEF Bad
    <3> QED BY <1>3, <2>1, LeastExists
  <2>3. n \in 0..Len(names) /\ ~(IsList(upto[n]) /\ Len(upto[n]) = n)
    OBVIOUS
  <2>4. n # 0
    <3>1. <<>> \in Seq({}) /\ Len(<<>>) = 0
      OBVIOUS
    <3> QED
      BY <1>1, <2>3, <3>1 DEF IsList
  <2>5. n \in 1..Len(names) /\ n - 1 \in 0..Len(names) /\ ~(n <= n - 1)
    BY <2>3, <2>4
  <2>6. n - 1 \notin Bad
    <3> HIDE DEF Bad
    <3> QED BY <2>2, <2>5
  <2>7. IsList(upto[n - 1]) /\ Len(upto[n - 1]) = n - 1
    BY <2>5, <2>6
  <2>8. IsList(upto[n]) /\ Len(upto[n]) = n - 1 + 1
    <3>1. PICK x : upto[n] = Append(upto[n - 1], x)
      BY <1>2, <2>5
    <3>2. IsList(Append(upto[n - 1], x)) /\ Len(Append(upto[n - 1], x)) = Len(upto[n - 1]) + 1
      BY <2>7, AppendToList
    <3> QED
      BY <2>7, <3>1, <3>2
  <2> QED
    BY <2>3, <2>8
<1>4. \A n \in 0..Len(names) : IsList(upto[n]) /\ Len(upto[n]) = n
  BY <1>3
<1> QED
  BY <1>1, <1>2, <1>4

\* A list holds no more values than its length.
LEMMA ListSet ==
  ASSUME NEW s, IsList(s)
  PROVE  IsFiniteSet(ToSet(s)) /\ Cardinality(ToSet(s)) \in Nat /\ Cardinality(ToSet(s)) <= Len(s)
<1>1. Len(s) \in Nat /\ DOMAIN s = 1..Len(s) /\ s = [i \in 1..Len(s) |-> s[i]]
  BY DEF IsList
<1>2. s \in Surjection(1..Len(s), ToSet(s))
  BY <1>1 DEF Surjection, ToSet
<1>3. IsFiniteSet(1..Len(s)) /\ Cardinality(1..Len(s)) = Len(s)
  <2> DEFINE n == Len(s)
  <2>1. n \in Nat
    BY <1>1
  <2> HIDE DEF n
  <2>2. IsFiniteSet(1..n) /\ Cardinality(1..n) = n
    BY <2>1, FS_Interval
  <2> QED BY <2>2 DEF n
<1>4. IsFiniteSet(ToSet(s)) /\ Cardinality(ToSet(s)) <= Len(s)
  BY <1>2, <1>3, FS_Surjection
<1> QED
  BY <1>4, FS_CardinalityType

\* A step of the recursion: what is seen before it, and what it adds.
LEMMA PrefixStep ==
  ASSUME NEW names, Len(names) \in Nat, NEW upto, NamesUpTo(names, upto), NEW n \in 1..Len(names)
  PROVE  /\ IsFiniteSet(ToSet(upto[n - 1])) /\ Cardinality(ToSet(upto[n - 1])) \in Nat
         /\ Cardinality(ToSet(upto[n - 1])) <= n - 1
         /\ \A y : y \in ToSet(upto[n]) <=>
                    \/ y \in ToSet(upto[n - 1])
                    \/ y = Unseen(mxFieldName(names[n]), ToSet(upto[n - 1]))
<1>1. n - 1 \in 0..Len(names)
  OBVIOUS
<1>2. IsList(upto[n - 1]) /\ Len(upto[n - 1]) = n - 1
  BY <1>1, PrefixesGrow
<1> DEFINE x == Unseen(mxFieldName(names[n]), ToSet(upto[n - 1]))
<1>3. upto[n] = Append(upto[n - 1], x)
  BY PrefixesGrow
<1> HIDE DEF x
<1>4. ToSet(upto[n]) = ToSet(upto[n - 1]) \cup {x}
  BY <1>2, <1>3, AppendToList
<1> QED
  BY <1>2, <1>4, ListSet DEF x

\* What is seen stays seen.
LEMMA PrefixesSeen ==
  ASSUME NEW names, Len(names) \in Nat, NEW upto, NamesUpTo(names, upto),
         NEW m \in 0..Len(names), NEW n \in 0..Len(names), m <= n
  PROVE  ToSet(upto[m]) \subseteq ToSet(upto[n])
<1> DEFINE Bad == {k \in m..Len(names) : ~(ToSet(upto[m]) \subseteq ToSet(upto[k]))}
<1>1. ASSUME Bad # {} PROVE FALSE
  <2>1. Bad \in SUBSET Nat
    OBVIOUS
  <2>2. PICK k \in Bad : \A j \in Bad : k <= j
    <3> HIDE DEF Bad
    <3> QED BY <1>1, <2>1, LeastExists
  <2>3. k \in m..Len(names) /\ ~(ToSet(upto[m]) \subseteq ToSet(upto[k]))
    OBVIOUS
  <2>4. k # m
    BY <2>3
  <2>5. k \in 1..Len(names) /\ k - 1 \in m..Len(names) /\ ~(k <= k - 1)
    BY <2>3, <2>4
  <2>6. k - 1 \notin Bad
    <3> HIDE DEF Bad
    <3> QED BY <2>2, <2>5
  <2>7. ToSet(upto[m]) \subseteq ToSet(upto[k - 1])
    BY <2>5, <2>6
  <2> HIDE DEF Bad
  <2>8. ToSet(upto[k - 1]) \subseteq ToSet(upto[k])
    BY <2>5, PrefixStep
  <2> QED
    BY <2>3, <2>7, <2>8
<1>2. n \in m..Len(names)
  OBVIOUS
<1> QED
  BY <1>1, <1>2

\* The MATLAB names of some of the fields are among the names of all of them:
\* a name that is made distinct without the others is also given with them.
LEMMA SelectedNames ==
  ASSUME NEW names, Len(names) \in Nat, DOMAIN names = 1..Len(names), DistinctSuffixes(names),
         NEW m \in Nat, NEW keep \in [1..m -> 1..Len(names)],
         \A i, j \in 1..m : i < j => keep[i] < keep[j],
         NEW some, Len(some) = m, \A i \in 1..m : some[i] = names[keep[i]]
  PROVE  ToSet(legalFieldNames(some)) \subseteq ToSet(legalFieldNames(names))
<1> DEFINE N == Len(names)
           at == [i \in 0..m |-> IF i = 0 THEN 0 ELSE keep[i]]
<1>1. Len(some) = m /\ \A i \in 1..m : some[i] = names[keep[i]]
  OBVIOUS
<1>2. PICK all : NamesUpTo(names, all) /\ legalFieldNames(names) = all[N]
  BY LegalNamesUpTo
<1>3. PICK few : NamesUpTo(some, few) /\ legalFieldNames(some) = few[m]
  BY <1>1, LegalNamesUpTo
<1>4. /\ \A i \in 0..m : at[i] \in 0..N
      /\ \A i \in 1..m : at[i] \in 1..N /\ at[i] = keep[i] /\ at[i - 1] <= at[i] - 1
  <2>1. ASSUME NEW i \in 1..m
        PROVE  at[i] \in 1..N /\ at[i] = keep[i] /\ at[i - 1] <= at[i] - 1
    <3>1. at[i] = keep[i] /\ keep[i] \in 1..N
      OBVIOUS
    <3>2. CASE i = 1
      <4>1. at[i - 1] = 0
        BY <3>2
      <4> QED BY <3>1, <4>1
    <3>3. CASE i # 1
      <4>1. i - 1 \in 1..m /\ i - 1 < i
        BY <3>3
      <4>2. at[i - 1] = keep[i - 1] /\ keep[i - 1] \in 1..N /\ keep[i - 1] < keep[i]
        BY <4>1
      <4> QED BY <3>1, <4>2
    <3> QED BY <3>2, <3>3
  <2>2. at[0] = 0 /\ 0 \in 0..N
    OBVIOUS
  <2> HIDE DEF at
  <2> QED BY <2>1, <2>2
<1> HIDE DEF at
<1> DEFINE Bad == {i \in 0..m : ~(ToSet(few[i]) \subseteq ToSet(all[at[i]]))}
<1>5. ASSUME Bad # {} PROVE FALSE
  <2>1. Bad \in SUBSET Nat
    OBVIOUS
  <2>2. PICK i \in Bad : \A j \in Bad : i <= j
    <3> HIDE DEF Bad
    <3> QED BY <1>5, <2>1, LeastExists
  <2>3. i \in 0..m /\ ~(ToSet(few[i]) \subseteq ToSet(all[at[i]]))
    OBVIOUS
  <2>4. i # 0
    <3>1. few[0] = <<>>
      BY <1>1, <1>3, PrefixesGrow
    <3>2. ToSet(<<>>) = {}
      BY DEF ToSet
    <3> QED BY <2>3, <3>1, <3>2
  <2>5. i \in 1..m /\ i - 1 \in 0..m /\ ~(i <= i - 1)
    BY <2>3, <2>4
  <2>6. i - 1 \notin Bad
    <3> HIDE DEF Bad
    <3> QED BY <2>2, <2>5
  <2> DEFINE a == at[i]
             b == mxFieldName(names[a])
             S == ToSet(few[i - 1])
             T == ToSet(all[a - 1])
  <2>7. a \in 1..N /\ at[i - 1] <= a - 1 /\ at[i - 1] \in 0..N /\ a - 1 \in 0..N
    BY <1>4, <2>5
  <2>8. S \subseteq T
    <3>1. S \subseteq ToSet(all[at[i - 1]])
      BY <2>5, <2>6
    <3> DEFINE c == at[i - 1]
               d == a - 1
    <3>2. c \in 0..Len(names) /\ d \in 0..Len(names) /\ c <= d
      BY <2>7
    <3> HIDE DEF c, d
    <3>3. ToSet(all[c]) \subseteq ToSet(all[d])
      BY <1>2, <3>2, PrefixesSeen
    <3> QED BY <3>1, <3>3 DEF c, d
  <2> HIDE DEF a, Bad
  <2>9. /\ IsFiniteSet(T) /\ Cardinality(T) \in Nat /\ Cardinality(T) <= N
        /\ \A y : y \in ToSet(all[a]) <=> y \in T \/ y = Unseen(b, T)
    <3>1. /\ IsFiniteSet(T) /\ Cardinality(T) \in Nat /\ Cardinality(T) <= a - 1
          /\ \A y : y \in ToSet(all[a]) <=> y \in T \/ y = Unseen(b, T)
      BY <1>2, <2>7, PrefixStep
    <3> HIDE DEF T, b
    <3>2. Cardinality(T) <= N
      BY <2>7, <3>1
    <3> QED BY <3>1, <3>2
  <2>10. \A y : y \in ToSet(few[i]) <=> y \in S \/ y = Unseen(b, S)
    <3>1. some[i] = names[a]
      BY <1>1, <1>4, <2>5 DEF a
    <3>2. i \in 1..Len(some) /\ Len(some) \in Nat
      BY <1>1, <2>5
    <3>3. \A y : y \in ToSet(few[i]) <=>
                  \/ y \in ToSet(few[i - 1])
                  \/ y = Unseen(mxFieldName(some[i]), ToSet(few[i - 1]))
      BY <1>3, <3>2, PrefixStep
    <3> QED BY <3>1, <3>3
  <2> HIDE DEF S, T, b
  <2>11. \A j, k \in 2..(Cardinality(T) + 2) : Suffixed(b, j) = Suffixed(b, k) => j = k
    <3>1. \A j \in 2..(Cardinality(T) + 2) : j \in 2..(N + 2)
      BY <2>9
    <3> QED BY <2>7, <3>1 DEF DistinctSuffixes, b
  <2>12. Unseen(b, S) \in T \cup {Unseen(b, T)}
    BY <2>8, <2>9, <2>11, UnseenOfMore
  <2>13. ToSet(few[i]) \subseteq ToSet(all[a])
    BY <2>8, <2>9, <2>10, <2>12
  <2> QED
    BY <2>3, <2>13 DEF a
<1>6. ToSet(few[m]) \subseteq ToSet(all[at[m]])
  <2>1. m \in 0..m
    OBVIOUS
  <2> QED BY <1>5, <2>1
<1>7. ToSet(all[at[m]]) \subseteq ToSet(all[N])
  <2>1. at[m] \in 0..N /\ at[m] <= N /\ N \in 0..N
    BY <1>4
  <2> QED BY <1>2, <2>1, PrefixesSeen
<1> QED
  BY <1>2, <1>3, <1>6, <1>7

\* The names legalFieldNames gives (pvaConvert_pvxs.cpp:51-70) are one for each
\* field and no two of them the same, whatever sanitising and cutting did to the
\* names of the fields: a MATLAB struct can be made of them.
THEOREM NamesDistinct ==
  ASSUME NEW names, Len(names) \in Nat, DOMAIN names = 1..Len(names), DistinctSuffixes(names)
  PROVE  Len(legalFieldNames(names)) = Len(names) /\ IsInjective(legalFieldNames(names))
<1> DEFINE N == Len(names)
<1>1. PICK upto : NamesUpTo(names, upto) /\ legalFieldNames(names) = upto[N]
  BY LegalNamesUpTo
<1> DEFINE Bad == {n \in 0..N : ~IsInjective(upto[n])}
<1>2. ASSUME Bad # {} PROVE FALSE
  <2>1. Bad \in SUBSET Nat
    OBVIOUS
  <2>2. PICK n \in Bad : \A j \in Bad : n <= j
    <3> HIDE DEF Bad
    <3> QED BY <1>2, <2>1, LeastExists
  <2>3. n \in 0..N /\ ~IsInjective(upto[n])
    OBVIOUS
  <2>4. n # 0
    <3>1. upto[0] = <<>>
      BY <1>1, PrefixesGrow
    <3> QED BY <2>3, <3>1 DEF IsInjective
  <2>5. n \in 1..N /\ n - 1 \in 0..N /\ ~(n <= n - 1)
    BY <2>3, <2>4
  <2>6. n - 1 \notin Bad
    <3> HIDE DEF Bad
    <3> QED BY <2>2, <2>5
  <2> DEFINE s == upto[n - 1]
             b == mxFieldName(names[n])
             x == Unseen(b, ToSet(s))
  <2>7. IsInjective(s) /\ IsList(s) /\ Len(s) = n - 1 /\ upto[n] = Append(s, x)
    BY <1>1, <2>5, <2>6, PrefixesGrow
  <2>8. IsFiniteSet(ToSet(s)) /\ Cardinality(ToSet(s)) \in Nat /\ Cardinality(ToSet(s)) <= n - 1
    BY <1>1, <2>5, PrefixStep
  <2> HIDE DEF s, Bad
  <2>9. \A j, k \in 2..(Cardinality(ToSet(s)) + 2) : Suffixed(b, j) = Suffixed(b, k) => j = k
    <3>1. \A j \in 2..(Cardinality(ToSet(s)) + 2) : j \in 2..(N + 2)
      BY <2>5, <2>8
    <3> QED BY <2>5, <3>1 DEF DistinctSuffixes
  <2> HIDE DEF b
  <2>10. x \notin ToSet(s)
    BY <2>8, <2>9, UnseenFresh
  <2> HIDE DEF x
  <2> DEFINE t == Append(s, x)
  <2>11. /\ DOMAIN s = 1..(n - 1) /\ DOMAIN t = 1..(n - 1 + 1)
         /\ \A i \in 1..(n - 1) : t[i] = s[i]
         /\ t[n - 1 + 1] = x
    BY <2>7, AppendToList
  <2> HIDE DEF t
  <2>12. \A i \in 1..(n - 1) : t[i] # t[n]
    BY <2>5, <2>10, <2>11 DEF ToSet
  <2>13. \A i, j \in 1..(n - 1) : t[i] = t[j] => i = j
    BY <2>7, <2>11 DEF IsInjective
  <2>14. DOMAIN t = 1..n /\ \A i \in 1..n : i \in 1..(n - 1) \/ i = n
    BY <2>5, <2>11
  <2>15. IsInjective(t)
    BY <2>12, <2>13, <2>14 DEF IsInjective
  <2> QED
    BY <2>3, <2>7, <2>15 DEF t
<1>3. N \in 0..N
  OBVIOUS
<1>4. IsInjective(upto[N]) /\ Len(upto[N]) = N
  BY <1>1, <1>2, <1>3, PrefixesGrow
<1> QED
  BY <1>1, <1>4

-----------------------------------------------------------------------------
(* The index an enum put sends.                                            *)

\* choiceIndex finds the string among the choices, or says that it is none.
LEMMA ChoiceFound ==
  ASSUME NEW choices \in Seq(STRING), NEW want, choiceIndex(choices, want) # -1
  PROVE  /\ choiceIndex(choices, want) \in 0..(Len(choices) - 1)
         /\ choices[choiceIndex(choices, want) + 1] = want
<1> DEFINE at == {k \in DOMAIN choices : choices[k] = want}
<1>1. at \in SUBSET Nat /\ at # {} /\ choiceIndex(choices, want) = Min(at) - 1
  BY DEF choiceIndex
<1>2. \A k \in at : k \in 1..Len(choices) /\ choices[k] = want
  OBVIOUS
<1> HIDE DEF at
<1>3. Min(at) \in at
  BY <1>1, MinIsLeast
<1>4. Min(at) \in 1..Len(choices) /\ Min(at) - 1 + 1 = Min(at) /\ Len(choices) \in Nat
  BY <1>2, <1>3
<1> QED
  BY <1>1, <1>2, <1>3, <1>4

\* An empty clone has the structure's fields, with nothing in them.
LEMMA CloneFields ==
  ASSUME NEW id, NEW names, NEW kids, DOMAIN kids = DOMAIN names
  PROVE  cloneEmpty(Struct(id, names, kids)) = Struct(id, names, [i \in DOMAIN names |-> Unmarked])
BY DEF cloneEmpty, Struct

\* A field that is set is the field of that name.
LEMMA FieldSet ==
  ASSUME NEW id, NEW names, NEW kids, DOMAIN kids = DOMAIN names, NEW name, NEW new,
         \E i \in DOMAIN names : names[i] = name
  PROVE  Field(SetField(Struct(id, names, kids), name, new), name) = new
<1> DEFINE k == [i \in DOMAIN names |-> IF names[i] = name THEN new ELSE kids[i]]
           j == CHOOSE i \in DOMAIN names : names[i] = name
<1>1. j \in DOMAIN names /\ names[j] = name
  OBVIOUS
<1>2. SetField(Struct(id, names, kids), name, new) = Struct(id, names, k)
  BY DEF SetField, Struct
<1>3. k[j] = new
  BY <1>1
<1> HIDE DEF k
<1>4. Field(Struct(id, names, k), name) = k[j]
  BY <1>1 DEF Field, Struct
<1> QED
  BY <1>2, <1>3, <1>4

\* A structure that has a field of a name.
LEMMA HasField ==
  ASSUME NEW t, NEW name, IsStructure(t), ~IsNull(Field(t, name))
  PROVE  \E i \in DOMAIN t.names : t.names[i] = name
BY DEF Field, IsNull, Null

\* The choices of an enum.
LEMMA EnumTexts ==
  ASSUME NEW x, NEW texts, NEW value,
         value = Struct("enum_t", <<"index", "choices">>, <<x, StrA(texts)>>)
  PROVE  EnumChoices(value) = texts
<1>1. Field(value, "choices") = StrA(texts)
  <2> DEFINE names == <<"index", "choices">>
  <2>1. \A j \in DOMAIN names : names[j] = "choices" <=> j = 2
    OBVIOUS
  <2>2. 2 \in DOMAIN names /\ value.kind = "struct" /\ value.names = names
        /\ value.kids = <<x, StrA(texts)>>
    BY DEF Struct
  <2> HIDE DEF names
  <2> DEFINE k == CHOOSE j \in DOMAIN names : names[j] = "choices"
  <2>3. k = 2
    BY <2>1, <2>2
  <2>4. Field(value, "choices") = value.kids[k]
    BY <2>1, <2>2 DEF Field
  <2> HIDE DEF k
  <2>5. value.kids[2] = StrA(texts)
    BY <2>2
  <2> QED BY <2>3, <2>4, <2>5
<1> QED
  BY <1>1 DEF EnumChoices, StrA, IsNull

\* The argument of a put that gives an enum channel a string carries the index of
\* that string among the choices it was converted against.
LEMMA EnumArgument ==
  ASSUME NEW t, IsStructure(t), NEW x, NEW texts \in Seq(STRING),
         Field(t, "value") = Struct("enum_t", <<"index", "choices">>, <<x, StrA(texts)>>),
         NEW mx, mx.class = "char", mxToPutArg(mx, t).err = PVA_OK
  PROVE  LET index == EnumIndex(Field(mxToPutArg(mx, t).pv, "value"))
         IN  index \in 0..(Len(texts) - 1) /\ texts[index + 1] = getStdString(mx)
<1> DEFINE value == Field(t, "value")
           i == choiceIndex(texts, getStdString(mx))
           marked == IndexSet(cloneEmpty(value), i)
<1>1. /\ value.kind = "struct" /\ IsEnum(value) /\ ~IsNull(value)
      /\ value = Struct("enum_t", <<"index", "choices">>, <<x, StrA(texts)>>)
  BY DEF Struct, IsEnum, IsNull
<1>2. EnumChoices(value) = texts
  BY <1>1, EnumTexts
<1> HIDE DEF value
<1>3. mxToPutArg(mx, t) = Marking(t, "value", IndexMarked(value, enumIndexFor(mx, texts)))
  BY <1>1, <1>2 DEF mxToPutArg, Unwritable, PutField, value
<1>4. enumIndexFor(mx, texts) = IF i = -1 THEN Refuse("PVA_TYPEMISMATCH", Null) ELSE Done(i)
  BY DEF enumIndexFor, isNumericOrLogical
<1>5. i # -1
  BY <1>3, <1>4 DEF Marking, IndexMarked, Refuse, PVA_OK
<1>6. mxToPutArg(mx, t).pv = SetField(cloneEmpty(t), "value", marked)
  BY <1>3, <1>4, <1>5 DEF Marking, IndexMarked, Done
<1>7. i \in 0..(Len(texts) - 1) /\ texts[i + 1] = getStdString(mx)
  BY <1>5, ChoiceFound
<1> HIDE DEF i
<1>8. Field(SetField(cloneEmpty(t), "value", marked), "value") = marked
  <2> HIDE DEF marked
  <2>1. t = Struct(t.id, t.names, t.kids) /\ DOMAIN t.kids = DOMAIN t.names
    BY DEF IsStructure
  <2>2. \E j \in DOMAIN t.names : t.names[j] = "value"
    BY <1>1, HasField DEF value
  <2>3. cloneEmpty(t) = Struct(t.id, t.names, [j \in DOMAIN t.names |-> Unmarked])
    BY <2>1, CloneFields
  <2> QED BY <2>2, <2>3, FieldSet
<1>9. EnumIndex(marked) = i
  <2> DEFINE names == <<"index", "choices">>
  <2>1. cloneEmpty(value) = Struct("enum_t", names, [j \in DOMAIN names |-> Unmarked])
    BY <1>1, CloneFields
  <2>2. \E j \in DOMAIN names : names[j] = "index"
    <3>1. 1 \in DOMAIN names /\ names[1] = "index"
      OBVIOUS
    <3> QED BY <3>1
  <2> HIDE DEF names
  <2>3. Field(SetField(cloneEmpty(value), "index", Num("int", 2 * i)), "index") = Num("int", 2 * i)
    BY <2>1, <2>2, FieldSet
  <2>4. Field(marked, "index") = Num("int", 2 * i)
    BY <2>3 DEF IndexSet
  <2> HIDE DEF marked
  <2>5. EnumIndex(marked) = (2 * i) \div 2
    BY <2>4 DEF EnumIndex, Num, IsNull
  <2>6. (2 * i) \div 2 = i
    BY <1>7
  <2> QED BY <2>5, <2>6
<1> QED
  BY <1>6, <1>7, <1>8, <1>9

\* A struct is no value for an enum.
LEMMA StructNoEnum ==
  ASSUME NEW t, NEW mx, IsEnum(Field(t, "value")), mx.class = "struct"
  PROVE  mxToPutArg(mx, t).err # PVA_OK
<1> DEFINE value == Field(t, "value")
<1>1. IsEnum(value) /\ ~IsNull(value)
  BY DEF IsEnum, IsNull
<1>2. enumIndexFor(mx, EnumChoices(value)) = Refuse("PVA_TYPEMISMATCH", Null)
  <2> HIDE DEF value
  <2> QED BY DEF enumIndexFor, isNumericOrLogical
<1>3. mxToPutArg(mx, t) = Marking(t, "value", IndexMarked(value, Refuse("PVA_TYPEMISMATCH", Null)))
  <2> HIDE DEF value
  <2> QED BY <1>1, <1>2 DEF mxToPutArg, Unwritable, PutField, value
<1> HIDE DEF value
<1> QED
  BY <1>3 DEF Marking, IndexMarked, Refuse, PVA_OK
=============================================================================

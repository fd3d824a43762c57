------------------------------ MODULE ListLemmas ------------------------------
(***************************************************************************)
(* Recursion over sequences: what FlattenSeq computes, and the list        *)
(* algorithms of the onboarding controller, for lists of any length (how   *)
(* often each service occurs in the list they return).  The functions they *)
(* are defined by recurse over the naturals; the induction rests on the    *)
(* least element of a set of numbers.                                      *)
(***************************************************************************)
EXTENDS ServiceLists, TLAPS, FiniteSetTheorems, SequenceTheorems, WellFoundedInduction

(***************************************************************************)
(* Induction and recursion over the naturals.                              *)
(***************************************************************************)
LEMMA LeastNumber ==
  ASSUME NEW T, T \subseteq Nat, T # {}
  PROVE  \E m \in T : \A n \in T : m <= n
<1>1. PICK m \in T : \A n \in T : ~ (<<n, m>> \in OpToRel(<, Nat))
  BY NatLessThanWellFounded, WFMin
<1>2. \A n \in T : m \in Nat /\ n \in Nat /\ ~(n < m)
  BY <1>1 DEF OpToRel
<1>3. \A n \in T : m <= n
  BY <1>2
<1>4. QED BY <1>3

\* A set that holds 0 and with every number below N its successor.
LEMMA StepByStep ==
  ASSUME NEW N \in Nat, NEW T, 0 \in T, \A n \in 1..N : n - 1 \in T => n \in T
  PROVE  0..N \subseteq T
<1> SUFFICES ASSUME 0..N \ T # {} PROVE FALSE
  OBVIOUS
<1>1. PICK m \in 0..N \ T : \A n \in 0..N \ T : m <= n
  <2>1. 0..N \ T \subseteq Nat
    OBVIOUS
  <2>2. QED BY <2>1, LeastNumber
<1>2. m \in 1..N /\ m - 1 \in 0..N /\ ~(m <= m - 1)
  BY <1>1
<1>3. m - 1 \in T
  BY <1>1, <1>2
<1>4. QED BY <1>1, <1>2, <1>3

\* A function that is defined by recursion exists.
Follows(f, base, step, L) == f[0] = base /\ \A n \in 1..L : f[n] = step[<<n, f[n - 1]>>]

LEMMA RecursionExists ==
  ASSUME NEW V, NEW base \in V, NEW step \in [Nat \X V -> V], NEW L \in Nat
  PROVE  \E f \in [0..L -> V] : Follows(f, base, step, L)
<1> DEFINE Good(f, N) == Follows(f, base, step, N)
           T == {N \in 0..L : \E f \in [0..N -> V] : Good(f, N)}
<1>1. 0 \in T
  <2> DEFINE f == [n \in 0..0 |-> base]
  <2>1. f \in [0..0 -> V] /\ Good(f, 0)
    BY DEF Follows
  <2> HIDE DEF f
  <2>2. QED BY <2>1
<1>2. ASSUME NEW N \in 1..L, N - 1 \in T
      PROVE  N \in T
  <2>1. PICK f \in [0..(N - 1) -> V] : Good(f, N - 1)
    BY <1>2
  <2> DEFINE last == step[<<N, f[N - 1]>>]
             g == [n \in 0..N |-> IF n = N THEN last ELSE f[n]]
  <2>a. N - 1 \in 0..(N - 1) /\ N - 1 \in 0..N /\ N - 1 # N /\ N \in 0..N /\ 0 \in 0..(N - 1) /\ 0 # N
    OBVIOUS
  <2>b. last \in V
    <3>1. <<N, f[N - 1]>> \in Nat \X V
      BY <2>a
    <3>2. QED BY <3>1
  <2> HIDE DEF last
  <2>2. g \in [0..N -> V]
    <3>1. \A n \in 0..N : n # N => n \in 0..(N - 1)
      OBVIOUS
    <3>2. QED BY <2>b, <3>1
  <2>3. g[0] = base
    BY <2>1, <2>a DEF Follows
  <2>4. ASSUME NEW n \in 1..N
        PROVE  g[n] = step[<<n, g[n - 1]>>]
    <3>1. CASE n = N
      <4>1. g[N] = last /\ g[N - 1] = f[N - 1]
        BY <2>a
      <4>2. QED BY <3>1, <4>1 DEF last
    <3>2. CASE n # N
      <4>1. n \in 1..(N - 1) /\ n - 1 \in 0..N /\ n - 1 # N /\ n \in 0..N
        BY <3>2
      <4>2. g[n] = f[n] /\ g[n - 1] = f[n - 1]
        BY <3>2, <4>1
      <4>3. f[n] = step[<<n, f[n - 1]>>]
        BY <2>1, <4>1 DEF Follows
      <4>4. QED BY <4>2, <4>3
    <3>3. QED BY <3>1, <3>2
  <2>5. Good(g, N)
    BY <2>3, <2>4 DEF Follows
  <2> HIDE DEF g
  <2>6. QED BY <2>2, <2>5
<1>3. L \in T
  <2> HIDE DEF T
  <2>1. 0..L \subseteq T
    BY <1>1, <1>2, StepByStep
  <2>2. QED BY <2>1
<1>4. QED BY <1>3

(***************************************************************************)
(* FlattenSeq, unfolded.                                                   *)
(***************************************************************************)
LEMMA FlattenByStep ==
  ASSUME NEW S, NEW seqs \in Seq(Seq(S))
  PROVE  \E g \in [0..Len(seqs) -> Seq(S)] :
           /\ FlattenSeq(seqs) = g[Len(seqs)]
           /\ g[0] = <<>>
           /\ \A n \in 1..Len(seqs) : g[n] = g[n - 1] \o seqs[n]
<1> DEFINE L == Len(seqs)
           Body(f, n) == IF n = 1 THEN seqs[n] ELSE f[n - 1] \o seqs[n]
           step == [p \in Nat \X Seq(S) |-> IF p[1] \in 1..L THEN p[2] \o seqs[p[1]] ELSE p[2]]
<1>0. L \in Nat /\ \A n \in 1..L : seqs[n] \in Seq(S)
  OBVIOUS
<1>1. step \in [Nat \X Seq(S) -> Seq(S)]
  <2>1. \A p \in Nat \X Seq(S) : p[1] \in 1..L => p[2] \o seqs[p[1]] \in Seq(S)
    BY <1>0, ConcatProperties
  <2>2. QED BY <2>1
<1>2. PICK g \in [0..L -> Seq(S)] : Follows(g, <<>>, step, L)
  <2>1. <<>> \in Seq(S) /\ L \in Nat
    BY <1>0
  <2> HIDE DEF step, L
  <2>2. QED BY <1>1, <2>1, RecursionExists
<1>3. ASSUME NEW n \in 1..L
      PROVE  g[n] = g[n - 1] \o seqs[n]
  <2>1. n \in Nat /\ n - 1 \in 0..L
    BY <1>0
  <2>2. step[<<n, g[n - 1]>>] = g[n - 1] \o seqs[n]
    BY <2>1
  <2>3. QED BY <1>2, <2>2 DEF Follows
<1>4. g[0] = <<>>
  BY <1>2 DEF Follows
<1>5. CASE L = 0
  <2>1. FlattenSeq(seqs) = <<>>
    BY <1>5, EmptySeq DEF FlattenSeq
  <2>2. QED BY <1>3, <1>4, <1>5, <2>1
<1>6. CASE L # 0
  <2>1. 1 \in 1..L /\ L \in 1..L
    BY <1>0, <1>6
  <2>2. g[1] = seqs[1]
    <3>1. g[1] = g[0] \o seqs[1]
      <4>1. g[1] = g[1 - 1] \o seqs[1]
        BY <1>3, <2>1
      <4>2. 1 - 1 = 0
        OBVIOUS
      <4>3. QED BY <4>1, <4>2
    <3>2. <<>> \o seqs[1] = seqs[1]
      BY <1>0, <2>1, ConcatEmptySeq
    <3>3. QED BY <1>4, <3>1, <3>2
  <2> DEFINE h == [n \in 1..L |-> g[n]]
  <2>3. h = [n \in 1..L |-> Body(h, n)]
    <3>1. ASSUME NEW n \in 1..L
          PROVE  h[n] = Body(h, n)
      <4>1. CASE n = 1
        BY <2>2, <4>1
      <4>2. CASE n # 1
        <5>1. n - 1 \in 1..L
          BY <1>0, <4>2
        <5>2. QED BY <1>3, <4>2, <5>1
      <4>3. QED BY <4>1, <4>2
    <3> HIDE DEF Body
    <3>2. QED BY <3>1
  <2> HIDE DEF h
  <2> DEFINE flatten == CHOOSE f : f = [n \in 1..L |-> Body(f, n)]
  <2>4. flatten = [n \in 1..L |-> Body(flatten, n)]
    BY <2>3
  <2>5. FlattenSeq(seqs) = flatten[L]
    BY <1>6 DEF FlattenSeq
  <2> HIDE DEF flatten
  <2>6. \A n \in 1..L : flatten[n] = Body(flatten, n)
    <3> HIDE DEF Body
    <3>1. QED BY <2>4
  <2> DEFINE T == {n \in 0..L : n = 0 \/ flatten[n] = g[n]}
  <2>7. ASSUME NEW n \in 1..L, n - 1 \in T
        PROVE  n \in T
    <3>1. CASE n = 1
      BY <2>1, <2>2, <2>6, <3>1
    <3>2. CASE n # 1
      <4>1. n \in 0..L /\ n - 1 # 0
        BY <1>0, <3>2
      <4>2. QED BY <1>3, <2>6, <2>7, <3>2, <4>1
    <3>3. QED BY <3>1, <3>2
  <2>8. 0 \in T
    BY <1>0
  <2>9. 0..L \subseteq T
    <3> HIDE DEF T
    <3>1. QED BY <1>0, <2>7, <2>8, StepByStep
  <2>10. FlattenSeq(seqs) = g[L]
    <3>1. L \in T
      BY <1>0, <2>9
    <3>2. flatten[L] = g[L]
      BY <1>6, <3>1
    <3>3. QED BY <2>5, <3>2
  <2>11. QED BY <1>3, <1>4, <2>10
<1>7. QED BY <1>5, <1>6

LEMMA FlattenType ==
  ASSUME NEW S, NEW seqs \in Seq(Seq(S))
  PROVE  FlattenSeq(seqs) \in Seq(S)
<1>1. PICK g \in [0..Len(seqs) -> Seq(S)] : FlattenSeq(seqs) = g[Len(seqs)]
  BY FlattenByStep
<1>2. Len(seqs) \in 0..Len(seqs)
  OBVIOUS
<1>3. QED BY <1>1, <1>2

\* Its elements are those of the sequences.
LEMMA RangeOfFlatten ==
  ASSUME NEW S, NEW seqs \in Seq(Seq(S))
  PROVE  Range(FlattenSeq(seqs)) = UNION {Range(seqs[n]) : n \in 1..Len(seqs)}
<1> DEFINE L == Len(seqs)
<1>1. PICK g \in [0..L -> Seq(S)] :
        /\ FlattenSeq(seqs) = g[L]
        /\ g[0] = <<>>
        /\ \A n \in 1..L : g[n] = g[n - 1] \o seqs[n]
  BY FlattenByStep
<1>2. L \in Nat /\ \A n \in 1..L : seqs[n] \in Seq(S)
  OBVIOUS
<1> DEFINE T == {n \in 0..L : Range(g[n]) = UNION {Range(seqs[k]) : k \in 1..n}}
<1> HIDE DEF L
<1>3. 0 \in T
  <2>1. Range(g[0]) = {}
    BY <1>1 DEF Range
  <2>2. 0 \in 0..L /\ 1..0 = {}
    BY <1>2
  <2>3. QED BY <2>1, <2>2
<1>4. ASSUME NEW n \in 1..L, n - 1 \in T
      PROVE  n \in T
  <2>1. n \in 0..L /\ n - 1 \in 0..L /\ 1..n = 1..(n - 1) \cup {n}
    BY <1>2
  <2>2. Range(g[n]) = Range(g[n - 1]) \cup Range(seqs[n])
    <3>1. g[n - 1] \in Seq(S) /\ seqs[n] \in Seq(S)
      BY <1>2, <2>1
    <3>2. Range(g[n - 1] \o seqs[n]) = Range(g[n - 1]) \cup Range(seqs[n])
      BY <3>1, RangeConcatenation
    <3>3. QED BY <1>1, <3>2
  <2>3. Range(g[n - 1]) = UNION {Range(seqs[k]) : k \in 1..(n - 1)}
    BY <1>4
  <2>4. UNION {Range(seqs[k]) : k \in 1..n}
          = (UNION {Range(seqs[k]) : k \in 1..(n - 1)}) \cup Range(seqs[n])
    BY <2>1
  <2>5. QED BY <2>1, <2>2, <2>3, <2>4
<1>5. L \in T
  <2> HIDE DEF T
  <2>1. 0..L \subseteq T
    BY <1>2, <1>3, <1>4, StepByStep
  <2>2. QED BY <1>2, <2>1
<1>6. QED BY <1>1, <1>5 DEF L

LEMMA FlattenOfAppend ==
  ASSUME NEW S, NEW seqs \in Seq(Seq(S)), NEW s \in Seq(S)
  PROVE  FlattenSeq(Append(seqs, s)) = FlattenSeq(seqs) \o s
<1> DEFINE L == Len(seqs)
           more == Append(seqs, s)
<1>1. /\ L \in Nat /\ more \in Seq(Seq(S)) /\ Len(more) = L + 1 /\ more[L + 1] = s
      /\ \A n \in 1..L : more[n] = seqs[n]
  BY AppendProperties
<1>2. PICK f \in [0..L -> Seq(S)] :
        /\ FlattenSeq(seqs) = f[L]
        /\ f[0] = <<>>
        /\ \A n \in 1..L : f[n] = f[n - 1] \o seqs[n]
  BY FlattenByStep
<1>3. PICK g \in [0..(L + 1) -> Seq(S)] :
        /\ FlattenSeq(more) = g[L + 1]
        /\ g[0] = <<>>
        /\ \A n \in 1..(L + 1) : g[n] = g[n - 1] \o more[n]
  <2>1. PICK g \in [0..Len(more) -> Seq(S)] :
          /\ FlattenSeq(more) = g[Len(more)]
          /\ g[0] = <<>>
          /\ \A n \in 1..Len(more) : g[n] = g[n - 1] \o more[n]
    <3> HIDE DEF more
    <3>1. QED BY <1>1, FlattenByStep
  <2> HIDE DEF more
  <2>2. QED BY <1>1, <2>1
<1> HIDE DEF L, more
<1> DEFINE T == {n \in 0..L : f[n] = g[n]}
<1>4. 0 \in T
  BY <1>1, <1>2, <1>3
<1>5. ASSUME NEW n \in 1..L, n - 1 \in T
      PROVE  n \in T
  <2>1. n \in 0..L /\ n \in 1..(L + 1)
    BY <1>1
  <2>2. QED BY <1>1, <1>2, <1>3, <1>5, <2>1
<1>6. f[L] = g[L]
  <2>1. 0..L \subseteq T
    <3> HIDE DEF T
    <3>1. QED BY <1>1, <1>4, <1>5, StepByStep
  <2>2. QED BY <1>1, <2>1
<1>7. g[L + 1] = g[L] \o s
  <2>1. L + 1 \in 1..(L + 1) /\ (L + 1) - 1 = L
    BY <1>1
  <2>2. QED BY <1>1, <1>3, <2>1
<1>8. QED BY <1>2, <1>3, <1>6, <1>7 DEF more

(***************************************************************************)
(* The two loops, unfolded.                                                *)
(***************************************************************************)
LEMMA CompareByStep ==
  ASSUME NEW S, NEW a \in Seq(S), NEW b
  PROVE  \E g \in [0..Len(a) -> Seq(S)] :
           /\ CompareServiceLists(a, b) = g[Len(a)]
           /\ g[0] = <<>>
           /\ \A n \in 1..Len(a) :
                g[n] = IF a[n] \in Range(b) THEN g[n - 1] ELSE Append(g[n - 1], a[n])
<1> DEFINE L == Len(a)
           Body(f, n) == IF n = 0 THEN <<>>
                         ELSE IF a[n] \in Range(b) THEN f[n - 1]
                         ELSE Append(f[n - 1], a[n])
           step == [p \in Nat \X Seq(S) |->
                      IF p[1] \notin 1..L \/ a[p[1]] \in Range(b) THEN p[2]
                      ELSE Append(p[2], a[p[1]])]
<1>0. L \in Nat /\ DOMAIN a = 1..L /\ \A n \in 1..L : a[n] \in S
  OBVIOUS
<1>1. step \in [Nat \X Seq(S) -> Seq(S)]
  BY <1>0
<1>2. PICK f \in [0..L -> Seq(S)] : Follows(f, <<>>, step, L)
  <2>1. <<>> \in Seq(S) /\ L \in Nat
    BY <1>0
  <2> HIDE DEF step, L
  <2>2. QED BY <1>1, <2>1, RecursionExists
<1>3. ASSUME NEW n \in 1..L
      PROVE  f[n] = IF a[n] \in Range(b) THEN f[n - 1] ELSE Append(f[n - 1], a[n])
  <2>1. n \in Nat /\ n - 1 \in 0..L
    BY <1>0
  <2>2. f[n - 1] \in Seq(S)
    BY <2>1
  <2>3. step[<<n, f[n - 1]>>] = IF a[n] \in Range(b) THEN f[n - 1] ELSE Append(f[n - 1], a[n])
    BY <2>1, <2>2
  <2>4. QED BY <1>2, <2>3 DEF Follows
<1>4. ASSUME NEW n \in 0..L
      PROVE  f[n] = Body(f, n)
  <2>1. CASE n = 0
    BY <1>2, <2>1 DEF Follows
  <2>2. CASE n # 0
    <3>1. n \in 1..L
      BY <1>0, <2>2
    <3>2. QED BY <1>3, <2>2, <3>1
  <2>3. QED BY <2>1, <2>2
<1>5. f = [n \in 0..L |-> Body(f, n)]
  BY <1>4
<1> DEFINE g == CHOOSE h : h = [n \in 0..L |-> Body(h, n)]
<1>6. g = [n \in 0..L |-> Body(g, n)]
  BY <1>5
<1>7. CompareServiceLists(a, b) = g[L]
  BY DEF CompareServiceLists
<1> HIDE DEF g
<1>8. QED
  <2>1. g[0] = <<>>
    <3>1. 0 \in 0..L
      BY <1>0
    <3>2. g[0] = Body(g, 0)
      BY <1>6, <3>1
    <3>3. QED BY <3>2
  <2>2. ASSUME NEW n \in 1..L
        PROVE  g[n] = IF a[n] \in Range(b) THEN g[n - 1] ELSE Append(g[n - 1], a[n])
    <3>1. n \in 0..L /\ n # 0
      BY <1>0
    <3>2. g[n] = Body(g, n)
      BY <1>6, <3>1
    <3>3. QED BY <3>1, <3>2
  <2> DEFINE T == {n \in 0..L : g[n] \in Seq(S)}
  <2>3. 0 \in T
    <3>1. 0 \in 0..L /\ g[0] \in Seq(S)
      BY <1>0, <2>1
    <3>2. QED BY <3>1
  <2>4. ASSUME NEW n \in 1..L, n - 1 \in T
        PROVE  n \in T
    <3>1. n \in 0..L /\ g[n - 1] \in Seq(S) /\ a[n] \in S
      BY <1>0, <2>4
    <3>2. Append(g[n - 1], a[n]) \in Seq(S)
      BY <3>1
    <3>3. g[n] \in Seq(S)
      BY <2>2, <3>1, <3>2
    <3>4. QED BY <3>1, <3>3
  <2>5. 0..L \subseteq T
    <3> HIDE DEF T
    <3>1. QED BY <1>0, <2>3, <2>4, StepByStep
  <2>6. g \in [0..L -> Seq(S)]
    BY <1>6, <2>5
  <2>7. QED BY <1>7, <2>1, <2>2, <2>6

(***************************************************************************)
(* How often an element occurs among the first of a list.                  *)
(***************************************************************************)
Count(s, m, x) == Cardinality({n \in 1..m : s[n] = x})

Hit(e, x) == IF e = x THEN 1 ELSE 0

LEMMA CountByStep ==
  ASSUME NEW s, NEW m \in Nat, NEW x
  PROVE  /\ Count(s, m, x) \in Nat
         /\ Count(s, 0, x) = 0
         /\ Count(s, m + 1, x) = Count(s, m, x) + Hit(s[m + 1], x)
<1> DEFINE A == {n \in 1..m : s[n] = x}
           B == {n \in 1..(m + 1) : s[n] = x}
<1>1. IsFiniteSet(A)
  <2>1. IsFiniteSet(1..m)
    BY FS_Interval
  <2>2. A \in SUBSET (1..m)
    OBVIOUS
  <2>3. QED BY <2>1, <2>2, FS_Subset
<1>2. Cardinality(A) \in Nat
  BY <1>1, FS_CardinalityType
<1>3. Count(s, 0, x) = 0
  <2>1. {n \in 1..0 : s[n] = x} = {}
    OBVIOUS
  <2>2. QED BY <2>1, FS_EmptySet DEF Count
<1>4. 1..(m + 1) = 1..m \cup {m + 1} /\ m + 1 \notin A
  OBVIOUS
<1>5. CASE s[m + 1] = x
  <2>1. B = A \cup {m + 1}
    BY <1>4, <1>5
  <2>2. Count(s, m, x) = Cardinality(A) /\ Count(s, m + 1, x) = Cardinality(B)
    BY DEF Count
  <2>3. Cardinality(B) = Cardinality(A) + 1
    BY <1>1, <1>4, <2>1, FS_AddElement
  <2>4. QED BY <1>2, <1>3, <1>5, <2>2, <2>3 DEF Hit
<1>6. CASE s[m + 1] # x
  <2>1. B = A
    BY <1>4, <1>6
  <2>2. Count(s, m, x) = Cardinality(A) /\ Count(s, m + 1, x) = Cardinality(B)
    BY DEF Count
  <2>3. QED BY <1>2, <1>3, <1>6, <2>1, <2>2 DEF Hit
<1>7. QED BY <1>5, <1>6

LEMMA CountSame ==
  ASSUME NEW s, NEW t, NEW m \in Nat, NEW x, \A n \in 1..m : s[n] = t[n]
  PROVE  Count(s, m, x) = Count(t, m, x)
<1>1. {n \in 1..m : s[n] = x} = {n \in 1..m : t[n] = x}
  OBVIOUS
<1>2. QED BY <1>1 DEF Count

LEMMA CountNone ==
  ASSUME NEW s, NEW m \in Nat, NEW x
  PROVE  Count(s, m, x) = 0 <=> \A n \in 1..m : s[n] # x
<1> DEFINE A == {n \in 1..m : s[n] = x}
<1>1. IsFiniteSet(A)
  <2>1. IsFiniteSet(1..m)
    BY FS_Interval
  <2>2. A \in SUBSET (1..m)
    OBVIOUS
  <2>3. QED BY <2>1, <2>2, FS_Subset
<1>2. Cardinality(A) = 0 <=> A = {}
  BY <1>1, FS_EmptySet
<1>3. QED BY <1>2 DEF Count

LEMMA OccurrencesCount ==
  ASSUME NEW S, NEW s \in Seq(S), NEW x
  PROVE  /\ Len(s) \in Nat
         /\ Occurrences(s, x) = Count(s, Len(s), x)
         /\ Occurrences(s, x) \in Nat
         /\ Occurrences(s, x) = 0 <=> x \notin Range(s)
<1>1. Len(s) \in Nat /\ DOMAIN s = 1..Len(s)
  OBVIOUS
<1>2. Occurrences(s, x) = Count(s, Len(s), x)
  BY <1>1 DEF Occurrences, Count
<1>3. Count(s, Len(s), x) \in Nat
  BY <1>1, CountByStep
<1>4. Count(s, Len(s), x) = 0 <=> \A n \in 1..Len(s) : s[n] # x
  BY <1>1, CountNone
<1>5. x \notin Range(s) <=> \A n \in 1..Len(s) : s[n] # x
  BY <1>1 DEF Range
<1>6. QED BY <1>1, <1>2, <1>3, <1>4, <1>5

LEMMA OccurrencesOfAppend ==
  ASSUME NEW S, NEW s \in Seq(S), NEW e \in S, NEW x
  PROVE  Occurrences(Append(s, e), x) = Occurrences(s, x) + Hit(e, x)
<1> DEFINE t == Append(s, e)
           L == Len(s)
<1>1. /\ t \in Seq(S) /\ Len(t) = L + 1 /\ L \in Nat
      /\ t[L + 1] = e /\ \A n \in 1..L : t[n] = s[n]
  OBVIOUS
<1>2. Occurrences(t, x) = Count(t, L + 1, x) /\ Occurrences(s, x) = Count(s, L, x)
  BY <1>1, OccurrencesCount
<1> HIDE DEF t, L
<1>3. Count(t, L + 1, x) = Count(t, L, x) + Hit(t[L + 1], x)
  BY <1>1, CountByStep
<1>4. Count(t, L, x) = Count(s, L, x)
  BY <1>1, CountSame
<1>5. QED BY <1>1, <1>2, <1>3, <1>4 DEF t

LEMMA OccurrencesOfConcat ==
  ASSUME NEW S, NEW s \in Seq(S), NEW t \in Seq(S), NEW x
  PROVE  Occurrences(s \o t, x) = Occurrences(s, x) + Occurrences(t, x)
<1> DEFINE u == s \o t
           L == Len(s)
           M == Len(t)
           T == {m \in 0..M : Count(u, L + m, x) = Count(s, L, x) + Count(t, m, x)}
<1>1. /\ L \in Nat /\ M \in Nat
      /\ u \in Seq(S) /\ Len(u) = L + M
      /\ \A n \in 1..L : u[n] = s[n]
      /\ \A m \in 1..M : u[L + m] = t[m]
  <2>1. /\ L \in Nat /\ M \in Nat
        /\ u \in Seq(S) /\ Len(u) = L + M
        /\ \A k \in 1..(L + M) : u[k] = IF k <= L THEN s[k] ELSE t[k - L]
    BY ConcatProperties
  <2> HIDE DEF u, L, M
  <2>2. ASSUME NEW n \in 1..L PROVE u[n] = s[n]
    BY <2>1
  <2>3. ASSUME NEW m \in 1..M PROVE u[L + m] = t[m]
    <3>1. L + m \in 1..(L + M) /\ ~(L + m <= L) /\ (L + m) - L = m
      BY <2>1
    <3>2. QED BY <2>1, <3>1
  <2>4. QED BY <2>1, <2>2, <2>3
<1>2. Occurrences(u, x) = Count(u, L + M, x)
  BY <1>1, OccurrencesCount
<1>3. Occurrences(s, x) = Count(s, L, x) /\ Occurrences(t, x) = Count(t, M, x)
  BY OccurrencesCount
<1> HIDE DEF u, L, M
<1>4. 0 \in T
  <2>1. Count(u, L, x) = Count(s, L, x)
    BY <1>1, CountSame
  <2>2. Count(t, 0, x) = 0 /\ Count(s, L, x) \in Nat
    BY <1>1, CountByStep
  <2>3. L + 0 = L /\ 0 \in 0..M
    BY <1>1
  <2>4. QED BY <2>1, <2>2, <2>3
<1>5. ASSUME NEW m \in 1..M, m - 1 \in T
      PROVE  m \in T
  <2> DEFINE k == m - 1
  <2>1. k \in Nat /\ L + k \in Nat /\ k + 1 = m /\ (L + k) + 1 = L + m /\ m \in 0..M
    BY <1>1
  <2>4. Count(u, L + k, x) = Count(s, L, x) + Count(t, k, x)
    BY <1>5
  <2> HIDE DEF k
  <2>2. Count(u, (L + k) + 1, x) = Count(u, L + k, x) + Hit(u[(L + k) + 1], x)
    BY <2>1, CountByStep
  <2>3. Count(t, k + 1, x) = Count(t, k, x) + Hit(t[k + 1], x)
    BY <2>1, CountByStep
  <2>5. Count(s, L, x) \in Nat /\ Count(t, k, x) \in Nat
    BY <1>1, <2>1, CountByStep
  <2>6. Count(u, L + m, x) = Count(s, L, x) + Count(t, m, x)
    <3>1. u[(L + k) + 1] = t[k + 1]
      BY <1>1, <2>1
    <3>2. Hit(t[k + 1], x) \in Nat
      BY DEF Hit
    <3>3. Count(u, (L + k) + 1, x) = Count(s, L, x) + Count(t, k + 1, x)
      BY <2>2, <2>3, <2>4, <2>5, <3>1, <3>2
    <3>4. QED BY <2>1, <3>3
  <2>7. QED BY <2>1, <2>6
<1>6. M \in T
  <2> HIDE DEF T
  <2>1. 0..M \subseteq T
    BY <1>1, <1>4, <1>5, StepByStep
  <2>2. QED BY <1>1, <2>1
<1>7. QED BY <1>2, <1>3, <1>6 DEF u

(***************************************************************************)
(* removeIndexElement takes one occurrence away.                           *)
(***************************************************************************)
LEMMA RemoveIndexElementProperties ==
  ASSUME NEW S, NEW s \in Seq(S), NEW n \in 1..Len(s), NEW x
  PROVE  /\ RemoveIndexElement(s, n) \in Seq(S)
         /\ Occurrences(RemoveIndexElement(s, n), x)
              = Occurrences(s, x) - Hit(s[n], x)
<1> DEFINE L == Len(s) - 1
           r == RemoveIndexElement(s, n)
           P == {k \in 1..L : s[k] = x}
           R == {k \in 1..L : r[k] = x}
<1>0. /\ L \in Nat /\ L + 1 = Len(s) /\ n \in 1..(L + 1) /\ Len(s) \in Nat
      /\ \A k \in 1..Len(s) : s[k] \in S
  OBVIOUS
<1>1. r = [k \in 1..L |-> IF k = n THEN s[L + 1] ELSE s[k]]
  BY <1>0 DEF RemoveIndexElement
<1>2. r \in Seq(S) /\ Len(r) = L
  <2>1. ASSUME NEW k \in 1..L
        PROVE  (IF k = n THEN s[L + 1] ELSE s[k]) \in S
    <3>1. k \in 1..Len(s) /\ L + 1 \in 1..Len(s)
      BY <1>0
    <3>2. QED BY <1>0, <3>1
  <2>2. r \in [1..L -> S]
    BY <1>1, <2>1
  <2>3. L \in Nat
    BY <1>0
  <2> HIDE DEF r, L
  <2>4. QED BY <2>2, <2>3
<1>3. /\ Occurrences(r, x) = Count(r, L, x)
      /\ Occurrences(s, x) = Count(s, L, x) + Hit(s[L + 1], x)
      /\ Count(s, L, x) \in Nat /\ Count(r, L, x) \in Nat
  <2>1. Occurrences(r, x) = Count(r, L, x)
    BY <1>2, OccurrencesCount
  <2>2. Occurrences(s, x) = Count(s, L + 1, x)
    BY <1>0, OccurrencesCount
  <2>3. L \in Nat
    BY <1>0
  <2> HIDE DEF L, r
  <2>4. Count(s, L + 1, x) = Count(s, L, x) + Hit(s[L + 1], x)
    BY <2>3, CountByStep
  <2>5. QED BY <2>1, <2>2, <2>3, <2>4, CountByStep
<1> HIDE DEF L, r
<1>4. CASE n = L + 1
  <2>1. \A k \in 1..L : r[k] = s[k]
    BY <1>0, <1>1, <1>4
  <2>2. Count(r, L, x) = Count(s, L, x)
    BY <1>0, <2>1, CountSame
  <2>3. QED BY <1>2, <1>3, <1>4, <2>2 DEF r, Hit
<1>5. CASE n # L + 1
  <2>0. n \in 1..L
    BY <1>0, <1>5
  <2>1. IsFiniteSet(P) /\ IsFiniteSet(R)
    <3>1. IsFiniteSet(1..L)
      BY <1>0, FS_Interval
    <3>2. P \in SUBSET (1..L) /\ R \in SUBSET (1..L)
      OBVIOUS
    <3>3. QED BY <3>1, <3>2, FS_Subset
  <2>2. P \ {n} = R \ {n}
    BY <1>1
  <2>3. n \in P <=> s[n] = x
    BY <2>0
  <2>4. n \in R <=> s[L + 1] = x
    BY <2>0, <1>1
  <2>5. /\ Cardinality(P \ {n}) = IF s[n] = x THEN Cardinality(P) - 1 ELSE Cardinality(P)
        /\ Cardinality(R \ {n}) = IF s[L + 1] = x THEN Cardinality(R) - 1 ELSE Cardinality(R)
    BY <2>1, <2>3, <2>4, FS_RemoveElement
  <2>6. Count(s, L, x) = Cardinality(P) /\ Count(r, L, x) = Cardinality(R)
    BY DEF Count
  <2>7. Count(r, L, x) = Count(s, L, x) - Hit(s[n], x)
                                        + Hit(s[L + 1], x)
    <3> DEFINE p == Cardinality(P)
               q == Cardinality(R)
    <3>1. /\ p \in Nat /\ q \in Nat
          /\ (IF s[n] = x THEN p - 1 ELSE p) = (IF s[L + 1] = x THEN q - 1 ELSE q)
      BY <1>3, <2>2, <2>5, <2>6
    <3> HIDE DEF p, q
    <3>2. q = p - Hit(s[n], x) + Hit(s[L + 1], x)
      BY <3>1 DEF Hit
    <3>3. QED BY <2>6, <3>2 DEF p, q
  <2>8. QED BY <1>2, <1>3, <2>7 DEF r, Hit
<1>6. QED BY <1>4, <1>5

LEMMA FirstIndexProperties ==
  ASSUME NEW S, NEW s \in Seq(S), NEW x \in Range(s)
  PROVE  FirstIndex(s, x) \in 1..Len(s) /\ s[FirstIndex(s, x)] = x
<1> DEFINE T == {n \in 1..Len(s) : s[n] = x}
<1>1. DOMAIN s = 1..Len(s) /\ Len(s) \in Nat
  OBVIOUS
<1>2. T # {} /\ T \subseteq Nat
  BY <1>1 DEF Range
<1>3. PICK m \in T : \A n \in T : m <= n
  BY <1>2, LeastNumber
<1>4. \A k \in 1..m - 1 : s[k] # x
  <2> SUFFICES ASSUME NEW k \in 1..m - 1, s[k] = x
               PROVE  FALSE
    OBVIOUS
  <2>1. k \in T /\ ~(m <= k)
    BY <1>1, <1>3
  <2>2. QED BY <1>3, <2>1
<1>5. m \in DOMAIN s /\ s[m] = x
  BY <1>1
<1>6. \E n \in DOMAIN s : s[n] = x /\ \A k \in 1..n - 1 : s[k] # x
  BY <1>4, <1>5
<1>7. FirstIndex(s, x) \in DOMAIN s /\ s[FirstIndex(s, x)] = x
  BY <1>6 DEF FirstIndex
<1>8. QED BY <1>1, <1>7

(***************************************************************************)
(* compareServiceLists returns what is in the one list and not in the      *)
(* other, as often as it is there.                                         *)
(***************************************************************************)
LEMMA CompareProperties ==
  ASSUME NEW S, NEW a \in Seq(S), NEW b, NEW x
  PROVE  /\ CompareServiceLists(a, b) \in Seq(S)
         /\ Occurrences(CompareServiceLists(a, b), x)
              = IF x \in Range(b) THEN 0 ELSE Occurrences(a, x)
<1> DEFINE L == Len(a)
           Kept(n) == IF x \in Range(b) THEN 0 ELSE Count(a, n, x)
<1>1. PICK g \in [0..L -> Seq(S)] :
        /\ CompareServiceLists(a, b) = g[L]
        /\ g[0] = <<>>
        /\ \A n \in 1..L : g[n] = IF a[n] \in Range(b) THEN g[n - 1] ELSE Append(g[n - 1], a[n])
  BY CompareByStep
<1>2. L \in Nat /\ \A n \in 1..L : a[n] \in S
  OBVIOUS
<1>3. Occurrences(a, x) = Count(a, L, x)
  BY OccurrencesCount
<1> DEFINE T == {n \in 0..L : Occurrences(g[n], x) = Kept(n)}
<1> HIDE DEF L
<1>4. 0 \in T
  <2>1. Occurrences(<<>>, x) = 0
    <3>1. <<>> \in Seq(S) /\ x \notin Range(<<>>)
      BY DEF Range
    <3>2. QED BY <3>1, OccurrencesCount
  <2>2. Count(a, 0, x) = 0
    BY <1>2, CountByStep
  <2>3. QED BY <1>1, <1>2, <2>1, <2>2
<1>5. ASSUME NEW n \in 1..L, n - 1 \in T
      PROVE  n \in T
  <2> DEFINE k == n - 1
  <2>1. k \in Nat /\ k + 1 = n /\ n \in 0..L /\ k \in 0..L /\ Occurrences(g[k], x) = Kept(k)
    BY <1>2, <1>5
  <2>2. g[n] = IF a[n] \in Range(b) THEN g[k] ELSE Append(g[k], a[n])
    BY <1>1
  <2> HIDE DEF k
  <2>3. Count(a, n, x) = Count(a, k, x) + Hit(a[n], x) /\ Count(a, k, x) \in Nat
    <3>1. Count(a, k + 1, x) = Count(a, k, x) + Hit(a[k + 1], x) /\ Count(a, k, x) \in Nat
      BY <2>1, CountByStep
    <3>2. QED BY <2>1, <3>1
  <2>4. a[n] \in S /\ g[k] \in Seq(S)
    BY <1>1, <1>2, <2>1
  <2>5. CASE a[n] \in Range(b)
    <3>1. Kept(n) = Kept(k)
      BY <2>3, <2>5 DEF Hit
    <3>2. QED BY <2>1, <2>2, <2>5, <3>1
  <2>6. CASE a[n] \notin Range(b)
    <3>1. Occurrences(g[n], x) = Kept(k) + Hit(a[n], x)
      BY <2>1, <2>2, <2>4, <2>6, OccurrencesOfAppend
    <3>2. Kept(n) = Kept(k) + Hit(a[n], x)
      BY <2>3, <2>6 DEF Hit
    <3>3. QED BY <2>1, <3>1, <3>2
  <2>7. QED BY <2>5, <2>6
<1>6. L \in T
  <2> HIDE DEF T
  <2>1. 0..L \subseteq T
    BY <1>2, <1>4, <1>5, StepByStep
  <2>2. QED BY <1>2, <2>1
<1>7. g[L] \in Seq(S)
  BY <1>1, <1>2
<1>8. QED BY <1>1, <1>3, <1>6, <1>7

(***************************************************************************)
(* deleteServices takes one occurrence away for each one it is given.      *)
(***************************************************************************)
LEMMA DeleteByStep ==
  ASSUME NEW S, NEW d \in Seq(S), NEW list \in Seq(S)
  PROVE  \E g \in [0..Len(d) -> Seq(S)] :
           /\ DeleteServices(d, list) = g[Len(d)]
           /\ g[0] = list
           /\ \A n \in 1..Len(d) :
                g[n] = IF d[n] \in Range(g[n - 1])
                       THEN RemoveIndexElement(g[n - 1], FirstIndex(g[n - 1], d[n]))
                       ELSE g[n - 1]
<1> DEFINE L == Len(d)
           Without(s, x) == IF x \in Range(s) THEN RemoveIndexElement(s, FirstIndex(s, x)) ELSE s
           Body(f, n) == IF n = 0 THEN list
                         ELSE IF d[n] \in Range(f[n - 1])
                         THEN RemoveIndexElement(f[n - 1], FirstIndex(f[n - 1], d[n]))
                         ELSE f[n - 1]
           step == [p \in Nat \X Seq(S) |-> Without(p[2], d[p[1]])]
<1>0. L \in Nat
  OBVIOUS
<1>a. ASSUME NEW s \in Seq(S), NEW x
      PROVE  Without(s, x) \in Seq(S)
  BY FirstIndexProperties, RemoveIndexElementProperties
<1>1. step \in [Nat \X Seq(S) -> Seq(S)]
  <2> HIDE DEF Without
  <2>1. QED BY <1>a
<1>2. PICK f \in [0..L -> Seq(S)] : Follows(f, list, step, L)
  <2> HIDE DEF step, L
  <2>1. QED BY <1>0, <1>1, RecursionExists
<1>3. ASSUME NEW n \in 1..L
      PROVE  f[n] = Without(f[n - 1], d[n])
  <2>1. n \in Nat /\ n - 1 \in 0..L
    BY <1>0
  <2>2. f[n - 1] \in Seq(S)
    BY <2>1
  <2>3. step[<<n, f[n - 1]>>] = Without(f[n - 1], d[n])
    <3> HIDE DEF Without
    <3>1. QED BY <2>1, <2>2
  <2>4. f[n] = step[<<n, f[n - 1]>>]
    BY <1>2 DEF Follows
  <2> HIDE DEF Without, step
  <2>5. QED BY <2>3, <2>4
<1>4. ASSUME NEW n \in 0..L
      PROVE  f[n] = Body(f, n)
  <2>1. CASE n = 0
    BY <1>2, <2>1 DEF Follows
  <2>2. CASE n # 0
    <3>1. n \in 1..L
      BY <1>0, <2>2
    <3>2. QED BY <1>3, <2>2, <3>1
  <2>3. QED BY <2>1, <2>2
<1>5. f = [n \in 0..L |-> Body(f, n)]
  BY <1>4
<1> DEFINE g == CHOOSE h : h = [n \in 0..L |-> Body(h, n)]
<1>6. g = [n \in 0..L |-> Body(g, n)]
  BY <1>5
<1>7. DeleteServices(d, list) = g[L]
  BY DEF DeleteServices
<1> HIDE DEF g
<1>8. QED
  <2>1. g[0] = list
    <3>1. 0 \in 0..L
      BY <1>0
    <3>2. g[0] = Body(g, 0)
      BY <1>6, <3>1
    <3>3. QED BY <3>2
  <2>2. ASSUME NEW n \in 1..L
        PROVE  g[n] = Without(g[n - 1], d[n])
    <3>1. n \in 0..L /\ n # 0
      BY <1>0
    <3>2. g[n] = Body(g, n)
      BY <1>6, <3>1
    <3>3. QED BY <3>1, <3>2
  <2> DEFINE T == {n \in 0..L : g[n] \in Seq(S)}
  <2>3. 0 \in T
    <3>1. 0 \in 0..L /\ g[0] \in Seq(S)
      BY <1>0, <2>1
    <3>2. QED BY <3>1
  <2>4. ASSUME NEW n \in 1..L, n - 1 \in T
        PROVE  n \in T
    <3>1. n \in 0..L /\ g[n - 1] \in Seq(S)
      BY <1>0, <2>4
    <3>2. g[n] \in Seq(S)
      <4> HIDE DEF Without
      <4>1. QED BY <1>a, <2>2, <3>1
    <3>3. QED BY <3>1, <3>2
  <2>5. 0..L \subseteq T
    <3> HIDE DEF T
    <3>1. QED BY <1>0, <2>3, <2>4, StepByStep
  <2>6. g \in [0..L -> Seq(S)]
    BY <1>6, <2>5
  <2>7. QED BY <1>7, <2>1, <2>2, <2>6

LEMMA DeleteProperties ==
  ASSUME NEW S, NEW d \in Seq(S), NEW list \in Seq(S), NEW x
  PROVE  /\ DeleteServices(d, list) \in Seq(S)
         /\ Occurrences(DeleteServices(d, list), x)
              = IF Occurrences(list, x) <= Occurrences(d, x) THEN 0
                ELSE Occurrences(list, x) - Occurrences(d, x)
<1> DEFINE L == Len(d)
           before == Occurrences(list, x)
           Left(n) == IF before <= Count(d, n, x) THEN 0 ELSE before - Count(d, n, x)
<1>1. PICK g \in [0..L -> Seq(S)] :
        /\ DeleteServices(d, list) = g[L]
        /\ g[0] = list
        /\ \A n \in 1..L : g[n] = IF d[n] \in Range(g[n - 1])
                                  THEN RemoveIndexElement(g[n - 1], FirstIndex(g[n - 1], d[n]))
                                  ELSE g[n - 1]
  BY DeleteByStep
<1>2. L \in Nat
  OBVIOUS
<1>3. Occurrences(d, x) = Count(d, L, x) /\ before \in Nat
  BY OccurrencesCount
<1> DEFINE T == {n \in 0..L : Occurrences(g[n], x) = Left(n)}
<1> HIDE DEF L, before
<1>4. 0 \in T
  <2>1. Count(d, 0, x) = 0 /\ 0 \in 0..L
    BY <1>2, CountByStep
  <2>2. Left(0) = before
    BY <1>3, <2>1
  <2>3. QED BY <1>1, <2>1, <2>2 DEF before
<1>5. ASSUME NEW n \in 1..L, n - 1 \in T
      PROVE  n \in T
  <2> DEFINE k == n - 1
  <2>1. k \in Nat /\ k + 1 = n /\ n \in 0..L /\ k \in 0..L /\ Occurrences(g[k], x) = Left(k)
    BY <1>2, <1>5
  <2>2. g[n] = IF d[n] \in Range(g[k]) THEN RemoveIndexElement(g[k], FirstIndex(g[k], d[n]))
               ELSE g[k]
    BY <1>1
  <2> HIDE DEF k
  <2>3. Count(d, n, x) = Count(d, k, x) + Hit(d[n], x) /\ Count(d, k, x) \in Nat
    <3>1. Count(d, k + 1, x) = Count(d, k, x) + Hit(d[k + 1], x) /\ Count(d, k, x) \in Nat
      BY <2>1, CountByStep
    <3>2. QED BY <2>1, <3>1
  <2>4. g[k] \in Seq(S)
    BY <1>1, <2>1
  <2>5. Occurrences(g[k], x) = 0 <=> x \notin Range(g[k])
    BY <2>4, OccurrencesCount
  <2>6. CASE d[n] \in Range(g[k])
    <3>1. FirstIndex(g[k], d[n]) \in 1..Len(g[k]) /\ g[k][FirstIndex(g[k], d[n])] = d[n]
      BY <2>4, <2>6, FirstIndexProperties
    <3>2. Occurrences(g[n], x) = Left(k) - Hit(d[n], x)
      BY <2>1, <2>2, <2>4, <2>6, <3>1, RemoveIndexElementProperties
    <3>3. d[n] = x => Left(k) # 0
      BY <2>1, <2>5, <2>6
    <3>4. Left(k) - Hit(d[n], x) = Left(n)
      BY <1>3, <2>3, <3>3 DEF Hit
    <3>5. QED BY <2>1, <3>2, <3>4
  <2>7. CASE d[n] \notin Range(g[k])
    <3>1. d[n] = x => Left(k) = 0
      BY <2>1, <2>5, <2>7
    <3>2. Left(n) = Left(k)
      BY <1>3, <2>3, <3>1 DEF Hit
    <3>3. QED BY <2>1, <2>2, <2>7, <3>2
  <2>8. QED BY <2>6, <2>7
<1>6. L \in T
  <2> HIDE DEF T
  <2>1. 0..L \subseteq T
    BY <1>2, <1>4, <1>5, StepByStep
  <2>2. QED BY <1>2, <2>1
<1>7. g[L] \in Seq(S)
  BY <1>1, <1>2
<1>8. QED BY <1>1, <1>3, <1>6, <1>7 DEF before

(***************************************************************************)
(* What sync writes, and when it has something to write.                   *)
(***************************************************************************)
LEMMA ReconciledProperties ==
  ASSUME NEW S, NEW a \in Seq(S), NEW b \in Seq(S), NEW x
  PROVE  /\ Reconciled(a, b) \in Seq(S)
         /\ Occurrences(Reconciled(a, b), x)
              = IF x \notin Range(a) THEN 0
                ELSE IF x \in Range(b) THEN Occurrences(b, x) ELSE Occurrences(a, x)
<1> DEFINE new == CompareServiceLists(a, b)
           grown == AddServices(new, b)
           old == CompareServiceLists(grown, a)
<1>1. new \in Seq(S) /\ Occurrences(new, x) = IF x \in Range(b) THEN 0 ELSE Occurrences(a, x)
  BY CompareProperties
<1>2. /\ Occurrences(a, x) \in Nat /\ Occurrences(b, x) \in Nat
      /\ Occurrences(a, x) = 0 <=> x \notin Range(a)
      /\ Occurrences(b, x) = 0 <=> x \notin Range(b)
  BY OccurrencesCount
<1> HIDE DEF new
<1>3. /\ grown \in Seq(S)
      /\ Occurrences(grown, x) = IF x \in Range(b) THEN Occurrences(b, x) ELSE Occurrences(a, x)
  BY <1>1, <1>2, OccurrencesOfConcat DEF AddServices
<1> HIDE DEF grown
<1>4. old \in Seq(S) /\ Occurrences(old, x) = IF x \in Range(a) THEN 0 ELSE Occurrences(grown, x)
  <2>1. grown \in Seq(S)
    BY <1>3
  <2>2. QED BY <2>1, CompareProperties
<1> HIDE DEF old
<1>5. /\ DeleteServices(old, grown) \in Seq(S)
      /\ Occurrences(DeleteServices(old, grown), x)
           = IF Occurrences(grown, x) <= Occurrences(old, x) THEN 0
             ELSE Occurrences(grown, x) - Occurrences(old, x)
  BY <1>3, <1>4, DeleteProperties
<1>6. Reconciled(a, b) = DeleteServices(old, grown)
  BY DEF Reconciled, grown, old, new
<1>7. QED BY <1>2, <1>3, <1>4, <1>5, <1>6

LEMMA ReconciledRange ==
  ASSUME NEW S, NEW a \in Seq(S), NEW b \in Seq(S)
  PROVE  Range(Reconciled(a, b)) = Range(a)
<1> DEFINE r == Reconciled(a, b)
<1>1. ASSUME NEW x
      PROVE  x \in Range(r) <=> x \in Range(a)
  <2>1. /\ r \in Seq(S)
        /\ Occurrences(r, x) = IF x \notin Range(a) THEN 0
                               ELSE IF x \in Range(b) THEN Occurrences(b, x) ELSE Occurrences(a, x)
    BY ReconciledProperties
  <2> HIDE DEF r
  <2>2. Occurrences(r, x) = 0 <=> x \notin Range(r)
    BY <2>1, OccurrencesCount
  <2>3. /\ Occurrences(a, x) = 0 <=> x \notin Range(a)
        /\ Occurrences(b, x) = 0 <=> x \notin Range(b)
    BY OccurrencesCount
  <2>4. QED BY <2>1, <2>2, <2>3
<1>2. QED BY <1>1

LEMMA NothingMissing ==
  ASSUME NEW S, NEW a \in Seq(S), NEW b
  PROVE  CompareServiceLists(a, b) = <<>> <=> Range(a) \subseteq Range(b)
<1> DEFINE c == CompareServiceLists(a, b)
<1>1. ASSUME NEW x
      PROVE  x \in Range(c) <=> x \in Range(a) \ Range(b)
  <2>1. c \in Seq(S) /\ Occurrences(c, x) = IF x \in Range(b) THEN 0 ELSE Occurrences(a, x)
    BY CompareProperties
  <2> HIDE DEF c
  <2>2. /\ Occurrences(c, x) = 0 <=> x \notin Range(c)
        /\ Occurrences(a, x) = 0 <=> x \notin Range(a)
    BY <2>1, OccurrencesCount
  <2>3. QED BY <2>1, <2>2
<1>2. c \in Seq(S)
  BY CompareProperties
<1> HIDE DEF c
<1>3. c = <<>> <=> Range(c) = {}
  <2>1. Len(c) \in Nat /\ DOMAIN c = 1..Len(c)
    BY <1>2
  <2>2. ASSUME Range(c) = {}
        PROVE  c = <<>>
    <3>1. ASSUME Len(c) # 0
          PROVE  FALSE
      <4>1. 1 \in DOMAIN c
        BY <2>1, <3>1
      <4>2. c[1] \in Range(c)
        BY <4>1 DEF Range
      <4>3. QED BY <2>2, <4>2
    <3>2. QED BY <1>2, <2>1, <3>1, EmptySeq
  <2>3. QED BY <2>2 DEF Range
<1>4. QED BY <1>1, <1>3 DEF c

LEMMA WhenNeedsUpdate ==
  ASSUME NEW S, NEW a \in Seq(S), NEW b \in Seq(S)
  PROVE  NeedsUpdate(a, b) <=> Range(a) # Range(b)
<1>1. CompareServiceLists(a, b) = <<>> <=> Range(a) \subseteq Range(b)
  BY NothingMissing
<1>2. CompareServiceLists(b, a) = <<>> <=> Range(b) \subseteq Range(a)
  BY NothingMissing
<1>3. QED BY <1>1, <1>2 DEF NeedsUpdate

(***************************************************************************)
(* A list of a finite set has each of its elements once.                   *)
(***************************************************************************)
LEMMA ListOfSet ==
  ASSUME NEW S, IsFiniteSet(S), NEW l \in SetToSeqs(S)
  PROVE  /\ l \in Seq(S)
         /\ Range(l) = S
         /\ \A x \in S : Occurrences(l, x) = 1
<1> DEFINE N == Cardinality(S)
           D == 1..N
<1>1. N \in Nat
  BY FS_CardinalityType
<1>2. l \in [D -> S] /\ \A i, j \in D : i # j => l[i] # l[j]
  BY DEF SetToSeqs
<1>3. IsFiniteSet(D) /\ Cardinality(D) = N
  BY <1>1, FS_Interval
<1> HIDE DEF N
<1>4. l \in Seq(S)
  BY <1>1, <1>2
<1>5. l \in Surjection(D, S)
  <2>1. l \in Injection(D, S)
    BY <1>2 DEF Injection, IsInjective
  <2>2. QED BY <1>3, <2>1, FS_Injection DEF N
<1>6. Range(l) = S
  BY <1>2, <1>5 DEF Surjection, Range
<1>7. ASSUME NEW x \in S
      PROVE  Occurrences(l, x) = 1
  <2>1. PICK n \in D : l[n] = x
    BY <1>5 DEF Surjection
  <2>2. {m \in DOMAIN l : l[m] = x} = {n}
    BY <1>2, <2>1
  <2>3. QED BY <2>2, FS_Singleton DEF Occurrences
<1>8. QED BY <1>4, <1>6, <1>7
=============================================================================

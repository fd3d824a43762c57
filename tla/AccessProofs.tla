---------------------------- MODULE AccessProofs ----------------------------
(***************************************************************************)
(* What Access guarantees for all domains, data, services, clients and     *)
(* bounds: a namespace belongs to one domain, what is there without a key  *)
(* pending was provided, nothing but trust and time makes it stale, and    *)
(* what is in step lets in whom Athenz lets in.                            *)
(***************************************************************************)
EXTENDS Access, ListLemmas

(***************************************************************************)
(* Names, one symbol at a time.                                            *)
(***************************************************************************)
LEMMA SubstituteEmpty ==
  ASSUME NEW S, NEW symbol, NEW by \in Seq(S)
  PROVE  Substitute(<<>>, symbol, by) = <<>>
<1> DEFINE parts == [n \in DOMAIN <<>> |-> IF <<>>[n] = symbol THEN by ELSE <<(<<>>)[n]>>]
<1>1. parts \in Seq(Seq(S)) /\ Len(parts) = 0
  OBVIOUS
<1> HIDE DEF parts
<1>2. parts = <<>>
  BY <1>1, EmptySeq
<1>3. FlattenSeq(parts) = <<>>
  BY <1>1, <1>2 DEF FlattenSeq
<1>4. QED BY <1>3 DEF Substitute, parts

LEMMA SubstituteOfAppend ==
  ASSUME NEW S, NEW w \in Seq(S), NEW e \in S, NEW symbol, NEW by \in Seq(S)
  PROVE  /\ Substitute(w, symbol, by) \in Seq(S)
         /\ Substitute(Append(w, e), symbol, by)
              = Substitute(w, symbol, by) \o (IF e = symbol THEN by ELSE <<e>>)
<1> DEFINE Part(s) == IF s = symbol THEN by ELSE <<s>>
           parts == [n \in DOMAIN w |-> Part(w[n])]
           more == [n \in DOMAIN Append(w, e) |-> Part(Append(w, e)[n])]
<1>1. \A s \in S : Part(s) \in Seq(S)
  OBVIOUS
<1>2. /\ Len(w) \in Nat /\ DOMAIN w = 1..Len(w) /\ \A n \in 1..Len(w) : w[n] \in S
      /\ DOMAIN Append(w, e) = 1..(Len(w) + 1)
      /\ \A n \in 1..Len(w) : Append(w, e)[n] = w[n]
      /\ Append(w, e)[Len(w) + 1] = e
  OBVIOUS
<1> HIDE DEF Part
<1>3. parts \in [1..Len(w) -> Seq(S)]
  BY <1>1, <1>2
<1>4. parts \in Seq(Seq(S)) /\ Len(parts) = Len(w)
  <2> HIDE DEF parts
  <2>1. QED BY <1>2, <1>3
<1>5. more \in [1..(Len(w) + 1) -> Seq(S)]
  <2>1. \A n \in 1..(Len(w) + 1) : Append(w, e)[n] \in S
    BY <1>2
  <2>2. QED BY <1>1, <1>2, <2>1
<1>6. more \in Seq(Seq(S)) /\ Len(more) = Len(w) + 1
  <2> HIDE DEF more
  <2>1. QED BY <1>2, <1>5
<1>7. more = Append(parts, Part(e))
  <2>1. \A n \in 1..Len(w) : more[n] = parts[n]
    BY <1>2
  <2>2. more[Len(w) + 1] = Part(e)
    BY <1>2
  <2>3. Part(e) \in Seq(S)
    BY <1>1
  <2> HIDE DEF more, parts
  <2>4. /\ Append(parts, Part(e)) \in Seq(Seq(S))
        /\ Len(Append(parts, Part(e))) = Len(w) + 1
        /\ \A n \in 1..Len(w) : Append(parts, Part(e))[n] = parts[n]
        /\ Append(parts, Part(e))[Len(w) + 1] = Part(e)
    BY <1>4, <2>3, AppendProperties
  <2>5. \A n \in 1..(Len(w) + 1) : more[n] = Append(parts, Part(e))[n]
    BY <1>2, <2>1, <2>2, <2>4
  <2>6. QED BY <1>6, <2>4, <2>5, SeqEqual
<1>8. Part(e) \in Seq(S)
  BY <1>1
<1>9. FlattenSeq(parts) = Substitute(w, symbol, by)
      /\ FlattenSeq(more) = Substitute(Append(w, e), symbol, by)
  BY DEF Substitute, Part
<1> HIDE DEF parts, more
<1>10. FlattenSeq(parts) \in Seq(S) /\ FlattenSeq(more) = FlattenSeq(parts) \o Part(e)
  BY <1>4, <1>7, <1>8, FlattenType, FlattenOfAppend
<1>11. QED BY <1>9, <1>10 DEF Part

\* What a symbol of a domain becomes in the namespace, and back.
LEMMA NamespaceOfAppend ==
  ASSUME NEW S, "-" \in S, "." \in S, NEW w \in Seq(S), NEW e \in S
  PROVE  /\ DomainToNamespace(w) \in Seq(S)
         /\ DomainToNamespace(Append(w, e)) =
              IF e = "-" THEN Append(Append(DomainToNamespace(w), "-"), "-")
              ELSE IF e = "." THEN Append(DomainToNamespace(w), "-")
              ELSE Append(DomainToNamespace(w), e)
<1> DEFINE two == <<"-", "-">>
           one == <<"-">>
           u == Substitute(w, "-", two)
           v == Substitute(u, ".", one)
<1>1. two \in Seq(S) /\ one \in Seq(S)
  OBVIOUS
<1> HIDE DEF two, one, u, v
<1>2. u \in Seq(S) /\ Substitute(Append(w, e), "-", two) = u \o (IF e = "-" THEN two ELSE <<e>>)
  <2>1. ASSUME NEW s \in Seq(S), NEW x \in S
        PROVE  /\ Substitute(s, "-", two) \in Seq(S)
               /\ Substitute(Append(s, x), "-", two)
                    = Substitute(s, "-", two) \o (IF x = "-" THEN two ELSE <<x>>)
    BY <1>1, SubstituteOfAppend
  <2>2. QED BY <2>1 DEF u
<1>3. ASSUME NEW s \in Seq(S), NEW x \in S
      PROVE  /\ Substitute(s, ".", one) \in Seq(S)
             /\ Substitute(Append(s, x), ".", one)
                  = Substitute(s, ".", one) \o (IF x = "." THEN one ELSE <<x>>)
  BY <1>1, SubstituteOfAppend
<1>4. \A s \in Seq(S), x \in S :
        Append(s, x) \in Seq(S) /\ s \o <<x>> = Append(s, x)
  BY AppendProperties, AppendIsConcat
<1>5. \A s \in Seq(S) : s \o two = Append(Append(s, "-"), "-")
  BY DEF two
<1>6. v \in Seq(S)
  BY <1>2, <1>3 DEF v
<1>7. DomainToNamespace(w) = v
  BY DEF DomainToNamespace, u, v, two, one
<1>8. CASE e = "-"
  <2>1. DomainToNamespace(Append(w, e)) = Substitute(Append(Append(u, "-"), "-"), ".", one)
    BY <1>2, <1>5, <1>8 DEF DomainToNamespace, two, one
  <2>2. Substitute(Append(u, "-"), ".", one) = v \o <<"-">>
    BY <1>2, <1>3 DEF v
  <2>3. Append(u, "-") \in Seq(S)
    BY <1>2, <1>4
  <2>4. Substitute(Append(Append(u, "-"), "-"), ".", one)
          = Substitute(Append(u, "-"), ".", one) \o <<"-">>
    BY <1>3, <2>3
  <2>5. v \o <<"-">> = Append(v, "-") /\ Append(v, "-") \o <<"-">> = Append(Append(v, "-"), "-")
    BY <1>4, <1>6
  <2>6. QED BY <1>6, <1>7, <1>8, <2>1, <2>2, <2>4, <2>5
<1>9. CASE e # "-"
  <2>1. DomainToNamespace(Append(w, e)) = Substitute(Append(u, e), ".", one)
    BY <1>2, <1>4, <1>9 DEF DomainToNamespace, two, one
  <2>2. Substitute(Append(u, e), ".", one) = v \o (IF e = "." THEN <<"-">> ELSE <<e>>)
    BY <1>2, <1>3 DEF v, one
  <2>3. QED BY <1>4, <1>6, <1>7, <1>9, <2>1, <2>2
<1>10. QED BY <1>8, <1>9

LEMMA WithNextType ==
  ASSUME NEW S, "-" \in S, "." \in S, NEW done \in Seq(S), NEW e \in S
  PROVE  WithNext(done, e) \in Seq(S)
<1>1. CASE done # <<>>
  <2>1. Front(done) \in Seq(S)
    BY <1>1 DEF Front
  <2>2. QED BY <2>1, AppendProperties DEF WithNext
<1>2. CASE done = <<>>
  BY <1>2, AppendProperties DEF WithNext
<1>3. QED BY <1>1, <1>2

LEMMA PairsByStep ==
  ASSUME NEW S, "-" \in S, "." \in S, NEW w \in Seq(S)
  PROVE  \E g \in [0..Len(w) -> Seq(S)] :
           /\ PairsToDash(w) = g[Len(w)]
           /\ g[0] = <<>>
           /\ \A n \in 1..Len(w) : g[n] = WithNext(g[n - 1], w[n])
<1> DEFINE L == Len(w)
           Body(f, n) == IF n = 0 THEN <<>> ELSE WithNext(f[n - 1], w[n])
           step == [p \in Nat \X Seq(S) |-> IF p[1] \in 1..L THEN WithNext(p[2], w[p[1]]) ELSE p[2]]
<1>0. L \in Nat /\ \A n \in 1..L : w[n] \in S
  OBVIOUS
<1>1. step \in [Nat \X Seq(S) -> Seq(S)]
  <2>1. \A p \in Nat \X Seq(S) : p[1] \in 1..L => WithNext(p[2], w[p[1]]) \in Seq(S)
    BY <1>0, WithNextType
  <2>2. QED BY <2>1
<1>2. PICK f \in [0..L -> Seq(S)] : Follows(f, <<>>, step, L)
  <2>1. <<>> \in Seq(S) /\ L \in Nat
    BY <1>0
  <2> HIDE DEF step, L
  <2>2. QED BY <1>1, <2>1, RecursionExists
<1>3. ASSUME NEW n \in 1..L
      PROVE  f[n] = WithNext(f[n - 1], w[n])
  <2>1. n \in Nat /\ n - 1 \in 0..L
    BY <1>0
  <2>2. step[<<n, f[n - 1]>>] = WithNext(f[n - 1], w[n])
    BY <2>1
  <2>3. QED BY <1>2, <2>2 DEF Follows
<1>4. f[0] = <<>>
  BY <1>2 DEF Follows
<1>5. \A n \in 0..L : f[n] = Body(f, n)
  <2> SUFFICES ASSUME NEW n \in 0..L PROVE f[n] = Body(f, n)
    OBVIOUS
  <2>1. n = 0 \/ n \in 1..L
    BY <1>0
  <2>2. QED BY <1>3, <1>4, <2>1
<1>6. f = [n \in 0..L |-> Body(f, n)]
  <2> HIDE DEF Body
  <2>1. QED BY <1>5
<1> DEFINE done == CHOOSE h : h = [n \in 0..L |-> Body(h, n)]
<1>7. done = [n \in 0..L |-> Body(done, n)]
  BY <1>6
<1>8. PairsToDash(w) = done[L]
  BY DEF PairsToDash
<1> HIDE DEF done
<1>9. \A n \in 0..L : done[n] = Body(done, n)
  <2> HIDE DEF Body
  <2>1. QED BY <1>7
<1> DEFINE T == {n \in 0..L : done[n] = f[n]}
<1>10. 0 \in T
  BY <1>0, <1>4, <1>9
<1>11. ASSUME NEW n \in 1..L, n - 1 \in T
       PROVE  n \in T
  <2>1. n \in 0..L /\ n # 0
    BY <1>0
  <2>2. QED BY <1>3, <1>9, <1>11, <2>1
<1>12. done[L] = f[L]
  <2>1. 0..L \subseteq T
    <3> HIDE DEF T
    <3>1. QED BY <1>0, <1>10, <1>11, StepByStep
  <2>2. QED BY <1>0, <2>1
<1>13. QED BY <1>3, <1>4, <1>8, <1>12

LEMMA PairsOfAppend ==
  ASSUME NEW S, "-" \in S, "." \in S, NEW w \in Seq(S), NEW e \in S
  PROVE  /\ PairsToDash(w) \in Seq(S)
         /\ PairsToDash(Append(w, e)) = WithNext(PairsToDash(w), e)
<1> DEFINE L == Len(w)
           more == Append(w, e)
<1>1. /\ L \in Nat /\ more \in Seq(S) /\ Len(more) = L + 1 /\ more[L + 1] = e
      /\ \A n \in 1..L : more[n] = w[n]
  BY AppendProperties
<1>2. PICK f \in [0..L -> Seq(S)] :
        /\ PairsToDash(w) = f[L]
        /\ f[0] = <<>>
        /\ \A n \in 1..L : f[n] = WithNext(f[n - 1], w[n])
  BY PairsByStep
<1>3. PICK g \in [0..(L + 1) -> Seq(S)] :
        /\ PairsToDash(more) = g[L + 1]
        /\ g[0] = <<>>
        /\ \A n \in 1..(L + 1) : g[n] = WithNext(g[n - 1], more[n])
  <2>1. PICK g \in [0..Len(more) -> Seq(S)] :
          /\ PairsToDash(more) = g[Len(more)]
          /\ g[0] = <<>>
          /\ \A n \in 1..Len(more) : g[n] = WithNext(g[n - 1], more[n])
    <3> HIDE DEF more
    <3>1. QED BY <1>1, PairsByStep
  <2> HIDE DEF more
  <2>2. QED BY <1>1, <2>1
<1> HIDE DEF L, more
<1> DEFINE T == {n \in 0..L : f[n] = g[n]}
<1>4. 0 \in T
  BY <1>1, <1>2, <1>3
<1>5. ASSUME NEW n \in 1..L, n - 1 \in T
      PROVE  n \in T
  <2>1. n \in 0..L /\ n \in 1..(L + 1)
    BY <1>1
  <2>2. QED BY <1>1, <1>2, <1>3, <1>5, <2>1
<1>6. f[L] = g[L]
  <2>1. 0..L \subseteq T
    <3> HIDE DEF T
    <3>1. QED BY <1>1, <1>4, <1>5, StepByStep
  <2>2. QED BY <1>1, <2>1
<1>7. g[L + 1] = WithNext(g[L], e)
  <2>1. L + 1 \in 1..(L + 1) /\ (L + 1) - 1 = L
    BY <1>1
  <2>2. QED BY <1>1, <1>3, <2>1
<1>8. f[L] \in Seq(S)
  BY <1>1
<1>9. QED BY <1>2, <1>3, <1>6, <1>7, <1>8 DEF more

LEMMA DomainOfAppend ==
  ASSUME NEW S, "-" \in S, "." \in S, NEW w \in Seq(S), NEW e \in S
  PROVE  NamespaceToDomain(Append(w, e))
           = WithNext(NamespaceToDomain(w), IF e = "-" THEN "." ELSE e)
<1> DEFINE dot == <<".">>
           x == IF e = "-" THEN "." ELSE e
<1>1. dot \in Seq(S) /\ x \in S
  OBVIOUS
<1>2. \A s \in Seq(S) : s \o dot = Append(s, ".") /\ s \o <<e>> = Append(s, e)
  BY AppendIsConcat
<1> HIDE DEF dot
<1>3. ASSUME NEW s \in Seq(S), NEW y \in S
      PROVE  /\ Substitute(s, "-", dot) \in Seq(S)
             /\ Substitute(Append(s, y), "-", dot)
                  = Substitute(s, "-", dot) \o (IF y = "-" THEN dot ELSE <<y>>)
  BY <1>1, SubstituteOfAppend
<1> DEFINE u == Substitute(w, "-", dot)
<1> HIDE DEF u, x
<1>4. u \in Seq(S) /\ Substitute(Append(w, e), "-", dot) = Append(u, x)
  BY <1>2, <1>3 DEF u, x
<1>5. PairsToDash(Append(u, x)) = WithNext(PairsToDash(u), x)
  BY <1>1, <1>4, PairsOfAppend
<1>6. QED BY <1>4, <1>5 DEF NamespaceToDomain, u, x, dot

LEMMA NothingTranslated ==
  DomainToNamespace(<<>>) = <<>> /\ NamespaceToDomain(<<>>) = <<>>
<1> DEFINE S == {"-", "."}
<1>1. <<"-", "-">> \in Seq(S) /\ <<"-">> \in Seq(S) /\ <<".">> \in Seq(S) /\ <<>> \in Seq(S)
  OBVIOUS
<1>2. "-" \in S /\ "." \in S
  OBVIOUS
<1> HIDE DEF S
<1>3. \A by \in Seq(S) : \A symbol : Substitute(<<>>, symbol, by) = <<>>
  BY SubstituteEmpty
<1>4. PairsToDash(<<>>) = <<>>
  <2>1. PICK g \in [0..Len(<<>>) -> Seq(S)] : PairsToDash(<<>>) = g[Len(<<>>)] /\ g[0] = <<>>
    BY <1>1, <1>2, PairsByStep
  <2>2. Len(<<>>) = 0
    OBVIOUS
  <2>3. QED BY <2>1, <2>2
<1>5. QED BY <1>1, <1>3, <1>4 DEF DomainToNamespace, NamespaceToDomain

(***************************************************************************)
(* The names of Athenz domains survive the way into a namespace and back,  *)
(* however long they are and whatever is in them: no two domains share a   *)
(* namespace, and the events of a resource find its domain                 *)
(* (athenz/util.go:8-22).                                                  *)
(***************************************************************************)
THEOREM NamesRoundTrip ==
  ASSUME NEW S, "-" \in S, "." \in S, NEW d \in Seq(S), IsDomainName(d)
  PROVE  NamespaceToDomain(DomainToNamespace(d)) = d
<1> DEFINE L == Len(d)
           Prefix(n) == SubSeq(d, 1, n)
           T == {n \in 0..L : NamespaceToDomain(DomainToNamespace(Prefix(n))) = Prefix(n)}
<1>1. L \in Nat /\ Prefix(0) = <<>> /\ Prefix(L) = d
  BY SubSeqEmpty, SubSeqFull
<1>2. ASSUME NEW n \in 0..L
      PROVE  /\ Prefix(n) \in Seq(S) /\ Len(Prefix(n)) = n
             /\ n # 0 => Prefix(n) # <<>> /\ Last(Prefix(n)) = d[n]
  <2>1. /\ n \in Int /\ \A i \in 1..n : d[i] \in S
    OBVIOUS
  <2>2. /\ Prefix(n) \in Seq(S) /\ Len(Prefix(n)) = n
        /\ \A i \in 1..n : Prefix(n)[i] = d[i]
    BY <2>1
  <2> HIDE DEF Prefix
  <2>3. QED BY <2>2 DEF Last
<1>3. ASSUME NEW n \in 1..L
      PROVE  n - 1 \in 0..L /\ d[n] \in S /\ Prefix(n) = Append(Prefix(n - 1), d[n])
  <2>1. n - 1 \in 0..L /\ d[n] \in S /\ 1 \in 1..L /\ n \in 1..L
    OBVIOUS
  <2>2. Prefix(n) = Prefix(n - 1) \o <<d[n]>>
    BY <2>1, SubSeqRecursiveSecond
  <2>3. Prefix(n - 1) \in Seq(S)
    BY <1>2, <2>1
  <2> HIDE DEF Prefix
  <2>4. QED BY <2>1, <2>2, <2>3, AppendIsConcat
<1>4. ASSUME NEW n \in 1..L
      PROVE  d[n] \in {".", "-"} => Prefix(n - 1) = <<>> \/ Last(Prefix(n - 1)) # "."
  <2> SUFFICES ASSUME d[n] \in {".", "-"}, n # 1 PROVE Last(Prefix(n - 1)) # "."
    BY <1>1
  <2>1. n - 1 \in 1..(L - 1) /\ (n - 1) + 1 = n /\ n - 1 \in 0..L /\ n - 1 # 0
    BY <1>1
  <2>2. d[n - 1] # "."
    BY <2>1 DEF IsDomainName
  <2>3. Last(Prefix(n - 1)) = d[n - 1]
    BY <1>2, <2>1
  <2>4. QED BY <2>2, <2>3
<1>5. 0 \in T
  <2>1. 0 \in 0..L
    BY <1>1
  <2>2. NamespaceToDomain(DomainToNamespace(Prefix(0))) = Prefix(0)
    BY <1>1, NothingTranslated
  <2>3. QED BY <2>1, <2>2
<1>6. ASSUME NEW n \in 1..L, n - 1 \in T
      PROVE  n \in T
  <2> DEFINE w == Prefix(n - 1)
             e == d[n]
             ns == DomainToNamespace(w)
  <2>1. w \in Seq(S) /\ e \in S /\ Prefix(n) = Append(w, e) /\ NamespaceToDomain(ns) = w
    BY <1>2, <1>3, <1>6
  <2>2. e \in {".", "-"} => w = <<>> \/ Last(w) # "."
    BY <1>4
  <2> HIDE DEF w, e, ns
  <2>3. /\ ns \in Seq(S)
        /\ DomainToNamespace(Append(w, e)) =
             IF e = "-" THEN Append(Append(ns, "-"), "-")
             ELSE IF e = "." THEN Append(ns, "-") ELSE Append(ns, e)
    BY <2>1, NamespaceOfAppend DEF ns
  <2>4. ASSUME NEW x \in S
        PROVE  /\ Append(ns, x) \in Seq(S)
               /\ NamespaceToDomain(Append(ns, x)) = WithNext(w, IF x = "-" THEN "." ELSE x)
    BY <2>1, <2>3, DomainOfAppend, AppendProperties
  <2>5. e \in {".", "-"} => WithNext(w, ".") = Append(w, ".")
    BY <2>2 DEF WithNext
  <2>6. NamespaceToDomain(DomainToNamespace(Append(w, e))) = Append(w, e)
    <3>1. CASE e = "-"
      <4>1. NamespaceToDomain(Append(Append(ns, "-"), "-"))
              = WithNext(NamespaceToDomain(Append(ns, "-")), ".")
        BY <2>4, DomainOfAppend
      <4>2. NamespaceToDomain(Append(ns, "-")) = Append(w, ".")
        BY <2>4, <2>5, <3>1
      <4>3. Append(w, ".") # <<>> /\ Last(Append(w, ".")) = "." /\ Front(Append(w, ".")) = w
        <5>1. /\ Append(w, ".") \in Seq(S) /\ Append(w, ".") # <<>>
              /\ Len(Append(w, ".")) = Len(w) + 1 /\ Append(w, ".")[Len(w) + 1] = "."
              /\ \A i \in 1..Len(w) : Append(w, ".")[i] = w[i]
          BY <2>1, AppendProperties
        <5>2. Len(w) \in Nat
          BY <2>1
        <5>3. SubSeq(Append(w, "."), 1, Len(w)) = w
          <6> DEFINE t == Append(w, ".")
          <6>1. \A i \in 1..Len(w) : t[i] \in S
            BY <2>1, <5>1
          <6> HIDE DEF t
          <6>2. /\ SubSeq(t, 1, Len(w)) \in Seq(S) /\ Len(SubSeq(t, 1, Len(w))) = Len(w)
                /\ \A i \in 1..Len(w) : SubSeq(t, 1, Len(w))[i] = t[i]
            BY <5>2, <6>1
          <6>3. QED BY <2>1, <5>1, <6>2, SeqEqual DEF t
        <5>4. QED BY <5>1, <5>2, <5>3 DEF Last, Front
      <4>4. WithNext(Append(w, "."), ".") = Append(w, "-")
        BY <4>3 DEF WithNext
      <4>5. QED BY <2>3, <3>1, <4>1, <4>2, <4>4
    <3>2. CASE e = "."
      BY <2>3, <2>4, <2>5, <3>2
    <3>3. CASE e \notin {".", "-"}
      <4>1. WithNext(w, e) = Append(w, e)
        BY <3>3 DEF WithNext
      <4>2. QED BY <2>1, <2>3, <2>4, <3>3, <4>1
    <3>4. QED BY <3>1, <3>2, <3>3
  <2>7. n \in 0..L
    OBVIOUS
  <2>8. QED BY <2>1, <2>6, <2>7 DEF w, e
<1>7. L \in T
  <2> HIDE DEF T, Prefix
  <2>1. 0..L \subseteq T
    <3> HIDE DEF L
    <3>1. QED BY <1>1, <1>5, <1>6, StepByStep
  <2>2. QED BY <1>1, <2>1
<1>8. QED BY <1>1, <1>7

LEMMA NamesOfStrings ==
  ASSUME NEW d \in Seq(STRING), IsDomainName(d)
  PROVE  NamespaceToDomain(DomainToNamespace(d)) = d
<1> DEFINE S == STRING \cup {"-", "."}
<1>1. d \in Seq(S) /\ "-" \in S /\ "." \in S
  BY SeqMonotonic
<1> HIDE DEF S
<1>2. QED BY <1>1, NamesRoundTrip

(***************************************************************************)
(* Namespaces and keys.                                                    *)
(***************************************************************************)
LEMMA NamespaceIs ==
  ASSUME NEW d \in Domains
  PROVE  /\ NamespaceOf(d) = DomainToNamespace(d)
         /\ NamespaceOf(d) \in Namespaces
         /\ DomainOf(NamespaceOf(d)) = d
<1> DEFINE Pair(e) == [domain |-> e, namespace |-> DomainToNamespace(e),
                       back |-> NamespaceToDomain(DomainToNamespace(e))]
<1>1. NamePairs = {Pair(e) : e \in Domains}
  BY DEF NamePairs
<1>2. \A e \in Domains : /\ Pair(e).domain = e /\ Pair(e).namespace = DomainToNamespace(e)
                         /\ Pair(e).back = NamespaceToDomain(DomainToNamespace(e))
  OBVIOUS
<1> HIDE DEF Pair
<1>3. (CHOOSE n \in NamePairs : n.domain = d) = Pair(d)
  <2>1. Pair(d) \in NamePairs /\ Pair(d).domain = d
    BY <1>1, <1>2
  <2>2. \A n \in NamePairs : n.domain = d => n = Pair(d)
    BY <1>1, <1>2
  <2>3. QED BY <2>1, <2>2
<1>4. NamespaceOf(d) = DomainToNamespace(d)
  BY <1>2, <1>3 DEF NamespaceOf
<1>5. NamespaceOf(d) \in Namespaces
  BY <1>1, <1>2, <1>4 DEF Namespaces
<1>6. DomainOf(NamespaceOf(d)) = NamespaceToDomain(DomainToNamespace(d))
  <2> DEFINE n == CHOOSE x \in NamePairs : x.namespace = NamespaceOf(d)
  <2>1. Pair(d) \in NamePairs /\ Pair(d).namespace = NamespaceOf(d)
    BY <1>1, <1>2, <1>4
  <2>2. n \in NamePairs /\ n.namespace = NamespaceOf(d)
    BY <2>1
  <2> HIDE DEF n
  <2>3. n.back = NamespaceToDomain(n.namespace)
    BY <1>1, <1>2, <2>2
  <2>4. DomainOf(NamespaceOf(d)) = n.back
    BY DEF DomainOf, n
  <2>5. QED BY <1>4, <2>2, <2>3, <2>4
<1>7. NamespaceToDomain(DomainToNamespace(d)) = d
  BY DomainsAssumption, NamesOfStrings
<1>8. QED BY <1>4, <1>5, <1>6, <1>7

LEMMA NamespacesDiffer ==
  ASSUME NEW d \in Domains, NEW e \in Domains
  PROVE  NamespaceOf(d) = NamespaceOf(e) <=> d = e
BY NamespaceIs

LEMMA DomainOfNamespace ==
  ASSUME NEW ns \in Namespaces
  PROVE  DomainOf(ns) \in Domains /\ ns = NamespaceOf(DomainOf(ns))
<1>1. PICK d \in Domains : ns = DomainToNamespace(d)
  BY DEF Namespaces, NamePairs
<1>2. ns = NamespaceOf(d) /\ DomainOf(ns) = d
  BY <1>1, NamespaceIs
<1>3. QED BY <1>2

\* The key of a service is neither that of a domain nor that of another service.
LEMMA KeysDiffer ==
  ASSUME NEW d \in Domains, NEW e \in Domains, NEW s \in ServicesOf[d]
  PROVE  /\ ServiceKey(d, s) \in ServiceKeys /\ ServiceKey(d, s) \in Keys2 /\ DomainKey(e) \in Keys2
         /\ ServiceKey(d, s) # DomainKey(e)
         /\ \A x \in ServicesOf[e] : ServiceKey(d, s) = ServiceKey(e, x) => d = e /\ s = x
<1>1. ServiceKey(d, s).of = NamespaceOf(d) /\ ServiceKey(d, s).svc = s /\ DomainKey(e).svc = Every
  BY DEF ServiceKey, DomainKey
<1>2. \A x : ServiceKey(e, x).of = NamespaceOf(e) /\ ServiceKey(e, x).svc = x
  BY DEF ServiceKey
<1>3. s # Every
  BY ServicesAssumption
<1>4. ServiceKey(d, s) \in ServiceKeys
  BY DEF ServiceKeys
<1>5. ServiceKey(d, s) \in Keys2 /\ DomainKey(e) \in Keys2
  BY <1>4 DEF Keys2
<1>6. QED BY <1>1, <1>2, <1>3, <1>4, <1>5, NamespacesDiffer

\* What a sync makes of a key.
LEMMA DomainOfKeys ==
  /\ \A d \in Domains : DomainOfKey(DomainKey(d)) = d /\ ServicesOfKey(DomainKey(d)) = ServicesOf[d]
  /\ \A d \in Domains : \A s \in ServicesOf[d] :
       DomainOfKey(ServiceKey(d, s)) = d /\ ServicesOfKey(ServiceKey(d, s)) = {s}
<1>1. ASSUME NEW d \in Domains
      PROVE  DomainOfKey(DomainKey(d)) = d /\ ServicesOfKey(DomainKey(d)) = ServicesOf[d]
  BY DEF DomainOfKey, ServicesOfKey, DomainKey
<1>2. ASSUME NEW d \in Domains, NEW s \in ServicesOf[d]
      PROVE  DomainOfKey(ServiceKey(d, s)) = d /\ ServicesOfKey(ServiceKey(d, s)) = {s}
  <2>1. s # Every /\ DomainOf(NamespaceOf(d)) = d
    BY ServicesAssumption, NamespaceIs
  <2>2. QED BY <2>1 DEF DomainOfKey, ServicesOfKey, ServiceKey
<1>3. QED BY <1>1, <1>2

LEMMA KeyOf ==
  ASSUME NEW k \in Keys2
  PROVE  \/ \E d \in Domains : k = DomainKey(d)
         \/ \E d \in Domains : \E s \in ServicesOf[d] : k = ServiceKey(d, s)
BY DEF Keys2, ServiceKeys

(***************************************************************************)
(* What the providers make of the domains.                                 *)
(***************************************************************************)
LEMMA ProvidedRolesAre ==
  ASSUME NEW p
  PROVE  p \in ProvidedRoles <=>
           \E f, d : f \in Versions /\ d \in ConvertibleIn(f) /\
             p = [versions |-> f, domain |-> d, configs |-> ConvertV1(ModelOf(f, d))]
BY DEF ProvidedRoles

LEMMA ProvidedPoliciesAre ==
  ASSUME NEW p
  PROVE  p \in ProvidedPolicies <=>
           \E f, d, s, t :
             /\ f \in Versions /\ d \in ConvertibleIn(f) /\ s \in ServicesOf[d] /\ t \in 0..MaxTime
             /\ p = [versions |-> f, domain |-> d, svc |-> s, time |-> t,
                     rules |-> ConvertV2(ModelOf(f, d), s, t)]
BY DEF ProvidedPolicies

LEMMA ConvertibleIs ==
  ASSUME ad \in Versions
  PROVE  Convertible = ConvertibleIn(ad)
<1>1. ASSUME NEW d \in Convertible
      PROVE  d \in ConvertibleIn(ad)
  <2>1. PICK p \in ProvidedRoles : p.versions = ad /\ p.domain = d
    BY DEF Convertible
  <2>2. PICK f, e : f \in Versions /\ e \in ConvertibleIn(f) /\
          p = [versions |-> f, domain |-> e, configs |-> ConvertV1(ModelOf(f, e))]
    BY <2>1, ProvidedRolesAre
  <2>3. QED BY <2>1, <2>2
<1>2. ASSUME NEW d \in ConvertibleIn(ad)
      PROVE  d \in Convertible
  <2> DEFINE p == [versions |-> ad, domain |-> d, configs |-> ConvertV1(ModelOf(ad, d))]
  <2>1. p \in ProvidedRoles
    BY ProvidedRolesAre
  <2>2. p.versions = ad /\ p.domain = d
    OBVIOUS
  <2>3. QED BY <2>1, <2>2 DEF Convertible
<1>3. QED BY <1>1, <1>2

LEMMA RolesWantedIs ==
  ASSUME ad \in Versions, NEW d \in Convertible
  PROVE  RolesWanted(d) = RolesAfterSync(roles[NamespaceOf(d)], ConvertV1(ModelOf(ad, d)))
<1> DEFINE p == [versions |-> ad, domain |-> d, configs |-> ConvertV1(ModelOf(ad, d))]
<1>1. d \in ConvertibleIn(ad)
  BY ConvertibleIs
<1>2. p \in ProvidedRoles /\ p.domain = d /\ p.versions = ad
  BY <1>1, ProvidedRolesAre
<1>3. ASSUME NEW q \in ProvidedRoles, q.domain = d, q.versions = ad
      PROVE  q.configs = ConvertV1(ModelOf(ad, d))
  <2>1. PICK f, e : f \in Versions /\ e \in ConvertibleIn(f) /\
          q = [versions |-> f, domain |-> e, configs |-> ConvertV1(ModelOf(f, e))]
    BY ProvidedRolesAre
  <2>2. QED BY <1>3, <2>1
<1> HIDE DEF p
<1>4. (CHOOSE q \in ProvidedRoles : q.domain = d /\ q.versions = ad).configs
        = ConvertV1(ModelOf(ad, d))
  BY <1>2, <1>3
<1>5. QED BY <1>4 DEF RolesWanted

LEMMA PolicyWantedIs ==
  ASSUME ad \in Versions, now \in 0..MaxTime, NEW d \in Convertible, NEW s \in ServicesOf[d]
  PROVE  /\ PolicyWanted(d, s) = ConvertV2(ModelOf(ad, d), s, now)
         /\ PolicyWanted(d, s) # Absent
<1> DEFINE p == [versions |-> ad, domain |-> d, svc |-> s, time |-> now,
                 rules |-> ConvertV2(ModelOf(ad, d), s, now)]
           Fits(q) == q.svc = s /\ q.time = now /\ q.domain = d /\ q.versions = ad
<1>1. d \in ConvertibleIn(ad)
  BY ConvertibleIs
<1>2. p \in ProvidedPolicies
  BY <1>1, ProvidedPoliciesAre
<1>3. Fits(p)
  OBVIOUS
<1>4. ASSUME NEW q \in ProvidedPolicies, Fits(q)
      PROVE  q.rules = ConvertV2(ModelOf(ad, d), s, now) /\ q.rules # Absent
  <2>1. PICK f, e, x, t :
          f \in Versions /\ e \in ConvertibleIn(f) /\ q = [versions |-> f, domain |-> e, svc |-> x, time |-> t,
               rules |-> ConvertV2(ModelOf(f, e), x, t)]
    BY ProvidedPoliciesAre
  <2>2. QED BY <1>4, <2>1, AbsentAssumption
<1> HIDE DEF p
<1>5. PolicyWanted(d, s) = (CHOOSE q \in ProvidedPolicies : Fits(q)).rules
  BY DEF PolicyWanted
<1> HIDE DEF Fits
<1>6. QED BY <1>2, <1>3, <1>4, <1>5

(***************************************************************************)
(* The data of a cached domain, and who is in its roles.                   *)
(***************************************************************************)
LEMMA DataOf ==
  ASSUME NEW f \in Versions, NEW d \in ExistingIn(f)
  PROVE  /\ d \in Domains /\ f[d] \in DOMAIN Data[d] /\ CacheOf(f)[d] = Data[d][f[d]]
         /\ CacheOf(f)[d].roles \in Seq(RolesIn(CacheOf(f)[d]))
         /\ \A q, r \in RolesIn(CacheOf(f)[d]) : q.name = r.name => q = r
         /\ \A role \in RolesIn(CacheOf(f)[d]) : /\ role.trust \in Domains \cup {NoTrust}
                                                 /\ \A x \in role.members : IsMember(x)
         /\ \A g \in DOMAIN CacheOf(f)[d].groups :
              /\ g \notin Principals /\ g.after # "*"
              /\ \A y \in CacheOf(f)[d].groups[g] : IsMember(y)
         /\ \A a \in Assertions(CacheOf(f)[d]) : a.svc \in DOMAIN SvcMatches
<1>1. d \in Domains /\ f[d] # NoDomain /\ f[d] \in DOMAIN Data[d]
  BY DEF ExistingIn, Versions
<1>2. CacheOf(f)[d] = Data[d][f[d]]
  BY <1>1 DEF CacheOf
<1> DEFINE data == Data[d][f[d]]
<1>3. /\ data.roles \in Seq(RolesIn(data))
      /\ \A q, r \in RolesIn(data) : q.name = r.name => q = r
      /\ \A role \in RolesIn(data) : /\ role.trust \in Domains \cup {NoTrust}
                                    /\ \A x \in role.members : IsMember(x)
      /\ \A g \in DOMAIN data.groups :
           g \notin Principals /\ g.after # "*" /\ \A y \in data.groups[g] : IsMember(y)
      /\ \A a \in Assertions(data) : a.svc \in DOMAIN SvcMatches
  BY <1>1, DataAssumption
<1> HIDE DEF data
<1>4. QED BY <1>1, <1>2, <1>3 DEF data

LEMMA ModelIs ==
  ASSUME NEW f, NEW d
  PROVE  /\ ModelOf(f, d).name = d
         /\ ModelOf(f, d).roles = getRolesForDomain(CacheOf(f)[d])
         /\ ModelOf(f, d).rules = getRulesForDomain(CacheOf(f)[d])
         /\ ModelOf(f, d).members = getMembersForRole(CacheOf(f), CacheOf(f)[d])
         /\ ModelOf(f, d).groups = CacheOf(f)[d].groups
BY DEF ModelOf, ConvertAthenzPoliciesIntoRbacModel

LEMMA RulesAre ==
  ASSUME NEW data
  PROVE  /\ DOMAIN getRulesForDomain(data) = {a.role : a \in Assertions(data)}
         /\ \A r \in DOMAIN getRulesForDomain(data) :
              getRulesForDomain(data)[r] = {a \in Assertions(data) : a.role = r}
BY DEF getRulesForDomain

\* The members of a role: its own, or those of the role it may be.
LEMMA MembersAre ==
  ASSUME NEW cached, NEW data, \A q, r \in RolesIn(data) : q.name = r.name => q = r,
         NEW role \in RolesIn(data)
  PROVE  /\ role.name \in DOMAIN getMembersForRole(cached, data)
              <=> role.trust = NoTrust \/ cached[role.trust] # NoDomain
         /\ role.name \in DOMAIN getMembersForRole(cached, data) =>
              getMembersForRole(cached, data)[role.name] =
                IF role.trust = NoTrust THEN role.members
                ELSE ProcessTrustDomain(cached[role.trust], role.name)
<1> DEFINE known == {x \in RolesIn(data) : x.trust = NoTrust \/ cached[x.trust] # NoDomain}
           members(x) == IF x.trust = NoTrust THEN x.members
                         ELSE ProcessTrustDomain(cached[x.trust], x.name)
<1>1. getMembersForRole(cached, data)
        = [r \in {x.name : x \in known} |-> members(RoleOf(data, r))]
  BY DEF getMembersForRole
<1>2. role.name \in {x.name : x \in known} <=> role \in known
  OBVIOUS
<1>3. RoleOf(data, role.name) = role
  BY DEF RoleOf
<1> HIDE DEF known, members
<1>4. role.name \in DOMAIN getMembersForRole(cached, data) <=> role \in known
  BY <1>1, <1>2
<1>5. role \in known => getMembersForRole(cached, data)[role.name] = members(role)
  BY <1>1, <1>2, <1>3
<1>6. QED BY <1>4, <1>5 DEF known, members

LEMMA MembersOnlyOfRoles ==
  ASSUME NEW cached, NEW data, NEW r \in DOMAIN getMembersForRole(cached, data)
  PROVE  \E role \in RolesIn(data) : role.name = r
BY DEF getMembersForRole

\* A delegated role has members of roles it may be, by the word of its trusted domain.
LEMMA TrustedAre ==
  ASSUME NEW data, NEW r, NEW x \in ProcessTrustDomain(data, r), data.policies # NoPolicies
  PROVE  \E role \in RolesIn(data) :
           /\ x \in role.members /\ role.trust = NoTrust
           /\ \E a \in Assertions(data) :
                a.action = "assume_role" /\ a.role = role.name /\ r \in a.covers
<1>1. PICK role \in AssumedRoles(data, r) : x \in role.members /\ role.trust = NoTrust
  BY DEF ProcessTrustDomain
<1>2. PICK n \in DOMAIN data.policies :
        /\ data.policies[n].action = "assume_role" /\ r \in data.policies[n].covers
        /\ \E q \in RolesIn(data) : q.name = data.policies[n].role
        /\ role = RoleOf(data, data.policies[n].role)
  BY <1>1 DEF AssumedRoles
<1>3. role \in RolesIn(data) /\ role.name = data.policies[n].role
  BY <1>2 DEF RoleOf
<1>4. data.policies[n] \in Assertions(data)
  BY DEF Assertions
<1>5. QED BY <1>1, <1>2, <1>3, <1>4

(***************************************************************************)
(* The resources of v1.                                                    *)
(***************************************************************************)
HasConfigs(m, r) == r \in DOMAIN m.rules /\ OwnRole(m, r) /\ GetServiceRoleSpec(m, r) # {}

KeyOfRole(kind, r) == [kind |-> kind, name |-> ConvertAthenzRoleNameToK8sName(r.role)]

RoleConfig(m, r) == [key |-> KeyOfRole("ServiceRole", r), spec |-> GetServiceRoleSpec(m, r)]

BindingConfig(m, r) ==
  [key |-> KeyOfRole("ServiceRoleBinding", r), spec |-> GetServiceRoleBindingSpec(m, r)]

LEMMA ConfigsOfRoleAre ==
  ASSUME NEW m, NEW r, NEW S, RoleConfig(m, r) \in S, BindingConfig(m, r) \in S
  PROVE  /\ ConfigsOfRole(m, r) \in Seq(S)
         /\ \A c : c \in Range(ConfigsOfRole(m, r)) <=>
              /\ HasConfigs(m, r)
              /\ c = RoleConfig(m, r) \/ (r \in DOMAIN m.members /\ c = BindingConfig(m, r))
<1> DEFINE role == RoleConfig(m, r)
           binding == BindingConfig(m, r)
<1>1. ConfigsOfRole(m, r) = IF ~HasConfigs(m, r) THEN <<>>
                            ELSE IF r \in DOMAIN m.members THEN <<role, binding>> ELSE <<role>>
  BY DEF ConfigsOfRole, HasConfigs, RoleConfig, BindingConfig, KeyOfRole
<1> HIDE DEF role, binding
<1>2. role \in S /\ binding \in S
  BY DEF role, binding
<1>3. <<>> \in Seq(S) /\ <<role, binding>> \in Seq(S) /\ <<role>> \in Seq(S)
  BY <1>2
<1>4. Range(<<>>) = {} /\ Range(<<role, binding>>) = {role, binding} /\ Range(<<role>>) = {role}
  BY DEF Range
<1>5. ConfigsOfRole(m, r) \in Seq(S)
  BY <1>1, <1>3
<1>6. ASSUME NEW c
      PROVE  c \in Range(ConfigsOfRole(m, r)) <=>
               /\ HasConfigs(m, r)
               /\ c = role \/ (r \in DOMAIN m.members /\ c = binding)
  BY <1>1, <1>4
<1>7. QED BY <1>5, <1>6 DEF role, binding

\* The resources of a domain: those of its roles.
LEMMA ConfigsAre ==
  ASSUME NEW f \in Versions, NEW d \in ExistingIn(f)
  PROVE  /\ \E S : ConvertV1(ModelOf(f, d)) \in Seq(S)
         /\ \A c : c \in Range(ConvertV1(ModelOf(f, d))) <=>
              \E role \in RolesIn(CacheOf(f)[d]) :
                /\ HasConfigs(ModelOf(f, d), role.name)
                /\ \/ c = RoleConfig(ModelOf(f, d), role.name)
                   \/ /\ role.name \in DOMAIN ModelOf(f, d).members
                      /\ c = BindingConfig(ModelOf(f, d), role.name)
<1> DEFINE m == ModelOf(f, d)
           data == CacheOf(f)[d]
           L == Len(data.roles)
           parts == [n \in DOMAIN m.roles |-> ConfigsOfRole(m, m.roles[n])]
           S == {RoleConfig(m, role.name) : role \in RolesIn(data)}
                  \cup {BindingConfig(m, role.name) : role \in RolesIn(data)}
<1>1. data.roles \in Seq(RolesIn(data)) /\ L \in Nat /\ DOMAIN data.roles = 1..L
      /\ \A n \in 1..L : data.roles[n] \in RolesIn(data)
  BY DataOf
<1>2. DOMAIN m.roles = 1..L /\ \A n \in 1..L : m.roles[n] = data.roles[n].name
  <2>1. m.roles = getRolesForDomain(data)
    BY ModelIs
  <2> HIDE DEF m, data, L
  <2>2. QED BY <1>1, <2>1 DEF getRolesForDomain
<1>3. RolesIn(data) = {data.roles[n] : n \in 1..L}
  BY <1>1 DEF RolesIn
<1> HIDE DEF m, data, L
<1>4. ASSUME NEW role \in RolesIn(data)
      PROVE  /\ ConfigsOfRole(m, role.name) \in Seq(S)
             /\ \A c : c \in Range(ConfigsOfRole(m, role.name)) <=>
                  /\ HasConfigs(m, role.name)
                  /\ \/ c = RoleConfig(m, role.name)
                     \/ role.name \in DOMAIN m.members /\ c = BindingConfig(m, role.name)
  <2>1. RoleConfig(m, role.name) \in S /\ BindingConfig(m, role.name) \in S
    OBVIOUS
  <2> HIDE DEF S
  <2>2. QED BY <2>1, ConfigsOfRoleAre
<1> HIDE DEF S
<1>5. parts \in [1..L -> Seq(S)] /\ \A n \in 1..L : parts[n] = ConfigsOfRole(m, data.roles[n].name)
  BY <1>1, <1>2, <1>4
<1>6. ConvertV1(m) = FlattenSeq(parts)
  BY DEF ConvertV1
<1> HIDE DEF parts
<1>7. parts \in Seq(Seq(S)) /\ Len(parts) = L
  BY <1>1, <1>5
<1>8. FlattenSeq(parts) \in Seq(S)
      /\ Range(FlattenSeq(parts)) = UNION {Range(parts[n]) : n \in 1..L}
  BY <1>7, FlattenType, RangeOfFlatten
<1>9. ASSUME NEW c
      PROVE  c \in Range(ConvertV1(m)) <=>
               \E role \in RolesIn(data) : c \in Range(ConfigsOfRole(m, role.name))
  BY <1>3, <1>5, <1>6, <1>8
<1>10. QED BY <1>4, <1>6, <1>8, <1>9 DEF m, data

(***************************************************************************)
(* What a sync of v1 changes.                                              *)
(***************************************************************************)
LEMMA AfterSync ==
  ASSUME NEW S, NEW C \in Seq(S), NEW have, NEW k
  PROVE  /\ k \in DOMAIN RolesAfterSync(have, C) <=> \E c \in Range(C) : c.key = k
         /\ k \in DOMAIN RolesAfterSync(have, C) =>
              \/ /\ k \in DOMAIN have /\ RolesAfterSync(have, C)[k] = have[k]
                 /\ \A c \in Range(C) : c.key = k => c.spec = have[k]
              \/ \E c \in Range(C) : /\ c.key = k /\ RolesAfterSync(have, C)[k] = c.spec
                                     /\ k \notin DOMAIN have \/ have[k] # c.spec
<1> DEFINE Differing(x) == {n \in DOMAIN C : C[n].key = x /\ (x \notin DOMAIN have \/ have[x] # C[n].spec)}
           Value(x) == IF Differing(x) = {} THEN have[x] ELSE C[Min(Differing(x))].spec
           keys == {C[n].key : n \in DOMAIN C}
<1>1. RolesAfterSync(have, C) = [x \in keys |-> Value(x)]
  BY DEF RolesAfterSync
<1>2. DOMAIN C = 1..Len(C) /\ Len(C) \in Nat /\ Range(C) = {C[n] : n \in DOMAIN C}
  BY DEF Range
<1>3. k \in keys <=> \E c \in Range(C) : c.key = k
  BY <1>2
<1>4. ASSUME k \in keys, Differing(k) = {}
      PROVE  /\ k \in DOMAIN have /\ Value(k) = have[k]
             /\ \A c \in Range(C) : c.key = k => c.spec = have[k]
  BY <1>2, <1>4
<1>5. ASSUME Differing(k) # {}
      PROVE  \E c \in Range(C) : /\ c.key = k /\ Value(k) = c.spec
                                 /\ k \notin DOMAIN have \/ have[k] # c.spec
  <2>1. Differing(k) \subseteq Nat
    BY <1>2
  <2>2. Min(Differing(k)) \in Differing(k)
    <3> HIDE DEF Differing
    <3>1. \E m \in Differing(k) : \A n \in Differing(k) : m <= n
      BY <1>5, <2>1, LeastNumber
    <3>2. QED BY <3>1 DEF Min
  <2>3. Value(k) = C[Min(Differing(k))].spec
    BY <1>5
  <2> DEFINE i == Min(Differing(k))
  <2>4. i \in DOMAIN C /\ C[i].key = k /\ (k \notin DOMAIN have \/ have[k] # C[i].spec)
    BY <2>2
  <2> HIDE DEF Differing, Value
  <2>5. QED BY <1>2, <2>3, <2>4
<1> HIDE DEF Value, keys
<1>6. DOMAIN RolesAfterSync(have, C) = keys /\ \A x \in keys : RolesAfterSync(have, C)[x] = Value(x)
  BY <1>1
<1> HIDE DEF Differing
<1>7. QED BY <1>3, <1>4, <1>5, <1>6

LEMMA StaleKeys ==
  ASSUME NEW S, NEW C \in Seq(S), NEW have, NEW k
  PROVE  k \in Differs(have, RolesAfterSync(have, C)) <=>
           \/ k \in DOMAIN have /\ ~\E c \in Range(C) : c.key = k
           \/ \E c \in Range(C) : c.key = k /\ (k \notin DOMAIN have \/ have[k] # c.spec)
<1> DEFINE want == RolesAfterSync(have, C)
<1>1. k \in Differs(have, want) <=>
        \/ k \in DOMAIN have /\ k \notin DOMAIN want
        \/ k \in DOMAIN want /\ (k \notin DOMAIN have \/ have[k] # want[k])
  BY DEF Differs
<1>2. k \in DOMAIN want <=> \E c \in Range(C) : c.key = k
  BY AfterSync
<1>3. k \in DOMAIN want =>
        \/ /\ k \in DOMAIN have /\ want[k] = have[k]
           /\ \A c \in Range(C) : c.key = k => c.spec = have[k]
        \/ \E c \in Range(C) : /\ c.key = k /\ want[k] = c.spec
                               /\ k \notin DOMAIN have \/ have[k] # c.spec
  BY AfterSync
<1> HIDE DEF want
<1>4. QED BY <1>1, <1>2, <1>3 DEF want

\* Only delegated roles tell the versions of the other domains apart.
LEMMA ConfigsFollowTrust ==
  ASSUME NEW f \in Versions, NEW g \in Versions, NEW d \in ExistingIn(f), g[d] = f[d],
         NEW c \in Range(ConvertV1(ModelOf(f, d)))
  PROVE  \/ c \in Range(ConvertV1(ModelOf(g, d)))
         \/ /\ c.key.kind = "ServiceRoleBinding"
            /\ \E role \in RolesIn(CacheOf(f)[d]) :
                 role.trust # NoTrust /\ c.key.name = ConvertAthenzRoleNameToK8sName(role.name.role)
<1> DEFINE data == CacheOf(f)[d]
           m == ModelOf(f, d)
           n == ModelOf(g, d)
<1>1. d \in ExistingIn(g) /\ CacheOf(g)[d] = data
  BY DataOf DEF ExistingIn, CacheOf
<1>2. PICK role \in RolesIn(data) :
        /\ HasConfigs(m, role.name)
        /\ \/ c = RoleConfig(m, role.name)
           \/ role.name \in DOMAIN m.members /\ c = BindingConfig(m, role.name)
  BY ConfigsAre
<1>3. m.name = d /\ n.name = d /\ m.rules = getRulesForDomain(data) /\ n.rules = getRulesForDomain(data)
      /\ m.members = getMembersForRole(CacheOf(f), data) /\ n.members = getMembersForRole(CacheOf(g), data)
  BY <1>1, ModelIs
<1>4. \A q, r \in RolesIn(data) : q.name = r.name => q = r
  BY DataOf
<1>5. ASSUME \/ c = RoleConfig(n, role.name)
             \/ role.name \in DOMAIN n.members /\ c = BindingConfig(n, role.name),
             HasConfigs(n, role.name)
      PROVE  c \in Range(ConvertV1(n))
  BY <1>1, <1>5, ConfigsAre
<1> HIDE DEF data, m, n
<1>6. HasConfigs(n, role.name) /\ RoleConfig(n, role.name) = RoleConfig(m, role.name)
  BY <1>2, <1>3 DEF HasConfigs, RoleConfig, GetServiceRoleSpec, OwnRole, Usable
<1>7. CASE c = RoleConfig(m, role.name)
  BY <1>5, <1>6, <1>7 DEF n
<1>8. CASE role.name \in DOMAIN m.members /\ c = BindingConfig(m, role.name) /\ role.trust = NoTrust
  <2>1. role.name \in DOMAIN n.members /\ n.members[role.name] = m.members[role.name]
    BY <1>3, <1>4, <1>8, MembersAre
  <2>2. BindingConfig(n, role.name) = BindingConfig(m, role.name)
    BY <2>1 DEF BindingConfig, GetServiceRoleBindingSpec, NamesBound
  <2>3. QED BY <1>5, <1>6, <1>8, <2>1, <2>2 DEF n
<1>9. CASE role.name \in DOMAIN m.members /\ c = BindingConfig(m, role.name) /\ role.trust # NoTrust
  <2>1. c.key.kind = "ServiceRoleBinding" /\ c.key.name = ConvertAthenzRoleNameToK8sName(role.name.role)
    BY <1>9 DEF BindingConfig, KeyOfRole
  <2>2. QED BY <1>9, <2>1 DEF data
<1>10. QED BY <1>2, <1>7, <1>8, <1>9

(***************************************************************************)
(* The kinds of values.                                                    *)
(***************************************************************************)
RolesTyped(have) ==
  \A k \in DOMAIN have : have[k] # {} /\ k.kind \in {"ServiceRole", "ServiceRoleBinding"}

LEMMA ConfigsTyped ==
  ASSUME NEW f \in Versions, NEW d \in ExistingIn(f), NEW c \in Range(ConvertV1(ModelOf(f, d)))
  PROVE  c.spec # {} /\ c.key.kind \in {"ServiceRole", "ServiceRoleBinding"}
<1> DEFINE m == ModelOf(f, d)
<1>1. PICK role \in RolesIn(CacheOf(f)[d]) :
        /\ HasConfigs(m, role.name)
        /\ \/ c = RoleConfig(m, role.name)
           \/ role.name \in DOMAIN m.members /\ c = BindingConfig(m, role.name)
  BY ConfigsAre
<1>2. GetServiceRoleSpec(m, role.name) # {}
  BY <1>1 DEF HasConfigs
<1>3. RoleToSpiffe(role.name) \in GetServiceRoleBindingSpec(m, role.name)
  BY DEF GetServiceRoleBindingSpec
<1> HIDE DEF m
<1>4. QED BY <1>1, <1>2, <1>3 DEF RoleConfig, BindingConfig, KeyOfRole

LEMMA RolesWantedTyped ==
  ASSUME ad \in Versions, NEW d \in Convertible, RolesTyped(roles[NamespaceOf(d)])
  PROVE  RolesTyped(RolesWanted(d))
<1> DEFINE have == roles[NamespaceOf(d)]
           C == ConvertV1(ModelOf(ad, d))
<1>1. d \in ExistingIn(ad)
  BY ConvertibleIs DEF ConvertibleIn
<1>2. PICK S : C \in Seq(S)
  BY <1>1, ConfigsAre
<1>3. RolesWanted(d) = RolesAfterSync(have, C)
  BY RolesWantedIs
<1>4. ASSUME NEW c \in Range(C)
      PROVE  c.spec # {} /\ c.key.kind \in {"ServiceRole", "ServiceRoleBinding"}
  BY <1>1, <1>4, ConfigsTyped
<1>5. \A k \in DOMAIN have : have[k] # {} /\ k.kind \in {"ServiceRole", "ServiceRoleBinding"}
  BY DEF RolesTyped
<1> HIDE DEF have, C
<1>6. ASSUME NEW k \in DOMAIN RolesAfterSync(have, C)
      PROVE  /\ RolesAfterSync(have, C)[k] # {}
             /\ k.kind \in {"ServiceRole", "ServiceRoleBinding"}
  <2>1. \E c \in Range(C) : c.key = k
    BY <1>2, <1>6, AfterSync
  <2>2. \/ k \in DOMAIN have /\ RolesAfterSync(have, C)[k] = have[k]
        \/ \E c \in Range(C) : RolesAfterSync(have, C)[k] = c.spec
    BY <1>2, <1>6, AfterSync
  <2>3. QED BY <1>4, <1>5, <2>1, <2>2
<1>7. QED BY <1>3, <1>6 DEF RolesTyped

LEMMA TypeIs ==
  TypeOK <=> /\ ad \in Versions /\ now \in 0..MaxTime
             /\ DOMAIN roles = Namespaces /\ \A ns \in Namespaces : RolesTyped(roles[ns])
             /\ DOMAIN policies = ServiceKeys
             /\ todo1 \subseteq Domains /\ todo2 \subseteq Keys2 /\ edits \in 0..MaxEdits
BY DEF TypeOK, RolesTyped

\* What the informers report of the domains and their resources.
LEMMA InitialKeysAre ==
  ASSUME ad \in Versions
  PROVE  /\ Existing \subseteq InitialKeys1 /\ InitialKeys1 \subseteq Domains
         /\ ServiceKeys \subseteq InitialKeys2 /\ InitialKeys2 \subseteq Keys2
<1>1. Existing \subseteq Domains
  BY DEF Existing, ExistingIn
<1>2. \A ns \in Namespaces : DomainOf(ns) \in Domains
  BY DomainOfNamespace
<1>3. QED BY <1>1, <1>2 DEF InitialKeys1, InitialKeys2, Keys2

LEMMA InitType == Init => TypeOK
<1> SUFFICES ASSUME Init PROVE TypeOK
  OBVIOUS
<1>1. 0 \in 0..MaxTime /\ 0 \in 0..MaxEdits
  BY BoundsAssumption
<1>2. \A ns \in Namespaces : RolesTyped(roles[ns])
  BY DEF Init, RolesTyped
<1>3. InitialKeys1 \subseteq Domains /\ InitialKeys2 \subseteq Keys2
  BY InitialKeysAre DEF Init
<1>4. QED BY <1>1, <1>2, <1>3, TypeIs DEF Init

LEMMA TypeStep == TypeOK /\ [Next]_vars => TypeOK'
<1> SUFFICES ASSUME TypeOK, [Next]_vars PROVE TypeOK'
  OBVIOUS
<1> DEFINE Typed ==
      /\ ad' \in Versions /\ now' \in 0..MaxTime
      /\ DOMAIN roles' = Namespaces /\ \A ns \in Namespaces : RolesTyped(roles'[ns])
      /\ DOMAIN policies' = ServiceKeys
      /\ todo1' \subseteq Domains /\ todo2' \subseteq Keys2 /\ edits' \in 0..MaxEdits
<1>0. Typed => TypeOK'
  BY DEF TypeOK, RolesTyped
<1>1. /\ ad \in Versions /\ now \in 0..MaxTime
      /\ DOMAIN roles = Namespaces /\ \A ns \in Namespaces : RolesTyped(roles[ns])
      /\ DOMAIN policies = ServiceKeys
      /\ todo1 \subseteq Domains /\ todo2 \subseteq Keys2 /\ edits \in 0..MaxEdits
  BY TypeIs
<1>2. Existing \subseteq Domains /\ Convertible \subseteq Domains
  BY <1>1, ConvertibleIs DEF ConvertibleIn, Existing, ExistingIn
<1>3. Edited => edits' \in 0..MaxEdits
  BY <1>1, BoundsAssumption DEF Edited
<1>4. ASSUME NEW d \in Domains, AthenzChanges(d) PROVE Typed
  <2>1. ad' \in Versions
    <3>1. PICK v \in DOMAIN Data[d] \cup {NoDomain} : ad' = [ad EXCEPT ![d] = v]
      BY <1>4 DEF AthenzChanges
    <3>2. v \in (UNION {DOMAIN Data[e] : e \in Domains}) \cup {NoDomain}
      BY <3>1
    <3>3. QED BY <1>1, <3>1, <3>2 DEF Versions
  <2>2. DomainKey(d) \in Keys2
    BY DEF Keys2
  <2>3. QED BY <1>1, <1>3, <1>4, <2>1, <2>2 DEF AthenzChanges
<1>5. ASSUME NEW d \in Domains, SyncRoles(d) PROVE Typed
  <2>1. d \in Convertible /\ roles' = [roles EXCEPT ![NamespaceOf(d)] = RolesWanted(d)]
    BY <1>5 DEF SyncRoles
  <2>2. NamespaceOf(d) \in Namespaces /\ DomainOf(NamespaceOf(d)) \in Domains
    BY NamespaceIs
  <2>3. RolesTyped(RolesWanted(d))
    BY <1>1, <2>1, <2>2, RolesWantedTyped
  <2>4. DOMAIN roles' = Namespaces /\ \A ns \in Namespaces : RolesTyped(roles'[ns])
    BY <1>1, <2>1, <2>3
  <2>5. todo1' \subseteq Domains
    BY <1>1, <1>5, <2>2 DEF SyncRoles
  <2>6. QED BY <1>1, <1>5, <2>4, <2>5 DEF SyncRoles
<1>6. ASSUME NEW k \in Keys2, SyncPolicies(k) PROVE Typed
  <2> DEFINE d == DomainOfKey(k)
             written == {s \in ServicesOfKey(k) : policies[ServiceKey(d, s)] # PolicyWanted(d, s)}
  <2>1. DOMAIN policies' = ServiceKeys
    BY <1>6 DEF SyncPolicies
  <2>2. todo2' = (todo2 \ {k}) \cup {ServiceKey(d, s) : s \in written}
    BY <1>6 DEF SyncPolicies
  <2>3. \A s \in ServicesOfKey(k) : ServiceKey(d, s) \in Keys2
    <3>1. CASE \E e \in Domains : k = DomainKey(e)
      BY <3>1, DomainOfKeys, KeysDiffer
    <3>2. CASE \E e \in Domains : \E s \in ServicesOf[e] : k = ServiceKey(e, s)
      BY <3>2, DomainOfKeys, KeysDiffer
    <3>3. QED BY <3>1, <3>2, KeyOf
  <2>4. todo2' \subseteq Keys2
    BY <1>1, <2>2, <2>3
  <2>5. QED BY <1>1, <1>6, <2>1, <2>4 DEF SyncPolicies
<1>7. ASSUME NEW ns \in Namespaces, RoleDeleted(ns) PROVE Typed
  <2>1. PICK k \in DOMAIN roles[ns] :
          roles' = [roles EXCEPT ![ns] = [x \in DOMAIN roles[ns] \ {k} |-> roles[ns][x]]]
    BY <1>7 DEF RoleDeleted
  <2>2. RolesTyped([x \in DOMAIN roles[ns] \ {k} |-> roles[ns][x]])
    BY <1>1 DEF RolesTyped
  <2>3. DOMAIN roles' = Namespaces /\ \A n \in Namespaces : RolesTyped(roles'[n])
    BY <1>1, <2>1, <2>2
  <2>4. DomainOf(ns) \in Domains
    BY DomainOfNamespace
  <2>5. QED BY <1>1, <1>3, <1>7, <2>3, <2>4 DEF RoleDeleted
<1>8. ASSUME NEW k \in ServiceKeys, PolicyDeleted(k) PROVE Typed
  <2>1. k \in Keys2
    BY DEF Keys2
  <2>2. QED BY <1>1, <1>3, <1>8, <2>1 DEF PolicyDeleted
<1>9. ASSUME Tick PROVE Typed
  <2>1. now' \in 0..MaxTime
    BY <1>1, <1>9, BoundsAssumption DEF Tick
  <2>2. QED BY <1>1, <1>9, <2>1 DEF Tick
<1>10. ASSUME SyncFails PROVE Typed
  BY <1>1, <1>10 DEF SyncFails
<1>11. ASSUME SyncPanics PROVE Typed
  BY <1>1, <1>11, InitialKeysAre DEF SyncPanics
<1>12. ASSUME ResyncRoles PROVE Typed
  BY <1>1, <1>2, <1>12 DEF ResyncRoles
<1>13. ASSUME ResyncPolicies PROVE Typed
  BY <1>1, <1>2, <1>13 DEF ResyncPolicies, Keys2
<1>14. ASSUME UNCHANGED vars PROVE Typed
  BY <1>1, <1>14 DEF vars
<1> HIDE DEF Typed
<1>15. QED BY <1>0, <1>4, <1>5, <1>6, <1>7, <1>8, <1>9, <1>10, <1>11, <1>12, <1>13, <1>14 DEF Next

\* Every key pending is that of a domain or a service, no ServiceRole is without
\* a rule and no binding without a subject.
THEOREM TypeCorrect == Spec => []TypeOK
<1>1. QED BY InitType, TypeStep, PTL DEF Spec

(***************************************************************************)
(* What is there without a key pending was provided.                       *)
(***************************************************************************)
LEMMA WantedRolesAreProvided ==
  ASSUME ad \in Versions, NEW d \in Convertible, RolesWanted(d) = roles[NamespaceOf(d)]
  PROVE  RolesProvided(d)
<1> DEFINE p == [versions |-> ad, domain |-> d, configs |-> ConvertV1(ModelOf(ad, d))]
<1>1. p \in ProvidedRoles
  BY ConvertibleIs, ProvidedRolesAre
<1>2. p.domain = d /\ p.versions = ad /\ p.configs = ConvertV1(ModelOf(ad, d))
  OBVIOUS
<1> HIDE DEF p
<1>3. RolesAfterSync(roles[NamespaceOf(d)], p.configs) = roles[NamespaceOf(d)]
  BY <1>2, RolesWantedIs
<1>4. QED BY <1>1, <1>2, <1>3 DEF RolesProvided

LEMMA WantedPoliciesAreProvided ==
  ASSUME ad \in Versions, now \in 0..MaxTime, NEW d \in Convertible, NEW s \in ServicesOf[d],
         policies[ServiceKey(d, s)] = PolicyWanted(d, s)
  PROVE  PoliciesProvided(d, s)
<1> DEFINE p == [versions |-> ad, domain |-> d, svc |-> s, time |-> now,
                 rules |-> ConvertV2(ModelOf(ad, d), s, now)]
<1>1. p \in ProvidedPolicies
  BY ConvertibleIs, ProvidedPoliciesAre
<1>2. p.domain = d /\ p.svc = s /\ p.versions = ad /\ p.time = now
      /\ p.rules = ConvertV2(ModelOf(ad, d), s, now)
  OBVIOUS
<1> HIDE DEF p
<1>3. p.time <= now /\ policies[ServiceKey(d, s)] = p.rules
  BY <1>2, PolicyWantedIs, BoundsAssumption
<1>4. QED BY <1>1, <1>2, <1>3 DEF PoliciesProvided

LEMMA ProvidedInit == Init => ProvidedUnlessPending
<1> SUFFICES ASSUME Init PROVE ProvidedUnlessPending
  OBVIOUS
<1>1. Existing \subseteq todo1 /\ ServiceKeys \subseteq todo2
  BY InitialKeysAre DEF Init
<1>2. ASSUME NEW d \in Existing, NEW s \in ServicesOf[d]
      PROVE  ServiceKey(d, s) \in todo2
  <2>1. d \in Domains
    BY DEF Existing, ExistingIn
  <2>2. QED BY <1>1, <2>1, KeysDiffer
<1>3. QED BY <1>1, <1>2 DEF ProvidedUnlessPending

\* The ServiceRoles and bindings of d, or its key.
LEMMA ProvidedRolesStep ==
  ASSUME TypeOK, TypeOK', Next, NEW d \in Existing', ad'[d] = ad[d],
         d \in todo1 \/ RolesProvided(d)
  PROVE  d \in todo1' \/ RolesProvided(d)'
<1> DEFINE ns == NamespaceOf(d)
<1>1. d \in Domains /\ d \in Existing /\ ad \in Versions /\ ns \in DOMAIN roles
  <2>1. d \in Domains /\ d \in Existing
    BY DEF Existing, ExistingIn
  <2>2. QED BY <2>1, NamespaceIs DEF TypeOK
<1>2. ASSUME roles'[ns] = roles[ns], d \in todo1 => d \in todo1'
      PROVE  d \in todo1' \/ RolesProvided(d)'
  BY <1>2 DEF RolesProvided
<1>3. ASSUME NEW e \in Domains, AthenzChanges(e) PROVE d \in todo1' \/ RolesProvided(d)'
  BY <1>2, <1>3 DEF AthenzChanges
<1>4. ASSUME NEW e \in Domains, SyncRoles(e) PROVE d \in todo1' \/ RolesProvided(d)'
  <2>1. CASE e = d
    <3>1. /\ d \in Convertible /\ roles' = [roles EXCEPT ![ns] = RolesWanted(d)]
          /\ RolesWanted(d) = roles[ns] \/ DomainOf(ns) \in todo1'
      BY <1>4, <2>1 DEF SyncRoles
    <3>2. DomainOf(ns) = d
      BY <1>1, NamespaceIs
    <3>3. CASE RolesWanted(d) = roles[ns]
      <4>1. RolesProvided(d)
        BY <1>1, <3>1, <3>3, WantedRolesAreProvided
      <4>2. roles'[ns] = roles[ns]
        BY <1>1, <3>1, <3>3
      <4>3. QED BY <4>1, <4>2 DEF RolesProvided
    <3>4. QED BY <3>1, <3>2, <3>3
  <2>2. CASE e # d
    <3>1. NamespaceOf(e) # ns
      BY <1>1, <2>2, NamespacesDiffer
    <3>2. roles'[ns] = roles[ns] /\ (d \in todo1 => d \in todo1')
      BY <1>1, <1>4, <2>2, <3>1 DEF SyncRoles
    <3>3. QED BY <1>2, <3>2
  <2>3. QED BY <2>1, <2>2
<1>5. ASSUME NEW n \in Namespaces, RoleDeleted(n) PROVE d \in todo1' \/ RolesProvided(d)'
  <2>1. CASE n = ns
    <3>1. DomainOf(ns) = d
      BY <1>1, NamespaceIs
    <3>2. QED BY <1>5, <2>1, <3>1 DEF RoleDeleted
  <2>2. CASE n # ns
    <3>1. roles'[ns] = roles[ns] /\ (d \in todo1 => d \in todo1')
      BY <1>1, <1>5, <2>2 DEF RoleDeleted
    <3>2. QED BY <1>2, <3>1
  <2>3. QED BY <2>1, <2>2
<1>6. ASSUME NEW k \in Keys2, SyncPolicies(k) PROVE d \in todo1' \/ RolesProvided(d)'
  BY <1>2, <1>6 DEF SyncPolicies
<1>7. ASSUME NEW k \in ServiceKeys, PolicyDeleted(k) PROVE d \in todo1' \/ RolesProvided(d)'
  BY <1>2, <1>7 DEF PolicyDeleted
<1>8. ASSUME Tick \/ ResyncRoles \/ ResyncPolicies PROVE d \in todo1' \/ RolesProvided(d)'
  BY <1>2, <1>8 DEF Tick, ResyncRoles, ResyncPolicies
<1>9. ASSUME SyncFails PROVE d \in todo1' \/ RolesProvided(d)'
  <2>1. roles'[ns] = roles[ns] /\ (d \in todo1 => d \in todo1')
    BY <1>1, <1>9 DEF SyncFails
  <2>2. QED BY <1>2, <2>1
<1>10. ASSUME SyncPanics PROVE d \in todo1'
  BY <1>1, <1>10, InitialKeysAre DEF SyncPanics
<1>11. QED BY <1>3, <1>4, <1>5, <1>6, <1>7, <1>8, <1>9, <1>10 DEF Next

\* The AuthorizationPolicy of service s of d, or its key or that of d.
LEMMA ProvidedPoliciesStep ==
  ASSUME TypeOK, TypeOK', Next, NEW d \in Existing', NEW s \in ServicesOf[d], ad'[d] = ad[d],
         {DomainKey(d), ServiceKey(d, s)} \cap todo2 = {} => PoliciesProvided(d, s),
         {DomainKey(d), ServiceKey(d, s)} \cap todo2' = {}
  PROVE  PoliciesProvided(d, s)'
<1> DEFINE key == ServiceKey(d, s)
<1>1. /\ d \in Domains /\ d \in Existing /\ ad \in Versions /\ now \in 0..MaxTime
      /\ key \in ServiceKeys /\ DOMAIN policies = ServiceKeys /\ DomainKey(d) \in Keys2
      /\ now \in Nat /\ now' \in Nat
  <2>1. d \in Domains /\ d \in Existing
    BY DEF Existing, ExistingIn
  <2>2. QED BY <2>1, KeysDiffer, BoundsAssumption DEF TypeOK
<1>2. ASSUME policies'[key] = policies[key], now <= now',
             {DomainKey(d), key} \cap todo2 = {} \/ PoliciesProvided(d, s)
      PROVE  PoliciesProvided(d, s)'
  <2>1. PICK p \in ProvidedPolicies :
          /\ p.domain = d /\ p.svc = s /\ p.versions[d] = ad[d] /\ p.time <= now
          /\ policies[key] = p.rules
    BY <1>2 DEF PoliciesProvided
  <2>2. p.time \in Nat
    BY <2>1, ProvidedPoliciesAre, BoundsAssumption
  <2>3. p.time <= now'
    BY <1>1, <1>2, <2>1, <2>2
  <2>4. QED BY <1>2, <2>1, <2>3 DEF PoliciesProvided
<1>3. now <= now /\ (now' = now => now <= now')
  BY <1>1
<1> HIDE DEF key
<1>4. ASSUME NEW e \in Domains, AthenzChanges(e) PROVE PoliciesProvided(d, s)'
  BY <1>2, <1>3, <1>4 DEF AthenzChanges, key
<1>5. ASSUME NEW e \in Domains, SyncRoles(e) PROVE PoliciesProvided(d, s)'
  BY <1>2, <1>3, <1>5 DEF SyncRoles, key
<1>6. ASSUME NEW k \in Keys2, SyncPolicies(k) PROVE PoliciesProvided(d, s)'
  <2> DEFINE e == DomainOfKey(k)
             written == {x \in ServicesOfKey(k) : policies[ServiceKey(e, x)] # PolicyWanted(e, x)}
  <2>1. /\ e \in Convertible /\ ad' = ad /\ now' = now
        /\ todo2' = (todo2 \ {k}) \cup {ServiceKey(e, x) : x \in written}
        /\ policies' = [x \in ServiceKeys |->
                          IF x.of = NamespaceOf(e) /\ x.svc \in ServicesOfKey(k)
                          THEN PolicyWanted(e, x.svc) ELSE policies[x]]
    BY <1>6 DEF SyncPolicies
  <2>2. e \in Domains
    BY <1>1, <2>1, ConvertibleIs DEF ConvertibleIn, ExistingIn
  <2>3. key.of = NamespaceOf(d) /\ key.svc = s
    BY DEF key, ServiceKey
  <2>4. s \in written => e # d
    BY <2>1 DEF key
  <2>5. policies'[key] = policies[key]
    <3>1. NamespaceOf(d) = NamespaceOf(e) => d = e
      BY <1>1, <2>2, NamespacesDiffer
    <3>2. s \in ServicesOfKey(k) /\ e = d => policies[key] = PolicyWanted(d, s)
      BY <2>4 DEF key
    <3> HIDE DEF e, written
    <3>3. QED BY <1>1, <2>1, <2>3, <3>1, <3>2
  <2>6. CASE k \in {DomainKey(d), key}
    <3>1. e = d /\ s \in ServicesOfKey(k)
      BY <1>1, <2>6, DomainOfKeys DEF key
    <3>2. policies[key] = PolicyWanted(d, s) /\ d \in Convertible
      BY <2>1, <2>4, <3>1 DEF key
    <3>3. PoliciesProvided(d, s)
      BY <1>1, <3>2, WantedPoliciesAreProvided DEF key
    <3>4. QED BY <1>2, <1>3, <2>1, <2>5, <3>3
  <2>7. CASE k \notin {DomainKey(d), key}
    <3>1. {DomainKey(d), key} \cap todo2 = {}
      BY <2>1, <2>7 DEF key
    <3>2. QED BY <1>2, <1>3, <2>1, <2>5, <3>1
  <2>8. QED BY <2>6, <2>7
<1>7. ASSUME NEW n \in Namespaces, RoleDeleted(n) PROVE PoliciesProvided(d, s)'
  BY <1>2, <1>3, <1>7 DEF RoleDeleted, key
<1>8. ASSUME NEW k \in ServiceKeys, PolicyDeleted(k) PROVE PoliciesProvided(d, s)'
  <2>1. k # key
    BY <1>8 DEF PolicyDeleted, key
  <2>2. policies'[key] = policies[key]
    BY <1>1, <1>8, <2>1 DEF PolicyDeleted
  <2>3. QED BY <1>2, <1>3, <1>8, <2>2 DEF PolicyDeleted, key
<1>9. ASSUME Tick PROVE PoliciesProvided(d, s)'
  <2>1. now <= now'
    BY <1>1, <1>9 DEF Tick
  <2>2. QED BY <1>2, <1>9, <2>1 DEF Tick, key
<1>10. ASSUME SyncFails PROVE PoliciesProvided(d, s)'
  <2>1. \A k \in {DomainKey(d), key} : DomainOfKey(k) \in Existing
    BY <1>1, DomainOfKeys DEF key
  <2>2. {DomainKey(d), key} \cap todo2 = {}
    BY <1>10, <2>1 DEF SyncFails, key
  <2>3. QED BY <1>2, <1>3, <1>10, <2>2 DEF SyncFails
<1>11. ASSUME SyncPanics PROVE FALSE
  BY <1>1, <1>11, InitialKeysAre DEF SyncPanics, key
<1>12. ASSUME ResyncRoles PROVE PoliciesProvided(d, s)'
  BY <1>2, <1>3, <1>12 DEF ResyncRoles, key
<1>13. ASSUME ResyncPolicies PROVE PoliciesProvided(d, s)'
  BY <1>2, <1>3, <1>13 DEF ResyncPolicies, key
<1>14. QED BY <1>4, <1>5, <1>6, <1>7, <1>8, <1>9, <1>10, <1>11, <1>12, <1>13 DEF Next

LEMMA ProvidedStep ==
  TypeOK /\ TypeOK' /\ ProvidedUnlessPending /\ [Next]_vars => ProvidedUnlessPending'
<1> SUFFICES ASSUME TypeOK, TypeOK', ProvidedUnlessPending, [Next]_vars
             PROVE  ProvidedUnlessPending'
  OBVIOUS
<1>1. CASE Next
  <2> SUFFICES ASSUME NEW d \in Existing'
               PROVE  /\ d \in todo1' \/ RolesProvided(d)'
                      /\ \A s \in ServicesOf[d] :
                           {DomainKey(d), ServiceKey(d, s)} \cap todo2' = {}
                             => PoliciesProvided(d, s)'
    BY DEF ProvidedUnlessPending
  <2>1. d \in Domains
    BY DEF Existing, ExistingIn
  <2>2. CASE ad'[d] = ad[d]
    <3>1. d \in Existing
      BY <2>1, <2>2 DEF Existing, ExistingIn
    <3>2. d \in todo1 \/ RolesProvided(d)
      BY <3>1 DEF ProvidedUnlessPending
    <3>3. ASSUME NEW s \in ServicesOf[d]
          PROVE  {DomainKey(d), ServiceKey(d, s)} \cap todo2 = {} => PoliciesProvided(d, s)
      BY <3>1 DEF ProvidedUnlessPending
    <3>4. QED BY <1>1, <2>2, <3>2, <3>3, ProvidedRolesStep, ProvidedPoliciesStep
  <2>3. CASE ad'[d] # ad[d]
    <3>1. AthenzChanges(d)
      <4>1. ASSUME NEW e \in Domains, AthenzChanges(e) PROVE e = d
        BY <2>1, <2>3, <4>1 DEF AthenzChanges, TypeOK, Versions
      <4>2. ad' = ad \/ \E e \in Domains : AthenzChanges(e)
        BY <1>1 DEF Next, SyncRoles, SyncPolicies, RoleDeleted, PolicyDeleted, Tick, SyncFails,
                    SyncPanics, ResyncRoles, ResyncPolicies
      <4>3. QED BY <2>3, <4>1, <4>2
    <3>2. d \in todo1' /\ DomainKey(d) \in todo2'
      BY <3>1 DEF AthenzChanges
    <3>3. QED BY <3>2
  <2>4. QED BY <2>2, <2>3
<1>2. CASE UNCHANGED vars
  BY <1>2 DEF vars, ProvidedUnlessPending, RolesProvided, PoliciesProvided, Existing
<1>3. QED BY <1>1, <1>2

(***************************************************************************)
(* A resource without a key pending is what a provider made of the present *)
(* version of its domain at some moment up to now: no deleted resource and *)
(* none of an older version stays behind unnoticed, whatever changes,      *)
(* deletions, failed syncs and restarts come in between                    *)
(* (controller.go:90, authorizationpolicy/controller.go:171).              *)
(***************************************************************************)
THEOREM ProvidedHolds == Spec => []ProvidedUnlessPending
<1>1. Init => TypeOK /\ ProvidedUnlessPending
  BY InitType, ProvidedInit
<1>2. (TypeOK /\ ProvidedUnlessPending) /\ [Next]_vars => (TypeOK /\ ProvidedUnlessPending)'
  BY TypeStep, ProvidedStep
<1>3. QED BY <1>1, <1>2, PTL DEF Spec

(***************************************************************************)
(* What is out of date in silence.                                         *)
(***************************************************************************)
LEMMA StaleRolesAreTrusting ==
  ASSUME TypeOK, NEW d \in Convertible, RolesProvided(d), NEW k \in StaleRoles(d)
  PROVE  /\ k.kind = "ServiceRoleBinding"
         /\ \E r \in DelegatedRoles(d) : k.name = ConvertAthenzRoleNameToK8sName(r.role)
<1> DEFINE have == roles[NamespaceOf(d)]
           C(f) == ConvertV1(ModelOf(f, d))
           Trusting == /\ k.kind = "ServiceRoleBinding"
                       /\ \E role \in RolesIn(Cached(d)) :
                            /\ role.trust # NoTrust
                            /\ k.name = ConvertAthenzRoleNameToK8sName(role.name.role)
<1>1. ad \in Versions /\ d \in ExistingIn(ad)
  BY ConvertibleIs DEF TypeOK, ConvertibleIn
<1>2. PICK g \in Versions : d \in ExistingIn(g) /\ g[d] = ad[d] /\ RolesAfterSync(have, C(g)) = have
  <2>1. PICK p \in ProvidedRoles :
          /\ p.domain = d /\ p.versions[d] = ad[d] /\ RolesAfterSync(have, p.configs) = have
    BY DEF RolesProvided
  <2>2. PICK f, e : f \in Versions /\ e \in ConvertibleIn(f) /\
          p = [versions |-> f, domain |-> e, configs |-> ConvertV1(ModelOf(f, e))]
    BY ProvidedRolesAre
  <2>3. e = d /\ p.versions = f /\ p.configs = C(f)
    BY <2>1, <2>2
  <2>4. QED BY <2>1, <2>2, <2>3 DEF ConvertibleIn
<1>3. (\E S : C(ad) \in Seq(S)) /\ (\E S : C(g) \in Seq(S))
  BY <1>1, <1>2, ConfigsAre
<1>4. k \in Differs(have, RolesAfterSync(have, C(ad)))
  BY <1>1, RolesWantedIs DEF StaleRoles
<1>5. \/ k \in DOMAIN have /\ ~\E c \in Range(C(ad)) : c.key = k
      \/ \E c \in Range(C(ad)) : c.key = k /\ (k \notin DOMAIN have \/ have[k] # c.spec)
  <2> HIDE DEF have, C
  <2>1. QED BY <1>3, <1>4, StaleKeys
<1>6. CacheOf(g)[d] = Cached(d)
  BY <1>1, <1>2 DEF Cached, CacheOf, ExistingIn
<1>7. ASSUME NEW c \in Range(C(g)), c.key = k PROVE c \in Range(C(ad)) \/ Trusting
  BY <1>1, <1>2, <1>6, <1>7, ConfigsFollowTrust
<1>8. ASSUME NEW c \in Range(C(ad)), c.key = k PROVE c \in Range(C(g)) \/ Trusting
  BY <1>1, <1>2, <1>8, ConfigsFollowTrust DEF Cached
<1>9. Trusting
  <2> HIDE DEF have, C, Trusting
  <2>1. CASE k \in DOMAIN have /\ ~\E c \in Range(C(ad)) : c.key = k
    <3>1. k \in DOMAIN RolesAfterSync(have, C(g))
      BY <1>2, <2>1
    <3>2. PICK c \in Range(C(g)) : c.key = k
      BY <1>3, <3>1, AfterSync
    <3>3. QED BY <1>7, <2>1, <3>2
  <2>2. CASE \E c \in Range(C(ad)) : c.key = k /\ (k \notin DOMAIN have \/ have[k] # c.spec)
    <3>1. PICK c \in Range(C(ad)) : c.key = k /\ (k \notin DOMAIN have \/ have[k] # c.spec)
      BY <2>2
    <3>2. k \notin Differs(have, RolesAfterSync(have, C(g)))
      BY <1>2 DEF Differs
    <3>3. c \notin Range(C(g))
      BY <1>3, <3>1, <3>2, StaleKeys
    <3>4. QED BY <1>8, <3>1, <3>3
  <2>3. QED BY <1>5, <2>1, <2>2
<1>10. QED BY <1>9 DEF DelegatedRoles

\* Who is active in a role that neither trusts nor has anyone expired.
LEMMA ActiveUntilExpired ==
  ASSUME TypeOK, NEW g \in Versions, NEW d \in ExistingIn(g), ad \in Versions, g[d] = ad[d],
         NEW t \in Nat, t <= now, NEW r, r \notin DelegatedRoles(d) \cup ExpiredRoles(d)
  PROVE  ActiveMembers(ModelOf(g, d), r, t) = ActiveMembers(ModelOf(ad, d), r, now)
<1> DEFINE data == Cached(d)
           m == ModelOf(g, d)
           n == ModelOf(ad, d)
<1>1. d \in ExistingIn(ad) /\ CacheOf(g)[d] = data /\ CacheOf(ad)[d] = data /\ now \in Nat
  BY BoundsAssumption DEF ExistingIn, Cached, CacheOf, TypeOK
<1>2. /\ \A q, x \in RolesIn(data) : q.name = x.name => q = x
      /\ \A role \in RolesIn(data) : \A x \in role.members : IsMember(x)
      /\ \A x \in DOMAIN data.groups : \A y \in data.groups[x] : IsMember(y)
  BY <1>1, DataOf
<1>3. /\ m.members = getMembersForRole(CacheOf(g), data) /\ m.groups = data.groups
      /\ n.members = getMembersForRole(CacheOf(ad), data) /\ n.groups = data.groups
  BY <1>1, ModelIs
<1>4. ASSUME NEW y, IsMember(y), ~Expired(y) PROVE Active(y, t) <=> Active(y, now)
  BY <1>1, <1>4 DEF IsMember, Expired, Active
<1> HIDE DEF data, m, n
<1>5. CASE \E role \in RolesIn(data) : role.name = r
  <2>1. PICK role \in RolesIn(data) : role.name = r
    BY <1>5
  <2>2. role.trust = NoTrust
    BY <2>1 DEF DelegatedRoles, data
  <2>3. /\ r \in DOMAIN m.members /\ m.members[r] = role.members
        /\ r \in DOMAIN n.members /\ n.members[r] = role.members
    BY <1>2, <1>3, <2>1, <2>2, MembersAre
  <2>4. ASSUME NEW y \in role.members
        PROVE  /\ ~Expired(y)
               /\ y.name \in DOMAIN data.groups => \A z \in data.groups[y.name] : ~Expired(z)
    BY <2>1, <2>4 DEF ExpiredRoles, data
  <2>5. {y \in role.members : Active(y, t)} = {y \in role.members : Active(y, now)}
    BY <1>2, <1>4, <2>4
  <2> DEFINE E(x, u) == IF x.name \in DOMAIN data.groups
                        THEN {y \in data.groups[x.name] : Active(y, u)} ELSE {x}
  <2>6. ASSUME NEW x \in role.members PROVE E(x, t) = E(x, now)
    BY <1>2, <1>4, <2>4
  <2>7. /\ ActiveMembers(m, r, t) = UNION {E(x, t) : x \in {y \in role.members : Active(y, t)}}
        /\ ActiveMembers(n, r, now) = UNION {E(x, now) : x \in {y \in role.members : Active(y, now)}}
    BY <1>3, <2>3 DEF ActiveMembers
  <2> HIDE DEF E
  <2>8. {E(x, t) : x \in {y \in role.members : Active(y, t)}}
          = {E(x, now) : x \in {y \in role.members : Active(y, now)}}
    BY <2>5, <2>6
  <2>9. QED BY <2>7, <2>8 DEF m, n
<1>6. CASE ~\E role \in RolesIn(data) : role.name = r
  <2>1. r \notin DOMAIN m.members /\ r \notin DOMAIN n.members
    BY <1>3, <1>6, MembersOnlyOfRoles
  <2>2. QED BY <2>1 DEF ActiveMembers, m, n
<1>7. QED BY <1>5, <1>6

LEMMA StaleRulesAreTrustingOrExpired ==
  ASSUME TypeOK, NEW d \in Convertible, NEW s \in ServicesOf[d], PoliciesProvided(d, s)
  PROVE  /\ policies[ServiceKey(d, s)] # Absent
         /\ \A rule \in StaleRules(d, s) :
              \E r \in DelegatedRoles(d) \cup ExpiredRoles(d) : RoleToSpiffe(r) \in rule.principals
<1> DEFINE have == policies[ServiceKey(d, s)]
           Rules(m, t) == {RuleOf(m, r, s, t) :
                             r \in {x \in DOMAIN m.rules : OwnRole(m, x) /\ OperationsOf(m, x, s) # {}}}
<1>1. ad \in Versions /\ d \in ExistingIn(ad) /\ now \in 0..MaxTime
  BY ConvertibleIs DEF TypeOK, ConvertibleIn
<1>2. PICK g \in Versions, t \in Nat :
        /\ d \in ExistingIn(g) /\ g[d] = ad[d] /\ t <= now
        /\ have = ConvertV2(ModelOf(g, d), s, t) /\ have # Absent
  <2>1. PICK p \in ProvidedPolicies :
          /\ p.domain = d /\ p.svc = s /\ p.versions[d] = ad[d] /\ p.time <= now
          /\ have = p.rules
    BY DEF PoliciesProvided
  <2>2. PICK f, e, x, t :
          /\ f \in Versions /\ e \in ConvertibleIn(f) /\ x \in ServicesOf[e] /\ t \in 0..MaxTime
          /\ p = [versions |-> f, domain |-> e, svc |-> x, time |-> t,
                  rules |-> ConvertV2(ModelOf(f, e), x, t)]
    BY ProvidedPoliciesAre
  <2>3. e = d /\ x = s /\ p.versions = f /\ p.time = t /\ p.rules = ConvertV2(ModelOf(f, d), s, t)
    BY <2>1, <2>2
  <2>4. t \in Nat /\ p.rules # Absent
    BY <2>2, AbsentAssumption, BoundsAssumption
  <2>5. QED BY <2>1, <2>2, <2>3, <2>4 DEF ConvertibleIn
<1> DEFINE m == ModelOf(g, d)
           n == ModelOf(ad, d)
<1>3. have = Rules(m, t) /\ PolicyWanted(d, s) = Rules(n, now)
  BY <1>1, <1>2, PolicyWantedIs DEF ConvertV2
<1>4. m.rules = n.rules /\ m.name = n.name
  <2>1. CacheOf(g)[d] = CacheOf(ad)[d]
    BY <1>1, <1>2 DEF CacheOf, ExistingIn
  <2>2. QED BY <2>1, ModelIs
<1> HIDE DEF m, n
<1>5. ASSUME NEW r
      PROVE  /\ OwnRole(m, r) <=> OwnRole(n, r)
             /\ r \in DOMAIN m.rules => OperationsOf(m, r, s) = OperationsOf(n, r, s)
  BY <1>4 DEF OwnRole, OperationsOf, Usable
<1>6. ASSUME NEW r \in DOMAIN m.rules, r \notin DelegatedRoles(d) \cup ExpiredRoles(d)
      PROVE  RuleOf(m, r, s, t) = RuleOf(n, r, s, now)
  <2>1. ActiveMembers(m, r, t) = ActiveMembers(n, r, now)
    BY <1>1, <1>2, <1>6, ActiveUntilExpired DEF m, n
  <2>2. QED BY <1>5, <2>1 DEF RuleOf
<1>7. ASSUME NEW x, NEW r, NEW u PROVE RoleToSpiffe(r) \in RuleOf(x, r, s, u).principals
  BY DEF RuleOf
<1>8. ASSUME NEW rule \in StaleRules(d, s)
      PROVE  \E r \in DelegatedRoles(d) \cup ExpiredRoles(d) : RoleToSpiffe(r) \in rule.principals
  <2>1. rule \in (Rules(m, t) \ Rules(n, now)) \cup (Rules(n, now) \ Rules(m, t))
    BY <1>3, <1>8 DEF StaleRules
  <2>2. CASE rule \in Rules(m, t) \ Rules(n, now)
    <3>1. PICK r \in DOMAIN m.rules :
            OwnRole(m, r) /\ OperationsOf(m, r, s) # {} /\ rule = RuleOf(m, r, s, t)
      BY <2>2
    <3>2. RuleOf(n, r, s, now) \in Rules(n, now)
      BY <1>4, <1>5, <3>1
    <3>3. QED BY <1>6, <1>7, <2>2, <3>1, <3>2
  <2>3. CASE rule \in Rules(n, now) \ Rules(m, t)
    <3>1. PICK r \in DOMAIN n.rules :
            OwnRole(n, r) /\ OperationsOf(n, r, s) # {} /\ rule = RuleOf(n, r, s, now)
      BY <2>3
    <3>2. RuleOf(m, r, s, t) \in Rules(m, t)
      BY <1>4, <1>5, <3>1
    <3>3. QED BY <1>4, <1>6, <1>7, <2>3, <3>1, <3>2
  <2>4. QED BY <2>1, <2>2, <2>3
<1>9. QED BY <1>2, <1>8

LEMMA SilentIsProvided == TypeOK /\ ProvidedUnlessPending => OnlyTrustAndTimeAreSilent
<1> SUFFICES ASSUME TypeOK, ProvidedUnlessPending, NEW d \in Convertible
             PROVE  /\ d \notin todo1 =>
                         \A k \in StaleRoles(d) :
                           /\ k.kind = "ServiceRoleBinding"
                           /\ \E r \in DelegatedRoles(d) :
                                k.name = ConvertAthenzRoleNameToK8sName(r.role)
                    /\ \A s \in ServicesOf[d] :
                         {DomainKey(d), ServiceKey(d, s)} \cap todo2 = {} =>
                           /\ policies[ServiceKey(d, s)] # Absent
                           /\ \A rule \in StaleRules(d, s) :
                                \E r \in DelegatedRoles(d) \cup ExpiredRoles(d) :
                                  RoleToSpiffe(r) \in rule.principals
  BY DEF OnlyTrustAndTimeAreSilent
<1>1. d \in Existing
  BY ConvertibleIs DEF TypeOK, ConvertibleIn, Existing
<1>2. d \notin todo1 => RolesProvided(d)
  BY <1>1 DEF ProvidedUnlessPending
<1>3. ASSUME NEW s \in ServicesOf[d], {DomainKey(d), ServiceKey(d, s)} \cap todo2 = {}
      PROVE  PoliciesProvided(d, s)
  BY <1>1, <1>3 DEF ProvidedUnlessPending
<1>4. QED BY <1>2, <1>3, StaleRolesAreTrusting, StaleRulesAreTrustingOrExpired

(***************************************************************************)
(* Of what a provider would make now, only the subjects of delegated roles *)
(* and, in AuthorizationPolicies, of roles with expired members are ever   *)
(* out of date without a key pending (athenz/model.go:103,                 *)
(* common/util.go:313).                                                    *)
(***************************************************************************)
THEOREM SilentHolds == Spec => []OnlyTrustAndTimeAreSilent
<1>1. QED BY TypeCorrect, ProvidedHolds, SilentIsProvided, PTL

(***************************************************************************)
(* Who shows what, and who is a member.                                    *)
(***************************************************************************)
LEMMA ShownIs ==
  ASSUME NEW how, NEW p, NEW subjects
  PROVE  Shows(how, p, subjects) <=> \E x \in subjects : x \in Accepted[p][how]
BY DEF Shows

LEMMA AcceptedAre ==
  ASSUME NEW p \in Principals
  PROVE  /\ Accepted[p].certificate =
              {WildCardAll, [domain |-> p.before, sa |-> p.after], [domain |-> p.before, sa |-> "*"]}
         /\ Accepted[p].token = {[token |-> n] : n \in Patterns(p) \cup {AnyName}}
BY DEF Accepted

\* Roles are subjects, and nobody shows one.
LEMMA NobodyShowsRoles ==
  ASSUME NEW how \in Credentials, NEW p \in Principals, NEW r
  PROVE  RoleToSpiffe(r) \notin Accepted[p][how]
<1>1. DOMAIN RoleToSpiffe(r) = {"domain", "role"}
  BY DEF RoleToSpiffe
<1>2. \A x \in Accepted[p].certificate : DOMAIN x = {"domain", "sa"}
  BY AcceptedAre DEF WildCardAll
<1>3. \A x \in Accepted[p].token : DOMAIN x = {"token"}
  BY AcceptedAre
<1>4. "role" # "domain" /\ "role" # "sa" /\ "role" # "token"
  OBVIOUS
<1>5. how = "certificate" \/ how = "token"
  BY DEF Credentials
<1>6. QED BY <1>1, <1>2, <1>3, <1>4, <1>5

\* A certificate answers to no subject of a token, and a token to none of a certificate.
LEMMA CredentialsDiffer ==
  ASSUME NEW p \in Principals, NEW n
  PROVE  /\ MemberToOriginJwtSubject(n) \notin Accepted[p].certificate
         /\ MemberToSpiffe(n) \notin Accepted[p].token
<1>1. DOMAIN MemberToOriginJwtSubject(n) = {"token"}
  BY DEF MemberToOriginJwtSubject
<1>2. DOMAIN MemberToSpiffe(n) = {"domain", "sa"}
  BY DEF MemberToSpiffe, WildCardAll
<1>3. \A x \in Accepted[p].certificate : DOMAIN x = {"domain", "sa"}
  BY AcceptedAre DEF WildCardAll
<1>4. \A x \in Accepted[p].token : DOMAIN x = {"token"}
  BY AcceptedAre
<1>5. "token" # "domain" /\ "token" # "sa"
  OBVIOUS
<1>6. QED BY <1>1, <1>2, <1>3, <1>4, <1>5

LEMMA PrincipalsAre ==
  ASSUME NEW p \in Principals
  PROVE  /\ p = [before |-> p.before, after |-> p.after] /\ p.before # <<>> /\ p.after # "*"
         /\ p.before \in Seq(STRING) /\ IsDomainName(p.before)
         /\ p \in Patterns(p) /\ [before |-> p.before, after |-> "*"] \in Patterns(p)
<1>1. /\ p = [before |-> p.before, after |-> p.after] /\ p.before # <<>> /\ p.after # "*"
      /\ p.before \in Seq(STRING) /\ IsDomainName(p.before)
  BY PrincipalsAssumption DEF IsMemberName
<1>2. p.before \in Enclosing(p.before)
  <2> DEFINE b == p.before
  <2>1. b \in Seq(STRING) /\ b # <<>>
    BY <1>1
  <2> HIDE DEF b
  <2>2. Len(b) \in 1 .. Len(b) /\ SubSeq(b, 1, Len(b)) = b
    BY <2>1
  <2>3. b \in Enclosing(b)
    BY <2>2 DEF Enclosing
  <2>4. QED BY <2>3 DEF b
<1>3. QED BY <1>1, <1>2 DEF Patterns

LEMMA CertificateShows ==
  ASSUME NEW p \in Principals, NEW n, IsMemberName(n), MemberToSpiffe(n) \in Accepted[p].certificate,
         n # AllUsers
  PROVE  Means(n, p)
<1>1. n = [before |-> n.before, after |-> n.after] /\ n.before # <<"*">>
  BY DEF IsMemberName
<1> DEFINE shown == [domain |-> n.before, sa |-> n.after]
<1>2. shown \in Accepted[p].certificate /\ shown.domain = n.before /\ shown.sa = n.after
  BY DEF MemberToSpiffe
<1>3. shown # WildCardAll
  BY <1>1, <1>2 DEF WildCardAll
<1>4. CASE shown = [domain |-> p.before, sa |-> p.after]
  <2>1. n.before = p.before /\ n.after = p.after
    BY <1>4
  <2>2. QED BY <1>1, <2>1, PrincipalsAre DEF Means
<1>5. CASE shown = [domain |-> p.before, sa |-> "*"]
  <2>1. n.before = p.before /\ n.after = "*"
    BY <1>5
  <2>2. QED BY <1>1, <2>1 DEF Means
<1> HIDE DEF shown
<1>6. QED BY <1>2, <1>3, <1>4, <1>5, AcceptedAre

LEMMA TokenShows ==
  ASSUME NEW p \in Principals, NEW n, IsMemberName(n),
         MemberToOriginJwtSubject(n) \in Accepted[p].token, n # AllUsers
  PROVE  n \in Patterns(p)
<1>1. MemberToOriginJwtSubject(n) = [token |-> n]
  BY DEF MemberToOriginJwtSubject
<1>2. PICK x \in Patterns(p) \cup {AnyName} : [token |-> n] = [token |-> x]
  <2>1. [token |-> n] \in Accepted[p].token
    BY <1>1
  <2>2. [token |-> n] \in {[token |-> y] : y \in Patterns(p) \cup {AnyName}}
    BY <2>1, AcceptedAre
  <2> DEFINE S == Patterns(p) \cup {AnyName}
  <2> HIDE DEF S
  <2>3. [token |-> n] \in {[token |-> y] : y \in S}
    BY <2>2 DEF S
  <2>4. \E x \in S : [token |-> n] = [token |-> x]
    BY <2>3
  <2>5. QED BY <2>4 DEF S
<1>3. n = x
  <2>1. [token |-> n].token = n /\ [token |-> x].token = x
    OBVIOUS
  <2>2. QED BY <1>2, <2>1
<1>4. n # AnyName
  BY DEF IsMemberName, AnyName
<1>5. QED BY <1>2, <1>3, <1>4

\* The subjects a member becomes, and the clients that answer to them.
LEMMA ShowsNoMore ==
  ASSUME NEW how \in Credentials, NEW p \in Principals, NEW n, IsMemberName(n),
         \/ MemberToSpiffe(n) \in Accepted[p][how]
         \/ MemberToOriginJwtSubject(n) \in Accepted[p][how]
  PROVE  Means(n, p) \/ Widened(n, how, p)
<1>1. CASE n = AllUsers
  BY <1>1 DEF Widened
<1>2. CASE n # AllUsers /\ how = "certificate"
  BY <1>2, CertificateShows, CredentialsDiffer
<1>3. CASE n # AllUsers /\ how = "token"
  BY <1>3, TokenShows, CredentialsDiffer DEF Widened
<1>4. QED BY <1>1, <1>2, <1>3 DEF Credentials

LEMMA ShowsWhatMeans ==
  ASSUME NEW p \in Principals, NEW n, Means(n, p)
  PROVE  /\ HasSpiffe(n) /\ MemberToSpiffe(n) \in Accepted[p].certificate
         /\ MemberToOriginJwtSubject(n) \in Accepted[p].token
<1>1. n.before = p.before /\ n.after \in {p.after, "*"} /\ n \in Patterns(p) /\ p.before # <<>>
  <2>1. n = p \/ n = [before |-> p.before, after |-> "*"]
    BY DEF Means
  <2>2. CASE n = p
    BY <2>2, PrincipalsAre
  <2>3. CASE n = [before |-> p.before, after |-> "*"]
    <3>1. n.before = p.before /\ n.after = "*"
      BY <2>3
    <3>2. QED BY <2>3, <3>1, PrincipalsAre
  <2>4. QED BY <2>1, <2>2, <2>3
<1>2. HasSpiffe(n)
  BY <1>1 DEF HasSpiffe
<1>3. MemberToSpiffe(n) \in Accepted[p].certificate
  BY <1>1, AcceptedAre DEF MemberToSpiffe
<1>4. MemberToOriginJwtSubject(n) \in Accepted[p].token
  BY <1>1, AcceptedAre DEF MemberToOriginJwtSubject
<1>5. QED BY <1>2, <1>3, <1>4

LEMMA JwtSubjectsAre ==
  ASSUME NEW names
  PROVE  \A x : x \in JwtSubjects(names) <=>
                EnableOriginJwtSubject /\ \E n \in names : x = MemberToOriginJwtSubject(n)
BY DEF JwtSubjects

\* Active members are in force: their time has not run out.
LEMMA ActiveIsInForce ==
  ASSUME TypeOK, NEW x, IsMember(x)
  PROVE  Active(x, now) <=> InForce(x)
BY BoundsAssumption DEF TypeOK, IsMember, Active, InForce

\* The members a provider is given hold the role: its own, or of a role it is trusted with.
LEMMA MembersHold ==
  ASSUME TypeOK, NEW d \in Convertible, NEW r \in DOMAIN ModelOf(ad, d).members
  PROVE  \E role \in RolesIn(Cached(d)) :
           /\ role.name = r
           /\ \A x \in ModelOf(ad, d).members[r] : IsMember(x) /\ x \in HoldersOf(role)
<1> DEFINE data == Cached(d)
           cached == CacheOf(ad)
<1>1. ad \in Versions /\ d \in ExistingIn(ad) /\ ~ConversionPanics(cached, data)
  BY ConvertibleIs DEF TypeOK, ConvertibleIn, Cached
<1>2. ModelOf(ad, d).members = getMembersForRole(cached, data)
  BY ModelIs DEF Cached
<1>3. /\ \A q, x \in RolesIn(data) : q.name = x.name => q = x
      /\ \A role \in RolesIn(data) : /\ role.trust \in Domains \cup {NoTrust}
                                     /\ \A x \in role.members : IsMember(x)
  BY <1>1, DataOf DEF Cached
<1> HIDE DEF data
<1>4. PICK role \in RolesIn(data) : role.name = r
  BY <1>2, MembersOnlyOfRoles
<1>5. /\ role.trust = NoTrust \/ cached[role.trust] # NoDomain
      /\ ModelOf(ad, d).members[r] =
           IF role.trust = NoTrust THEN role.members
           ELSE ProcessTrustDomain(cached[role.trust], role.name)
  BY <1>2, <1>3, <1>4, MembersAre
<1>6. CASE role.trust = NoTrust
  BY <1>3, <1>4, <1>5, <1>6 DEF HoldersOf, data
<1>7. CASE role.trust # NoTrust
  <2> DEFINE e == role.trust
  <2>1. e \in Domains /\ cached[e] # NoDomain /\ cached[e].policies # NoPolicies
    BY <1>1, <1>3, <1>4, <1>5, <1>7 DEF ConversionPanics
  <2>2. e \in ExistingIn(ad)
    BY <2>1 DEF CacheOf, ExistingIn
  <2>3. \A q \in RolesIn(cached[e]) : \A x \in q.members : IsMember(x)
    BY <1>1, <2>2, DataOf
  <2>4. ASSUME NEW x \in ModelOf(ad, d).members[r]
        PROVE  IsMember(x) /\ x \in HoldersOf(role)
    <3>1. x \in ProcessTrustDomain(cached[e], role.name)
      BY <1>5, <1>7
    <3>2. PICK q \in RolesIn(cached[e]) :
            /\ x \in q.members /\ q.trust = NoTrust
            /\ \E a \in Assertions(cached[e]) :
                 a.action = "assume_role" /\ a.role = q.name /\ role.name \in a.covers
      BY <2>1, <3>1, TrustedAre
    <3>3. q \in TrustedRoles(role)
      BY <3>2 DEF TrustedRoles, Cached
    <3>4. x \in HoldersOf(role)
      BY <1>7, <2>1, <3>2, <3>3 DEF HoldersOf, Cached
    <3>5. QED BY <2>3, <3>2, <3>4
  <2>5. QED BY <1>4, <2>4 DEF data
<1>8. QED BY <1>6, <1>7

(***************************************************************************)
(* What AuthorizationPolicies in step let through.                         *)
(***************************************************************************)
LEMMA InStepIs ==
  ASSUME TypeOK, NEW d \in Convertible, NEW s \in ServicesOf[d], PoliciesInStep(d, s)
  PROVE  \A rule : rule \in policies[ServiceKey(d, s)] <=>
           \E r \in DOMAIN ModelOf(ad, d).rules :
             /\ OwnRole(ModelOf(ad, d), r) /\ OperationsOf(ModelOf(ad, d), r, s) # {}
             /\ rule = RuleOf(ModelOf(ad, d), r, s, now)
<1>1. PolicyWanted(d, s) = ConvertV2(ModelOf(ad, d), s, now)
  BY PolicyWantedIs DEF TypeOK
<1>2. \A rule : rule \in policies[ServiceKey(d, s)] <=> rule \in PolicyWanted(d, s)
  BY DEF PoliciesInStep, StaleRules
<1>3. QED BY <1>1, <1>2 DEF ConvertV2

Uses(d, r, svcs, method) ==
  \E a \in Assertions(Cached(d)) :
    a.role = r /\ Usable(ModelOf(ad, d), a) /\ a.svc \in svcs /\ a.action \in {method, "*"}

\* An assertion that a provider uses permits, and the other way around.
LEMMA UsedIsPermitted ==
  ASSUME NEW d, NEW r, NEW method, NEW svcs, OwnRole(ModelOf(ad, d), r), Uses(d, r, svcs, method)
  PROVE  Permitted(d, r, svcs, method)
<1>1. ModelOf(ad, d).name = d
  BY ModelIs
<1>2. QED BY <1>1 DEF Permitted, Uses, Usable, OwnRole

LEMMA PermittedIsUsed ==
  ASSUME NEW d, NEW r, NEW method \in Methods, NEW svcs, "" \notin svcs,
         Permitted(d, r, svcs, method)
  PROVE  OwnRole(ModelOf(ad, d), r) /\ Uses(d, r, svcs, method)
<1>1. ModelOf(ad, d).name = d
  BY ModelIs
<1>2. PICK a \in Assertions(Cached(d)) :
        /\ a.role = r /\ r.domain = d /\ a.domain = d
        /\ a.effect = "allow" /\ a.action \in {method, "*"} /\ a.svc \in svcs
  BY DEF Permitted
<1>3. a.action \in Methods /\ a.svc # ""
  BY <1>2, MethodsAssumption
<1>4. OwnRole(ModelOf(ad, d), r) /\ Usable(ModelOf(ad, d), a)
  BY <1>1, <1>2, <1>3 DEF Usable, OwnRole
<1>5. QED BY <1>2, <1>4 DEF Uses

LEMMA RulesOf ==
  ASSUME TypeOK, NEW d \in Convertible
  PROVE  /\ DOMAIN ModelOf(ad, d).rules = {a.role : a \in Assertions(Cached(d))}
         /\ \A r \in DOMAIN ModelOf(ad, d).rules :
              ModelOf(ad, d).rules[r] = {a \in Assertions(Cached(d)) : a.role = r}
<1>1. ModelOf(ad, d).rules = getRulesForDomain(Cached(d))
  BY ModelIs DEF Cached
<1>2. QED BY <1>1, RulesAre

\* Who is active in a role is a member of it.
LEMMA ActiveIsMember ==
  ASSUME TypeOK, NEW d \in Convertible, NEW r, NEW x \in ActiveMembers(ModelOf(ad, d), r, now)
  PROVE  /\ IsMember(x)
         /\ \E role \in RolesIn(Cached(d)) : role.name = r /\ x.name \in NamesInForce(d, role)
<1> DEFINE m == ModelOf(ad, d)
<1>1. PICK y \in m.members[r] :
        /\ r \in DOMAIN m.members /\ Active(y, now)
        /\ IF y.name \in DOMAIN m.groups THEN x \in m.groups[y.name] /\ Active(x, now) ELSE x = y
  BY DEF ActiveMembers
<1>2. PICK role \in RolesIn(Cached(d)) :
        role.name = r /\ \A z \in m.members[r] : IsMember(z) /\ z \in HoldersOf(role)
  BY <1>1, MembersHold
<1>3. m.groups = Cached(d).groups
  BY ModelIs DEF Cached
<1>4. \A g \in DOMAIN Cached(d).groups : \A z \in Cached(d).groups[g] : IsMember(z)
  <2>1. ad \in Versions /\ d \in ExistingIn(ad)
    BY ConvertibleIs DEF TypeOK, ConvertibleIn
  <2>2. QED BY <2>1, DataOf DEF Cached
<1> HIDE DEF m
<1>5. IsMember(y) /\ InForce(y) /\ y \in HoldersOf(role)
  BY <1>1, <1>2, ActiveIsInForce
<1>6. CASE y.name \in DOMAIN m.groups
  <2>1. x \in Cached(d).groups[y.name] /\ IsMember(x) /\ InForce(x)
    BY <1>1, <1>3, <1>4, <1>6, ActiveIsInForce
  <2>2. x.name \in NamesInForce(d, role)
    BY <1>3, <1>5, <1>6, <2>1 DEF NamesInForce
  <2>3. QED BY <1>2, <2>1, <2>2
<1>7. CASE y.name \notin DOMAIN m.groups
  <2>1. x = y
    BY <1>1, <1>7
  <2>2. x.name \in NamesInForce(d, role)
    BY <1>5, <2>1 DEF NamesInForce
  <2>3. QED BY <1>2, <1>5, <2>1, <2>2
<1>8. QED BY <1>6, <1>7

LEMMA InStepGrantsNoMore == TypeOK => PoliciesGrantNoMore
<1> SUFFICES ASSUME TypeOK, NEW d \in Convertible, NEW s \in ServicesOf[d], PoliciesInStep(d, s),
                    NEW p \in Principals, NEW method \in Methods, NEW how \in Credentials,
                    PolicyGrants(d, s, method, how, p)
             PROVE  \E role \in RolesIn(Cached(d)) :
                      /\ Permitted(d, role.name, {x \in DOMAIN SvcMatches : s \in SvcMatches[x]}, method)
                      /\ \E name \in NamesInForce(d, role) : Means(name, p) \/ Widened(name, how, p)
  BY DEF PoliciesGrantNoMore
<1> DEFINE m == ModelOf(ad, d)
           svcs == {x \in DOMAIN SvcMatches : s \in SvcMatches[x]}
<1>1. PICK rule \in policies[ServiceKey(d, s)] :
        /\ {method, "*"} \cap rule.to # {}
        /\ \/ Shows(how, p, rule.principals \cup rule.requestPrincipals)
           \/ DomainToNamespace(p.before) \in rule.namespaces
  BY DEF PolicyGrants, NamespaceOfClient
<1>2. PICK r \in DOMAIN m.rules : OwnRole(m, r) /\ rule = RuleOf(m, r, s, now)
  BY InStepIs
<1> DEFINE names == {x.name : x \in ActiveMembers(m, r, now)}
           domains == {n \in names : CheckIfMemberIsAllUsersFromDomain(n)}
           people == {n \in names \ domains : HasSpiffe(n)}
           Lets(n) == Means(n, p) \/ Widened(n, how, p)
<1>3. /\ rule.to = OperationsOf(m, r, s)
      /\ rule.principals = {MemberToSpiffe(n) : n \in people} \cup {RoleToSpiffe(r)}
      /\ rule.requestPrincipals = JwtSubjects(people)
      /\ rule.namespaces = {DomainToNamespace(n.before) : n \in domains}
  BY <1>2 DEF RuleOf
<1>4. d \in ExistingIn(ad) /\ ad \in Versions
  BY ConvertibleIs DEF TypeOK, ConvertibleIn
<1> HIDE DEF m
<1>5. Permitted(d, r, svcs, method)
  <2>1. PICK a \in Assertions(Cached(d)) :
          /\ a.role = r /\ Usable(m, a) /\ s \in SvcMatches[a.svc] /\ a.action \in {method, "*"}
    <3>1. PICK op \in {method, "*"} : op \in OperationsOf(m, r, s)
      BY <1>1, <1>3
    <3>2. m.rules[r] = {a \in Assertions(Cached(d)) : a.role = r}
      BY RulesOf DEF m
    <3>3. QED BY <3>1, <3>2 DEF OperationsOf
  <2>2. a.svc \in DOMAIN SvcMatches
    BY <1>4, DataOf DEF Cached
  <2>3. Uses(d, r, svcs, method)
    BY <2>1, <2>2 DEF Uses, m
  <2> HIDE DEF svcs
  <2>4. QED BY <1>2, <2>3, UsedIsPermitted DEF m
<1>6. \A n \in names : /\ IsMemberName(n)
                       /\ \E role \in RolesIn(Cached(d)) : role.name = r /\ n \in NamesInForce(d, role)
  BY ActiveIsMember DEF m, IsMember
<1>7. \E n \in names : Lets(n)
  <2> HIDE DEF names, Lets
  <2>1. CASE Shows(how, p, rule.principals \cup rule.requestPrincipals)
    <3>1. PICK x \in rule.principals \cup rule.requestPrincipals : x \in Accepted[p][how]
      BY <2>1, ShownIs
    <3>2. x # RoleToSpiffe(r)
      BY <3>1, NobodyShowsRoles
    <3>3. PICK n \in people : x = MemberToSpiffe(n) \/ x = MemberToOriginJwtSubject(n)
      BY <1>3, <3>1, <3>2, JwtSubjectsAre
    <3>4. n \in names /\ IsMemberName(n)
      BY <1>6, <3>3
    <3>5. QED BY <3>1, <3>3, <3>4, ShowsNoMore DEF Lets
  <2>2. CASE DomainToNamespace(p.before) \in rule.namespaces
    <3>1. PICK n \in domains : DomainToNamespace(p.before) = DomainToNamespace(n.before)
      BY <1>3, <2>2
    <3>2. /\ n.before \in Seq(STRING) /\ IsDomainName(n.before)
          /\ n = [before |-> n.before, after |-> n.after]
      BY <1>6 DEF IsMemberName
    <3>3. n.before = p.before
      BY <3>1, <3>2, NamesOfStrings, PrincipalsAre
    <3>4. n.after = "*"
      BY DEF CheckIfMemberIsAllUsersFromDomain
    <3>5. QED BY <3>2, <3>3, <3>4 DEF Means, Lets
  <2>3. QED BY <1>1, <2>1, <2>2
<1>8. QED BY <1>5, <1>6, <1>7

LEMMA InStepGrantsNoLess == TypeOK => PoliciesGrantNoLess
<1> DEFINE Svcs(s) == {x \in DOMAIN SvcMatches : s \in SvcMatches[x]}
<1> SUFFICES ASSUME TypeOK, NEW d \in Convertible, NEW s \in ServicesOf[d], PoliciesInStep(d, s),
                    NEW role \in RolesIn(Cached(d)), NEW p \in Principals, NEW method \in Methods,
                    role.trust = NoTrust, Permitted(d, role.name, Svcs(s), method)
             PROVE  /\ (\E name \in NamesInForce(d, role) : Means(name, p))
                         => PolicyGrants(d, s, method, "certificate", p)
                    /\ EnableOriginJwtSubject /\ p \in NamesInForce(d, role)
                         => PolicyGrants(d, s, method, "token", p)
  BY DEF PoliciesGrantNoLess
<1> DEFINE m == ModelOf(ad, d)
           r == role.name
           rule == RuleOf(m, r, s, now)
           names == {x.name : x \in ActiveMembers(m, r, now)}
           domains == {n \in names : CheckIfMemberIsAllUsersFromDomain(n)}
           people == {n \in names \ domains : HasSpiffe(n)}
<1>1. d \in ExistingIn(ad) /\ ad \in Versions
  BY ConvertibleIs DEF TypeOK, ConvertibleIn
<1>2. /\ rule.to = OperationsOf(m, r, s)
      /\ rule.principals = {MemberToSpiffe(n) : n \in people} \cup {RoleToSpiffe(r)}
      /\ rule.requestPrincipals = JwtSubjects(people)
      /\ rule.namespaces = {DomainToNamespace(n.before) : n \in domains}
  BY DEF RuleOf
<1>3. "" \notin Svcs(s)
  BY SvcAssumption
<1>4. OwnRole(m, r) /\ Uses(d, r, Svcs(s), method)
  <2> HIDE DEF Svcs
  <2>1. QED BY <1>3, PermittedIsUsed
<1>5. PICK a \in Assertions(Cached(d)) :
        a.role = r /\ Usable(m, a) /\ a.svc \in Svcs(s) /\ a.action \in {method, "*"}
  BY <1>4 DEF Uses
<1>6. r \in DOMAIN m.rules /\ a.action \in OperationsOf(m, r, s)
  <2>1. r \in DOMAIN m.rules /\ m.rules[r] = {x \in Assertions(Cached(d)) : x.role = r}
    BY <1>5, RulesOf
  <2>2. QED BY <1>5, <2>1 DEF OperationsOf
<1>7. rule \in policies[ServiceKey(d, s)] /\ {method, "*"} \cap rule.to # {}
  BY <1>2, <1>4, <1>5, <1>6, InStepIs
<1>8. ASSUME NEW n \in NamesInForce(d, role), Means(n, p) PROVE n \in names
  <2>1. /\ \A x, y \in RolesIn(Cached(d)) : x.name = y.name => x = y
        /\ \A x \in role.members : IsMember(x)
        /\ \A g \in DOMAIN Cached(d).groups :
             /\ g \notin Principals /\ g.after # "*" /\ \A y \in Cached(d).groups[g] : IsMember(y)
    BY <1>1, DataOf DEF Cached
  <2>2. r \in DOMAIN m.members /\ m.members[r] = role.members /\ m.groups = Cached(d).groups
    <3>1. m.members = getMembersForRole(CacheOf(ad), Cached(d)) /\ m.groups = Cached(d).groups
      BY ModelIs DEF Cached
    <3>2. QED BY <2>1, <3>1, MembersAre
  <2>3. PICK x \in role.members :
          InForce(x) /\ \/ x.name = n
                        \/ /\ x.name \in DOMAIN Cached(d).groups
                           /\ \E y \in Cached(d).groups[x.name] : InForce(y) /\ y.name = n
    BY <1>8 DEF NamesInForce, HoldersOf
  <2> HIDE DEF m
  <2>4. x \in m.members[r] /\ Active(x, now)
    BY <2>1, <2>2, <2>3, ActiveIsInForce
  <2>5. CASE x.name \in DOMAIN Cached(d).groups
    <3>1. x.name # n
      BY <1>8, <2>1, <2>5 DEF Means
    <3>2. PICK y \in Cached(d).groups[x.name] : InForce(y) /\ y.name = n
      BY <2>3, <3>1
    <3>3. Active(y, now)
      BY <2>1, <2>5, <3>2, ActiveIsInForce
    <3>4. y \in ActiveMembers(m, r, now)
      BY <2>2, <2>4, <2>5, <3>2, <3>3 DEF ActiveMembers
    <3>5. QED BY <3>2, <3>4
  <2>6. CASE x.name \notin DOMAIN Cached(d).groups
    <3>1. x \in ActiveMembers(m, r, now)
      BY <2>2, <2>4, <2>6 DEF ActiveMembers
    <3>2. QED BY <2>3, <2>6, <3>1
  <2>7. QED BY <2>5, <2>6
<1> HIDE DEF rule, names, domains
<1>9. ASSUME NEW n \in NamesInForce(d, role), Means(n, p)
      PROVE  PolicyGrants(d, s, method, "certificate", p)
  <2>1. n \in names
    BY <1>8, <1>9
  <2>2. CASE n \in domains
    <3>1. n.after = "*"
      BY <2>2 DEF CheckIfMemberIsAllUsersFromDomain, domains
    <3>2. n.before = p.before
      BY <1>9, PrincipalsAre DEF Means
    <3>3. DomainToNamespace(p.before) \in rule.namespaces
      BY <1>2, <2>2, <3>2
    <3>4. QED BY <1>7, <3>3 DEF PolicyGrants, NamespaceOfClient
  <2>3. CASE n \notin domains
    <3>1. n \in people /\ MemberToSpiffe(n) \in Accepted[p].certificate
      BY <1>9, <2>1, <2>3, ShowsWhatMeans
    <3>2. MemberToSpiffe(n) \in rule.principals
      BY <1>2, <3>1
    <3>3. Shows("certificate", p, rule.principals \cup rule.requestPrincipals)
      BY <3>1, <3>2, ShownIs
    <3>4. QED BY <1>7, <3>3 DEF PolicyGrants
  <2>4. QED BY <2>2, <2>3
<1>10. ASSUME EnableOriginJwtSubject, p \in NamesInForce(d, role)
       PROVE  PolicyGrants(d, s, method, "token", p)
  <2>1. Means(p, p)
    BY DEF Means
  <2>2. p \in names
    BY <1>8, <1>10, <2>1
  <2>3. p \notin domains
    BY PrincipalsAre DEF CheckIfMemberIsAllUsersFromDomain, domains
  <2>4. p \in people /\ MemberToOriginJwtSubject(p) \in Accepted[p].token
    BY <2>1, <2>2, <2>3, ShowsWhatMeans
  <2>5. MemberToOriginJwtSubject(p) \in rule.requestPrincipals
    BY <1>2, <1>10, <2>4, JwtSubjectsAre
  <2>6. Shows("token", p, rule.principals \cup rule.requestPrincipals)
    BY <2>4, <2>5, ShownIs
  <2>7. QED BY <1>7, <2>6 DEF PolicyGrants
<1>11. QED BY <1>9, <1>10

(***************************************************************************)
(* What ServiceRoles and bindings in step let through.                     *)
(***************************************************************************)
LEMMA RolesInStepAre ==
  ASSUME TypeOK, NEW d \in Convertible, StaleRoles(d) = {}
  PROVE  LET C == ConvertV1(ModelOf(ad, d))
             have == roles[NamespaceOf(d)]
         IN  /\ \A k \in DOMAIN have : \E c \in Range(C) : c.key = k
             /\ \A c \in Range(C) : c.key \in DOMAIN have /\ have[c.key] = c.spec
<1> DEFINE C == ConvertV1(ModelOf(ad, d))
           have == roles[NamespaceOf(d)]
<1>1. ad \in Versions /\ d \in ExistingIn(ad)
  BY ConvertibleIs DEF TypeOK, ConvertibleIn
<1>2. Differs(have, RolesAfterSync(have, C)) = {}
  BY <1>1, RolesWantedIs DEF StaleRoles
<1>3. PICK S : C \in Seq(S)
  BY <1>1, ConfigsAre
<1> HIDE DEF C, have
<1>4. ASSUME NEW k
      PROVE  /\ k \in DOMAIN have => \E c \in Range(C) : c.key = k
             /\ \A c \in Range(C) : c.key = k => k \in DOMAIN have /\ have[k] = c.spec
  BY <1>2, <1>3, StaleKeys
<1>5. QED BY <1>4 DEF C, have

\* Two roles with the same name for their resources are one, unless they collide.
LEMMA KeysOfRoles ==
  ASSUME NEW d, Colliding(d) = {}, NEW q \in RolesIn(Cached(d)), NEW r \in RolesIn(Cached(d)),
         NEW kind, KeyOfRole(kind, q.name) = KeyOfRole(kind, r.name)
  PROVE  q = r
<1>1. NameOf(q) = NameOf(r)
  BY DEF KeyOfRole, NameOf
<1>2. QED BY <1>1 DEF Colliding

LEMMA KindsDiffer ==
  ASSUME NEW q, NEW r
  PROVE  /\ KeyOfRole("ServiceRole", q).kind = "ServiceRole"
         /\ KeyOfRole("ServiceRoleBinding", q).kind = "ServiceRoleBinding"
         /\ [KeyOfRole("ServiceRole", q) EXCEPT !.kind = "ServiceRoleBinding"]
              = KeyOfRole("ServiceRoleBinding", q)
BY DEF KeyOfRole

\* The clients a role and its binding let through, when both are in step.
LEMMA GrantedBy ==
  ASSUME TypeOK, NEW d \in Convertible, StaleRoles(d) = {}, Colliding(d) = {},
         NEW s, NEW method, NEW how, NEW p, RolesGrant(d, s, method, how, p)
  PROVE  \E q \in RolesIn(Cached(d)) :
           /\ OwnRole(ModelOf(ad, d), q.name) /\ Uses(d, q.name, {s, "*"}, method)
           /\ q.name \in DOMAIN ModelOf(ad, d).members
           /\ Shows(how, p, GetServiceRoleBindingSpec(ModelOf(ad, d), q.name))
<1> DEFINE m == ModelOf(ad, d)
           C == ConvertV1(m)
           have == roles[NamespaceOf(d)]
           Binding(k) == [k EXCEPT !.kind = "ServiceRoleBinding"]
<1>1. ad \in Versions /\ d \in ExistingIn(ad)
  BY ConvertibleIs DEF TypeOK, ConvertibleIn
<1>2. PICK k \in DOMAIN have :
        /\ k.kind = "ServiceRole" /\ Binding(k) \in DOMAIN have
        /\ \E rule \in have[k] : rule.svc \in {s, "*"} /\ rule.method \in {method, "*"}
        /\ Shows(how, p, have[Binding(k)])
  BY DEF RolesGrant
<1>3. ASSUME NEW c \in Range(C)
      PROVE  /\ have[c.key] = c.spec
             /\ \E role \in RolesIn(Cached(d)) :
                  /\ HasConfigs(m, role.name)
                  /\ \/ c = RoleConfig(m, role.name)
                     \/ role.name \in DOMAIN m.members /\ c = BindingConfig(m, role.name)
  BY <1>1, <1>3, RolesInStepAre, ConfigsAre DEF Cached
<1>4. \A x \in DOMAIN have : \E c \in Range(C) : c.key = x
  BY RolesInStepAre
<1> HIDE DEF m, C, have
<1>5. ASSUME NEW q
      PROVE  /\ RoleConfig(m, q).key = KeyOfRole("ServiceRole", q)
             /\ RoleConfig(m, q).spec = GetServiceRoleSpec(m, q)
             /\ BindingConfig(m, q).key = KeyOfRole("ServiceRoleBinding", q)
             /\ BindingConfig(m, q).spec = GetServiceRoleBindingSpec(m, q)
  BY DEF RoleConfig, BindingConfig
<1>6. PICK q \in RolesIn(Cached(d)) :
        /\ HasConfigs(m, q.name) /\ k = KeyOfRole("ServiceRole", q.name)
        /\ have[k] = GetServiceRoleSpec(m, q.name)
  <2>1. PICK c \in Range(C) : c.key = k
    BY <1>4
  <2>2. PICK q \in RolesIn(Cached(d)) :
          /\ HasConfigs(m, q.name)
          /\ c = RoleConfig(m, q.name) \/ c = BindingConfig(m, q.name)
    BY <1>3
  <2>3. c = RoleConfig(m, q.name)
    BY <1>2, <1>5, <2>1, <2>2, KindsDiffer
  <2>4. QED BY <1>3, <1>5, <2>1, <2>2, <2>3
<1>7. PICK r \in RolesIn(Cached(d)) :
        /\ r.name \in DOMAIN m.members /\ Binding(k) = KeyOfRole("ServiceRoleBinding", r.name)
        /\ have[Binding(k)] = GetServiceRoleBindingSpec(m, r.name)
  <2>1. PICK c \in Range(C) : c.key = Binding(k)
    BY <1>2, <1>4
  <2>2. PICK r \in RolesIn(Cached(d)) :
          \/ c = RoleConfig(m, r.name)
          \/ r.name \in DOMAIN m.members /\ c = BindingConfig(m, r.name)
    BY <1>3
  <2>3. Binding(k).kind = "ServiceRoleBinding"
    BY <1>6, KindsDiffer
  <2> HIDE DEF Binding
  <2>4. c # RoleConfig(m, r.name)
    BY <1>5, <2>1, <2>3, KindsDiffer
  <2>5. QED BY <1>3, <1>5, <2>1, <2>2, <2>4
<1>8. q = r
  <2>1. Binding(k) = KeyOfRole("ServiceRoleBinding", q.name)
    BY <1>6, KindsDiffer
  <2> HIDE DEF Binding
  <2>2. QED BY <1>7, <2>1, KeysOfRoles
<1>9. OwnRole(m, q.name) /\ Uses(d, q.name, {s, "*"}, method)
  <2>1. PICK rule \in have[k] : rule.svc \in {s, "*"} /\ rule.method \in {method, "*"}
    BY <1>2
  <2>2. PICK a \in m.rules[q.name] : Usable(m, a) /\ rule = [svc |-> a.svc, method |-> a.action]
    BY <1>6, <2>1 DEF GetServiceRoleSpec
  <2>3. rule.svc = a.svc /\ rule.method = a.action
    BY <2>2
  <2>4. a \in Assertions(Cached(d)) /\ a.role = q.name
    BY <1>6, <2>2, RulesOf DEF HasConfigs, m
  <2>5. QED BY <1>6, <2>1, <2>2, <2>3, <2>4 DEF HasConfigs, Uses, m
<1> HIDE DEF Binding
<1>10. QED BY <1>2, <1>7, <1>8, <1>9 DEF m

\* And the other way around.
LEMMA GrantsBy ==
  ASSUME TypeOK, NEW d \in Convertible, StaleRoles(d) = {}, NEW role \in RolesIn(Cached(d)),
         NEW s, NEW method, NEW how, NEW p,
         OwnRole(ModelOf(ad, d), role.name), Uses(d, role.name, {s, "*"}, method),
         role.name \in DOMAIN ModelOf(ad, d).members,
         Shows(how, p, GetServiceRoleBindingSpec(ModelOf(ad, d), role.name))
  PROVE  RolesGrant(d, s, method, how, p)
<1> DEFINE m == ModelOf(ad, d)
           C == ConvertV1(m)
           have == roles[NamespaceOf(d)]
           r == role.name
           k == KeyOfRole("ServiceRole", r)
           binding == KeyOfRole("ServiceRoleBinding", r)
<1>1. ad \in Versions /\ d \in ExistingIn(ad)
  BY ConvertibleIs DEF TypeOK, ConvertibleIn
<1>2. PICK a \in Assertions(Cached(d)) :
        a.role = r /\ Usable(m, a) /\ a.svc \in {s, "*"} /\ a.action \in {method, "*"}
  BY DEF Uses
<1>3. r \in DOMAIN m.rules /\ a \in m.rules[r]
  BY <1>2, RulesOf
<1>4. [svc |-> a.svc, method |-> a.action] \in GetServiceRoleSpec(m, r)
  BY <1>2, <1>3 DEF GetServiceRoleSpec
<1>5. HasConfigs(m, r)
  BY <1>3, <1>4 DEF HasConfigs
<1>6. RoleConfig(m, r) \in Range(C) /\ BindingConfig(m, r) \in Range(C)
  BY <1>1, <1>5, ConfigsAre DEF Cached
<1>7. \A c \in Range(C) : c.key \in DOMAIN have /\ have[c.key] = c.spec
  BY RolesInStepAre
<1> HIDE DEF m, C, r
<1>8. /\ k \in DOMAIN have /\ have[k] = GetServiceRoleSpec(m, r)
      /\ binding \in DOMAIN have /\ have[binding] = GetServiceRoleBindingSpec(m, r)
  <2>1. /\ RoleConfig(m, r).key = k /\ RoleConfig(m, r).spec = GetServiceRoleSpec(m, r)
        /\ BindingConfig(m, r).key = binding
        /\ BindingConfig(m, r).spec = GetServiceRoleBindingSpec(m, r)
    BY DEF RoleConfig, BindingConfig
  <2> HIDE DEF have, k, binding
  <2>2. QED BY <1>6, <1>7, <2>1
<1>9. k.kind = "ServiceRole" /\ [k EXCEPT !.kind = "ServiceRoleBinding"] = binding
  BY KindsDiffer
<1>10. \E rule \in have[k] : rule.svc \in {s, "*"} /\ rule.method \in {method, "*"}
  <2> DEFINE rule == [svc |-> a.svc, method |-> a.action]
  <2>1. rule \in have[k] /\ rule.svc = a.svc /\ rule.method = a.action
    BY <1>4, <1>8
  <2> HIDE DEF rule, k, have
  <2>2. QED BY <1>2, <2>1
<1>11. Shows(how, p, have[binding])
  BY <1>8 DEF m, r
<1> HIDE DEF k, binding
<1>12. QED BY <1>8, <1>9, <1>10, <1>11 DEF RolesGrant

LEMMA InStepGrantsTheListed == TypeOK => RolesGrantTheListed
<1> SUFFICES ASSUME TypeOK, NEW d \in Convertible, StaleRoles(d) = {}, Colliding(d) = {},
                    NEW s \in ServicesOf[d], NEW p \in Principals, NEW method \in Methods,
                    NEW how \in Credentials
             PROVE  LET permitted == {role \in RolesIn(Cached(d)) :
                                        Permitted(d, role.name, {s, "*"}, method)}
                    IN  /\ RolesGrant(d, s, method, how, p) =>
                             \E role \in permitted : \E name \in NamesListed(role) :
                               Means(name, p) \/ Widened(name, how, p)
                        /\ how = "certificate" \/ EnableOriginJwtSubject =>
                             \A role \in permitted :
                               role.trust = NoTrust /\ (\E name \in NamesListed(role) : Means(name, p))
                                 => RolesGrant(d, s, method, how, p)
  BY DEF RolesGrantTheListed
<1> DEFINE m == ModelOf(ad, d)
<1>1. ad \in Versions /\ d \in ExistingIn(ad)
  BY ConvertibleIs DEF TypeOK, ConvertibleIn
<1>2. \A x, y \in RolesIn(Cached(d)) : x.name = y.name => x = y
  BY <1>1, DataOf DEF Cached
<1>3. ASSUME NEW r, NEW x
      PROVE  x \in GetServiceRoleBindingSpec(m, r) <=>
               \/ \E y \in m.members[r] : HasSpiffe(y.name) /\ x = MemberToSpiffe(y.name)
               \/ /\ EnableOriginJwtSubject
                  /\ \E y \in m.members[r] : HasSpiffe(y.name) /\ x = MemberToOriginJwtSubject(y.name)
               \/ x = RoleToSpiffe(r)
  BY DEF GetServiceRoleBindingSpec, NamesBound, JwtSubjects
<1>4. ASSUME RolesGrant(d, s, method, how, p)
      PROVE  \E role \in RolesIn(Cached(d)) :
               /\ Permitted(d, role.name, {s, "*"}, method)
               /\ \E name \in NamesListed(role) : Means(name, p) \/ Widened(name, how, p)
  <2>1. PICK q \in RolesIn(Cached(d)) :
          /\ OwnRole(m, q.name) /\ Uses(d, q.name, {s, "*"}, method)
          /\ q.name \in DOMAIN m.members
          /\ Shows(how, p, GetServiceRoleBindingSpec(m, q.name))
    BY <1>4, GrantedBy
  <2>2. PICK x \in GetServiceRoleBindingSpec(m, q.name) : x \in Accepted[p][how]
    BY <2>1, ShownIs
  <2>3. PICK y \in m.members[q.name] :
          x = MemberToSpiffe(y.name) \/ x = MemberToOriginJwtSubject(y.name)
    BY <1>3, <2>2, NobodyShowsRoles
  <2>4. IsMember(y) /\ y \in HoldersOf(q)
    BY <1>2, <2>1, <2>3, MembersHold
  <2>5. IsMemberName(y.name) /\ y.name \in NamesListed(q)
    BY <2>4 DEF IsMember, NamesListed
  <2>6. Means(y.name, p) \/ Widened(y.name, how, p)
    BY <2>2, <2>3, <2>5, ShowsNoMore
  <2>7. Permitted(d, q.name, {s, "*"}, method)
    BY <2>1, UsedIsPermitted
  <2>8. QED BY <2>1, <2>5, <2>6, <2>7
<1>5. ASSUME NEW role \in RolesIn(Cached(d)), role.trust = NoTrust,
             Permitted(d, role.name, {s, "*"}, method),
             NEW name \in NamesListed(role), Means(name, p),
             how = "certificate" \/ EnableOriginJwtSubject
      PROVE  RolesGrant(d, s, method, how, p)
  <2>1. "" \notin {s, "*"}
    <3>1. d \in Domains
      BY <1>1 DEF ExistingIn
    <3>2. QED BY <3>1, ServicesAssumption
  <2>2. OwnRole(m, role.name) /\ Uses(d, role.name, {s, "*"}, method)
    BY <1>5, <2>1, PermittedIsUsed
  <2>3. role.name \in DOMAIN m.members /\ m.members[role.name] = role.members
    <3>1. m.members = getMembersForRole(CacheOf(ad), Cached(d))
      BY ModelIs DEF Cached
    <3>2. QED BY <1>2, <1>5, <3>1, MembersAre
  <2>4. PICK y \in role.members : y.name = name
    BY <1>5 DEF NamesListed, HoldersOf
  <2>5. /\ HasSpiffe(name) /\ MemberToSpiffe(name) \in Accepted[p].certificate
        /\ MemberToOriginJwtSubject(name) \in Accepted[p].token
    BY <1>5, ShowsWhatMeans
  <2>6. \E x \in GetServiceRoleBindingSpec(m, role.name) : x \in Accepted[p][how]
    <3>1. MemberToSpiffe(name) \in GetServiceRoleBindingSpec(m, role.name)
      BY <1>3, <2>3, <2>4, <2>5
    <3>2. EnableOriginJwtSubject =>
            MemberToOriginJwtSubject(name) \in GetServiceRoleBindingSpec(m, role.name)
      BY <1>3, <2>3, <2>4, <2>5
    <3>3. how = "certificate" \/ how = "token"
      BY DEF Credentials
    <3>4. "token" # "certificate"
      OBVIOUS
    <3>5. QED BY <1>5, <2>5, <3>1, <3>2, <3>3, <3>4
  <2>7. Shows(how, p, GetServiceRoleBindingSpec(m, role.name))
    BY <2>6, ShownIs
  <2>8. QED BY <2>2, <2>3, <2>7, GrantsBy
<1>6. QED BY <1>4, <1>5

(***************************************************************************)
(* An AuthorizationPolicy in step lets in no client, by certificate or by  *)
(* token, whom Athenz, as it is cached and at this moment, does not let    *)
(* in, but those whom the providers add for "user.*" and, with a token,    *)
(* for "<domain>.*", whatever the domains are called and hold              *)
(* (v2/provider.go:150-241, common/util.go:172, 189, 194).                 *)
(***************************************************************************)
THEOREM GrantNoMoreHolds == Spec => []PoliciesGrantNoMore
<1>1. QED BY TypeCorrect, InStepGrantsNoMore, PTL

(***************************************************************************)
(* And it lets in every member of a role of the domain itself that is      *)
(* allowed a method of the service, one named in person by token as well   *)
(* (v2/provider.go:150-241).                                               *)
(***************************************************************************)
THEOREM GrantNoLessHolds == Spec => []PoliciesGrantNoLess
<1>1. QED BY TypeCorrect, InStepGrantsNoLess, PTL

(***************************************************************************)
(* ServiceRoles and bindings in step, no two roles of one name, let in, by *)
(* certificate or by token, nobody but those Athenz lists in a role,       *)
(* whatever has expired or is disabled, and those added for "user.*" and   *)
(* "<domain>.*", and all it lists in the roles of the domain itself        *)
(* (common/servicerole.go:22, common/servicerolebinding.go:13-51).         *)
(***************************************************************************)
THEOREM GrantTheListedHolds == Spec => []RolesGrantTheListed
<1>1. QED BY TypeCorrect, InStepGrantsTheListed, PTL

=============================================================================

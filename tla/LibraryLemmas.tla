---------------------------- MODULE LibraryLemmas ----------------------------
(***************************************************************************)
(* Facts about the work queue, the config store, change lists and          *)
(* sequences that the proofs of the controllers rest on.                   *)
(***************************************************************************)
EXTENDS WorkQueue, ConfigStore, ChangeList, SequencesExt, TLAPS, SequenceTheorems

(***************************************************************************)
(* The operations of the work queue.                                       *)
(***************************************************************************)
LEMMA QueueAddProperties ==
  ASSUME NEW K, NEW q \in WorkQueueType(K), NEW k \in K
  PROVE  /\ QueueAdd(q, k) \in WorkQueueType(K)
         /\ QueueAdd(q, k).dirty = q.dirty \cup {k}
         /\ QueueAdd(q, k).processing = q.processing
         /\ QueueAdd(q, k).delayed = q.delayed
         /\ QueueAdd(q, k).failures = q.failures
<1> DEFINE o == IF k \in q.processing THEN q.order ELSE Append(q.order, k)
<1>1. o \in Seq(K)
  BY DEF WorkQueueType
<1>2. CASE k \in q.dirty
  BY <1>2 DEF QueueAdd, WorkQueueType
<1>3. CASE k \notin q.dirty
  <2>1. QueueAdd(q, k) = [q EXCEPT !.dirty = @ \cup {k}, !.order = o]
    BY <1>3 DEF QueueAdd
  <2> HIDE DEF o
  <2>2. QED BY <1>1, <2>1 DEF WorkQueueType
<1>4. QED BY <1>2, <1>3

LEMMA QueueGetProperties ==
  ASSUME NEW K, NEW q \in WorkQueueType(K), q.order # <<>>
  PROVE  /\ Head(q.order) \in K
         /\ QueueGet(q) \in WorkQueueType(K)
         /\ QueueGet(q).order = Tail(q.order)
         /\ QueueGet(q).dirty = q.dirty \ {Head(q.order)}
         /\ QueueGet(q).processing = q.processing \cup {Head(q.order)}
         /\ QueueGet(q).delayed = q.delayed
         /\ QueueGet(q).failures = q.failures
<1> DEFINE h == Head(q.order)
           o == Tail(q.order)
<1>1. h \in K /\ o \in Seq(K)
  BY DEF WorkQueueType
<1>2. QueueGet(q) = [q EXCEPT !.order = o, !.processing = @ \cup {h}, !.dirty = @ \ {h}]
  BY DEF QueueGet
<1>3. /\ QueueGet(q).order = o
      /\ QueueGet(q).dirty = q.dirty \ {h}
      /\ QueueGet(q).processing = q.processing \cup {h}
      /\ QueueGet(q).delayed = q.delayed
      /\ QueueGet(q).failures = q.failures
  <2> HIDE DEF h, o
  <2>1. QED BY <1>2 DEF WorkQueueType
<1>4. QueueGet(q) \in WorkQueueType(K)
  <2> HIDE DEF h, o
  <2> DEFINE p == q.processing \cup {h}
             d == q.dirty \ {h}
  <2>1. p \in SUBSET K /\ d \in SUBSET K
    BY <1>1 DEF WorkQueueType
  <2>2. QueueGet(q) = [q EXCEPT !.order = o, !.processing = p, !.dirty = d]
    BY <1>2
  <2> HIDE DEF p, d
  <2>3. QED BY <1>1, <2>1, <2>2 DEF WorkQueueType
<1>5. QED BY <1>1, <1>3, <1>4

LEMMA QueueDoneProperties ==
  ASSUME NEW K, NEW q \in WorkQueueType(K), NEW k \in K
  PROVE  /\ QueueDone(q, k) \in WorkQueueType(K)
         /\ QueueDone(q, k).order = IF k \in q.dirty THEN Append(q.order, k) ELSE q.order
         /\ QueueDone(q, k).dirty = q.dirty
         /\ QueueDone(q, k).processing = q.processing \ {k}
         /\ QueueDone(q, k).delayed = q.delayed
         /\ QueueDone(q, k).failures = q.failures
<1> DEFINE o == IF k \in q.dirty THEN Append(q.order, k) ELSE q.order
<1>1. o \in Seq(K)
  BY DEF WorkQueueType
<1>2. QueueDone(q, k) = [q EXCEPT !.processing = @ \ {k}, !.order = o]
  BY DEF QueueDone
<1>3. /\ QueueDone(q, k) \in WorkQueueType(K)
      /\ QueueDone(q, k).order = o
      /\ QueueDone(q, k).dirty = q.dirty
      /\ QueueDone(q, k).processing = q.processing \ {k}
      /\ QueueDone(q, k).delayed = q.delayed
      /\ QueueDone(q, k).failures = q.failures
  <2> HIDE DEF o
  <2>1. QED BY <1>1, <1>2 DEF WorkQueueType
<1>4. QED BY <1>1, <1>3

LEMMA AddRateLimitedProperties ==
  ASSUME NEW K, NEW q \in WorkQueueType(K), NEW k \in K
  PROVE  /\ AddRateLimited(q, k) \in WorkQueueType(K)
         /\ AddRateLimited(q, k).order = q.order
         /\ AddRateLimited(q, k).dirty = q.dirty
         /\ AddRateLimited(q, k).processing = q.processing
         /\ AddRateLimited(q, k).delayed = q.delayed \cup {k}
         /\ AddRateLimited(q, k).failures = [q.failures EXCEPT ![k] = @ + 1]
<1> DEFINE f == [q.failures EXCEPT ![k] = @ + 1]
<1>1. f \in [K -> Nat]
  BY DEF WorkQueueType
<1>2. AddRateLimited(q, k) = [q EXCEPT !.failures = f, !.delayed = @ \cup {k}]
  BY DEF AddRateLimited
<1>3. /\ AddRateLimited(q, k) \in WorkQueueType(K)
      /\ AddRateLimited(q, k).order = q.order
      /\ AddRateLimited(q, k).dirty = q.dirty
      /\ AddRateLimited(q, k).processing = q.processing
      /\ AddRateLimited(q, k).delayed = q.delayed \cup {k}
      /\ AddRateLimited(q, k).failures = f
  <2> HIDE DEF f
  <2>1. AddRateLimited(q, k) \in WorkQueueType(K)
    BY <1>1, <1>2 DEF WorkQueueType
  <2>2. QED BY <2>1, <1>2 DEF WorkQueueType
<1>4. QED BY <1>1, <1>3

LEMMA ForgetProperties ==
  ASSUME NEW K, NEW q \in WorkQueueType(K), NEW k \in K
  PROVE  /\ Forget(q, k) \in WorkQueueType(K)
         /\ Forget(q, k).order = q.order
         /\ Forget(q, k).dirty = q.dirty
         /\ Forget(q, k).processing = q.processing
         /\ Forget(q, k).delayed = q.delayed
         /\ Forget(q, k).failures = [q.failures EXCEPT ![k] = 0]
<1> DEFINE f == [q.failures EXCEPT ![k] = 0]
<1>1. f \in [K -> Nat]
  BY DEF WorkQueueType
<1>2. Forget(q, k) = [q EXCEPT !.failures = f]
  BY DEF Forget
<1>3. /\ Forget(q, k) \in WorkQueueType(K)
      /\ Forget(q, k).order = q.order
      /\ Forget(q, k).dirty = q.dirty
      /\ Forget(q, k).processing = q.processing
      /\ Forget(q, k).delayed = q.delayed
      /\ Forget(q, k).failures = f
  <2> HIDE DEF f
  <2>1. QED BY <1>1, <1>2 DEF WorkQueueType
<1>4. QED BY <1>1, <1>3

LEMMA BackoffOverProperties ==
  ASSUME NEW K, NEW q \in WorkQueueType(K), NEW k \in K
  PROVE  /\ BackoffOver(q, k) \in WorkQueueType(K)
         /\ BackoffOver(q, k).dirty = q.dirty \cup {k}
         /\ BackoffOver(q, k).processing = q.processing
         /\ BackoffOver(q, k).delayed = q.delayed \ {k}
         /\ BackoffOver(q, k).failures = q.failures
<1> DEFINE p == [q EXCEPT !.delayed = @ \ {k}]
<1>1. /\ p \in WorkQueueType(K)
      /\ p.dirty = q.dirty
      /\ p.processing = q.processing
      /\ p.delayed = q.delayed \ {k}
      /\ p.failures = q.failures
  BY DEF WorkQueueType
<1>2. BackoffOver(q, k) = QueueAdd(p, k)
  BY DEF BackoffOver
<1> HIDE DEF p
<1>3. QED BY <1>1, <1>2, QueueAddProperties

(***************************************************************************)
(* Taking an element out of a sequence leaves the others in it.            *)
(***************************************************************************)
LEMMA RemoveAtProperties ==
  ASSUME NEW S, NEW s \in Seq(S), NEW n \in 1..Len(s)
  PROVE  /\ RemoveAt(s, n) \in Seq(S)
         /\ \A m \in 1..Len(s) \ {n} :
              \E k \in 1..Len(RemoveAt(s, n)) : RemoveAt(s, n)[k] = s[m]
<1> DEFINE front == SubSeq(s, 1, n - 1)
           back == SubSeq(s, n + 1, Len(s))
<1>0. Len(s) \in Nat /\ n \in Nat /\ n >= 1 /\ n <= Len(s)
  OBVIOUS
<1>1. /\ front \in Seq(S)
      /\ Len(front) = n - 1
      /\ \A k \in 1..(n - 1) : front[k] = s[k]
  BY SubSeqProperties
<1>2. /\ back \in Seq(S)
      /\ Len(back) = Len(s) - n
      /\ \A k \in 1..(Len(s) - n) : back[k] = s[n + k]
  <2>1. CASE n = Len(s)
    <3>1. back = <<>> BY <2>1
    <3>2. QED BY <3>1, <2>1
  <2>2. CASE n < Len(s)
    BY <2>2, SubSeqProperties
  <2>3. QED BY <2>1, <2>2
<1>3. /\ front \o back \in Seq(S)
      /\ Len(front \o back) = Len(s) - 1
      /\ \A k \in 1..(Len(s) - 1) :
           (front \o back)[k] = IF k <= n - 1 THEN front[k] ELSE back[k - (n - 1)]
  <2> HIDE DEF front, back
  <2>1. Len(front) + Len(back) = Len(s) - 1
    BY <1>0, <1>1, <1>2
  <2>2. /\ front \o back \in Seq(S)
        /\ Len(front \o back) = Len(front) + Len(back)
        /\ \A k \in 1..(Len(front) + Len(back)) :
             (front \o back)[k] = IF k <= Len(front) THEN front[k] ELSE back[k - Len(front)]
    BY <1>1, <1>2, ConcatProperties
  <2>3. QED BY <2>1, <2>2, <1>1
<1>4. RemoveAt(s, n) = front \o back BY DEF RemoveAt
<1>5. ASSUME NEW m \in 1..Len(s) \ {n}
      PROVE  \E k \in 1..(Len(s) - 1) : (front \o back)[k] = s[m]
  <2> HIDE DEF front, back
  <2>1. CASE m < n
    <3>1. m \in 1..(Len(s) - 1) /\ (front \o back)[m] = front[m] BY <2>1, <1>0, <1>3
    <3>2. front[m] = s[m] BY <2>1, <1>0, <1>1
    <3>3. QED BY <3>1, <3>2
  <2>2. CASE m > n
    <3>1. m - 1 \in 1..(Len(s) - 1) /\ ~(m - 1 <= n - 1) /\ (m - 1) - (n - 1) = m - n
      BY <2>2, <1>0
    <3>2. (front \o back)[m - 1] = back[m - n]
      BY <3>1, <1>3
    <3>3. m - n \in 1..(Len(s) - n) /\ n + (m - n) = m
      BY <2>2, <1>0
    <3>4. back[m - n] = s[m]
      BY <3>3, <1>2
    <3>5. QED BY <3>1, <3>2, <3>4
  <2>3. m < n \/ m > n
    BY <1>0
  <2>4. QED BY <2>1, <2>2, <2>3
<1>6. QED BY <1>3, <1>4, <1>5

\* The last element stays last when the first is taken.
LEMMA LastOfTail ==
  ASSUME NEW S, NEW s \in Seq(S), s # <<>>
  PROVE  s[Len(s)] = IF Tail(s) = <<>> THEN Head(s) ELSE Tail(s)[Len(Tail(s))]
<1>1. /\ Len(s) \in Nat /\ Len(s) >= 1
      /\ Tail(s) \in Seq(S)
      /\ Len(Tail(s)) = Len(s) - 1
      /\ Head(s) = s[1]
      /\ \A i \in 1..(Len(s) - 1) : Tail(s)[i] = s[i + 1]
  OBVIOUS
<1>2. CASE Len(s) = 1
  <2>1. Tail(s) = <<>>
    <3>1. Tail(s) \in Seq(S) /\ Len(Tail(s)) = 0
      BY <1>1, <1>2
    <3>2. \A t \in Seq(S) : Len(t) = 0 => t = <<>>
      BY EmptySeq
    <3>3. QED BY <3>1, <3>2
  <2>2. QED BY <1>1, <1>2, <2>1
<1>3. CASE Len(s) # 1
  <2>1. Len(s) - 1 \in 1..(Len(s) - 1) /\ (Len(s) - 1) + 1 = Len(s)
    BY <1>1, <1>3
  <2>2. Tail(s)[Len(Tail(s))] = s[Len(s)]
    BY <1>1, <2>1
  <2>3. Tail(s) # <<>>
    BY <1>1, <2>1
  <2>4. QED BY <2>2, <2>3
<1>4. QED BY <1>2, <1>3

(***************************************************************************)
(* The elements of a sequence.                                             *)
(***************************************************************************)
LEMMA RangeOfAppend ==
  ASSUME NEW S, NEW s \in Seq(S), NEW e \in S
  PROVE  Range(Append(s, e)) = Range(s) \cup {e}
<1>1. /\ Len(Append(s, e)) = Len(s) + 1
      /\ Append(s, e)[Len(s) + 1] = e
      /\ \A i \in 1..Len(s) : Append(s, e)[i] = s[i]
  OBVIOUS
<1>2. DOMAIN Append(s, e) = 1..(Len(s) + 1) /\ DOMAIN s = 1..Len(s) /\ Len(s) \in Nat
  OBVIOUS
<1>3. 1..(Len(s) + 1) = 1..Len(s) \cup {Len(s) + 1}
  BY <1>2
<1>4. QED BY <1>1, <1>2, <1>3 DEF Range

LEMMA RangeOfHeadAndTail ==
  ASSUME NEW S, NEW s \in Seq(S), s # <<>>
  PROVE  Range(s) \subseteq {Head(s)} \cup Range(Tail(s))
<1> SUFFICES ASSUME NEW i \in 1..Len(s)
             PROVE  s[i] = Head(s) \/ s[i] \in Range(Tail(s))
  BY DEF Range
<1>1. CASE i = 1
  BY <1>1
<1>2. CASE i # 1
  <2>1. i - 1 \in DOMAIN Tail(s) /\ Tail(s)[i - 1] = s[i]
    BY <1>2
  <2>2. QED BY <2>1 DEF Range
<1>3. QED BY <1>1, <1>2

LEMMA RangeOfRemoveAt ==
  ASSUME NEW S, NEW s \in Seq(S), NEW n \in 1..Len(s)
  PROVE  Range(s) \subseteq Range(RemoveAt(s, n)) \cup {s[n]}
<1> SUFFICES ASSUME NEW m \in 1..Len(s), m # n
             PROVE  s[m] \in Range(RemoveAt(s, n))
  BY DEF Range
<1>1. PICK k \in 1..Len(RemoveAt(s, n)) : RemoveAt(s, n)[k] = s[m]
  BY RemoveAtProperties
<1>2. k \in DOMAIN RemoveAt(s, n)
  BY RemoveAtProperties
<1>3. QED BY <1>1, <1>2 DEF Range

\* Taking an element out of a sequence, or its first, adds none.
LEMMA NothingNewInRest ==
  ASSUME NEW S, NEW s \in Seq(S), s # <<>>
  PROVE  Head(s) \in Range(s) /\ Range(Tail(s)) \subseteq Range(s)
<1>1. Len(s) \in Nat /\ Len(s) >= 1 /\ DOMAIN s = 1..Len(s) /\ Head(s) = s[1]
  OBVIOUS
<1>2. Head(s) \in Range(s)
  BY <1>1 DEF Range
<1>3. ASSUME NEW n \in DOMAIN Tail(s)
      PROVE  n + 1 \in DOMAIN s /\ Tail(s)[n] = s[n + 1]
  BY <1>1
<1>4. QED BY <1>2, <1>3 DEF Range

LEMMA NothingNewAfterRemoval ==
  ASSUME NEW S, NEW s \in Seq(S), NEW n \in 1..Len(s)
  PROVE  Range(RemoveAt(s, n)) \subseteq Range(s)
<1> DEFINE front == SubSeq(s, 1, n - 1)
           back == SubSeq(s, n + 1, Len(s))
<1>1. /\ front \in Seq(S) /\ Len(front) = n - 1
      /\ \A k \in 1..(n - 1) : front[k] = s[k]
  OBVIOUS
<1>2. /\ back \in Seq(S) /\ Len(back) = Len(s) - n
      /\ \A k \in 1..(Len(s) - n) : back[k] = s[n + k]
  OBVIOUS
<1>3. RemoveAt(s, n) = front \o back
  BY DEF RemoveAt
<1> HIDE DEF front, back
<1>4. ASSUME NEW k \in DOMAIN RemoveAt(s, n)
      PROVE  \E m \in 1..Len(s) : RemoveAt(s, n)[k] = s[m]
  <2>1. k \in 1..(Len(s) - 1)
    BY <1>1, <1>2, <1>3
  <2>2. CASE k < n
    BY <2>1, <2>2, <1>1, <1>2, <1>3
  <2>3. CASE k >= n
    <3>1. k - (n - 1) \in 1..(Len(s) - n) /\ n + (k - (n - 1)) \in 1..Len(s)
      BY <2>1, <2>3
    <3>2. RemoveAt(s, n)[k] = back[k - (n - 1)]
      BY <2>1, <2>3, <1>1, <1>2, <1>3
    <3>3. QED BY <3>1, <3>2, <1>2
  <2>4. QED BY <2>1, <2>2, <2>3
<1>5. DOMAIN s = 1..Len(s)
  OBVIOUS
<1>6. QED BY <1>4, <1>5 DEF Range

(***************************************************************************)
(* The config store and change lists.                                      *)
(***************************************************************************)
LEMMA ServerWritesProperties ==
  ASSUME StoreTypeOK, NEW x \in CRs, NEW s \in Specs \cup {Absent}, ServerWrites(x, s)
  PROVE  /\ StoreTypeOK'
         /\ cache' = cache
         /\ server'[x] = [rev |-> server[x].rev + 1, spec |-> s]
         /\ watch'[x] = Append(watch[x], server'[x])
         /\ \A r \in CRs \ {x} : server'[r] = server[r] /\ watch'[r] = watch[r]
<1> DEFINE obj == [rev |-> server[x].rev + 1, spec |-> s]
<1>1. obj \in Objects
  BY DEF StoreTypeOK, Objects
<1>2. /\ server' = [server EXCEPT ![x] = obj]
      /\ watch' = [watch EXCEPT ![x] = Append(watch[x], obj)]
      /\ cache' = cache
  BY DEF ServerWrites
<1>3. Append(watch[x], obj) \in Seq(Objects)
  BY <1>1 DEF StoreTypeOK
<1> HIDE DEF obj
<1>4. server' \in [CRs -> Objects] /\ watch' \in [CRs -> Seq(Objects)]
  BY <1>1, <1>2, <1>3 DEF StoreTypeOK
<1>5. server'[x] = obj /\ watch'[x] = Append(watch[x], obj)
  BY <1>2 DEF StoreTypeOK
<1>6. \A r \in CRs \ {x} : server'[r] = server[r] /\ watch'[r] = watch[r]
  BY <1>2 DEF StoreTypeOK
<1>7. QED BY <1>2, <1>4, <1>5, <1>6 DEF StoreTypeOK, obj

LEMMA CacheReceivesProperties ==
  ASSUME StoreTypeOK, NEW x \in CRs, CacheReceives(x)
  PROVE  /\ StoreTypeOK'
         /\ server' = server
         /\ cache'[x] = Head(watch[x])
         /\ watch'[x] = Tail(watch[x])
         /\ \A r \in CRs \ {x} : cache'[r] = cache[r] /\ watch'[r] = watch[r]
<1>1. watch[x] \in Seq(Objects) /\ watch[x] # <<>>
  BY DEF StoreTypeOK, CacheReceives
<1>2. Head(watch[x]) \in Objects /\ Tail(watch[x]) \in Seq(Objects)
  BY <1>1
<1>3. QED BY <1>2 DEF StoreTypeOK, CacheReceives

\* All that happens to the server and to the caches.
StoreMoves ==
  \/ UNCHANGED storeVars
  \/ \E x \in CRs : \E s \in Specs \cup {Absent} : ServerWrites(x, s)
  \/ \E x \in CRs : CacheReceives(x)
  \/ CacheRelists

\* The cache of r and the changes on their way to it replay the versions of the
\* server, up to the last.
Trails(r) ==
  server[r] = IF watch[r] = <<>> THEN cache[r] ELSE watch[r][Len(watch[r])]

InOrder(r) == \A n \in DOMAIN watch[r] : watch[r][n].rev = cache[r].rev + n

LEMMA TrailsKept ==
  ASSUME StoreTypeOK, StoreMoves, NEW r \in CRs, Trails(r)
  PROVE  Trails(r)'
<1> USE DEF Trails
<1>1. watch[r] \in Seq(Objects)
  BY DEF StoreTypeOK
<1>2. CASE UNCHANGED storeVars
  BY <1>2 DEF storeVars
<1>3. ASSUME NEW x \in CRs, NEW s \in Specs \cup {Absent}, ServerWrites(x, s)
      PROVE  Trails(r)'
  <2>1. CASE x = r
    <3>1. watch'[r] = Append(watch[r], server'[r]) /\ server'[r] \in Objects
      BY <1>3, <2>1, ServerWritesProperties DEF StoreTypeOK
    <3>2. watch'[r] # <<>> /\ watch'[r][Len(watch'[r])] = server'[r]
      BY <1>1, <3>1
    <3>3. QED BY <3>2
  <2>2. CASE x # r
    BY <1>3, <2>2, ServerWritesProperties
  <2>3. QED BY <2>1, <2>2
<1>4. ASSUME NEW x \in CRs, CacheReceives(x)
      PROVE  Trails(r)'
  <2>1. CASE x = r
    <3>1. /\ server'[r] = server[r] /\ watch[r] # <<>>
          /\ cache'[r] = Head(watch[r]) /\ watch'[r] = Tail(watch[r])
      BY <1>4, <2>1, CacheReceivesProperties DEF CacheReceives
    <3>2. QED BY <1>1, <3>1, LastOfTail
  <2>2. CASE x # r
    BY <1>4, <2>2, CacheReceivesProperties
  <2>3. QED BY <2>1, <2>2
<1>5. CASE CacheRelists
  BY <1>5 DEF CacheRelists
<1>6. QED BY <1>2, <1>3, <1>4, <1>5 DEF StoreMoves

\* The version of the server is that of the cache and one for each change.
LEMMA VersionOfServer ==
  ASSUME StoreTypeOK, NEW r \in CRs, Trails(r), InOrder(r)
  PROVE  /\ server[r].rev \in Nat /\ cache[r].rev \in Nat /\ Len(watch[r]) \in Nat
         /\ server[r].rev = cache[r].rev + Len(watch[r])
<1>1. watch[r] \in Seq(Objects) /\ cache[r].rev \in Nat /\ server[r].rev \in Nat
  BY DEF StoreTypeOK, Objects
<1>2. CASE watch[r] = <<>>
  BY <1>1, <1>2 DEF Trails
<1>3. CASE watch[r] # <<>>
  <2>1. Len(watch[r]) \in DOMAIN watch[r]
    BY <1>1, <1>3
  <2>2. QED BY <1>1, <1>3, <2>1 DEF Trails, InOrder
<1>4. QED BY <1>1, <1>2, <1>3

LEMMA InOrderKept ==
  ASSUME StoreTypeOK, StoreMoves, NEW r \in CRs, Trails(r), InOrder(r)
  PROVE  InOrder(r)'
<1>1. watch[r] \in Seq(Objects) /\ cache[r].rev \in Nat
  BY DEF StoreTypeOK, Objects
<1>2. CASE UNCHANGED storeVars
  BY <1>2 DEF storeVars, InOrder
<1>3. ASSUME NEW x \in CRs, NEW s \in Specs \cup {Absent}, ServerWrites(x, s)
      PROVE  InOrder(r)'
  <2>1. CASE x = r
    <3> DEFINE new == server'[r]
               L == Len(watch[r])
    <3>1. watch'[r] = Append(watch[r], new) /\ cache' = cache
      BY <1>3, <2>1, ServerWritesProperties
    <3>2. new \in Objects
      BY <1>3, <2>1, ServerWritesProperties DEF StoreTypeOK
    <3>v. new.rev = server[r].rev + 1
      <4>1. new = [rev |-> server[r].rev + 1, spec |-> s]
        BY <1>3, <2>1, ServerWritesProperties
      <4> HIDE DEF new
      <4>2. QED BY <4>1
    <3> HIDE DEF new
    <3>w. new.rev = cache[r].rev + (L + 1) /\ L \in Nat
      <4>1. server[r].rev = cache[r].rev + L /\ L \in Nat
        BY VersionOfServer
      <4> HIDE DEF L
      <4>2. QED BY <1>1, <3>v, <4>1
    <3>3. /\ DOMAIN watch'[r] = 1..(L + 1) /\ watch'[r][L + 1] = new
          /\ \A n \in 1..L : watch'[r][n] = watch[r][n] /\ n \in DOMAIN watch[r]
      BY <1>1, <3>1, <3>2
    <3> HIDE DEF L
    <3>4. \A n \in 1..(L + 1) : n \in 1..L \/ n = L + 1
      BY <3>w
    <3>5. QED BY <3>1, <3>w, <3>3, <3>4 DEF InOrder
  <2>2. CASE x # r
    BY <1>3, <2>2, ServerWritesProperties DEF InOrder
  <2>3. QED BY <2>1, <2>2
<1>4. ASSUME NEW x \in CRs, CacheReceives(x)
      PROVE  InOrder(r)'
  <2>1. CASE x = r
    <3>1. /\ watch[r] # <<>>
          /\ cache'[r] = Head(watch[r]) /\ watch'[r] = Tail(watch[r])
      BY <1>4, <2>1, CacheReceivesProperties DEF CacheReceives
    <3>2. cache'[r].rev = cache[r].rev + 1
      <4>1. Head(watch[r]) = watch[r][1] /\ 1 \in DOMAIN watch[r]
        BY <1>1, <3>1
      <4>2. QED BY <3>1, <4>1 DEF InOrder
    <3>3. ASSUME NEW n \in DOMAIN Tail(watch[r])
          PROVE  n \in Nat /\ n + 1 \in DOMAIN watch[r] /\ Tail(watch[r])[n] = watch[r][n + 1]
      BY <1>1, <3>1
    <3>4. ASSUME NEW n \in DOMAIN Tail(watch[r])
          PROVE  Tail(watch[r])[n].rev = (cache[r].rev + 1) + n
      <4>1. Tail(watch[r])[n].rev = cache[r].rev + (n + 1)
        BY <3>3 DEF InOrder
      <4>2. n \in Nat /\ cache[r].rev \in Nat
        BY <1>1, <3>3
      <4> DEFINE c == cache[r].rev
      <4> HIDE DEF c
      <4>3. c + (n + 1) = (c + 1) + n
        BY <4>2 DEF c
      <4>4. QED BY <4>1, <4>3 DEF c
    <3>5. QED BY <3>1, <3>2, <3>4 DEF InOrder
  <2>2. CASE x # r
    BY <1>4, <2>2, CacheReceivesProperties DEF InOrder
  <2>3. QED BY <2>1, <2>2
<1>5. CASE CacheRelists
  <2>1. watch'[r] = <<>>
    BY <1>5 DEF CacheRelists
  <2>2. QED BY <2>1 DEF InOrder
<1>6. QED BY <1>2, <1>3, <1>4, <1>5 DEF StoreMoves

LEMMA ComputeChangeListType ==
  ASSUME NEW h \in [CRs -> Objects], NEW w \in [CRs -> Specs \cup {Absent}], NEW scope \in SUBSET CRs
  PROVE  ComputeChangeList(h, w, scope) \subseteq Item
<1>1. Additions(h, w, scope) \subseteq Item
  BY DEF Additions, NewItem, Item, Operations
<1>2. Updates(h, w, scope) \subseteq Item
  BY DEF Updates, NewItem, Item, Operations, Objects
<1>3. Deletions(h, w, scope) \subseteq Item
  BY DEF Deletions, NewItem, Item, Operations
<1>4. QED BY <1>1, <1>2, <1>3 DEF ComputeChangeList

\* Every item of a change list changes the resource it was computed from, and
\* every difference has an item.
LEMMA ChangesAreAccepted ==
  ASSUME NEW h \in [CRs -> Objects], NEW w \in [CRs -> Specs \cup {Absent}], NEW scope \in SUBSET CRs,
         NEW i \in ComputeChangeList(h, w, scope)
  PROVE  i.cr \in scope /\ Answer(i, h[i.cr]) = "ok"
<1>1. CASE i \in Additions(h, w, scope)
  BY <1>1 DEF Additions, NewItem, Answer
<1>2. CASE i \in Updates(h, w, scope)
  BY <1>2 DEF Updates, NewItem, Answer
<1>3. CASE i \in Deletions(h, w, scope)
  BY <1>3 DEF Deletions, NewItem, Answer
<1>4. QED BY <1>1, <1>2, <1>3 DEF ComputeChangeList

LEMMA DifferencesAreListed ==
  ASSUME NEW h \in [CRs -> Objects], NEW w \in [CRs -> Specs \cup {Absent}], NEW scope \in SUBSET CRs,
         NEW r \in scope, h[r].spec # w[r]
  PROVE  \E i \in ComputeChangeList(h, w, scope) : i.cr = r
<1>1. CASE h[r].spec = Absent
  <2>1. NewItem("add", r, w[r], 0) \in Additions(h, w, scope)
    BY <1>1 DEF Additions
  <2>2. QED BY <2>1 DEF ComputeChangeList, NewItem
<1>2. CASE h[r].spec # Absent /\ w[r] # Absent
  <2>1. NewItem("update", r, w[r], h[r].rev) \in Updates(h, w, scope)
    BY <1>2 DEF Updates
  <2>2. QED BY <2>1 DEF ComputeChangeList, NewItem
<1>3. CASE h[r].spec # Absent /\ w[r] = Absent
  <2>1. NewItem("delete", r, Absent, 0) \in Deletions(h, w, scope)
    BY <1>3 DEF Deletions
  <2>2. QED BY <2>1 DEF ComputeChangeList, NewItem
<1>4. QED BY <1>1, <1>2, <1>3
==============================================================================

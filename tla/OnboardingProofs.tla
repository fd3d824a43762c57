-------------------------- MODULE OnboardingProofs --------------------------
(***************************************************************************)
(* What Onboarding guarantees for all services, contents, edits, retry     *)
(* budgets and bounds: its types, that a difference between the            *)
(* ClusterRbacConfig and the onboarded services is never forgotten, that   *)
(* what it writes is exact, and that it never lists a service twice.       *)
(***************************************************************************)
EXTENDS Onboarding, ProcessorLemmas, ListLemmas

(***************************************************************************)
(* Contents and listings.                                                  *)
(***************************************************************************)
LEMMA ListingProperties ==
  /\ <<>> \in Listings
  /\ \A S \in SUBSET Services : SetToSeqs(S) \subseteq Listings
  /\ \A S \in SUBSET Services : \A l \in SetToSeqs(S) : Range(l) = S
  /\ \A l \in Listings :
       /\ l \in Seq(Services)
       /\ l \in Specs /\ l # Malformed /\ l # Absent
       /\ \A s \in Services : Occurrences(l, s) = IF s \in Range(l) THEN 1 ELSE 0
<1>1. \A S \in SUBSET Services : SetToSeqs(S) \subseteq Listings
  BY DEF Listings
<1>2. ASSUME NEW S \in SUBSET Services, NEW l \in SetToSeqs(S)
      PROVE  /\ l \in Seq(Services)
             /\ Range(l) = S
             /\ \A s \in Services : Occurrences(l, s) = IF s \in Range(l) THEN 1 ELSE 0
  <2>1. IsFiniteSet(S)
    BY ServicesAssumption, FS_Subset
  <2>2. l \in Seq(S) /\ Range(l) = S /\ \A x \in S : Occurrences(l, x) = 1
    BY <2>1, ListOfSet
  <2>3. l \in Seq(Services)
    BY <2>2
  <2>4. \A s \in Services : s \notin Range(l) => Occurrences(l, s) = 0
    BY <2>3, OccurrencesCount
  <2>5. QED BY <2>2, <2>3, <2>4
<1>3. <<>> \in SetToSeqs({})
  <2>1. Cardinality({}) = 0
    BY FS_EmptySet
  <2>2. 1..0 = {} /\ <<>> \in [{} -> {}]
    OBVIOUS
  <2>3. QED BY <2>1, <2>2 DEF SetToSeqs
<1>4. \A l \in Listings : \E S \in SUBSET Services : l \in SetToSeqs(S)
  BY DEF Listings
<1>5. \A l \in Listings : l \in Specs /\ l # Malformed /\ l # Absent
  BY SpecsAssumption, AbsentAssumption
<1>6. QED BY <1>1, <1>2, <1>3, <1>4, <1>5

\* Every content is absent, malformed or a list.
LEMMA ContentProperties ==
  ASSUME NEW c \in Specs \cup {Absent}
  PROVE  \/ c = Absent /\ c # Malformed
         \/ c = Malformed /\ c # Absent
         \/ c \in Specs \ {Malformed} /\ c \in Seq(Services) /\ c \notin {Absent, Malformed}
BY SpecsAssumption, AbsentAssumption, MalformedAssumption

\* How often the list a sync writes has an entry.
LEMMA ReconciledEntries ==
  ASSUME NEW l \in Listings, NEW c \in Specs \ {Malformed}
  PROVE  /\ Reconciled(l, c) \in Specs \ {Malformed}
         /\ Reconciled(l, c) \in Seq(Services)
         /\ \A s \in Services :
              Occurrences(Reconciled(l, c), s) =
                IF s \notin Range(l) THEN 0
                ELSE IF Occurrences(c, s) = 0 THEN 1 ELSE Occurrences(c, s)
<1>1. l \in Seq(Services) /\ c \in Seq(Services)
  BY ListingProperties, SpecsAssumption
<1>2. ASSUME NEW s \in Services
      PROVE  Occurrences(Reconciled(l, c), s) =
               IF s \notin Range(l) THEN 0
               ELSE IF Occurrences(c, s) = 0 THEN 1 ELSE Occurrences(c, s)
  <2>1. Occurrences(Reconciled(l, c), s) =
          IF s \notin Range(l) THEN 0
          ELSE IF s \in Range(c) THEN Occurrences(c, s) ELSE Occurrences(l, s)
    BY <1>1, ReconciledProperties
  <2>2. Occurrences(c, s) = 0 <=> s \notin Range(c)
    BY <1>1, OccurrencesCount
  <2>3. s \in Range(l) => Occurrences(l, s) = 1
    BY ListingProperties
  <2>4. QED BY <2>1, <2>2, <2>3
<1>3. QED BY <1>1, <1>2, ReconciledProperties, SpecsAssumption

\* What such a list adds to the content it replaces.
LEMMA ListingAddsNoDuplicate ==
  ASSUME NEW l \in Listings, NEW c \in Specs \cup {Absent}
  PROVE  AddsNoDuplicate(c, l)
<1>1. ASSUME NEW s \in Services
      PROVE  EntriesOf(l, s) \in {0, 1} /\ EntriesOf(c, s) \in Nat
  <2>1. EntriesOf(l, s) \in {0, 1}
    BY ListingProperties DEF EntriesOf
  <2>2. c \in Seq(Services) => Occurrences(c, s) \in Nat
    BY OccurrencesCount
  <2>3. EntriesOf(c, s) \in Nat
    BY <2>2, ContentProperties DEF EntriesOf
  <2>4. QED BY <2>1, <2>3
<1>2. QED BY <1>1 DEF AddsNoDuplicate

LEMMA ReconciledAddsNoDuplicate ==
  ASSUME NEW l \in Listings, NEW c \in Specs \ {Malformed}
  PROVE  AddsNoDuplicate(c, Reconciled(l, c))
<1>1. ASSUME NEW s \in Services
      PROVE  /\ EntriesOf(c, s) = Occurrences(c, s) /\ Occurrences(c, s) \in Nat
             /\ EntriesOf(Reconciled(l, c), s) = Occurrences(Reconciled(l, c), s)
  <2>1. c \in Seq(Services) /\ c \notin {Absent, Malformed}
    BY SpecsAssumption, AbsentAssumption
  <2>2. Reconciled(l, c) \notin {Absent, Malformed}
    BY ReconciledEntries, AbsentAssumption
  <2>3. QED BY <2>1, <2>2, OccurrencesCount DEF EntriesOf
<1>2. QED BY <1>1, ReconciledEntries DEF AddsNoDuplicate

(***************************************************************************)
(* The decision of a sync.                                                 *)
(***************************************************************************)

\* Item i changes object obj, and adds no duplicate to it.
Changes(i, obj) ==
  /\ i.cr = Crc
  /\ Answer(i, obj) = "ok"
  /\ \/ i.op = "add" /\ AddsNoDuplicate(Absent, i.spec)
     \/ i.op = "delete" /\ i.spec = Absent
     \/ i.op = "update" /\ i.rev = obj.rev /\ AddsNoDuplicate(obj.spec, i.spec)

LEMMA NewItemProperties ==
  ASSUME NEW op \in Operations, NEW s \in Specs \cup {Absent}, NEW v \in Nat
  PROVE  LET i == NewItem(op, Crc, s, v)
         IN  /\ i \in Item
             /\ i.op = op /\ i.cr = Crc /\ i.spec = s /\ i.rev = v /\ i.tries = 0
BY CrcAssumption DEF NewItem, Item

LEMMA DecisionProperties ==
  ASSUME NEW obj \in Objects, listing \in Listings
  PROVE  \/ /\ Decision(obj) = <<>>
            /\ IF Range(listing) = {} THEN obj.spec = Absent
               ELSE obj.spec \notin {Absent, Malformed} /\ Range(obj.spec) = Range(listing)
         \/ \E i \in Item : Decision(obj) = <<i>> /\ Changes(i, obj)
<1> DEFINE c == obj.spec
<1>t. /\ c \in Specs \cup {Absent} /\ obj.rev \in Nat
      /\ listing \in Seq(Services) /\ listing \in Specs /\ listing # Absent
  BY ListingProperties DEF Objects
<1>e. listing = <<>> <=> Range(listing) = {}
  <2>1. listing # <<>> => 1 \in DOMAIN listing
    BY <1>t
  <2>2. listing # <<>> => Range(listing) # {}
    BY <2>1 DEF Range
  <2>3. Range(<<>>) = {}
    BY DEF Range
  <2>4. QED BY <2>2, <2>3
<1>1. CASE c = Absent /\ listing = <<>>
  BY <1>1, <1>e DEF Decision
<1>2. CASE c = Absent /\ listing # <<>>
  <2> DEFINE i == NewItem("add", Crc, listing, 0)
  <2>1. Decision(obj) = <<i>>
    BY <1>2, MalformedAssumption, AbsentAssumption DEF Decision
  <2>2. /\ i \in Item /\ i.op = "add" /\ i.cr = Crc /\ i.spec = listing
    BY <1>t, NewItemProperties DEF Operations
  <2> HIDE DEF i
  <2>3. AddsNoDuplicate(Absent, i.spec)
    BY <2>2, ListingAddsNoDuplicate
  <2>4. Changes(i, obj)
    BY <1>2, <2>2, <2>3 DEF Changes, Answer
  <2>5. QED BY <2>1, <2>2, <2>4
<1>3. CASE c # Absent /\ listing = <<>>
  <2> DEFINE i == NewItem("delete", Crc, Absent, 0)
  <2>1. Decision(obj) = <<i>>
    BY <1>3 DEF Decision
  <2>2. /\ i \in Item /\ i.op = "delete" /\ i.cr = Crc /\ i.spec = Absent
    <3>1. "delete" \in Operations /\ 0 \in Nat /\ Absent \in Specs \cup {Absent}
      BY DEF Operations
    <3>2. QED BY <3>1, NewItemProperties
  <2> HIDE DEF i
  <2>4. Changes(i, obj)
    BY <1>3, <2>2 DEF Changes, Answer
  <2>5. QED BY <2>1, <2>2, <2>4
\* An update, whatever its content.
<1>u. ASSUME NEW l \in Specs, AddsNoDuplicate(c, l), c # Absent,
             Decision(obj) = <<NewItem("update", Crc, l, obj.rev)>>
      PROVE  \E i \in Item : Decision(obj) = <<i>> /\ Changes(i, obj)
  <2> DEFINE i == NewItem("update", Crc, l, obj.rev)
  <2>1. /\ i \in Item /\ i.op = "update" /\ i.cr = Crc /\ i.spec = l /\ i.rev = obj.rev
    BY <1>t, NewItemProperties DEF Operations
  <2>2. Decision(obj) = <<i>>
    BY <1>u
  <2> HIDE DEF i
  <2>3. Changes(i, obj)
    BY <1>u, <2>1 DEF Changes, Answer
  <2>4. QED BY <2>1, <2>2, <2>3
<1>4. CASE c = Malformed /\ c # Absent /\ listing # <<>>
  <2>1. Decision(obj) = <<NewItem("update", Crc, listing, obj.rev)>>
    BY <1>4 DEF Decision
  <2>2. QED BY <1>t, <1>4, <1>u, <2>1, ListingAddsNoDuplicate
<1>5. CASE c \in Specs \ {Malformed} /\ c # Absent /\ listing # <<>>
  <2>1. c \in Seq(Services) /\ NeedsUpdate(listing, c) <=> Range(listing) # Range(c)
    BY <1>t, <1>5, ContentProperties, WhenNeedsUpdate
  <2>2. CASE NeedsUpdate(listing, c)
    <3>1. Decision(obj) = <<NewItem("update", Crc, Reconciled(listing, c), obj.rev)>>
      BY <1>5, <2>2 DEF Decision
    <3>2. QED BY <1>5, <1>u, <3>1, ReconciledEntries, ReconciledAddsNoDuplicate
  <2>3. CASE ~NeedsUpdate(listing, c)
    <3>1. Decision(obj) = <<>>
      BY <1>5, <2>3 DEF Decision
    <3>2. Range(listing) = Range(c) /\ Range(listing) # {}
      BY <1>5, <1>e, <1>t, <2>3, WhenNeedsUpdate, ContentProperties
    <3>3. QED BY <1>5, <3>1, <3>2
  <2>4. QED BY <2>2, <2>3
<1>6. QED BY <1>t, <1>1, <1>2, <1>3, <1>4, <1>5, ContentProperties

(***************************************************************************)
(* The queue, whose only key is Crc.                                       *)
(***************************************************************************)
Remembers(q) == q.dirty \ q.processing # {} => q.order # <<>>

LEMMA AddRemembers ==
  ASSUME NEW q \in WorkQueueType({Crc}), Remembers(q)
  PROVE  Remembers(QueueAdd(q, Crc))
<1>1. CASE Crc \in q.dirty
  BY <1>1 DEF QueueAdd
<1>2. CASE Crc \notin q.dirty /\ Crc \in q.processing
  <2>1. QueueAdd(q, Crc).order = q.order
    BY <1>2 DEF QueueAdd, WorkQueueType
  <2>2. QED BY <1>2, <2>1, QueueAddProperties DEF Remembers
<1>3. CASE Crc \notin q.dirty /\ Crc \notin q.processing
  <2>1. QueueAdd(q, Crc).order = Append(q.order, Crc) /\ q.order \in Seq({Crc})
    BY <1>3 DEF QueueAdd, WorkQueueType
  <2>2. Append(q.order, Crc) # <<>>
    BY <2>1
  <2>3. QED BY <2>1, <2>2 DEF Remembers
<1>4. QED BY <1>1, <1>2, <1>3

\* What the steps do to this queue.
LEMMA QueueAfterAdd ==
  ASSUME queue \in WorkQueueType({Crc}), queue' = QueueAdd(queue, Crc)
  PROVE  /\ queue' \in WorkQueueType({Crc})
         /\ queue'.dirty = queue.dirty \cup {Crc}
         /\ queue'.processing = queue.processing
         /\ queue'.delayed = queue.delayed
         /\ queue'.failures = queue.failures
         /\ Remembers(queue) => Remembers(queue')
<1> DEFINE q == QueueAdd(queue, Crc)
<1>1. /\ q \in WorkQueueType({Crc})
      /\ q.dirty = queue.dirty \cup {Crc} /\ q.processing = queue.processing
      /\ q.delayed = queue.delayed /\ q.failures = queue.failures
  BY QueueAddProperties
<1>2. Remembers(queue) => Remembers(q)
  BY AddRemembers
<1>3. QED BY <1>1, <1>2

LEMMA QueueAfterBackoff ==
  ASSUME queue \in WorkQueueType({Crc}), queue' = BackoffOver(queue, Crc)
  PROVE  /\ queue' \in WorkQueueType({Crc})
         /\ queue'.dirty = queue.dirty \cup {Crc}
         /\ queue'.processing = queue.processing
         /\ queue'.failures = queue.failures
         /\ Remembers(queue) => Remembers(queue')
<1> DEFINE q == [queue EXCEPT !.delayed = @ \ {Crc}]
<1>1. /\ q \in WorkQueueType({Crc})
      /\ q.order = queue.order /\ q.dirty = queue.dirty /\ q.processing = queue.processing
  BY DEF WorkQueueType
<1>2. queue' = QueueAdd(q, Crc)
  BY DEF BackoffOver
<1> HIDE DEF q
<1>3. Remembers(queue) => Remembers(queue')
  BY <1>1, <1>2, AddRemembers DEF Remembers
<1>4. QED BY <1>3, BackoffOverProperties

LEMMA QueueAfterGet ==
  ASSUME queue \in WorkQueueType({Crc}), queue.order # <<>>, queue' = QueueGet(queue)
  PROVE  /\ queue' \in WorkQueueType({Crc})
         /\ queue'.dirty = queue.dirty \ {Crc}
         /\ queue'.processing = {Crc}
         /\ queue'.delayed = queue.delayed
         /\ queue'.failures = queue.failures
<1>1. Head(queue.order) = Crc
  BY QueueGetProperties
<1>2. queue.processing \in SUBSET {Crc}
  BY DEF WorkQueueType
<1>3. QED BY <1>1, <1>2, QueueGetProperties

LEMMA QueueAfterDone ==
  ASSUME queue \in WorkQueueType({Crc}), queue' = QueueDone(queue, Crc)
  PROVE  /\ queue' \in WorkQueueType({Crc})
         /\ queue'.dirty = queue.dirty
         /\ queue'.processing = {}
         /\ queue'.delayed = queue.delayed
         /\ queue'.failures = queue.failures
         /\ Remembers(queue')
<1>1. queue.processing \in SUBSET {Crc} /\ queue.dirty \in SUBSET {Crc}
  BY DEF WorkQueueType
<1>2. queue'.processing = {}
  BY <1>1, QueueDoneProperties
<1>3. Remembers(queue')
  <2>1. CASE Crc \in queue.dirty
    <3>1. queue'.order = Append(queue.order, Crc) /\ queue.order \in Seq({Crc})
      BY <2>1, QueueDoneProperties DEF WorkQueueType
    <3>2. Append(queue.order, Crc) # <<>>
      BY <3>1
    <3>3. QED BY <3>1, <3>2 DEF Remembers
  <2>2. CASE Crc \notin queue.dirty
    <3>1. queue'.dirty = {}
      BY <1>1, <2>2, QueueDoneProperties
    <3>2. QED BY <3>1 DEF Remembers
  <2>3. QED BY <2>1, <2>2
<1>4. QED BY <1>2, <1>3, QueueDoneProperties

LEMMA QueueAfterLimit ==
  ASSUME queue \in WorkQueueType({Crc}), queue' = AddRateLimited(queue, Crc)
  PROVE  /\ queue' \in WorkQueueType({Crc})
         /\ queue'.dirty = queue.dirty
         /\ queue'.processing = queue.processing
         /\ queue'.delayed = {Crc}
         /\ queue'.failures[Crc] = queue.failures[Crc] + 1
         /\ queue.failures[Crc] \in Nat
         /\ Remembers(queue) => Remembers(queue')
<1> DEFINE q == AddRateLimited(queue, Crc)
<1>1. /\ q \in WorkQueueType({Crc}) /\ q.order = queue.order
      /\ q.dirty = queue.dirty /\ q.processing = queue.processing
      /\ q.delayed = queue.delayed \cup {Crc}
      /\ q.failures = [queue.failures EXCEPT ![Crc] = @ + 1]
  BY AddRateLimitedProperties
<1> HIDE DEF q
<1>2. queue.delayed \in SUBSET {Crc} /\ queue.failures \in [{Crc} -> Nat]
  BY DEF WorkQueueType
<1>3. Remembers(queue) => Remembers(q)
  BY <1>1 DEF Remembers
<1>4. q.delayed = {Crc} /\ q.failures[Crc] = queue.failures[Crc] + 1
  BY <1>1, <1>2
<1>5. QED BY <1>1, <1>2, <1>3, <1>4 DEF q

LEMMA QueueAfterForget ==
  ASSUME queue \in WorkQueueType({Crc}), queue' = Forget(queue, Crc)
  PROVE  /\ queue' \in WorkQueueType({Crc})
         /\ queue'.dirty = queue.dirty
         /\ queue'.processing = queue.processing
         /\ queue'.delayed = queue.delayed
         /\ queue'.failures[Crc] = 0
         /\ Remembers(queue) => Remembers(queue')
<1> DEFINE q == Forget(queue, Crc)
<1>1. /\ q \in WorkQueueType({Crc}) /\ q.order = queue.order
      /\ q.dirty = queue.dirty /\ q.processing = queue.processing
      /\ q.delayed = queue.delayed
      /\ q.failures = [queue.failures EXCEPT ![Crc] = 0]
  BY ForgetProperties
<1> HIDE DEF q
<1>2. queue.failures \in [{Crc} -> Nat]
  BY DEF WorkQueueType
<1>3. Remembers(queue) => Remembers(q)
  BY <1>1 DEF Remembers
<1>4. q.failures[Crc] = 0
  BY <1>1, <1>2
<1>5. QED BY <1>1, <1>3, <1>4 DEF q

(***************************************************************************)
(* Types.                                                                  *)
(***************************************************************************)
\* An informer that starts reports something if there is anything.
LEMMA CountOfNotes ==
  ASSUME NEW services \in SUBSET Services, NEW n, n \in {0, 1}
  PROVE  /\ Cardinality(services) + n \in Nat
         /\ Cardinality(services) + n = 0 => services = {} /\ n = 0
<1>1. IsFiniteSet(services)
  BY ServicesAssumption, FS_Subset
<1>2. Cardinality(services) \in Nat /\ (Cardinality(services) = 0 <=> services = {})
  BY <1>1, FS_CardinalityType, FS_EmptySet
<1>3. QED BY <1>2

LEMMA NamesAreServices ==
  ASSUME NEW suffix \in DnsSuffixes
  PROVE  ServicesUnder(suffix) \subseteq Services
  BY DEF ServicesUnder, Services

LEMMA InitialNotesProperties ==
  ASSUME onboarded \subseteq Services
  PROVE  /\ InitialNotes \in Nat
         /\ ~ListsOnboarded(server[Crc].spec) => InitialNotes > 0
  BY CountOfNotes DEF InitialNotes, ListsOnboarded

\* The services a process is told of when it starts, under the names it gives them.
LEMMA RestartNotes ==
  ASSUME TypeOK, Restart
  PROVE  /\ dnsSuffix' \in DnsSuffixes /\ onboarded' \subseteq ServicesUnder(dnsSuffix')
         /\ notes' \in Nat
         /\ onboarded' # onboarded => notes' > 0
         /\ ~ListsOnboarded(server[Crc].spec)' => notes' > 0
<1>1. dnsSuffix' \in DnsSuffixes /\ onboarded' = {<<s[1], dnsSuffix'>> : s \in onboarded}
  BY DEF Restart
<1>2. \A s \in onboarded : s[1] \in KubeServices
  BY DEF TypeOK, ServicesUnder
<1>3. onboarded' \subseteq ServicesUnder(dnsSuffix')
  BY <1>1, <1>2 DEF ServicesUnder
<1>4. onboarded' \in SUBSET Services
  BY <1>1, <1>3, NamesAreServices
<1>5. notes' = Cardinality(onboarded') + (IF server'[Crc].spec = Absent THEN 0 ELSE 1)
  BY DEF Restart, InitialNotes
<1>6. notes' \in Nat /\ (notes' = 0 => onboarded' = {} /\ server'[Crc].spec = Absent)
  BY <1>4, <1>5, CountOfNotes
<1>7. onboarded' = {} => onboarded = {}
  BY <1>1
<1>8. QED BY <1>1, <1>3, <1>6, <1>7 DEF ListsOnboarded

LEMMA ServicesType ==
  ASSUME TypeOK
  PROVE  onboarded \subseteq Services
  BY NamesAreServices DEF TypeOK

LEMMA InitType == Init => TypeOK
<1> SUFFICES ASSUME Init PROVE TypeOK
  OBVIOUS
<1>1. queue \in WorkQueueType({Crc})
  BY DEF Init, EmptyQueue, WorkQueueType
<1>2. notes \in Nat /\ listing \in Listings
  BY InitialNotesProperties, NamesAreServices, ListingProperties DEF Init
<1>3. QED BY <1>1, <1>2, StoreInitType, ProcessorInitType DEF Init, TypeOK

\* The items a sync decides on go to the end of the processor's queue.
LEMMA DecideProperties ==
  ASSUME TypeOK, Decide
  PROVE  LET obj == cache[Crc]
             empty == Decision(obj) = <<>>
         IN  /\ empty =>
                  /\ IF Range(listing) = {} THEN obj.spec = Absent
                     ELSE obj.spec \notin {Absent, Malformed} /\ Range(obj.spec) = Range(listing)
                  /\ procQueue' = procQueue /\ queue' = Forget(queue, Crc)
             /\ ~empty =>
                  /\ \E i \in Item : procQueue' = Append(procQueue, i) /\ Changes(i, obj)
                  /\ queue' = queue
             /\ procQueue' \in Seq(Item)
<1> DEFINE obj == cache[Crc]
<1>1. obj \in Objects /\ listing \in Listings /\ procQueue \in Seq(Item)
  BY CrcAssumption DEF TypeOK, StoreTypeOK, ProcessorTypeOK
<1>2. procQueue' = procQueue \o Decision(obj) /\ queue' = QueueAfterDecision(Decision(obj))
  BY DEF Decide
<1> HIDE DEF obj
<1>3. CASE Decision(obj) = <<>>
  <2>1. procQueue' = procQueue /\ queue' = Forget(queue, Crc)
    BY <1>1, <1>2, <1>3 DEF QueueAfterDecision
  <2>2. ~ \E i \in Item : Decision(obj) = <<i>>
    BY <1>3
  <2>3. IF Range(listing) = {} THEN obj.spec = Absent
        ELSE obj.spec \notin {Absent, Malformed} /\ Range(obj.spec) = Range(listing)
    BY <1>1, <2>2, DecisionProperties
  <2>4. QED BY <1>1, <1>3, <2>1, <2>3 DEF obj
<1>4. ASSUME NEW i \in Item, Decision(obj) = <<i>>, Changes(i, obj)
      PROVE  procQueue' = Append(procQueue, i) /\ queue' = queue /\ procQueue' \in Seq(Item)
  BY <1>1, <1>2, <1>4 DEF QueueAfterDecision
<1>5. QED BY <1>1, <1>3, <1>4, DecisionProperties DEF obj

LEMMA TypeStep ==
  ASSUME TypeOK, [Next]_vars
  PROVE  TypeOK'
<1>t. /\ StoreTypeOK /\ ProcessorTypeOK
      /\ dnsSuffix \in DnsSuffixes /\ onboarded \subseteq ServicesUnder(dnsSuffix)
      /\ notes \in Nat /\ edits \in Nat
      /\ queue \in WorkQueueType({Crc}) /\ listing \in Listings
      /\ syncPc \in {"idle", "services", "config", "done"}
  BY DEF TypeOK
\* The steps of the worker, the informers and the timers.
<1>u. UNCHANGED <<storeVars, processorVars>> => StoreTypeOK' /\ ProcessorTypeOK'
  BY <1>t, StoreUnchanged, ProcessorUnchanged
<1>1. ASSUME NEW s \in Services, ServiceChanges(s) PROVE TypeOK'
  BY <1>t, <1>u, <1>1 DEF ServiceChanges, Edited, workerVars, TypeOK
<1>2. CASE Notify \/ Resync
  BY <1>t, <1>u, <1>2, QueueAfterAdd DEF Notify, Resync, surroundingVars, TypeOK
<1>3. CASE QueueBackoffOver
  BY <1>t, <1>u, <1>3, QueueAfterBackoff DEF QueueBackoffOver, surroundingVars, TypeOK
<1>4. CASE SyncGet
  BY <1>t, <1>u, <1>4, QueueAfterGet DEF SyncGet, surroundingVars, TypeOK
<1>5. CASE ListServices
  BY <1>t, <1>u, <1>5, ListingProperties, ServicesType DEF ListServices, surroundingVars, TypeOK
<1>6. CASE SyncDone
  BY <1>t, <1>u, <1>6, QueueAfterDone, ListingProperties DEF SyncDone, surroundingVars, TypeOK
<1>7. CASE Decide
  <2>1. procQueue' \in Seq(Item)
    BY <1>7, DecideProperties
  <2>2. queue' \in WorkQueueType({Crc})
    BY <1>t, <1>7, DecideProperties, QueueAfterForget
  <2>3. ProcessorTypeOK'
    BY <1>t, <1>7, <2>1 DEF Decide, ProcessorTypeOK
  <2>4. StoreTypeOK'
    BY <1>t, <1>7, StoreUnchanged DEF Decide
  <2>5. QED BY <1>t, <1>7, <2>2, <2>3, <2>4 DEF Decide, surroundingVars, TypeOK
<1>8. CASE ExternalEdit
  <2>1. StoreTypeOK'
    BY <1>t, <1>8, EditedToAssumption, CrcAssumption, ServerWritesProperties DEF ExternalEdit
  <2>2. ProcessorTypeOK'
    BY <1>t, <1>8, ProcessorUnchanged DEF ExternalEdit
  <2>3. QED BY <1>t, <1>8, <2>1, <2>2 DEF ExternalEdit, Edited, workerVars, TypeOK
<1>9. CASE Deliver
  <2>1. StoreTypeOK'
    BY <1>t, <1>9, CrcAssumption, CacheReceivesProperties DEF Deliver
  <2>2. ProcessorTypeOK'
    BY <1>t, <1>9, ProcessorUnchanged DEF Deliver
  <2>3. QED BY <1>t, <1>9, <2>1, <2>2 DEF Deliver, workerVars, TypeOK
\* The steps of the processor.
<1>10. CASE ProcessorGet \/ ProcessorCall \/ ProcessorCallFails \/ ProcessorBackoffOver
  <2>1. ProcessorMoves /\ UNCHANGED controllerVars
    BY <1>10 DEF ProcessorGet, ProcessorCall, ProcessorCallFails, ProcessorBackoffOver, ProcessorMoves
  <2>2. QED BY <1>t, <2>1, ProcessorMovesType DEF controllerVars, surroundingVars, workerVars, TypeOK
<1>11. CASE CallbackDone \/ CallbackRetries \/ CallbackConflictOverBudget \/ CallbackConflict
  <2>1. CallbackMoves /\ UNCHANGED controllerVars
    BY <1>11 DEF CallbackDone, CallbackRetries, CallbackConflictOverBudget, CallbackConflict, CallbackMoves
  <2>2. QED BY <1>t, <2>1, CallbackMovesType DEF controllerVars, surroundingVars, workerVars, TypeOK
<1>12. CASE CallbackRequeues
  <2>1. CallbackMoves /\ queue' = AddRateLimited(queue, Crc)
    BY <1>12 DEF CallbackRequeues, CallbackMoves
  <2>2. StoreTypeOK' /\ ProcessorTypeOK' /\ queue' \in WorkQueueType({Crc})
    BY <1>t, <2>1, CallbackMovesType, QueueAfterLimit
  <2>3. QED BY <1>t, <1>12, <2>2 DEF CallbackRequeues, surroundingVars, TypeOK
<1>13. CASE Restart
  <2>1. StoreTypeOK'
    BY <1>t, <1>13 DEF Restart, CacheRelists, StoreTypeOK
  <2>2. ProcessorTypeOK'
    BY <1>t, <1>13 DEF Restart, ProcRelease, ProcessorTypeOK
  <2>3. queue' \in WorkQueueType({Crc})
    BY <1>13 DEF Restart, EmptyQueue, WorkQueueType
  <2>4. QED BY <1>t, <1>13, <2>1, <2>2, <2>3, RestartNotes, ListingProperties
            DEF Restart, Edited, TypeOK
<1>14. CASE UNCHANGED vars
  BY <1>t, <1>u, <1>14 DEF vars, workerVars, surroundingVars, TypeOK
<1>15. QED
  BY <1>1, <1>2, <1>3, <1>4, <1>5, <1>6, <1>7, <1>8, <1>9, <1>10, <1>11, <1>12, <1>13, <1>14
     DEF Next, Worker, ProcessorStep, Surroundings

(***************************************************************************)
(* The server, the cache and the watch.                                    *)
(***************************************************************************)
LEMMA StoreSteps ==
  ASSUME TypeOK, [Next]_vars
  PROVE  StoreMoves
<1> USE DEF StoreMoves
<1>t. ProcessorTypeOK
  BY DEF TypeOK
<1>1. CASE Worker
  BY <1>1 DEF Worker, SyncGet, ListServices, Decide, SyncDone
<1>2. ASSUME procPc = "call"
      PROVE  procItem.cr \in CRs /\ procItem.spec \in Specs \cup {Absent}
  BY <1>t, <1>2, ItemInHand
<1>3. CASE ProcessorCall
  BY <1>2, <1>3 DEF ProcessorCall, ProcCall
<1>4. CASE ProcessorCallFails
  BY <1>2, <1>4 DEF ProcessorCallFails, ProcCallFails
<1>5. CASE ProcessorGet \/ ProcessorBackoffOver \/ CallbackDone \/ CallbackRetries
             \/ CallbackConflictOverBudget \/ CallbackConflict \/ CallbackRequeues
  BY <1>5 DEF ProcessorGet, ProcGet, ProcessorBackoffOver, ProcBackoffOver, CallbackDone,
              CallbackRetries, CallbackConflictOverBudget, CallbackConflict, CallbackRequeues,
              ProcForget, ProcRetry, ProcDrop
<1>6. ASSUME NEW s \in Services, ServiceChanges(s)
      PROVE  UNCHANGED storeVars
  BY <1>6 DEF ServiceChanges
<1>7. CASE Notify \/ Resync \/ QueueBackoffOver
  BY <1>7 DEF Notify, Resync, QueueBackoffOver
<1>8. CASE ExternalEdit
  BY <1>8, CrcAssumption, EditedToAssumption DEF ExternalEdit
<1>9. CASE Deliver
  BY <1>9, CrcAssumption DEF Deliver
<1>10. CASE Restart
  BY <1>10 DEF Restart
<1>11. CASE UNCHANGED vars
  BY <1>11 DEF vars
<1>12. QED
  BY <1>1, <1>3, <1>4, <1>5, <1>6, <1>7, <1>8, <1>9, <1>10, <1>11
     DEF Next, ProcessorStep, Surroundings

LEMMA WatchMeans == WatchIsInOrder <=> Trails(Crc) /\ InOrder(Crc)
BY DEF WatchIsInOrder, Trails, InOrder

LEMMA WatchStep ==
  ASSUME TypeOK, WatchIsInOrder, [Next]_vars
  PROVE  WatchIsInOrder'
<1>1. Trails(Crc)' /\ InOrder(Crc)'
  BY StoreSteps, WatchMeans, TrailsKept, InOrderKept, CrcAssumption DEF TypeOK
<1>2. QED BY <1>1 DEF WatchIsInOrder, Trails, InOrder

(***************************************************************************)
(* The steps that leave the worker, its queue and its surroundings alone.  *)
(***************************************************************************)
LEMMA ProcessorSteps ==
  ASSUME ProcessorStep \/ ProcessorCallFails \/ ProcessorBackoffOver, ~CallbackRequeues
  PROVE  (ProcessorMoves \/ CallbackMoves) /\ UNCHANGED controllerVars
BY DEF ProcessorStep, ProcessorGet, ProcessorCall, ProcessorCallFails, ProcessorBackoffOver,
       CallbackDone, CallbackRetries, CallbackConflictOverBudget, CallbackConflict,
       ProcessorMoves, CallbackMoves

(***************************************************************************)
(* The queue remembers its key.                                            *)
(***************************************************************************)
LEMMA QueueMeans ==
  QueueRemembers <=>
    queue.processing = (IF syncPc = "idle" THEN {} ELSE {Crc}) /\ Remembers(queue)
BY DEF QueueRemembers, Remembers

LEMMA QueueStep ==
  ASSUME TypeOK, QueueRemembers, [Next]_vars
  PROVE  QueueRemembers'
<1>t. queue \in WorkQueueType({Crc})
  BY DEF TypeOK
<1>r. queue.processing = (IF syncPc = "idle" THEN {} ELSE {Crc}) /\ Remembers(queue)
  BY QueueMeans
<1> SUFFICES /\ queue'.processing = (IF syncPc' = "idle" THEN {} ELSE {Crc})
             /\ Remembers(queue')
  BY DEF QueueRemembers, Remembers
<1>1. CASE Notify \/ Resync
  BY <1>t, <1>r, <1>1, QueueAfterAdd DEF Notify, Resync
<1>2. CASE QueueBackoffOver
  BY <1>t, <1>r, <1>2, QueueAfterBackoff DEF QueueBackoffOver
<1>3. CASE SyncGet
  <2>1. /\ syncPc' = "services" /\ queue'.processing = {Crc}
        /\ queue' \in WorkQueueType({Crc})
    BY <1>t, <1>3, QueueAfterGet DEF SyncGet
  <2>2. queue'.dirty \subseteq {Crc}
    BY <2>1 DEF WorkQueueType
  <2>3. QED BY <2>1, <2>2 DEF Remembers
<1>4. CASE ListServices
  BY <1>r, <1>4 DEF ListServices
<1>5. CASE Decide
  BY <1>t, <1>r, <1>5, QueueAfterForget DEF Decide, QueueAfterDecision
<1>6. CASE SyncDone
  BY <1>t, <1>6, QueueAfterDone DEF SyncDone
<1>7. CASE CallbackRequeues
  BY <1>t, <1>r, <1>7, QueueAfterLimit DEF CallbackRequeues
<1>8. CASE (ProcessorStep \/ ProcessorCallFails \/ ProcessorBackoffOver) /\ ~CallbackRequeues
  BY <1>r, <1>8, ProcessorSteps DEF controllerVars, workerVars
<1>9. ASSUME NEW s \in Services, ServiceChanges(s)
      PROVE  UNCHANGED <<queue, syncPc>>
  BY <1>9 DEF ServiceChanges, workerVars
<1>10. CASE ExternalEdit \/ Deliver
  BY <1>r, <1>10 DEF ExternalEdit, Deliver, workerVars
<1>11. CASE Restart
  BY <1>11 DEF Restart, EmptyQueue, Remembers
<1>12. CASE UNCHANGED vars
  BY <1>r, <1>12 DEF vars, workerVars
<1>13. QED
  BY <1>r, <1>1, <1>2, <1>3, <1>4, <1>5, <1>6, <1>7, <1>8, <1>9, <1>10, <1>11, <1>12
     DEF Next, Worker, Surroundings

(***************************************************************************)
(* A stale listing is followed by another sync.                            *)
(***************************************************************************)
LEMMA StaleStep ==
  ASSUME TypeOK, StaleListingIsFollowed, [Next]_vars
  PROVE  StaleListingIsFollowed'
<1>t. queue \in WorkQueueType({Crc}) /\ notes \in Nat
  BY DEF TypeOK
<1> SUFFICES ASSUME syncPc' \in {"config", "done"}, Range(listing') # onboarded'
             PROVE  notes' > 0 \/ Crc \in queue'.dirty
  BY DEF StaleListingIsFollowed
<1>f. ASSUME UNCHANGED <<listing, onboarded>>, syncPc \in {"config", "done"},
             notes' >= notes, notes' \in Nat, queue'.dirty = queue.dirty
      PROVE  notes' > 0 \/ Crc \in queue'.dirty
  BY <1>t, <1>f DEF StaleListingIsFollowed
<1>1. CASE Notify \/ Resync
  BY <1>t, <1>1, QueueAfterAdd DEF Notify, Resync
<1>2. CASE QueueBackoffOver
  BY <1>t, <1>2, QueueAfterBackoff DEF QueueBackoffOver
<1>3. CASE SyncGet \/ SyncDone \/ Restart
  BY <1>3 DEF SyncGet, SyncDone, Restart
<1>4. CASE ListServices
  <2>1. listing' \in SetToSeqs(onboarded) /\ onboarded' = onboarded
    BY <1>4 DEF ListServices, surroundingVars
  <2>2. Range(listing') = onboarded
    BY <2>1, ServicesType, ListingProperties
  <2>3. QED BY <2>1, <2>2
<1>5. CASE Decide
  <2>1. queue'.dirty = queue.dirty
    BY <1>t, <1>5, QueueAfterForget DEF Decide, QueueAfterDecision
  <2>2. QED BY <1>t, <1>f, <1>5, <2>1 DEF Decide, surroundingVars
<1>6. CASE CallbackRequeues
  <2>1. queue'.dirty = queue.dirty
    BY <1>t, <1>6, QueueAfterLimit DEF CallbackRequeues
  <2>2. QED BY <1>t, <1>f, <1>6, <2>1 DEF CallbackRequeues, surroundingVars
<1>7. CASE (ProcessorStep \/ ProcessorCallFails \/ ProcessorBackoffOver) /\ ~CallbackRequeues
  BY <1>t, <1>f, <1>7, ProcessorSteps DEF controllerVars, surroundingVars, workerVars
<1>8. ASSUME NEW s \in Services, ServiceChanges(s)
      PROVE  notes' > 0
  BY <1>t, <1>8 DEF ServiceChanges
<1>9. CASE Deliver
  BY <1>t, <1>9 DEF Deliver
<1>10. CASE ExternalEdit
  BY <1>t, <1>f, <1>10 DEF ExternalEdit, workerVars
<1>11. CASE UNCHANGED vars
  BY <1>t, <1>f, <1>11 DEF vars, workerVars, surroundingVars
<1>12. QED
  BY <1>1, <1>2, <1>3, <1>4, <1>5, <1>6, <1>7, <1>8, <1>9, <1>10, <1>11
     DEF Next, Worker, Surroundings

(***************************************************************************)
(* The retry budget, spent by the callbacks of one goroutine.              *)
(***************************************************************************)
LEMMA BudgetStep ==
  ASSUME TypeOK, RetriesGranted, [Next]_vars
  PROVE  RetriesGranted'
<1>t. queue \in WorkQueueType({Crc}) /\ queue.failures[Crc] \in Nat /\ QueueNumRetries \in Nat
  BY RetriesAssumption DEF TypeOK, WorkQueueType
<1> USE DEF RetriesGranted, NumRequeues
<1>f. ASSUME queue'.failures = queue.failures \/ queue'.failures[Crc] = 0,
             procPc' = "requeue" => procPc = "requeue"
      PROVE  RetriesGranted'
  <2>1. procPc' # "requeue" => queue'.failures[Crc] <= QueueNumRetries
    BY <1>t, <1>f
  <2>2. procPc' = "requeue" => queue'.failures[Crc] + 1 <= QueueNumRetries
    BY <1>t, <1>f
  <2>3. queue'.failures[Crc] \in Nat
    BY <1>t, <1>f
  <2>4. QED BY <2>1, <2>2, <2>3
<1>1. CASE Notify \/ Resync
  BY <1>t, <1>f, <1>1, QueueAfterAdd DEF Notify, Resync, processorVars
<1>2. CASE QueueBackoffOver
  BY <1>t, <1>f, <1>2, QueueAfterBackoff DEF QueueBackoffOver, processorVars
<1>3. CASE SyncGet
  BY <1>t, <1>f, <1>3, QueueAfterGet DEF SyncGet, processorVars
<1>4. CASE ListServices
  BY <1>f, <1>4 DEF ListServices, processorVars
<1>5. CASE Decide
  BY <1>t, <1>f, <1>5, QueueAfterForget DEF Decide, QueueAfterDecision
<1>6. CASE SyncDone
  BY <1>t, <1>f, <1>6, QueueAfterDone DEF SyncDone, processorVars
<1>7. CASE CallbackConflict
  <2>1. queue' = queue /\ queue.failures[Crc] < QueueNumRetries
    BY <1>7 DEF CallbackConflict, controllerVars, workerVars, BudgetLeft
  <2>2. QED BY <1>t, <2>1
<1>8. CASE CallbackRequeues
  <2>1. procPc = "requeue" /\ procPc' = "idle"
    BY <1>8 DEF CallbackRequeues, ProcForget, ProcRelease
  <2>2. queue'.failures[Crc] = queue.failures[Crc] + 1
    BY <1>t, <1>8, QueueAfterLimit DEF CallbackRequeues
  <2>3. QED BY <1>t, <2>1, <2>2
<1>9. CASE (ProcessorStep \/ ProcessorCallFails \/ ProcessorBackoffOver)
           /\ ~CallbackConflict /\ ~CallbackRequeues
  <2>1. UNCHANGED queue
    BY <1>9, ProcessorSteps DEF controllerVars, workerVars
  <2>2. procPc' = "requeue" => procPc = "requeue"
    BY <1>9 DEF ProcessorStep, ProcessorGet, ProcessorCall, ProcessorCallFails, ProcessorBackoffOver,
                CallbackDone, CallbackRetries, CallbackConflictOverBudget,
                ProcGet, ProcCall, ProcCallFails, ProcBackoffOver, ProcForget, ProcRetry, ProcDrop,
                ProcRelease
  <2>3. QED BY <1>f, <2>1, <2>2
<1>10. ASSUME NEW s \in Services, ServiceChanges(s)
       PROVE  RetriesGranted'
  BY <1>f, <1>10 DEF ServiceChanges, workerVars, processorVars
<1>11. CASE ExternalEdit \/ Deliver
  BY <1>f, <1>11 DEF ExternalEdit, Deliver, workerVars, processorVars
<1>12. CASE Restart
  BY <1>f, <1>12 DEF Restart, EmptyQueue, ProcRelease
<1>13. CASE UNCHANGED vars
  BY <1>f, <1>13 DEF vars, workerVars, processorVars
<1>14. QED
  BY <1>1, <1>2, <1>3, <1>4, <1>5, <1>6, <1>7, <1>8, <1>9, <1>10, <1>11, <1>12, <1>13
     DEF Next, Worker, Surroundings

(***************************************************************************)
(* No difference is forgotten, and no spent retry either.                  *)
(***************************************************************************)

\* NothingForgotten in terms of what the processor has in store.
LEMMA ForgottenMeans ==
  ASSUME TypeOK
  PROVE  (watch[Crc] # <<>> \/ (\E i \in Underway : Effective(i)) \/ gaveUp # {}) <=> InStore(Crc)
<1>1. \A i \in Underway : i \in Item /\ i.cr = Crc
  <2>1. Range(procQueue) \subseteq Item /\ Range(procDelayed) \subseteq Item
    BY DEF TypeOK, ProcessorTypeOK, Range
  <2>2. procPc # "idle" => procItem \in Item
    BY DEF TypeOK, ProcessorTypeOK
  <2>3. QED BY <2>1, <2>2, CrcAssumption DEF Underway, Item
<1>2. gaveUp # {} <=> Crc \in gaveUp
  BY CrcAssumption DEF TypeOK, ProcessorTypeOK
<1>3. QED BY <1>1, <1>2 DEF InStore, InProcessor, Underway, Accepted, Effective

\* What is in store stays in store until the next sync decides.
LEMMA InStoreStep ==
  ASSUME TypeOK, [Next]_vars, InStore(Crc)
  PROVE  InStore(Crc)' \/ Decide \/ Restart \/ notes' > 0
<1>t. StoreTypeOK /\ ProcessorTypeOK /\ Crc \in CRs /\ notes \in Nat
  BY CrcAssumption DEF TypeOK
<1>1. CASE UNCHANGED <<storeVars, processorVars>>
  BY <1>1 DEF storeVars, processorVars, InStore, InProcessor, Accepted
<1>2. CASE \/ SyncGet \/ ListServices \/ SyncDone \/ Notify \/ Resync \/ QueueBackoffOver
           \/ UNCHANGED vars
  BY <1>1, <1>2 DEF SyncGet, ListServices, SyncDone, Notify, Resync, QueueBackoffOver, vars
<1>3. ASSUME NEW s \in Services, ServiceChanges(s)
      PROVE  notes' > 0
  BY <1>t, <1>3 DEF ServiceChanges
<1>4. CASE Deliver
  BY <1>t, <1>4 DEF Deliver
<1>5. CASE ExternalEdit
  BY <1>t, <1>5, EditedToAssumption, WriteIsWatched DEF ExternalEdit, InStore
<1>6. CASE ProcessorStep \/ ProcessorCallFails \/ ProcessorBackoffOver
  <2>1. ProcessorMoves \/ CallbackMoves
    BY <1>6, ProcessorSteps DEF CallbackRequeues, CallbackMoves
  <2>2. QED BY <1>t, <2>1, ProcessorMovesLoseNothing, CallbackMovesLoseNothing
<1>7. QED
  BY <1>2, <1>3, <1>4, <1>5, <1>6 DEF Next, Worker, Surroundings

LEMMA AheadStep ==
  ASSUME TypeOK, [Next]_vars, SyncAhead
  PROVE  SyncAhead' \/ Decide \/ Restart
<1>t. queue \in WorkQueueType({Crc}) /\ notes \in Nat
  BY DEF TypeOK
<1>1. CASE UNCHANGED <<queue, syncPc>> /\ notes' \in Nat /\ notes' >= notes
  BY <1>t, <1>1 DEF SyncAhead
<1>2. CASE Notify \/ Resync
  BY <1>t, <1>2, QueueAfterAdd DEF Notify, Resync, SyncAhead
<1>3. CASE QueueBackoffOver
  BY <1>t, <1>3, QueueAfterBackoff DEF QueueBackoffOver, SyncAhead
<1>4. CASE SyncGet \/ ListServices
  BY <1>4 DEF SyncGet, ListServices, SyncAhead
<1>5. CASE SyncDone
  BY <1>t, <1>5, QueueAfterDone DEF SyncDone, surroundingVars, SyncAhead
<1>6. CASE CallbackRequeues
  BY <1>t, <1>6, QueueAfterLimit DEF CallbackRequeues, SyncAhead
<1>7. CASE (ProcessorStep \/ ProcessorCallFails \/ ProcessorBackoffOver) /\ ~CallbackRequeues
  BY <1>t, <1>1, <1>7, ProcessorSteps DEF controllerVars, surroundingVars, workerVars
<1>8. ASSUME NEW s \in Services, ServiceChanges(s)
      PROVE  SyncAhead'
  BY <1>t, <1>8 DEF ServiceChanges, SyncAhead
<1>9. CASE ExternalEdit \/ Deliver
  BY <1>t, <1>1, <1>9 DEF ExternalEdit, Deliver, workerVars
<1>10. CASE UNCHANGED vars
  BY <1>t, <1>1, <1>10 DEF vars, workerVars, surroundingVars
<1>11. QED
  BY <1>2, <1>3, <1>4, <1>5, <1>6, <1>7, <1>8, <1>9, <1>10 DEF Next, Worker, Surroundings

\* Who changes the onboarded services or renames them, and who counts a retry.
LEMMA ServicesStep ==
  ASSUME TypeOK, [Next]_vars, onboarded' # onboarded
  PROVE  notes' > 0
<1>1. CASE Restart
  BY <1>1, RestartNotes
<1>2. ASSUME NEW s \in Services, ServiceChanges(s) PROVE notes' > 0
  BY <1>2 DEF ServiceChanges, TypeOK
<1>3. Restart \/ \E s \in Services : ServiceChanges(s)
  BY ProcessorSteps
     DEF Next, Worker, Surroundings, SyncGet, ListServices, Decide, SyncDone, CallbackRequeues,
         ExternalEdit, Deliver, Notify, Resync, QueueBackoffOver, controllerVars,
         surroundingVars, vars
<1>4. QED BY <1>1, <1>2, <1>3

LEMMA CountStep ==
  ASSUME TypeOK, [Next]_vars, queue.failures[Crc] = 0, queue'.failures[Crc] # 0
  PROVE  SyncAhead'
<1>t. queue \in WorkQueueType({Crc})
  BY DEF TypeOK
<1>1. CASE CallbackRequeues
  BY <1>t, <1>1, QueueAfterLimit DEF CallbackRequeues, SyncAhead
<1>2. CASE ~CallbackRequeues
  <2>1. CASE Notify \/ Resync
    BY <1>t, <2>1, QueueAfterAdd DEF Notify, Resync
  <2>2. CASE QueueBackoffOver
    BY <1>t, <2>2, QueueAfterBackoff DEF QueueBackoffOver
  <2>3. CASE SyncGet
    BY <1>t, <2>3, QueueAfterGet DEF SyncGet
  <2>4. CASE Decide
    BY <1>t, <2>4, QueueAfterForget DEF Decide, QueueAfterDecision
  <2>5. CASE SyncDone
    BY <1>t, <2>5, QueueAfterDone DEF SyncDone
  <2>6. CASE Restart
    BY <2>6 DEF Restart, EmptyQueue
  <2>7. CASE UNCHANGED queue
    BY <2>7
  <2>8. QED
    BY <1>2, <2>1, <2>2, <2>3, <2>4, <2>5, <2>6, <2>7, ProcessorSteps
       DEF Next, Worker, Surroundings, ListServices, ServiceChanges, ExternalEdit, Deliver,
           controllerVars, workerVars, vars
<1>3. QED BY <1>1, <1>2

\* The step that decides.
LEMMA DecideForgetsNothing ==
  ASSUME TypeOK, WatchIsInOrder, StaleListingIsFollowed, Decide,
         ~ListsOnboarded(server[Crc].spec) \/ queue'.failures[Crc] # 0
  PROVE  SyncAhead' \/ InStore(Crc)'
<1> SUFFICES ASSUME watch[Crc] = <<>>, ~(notes > 0 \/ Crc \in queue.dirty)
             PROVE  \E i \in InProcessor' : Accepted(i, Crc)'
  <2>1. UNCHANGED <<storeVars, notes>>
    BY DEF Decide, surroundingVars
  <2>2. queue'.dirty = queue.dirty
    BY QueueAfterForget DEF Decide, QueueAfterDecision, TypeOK
  <2>3. QED BY <2>1, <2>2 DEF SyncAhead, InStore, storeVars
<1>1. cache[Crc] = server[Crc] /\ server' = server
  BY DEF WatchIsInOrder, Decide, storeVars
<1>2. syncPc = "config" /\ Range(listing) = onboarded
  BY DEF StaleListingIsFollowed, Decide
<1>3. Decision(cache[Crc]) # <<>>
  <2> SUFFICES ASSUME Decision(cache[Crc]) = <<>>
               PROVE  FALSE
    OBVIOUS
  <2>1. queue'.failures[Crc] = 0
    BY DecideProperties, QueueAfterForget DEF TypeOK
  <2>2. ListsOnboarded(server[Crc].spec)
    BY <1>1, <1>2, DecideProperties DEF ListsOnboarded
  <2>3. QED BY <2>1, <2>2
<1>4. PICK i \in Item : procQueue' = Append(procQueue, i) /\ Changes(i, cache[Crc])
  BY <1>3, DecideProperties
<1>5. i \in InProcessor'
  BY <1>4, RangeOfAppend DEF InProcessor, TypeOK, ProcessorTypeOK
<1>6. Accepted(i, Crc)'
  BY <1>1, <1>4 DEF Accepted, Changes
<1>7. QED BY <1>5, <1>6

LEMMA ForgottenStep ==
  ASSUME TypeOK, WatchIsInOrder, StaleListingIsFollowed, NothingForgotten, [Next]_vars
  PROVE  NothingForgotten'
<1> SUFFICES ASSUME ~ListsOnboarded(server[Crc].spec)' \/ queue'.failures[Crc] # 0
             PROVE  SyncAhead' \/ InStore(Crc)'
  BY DEF NothingForgotten, NumRequeues, InStore, InProcessor, Accepted, Underway, Effective
<1>t. StoreTypeOK /\ Crc \in CRs
  BY CrcAssumption DEF TypeOK
<1>1. CASE server'[Crc] # server[Crc]
  <2>1. watch'[Crc] # <<>>
    BY <1>t, <1>1, StoreSteps, WriteIsWatched DEF StoreMoves, storeVars, CacheReceives, CacheRelists
  <2>2. QED BY <2>1 DEF InStore
<1>2. CASE onboarded' # onboarded
  BY <1>2, ServicesStep DEF SyncAhead
<1>3. CASE queue.failures[Crc] = 0 /\ queue'.failures[Crc] # 0
  BY <1>3, CountStep
<1>4. CASE /\ server'[Crc] = server[Crc] /\ onboarded' = onboarded
           /\ ~(queue.failures[Crc] = 0 /\ queue'.failures[Crc] # 0)
  <2>1. ListsOnboarded(server[Crc].spec)' <=> ListsOnboarded(server[Crc].spec)
    BY <1>4 DEF ListsOnboarded
  <2>2. CASE Decide
    BY <2>1, <2>2, DecideForgetsNothing
  <2>3. CASE Restart
    <3>1. queue'.failures[Crc] = 0
      BY <2>3 DEF Restart, EmptyQueue
    <3>2. notes' > 0
      BY <2>1, <2>3, <3>1, RestartNotes
    <3>3. QED BY <3>2 DEF SyncAhead
  <2>4. CASE ~Decide /\ ~Restart
    <3>1. SyncAhead \/ InStore(Crc)
      BY <1>4, <2>1, ForgottenMeans DEF NothingForgotten, NumRequeues
    <3>2. QED BY <2>4, <3>1, AheadStep, InStoreStep DEF SyncAhead
  <2>5. QED BY <2>2, <2>3, <2>4
<1>5. QED BY <1>1, <1>2, <1>3, <1>4

(***************************************************************************)
(* An item that would still be accepted adds no duplicate.                 *)
(***************************************************************************)

\* The version of the server only grows, and with every change.
LEMMA VersionGrows ==
  ASSUME TypeOK, [Next]_vars
  PROVE  /\ server[Crc].rev \in Nat
         /\ server'[Crc] = server[Crc] \/ server'[Crc].rev = server[Crc].rev + 1
<1>t. StoreTypeOK /\ Crc \in CRs
  BY CrcAssumption DEF TypeOK
<1>1. server[Crc].rev \in Nat
  BY <1>t DEF StoreTypeOK, Objects
<1>2. ASSUME NEW x \in CRs, NEW s \in Specs \cup {Absent}, ServerWrites(x, s)
      PROVE  server'[Crc].rev = server[Crc].rev + 1
  <2>1. x = Crc
    BY CrcAssumption
  <2>2. server'[Crc] = [rev |-> server[Crc].rev + 1, spec |-> s]
    BY <1>t, <1>2, <2>1, ServerWritesProperties
  <2>3. QED BY <2>2
<1>3. QED
  BY <1>1, <1>2, StoreSteps DEF StoreMoves, storeVars, CacheReceives, CacheRelists

LEMMA VersionKept ==
  ASSUME TypeOK, [Next]_vars, NEW i \in Item, KeepsItsVersion(i)
  PROVE  KeepsItsVersion(i)'
<1>1. i.op \in Operations /\ i.rev \in Nat
  BY DEF Item
<1>2. CASE i.op = "add" \/ i.op = "delete"
  BY <1>2 DEF KeepsItsVersion, AddsNoDuplicate, EntriesOf
<1>3. CASE i.op = "update"
  <2>1. /\ i.rev <= server[Crc].rev
        /\ i.rev = server[Crc].rev => AddsNoDuplicate(server[Crc].spec, i.spec)
    BY <1>3 DEF KeepsItsVersion
  <2>2. /\ i.rev <= server'[Crc].rev
        /\ i.rev = server'[Crc].rev => AddsNoDuplicate(server'[Crc].spec, i.spec)
    BY <1>1, <2>1, VersionGrows
  <2>3. QED BY <1>3, <2>2 DEF KeepsItsVersion, AddsNoDuplicate, EntriesOf
<1>4. QED BY <1>1, <1>2, <1>3 DEF Operations

LEMMA AnotherTryKeepsItsVersion ==
  ASSUME NEW i \in Item, KeepsItsVersion(i)
  PROVE  KeepsItsVersion([i EXCEPT !.tries = @ + 1])
<1> DEFINE j == [i EXCEPT !.tries = @ + 1]
<1>1. j.op = i.op /\ j.spec = i.spec /\ j.rev = i.rev
  BY DEF Item
<1> HIDE DEF j
<1>2. KeepsItsVersion(j)
  BY <1>1 DEF KeepsItsVersion
<1>3. QED BY <1>2 DEF j

LEMMA VersionMeans == ItemsKeepTheirVersion <=> \A i \in HeldItems : KeepsItsVersion(i)
BY DEF ItemsKeepTheirVersion, HeldItems

\* What a sync decides on is of the version its cache has.
LEMMA DecisionKeepsItsVersion ==
  ASSUME TypeOK, WatchIsInOrder, NEW i \in Item, Changes(i, cache[Crc])
  PROVE  KeepsItsVersion(i)
<1>1. /\ StoreTypeOK /\ Crc \in CRs /\ watch[Crc] \in Seq(Objects)
      /\ Trails(Crc) /\ InOrder(Crc)
  BY CrcAssumption, WatchMeans DEF TypeOK, StoreTypeOK
<1>2. CASE i.op # "update"
  BY <1>2 DEF Changes, KeepsItsVersion
<1>3. CASE i.op = "update"
  <2>1. i.rev = cache[Crc].rev /\ AddsNoDuplicate(cache[Crc].spec, i.spec)
    BY <1>3 DEF Changes
  <2>2. /\ server[Crc].rev \in Nat /\ cache[Crc].rev \in Nat /\ Len(watch[Crc]) \in Nat
        /\ server[Crc].rev = cache[Crc].rev + Len(watch[Crc])
    BY <1>1, VersionOfServer
  <2>3. cache[Crc].rev <= server[Crc].rev
        /\ (cache[Crc].rev = server[Crc].rev => Len(watch[Crc]) = 0)
    BY <2>2
  <2>4. Len(watch[Crc]) = 0 => server[Crc] = cache[Crc]
    BY <1>1, EmptySeq DEF Trails
  <2>5. QED BY <1>3, <2>1, <2>3, <2>4 DEF KeepsItsVersion
<1>4. QED BY <1>2, <1>3

LEMMA VersionStep ==
  ASSUME TypeOK, WatchIsInOrder, ItemsKeepTheirVersion, [Next]_vars
  PROVE  ItemsKeepTheirVersion'
<1> SUFFICES ASSUME NEW i \in HeldItems'
             PROVE  KeepsItsVersion(i)'
  BY DEF ItemsKeepTheirVersion, HeldItems
<1>t. ProcessorTypeOK /\ HeldItems \subseteq Item
  BY HeldItemsType DEF TypeOK
<1>h. \A j \in HeldItems : j \in Item /\ KeepsItsVersion(j)
  BY <1>t, VersionMeans
<1>1. CASE i \in HeldItems
  BY <1>1, <1>h, VersionKept
<1>2. CASE Decide
  <2>1. UNCHANGED <<procDelayed, procItem, procPc>>
    BY <1>2 DEF Decide
  <2>2. CASE procQueue' = procQueue
    BY <1>1, <2>1, <2>2 DEF HeldItems
  <2>3. ASSUME NEW k \in Item, procQueue' = Append(procQueue, k), Changes(k, cache[Crc])
        PROVE  KeepsItsVersion(i)'
    <3>1. Range(procQueue') = Range(procQueue) \cup {k}
      BY <1>t, <2>3, RangeOfAppend DEF ProcessorTypeOK
    <3>2. i \in HeldItems \/ i = k
      BY <2>1, <3>1 DEF HeldItems
    <3>3. KeepsItsVersion(k)'
      BY <2>3, DecisionKeepsItsVersion, VersionKept
    <3>4. QED BY <1>1, <3>2, <3>3
  <2>4. QED BY <1>2, <2>2, <2>3, DecideProperties
<1>3. CASE ProcessorStep \/ ProcessorCallFails \/ ProcessorBackoffOver
  <2>1. ProcessorMoves \/ CallbackMoves
    BY <1>3, ProcessorSteps DEF CallbackRequeues, CallbackMoves
  <2>2. i \in HeldItems \/ \E j \in HeldItems : i = [j EXCEPT !.tries = @ + 1]
    BY <1>t, <2>1, ProcessorMovesInventNothing, CallbackMovesInventNothing
  <2>3. ASSUME NEW j \in HeldItems, i = [j EXCEPT !.tries = @ + 1]
        PROVE  KeepsItsVersion(i)'
    <3>1. i \in Item /\ KeepsItsVersion(i)
      BY <1>h, <2>3, AnotherTry, AnotherTryKeepsItsVersion
    <3>2. QED BY <3>1, VersionKept
  <2>4. QED BY <1>1, <2>2, <2>3
<1>4. CASE Restart
  BY <1>4 DEF Restart, ProcRelease, HeldItems, Range
<1>5. CASE UNCHANGED processorVars
  BY <1>1, <1>5 DEF processorVars, HeldItems
<1>6. QED
  BY <1>2, <1>3, <1>4, <1>5
     DEF Next, Worker, Surroundings, SyncGet, ListServices, SyncDone, ServiceChanges,
         ExternalEdit, Deliver, Notify, Resync, QueueBackoffOver, vars

(***************************************************************************)
(* The inductive invariant.                                                *)
(***************************************************************************)
LEMMA InitInductive == Init => Inductive
<1> SUFFICES ASSUME Init PROVE Inductive
  OBVIOUS
<1>1. TypeOK
  BY InitType
<1>2. WatchIsInOrder
  BY CrcAssumption DEF Init, StoreInit, WatchIsInOrder
<1>3. queue = EmptyQueue({Crc}) /\ NumRequeues(queue, Crc) = 0
  BY DEF Init, EmptyQueue, NumRequeues
<1>4. QueueRemembers /\ RetriesGranted /\ StaleListingIsFollowed
  BY <1>3, RetriesAssumption
     DEF Init, ProcessorInit, EmptyQueue, QueueRemembers, RetriesGranted, StaleListingIsFollowed
<1>5. NothingForgotten
  BY <1>3, InitialNotesProperties, ServicesType, InitType DEF Init, NothingForgotten, SyncAhead
<1>6. ItemsKeepTheirVersion
  BY DEF Init, ProcessorInit, ItemsKeepTheirVersion, Range
<1>7. QED BY <1>1, <1>2, <1>4, <1>5, <1>6 DEF Inductive

LEMMA InductiveStep == Inductive /\ [Next]_vars => Inductive'
BY TypeStep, WatchStep, QueueStep, BudgetStep, StaleStep, ForgottenStep, VersionStep DEF Inductive

(***************************************************************************)
(* Every variable keeps its type: what the controller writes and hands     *)
(* over are contents and items, whatever the config held before.           *)
(***************************************************************************)
THEOREM TypeCorrect == Spec => []TypeOK
<1>1. QED BY InitType, TypeStep, PTL DEF Spec

(***************************************************************************)
(* The state in which every difference and every retry is accounted for is *)
(* kept by every step.                                                     *)
(***************************************************************************)
THEOREM InductiveHolds == Spec => []Inductive
<1>1. QED BY InitInductive, InductiveStep, PTL DEF Spec

(***************************************************************************)
(* A listing that the service informer has overtaken is followed by        *)
(* another sync (onboarding/controller.go:55-65, 216-217).                 *)
(***************************************************************************)
THEOREM StaleListingsAreFollowed == Spec => []StaleListingIsFollowed
<1>1. Inductive => StaleListingIsFollowed
  BY DEF Inductive
<1>2. QED BY <1>1, InductiveHolds, PTL

(***************************************************************************)
(* A ClusterRbacConfig that does not list the onboarded services is never  *)
(* forgotten (onboarding/controller.go:244-322, 190-213).                  *)
(***************************************************************************)
THEOREM NothingIsLost == Spec => []NoLostWork
<1>1. Inductive => NoLostWork
  BY DEF Inductive, NothingForgotten, NoLostWork
<1>2. QED BY <1>1, InductiveHolds, PTL

(***************************************************************************)
(* At rest the ClusterRbacConfig lists the onboarded services, unless its  *)
(* last item was dropped, and no retry is spent.                           *)
(***************************************************************************)
THEOREM AtRestConverged == Spec => []RestIsConverged
<1>1. Inductive => RestIsConverged
  <2> SUFFICES ASSUME Inductive, Quiescent, gaveUp = {}
               PROVE  ListsOnboarded(server[Crc].spec) /\ NumRequeues(queue, Crc) = 0
    BY DEF RestIsConverged
  <2>1. queue.dirty = {}
    BY DEF Inductive, QueueRemembers, Quiescent
  <2>2. ~SyncAhead
    BY <2>1 DEF Quiescent, SyncAhead
  <2>3. Underway = {}
    BY DEF Quiescent, Underway, Range
  <2>4. QED BY <2>2, <2>3 DEF Inductive, NothingForgotten, Quiescent
<1>2. QED BY <1>1, InductiveHolds, PTL

(***************************************************************************)
(* The callbacks never rate limit the key more often than queueNumRetries  *)
(* allows (onboarding/controller.go:202-209).                              *)
(***************************************************************************)
THEOREM BudgetIsKept == Spec => []RetryBudgetKept
<1>1. Inductive => RetryBudgetKept
  <2> SUFFICES ASSUME Inductive
               PROVE  queue.failures[Crc] <= QueueNumRetries
    BY DEF RetryBudgetKept, NumRequeues
  <2>1. queue.failures[Crc] \in Nat
    BY DEF Inductive, TypeOK, WorkQueueType
  <2>2. QED BY <2>1, RetriesAssumption DEF Inductive, RetriesGranted, NumRequeues
<1>2. QED BY <1>1, InductiveHolds, PTL

(***************************************************************************)
(* The list a sync writes has every onboarded service it did not have      *)
(* before once, the others as often as before, and nothing else            *)
(* (onboarding/controller.go:266-281, 108-137, 344-354): compareService-   *)
(* Lists, addServices, deleteServices and removeIndexElement together.     *)
(***************************************************************************)
THEOREM SyncsAreExact == Spec => []SyncIsExact
<1>1. TypeOK => SyncIsExact
  <2> SUFFICES ASSUME TypeOK, cache[Crc].spec \notin {Absent, Malformed}, NEW s \in Services
               PROVE  Occurrences(Reconciled(listing, cache[Crc].spec), s) =
                        IF s \notin Range(listing) THEN 0
                        ELSE IF Occurrences(cache[Crc].spec, s) = 0 THEN 1
                        ELSE Occurrences(cache[Crc].spec, s)
    BY DEF SyncIsExact
  <2>1. cache[Crc].spec \in Specs \ {Malformed} /\ listing \in Listings
    BY CrcAssumption DEF TypeOK, StoreTypeOK, Objects
  <2>2. QED BY <2>1, ReconciledEntries
<1>2. QED BY <1>1, TypeCorrect, PTL

(***************************************************************************)
(* No write of the controller makes an entry occur more often than in the  *)
(* content it replaces, once apart: an update that was overtaken is        *)
(* refused, since it carries the version it was computed from.             *)
(***************************************************************************)
THEOREM NothingIsDuplicated == Spec => NeverDuplicates
<1>1. Inductive /\ [Next]_vars =>
        [ProcessorStep \/ ProcessorCallFails
           => AddsNoDuplicate(server[Crc].spec, server'[Crc].spec)]_vars
  <2> SUFFICES ASSUME Inductive, [Next]_vars, ProcessorStep \/ ProcessorCallFails
               PROVE  AddsNoDuplicate(server[Crc].spec, server'[Crc].spec)
    OBVIOUS
  <2>t. /\ StoreTypeOK /\ ProcessorTypeOK /\ Crc \in CRs
        /\ server[Crc].spec \in Specs \cup {Absent}
    BY CrcAssumption DEF Inductive, TypeOK, StoreTypeOK, Objects
  <2>1. CASE server' = server
    <3>1. \A s \in Services : EntriesOf(server[Crc].spec, s) \in Nat
      BY <2>t, ContentProperties, OccurrencesCount DEF EntriesOf
    <3>2. QED BY <2>1, <3>1 DEF AddsNoDuplicate
  <2>2. ASSUME procPc = "call", Verdict(procItem) = "ok", ServerWrites(procItem.cr, procItem.spec)
        PROVE  AddsNoDuplicate(server[Crc].spec, server'[Crc].spec)
    <3>1. /\ procItem \in Item /\ procItem.cr = Crc /\ procItem.spec \in Specs \cup {Absent}
          /\ procItem.op \in Operations
      BY <2>t, <2>2, ItemInHand, CrcAssumption DEF Item
    <3>2. server'[Crc].spec = procItem.spec
      <4>1. server'[Crc] = [rev |-> server[Crc].rev + 1, spec |-> procItem.spec]
        BY <2>t, <2>2, <3>1, ServerWritesProperties
      <4>2. QED BY <4>1
    <3>3. KeepsItsVersion(procItem) /\ Answer(procItem, server[Crc]) = "ok"
      BY <2>2, <3>1, VersionMeans DEF Inductive, HeldItems, Verdict
    <3>4. CASE procItem.op = "add"
      <4>1. server[Crc].spec = Absent /\ AddsNoDuplicate(Absent, procItem.spec)
        BY <3>3, <3>4 DEF KeepsItsVersion, Answer
      <4>2. QED BY <3>2, <4>1
    <3>5. CASE procItem.op = "delete"
      <4>1. procItem.spec = Absent
        BY <3>3, <3>5 DEF KeepsItsVersion
      <4>2. \A s \in Services : EntriesOf(server[Crc].spec, s) \in Nat /\ EntriesOf(Absent, s) = 0
        BY <2>t, ContentProperties, OccurrencesCount DEF EntriesOf
      <4>3. QED BY <3>2, <4>1, <4>2 DEF AddsNoDuplicate
    <3>6. CASE procItem.op = "update"
      <4>1. procItem.rev = server[Crc].rev
        BY <3>3, <3>6 DEF Answer
      <4>2. QED BY <3>2, <3>3, <3>6, <4>1 DEF KeepsItsVersion
    <3>7. QED BY <3>1, <3>4, <3>5, <3>6 DEF Operations
  <2>3. QED
    BY <2>1, <2>2
       DEF ProcessorStep, ProcessorGet, ProcGet, ProcessorCall, ProcCall, ProcessorCallFails,
           ProcCallFails, CallbackDone, CallbackRetries, CallbackConflictOverBudget,
           CallbackConflict, CallbackRequeues, ProcForget, ProcRetry, ProcDrop, storeVars
<1>2. QED BY <1>1, InductiveHolds, PTL DEF Spec, NeverDuplicates
=============================================================================

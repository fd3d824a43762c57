----------------------- MODULE DomainControllerProofs -----------------------
(***************************************************************************)
(* What DomainController guarantees for all domains, resources, contents,  *)
(* retry budgets and bounds: its types, that the retry budget is exceeded  *)
(* by at most one, that it implements Mirror, and that no difference       *)
(* between a resource and its Athenz domain is ever forgotten, and no      *)
(* spent retry budget either (the conjuncts of Inductive, and BudgetOwed). *)
(***************************************************************************)
EXTENDS DomainController, ProcessorLemmas, FiniteSetTheorems

(***************************************************************************)
(* Helpers of the actions: their types and what they do to the state.      *)
(***************************************************************************)
LEMMA ListedType ==
  ASSUME cache \in [CRs -> Objects], have \in [CRs -> Objects], NEW kind
  PROVE  Listed(kind) \in [CRs -> Objects]
BY DEF Listed

LEMMA NothingType == NothingWanted \in Contents /\ NothingListed \in [CRs -> Objects]
BY DEF NothingWanted, NothingListed, Contents, Objects

LEMMA InitialNotesType ==
  /\ InitialNotes \in [Domains -> Nat]
  /\ \A d \in Domains : ad[d] # NoDomain => InitialNotes[d] > 0
<1>1. ASSUME NEW d \in Domains
      PROVE  Cardinality({r \in ResourcesOf(d) : server[r].spec # Absent}) \in Nat
  <2>1. {r \in ResourcesOf(d) : server[r].spec # Absent} \subseteq CRs
    BY DEF ResourcesOf
  <2>2. QED BY <2>1, CRsAssumption, FS_Subset, FS_CardinalityType
<1>2. QED BY <1>1 DEF InitialNotes

(***************************************************************************)
(* Types.                                                                  *)
(***************************************************************************)
LEMMA InitType == Init => TypeOK
<1> SUFFICES ASSUME Init PROVE TypeOK
  OBVIOUS
<1>1. StoreTypeOK
  BY StoreInitType DEF Init
<1>2. ProcessorTypeOK
  BY ProcessorInitType DEF Init
<1>3. queue \in WorkQueueType(Domains)
  BY DEF Init, EmptyQueue, WorkQueueType
<1>4. ad \in [Domains -> Contents \cup {NoDomain}]
  BY DEF Init
<1>5. notes \in [Domains -> Nat]
  BY InitialNotesType DEF Init
<1>6. QED BY <1>1, <1>2, <1>3, <1>4, <1>5, NothingType DEF Init, TypeOK

LEMMA TypeStep == TypeOK /\ [Next]_vars => TypeOK'
<1> SUFFICES ASSUME TypeOK, [Next]_vars
             PROVE  TypeOK'
  OBVIOUS
<1> USE DEF TypeOK
<1> DEFINE ControllerTypeOK ==
             /\ ad \in [Domains -> Contents \cup {NoDomain}]
             /\ notes \in [Domains -> Nat]
             /\ queue \in WorkQueueType(Domains)
             /\ syncPc \in {"idle", "sync", "retry", "roles", "bindings", "push"}
             /\ syncKey \in Domains
             /\ want \in Contents
             /\ have \in [CRs -> Objects]
             /\ changes \subseteq Item
             /\ edits \in Nat
<1>a. ASSUME UNCHANGED controllerVars PROVE ControllerTypeOK'
  BY <1>a DEF controllerVars, workerVars
<1>1. ASSUME NEW d \in Domains, AthenzDomainChanges(d) PROVE TypeOK'
  <2>1. ad' \in [Domains -> Contents \cup {NoDomain}]
    BY <1>1 DEF AthenzDomainChanges, DomainContents
  <2>2. notes' \in [Domains -> Nat] /\ edits' \in Nat
    BY <1>1 DEF AthenzDomainChanges, Edited
  <2>3. QED BY <1>1, <2>1, <2>2, StoreUnchanged, ProcessorUnchanged
            DEF AthenzDomainChanges, workerVars
<1>2. ASSUME NEW r \in CRs, ExternalEdit(r) PROVE TypeOK'
  <2>1. StoreTypeOK'
    BY <1>2, ServerWritesProperties DEF ExternalEdit
  <2>2. QED BY <1>2, <2>1, ProcessorUnchanged DEF ExternalEdit, Edited, workerVars
<1>3. ASSUME NEW r \in CRs, Deliver(r) PROVE TypeOK'
  <2>1. StoreTypeOK'
    BY <1>3, CacheReceivesProperties DEF Deliver
  <2>2. notes' \in [Domains -> Nat]
    BY <1>3, DomainOfAssumption DEF Deliver
  <2>3. QED BY <1>3, <2>1, <2>2, ProcessorUnchanged DEF Deliver, workerVars
<1>4. ASSUME NEW d \in Domains, Notify(d) PROVE TypeOK'
  <2>1. queue' \in WorkQueueType(Domains)
    BY <1>4, QueueAddProperties DEF Notify
  <2>2. notes' \in [Domains -> Nat]
    BY <1>4 DEF Notify
  <2>3. QED BY <1>4, <2>1, <2>2, StoreUnchanged, ProcessorUnchanged DEF Notify
<1>5. ASSUME NEW d \in Domains, Resync(d) PROVE TypeOK'
  <2>1. queue' \in WorkQueueType(Domains)
    BY <1>5, QueueAddProperties DEF Resync
  <2>2. QED BY <1>5, <2>1, StoreUnchanged, ProcessorUnchanged DEF Resync
<1>6. ASSUME NEW d \in Domains, QueueBackoffOver(d) PROVE TypeOK'
  <2>1. queue' \in WorkQueueType(Domains)
    BY <1>6, BackoffOverProperties DEF QueueBackoffOver
  <2>2. QED BY <1>6, <2>1, StoreUnchanged, ProcessorUnchanged DEF QueueBackoffOver
<1>7. ASSUME SyncGet PROVE TypeOK'
  <2>1. queue' \in WorkQueueType(Domains) /\ syncKey' \in Domains
    BY <1>7, QueueGetProperties DEF SyncGet
  <2>2. QED BY <1>7, <2>1, StoreUnchanged, ProcessorUnchanged DEF SyncGet
<1>8. ASSUME SyncReadDomain PROVE TypeOK'
  <2>1. want' \in Contents
    BY <1>8 DEF SyncReadDomain
  <2>2. QED BY <1>8, <2>1, StoreUnchanged, ProcessorUnchanged DEF SyncReadDomain
<1>9. ASSUME SyncMissing PROVE TypeOK'
  BY <1>9, StoreUnchanged, ProcessorUnchanged DEF SyncMissing
<1>10. ASSUME SyncRequeue PROVE TypeOK'
  <2>1. queue' \in WorkQueueType(Domains)
    BY <1>10, AddRateLimitedProperties DEF SyncRequeue
  <2>2. QED BY <1>10, <2>1, StoreUnchanged, ProcessorUnchanged DEF SyncRequeue
<1>11. ASSUME ListRoles PROVE TypeOK'
  <2>1. have' \in [CRs -> Objects]
    BY <1>11, ListedType DEF ListRoles, StoreTypeOK
  <2>2. QED BY <1>11, <2>1, StoreUnchanged, ProcessorUnchanged DEF ListRoles
<1>12. ASSUME ListBindings PROVE TypeOK'
  <2>1. have' \in [CRs -> Objects]
    BY <1>12, ListedType DEF ListBindings, StoreTypeOK
  <2>2. changes' \subseteq Item
    <3>1. ResourcesOf(syncKey) \in SUBSET CRs
      BY DEF ResourcesOf
    <3>2. changes' = ComputeChangeList(have', want, ResourcesOf(syncKey))
      BY <1>12 DEF ListBindings
    <3>3. QED BY <2>1, <3>1, <3>2, ComputeChangeListType DEF Contents
  <2>3. queue' \in WorkQueueType(Domains)
    BY <1>12, ForgetProperties DEF ListBindings, QueueAfterList
  <2>4. ProcessorTypeOK'
    BY <1>12 DEF ListBindings, ProcessorTypeOK
  <2>5. QED BY <1>12, <2>1, <2>2, <2>3, <2>4, StoreUnchanged DEF ListBindings
<1>13. ASSUME PushItem PROVE TypeOK'
  <2>1. PICK i \in changes : procQueue' = Append(procQueue, i) /\ changes' = changes \ {i}
    BY <1>13 DEF PushItem, ProcessConfigChange
  <2>2. procQueue' \in Seq(Item)
    BY <2>1 DEF ProcessorTypeOK
  <2>3. ProcessorTypeOK'
    BY <1>13, <2>2 DEF PushItem, ProcessorTypeOK
  <2>4. QED BY <1>13, <2>1, <2>3, StoreUnchanged DEF PushItem
<1>14. ASSUME SyncDone PROVE TypeOK'
  <2>1. queue' \in WorkQueueType(Domains)
    BY <1>14, QueueDoneProperties DEF SyncDone
  <2>2. QED BY <1>14, <2>1, NothingType, StoreUnchanged, ProcessorUnchanged DEF SyncDone
<1>15. ASSUME ProcessorGet \/ ProcessorCall \/ ProcessorCallFails \/ ProcessorBackoffOver
       PROVE  TypeOK'
  <2>1. ProcessorMoves /\ UNCHANGED controllerVars
    BY <1>15 DEF ProcessorGet, ProcessorCall, ProcessorCallFails, ProcessorBackoffOver,
                 ProcessorMoves
  <2>2. QED BY <1>a, <2>1, ProcessorMovesType
<1>16. ASSUME \/ CallbackDone \/ CallbackRetries \/ CallbackGivesUp
              \/ CallbackConflictOverBudget \/ CallbackConflict
       PROVE  TypeOK'
  <2>1. CallbackMoves /\ UNCHANGED controllerVars
    BY <1>16 DEF CallbackDone, CallbackRetries, CallbackGivesUp, CallbackConflictOverBudget,
                 CallbackConflict, CallbackMoves
  <2>2. QED BY <1>a, <2>1, CallbackMovesType
<1>17. ASSUME CallbackRequeues PROVE TypeOK'
  <2>1. ItemKey \in Domains
    BY <1>17, DomainOfAssumption, ItemInHand DEF CallbackRequeues, ItemKey
  <2>2. queue' \in WorkQueueType(Domains)
    BY <1>17, <2>1, AddRateLimitedProperties DEF CallbackRequeues
  <2>3. StoreTypeOK' /\ ProcessorTypeOK'
    BY <1>17, CallbackMovesType DEF CallbackRequeues, CallbackMoves
  <2>4. QED BY <1>17, <2>2, <2>3 DEF CallbackRequeues
<1>18. ASSUME Restart PROVE TypeOK'
  <2>1. StoreTypeOK'
    BY <1>18 DEF Restart, CacheRelists, StoreTypeOK
  <2>2. ProcessorTypeOK'
    BY <1>18 DEF Restart, ProcRelease, ProcessorTypeOK
  <2>3. queue' \in WorkQueueType(Domains)
    BY <1>18 DEF Restart, EmptyQueue, WorkQueueType
  <2>4. notes' \in [Domains -> Nat]
    BY <1>18, InitialNotesType DEF Restart
  <2>5. QED BY <1>18, <2>1, <2>2, <2>3, <2>4, NothingType DEF Restart, Edited
<1>19. CASE UNCHANGED vars
  BY <1>19, <1>a, StoreUnchanged, ProcessorUnchanged DEF vars, controllerVars
<1>20. QED
  BY <1>1, <1>2, <1>3, <1>4, <1>5, <1>6, <1>7, <1>8, <1>9, <1>10, <1>11, <1>12, <1>13,
     <1>14, <1>15, <1>16, <1>17, <1>18, <1>19
     DEF Next, Worker, ProcessorStep, Informers, Timers, Surroundings

(***************************************************************************)
(* Every variable keeps its type: queues hold keys and items, the item in  *)
(* hand is an item, the snapshots are snapshots.                           *)
(***************************************************************************)
THEOREM TypeCorrect == Spec => []TypeOK
<1>1. QED BY InitType, TypeStep, PTL DEF Spec

(***************************************************************************)
(* The retry budget of a domain, spent by two goroutines that each check   *)
(* before they spend.                                                      *)
(***************************************************************************)
LEMMA InitBudget == Init => RetriesGranted
BY RetriesAssumption DEF Init, ProcessorInit, EmptyQueue, RetriesGranted, NumRequeues,
   GrantedToWorker, GrantedToCallback

LEMMA BudgetStep ==
  ASSUME TypeOK, RetriesGranted, [Next]_vars
  PROVE  RetriesGranted'
<1> USE RetriesAssumption
<1>t. /\ queue \in WorkQueueType(Domains)
      /\ syncKey \in Domains
      /\ queue.failures \in [Domains -> Nat]
  BY DEF TypeOK, WorkQueueType
\* No failure counted and nothing granted.
<1>f. ASSUME \A d \in Domains : queue'.failures[d] <= queue.failures[d],
             queue'.failures \in [Domains -> Nat],
             syncPc' = "retry" => syncPc = "retry" /\ syncKey' = syncKey,
             procPc' = "requeue" => procPc = "requeue" /\ procItem' = procItem
      PROVE  RetriesGranted'
  <2> SUFFICES ASSUME NEW d \in Domains
               PROVE  queue'.failures[d] + GrantedToWorker(d)' + GrantedToCallback(d)'
                        <= QueueNumRetries + 1
    BY DEF RetriesGranted, NumRequeues
  <2>1. queue.failures[d] + GrantedToWorker(d) + GrantedToCallback(d) <= QueueNumRetries + 1
    BY DEF RetriesGranted, NumRequeues
  <2>2. /\ GrantedToWorker(d) \in {0, 1} /\ GrantedToWorker(d)' \in {0, 1}
        /\ GrantedToWorker(d)' <= GrantedToWorker(d)
    BY <1>f DEF GrantedToWorker
  <2>3. /\ GrantedToCallback(d) \in {0, 1} /\ GrantedToCallback(d)' \in {0, 1}
        /\ GrantedToCallback(d)' <= GrantedToCallback(d)
    BY <1>f DEF GrantedToCallback, ItemKey
  <2>4. queue.failures[d] \in Nat /\ queue'.failures[d] \in Nat
        /\ queue'.failures[d] <= queue.failures[d]
    BY <1>f, <1>t
  <2>5. QED BY <2>1, <2>2, <2>3, <2>4
\* The queue keeps its counts.
<1>g. ASSUME queue'.failures = queue.failures,
             syncPc' = "retry" => syncPc = "retry" /\ syncKey' = syncKey,
             procPc' = "requeue" => procPc = "requeue" /\ procItem' = procItem
      PROVE  RetriesGranted'
  BY <1>f, <1>g, <1>t
<1>1. CASE UNCHANGED vars
  BY <1>1, <1>g DEF vars, processorVars, workerVars
<1>2. ASSUME NEW d \in Domains, AthenzDomainChanges(d) \/ Notify(d) \/ Resync(d) \/ QueueBackoffOver(d)
      PROVE  RetriesGranted'
  <2>0. /\ QueueAdd(queue, d).failures = queue.failures
        /\ BackoffOver(queue, d).failures = queue.failures
    BY <1>t, QueueAddProperties, BackoffOverProperties
  <2>1. queue'.failures = queue.failures
    BY <1>2, <2>0 DEF AthenzDomainChanges, Notify, Resync, QueueBackoffOver, workerVars
  <2>2. UNCHANGED <<syncPc, syncKey, procPc, procItem>>
    BY <1>2 DEF AthenzDomainChanges, Notify, Resync, QueueBackoffOver, workerVars, processorVars
  <2>3. QED BY <2>1, <2>2, <1>g
<1>3. ASSUME NEW r \in CRs, ExternalEdit(r) \/ Deliver(r)
      PROVE  RetriesGranted'
  BY <1>3, <1>g DEF ExternalEdit, Deliver, workerVars, processorVars
<1>4. CASE SyncGet
  <2>1. queue'.failures = queue.failures
    BY <1>4, <1>t, QueueGetProperties DEF SyncGet
  <2>2. QED BY <1>4, <2>1, <1>g DEF SyncGet, processorVars
<1>5. CASE SyncReadDomain \/ ListRoles
  BY <1>5, <1>g DEF SyncReadDomain, ListRoles, processorVars
<1>6. CASE SyncMissing
  <2>1. CASE ~BudgetLeft(syncKey)
    BY <1>6, <2>1, <1>g DEF SyncMissing, processorVars
  <2>2. CASE BudgetLeft(syncKey)
    <3> SUFFICES ASSUME NEW d \in Domains
                 PROVE  queue'.failures[d] + GrantedToWorker(d)' + GrantedToCallback(d)'
                          <= QueueNumRetries + 1
      BY DEF RetriesGranted, NumRequeues
    <3>1. queue' = queue /\ GrantedToCallback(d)' = GrantedToCallback(d)
      BY <1>6 DEF SyncMissing, processorVars, GrantedToCallback, ItemKey
    <3>2. queue.failures[d] \in Nat /\ GrantedToCallback(d) \in {0, 1}
      BY <1>t DEF GrantedToCallback
    <3>3. CASE d = syncKey
      <4>1. queue.failures[d] < QueueNumRetries
        BY <2>2, <3>3 DEF BudgetLeft, NumRequeues
      <4>2. GrantedToWorker(d)' \in {0, 1}
        BY DEF GrantedToWorker
      <4>3. QED BY <3>1, <3>2, <4>1, <4>2
    <3>4. CASE d # syncKey
      <4>1. GrantedToWorker(d)' = 0 /\ GrantedToWorker(d) = 0
        BY <1>6, <3>4 DEF SyncMissing, GrantedToWorker
      <4>2. QED BY <3>1, <3>2, <4>1 DEF RetriesGranted, NumRequeues
    <3>5. QED BY <3>3, <3>4
  <2>3. QED BY <2>1, <2>2
<1>7. CASE SyncRequeue
  <2> SUFFICES ASSUME NEW d \in Domains
               PROVE  queue'.failures[d] + GrantedToWorker(d)' + GrantedToCallback(d)'
                        <= QueueNumRetries + 1
    BY DEF RetriesGranted, NumRequeues
  <2>1. GrantedToCallback(d)' = GrantedToCallback(d) /\ GrantedToCallback(d) \in {0, 1}
    BY <1>7 DEF SyncRequeue, processorVars, GrantedToCallback, ItemKey
  <2>2. queue'.failures = [queue.failures EXCEPT ![syncKey] = @ + 1]
    BY <1>7, <1>t, AddRateLimitedProperties DEF SyncRequeue
  <2>3. GrantedToWorker(d)' = 0
    BY <1>7 DEF SyncRequeue, GrantedToWorker
  <2>4. GrantedToWorker(d) = IF d = syncKey THEN 1 ELSE 0
    BY <1>7 DEF SyncRequeue, GrantedToWorker
  <2>5. queue'.failures[d] = queue.failures[d] + GrantedToWorker(d)
    BY <2>2, <2>4, <1>t
  <2>6. QED BY <2>1, <2>3, <2>5, <1>t, <2>4 DEF RetriesGranted, NumRequeues
<1>8. CASE ListBindings
  <2>1. \/ queue' = queue
        \/ queue'.failures = [queue.failures EXCEPT ![syncKey] = 0]
    BY <1>8, <1>t, ForgetProperties DEF ListBindings, QueueAfterList
  <2>2. /\ queue'.failures \in [Domains -> Nat]
        /\ \A d \in Domains : queue'.failures[d] <= queue.failures[d]
    BY <2>1, <1>t
  <2>3. QED BY <1>8, <2>2, <1>f DEF ListBindings
<1>9. CASE PushItem
  BY <1>9, <1>g DEF PushItem
<1>10. CASE SyncDone
  <2>1. queue'.failures = queue.failures
    BY <1>10, <1>t, QueueDoneProperties DEF SyncDone
  <2>2. QED BY <1>10, <2>1, <1>g DEF SyncDone, processorVars
<1>11. CASE ProcessorGet \/ ProcessorCall \/ ProcessorCallFails \/ ProcessorBackoffOver
  <2>1. queue' = queue /\ syncPc' = syncPc /\ syncKey' = syncKey
    BY <1>11 DEF ProcessorGet, ProcessorCall, ProcessorCallFails, ProcessorBackoffOver,
                 controllerVars, workerVars
  <2>2. procPc' = "requeue" => procPc = "requeue" /\ procItem' = procItem
    BY <1>11 DEF ProcessorGet, ProcessorCall, ProcessorCallFails, ProcessorBackoffOver,
                 ProcGet, ProcCall, ProcCallFails, ProcBackoffOver
  <2>3. QED BY <2>1, <2>2, <1>g
<1>12. CASE CallbackDone \/ CallbackRetries \/ CallbackGivesUp \/ CallbackConflictOverBudget
  <2>1. queue' = queue /\ syncPc' = syncPc /\ syncKey' = syncKey /\ procPc' = "idle"
    BY <1>12 DEF CallbackDone, CallbackRetries, CallbackGivesUp, CallbackConflictOverBudget,
                 ProcForget, ProcRetry, ProcDrop, ProcRelease, controllerVars, workerVars
  <2>2. QED BY <2>1, <1>g
<1>13. CASE CallbackConflict
  <2> SUFFICES ASSUME NEW d \in Domains
               PROVE  queue'.failures[d] + GrantedToWorker(d)' + GrantedToCallback(d)'
                        <= QueueNumRetries + 1
    BY DEF RetriesGranted, NumRequeues
  <2>1. queue' = queue /\ GrantedToWorker(d)' = GrantedToWorker(d) /\ ItemKey' = ItemKey
    BY <1>13 DEF CallbackConflict, controllerVars, workerVars, GrantedToWorker, ItemKey
  <2>2. queue.failures[d] \in Nat /\ GrantedToWorker(d) \in {0, 1}
    BY <1>t DEF GrantedToWorker
  <2>3. CASE d = ItemKey
    <3>1. queue.failures[d] < QueueNumRetries
      BY <1>13, <2>3 DEF CallbackConflict, BudgetLeft, NumRequeues
    <3>2. GrantedToCallback(d)' \in {0, 1}
      BY DEF GrantedToCallback
    <3>3. QED BY <2>1, <2>2, <3>1, <3>2
  <2>4. CASE d # ItemKey
    <3>1. GrantedToCallback(d)' = 0 /\ GrantedToCallback(d) = 0
      BY <2>1, <2>4 DEF GrantedToCallback
    <3>2. QED BY <2>1, <2>2, <3>1 DEF RetriesGranted, NumRequeues
  <2>5. QED BY <2>3, <2>4
<1>14. CASE CallbackRequeues
  <2> SUFFICES ASSUME NEW d \in Domains
               PROVE  queue'.failures[d] + GrantedToWorker(d)' + GrantedToCallback(d)'
                        <= QueueNumRetries + 1
    BY DEF RetriesGranted, NumRequeues
  <2>1. ItemKey \in Domains
    BY <1>14, DomainOfAssumption, ItemInHand DEF CallbackRequeues, ItemKey, TypeOK
  <2>2. GrantedToWorker(d)' = GrantedToWorker(d) /\ GrantedToWorker(d) \in {0, 1}
    BY <1>14 DEF CallbackRequeues, GrantedToWorker
  <2>3. queue'.failures = [queue.failures EXCEPT ![ItemKey] = @ + 1]
    BY <1>14, <1>t, <2>1, AddRateLimitedProperties DEF CallbackRequeues
  <2>4. GrantedToCallback(d)' = 0
    BY <1>14 DEF CallbackRequeues, ProcForget, ProcRelease, GrantedToCallback
  <2>5. GrantedToCallback(d) = IF d = ItemKey THEN 1 ELSE 0
    BY <1>14 DEF CallbackRequeues, GrantedToCallback
  <2>6. queue'.failures[d] = queue.failures[d] + GrantedToCallback(d)
    BY <2>1, <2>3, <2>5, <1>t
  <2>7. QED BY <2>2, <2>4, <2>5, <2>6, <1>t DEF RetriesGranted, NumRequeues
<1>15. CASE Restart
  <2>1. queue'.failures = [d \in Domains |-> 0]
    BY <1>15 DEF Restart, EmptyQueue
  <2>2. /\ queue'.failures \in [Domains -> Nat]
        /\ \A d \in Domains : queue'.failures[d] <= queue.failures[d]
    BY <2>1, <1>t
  <2>3. QED BY <1>15, <2>2, <1>f DEF Restart, ProcRelease
<1>16. QED
  BY <1>1, <1>2, <1>3, <1>4, <1>5, <1>6, <1>7, <1>8, <1>9, <1>10, <1>11, <1>12, <1>13, <1>14, <1>15
     DEF Next, Worker, ProcessorStep, Informers, Timers, Surroundings

(***************************************************************************)
(* The number of times a domain was rate limited since its failures were   *)
(* last forgotten never exceeds queueNumRetries by more than one, although *)
(* the worker (controller.go:260-262) and the processor's callback         *)
(* (controller.go:73-80) check and count it without a lock.                *)
(***************************************************************************)
THEOREM BudgetNeverFarExceeded == Spec => []RetryBudgetBound
<1>1. Init => TypeOK /\ RetriesGranted
  BY InitType, InitBudget
<1>2. TypeOK /\ RetriesGranted /\ [Next]_vars => TypeOK' /\ RetriesGranted'
  BY TypeStep, BudgetStep
<1>3. TypeOK /\ RetriesGranted => RetryBudgetBound
  <2> SUFFICES ASSUME TypeOK, RetriesGranted, NEW d \in Domains
               PROVE  queue.failures[d] <= QueueNumRetries + 1
    BY DEF RetryBudgetBound, NumRequeues
  <2>1. queue.failures[d] \in Nat
    BY DEF TypeOK, WorkQueueType
  <2>2. GrantedToWorker(d) \in {0, 1} /\ GrantedToCallback(d) \in {0, 1}
    BY DEF GrantedToWorker, GrantedToCallback
  <2>3. queue.failures[d] + GrantedToWorker(d) + GrantedToCallback(d) <= QueueNumRetries + 1
    BY DEF RetriesGranted, NumRequeues
  <2>4. QED BY <2>1, <2>2, <2>3, RetriesAssumption
<1>4. QED BY <1>1, <1>2, <1>3, PTL DEF Spec

(***************************************************************************)
(* The domain controller implements Mirror: every step decides for a       *)
(* domain it found, writes what it intends, forgets, or is a step of       *)
(* someone else.                                                           *)
(***************************************************************************)


(***************************************************************************)
(* The kinds of steps of Mirror.                                           *)
(***************************************************************************)
LEMMA ForgetIsMirrored ==
  ASSUME ad' = ad, server' = server, edits' = edits, Intended' \subseteq Intended
  PROVE  Mirrored!Next
BY DEF Mirrored!Next, Mirrored!Controller, Mirrored!Forget, Mirrored!Forgets

LEMMA ActualAfterWrite ==
  ASSUME StoreTypeOK, NEW x \in CRs, NEW s \in Specs \cup {Absent}, ServerWrites(x, s)
  PROVE  [r \in CRs |-> server'[r].spec] = [[r \in CRs |-> server[r].spec] EXCEPT ![x] = s]
<1>1. server'[x] = [rev |-> server[x].rev + 1, spec |-> s]
      /\ \A r \in CRs \ {x} : server'[r] = server[r]
  BY ServerWritesProperties
<1>2. server'[x].spec = s
  BY <1>1
<1>3. \A r \in CRs : server'[r].spec = IF r = x THEN s ELSE server[r].spec
  BY <1>1, <1>2
<1>4. QED BY <1>3

LEMMA WriteIsMirrored ==
  ASSUME StoreTypeOK, NEW i \in Item, <<i.cr, i.spec>> \in Intended, ServerWrites(i.cr, i.spec),
         ad' = ad, edits' = edits, Intended' \subseteq Intended
  PROVE  Mirrored!Next
<1>1. i.cr \in CRs /\ i.spec \in Specs \cup {Absent}
  BY DEF Item
<1>2. [r \in CRs |-> server'[r].spec] = [[r \in CRs |-> server[r].spec] EXCEPT ![i.cr] = i.spec]
  BY <1>1, ActualAfterWrite
<1>3. Mirrored!Write(i.cr, i.spec)
  BY <1>2 DEF Mirrored!Write, Mirrored!Forgets
<1>4. QED BY <1>1, <1>3 DEF Mirrored!Next, Mirrored!Controller, Mirrored!Contents

\* What is carried and planned decides what is intended.
LEMMA IntendedShrinks ==
  ASSUME Planned' \subseteq Planned,
         \A i \in Carried' : i \in Carried \/ <<i.cr, i.spec>> \in Intended
  PROVE  Intended' \subseteq Intended
BY DEF Intended

LEMMA NothingPlanned ==
  ASSUME syncPc' \notin {"roles", "bindings"}
  PROVE  Planned' = {}
BY DEF Planned

LEMMA PlansKept ==
  ASSUME want' = want, syncKey' = syncKey,
         syncPc' \in {"roles", "bindings"} => syncPc \in {"roles", "bindings"}
  PROVE  Planned' \subseteq Planned
BY DEF Planned

\* A change list asks for what the sync planned.
LEMMA ListIsPlanned ==
  ASSUME NEW h, NEW i \in ComputeChangeList(h, want, ResourcesOf(syncKey)),
         syncPc \in {"roles", "bindings"}
  PROVE  <<i.cr, i.spec>> \in Planned
<1>1. i.cr \in ResourcesOf(syncKey) /\ i.spec = want[i.cr]
  BY DEF ComputeChangeList, Additions, Updates, Deletions, NewItem
<1>2. QED BY <1>1 DEF Planned

(***************************************************************************)
(* Every step of the controller is one of Mirror.                          *)
(***************************************************************************)
LEMMA WorkerIsMirrored ==
  ASSUME TypeOK, Worker
  PROVE  Mirrored!Next
<1> USE DEF TypeOK
<1>a. ASSUME UNCHANGED <<procQueue, procDelayed, procPc, procItem>>, changes' \subseteq changes
      PROVE  Carried' \subseteq Carried
  BY <1>a DEF Carried, InHand
<1>1. CASE SyncGet \/ SyncMissing \/ SyncRequeue \/ SyncDone
  <2>1. UNCHANGED <<ad, server, edits, procQueue, procDelayed, procPc, procItem, changes>>
    BY <1>1 DEF SyncGet, SyncMissing, SyncRequeue, SyncDone, storeVars, processorVars
  <2>2. Planned' = {}
    BY <1>1, NothingPlanned DEF SyncGet, SyncMissing, SyncRequeue, SyncDone
  <2>3. QED BY <1>a, <2>1, <2>2, IntendedShrinks, ForgetIsMirrored
<1>2. CASE SyncReadDomain
  <2>1. /\ UNCHANGED <<ad, server, edits, syncKey, procQueue, procDelayed, procPc, procItem, changes>>
        /\ ad[syncKey] # NoDomain /\ want' = ad[syncKey]
        /\ syncPc = "sync" /\ syncPc' = "roles"
    BY <1>2 DEF SyncReadDomain, storeVars, processorVars
  <2>2. Carried' = Carried /\ Planned = {}
    BY <2>1 DEF Carried, InHand, Planned
  <2>3. Planned' = {<<r, ad[syncKey][r]>> : r \in {x \in CRs : DomainOf[x] = syncKey}}
    BY <2>1 DEF Planned, ResourcesOf
  <2>4. Intended' = Intended \cup {<<r, ad[syncKey][r]>> : r \in {x \in CRs : DomainOf[x] = syncKey}}
    BY <2>2, <2>3 DEF Intended
  <2>5. Mirrored!Decide(syncKey)
    BY <2>1, <2>4 DEF Mirrored!Decide
  <2>6. QED BY <2>5 DEF Mirrored!Next, Mirrored!Controller
<1>3. CASE ListRoles
  <2>1. /\ UNCHANGED <<ad, server, edits, want, syncKey, procQueue, procDelayed, procPc, procItem, changes>>
        /\ syncPc = "roles"
    BY <1>3 DEF ListRoles, storeVars, processorVars
  <2>2. QED BY <1>a, <2>1, PlansKept, IntendedShrinks, ForgetIsMirrored
<1>4. CASE ListBindings
  <2>1. /\ UNCHANGED <<ad, server, edits, procQueue, procDelayed, procPc, procItem>>
        /\ changes' = ComputeChangeList(have', want, ResourcesOf(syncKey))
        /\ syncPc = "bindings" /\ syncPc' = "push"
    BY <1>4 DEF ListBindings, storeVars
  <2>2. \A i \in changes' : <<i.cr, i.spec>> \in Intended
    BY <2>1, ListIsPlanned DEF Intended
  <2>3. \A i \in Carried' : i \in Carried \/ i \in changes'
    BY <2>1 DEF Carried, InHand
  <2>4. QED BY <2>1, <2>2, <2>3, NothingPlanned, IntendedShrinks, ForgetIsMirrored
<1>5. CASE PushItem
  <2>1. PICK i \in changes : procQueue' = Append(procQueue, i) /\ changes' = changes \ {i}
    BY <1>5 DEF PushItem, ProcessConfigChange
  <2>2. /\ UNCHANGED <<ad, server, edits, procDelayed, procPc, procItem>>
        /\ syncPc' = "push"
    BY <1>5 DEF PushItem, storeVars
  <2>3. Range(procQueue') = Range(procQueue) \cup {i}
    BY <2>1, RangeOfAppend DEF ProcessorTypeOK
  <2>4. Carried' \subseteq Carried
    BY <2>1, <2>2, <2>3 DEF Carried, InHand
  <2>5. QED BY <2>2, <2>4, NothingPlanned, IntendedShrinks, ForgetIsMirrored
<1>6. QED BY <1>1, <1>2, <1>3, <1>4, <1>5 DEF Worker

LEMMA ProcessorIsMirrored ==
  ASSUME TypeOK, ProcessorStep \/ ProcessorCallFails \/ ProcessorBackoffOver
  PROVE  Mirrored!Next
<1> USE DEF TypeOK
<1>1. /\ UNCHANGED <<ad, edits, want, syncKey, syncPc, changes>>
      /\ Planned' \subseteq Planned
  <2>1. UNCHANGED <<ad, edits, want, syncKey, syncPc, changes>>
    BY DEF ProcessorStep, ProcessorGet, ProcessorCall, ProcessorCallFails, ProcessorBackoffOver,
           CallbackDone, CallbackRetries, CallbackGivesUp, CallbackConflictOverBudget,
           CallbackConflict, CallbackRequeues, controllerVars, workerVars
  <2>2. QED BY <2>1, PlansKept
<1>a. ASSUME server' = server, \A i \in Carried' : i \in Carried \/ <<i.cr, i.spec>> \in Intended
      PROVE  Mirrored!Next
  BY <1>1, <1>a, IntendedShrinks, ForgetIsMirrored
<1>2. CASE ProcessorGet
  <2>1. /\ server' = server /\ procDelayed' = procDelayed /\ procQueue # <<>>
        /\ procQueue' = Tail(procQueue) /\ procItem' = Head(procQueue)
    BY <1>2 DEF ProcessorGet, ProcGet, storeVars
  <2>2. Head(procQueue) \in Range(procQueue) /\ Range(Tail(procQueue)) \subseteq Range(procQueue)
    BY <2>1, NothingNewInRest DEF ProcessorTypeOK
  <2>3. Carried' \subseteq Carried
    BY <1>1, <2>1, <2>2 DEF Carried, InHand
  <2>4. QED BY <1>a, <2>1, <2>3
<1>3. CASE ProcessorCall \/ ProcessorCallFails
  <2>1. /\ procPc = "call" /\ procPc' = "callback"
        /\ UNCHANGED <<procQueue, procDelayed, procItem>>
        /\ server' = server \/ ServerWrites(procItem.cr, procItem.spec)
    BY <1>3 DEF ProcessorCall, ProcCall, ProcessorCallFails, ProcCallFails, storeVars
  <2>2. procItem \in Item /\ procItem \in Carried
    BY <2>1 DEF ProcessorTypeOK, Carried, InHand
  <2>3. Carried' \subseteq Carried
    BY <1>1, <2>1 DEF Carried, InHand
  <2>4. CASE server' = server
    BY <1>a, <2>3, <2>4
  <2>5. CASE ServerWrites(procItem.cr, procItem.spec)
    <3>1. <<procItem.cr, procItem.spec>> \in Intended
      BY <2>2 DEF Intended
    <3>2. Intended' \subseteq Intended
      BY <1>1, <2>3, IntendedShrinks
    <3>3. QED BY <1>1, <2>2, <2>5, <3>1, <3>2, WriteIsMirrored
  <2>6. QED BY <2>1, <2>4, <2>5
<1>4. CASE CallbackDone \/ CallbackGivesUp \/ CallbackConflictOverBudget \/ CallbackRequeues
  <2>1. server' = server /\ UNCHANGED <<procQueue, procDelayed>> /\ procPc' = "idle"
    BY <1>4 DEF CallbackDone, CallbackGivesUp, CallbackConflictOverBudget, CallbackRequeues,
                ProcForget, ProcDrop, ProcRelease, storeVars
  <2>2. Carried' \subseteq Carried
    BY <1>1, <2>1 DEF Carried, InHand
  <2>3. QED BY <1>a, <2>1, <2>2
<1>5. CASE CallbackRetries
  <2> DEFINE retried == [procItem EXCEPT !.tries = @ + 1]
  <2>1. /\ server' = server /\ procQueue' = procQueue
        /\ procDelayed' = Append(procDelayed, retried)
        /\ procPc = "callback" /\ procPc' = "idle"
    BY <1>5 DEF CallbackRetries, ProcRetry, ProcRelease, storeVars
  <2>2. procItem \in Item /\ procItem \in Carried
    BY <2>1 DEF ProcessorTypeOK, Carried, InHand
  <2>3. retried \in Item /\ retried.cr = procItem.cr /\ retried.spec = procItem.spec
    BY <2>2, AnotherTry DEF Item
  <2>4. <<retried.cr, retried.spec>> \in Intended
    BY <2>2, <2>3 DEF Intended
  <2> HIDE DEF retried
  <2>5. Range(procDelayed') = Range(procDelayed) \cup {retried}
    BY <2>1, <2>3, RangeOfAppend DEF ProcessorTypeOK
  <2>6. \A i \in Carried' : i \in Carried \/ i = retried
    BY <1>1, <2>1, <2>5 DEF Carried, InHand
  <2>7. QED BY <1>a, <2>1, <2>4, <2>6
<1>6. CASE CallbackConflict
  <2>1. server' = server /\ UNCHANGED <<procQueue, procDelayed>> /\ procPc' = "requeue"
    BY <1>6 DEF CallbackConflict, storeVars
  <2>2. Carried' \subseteq Carried
    BY <1>1, <2>1 DEF Carried, InHand
  <2>3. QED BY <1>a, <2>1, <2>2
<1>7. CASE ProcessorBackoffOver
  <2>1. PICK n \in DOMAIN procDelayed : ProcBackoffOver(n)
    BY <1>7 DEF ProcessorBackoffOver
  <2>2. n \in 1..Len(procDelayed) /\ procDelayed[n] \in Item /\ procDelayed[n] \in Range(procDelayed)
    BY <2>1 DEF ProcessorTypeOK, Range
  <2>3. /\ server' = server /\ UNCHANGED <<procPc, procItem>>
        /\ procQueue' = Append(procQueue, procDelayed[n])
        /\ procDelayed' = RemoveAt(procDelayed, n)
    BY <2>1 DEF ProcBackoffOver, storeVars
  <2>4. Range(procQueue') = Range(procQueue) \cup {procDelayed[n]}
    BY <2>2, <2>3, RangeOfAppend DEF ProcessorTypeOK
  <2>5. Range(procDelayed') \subseteq Range(procDelayed)
    BY <2>2, <2>3, NothingNewAfterRemoval DEF ProcessorTypeOK
  <2>6. Carried' \subseteq Carried
    BY <1>1, <2>2, <2>3, <2>4, <2>5 DEF Carried, InHand
  <2>7. QED BY <1>a, <2>3, <2>6
<1>8. QED BY <1>2, <1>3, <1>4, <1>5, <1>6, <1>7 DEF ProcessorStep

LEMMA QuietStepsAreMirrored ==
  ASSUME TypeOK,
         \/ \E r \in CRs : Deliver(r)
         \/ \E d \in Domains : Notify(d) \/ Resync(d) \/ QueueBackoffOver(d)
  PROVE  Mirrored!Next
<1>1. UNCHANGED <<ad, server, edits, processorVars, changes, want, syncKey, syncPc>>
  BY DEF Deliver, CacheReceives, Notify, Resync, QueueBackoffOver, storeVars, workerVars
<1>2. Intended' = Intended
  BY <1>1 DEF Intended, Planned, Carried, InHand, processorVars
<1>3. QED BY <1>1, <1>2, ForgetIsMirrored

LEMMA OthersAreMirrored ==
  ASSUME TypeOK,
         \/ \E d \in Domains : AthenzDomainChanges(d)
         \/ \E r \in CRs : ExternalEdit(r)
         \/ Restart
  PROVE  Mirrored!Next
<1>1. edits' = edits + 1
  BY DEF AthenzDomainChanges, ExternalEdit, Restart, Edited
<1>2. SUFFICES \/ \E d \in Domains, c \in [CRs -> Mirrored!Contents] \cup {NoDomain} :
                    Mirrored!DomainChanges(d, c)
               \/ \E r \in CRs, c \in Mirrored!Contents : Mirrored!ResourceChanges(r, c)
               \/ Mirrored!Restart
  BY <1>1 DEF Mirrored!Next, Mirrored!Others
<1>3. CASE \E d \in Domains : AthenzDomainChanges(d)
  <2>1. PICK d \in Domains : AthenzDomainChanges(d)
    BY <1>3
  <2>2. PICK c \in DomainContents(d) \cup {NoDomain} : ad' = [ad EXCEPT ![d] = c]
    BY <2>1 DEF AthenzDomainChanges
  <2>3. c \in [CRs -> Mirrored!Contents] \cup {NoDomain}
    BY <2>2 DEF DomainContents, Contents, Mirrored!Contents
  <2>4. UNCHANGED <<server, processorVars, changes, want, syncKey, syncPc>>
    BY <2>1 DEF AthenzDomainChanges, storeVars, workerVars
  <2>5. Intended' = Intended
    BY <2>4 DEF Intended, Planned, Carried, InHand, processorVars
  <2>6. Mirrored!DomainChanges(d, c)
    BY <2>2, <2>4, <2>5 DEF Mirrored!DomainChanges
  <2>7. QED BY <2>3, <2>6
<1>4. CASE \E r \in CRs : ExternalEdit(r)
  <2>1. PICK r \in CRs, c \in Specs \cup {Absent} : ServerWrites(r, c) /\ ExternalEdit(r)
    BY <1>4 DEF ExternalEdit
  <2>2. UNCHANGED <<ad, processorVars, changes, want, syncKey, syncPc>>
    BY <2>1 DEF ExternalEdit, workerVars
  <2>3. Intended' = Intended
    BY <2>2 DEF Intended, Planned, Carried, InHand, processorVars
  <2>4. [x \in CRs |-> server'[x].spec] = [[x \in CRs |-> server[x].spec] EXCEPT ![r] = c]
    BY <2>1, ActualAfterWrite DEF TypeOK
  <2>5. Mirrored!ResourceChanges(r, c)
    BY <2>2, <2>3, <2>4 DEF Mirrored!ResourceChanges
  <2>6. QED BY <2>5 DEF Mirrored!Contents
<1>5. CASE Restart
  <2>1. /\ ad' = ad /\ server' = server /\ changes' = {}
        /\ procQueue' = <<>> /\ procDelayed' = <<>> /\ procPc' = "idle" /\ syncPc' = "idle"
    BY <1>5 DEF Restart, CacheRelists, ProcRelease
  <2>2. Range(<<>>) = {}
    BY DEF Range
  <2>3. Intended' = {}
    BY <2>1, <2>2, NothingPlanned DEF Intended, Carried, InHand
  <2>4. QED BY <2>1, <2>3 DEF Mirrored!Restart
<1>6. QED BY <1>3, <1>4, <1>5

LEMMA InitIsMirrored == Init => Mirrored!Init
<1> SUFFICES ASSUME Init PROVE Mirrored!Init
  OBVIOUS
<1>1. /\ ad \in [Domains -> [CRs -> Mirrored!Contents] \cup {NoDomain}]
      /\ edits = 0 /\ syncPc = "idle" /\ changes = {}
      /\ procQueue = <<>> /\ procDelayed = <<>> /\ procPc = "idle"
  BY DEF Init, ProcessorInit, Contents, Mirrored!Contents
<1>2. [r \in CRs |-> server[r].spec] \in [CRs -> Mirrored!Contents]
  BY DEF Init, StoreInit, Mirrored!Contents
<1>3. Range(<<>>) = {}
  BY DEF Range
<1>4. Intended = {}
  BY <1>1, <1>3 DEF Intended, Planned, Carried, InHand
<1>5. QED BY <1>1, <1>2, <1>4 DEF Mirrored!Init

LEMMA StepIsMirrored == TypeOK /\ [Next]_vars => [Mirrored!Next]_(Mirrored!vars)
<1> SUFFICES ASSUME TypeOK, [Next]_vars PROVE [Mirrored!Next]_(Mirrored!vars)
  OBVIOUS
<1>1. CASE Next
  BY <1>1, WorkerIsMirrored, ProcessorIsMirrored, QuietStepsAreMirrored, OthersAreMirrored
     DEF Next, Informers, Timers, Surroundings
<1>2. CASE UNCHANGED vars
  BY <1>2 DEF vars, storeVars, processorVars, workerVars, Mirrored!vars, Intended, Planned, Carried,
              InHand
<1>3. QED BY <1>1, <1>2

(***************************************************************************)
(* The controller implements Mirror: through stale snapshots, reordered    *)
(* and repeated items, lost calls and restarts, it writes only content the *)
(* domain of the resource asked for when a sync found it                   *)
(* (controller.go:91-110).                                                 *)
(***************************************************************************)
THEOREM MirrorImplemented == Spec => ImplementsMirror
<1>1. Init => Mirrored!Init
  BY InitIsMirrored
<1>2. TypeOK /\ [Next]_vars => [Mirrored!Next]_(Mirrored!vars)
  BY StepIsMirrored
<1>3. Spec => []TypeOK
  BY TypeCorrect
<1>4. QED BY <1>1, <1>2, <1>3, PTL DEF Spec, ImplementsMirror, Mirrored!Spec

(***************************************************************************)
(* The caches trail the server.                                            *)
(***************************************************************************)

\* All an action can do to the server and to the caches.
LEMMA StoreSteps ==
  ASSUME TypeOK, [Next]_vars
  PROVE  StoreMoves
<1> USE DEF StoreMoves
<1>1. CASE Worker
  BY <1>1 DEF Worker, SyncGet, SyncReadDomain, SyncMissing, SyncRequeue, ListRoles,
              ListBindings, PushItem, SyncDone
<1>2. ASSUME procPc = "call"
      PROVE  procItem.cr \in CRs /\ procItem.spec \in Specs \cup {Absent}
  BY <1>2 DEF TypeOK, ProcessorTypeOK, Item
<1>3. CASE ProcessorCall
  BY <1>2, <1>3 DEF ProcessorCall, ProcCall
<1>4. CASE ProcessorCallFails
  BY <1>2, <1>4 DEF ProcessorCallFails, ProcCallFails
<1>5. CASE ProcessorGet \/ CallbackDone \/ CallbackRetries \/ CallbackGivesUp
             \/ CallbackConflictOverBudget \/ CallbackConflict \/ CallbackRequeues
  BY <1>5 DEF ProcessorGet, ProcGet, CallbackDone, CallbackRetries, CallbackGivesUp,
              CallbackConflictOverBudget, CallbackConflict, CallbackRequeues,
              ProcForget, ProcRetry, ProcDrop
<1>6. CASE Informers
  BY <1>6 DEF Informers, Deliver, Notify
<1>7. CASE Timers
  BY <1>7 DEF Timers, Resync, QueueBackoffOver, ProcessorBackoffOver, ProcBackoffOver
<1>8. CASE Surroundings
  <2>1. CASE \E d \in Domains : AthenzDomainChanges(d)
    BY <2>1 DEF AthenzDomainChanges
  <2>2. CASE \E r \in CRs : ExternalEdit(r)
    BY <2>2 DEF ExternalEdit
  <2>3. CASE Restart
    BY <2>3 DEF Restart
  <2>4. QED BY <1>4, <1>8, <2>1, <2>2, <2>3 DEF Surroundings
<1>9. CASE UNCHANGED vars
  BY <1>9 DEF vars
<1>10. QED BY <1>1, <1>3, <1>5, <1>6, <1>7, <1>8, <1>9 DEF Next, ProcessorStep

LEMMA CacheStep ==
  ASSUME TypeOK, CacheTrailsServer, [Next]_vars
  PROVE  CacheTrailsServer'
BY StoreSteps, TrailsKept DEF TypeOK, CacheTrailsServer, Trails

(***************************************************************************)
(* The queue remembers.                                                    *)
(***************************************************************************)
LEMMA AddRemembers ==
  ASSUME NEW q \in WorkQueueType(Domains), NEW d \in Domains,
         \A e \in q.dirty \ q.processing : \E n \in DOMAIN q.order : q.order[n] = e
  PROVE  \A e \in QueueAdd(q, d).dirty \ QueueAdd(q, d).processing :
           \E n \in DOMAIN QueueAdd(q, d).order : QueueAdd(q, d).order[n] = e
<1>1. q.order \in Seq(Domains)
  BY DEF WorkQueueType
<1>2. CASE d \in q.dirty
  BY <1>2 DEF QueueAdd
<1>3. CASE d \notin q.dirty /\ d \in q.processing
  <2>1. QueueAdd(q, d).order = q.order
    BY <1>3 DEF QueueAdd, WorkQueueType
  <2>2. QED BY <1>3, <2>1, QueueAddProperties
<1>4. CASE d \notin q.dirty /\ d \notin q.processing
  <2>1. QueueAdd(q, d).order = Append(q.order, d)
    BY <1>4 DEF QueueAdd, WorkQueueType
  <2>2. /\ \A n \in DOMAIN q.order : n \in DOMAIN Append(q.order, d) /\ Append(q.order, d)[n] = q.order[n]
        /\ Len(q.order) + 1 \in DOMAIN Append(q.order, d)
        /\ Append(q.order, d)[Len(q.order) + 1] = d
    BY <1>1
  <2>3. QED BY <1>4, <2>1, <2>2, QueueAddProperties
<1>5. QED BY <1>2, <1>3, <1>4

LEMMA QueueStep ==
  ASSUME TypeOK, QueueRemembers, [Next]_vars
  PROVE  QueueRemembers'
<1>t. queue \in WorkQueueType(Domains) /\ syncKey \in Domains /\ queue.order \in Seq(Domains)
  BY DEF TypeOK, WorkQueueType
<1>r. /\ queue.processing = IF syncPc = "idle" THEN {} ELSE {syncKey}
      /\ \A d \in queue.dirty \ queue.processing :
           \E n \in DOMAIN queue.order : queue.order[n] = d
  BY DEF QueueRemembers
\* A step that leaves those fields of the queue and the worker's place alone.
<1>f. ASSUME queue'.order = queue.order, queue'.dirty = queue.dirty,
             queue'.processing = queue.processing,
             syncPc' = "idle" <=> syncPc = "idle", syncKey' = syncKey
      PROVE  QueueRemembers'
  BY <1>f, <1>r DEF QueueRemembers
<1>1. ASSUME NEW d \in Domains, Notify(d) \/ Resync(d)
      PROVE  QueueRemembers'
  <2>1. queue' = QueueAdd(queue, d) /\ UNCHANGED <<syncPc, syncKey>>
    BY <1>1 DEF Notify, Resync
  <2>2. QueueAdd(queue, d).processing = queue.processing
    BY <1>t, QueueAddProperties
  <2>3. \A e \in QueueAdd(queue, d).dirty \ QueueAdd(queue, d).processing :
          \E n \in DOMAIN QueueAdd(queue, d).order : QueueAdd(queue, d).order[n] = e
    BY <1>t, <1>r, AddRemembers
  <2>4. QED BY <1>r, <2>1, <2>2, <2>3 DEF QueueRemembers
<1>2. ASSUME NEW d \in Domains, QueueBackoffOver(d)
      PROVE  QueueRemembers'
  <2> DEFINE q == [queue EXCEPT !.delayed = @ \ {d}]
  <2>1. queue' = QueueAdd(q, d) /\ UNCHANGED <<syncPc, syncKey>>
    BY <1>2 DEF QueueBackoffOver, BackoffOver
  <2>2. /\ q \in WorkQueueType(Domains)
        /\ q.order = queue.order /\ q.dirty = queue.dirty /\ q.processing = queue.processing
    BY <1>t DEF WorkQueueType
  <2> HIDE DEF q
  <2>3. \A e \in q.dirty \ q.processing : \E n \in DOMAIN q.order : q.order[n] = e
    BY <1>r, <2>2
  <2>4. QED BY <1>r, <2>1, <2>2, <2>3, AddRemembers, QueueAddProperties DEF QueueRemembers
<1>3. CASE SyncGet
  <2> DEFINE h == Head(queue.order)
             o == Tail(queue.order)
  <2>1. /\ syncPc = "idle" /\ syncPc' = "sync" /\ syncKey' = h
        /\ queue'.order = o
        /\ queue'.dirty = queue.dirty \ {h}
        /\ queue'.processing = queue.processing \cup {h}
    BY <1>3, <1>t, QueueGetProperties DEF SyncGet
  <2>2. ASSUME NEW d \in queue'.dirty \ queue'.processing
        PROVE  \E n \in DOMAIN queue'.order : queue'.order[n] = d
    <3>1. d # h /\ d \in queue.dirty \ queue.processing
      BY <2>1, <2>2
    <3>2. PICK n \in DOMAIN queue.order : queue.order[n] = d
      BY <1>r, <3>1
    <3>3. queue.order # <<>> /\ n # 1
      BY <1>t, <1>3, <3>1, <3>2 DEF SyncGet
    <3>4. n - 1 \in DOMAIN o /\ o[n - 1] = d
      BY <1>t, <3>2, <3>3
    <3>5. QED BY <2>1, <3>4
  <2>3. QED BY <1>r, <2>1, <2>2 DEF QueueRemembers
<1>4. CASE SyncReadDomain \/ SyncMissing \/ ListRoles \/ PushItem
  BY <1>4, <1>f DEF SyncReadDomain, SyncMissing, ListRoles, PushItem
<1>5. CASE SyncRequeue
  <2>1. /\ queue'.order = queue.order /\ queue'.dirty = queue.dirty
        /\ queue'.processing = queue.processing
    <3>1. /\ AddRateLimited(queue, syncKey).order = queue.order
          /\ AddRateLimited(queue, syncKey).dirty = queue.dirty
          /\ AddRateLimited(queue, syncKey).processing = queue.processing
      BY <1>t DEF AddRateLimited, WorkQueueType
    <3>2. QED BY <1>5, <3>1 DEF SyncRequeue
  <2>2. QED BY <1>5, <1>f, <2>1 DEF SyncRequeue
<1>6. CASE ListBindings
  <2>1. /\ queue'.order = queue.order /\ queue'.dirty = queue.dirty
        /\ queue'.processing = queue.processing
    <3>1. /\ Forget(queue, syncKey).order = queue.order
          /\ Forget(queue, syncKey).dirty = queue.dirty
          /\ Forget(queue, syncKey).processing = queue.processing
      BY <1>t DEF Forget, WorkQueueType
    <3>2. QED BY <1>6, <3>1 DEF ListBindings, QueueAfterList
  <2>2. QED BY <1>6, <1>f, <2>1 DEF ListBindings
<1>7. CASE SyncDone
  <2>1. /\ queue'.order = IF syncKey \in queue.dirty THEN Append(queue.order, syncKey)
                          ELSE queue.order
        /\ queue'.dirty = queue.dirty
        /\ queue'.processing = queue.processing \ {syncKey}
        /\ syncPc = "push" /\ syncPc' = "idle"
    BY <1>7, <1>t, QueueDoneProperties DEF SyncDone
  <2>2. queue'.processing = {}
    BY <1>r, <2>1
  <2>3. ASSUME NEW d \in queue'.dirty
        PROVE  \E n \in DOMAIN queue'.order : queue'.order[n] = d
    <3>1. CASE d # syncKey
      <4>1. PICK n \in DOMAIN queue.order : queue.order[n] = d
        BY <1>r, <2>1, <2>3, <3>1
      <4>2. n \in DOMAIN queue'.order /\ queue'.order[n] = d
        BY <1>t, <2>1, <4>1
      <4>3. QED BY <4>2
    <3>2. CASE d = syncKey
      <4>1. queue'.order = Append(queue.order, syncKey)
        BY <2>1, <2>3, <3>2
      <4>2. /\ Len(queue.order) + 1 \in DOMAIN queue'.order
            /\ queue'.order[Len(queue.order) + 1] = d
        BY <1>t, <3>2, <4>1
      <4>3. QED BY <4>2
    <3>3. QED BY <3>1, <3>2
  <2>4. QED BY <2>1, <2>2, <2>3 DEF QueueRemembers
<1>8. CASE CallbackRequeues
  <2>1. ItemKey \in Domains
    BY <1>8, DomainOfAssumption DEF CallbackRequeues, ItemKey, TypeOK, ProcessorTypeOK, Item
  <2>2. /\ queue'.order = queue.order /\ queue'.dirty = queue.dirty
        /\ queue'.processing = queue.processing
    <3>1. /\ AddRateLimited(queue, ItemKey).order = queue.order
          /\ AddRateLimited(queue, ItemKey).dirty = queue.dirty
          /\ AddRateLimited(queue, ItemKey).processing = queue.processing
      BY <1>t, <2>1 DEF AddRateLimited, WorkQueueType
    <3>2. QED BY <1>8, <3>1 DEF CallbackRequeues
  <2>3. QED BY <1>8, <1>f, <2>2 DEF CallbackRequeues
<1>9. CASE ProcessorGet \/ ProcessorCall \/ ProcessorCallFails \/ ProcessorBackoffOver
             \/ CallbackDone \/ CallbackRetries \/ CallbackGivesUp
             \/ CallbackConflictOverBudget \/ CallbackConflict
  <2>1. UNCHANGED controllerVars
    BY <1>9 DEF ProcessorGet, ProcessorCall, ProcessorCallFails, ProcessorBackoffOver,
                CallbackDone, CallbackRetries, CallbackGivesUp,
                CallbackConflictOverBudget, CallbackConflict
  <2>2. QED BY <1>f, <2>1 DEF controllerVars, workerVars
<1>10. CASE Restart
  BY <1>10 DEF Restart, EmptyQueue, QueueRemembers
<1>11. ASSUME NEW d \in Domains, AthenzDomainChanges(d)
       PROVE  QueueRemembers'
  BY <1>11, <1>f DEF AthenzDomainChanges, workerVars
<1>12. ASSUME NEW r \in CRs, ExternalEdit(r) \/ Deliver(r)
       PROVE  QueueRemembers'
  BY <1>12, <1>f DEF ExternalEdit, Deliver, workerVars
<1>13. CASE UNCHANGED vars
  BY <1>13, <1>f DEF vars, workerVars
<1>14. QED
  BY <1>1, <1>2, <1>3, <1>4, <1>5, <1>6, <1>7, <1>8, <1>9, <1>10, <1>11, <1>12, <1>13
     DEF Next, Worker, ProcessorStep, Informers, Timers, Surroundings

(***************************************************************************)
(* There is a change list only while the worker hands it over.             *)
(***************************************************************************)
LEMMA ListStep ==
  ASSUME ListOnlyWhenPushing, [Next]_vars
  PROVE  ListOnlyWhenPushing'
<1> USE DEF ListOnlyWhenPushing
<1>1. CASE Worker
  BY <1>1 DEF Worker, SyncGet, SyncReadDomain, SyncMissing, SyncRequeue, ListRoles,
              ListBindings, PushItem, SyncDone
<1>2. CASE ProcessorStep
  BY <1>2 DEF ProcessorStep, ProcessorGet, ProcessorCall, CallbackDone, CallbackRetries,
              CallbackGivesUp, CallbackConflictOverBudget, CallbackConflict, CallbackRequeues,
              controllerVars, workerVars
<1>3. CASE Informers
  BY <1>3 DEF Informers, Deliver, Notify, workerVars
<1>4. CASE Timers
  BY <1>4 DEF Timers, Resync, QueueBackoffOver, ProcessorBackoffOver, controllerVars, workerVars
<1>5. CASE Surroundings
  BY <1>5 DEF Surroundings, AthenzDomainChanges, ExternalEdit, ProcessorCallFails, Restart,
              controllerVars, workerVars
<1>6. CASE UNCHANGED vars
  BY <1>6 DEF vars, workerVars
<1>7. QED BY <1>1, <1>2, <1>3, <1>4, <1>5, <1>6 DEF Next

(***************************************************************************)
(* A stale snapshot is followed by another sync.                           *)
(***************************************************************************)
LEMMA StaleStep ==
  ASSUME TypeOK, StaleSyncIsFollowed, [Next]_vars
  PROVE  StaleSyncIsFollowed'
<1> SUFFICES ASSUME Stale'
             PROVE  notes'[syncKey'] > 0 \/ syncKey' \in queue'.dirty
  BY DEF StaleSyncIsFollowed
<1>t. /\ queue \in WorkQueueType(Domains) /\ syncKey \in Domains
      /\ notes \in [Domains -> Nat] /\ StoreTypeOK
  BY DEF TypeOK
<1>r. Stale => notes[syncKey] > 0 \/ syncKey \in queue.dirty
  BY DEF StaleSyncIsFollowed
<1>p. syncPc' \in {"roles", "bindings"}
  BY DEF Stale
\* A step that takes nothing from the snapshot nor from the caches.
<1>f. ASSUME UNCHANGED <<syncPc, syncKey, want, have>>, ad'[syncKey] = ad[syncKey],
             \A r \in ResourcesOf(syncKey) : cache'[r] = cache[r],
             notes'[syncKey] >= notes[syncKey], notes'[syncKey] \in Nat,
             syncKey \in queue.dirty => syncKey \in queue'.dirty
      PROVE  notes'[syncKey'] > 0 \/ syncKey' \in queue'.dirty
  <2>1. Stale
    BY <1>f DEF Stale
  <2>2. notes[syncKey] \in Nat
    BY <1>t
  <2>3. QED BY <1>f, <1>r, <2>1, <2>2
<1>1. ASSUME NEW d \in Domains, AthenzDomainChanges(d)
      PROVE  notes'[syncKey'] > 0 \/ syncKey' \in queue'.dirty
  <2>1. CASE d = syncKey
    <3>1. notes'[syncKey'] = notes[syncKey] + 1
      BY <1>1, <1>t, <2>1 DEF AthenzDomainChanges, workerVars
    <3>2. QED BY <1>t, <3>1
  <2>2. CASE d # syncKey
    <3>1. notes'[syncKey] = notes[syncKey] /\ ad'[syncKey] = ad[syncKey]
      BY <1>1, <1>t, <2>2 DEF AthenzDomainChanges, TypeOK
    <3>2. QED BY <1>1, <1>f, <1>t, <3>1 DEF AthenzDomainChanges, workerVars, storeVars
  <2>3. QED BY <2>1, <2>2
<1>2. ASSUME NEW x \in CRs, ExternalEdit(x)
      PROVE  notes'[syncKey'] > 0 \/ syncKey' \in queue'.dirty
  <2>1. cache' = cache
    BY <1>2 DEF ExternalEdit, ServerWrites
  <2>2. QED BY <1>2, <1>f, <1>t, <2>1 DEF ExternalEdit, workerVars
<1>3. ASSUME NEW x \in CRs, Deliver(x)
      PROVE  notes'[syncKey'] > 0 \/ syncKey' \in queue'.dirty
  <2>1. notes' = [notes EXCEPT ![DomainOf[x]] = @ + 1] /\ UNCHANGED <<ad, workerVars>>
    BY <1>3 DEF Deliver
  <2>2. CASE DomainOf[x] = syncKey
    <3>1. notes'[syncKey'] = notes[syncKey] + 1
      BY <1>t, <2>1, <2>2 DEF workerVars
    <3>2. QED BY <1>t, <3>1
  <2>3. CASE DomainOf[x] # syncKey
    <3>1. \A r \in ResourcesOf(syncKey) : cache'[r] = cache[r]
      BY <1>3, <1>t, <2>3, CacheReceivesProperties DEF Deliver, ResourcesOf
    <3>2. notes'[syncKey] = notes[syncKey]
      BY <1>t, <2>1, <2>3
    <3>3. QED BY <1>f, <1>t, <2>1, <3>1, <3>2 DEF workerVars
  <2>4. QED BY <2>2, <2>3
<1>4. ASSUME NEW d \in Domains, Notify(d)
      PROVE  notes'[syncKey'] > 0 \/ syncKey' \in queue'.dirty
  <2>1. queue'.dirty = queue.dirty \cup {d}
    BY <1>4, <1>t, QueueAddProperties DEF Notify
  <2>2. CASE d = syncKey
    BY <1>4, <2>1, <2>2 DEF Notify
  <2>3. CASE d # syncKey
    <3>1. notes'[syncKey] = notes[syncKey]
      BY <1>4, <1>t, <2>3 DEF Notify
    <3>2. QED BY <1>4, <1>f, <1>t, <2>1, <3>1 DEF Notify, storeVars
  <2>4. QED BY <2>2, <2>3
<1>5. ASSUME NEW d \in Domains, Resync(d) \/ QueueBackoffOver(d)
      PROVE  notes'[syncKey'] > 0 \/ syncKey' \in queue'.dirty
  <2>1. syncKey \in queue.dirty => syncKey \in queue'.dirty
    <3>1. CASE Resync(d)
      BY <1>t, <3>1, QueueAddProperties DEF Resync
    <3>2. CASE QueueBackoffOver(d)
      BY <1>t, <3>2, BackoffOverProperties DEF QueueBackoffOver
    <3>3. QED BY <1>5, <3>1, <3>2
  <2>2. UNCHANGED <<storeVars, ad, notes, syncPc, syncKey, want, have>>
    BY <1>5 DEF Resync, QueueBackoffOver
  <2>3. QED BY <1>f, <1>t, <2>1, <2>2 DEF storeVars
<1>6. CASE SyncReadDomain
  <2>1. ~ Stale'
    BY <1>6 DEF SyncReadDomain, Stale
  <2>2. QED BY <2>1
<1>7. CASE ListRoles
  <2>1. /\ syncPc = "roles" /\ UNCHANGED <<want, ad, syncKey, notes, queue, storeVars>>
        /\ have' = Listed("ServiceRole")
    BY <1>7 DEF ListRoles
  <2>2. \A r \in ResourcesOf(syncKey) : KindOf[r] = "ServiceRole" => have'[r] = cache[r]
    BY <2>1 DEF Listed, ResourcesOf
  <2>3. want # ad[syncKey]
    BY <2>1, <2>2 DEF Stale, storeVars
  <2>4. Stale
    BY <2>1, <2>3 DEF Stale
  <2>5. QED BY <1>r, <2>1, <2>4
<1>8. CASE SyncGet \/ SyncMissing \/ SyncRequeue \/ ListBindings \/ SyncDone \/ Restart
  BY <1>8, <1>p DEF SyncGet, SyncMissing, SyncRequeue, ListBindings, SyncDone, Restart
<1>9. CASE PushItem
  BY <1>9, <1>p DEF PushItem
<1>10. CASE ProcessorStep \/ ProcessorCallFails \/ ProcessorBackoffOver
  <2>1. UNCHANGED <<ad, notes, syncPc, syncKey, want, have>>
    BY <1>10 DEF ProcessorStep, ProcessorGet, ProcessorCall, ProcessorCallFails,
                 ProcessorBackoffOver, CallbackDone, CallbackRetries, CallbackGivesUp,
                 CallbackConflictOverBudget, CallbackConflict, CallbackRequeues,
                 controllerVars, workerVars
  <2>2. cache' = cache
    BY <1>10 DEF ProcessorStep, ProcessorGet, ProcessorCall, ProcessorCallFails,
                 ProcessorBackoffOver, CallbackDone, CallbackRetries, CallbackGivesUp,
                 CallbackConflictOverBudget, CallbackConflict, CallbackRequeues,
                 ProcGet, ProcCall, ProcCallFails, ProcBackoffOver, ProcForget, ProcRetry,
                 ProcDrop, ServerWrites, storeVars
  <2>3. queue' = queue \/ queue' = AddRateLimited(queue, ItemKey)
    BY <1>10 DEF ProcessorStep, ProcessorGet, ProcessorCall, ProcessorCallFails,
                 ProcessorBackoffOver, CallbackDone, CallbackRetries, CallbackGivesUp,
                 CallbackConflictOverBudget, CallbackConflict, CallbackRequeues,
                 controllerVars, workerVars
  <2>4. AddRateLimited(queue, ItemKey).dirty = queue.dirty
    BY <1>t DEF AddRateLimited, WorkQueueType
  <2>5. queue'.dirty = queue.dirty
    BY <2>3, <2>4
  <2>6. QED BY <1>f, <1>t, <2>1, <2>2, <2>5
<1>11. CASE UNCHANGED vars
  BY <1>11, <1>f, <1>t DEF vars, workerVars, storeVars
<1>12. QED
  BY <1>1, <1>2, <1>3, <1>4, <1>5, <1>6, <1>7, <1>8, <1>9, <1>10, <1>11
     DEF Next, Worker, Informers, Timers, Surroundings

(***************************************************************************)
(* What is in store for a resource stays in store, and a sync that is      *)
(* ahead stays ahead, until a sync of the domain decides.                  *)
(***************************************************************************)
Pending(r) ==
  \/ InStore(r)
  \/ \E i \in changes : Accepted(i, r)

Decides(d) == ListBindings /\ syncKey = d

\* NoLostWork in these terms.
LEMMA TrackedMeans ==
  ASSUME NEW r
  PROVE  (watch[r] # <<>> \/ ItemUnderway(r) \/ r \in gaveUp) <=> Pending(r)
BY DEF Pending, InStore, InProcessor, Accepted, ItemUnderway, Effective, Underway

\* Steps that keep the stores and the processor.
LEMMA StillPending ==
  ASSUME NEW r \in CRs, Pending(r), UNCHANGED <<processorVars, changes>>,
         server'[r] = server[r], watch'[r] = watch[r]
  PROVE  Pending(r)'
BY DEF Pending, InStore, InProcessor, Accepted, processorVars

\* Steps of the processor.
LEMMA ProcessorKeepsPending ==
  ASSUME TypeOK, NEW r \in CRs, Pending(r), changes' = changes, ProcessorMoves \/ CallbackMoves
  PROVE  Pending(r)'
<1>t. StoreTypeOK /\ ProcessorTypeOK
  BY DEF TypeOK
<1>1. CASE InStore(r)
  BY <1>t, <1>1, ProcessorMovesLoseNothing, CallbackMovesLoseNothing DEF Pending
<1>2. CASE \E i \in changes : Accepted(i, r)
  <2>1. watch'[r] # <<>> \/ server'[r] = server[r]
    <3>1. ASSUME procPc = "call"
          PROVE  procItem.cr \in CRs /\ procItem.spec \in Specs \cup {Absent}
      BY <1>t, <3>1, ItemInHand
    <3>2. CASE ProcCall
      BY <1>t, <3>1, <3>2, WriteIsWatched DEF ProcCall, storeVars
    <3>3. CASE ProcCallFails
      BY <1>t, <3>1, <3>3, WriteIsWatched DEF ProcCallFails, storeVars
    <3>4. QED BY <3>2, <3>3 DEF ProcessorMoves, CallbackMoves, ProcGet, ProcBackoffOver,
                               ProcForget, ProcRetry, ProcDrop, storeVars
  <2>2. QED BY <1>2, <2>1 DEF Pending, InStore, Accepted
<1>3. QED BY <1>1, <1>2 DEF Pending

LEMMA InitialNotesOfRestart ==
  ASSUME TypeOK, Restart, NEW d \in Domains, ad'[d] # NoDomain
  PROVE  notes'[d] > 0
BY InitialNotesType DEF Restart

LEMMA DomainChangeIsNoted ==
  ASSUME TypeOK, [Next]_vars, NEW d \in Domains, ad'[d] # ad[d]
  PROVE  notes'[d] > 0
<1>1. ASSUME ~\E e \in Domains : AthenzDomainChanges(e)
      PROVE  ad' = ad
  BY <1>1 DEF Next, Worker, ProcessorStep, Informers, Timers, Surroundings, vars,
      SyncGet, SyncReadDomain, SyncMissing, SyncRequeue, ListRoles, ListBindings, PushItem, SyncDone,
      ProcessorGet, ProcessorCall, ProcessorCallFails, ProcessorBackoffOver,
      CallbackDone, CallbackRetries, CallbackGivesUp, CallbackConflictOverBudget, CallbackConflict,
      CallbackRequeues, controllerVars, ExternalEdit, Deliver, Notify, Resync, QueueBackoffOver, Restart
<1>2. PICK e \in Domains : AthenzDomainChanges(e)
  BY <1>1
<1>3. e = d
  BY <1>2 DEF AthenzDomainChanges, TypeOK
<1>4. QED BY <1>2, <1>3 DEF AthenzDomainChanges, TypeOK

LEMMA PendingStep ==
  ASSUME TypeOK, ListOnlyWhenPushing, [Next]_vars,
         NEW r \in CRs, ad'[DomainOf[r]] # NoDomain, Pending(r)
  PROVE  Pending(r)' \/ notes'[DomainOf[r]] > 0 \/ Decides(DomainOf[r])
<1>t. /\ StoreTypeOK /\ ProcessorTypeOK /\ notes \in [Domains -> Nat]
      /\ DomainOf[r] \in Domains /\ watch[r] \in Seq(Objects)
  BY DomainOfAssumption DEF TypeOK, StoreTypeOK
<1>1. CASE UNCHANGED <<storeVars, processorVars, changes>>
  BY <1>1, StillPending DEF storeVars
<1>2. ASSUME NEW d \in Domains,
             AthenzDomainChanges(d) \/ Notify(d) \/ Resync(d) \/ QueueBackoffOver(d)
      PROVE  UNCHANGED <<storeVars, processorVars, changes>>
  BY <1>2 DEF AthenzDomainChanges, Notify, Resync, QueueBackoffOver, workerVars
<1>3. CASE SyncGet \/ SyncReadDomain \/ SyncMissing \/ SyncRequeue \/ ListRoles \/ SyncDone
  BY <1>1, <1>3 DEF SyncGet, SyncReadDomain, SyncMissing, SyncRequeue, ListRoles, SyncDone
<1>4. CASE UNCHANGED vars
  BY <1>1, <1>4 DEF vars, workerVars
<1>5. ASSUME NEW x \in CRs, ExternalEdit(x)
      PROVE  Pending(r)'
  <2>1. watch'[r] # <<>> \/ (server'[r] = server[r] /\ watch'[r] = watch[r])
    BY <1>5, <1>t, WriteIsWatched DEF ExternalEdit
  <2>2. UNCHANGED <<processorVars, changes>>
    BY <1>5 DEF ExternalEdit, workerVars
  <2>3. CASE watch'[r] # <<>>
    BY <2>3 DEF Pending, InStore
  <2>4. QED BY <2>1, <2>2, <2>3, StillPending
<1>6. ASSUME NEW x \in CRs, Deliver(x)
      PROVE  Pending(r)' \/ notes'[DomainOf[r]] > 0
  <2>1. CASE x = r
    BY <1>6, <1>t, <2>1 DEF Deliver
  <2>2. CASE x # r
    <3>1. server'[r] = server[r] /\ watch'[r] = watch[r]
      BY <1>6, <1>t, <2>2, CacheReceivesProperties DEF Deliver
    <3>2. QED BY <1>6, <3>1, StillPending DEF Deliver, workerVars
  <2>3. QED BY <2>1, <2>2
<1>7. CASE ListBindings
  <2>1. CASE DomainOf[r] = syncKey
    BY <1>7, <2>1 DEF Decides
  <2>2. CASE DomainOf[r] # syncKey
    <3>1. /\ changes = {} /\ r \notin ResourcesOf(syncKey)
          /\ gaveUp' = gaveUp \ ResourcesOf(syncKey)
          /\ UNCHANGED <<storeVars, procQueue, procDelayed, procPc, procItem, procResult>>
      BY <1>7, <2>2 DEF ListBindings, ListOnlyWhenPushing, ResourcesOf
    <3>2. InProcessor' = InProcessor
      BY <3>1 DEF InProcessor
    <3>3. QED BY <3>1, <3>2 DEF Pending, InStore, Accepted, storeVars
  <2>3. QED BY <2>1, <2>2
<1>8. CASE PushItem
  <2>1. PICK i \in changes : procQueue' = Append(procQueue, i) /\ changes' = changes \ {i}
    BY <1>8 DEF PushItem, ProcessConfigChange
  <2>2. Range(procQueue') = Range(procQueue) \cup {i}
    BY <2>1, RangeOfAppend DEF TypeOK, ProcessorTypeOK
  <2>3. UNCHANGED <<storeVars, gaveUp, procDelayed, procPc, procItem, procResult>>
    BY <1>8 DEF PushItem
  <2>4. changes \cup InProcessor \subseteq changes' \cup InProcessor'
    BY <2>1, <2>2, <2>3 DEF InProcessor
  <2>5. QED BY <2>3, <2>4 DEF Pending, InStore, Accepted, storeVars
<1>9. CASE ProcessorGet \/ ProcessorCall \/ ProcessorCallFails \/ ProcessorBackoffOver
  <2>1. ProcessorMoves /\ changes' = changes
    BY <1>9 DEF ProcessorGet, ProcessorCall, ProcessorCallFails, ProcessorBackoffOver,
                ProcessorMoves, controllerVars, workerVars
  <2>2. QED BY <2>1, ProcessorKeepsPending
<1>10. CASE \/ CallbackDone \/ CallbackRetries \/ CallbackGivesUp
            \/ CallbackConflictOverBudget \/ CallbackConflict \/ CallbackRequeues
  <2>1. CallbackMoves /\ changes' = changes
    BY <1>10 DEF CallbackDone, CallbackRetries, CallbackGivesUp, CallbackConflictOverBudget,
                 CallbackConflict, CallbackRequeues, CallbackMoves, controllerVars, workerVars
  <2>2. QED BY <2>1, ProcessorKeepsPending
<1>11. CASE Restart
  BY <1>11, <1>t, InitialNotesOfRestart
<1>12. QED
  BY <1>1, <1>2, <1>3, <1>4, <1>5, <1>6, <1>7, <1>8, <1>9, <1>10, <1>11
     DEF Next, Worker, ProcessorStep, Informers, Timers, Surroundings

\* The operations on this queue that the two following facts are about.
LEMMA QueueKeeps ==
  ASSUME TypeOK, NEW e \in Domains
  PROVE  /\ queue \in WorkQueueType(Domains)
         /\ QueueAdd(queue, e).failures = queue.failures
         /\ BackoffOver(queue, e).failures = queue.failures
         /\ AddRateLimited(queue, e).dirty = queue.dirty
         /\ AddRateLimited(queue, e).delayed = queue.delayed \cup {e}
         /\ AddRateLimited(queue, e).failures = [queue.failures EXCEPT ![e] = @ + 1]
         /\ Forget(queue, e).dirty = queue.dirty
         /\ Forget(queue, e).delayed = queue.delayed
         /\ Forget(queue, e).failures = [queue.failures EXCEPT ![e] = 0]
<1>1. queue \in WorkQueueType(Domains)
  BY DEF TypeOK
<1>2. QueueAdd(queue, e).failures = queue.failures
  BY <1>1, QueueAddProperties
<1>3. BackoffOver(queue, e).failures = queue.failures
  BY <1>1, BackoffOverProperties
<1>4. /\ AddRateLimited(queue, e).dirty = queue.dirty
      /\ AddRateLimited(queue, e).delayed = queue.delayed \cup {e}
      /\ AddRateLimited(queue, e).failures = [queue.failures EXCEPT ![e] = @ + 1]
  BY <1>1, AddRateLimitedProperties
<1>5. /\ Forget(queue, e).dirty = queue.dirty
      /\ Forget(queue, e).delayed = queue.delayed
      /\ Forget(queue, e).failures = [queue.failures EXCEPT ![e] = 0]
  BY <1>1, ForgetProperties
<1>6. QED BY <1>1, <1>2, <1>3, <1>4, <1>5

LEMMA AheadStep ==
  ASSUME TypeOK, [Next]_vars, NEW d \in Domains, ad'[d] # NoDomain, SyncAhead(d)
  PROVE  SyncAhead(d)' \/ Decides(d)
<1>t. queue \in WorkQueueType(Domains) /\ syncKey \in Domains /\ notes \in [Domains -> Nat]
  BY DEF TypeOK
\* A step that forgets neither a handler call nor a key.
<1>f. ASSUME notes'[d] >= notes[d], notes'[d] \in Nat,
             queue.dirty \cup queue.delayed \subseteq queue'.dirty \cup queue'.delayed,
             UNCHANGED <<syncPc, syncKey>>
      PROVE  SyncAhead(d)'
  BY <1>f, <1>t DEF SyncAhead
<1>1. ASSUME NEW e \in Domains, AthenzDomainChanges(e)
      PROVE  SyncAhead(d)'
  BY <1>1, <1>t, <1>f DEF AthenzDomainChanges, workerVars
<1>2. ASSUME NEW x \in CRs, ExternalEdit(x) \/ Deliver(x)
      PROVE  SyncAhead(d)'
  <2>1. notes'[d] >= notes[d] /\ notes'[d] \in Nat
    BY <1>2, <1>t, DomainOfAssumption DEF ExternalEdit, Deliver
  <2>2. QED BY <1>2, <1>f, <2>1 DEF ExternalEdit, Deliver, workerVars
<1>3. ASSUME NEW e \in Domains, Notify(e)
      PROVE  SyncAhead(d)'
  <2>1. queue'.dirty = queue.dirty \cup {e} /\ queue'.delayed = queue.delayed
    BY <1>3, <1>t, QueueAddProperties DEF Notify
  <2>2. CASE e = d
    BY <2>1, <2>2 DEF SyncAhead
  <2>3. CASE e # d
    BY <1>3, <1>t, <1>f, <2>1, <2>3 DEF Notify
  <2>4. QED BY <2>2, <2>3
<1>4. ASSUME NEW e \in Domains, Resync(e)
      PROVE  SyncAhead(d)'
  <2>1. queue'.dirty = queue.dirty \cup {e} /\ queue'.delayed = queue.delayed
    BY <1>4, <1>t, QueueAddProperties DEF Resync
  <2>2. QED BY <1>4, <1>t, <1>f, <2>1 DEF Resync
<1>5. ASSUME NEW e \in Domains, QueueBackoffOver(e)
      PROVE  SyncAhead(d)'
  <2>1. queue'.dirty = queue.dirty \cup {e} /\ queue'.delayed = queue.delayed \ {e}
    BY <1>5, <1>t, BackoffOverProperties DEF QueueBackoffOver
  <2>2. QED BY <1>5, <1>t, <1>f, <2>1 DEF QueueBackoffOver
<1>6. CASE SyncGet
  <2>1. queue'.dirty = queue.dirty \ {syncKey'} /\ queue'.delayed = queue.delayed
    BY <1>6, <1>t, QueueGetProperties DEF SyncGet
  <2>2. QED BY <1>6, <2>1 DEF SyncGet, SyncAhead
<1>7. CASE SyncReadDomain \/ ListRoles
  BY <1>7 DEF SyncReadDomain, ListRoles, SyncAhead
<1>8. CASE SyncMissing
  BY <1>8 DEF SyncMissing, SyncAhead
<1>9. CASE SyncRequeue
  <2>1. queue'.dirty = queue.dirty /\ queue'.delayed = queue.delayed \cup {syncKey}
    BY <1>9, <1>t, QueueKeeps DEF SyncRequeue
  <2>2. QED BY <1>9, <2>1 DEF SyncRequeue, SyncAhead
<1>10. CASE ListBindings
  <2>1. queue'.dirty = queue.dirty /\ queue'.delayed = queue.delayed
    BY <1>10, <1>t, QueueKeeps DEF ListBindings, QueueAfterList
  <2>2. QED BY <1>10, <2>1 DEF ListBindings, SyncAhead, Decides
<1>11. CASE PushItem
  BY <1>11 DEF PushItem, SyncAhead
<1>12. CASE SyncDone
  <2>1. queue'.dirty = queue.dirty /\ queue'.delayed = queue.delayed
    BY <1>12, <1>t, QueueDoneProperties DEF SyncDone
  <2>2. QED BY <1>12, <2>1 DEF SyncDone, SyncAhead
<1>13. CASE UNCHANGED controllerVars
  BY <1>13 DEF controllerVars, workerVars, SyncAhead
<1>14. CASE CallbackRequeues
  <2>1. ItemKey \in Domains
    BY <1>14, DomainOfAssumption, ItemInHand DEF CallbackRequeues, ItemKey, TypeOK
  <2>2. queue'.dirty = queue.dirty /\ queue'.delayed = queue.delayed \cup {ItemKey}
    BY <1>14, <2>1, QueueKeeps DEF CallbackRequeues
  <2>3. QED BY <1>14, <2>2 DEF CallbackRequeues, SyncAhead
<1>15. CASE Restart
  BY <1>15, InitialNotesOfRestart DEF SyncAhead
<1>16. CASE UNCHANGED vars
  BY <1>16, <1>13 DEF vars, controllerVars
<1>17. QED
  BY <1>1, <1>2, <1>3, <1>4, <1>5, <1>6, <1>7, <1>8, <1>9, <1>10, <1>11, <1>12, <1>13,
     <1>14, <1>15, <1>16
     DEF Next, Worker, ProcessorStep, Informers, Timers, Surroundings,
         ProcessorGet, ProcessorCall, ProcessorCallFails, ProcessorBackoffOver,
         CallbackDone, CallbackRetries, CallbackGivesUp, CallbackConflictOverBudget, CallbackConflict

(***************************************************************************)
(* A sync whose snapshot is up to date decides from what the server holds. *)
(***************************************************************************)
LEMMA FreshSnapshot ==
  ASSUME TypeOK, StaleSyncIsFollowed, CacheTrailsServer, ListBindings,
         NEW r \in ResourcesOf(syncKey),
         watch[r] = <<>>, notes[syncKey] = 0, syncKey \notin queue.dirty
  PROVE  have'[r] = server[r] /\ want = ad[syncKey]
<1>1. syncPc = "bindings" /\ r \in CRs /\ DomainOf[r] = syncKey
  BY DEF ListBindings, ResourcesOf
<1>2. ~ Stale
  BY DEF StaleSyncIsFollowed
<1>3. want = ad[syncKey]
  BY <1>1, <1>2 DEF Stale
<1>4. server[r] = cache[r]
  BY <1>1 DEF CacheTrailsServer
<1>5. have' = Listed("ServiceRoleBinding")
  BY DEF ListBindings
<1>6. CASE KindOf[r] = "ServiceRoleBinding"
  BY <1>1, <1>3, <1>4, <1>5, <1>6 DEF Listed
<1>7. CASE KindOf[r] = "ServiceRole"
  BY <1>1, <1>2, <1>3, <1>4, <1>5, <1>7 DEF Listed, Stale
<1>8. QED BY <1>1, <1>6, <1>7, KindOfAssumption

\* The types a decision is made with.
LEMMA DecisionTypes ==
  ASSUME TypeOK, ListBindings
  PROVE  /\ have' \in [CRs -> Objects]
         /\ want \in [CRs -> Specs \cup {Absent}]
         /\ ResourcesOf(syncKey) \in SUBSET CRs
         /\ changes' = ComputeChangeList(have', want, ResourcesOf(syncKey))
         /\ UNCHANGED <<storeVars, notes, ad, syncKey>>
         /\ queue'.dirty = queue.dirty
BY ListedType, QueueKeeps
   DEF ListBindings, TypeOK, StoreTypeOK, Contents, ResourcesOf, QueueAfterList

(***************************************************************************)
(* No difference is forgotten.                                             *)
(***************************************************************************)
LEMMA LostStep ==
  ASSUME TypeOK, CacheTrailsServer, ListOnlyWhenPushing, StaleSyncIsFollowed, NoLostWork,
         [Next]_vars
  PROVE  NoLostWork'
<1> SUFFICES ASSUME NEW r \in CRs, Diverged(r)'
             PROVE  SyncAhead(DomainOf[r])' \/ Pending(r)'
  BY TrackedMeans DEF NoLostWork, Pending, InStore, InProcessor, Accepted, ItemUnderway,
                      Effective, Underway
<1> DEFINE d == DomainOf[r]
<1>t. d \in Domains /\ StoreTypeOK /\ notes \in [Domains -> Nat] /\ ad'[d] # NoDomain
  BY DomainOfAssumption DEF TypeOK, Diverged
<1>1. CASE ad'[d] # ad[d]
  BY <1>t, <1>1, DomainChangeIsNoted DEF SyncAhead
<1>2. CASE server'[r] # server[r]
  <2>1. watch'[r] # <<>>
    BY <1>t, <1>2, StoreSteps, WriteIsWatched DEF StoreMoves, storeVars, CacheReceives, CacheRelists
  <2>2. QED BY <2>1 DEF Pending, InStore
<1>3. CASE ad'[d] = ad[d] /\ server'[r] = server[r]
  <2>1. SyncAhead(d) \/ Pending(r)
    BY <1>3, TrackedMeans DEF NoLostWork, Diverged
  <2>2. CASE Decides(d)
    <3> SUFFICES ASSUME watch[r] = <<>>, notes[d] = 0, d \notin queue.dirty
                 PROVE  Pending(r)'
      BY <1>t, <2>2, DecisionTypes DEF SyncAhead, Pending, InStore, Decides, storeVars
    <3>1. have'[r] = server[r] /\ want = ad[d] /\ r \in ResourcesOf(syncKey)
      BY <2>2, FreshSnapshot DEF Decides, ResourcesOf
    <3>2. have'[r].spec # want[r]
      BY <1>3, <3>1 DEF Diverged
    <3>3. PICK i \in changes' : i.cr = r
      BY <2>2, <3>1, <3>2, DecisionTypes, DifferencesAreListed DEF Decides
    <3>4. Answer(i, have'[r]) = "ok"
      BY <2>2, <3>3, DecisionTypes, ChangesAreAccepted DEF Decides
    <3>5. QED BY <1>3, <3>1, <3>3, <3>4 DEF Pending, Accepted
  <2>3. QED BY <1>t, <2>1, <2>2, PendingStep, AheadStep DEF SyncAhead
<1>4. QED BY <1>1, <1>2, <1>3

(***************************************************************************)
(* A retry that was counted is owed: something will still happen to the    *)
(* domain that ends in a sync with an empty change list.                   *)
(***************************************************************************)
BudgetOwed ==
  \A d \in Domains :
    ad[d] # NoDomain /\ NumRequeues(queue, d) # 0
      => SyncAhead(d) \/ \E r \in ResourcesOf(d) : Pending(r)

\* A step that counts a retry of d puts d on the queue.
LEMMA CountedStep ==
  ASSUME TypeOK, [Next]_vars, NEW d \in Domains, queue.failures[d] = 0, queue'.failures[d] # 0
  PROVE  SyncAhead(d)'
<1>t. queue \in WorkQueueType(Domains) /\ syncKey \in Domains /\ queue.failures \in [Domains -> Nat]
  BY DEF TypeOK, WorkQueueType
<1>1. ASSUME NEW e \in Domains, queue' = AddRateLimited(queue, e)
      PROVE  SyncAhead(d)'
  <2>1. queue'.failures = [queue.failures EXCEPT ![e] = @ + 1] /\ e \in queue'.delayed
    BY <1>1, QueueKeeps
  <2>2. e = d
    BY <1>t, <2>1
  <2>3. QED BY <2>1, <2>2 DEF SyncAhead
<1>2. CASE SyncRequeue
  BY <1>t, <1>1, <1>2 DEF SyncRequeue
<1>3. CASE CallbackRequeues
  <2>1. ItemKey \in Domains
    BY <1>3, DomainOfAssumption, ItemInHand DEF CallbackRequeues, ItemKey, TypeOK
  <2>2. QED BY <1>1, <1>3, <2>1 DEF CallbackRequeues
<1>4. ASSUME ~SyncRequeue, ~CallbackRequeues
      PROVE  queue'.failures[d] = 0
  <2>1. CASE queue' = queue
    BY <2>1
  <2>2. ASSUME NEW e \in Domains, Notify(e) \/ Resync(e) \/ QueueBackoffOver(e)
        PROVE  queue'.failures = queue.failures
    BY <2>2, QueueKeeps DEF Notify, Resync, QueueBackoffOver
  <2>3. CASE SyncGet
    BY <1>t, <2>3, QueueGetProperties DEF SyncGet
  <2>4. CASE SyncDone
    BY <1>t, <2>4, QueueDoneProperties DEF SyncDone
  <2>5. CASE ListBindings
    BY <1>t, <2>5, QueueKeeps DEF ListBindings, QueueAfterList
  <2>6. CASE Restart
    BY <2>6 DEF Restart, EmptyQueue
  <2>7. CASE SyncReadDomain \/ SyncMissing \/ ListRoles \/ PushItem
    BY <2>1, <2>7 DEF SyncReadDomain, SyncMissing, ListRoles, PushItem
  <2>8. CASE UNCHANGED controllerVars
    BY <2>1, <2>8 DEF controllerVars, workerVars
  <2>9. ASSUME NEW e \in Domains, AthenzDomainChanges(e)
        PROVE  queue' = queue
    BY <2>9 DEF AthenzDomainChanges, workerVars
  <2>10. ASSUME NEW x \in CRs, ExternalEdit(x) \/ Deliver(x)
         PROVE  queue' = queue
    BY <2>10 DEF ExternalEdit, Deliver, workerVars
  <2>11. CASE UNCHANGED vars
    BY <2>1, <2>11 DEF vars, workerVars
  <2>12. QED
    BY <1>4, <2>1, <2>2, <2>3, <2>4, <2>5, <2>6, <2>7, <2>8, <2>9, <2>10, <2>11
       DEF Next, Worker, ProcessorStep, Informers, Timers, Surroundings,
           ProcessorGet, ProcessorCall, ProcessorCallFails, ProcessorBackoffOver,
           CallbackDone, CallbackRetries, CallbackGivesUp, CallbackConflictOverBudget, CallbackConflict
<1>5. QED BY <1>2, <1>3, <1>4

LEMMA OwedStep ==
  ASSUME TypeOK, CacheTrailsServer, ListOnlyWhenPushing, StaleSyncIsFollowed, BudgetOwed,
         [Next]_vars
  PROVE  BudgetOwed'
<1> SUFFICES ASSUME NEW d \in Domains, ad'[d] # NoDomain, queue'.failures[d] # 0
             PROVE  SyncAhead(d)' \/ \E r \in ResourcesOf(d) : Pending(r)'
  BY DEF BudgetOwed, NumRequeues, ResourcesOf
<1>t. /\ notes \in [Domains -> Nat]
      /\ \A r \in ResourcesOf(d) : r \in CRs /\ DomainOf[r] = d
  BY DEF TypeOK, ResourcesOf
<1>1. CASE ad'[d] # ad[d]
  BY <1>1, DomainChangeIsNoted DEF SyncAhead
<1>2. CASE queue.failures[d] = 0
  BY <1>2, CountedStep
<1>3. CASE ad'[d] = ad[d] /\ queue.failures[d] # 0
  <2>1. SyncAhead(d) \/ \E r \in ResourcesOf(d) : Pending(r)
    BY <1>3 DEF BudgetOwed, NumRequeues
  <2>2. CASE Decides(d)
    <3>1. changes' # {}
      <4> SUFFICES ASSUME changes' = {}
                   PROVE  FALSE
        OBVIOUS
      <4>1. queue'.failures = [queue.failures EXCEPT ![d] = 0]
        BY <2>2, QueueKeeps DEF Decides, ListBindings, QueueAfterList
      <4>2. QED BY <4>1 DEF TypeOK, WorkQueueType
    <3>2. CASE notes[d] > 0 \/ d \in queue.dirty
      BY <2>2, <3>2, DecisionTypes DEF SyncAhead, Decides
    <3>3. CASE \E r \in ResourcesOf(d) : watch[r] # <<>>
      BY <2>2, <3>3, DecisionTypes DEF Pending, InStore, Decides, storeVars
    <3>4. CASE /\ ~(notes[d] > 0 \/ d \in queue.dirty)
               /\ \A r \in ResourcesOf(d) : watch[r] = <<>>
      <4>1. PICK i \in changes' : TRUE
        BY <3>1
      <4>2. i.cr \in ResourcesOf(d) /\ Answer(i, have'[i.cr]) = "ok"
        BY <2>2, DecisionTypes, ChangesAreAccepted DEF Decides
      <4>3. have'[i.cr] = server[i.cr]
        BY <1>t, <2>2, <3>4, <4>2, FreshSnapshot DEF Decides
      <4>4. Accepted(i, i.cr)'
        BY <2>2, <4>2, <4>3, DecisionTypes DEF Accepted, Decides, storeVars
      <4>5. QED BY <4>2, <4>4 DEF Pending
    <3>5. QED BY <3>2, <3>3, <3>4
  <2>3. CASE ~Decides(d)
    BY <1>t, <2>1, <2>3, PendingStep, AheadStep DEF SyncAhead
  <2>4. QED BY <2>2, <2>3
<1>4. QED BY <1>1, <1>2, <1>3

(***************************************************************************)
(* The theorems.                                                           *)
(***************************************************************************)
LEMMA InitInductive == Init => Inductive
<1> SUFFICES ASSUME Init PROVE Inductive
  OBVIOUS
<1>1. TypeOK
  BY InitType
<1>2. CacheTrailsServer
  BY DEF Init, StoreInit, CacheTrailsServer
<1>3. QueueRemembers /\ ListOnlyWhenPushing /\ StaleSyncIsFollowed
  BY DEF Init, EmptyQueue, QueueRemembers, ListOnlyWhenPushing, StaleSyncIsFollowed, Stale
<1>4. NoLostWork
  <2> SUFFICES ASSUME NEW r \in CRs, Diverged(r)
               PROVE  SyncAhead(DomainOf[r])
    BY DEF NoLostWork
  <2>1. notes[DomainOf[r]] > 0
    BY DomainOfAssumption, InitialNotesType DEF Init, Diverged
  <2>2. QED BY <2>1 DEF SyncAhead
<1>5. QED BY <1>1, <1>2, <1>3, <1>4 DEF Inductive

LEMMA InitOwed == Init => BudgetOwed
BY DEF Init, EmptyQueue, BudgetOwed, NumRequeues

LEMMA InductiveStep == Inductive /\ [Next]_vars => Inductive'
BY TypeStep, CacheStep, QueueStep, ListStep, StaleStep, LostStep DEF Inductive

(***************************************************************************)
(* The state in which every difference is tracked is kept by every step.   *)
(***************************************************************************)
THEOREM InductiveHolds == Spec => []Inductive
<1>1. QED BY InitInductive, InductiveStep, PTL DEF Spec

(***************************************************************************)
(* A sync whose snapshot the caches have left behind is followed by        *)
(* another sync of that domain (controller.go:91-110).                     *)
(***************************************************************************)
THEOREM StaleSyncsAreFollowed == Spec => []StaleSyncIsFollowed
<1>1. Inductive => StaleSyncIsFollowed
  BY DEF Inductive
<1>2. QED BY <1>1, InductiveHolds, PTL

(***************************************************************************)
(* No difference between a resource and its Athenz domain is forgotten.    *)
(***************************************************************************)
THEOREM NothingIsLost == Spec => []NoLostWork
<1>1. Inductive => NoLostWork
  BY DEF Inductive
<1>2. QED BY <1>1, InductiveHolds, PTL

\* At rest nothing is ahead and nothing is in the hands of the processor.
LEMMA AtRest ==
  ASSUME TypeOK, QueueRemembers, ListOnlyWhenPushing, Quiescent
  PROVE  /\ \A d \in Domains : ~SyncAhead(d)
         /\ \A r \in CRs : Pending(r) => r \in gaveUp
<1>1. queue.dirty = {}
  <2>1. queue.processing = {} /\ queue.order = <<>>
    BY DEF QueueRemembers, Quiescent
  <2>2. \A d \in queue.dirty : \E n \in DOMAIN queue.order : queue.order[n] = d
    BY <2>1 DEF QueueRemembers
  <2>3. QED BY <2>1, <2>2
<1>2. \A d \in Domains : ~SyncAhead(d)
  BY <1>1 DEF Quiescent, SyncAhead
<1>3. changes = {} /\ InProcessor = {}
  BY DEF ListOnlyWhenPushing, Quiescent, InProcessor, Range
<1>4. QED BY <1>2, <1>3 DEF Pending, InStore, Quiescent

(***************************************************************************)
(* At rest, every resource is what its Athenz domain says, or its item was *)
(* dropped after its retries.                                              *)
(***************************************************************************)
THEOREM AtRestConverged == Spec => []QuiescentMeansConverged
<1>1. Inductive => QuiescentMeansConverged
  <2> SUFFICES ASSUME Inductive, Quiescent, NEW r \in CRs, Diverged(r)
               PROVE  r \in gaveUp
    BY DEF QuiescentMeansConverged
  <2>1. SyncAhead(DomainOf[r]) \/ Pending(r)
    BY TrackedMeans DEF Inductive, NoLostWork
  <2>2. QED BY <2>1, AtRest, DomainOfAssumption DEF Inductive
<1>2. QED BY <1>1, InductiveHolds, PTL

(***************************************************************************)
(* At rest, the retries of a domain that is there and of which nothing was *)
(* dropped are whole again: the sync that the last write brings about      *)
(* finds nothing to change and forgets the failures                        *)
(* (controller.go:116-118).                                                *)
(***************************************************************************)
THEOREM BudgetComesBack == Spec => []RetryBudgetRestored
<1>1. Init => Inductive /\ BudgetOwed
  BY InitInductive, InitOwed
<1>2. Inductive /\ BudgetOwed /\ [Next]_vars => Inductive' /\ BudgetOwed'
  BY InductiveStep, OwedStep DEF Inductive
<1>3. Inductive /\ BudgetOwed => RetryBudgetRestored
  <2> SUFFICES ASSUME Inductive, BudgetOwed, Quiescent, NEW d \in Domains,
                      ad[d] # NoDomain, gaveUp \cap ResourcesOf(d) = {}
               PROVE  NumRequeues(queue, d) = 0
    BY DEF RetryBudgetRestored
  <2>1. ~SyncAhead(d) /\ \A r \in ResourcesOf(d) : ~Pending(r)
    BY AtRest DEF Inductive, ResourcesOf
  <2>2. QED BY <2>1 DEF BudgetOwed
<1>4. QED BY <1>1, <1>2, <1>3, PTL DEF Spec
==============================================================================

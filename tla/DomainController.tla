-------------------------- MODULE DomainController --------------------------
(***************************************************************************)
(* src/pkg/controller: the main controller, which keeps the ServiceRoles   *)
(* and ServiceRoleBindings of a namespace equal to what the Athenz domain  *)
(* of that namespace says.  It runs with the processor (Processor), the    *)
(* two informers and the API server (ConfigStore), concurrently:           *)
(*                                                                         *)
(*   worker     SyncGet .. SyncDone: takes a domain off the queue, reads   *)
(*              the Athenz domain, then the cached roles, then the cached  *)
(*              bindings, and hands the differences to the processor one   *)
(*              by one                                                     *)
(*   processor  ProcGet, ProcCall, then the callback of this controller    *)
(*   informers  change a cache first and run the event handler later:      *)
(*              notes[d] counts the handler calls for d still to come      *)
(*   resync     adds the cached domains to the queue now and then          *)
(*   the rest   Athenz changes, other people edit or delete the resources, *)
(*              API calls fail, the process crashes and starts again       *)
(*                                                                         *)
(* A worker step of syncPc:                                                *)
(*   "idle" -> "sync" -> "roles" -> "bindings" -> "push" -> "idle"         *)
(* with "retry" between "sync" and "push" when the domain is not there.    *)
(***************************************************************************)
EXTENDS Processor, WorkQueue

CONSTANTS
  Domains,     \* Athenz domains: the keys of the queue
  DomainOf,    \* DomainOf[r]: NamespaceToDomain of the namespace of r
  KindOf,      \* KindOf[r]: "ServiceRole" or "ServiceRoleBinding"
  NoDomain,    \* there is no such Athenz domain
  MaxEdits,    \* bound: Athenz changes, external edits and restarts together
  MaxBacklog   \* bound: no resync while the processor has so many items

ASSUME DomainOfAssumption == DomainOf \in [CRs -> Domains]
ASSUME KindOfAssumption == KindOf \in [CRs -> {"ServiceRole", "ServiceRoleBinding"}]
ASSUME NoDomainAssumption == NoDomain \notin [CRs -> Specs \cup {Absent}]
ASSUME CRsAssumption == IsFiniteSet(CRs)
ASSUME BoundsAssumption == MaxEdits \in Nat /\ MaxBacklog \in Nat

VARIABLES
  ad,        \* ad[d]: what the cached Athenz domain wants each resource to be
  notes,     \* notes[d]: event handler calls for d not yet made
  queue,     \* the work queue of domains
  syncPc,
  syncKey,   \* the domain being synced
  want,      \* desiredCRs
  have,      \* currentCRs, as far as they have been listed
  changes,   \* the items of the change list not yet handed over
  edits      \* how much of MaxEdits has been used

workerVars == <<queue, syncPc, syncKey, want, have, changes>>
vars == <<storeVars, processorVars, ad, notes, workerVars, edits>>

(***************************************************************************)
(* What the resources of a domain can be asked to be.  A resource of       *)
(* another domain is never asked for: NewConfig puts every resource in the *)
(* namespace of the domain.                                                *)
(***************************************************************************)
Contents == [CRs -> Specs \cup {Absent}]

ResourcesOf(d) == {r \in CRs : DomainOf[r] = d}

DomainContents(d) == {f \in Contents : \A r \in CRs \ ResourcesOf(d) : f[r] = Absent}

NothingWanted == [r \in CRs |-> Absent]
NothingListed == [r \in CRs |-> [rev |-> 0, spec |-> Absent]]

TypeOK ==
  /\ StoreTypeOK
  /\ ProcessorTypeOK
  /\ ad \in [Domains -> Contents \cup {NoDomain}]
  /\ notes \in [Domains -> Nat]
  /\ queue \in WorkQueueType(Domains)
  /\ syncPc \in {"idle", "sync", "retry", "roles", "bindings", "push"}
  /\ syncKey \in Domains
  /\ want \in Contents
  /\ have \in [CRs -> Objects]
  /\ changes \subseteq Item
  /\ edits \in Nat

\* An informer that has just synced reports every object it holds.
InitialNotes ==
  [d \in Domains |->
     Cardinality({r \in ResourcesOf(d) : server[r].spec # Absent})
       + (IF ad[d] = NoDomain THEN 0 ELSE 1)]

Init ==
  /\ StoreInit
  /\ ProcessorInit
  /\ ad \in {f \in [Domains -> Contents \cup {NoDomain}] :
               \A d \in Domains : f[d] \in DomainContents(d) \cup {NoDomain}}
  /\ notes = InitialNotes
  /\ queue = EmptyQueue(Domains)
  /\ syncPc = "idle"
  /\ syncKey \in Domains
  /\ want = NothingWanted
  /\ have = NothingListed
  /\ changes = {}
  /\ edits = 0

(***************************************************************************)
(* The surroundings.                                                       *)
(***************************************************************************)
Edited == edits < MaxEdits /\ edits' = edits + 1

\* The Athenz domain is created, changed or deleted and the informer has it.
AthenzDomainChanges(d) ==
  /\ Edited
  /\ \E c \in (DomainContents(d) \cup {NoDomain}) \ {ad[d]} : ad' = [ad EXCEPT ![d] = c]
  /\ notes' = [notes EXCEPT ![d] = @ + 1]
  /\ UNCHANGED <<storeVars, processorVars, workerVars>>

\* Someone else creates, changes or deletes a resource.
ExternalEdit(r) ==
  /\ Edited
  /\ \E s \in (Specs \cup {Absent}) \ {server[r].spec} : ServerWrites(r, s)
  /\ UNCHANGED <<processorVars, ad, notes, workerVars>>

\* A handler that maps the namespace of the resource to another domain.
DeliverMisrouted(r) ==
  /\ CacheReceives(r)
  /\ \E d \in Domains \ {DomainOf[r]} : notes' = [notes EXCEPT ![d] = @ + 1]
  /\ UNCHANGED <<processorVars, ad, workerVars, edits>>

\* No handler for deletions.
DeliverIgnoresDeletes(r) ==
  /\ CacheReceives(r)
  /\ notes' = IF cache'[r].spec = Absent THEN notes ELSE [notes EXCEPT ![DomainOf[r]] = @ + 1]
  /\ UNCHANGED <<processorVars, ad, workerVars, edits>>

\* The config informer updates its store, then calls the handlers.
Deliver(r) ==
  /\ CacheReceives(r)
  /\ notes' = [notes EXCEPT ![DomainOf[r]] = @ + 1]
  /\ UNCHANGED <<processorVars, ad, workerVars, edits>>

\* processEvent and processConfigEvent
Notify(d) ==
  /\ notes[d] > 0
  /\ notes' = [notes EXCEPT ![d] = @ - 1]
  /\ queue' = QueueAdd(queue, d)
  /\ UNCHANGED <<storeVars, processorVars, ad, syncPc, syncKey, want, have, changes, edits>>

\* resync, for one of the domains it lists
Resync(d) ==
  /\ ad[d] # NoDomain
  /\ Len(procQueue) + Len(procDelayed) < MaxBacklog
  /\ queue' = QueueAdd(queue, d)
  /\ UNCHANGED <<storeVars, processorVars, ad, notes, syncPc, syncKey, want, have, changes, edits>>

QueueBackoffOver(d) ==
  /\ d \in queue.delayed
  /\ queue' = BackoffOver(queue, d)
  /\ UNCHANGED <<storeVars, processorVars, ad, notes, syncPc, syncKey, want, have, changes, edits>>

(***************************************************************************)
(* The worker: processNextItem and sync.                                   *)
(***************************************************************************)
SyncGet ==
  /\ syncPc = "idle"
  /\ queue.order # <<>>
  /\ queue' = QueueGet(queue)
  /\ syncKey' = Head(queue.order)
  /\ syncPc' = "sync"
  /\ UNCHANGED <<storeVars, processorVars, ad, notes, want, have, changes, edits>>

\* Converting what GetByKey returned without a look at exists.
SyncReadAnyDomain ==
  /\ syncPc = "sync"
  /\ want' = ad[syncKey]
  /\ syncPc' = "roles"
  /\ UNCHANGED <<storeVars, processorVars, ad, notes, queue, syncKey, have, changes, edits>>

\* The domain exists: convert it to the desired resources.
SyncReadDomain ==
  /\ syncPc = "sync"
  /\ ad[syncKey] # NoDomain
  /\ want' = ad[syncKey]
  /\ syncPc' = "roles"
  /\ UNCHANGED <<storeVars, processorVars, ad, notes, queue, syncKey, have, changes, edits>>

\* The check of the retry budget, and the same with one retry too many.
BudgetLeftInclusive(d) == NumRequeues(queue, d) <= QueueNumRetries

BudgetLeft(d) == NumRequeues(queue, d) < QueueNumRetries

\* Taking a domain that does not exist for an empty one.
SyncMissingIsEmpty ==
  /\ syncPc = "sync"
  /\ ad[syncKey] = NoDomain
  /\ want' = NothingWanted
  /\ syncPc' = "roles"
  /\ UNCHANGED <<storeVars, processorVars, ad, notes, queue, syncKey, have, changes, edits>>

\* The domain does not exist: an error, retried while the budget lasts.
SyncMissing ==
  /\ syncPc = "sync"
  /\ ad[syncKey] = NoDomain
  /\ syncPc' = IF BudgetLeft(syncKey) THEN "retry" ELSE "push"
  /\ UNCHANGED <<storeVars, processorVars, ad, notes, queue, syncKey, want, have, changes, edits>>

SyncRequeue ==
  /\ syncPc = "retry"
  /\ queue' = AddRateLimited(queue, syncKey)
  /\ syncPc' = "push"
  /\ UNCHANGED <<storeVars, processorVars, ad, notes, syncKey, want, have, changes, edits>>

\* GetCurrentIstioRbac lists the resources of one kind in the namespace.
Listed(kind) ==
  [r \in CRs |-> IF DomainOf[r] = syncKey /\ KindOf[r] = kind THEN cache[r] ELSE have[r]]

ListRoles ==
  /\ syncPc = "roles"
  /\ have' = Listed("ServiceRole")
  /\ syncPc' = "bindings"
  /\ UNCHANGED <<storeVars, processorVars, ad, notes, queue, syncKey, want, changes, edits>>

\* An empty change list forgets the failures of the key; without that, the
\* budget would shrink for ever.
KeepFailures(list) == queue

QueueAfterList(list) == IF list = {} THEN Forget(queue, syncKey) ELSE queue

\* A fresh decision replaces the ones given up: gaveUp forgets the domain.
ListBindings ==
  /\ syncPc = "bindings"
  /\ have' = Listed("ServiceRoleBinding")
  /\ changes' = ComputeChangeList(have', want, ResourcesOf(syncKey))
  /\ queue' = QueueAfterList(changes')
  /\ gaveUp' = gaveUp \ ResourcesOf(syncKey)
  /\ syncPc' = "push"
  /\ UNCHANGED <<storeVars, procQueue, procDelayed, procPc, procItem, procResult, faults,
                 ad, notes, syncKey, want, edits>>

PushItem ==
  /\ syncPc = "push"
  /\ \E i \in changes :
       /\ IsNextChange(i, changes)
       /\ ProcessConfigChange(i)
       /\ changes' = changes \ {i}
  /\ UNCHANGED <<storeVars, procDelayed, procPc, procItem, procResult, gaveUp, faults,
                 ad, notes, queue, syncPc, syncKey, want, have, edits>>

\* A worker that never tells the queue it is done.
SyncDoneWithoutDone ==
  /\ syncPc = "push"
  /\ changes = {}
  /\ syncPc' = "idle"
  /\ want' = NothingWanted
  /\ have' = NothingListed
  /\ UNCHANGED <<storeVars, processorVars, ad, notes, queue, syncKey, changes, edits>>

SyncDone ==
  /\ syncPc = "push"
  /\ changes = {}
  /\ queue' = QueueDone(queue, syncKey)
  /\ syncPc' = "idle"
  /\ want' = NothingWanted
  /\ have' = NothingListed
  /\ UNCHANGED <<storeVars, processorVars, ad, notes, syncKey, changes, edits>>

(***************************************************************************)
(* The processor, with the callback getCallbackHandler gives every item.   *)
(***************************************************************************)
controllerVars == <<ad, notes, workerVars, edits>>

ProcessorGet == ProcGet /\ UNCHANGED controllerVars

ProcessorCall == ProcCall /\ UNCHANGED controllerVars

ProcessorCallFails == ProcCallFails /\ UNCHANGED controllerVars

ProcessorBackoffOver ==
  /\ \E n \in DOMAIN procDelayed : ProcBackoffOver(n)
  /\ UNCHANGED controllerVars

\* A callback that takes every error but a conflict for final.
CallbackSwallowsErrors ==
  /\ procPc = "callback"
  /\ procResult # "conflict"
  /\ ProcForget
  /\ UNCHANGED controllerVars

\* No error, or NotFound or AlreadyExists: nothing to retry.
CallbackDone ==
  /\ procPc = "callback"
  /\ procResult \in {"ok", "alreadyExists", "notFound"}
  /\ ProcForget
  /\ UNCHANGED controllerVars

\* Not a conflict either: the error goes back to the processor.
CallbackRetries ==
  /\ procPc = "callback"
  /\ procResult = "error"
  /\ ProcRetry
  /\ UNCHANGED controllerVars

CallbackGivesUp ==
  /\ procPc = "callback"
  /\ procResult = "error"
  /\ ProcDrop
  /\ UNCHANGED controllerVars

\* A conflict: the domain has to be synced again, while its budget lasts.
ItemKey == DomainOf[procItem.cr]

CallbackConflictOverBudget ==
  /\ procPc = "callback"
  /\ procResult = "conflict"
  /\ ~BudgetLeft(ItemKey)
  /\ ProcForget
  /\ UNCHANGED controllerVars

CallbackConflict ==
  /\ procPc = "callback"
  /\ procResult = "conflict"
  /\ BudgetLeft(ItemKey)
  /\ procPc' = "requeue"
  /\ UNCHANGED <<storeVars, procQueue, procDelayed, procItem, procResult, gaveUp, faults>>
  /\ UNCHANGED controllerVars

CallbackRequeues ==
  /\ procPc = "requeue"
  /\ queue' = AddRateLimited(queue, ItemKey)
  /\ ProcForget
  /\ UNCHANGED <<ad, notes, syncPc, syncKey, want, have, changes, edits>>

(***************************************************************************)
(* The process dies and a new one starts: both queues, both workers and    *)
(* all that is not on the server are gone.                                 *)
(***************************************************************************)
Restart ==
  /\ Edited
  /\ CacheRelists
  /\ procQueue' = <<>>
  /\ procDelayed' = <<>>
  /\ ProcRelease
  /\ gaveUp' = {}
  /\ queue' = EmptyQueue(Domains)
  /\ notes' = InitialNotes
  /\ syncPc' = "idle"
  /\ want' = NothingWanted
  /\ have' = NothingListed
  /\ changes' = {}
  /\ UNCHANGED <<faults, ad, syncKey>>

Worker ==
  \/ SyncGet \/ SyncReadDomain \/ SyncMissing \/ SyncRequeue
  \/ ListRoles \/ ListBindings \/ PushItem \/ SyncDone

ProcessorStep ==
  \/ ProcessorGet \/ ProcessorCall
  \/ CallbackDone \/ CallbackRetries \/ CallbackGivesUp
  \/ CallbackConflictOverBudget \/ CallbackConflict \/ CallbackRequeues

Surroundings ==
  \/ \E d \in Domains : AthenzDomainChanges(d)
  \/ \E r \in CRs : ExternalEdit(r)
  \/ ProcessorCallFails
  \/ Restart

Timers ==
  \/ \E d \in Domains : Resync(d) \/ QueueBackoffOver(d)
  \/ ProcessorBackoffOver

Informers ==
  \/ \E r \in CRs : Deliver(r)
  \/ \E d \in Domains : Notify(d)

Next == Worker \/ ProcessorStep \/ Informers \/ Timers \/ Surroundings

Spec == Init /\ [][Next]_vars

(***************************************************************************)
(* Every goroutine that can take a step takes one: the two workers, the    *)
(* informers, the back-off timers and the resync ticker.  Nothing makes    *)
(* Athenz, other people, failures or crashes happen.                       *)
(***************************************************************************)
Fairness ==
  /\ WF_vars(Worker)
  /\ WF_vars(ProcessorStep)
  /\ \A r \in CRs : WF_vars(Deliver(r))
  /\ \A d \in Domains :
       WF_vars(Notify(d)) /\ WF_vars(Resync(d)) /\ WF_vars(QueueBackoffOver(d))
  /\ WF_vars(ProcessorBackoffOver)

FairSpec == Spec /\ Fairness

(***************************************************************************)
(* Properties.                                                             *)
(***************************************************************************)

\* Item i would still do something to r: the API server would accept it.
Effective(i, r) == i.cr = r /\ Answer(i, server[r]) = "ok"

\* The items decided on and not yet done with: not handed over, queued,
\* waiting out a back-off, or in hand with the call to come or to be retried.
Underway ==
  changes \cup Range(procQueue) \cup Range(procDelayed) \cup
    {i \in {procItem} : procPc = "call" \/ (procPc = "callback" /\ procResult = "error")}

\* A decision about r is on its way to the API server.
ItemUnderway(r) == \E i \in Underway : Effective(i, r)

\* A sync of d will start, or has started and not yet decided.
SyncAhead(d) ==
  \/ notes[d] > 0
  \/ d \in queue.dirty \cup queue.delayed
  \/ syncKey = d /\ syncPc \in {"sync", "roles", "bindings"}

Diverged(r) ==
  /\ ad[DomainOf[r]] # NoDomain
  /\ server[r].spec # ad[DomainOf[r]][r]

\* The controllers have nothing left to do.
Quiescent ==
  /\ \A r \in CRs : watch[r] = <<>>
  /\ \A d \in Domains : notes[d] = 0
  /\ queue.order = <<>> /\ queue.delayed = {} /\ syncPc = "idle"
  /\ procQueue = <<>> /\ procDelayed = <<>> /\ procPc = "idle"

\* The snapshot of the sync in progress is no longer what the caches hold.
Stale ==
  \/ syncPc \in {"roles", "bindings"} /\ want # ad[syncKey]
  \/ /\ syncPc = "bindings"
     /\ \E r \in ResourcesOf(syncKey) : KindOf[r] = "ServiceRole" /\ have[r] # cache[r]

(***************************************************************************)
(* A sync decides from a snapshot: the domain it read, and the roles and   *)
(* bindings it then listed, in three reads of caches that change under it. *)
(* When the snapshot is no longer what the caches hold, the domain will be *)
(* synced again: the handler call or the dirty key is already there        *)
(* (controller.go:91-110, 193-206).                                        *)
(***************************************************************************)
StaleSyncIsFollowed ==
  Stale => notes[syncKey] > 0 \/ syncKey \in queue.dirty

(***************************************************************************)
(* Whatever the order in which Athenz changes, other people's edits, cache *)
(* updates, event handlers, the two workers, failures and restarts happen, *)
(* a resource that differs from what its domain says is never forgotten:   *)
(* a change of it is on its way to the cache, a sync of its domain is      *)
(* ahead, an item that will change it is underway, or its last item was    *)
(* dropped after its retries (processor/controller.go:90) and waits for    *)
(* the resync.                                                             *)
(***************************************************************************)
NoLostWork ==
  \A r \in CRs :
    Diverged(r) => \/ watch[r] # <<>>
                   \/ SyncAhead(DomainOf[r])
                   \/ ItemUnderway(r)
                   \/ r \in gaveUp

(***************************************************************************)
(* Why NoLostWork holds: the caches trail the server and miss nothing, the *)
(* queue hands out one key at a time and remembers every key it was asked  *)
(* for, there is a change list only between the listing and the end of the *)
(* sync, and a stale snapshot is followed by another sync.  Together these *)
(* are inductive.                                                          *)
(***************************************************************************)
CacheTrailsServer ==
  \A r \in CRs :
    server[r] = IF watch[r] = <<>> THEN cache[r] ELSE watch[r][Len(watch[r])]

QueueRemembers ==
  /\ queue.processing = IF syncPc = "idle" THEN {} ELSE {syncKey}
  /\ \A d \in queue.dirty \ queue.processing :
       \E n \in DOMAIN queue.order : queue.order[n] = d

ListOnlyWhenPushing == syncPc # "push" => changes = {}

Inductive ==
  /\ TypeOK
  /\ CacheTrailsServer
  /\ QueueRemembers
  /\ ListOnlyWhenPushing
  /\ StaleSyncIsFollowed
  /\ NoLostWork

(***************************************************************************)
(* When the controllers have nothing left to do, the resources are what    *)
(* their domain says, those excepted that were given up.                   *)
(***************************************************************************)
QuiescentMeansConverged ==
  Quiescent => \A r \in CRs : Diverged(r) => r \in gaveUp

(***************************************************************************)
(* The retry budget of a domain (c.queue.NumRequeues, shared by the worker *)
(* and by the processor's callbacks) is whole again when the controllers   *)
(* have come to rest with the domain in place and nothing given up:        *)
(* the events of the last writes bring the sync with the empty change list *)
(* that forgets the failures (controller.go:116-118).                      *)
(***************************************************************************)
RetryBudgetRestored ==
  Quiescent =>
    \A d \in Domains : ad[d] # NoDomain /\ gaveUp \cap ResourcesOf(d) = {}
                         => NumRequeues(queue, d) = 0

(***************************************************************************)
(* Worker and callback both check the budget of a key before they spend    *)
(* it, in two goroutines: it can be exceeded, by one and no more.          *)
(***************************************************************************)
RetryBudgetBound ==
  \A d \in Domains : NumRequeues(queue, d) <= QueueNumRetries + 1

\* Its inductive form counts the retries already granted and not yet taken.
GrantedToWorker(d) == IF syncPc = "retry" /\ syncKey = d THEN 1 ELSE 0

GrantedToCallback(d) == IF procPc = "requeue" /\ ItemKey = d THEN 1 ELSE 0

RetriesGranted ==
  \A d \in Domains :
    NumRequeues(queue, d) + GrantedToWorker(d) + GrantedToCallback(d) <= QueueNumRetries + 1

(***************************************************************************)
(* The controller implements Mirror: through stale snapshots, reordered    *)
(* and repeated items, lost calls and restarts, every write is of content  *)
(* that the domain of the resource asked for when a sync of this process   *)
(* found it, and a domain that is not there has nothing written for it     *)
(* beyond what was decided before (controller.go:91-110).                  *)
(***************************************************************************)
InHand == {i \in {procItem} : procPc \in {"call", "callback"}}

Carried == changes \cup Range(procQueue) \cup Range(procDelayed) \cup InHand

Planned == {<<r, want[r]>> : r \in {x \in ResourcesOf(syncKey) : syncPc \in {"roles", "bindings"}}}

Intended == Planned \cup {<<i.cr, i.spec>> : i \in Carried}

Mirrored ==
  INSTANCE Mirror WITH wanted <- ad, actual <- [r \in CRs |-> server[r].spec],
                       intended <- Intended, others <- edits

ImplementsMirror == Mirrored!Spec

(***************************************************************************)
(* Once Athenz, other people and failures have come to rest, every         *)
(* resource becomes what its domain says and stays so.                     *)
(***************************************************************************)
Converges == <>[](\A r \in CRs : ~Diverged(r))
=============================================================================

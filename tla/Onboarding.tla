----------------------------- MODULE Onboarding -----------------------------
(***************************************************************************)
(* src/pkg/istio/onboarding: the controller that keeps the one cluster-    *)
(* wide ClusterRbacConfig equal to the list of onboarded services, those   *)
(* with the annotation authz.istio.io/enabled: "true".  It runs with the   *)
(* processor (Processor), the informers and the API server (ConfigStore).  *)
(*                                                                         *)
(* The only key of its queue is Crc.  A worker step of syncPc:             *)
(*   "idle" -> "services" -> "config" -> "done" -> "idle"                  *)
(* in which the service cache and the config cache are read one after the  *)
(* other while both change.  A ClusterRbacConfig is its inclusion list, or *)
(* Malformed when it has none or another mode than ON_WITH_INCLUSION.      *)
(*                                                                         *)
(* A service is listed as <name>.<namespace>.<dns-suffix>.  The suffix is  *)
(* a flag, so a process that starts with another one has every onboarded   *)
(* service under a new name.                                               *)
(***************************************************************************)
EXTENDS Processor, WorkQueue, ServiceLists

CONSTANTS
  Crc,         \* the ClusterRbacConfig, and the key of the queue
  KubeServices,\* services that may be onboarded
  DnsSuffixes, \* the values the process is given as --dns-suffix
  Malformed,   \* a ClusterRbacConfig the controller does not support
  EditedTo,    \* what other people make of the ClusterRbacConfig
  MaxEdits,    \* bound: service changes, external edits and restarts together
  MaxBacklog   \* bound: no resync while the processor has so many items

\* The names of services in lists.
Services == KubeServices \X DnsSuffixes
ServicesUnder(suffix) == KubeServices \X {suffix}

Listings == UNION {SetToSeqs(S) : S \in SUBSET Services}

ASSUME CrcAssumption == CRs = {Crc}
ASSUME MalformedAssumption == Malformed \in Specs
ASSUME EditedToAssumption == EditedTo \subseteq Specs \cup {Absent}
ASSUME BoundsAssumption == MaxEdits \in Nat /\ MaxBacklog \in Nat

ASSUME ServicesAssumption == IsFiniteSet(Services) /\ DnsSuffixes # {}

\* The well-formed contents are lists, and include every list the controller
\* writes.
ASSUME SpecsAssumption ==
  /\ Specs \ {Malformed} \subseteq Seq(Services)
  /\ Listings \subseteq Specs \ {Malformed}
  /\ \A l \in Listings, c \in Specs \ {Malformed} :
       Reconciled(l, c) \in Specs \ {Malformed}

VARIABLES
  dnsSuffix,  \* what this process was given
  onboarded,  \* the names of the annotated services in the cache of the informer
  notes,      \* event handler calls not yet made
  queue,      \* the work queue
  syncPc,
  listing,    \* serviceList
  edits       \* how much of MaxEdits has been used

workerVars == <<queue, syncPc, listing>>
surroundingVars == <<dnsSuffix, onboarded, notes, edits>>
vars == <<storeVars, processorVars, surroundingVars, workerVars>>

TypeOK ==
  /\ StoreTypeOK
  /\ ProcessorTypeOK
  /\ dnsSuffix \in DnsSuffixes
  /\ onboarded \subseteq ServicesUnder(dnsSuffix)
  /\ notes \in Nat
  /\ queue \in WorkQueueType({Crc})
  /\ syncPc \in {"idle", "services", "config", "done"}
  /\ listing \in Listings
  /\ edits \in Nat

\* An informer that has just synced reports every object it holds.
InitialNotes ==
  Cardinality(onboarded) + (IF server[Crc].spec = Absent THEN 0 ELSE 1)

Init ==
  /\ StoreInit
  /\ ProcessorInit
  /\ dnsSuffix \in DnsSuffixes
  /\ onboarded \in SUBSET ServicesUnder(dnsSuffix)
  /\ notes = InitialNotes
  /\ queue = EmptyQueue({Crc})
  /\ syncPc = "idle"
  /\ listing = <<>>
  /\ edits = 0

(***************************************************************************)
(* The surroundings.                                                       *)
(***************************************************************************)
Edited == edits < MaxEdits /\ edits' = edits + 1

\* A service is created, deleted, annotated or no longer annotated.
ServiceChanges(s) ==
  /\ Edited
  /\ s \in ServicesUnder(dnsSuffix)
  /\ onboarded' = IF s \in onboarded THEN onboarded \ {s} ELSE onboarded \cup {s}
  /\ notes' = notes + 1
  /\ UNCHANGED <<storeVars, processorVars, dnsSuffix, workerVars>>

ExternalEdit ==
  /\ Edited
  /\ \E c \in EditedTo \ {server[Crc].spec} : ServerWrites(Crc, c)
  /\ UNCHANGED <<processorVars, dnsSuffix, onboarded, notes, workerVars>>

\* The config informer updates its store, then calls EventHandler.
Deliver ==
  /\ CacheReceives(Crc)
  /\ notes' = notes + 1
  /\ UNCHANGED <<processorVars, dnsSuffix, onboarded, workerVars, edits>>

\* A service handler that asks for a sync only while a service is onboarded.
NotifyIfOnboarded ==
  /\ notes > 0
  /\ notes' = notes - 1
  /\ queue' = IF onboarded = {} THEN queue ELSE QueueAdd(queue, Crc)
  /\ UNCHANGED <<storeVars, processorVars, dnsSuffix, onboarded, syncPc, listing, edits>>

\* The handlers of the service informer, and EventHandler.
Notify ==
  /\ notes > 0
  /\ notes' = notes - 1
  /\ queue' = QueueAdd(queue, Crc)
  /\ UNCHANGED <<storeVars, processorVars, dnsSuffix, onboarded, syncPc, listing, edits>>

Resync ==
  /\ Len(procQueue) + Len(procDelayed) < MaxBacklog
  /\ queue' = QueueAdd(queue, Crc)
  /\ UNCHANGED <<storeVars, processorVars, surroundingVars, syncPc, listing>>

QueueBackoffOver ==
  /\ Crc \in queue.delayed
  /\ queue' = BackoffOver(queue, Crc)
  /\ UNCHANGED <<storeVars, processorVars, surroundingVars, syncPc, listing>>

(***************************************************************************)
(* The worker: processNextItem and sync.  The only error of sync, a failed *)
(* cast of the config, does not occur: the store holds RbacConfigs.        *)
(***************************************************************************)
SyncGet ==
  /\ syncPc = "idle"
  /\ queue.order # <<>>
  /\ queue' = QueueGet(queue)
  /\ syncPc' = "services"
  /\ UNCHANGED <<storeVars, processorVars, surroundingVars, listing>>

\* A listing that meets every service twice.
ListServicesTwice ==
  /\ syncPc = "services"
  /\ \E l \in SetToSeqs(onboarded) : listing' = l \o l
  /\ syncPc' = "config"
  /\ UNCHANGED <<storeVars, processorVars, surroundingVars, queue>>

\* getOnboardedServiceList: the informer lists its cache in any order.
ListServices ==
  /\ syncPc = "services"
  /\ listing' \in SetToSeqs(onboarded)
  /\ syncPc' = "config"
  /\ UNCHANGED <<storeVars, processorVars, surroundingVars, queue>>

\* What sync makes of the listing and the config it then gets: the items for
\* the processor, none or one.
Decision(config) ==
  CASE config.spec = Absent /\ listing = <<>> -> <<>>
    [] config.spec = Absent /\ listing # <<>> -> <<NewItem("add", Crc, listing, 0)>>
    [] config.spec # Absent /\ listing = <<>> -> <<NewItem("delete", Crc, Absent, 0)>>
    [] config.spec = Malformed /\ listing # <<>> ->
         <<NewItem("update", Crc, listing, config.rev)>>
    [] config.spec \in Specs \ {Malformed} /\ listing # <<>> ->
         IF NeedsUpdate(listing, config.spec)
         THEN <<NewItem("update", Crc, Reconciled(listing, config.spec), config.rev)>>
         ELSE <<>>

\* The same with a retry budget that is never given back.
NeverForget(items) == queue

QueueAfterDecision(items) == IF items = <<>> THEN Forget(queue, Crc) ELSE queue

\* sync from configStoreCache.Get on.
Decide ==
  /\ syncPc = "config"
  /\ procQueue' = procQueue \o Decision(cache[Crc])
  /\ queue' = QueueAfterDecision(Decision(cache[Crc]))
  /\ gaveUp' = {}
  /\ syncPc' = "done"
  /\ UNCHANGED <<storeVars, procDelayed, procPc, procItem, procResult, faults,
                 surroundingVars, listing>>

\* A worker that never tells the queue it is done.
SyncDoneWithoutDone ==
  /\ syncPc = "done"
  /\ listing' = <<>>
  /\ syncPc' = "idle"
  /\ UNCHANGED <<storeVars, processorVars, surroundingVars, queue>>

SyncDone ==
  /\ syncPc = "done"
  /\ queue' = QueueDone(queue, Crc)
  /\ listing' = <<>>
  /\ syncPc' = "idle"
  /\ UNCHANGED <<storeVars, processorVars, surroundingVars>>

(***************************************************************************)
(* The processor, with callbackHandler.                                    *)
(***************************************************************************)
controllerVars == <<surroundingVars, workerVars>>

ProcessorGet == ProcGet /\ UNCHANGED controllerVars

ProcessorCall == ProcCall /\ UNCHANGED controllerVars

ProcessorCallFails == ProcCallFails /\ UNCHANGED controllerVars

ProcessorBackoffOver ==
  /\ \E n \in DOMAIN procDelayed : ProcBackoffOver(n)
  /\ UNCHANGED controllerVars

CallbackDone ==
  /\ procPc = "callback"
  /\ procResult \in {"ok", "alreadyExists", "notFound"}
  /\ ProcForget
  /\ UNCHANGED controllerVars

\* A callback that takes an unknown error for final.
CallbackSwallowsErrors ==
  /\ procPc = "callback"
  /\ procResult = "error"
  /\ ProcForget
  /\ UNCHANGED controllerVars

CallbackRetries ==
  /\ procPc = "callback"
  /\ procResult = "error"
  /\ ProcRetry \/ ProcDrop
  /\ UNCHANGED controllerVars

\* A conflict spends one retry of the key, or finds none left; and the same
\* with one retry too many.
BudgetLeftInclusive == NumRequeues(queue, Crc) <= QueueNumRetries

BudgetLeft == NumRequeues(queue, Crc) < QueueNumRetries

CallbackConflictOverBudget ==
  /\ procPc = "callback"
  /\ procResult = "conflict"
  /\ ~BudgetLeft
  /\ ProcForget
  /\ UNCHANGED controllerVars

CallbackConflict ==
  /\ procPc = "callback"
  /\ procResult = "conflict"
  /\ BudgetLeft
  /\ procPc' = "requeue"
  /\ UNCHANGED <<storeVars, procQueue, procDelayed, procItem, procResult, gaveUp, faults>>
  /\ UNCHANGED controllerVars

CallbackRequeues ==
  /\ procPc = "requeue"
  /\ queue' = AddRateLimited(queue, Crc)
  /\ ProcForget
  /\ UNCHANGED <<surroundingVars, syncPc, listing>>

\* The process dies and a new one starts, with the same --dns-suffix or
\* another one, under which it onboards the same services.
Restart ==
  /\ Edited
  /\ CacheRelists
  /\ dnsSuffix' \in DnsSuffixes
  /\ onboarded' = {<<s[1], dnsSuffix'>> : s \in onboarded}
  /\ procQueue' = <<>>
  /\ procDelayed' = <<>>
  /\ ProcRelease
  /\ gaveUp' = {}
  /\ queue' = EmptyQueue({Crc})
  /\ notes' = InitialNotes'
  /\ syncPc' = "idle"
  /\ listing' = <<>>
  /\ UNCHANGED faults

Worker == SyncGet \/ ListServices \/ Decide \/ SyncDone

ProcessorStep ==
  \/ ProcessorGet \/ ProcessorCall
  \/ CallbackDone \/ CallbackRetries
  \/ CallbackConflictOverBudget \/ CallbackConflict \/ CallbackRequeues

Surroundings ==
  \/ \E s \in Services : ServiceChanges(s)
  \/ ExternalEdit
  \/ ProcessorCallFails
  \/ Restart

Next ==
  \/ Worker \/ ProcessorStep
  \/ Deliver \/ Notify
  \/ Resync \/ QueueBackoffOver \/ ProcessorBackoffOver
  \/ Surroundings

Spec == Init /\ [][Next]_vars

\* As in DomainController: the goroutines run, the rest need not happen.
Fairness ==
  /\ WF_vars(Worker) /\ WF_vars(ProcessorStep)
  /\ WF_vars(Deliver) /\ WF_vars(Notify)
  /\ WF_vars(Resync) /\ WF_vars(QueueBackoffOver) /\ WF_vars(ProcessorBackoffOver)

FairSpec == Spec /\ Fairness

(***************************************************************************)
(* Properties.                                                             *)
(***************************************************************************)

\* Content c turns authorization on for the onboarded services and no other.
ListsOnboarded(c) ==
  IF onboarded = {} THEN c = Absent
  ELSE c \notin {Absent, Malformed} /\ Range(c) = onboarded

\* The API server would still accept item i.
Effective(i) == Answer(i, server[Crc]) = "ok"

Underway ==
  Range(procQueue) \cup Range(procDelayed) \cup
    {i \in {procItem} : procPc = "call" \/ (procPc = "callback" /\ procResult = "error")}

SyncAhead ==
  \/ notes > 0
  \/ Crc \in queue.dirty \cup queue.delayed
  \/ syncPc \in {"services", "config"}

Quiescent ==
  /\ watch[Crc] = <<>> /\ notes = 0
  /\ queue.order = <<>> /\ queue.delayed = {} /\ syncPc = "idle"
  /\ procQueue = <<>> /\ procDelayed = <<>> /\ procPc = "idle"

(***************************************************************************)
(* The two reads of a sync are not atomic.  A listing that has been        *)
(* overtaken by the service informer is followed by another sync           *)
(* (onboarding/controller.go:55-65, 216-217).                              *)
(***************************************************************************)
StaleListingIsFollowed ==
  syncPc \in {"config", "done"} /\ Range(listing) # onboarded
    => notes > 0 \/ Crc \in queue.dirty

(***************************************************************************)
(* A ClusterRbacConfig that does not list the onboarded services is never  *)
(* forgotten: a change of it is on its way to the cache, a sync is ahead,  *)
(* an item the API server would accept is underway, or the last item was   *)
(* dropped after its retries and waits for the resync.                     *)
(***************************************************************************)
NoLostWork ==
  ~ListsOnboarded(server[Crc].spec)
    => watch[Crc] # <<>> \/ SyncAhead \/ (\E i \in Underway : Effective(i)) \/ gaveUp # {}

(***************************************************************************)
(* At rest the ClusterRbacConfig lists the onboarded services, unless its  *)
(* last item was given up, and the retry budget is whole again.            *)
(***************************************************************************)
RestIsConverged ==
  Quiescent /\ gaveUp = {}
    => ListsOnboarded(server[Crc].spec) /\ NumRequeues(queue, Crc) = 0

(***************************************************************************)
(* Only the callbacks spend the budget of this queue (sync does not fail), *)
(* and they run in one goroutine: other than the domain controller's, this *)
(* budget is never exceeded (onboarding/controller.go:202-209).            *)
(***************************************************************************)
RetryBudgetKept == NumRequeues(queue, Crc) <= QueueNumRetries

(***************************************************************************)
(* The update a sync decides on lists every onboarded service once if it   *)
(* was not listed before, keeps the entries it had as often as it had      *)
(* them, though other people may have listed one twice, and leaves nothing *)
(* else behind (onboarding/controller.go:266-281, 108-137, 344-354).       *)
(***************************************************************************)
SyncIsExact ==
  syncPc = "config" /\ listing # <<>> /\ cache[Crc].spec \notin {Absent, Malformed} =>
    \A s \in Services :
      LET before == Occurrences(cache[Crc].spec, s)
      IN  Occurrences(Reconciled(listing, cache[Crc].spec), s) =
            IF s \notin Range(listing) THEN 0 ELSE IF before = 0 THEN 1 ELSE before

(***************************************************************************)
(* An update replaces the very version it was computed from: a write of    *)
(* the controller never makes an entry occur more often than it did in the *)
(* content it replaces, once apart, however stale the caches were and      *)
(* however often the item was retried.                                     *)
(***************************************************************************)
EntriesOf(c, s) == IF c \in {Absent, Malformed} THEN 0 ELSE Occurrences(c, s)

\* Content c has no entry more often than content b, once apart.
AddsNoDuplicate(b, c) ==
  \A s \in Services :
    EntriesOf(c, s) <= IF EntriesOf(b, s) = 0 THEN 1 ELSE EntriesOf(b, s)

NeverDuplicates ==
  [][ProcessorStep \/ ProcessorCallFails
       => AddsNoDuplicate(server[Crc].spec, server'[Crc].spec)]_vars

(***************************************************************************)
(* What these properties rest on: the cache and the watch replay the       *)
(* versions of the server in order, the queue does not lose its key, a     *)
(* retry that was granted or counted is accounted for, and an item that    *)
(* would still be accepted adds no entry a second time.                    *)
(***************************************************************************)
WatchIsInOrder ==
  /\ server[Crc] = IF watch[Crc] = <<>> THEN cache[Crc] ELSE watch[Crc][Len(watch[Crc])]
  /\ \A n \in DOMAIN watch[Crc] : watch[Crc][n].rev = cache[Crc].rev + n

QueueRemembers ==
  /\ queue.processing = IF syncPc = "idle" THEN {} ELSE {Crc}
  /\ queue.dirty \ queue.processing # {} => queue.order # <<>>

RetriesGranted ==
  NumRequeues(queue, Crc) + (IF procPc = "requeue" THEN 1 ELSE 0) <= QueueNumRetries

NothingForgotten ==
  ~ListsOnboarded(server[Crc].spec) \/ NumRequeues(queue, Crc) # 0
    => SyncAhead \/ watch[Crc] # <<>> \/ (\E i \in Underway : Effective(i)) \/ gaveUp # {}

\* An item that replaces the version the server holds adds no duplicate to it.
KeepsItsVersion(i) ==
  CASE i.op = "add"    -> AddsNoDuplicate(Absent, i.spec)
    [] i.op = "delete" -> i.spec = Absent
    [] i.op = "update" ->
         /\ i.rev <= server[Crc].rev
         /\ i.rev = server[Crc].rev => AddsNoDuplicate(server[Crc].spec, i.spec)

ItemsKeepTheirVersion ==
  \A i \in Range(procQueue) \cup Range(procDelayed) \cup {j \in {procItem} : procPc # "idle"} :
    KeepsItsVersion(i)

Inductive ==
  /\ TypeOK
  /\ WatchIsInOrder
  /\ QueueRemembers
  /\ RetriesGranted
  /\ StaleListingIsFollowed
  /\ NothingForgotten
  /\ ItemsKeepTheirVersion

(***************************************************************************)
(* Once services, other people and failures have come to rest, the         *)
(* ClusterRbacConfig comes to list the onboarded services and stays so.    *)
(***************************************************************************)
Converges == <>[]ListsOnboarded(server[Crc].spec)
=============================================================================

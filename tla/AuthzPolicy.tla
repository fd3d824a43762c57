---------------------------- MODULE AuthzPolicy ----------------------------
(***************************************************************************)
(* src/pkg/istio/authorizationpolicy: the controller that keeps one        *)
(* AuthorizationPolicy per onboarded service.  Other than the domain       *)
(* controller it sends its items itself, one after the other, and stops at *)
(* the first that fails.  A service that is not enabled by ap-enabled-list *)
(* gets a dry-run file instead of a policy.                                *)
(*                                                                         *)
(* CRs are the policies, each named after its service, and a spec is       *)
(* [policy, override]: what the policy says, and whether it carries the    *)
(* annotation overrideAuthzPolicy: "true".  The queue holds two kinds of   *)
(* keys, a domain and a service (which is also the key of its policy).     *)
(*                                                                         *)
(* syncPc  "start" -> "cleanup" -> "idle"         cleanUpStaleAP           *)
(*         "idle" -> "domain" -> "services" -> "current" -> "items"        *)
(*                -> "done" -> "idle"             sync                     *)
(*         "items" -> "call" -> "items"           one item through the API *)
(*         "failed"                               sync returns an error    *)
(*         "panic"                                the process is dying     *)
(***************************************************************************)
EXTENDS ConfigStore, ChangeList, WorkQueue, EnabledList, FiniteSets

CONSTANTS
  Policies,         \* what an AuthorizationPolicy can say
  Domains,          \* Athenz domains
  DomainOf,         \* DomainOf[s]: NamespaceToDomain of the namespace of s
  NoDomain,         \* there is no such Athenz domain
  EnabledLists,     \* values of the flag ap-enabled-list
  QueueNumRetries,  \* queueNumRetries
  MaxEdits,         \* bound: changes of domains and services, edits, restarts
  MaxFaults,        \* bound: how many API calls and file operations may fail
  MaxBacklog        \* bound: no resync while so many keys are waiting

ASSUME SpecsAssumption == Specs = [policy : Policies, override : BOOLEAN]
ASSUME DomainOfAssumption == DomainOf \in [CRs -> Domains]
ASSUME KeysAssumption == Domains \cap CRs = {}
ASSUME BoundsAssumption ==
  QueueNumRetries \in Nat /\ MaxEdits \in Nat /\ MaxFaults \in Nat /\ MaxBacklog \in Nat

VARIABLES
  ad,        \* ad[d]: the policy each service gets from the cached Athenz domain
  authz,     \* the services with the annotation authz.istio.io/enabled: "true"
  enabled,   \* the services of ap-enabled-list
  files,     \* files[s]: the dry-run file of s
  notes,     \* notes[k]: event handler calls for key k not yet made
  queue,     \* the work queue
  syncPc,
  syncKey,
  domain,    \* the Athenz domain read by the sync
  want,      \* want[s]: the policy of desiredCRs, or Absent
  changes,   \* the items of the change list not yet processed
  item,      \* the item in the API call
  gaveUp,    \* the services whose sync failed with no retry left
  edited,    \* the services whose policy other people wrote since the start
  edits,     \* how much of MaxEdits has been used
  faults     \* how much of MaxFaults has been used

surroundingVars == <<ad, authz, enabled, notes, edited, edits>>
syncVars == <<syncPc, syncKey, domain, want, changes, item, gaveUp>>
vars == <<storeVars, surroundingVars, files, queue, syncVars, faults>>

Keys == Domains \cup CRs
ServicesOf(d) == {s \in CRs : DomainOf[s] = d}

\* The services each list enables; a process with a malformed one never runs.
EnabledBy(components) == {s \in CRs : IsEnabled(components, s, DomainOf[s])}

EnabledSets ==
  {EnabledBy(ParseComponentsEnabledAuthzPolicy(list)) :
     list \in {l \in EnabledLists : ~Malformed(l)}}

\* The services a sync of key k looks at, and the domain it reads.
Scope(k) == IF k \in Domains THEN ServicesOf(k) ELSE {k}
DomainOfKey(k) == IF k \in Domains THEN k ELSE DomainOf[k]

NoFiles == [s \in CRs |-> Absent]
NothingWanted == [s \in CRs |-> Absent]
NoItem == [op |-> "none"]

TypeOK ==
  /\ StoreTypeOK
  /\ ad \in [Domains -> [CRs -> Policies] \cup {NoDomain}]
  /\ authz \subseteq CRs
  /\ enabled \subseteq CRs
  /\ files \in [CRs -> Policies \cup {Absent}]
  /\ notes \in [Keys -> Nat]
  /\ queue \in WorkQueueType(Keys)
  /\ syncPc \in {"start", "cleanup", "idle", "domain", "services", "current", "items",
                 "call", "failed", "done", "panic"}
  /\ syncKey \in Keys
  /\ domain \in [CRs -> Policies] \cup {NoDomain}
  /\ want \in [CRs -> Policies \cup {Absent}]
  /\ changes \subseteq Item
  /\ item \in Item \cup {NoItem}
  /\ gaveUp \subseteq CRs
  /\ edited \subseteq CRs
  /\ edits \in Nat /\ faults \in Nat

\* The informers report what they hold when they have synced: every domain,
\* every service and every policy.
InitialNotes ==
  [k \in Keys |->
     IF k \in Domains THEN IF ad[k] = NoDomain THEN 0 ELSE 1
     ELSE IF server[k].spec = Absent THEN 1 ELSE 2]

Init ==
  /\ StoreInit
  /\ ad \in [Domains -> [CRs -> Policies] \cup {NoDomain}]
  /\ authz \in SUBSET CRs
  /\ enabled \in EnabledSets
  /\ files = NoFiles
  /\ notes = InitialNotes
  /\ queue = EmptyQueue(Keys)
  /\ syncPc = "start"
  /\ syncKey \in Domains
  /\ domain = NoDomain
  /\ want = NothingWanted
  /\ changes = {}
  /\ item = NoItem
  /\ gaveUp = {}
  /\ edited = {}
  /\ edits = 0 /\ faults = 0

(***************************************************************************)
(* The surroundings.  A key is added to the queue by an event handler some *)
(* time after the cache has changed.                                       *)
(***************************************************************************)
Edited == edits < MaxEdits /\ edits' = edits + 1

Happens(k) == notes' = [notes EXCEPT ![k] = @ + 1]

AthenzDomainChanges(d) ==
  /\ Edited
  /\ \E c \in ([CRs -> Policies] \cup {NoDomain}) \ {ad[d]} : ad' = [ad EXCEPT ![d] = c]
  /\ Happens(d)
  /\ UNCHANGED <<storeVars, authz, enabled, files, queue, syncVars, edited, faults>>

\* A service is annotated or no longer annotated (or deleted).
ServiceChanges(s) ==
  /\ Edited
  /\ authz' = IF s \in authz THEN authz \ {s} ELSE authz \cup {s}
  /\ Happens(s)
  /\ UNCHANGED <<storeVars, ad, enabled, files, queue, syncVars, edited, faults>>

\* Someone else creates, changes, annotates or deletes a policy.
ExternalEdit(s) ==
  /\ Edited
  /\ \E c \in (Specs \cup {Absent}) \ {server[s].spec} : ServerWrites(s, c)
  /\ edited' = edited \cup {s}
  /\ UNCHANGED <<ad, authz, enabled, notes, files, queue, syncVars, faults>>

\* The config informer updates its store, then calls EventHandler.
Deliver(s) ==
  /\ CacheReceives(s)
  /\ Happens(s)
  /\ UNCHANGED <<ad, authz, enabled, files, queue, syncVars, edited, edits, faults>>

\* A handler that asks for a sync of the domain only.
NotifyDomainsOnly(k) ==
  /\ notes[k] > 0
  /\ notes' = [notes EXCEPT ![k] = @ - 1]
  /\ queue' = IF k \in Domains THEN QueueAdd(queue, k) ELSE queue
  /\ UNCHANGED <<storeVars, ad, authz, enabled, files, syncVars, edited, edits, faults>>

\* processEvent, EventHandler
Notify(k) ==
  /\ notes[k] > 0
  /\ notes' = [notes EXCEPT ![k] = @ - 1]
  /\ queue' = QueueAdd(queue, k)
  /\ UNCHANGED <<storeVars, ad, authz, enabled, files, syncVars, edited, edits, faults>>

\* resync adds the keys of the cached domains.
Resync(d) ==
  /\ ad[d] # NoDomain
  /\ Cardinality(queue.dirty) < MaxBacklog
  /\ queue' = QueueAdd(queue, d)
  /\ UNCHANGED <<storeVars, surroundingVars, files, syncVars, faults>>

QueueBackoffOver(k) ==
  /\ k \in queue.delayed
  /\ queue' = BackoffOver(queue, k)
  /\ UNCHANGED <<storeVars, surroundingVars, files, syncVars, faults>>

(***************************************************************************)
(* cleanUpStaleAP: the policies of services that are no longer enabled are *)
(* deleted before the worker starts; a deletion that fails is a panic.     *)
(***************************************************************************)
Overridden(obj) == obj.spec # Absent /\ obj.spec.override

CleanUpList ==
  /\ syncPc = "start"
  /\ changes' = {NewItem("delete", s, Absent, 0) :
                    s \in {x \in CRs \ enabled : cache[x].spec # Absent /\ ~Overridden(cache[x])}}
  /\ syncPc' = "cleanup"
  /\ UNCHANGED <<storeVars, surroundingVars, files, queue, syncKey, domain, want, item, gaveUp,
                 faults>>

CleanUpDeletes ==
  /\ syncPc = "cleanup"
  /\ \E i \in changes :
       /\ Verdict(i) = "ok"
       /\ ServerWrites(i.cr, i.spec)
       /\ changes' = changes \ {i}
  /\ UNCHANGED <<surroundingVars, files, queue, syncPc, syncKey, domain, want, item, gaveUp,
                 faults>>

CleanUpPanics ==
  /\ syncPc = "cleanup"
  /\ \E i \in changes :
       \/ Verdict(i) # "ok" /\ UNCHANGED <<storeVars, faults>>
       \/ /\ faults < MaxFaults
          /\ faults' = faults + 1
          /\ UNCHANGED storeVars \/ (Verdict(i) = "ok" /\ ServerWrites(i.cr, i.spec))
  /\ syncPc' = "panic"
  /\ UNCHANGED <<surroundingVars, files, queue, syncKey, domain, want, changes, item, gaveUp>>

CleanUpDone ==
  /\ syncPc = "cleanup"
  /\ changes = {}
  /\ syncPc' = "idle"
  /\ UNCHANGED <<storeVars, surroundingVars, files, queue, syncKey, domain, want, changes, item,
                 gaveUp, faults>>

(***************************************************************************)
(* The worker: processNextItem and sync.                                   *)
(***************************************************************************)
SyncGet ==
  /\ syncPc = "idle"
  /\ queue.order # <<>>
  /\ queue' = QueueGet(queue)
  /\ syncKey' = Head(queue.order)
  /\ syncPc' = "domain"
  /\ UNCHANGED <<storeVars, surroundingVars, files, domain, want, changes, item, gaveUp, faults>>

SyncMissing ==
  /\ syncPc = "domain"
  /\ ad[DomainOfKey(syncKey)] = NoDomain
  /\ syncPc' = "failed"
  /\ UNCHANGED <<storeVars, surroundingVars, files, queue, syncKey, domain, want, changes, item,
                 gaveUp, faults>>

SyncReadDomain ==
  /\ syncPc = "domain"
  /\ ad[DomainOfKey(syncKey)] # NoDomain
  /\ domain' = ad[DomainOfKey(syncKey)]
  /\ syncPc' = "services"
  /\ UNCHANGED <<storeVars, surroundingVars, files, queue, syncKey, want, changes, item, gaveUp,
                 faults>>

\* A policy is desired for each annotated service of the scope.
SyncListServices ==
  /\ syncPc = "services"
  /\ want' = [s \in CRs |-> IF s \in Scope(syncKey) \cap authz THEN domain[s] ELSE Absent]
  /\ syncPc' = "current"
  /\ UNCHANGED <<storeVars, surroundingVars, files, queue, syncKey, domain, changes, item, gaveUp,
                 faults>>

\* GetCurrentIstioRbac: the cached policies of the enabled services and the
\* dry-run files of the others; the sync of a domain lists all its policies,
\* and ConvertSliceToKeyedMap lets a file hide the policy of the same name.
NothingThere == [rev |-> 0, spec |-> Absent]

Current(s) ==
  IF s \notin enabled /\ files[s] # Absent
  THEN [rev |-> 0, spec |-> [policy |-> files[s], override |-> FALSE]]
  ELSE IF s \in enabled \/ syncKey \in Domains THEN cache[s] ELSE NothingThere

\* A desired policy that updates a current one takes over its metadata, the
\* annotation included.
Desired(s) ==
  IF want[s] = Absent THEN Absent
  ELSE [policy |-> want[s], override |-> Overridden(Current(s))]

\* ComputeChangeList with checkOverrideAnnotation, and the same without it.
ChangesWithoutCheck ==
  ComputeChangeList([s \in CRs |-> Current(s)], [s \in CRs |-> Desired(s)], Scope(syncKey))

ChangesOfSync ==
  {i \in ComputeChangeList([s \in CRs |-> Current(s)], [s \in CRs |-> Desired(s)],
                           Scope(syncKey)) :
     i.op = "add" \/ ~Overridden(Current(i.cr))}

\* An empty change list that leaves the failures of the key counted.
KeepFailures ==
  /\ syncPc = "current"
  /\ changes' = ChangesOfSync
  /\ gaveUp' = gaveUp \ Scope(syncKey)
  /\ syncPc' = "items"
  /\ UNCHANGED <<storeVars, surroundingVars, files, queue, syncKey, domain, want, item, faults>>

SyncListCurrent ==
  /\ syncPc = "current"
  /\ changes' = ChangesOfSync
  /\ queue' = IF changes' = {} THEN Forget(queue, syncKey) ELSE queue
  /\ gaveUp' = gaveUp \ Scope(syncKey)
  /\ syncPc' = "items"
  /\ UNCHANGED <<storeVars, surroundingVars, files, syncKey, domain, want, item, faults>>

(***************************************************************************)
(* processConfigChange, for one item after the other.                      *)
(***************************************************************************)
NextItem(i) == syncPc = "items" /\ IsNextChange(i, changes)

\* The services whose items go to the API server, and the mistake of sending
\* all of them there.
AllServices == CRs

ApiServices == enabled

\* Writing the annotation into the file as well.
DryRunWritesAll ==
  /\ \E i \in changes :
       /\ NextItem(i) /\ i.cr \notin ApiServices
       /\ files' = [files EXCEPT ![i.cr] = i.spec]
       /\ changes' = changes \ {i}
  /\ UNCHANGED <<storeVars, surroundingVars, queue, syncPc, syncKey, domain, want, item, gaveUp,
                 faults>>

\* DryRunHandler writes or removes the file.
DryRun ==
  /\ \E i \in changes :
       /\ NextItem(i) /\ i.cr \notin ApiServices
       /\ files' = [files EXCEPT ![i.cr] = IF i.op = "delete" THEN Absent ELSE i.spec.policy]
       /\ changes' = changes \ {i}
  /\ UNCHANGED <<storeVars, surroundingVars, queue, syncPc, syncKey, domain, want, item, gaveUp,
                 faults>>

DryRunFails ==
  /\ \E i \in changes : NextItem(i) /\ i.cr \notin ApiServices
  /\ faults < MaxFaults
  /\ faults' = faults + 1
  /\ changes' = {}
  /\ syncPc' = "failed"
  /\ UNCHANGED <<storeVars, surroundingVars, files, queue, syncKey, domain, want, item, gaveUp>>

\* ApiHandler: an update takes the resource version the cache has by now.
ApiSends ==
  /\ \E i \in changes :
       /\ NextItem(i) /\ i.cr \in ApiServices
       /\ i.op = "update" => cache[i.cr].spec # Absent
       /\ item' = IF i.op = "update" THEN [i EXCEPT !.rev = cache[i.cr].rev] ELSE i
       /\ changes' = changes \ {i}
  /\ syncPc' = "call"
  /\ UNCHANGED <<storeVars, surroundingVars, files, queue, syncKey, domain, want, gaveUp, faults>>

\* The policy has left the cache since it was listed: Get returns nil.
UpdatePanics ==
  /\ \E i \in changes :
       NextItem(i) /\ i.cr \in ApiServices /\ i.op = "update" /\ cache[i.cr].spec = Absent
  /\ syncPc' = "panic"
  /\ UNCHANGED <<storeVars, surroundingVars, files, queue, syncKey, domain, want, changes, item,
                 gaveUp, faults>>

ApiAccepts ==
  /\ syncPc = "call"
  /\ Verdict(item) = "ok"
  /\ ServerWrites(item.cr, item.spec)
  /\ item' = NoItem
  /\ syncPc' = "items"
  /\ UNCHANGED <<surroundingVars, files, queue, syncKey, domain, want, changes, gaveUp, faults>>

\* The first error ends the sync: the rest of the change list is not sent.
ApiRefuses ==
  /\ syncPc = "call"
  /\ Verdict(item) # "ok"
  /\ item' = NoItem
  /\ changes' = {}
  /\ syncPc' = "failed"
  /\ UNCHANGED <<storeVars, surroundingVars, files, queue, syncKey, domain, want, gaveUp, faults>>

\* A lost call whose error nobody looks at.
ApiFailsUnnoticed ==
  /\ syncPc = "call"
  /\ faults < MaxFaults
  /\ faults' = faults + 1
  /\ item' = NoItem
  /\ syncPc' = "items"
  /\ UNCHANGED <<storeVars, surroundingVars, files, queue, syncKey, domain, want, changes, gaveUp>>

\* The request or the answer is lost.
ApiFails ==
  /\ syncPc = "call"
  /\ faults < MaxFaults
  /\ \/ UNCHANGED storeVars
     \/ Verdict(item) = "ok" /\ ServerWrites(item.cr, item.spec)
  /\ faults' = faults + 1
  /\ item' = NoItem
  /\ changes' = {}
  /\ syncPc' = "failed"
  /\ UNCHANGED <<surroundingVars, files, queue, syncKey, domain, want, gaveUp>>

\* sync returned an error: the key is retried while its budget lasts.
SyncRetries ==
  /\ syncPc = "failed"
  /\ NumRequeues(queue, syncKey) < QueueNumRetries
  /\ queue' = AddRateLimited(queue, syncKey)
  /\ syncPc' = "done"
  /\ UNCHANGED <<storeVars, surroundingVars, files, syncKey, domain, want, changes, item, gaveUp,
                 faults>>

SyncGivesUp ==
  /\ syncPc = "failed"
  /\ NumRequeues(queue, syncKey) >= QueueNumRetries
  /\ gaveUp' = gaveUp \cup Scope(syncKey)
  /\ syncPc' = "done"
  /\ UNCHANGED <<storeVars, surroundingVars, files, queue, syncKey, domain, want, changes, item,
                 faults>>

\* A worker that never tells the queue it is done.
SyncDoneWithoutDone ==
  /\ syncPc = "done" \/ (syncPc = "items" /\ changes = {})
  /\ syncPc' = "idle"
  /\ domain' = NoDomain
  /\ want' = NothingWanted
  /\ UNCHANGED <<storeVars, surroundingVars, files, queue, syncKey, changes, item, gaveUp, faults>>

SyncDone ==
  /\ syncPc = "done" \/ (syncPc = "items" /\ changes = {})
  /\ queue' = QueueDone(queue, syncKey)
  /\ syncPc' = "idle"
  /\ domain' = NoDomain
  /\ want' = NothingWanted
  /\ UNCHANGED <<storeVars, surroundingVars, files, syncKey, changes, item, gaveUp, faults>>

(***************************************************************************)
(* The process is replaced, with another ap-enabled-list perhaps, or its   *)
(* container starts again after a panic.                                   *)
(***************************************************************************)
\* What a process starts with: main empties the dry-run directory.
Starts ==
  /\ CacheRelists
  /\ files' = NoFiles
  /\ notes' = InitialNotes
  /\ queue' = EmptyQueue(Keys)
  /\ syncPc' = "start"
  /\ domain' = NoDomain
  /\ want' = NothingWanted
  /\ changes' = {}
  /\ item' = NoItem
  /\ gaveUp' = {}
  /\ edited' = {}
  /\ UNCHANGED <<ad, authz, syncKey, faults>>

Restart == Edited /\ enabled' \in EnabledSets /\ Starts

RestartAfterPanic == syncPc = "panic" /\ Starts /\ UNCHANGED <<enabled, edits>>

CleanUp == CleanUpList \/ CleanUpDeletes \/ CleanUpDone

Worker ==
  \/ SyncGet \/ SyncMissing \/ SyncReadDomain \/ SyncListServices \/ SyncListCurrent
  \/ DryRun \/ ApiSends \/ UpdatePanics \/ ApiAccepts \/ ApiRefuses
  \/ SyncRetries \/ SyncGivesUp \/ SyncDone

Surroundings ==
  \/ \E d \in Domains : AthenzDomainChanges(d)
  \/ \E s \in CRs : ServiceChanges(s) \/ ExternalEdit(s)
  \/ DryRunFails \/ ApiFails \/ Restart

Next ==
  \/ CleanUp \/ CleanUpPanics \/ Worker \/ RestartAfterPanic
  \/ \E s \in CRs : Deliver(s)
  \/ \E k \in Keys : Notify(k) \/ QueueBackoffOver(k)
  \/ \E d \in Domains : Resync(d)
  \/ Surroundings

Spec == Init /\ [][Next]_vars

\* The goroutines run, and the container is started again after a panic.
Fairness ==
  /\ WF_vars(CleanUp) /\ WF_vars(CleanUpPanics) /\ WF_vars(Worker) /\ WF_vars(RestartAfterPanic)
  /\ \A s \in CRs : WF_vars(Deliver(s))
  /\ \A k \in Keys : WF_vars(Notify(k)) /\ WF_vars(QueueBackoffOver(k))
  /\ \A d \in Domains : WF_vars(Resync(d))

FairSpec == Spec /\ Fairness

(***************************************************************************)
(* Properties.                                                             *)
(***************************************************************************)

Wanted(s) == IF s \in authz THEN ad[DomainOf[s]][s] ELSE Absent

\* An enabled service without an override has the policy it should have, any
\* other without a policy of its own has the dry-run file.
InStep(s) ==
  \/ ad[DomainOf[s]] = NoDomain
  \/ s \in enabled /\ Overridden(server[s])
  \/ s \in enabled /\ Wanted(s) = Absent /\ server[s].spec = Absent
  \/ s \in enabled /\ server[s].spec # Absent /\ server[s].spec.policy = Wanted(s)
  \/ s \notin enabled /\ (server[s].spec # Absent \/ files[s] = Wanted(s))

\* A notice, the queue or the back-off of a retry brings the next sync of k.
Pending(k) == notes[k] > 0 \/ k \in queue.dirty \cup queue.delayed

Asked(s) == Pending(s) \/ Pending(DomainOf[s])

SyncAhead(s) ==
  \/ Asked(s)
  \/ s \in Scope(syncKey) /\ syncPc \in {"domain", "services", "current", "failed"}
  \/ syncPc = "panic"

ItemAhead(s) == \E i \in changes \cup {item} : i # NoItem /\ i.cr = s

(***************************************************************************)
(* A service whose policy (or dry-run file) is not what it should be is    *)
(* never forgotten, though one error ends the sync of a whole domain and   *)
(* though service, policy and domain events queue different keys: the sync *)
(* of the service or of its domain is ahead or about to be retried, an     *)
(* item of it is, or its sync was given up and waits for the resync        *)
(* (authorizationpolicy/controller.go:153-160, 253-259).                   *)
(***************************************************************************)
NoLostWork ==
  \A s \in CRs :
    InStep(s) \/ watch[s] # <<>> \/ SyncAhead(s) \/ ItemAhead(s) \/ s \in gaveUp

(***************************************************************************)
(* When the controller has come to rest, the retries of an enabled service *)
(* are whole or all of them are spent, and none is left half way: a failed *)
(* sync is retried, and the event of the policy a retry has written brings *)
(* the sync with the empty change list that forgets the failures           *)
(* (authorizationpolicy/controller.go:153-160, 246-250).  They may stay    *)
(* spent although the service is in step: when the sync of its domain puts *)
(* right what the last retry of the service could not, nothing syncs the   *)
(* service itself.  Nor is anything said of the keys of domains and of     *)
(* disabled services, which no event of their own writes brings back.      *)
(***************************************************************************)
Quiescent ==
  /\ syncPc = "idle"
  /\ queue.dirty = {} /\ queue.delayed = {}
  /\ \A k \in Keys : notes[k] = 0
  /\ \A s \in CRs : watch[s] = <<>>

RetryBudgetRestored ==
  Quiescent => \A s \in enabled : NumRequeues(queue, s) \in {0, QueueNumRetries}

(***************************************************************************)
(* What a sync has read of its domain and of the annotations may be stale  *)
(* when its items are sent, as handlers only queue a key: then another     *)
(* sync of the service or of its domain follows (authorizationpolicy/      *)
(* controller.go:87-114, 181-222).                                         *)
(***************************************************************************)
StaleSyncIsFollowed ==
  \A s \in Scope(syncKey) :
    \/ Asked(s)
    \/ /\ syncPc = "services" => domain = ad[DomainOf[s]]
       /\ syncPc \in {"current", "items", "call"} => want[s] = Wanted(s)

(***************************************************************************)
(* The inductive invariant behind NoLostWork and RetryBudgetRestored.  The *)
(* cache lags behind the server by what is in the watch; a process that    *)
(* starts is told of every service before its worker runs; the items in    *)
(* hand are those of the running sync and say what it wants; and a service *)
(* whose retries are partly spent has its own sync ahead, or the event of  *)
(* the policy that sync has written.                                       *)
(***************************************************************************)
CacheTrailsServer ==
  \A s \in CRs :
    server[s] = IF watch[s] = <<>> THEN cache[s] ELSE watch[s][Len(watch[s])]

StartAsksForAll == syncPc \in {"start", "cleanup"} => \A s \in CRs : Asked(s)

ItemsAreOfTheSync ==
  /\ changes # {} => syncPc \in {"cleanup", "items", "call", "panic"}
  /\ item # NoItem => syncPc = "call"
  /\ syncPc \in {"items", "call"} =>
       \A i \in changes \cup ({item} \ {NoItem}) :
         /\ i.cr \in Scope(syncKey)
         /\ want[i.cr] = IF i.op = "delete" THEN Absent ELSE i.spec.policy

RetryAhead(s) ==
  \/ Pending(s)
  \/ watch[s] # <<>>
  \/ syncKey = s /\ syncPc \in {"domain", "services", "current", "call", "failed"}
  \/ syncKey = s /\ syncPc = "items" /\ changes # {}
  \/ syncPc = "panic"

RetriesAreUsed ==
  /\ \A k \in Keys : NumRequeues(queue, k) <= QueueNumRetries
  /\ \A s \in enabled : NumRequeues(queue, s) \in {0, QueueNumRetries} \/ RetryAhead(s)

Inductive ==
  /\ TypeOK
  /\ CacheTrailsServer
  /\ StartAsksForAll
  /\ StaleSyncIsFollowed
  /\ ItemsAreOfTheSync
  /\ NoLostWork
  /\ RetriesAreUsed

(***************************************************************************)
(* A service that is not enabled has no AuthorizationPolicy once the       *)
(* cleanup is done, unless it is overridden or other people made it since  *)
(* (authorizationpolicy/controller.go:119-124, 284-290, 385-386).          *)
(***************************************************************************)
DisabledHaveNoPolicy ==
  \A s \in CRs \ enabled :
    syncPc \notin {"start", "cleanup", "panic"} /\ server[s].spec # Absent
      => Overridden(server[s]) \/ s \in edited

(***************************************************************************)
(* Policies with the override annotation survive the controller as long as *)
(* nobody has written them since the process started.                      *)
(***************************************************************************)
OverrideSurvives ==
  [][\A s \in CRs : Overridden(server[s]) /\ s \notin edited'
       => server'[s] = server[s]]_vars

(***************************************************************************)
(* authorizationpolicy/controller.go:263-264: the override check "skips    *)
(* process if override annotation is set to true".  No update the API      *)
(* server accepts replaces a policy that carries the annotation.           *)
(***************************************************************************)
UpdatesSpareOverride ==
  [][ApiAccepts /\ item.op = "update" => ~Overridden(server[item.cr])]_vars

(***************************************************************************)
(* authorizationpolicy/controller.go:136-137: processNextItem "handles the *)
(* logic of re-queuing in case any errors occur".  No sync takes the       *)
(* process down.                                                           *)
(***************************************************************************)
SyncNeverPanics == [][~UpdatePanics]_vars

(***************************************************************************)
(* Once domains, services, other people and failures have come to rest,    *)
(* every service has the policy or the dry-run file it should have.        *)
(***************************************************************************)
Converges == <>[](\A s \in CRs : InStep(s))
=============================================================================

# A TLA+ model of k8s-athenz-istio-auth

The controller in `src/` keeps Istio's authorization resources equal to what
Athenz says. It is one process of several control loops: each has a work queue
and a worker, reads informer caches, decides what differs from the desired state
and sends the difference to the Kubernetes API server. The loops run concurrently
with each other, with the informers, with everybody else who writes to the API
server, and with failures and restarts. This directory models those loops and what
they compute: the conversion of Athenz domains into resources, and the access those
resources grant. TLC checks the models on small instances, and TLAPS proves every
safety property that holds for all values of the constants.

Paths below are relative to `src/`; `controller.go` alone is
`pkg/controller/controller.go`.

## Inventory of the system

| Component (code) | State | Operations | Interacts with | Hard behaviour |
|---|---|---|---|---|
| Domain controller (`pkg/controller/controller.go`) | queue of domain keys with retry counts | event handlers (176-206), `processNextItem`, `sync`, callback (56-84), `resync`, `Run` | reads the Athenz domain cache and the Istio cache; hands items to the processor; is called back by the processor's goroutine | three reads that are not atomic; retry budget shared by two goroutines; missing domains; restarts |
| Processor (`pkg/istio/processor/controller.go`) | queue of `*Item` with retry counts | `ProcessConfigChange`, `processNextItem`, `sync` | Create, Update, Delete of the API server; callbacks into the other controllers | lost requests and answers; retries that reorder; items dropped after their retries; no deduplication |
| Onboarding controller (`pkg/istio/onboarding/controller.go`) | queue with one key | service and config handlers, `sync`, `callbackHandler`, `resync`; `compareServiceLists`, `addServices`, `deleteServices`, `removeIndexElement` | service cache, Istio cache, processor | two reads that are not atomic; list surgery by index; a config other people edit, break or delete |
| Authorization policy controller (`pkg/istio/authorizationpolicy/controller.go`) | queue with domain and service keys; files in the dry-run directory | handlers, `cleanUpStaleAP`, `sync`, `processConfigChange`, `checkOverrideAnnotation`, `resync` | all three caches; writes to the API server itself (no processor) | the first error ends a sync; an override annotation; services that change sides over a restart; a nil dereference; a stale decision with a fresh version |
| Change list and handlers (`pkg/istio/rbac/common/util.go`) | none | `ComputeChangeList`, `ApiHandler`, `DryRunHandler` | used by the two controllers above | order of the operations; versions carried by updates |
| RBAC providers v1, v2 (`pkg/istio/rbac/v1`, `v2`, `common/servicerole*.go`) | none | `ConvertAthenzModelIntoIstioRbac`, `GetCurrentIstioRbac` | Athenz model, Istio cache, dry-run files | time of day (v2); members and groups that expire or are disabled; colliding role names |
| Athenz model, names (`pkg/athenz`) | none | conversion of a domain; `DomainToNamespace` and its inverse | domain cache, for trusted domains | takes members from another domain, without an event when that changes; panics on a trusted domain without policies; writes into the informer's objects |
| Life cycle (`main.go`, `Controller.Run`) | `stopCh` | start, wait for caches, clean up, stop, exit | every goroutine | start-up order; a clean-up that fails takes down the loops that already work; workers blocked in a queue at exit |
| Informers, config store, API server, work queue (libraries) | caches, watch streams, versions; `dirty`, `processing`, back-offs | as documented by client-go and Istio | everything | caches lag; optimistic concurrency |
| Log (`pkg/log`) | none the others read | – | – | – |

What makes each correct:

* domain controller and processor: no difference between a domain and its
  resources is ever forgotten; rest means converged; once the surroundings are
  quiet it converges; the retry budget is bounded and given back;
* onboarding controller: the same for the ClusterRbacConfig, and its list is
  exactly the onboarded services, never an entry more;
* authorization policy controller: the same, per service; a disabled service has
  no policy; an overridden policy is left alone; a sync does not crash;
* conversions: the resources let in whom Athenz lets in, no more and no less, but for
  the simplifications and the two widenings named below; what is out of date without an event is only what
  another domain or the clock has changed, and the resync puts it right;
* life cycle: nothing works from a cache that has not synced; everything starts, and
  again after a crash; everything that can stop does.

## The modules

| Module | Models | Used by |
|---|---|---|
| `WorkQueue` | client-go's rate limiting queue as a record (`order`, `dirty`, `processing`, `delayed`, `failures`) | all controllers |
| `Resources` | names, contents and versions of Istio resources | all controllers |
| `ConfigStore` | API server, informer cache and the watch stream between them; `Answer` is what the server says to an item | all controllers |
| `ChangeList` | `Item`, `ComputeChangeList` and the order in which it emits | all controllers |
| `Processor` | the processor, step by step | `DomainController`, `Onboarding` |
| `DomainController` | the domain controller composed with processor, store and queue | `MCDomainController`, proofs |
| `ServiceLists` | the onboarding controller's list algorithms | `Onboarding` |
| `Onboarding` | the onboarding controller composed with processor, store and queue | `MCOnboarding` |
| `AuthzPolicy` | the authorization policy controller, its two handlers, the clean-up and restarts | `MCAuthzPolicy` |
| `EnabledList` | parsing of `ap-enabled-list` and `IsEnabled` | `AuthzPolicy` |
| `Lifecycle` | start and stop of all goroutines, the clean-up between them, panics and the restart of the container | itself |
| `Mirror` | the abstract specification of a controller that mirrors domains: decide, write, forget | `DomainController` |
| `Names` | domains, namespaces and role names as sequences of characters, and the functions between them | `AthenzModel` |
| `AthenzModel` | what is taken from a cached Athenz domain, members of delegated roles included | `RbacProviders` |
| `RbacProviders` | the conversions of v1 (ServiceRoles, ServiceRoleBindings) and v2 (AuthorizationPolicies) | `Access` |
| `Access` | domains, clock and both controllers' syncs as one step each; who gets in, against a reading of what Athenz says | `MCAccess` |
| `LibraryLemmas`, `ProcessorLemmas`, `ListLemmas` | what the operations of queue, store and change list, the steps of the processor, and functions on lists do, each stated once | the proofs |
| `DomainControllerProofs`, `OnboardingProofs`, `AuthzPolicyProofs`, `LifecycleProofs`, `AccessProofs` | the theorems of each component | – |

### How state and actions correspond to the code

* **Cache and server.** `server[r]` is the stored object, `cache[r]` what
  `ConfigStoreCache` answers and `watch[r]` the changes on their way. `Deliver`
  applies one change and leaves a handler call to be made (`notes`); `Notify` makes
  it. So a worker may read a cache that has already changed before the key of the
  change is queued, as with client-go, whose store is written before the handlers run.
* **The worker** (`controller.go:234-267`, `90-137`). `SyncGet` is `queue.Get`;
  `SyncReadDomain`, `ListRoles` and `ListBindings` are the three cache reads of
  `sync`; `PushItem` hands over one item; `SyncDone` is the deferred `Done`.
  Everything between two of these touches nothing shared and is part of one of them.
* **The processor** (`processor/controller.go:50-112`). `ProcGet`, `ProcCall` (the
  API call), then the callback. `ProcCallFails` is a lost request or a lost answer:
  the write may have happened. `ProcRetry` and `ProcDrop` are the two ends of lines 84-91.
  An item carries `tries` because the queue counts failures per pointer.
* **The callback** (`controller.go:56-84`) runs in the processor's goroutine. Its
  test of the budget and its `AddRateLimited` are two steps (`CallbackConflict`,
  `CallbackRequeues`), as are those of the worker (`SyncMissing`, `SyncRequeue`).
* **Restart** drops both queues, all back-offs and everything in hand; the informers
  list afresh and report every object.
* **`gaveUp`** is not a variable of the program: it records for which resource an
  item was dropped since the last decision, so that the properties can say what waits for the resync.
* **`AuthzPolicy`** has no processor: `ApiSends` reads the fresh version
  (`util.go:92`) and `ApiAccepts`, `ApiRefuses`, `ApiFails` end the call. `UpdatePanics`
  is the nil dereference there. `Starts` empties the dry-run directory as `main.go:46-61` does.
  Which services are `enabled` is what a value of the flag parses to (`EnabledSets`); a
  malformed one ends the process in `main.go:117`, before it is one.
* **`Access`** looks at the same two controllers from the other side. A sync is one step,
  from the cached domains to the last write; a key is pending (`todo1`, `todo2`) from its
  event to that write, so the interleavings of `DomainController` and `AuthzPolicy` stay
  where they are. In exchange the content is real: `ConvertV1` and `ConvertV2` applied to
  the cached domains and the clock. A name is `[before, after]` its last dot, which is all
  `PrincipalToSpiffe` looks at; a role name is `[domain, role]`; domains and role names that
  go through `strings.Replace` are sequences of characters. `NamesInForce`, `NamesListed`, `Means` and
  `Permitted` say what Athenz means, independently of the two providers: `user.*` is the people of the
  domain `user` and no service, `<domain>.*` that domain and none inside it. `RolesGrant` and
  `PolicyGrants` say what Istio makes of the resources for a client that shows a certificate
  or a token (`Accepted`).
* **`Onboarding`** takes the name of a service to be the pair of its name in Kubernetes and the `--dns-suffix` of the
  process, and a restart may come with another suffix, which renames all of them.
* **`Lifecycle`** has every panic that can end the process: the failed clean-up
  (`authorizationpolicy/controller.go:121-124`), the nil dereferences in a sync, and the wait for the caches given up
  after the signal. Before the signal the container is started again (`ContainerRestarts`) and every goroutine anew.
* **`Mirror`** has no queue, cache or item. `Mirrored` maps the controller to it: `Intended` is
  what a sync in progress has read plus all items handed over, waiting, retried or in the call.

## The runs

| Run | Question | What it shows |
|---|---|---|
| `domain_role` | Can a difference be forgotten? Can two goroutines overspend one budget? | With one role, a lost call and two edits, domain changes or crashes, nothing is forgotten (`NoLostWork`). The budget is exceeded by one at most, and that one does occur; at rest it is whole again. Every write the server sees is one `Mirror` allows (`ImplementsMirror`). |
| `domain_role_and_binding` | Is a decision from an inconsistent snapshot corrected? Do domains in one queue disturb one another? | A stale snapshot is always followed by another sync; rest means converged; the invariant of the proofs holds in every state. |
| `domain_converges` | Does it converge? | Yes, even if an item is dropped, thanks to the resync. |
| `onboarding` | The same questions for the ClusterRbacConfig; are its updates exact? | Nothing is forgotten, stale listings are followed, rest means converged, the budget is kept; an update contains what it should and no entry twice that was not there twice before, and no call, lost or not, makes an entry more frequent; the invariant of the proofs holds in every state. |
| `onboarding_converges` | Does it converge, also when a restart with another `--dns-suffix` replaces the whole list? | Yes, also after a dropped item. See below on the TODO that says otherwise. |
| `authz_policy` | One service: policies of disabled services, overrides, convergence | All hold over restarts with another `ap-enabled-list` and over panics, if the container is started again. An override survives while nobody writes the policy after the process has started. A sync that has read what is no longer so is followed by another; the invariant of the proofs holds in every state. |
| `authz_policy_two` | What becomes of the items a failed sync did not send? | The retried key or the resync computes them again; at rest an enabled service has all of its two retries or, when they did not help, none, and never one of them. |
| `authz_override` (violation) | Does an update spare a policy annotated in the meantime? | No: the update takes the fresh version with the stale decision. |
| `authz_panics` (violation) | Can a sync take the process down? | Yes: the policy may have left the cache before its update. |
| `access` | Do the resources mean what Athenz says? What can be out of date without an event? | Policies that are in step let in current members, every one of them who is in a role of the domain itself, and beside them only those whom two widenings add (below); v1's roles let in whom Athenz lists, which is what v1 promises, and the same two. What is there without a key pending was made from the present version of its domain (`ProvidedUnlessPending`). Only delegated roles and expired members go out of date in silence, and the resync brings them in step, except where a conversion panics; of two roles that are given one name each replaces the resources of the other for ever, and disturbs no role beside them. |
| `lifecycle` | Start-up, crash and stop | Nothing works before all caches have synced; all workers start, and again after a clean-up that fails or a sync that panics; all loops that watch `stopCh` end. |
| `lifecycle_exit` (violation) | Do the goroutines exit in the second `main` gives them? | Not the idle workers: only a worker that has left shuts its queue down. |

The violations are the disagreements between the code and what its comments or
documents say; each is described under `findings` in `PROJECT.json`.

*Two widenings.* The providers let in more clients than Athenz means, in two ways, both stated in `Access.Widened`:
`user.*` becomes `*` (`util.go:172`, `189`), which every service answers to as well; and `<domain>.*`
becomes the token pattern `athenz/<domain>.*` (`util.go:194`), which clients of the domains inside that domain answer to,
while the certificate pattern `<domain>/sa/*` and the namespace of v2 do not go that far. `PoliciesGrantNoMore` and
`RolesGrantTheListed` hold but for these two, for nobody else and no other member. In the other direction, v2 lets a member
`<domain>.*` in by its namespace only, which a token does not say (`v2/provider.go:222-229`): `PoliciesGrantNoLess` promises
tokens to members named one by one.

*The TODO on the dns suffix.* `onboarding/controller.go:287-296` reports that after a change of the suffix "this update is
likely to fail and controller will be stuck in fail and retry cycles", and that it "will stuck in this loop and won't proceed".
`onboarding_converges` restarts the process with another suffix and loses a call, and converges all the same: the
update carries the version of the config it was computed from, a conflict means that a newer version is on its way to
the cache, and the sync that its event causes computes the update again. The alternation of "Sync state is current" and
"Updating cluster rbac config..." that the comment quotes needs something outside the model: a second process with the old
suffix that writes the old list back each time, or an API server that refuses this one update whenever it is sent. The
model has one process, finitely many edits by others, and calls that fail because a version is old or by being lost. So this
is a disagreement with the comment that the model cannot reproduce, and none of the `findings`.

### Bounds, and why they are enough

`MaxEdits` counts Athenz or service changes, edits by others and restarts
together; `MaxFaults` lost calls; `MaxBacklog` holds the resync back while the
processor has so many items, because equal items are not merged and the queue could
grow without end (0 switches the resync off, which makes the safety properties
harder to satisfy: nothing comes back by itself). `QueueNumRetries` is 2, 1 or 0
instead of 3: what matters is that retries exist, run out, and are given back; it takes two for a
budget that is partly spent.

* One or two edits suffice for the races the properties are about: a change before,
  between and after the reads of one sync, or one on each side of a write. Versions
  matter to updates only, which need one edit between decision and call.
* `Specs` has two contents where an update must be possible (`domain_role`,
  `authz_*`, `onboarding*`); with one content a resource is there or not, which is enough for the races
  of additions and deletions and keeps two resources and two domains in reach.
  `domain_role` takes the two contents as symmetric: they are only compared for equality, and
  its properties are safety properties.
* In `onboarding` the config starts as any list with the first service up to twice and
  the second up to once, or broken, or absent, and the onboarded services as any set: one more edit
  is enough to separate any two of decision, write and event. `onboarding_converges` has one service and two
  suffixes instead (`DnsSuffixes`): the restart with the other one renames it, so that an update removes one entry and adds another.
* The instances are small; for all safety properties the theorems remove the bounds.
* `authz_*` take one list of each kind for `ap-enabled-list`: empty, a service, the namespace, the
  cluster, a list with an empty item, a cluster star that is not alone, and malformed ones.
* `access` has the domain `a-.b`, whose name holds every symbol the functions of `Names`
  treat differently, and `a.b`, which it may trust. The four versions of the first hold between them
  groups, expiring and disabled members, delegation, `user.*`, members that are a whole domain, foreign
  groups, wildcard actions and resources, denied assertions, and two roles of one name; the three of the second
  the ways of being trusted: two roles to assume, one that trusts on, no policies. The clients are two services of the
  trusted domain, one of `a-b`, whose namespace looks similar, one of `a.b.c`, which is inside the trusted domain, and a person. `MaxTime = 1` is a
  moment before and one after an expiry; one edit (`MaxEdits`) and the pending keys give every
  pair of a version converted and a version in the cache.
* `Lifecycle` has one key per queue, which is empty or it is not, and one crash before the signal (`MaxCrashes`): every
  life after the first begins in the same state but for that count.

`CHECK_DEADLOCK FALSE`: with the edits spent and everything converged, nothing more
has to happen; and the process may exit.

### Fairness

`Fairness` is weak fairness of what the Go scheduler, the timers and the watch
connection provide: each worker, the processor, each informer's stream and handlers,
each back-off timer and the resync ticker. Domain changes, edits, failures and
crashes are never forced. `Converges` is of the form `<>[]`: edits, faults and crashes are
bounded, so it says what happens after the last of them. In `AuthzPolicy` the restart
after a panic is fair too, since Kubernetes restarts the container. `Access` is fair to the syncs of domain keys and to the two resync
tickers only: the queues are fair between keys, but nothing in it needs the keys of single services. In `Lifecycle` the informers
sync if the API server answers, and a `select` that stays ready on `stopCh`
eventually takes it; a signal need not come. The steps that a goroutine takes once in a life of the process share one
condition (`Starting`, `Informing`, `Stopping`), which gives each of them its turn, and the container of a
process that has crashed is restarted. The process is assumed to crash finitely often: while the API
server answers every clean-up with an error, or a domain makes every conversion panic, it restarts for ever.

## What is proved

Every safety property that a passing run checks is proved for all values of the constants; the
liveness properties are not. For every finite set of resources, every set of domains and contents, every number of
retries, edits and faults (assumptions: the `ASSUME`s of the modules, which say of what kind the
constants are), about `Spec` of `DomainController`:

| Theorem | States |
|---|---|
| `DomainControllerProofs!TypeCorrect` | `[]TypeOK` |
| `DomainControllerProofs!BudgetNeverFarExceeded` | `[]RetryBudgetBound` |
| `DomainControllerProofs!MirrorImplemented` | `ImplementsMirror`: the controller refines `Mirror` |
| `DomainControllerProofs!InductiveHolds` | `[]Inductive` |
| `DomainControllerProofs!StaleSyncsAreFollowed` | `[]StaleSyncIsFollowed` |
| `DomainControllerProofs!NothingIsLost` | `[]NoLostWork` |
| `DomainControllerProofs!AtRestConverged` | `[]QuiescentMeansConverged` |
| `DomainControllerProofs!BudgetComesBack` | `[]RetryBudgetRestored` |

about `Spec` of `Onboarding`, for every finite set of services (`ServicesAssumption`) and
every set of contents in which the well-formed ones are lists of services and the lists the
controller writes are among them (`SpecsAssumption`):

| Theorem | States |
|---|---|
| `OnboardingProofs!TypeCorrect` | `[]TypeOK` |
| `OnboardingProofs!InductiveHolds` | `[]Inductive` |
| `OnboardingProofs!StaleListingsAreFollowed` | `[]StaleListingIsFollowed` |
| `OnboardingProofs!NothingIsLost` | `[]NoLostWork` |
| `OnboardingProofs!AtRestConverged` | `[]RestIsConverged` |
| `OnboardingProofs!BudgetIsKept` | `[]RetryBudgetKept` |
| `OnboardingProofs!SyncsAreExact` | `[]SyncIsExact` |
| `OnboardingProofs!NothingIsDuplicated` | `NeverDuplicates` |

about `Spec` of `AuthzPolicy`:

| Theorem | States |
|---|---|
| `AuthzPolicyProofs!AuthzTypeCorrect` | `[]TypeOK` |
| `AuthzPolicyProofs!DisabledStayWithoutPolicy` | `[]DisabledHaveNoPolicy` |
| `AuthzPolicyProofs!OverridesSurvive` | `OverrideSurvives` |
| `AuthzPolicyProofs!InductiveHolds` | `[]Inductive` |
| `AuthzPolicyProofs!StaleSyncsAreFollowed` | `[]StaleSyncIsFollowed` |
| `AuthzPolicyProofs!NothingIsLost` | `[]NoLostWork` |
| `AuthzPolicyProofs!RetriesComeBack` | `[]RetryBudgetRestored` |

about `Spec` of `Lifecycle`:

| Theorem | States |
|---|---|
| `LifecycleProofs!LifecycleTypeCorrect` | `[]TypeOK` |
| `LifecycleProofs!NothingWorksBeforeSync` | `[]NothingBeforeSync` |

and about `Spec` of `Access`, for every set of domains, whatever they are called and hold, and all
services, clients and moments:

| Theorem | States |
|---|---|
| `AccessProofs!NamesRoundTrip` | the namespace of every Athenz domain leads back to it |
| `AccessProofs!TypeCorrect` | `[]TypeOK` |
| `AccessProofs!ProvidedHolds` | `[]ProvidedUnlessPending` |
| `AccessProofs!SilentHolds` | `[]OnlyTrustAndTimeAreSilent` |
| `AccessProofs!GrantNoMoreHolds` | `[]PoliciesGrantNoMore` |
| `AccessProofs!GrantNoLessHolds` | `[]PoliciesGrantNoLess` |
| `AccessProofs!GrantTheListedHolds` | `[]RolesGrantTheListed` |

What these theorems assume of the constants is what Athenz guarantees of its data: the parts of
a domain name between its dots begin with a letter, a digit or `_` (`DomainsAssumption`); no service is called
"" (`ServicesAssumption`); roles are unique by name, a trusted domain is one of `Domains` (it need not be in the cache),
"*" is not the name of a domain, and a group is neither a client nor a pattern (`DataAssumption`); and of
the program's own, that `*` is a supported method and that a resource without a service matches
none (`MethodsAssumption`, `SvcAssumption`). TLC evaluates all of them in the run `access`.

*The budget.* `RetryBudgetBound` is not inductive: between a test of the budget and its spending
the count does not show what was granted. `RetriesGranted` adds the retries granted
to the worker and to the callback; each can hold one, which is where the "one more" comes from.

*Convergence.* `NoLostWork` needs to know why a decision is still right when it is
sent. `Inductive` adds: the cache is the server minus what is in `watch`
(`CacheTrailsServer`); the key in hand is the only one in `processing` and every
other dirty key is in `order` (`QueueRemembers`); a change list exists only while it
is handed over (`ListOnlyWhenPushing`); and a stale snapshot has its successor queued
(`StaleSyncIsFollowed`). The step that needs most of it is `ListBindings`: a
difference that exists when the list is computed is either in the list
(`DecisionCoversDifference`), or on its way in `watch`, or the snapshot is stale.
A write by the processor can only make a resource differ by putting a change into `watch`.
At rest `watch`, queues and hands are empty, and `NoLostWork` leaves nothing but convergence.

*Retries that come back.* A failure of a domain is forgotten by a sync with an empty change list
only. `BudgetOwed` follows it there: while failures are counted, a sync, an event in a
watch, or an item whose call will end in one of the two is ahead. Items that do nothing any more
are why it takes `TrailsKept` and the versions of the cache: a conflict proves that there is something in the watch.

*Onboarding.* The same argument with one resource, and with the order of versions
(`WatchIsInOrder`) in addition, because an update is an edit of the list that was in the cache:
`ItemsKeepTheirVersion` says that an item which still meets the version it was computed from
adds no entry a second time, and one that does not is refused. `NothingForgotten` has the
differences and the counted failures in one, as both end with the same sync.

*Lists.* `compareServiceLists`, `addServices` and `deleteServices` are recursive functions over
sequences. What they compute for lists of every length is proved without an induction theorem:
if a claim about a prefix failed, it would fail for a least length (`WFMin` of
`WellFoundedInduction`), which is not 0, and one unfolding of the function contradicts it.

*Refinement.* Each step of the controller is a step of `Mirror` or leaves its four variables
alone. `SyncReadDomain` decides; every later step of a sync or of the processor can only lose
intentions, since an item always holds a content that was planned; an API call writes one that
is intended. That a list of changes is computed from what was read (`ListBindings`) and that
retries keep the content of an item are what the proof rests on, with the types.

*Policies of disabled services.* `DisabledHaveNoPolicy` says nothing while the clean-up is under way,
so it is not inductive. `CleanInv` adds what makes the clean-up complete: it decides from
caches that show what the server holds, but for what other people have written since
(`ListedAtStart`), and until it is done it has an item for every policy that must go
(`CleanUpCovers`). Afterwards only items of enabled services get into the API call (`OnlyEnabledInCall`).

*Services and domains in one queue.* A service of `AuthzPolicy` is looked at by the syncs of two
keys, and one error drops the rest of the items. `Inductive` adds to `NoLostWork`: a
process that starts is told of every service before its worker runs (`StartAsksForAll`); what the
sync has read is so, or one of the two keys is asked for (`StaleSyncIsFollowed`); the items in hand are of
its scope and say what it wants (`ItemsAreOfTheSync`), so that a failure loses nothing its
retry would not find; and a service whose retries are partly spent has its own sync ahead, or an
event of the policy that sync has written (`RetriesAreUsed`). The proof attempt corrected
`RetryBudgetRestored`: that the retries are whole whenever the service was not given up
is false as soon as the domain may appear late. The service's own sync spends its retries on
the missing domain, then the sync of the domain puts the service right, and nothing
syncs the key of the service again.

*Overrides.* `OverrideInv` says that the cache shows a protected policy as it is, that no item in
hand would change one, and that the controller never writes the annotation itself, which is
why a policy can become protected only through somebody else. Once somebody has written it the
protection ends: that is the finding of `authz_override`.

*Names.* `NamespaceToDomain` undoes `DomainToNamespace` on every prefix of a domain name, by the
number of its symbols: a "-" becomes "--", which becomes ".." and then "-", and no "." before or
after it can be taken into the pair, because no part of a domain name begins with "-" or is empty. `NamespaceOfAppend`
and `DomainOfAppend` say what one more symbol does. Two domains then have two namespaces, so an event
finds its domain, and a sync of one leaves the resources of the others alone.

*What is out of date.* `OnlyTrustAndTimeAreSilent` compares with what a provider would make now and is not
inductive: nothing in it remembers where the resources came from. `ProvidedUnlessPending` does: without
a key pending, they are what a provider made of the present version of the domain beside some
version of the others, at some moment up to now. `ConfigsFollowTrust` and
`ActiveUntilExpired` then say that two such conversions differ in the subjects of delegated roles and of
roles with expired members only.

*Who gets in.* A policy in step is the set of rules of `ConvertV2`, so its grants can be traced, clause by clause, to an
assertion that permits and to a member in force, and back (`ShowsNoMore`, `ShowsWhatMeans`, `ActiveIsMember`, `UsedIsPermitted` and
`PermittedIsUsed`). `CredentialsDiffer` keeps the two forms of a subject apart, so that each way of showing who one is
is traced to the pattern made for it: `ShowsNoMore` is where the two widenings come in, and nothing else does. For v1 `ConfigsAre` says the same of the concatenated sequence of resources, and that no two
roles have one name makes the binding that is found the one of the role (`KeysOfRoles`). That members of a delegated role hold it
rests on the conversion not having panicked (`MembersHold`).

*Start-up.* `NothingBeforeSync` is strengthened by the goroutines that are past their wait and
have not taken a key yet (`StartedAfterSync`); a panic forgets them together with the caches.

`LibraryLemmas` states once what each operation of the queue, the store and the change list does;
`ProcessorLemmas` what the steps of the processor do with the items, for both controllers that use it.

## What is only model-checked

Liveness (`Converges`, `EveryWorkerStarts`, `StopEndsLoops`) is out of the prover's
reach: TLC shows it on the instances only. The three violations are counterexamples TLC finds.

## What is not modelled, and why

* Log (`pkg/log`): formatting and writing of lines, no state anything here reads.
* URL paths of resources and HTTP methods beyond "one of these": they travel
  from assertion to resource without a decision being taken on them.
* Athenz assertions that deny: both providers skip them, so a deny takes nothing away from
  another assertion's allow. `Permitted` reads Athenz the same way; the model does not
  claim that Athenz would.
* Clusters in which a service is not annotated or not enabled, in `Access`: that is the subject of `AuthzPolicy`.
* The YAML of dry-run files, annotations other than the override, labels, log lines, flags
  but `ap-enabled-list`, `enable-ap-controller`, `enable-origin-jwt-subject` and `dns-suffix`: data no property here tells apart. A
  file is its content.
* The unsynchronised write of `RoleMembers` into the informer's object (`athenz/model.go:103`):
  with syncs as single steps the other worker's value is not seen; a torn slice is outside
  of any model at this level.
* The deletion of the resources of a deleted domain: the code leaves it open
  (`controller.go:97`), so the properties speak of existing domains; that nothing
  is written on behalf of a missing one beyond what was decided before is in `Mirror`.
* Domain and onboarding controller on the one processor they share. Each is checked with a
  processor of its own. Their items name different resources and the processor keeps no state
  between two items, so sharing it can only delay an item, which the interleavings already contain.

## Plan

Done, in this order: work queue, store and change list; processor and domain
controller with their proofs; onboarding; authorization policies; life cycle; names,
Athenz model, providers and access; the abstract mirror and its refinement; the
proofs about authorization policies and the life cycle; the proofs about onboarding and
its list algorithms, and the ones that nothing is lost and that retries come back; the
proofs about names and access.

To do, most important first:

1. An abstract specification of the onboarding and the authorization policy controller, as `Mirror` is of the
   domain controller, and the refinement proved.
2. Lemmas about the operators of `EnabledList` that hold for all inputs.

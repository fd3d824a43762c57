------------------------- MODULE AuthzPolicyProofs -------------------------
(***************************************************************************)
(* What AuthzPolicy guarantees for all services, domains, policies,        *)
(* ap-enabled-lists and bounds: its types, that a service that is not      *)
(* enabled has no policy of the controller, that an override survives, and *)
(* the inductive invariant behind NoLostWork and RetryBudgetRestored.      *)
(***************************************************************************)
EXTENDS AuthzPolicy, LibraryLemmas

\* An item that writes something has something to write.
ItemsWithContent == \A i \in changes : i.op # "delete" => i.spec \in Specs

\* The sync found a domain before it lists the services.
DomainFound == syncPc = "services" => domain \in [CRs -> Policies]

\* Only items of enabled services get as far as the API server.
OnlyEnabledInCall == syncPc = "call" => item \in Item /\ item.cr \in enabled

TypeInv == TypeOK /\ ItemsWithContent /\ DomainFound /\ OnlyEnabledInCall

(***************************************************************************)
(* Helpers.                                                                *)
(***************************************************************************)
LEMMA ScopeType ==
  ASSUME NEW k \in Keys
  PROVE  Scope(k) \in SUBSET CRs /\ DomainOfKey(k) \in Domains
BY DomainOfAssumption DEF Scope, ServicesOf, DomainOfKey, Keys

LEMMA EnabledType == \A e \in EnabledSets : e \subseteq CRs
BY DEF EnabledSets, EnabledBy

LEMMA InitialNotesType == InitialNotes \in [Keys -> Nat]
BY DEF InitialNotes

LEMMA DeletionType ==
  ASSUME NEW s \in CRs
  PROVE  NewItem("delete", s, Absent, 0) \in Item
BY DEF NewItem, Item, Operations

LEMMA SpecType ==
  ASSUME NEW p \in Policies, NEW o \in BOOLEAN
  PROVE  [policy |-> p, override |-> o] \in Specs
BY SpecsAssumption

LEMMA PolicyType ==
  ASSUME NEW s \in Specs
  PROVE  s.policy \in Policies /\ s # Absent
BY SpecsAssumption, AbsentAssumption

LEMMA CurrentType ==
  ASSUME TypeOK, NEW s \in CRs
  PROVE  Current(s) \in Objects
<1>1. CASE s \notin enabled /\ files[s] # Absent
  <2>1. files[s] \in Policies
    BY <1>1 DEF TypeOK
  <2>2. [policy |-> files[s], override |-> FALSE] \in Specs
    BY <2>1, SpecType
  <2>3. QED BY <1>1, <2>2 DEF Current, Objects
<1>2. CASE ~(s \notin enabled /\ files[s] # Absent)
  BY <1>2 DEF Current, NothingThere, Objects, TypeOK, StoreTypeOK
<1>3. QED BY <1>1, <1>2

LEMMA DesiredType ==
  ASSUME TypeOK, NEW s \in CRs
  PROVE  Desired(s) \in Specs \cup {Absent}
<1>1. Overridden(Current(s)) \in BOOLEAN
  BY DEF Overridden
<1>2. CASE want[s] = Absent
  BY <1>2 DEF Desired
<1>3. CASE want[s] # Absent
  <2>1. want[s] \in Policies
    BY <1>3 DEF TypeOK
  <2>2. [policy |-> want[s], override |-> Overridden(Current(s))] \in Specs
    BY <1>1, <2>1, SpecType
  <2>3. QED BY <1>3, <2>2 DEF Desired
<1>4. QED BY <1>2, <1>3

LEMMA ChangesType ==
  ASSUME TypeOK
  PROVE  /\ ChangesOfSync \subseteq Item
         /\ \A i \in ChangesOfSync : i.op # "delete" => i.spec \in Specs
<1> DEFINE h == [s \in CRs |-> Current(s)]
           w == [s \in CRs |-> Desired(s)]
           list == ComputeChangeList(h, w, Scope(syncKey))
<1>1. /\ h \in [CRs -> Objects]
      /\ w \in [CRs -> Specs \cup {Absent}]
      /\ Scope(syncKey) \in SUBSET CRs
  BY CurrentType, DesiredType, ScopeType DEF TypeOK
<1>2. ChangesOfSync \subseteq list
  BY DEF ChangesOfSync
<1> HIDE DEF h, w
<1>3. list \subseteq Item
  BY <1>1, ComputeChangeListType
<1>4. \A i \in list : i.op # "delete" => i.spec \in Specs
  BY <1>1 DEF ComputeChangeList, Additions, Updates, Deletions, NewItem
<1>5. QED BY <1>2, <1>3, <1>4

(***************************************************************************)
(* Types.                                                                  *)
(***************************************************************************)
LEMMA InitType == Init => TypeInv
<1> SUFFICES ASSUME Init PROVE TypeInv
  OBVIOUS
<1>1. StoreTypeOK
  BY DEF Init, StoreInit, StoreTypeOK, Objects
<1>2. queue \in WorkQueueType(Keys)
  BY DEF Init, EmptyQueue, WorkQueueType
<1>3. /\ files \in [CRs -> Policies \cup {Absent}]
      /\ want \in [CRs -> Policies \cup {Absent}]
  BY DEF Init, NoFiles, NothingWanted
<1>4. TypeOK
  BY <1>1, <1>2, <1>3, InitialNotesType, EnabledType DEF Init, TypeOK, Keys
<1>5. QED BY <1>4 DEF Init, TypeInv, ItemsWithContent, DomainFound, OnlyEnabledInCall

LEMMA StoreUnchanged == StoreTypeOK /\ UNCHANGED storeVars => StoreTypeOK'
BY DEF StoreTypeOK, storeVars

\* What a process finds when it starts.
LEMMA StartsType ==
  ASSUME TypeInv, Starts, enabled' \subseteq CRs, edits' \in Nat
  PROVE  TypeInv'
<1>1. StoreTypeOK'
  BY DEF TypeInv, TypeOK, StoreTypeOK, Starts, CacheRelists
<1>2. queue' \in WorkQueueType(Keys)
  BY DEF Starts, EmptyQueue, WorkQueueType
<1>3. /\ files' \in [CRs -> Policies \cup {Absent}]
      /\ want' \in [CRs -> Policies \cup {Absent}]
  BY DEF Starts, NoFiles, NothingWanted
<1>4. TypeOK'
  BY <1>1, <1>2, <1>3, InitialNotesType DEF TypeInv, TypeOK, Starts
<1>5. QED BY <1>4 DEF Starts, TypeInv, ItemsWithContent, DomainFound, OnlyEnabledInCall

\* An action that writes at most one object, drops its item and may end the sync.
LEMMA WriteType ==
  ASSUME TypeInv, NEW i \in Item, UNCHANGED storeVars \/ ServerWrites(i.cr, i.spec)
  PROVE  StoreTypeOK'
<1>1. i.cr \in CRs /\ i.spec \in Specs \cup {Absent} /\ StoreTypeOK
  BY DEF Item, TypeInv, TypeOK
<1>2. QED BY <1>1, StoreUnchanged, ServerWritesProperties

LEMMA SurroundingsType ==
  ASSUME TypeInv,
         \/ \E d \in Domains : AthenzDomainChanges(d) \/ Resync(d)
         \/ \E s \in CRs : ServiceChanges(s) \/ ExternalEdit(s) \/ Deliver(s)
         \/ \E k \in Keys : Notify(k) \/ QueueBackoffOver(k)
  PROVE  TypeInv'
<1> USE DEF TypeInv, ItemsWithContent, DomainFound, OnlyEnabledInCall
<1>0. Domains \subseteq Keys /\ CRs \subseteq Keys
  BY DEF Keys
<1>1. ASSUME NEW d \in Domains, AthenzDomainChanges(d) PROVE TypeInv'
  BY <1>0, <1>1, StoreUnchanged DEF TypeOK, AthenzDomainChanges, Edited, Happens, syncVars
<1>2. ASSUME NEW d \in Domains, Resync(d) PROVE TypeInv'
  <2>1. queue' \in WorkQueueType(Keys)
    BY <1>0, <1>2, QueueAddProperties DEF TypeOK, Resync
  <2>2. QED BY <1>2, <2>1, StoreUnchanged DEF TypeOK, Resync, syncVars, surroundingVars
<1>3. ASSUME NEW s \in CRs, ServiceChanges(s) PROVE TypeInv'
  BY <1>0, <1>3, StoreUnchanged DEF TypeOK, ServiceChanges, Edited, Happens, syncVars
<1>4. ASSUME NEW s \in CRs, ExternalEdit(s) PROVE TypeInv'
  <2>1. StoreTypeOK'
    BY <1>4, ServerWritesProperties DEF ExternalEdit, TypeOK
  <2>2. QED BY <1>4, <2>1 DEF TypeOK, ExternalEdit, Edited, syncVars
<1>5. ASSUME NEW s \in CRs, Deliver(s) PROVE TypeInv'
  <2>1. StoreTypeOK'
    BY <1>5, CacheReceivesProperties DEF Deliver, TypeOK
  <2>2. QED BY <1>0, <1>5, <2>1 DEF TypeOK, Deliver, Happens, syncVars
<1>6. ASSUME NEW k \in Keys, Notify(k) PROVE TypeInv'
  <2>1. queue' \in WorkQueueType(Keys)
    BY <1>6, QueueAddProperties DEF TypeOK, Notify
  <2>2. QED BY <1>6, <2>1, StoreUnchanged DEF TypeOK, Notify, syncVars
<1>7. ASSUME NEW k \in Keys, QueueBackoffOver(k) PROVE TypeInv'
  <2>1. queue' \in WorkQueueType(Keys)
    BY <1>7, BackoffOverProperties DEF TypeOK, QueueBackoffOver
  <2>2. QED BY <1>7, <2>1, StoreUnchanged DEF TypeOK, QueueBackoffOver, syncVars, surroundingVars
<1>8. QED BY <1>1, <1>2, <1>3, <1>4, <1>5, <1>6, <1>7

LEMMA CleanUpType ==
  ASSUME TypeInv, CleanUp \/ CleanUpPanics
  PROVE  TypeInv'
<1> USE DEF TypeInv, ItemsWithContent, DomainFound, OnlyEnabledInCall, surroundingVars
<1>1. CASE CleanUpList
  <2>1. changes' \subseteq Item /\ \A i \in changes' : i.op = "delete"
    BY <1>1, DeletionType DEF CleanUpList, NewItem
  <2>2. QED BY <1>1, <2>1, StoreUnchanged DEF TypeOK, CleanUpList
<1>2. CASE CleanUpDeletes
  <2>1. PICK i \in changes : ServerWrites(i.cr, i.spec) /\ changes' = changes \ {i}
    BY <1>2 DEF CleanUpDeletes
  <2>2. StoreTypeOK'
    BY <2>1, WriteType DEF TypeOK
  <2>3. QED BY <1>2, <2>1, <2>2 DEF TypeOK, CleanUpDeletes
<1>3. CASE CleanUpDone
  BY <1>3, StoreUnchanged DEF TypeOK, CleanUpDone
<1>4. CASE CleanUpPanics
  <2>1. PICK i \in changes : UNCHANGED storeVars \/ ServerWrites(i.cr, i.spec)
    BY <1>4 DEF CleanUpPanics
  <2>2. StoreTypeOK'
    BY <2>1, WriteType DEF TypeOK
  <2>3. faults' \in Nat
    BY <1>4 DEF CleanUpPanics, TypeOK
  <2>4. QED BY <1>4, <2>2, <2>3 DEF TypeOK, CleanUpPanics
<1>5. QED BY <1>1, <1>2, <1>3, <1>4 DEF CleanUp

LEMMA DecisionType ==
  ASSUME TypeInv, SyncGet \/ SyncMissing \/ SyncReadDomain \/ SyncListServices \/ SyncListCurrent
  PROVE  TypeInv'
<1> USE DEF TypeInv, ItemsWithContent, DomainFound, OnlyEnabledInCall, surroundingVars
<1>1. CASE SyncGet
  <2>1. queue' \in WorkQueueType(Keys) /\ syncKey' \in Keys
    BY <1>1, QueueGetProperties DEF TypeOK, SyncGet
  <2>2. QED BY <1>1, <2>1, StoreUnchanged DEF TypeOK, SyncGet
<1>2. CASE SyncMissing
  BY <1>2, StoreUnchanged DEF TypeOK, SyncMissing
<1>3. CASE SyncReadDomain
  <2>1. domain' \in [CRs -> Policies]
    BY <1>3, ScopeType DEF TypeOK, SyncReadDomain
  <2>2. QED BY <1>3, <2>1, StoreUnchanged DEF TypeOK, SyncReadDomain
<1>4. CASE SyncListServices
  <2>1. want' \in [CRs -> Policies \cup {Absent}]
    BY <1>4 DEF SyncListServices
  <2>2. QED BY <1>4, <2>1, StoreUnchanged DEF TypeOK, SyncListServices
<1>5. CASE SyncListCurrent
  <2>1. changes' \subseteq Item /\ \A i \in changes' : i.op # "delete" => i.spec \in Specs
    BY <1>5, ChangesType DEF SyncListCurrent
  <2>2. queue' \in WorkQueueType(Keys)
    BY <1>5, ForgetProperties DEF TypeOK, SyncListCurrent
  <2>3. QED BY <1>5, <2>1, <2>2, StoreUnchanged DEF TypeOK, SyncListCurrent
<1>6. QED BY <1>1, <1>2, <1>3, <1>4, <1>5

LEMMA ItemsType ==
  ASSUME TypeInv,
         DryRun \/ DryRunFails \/ ApiSends \/ UpdatePanics \/ ApiAccepts \/ ApiRefuses \/ ApiFails
  PROVE  TypeInv'
<1> USE DEF TypeInv, ItemsWithContent, DomainFound, OnlyEnabledInCall, surroundingVars
<1>1. CASE DryRun
  <2>1. PICK i \in changes :
          /\ files' = [files EXCEPT ![i.cr] = IF i.op = "delete" THEN Absent ELSE i.spec.policy]
          /\ changes' = changes \ {i}
    BY <1>1 DEF DryRun
  <2>2. i.op # "delete" => i.spec.policy \in Policies
    BY PolicyType
  <2>3. files' \in [CRs -> Policies \cup {Absent}]
    BY <2>1, <2>2 DEF TypeOK
  <2>4. QED BY <1>1, <2>1, <2>3, StoreUnchanged DEF TypeOK, DryRun
<1>2. CASE DryRunFails
  BY <1>2, StoreUnchanged DEF TypeOK, DryRunFails
<1>3. CASE ApiSends
  <2>1. PICK i \in changes :
          /\ i.cr \in enabled
          /\ item' = IF i.op = "update" THEN [i EXCEPT !.rev = cache[i.cr].rev] ELSE i
          /\ changes' = changes \ {i}
    BY <1>3 DEF ApiSends, ApiServices
  <2>2. i \in Item /\ cache[i.cr].rev \in Nat
    BY DEF TypeOK, StoreTypeOK, Objects, Item
  <2>3. item' \in Item /\ item'.cr = i.cr
    BY <2>1, <2>2 DEF Item
  <2>4. QED BY <1>3, <2>1, <2>3, StoreUnchanged DEF TypeOK, ApiSends
<1>4. CASE UpdatePanics
  BY <1>4, StoreUnchanged DEF TypeOK, UpdatePanics
<1>5. CASE ApiAccepts
  <2>1. StoreTypeOK'
    BY <1>5, WriteType DEF ApiAccepts
  <2>2. QED BY <1>5, <2>1 DEF TypeOK, ApiAccepts
<1>6. CASE ApiRefuses
  BY <1>6, StoreUnchanged DEF TypeOK, ApiRefuses
<1>7. CASE ApiFails
  <2>1. StoreTypeOK'
    BY <1>7, WriteType DEF ApiFails
  <2>2. QED BY <1>7, <2>1 DEF TypeOK, ApiFails
<1>8. QED BY <1>1, <1>2, <1>3, <1>4, <1>5, <1>6, <1>7

LEMMA EndOfSyncType ==
  ASSUME TypeInv, SyncRetries \/ SyncGivesUp \/ SyncDone
  PROVE  TypeInv'
<1> USE DEF TypeInv, ItemsWithContent, DomainFound, OnlyEnabledInCall, surroundingVars
<1>1. CASE SyncRetries
  <2>1. queue' \in WorkQueueType(Keys)
    BY <1>1, AddRateLimitedProperties DEF TypeOK, SyncRetries
  <2>2. QED BY <1>1, <2>1, StoreUnchanged DEF TypeOK, SyncRetries
<1>2. CASE SyncGivesUp
  BY <1>2, ScopeType, StoreUnchanged DEF TypeOK, SyncGivesUp
<1>3. CASE SyncDone
  <2>1. queue' \in WorkQueueType(Keys)
    BY <1>3, QueueDoneProperties DEF TypeOK, SyncDone
  <2>2. want' \in [CRs -> Policies \cup {Absent}]
    BY <1>3 DEF SyncDone, NothingWanted
  <2>3. QED BY <1>3, <2>1, <2>2, StoreUnchanged DEF TypeOK, SyncDone
<1>4. QED BY <1>1, <1>2, <1>3

LEMMA NextType == TypeInv /\ [Next]_vars => TypeInv'
<1> SUFFICES ASSUME TypeInv, [Next]_vars PROVE TypeInv'
  OBVIOUS
<1>1. CASE Restart
  BY <1>1, StartsType, EnabledType DEF Restart, Edited, TypeInv, TypeOK
<1>2. CASE RestartAfterPanic
  BY <1>2, StartsType DEF RestartAfterPanic, TypeInv, TypeOK
<1>3. CASE UNCHANGED vars
  BY <1>3, StoreUnchanged
  DEF TypeInv, TypeOK, ItemsWithContent, DomainFound, OnlyEnabledInCall, vars, surroundingVars,
      syncVars
<1>4. QED
  BY <1>1, <1>2, <1>3, SurroundingsType, CleanUpType, DecisionType, ItemsType, EndOfSyncType
  DEF Next, Surroundings, Worker

(***************************************************************************)
(* A sync that goes on has what it needs: a domain it found, a content for *)
(* each item that writes, and an enabled service for each call.            *)
(***************************************************************************)
THEOREM SyncsAreEquipped == Spec => []TypeInv
BY InitType, NextType, PTL DEF Spec

(***************************************************************************)
(* Every variable of the controller has its type.                          *)
(***************************************************************************)
THEOREM AuthzTypeCorrect == Spec => []TypeOK
<1>1. TypeInv => TypeOK
  BY DEF TypeInv
<1>2. QED BY <1>1, SyncsAreEquipped, PTL

(***************************************************************************)
(* A service that is not enabled has no policy.  The clean-up reads caches *)
(* that hold what the server holds, but for what other people have written *)
(* since; it has an item for every policy it must remove until it removes  *)
(* it; and nothing the worker does afterwards writes for such a service.   *)
(***************************************************************************)
ListedAtStart ==
  syncPc = "start" => \A s \in CRs \ edited : cache[s] = server[s] /\ watch[s] = <<>>

Allowed(s) == server[s].spec # Absent => Overridden(server[s]) \/ s \in edited

CleanUpCovers ==
  syncPc = "cleanup" =>
    /\ \A i \in changes : i.spec = Absent
    /\ \A s \in CRs \ enabled : Allowed(s) \/ \E i \in changes : i.cr = s

CleanInv == ListedAtStart /\ CleanUpCovers /\ DisabledHaveNoPolicy

LEMMA InitClean == Init => CleanInv
BY DEF Init, StoreInit, CleanInv, ListedAtStart, CleanUpCovers, DisabledHaveNoPolicy

\* Whatever leaves the phase, the policies of disabled services and the record
\* of what other people wrote alone.
LEMMA NothingWritten ==
  ASSUME CleanInv, syncPc \notin {"start", "cleanup"}, UNCHANGED <<enabled, edited>>,
         syncPc' \notin {"start", "cleanup"}, syncPc # "panic" \/ syncPc' = "panic",
         \A s \in CRs \ enabled : server'[s] = server[s]
  PROVE  CleanInv'
BY DEF CleanInv, ListedAtStart, CleanUpCovers, DisabledHaveNoPolicy, Overridden

LEMMA SamePhase ==
  ASSUME CleanInv, UNCHANGED <<storeVars, enabled, edited, changes, syncPc>>
  PROVE  CleanInv'
BY DEF CleanInv, ListedAtStart, CleanUpCovers, Allowed, DisabledHaveNoPolicy, Overridden, storeVars

LEMMA StartsClean == Starts => CleanInv'
BY DEF Starts, CacheRelists, CleanInv, ListedAtStart, CleanUpCovers, DisabledHaveNoPolicy

LEMMA SurroundingsClean ==
  ASSUME TypeInv, CleanInv,
         \/ \E d \in Domains : AthenzDomainChanges(d) \/ Resync(d)
         \/ \E s \in CRs : ServiceChanges(s) \/ ExternalEdit(s) \/ Deliver(s)
         \/ \E k \in Keys : Notify(k) \/ QueueBackoffOver(k)
  PROVE  CleanInv'
<1>1. ASSUME NEW d \in Domains, AthenzDomainChanges(d) \/ Resync(d) PROVE CleanInv'
  BY <1>1, SamePhase DEF AthenzDomainChanges, Resync, syncVars, surroundingVars
<1>2. ASSUME NEW s \in CRs, ServiceChanges(s) PROVE CleanInv'
  BY <1>2, SamePhase DEF ServiceChanges, syncVars
<1>3. ASSUME NEW k \in Keys, Notify(k) \/ QueueBackoffOver(k) PROVE CleanInv'
  BY <1>3, SamePhase DEF Notify, QueueBackoffOver, syncVars, surroundingVars
<1>4. ASSUME NEW s \in CRs, ExternalEdit(s) PROVE CleanInv'
  <2>1. /\ UNCHANGED <<enabled, changes, syncPc, cache>>
        /\ edited' = edited \cup {s}
        /\ \A r \in CRs \ {s} : server'[r] = server[r] /\ watch'[r] = watch[r]
    BY <1>4, ServerWritesProperties DEF TypeInv, TypeOK, ExternalEdit, syncVars
  <2>2. QED
    BY <2>1 DEF CleanInv, ListedAtStart, CleanUpCovers, Allowed, DisabledHaveNoPolicy, Overridden
<1>5. ASSUME NEW s \in CRs, Deliver(s) PROVE CleanInv'
  <2>1. /\ UNCHANGED <<enabled, edited, changes, syncPc, server>>
        /\ watch[s] # <<>>
        /\ \A r \in CRs \ {s} : cache'[r] = cache[r] /\ watch'[r] = watch[r]
    BY <1>5, CacheReceivesProperties DEF TypeInv, TypeOK, Deliver, CacheReceives, syncVars
  <2>2. QED
    BY <2>1 DEF CleanInv, ListedAtStart, CleanUpCovers, Allowed, DisabledHaveNoPolicy, Overridden
<1>6. QED BY <1>1, <1>2, <1>3, <1>4, <1>5

LEMMA CleanUpClean ==
  ASSUME TypeInv, CleanInv, CleanUp \/ CleanUpPanics
  PROVE  CleanInv'
<1>1. CASE CleanUpList
  <2> DEFINE stale == {x \in CRs \ enabled : cache[x].spec # Absent /\ ~Overridden(cache[x])}
  <2>1. /\ changes' = {NewItem("delete", s, Absent, 0) : s \in stale}
        /\ syncPc = "start" /\ syncPc' = "cleanup"
        /\ UNCHANGED <<server, cache, enabled, edited>>
    BY <1>1 DEF CleanUpList, storeVars, surroundingVars
  <2>2. \A i \in changes' : i.spec = Absent
    BY <2>1 DEF NewItem
  <2>3. ASSUME NEW s \in CRs \ enabled, ~Allowed(s) PROVE \E i \in changes' : i.cr = s
    <3>1. s \in stale
      BY <2>1, <2>3 DEF Allowed, CleanInv, ListedAtStart
    <3>2. NewItem("delete", s, Absent, 0) \in changes' /\ NewItem("delete", s, Absent, 0).cr = s
      BY <2>1, <3>1 DEF NewItem
    <3>3. QED BY <3>2
  <2>4. \A s \in CRs \ enabled : Allowed(s) => Allowed(s)'
    BY <2>1 DEF Allowed, Overridden
  <2>5. CleanUpCovers'
    BY <2>1, <2>2, <2>3, <2>4 DEF CleanUpCovers
  <2>6. QED BY <2>1, <2>5 DEF CleanInv, ListedAtStart, DisabledHaveNoPolicy
<1>2. CASE CleanUpDeletes
  <2>1. PICK i \in changes : ServerWrites(i.cr, i.spec) /\ changes' = changes \ {i}
    BY <1>2 DEF CleanUpDeletes
  <2>2. i.spec = Absent /\ i.cr \in CRs /\ StoreTypeOK
    BY <1>2 DEF CleanUpDeletes, CleanInv, CleanUpCovers, TypeInv, TypeOK, Item
  <2>3. /\ server'[i.cr] = [rev |-> server[i.cr].rev + 1, spec |-> Absent]
        /\ \A s \in CRs \ {i.cr} : server'[s] = server[s]
    BY <2>1, <2>2, ServerWritesProperties
  <2>4. syncPc = "cleanup" /\ UNCHANGED <<syncPc, enabled, edited>>
    BY <1>2 DEF CleanUpDeletes, surroundingVars
  <2>5. Allowed(i.cr)'
    BY <2>3 DEF Allowed
  <2>6. ASSUME NEW s \in CRs \ enabled, s # i.cr
        PROVE  Allowed(s)' \/ \E j \in changes' : j.cr = s
    <3>1. Allowed(s) \/ \E j \in changes : j.cr = s
      BY <2>4, <2>6 DEF CleanInv, CleanUpCovers
    <3>2. Allowed(s) => Allowed(s)'
      BY <2>3, <2>4, <2>6 DEF Allowed, Overridden
    <3>3. QED BY <2>1, <2>6, <3>1, <3>2
  <2>7. \A j \in changes' : j.spec = Absent
    BY <2>1, <2>4 DEF CleanInv, CleanUpCovers
  <2>8. CleanUpCovers'
    BY <2>4, <2>5, <2>6, <2>7 DEF CleanUpCovers
  <2>9. QED BY <2>4, <2>8 DEF CleanInv, ListedAtStart, DisabledHaveNoPolicy
<1>3. CASE CleanUpDone
  <2>1. syncPc = "cleanup" /\ changes = {} /\ syncPc' = "idle" /\ UNCHANGED <<server, enabled, edited>>
    BY <1>3 DEF CleanUpDone, storeVars, surroundingVars
  <2>2. \A s \in CRs \ enabled : Allowed(s)
    BY <2>1 DEF CleanInv, CleanUpCovers
  <2>3. QED
    BY <2>1, <2>2
    DEF CleanInv, ListedAtStart, CleanUpCovers, Allowed, DisabledHaveNoPolicy, Overridden
<1>4. CASE CleanUpPanics
  BY <1>4 DEF CleanUpPanics, CleanInv, ListedAtStart, CleanUpCovers, DisabledHaveNoPolicy
<1>5. QED BY <1>1, <1>2, <1>3, <1>4 DEF CleanUp

\* The worker writes for enabled services only.
LEMMA WorkerClean ==
  ASSUME TypeInv, CleanInv, Worker \/ DryRunFails \/ ApiFails
  PROVE  CleanInv'
<1> USE DEF storeVars, surroundingVars
<1>1. CASE SyncGet \/ SyncMissing \/ SyncReadDomain \/ SyncListServices \/ SyncListCurrent
  BY <1>1, NothingWritten
  DEF SyncGet, SyncMissing, SyncReadDomain, SyncListServices, SyncListCurrent
<1>2. CASE DryRun \/ DryRunFails \/ ApiSends \/ UpdatePanics \/ ApiRefuses
  BY <1>2, NothingWritten DEF DryRun, DryRunFails, ApiSends, UpdatePanics, ApiRefuses, NextItem
<1>3. CASE SyncRetries \/ SyncGivesUp \/ SyncDone
  BY <1>3, NothingWritten DEF SyncRetries, SyncGivesUp, SyncDone
<1>4. ASSUME syncPc = "call", UNCHANGED storeVars \/ ServerWrites(item.cr, item.spec)
      PROVE  \A s \in CRs \ enabled : server'[s] = server[s]
  <2>1. /\ StoreTypeOK
        /\ item.cr \in CRs /\ item.cr \in enabled /\ item.spec \in Specs \cup {Absent}
    BY <1>4 DEF TypeInv, TypeOK, OnlyEnabledInCall, Item
  <2>2. QED BY <1>4, <2>1, ServerWritesProperties
<1>5. CASE ApiAccepts \/ ApiFails
  BY <1>4, <1>5, NothingWritten DEF ApiAccepts, ApiFails
<1>6. QED BY <1>1, <1>2, <1>3, <1>5 DEF Worker

LEMMA NextClean == TypeInv /\ CleanInv /\ [Next]_vars => CleanInv'
<1> SUFFICES ASSUME TypeInv, CleanInv, [Next]_vars PROVE CleanInv'
  OBVIOUS
<1>1. CASE Restart \/ RestartAfterPanic
  BY <1>1, StartsClean DEF Restart, RestartAfterPanic
<1>2. CASE UNCHANGED vars
  BY <1>2, SamePhase DEF vars, surroundingVars, syncVars
<1>3. QED
  BY <1>1, <1>2, SurroundingsClean, CleanUpClean, WorkerClean DEF Next, Surroundings

(***************************************************************************)
(* However often the process restarts, panics in its clean-up or fails,    *)
(* and whatever the flag ap-enabled-list says each time: a service that is *)
(* not enabled has no policy but one that is overridden or was made by     *)
(* someone else since.                                                     *)
(***************************************************************************)
THEOREM DisabledStayWithoutPolicy == Spec => []DisabledHaveNoPolicy
<1>1. CleanInv => DisabledHaveNoPolicy
  BY DEF CleanInv
<1>2. Init /\ [][Next]_vars /\ []TypeInv => []CleanInv
  BY InitClean, NextClean, PTL
<1>3. QED BY <1>1, <1>2, SyncsAreEquipped, PTL DEF Spec

(***************************************************************************)
(* An override survives.  The cache shows a policy that carries the        *)
(* annotation as it is, as long as nobody has written it, so that no sync  *)
(* of an enabled service and no clean-up has an item that would change it; *)
(* what the controller itself writes never carries the annotation.         *)
(***************************************************************************)
Protected(s) == Overridden(server[s]) /\ s \notin edited

CacheShowsProtected == \A s \in CRs : Protected(s) => cache[s] = server[s] /\ watch[s] = <<>>

NoneAnnotates ==
  /\ \A i \in changes : ~Overridden(i)
  /\ syncPc = "call" => ~Overridden(item)

NoneChangesProtected ==
  /\ \A i \in changes : Protected(i.cr) =>
       IF syncPc = "cleanup" THEN FALSE ELSE i.cr \in enabled => i.op = "add"
  /\ syncPc = "call" /\ Protected(item.cr) => item.op = "add"

OverrideInv == CacheShowsProtected /\ NoneAnnotates /\ NoneChangesProtected

ProtectedStay == \A s \in CRs : Overridden(server[s]) /\ s \notin edited' => server'[s] = server[s]

LEMMA InitOverride == Init => OverrideInv
BY DEF Init, StoreInit, OverrideInv, CacheShowsProtected, NoneAnnotates, NoneChangesProtected

LEMMA StartsOverride == Starts => OverrideInv' /\ ProtectedStay
BY DEF Starts, CacheRelists, OverrideInv, CacheShowsProtected, NoneAnnotates,
       NoneChangesProtected, ProtectedStay

\* Whatever leaves the store alone and takes no item up.
LEMMA NoNewItem ==
  ASSUME TypeInv, OverrideInv, UNCHANGED <<storeVars, enabled, edited>>,
         changes' \subseteq changes, syncPc' # "call" \/ UNCHANGED <<syncPc, item>>,
         syncPc' = "cleanup" => syncPc = "cleanup"
  PROVE  OverrideInv' /\ ProtectedStay
<1>1. \A s : Protected(s)' <=> Protected(s)
  BY DEF Protected, Overridden, storeVars
<1>2. CacheShowsProtected'
  BY <1>1 DEF OverrideInv, CacheShowsProtected, storeVars
<1>3. NoneAnnotates'
  BY DEF OverrideInv, NoneAnnotates, Overridden
<1>4. NoneChangesProtected'
  BY <1>1 DEF OverrideInv, NoneChangesProtected
<1>5. QED BY <1>2, <1>3, <1>4 DEF OverrideInv, ProtectedStay, storeVars

\* Whatever writes an object that is not protected, from an item that does not annotate.
LEMMA WritesOverride ==
  ASSUME TypeInv, OverrideInv, NEW i \in Item, ~Overridden(i), ~Protected(i.cr),
         ServerWrites(i.cr, i.spec), UNCHANGED <<enabled, edited>>,
         changes' \subseteq changes, syncPc' # "call", syncPc' = "cleanup" => syncPc = "cleanup"
  PROVE  OverrideInv' /\ ProtectedStay
<1>1. /\ StoreTypeOK
      /\ i.cr \in CRs /\ i.spec \in Specs \cup {Absent}
  BY DEF TypeInv, TypeOK, Item
<1>2. /\ cache' = cache
      /\ server'[i.cr].spec = i.spec
      /\ \A s \in CRs \ {i.cr} : server'[s] = server[s] /\ watch'[s] = watch[s]
  <2>1. /\ cache' = cache
        /\ server'[i.cr] = [rev |-> server[i.cr].rev + 1, spec |-> i.spec]
        /\ \A s \in CRs \ {i.cr} : server'[s] = server[s] /\ watch'[s] = watch[s]
    BY <1>1, ServerWritesProperties
  <2>2. QED BY <2>1
<1>3. ~Protected(i.cr)'
  <2>1. ~Overridden(server'[i.cr])
    BY <1>2 DEF Overridden
  <2>2. QED BY <2>1 DEF Protected, Overridden
<1>4. \A s \in CRs \ {i.cr} : Protected(s)' <=> Protected(s)
  BY <1>2 DEF Protected, Overridden
<1>5. CacheShowsProtected'
  BY <1>2, <1>3, <1>4 DEF OverrideInv, CacheShowsProtected
<1>6. NoneAnnotates'
  BY DEF OverrideInv, NoneAnnotates, Overridden
<1>7. \A j \in changes' : j.cr \in CRs
  BY DEF TypeInv, TypeOK, Item
<1>8. NoneChangesProtected'
  BY <1>3, <1>4, <1>7 DEF OverrideInv, NoneChangesProtected
<1>9. ProtectedStay
  BY <1>2 DEF ProtectedStay, Protected
<1>10. QED BY <1>5, <1>6, <1>8, <1>9 DEF OverrideInv

LEMMA SurroundingsOverride ==
  ASSUME TypeInv, OverrideInv,
         \/ \E d \in Domains : AthenzDomainChanges(d) \/ Resync(d)
         \/ \E s \in CRs : ServiceChanges(s) \/ ExternalEdit(s) \/ Deliver(s)
         \/ \E k \in Keys : Notify(k) \/ QueueBackoffOver(k)
  PROVE  OverrideInv' /\ ProtectedStay
<1>1. ASSUME NEW d \in Domains, AthenzDomainChanges(d) \/ Resync(d)
      PROVE  OverrideInv' /\ ProtectedStay
  BY <1>1, NoNewItem DEF AthenzDomainChanges, Resync, syncVars, surroundingVars
<1>2. ASSUME NEW s \in CRs, ServiceChanges(s) PROVE OverrideInv' /\ ProtectedStay
  BY <1>2, NoNewItem DEF ServiceChanges, syncVars
<1>3. ASSUME NEW k \in Keys, Notify(k) \/ QueueBackoffOver(k) PROVE OverrideInv' /\ ProtectedStay
  BY <1>3, NoNewItem DEF Notify, QueueBackoffOver, syncVars, surroundingVars
<1>4. \A i \in changes : i.cr \in CRs
  BY DEF TypeInv, TypeOK, Item
<1>5. syncPc = "call" => item.cr \in CRs
  BY DEF TypeInv, OnlyEnabledInCall, Item
<1>6. ASSUME NEW s \in CRs, ExternalEdit(s) PROVE OverrideInv' /\ ProtectedStay
  <2>1. /\ UNCHANGED <<enabled, changes, item, syncPc, cache>>
        /\ edited' = edited \cup {s}
        /\ \A r \in CRs \ {s} : server'[r] = server[r] /\ watch'[r] = watch[r]
    BY <1>6, ServerWritesProperties DEF TypeInv, TypeOK, ExternalEdit, syncVars
  <2>2. ~Protected(s)' /\ \A r \in CRs \ {s} : Protected(r)' <=> Protected(r)
    BY <2>1 DEF Protected, Overridden
  <2>3. CacheShowsProtected' /\ ProtectedStay
    BY <2>1, <2>2 DEF OverrideInv, CacheShowsProtected, ProtectedStay
  <2>4. NoneAnnotates'
    BY <2>1 DEF OverrideInv, NoneAnnotates, Overridden
  <2>5. NoneChangesProtected'
    BY <1>4, <1>5, <2>1, <2>2 DEF OverrideInv, NoneChangesProtected
  <2>6. QED BY <2>3, <2>4, <2>5 DEF OverrideInv
<1>7. ASSUME NEW s \in CRs, Deliver(s) PROVE OverrideInv' /\ ProtectedStay
  <2>1. /\ UNCHANGED <<enabled, edited, changes, item, syncPc, server>>
        /\ watch[s] # <<>>
        /\ \A r \in CRs \ {s} : cache'[r] = cache[r] /\ watch'[r] = watch[r]
    BY <1>7, CacheReceivesProperties DEF TypeInv, TypeOK, Deliver, CacheReceives, syncVars
  <2>2. \A r : Protected(r)' <=> Protected(r)
    BY <2>1 DEF Protected, Overridden
  <2>3. CacheShowsProtected' /\ ProtectedStay
    BY <2>1, <2>2 DEF OverrideInv, CacheShowsProtected, ProtectedStay
  <2>4. NoneAnnotates' /\ NoneChangesProtected'
    BY <2>1, <2>2 DEF OverrideInv, NoneAnnotates, NoneChangesProtected, Overridden
  <2>5. QED BY <2>3, <2>4 DEF OverrideInv
<1>8. QED BY <1>1, <1>2, <1>3, <1>6, <1>7

LEMMA CleanUpOverride ==
  ASSUME TypeInv, OverrideInv, CleanUp \/ CleanUpPanics
  PROVE  OverrideInv' /\ ProtectedStay
<1> USE DEF surroundingVars
<1>1. CASE CleanUpList
  <2> DEFINE stale == {x \in CRs \ enabled : cache[x].spec # Absent /\ ~Overridden(cache[x])}
  <2>1. /\ changes' = {NewItem("delete", s, Absent, 0) : s \in stale}
        /\ syncPc' = "cleanup" /\ UNCHANGED <<storeVars, enabled, edited>>
    BY <1>1 DEF CleanUpList
  <2>2. \A s : Protected(s)' <=> Protected(s)
    BY <2>1 DEF Protected, Overridden, storeVars
  <2>3. \A s \in stale : ~Protected(s)
    BY DEF OverrideInv, CacheShowsProtected, Protected
  <2>4. \A i \in changes' : i.cr \in stale /\ ~Overridden(i)
    BY <2>1 DEF NewItem, Overridden
  <2>5. QED
    BY <2>1, <2>2, <2>3, <2>4
    DEF OverrideInv, CacheShowsProtected, NoneAnnotates, NoneChangesProtected, ProtectedStay,
        Overridden, storeVars
<1>2. CASE CleanUpDone
  BY <1>2, NoNewItem DEF CleanUpDone
<1>3. ASSUME NEW i \in changes, syncPc = "cleanup"
      PROVE  i \in Item /\ ~Overridden(i) /\ ~Protected(i.cr)
  BY <1>3 DEF TypeInv, TypeOK, OverrideInv, NoneAnnotates, NoneChangesProtected
<1>4. CASE CleanUpDeletes
  BY <1>3, <1>4, WritesOverride DEF CleanUpDeletes
<1>5. CASE CleanUpPanics
  BY <1>3, <1>5, WritesOverride, NoNewItem DEF CleanUpPanics
<1>6. QED BY <1>1, <1>2, <1>4, <1>5 DEF CleanUp

\* The check of the annotation, applied to what an enabled service has.
LEMMA DecisionSparesProtected ==
  ASSUME TypeInv, OverrideInv
  PROVE  \A i \in ChangesOfSync :
           ~Overridden(i) /\ (Protected(i.cr) /\ i.cr \in enabled => i.op = "add")
<1> DEFINE h == [s \in CRs |-> Current(s)]
           w == [s \in CRs |-> Desired(s)]
<1>1. Scope(syncKey) \subseteq CRs
  BY ScopeType DEF TypeInv, TypeOK
<1>2. SUFFICES ASSUME NEW i \in ChangesOfSync
               PROVE  ~Overridden(i) /\ (Protected(i.cr) /\ i.cr \in enabled => i.op = "add")
  OBVIOUS
<1>3. i \in ComputeChangeList(h, w, Scope(syncKey)) /\ (i.op = "add" \/ ~Overridden(Current(i.cr)))
  BY DEF ChangesOfSync
<1>4. /\ i.cr \in CRs
      /\ i.op = "add" => i.spec = Desired(i.cr) /\ Current(i.cr).spec = Absent
      /\ i.op = "update" => i.spec = Desired(i.cr)
      /\ i.op = "delete" => i.spec = Absent
      /\ i.op \in {"add", "update", "delete"}
  <2>1. \A r \in CRs : h[r] = Current(r) /\ w[r] = Desired(r)
    OBVIOUS
  <2> HIDE DEF h, w
  <2>2. CASE i \in Additions(h, w, Scope(syncKey))
    BY <1>1, <2>1, <2>2 DEF Additions, NewItem
  <2>3. CASE i \in Updates(h, w, Scope(syncKey))
    BY <1>1, <2>1, <2>3 DEF Updates, NewItem
  <2>4. CASE i \in Deletions(h, w, Scope(syncKey))
    BY <1>1, <2>1, <2>4 DEF Deletions, NewItem
  <2>5. QED BY <1>3, <2>2, <2>3, <2>4 DEF ComputeChangeList
<1>5. ~Overridden(Current(i.cr)) => ~Overridden([spec |-> Desired(i.cr)])
  BY DEF Desired, Overridden
<1>6. ~Overridden(i)
  BY <1>3, <1>4, <1>5 DEF Overridden
<1>7. ASSUME Protected(i.cr), i.cr \in enabled PROVE Current(i.cr) = server[i.cr]
  BY <1>4, <1>7 DEF Current, OverrideInv, CacheShowsProtected
<1>8. QED BY <1>3, <1>6, <1>7 DEF Protected

LEMMA WorkerOverride ==
  ASSUME TypeInv, OverrideInv, Worker \/ DryRunFails \/ ApiFails
  PROVE  OverrideInv' /\ ProtectedStay
<1> USE DEF surroundingVars
<1>1. CASE SyncGet \/ SyncMissing \/ SyncReadDomain \/ SyncListServices
  BY <1>1, NoNewItem DEF SyncGet, SyncMissing, SyncReadDomain, SyncListServices
<1>2. CASE SyncListCurrent
  <2>1. /\ changes' = ChangesOfSync /\ syncPc' = "items"
        /\ UNCHANGED <<storeVars, enabled, edited>>
    BY <1>2 DEF SyncListCurrent
  <2>2. \A s : Protected(s)' <=> Protected(s)
    BY <2>1 DEF Protected, Overridden, storeVars
  <2>3. NoneAnnotates' /\ NoneChangesProtected'
    BY <2>1, <2>2, DecisionSparesProtected DEF NoneAnnotates, NoneChangesProtected, Overridden
  <2>4. QED
    BY <2>1, <2>2, <2>3 DEF OverrideInv, CacheShowsProtected, ProtectedStay, storeVars
<1>3. CASE DryRun \/ DryRunFails \/ UpdatePanics \/ ApiRefuses
  BY <1>3, NoNewItem DEF DryRun, DryRunFails, UpdatePanics, ApiRefuses, NextItem
<1>4. CASE ApiSends
  <2>1. PICK i \in changes :
          /\ i.cr \in enabled
          /\ item' = IF i.op = "update" THEN [i EXCEPT !.rev = cache[i.cr].rev] ELSE i
          /\ changes' = changes \ {i}
    BY <1>4 DEF ApiSends, ApiServices
  <2>2. syncPc = "items" /\ syncPc' = "call" /\ UNCHANGED <<storeVars, enabled, edited>>
    BY <1>4 DEF ApiSends, NextItem
  <2>3. item'.cr = i.cr /\ item'.op = i.op /\ item'.spec = i.spec
    BY <2>1 DEF TypeInv, TypeOK, Item
  <2>4. \A s : Protected(s)' <=> Protected(s)
    BY <2>2 DEF Protected, Overridden, storeVars
  <2>5. NoneAnnotates'
    BY <2>1, <2>3 DEF OverrideInv, NoneAnnotates, Overridden
  <2>6. NoneChangesProtected'
    BY <2>1, <2>2, <2>3, <2>4 DEF OverrideInv, NoneChangesProtected
  <2>7. QED
    BY <2>2, <2>4, <2>5, <2>6 DEF OverrideInv, CacheShowsProtected, ProtectedStay, storeVars
<1>5. ASSUME syncPc = "call", Verdict(item) = "ok"
      PROVE  item \in Item /\ ~Overridden(item) /\ ~Protected(item.cr)
  BY <1>5
  DEF TypeInv, OnlyEnabledInCall, OverrideInv, NoneAnnotates, NoneChangesProtected, Verdict, Answer,
      Protected, Overridden
<1>6. CASE ApiAccepts
  BY <1>5, <1>6, WritesOverride DEF ApiAccepts
<1>7. CASE ApiFails
  BY <1>5, <1>7, WritesOverride, NoNewItem DEF ApiFails
<1>8. CASE SyncRetries \/ SyncGivesUp \/ SyncDone
  BY <1>8, NoNewItem DEF SyncRetries, SyncGivesUp, SyncDone
<1>9. QED BY <1>1, <1>2, <1>3, <1>4, <1>6, <1>7, <1>8 DEF Worker

LEMMA NextOverride == TypeInv /\ OverrideInv /\ [Next]_vars => OverrideInv' /\ ProtectedStay
<1> SUFFICES ASSUME TypeInv, OverrideInv, [Next]_vars PROVE OverrideInv' /\ ProtectedStay
  OBVIOUS
<1>1. CASE Restart \/ RestartAfterPanic
  BY <1>1, StartsOverride DEF Restart, RestartAfterPanic
<1>2. CASE UNCHANGED vars
  BY <1>2, NoNewItem DEF vars, surroundingVars, syncVars
<1>3. QED
  BY <1>1, <1>2, SurroundingsOverride, CleanUpOverride, WorkerOverride DEF Next, Surroundings

(***************************************************************************)
(* A policy that carries the override annotation is left as it is by every *)
(* sync, clean-up and restart for as long as nobody else writes it after   *)
(* the process has started, enabled or not.                                *)
(***************************************************************************)
THEOREM OverridesSurvive == Spec => OverrideSurvives
<1>1. TypeInv /\ OverrideInv /\ [Next]_vars =>
        [\A s \in CRs : Overridden(server[s]) /\ s \notin edited' => server'[s] = server[s]]_vars
  BY NextOverride DEF ProtectedStay
<1>2. Init /\ [][Next]_vars /\ []TypeInv => []OverrideInv
  BY InitOverride, NextOverride, PTL
<1>3. QED BY <1>1, <1>2, SyncsAreEquipped, PTL DEF Spec, OverrideSurvives

(***************************************************************************)
(* Nothing is lost and the retries are used: Inductive, a conjunct at a    *)
(* time.  A key that is asked for stays so until the worker takes it.      *)
(***************************************************************************)
NothingDropped == \A k \in Keys : Pending(k) => Pending(k)'

LEMMA AskedStays ==
  ASSUME NothingDropped, NEW s \in CRs, Asked(s)
  PROVE  Asked(s)'
BY DomainOfAssumption DEF NothingDropped, Asked, Keys

\* The services of a key are those the key asks for.
LEMMA ScopeMeans ==
  ASSUME NEW k \in Keys, NEW s \in CRs
  PROVE  /\ s \in Scope(k) <=> k \in {s, DomainOf[s]}
         /\ s \in Scope(k) => DomainOfKey(k) = DomainOf[s]
         /\ k = s => Scope(k) = {s}
BY DomainOfAssumption, KeysAssumption DEF Scope, ServicesOf, DomainOfKey, Keys

LEMMA ScopeAsks ==
  ASSUME TypeOK, NEW s \in Scope(syncKey), Pending(syncKey)
  PROVE  Asked(s)
<1>1. syncKey \in Keys /\ s \in CRs
  BY ScopeType DEF TypeOK
<1>2. QED BY <1>1, ScopeMeans DEF Asked

LEMMA QueueFailures ==
  ASSUME queue \in WorkQueueType(Keys), NEW e \in Keys
  PROVE  /\ QueueAdd(queue, e).failures = queue.failures
         /\ BackoffOver(queue, e).failures = queue.failures
         /\ QueueDone(queue, e).dirty = queue.dirty
         /\ QueueDone(queue, e).delayed = queue.delayed
         /\ QueueDone(queue, e).failures = queue.failures
         /\ AddRateLimited(queue, e).dirty = queue.dirty
         /\ AddRateLimited(queue, e).delayed = queue.delayed \cup {e}
         /\ AddRateLimited(queue, e).failures = [queue.failures EXCEPT ![e] = @ + 1]
         /\ Forget(queue, e).dirty = queue.dirty
         /\ Forget(queue, e).delayed = queue.delayed
         /\ Forget(queue, e).failures = [queue.failures EXCEPT ![e] = 0]
<1>1. QueueAdd(queue, e).failures = queue.failures
  BY QueueAddProperties
<1>2. BackoffOver(queue, e).failures = queue.failures
  BY BackoffOverProperties
<1>3. /\ QueueDone(queue, e).dirty = queue.dirty
      /\ QueueDone(queue, e).delayed = queue.delayed
      /\ QueueDone(queue, e).failures = queue.failures
  BY QueueDoneProperties
<1>4. /\ AddRateLimited(queue, e).dirty = queue.dirty
      /\ AddRateLimited(queue, e).delayed = queue.delayed \cup {e}
      /\ AddRateLimited(queue, e).failures = [queue.failures EXCEPT ![e] = @ + 1]
  BY AddRateLimitedProperties
<1>5. /\ Forget(queue, e).dirty = queue.dirty
      /\ Forget(queue, e).delayed = queue.delayed
      /\ Forget(queue, e).failures = [queue.failures EXCEPT ![e] = 0]
  BY ForgetProperties
<1>6. QED BY <1>1, <1>2, <1>3, <1>4, <1>5

\* What the worker does with the queue after it has taken a key.
LEMMA WorkerKeeps ==
  ASSUME TypeOK, UNCHANGED notes,
         \/ queue' = queue \/ queue' = Forget(queue, syncKey)
         \/ queue' = AddRateLimited(queue, syncKey) \/ queue' = QueueDone(queue, syncKey)
  PROVE  NothingDropped
<1>1. syncKey \in Keys /\ queue \in WorkQueueType(Keys)
  BY DEF TypeOK
<1>2. queue.dirty \cup queue.delayed \subseteq queue'.dirty \cup queue'.delayed
  BY <1>1, QueueFailures
<1>3. QED BY <1>2 DEF NothingDropped, Pending

LEMMA GetDropsItsKey ==
  ASSUME TypeOK, SyncGet
  PROVE  /\ syncKey' \in Keys
         /\ \A k \in Keys \ {syncKey'} : Pending(k) => Pending(k)'
         /\ queue'.failures = queue.failures
<1>1. queue \in WorkQueueType(Keys) /\ queue.order # <<>>
  BY DEF TypeOK, SyncGet
<1>2. /\ Head(queue.order) \in Keys
      /\ QueueGet(queue).dirty = queue.dirty \ {Head(queue.order)}
      /\ QueueGet(queue).delayed = queue.delayed
      /\ QueueGet(queue).failures = queue.failures
  BY <1>1, QueueGetProperties
<1>3. queue' = QueueGet(queue) /\ syncKey' = Head(queue.order) /\ notes' = notes
  BY DEF SyncGet, surroundingVars
<1>4. /\ syncKey' \in Keys
      /\ queue'.dirty = queue.dirty \ {syncKey'}
      /\ queue'.delayed = queue.delayed
      /\ queue'.failures = queue.failures
  BY <1>2, <1>3
<1>5. QED BY <1>3, <1>4 DEF Pending

(***************************************************************************)
(* What the handlers, the informers, the timers and other people do.  They *)
(* ask for a sync of whatever they change, or a change in the watch will.  *)
(***************************************************************************)
Outside ==
  \/ \E d \in Domains : AthenzDomainChanges(d) \/ Resync(d)
  \/ \E s \in CRs : ServiceChanges(s) \/ ExternalEdit(s) \/ Deliver(s)
  \/ \E k \in Keys : Notify(k) \/ QueueBackoffOver(k)

OutsideAsks ==
  /\ UNCHANGED <<syncVars, files, enabled>>
  /\ queue'.failures = queue.failures
  /\ NothingDropped
  /\ \A s \in CRs : \/ Asked(s)'
                    \/ ad'[DomainOf[s]] = ad[DomainOf[s]] /\ (s \in authz' <=> s \in authz)
  /\ \A s \in CRs : server'[s] = server[s] \/ watch'[s] # <<>>
  /\ \A s \in CRs : watch[s] # <<>> => watch'[s] # <<>> \/ Pending(s)'

LEMMA HappensAsks ==
  ASSUME TypeOK, NEW k \in Keys, Happens(k), UNCHANGED queue
  PROVE  NothingDropped /\ Pending(k)'
BY DEF TypeOK, Happens, NothingDropped, Pending

LEMMA WatchGrows ==
  ASSUME StoreTypeOK, NEW x \in CRs, NEW c \in Specs \cup {Absent}, ServerWrites(x, c)
  PROVE  /\ watch'[x] # <<>>
         /\ \A s \in CRs : server'[s] = server[s] \/ watch'[s] # <<>>
         /\ \A s \in CRs : watch[s] # <<>> => watch'[s] # <<>>
<1>1. /\ StoreTypeOK' /\ watch'[x] = Append(watch[x], server'[x])
      /\ \A r \in CRs \ {x} : server'[r] = server[r] /\ watch'[r] = watch[r]
  BY ServerWritesProperties
<1>2. watch[x] \in Seq(Objects) /\ server'[x] \in Objects
  BY <1>1 DEF StoreTypeOK
<1>3. watch'[x] # <<>>
  BY <1>1, <1>2
<1>4. QED BY <1>1, <1>3

LEMMA OutsideMeans ==
  ASSUME TypeOK, Outside
  PROVE  OutsideAsks
<1> USE DEF OutsideAsks
<1>0. Domains \subseteq Keys /\ CRs \subseteq Keys /\ queue \in WorkQueueType(Keys) /\ StoreTypeOK
  BY DEF Keys, TypeOK
<1>1. ASSUME NEW d \in Domains, AthenzDomainChanges(d) PROVE OutsideAsks
  <2>1. NothingDropped /\ Pending(d)'
    BY <1>0, <1>1, HappensAsks DEF AthenzDomainChanges
  <2>2. \A s \in CRs : Asked(s)' \/ ad'[DomainOf[s]] = ad[DomainOf[s]]
    BY <1>1, <2>1, DomainOfAssumption DEF AthenzDomainChanges, Asked, TypeOK
  <2>3. QED BY <1>1, <2>1, <2>2 DEF AthenzDomainChanges, storeVars
<1>2. ASSUME NEW d \in Domains, Resync(d) PROVE OutsideAsks
  <2>1. d \in Keys /\ queue' = QueueAdd(queue, d)
    BY <1>0, <1>2 DEF Resync
  <2>2. queue'.dirty = queue.dirty \cup {d} /\ queue'.delayed = queue.delayed
    BY <1>0, <2>1, QueueAddProperties
  <2>3. queue'.failures = queue.failures
    BY <1>0, <2>1, QueueFailures
  <2>4. NothingDropped
    BY <1>2, <2>2 DEF NothingDropped, Pending, Resync, surroundingVars
  <2>5. QED BY <1>2, <2>3, <2>4 DEF Resync, surroundingVars, storeVars
<1>3. ASSUME NEW s \in CRs, ServiceChanges(s) PROVE OutsideAsks
  <2>1. NothingDropped /\ Pending(s)'
    BY <1>0, <1>3, HappensAsks DEF ServiceChanges
  <2>2. \A r \in CRs : Asked(r)' \/ (r \in authz' <=> r \in authz)
    BY <1>3, <2>1 DEF ServiceChanges, Asked
  <2>3. QED BY <1>3, <2>1, <2>2 DEF ServiceChanges, storeVars
<1>4. ASSUME NEW s \in CRs, ExternalEdit(s) PROVE OutsideAsks
  <2>1. PICK c \in Specs \cup {Absent} : ServerWrites(s, c)
    BY <1>4 DEF ExternalEdit
  <2>2. NothingDropped
    BY <1>4 DEF NothingDropped, Pending, ExternalEdit
  <2>3. QED BY <1>0, <1>4, <2>1, <2>2, WatchGrows DEF ExternalEdit
<1>5. ASSUME NEW s \in CRs, Deliver(s) PROVE OutsideAsks
  <2>1. NothingDropped /\ Pending(s)'
    BY <1>0, <1>5, HappensAsks DEF Deliver
  <2>2. server' = server /\ \A r \in CRs \ {s} : watch'[r] = watch[r]
    BY <1>0, <1>5, CacheReceivesProperties DEF Deliver
  <2>3. QED BY <1>5, <2>1, <2>2 DEF Deliver
<1>6. ASSUME NEW k \in Keys, Notify(k) PROVE OutsideAsks
  <2>1. queue'.dirty = queue.dirty \cup {k} /\ queue'.delayed = queue.delayed
    BY <1>0, <1>6, QueueAddProperties DEF Notify
  <2>2. queue'.failures = queue.failures
    BY <1>0, <1>6, QueueFailures DEF Notify
  <2>3. \A j \in Keys \ {k} : notes'[j] = notes[j]
    BY <1>6 DEF Notify, TypeOK
  <2>4. NothingDropped
    BY <2>1, <2>3 DEF NothingDropped, Pending
  <2>5. QED BY <1>6, <2>2, <2>4 DEF Notify, storeVars
<1>7. ASSUME NEW k \in Keys, QueueBackoffOver(k) PROVE OutsideAsks
  <2>1. queue'.dirty = queue.dirty \cup {k} /\ queue'.delayed = queue.delayed \ {k}
    BY <1>0, <1>7, BackoffOverProperties DEF QueueBackoffOver
  <2>2. queue'.failures = queue.failures
    BY <1>0, <1>7, QueueFailures DEF QueueBackoffOver
  <2>3. NothingDropped
    BY <1>7, <2>1 DEF NothingDropped, Pending, QueueBackoffOver, surroundingVars
  <2>4. QED BY <1>7, <2>2, <2>3 DEF QueueBackoffOver, surroundingVars, storeVars
<1>8. QED BY <1>1, <1>2, <1>3, <1>4, <1>5, <1>6, <1>7 DEF Outside

\* The cache.
LEMMA StoreSteps ==
  ASSUME TypeInv, [Next]_vars
  PROVE  StoreMoves
<1> USE DEF StoreMoves, surroundingVars
<1>1. ASSUME NEW i \in Item, ServerWrites(i.cr, i.spec) PROVE StoreMoves
  BY <1>1 DEF Item
<1>2. CASE CleanUp \/ CleanUpPanics
  <2>1. changes \subseteq Item
    BY DEF TypeInv, TypeOK
  <2>2. QED BY <1>1, <1>2, <2>1
      DEF CleanUp, CleanUpList, CleanUpDeletes, CleanUpDone, CleanUpPanics
<1>3. CASE Outside
  BY <1>3
  DEF Outside, AthenzDomainChanges, Resync, ServiceChanges, ExternalEdit, Deliver, Notify,
      QueueBackoffOver
<1>4. CASE ApiAccepts \/ ApiFails
  <2>1. item \in Item
    BY <1>4 DEF TypeInv, OnlyEnabledInCall, ApiAccepts, ApiFails
  <2>2. QED BY <1>1, <1>4, <2>1 DEF ApiAccepts, ApiFails
<1>5. CASE \/ SyncGet \/ SyncMissing \/ SyncReadDomain \/ SyncListServices \/ SyncListCurrent
           \/ DryRun \/ DryRunFails \/ ApiSends \/ UpdatePanics \/ ApiRefuses \/ SyncRetries
           \/ SyncGivesUp \/ SyncDone
  BY <1>5
  DEF SyncGet, SyncMissing, SyncReadDomain, SyncListServices, SyncListCurrent, DryRun, DryRunFails,
      ApiSends, UpdatePanics, ApiRefuses, SyncRetries, SyncGivesUp, SyncDone
<1>6. CASE Restart \/ RestartAfterPanic
  BY <1>6 DEF Restart, RestartAfterPanic, Starts
<1>7. CASE UNCHANGED vars
  BY <1>7 DEF vars
<1>8. QED
  BY <1>2, <1>3, <1>4, <1>5, <1>6, <1>7 DEF Next, Surroundings, Worker, Outside

LEMMA CacheStep ==
  ASSUME TypeInv, CacheTrailsServer, [Next]_vars
  PROVE  CacheTrailsServer'
BY StoreSteps, TrailsKept DEF TypeInv, TypeOK, CacheTrailsServer, Trails

\* A process that starts.
LEMMA StartsAsk ==
  ASSUME TypeOK, Starts
  PROVE  /\ \A s \in CRs : Asked(s)'
         /\ \A k \in Keys : queue'.failures[k] = 0
         /\ syncPc' = "start" /\ changes' = {} /\ item' = NoItem
<1>1. \A s \in CRs : InitialNotes[s] > 0
  BY KeysAssumption DEF InitialNotes, Keys
<1>2. QED BY <1>1 DEF Starts, Asked, Pending, EmptyQueue

\* The worker's steps: a key is taken, items are worked on, and the sync ends.
LEMMA WorkerDropsNothing ==
  ASSUME TypeOK, Worker \/ DryRunFails \/ ApiFails, ~SyncGet
  PROVE  NothingDropped
<1>1. UNCHANGED notes
  BY DEF Worker, DryRunFails, ApiFails, SyncMissing, SyncReadDomain, SyncListServices,
         SyncListCurrent, DryRun, ApiSends, UpdatePanics, ApiAccepts, ApiRefuses, SyncRetries,
         SyncGivesUp, SyncDone, surroundingVars
<1>2. \/ queue' = queue \/ queue' = Forget(queue, syncKey)
      \/ queue' = AddRateLimited(queue, syncKey) \/ queue' = QueueDone(queue, syncKey)
  BY DEF Worker, DryRunFails, ApiFails, SyncMissing, SyncReadDomain, SyncListServices,
         SyncListCurrent, DryRun, ApiSends, UpdatePanics, ApiAccepts, ApiRefuses, SyncRetries,
         SyncGivesUp, SyncDone
<1>3. QED BY <1>1, <1>2, WorkerKeeps

LEMMA CleanUpDropsNothing ==
  ASSUME CleanUp \/ CleanUpPanics
  PROVE  NothingDropped
BY DEF CleanUp, CleanUpList, CleanUpDeletes, CleanUpDone, CleanUpPanics, surroundingVars,
       NothingDropped, Pending

\* A process is told of every service before its worker starts.
LEMMA StartAsksStep ==
  ASSUME TypeOK, StartAsksForAll, [Next]_vars
  PROVE  StartAsksForAll'
<1> USE DEF StartAsksForAll
<1>1. CASE Outside
  BY <1>1, OutsideMeans, AskedStays DEF OutsideAsks, syncVars
<1>2. CASE CleanUp \/ CleanUpPanics
  <2>1. syncPc' \in {"start", "cleanup"} => syncPc \in {"start", "cleanup"}
    BY <1>2 DEF CleanUp, CleanUpList, CleanUpDeletes, CleanUpDone, CleanUpPanics
  <2>2. QED BY <1>2, <2>1, CleanUpDropsNothing, AskedStays
<1>3. CASE Worker \/ DryRunFails \/ ApiFails
  BY <1>3
  DEF Worker, SyncGet, SyncMissing, SyncReadDomain, SyncListServices, SyncListCurrent, DryRun,
      DryRunFails, ApiSends, UpdatePanics, ApiAccepts, ApiRefuses, ApiFails, SyncRetries,
      SyncGivesUp, SyncDone, NextItem
<1>4. CASE Restart \/ RestartAfterPanic
  BY <1>4, StartsAsk DEF Restart, RestartAfterPanic
<1>5. CASE UNCHANGED vars
  BY <1>5 DEF vars, surroundingVars, syncVars, Asked, Pending
<1>6. QED BY <1>1, <1>2, <1>3, <1>4, <1>5 DEF Next, Surroundings, Outside

\* What the sync has read.
LEMMA StaleStep ==
  ASSUME TypeOK, StaleSyncIsFollowed, [Next]_vars
  PROVE  StaleSyncIsFollowed'
<1> USE DEF StaleSyncIsFollowed
<1>0. syncKey \in Keys /\ Scope(syncKey) \subseteq CRs
  BY ScopeType DEF TypeOK
<1>1. CASE Outside
  <2>1. OutsideAsks
    BY <1>1, OutsideMeans
  <2>2. SUFFICES ASSUME NEW s \in Scope(syncKey)', ~Asked(s)'
                 PROVE  /\ syncPc' = "services" => domain' = ad'[DomainOf[s]]
                        /\ syncPc' \in {"current", "items", "call"} => want'[s] = Wanted(s)'
    OBVIOUS
  <2>3. s \in Scope(syncKey) /\ s \in CRs /\ ~Asked(s)
    BY <1>0, <2>1, <2>2, AskedStays DEF OutsideAsks, syncVars, Scope, ServicesOf
  <2>4. ad'[DomainOf[s]] = ad[DomainOf[s]] /\ Wanted(s)' = Wanted(s)
    BY <2>1, <2>2, <2>3 DEF OutsideAsks, Wanted
  <2>5. QED BY <2>1, <2>3, <2>4 DEF OutsideAsks, syncVars
<1>2. CASE CleanUp \/ CleanUpPanics
  BY <1>2 DEF CleanUp, CleanUpList, CleanUpDeletes, CleanUpDone, CleanUpPanics
<1>3. CASE \/ SyncGet \/ SyncMissing \/ UpdatePanics \/ ApiRefuses \/ DryRunFails \/ ApiFails
           \/ SyncRetries \/ SyncGivesUp \/ SyncDone
  BY <1>3
  DEF SyncGet, SyncMissing, UpdatePanics, ApiRefuses, DryRunFails, ApiFails, SyncRetries,
      SyncGivesUp, SyncDone
<1>4. CASE SyncReadDomain
  <2>1. \A s \in Scope(syncKey) : DomainOfKey(syncKey) = DomainOf[s]
    BY <1>0, ScopeMeans
  <2>2. syncPc' = "services" /\ domain' = ad[DomainOfKey(syncKey)] /\ UNCHANGED <<ad, syncKey>>
    BY <1>4 DEF SyncReadDomain, surroundingVars
  <2>3. QED BY <2>1, <2>2 DEF Scope, ServicesOf
<1>5. CASE SyncListServices
  <2>1. /\ syncPc = "services" /\ syncPc' = "current"
        /\ want' = [s \in CRs |-> IF s \in Scope(syncKey) \cap authz THEN domain[s] ELSE Absent]
        /\ UNCHANGED <<ad, authz, notes, queue, syncKey>>
    BY <1>5 DEF SyncListServices, surroundingVars
  <2>2. \A s \in Scope(syncKey) : Asked(s)' \/ want'[s] = Wanted(s)'
    BY <1>0, <2>1 DEF Wanted, Asked, Pending
  <2>3. QED BY <2>1, <2>2 DEF Scope, ServicesOf
<1>6. CASE SyncListCurrent \/ DryRun \/ ApiSends \/ ApiAccepts
  <2>1. /\ syncPc \in {"current", "items", "call"} /\ syncPc' \in {"items", "call"}
        /\ UNCHANGED <<ad, authz, syncKey, want>>
    BY <1>6
    DEF SyncListCurrent, DryRun, ApiSends, ApiAccepts, NextItem, surroundingVars
  <2>2. NothingDropped
    BY <1>6, WorkerDropsNothing, <2>1 DEF Worker, SyncGet
  <2>3. \A s \in Scope(syncKey) : Asked(s)' \/ want'[s] = Wanted(s)'
    BY <1>0, <2>1, <2>2, AskedStays DEF Wanted
  <2>4. QED BY <2>1, <2>3 DEF Scope, ServicesOf
<1>7. CASE Restart \/ RestartAfterPanic
  BY <1>7, StartsAsk DEF Restart, RestartAfterPanic
<1>8. CASE UNCHANGED vars
  BY <1>8 DEF vars, surroundingVars, syncVars, Asked, Pending, Wanted, Scope, ServicesOf
<1>9. QED
  BY <1>1, <1>2, <1>3, <1>4, <1>5, <1>6, <1>7, <1>8 DEF Next, Surroundings, Outside, Worker

\* The change list of a sync says what the sync wants.
LEMMA ChangesSayWhatIsWanted ==
  ASSUME TypeOK, NEW i \in ChangesOfSync
  PROVE  /\ i.cr \in Scope(syncKey)
         /\ want[i.cr] = IF i.op = "delete" THEN Absent ELSE i.spec.policy
<1> DEFINE h == [s \in CRs |-> Current(s)]
           w == [s \in CRs |-> Desired(s)]
<1>1. Scope(syncKey) \subseteq CRs
  BY ScopeType DEF TypeOK
<1>2. \A r \in CRs : h[r] = Current(r) /\ w[r] = Desired(r)
  OBVIOUS
<1>3. i \in ComputeChangeList(h, w, Scope(syncKey))
  BY DEF ChangesOfSync
<1> HIDE DEF h, w
<1>4. \A r \in CRs : Desired(r) = Absent <=> want[r] = Absent
  <2>1. \A r \in CRs : want[r] # Absent => want[r] \in Policies
    BY DEF TypeOK
  <2>2. \A r \in CRs : want[r] # Absent =>
          [policy |-> want[r], override |-> Overridden(Current(r))] \in Specs
    BY <2>1, SpecType DEF Overridden
  <2>3. QED BY <2>2, AbsentAssumption DEF Desired
<1>5. \A r \in CRs : want[r] # Absent => Desired(r).policy = want[r]
  BY DEF Desired
<1>6. CASE i \in Additions(h, w, Scope(syncKey))
  BY <1>1, <1>2, <1>4, <1>5, <1>6 DEF Additions, NewItem
<1>7. CASE i \in Updates(h, w, Scope(syncKey))
  BY <1>1, <1>2, <1>4, <1>5, <1>7 DEF Updates, NewItem
<1>8. CASE i \in Deletions(h, w, Scope(syncKey))
  BY <1>1, <1>2, <1>4, <1>8 DEF Deletions, NewItem
<1>9. QED BY <1>3, <1>6, <1>7, <1>8 DEF ComputeChangeList

LEMMA ItemsStep ==
  ASSUME TypeInv, ItemsAreOfTheSync, [Next]_vars
  PROVE  ItemsAreOfTheSync'
<1> USE DEF ItemsAreOfTheSync
<1>1. CASE Outside
  BY <1>1, OutsideMeans DEF TypeInv, OutsideAsks, syncVars, Scope, ServicesOf
<1>2. CASE CleanUp \/ CleanUpPanics
  BY <1>2 DEF CleanUp, CleanUpList, CleanUpDeletes, CleanUpDone, CleanUpPanics
<1>3. CASE SyncGet \/ SyncMissing \/ SyncReadDomain \/ SyncListServices
  BY <1>3 DEF SyncGet, SyncMissing, SyncReadDomain, SyncListServices
<1>4. CASE SyncListCurrent
  <2>1. /\ syncPc = "current" /\ syncPc' = "items" /\ changes' = ChangesOfSync
        /\ UNCHANGED <<item, want, syncKey>>
    BY <1>4 DEF SyncListCurrent
  <2>2. item' = NoItem
    BY <2>1
  <2>3. \A i \in changes' : /\ i.cr \in Scope(syncKey)
                            /\ want[i.cr] = IF i.op = "delete" THEN Absent ELSE i.spec.policy
    BY <2>1, ChangesSayWhatIsWanted DEF TypeInv
  <2>4. QED BY <2>1, <2>2, <2>3 DEF Scope, ServicesOf
<1>5. CASE DryRun
  BY <1>5 DEF DryRun, NextItem, Scope, ServicesOf
<1>6. CASE ApiSends
  <2>1. PICK i \in changes :
          /\ item' = IF i.op = "update" THEN [i EXCEPT !.rev = cache[i.cr].rev] ELSE i
          /\ changes' = changes \ {i}
    BY <1>6 DEF ApiSends
  <2>2. /\ syncPc = "items" /\ syncPc' = "call"
        /\ UNCHANGED <<want, syncKey>>
    BY <1>6 DEF ApiSends, NextItem
  <2>3. item'.cr = i.cr /\ item'.op = i.op /\ item'.spec = i.spec
    BY <2>1 DEF TypeInv, TypeOK, Item
  <2>4. item = NoItem
    BY <2>2
  <2>5. /\ i.cr \in Scope(syncKey)
        /\ want[i.cr] = IF i.op = "delete" THEN Absent ELSE i.spec.policy
    BY <2>1, <2>2, <2>4 DEF NoItem
  <2>6. QED BY <2>1, <2>2, <2>3, <2>5 DEF Scope, ServicesOf
<1>7. CASE UpdatePanics
  BY <1>7 DEF UpdatePanics, NextItem
<1>8. CASE ApiAccepts
  BY <1>8 DEF ApiAccepts, Scope, ServicesOf
<1>9. CASE ApiRefuses \/ ApiFails \/ DryRunFails
  BY <1>9 DEF ApiRefuses, ApiFails, DryRunFails, NextItem
<1>10. CASE SyncRetries \/ SyncGivesUp \/ SyncDone
  BY <1>10 DEF SyncRetries, SyncGivesUp, SyncDone
<1>11. CASE Restart \/ RestartAfterPanic
  BY <1>11, StartsAsk DEF TypeInv, Restart, RestartAfterPanic
<1>12. CASE UNCHANGED vars
  BY <1>12 DEF vars, syncVars, Scope, ServicesOf
<1>13. QED
  BY <1>1, <1>2, <1>3, <1>4, <1>5, <1>6, <1>7, <1>8, <1>9, <1>10, <1>11, <1>12
  DEF Next, Surroundings, Outside, Worker

(***************************************************************************)
(* NoLostWork.  A sync that has read what is so has an item for every      *)
(* service of its scope that is not in step with its domain.               *)
(***************************************************************************)
LEMMA DecisionCovers ==
  ASSUME TypeOK, CacheTrailsServer, NEW s \in Scope(syncKey), watch[s] = <<>>, want[s] = Wanted(s)
  PROVE  InStep(s) \/ \E i \in ChangesOfSync : i.cr = s
<1> DEFINE h == [r \in CRs |-> Current(r)]
           w == [r \in CRs |-> Desired(r)]
<1>0. s \in CRs /\ Scope(syncKey) \in SUBSET CRs
  BY ScopeType DEF TypeOK
<1>1. h \in [CRs -> Objects] /\ w \in [CRs -> Specs \cup {Absent}]
  BY CurrentType, DesiredType
<1>2. h[s] = Current(s) /\ w[s] = Desired(s)
  BY <1>0
<1>3. cache[s] = server[s]
  BY <1>0 DEF CacheTrailsServer
<1>4. want[s] \in Policies \cup {Absent} /\ Absent \notin Specs
  BY <1>0, AbsentAssumption DEF TypeOK
<1>5. ASSUME ~InStep(s)
      PROVE  h[s].spec # w[s] /\ (Overridden(Current(s)) => Current(s).spec = Absent)
  <2>1. CASE s \in enabled
    <3>1. Current(s) = server[s]
      BY <1>3, <2>1 DEF Current
    <3>2. ~Overridden(server[s])
      BY <1>5, <2>1 DEF InStep
    <3>3. CASE want[s] = Absent
      BY <1>2, <1>5, <2>1, <3>1, <3>2, <3>3 DEF Desired, InStep
    <3>4. CASE want[s] # Absent
      <4>1. w[s] = [policy |-> want[s], override |-> FALSE]
        BY <1>2, <3>1, <3>2, <3>4 DEF Desired, Overridden
      <4>2. w[s] \in Specs
        BY <1>4, <3>4, <4>1, SpecType
      <4>3. server[s].spec # Absent => server[s].spec.policy # want[s]
        BY <1>5, <2>1 DEF InStep
      <4>4. QED BY <1>2, <1>4, <3>1, <3>2, <4>1, <4>2, <4>3
    <3>5. QED BY <3>3, <3>4
  <2>2. CASE s \notin enabled
    <3>1. server[s].spec = Absent /\ files[s] # want[s]
      BY <1>5, <2>2 DEF InStep
    <3>2. CASE files[s] = Absent
      <4>1. Current(s).spec = Absent
        BY <1>3, <2>2, <3>1, <3>2 DEF Current, NothingThere
      <4>2. Desired(s) = [policy |-> want[s], override |-> FALSE] /\ want[s] \in Policies
        BY <1>4, <3>1, <3>2, <4>1 DEF Desired, Overridden
      <4>3. Desired(s) \in Specs
        BY <4>2, SpecType
      <4>4. QED BY <1>2, <1>4, <4>1, <4>3
    <3>3. CASE files[s] # Absent
      <4>1. Current(s) = [rev |-> 0, spec |-> [policy |-> files[s], override |-> FALSE]]
        BY <2>2, <3>3 DEF Current
      <4>2. Current(s).spec = [policy |-> files[s], override |-> FALSE]
        BY <4>1
      <4>3. Current(s).spec.policy = files[s] /\ ~Overridden(Current(s))
        BY <4>2 DEF Overridden
      <4>4. files[s] \in Policies
        BY <1>0, <3>3 DEF TypeOK
      <4>5. Current(s).spec \in Specs
        BY <4>2, <4>4, SpecType
      <4>6. Desired(s) # Absent => Desired(s).policy = want[s]
        BY DEF Desired
      <4>7. QED BY <1>2, <1>4, <3>1, <4>3, <4>5, <4>6
    <3>4. QED BY <3>2, <3>3
  <2>3. QED BY <2>1, <2>2
<1> HIDE DEF h, w
<1>6. ASSUME ~InStep(s) PROVE \E i \in ChangesOfSync : i.cr = s
  <2>1. PICK i \in ComputeChangeList(h, w, Scope(syncKey)) : i.cr = s
    BY <1>0, <1>1, <1>5, <1>6, DifferencesAreListed
  <2>2. Current(s).spec = Absent => i.op = "add"
    <3>1. Answer(i, h[s]) = "ok" /\ i \in Item
      BY <1>0, <1>1, <2>1, ChangesAreAccepted, ComputeChangeListType
    <3>2. QED BY <1>2, <3>1 DEF Answer, Item, Operations
  <2>3. i.op = "add" \/ ~Overridden(Current(i.cr))
    BY <1>5, <1>6, <2>1, <2>2
  <2>4. i \in ChangesOfSync
    BY <2>1, <2>3 DEF ChangesOfSync, h, w
  <2>5. QED BY <2>1, <2>4
<1>7. QED BY <1>6

LEMMA NoItemIsNone == NoItem \notin Item
<1>1. \A i \in Item : i.op \in {"add", "update", "delete"}
  BY DEF Item, Operations
<1>2. NoItem.op = "none"
  BY DEF NoItem
<1>3. QED BY <1>1, <1>2

\* What holds of a service for its difference not to be lost.
Kept(s) == InStep(s) \/ watch[s] # <<>> \/ SyncAhead(s) \/ ItemAhead(s) \/ s \in gaveUp

\* A step that leaves a service alone, and does not end what is ahead of it.
LEMMA KeptAlone ==
  ASSUME NothingDropped, NEW s \in CRs, Kept(s),
         UNCHANGED <<ad, authz, enabled>>, files'[s] = files[s],
         (server'[s] = server[s] /\ watch'[s] = watch[s]) \/ watch'[s] # <<>>,
         s \in Scope(syncKey) /\ syncPc \in {"domain", "services", "current", "failed"}
           => SyncAhead(s)' \/ s \in gaveUp',
         syncPc # "panic", ItemAhead(s) => ItemAhead(s)' \/ SyncAhead(s)',
         s \in gaveUp => s \in gaveUp'
  PROVE  Kept(s)'
<1>1. Asked(s) => Asked(s)'
  BY AskedStays
<1>2. CASE watch'[s] # <<>>
  BY <1>2 DEF Kept
<1>3. CASE server'[s] = server[s] /\ watch'[s] = watch[s]
  <2>1. InStep(s)' <=> InStep(s)
    BY <1>3 DEF InStep, Wanted, Overridden
  <2>2. QED BY <1>1, <1>3, <2>1 DEF Kept, SyncAhead
<1>4. QED BY <1>2, <1>3

LEMMA LostOutside ==
  ASSUME TypeOK, NoLostWork, Outside
  PROVE  NoLostWork'
<1>1. OutsideAsks
  BY OutsideMeans
<1>2. SUFFICES ASSUME NEW s \in CRs PROVE Kept(s)'
  BY DEF NoLostWork, Kept
<1>3. CASE Asked(s)'
  BY <1>3 DEF Kept, SyncAhead
<1>4. CASE ~Asked(s)' /\ watch'[s] = <<>>
  <2>1. /\ ad'[DomainOf[s]] = ad[DomainOf[s]] /\ (s \in authz' <=> s \in authz)
        /\ server'[s] = server[s] /\ watch[s] = <<>>
    BY <1>1, <1>4 DEF OutsideAsks, Asked
  <2>2. ~Asked(s)
    BY <1>1, <1>4, AskedStays DEF OutsideAsks
  <2>3. InStep(s) => InStep(s)'
    BY <1>1, <2>1 DEF OutsideAsks, InStep, Wanted, Overridden
  <2>4. SyncAhead(s) => SyncAhead(s)'
    BY <1>1, <2>2 DEF OutsideAsks, SyncAhead, syncVars, Scope, ServicesOf
  <2>5. ItemAhead(s) => ItemAhead(s)'
    BY <1>1 DEF OutsideAsks, ItemAhead, syncVars
  <2>6. QED BY <1>1, <2>1, <2>3, <2>4, <2>5 DEF NoLostWork, Kept, OutsideAsks, syncVars
<1>5. QED BY <1>3, <1>4 DEF Kept

LEMMA LostCleanUp ==
  ASSUME StartAsksForAll, CleanUp \/ CleanUpPanics
  PROVE  NoLostWork'
<1>1. syncPc \in {"start", "cleanup"}
  BY DEF CleanUp, CleanUpList, CleanUpDeletes, CleanUpDone, CleanUpPanics
<1>2. \A s \in CRs : Asked(s)'
  BY <1>1, CleanUpDropsNothing, AskedStays DEF StartAsksForAll
<1>3. QED BY <1>2 DEF NoLostWork, SyncAhead

LEMMA LostDecision ==
  ASSUME TypeOK, CacheTrailsServer, StaleSyncIsFollowed, ItemsAreOfTheSync, NoLostWork,
         SyncGet \/ SyncMissing \/ SyncReadDomain \/ SyncListServices \/ SyncListCurrent
  PROVE  NoLostWork'
<1> USE DEF surroundingVars, storeVars
<1>0. SUFFICES ASSUME NEW s \in CRs PROVE Kept(s)'
  BY DEF NoLostWork, Kept
<1>1. Kept(s)
  BY DEF NoLostWork, Kept
<1>2. CASE SyncGet
  <2>1. /\ syncKey' \in Keys
        /\ \A k \in Keys \ {syncKey'} : Pending(k) => Pending(k)'
    BY <1>2, GetDropsItsKey
  <2>2. CASE syncKey' \in {s, DomainOf[s]}
    <3>1. s \in Scope(syncKey')
      BY <2>1, <2>2, ScopeMeans
    <3>2. s \in Scope(syncKey)'
      BY <3>1 DEF Scope, ServicesOf
    <3>3. QED BY <1>2, <3>2 DEF SyncGet, Kept, SyncAhead
  <2>3. CASE syncKey' \notin {s, DomainOf[s]}
    <3>1. Asked(s) => Asked(s)'
      BY <2>1, <2>3, DomainOfAssumption DEF Asked, Keys
    <3>2. InStep(s)' <=> InStep(s)
      BY <1>2 DEF SyncGet, InStep, Wanted, Overridden
    <3>3. QED BY <1>1, <1>2, <3>1, <3>2 DEF SyncGet, Kept, SyncAhead, ItemAhead
  <2>4. QED BY <2>2, <2>3
<1>3. CASE SyncMissing \/ SyncReadDomain \/ SyncListServices
  <2>1. NothingDropped
    BY <1>3, WorkerDropsNothing DEF Worker, SyncGet, SyncMissing, SyncReadDomain, SyncListServices
  <2>2. /\ UNCHANGED <<ad, authz, enabled, files, server, watch, changes, item, gaveUp, syncKey>>
        /\ syncPc # "panic" /\ syncPc' \in {"failed", "services", "current"}
    BY <1>3 DEF SyncMissing, SyncReadDomain, SyncListServices
  <2>3. s \in Scope(syncKey) => SyncAhead(s)'
    BY <2>2 DEF SyncAhead, Scope, ServicesOf
  <2>4. QED BY <1>1, <2>1, <2>2, <2>3, KeptAlone DEF ItemAhead
<1>4. CASE SyncListCurrent
  <2>1. NothingDropped
    BY <1>4, WorkerDropsNothing DEF Worker, SyncGet, SyncListCurrent
  <2>2. /\ UNCHANGED <<ad, authz, enabled, files, server, watch, item, syncKey>>
        /\ syncPc = "current" /\ changes' = ChangesOfSync /\ gaveUp' = gaveUp \ Scope(syncKey)
    BY <1>4 DEF SyncListCurrent
  <2>3. InStep(s)' <=> InStep(s)
    BY <2>2 DEF InStep, Wanted, Overridden
  <2>4. CASE s \in Scope(syncKey)
    <3>1. CASE Asked(s)
      BY <2>1, <3>1, AskedStays DEF Kept, SyncAhead
    <3>2. CASE ~Asked(s) /\ watch[s] = <<>>
      <4>1. want[s] = Wanted(s)
        BY <2>2, <2>4, <3>2 DEF StaleSyncIsFollowed
      <4>2. InStep(s) \/ \E i \in ChangesOfSync : i.cr = s
        BY <2>4, <3>2, <4>1, DecisionCovers
      <4>3. \A i \in ChangesOfSync : i # NoItem
        <5>1. \A i \in ChangesOfSync : i \in Item
          BY ChangesType
        <5>2. QED BY <5>1, NoItemIsNone
      <4>4. QED BY <2>2, <2>3, <4>2, <4>3 DEF Kept, ItemAhead
    <3>3. QED BY <2>2, <3>1, <3>2 DEF Kept
  <2>5. CASE s \notin Scope(syncKey)
    <3>1. ~ItemAhead(s)
      BY <2>2 DEF ItemsAreOfTheSync, ItemAhead
    <3>2. QED BY <1>1, <2>1, <2>2, <2>5, <3>1, KeptAlone
  <2>6. QED BY <2>4, <2>5
<1>5. QED BY <1>2, <1>3, <1>4

LEMMA LostItems ==
  ASSUME TypeInv, StaleSyncIsFollowed, ItemsAreOfTheSync, NoLostWork,
         DryRun \/ ApiSends \/ UpdatePanics \/ ApiAccepts
  PROVE  NoLostWork'
<1> USE DEF surroundingVars, storeVars
<1>0. SUFFICES ASSUME NEW s \in CRs PROVE Kept(s)'
  BY DEF NoLostWork, Kept
<1>1. Kept(s) /\ TypeOK
  BY DEF NoLostWork, Kept, TypeInv
<1>2. NothingDropped
  <2>1. ~SyncGet
    BY DEF SyncGet, DryRun, ApiSends, UpdatePanics, ApiAccepts, NextItem
  <2>2. QED BY <1>1, <2>1, WorkerDropsNothing DEF Worker
<1>3. CASE DryRun
  <2>1. PICK i \in changes :
          /\ NextItem(i) /\ i.cr \notin enabled
          /\ files' = [files EXCEPT ![i.cr] = IF i.op = "delete" THEN Absent ELSE i.spec.policy]
          /\ changes' = changes \ {i}
    BY <1>3 DEF DryRun, ApiServices
  <2>2. /\ UNCHANGED <<ad, authz, enabled, server, watch, item, gaveUp, syncKey, syncPc>>
        /\ syncPc = "items"
    BY <1>3, <2>1 DEF DryRun, NextItem
  <2>3. i \in Item /\ i # NoItem
    BY <1>1, <2>1, NoItemIsNone DEF TypeOK
  <2>4. i.cr \in Scope(syncKey) /\ want[i.cr] = IF i.op = "delete" THEN Absent ELSE i.spec.policy
    BY <2>2, <2>3 DEF ItemsAreOfTheSync
  <2>5. CASE s = i.cr
    <3>1. files'[s] = want[s]
      BY <1>1, <2>1, <2>4, <2>5 DEF TypeOK
    <3>2. Asked(s) \/ want[s] = Wanted(s)
      BY <2>2, <2>4, <2>5 DEF StaleSyncIsFollowed
    <3>3. Asked(s) => Asked(s)'
      BY <1>2, AskedStays
    <3>4. Wanted(s)' = Wanted(s)
      BY <2>2 DEF Wanted
    <3>5. QED BY <2>1, <2>2, <2>5, <3>1, <3>2, <3>3, <3>4 DEF Kept, SyncAhead, InStep
  <2>6. CASE s # i.cr
    <3>1. files'[s] = files[s]
      BY <2>1, <2>6
    <3>2. ItemAhead(s) => ItemAhead(s)'
      BY <2>1, <2>2, <2>6 DEF ItemAhead
    <3>3. QED BY <1>1, <1>2, <2>2, <3>1, <3>2, KeptAlone
  <2>7. QED BY <2>5, <2>6
<1>4. CASE ApiSends
  <2>1. PICK i \in changes :
          /\ item' = IF i.op = "update" THEN [i EXCEPT !.rev = cache[i.cr].rev] ELSE i
          /\ changes' = changes \ {i}
    BY <1>4 DEF ApiSends
  <2>2. /\ UNCHANGED <<ad, authz, enabled, files, server, watch, gaveUp, syncKey>>
        /\ syncPc = "items"
    BY <1>4 DEF ApiSends, NextItem
  <2>3. i \in Item /\ item' \in Item /\ item'.cr = i.cr
    <3>1. i \in Item
      BY <1>1, <2>1 DEF TypeOK
    <3>2. cache[i.cr].rev \in Nat
      BY <1>1, <3>1 DEF TypeOK, StoreTypeOK, Objects, Item
    <3>3. QED BY <2>1, <3>1, <3>2 DEF Item
  <2>4. ItemAhead(s) => ItemAhead(s)'
    <3>1. item' # NoItem
      BY <2>3, NoItemIsNone
    <3>2. item = NoItem
      BY <2>2 DEF ItemsAreOfTheSync
    <3>3. QED BY <2>1, <2>3, <3>1, <3>2 DEF ItemAhead
  <2>5. QED BY <1>1, <1>2, <2>2, <2>4, KeptAlone
<1>5. CASE UpdatePanics
  BY <1>5 DEF UpdatePanics, Kept, SyncAhead
<1>6. CASE ApiAccepts
  <2>1. /\ item \in Item /\ item.cr \in CRs /\ item.spec \in Specs \cup {Absent} /\ StoreTypeOK
        /\ ServerWrites(item.cr, item.spec)
    BY <1>6 DEF ApiAccepts, TypeInv, TypeOK, OnlyEnabledInCall, Item
  <2>2. /\ UNCHANGED <<ad, authz, enabled, files, changes, gaveUp, syncKey>>
        /\ syncPc = "call"
    BY <1>6 DEF ApiAccepts
  <2>3. CASE s = item.cr
    BY <2>1, <2>3, WatchGrows DEF Kept
  <2>4. CASE s # item.cr
    <3>1. server'[s] = server[s] /\ watch'[s] = watch[s]
      BY <2>1, <2>4, ServerWritesProperties
    <3>2. ItemAhead(s) => ItemAhead(s)'
      BY <2>2, <2>4 DEF ItemAhead
    <3>3. QED BY <1>1, <1>2, <2>2, <3>1, <3>2, KeptAlone
  <2>5. QED BY <2>3, <2>4
<1>7. QED BY <1>3, <1>4, <1>5, <1>6

\* A sync that fails drops items of its own scope only, and is retried or given up.
LEMMA LostFailure ==
  ASSUME TypeInv, ItemsAreOfTheSync, NoLostWork, ApiRefuses \/ ApiFails \/ DryRunFails
  PROVE  NoLostWork'
<1> USE DEF surroundingVars, storeVars
<1>0. SUFFICES ASSUME NEW s \in CRs PROVE Kept(s)'
  BY DEF NoLostWork, Kept
<1>1. Kept(s) /\ TypeOK
  BY DEF NoLostWork, Kept, TypeInv
<1>2. /\ UNCHANGED <<ad, authz, enabled, files, gaveUp, syncKey>>
      /\ syncPc \in {"items", "call"} /\ syncPc' = "failed"
  BY DEF ApiRefuses, ApiFails, DryRunFails, NextItem
<1>3. NothingDropped
  BY <1>1, <1>2, WorkerDropsNothing DEF Worker, SyncGet
<1>4. CASE s \in Scope(syncKey)
  BY <1>2, <1>4 DEF Kept, SyncAhead, Scope, ServicesOf
<1>5. CASE s \notin Scope(syncKey)
  <2>1. ~ItemAhead(s)
    BY <1>2, <1>5 DEF ItemsAreOfTheSync, ItemAhead
  <2>2. server'[s] = server[s] /\ watch'[s] = watch[s]
    <3>1. CASE UNCHANGED storeVars
      BY <3>1
    <3>2. CASE syncPc = "call" /\ ServerWrites(item.cr, item.spec)
      <4>1. /\ item \in Item /\ item.cr \in CRs /\ item.spec \in Specs \cup {Absent}
            /\ StoreTypeOK
        BY <3>2 DEF TypeInv, TypeOK, OnlyEnabledInCall, Item
      <4>2. item.cr \in Scope(syncKey)
        BY <3>2, <4>1, NoItemIsNone DEF ItemsAreOfTheSync
      <4>3. QED BY <1>5, <3>2, <4>1, <4>2, ServerWritesProperties
    <3>3. QED BY <3>1, <3>2 DEF ApiRefuses, ApiFails, DryRunFails
  <2>3. QED BY <1>1, <1>2, <1>3, <1>5, <2>1, <2>2, KeptAlone
<1>6. QED BY <1>4, <1>5

LEMMA LostAtTheEnd ==
  ASSUME TypeOK, ItemsAreOfTheSync, NoLostWork, SyncRetries \/ SyncGivesUp \/ SyncDone
  PROVE  NoLostWork'
<1> USE DEF surroundingVars, storeVars
<1>0. SUFFICES ASSUME NEW s \in CRs PROVE Kept(s)'
  BY DEF NoLostWork, Kept
<1>1. Kept(s) /\ syncKey \in Keys
  BY DEF NoLostWork, Kept, TypeOK
<1>2. /\ UNCHANGED <<ad, authz, enabled, files, server, watch, syncKey, changes, item>>
      /\ gaveUp \subseteq gaveUp' /\ syncPc # "panic"
  BY DEF SyncRetries, SyncGivesUp, SyncDone
<1>3. NothingDropped
  BY WorkerDropsNothing DEF Worker, SyncGet, SyncRetries, SyncGivesUp, SyncDone
<1>4. CASE SyncRetries
  <2>1. Pending(syncKey)'
    <3>1. queue' = AddRateLimited(queue, syncKey) /\ queue \in WorkQueueType(Keys)
      BY <1>4 DEF SyncRetries, TypeOK
    <3>2. queue'.delayed = queue.delayed \cup {syncKey}
      BY <1>1, <3>1, QueueFailures
    <3>3. QED BY <1>2, <3>2 DEF Pending
  <2>2. s \in Scope(syncKey) => SyncAhead(s)'
    BY <1>1, <1>2, <2>1, ScopeMeans DEF SyncAhead, Asked
  <2>3. QED BY <1>1, <1>2, <1>3, <2>2, KeptAlone DEF ItemAhead
<1>5. CASE SyncGivesUp
  BY <1>1, <1>2, <1>3, <1>5, KeptAlone DEF ItemAhead, SyncGivesUp
<1>6. CASE SyncDone
  BY <1>1, <1>2, <1>3, <1>6, KeptAlone DEF ItemAhead, SyncDone
<1>7. QED BY <1>4, <1>5, <1>6

LEMMA LostStep ==
  ASSUME TypeInv, CacheTrailsServer, StartAsksForAll, StaleSyncIsFollowed, ItemsAreOfTheSync,
         NoLostWork, [Next]_vars
  PROVE  NoLostWork'
<1>0. TypeOK
  BY DEF TypeInv
<1>1. CASE Restart \/ RestartAfterPanic
  BY <1>0, <1>1, StartsAsk DEF Restart, RestartAfterPanic, NoLostWork, SyncAhead
<1>2. CASE UNCHANGED vars
  BY <1>2
  DEF vars, surroundingVars, syncVars, storeVars, NoLostWork, InStep, Wanted, Overridden, SyncAhead,
      Asked, Pending, Scope, ServicesOf, ItemAhead
<1>3. QED
  BY <1>0, <1>1, <1>2, LostOutside, LostCleanUp, LostDecision, LostItems, LostFailure, LostAtTheEnd
  DEF Next, Surroundings, Outside, Worker

(***************************************************************************)
(* RetryBudgetRestored.  A failure is counted when the key is put back; it *)
(* is forgotten by the sync the key is put back for, or by the one that    *)
(* the event of the written policy asks for.                               *)
(***************************************************************************)
Counted(s) == NumRequeues(queue, s) \in {0, QueueNumRetries} \/ RetryAhead(s)

\* A step that counts no failure and leaves the sync of s where it was.
LEMMA CountedAlone ==
  ASSUME TypeInv, RetriesAreUsed, NothingDropped, UNCHANGED enabled,
         queue'.failures = queue.failures,
         \A s \in enabled : watch[s] # <<>> => watch'[s] # <<>> \/ Pending(s)',
         \A s \in enabled :
           \/ syncKey = s /\ syncPc \in {"domain", "services", "current", "call", "failed"}
           \/ syncKey = s /\ syncPc = "items" /\ changes # {}
           \/ syncPc = "panic"
           => RetryAhead(s)'
  PROVE  RetriesAreUsed'
<1>1. enabled \subseteq Keys
  BY DEF TypeInv, TypeOK, Keys
<1>2. \A k \in Keys : NumRequeues(queue, k)' = NumRequeues(queue, k)
  BY DEF NumRequeues
<1>3. ASSUME NEW s \in enabled PROVE Counted(s)'
  <2>1. Counted(s) /\ s \in Keys
    BY <1>1, <1>3 DEF RetriesAreUsed, Counted
  <2>2. Pending(s) => Pending(s)'
    BY <2>1 DEF NothingDropped
  <2>3. RetryAhead(s) => RetryAhead(s)'
    BY <1>3, <2>2 DEF RetryAhead
  <2>4. QED BY <1>2, <2>1, <2>3 DEF Counted
<1>4. QED BY <1>2, <1>3 DEF RetriesAreUsed, Counted

LEMMA RetriesOutside ==
  ASSUME TypeInv, RetriesAreUsed, Outside
  PROVE  RetriesAreUsed'
<1>1. OutsideAsks /\ enabled \subseteq CRs
  BY OutsideMeans DEF TypeInv, TypeOK
<1>2. QED BY <1>1, CountedAlone DEF OutsideAsks, syncVars, RetryAhead

\* Whatever writes at most one object keeps the watches busy.
LEMMA WatchStays ==
  ASSUME TypeInv, NEW i \in Item, UNCHANGED storeVars \/ ServerWrites(i.cr, i.spec)
  PROVE  \A s \in enabled : watch[s] # <<>> => watch'[s] # <<>>
<1>1. i.cr \in CRs /\ i.spec \in Specs \cup {Absent} /\ StoreTypeOK /\ enabled \subseteq CRs
  BY DEF Item, TypeInv, TypeOK
<1>2. QED BY <1>1, WatchGrows DEF storeVars

LEMMA RetriesCleanUp ==
  ASSUME TypeInv, RetriesAreUsed, CleanUp \/ CleanUpPanics
  PROVE  RetriesAreUsed'
<1>1. NothingDropped
  BY CleanUpDropsNothing
<1>2. UNCHANGED <<enabled, queue>> /\ syncPc \in {"start", "cleanup"}
  BY DEF CleanUp, CleanUpList, CleanUpDeletes, CleanUpDone, CleanUpPanics, surroundingVars
<1>3. \A s \in enabled : watch[s] # <<>> => watch'[s] # <<>>
  <2>1. CASE UNCHANGED storeVars
    BY <2>1 DEF storeVars
  <2>2. CASE \E i \in changes : UNCHANGED storeVars \/ ServerWrites(i.cr, i.spec)
    BY <2>2, WatchStays DEF TypeInv, TypeOK
  <2>3. QED
    BY <2>1, <2>2 DEF CleanUp, CleanUpList, CleanUpDeletes, CleanUpDone, CleanUpPanics
<1>4. QED BY <1>1, <1>2, <1>3, CountedAlone

LEMMA RetriesDecision ==
  ASSUME TypeInv, RetriesAreUsed,
         SyncGet \/ SyncMissing \/ SyncReadDomain \/ SyncListServices \/ SyncListCurrent
  PROVE  RetriesAreUsed'
<1> USE DEF surroundingVars, storeVars
<1>0. TypeOK /\ enabled \subseteq Keys /\ syncKey \in Keys /\ queue \in WorkQueueType(Keys)
  BY DEF TypeInv, TypeOK, Keys
<1>1. CASE SyncGet
  <2>1. /\ \A k \in Keys \ {syncKey'} : Pending(k) => Pending(k)'
        /\ queue'.failures = queue.failures
    BY <1>0, <1>1, GetDropsItsKey
  <2>2. /\ UNCHANGED <<enabled, watch>> /\ syncPc = "idle" /\ syncPc' = "domain"
    BY <1>1 DEF SyncGet
  <2>3. ASSUME NEW s \in enabled PROVE Counted(s)'
    <3>1. CASE s = syncKey'
      BY <2>2, <3>1 DEF Counted, RetryAhead
    <3>2. CASE s # syncKey'
      <4>1. Pending(s) => Pending(s)'
        BY <1>0, <2>1, <2>3, <3>2
      <4>2. RetryAhead(s) => RetryAhead(s)'
        BY <2>2, <4>1 DEF RetryAhead
      <4>3. QED BY <2>1, <2>3, <4>2 DEF Counted, RetriesAreUsed, NumRequeues
    <3>3. QED BY <3>1, <3>2
  <2>4. QED BY <2>1, <2>2, <2>3 DEF RetriesAreUsed, Counted, NumRequeues
<1>2. CASE SyncMissing \/ SyncReadDomain \/ SyncListServices
  <2>1. NothingDropped
    BY <1>0, <1>2, WorkerDropsNothing DEF Worker, SyncGet, SyncMissing, SyncReadDomain, SyncListServices
  <2>2. /\ UNCHANGED <<enabled, watch, syncKey, queue>>
        /\ syncPc \in {"domain", "services"} /\ syncPc' \in {"failed", "services", "current"}
    BY <1>2 DEF SyncMissing, SyncReadDomain, SyncListServices
  <2>3. QED BY <2>1, <2>2, CountedAlone DEF RetryAhead
<1>3. CASE SyncListCurrent
  <2>1. NothingDropped
    BY <1>0, <1>3, WorkerDropsNothing DEF Worker, SyncGet, SyncListCurrent
  <2>2. /\ UNCHANGED <<enabled, watch, syncKey>> /\ syncPc = "current" /\ syncPc' = "items"
        /\ queue' = IF changes' = {} THEN Forget(queue, syncKey) ELSE queue
    BY <1>3 DEF SyncListCurrent
  <2>3. CASE changes' # {}
    BY <2>1, <2>2, <2>3, CountedAlone DEF RetryAhead
  <2>4. CASE changes' = {}
    <3>1. queue'.failures = [queue.failures EXCEPT ![syncKey] = 0]
      BY <1>0, <2>2, <2>4, QueueFailures
    <3>2. queue.failures \in [Keys -> Nat]
      BY <1>0 DEF WorkQueueType
    <3>3. /\ queue'.failures[syncKey] = 0
          /\ \A k \in Keys \ {syncKey} : queue'.failures[k] = queue.failures[k]
      BY <1>0, <3>1, <3>2
    <3>4. ASSUME NEW s \in enabled PROVE Counted(s)'
      <4>1. CASE s = syncKey
        BY <3>3, <4>1 DEF Counted, NumRequeues
      <4>2. CASE s # syncKey
        <5>1. Pending(s) => Pending(s)'
          BY <1>0, <2>1, <3>4 DEF NothingDropped
        <5>2. RetryAhead(s) => RetryAhead(s)'
          BY <2>2, <4>2, <5>1 DEF RetryAhead
        <5>3. QED BY <1>0, <3>3, <3>4, <4>2, <5>2 DEF Counted, RetriesAreUsed, NumRequeues
      <4>3. QED BY <4>1, <4>2
    <3>5. \A k \in Keys : queue'.failures[k] <= QueueNumRetries
      BY <3>3, BoundsAssumption DEF RetriesAreUsed, NumRequeues
    <3>6. QED BY <2>2, <3>4, <3>5 DEF RetriesAreUsed, Counted, NumRequeues
  <2>5. QED BY <2>3, <2>4
<1>4. QED BY <1>1, <1>2, <1>3

LEMMA RetriesItems ==
  ASSUME TypeInv, ItemsAreOfTheSync, RetriesAreUsed,
         \/ DryRun \/ ApiSends \/ UpdatePanics \/ ApiAccepts
         \/ ApiRefuses \/ ApiFails \/ DryRunFails
  PROVE  RetriesAreUsed'
<1> USE DEF surroundingVars, storeVars
<1>0. TypeOK /\ enabled \subseteq CRs /\ CRs \subseteq Keys
  BY DEF TypeInv, TypeOK, Keys
<1>1. /\ UNCHANGED <<enabled, queue, syncKey>>
      /\ syncPc \in {"items", "call"}
  BY DEF DryRun, ApiSends, UpdatePanics, ApiAccepts, ApiRefuses, ApiFails, DryRunFails, NextItem
<1>2. NothingDropped
  BY <1>0, <1>1, WorkerDropsNothing DEF Worker, SyncGet
<1>3. \A s \in enabled : watch[s] # <<>> => watch'[s] # <<>>
  <2>1. CASE UNCHANGED storeVars
    BY <2>1
  <2>2. CASE syncPc = "call" /\ ServerWrites(item.cr, item.spec)
    BY <2>2, WatchStays DEF TypeInv, OnlyEnabledInCall
  <2>3. QED
    BY <2>1, <2>2
    DEF DryRun, ApiSends, UpdatePanics, ApiAccepts, ApiRefuses, ApiFails, DryRunFails
<1>4. SUFFICES ASSUME NEW s \in enabled, syncKey = s PROVE RetryAhead(s)'
  BY <1>1, <1>2, <1>3, CountedAlone
<1>5. Scope(syncKey) = {s}
  BY <1>0, <1>4, ScopeMeans
<1>6. CASE DryRun
  <2>1. PICK i \in changes : NextItem(i) /\ i.cr \notin enabled
    BY <1>6 DEF DryRun, ApiServices
  <2>2. i \in Item
    BY <1>0, <2>1 DEF TypeOK
  <2>3. i.cr \in Scope(syncKey)
    BY <2>1, <2>2, NoItemIsNone DEF NextItem, ItemsAreOfTheSync
  <2>4. QED BY <1>4, <1>5, <2>1, <2>3
<1>7. CASE ApiSends \/ UpdatePanics \/ ApiRefuses \/ ApiFails \/ DryRunFails
  BY <1>1, <1>4, <1>7
  DEF RetryAhead, ApiSends, UpdatePanics, ApiRefuses, ApiFails, DryRunFails
<1>8. CASE ApiAccepts
  <2>1. /\ item \in Item /\ item.cr \in CRs /\ item.spec \in Specs \cup {Absent} /\ StoreTypeOK
        /\ syncPc = "call" /\ ServerWrites(item.cr, item.spec)
    BY <1>8 DEF ApiAccepts, TypeInv, TypeOK, OnlyEnabledInCall, Item
  <2>2. item.cr = s
    BY <1>5, <2>1, NoItemIsNone DEF ItemsAreOfTheSync
  <2>3. QED BY <2>1, <2>2, WatchGrows DEF RetryAhead
<1>9. QED BY <1>6, <1>7, <1>8

LEMMA RetriesAtTheEnd ==
  ASSUME TypeInv, RetriesAreUsed, SyncRetries \/ SyncGivesUp \/ SyncDone
  PROVE  RetriesAreUsed'
<1> USE DEF surroundingVars, storeVars
<1>0. /\ TypeOK /\ enabled \subseteq Keys /\ syncKey \in Keys /\ queue \in WorkQueueType(Keys)
      /\ queue.failures \in [Keys -> Nat]
  BY DEF TypeInv, TypeOK, Keys, WorkQueueType
<1>1. NothingDropped
  BY <1>0, WorkerDropsNothing DEF Worker, SyncGet, SyncRetries, SyncGivesUp, SyncDone
<1>2. UNCHANGED <<enabled, watch, syncKey, changes>> /\ syncPc \in {"failed", "done", "items"}
  BY DEF SyncRetries, SyncGivesUp, SyncDone
<1>3. ASSUME NEW s \in enabled, s # syncKey PROVE RetryAhead(s) => RetryAhead(s)'
  <2>1. Pending(s) => Pending(s)'
    BY <1>0, <1>1, <1>3 DEF NothingDropped
  <2>2. QED BY <1>2, <1>3, <2>1 DEF RetryAhead
<1>4. CASE SyncRetries
  <2>1. /\ queue' = AddRateLimited(queue, syncKey)
        /\ NumRequeues(queue, syncKey) < QueueNumRetries
    BY <1>4 DEF SyncRetries
  <2>2. /\ queue'.failures = [queue.failures EXCEPT ![syncKey] = @ + 1]
        /\ queue'.delayed = queue.delayed \cup {syncKey}
    BY <1>0, <2>1, QueueFailures
  <2>3. /\ queue'.failures[syncKey] = queue.failures[syncKey] + 1
        /\ \A k \in Keys \ {syncKey} : queue'.failures[k] = queue.failures[k]
    BY <1>0, <2>2
  <2>4. \A k \in Keys : queue'.failures[k] <= QueueNumRetries
    <3>1. queue.failures[syncKey] \in Nat /\ queue.failures[syncKey] < QueueNumRetries
      BY <1>0, <2>1 DEF NumRequeues
    <3>2. queue.failures[syncKey] + 1 <= QueueNumRetries
      BY <3>1, BoundsAssumption
    <3>3. QED BY <2>3, <3>2 DEF RetriesAreUsed, NumRequeues
  <2>5. ASSUME NEW s \in enabled PROVE Counted(s)'
    <3>1. CASE s = syncKey
      BY <2>2, <3>1 DEF Counted, RetryAhead, Pending
    <3>2. CASE s # syncKey
      <4>1. NumRequeues(queue, s)' = NumRequeues(queue, s)
        BY <1>0, <2>3, <2>5, <3>2 DEF NumRequeues
      <4>2. QED BY <1>3, <2>5, <3>2, <4>1 DEF Counted, RetriesAreUsed
    <3>3. QED BY <3>1, <3>2
  <2>6. QED BY <1>2, <2>4, <2>5 DEF RetriesAreUsed, Counted, NumRequeues
<1>5. CASE SyncGivesUp
  <2>1. queue' = queue /\ NumRequeues(queue, syncKey) >= QueueNumRetries
    BY <1>5 DEF SyncGivesUp
  <2>2. NumRequeues(queue, syncKey) = QueueNumRetries
    <3>1. queue.failures[syncKey] \in Nat /\ queue.failures[syncKey] <= QueueNumRetries
      BY <1>0 DEF RetriesAreUsed, NumRequeues
    <3>2. QED BY <2>1, <3>1, BoundsAssumption DEF NumRequeues
  <2>3. ASSUME NEW s \in enabled PROVE Counted(s)'
    <3>1. CASE s = syncKey
      BY <2>1, <2>2, <3>1 DEF Counted, NumRequeues
    <3>2. CASE s # syncKey
      BY <1>3, <2>1, <2>3, <3>2 DEF Counted, RetriesAreUsed, NumRequeues
    <3>3. QED BY <3>1, <3>2
  <2>4. QED BY <1>2, <2>1, <2>3 DEF RetriesAreUsed, Counted, NumRequeues
<1>6. CASE SyncDone
  <2>1. queue'.failures = queue.failures
    <3>1. queue' = QueueDone(queue, syncKey)
      BY <1>6 DEF SyncDone
    <3>2. QED BY <1>0, <3>1, QueueFailures
  <2>2. syncPc = "done" \/ (syncPc = "items" /\ changes = {})
    BY <1>6 DEF SyncDone
  <2>3. QED BY <1>1, <1>2, <2>1, <2>2, CountedAlone
<1>7. QED BY <1>4, <1>5, <1>6

LEMMA RetriesStep ==
  ASSUME TypeInv, ItemsAreOfTheSync, RetriesAreUsed, [Next]_vars
  PROVE  RetriesAreUsed'
<1>1. CASE Restart \/ RestartAfterPanic
  <2>1. \A k \in Keys : NumRequeues(queue, k)' = 0
    BY <1>1, StartsAsk DEF TypeInv, Restart, RestartAfterPanic, NumRequeues
  <2>2. enabled' \subseteq Keys
    BY <1>1, EnabledType DEF Restart, RestartAfterPanic, TypeInv, TypeOK, Keys
  <2>3. QED BY <2>1, <2>2, BoundsAssumption DEF RetriesAreUsed
<1>2. CASE UNCHANGED vars
  BY <1>2
  DEF vars, surroundingVars, syncVars, storeVars, RetriesAreUsed, RetryAhead, Pending, NumRequeues
<1>3. QED
  BY <1>1, <1>2, RetriesOutside, RetriesCleanUp, RetriesDecision, RetriesItems, RetriesAtTheEnd
  DEF Next, Surroundings, Outside, Worker

LEMMA InitInductive == Init => Inductive
<1> SUFFICES ASSUME Init PROVE Inductive
  OBVIOUS
<1>1. TypeOK
  BY InitType DEF TypeInv
<1>2. CacheTrailsServer
  BY DEF Init, StoreInit, CacheTrailsServer
<1>3. \A s \in CRs : Asked(s)
  <2>1. \A s \in CRs : InitialNotes[s] > 0
    BY KeysAssumption DEF InitialNotes, Keys
  <2>2. QED BY <2>1 DEF Init, Asked, Pending
<1>4. StartAsksForAll /\ NoLostWork /\ StaleSyncIsFollowed /\ ItemsAreOfTheSync
  BY <1>3 DEF Init, StartAsksForAll, NoLostWork, SyncAhead, StaleSyncIsFollowed, ItemsAreOfTheSync
<1>5. RetriesAreUsed
  <2>1. \A k \in Keys : NumRequeues(queue, k) = 0
    BY DEF Init, EmptyQueue, NumRequeues
  <2>2. QED BY <1>1, <2>1, BoundsAssumption DEF RetriesAreUsed, TypeOK, Keys
<1>6. QED BY <1>1, <1>2, <1>4, <1>5 DEF Inductive

LEMMA NextInductive == TypeInv /\ Inductive /\ [Next]_vars => Inductive'
<1> SUFFICES ASSUME TypeInv, Inductive, [Next]_vars PROVE Inductive'
  OBVIOUS
<1>1. TypeOK'
  BY NextType DEF TypeInv
<1>2. QED
  BY <1>1, CacheStep, StartAsksStep, StaleStep, ItemsStep, LostStep, RetriesStep DEF Inductive

(***************************************************************************)
(* The inductive invariant: the cache trails the server, starting services *)
(* are asked for, stale syncs are followed, and the items in hand are what *)
(* the running sync wants.                                                 *)
(***************************************************************************)
THEOREM InductiveHolds == Spec => []Inductive
<1>1. Init /\ [][Next]_vars /\ []TypeInv => []Inductive
  BY InitInductive, NextInductive, PTL
<1>2. QED BY <1>1, SyncsAreEquipped, PTL DEF Spec

(***************************************************************************)
(* A sync that has read a domain or an annotation that changed since is    *)
(* followed by another one of the service or of its domain.                *)
(***************************************************************************)
THEOREM StaleSyncsAreFollowed == Spec => []StaleSyncIsFollowed
<1>1. Inductive => StaleSyncIsFollowed
  BY DEF Inductive
<1>2. QED BY <1>1, InductiveHolds, PTL

(***************************************************************************)
(* A service that is out of step always has a cache change, a sync, an     *)
(* item or, after its last retry, the resync ahead of it.                  *)
(***************************************************************************)
THEOREM NothingIsLost == Spec => []NoLostWork
<1>1. Inductive => NoLostWork
  BY DEF Inductive
<1>2. QED BY <1>1, InductiveHolds, PTL

(***************************************************************************)
(* At rest the retries of an enabled service are whole or all spent.       *)
(***************************************************************************)
THEOREM RetriesComeBack == Spec => []RetryBudgetRestored
<1>1. Inductive => RetryBudgetRestored
  <2>1. SUFFICES ASSUME Inductive, Quiescent, NEW s \in enabled
                 PROVE  NumRequeues(queue, s) \in {0, QueueNumRetries}
    BY DEF RetryBudgetRestored
  <2>2. s \in CRs /\ s \in Keys /\ notes[s] \in Nat
    BY <2>1 DEF Inductive, TypeOK, Keys
  <2>3. ~RetryAhead(s)
    BY <2>1, <2>2 DEF Quiescent, RetryAhead, Pending
  <2>4. QED BY <2>1, <2>3 DEF Inductive, RetriesAreUsed
<1>2. QED BY <1>1, InductiveHolds, PTL
=============================================================================

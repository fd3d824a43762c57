-------------------------- MODULE LifecycleProofs --------------------------
(***************************************************************************)
(* Proofs about Lifecycle: nothing works from a cache that has not synced. *)
(***************************************************************************)
EXTENDS Lifecycle, TLAPS

\* A goroutine that is past its wait.
Started ==
  \/ \E w \in Workers : worker[w] \in {"cleaning", "until", "get", "work", "exited"}
  \/ \E t \in Tickers : ticker[t] \in {"select", "exited"}

\* Whoever is past the wait has seen every cache synced, which a cache stays
\* for as long as the process lives.
StartedAfterSync == Started => hasSynced = Informers

StartInv == TypeOK /\ StartedAfterSync

LEMMA InitStartInv == Init => StartInv
  BY LengthAssumption, CrashesAssumption DEF Init, StartInv, TypeOK, StartedAfterSync, Started

(***************************************************************************)
(* Type correctness, one action at a time.                                 *)
(***************************************************************************)
LEMMA LengthGrows ==
  ASSUME TypeOK, NEW w \in Workers, Open(w)
  PROVE  [length EXCEPT ![w] = @ + 1] \in [Workers -> 0 .. MaxLength]
  BY LengthAssumption DEF TypeOK, Open

LEMMA LengthShrinks ==
  ASSUME TypeOK, NEW w \in Workers, length[w] > 0
  PROVE  [length EXCEPT ![w] = @ - 1] \in [Workers -> 0 .. MaxLength]
  BY LengthAssumption DEF TypeOK

\* After a panic nothing is left that has a type to keep.
LEMMA PanicsTypeOK == TypeOK /\ Panics => TypeOK'
  BY LengthAssumption, CrashesAssumption DEF TypeOK, Panics, Stopped

LEMMA TickersAreWorkers == Tickers \subseteq Workers
  BY DEF Tickers, Workers

LEMMA NextTypeOK == TypeOK /\ [Next]_vars => TypeOK'
<1> SUFFICES ASSUME TypeOK, [Next]_vars PROVE TypeOK'
  OBVIOUS
<1>1. CASE RunStarts
  BY <1>1 DEF TypeOK, RunStarts
<1>2. CASE RunContinues
  BY <1>2 DEF TypeOK, RunContinues
<1>3. CASE AuthzPolicyContinues
  BY <1>3 DEF TypeOK, AuthzPolicyContinues
<1>4. CASE WaitFails \/ CleanUpFails
  BY <1>4, PanicsTypeOK DEF WaitFails, CleanUpFails
<1>17. CASE CleanedUp
  BY <1>17 DEF TypeOK, CleanedUp
<1>18. ASSUME NEW w \in Workers, SyncPanics(w) PROVE TypeOK'
  BY <1>18, PanicsTypeOK DEF SyncPanics
<1>19. CASE ContainerRestarts
  BY <1>19 DEF TypeOK, ContainerRestarts
<1>5. ASSUME NEW w \in Workers, WorkerEnters(w) PROVE TypeOK'
  BY <1>5 DEF TypeOK, WorkerEnters
<1>6. ASSUME NEW w \in Workers, WorkerLeaves(w) PROVE TypeOK'
  BY <1>6, LengthAssumption DEF TypeOK, WorkerLeaves
<1>7. ASSUME NEW w \in Workers, WorkerGets(w) PROVE TypeOK'
  BY <1>7, LengthShrinks DEF TypeOK, WorkerGets
<1>8. ASSUME NEW w \in Workers, WorkerDone(w) PROVE TypeOK'
  <2>1. "processor" \in Workers
    BY DEF Workers
  <2>2. length' \in [Workers -> 0 .. MaxLength]
    BY <1>8, <2>1, LengthGrows DEF TypeOK, WorkerDone
  <2> QED
    BY <1>8, <2>2 DEF TypeOK, WorkerDone
<1>9. ASSUME NEW w \in Workers, Event(w) PROVE TypeOK'
  BY <1>9, LengthGrows DEF TypeOK, Event
<1>10. ASSUME NEW i \in Informers, InformerSyncs(i) PROVE TypeOK'
  BY <1>10 DEF TypeOK, InformerSyncs
<1>11. ASSUME NEW i \in Informers, InformerStops(i) PROVE TypeOK'
  BY <1>11 DEF TypeOK, InformerStops
<1>12. ASSUME NEW t \in Tickers, Tick(t) PROVE TypeOK'
  BY <1>12, LengthGrows, TickersAreWorkers DEF TypeOK, Tick
<1>13. ASSUME NEW t \in Tickers, TickerStops(t) PROVE TypeOK'
  BY <1>13 DEF TypeOK, TickerStops
<1>14. CASE Signal
  BY <1>14, CrashesAssumption DEF TypeOK, Signal
<1>15. CASE MainExits
  BY <1>15 DEF TypeOK, MainExits
<1>16. CASE UNCHANGED vars
  BY <1>16 DEF TypeOK, vars
<1> QED
  BY <1>1, <1>2, <1>3, <1>4, <1>5, <1>6, <1>7, <1>8, <1>9, <1>10, <1>11, <1>12, <1>13, <1>14,
     <1>15, <1>16, <1>17, <1>18, <1>19 DEF Next

(***************************************************************************)
(* Only two actions start something, both after all caches have synced; a  *)
(* panic ends everything, and no other action forgets that a cache has.    *)
(***************************************************************************)
LEMMA NextStarts == TypeOK /\ StartedAfterSync /\ [Next]_vars => StartedAfterSync'
<1> SUFFICES ASSUME TypeOK, StartedAfterSync, [Next]_vars PROVE StartedAfterSync'
  OBVIOUS
<1>0. CASE Panics
  BY <1>0 DEF Panics, StartedAfterSync, Started
<1>a. SUFFICES ASSUME ~Panics
               PROVE  /\ Started' => Started \/ hasSynced' = Informers
                      /\ hasSynced = Informers => hasSynced' = Informers
  BY <1>0 DEF StartedAfterSync
<1>1. CASE RunStarts
  BY <1>1 DEF TypeOK, RunStarts, Started
<1>2. CASE RunContinues
  BY <1>2 DEF RunContinues, AllSynced
<1>3. CASE AuthzPolicyContinues
  BY <1>3 DEF AuthzPolicyContinues, AllSynced
<1>4. CASE WaitFails \/ CleanUpFails
  BY <1>4, <1>a DEF WaitFails, CleanUpFails
<1>11. CASE CleanedUp
  BY <1>11 DEF TypeOK, CleanedUp, Started
<1>12. ASSUME NEW w \in Workers, SyncPanics(w) PROVE FALSE
  BY <1>12, <1>a DEF SyncPanics
<1>5. ASSUME NEW w \in Workers, WorkerEnters(w) \/ WorkerLeaves(w) \/ WorkerGets(w)
      PROVE (Started' => Started) /\ hasSynced' = hasSynced
  BY <1>5 DEF TypeOK, WorkerEnters, WorkerLeaves, WorkerGets, Started
<1>6. ASSUME NEW w \in Workers, WorkerDone(w) \/ Event(w)
      PROVE (Started' => Started) /\ hasSynced' = hasSynced
  BY <1>6 DEF TypeOK, WorkerDone, Event, Started
<1>7. ASSUME NEW i \in Informers, InformerSyncs(i)
      PROVE (Started' => Started) /\ (hasSynced = Informers => hasSynced' = Informers)
  BY <1>7 DEF InformerSyncs, Started
<1>8. ASSUME NEW i \in Informers, InformerStops(i)
      PROVE (Started' => Started) /\ hasSynced' = hasSynced
  BY <1>8 DEF InformerStops, Started
<1>9. ASSUME NEW t \in Tickers, Tick(t) \/ TickerStops(t)
      PROVE (Started' => Started) /\ hasSynced' = hasSynced
  BY <1>9 DEF TypeOK, Tick, TickerStops, Started
<1>10. CASE Signal \/ MainExits \/ ContainerRestarts \/ UNCHANGED vars
  BY <1>10 DEF Signal, MainExits, ContainerRestarts, vars, Started
<1> QED
  BY <1>1, <1>2, <1>3, <1>4, <1>5, <1>6, <1>7, <1>8, <1>9, <1>10, <1>11, <1>12 DEF Next

(***************************************************************************)
(* Every variable of the life cycle has its type; no queue is taken from   *)
(* while it is empty.                                                      *)
(***************************************************************************)
THEOREM LifecycleTypeCorrect == Spec => []TypeOK
<1>1. Init => TypeOK
  BY InitStartInv DEF StartInv
<1> QED
  BY <1>1, NextTypeOK, PTL DEF Spec

(***************************************************************************)
(* A goroutine that is past its wait has seen every cache synced, in the   *)
(* life of the process it belongs to.                                      *)
(***************************************************************************)
THEOREM StartsAfterSync == Spec => []StartInv
<1>1. StartInv /\ [Next]_vars => StartInv'
  BY NextTypeOK, NextStarts DEF StartInv
<1> QED
  BY <1>1, InitStartInv, PTL DEF Spec

(***************************************************************************)
(* No worker takes a key, no clean-up starts and no resync lists a cache   *)
(* before every cache has synced, with or without the authorization policy *)
(* controller, through crashes and restarts and however long the queues:   *)
(* whoever works is past its wait.                                         *)
(***************************************************************************)
THEOREM NothingWorksBeforeSync == Spec => []NothingBeforeSync
<1>1. StartInv => NothingBeforeSync
  BY DEF StartInv, StartedAfterSync, Started, NothingBeforeSync
<1> QED
  BY <1>1, StartsAfterSync, PTL
=============================================================================

----------------------------- MODULE Lifecycle -----------------------------
(***************************************************************************)
(* How the process starts, crashes and stops: main, Controller.Run and the *)
(* Run methods it starts in goroutines of their own.                       *)
(*                                                                         *)
(*   informers  fill a cache each and call event handlers, until stopCh    *)
(*   workers    Run of a controller: wait.Until(runWorker) in which        *)
(*              processNextItem blocks in queue.Get; the deferred ShutDown *)
(*              of the queue comes after wait.Until has returned           *)
(*   tickers    the resync loops, which select on stopCh                   *)
(*                                                                         *)
(* The worker of the domain controller is the goroutine of Controller.Run, *)
(* which starts the others once the caches have synced.  A queue is only   *)
(* shut down by its own worker on its way out, so that a Get that returns  *)
(* quit does not occur.  The one second main sleeps is taken to be as long *)
(* as any goroutine that is able to move needs.                            *)
(*                                                                         *)
(* A panic in any goroutine ends the process.  If nobody had told it to    *)
(* stop, Kubernetes starts the container again, and all of it anew.        *)
(***************************************************************************)
EXTENDS Naturals

CONSTANTS
  EnableAuthzPolicy,  \* --enable-ap-controller
  MaxLength,          \* bound: how many keys wait in a queue
  MaxCrashes          \* bound: how often the process crashes before the signal

ASSUME EnableAssumption == EnableAuthzPolicy \in BOOLEAN
ASSUME LengthAssumption == MaxLength \in Nat \ {0}
ASSUME CrashesAssumption == MaxCrashes \in Nat

Informers == {"config", "service", "athenz"}

AuthzPolicyController == IF EnableAuthzPolicy THEN {"authzpolicy"} ELSE {}

Workers == {"domain", "processor", "onboarding"} \cup AuthzPolicyController
Tickers == {"domain", "onboarding"} \cup AuthzPolicyController

\* The informers whose events add keys to the queue of a worker.
EventsOf ==
  [w \in Workers |-> CASE w = "domain"      -> {"athenz", "config"}
                       [] w = "processor"   -> {}
                       [] w = "onboarding"  -> {"service", "config"}
                       [] w = "authzpolicy" -> Informers]

VARIABLES
  main,      \* "waiting" for a signal, "crashed" before one; after it
             \* "sleeping", "panicked" or "exited"
  informer,  \* "created", "running" or "exited"
  hasSynced, \* the informers whose HasSynced answers true
  worker,    \* "created", "waiting" (WaitForCacheSync), "cleaning" (cleanUpStaleAP),
             \* "until", "get", "work" or "exited"
  ticker,    \* "created", "select" or "exited"
  length,    \* the number of keys in the queue of each worker
  crashes    \* how often the process has crashed, which after the signal is of
             \* no importance: 0

vars == <<main, informer, hasSynced, worker, ticker, length, crashes>>

TypeOK ==
  /\ main \in {"waiting", "crashed", "sleeping", "panicked", "exited"}
  /\ informer \in [Informers -> {"created", "running", "exited"}]
  /\ hasSynced \subseteq Informers
  /\ worker \in [Workers -> {"created", "waiting", "cleaning", "until", "get", "work", "exited"}]
  /\ ticker \in [Tickers -> {"created", "select", "exited"}]
  /\ length \in [Workers -> 0 .. MaxLength]
  /\ crashes \in 0 .. MaxCrashes

Init ==
  /\ main = "waiting"
  /\ informer = [i \in Informers |-> "created"]
  /\ hasSynced = {}
  /\ worker = [w \in Workers |-> "created"]
  /\ ticker = [t \in Tickers |-> "created"]
  /\ length = [w \in Workers |-> 0]
  /\ crashes = 0

\* The queue of a worker takes another key.
Open(w) == worker[w] # "exited" /\ length[w] < MaxLength

Up == main \in {"waiting", "sleeping"}
Stopped == main \in {"sleeping", "panicked", "exited"}

\* A panic that nobody recovers takes every goroutine with it.
Panics ==
  /\ \/ Stopped /\ main' = "panicked" /\ UNCHANGED crashes
     \/ ~Stopped /\ main' = "crashed" /\ crashes < MaxCrashes /\ crashes' = crashes + 1
  /\ informer' = [i \in Informers |-> "created"]
  /\ hasSynced' = {}
  /\ worker' = [w \in Workers |-> "created"]
  /\ ticker' = [t \in Tickers |-> "created"]
  /\ length' = [w \in Workers |-> 0]

(***************************************************************************)
(* Controller.Run                                                          *)
(***************************************************************************)
\* Waiting for the caches before their informers are started.
RunWaitsFirst ==
  /\ Up /\ worker["domain"] = "created"
  /\ worker' = [worker EXCEPT !["domain"] = "waiting"]
  /\ UNCHANGED <<main, informer, hasSynced, ticker, length, crashes>>

RunStarts ==
  /\ Up /\ worker["domain"] = "created"
  /\ informer' = [i \in Informers |-> "running"]
  /\ worker' = [worker EXCEPT !["domain"] = "waiting"]
  /\ UNCHANGED <<main, hasSynced, ticker, length, crashes>>

\* Waiting for the config cache alone.
ConfigSynced == "config" \in hasSynced

\* The caches have synced: the other controllers are started.
AllSynced == hasSynced = Informers

RunContinues ==
  /\ Up /\ worker["domain"] = "waiting" /\ AllSynced
  /\ worker' = [w \in Workers |-> IF w = "authzpolicy" THEN "waiting" ELSE "until"]
  /\ ticker' = [t \in Tickers |-> "select"]
  /\ UNCHANGED <<main, informer, hasSynced, length, crashes>>

\* authorizationpolicy.Controller.Run waits for the same caches again, then
\* lists and deletes the policies of services that are no longer enabled.
AuthzPolicyContinues ==
  /\ Up /\ EnableAuthzPolicy
  /\ worker["authzpolicy"] = "waiting" /\ AllSynced
  /\ worker' = [worker EXCEPT !["authzpolicy"] = "cleaning"]
  /\ UNCHANGED <<main, informer, hasSynced, ticker, length, crashes>>

CleanedUp ==
  /\ Up /\ EnableAuthzPolicy /\ worker["authzpolicy"] = "cleaning"
  /\ worker' = [worker EXCEPT !["authzpolicy"] = "until"]
  /\ UNCHANGED <<main, informer, hasSynced, ticker, length, crashes>>

\* cleanUpStaleAP returns the error of an API call: log.Panicf.
CleanUpFails ==
  /\ Up /\ EnableAuthzPolicy /\ worker["authzpolicy"] = "cleaning"
  /\ Panics

\* WaitForCacheSync gives up only when stopCh is closed: log.Panicln.
WaitFails ==
  /\ Up /\ Stopped
  /\ \E w \in Workers : worker[w] = "waiting"
  /\ Panics

(***************************************************************************)
(* wait.Until(c.runWorker, 0, stopCh), and the queue.                      *)
(***************************************************************************)
WorkerEnters(w) ==
  /\ Up /\ ~Stopped /\ worker[w] = "until"
  /\ worker' = [worker EXCEPT ![w] = "get"]
  /\ UNCHANGED <<main, informer, hasSynced, ticker, length, crashes>>

\* queue.ShutDown: nothing is added any more, and nobody takes what is left.
WorkerLeaves(w) ==
  /\ Up /\ Stopped /\ worker[w] = "until"
  /\ worker' = [worker EXCEPT ![w] = "exited"]
  /\ length' = [length EXCEPT ![w] = 0]
  /\ UNCHANGED <<main, informer, hasSynced, ticker, crashes>>

\* A Get that does not block on an empty queue.
WorkerGetsAnything(w) ==
  /\ Up /\ worker[w] = "get"
  /\ worker' = [worker EXCEPT ![w] = "work"]
  /\ length' = [length EXCEPT ![w] = @ - 1]
  /\ UNCHANGED <<main, informer, hasSynced, ticker, crashes>>

WorkerGets(w) ==
  /\ Up /\ worker[w] = "get" /\ length[w] > 0
  /\ worker' = [worker EXCEPT ![w] = "work"]
  /\ length' = [length EXCEPT ![w] = @ - 1]
  /\ UNCHANGED <<main, informer, hasSynced, ticker, crashes>>

\* processNextItem returns true; a sync may have handed an item over.
WorkerDone(w) ==
  /\ Up /\ worker[w] = "work"
  /\ worker' = [worker EXCEPT ![w] = "get"]
  /\ \/ UNCHANGED length
     \/ /\ w \in {"domain", "onboarding"} /\ Open("processor")
        /\ length' = [length EXCEPT !["processor"] = @ + 1]
  /\ UNCHANGED <<main, informer, hasSynced, ticker, crashes>>

\* The sync in progress dereferences nil: in the conversion of a domain that
\* trusts one without policies, or in an update of a policy that is gone.
SyncPanics(w) ==
  /\ Up /\ w \in {"domain", "authzpolicy"} /\ worker[w] = "work"
  /\ Panics

(***************************************************************************)
(* Informers, tickers, main and the container.                             *)
(***************************************************************************)
InformerSyncs(i) ==
  /\ Up /\ informer[i] = "running" /\ i \notin hasSynced
  /\ hasSynced' = hasSynced \cup {i}
  /\ UNCHANGED <<main, informer, worker, ticker, length, crashes>>

Event(w) ==
  /\ Up /\ Open(w)
  /\ \E i \in EventsOf[w] : informer[i] = "running"
  /\ length' = [length EXCEPT ![w] = @ + 1]
  /\ UNCHANGED <<main, informer, hasSynced, worker, ticker, crashes>>

InformerStops(i) ==
  /\ Up /\ Stopped /\ informer[i] = "running"
  /\ informer' = [informer EXCEPT ![i] = "exited"]
  /\ UNCHANGED <<main, hasSynced, worker, ticker, length, crashes>>

Tick(t) ==
  /\ Up /\ ticker[t] = "select" /\ Open(t)
  /\ length' = [length EXCEPT ![t] = @ + 1]
  /\ UNCHANGED <<main, informer, hasSynced, worker, ticker, crashes>>

\* A resync loop that looks at stopCh only while its worker runs.
TickerStopsWithWorker(t) ==
  /\ Up /\ Stopped /\ ticker[t] = "select" /\ worker[t] = "exited"
  /\ ticker' = [ticker EXCEPT ![t] = "exited"]
  /\ UNCHANGED <<main, informer, hasSynced, worker, length, crashes>>

TickerStops(t) ==
  /\ Up /\ Stopped /\ ticker[t] = "select"
  /\ ticker' = [ticker EXCEPT ![t] = "exited"]
  /\ UNCHANGED <<main, informer, hasSynced, worker, length, crashes>>

\* SIGINT or SIGTERM: close(stopCh).
Signal ==
  /\ main = "waiting"
  /\ main' = "sleeping"
  /\ crashes' = 0
  /\ UNCHANGED <<informer, hasSynced, worker, ticker, length>>

\* os.Exit, when every goroutine that is on its way out is out and the
\* workers have no work left.
MainExits ==
  /\ main = "sleeping"
  /\ \A i \in Informers : informer[i] # "running"
  /\ \A t \in Tickers : ticker[t] # "select"
  /\ \A w \in Workers :
       worker[w] \in {"created", "exited"} \/ (worker[w] = "get" /\ length[w] = 0)
  /\ main' = "exited"
  /\ UNCHANGED <<informer, hasSynced, worker, ticker, length, crashes>>

\* Kubernetes starts the container of a process that has crashed.
ContainerRestarts ==
  /\ main = "crashed"
  /\ main' = "waiting"
  /\ UNCHANGED <<informer, hasSynced, worker, ticker, length, crashes>>

Next ==
  \/ RunStarts \/ RunContinues \/ AuthzPolicyContinues
  \/ CleanedUp \/ CleanUpFails \/ WaitFails
  \/ \E w \in Workers :
       \/ WorkerEnters(w) \/ WorkerLeaves(w) \/ WorkerGets(w) \/ WorkerDone(w)
       \/ SyncPanics(w) \/ Event(w)
  \/ \E i \in Informers : InformerSyncs(i) \/ InformerStops(i)
  \/ \E t \in Tickers : Tick(t) \/ TickerStops(t)
  \/ Signal \/ MainExits \/ ContainerRestarts

\* The steps that start and end goroutines.
Starting == RunStarts \/ RunContinues \/ AuthzPolicyContinues \/ CleanedUp \/ CleanUpFails
Informing == \E i \in Informers : InformerSyncs(i) \/ InformerStops(i)
Stopping == \E t \in Tickers : TickerStops(t)

\* The goroutines run, the API server answers the lists of the informers, and
\* Kubernetes restarts what has crashed; events, ticks, failures and the signal
\* need not happen.  A select takes every case that stays ready, stopCh among
\* them.  A goroutine starts, syncs and stops once in a life of the process, so
\* that fairness to any of these steps is fairness to each of them.
Fairness ==
  /\ WF_vars(Starting) /\ WF_vars(Informing) /\ WF_vars(Stopping)
  /\ WF_vars(ContainerRestarts)
  /\ \A w \in Workers :
       WF_vars(WorkerEnters(w) \/ WorkerLeaves(w) \/ WorkerGets(w) \/ WorkerDone(w))

Spec == Init /\ [][Next]_vars /\ Fairness

(***************************************************************************)
(* Properties.                                                             *)
(***************************************************************************)

(***************************************************************************)
(* No worker takes a key, no policy is cleaned up and no resync lists a    *)
(* cache before every cache has synced in this life of the process         *)
(* (controller.go:218-228, authorizationpolicy/controller.go:115): what a  *)
(* cache does not hold yet would be taken for deleted.                     *)
(***************************************************************************)
NothingBeforeSync ==
  (\E w \in Workers : worker[w] \in {"cleaning", "get", "work"}) \/ (\E t \in Tickers : ticker[t] = "select")
    => hasSynced = Informers

(***************************************************************************)
(* Unless the process is told to stop, all workers come to take keys at    *)
(* the same time, again after every crash: also when the clean-up of one   *)
(* controller has failed and taken the others with it that were at work    *)
(* (authorizationpolicy/controller.go:121-124).                            *)
(***************************************************************************)
EveryWorkerStarts ==
  []<>(Stopped \/ (Up /\ \A w \in Workers : worker[w] \in {"get", "work"}))

(***************************************************************************)
(* After the signal the informers and the resync loops come to an end      *)
(* (controller.go:214-216, 283-285), unless the process panics.            *)
(***************************************************************************)
StopEndsLoops ==
  Stopped ~> \/ main = "panicked"
             \/ /\ \A i \in Informers : informer[i] # "running"
                /\ \A t \in Tickers : ticker[t] # "select"

(***************************************************************************)
(* main.go:133: "sleep to allow go routines to successfully exit".  With   *)
(* all the time they need, the goroutines have exited when main does.      *)
(***************************************************************************)
ExitIsClean == main = "exited" => \A w \in Workers : worker[w] \in {"created", "exited"}
=============================================================================

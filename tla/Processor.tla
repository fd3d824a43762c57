----------------------------- MODULE Processor -----------------------------
(***************************************************************************)
(* src/pkg/istio/processor: the single worker that sends the items the     *)
(* other controllers decided on to the API server.  The queue holds        *)
(* pointers, so two items with the same content are never merged and the   *)
(* failure count kept by the rate limiter is the count of one pointer:     *)
(* the field tries of the item.                                            *)
(*                                                                         *)
(* procPc   "idle"     waiting in queue.Get                                *)
(*          "call"     in sync, about to reach the API server              *)
(*          "callback" the API call returned procResult                    *)
(*          "requeue"  the callback found retries left for its own key and *)
(*                     is about to add it to the queue of its controller   *)
(* A call ends in the verdict of the server, or in "error": a failure that *)
(* is none of AlreadyExists, NotFound and Conflict, after which the write  *)
(* may or may not have happened.                                           *)
(***************************************************************************)
EXTENDS ConfigStore, ChangeList, SequencesExt

CONSTANTS
  QueueNumRetries,  \* queueNumRetries
  MaxFaults         \* bound: how many API calls may fail

ASSUME RetriesAssumption == QueueNumRetries \in Nat
ASSUME FaultsAssumption == MaxFaults \in Nat

VARIABLES
  procQueue,    \* the items ready to be taken, in order
  procDelayed,  \* the items waiting out a back-off
  procPc,
  procItem,     \* the item in hand
  procResult,   \* how its API call ended
  gaveUp,       \* the resources whose last item was dropped for good
  faults        \* how many API calls failed so far

processorVars == <<procQueue, procDelayed, procPc, procItem, procResult, gaveUp, faults>>

Verdicts == {"ok", "alreadyExists", "notFound", "conflict"}

NoItem == [op |-> "none"]

ProcessorTypeOK ==
  /\ procQueue \in Seq(Item)
  /\ procDelayed \in Seq(Item)
  /\ procPc \in {"idle", "call", "callback", "requeue"}
  /\ procItem \in Item \cup {NoItem}
  /\ procPc # "idle" => procItem \in Item
  /\ procResult \in Verdicts \cup {"none", "error"}
  /\ gaveUp \in SUBSET CRs
  /\ faults \in Nat

ProcessorInit ==
  /\ procQueue = <<>>
  /\ procDelayed = <<>>
  /\ procPc = "idle"
  /\ procItem = NoItem
  /\ procResult = "none"
  /\ gaveUp = {}
  /\ faults = 0

\* ProcessConfigChange
ProcessConfigChange(i) == procQueue' = Append(procQueue, i)

\* The worker takes the next item.
ProcGet ==
  /\ procPc = "idle"
  /\ procQueue # <<>>
  /\ procQueue' = Tail(procQueue)
  /\ procItem' = Head(procQueue)
  /\ procPc' = "call"
  /\ UNCHANGED <<procDelayed, procResult, gaveUp, faults, storeVars>>

\* A call that puts the version the cache holds by now on an old decision.
ProcCallFreshVersion ==
  LET fresh == Verdict([procItem EXCEPT !.rev = cache[procItem.cr].rev])
  IN  /\ procPc = "call"
      /\ IF fresh = "ok" THEN ServerWrites(procItem.cr, procItem.spec) ELSE UNCHANGED storeVars
      /\ procResult' = fresh
      /\ procPc' = "callback"
      /\ UNCHANGED <<procQueue, procDelayed, procItem, gaveUp, faults>>

\* The API call is executed and answered.
ProcCall ==
  /\ procPc = "call"
  /\ IF Verdict(procItem) = "ok"
     THEN ServerWrites(procItem.cr, procItem.spec)
     ELSE UNCHANGED storeVars
  /\ procResult' = Verdict(procItem)
  /\ procPc' = "callback"
  /\ UNCHANGED <<procQueue, procDelayed, procItem, gaveUp, faults>>

\* The API call fails: the request or the answer is lost on the way.
ProcCallFails ==
  /\ procPc = "call"
  /\ faults < MaxFaults
  /\ \/ UNCHANGED storeVars
     \/ /\ Verdict(procItem) = "ok"
        /\ ServerWrites(procItem.cr, procItem.spec)
  /\ procResult' = "error"
  /\ procPc' = "callback"
  /\ faults' = faults + 1
  /\ UNCHANGED <<procQueue, procDelayed, procItem, gaveUp>>

\* The worker is done with the item in hand.
ProcRelease ==
  /\ procPc' = "idle"
  /\ procItem' = NoItem
  /\ procResult' = "none"

\* The callback returned nil: Forget and Done.
ProcForget ==
  /\ ProcRelease
  /\ UNCHANGED <<procQueue, procDelayed, gaveUp, faults, storeVars>>

\* The callback returned an error and retries are left: AddRateLimited and Done.
ProcRetry ==
  /\ procItem.tries < QueueNumRetries
  /\ procDelayed' = Append(procDelayed, [procItem EXCEPT !.tries = @ + 1])
  /\ ProcRelease
  /\ UNCHANGED <<procQueue, gaveUp, faults, storeVars>>

\* The callback returned an error and no retry is left: the item is dropped.
ProcDrop ==
  /\ procItem.tries >= QueueNumRetries
  /\ gaveUp' = gaveUp \cup {procItem.cr}
  /\ ProcRelease
  /\ UNCHANGED <<procQueue, procDelayed, faults, storeVars>>

\* The back-off of a delayed item has passed; items wait for different times.
ProcBackoffOver(n) ==
  /\ procQueue' = Append(procQueue, procDelayed[n])
  /\ procDelayed' = RemoveAt(procDelayed, n)
  /\ UNCHANGED <<procPc, procItem, procResult, gaveUp, faults, storeVars>>
=============================================================================

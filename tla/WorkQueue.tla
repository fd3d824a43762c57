----------------------------- MODULE WorkQueue -----------------------------
(***************************************************************************)
(* The rate limiting work queue of client-go (k8s.io/client-go/util/       *)
(* workqueue), as the controllers use it.  It is a library: it is modelled *)
(* from the calls made in src/pkg, with the guarantees its interface       *)
(* states.  A queue is a record                                            *)
(*   order       the keys ready to be taken, first in first out            *)
(*   dirty       the keys that need processing                             *)
(*   processing  the keys taken and not yet Done                           *)
(*   delayed     the keys waiting out a back-off (AddRateLimited)          *)
(*   failures    how often each key was rate limited since the last Forget *)
(* A key that is added while it is dirty is not queued twice, and a key    *)
(* that is added while it is processed is queued again when it is Done.    *)
(***************************************************************************)
EXTENDS Naturals, Sequences

EmptyQueue(K) ==
  [order |-> <<>>, dirty |-> {}, processing |-> {}, delayed |-> {},
   failures |-> [k \in K |-> 0]]

WorkQueueType(K) ==
  [order : Seq(K), dirty : SUBSET K, processing : SUBSET K,
   delayed : SUBSET K, failures : [K -> Nat]]

QueueAdd(q, k) ==
  IF k \in q.dirty THEN q
  ELSE [q EXCEPT !.dirty = @ \cup {k},
                 !.order = IF k \in q.processing THEN @ ELSE Append(@, k)]

QueueGet(q) ==
  [q EXCEPT !.order = Tail(@),
            !.processing = @ \cup {Head(q.order)},
            !.dirty = @ \ {Head(q.order)}]

QueueDone(q, k) ==
  [q EXCEPT !.processing = @ \ {k},
            !.order = IF k \in q.dirty THEN Append(@, k) ELSE @]

AddRateLimited(q, k) ==
  [q EXCEPT !.failures[k] = @ + 1, !.delayed = @ \cup {k}]

\* The back-off of a delayed key has passed.
BackoffOver(q, k) == QueueAdd([q EXCEPT !.delayed = @ \ {k}], k)

Forget(q, k) == [q EXCEPT !.failures[k] = 0]

NumRequeues(q, k) == q.failures[k]
=============================================================================

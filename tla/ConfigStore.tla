---------------------------- MODULE ConfigStore ----------------------------
(***************************************************************************)
(* The Istio custom resources as the controller sees them: the Kubernetes  *)
(* API server that stores them, and model.ConfigStoreCache, the informer   *)
(* cache every read of the controller goes to.  Both are libraries and     *)
(* services outside src/; they are modelled from the calls of              *)
(* Create/Update/Delete/Get/List in src/pkg.                               *)
(*                                                                         *)
(* The cache of one resource follows the server through the ordered stream *)
(* watch[r].                                                               *)
(***************************************************************************)
EXTENDS Resources, Sequences

VARIABLES
  server,  \* server[r]: the object held by the API server
  cache,   \* cache[r]: the object in the informer's store
  watch    \* watch[r]: the server's changes of r not yet in the cache

storeVars == <<server, cache, watch>>

StoreTypeOK ==
  /\ server \in [CRs -> Objects]
  /\ cache \in [CRs -> Objects]
  /\ watch \in [CRs -> Seq(Objects)]

\* The caches have synced (WaitForCacheSync) with whatever the server holds.
StoreInit ==
  /\ server \in [CRs -> [rev : {0}, spec : Specs \cup {Absent}]]
  /\ cache = server
  /\ watch = [r \in CRs |-> <<>>]

\* The server stores content s for r as a new version and tells the watcher.
ServerWrites(r, s) ==
  LET obj == [rev |-> server[r].rev + 1, spec |-> s]
  IN  /\ server' = [server EXCEPT ![r] = obj]
      /\ watch' = [watch EXCEPT ![r] = Append(@, obj)]
      /\ UNCHANGED cache

\* The informer applies the next change of r to its store.
CacheReceives(r) ==
  /\ watch[r] # <<>>
  /\ cache' = [cache EXCEPT ![r] = Head(watch[r])]
  /\ watch' = [watch EXCEPT ![r] = Tail(@)]
  /\ UNCHANGED server

\* A process that starts lists the server afresh.
CacheRelists ==
  /\ cache' = server
  /\ watch' = [r \in CRs |-> <<>>]
  /\ UNCHANGED server

\* What the API server answers to an item's operation on an object: a Create
\* of one that exists, an Update or a Delete of one that does not, and an
\* Update whose resource version is not the stored one are refused.
Answer(item, obj) ==
  CASE item.op = "add"    -> IF obj.spec = Absent THEN "ok" ELSE "alreadyExists"
    [] item.op = "update" -> IF obj.spec = Absent THEN "notFound"
                             ELSE IF obj.rev = item.rev THEN "ok" ELSE "conflict"
    [] item.op = "delete" -> IF obj.spec = Absent THEN "notFound" ELSE "ok"

Verdict(item) == Answer(item, server[item.cr])
=============================================================================

---------------------------- MODULE EnabledList ----------------------------
(***************************************************************************)
(* src/pkg/istio/rbac/common/util.go, 502-560: which services the flag     *)
(* ap-enabled-list enables.  A list is the sequence of its items, and an   *)
(* item the sequence of its parts between slashes: <<"ns", "svc">>,        *)
(* <<"ns", "*">> for a whole namespace, <<"*">> for the cluster, which     *)
(* means the cluster only when nothing else is in the list, and <<"">> for *)
(* nothing between two commas, which is skipped.                           *)
(***************************************************************************)
LOCAL INSTANCE Sequences
LOCAL INSTANCE Functions

Star == "*"

WholeCluster == << <<Star>> >>

\* The process panics before anything runs (main.go:115-118).
Malformed(list) ==
  list # WholeCluster /\ \E item \in Range(list) : item # <<"">> /\ Len(item) # 2

ParseComponentsEnabledAuthzPolicy(list) ==
  [cluster    |-> list = WholeCluster,
   namespaces |-> {item[1] : item \in {i \in Range(list) : Len(i) = 2 /\ i[2] = Star}},
   services   |-> {i \in Range(list) : Len(i) = 2 /\ i[2] # Star}]

IsEnabled(components, service, namespace) ==
  \/ components.cluster
  \/ namespace \in components.namespaces
  \/ <<namespace, service>> \in components.services
=============================================================================

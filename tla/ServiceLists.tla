---------------------------- MODULE ServiceLists ----------------------------
(***************************************************************************)
(* The list algorithms of src/pkg/istio/onboarding: how the services listed *)
(* in the ClusterRbacConfig are brought in step with the services that are *)
(* onboarded.  A list is a sequence, and may hold a service more than once *)
(* when someone edited it by hand.                                         *)
(***************************************************************************)
EXTENDS Integers, SequencesExt

\* compareServiceLists: the items of list a that are not in list b.
CompareServiceLists(a, b) ==
  LET missing[n \in 0 .. Len(a)] ==
        IF n = 0 THEN <<>>
        ELSE IF a[n] \in Range(b) THEN missing[n - 1]
        ELSE Append(missing[n - 1], a[n])
  IN  missing[Len(a)]

\* addServices
AddServices(services, inclusion) == inclusion \o services

\* removeIndexElement with the last element dropped instead of moved.
RemoveLastElement(list, n) == [k \in 1 .. Len(list) - 1 |-> list[k]]

\* removeIndexElement: the last element takes the place of the removed one.
\* Its guard against an index out of range is left out: n is in DOMAIN list.
RemoveIndexElement(list, n) ==
  [k \in 1 .. Len(list) - 1 |-> IF k = n THEN list[Len(list)] ELSE list[k]]

FirstIndex(list, s) ==
  CHOOSE n \in DOMAIN list : list[n] = s /\ \A k \in 1 .. n - 1 : list[k] # s

\* deleteServices removes the first occurrence of each of the services.
DeleteServices(services, inclusion) ==
  LET left[n \in 0 .. Len(services)] ==
        IF n = 0 THEN inclusion
        ELSE IF services[n] \in Range(left[n - 1])
        THEN RemoveIndexElement(left[n - 1], FirstIndex(left[n - 1], services[n]))
        ELSE left[n - 1]
  IN  left[Len(services)]

\* The list sync writes: first what is new is added, then what is old, in the
\* list that has just grown, is deleted.
Reconciled(listing, inclusion) ==
  LET grown == AddServices(CompareServiceLists(listing, inclusion), inclusion)
  IN  DeleteServices(CompareServiceLists(grown, listing), grown)

\* Whether sync finds anything to write at all.
NeedsUpdate(listing, inclusion) ==
  \/ CompareServiceLists(listing, inclusion) # <<>>
  \/ CompareServiceLists(inclusion, listing) # <<>>

Occurrences(list, s) == Cardinality({n \in DOMAIN list : list[n] = s})
=============================================================================

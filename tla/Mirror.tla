------------------------------- MODULE Mirror -------------------------------
(***************************************************************************)
(* What a controller that mirrors Athenz domains promises, whatever queues *)
(* and caches it has inside: it intends only what a domain it found asks   *)
(* for, all of a domain at one moment, writes only what it intends, one    *)
(* resource at a time, and may at any moment forget any of it.             *)
(***************************************************************************)
EXTENDS Naturals

CONSTANTS
  CRs, Specs, Absent,          \* as in Resources
  Domains, DomainOf, NoDomain  \* as in DomainController

VARIABLES
  wanted,    \* wanted[d]: what each resource should be, or NoDomain
  actual,    \* actual[r]: the content of r, or Absent
  intended,  \* pairs of a resource and the content it shall get
  others     \* how often someone else has acted

vars == <<wanted, actual, intended, others>>

Contents == Specs \cup {Absent}

Init ==
  /\ wanted \in [Domains -> [CRs -> Contents] \cup {NoDomain}]
  /\ actual \in [CRs -> Contents]
  /\ intended = {}
  /\ others = 0

(***************************************************************************)
(* The controller.                                                         *)
(***************************************************************************)
Forgets == intended' \subseteq intended

Decide(d) ==
  /\ wanted[d] # NoDomain
  /\ intended' = intended \cup {<<r, wanted[d][r]>> : r \in {x \in CRs : DomainOf[x] = d}}
  /\ UNCHANGED <<wanted, actual, others>>

Write(r, c) ==
  /\ <<r, c>> \in intended
  /\ actual' = [actual EXCEPT ![r] = c]
  /\ Forgets
  /\ UNCHANGED <<wanted, others>>

Forget == Forgets /\ UNCHANGED <<wanted, actual, others>>

(***************************************************************************)
(* The others: Athenz, other people, and whoever restarts the controller.  *)
(***************************************************************************)
DomainChanges(d, c) ==
  /\ wanted' = [wanted EXCEPT ![d] = c]
  /\ UNCHANGED <<actual, intended>>

ResourceChanges(r, c) ==
  /\ actual' = [actual EXCEPT ![r] = c]
  /\ UNCHANGED <<wanted, intended>>

Restart == intended' = {} /\ UNCHANGED <<wanted, actual>>

Controller ==
  \/ \E d \in Domains : Decide(d)
  \/ \E r \in CRs, c \in Contents : Write(r, c)
  \/ Forget

Others ==
  /\ others' = others + 1
  /\ \/ \E d \in Domains, c \in [CRs -> Contents] \cup {NoDomain} : DomainChanges(d, c)
     \/ \E r \in CRs, c \in Contents : ResourceChanges(r, c)
     \/ Restart

Next == Controller \/ Others

Spec == Init /\ [][Next]_vars
=============================================================================

----------------------------- MODULE ChangeList -----------------------------
(***************************************************************************)
(* common.ComputeChangeList: what has to be done to turn the resources     *)
(* that exist into the resources that are wanted.                          *)
(*                                                                         *)
(* An item names an operation on one resource, the content to write, the   *)
(* resource version the decision was taken on (Update copies the metadata  *)
(* of the current resource) and tries, the number of times its pointer was *)
(* rate limited on the processor's queue.  An Add carries no version and a *)
(* Delete carries neither version nor content, since the API call it       *)
(* becomes uses neither.                                                   *)
(***************************************************************************)
EXTENDS Resources

Operations == {"add", "update", "delete"}

Item == [op : Operations, cr : CRs, spec : Specs \cup {Absent},
         rev : Nat, tries : Nat]

NewItem(op, r, s, v) == [op |-> op, cr |-> r, spec |-> s, rev |-> v, tries |-> 0]

\* case 1: not there, wanted
Additions(have, want, scope) ==
  {NewItem("add", r, want[r], 0) :
     r \in {x \in scope : have[x].spec = Absent /\ want[x] # Absent}}

\* case 2: there, wanted, and not the same
Updates(have, want, scope) ==
  {NewItem("update", r, want[r], have[r].rev) :
     r \in {x \in scope : /\ have[x].spec # Absent
                          /\ want[x] # Absent
                          /\ have[x].spec # want[x]}}

\* case 4: there, not wanted
Deletions(have, want, scope) ==
  {NewItem("delete", r, Absent, 0) :
     r \in {x \in scope : have[x].spec # Absent /\ want[x] = Absent}}

\* The list without its second loop.
ChangeListKeepsUnwanted(have, want, scope) ==
  Additions(have, want, scope) \cup Updates(have, want, scope)

\* have maps each resource of the scope to the object read from the cache,
\* want to the content the provider computed.
ComputeChangeList(have, want, scope) ==
  Additions(have, want, scope) \cup Updates(have, want, scope)
    \cup Deletions(have, want, scope)

\* The first loop of ComputeChangeList emits additions and updates, the second
\* deletions: i may be handed over next when no item of the first loop is left.
IsNextChange(i, changes) ==
  /\ i \in changes
  /\ i.op = "delete" => \A j \in changes : j.op = "delete"
=============================================================================

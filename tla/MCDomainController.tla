------------------------- MODULE MCDomainController -------------------------
(***************************************************************************)
(* Small instances of DomainController: one domain with a role and its     *)
(* binding, and two domains with a role each.                              *)
(***************************************************************************)
EXTENDS DomainController, TLC

CONSTANTS d1, d2, role1, role2, binding1

Namespaces == [r \in CRs |-> IF r = role2 THEN d2 ELSE d1]

Kinds == [r \in CRs |-> IF r = binding1 THEN "ServiceRoleBinding" ELSE "ServiceRole"]

\* Contents are only compared for equality: no definition tells one from another.
ContentSymmetry == Permutations(Specs)
=============================================================================

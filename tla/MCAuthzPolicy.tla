--------------------------- MODULE MCAuthzPolicy ---------------------------
(***************************************************************************)
(* Small instances of AuthzPolicy: one or two services of one domain.      *)
(***************************************************************************)
EXTENDS AuthzPolicy

CONSTANTS d1

OneDomain == [s \in CRs |-> d1]

\* One list of each kind that parses, one of them with an empty item, a star
\* that is not alone, and a bare name.
ListsOfTheFlag ==
  LET Named == {<<d1, s>> : s \in CRs}
      Cluster == <<"*">>
      Namespace == <<d1, "*">>
      OneItem == {<<i>> : i \in Named \cup {Cluster, Namespace, <<"*", "*">>, <<d1>>}}
  IN {<<>>, <<Cluster, Namespace>>, << <<"">>, Namespace>>} \cup OneItem

PolicySpecs == [policy : Policies, override : BOOLEAN]
=============================================================================

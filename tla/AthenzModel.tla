---------------------------- MODULE AthenzModel ----------------------------
(***************************************************************************)
(* src/pkg/athenz/model.go: what the controllers take from the Athenz      *)
(* domain in the cache.  An Athenz domain is a record                      *)
(*   roles     sequence of [name, trust, members]                          *)
(*   policies  sequence of assertions, NoPolicies when the field is unset  *)
(*   groups    the members of each group of the domain, by member name     *)
(* A role name is [domain, role].  A member is [name, expires, disabled],  *)
(* its name [before, after] the last dot: "a.b.c" is [a.b, c], "user.*"    *)
(* is [user, *], "a.b:group.g" is [a.b:group, g].  An assertion is         *)
(*   [role, effect, action, domain, svc, covers]                           *)
(* with a resource <domain>:svc.<svc>, or, when it lets other domains      *)
(* assume a role, the set of roles its resource covers.                    *)
(***************************************************************************)
EXTENDS Names

CONSTANTS
  NoDomain,    \* there is no such Athenz domain
  NoTrust,     \* the role has members of its own
  NoPolicies,  \* Policies or Policies.Contents is nil
  Never        \* no expiration is set

RolesIn(data) == {data.roles[n] : n \in DOMAIN data.roles}

\* "*" is no domain, so no member is "*.*".
IsMemberName(name) ==
  /\ name \in [before : Seq(STRING), after : STRING]
  /\ IsDomainName(name.before) /\ name.before # <<"*">>

IsMember(x) == IsMemberName(x.name) /\ (x.expires = Never \/ x.expires \in Int)

\* The assertions of all policies, one after the other.
Assertions(data) ==
  IF data.policies = NoPolicies THEN {} ELSE {data.policies[n] : n \in DOMAIN data.policies}

getRolesForDomain(data) == [n \in DOMAIN data.roles |-> data.roles[n].name]

getRulesForDomain(data) ==
  [r \in {a.role : a \in Assertions(data)} |-> {a \in Assertions(data) : a.role = r}]

RoleOf(data, r) == CHOOSE role \in RolesIn(data) : role.name = r

\* The first role of the trusted domain that r may assume, if there is one.
AssumedRoles(data, r) ==
  LET assume == {n \in DOMAIN data.policies :
                   /\ data.policies[n].action = "assume_role" /\ r \in data.policies[n].covers
                   /\ \E role \in RolesIn(data) : role.name = data.policies[n].role}
      first == {n \in assume : \A k \in assume : n <= k}
  IN  {RoleOf(data, data.policies[n].role) : n \in first}

\* Following the trust of the trusted role as well.
ProcessTrustDomainDeeply(data, r) == UNION {role.members : role \in AssumedRoles(data, r)}

ProcessTrustDomain(data, r) ==
  UNION {role.members : role \in {x \in AssumedRoles(data, r) : x.trust = NoTrust}}

\* Roles whose trusted domain is not in the cache are left out.
getMembersForRole(cached, data) ==
  LET known == {role \in RolesIn(data) :
                  role.trust = NoTrust \/ cached[role.trust] # NoDomain}
      members(role) == IF role.trust = NoTrust THEN role.members
                       ELSE ProcessTrustDomain(cached[role.trust], role.name)
  IN  [r \in {role.name : role \in known} |-> members(RoleOf(data, r))]

\* The policies of the trusted domain are used without a look at whether it
\* has any.
ConversionPanics(cached, data) ==
  \E role \in RolesIn(data) :
    role.trust # NoTrust /\ cached[role.trust] # NoDomain
      /\ cached[role.trust].policies = NoPolicies

ConvertAthenzPoliciesIntoRbacModel(cached, d) ==
  [name |-> d, namespace |-> DomainToNamespace(d),
   roles |-> getRolesForDomain(cached[d]), rules |-> getRulesForDomain(cached[d]),
   members |-> getMembersForRole(cached, cached[d]), groups |-> cached[d].groups]
=============================================================================

--------------------------- MODULE RbacProviders ---------------------------
(***************************************************************************)
(* src/pkg/istio/rbac: what an Athenz domain becomes.  v1 makes a          *)
(* ServiceRole and a ServiceRoleBinding of each role, v2 one               *)
(* AuthorizationPolicy of each service, with a rule per role.  Paths are   *)
(* carried along unchanged (v2 drops a query) and left out.  A subject is  *)
(* [domain, sa] or [domain, role] where it is the SPIFFE name in a         *)
(* certificate, [token] where it is the principal of a JWT.                *)
(***************************************************************************)
EXTENDS AthenzModel

CONSTANTS
  Methods,    \* supportedMethods
  SvcMatches, \* SvcMatches[p]: the svc labels the regular expression p matches somewhere
  EnableOriginJwtSubject

ASSUME JwtAssumption == EnableOriginJwtSubject \in BOOLEAN

ASSUME MethodsAssumption == "*" \in Methods

\* "" stands for a resource that names no service.
ASSUME SvcAssumption == "" \in DOMAIN SvcMatches => SvcMatches[""] = {}

AllUsers == [before |-> <<"user">>, after |-> "*"]
WildCardAll == [domain |-> <<"*">>, sa |-> "*"]

(***************************************************************************)
(* rbac/common                                                             *)
(***************************************************************************)
\* The name of a member has a dot in it.
HasSpiffe(name) == name.before # <<>>

MemberToSpiffe(name) ==
  IF name = AllUsers THEN WildCardAll ELSE [domain |-> name.before, sa |-> name.after]

\* "athenz/" and the name of the member; "*", which is any token, for "user.*".
AnyName == [before |-> <<"*">>, after |-> "*"]
MemberToOriginJwtSubject(name) == [token |-> IF name = AllUsers THEN AnyName ELSE name]

\* The JWT subjects of the members with these names.
JwtSubjects(names) ==
  {MemberToOriginJwtSubject(n) : n \in {x \in names : EnableOriginJwtSubject}}

RoleToSpiffe(r) == [domain |-> r.domain, role |-> r.role]

\* "<domain>.*", where the domain is neither user nor unix nor inside them.
CheckIfMemberIsAllUsersFromDomain(name) ==
  /\ HasSpiffe(name) /\ name.after = "*"
  /\ ~\E person \in {<<"user">>, <<"unix">>} :
       name.before = person \/ IsPrefix(Append(person, "."), name.before)

ActiveWhileTimeIsLeft(member, time) ==
  (member.expires = Never \/ member.expires > time) /\ ~member.disabled

ActiveThoughDisabled(member, time) == member.expires = Never \/ member.expires >= time

\* A member that expires this very moment has not expired yet.
Active(member, time) == (member.expires = Never \/ member.expires >= time) /\ ~member.disabled

\* ParseAssertionResource, ParseAssertionEffect and ParseAssertionAction
Usable(m, a) ==
  a.domain = m.name /\ a.svc # "" /\ a.effect = "allow" /\ a.action \in Methods

\* ParseRoleFQDN
OwnRole(m, r) == r.domain = m.name

(***************************************************************************)
(* v1: configs [key, spec], key [kind, name], in the order of the roles.   *)
(***************************************************************************)
GetServiceRoleSpec(m, r) ==
  {[svc |-> a.svc, method |-> a.action] : a \in {x \in m.rules[r] : Usable(m, x)}}

\* Neither expiration nor groups are looked at.
NamesBound(m, r) == {x.name : x \in {y \in m.members[r] : HasSpiffe(y.name)}}

GetServiceRoleBindingSpec(m, r) ==
  {MemberToSpiffe(n) : n \in NamesBound(m, r)} \cup JwtSubjects(NamesBound(m, r))
    \cup {RoleToSpiffe(r)}

ConfigsOfRole(m, r) ==
  LET config(kind, spec) ==
        [key |-> [kind |-> kind, name |-> ConvertAthenzRoleNameToK8sName(r.role)], spec |-> spec]
      role == config("ServiceRole", GetServiceRoleSpec(m, r))
      binding == config("ServiceRoleBinding", GetServiceRoleBindingSpec(m, r))
  IN  IF r \notin DOMAIN m.rules \/ ~OwnRole(m, r) \/ role.spec = {} THEN <<>>
      ELSE IF r \in DOMAIN m.members THEN <<role, binding>> ELSE <<role>>

ConvertV1(m) == FlattenSeq([n \in DOMAIN m.roles |-> ConfigsOfRole(m, m.roles[n])])

(***************************************************************************)
(* v2: the policy of service s is the set of its rules, one per role.      *)
(***************************************************************************)
OperationsOf(m, r, s) ==
  {a.action : a \in {x \in m.rules[r] : Usable(m, x) /\ s \in SvcMatches[x.svc]}}

\* A group of the domain stands for its members; both it and they may expire.
ActiveMembers(m, r, time) ==
  IF r \notin DOMAIN m.members THEN {}
  ELSE UNION {IF x.name \in DOMAIN m.groups THEN {y \in m.groups[x.name] : Active(y, time)}
              ELSE {x} : x \in {y \in m.members[r] : Active(y, time)}}

RuleOf(m, r, s, time) ==
  LET names == {x.name : x \in ActiveMembers(m, r, time)}
      domains == {n \in names : CheckIfMemberIsAllUsersFromDomain(n)}
      people == {n \in names \ domains : HasSpiffe(n)}
  IN  [to |-> OperationsOf(m, r, s),
       principals |-> {MemberToSpiffe(n) : n \in people} \cup {RoleToSpiffe(r)},
       requestPrincipals |-> JwtSubjects(people),
       namespaces |-> {DomainToNamespace(n.before) : n \in domains}]

ConvertV2(m, s, time) ==
  {RuleOf(m, r, s, time) :
     r \in {x \in DOMAIN m.rules : OwnRole(m, x) /\ OperationsOf(m, x, s) # {}}}
=============================================================================

------------------------------ MODULE MCAccess ------------------------------
(***************************************************************************)
(* A small instance of Access: the domain a-.b, whose name has every       *)
(* symbol there is to translate, and a.b, which it may trust.              *)
(***************************************************************************)
EXTENDS Access

provider == <<"a", "-", ".", "b">>
trusted == <<"a", ".", "b">>

MCDomains == {provider, trusted}

MCServicesOf == (provider :> {"s1", "s10"}) @@ (trusted :> {})

\* Regular expressions match anywhere in a label.
MCSvcMatches ==
  ("s1" :> {"s1", "s10"}) @@ ("s10" :> {"s10"}) @@ ("*" :> {"s1", "s10"}) @@ ("" :> {})

MCMethods == {"GET", "PUT", "*"}

Name(before, after) == [before |-> before, after |-> after]
Person(name, expires) == [name |-> name, expires |-> expires, disabled |-> FALSE]
Disabled(name) == [Person(name, Never) EXCEPT !.disabled = TRUE]

u == Name(trusted, "u")
v == Name(trusted, "v")
w == Name(<<"a", "-", "b">>, "w")
inside == Name(<<"a", ".", "b", ".", "c">>, "x")
bob == Name(<<"user">>, "bob")
MCPrincipals == {u, v, w, inside, bob}

Role(d, r) == [domain |-> d, role |-> <<r>>]
OwnRoleOf(r, members) == [name |-> Role(provider, r), trust |-> NoTrust, members |-> members]
Allow(role, method, svc) ==
  [role |-> role, effect |-> "allow", action |-> method, domain |-> provider, svc |-> svc,
   covers |-> {}]
Assume(role, covered) ==
  [role |-> role, effect |-> "allow", action |-> "assume_role", domain |-> provider, svc |-> "",
   covers |-> covered]
Domain(roleSeq, policySeq, groupFn) ==
  [roles |-> roleSeq, policies |-> policySeq, groups |-> groupFn]

reader == Role(provider, "reader")
delegated == Role(provider, "delegated")
group == Name(<<"a-.b:group">>, "g")
q_r == [domain |-> provider, role |-> <<"q", "_", "r">>]
q__r == [domain |-> provider, role |-> <<"q", "-", "-", "r">>]

\* A group, and members who expire or are disabled.
WithGroup ==
  Domain(<<OwnRoleOf("reader", {Person(u, 0), Person(group, Never), Disabled(w)})>>,
         <<Allow(reader, "GET", "s1")>>,
         group :> {Person(v, 0), Disabled(bob)})

\* A role that trusts the other domain; denied and unsupported actions.
WithTrust ==
  Domain(<<[name |-> delegated, trust |-> trusted, members |-> {}],
           OwnRoleOf("reader", {Person(bob, Never)})>>,
         <<Allow(delegated, "GET", "s10"), [Allow(reader, "PUT", "s1") EXCEPT !.effect = "deny"]>>,
         <<>>)

\* Whole domains, all people, groups of other domains, resources and roles of
\* other domains.
WithWildcards ==
  Domain(<<OwnRoleOf("reader", {Person(Name(trusted, "*"), Never), Person(Name(<<>>, "x"), Never),
                                Person(Name(<<"a.b:group">>, "g"), Never)}),
           OwnRoleOf("users", {Person(AllUsers, Never)}),
           [OwnRoleOf("other", {Person(AllUsers, Never)}) EXCEPT !.name.domain = trusted]>>,
         <<Allow(reader, "GET", "*"), [Allow(reader, "PUT", "s1") EXCEPT !.domain = trusted],
           Allow(Role(provider, "users"), "*", "s10"),
           Allow(Role(trusted, "other"), "GET", "s1")>>,
         <<>>)

\* Two roles that get one name, and one with a name of its own.
WithOneName ==
  Domain(<<OwnRoleOf("reader", {Person(bob, Never)}),
           [OwnRoleOf("q", {Person(u, Never)}) EXCEPT !.name = q_r],
           [OwnRoleOf("q", {Person(v, Never)}) EXCEPT !.name = q__r]>>,
         <<Allow(q_r, "GET", "s1"), Allow(q__r, "PUT", "s1"), Allow(reader, "GET", "s1")>>,
         <<>>)

TrustedRole(r, members) == [name |-> Role(trusted, r), trust |-> NoTrust, members |-> members]

\* The first of two roles that may be assumed is taken.
Trusting ==
  Domain(<<TrustedRole("base", {Person(u, 0)}), TrustedRole("more", {Person(v, Never)})>>,
         <<Assume(Role(trusted, "base"), {delegated}), Assume(Role(trusted, "more"), {delegated})>>,
         <<>>)

\* The role that may be assumed trusts in its turn, with members of old.
TrustingOn ==
  Domain(<<[TrustedRole("base", {Person(w, Never)}) EXCEPT !.trust = provider]>>,
         <<Assume(Role(trusted, "base"), {delegated})>>, <<>>)

WithoutPolicies == Domain(<<TrustedRole("base", {Person(u, Never)})>>, NoPolicies, <<>>)

MCData ==
  (provider :> [group |-> WithGroup, trust |-> WithTrust, wildcards |-> WithWildcards,
                oneName |-> WithOneName])
    @@ (trusted :> [trusting |-> Trusting, on |-> TrustingOn, noPolicies |-> WithoutPolicies])
=============================================================================

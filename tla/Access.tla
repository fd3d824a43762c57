------------------------------- MODULE Access -------------------------------
(***************************************************************************)
(* From Athenz to access: the domains and the clock, the two controllers   *)
(* that follow them, and what their resources let through.                 *)
(*                                                                         *)
(*   v1   src/pkg/controller with the v1 provider: the ServiceRoles and    *)
(*        ServiceRoleBindings of a namespace; its keys are domains         *)
(*   v2   src/pkg/istio/authorizationpolicy with the v2 provider: one      *)
(*        AuthorizationPolicy per service; its keys are [of, svc]: every   *)
(*        service of a domain, or one service of a namespace               *)
(*                                                                         *)
(* Both take what they want from the cached Athenz domains (AthenzModel,   *)
(* RbacProviders) and find the domain of a resource by its namespace       *)
(* (Names).  A key here is pending from the event that queues it to the    *)
(* last write of its sync, and a sync is one step: how the reads and       *)
(* writes of a sync interleave with everything else is the subject of      *)
(* DomainController and AuthzPolicy.  Every service is annotated and       *)
(* enabled.                                                                *)
(***************************************************************************)
EXTENDS RbacProviders

CONSTANTS
  Domains,     \* names of Athenz domains
  Data,        \* Data[d][v]: what the Athenz domain d holds in version v
  ServicesOf,  \* ServicesOf[d]: the services of the namespace of d, by their svc label
  Every,       \* not a service
  Principals,  \* the clients, [before, after] as in the names of members
  Absent,      \* there is no policy
  MaxTime,     \* bound: the last moment
  MaxEdits     \* bound: changes of Athenz domains and external edits together

ASSUME BoundsAssumption == MaxTime \in Nat /\ MaxEdits \in Nat

ASSUME DomainsAssumption == \A d \in Domains : d \in Seq(STRING) /\ IsDomainName(d)

ASSUME ServicesAssumption == \A d \in Domains : {Every, ""} \cap ServicesOf[d] = {}

\* Clients are people and services, by their full names.
ASSUME PrincipalsAssumption ==
  \A p \in Principals : IsMemberName(p) /\ p.before # <<>> /\ p.after # "*"

\* Athenz keeps the roles of a domain by their names; groups are no clients.
ASSUME DataAssumption ==
  \A d \in Domains : \A v \in DOMAIN Data[d] :
    LET data == Data[d][v]
    IN  /\ data.roles \in Seq(RolesIn(data))
        /\ \A q, r \in RolesIn(data) : q.name = r.name => q = r
        /\ \A role \in RolesIn(data) : /\ role.trust \in Domains \cup {NoTrust}
                                      /\ \A x \in role.members : IsMember(x)
        /\ \A g \in DOMAIN data.groups :
             g \notin Principals /\ g.after # "*" /\ \A y \in data.groups[g] : IsMember(y)
        /\ \A a \in Assertions(data) : a.svc \in DOMAIN SvcMatches

VARIABLES
  ad,       \* ad[d]: the version of the cached Athenz domain d, or NoDomain
  now,
  roles,    \* roles[ns]: the spec of each [kind, name] of ServiceRoles and their bindings
  policies, \* policies[k]: the AuthorizationPolicy of the service with key k
  todo1,    \* the keys pending at v1
  todo2,    \* the keys pending at v2
  edits     \* how much of MaxEdits has been used

vars == <<ad, now, roles, policies, todo1, todo2, edits>>

\* The namespace of each domain, and the domain of that namespace.
NamePairs == {[domain |-> d, namespace |-> DomainToNamespace(d),
               back |-> NamespaceToDomain(DomainToNamespace(d))] : d \in Domains}

NamespaceOf(d) == (CHOOSE n \in NamePairs : n.domain = d).namespace
DomainOf(ns) == (CHOOSE n \in NamePairs : n.namespace = ns).back
Namespaces == {n.namespace : n \in NamePairs}

DomainKey(d) == [of |-> d, svc |-> Every]
ServiceKey(d, s) == [of |-> NamespaceOf(d), svc |-> s]
ServiceKeys == UNION {{ServiceKey(d, s) : s \in ServicesOf[d]} : d \in Domains}
Keys2 == {DomainKey(d) : d \in Domains} \cup ServiceKeys

(***************************************************************************)
(* What the providers make of the domains there may be in the cache.       *)
(***************************************************************************)
Versions == {f \in [Domains -> (UNION {DOMAIN Data[d] : d \in Domains}) \cup {NoDomain}] :
               \A d \in Domains : f[d] \in DOMAIN Data[d] \cup {NoDomain}}

CacheOf(f) == [d \in Domains |-> IF f[d] = NoDomain THEN NoDomain ELSE Data[d][f[d]]]

ExistingIn(f) == {d \in Domains : f[d] # NoDomain}
ConvertibleIn(f) == {d \in ExistingIn(f) : ~ConversionPanics(CacheOf(f), CacheOf(f)[d])}
ModelOf(f, d) == ConvertAthenzPoliciesIntoRbacModel(CacheOf(f), d)

ProvidedRoles ==
  UNION {{[versions |-> f, domain |-> d, configs |-> ConvertV1(ModelOf(f, d))] :
            d \in ConvertibleIn(f)} : f \in Versions}

ProvidedPolicies ==
  UNION {UNION {{[versions |-> f, domain |-> d, svc |-> s, time |-> t,
                  rules |-> ConvertV2(ModelOf(f, d), s, t)] :
                   s \in ServicesOf[d], t \in 0..MaxTime} : d \in ConvertibleIn(f)} : f \in Versions}

ASSUME AbsentAssumption == \A p \in ProvidedPolicies : p.rules # Absent

Existing == ExistingIn(ad)
Convertible == {p.domain : p \in {x \in ProvidedRoles : x.versions = ad}}

TypeOK ==
  /\ ad \in Versions
  /\ now \in 0..MaxTime
  /\ DOMAIN roles = Namespaces
  /\ \A ns \in Namespaces : \A k \in DOMAIN roles[ns] :
       roles[ns][k] # {} /\ k.kind \in {"ServiceRole", "ServiceRoleBinding"}
  /\ DOMAIN policies = ServiceKeys
  /\ todo1 \subseteq Domains
  /\ todo2 \subseteq Keys2
  /\ edits \in 0..MaxEdits

\* What the informers report to a process that starts.
InitialKeys1 ==
  Existing \cup {DomainOf(ns) : ns \in {x \in Namespaces : DOMAIN roles[x] # {}}}

InitialKeys2 == {DomainKey(d) : d \in Existing} \cup ServiceKeys

Init ==
  /\ ad \in Versions
  /\ now = 0
  /\ roles = [ns \in Namespaces |-> <<>>]
  /\ policies = [k \in ServiceKeys |-> Absent]
  /\ todo1 = InitialKeys1
  /\ todo2 = InitialKeys2
  /\ edits = 0

(***************************************************************************)
(* The surroundings, each change with the event it causes.                 *)
(***************************************************************************)
Edited == edits < MaxEdits /\ edits' = edits + 1

\* Athenz changes a domain, for the two informers of this process.
AthenzChanges(d) ==
  /\ Edited
  /\ \E v \in (DOMAIN Data[d] \cup {NoDomain}) \ {ad[d]} : ad' = [ad EXCEPT ![d] = v]
  /\ todo1' = todo1 \cup {d}
  /\ todo2' = todo2 \cup {DomainKey(d)}
  /\ UNCHANGED <<now, roles, policies>>

Tick ==
  /\ now < MaxTime
  /\ now' = now + 1
  /\ UNCHANGED <<ad, roles, policies, todo1, todo2, edits>>

\* processConfigEvent
RoleDeleted(ns) ==
  /\ Edited
  /\ \E k \in DOMAIN roles[ns] :
       roles' = [roles EXCEPT ![ns] = [x \in DOMAIN @ \ {k} |-> @[x]]]
  /\ todo1' = todo1 \cup {DomainOf(ns)}
  /\ UNCHANGED <<ad, now, policies, todo2>>

\* EventHandler
PolicyDeleted(k) ==
  /\ Edited
  /\ policies[k] # Absent
  /\ policies' = [policies EXCEPT ![k] = Absent]
  /\ todo2' = todo2 \cup {k}
  /\ UNCHANGED <<ad, now, roles, todo1>>

(***************************************************************************)
(* A sync.                                                                 *)
(***************************************************************************)
\* One item per desired resource that differs; of two that share a name the
\* second finds its resource version outdated, or the resource there.
RolesAfterSync(have, desired) ==
  [k \in {desired[n].key : n \in DOMAIN desired} |->
     LET differing == {n \in DOMAIN desired : desired[n].key = k /\
                                              (k \notin DOMAIN have \/ have[k] # desired[n].spec)}
     IN  IF differing = {} THEN have[k] ELSE desired[Min(differing)].spec]

RolesWanted(d) ==
  RolesAfterSync(roles[NamespaceOf(d)],
                 (CHOOSE p \in ProvidedRoles : p.domain = d /\ p.versions = ad).configs)

SyncRoles(d) ==
  LET ns == NamespaceOf(d)
  IN  /\ d \in todo1
      /\ UNCHANGED <<ad, now, policies, todo2, edits>>
      /\ d \in Convertible
      /\ roles' = [roles EXCEPT ![ns] = RolesWanted(d)]
      /\ todo1' = (todo1 \ {d}) \cup
                    (IF RolesWanted(d) = roles[ns] THEN {} ELSE {DomainOf(ns)})

\* Taking the namespace of a service for its domain.
DomainOfKeyUntranslated(k) == k.of

DomainOfKey(k) == IF k.svc = Every THEN k.of ELSE DomainOf(k.of)
ServicesOfKey(k) == IF k.svc = Every THEN ServicesOf[k.of] ELSE {k.svc}

PolicyWanted(d, s) ==
  (CHOOSE p \in ProvidedPolicies :
     p.svc = s /\ p.time = now /\ p.domain = d /\ p.versions = ad).rules

SyncPolicies(k) ==
  LET d == DomainOfKey(k)
      written == {s \in ServicesOfKey(k) : policies[ServiceKey(d, s)] # PolicyWanted(d, s)}
  IN  /\ k \in todo2
      /\ UNCHANGED <<ad, now, roles, todo1, edits>>
      /\ d \in Convertible
      /\ policies' = [x \in ServiceKeys |->
                        IF x.of = NamespaceOf(d) /\ x.svc \in ServicesOfKey(k)
                        THEN PolicyWanted(d, x.svc) ELSE policies[x]]
      /\ todo2' = (todo2 \ {k}) \cup {ServiceKey(d, s) : s \in written}

\* No such domain: the key is dropped after its retries.
SyncFails ==
  \/ /\ \E d \in todo1 \ Existing : todo1' = todo1 \ {d}
     /\ UNCHANGED <<ad, now, roles, policies, todo2, edits>>
  \/ /\ \E k \in todo2 : DomainOfKey(k) \notin Existing /\ todo2' = todo2 \ {k}
     /\ UNCHANGED <<ad, now, roles, policies, todo1, edits>>

\* The worker takes the process down, and both controllers start again.
SyncPanics ==
  /\ (todo1 \cup {DomainOfKey(k) : k \in todo2}) \cap (Existing \ Convertible) # {}
  /\ todo1' = InitialKeys1
  /\ todo2' = InitialKeys2
  /\ UNCHANGED <<ad, now, roles, policies, edits>>

\* A ticker that queues the domains whose resources are missing altogether.
ResyncOfTheMissing ==
  /\ todo2' = todo2 \cup {DomainKey(d) : d \in {x \in Existing : \E s \in ServicesOf[x] :
                                              policies[ServiceKey(x, s)] = Absent}}
  /\ UNCHANGED <<ad, now, roles, policies, todo1, edits>>

ResyncRoles ==
  /\ UNCHANGED <<ad, now, roles, policies, todo2, edits>>
  /\ todo1' = todo1 \cup Existing

ResyncPolicies ==
  /\ UNCHANGED <<ad, now, roles, policies, todo1, edits>>
  /\ todo2' = todo2 \cup {DomainKey(d) : d \in Existing}

Next ==
  \/ \E d \in Domains : AthenzChanges(d) \/ SyncRoles(d)
  \/ \E k \in Keys2 : SyncPolicies(k)
  \/ \E ns \in Namespaces : RoleDeleted(ns)
  \/ \E k \in ServiceKeys : PolicyDeleted(k)
  \/ Tick \/ SyncFails \/ SyncPanics \/ ResyncRoles \/ ResyncPolicies

\* The workers get to every domain in their queues, and the tickers tick.
Fairness ==
  /\ \A d \in Domains : WF_vars(SyncRoles(d)) /\ WF_vars(SyncPolicies(DomainKey(d)))
  /\ WF_vars(ResyncRoles) /\ WF_vars(ResyncPolicies)

Spec == Init /\ [][Next]_vars
FairSpec == Spec /\ Fairness

(***************************************************************************)
(* What Istio lets through.  A client shows a certificate, which says      *)
(* "<domain>/sa/<service>", or a token, which says "athenz/<its name>"; a  *)
(* "*" ends a pattern, so "athenz/<domain>.*" is the domain and all that   *)
(* is inside it.  The workloads of a domain run in its namespace, which    *)
(* their certificates say as well.                                         *)
(***************************************************************************)
Credentials == {"certificate", "token"}

Enclosing(domain) ==
  {SubSeq(domain, 1, n) : n \in {k \in 1 .. Len(domain) : k = Len(domain) \/ domain[k + 1] = "."}}

Patterns(p) == {p} \cup {[before |-> domain, after |-> "*"] : domain \in Enclosing(p.before)}

\* The subjects a client answers to, and the namespace it runs in.
Accepted ==
  [p \in Principals |->
     [certificate |->
        {WildCardAll, [domain |-> p.before, sa |-> p.after], [domain |-> p.before, sa |-> "*"]},
      token |-> {[token |-> n] : n \in Patterns(p) \cup {AnyName}}]]

Shows(how, p, subjects) == Accepted[p][how] \cap subjects # {}

NamespaceOfClient == [p \in Principals |-> DomainToNamespace(p.before)]

RolesGrant(d, s, method, how, p) ==
  LET have == roles[NamespaceOf(d)]
  IN  \E k \in DOMAIN have :
        LET binding == [k EXCEPT !.kind = "ServiceRoleBinding"]
        IN  /\ k.kind = "ServiceRole" /\ binding \in DOMAIN have
            /\ \E rule \in have[k] : rule.svc \in {s, "*"} /\ rule.method \in {method, "*"}
            /\ Shows(how, p, have[binding])

PolicyGrants(d, s, method, how, p) ==
  \E rule \in policies[ServiceKey(d, s)] :
    /\ {method, "*"} \cap rule.to # {}
    /\ \/ Shows(how, p, rule.principals \cup rule.requestPrincipals)
       \/ how = "certificate" /\ NamespaceOfClient[p] \in rule.namespaces

Cached(d) == CacheOf(ad)[d]

(***************************************************************************)
(* What Athenz allows: to the clients its roles name, one by one or as a   *)
(* whole domain, "user.*" being the people and not the services.  An       *)
(* assertion that denies is as good as none, as in both providers.         *)
(***************************************************************************)
Means(name, p) == name \in {p, [before |-> p.before, after |-> "*"]}

InForce(x) == ~x.disabled /\ (x.expires = Never \/ ~(x.expires < now))

\* The roles of a trusted domain that a role may be, one level deep.
TrustedRoles(role) ==
  {x \in RolesIn(Cached(role.trust)) :
     x.trust = NoTrust /\ \E a \in Assertions(Cached(role.trust)) :
                            a.action = "assume_role" /\ a.role = x.name /\ role.name \in a.covers}

HoldersOf(role) ==
  IF role.trust = NoTrust THEN role.members
  ELSE IF Cached(role.trust) = NoDomain THEN {}
  ELSE UNION {x.members : x \in TrustedRoles(role)}

NamesListed(role) == {x.name : x \in HoldersOf(role)}

\* The names by which role lets clients in at this moment, its groups among them.
NamesInForce(d, role) ==
  LET present == {x \in HoldersOf(role) : InForce(x)}
      groups == {x \in present : x.name \in DOMAIN Cached(d).groups}
  IN  {x.name : x \in present} \cup
        UNION {{y.name : y \in {z \in Cached(d).groups[x.name] : InForce(z)}} : x \in groups}

\* Some assertion lets role r of d call a method of the service named svc.
Permitted(d, r, svcs, method) ==
  \E a \in Assertions(Cached(d)) :
    /\ a.role = r /\ r.domain = d /\ a.domain = d
    /\ a.effect = "allow" /\ a.action \in {method, "*"} /\ a.svc \in svcs

(***************************************************************************)
(* Properties.                                                             *)
(***************************************************************************)
Differs(f, g) ==
  {k \in DOMAIN f \cup DOMAIN g : k \notin DOMAIN f \/ k \notin DOMAIN g \/ f[k] # g[k]}

StaleRoles(d) == Differs(roles[NamespaceOf(d)], RolesWanted(d))

StaleRules(d, s) ==
  LET have == policies[ServiceKey(d, s)]
      want == PolicyWanted(d, s)
  IN  (have \ want) \cup (want \ have)

NameOf(role) == ConvertAthenzRoleNameToK8sName(role.name.role)

\* The names that more than one role of d is given.
Colliding(d) ==
  {NameOf(q) : q \in {x \in RolesIn(Cached(d)) :
                        \E r \in RolesIn(Cached(d)) : x # r /\ NameOf(x) = NameOf(r)}}

DelegatedRoles(d) == {role.name : role \in {x \in RolesIn(Cached(d)) : x.trust # NoTrust}}

Expired(x) == x.expires # Never /\ x.expires < now

\* The roles of d in which someone's time has run out.
ExpiredRoles(d) ==
  {role.name : role \in
     {x \in RolesIn(Cached(d)) :
        \E y \in x.members :
          \/ Expired(y)
          \/ y.name \in DOMAIN Cached(d).groups /\ \E z \in Cached(d).groups[y.name] : Expired(z)}}

PoliciesInStep(d, s) ==
  policies[ServiceKey(d, s)] # Absent /\ StaleRules(d, s) = {}

(***************************************************************************)
(* What is there without a key pending is what a provider made of the      *)
(* present version of its domain, beside some version of the domains it    *)
(* trusts, at this moment or an earlier one: no deleted or half written    *)
(* resource and nothing of an older version is left (controller.go:90,     *)
(* authorizationpolicy/controller.go:171).                                 *)
(***************************************************************************)
RolesProvided(d) ==
  \E p \in ProvidedRoles :
    /\ p.domain = d /\ p.versions[d] = ad[d]
    /\ RolesAfterSync(roles[NamespaceOf(d)], p.configs) = roles[NamespaceOf(d)]

PoliciesProvided(d, s) ==
  \E p \in ProvidedPolicies :
    /\ p.domain = d /\ p.svc = s /\ p.versions[d] = ad[d] /\ p.time <= now
    /\ policies[ServiceKey(d, s)] = p.rules

ProvidedUnlessPending ==
  \A d \in Existing :
    /\ d \in todo1 \/ RolesProvided(d)
    /\ \A s \in ServicesOf[d] :
         {DomainKey(d), ServiceKey(d, s)} \cap todo2 = {} => PoliciesProvided(d, s)

(***************************************************************************)
(* A resource that differs from what its domain and the clock ask for has  *)
(* a key pending, except in two ways the code has no event for: a role     *)
(* follows the domain it trusts (athenz/model.go:103), and a member of an  *)
(* AuthorizationPolicy expires (common/util.go:313), only with the resync. *)
(* Nothing but the subjects of those roles is ever out of date in silence. *)
(***************************************************************************)
OnlyTrustAndTimeAreSilent ==
  \A d \in Convertible :
    /\ d \notin todo1 =>
         \A k \in StaleRoles(d) :
           /\ k.kind = "ServiceRoleBinding"
           /\ \E r \in DelegatedRoles(d) : k.name = ConvertAthenzRoleNameToK8sName(r.role)
    /\ \A s \in ServicesOf[d] :
         {DomainKey(d), ServiceKey(d, s)} \cap todo2 = {} =>
           /\ policies[ServiceKey(d, s)] # Absent
           /\ \A rule \in StaleRules(d, s) :
                \E r \in DelegatedRoles(d) \cup ExpiredRoles(d) :
                  RoleToSpiffe(r) \in rule.principals

(***************************************************************************)
(* The providers let in more clients than Athenz means, in two ways:       *)
(*   "user.*" becomes "*", which is every service and every token as well  *)
(*            (common/util.go:172, 189)                                    *)
(*   "<domain>.*" becomes the token "athenz/<domain>.*", which a client of *)
(*            a domain inside that domain answers to (common/util.go:194)  *)
(***************************************************************************)
Widened(name, how, p) ==
  name = AllUsers \/ (how = "token" /\ name \in Patterns(p))

(***************************************************************************)
(* An AuthorizationPolicy that is in step lets in nobody, by certificate   *)
(* or by token, but those Athenz lets in at this moment and those the two  *)
(* widenings of such a name add: no expired or disabled member of a role   *)
(* or of a group, nobody of another domain with a similar namespace, no    *)
(* member of a role trusted at second hand (v2/provider.go:150-241).       *)
(***************************************************************************)
PoliciesGrantNoMore ==
  \A d \in Convertible : \A s \in ServicesOf[d] :
    PoliciesInStep(d, s) =>
      \A p \in Principals, method \in Methods, how \in Credentials :
        PolicyGrants(d, s, method, how, p) =>
          \E role \in RolesIn(Cached(d)) :
            /\ Permitted(d, role.name, {x \in DOMAIN SvcMatches : s \in SvcMatches[x]}, method)
            /\ \E name \in NamesInForce(d, role) : Means(name, p) \/ Widened(name, how, p)

(***************************************************************************)
(* And it keeps nobody out who is a member of a role of the domain itself, *)
(* in person or through a group of that domain.  With a token that goes    *)
(* for those named one by one: a whole domain is let in by its namespace,  *)
(* which a token does not say (v2/provider.go:222-229).                    *)
(***************************************************************************)
PoliciesGrantNoLess ==
  \A d \in Convertible : \A s \in ServicesOf[d] :
    PoliciesInStep(d, s) =>
      \A role \in RolesIn(Cached(d)), p \in Principals, method \in Methods :
        /\ role.trust = NoTrust
        /\ Permitted(d, role.name, {x \in DOMAIN SvcMatches : s \in SvcMatches[x]}, method)
        => /\ (\E name \in NamesInForce(d, role) : Means(name, p))
                => PolicyGrants(d, s, method, "certificate", p)
           /\ EnableOriginJwtSubject /\ p \in NamesInForce(d, role)
                => PolicyGrants(d, s, method, "token", p)

(***************************************************************************)
(* ServiceRoles and bindings that are in step, and no two of one name, let *)
(* in nobody but those Athenz ever listed in person and those the two      *)
(* widenings add, and everyone listed in a role of the domain itself, by   *)
(* certificate and, if they are asked for, by token: v1 looks at neither   *)
(* expiration, nor disabled members, nor groups (servicerolebinding.go:19).*)
(***************************************************************************)
RolesGrantTheListed ==
  \A d \in Convertible :
    StaleRoles(d) = {} /\ Colliding(d) = {} =>
      \A s \in ServicesOf[d], p \in Principals, method \in Methods, how \in Credentials :
        LET permitted == {role \in RolesIn(Cached(d)) : Permitted(d, role.name, {s, "*"}, method)}
        IN  /\ RolesGrant(d, s, method, how, p) =>
                 \E role \in permitted : \E name \in NamesListed(role) :
                   Means(name, p) \/ Widened(name, how, p)
            /\ how = "certificate" \/ EnableOriginJwtSubject =>
                 \A role \in permitted :
                   role.trust = NoTrust /\ (\E name \in NamesListed(role) : Means(name, p))
                     => RolesGrant(d, s, method, how, p)

(***************************************************************************)
(* Once Athenz, the clock and other people have come to rest, resyncs      *)
(* bring every resource of an existing domain in step, also those that     *)
(* trust or time had left behind, unless the conversion of some domain     *)
(* takes the process down each time.  Of two roles that get one name each  *)
(* replaces the resources of the other for ever (servicerole.go:22): that  *)
(* disturbs no role with a name of its own.                                *)
(***************************************************************************)
Converges ==
  <>[](Convertible # Existing \/
       \A d \in Existing : /\ \A k \in StaleRoles(d) : k.name \in Colliding(d)
                          /\ \A s \in ServicesOf[d] : PoliciesInStep(d, s))
=============================================================================

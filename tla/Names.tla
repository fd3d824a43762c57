------------------------------- MODULE Names -------------------------------
(***************************************************************************)
(* The names the controllers translate: Athenz domains into Kubernetes     *)
(* namespaces and back (src/pkg/athenz/util.go), Athenz roles into the     *)
(* names of Kubernetes resources (rbac/common/servicerole.go).  A name is  *)
(* a sequence of symbols; "." "-" "_" are the symbols translated, any      *)
(* other stands for a stretch of a name without them.                      *)
(***************************************************************************)
EXTENDS Naturals, SequencesExt

\* strings.Replace of one symbol by a sequence of symbols
Substitute(w, symbol, by) ==
  FlattenSeq([n \in DOMAIN w |-> IF w[n] = symbol THEN by ELSE <<w[n]>>])

\* strings.Replace of each ".." by "-", from the left
WithNext(done, symbol) ==
  IF symbol = "." /\ done # <<>> /\ Last(done) = "."
  THEN Append(Front(done), "-") ELSE Append(done, symbol)

PairsToDash(w) ==
  LET done[n \in 0 .. Len(w)] == IF n = 0 THEN <<>> ELSE WithNext(done[n - 1], w[n])
  IN  done[Len(w)]

\* Dots become dashes, and so do dashes.
DashesOnly(domain) == Substitute(domain, ".", <<"-">>)

DomainToNamespace(domain) ==
  Substitute(Substitute(domain, "-", <<"-", "-">>), ".", <<"-">>)

\* The dashes become dots, the pairs of dots stay.
DotsOnly(ns) == Substitute(ns, "-", <<".">>)

NamespaceToDomain(ns) == PairsToDash(Substitute(ns, "-", <<".">>))

\* The parts between the dots begin with a letter, a digit or "_".
IsDomainName(domain) ==
  \A n \in 1 .. Len(domain) - 1 : domain[n] = "." => domain[n + 1] \notin {".", "-"}

ConvertAthenzRoleNameToK8sName(name) == Substitute(name, "_", <<"-", "-">>)
=============================================================================

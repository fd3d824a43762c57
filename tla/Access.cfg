SPECIFICATION FairSpec
CONSTANTS
  NoDomain = NoDomain
  NoTrust = NoTrust
  NoPolicies = NoPolicies
  Never = Never
  Absent = Absent
  Every = Every
  Domains <- MCDomains
  Data <- MCData
  ServicesOf <- MCServicesOf
  Principals <- MCPrincipals
  Methods <- MCMethods
  SvcMatches <- MCSvcMatches
  EnableOriginJwtSubject = TRUE
  MaxTime = 1
  MaxEdits = 1
INVARIANTS
  TypeOK
  ProvidedUnlessPending
  OnlyTrustAndTimeAreSilent
  PoliciesGrantNoMore
  PoliciesGrantNoLess
  RolesGrantTheListed
PROPERTIES
  Converges

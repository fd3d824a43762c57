SPECIFICATION FairSpec
CONSTANTS
  d1 = d1
  Absent = Absent
  NoDomain = NoDomain
  CRs = {svc1}
  Policies = {p1, p2}
  Specs <- PolicySpecs
  Domains = {d1}
  DomainOf <- OneDomain
  EnabledLists <- ListsOfTheFlag
  QueueNumRetries = 0
  MaxFaults = 1
  MaxEdits = 1
  MaxBacklog = 1
\* At rest nothing more has to happen.
CHECK_DEADLOCK FALSE
INVARIANTS
  DisabledHaveNoPolicy
  StaleSyncIsFollowed
  Inductive
PROPERTIES
  OverrideSurvives
  Converges

SPECIFICATION Spec
CONSTANTS
  d1 = d1
  Absent = Absent
  NoDomain = NoDomain
  CRs = {svc1, svc2}
  Policies = {p1}
  Specs <- PolicySpecs
  Domains = {d1}
  DomainOf <- OneDomain
  EnabledLists <- ListsOfTheFlag
  QueueNumRetries = 2
  MaxFaults = 1
  MaxEdits = 0
  MaxBacklog = 0
\* At rest nothing more has to happen.
CHECK_DEADLOCK FALSE
INVARIANTS
  TypeOK
  NoLostWork
  RetryBudgetRestored

SPECIFICATION Spec
CONSTANTS
  d1 = d1
  Absent = Absent
  NoDomain = NoDomain
  CRs = {svc1}
  Policies = {p1, p2}
  Specs <- PolicySpecs
  Domains = {d1}
  DomainOf <- OneDomain
  EnabledLists <- ListsOfTheFlag
  QueueNumRetries = 1
  MaxFaults = 0
  MaxEdits = 1
  MaxBacklog = 0
\* At rest nothing more has to happen.
CHECK_DEADLOCK FALSE
PROPERTIES
  SyncNeverPanics

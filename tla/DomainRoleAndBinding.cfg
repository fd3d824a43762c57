SPECIFICATION Spec
CONSTANTS
  d1 = d1
  d2 = d2
  role1 = role1
  role2 = role2
  binding1 = binding1
  Absent = Absent
  NoDomain = NoDomain
  CRs = {role1, binding1}
  Specs = {s1}
  Domains = {d1, d2}
  DomainOf <- Namespaces
  KindOf <- Kinds
  QueueNumRetries = 1
  MaxFaults = 0
  MaxEdits = 1
  MaxBacklog = 0
\* At rest nothing more has to happen.
CHECK_DEADLOCK FALSE
INVARIANTS
  StaleSyncIsFollowed
  QuiescentMeansConverged
  Inductive

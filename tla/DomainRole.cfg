SPECIFICATION Spec
CONSTANTS
  d1 = d1
  d2 = d2
  role1 = role1
  role2 = role2
  binding1 = binding1
  Absent = Absent
  NoDomain = NoDomain
  CRs = {role1}
  Specs = {s1, s2}
  Domains = {d1}
  DomainOf <- Namespaces
  KindOf <- Kinds
  QueueNumRetries = 1
  MaxFaults = 1
  MaxEdits = 2
  MaxBacklog = 0
SYMMETRY ContentSymmetry
\* At rest nothing more has to happen.
CHECK_DEADLOCK FALSE
INVARIANTS
  TypeOK
  NoLostWork
  RetryBudgetRestored
  RetryBudgetBound
PROPERTIES
  ImplementsMirror

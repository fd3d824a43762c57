SPECIFICATION Spec
CONSTANTS
  a = a
  b = b
  x = x
  y = y
  Absent = Absent
  Malformed = Malformed
  Crc = crc
  CRs = {crc}
  KubeServices = {a, b}
  DnsSuffixes = {x}
  Specs <- Contents
  EditedTo <- HandEdits
  QueueNumRetries = 1
  MaxFaults = 1
  MaxEdits = 1
  MaxBacklog = 0
\* At rest nothing more has to happen.
CHECK_DEADLOCK FALSE
INVARIANTS
  TypeOK
  NoLostWork
  SyncIsExact
  StaleListingIsFollowed
  RestIsConverged
  RetryBudgetKept
  Inductive
PROPERTIES
  NeverDuplicates

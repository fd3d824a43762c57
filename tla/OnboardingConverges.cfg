SPECIFICATION FairSpec
CONSTANTS
  a = a
  b = b
  x = x
  y = y
  Absent = Absent
  Malformed = Malformed
  Crc = crc
  CRs = {crc}
  KubeServices = {a}
  DnsSuffixes = {x, y}
  Specs <- Contents
  EditedTo <- HandEdits
  QueueNumRetries = 0
  MaxFaults = 1
  MaxEdits = 1
  MaxBacklog = 1
\* At rest nothing more has to happen.
CHECK_DEADLOCK FALSE
PROPERTIES
  Converges

SPECIFICATION Spec
CONSTANTS
  s1 = s1  s2 = s2  s3 = s3  u1 = u1  u2 = u2
  web = web  db = db  cpu = cpu  a = a  b = b
  None = None
  Syncs = {s1, s2}
  Scheduled = {s1, s2}
  Editors = {u1}
  ServerNames = {web, db}
  RuleNames = {cpu}
  Bodies = {a, b}
  OnInsert <- Same
  Commits <- OneName
  Tables <- Empty
  FirstId = 1
  Overlap = FALSE
PROPERTIES MirrorsFile EmergencyFixStays
CHECK_DEADLOCK FALSE

SPECIFICATION FairSpec
CONSTANTS
  s1 = s1  s2 = s2  s3 = s3  u1 = u1  u2 = u2
  web = web  db = db  cpu = cpu  a = a  b = b
  None = None
  Syncs = {s1, s2}
  Scheduled = {s1}
  Editors = {u1}
  ServerNames = {web, db}
  RuleNames = {}
  Bodies = {a, b}
  OnInsert <- Same
  Commits <- OneCommit
  Tables <- TwoServers
  FirstId = 3
  Overlap = TRUE
PROPERTIES  HandmadeUntouched SyncNeverAdopts RunEnds
CHECK_DEADLOCK FALSE

CONSTANTS
  Requests = {r1, r2}
  Orgs = {o1}
  SessionIds = {s1, s2}
  TemplateIds = {t1}
  NoId = NoId
  NoRow = NoRow
  NoImage = NoImage
  DefaultImage = defaultImage
  Ops <- NoCascadeOps
  FlyFaults <- FlyFrank
  DbFaults <- NoFaults
  Disconnects = FALSE
  Crashes = FALSE
  EdgeProxy = FALSE
  NullAsEmpty = TRUE
SYMMETRY SameSessions
SPECIFICATION InTurnSpec
INVARIANT StatusMatchesMachine
INVARIANT NoOrphans
PROPERTY ImageIsKept

CONSTANTS
  Requests = {r1, r2}
  Orgs = {o1}
  SessionIds = {s1}
  TemplateIds = {t1}
  NoId = NoId
  NoRow = NoRow
  NoImage = NoImage
  DefaultImage = defaultImage
  Ops <- AllOps
  FlyFaults <- FlyReliable
  DbFaults <- NoFaults
  Disconnects = FALSE
  Crashes = FALSE
  EdgeProxy = FALSE
  NullAsEmpty = TRUE
SPECIFICATION Spec
INVARIANT DeletionIsComplete

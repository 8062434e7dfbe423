CONSTANTS
  Requests = {r1}
  Orgs = {o1}
  SessionIds = {s1}
  TemplateIds = {t1}
  NoId = NoId
  NoRow = NoRow
  NoImage = NoImage
  DefaultImage = defaultImage
  Ops <- AllOps
  FlyFaults <- FlyReliable
  DbFaults <- NoFaults
  Disconnects = TRUE
  Crashes = FALSE
  EdgeProxy = FALSE
  NullAsEmpty = TRUE
SPECIFICATION Spec
PROPERTY FailureMarksError

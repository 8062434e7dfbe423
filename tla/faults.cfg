CONSTANTS
  Requests = {r1, r2}
  Orgs = {o1}
  SessionIds = {s1}
  TemplateIds = {t1}
  NoId = NoId
  NoRow = NoRow
  NoImage = NoImage
  DefaultImage = defaultImage
  Ops <- WriteOps
  FlyFaults <- FlyAnyFault
  DbFaults <- Faults
  Disconnects = TRUE
  Crashes = TRUE
  EdgeProxy = TRUE
  NullAsEmpty = TRUE
SYMMETRY SameRequests
VIEW Present
SPECIFICATION Spec
INVARIANT TypeOK
INVARIANT IdsMatchStatus
INVARIANT ImagesArePushed
PROPERTY AnswersAreHonest
PROPERTY RefinesLifecycle

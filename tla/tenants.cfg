CONSTANTS
  Requests = {r1, r2}
  Orgs = {o1, o2}
  SessionIds = {s1}
  TemplateIds = {t1, t2}
  NoId = NoId
  NoRow = NoRow
  NoImage = NoImage
  DefaultImage = NoImage
  Ops <- AllOps
  FlyFaults <- FlyReliable
  DbFaults <- NoFaults
  Disconnects = FALSE
  Crashes = FALSE
  EdgeProxy = FALSE
  NullAsEmpty = TRUE
SYMMETRY SameTenants
SPECIFICATION Spec
INVARIANT RowsStayInTenant
INVARIANT HandlersStayInTenant
INVARIANT ImagesArePushed

CONSTANTS
  Requests = {r1, r2}
  Subjects = {alice, bob}
  OrgClaims = {acme}
  NoClaim = NoClaim
  PersonalKey <- PersonalKeys
  UserIds = {u1, u2}
  OrgIds = {g1, g2, g3}
  NoRow = NoRow
  DbFaults <- AnyDbFault
  Disconnects = TRUE
  Crashes = TRUE
  NullAsEmpty = FALSE
SYMMETRY Interchangeable
SPECIFICATION Spec
INVARIANT TypeOK
INVARIANT ServedAreMembers
INVARIANT GrantsFitTokens
INVARIANT MembersCanReturn
PROPERTY MeListsItsOrg
PROPERTY RefinesAdmission

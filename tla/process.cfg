CONSTANTS
  p1 = p1
  p2 = p2
  Instances = {p1, p2}
  Environments <- RollingEnvironments
  Migrations = 2
  Requests = {r1}
  MaxVersion = 3
  MaxSlashes = 2
  Never = Never
  DbFaults <- AnyFault
  FetchFaults <- FetchRefused
  FetchHangs = TRUE
  ListenFails = TRUE
  Crashes = TRUE
  Disconnects = TRUE
SPECIFICATION FairSpec
INVARIANT TypeOK
INVARIANT MigrationsInOrder
INVARIANT ServesMigrated
INVARIANT IssuersAgree
PROPERTY KeysNeverGoBack
PROPERTY SignalEnds
PROPERTY BootEnds
PROPERTY RotationIsPickedUp

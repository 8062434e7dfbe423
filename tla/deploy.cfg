CONSTANTS
  Commands <- CommandNames
  Files <- Started
  Own = Own
  Absent = Absent
  Blank = Blank
  Null = Null
  None = None
  Neonctl = TRUE
  CallFaults <- AnyFault
  Disconnects = TRUE
  MaxProjects = 2
  MaxSpas = 2
  MaxSettings = 2
SPECIFICATION Spec
INVARIANT TypeOK
INVARIANT OkIsDeployed
INVARIANT RerunRepairs
INVARIANT OneSpaApp
PROPERTY DatabaseIsKept

CONSTANTS
  Commands <- Cautious
  Files <- BlankDatabase
  Own = Own
  Absent = Absent
  Blank = Blank
  Null = Null
  None = None
  Neonctl = TRUE
  CallFaults <- NoFault
  Disconnects = FALSE
  MaxProjects = 2
  MaxSpas = 2
  MaxSettings = 2
SPECIFICATION Spec
INVARIANT OneProject

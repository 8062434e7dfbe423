CONSTANTS
  Fetches = {f1, f2}
  Actions = {a1, a2}
  Nothing = Nothing
  MaxVersion = 3
SPECIFICATION FairSpec
INVARIANT TypeOK
INVARIANT OwnWritesShown
PROPERTY ListNeverGoesBack
PROPERTY LoadingEnds

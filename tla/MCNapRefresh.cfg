CONSTANTS
  MaxCommits = 5
  Regular = {1, 2, 4, 5}
  Fitting = {1, 2, 3, 5}
  Attempts = 4
  Nothing = Nothing
SPECIFICATION Spec
INVARIANTS TypeOK PackageIsUpstream FailureKeepsOutput
PROPERTY Ends

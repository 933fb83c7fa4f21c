CONSTANTS
  Series = {1, 2, 3}
  Target = 2
  MaxCommits = 5
  Histories <- TheHistories
  Diffs <- TheDiffs
  Specs <- TheSpecs
  FirstDepth = 1
  MaxDepth = 4
  Total = 3
  Fetch = 2
  Local = 1
  Delay = 1
  Retries = 2
  SymbolFiles = 2
  MaxFaults = 2
  Nothing = nothing
SPECIFICATION Spec
INVARIANTS TypeOK ShallowIsExact GivesUpLast InTime AppliedIsRecorded PolicyKept
PROPERTY Ends

CONSTANTS
  Runs = {1, 2}
  MaxAttempts = 2
  MaxRerun = 2
  main = main  integration = integration
  Branches <- TwoBranches
  Days = 2
  Feed <- TheFeed
  Assets = {"packages", "zip"}
  Nothing = nothing
SPECIFICATION Spec
SYMMETRY BranchSymmetry
INVARIANTS TypeOK TagIsNew KernelsInOrder DownloadsWhatItNames
PROPERTY Implements
CHECK_DEADLOCK FALSE

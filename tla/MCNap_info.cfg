CONSTANTS
  c1 = c1  c2 = c2  timer = timer  admin = admin
  Cpu <- TwoCpus
  Proc <- TwoProcs
  All = all
  Default = default
  Mean = mean
  Nobody = nobody
  Absent = absent
  Unusable = unusable
  Commands = {"save", "info"}
  Events = {}
  MaxRuns = 2
  MaxEvents = 2
SPECIFICATION Spec
INVARIANT SelectorHeld

CHECK_DEADLOCK FALSE

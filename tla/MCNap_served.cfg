CONSTANTS
  c1 = c1  c2 = c2  timer = timer  admin = admin
  Cpu <- TwoCpus
  Proc <- TwoProcs
  All = all
  Default = default
  Mean = mean
  Nobody = nobody
  Absent = absent
  Unusable = unusable
  Commands = {"save", "restore", "import", "info"}
  Events = {"kill", "hotplug", "rot"}
  MaxRuns = 1
  MaxEvents = 2
SPECIFICATION FairSpec

PROPERTY EveryoneServed
CHECK_DEADLOCK FALSE

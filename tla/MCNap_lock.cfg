CONSTANTS
  c1 = c1  c2 = c2  timer = timer  admin = admin
  Cpu <- TwoCpus
  Proc <- TwoProcs
  All = all
  Default = default
  Mean = mean
  Nobody = nobody
  Absent = absent
  Unusable = unusable
  Commands = {"save", "restore", "reset", "import", "export"}
  Events = {"kill", "crash", "newnet", "hotplug"}
  MaxRuns = 2
  MaxEvents = 2
SPECIFICATION Spec
SYMMETRY NapSymmetry
INVARIANTS TypeOK SelectorHeld LearningStaysHome
PROPERTIES SomethingToRestore SnapshotsRotate
CHECK_DEADLOCK FALSE

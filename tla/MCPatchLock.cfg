CONSTANTS
  Order <- TheOrder
  Repos <- TheRepos
  RepoOf <- TheRepoOf
  File <- TheFile
  MaxCommits = 3
  Kernels = {1, 3}
  Bore = "bore"
  SchedExt = "sched_ext"
  Target <- TheTarget
  Zram = "zram_ir"
  ZramKernels = {3}
  Reviewed = 1
  InWrapper = {"zram_ir"}
  Direct = {"adios"}
  Nothing = nothing
SPECIFICATION Spec
INVARIANTS TypeOK BuiltIsLocked BuildsItsKernel
PROPERTY FromOneSnapshot

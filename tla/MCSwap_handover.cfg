CONSTANTS
  l1 = l1  l2 = l2  s1 = s1  s2 = s2  base = base  z = z  p = p
  tmpfiles = tmpfiles  absent = absent  junk = junk
  Legacy <- TwoLegacy
  Known <- OneLegacy
  Scanned <- OneLegacy
  Base = base
  Sizes <- OneSize
  Zram = {z}
  Parts = {p}
  Tmpfiles = tmpfiles
  Absent = absent
  Junk = junk
  Environment <- Handover
  MaxFaults = 2
SPECIFICATION FairSpec
PROPERTIES HandsOver NothingRetiredBeforeDrain Convergence

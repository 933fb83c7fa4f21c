CONSTANTS
  l1 = l1  l2 = l2  s1 = s1  s2 = s2  base = base  z = z  p = p
  tmpfiles = tmpfiles  absent = absent  junk = junk
  Legacy <- TwoLegacy
  Known <- OneLegacy
  Scanned <- OneLegacy
  Base = base
  Sizes <- TwoSizes
  Zram = {z}
  Parts = {p}
  Tmpfiles = tmpfiles
  Absent = absent
  Junk = junk
  Environment = {"reuse","late"}
  MaxFaults = 1
SPECIFICATION Spec

PROPERTY UserDataKept

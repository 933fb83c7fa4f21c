------------------------------- MODULE MCSwap -------------------------------
(***************************************************************************)
(* SwapMigration for TLC.  The names of the machine are model values; the  *)
(* two RAM sizes are interchangeable in the specification.                 *)
(***************************************************************************)
EXTENDS SwapMigration, TLC

CONSTANTS l1, l2, s1, s2, base, z, p, tmpfiles, absent, junk

\* Two old swapfiles: l1 at a path that is scanned and in KNOWN_FILES, l2 at
\* one that only fstab, /proc/swaps or a .swap unit can tell.
TwoLegacy == {l1, l2}
OneLegacy == {l1}
TwoSizes  == {s1, s2}
OneSize   == {s1}

SizeSymmetry == Permutations(TwoSizes)

\* Every event but the one the finding needs.
Faults  == {"kill", "fail", "power", "ram", "outside", "update", "stale", "masked", "reuse"}
\* What the handover to the managed file must withstand.
Handover == {"kill", "fail", "power", "update", "stale"}
=============================================================================

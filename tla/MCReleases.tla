----------------------------- MODULE MCReleases -----------------------------
(***************************************************************************)
(* Releases for TLC: two runs of two branches, each of which may be run    *)
(* again, while kernel.org goes from 7.1.9 past the end of that series.    *)
(***************************************************************************)
EXTENDS Releases, TLC

CONSTANTS main, integration

TwoBranches == {main, integration}
BranchSymmetry == Permutations(TwoBranches)

K(major, minor, patch, moniker) ==
  [major |-> major, minor |-> minor, patch |-> patch, rc |-> FALSE, moniker |-> moniker,
   source |-> TRUE, iseol |-> FALSE]
Rc(r) == [r EXCEPT !.rc = TRUE]
Eol(r) == [r EXCEPT !.iseol = TRUE]
NotYet(r) == [r EXCEPT !.source = FALSE]

TheFeed ==
  <<{K(7, 2, 0, "mainline"), K(7, 1, 10, "stable"), K(6, 18, 21, "longterm")},
    {Rc(K(7, 3, 0, "mainline")), K(7, 2, 1, "stable"), NotYet(K(7, 2, 2, "stable")), Eol(K(7, 1, 11, "stable")), K(6, 18, 22, "longterm")}>>
=============================================================================

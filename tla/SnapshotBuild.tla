---------------------------- MODULE SnapshotBuild ----------------------------
(***************************************************************************)
(* What a build promises about its sources: as if, at one moment since the *)
(* run began, it had read every upstream repository at once, and derived   *)
(* from that what its kernel needs.                                        *)
(***************************************************************************)
EXTENDS Integers

CONSTANTS Order, Repos, RepoOf, File, MaxCommits, Kernels, Bore, SchedExt, Target,
          Zram, ZramKernels, Nothing

VARIABLES
  upstream, \* the head of each repository
  start,    \* what it was when the run began
  target,   \* the kernel that was built last
  patches   \* and the patches that went into it

vars == <<upstream, start, target, patches>>

Components == {Order[i] : i \in DOMAIN Order}

Upstream(c, n, k) == [of |-> c, rev |-> File[c][n][k], for |-> Nothing]

Derived(c, n, k) ==
  \/ c = SchedExt
  \/ c = Bore /\ Target[File[c][n][k]] # k
  \/ c = Zram /\ k \in ZramKernels

PatchFor(c, n, k) ==
  IF Derived(c, n, k) THEN [Upstream(c, n, k) EXCEPT !.for = k] ELSE Upstream(c, n, k)

Init ==
  /\ upstream = [r \in Repos |-> 1] /\ start = upstream
  /\ target = Nothing /\ patches = Nothing

Push ==
  /\ \E r \in Repos : upstream' = [upstream EXCEPT ![r] = @ + 1]
  /\ UNCHANGED <<start, target, patches>>

Begin ==
  /\ start' = upstream
  /\ UNCHANGED <<upstream, target, patches>>

Build ==
  /\ target' \in Kernels
  /\ \E seen \in [Repos -> 1..MaxCommits] :
       /\ \A r \in Repos : start[r] <= seen[r] /\ seen[r] <= upstream[r]
       /\ patches' = [c \in Components |-> PatchFor(c, seen[RepoOf[c]], target')]
  /\ UNCHANGED <<upstream, start>>

Next == Push \/ Begin \/ Build

Spec == Init /\ [][Next]_vars
=============================================================================

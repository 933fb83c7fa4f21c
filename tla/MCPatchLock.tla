----------------------------- MODULE MCPatchLock -----------------------------
(***************************************************************************)
(* PatchLock for TLC: BORE and its sched_ext fix from one repository, with *)
(* commits that change both or one; ADIOS, which is read as a file;        *)
(* ZRAM-IR, with its local port for the second of two kernels.             *)
(***************************************************************************)
EXTENDS PatchLock

TheOrder == <<"adios", "bore", "sched_ext", "zram_ir">>
TheRepos == {"bore-scheduler", "others"}
TheRepoOf == [c \in {"adios", "bore", "sched_ext", "zram_ir"} |->
                IF c \in {"bore", "sched_ext"} THEN "bore-scheduler" ELSE "others"]
\* At each of three commits: the same patch for either kernel, but for BORE's.
Same(revisions) == [n \in 1..3 |-> [k \in {1, 3} |-> revisions[n]]]
TheFile == [adios |-> Same(<<1, 2, 2>>), sched_ext |-> Same(<<1, 1, 2>>), zram_ir |-> Same(<<1, 1, 2>>),
            bore |-> <<[k \in {1, 3} |-> IF k = 1 THEN 1 ELSE 2],
                       [k \in {1, 3} |-> IF k = 1 THEN 1 ELSE 3],
                       [k \in {1, 3} |-> 2]>>]
TheTarget == <<1, 2, 3>>
=============================================================================

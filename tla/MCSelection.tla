----------------------------- MODULE MCSelection -----------------------------
(***************************************************************************)
(* PatchSelection for TLC: pools of patches that differ in what matters  *)
(* to the choice.                                                          *)
(***************************************************************************)
EXTENDS PatchSelection

Patch(id, base, stage, rev, target, channel) ==
  [id |-> id, base |-> base, stage |-> stage, rev |-> rev, target |-> target, channel |-> channel]

\* Releases on either side of each boundary (rc, plain, rN, 0.9 and 0.10),
\* for native, near, far and no kernel targets; one without a release.
Mixed == {
  Patch(1, <<0, 9>>,     "final", 0, <<7, 3>>,       2),
  Patch(2, <<0, 10>>,    "rc",    1, <<7, 3, 1>>,    1),
  Patch(3, <<0, 10>>,    "rc",    2, <<6, 18>>,      1),
  Patch(4, <<0, 10>>,    "final", 0, <<6, 19>>,      2),
  Patch(5, <<0, 10, 0>>, "final", 0, <<6, 18, 7>>,   2),
  Patch(6, <<0, 10>>,    "final", 0, <<7, 3, 0, 2>>, 1),
  Patch(7, <<0, 10>>,    "r",     1, <<7, 1>>,       2),
  Patch(8, <<0, 10>>,    "r",     1, <<7, 30>>,      1),
  Patch(9, <<0, 10>>,    "r",     2, <<>>,           0),
  Patch(10, <<0, 10, 1>>, "final", 0, <<7, 3, 1>>,   0),
  Patch(11, <<>>,        "final", 0, <<7, 3, 1>>,    0) }

\* Patches of one release for the kernels of one series.
OneSeries == {
  Patch(1, <<1>>, "final", 0, <<7, 3>>,       2),
  Patch(2, <<1>>, "final", 0, <<7, 3, 0, 2>>, 2),
  Patch(3, <<1>>, "final", 0, <<7, 3, 0, 5>>, 2),
  Patch(4, <<1>>, "final", 0, <<7, 3, 1>>,    2),
  Patch(5, <<1>>, "final", 0, <<7, 3, 4>>,    2) }

FourKernels == {<<7, 1>>, <<7, 3, 1>>, <<7, 3, 0, 2>>, <<7, 0>>}
SeriesKernels == {<<7, 3>>, <<7, 3, 0, 3>>, <<7, 3, 1>>, <<7, 3, 3>>}

Bridge == Patch(6, <<0, 10>>, "final", 0, <<7, 3, 0, 2>>, 1)
NewBridgeKernel == <<7, 4, 0, 1>>
=============================================================================

------------------------------- MODULE MCZen -------------------------------
(***************************************************************************)
(* ZenResolution for TLC: branches of three series up to five commits long *)
(* and fetches of one, two and four of them, so that the introduction, the *)
(* compatibility commits or the root of the clone fall on either side.     *)
(***************************************************************************)
EXTENDS ZenResolution

C(symbol, titled, changes) == [symbol |-> symbol, titled |-> titled, changes |-> changes, marked |-> TRUE]
Linux == C("keep", FALSE, {"schedutil"})
Plain == C("keep", FALSE, {})
Base == C("define", TRUE, {})
Renamed == C("define", FALSE, {})
Help == C("keep", TRUE, {})
Revert == C("drop", TRUE, {})
Evdev == C("keep", FALSE, {"evdev"})
Schedutil == C("keep", FALSE, {"schedutil"})
Both == C("keep", FALSE, {"evdev", "schedutil"})
Unmarked == [Both EXCEPT !.marked = FALSE]

From0(commits) == [i \in 0..5 |-> IF i = 0 THEN Linux ELSE commits[i]]
TheSpecs == <<"evdev", "schedutil">>

TheHistories ==
  {From0(h) : h \in {
     <<Plain, Plain, Base, Both, Plain>>,      \* all near
     <<Base, Plain, Evdev, Schedutil, Plain>>, \* the introduction at the edge of the last fetch
     <<Plain, Evdev, Renamed, Schedutil, Plain>>, \* found by the definition
     <<Base, Plain, Plain, Both, Help>>,       \* the subject again, without the introduction
     <<Both, Base, Both, Revert, Base>>,       \* reverted and applied again
     <<Base, Both, Plain, Revert, Plain>>,     \* dropped at the head
     <<Plain, Base, Both, Unmarked, Plain>>}}  \* the last match is not the change

H(path, has) == [path |-> path, has |-> has]
Definition == H("Kconfig", {"symbol", "definition"})
Slice(more) == H("fair.c", {"symbol", "slice"} \cup more)
Wmark == H("runtime", {"symbol", "runtime"})
Bandwidth(more) == H("fair.c", {"symbol", "runtime"} \cup more)
Other == H("other", {"symbol"})
TheDiffs ==
  {<<Definition, H("elevator.c", {"symbol"}), Slice({"migration"}), Wmark, Other, H("other", {})>>,
   <<Definition, H("huge_memory.c", {"symbol", "thp"}), H("other", {"symbol", "thp"}), H("other", {}), Other>>,
   <<Definition, Slice({}), H("fair.c", {"symbol", "migration"}), Other>>,
   <<Definition, Slice({"migration"}), Slice({}), Other>>,     \* the second one takes the cost back
   <<Definition, Slice({}), Slice({"migration"}), Bandwidth({})>>,
   <<Definition, Bandwidth({"slice", "migration"}), Other>>,    \* run-time policy first: the cost is not seen
   <<Definition, H("other", {"symbol", "slice"}), Other>>,
   <<Definition, Slice({"migration"}), H("fair.c", {"symbol", "unbalanced"})>>,
   <<H("Kconfig", {"symbol", "definition", "thp"}), Other>>,
   <<Definition, H("other", {"symbol", "runtime"})>>,
   <<Definition, Slice({"migration"}), H("fair.c", {"symbol", "migration"})>>}
=============================================================================

------------------------ MODULE ZenResolutionProofs ------------------------
(***************************************************************************)
(* What is proved of the resolution of the Zen profile, for every series,  *)
(* history, diff, depth and time limit.                                    *)
(***************************************************************************)
EXTENDS ZenResolution, FiniteSetTheorems, TLAPS

-----------------------------------------------------------------------------
(* Sets of numbers.                                                        *)

(* A set of natural numbers that is not empty has a least element: the     *)
(* order of the finite sets 0..x is well-founded.                          *)
LEMMA LeastExists ==
  ASSUME NEW S, S \subseteq Nat, S # {}
  PROVE  Least(S) \in S /\ \A x \in S : Least(S) <= x
<1>. DEFINE segments == {0..x : x \in S}
<1>1. \A x \in Nat : IsFiniteSet(0..x)
  BY FS_Interval
<1>2. segments \subseteq FiniteSubsetsOf(Nat)
  BY <1>1 DEF FiniteSubsetsOf
<1>3. segments # {}
  OBVIOUS
<1>4. PICK s \in segments : \A t \in segments : <<t, s>> \notin StrictSubsetOrdering(Nat)
  <2>. HIDE DEF segments
  <2>. QED BY <1>2, <1>3, FS_StrictSubsetOrderingWellFounded, WFMin
<1>5. PICK x \in S : s = 0..x
  OBVIOUS
<1>6. ASSUME NEW y \in S, y < x PROVE FALSE
  <2>1. 0..y \subseteq 0..x /\ x \in 0..x /\ x \notin 0..y
    BY <1>6
  <2>2. <<0..y, 0..x>> \in StrictSubsetOrdering(Nat)
    BY <2>1 DEF StrictSubsetOrdering
  <2>. QED BY <1>4, <1>5, <1>6, <2>2
<1>7. \A y \in S : x <= y
  BY <1>6
<1>. QED BY <1>7 DEF Least

(* A bounded one has a greatest: the least of the distances to the bound.  *)
LEMMA LargestExists ==
  ASSUME NEW n \in Nat, NEW S, S \subseteq 0..n, S # {}
  PROVE  Largest(S) \in S /\ \A x \in S : x <= Largest(S)
<1>. DEFINE mirror == {n - x : x \in S}
<1>1. mirror \subseteq Nat
  OBVIOUS
<1>2. mirror # {}
  OBVIOUS
<1>3. Least(mirror) \in mirror /\ \A m \in mirror : Least(mirror) <= m
  BY <1>1, <1>2, LeastExists
<1>4. PICK x \in S : Least(mirror) = n - x
  BY <1>3
<1>5. \A y \in S : y <= x
  BY <1>3, <1>4
<1>. QED BY <1>5 DEF Largest

-----------------------------------------------------------------------------
(* The shape of the state.                                                 *)

DiffsOfTwo == [from : 0..MaxCommits, to : 0..MaxCommits, hunks : Diffs \cup {<<>>}]

LEMMA JobShape ==
  ASSUME TypeOK
  PROVE  /\ job.ref \in Series \cup {0} /\ job.depth \in Nat /\ job.head \in Nat
         /\ job.depth \in FirstDepth..MaxDepth /\ job.head \in 0..MaxCommits
         /\ job.candidate \in 0..MaxCommits /\ job.match \in 0..MaxCommits
         /\ job.sources \in Seq(0..MaxCommits) /\ job.sources \in Seq(Shown)
         /\ job.left \in 0..SymbolFiles /\ job.diff \in DiffsOfTwo
<1>1. FirstDepth \in Nat /\ MaxDepth \in Nat /\ MaxCommits \in Nat
  BY ZenShape
<1>2. job \in Jobs /\ job.sources \in Seq(Shown)
  BY DEF TypeOK
<1>. QED BY <1>1, <1>2 DEF Jobs, DiffsOfTwo

LEMMA ShownIsHistory ==
  ASSUME TypeOK
  PROVE  Shown \subseteq 0..job.head /\ Shown \subseteq 0..MaxCommits /\ job.head \in Nat
<1>1. MaxCommits \in Nat
  BY ZenShape
<1>. QED BY <1>1, JobShape DEF Shown, Window

LEMMA SpendBounds ==
  ASSUME TypeOK, NEW pause \in Nat, Spend(pause)
  PROVE  now' \in Nat /\ now' <= Total + pause
<1>1. Limit \in Nat /\ Total \in Nat /\ now \in Nat
  BY ZenShape DEF Limit, TypeOK
<1>2. Total - now \in Nat
  BY <1>1 DEF Spend
<1>3. Allowed \in Nat /\ Allowed <= Total - now
  BY <1>1, <1>2 DEF Allowed
<1>. QED BY <1>1, <1>2, <1>3 DEF Spend

LEMMA CompatibleRef ==
  ASSUME TypeOK, Compatible(Published) # {}
  PROVE  /\ Largest(Compatible(Published)) \in Compatible(Published)
         /\ \A s \in Compatible(Published) : s <= Largest(Compatible(Published))
<1>1. Target \in Nat /\ Series \subseteq Nat
  BY ZenShape
<1>2. Published \subseteq Series
  BY DEF Published
<1>3. ASSUME NEW s \in Compatible(Published) PROVE s \in 0..Target
  <2>1. s \in Series /\ s <= Target
    BY <1>2 DEF Compatible
  <2>. QED BY <1>1, <2>1
<1>. QED BY <1>1, <1>3, LargestExists

LEMMA MatchesShown ==
  ASSUME TypeOK, NEW spec, Matches(spec) # {}
  PROVE  /\ Matches(spec) \subseteq Shown
         /\ Largest(Matches(spec)) \in Matches(spec)
         /\ \A i \in Matches(spec) : i <= Largest(Matches(spec))
<1>1. Matches(spec) \subseteq Shown
  BY DEF Matches
<1>. QED BY <1>1, ShownIsHistory, LargestExists

(* Deepening doubles a depth that stays in range.                          *)
LEMMA DeepenShape ==
  ASSUME TypeOK, Deepen
  PROVE  /\ pc' \in {"fetch", "failed"}
         /\ job' \in Jobs /\ job'.sources = job.sources /\ job'.head = job.head
         /\ job'.depth \in {job.depth, 2 * job.depth} /\ job'.depth >= job.depth
<1>1. job \in Jobs /\ job.depth \in Nat /\ job.depth >= FirstDepth /\ FirstDepth \in Nat /\ MaxDepth \in Nat
  <2>1. FirstDepth \in Nat /\ MaxDepth \in Nat
    BY ZenShape
  <2>. QED BY <2>1, JobShape DEF TypeOK
<1>2. CASE Doubled <= MaxDepth
  <2>1. job' = [job EXCEPT !.depth = 2 * job.depth] /\ pc' = "fetch"
    BY <1>2 DEF Deepen, Goto, Doubled
  <2>2. 2 * job.depth \in FirstDepth..MaxDepth
    BY <1>1, <1>2 DEF Doubled
  <2>3. job' \in Jobs
    BY <1>1, <2>1, <2>2 DEF Jobs
  <2>. QED BY <1>1, <2>1, <2>3 DEF Jobs
<1>3. CASE ~(Doubled <= MaxDepth)
  BY <1>1, <1>3 DEF Deepen, Fail
<1>. QED BY <1>2, <1>3

LEMMA ShownGrows ==
  ASSUME TypeOK, job'.head = job.head, job'.depth \in Nat, job'.depth >= job.depth
  PROVE  Shown \subseteq Shown'
<1>1. job.depth \in Nat /\ job.head \in Nat
  BY JobShape
<1>. QED BY <1>1 DEF Shown, Window

-----------------------------------------------------------------------------
(* The inductive invariant, by what the resolver knows at each command.    *)

Traced == {"rev-parse", "symbols", "file", "diff", "applied"} \cup Afterwards

(* Branches only grow, so the newest there were when the run began cannot  *)
(* be newer than the one that was chosen.                                  *)
RefChosen ==
  /\ \A s \in Series : asked[s] <= heads[s]
  /\ pc \notin {"idle", "ls-remote", "failed"} =>
       /\ job.ref \in Series /\ job.ref <= Target
       /\ \A s \in Series : asked[s] > 0 /\ s <= Target => s <= job.ref

CandidateFound ==
  /\ pc \in {"parent", "previous"} => Defined(job.candidate)
  /\ pc \in {"again"} \cup InCompat \cup Traced => Introduces(job.candidate)
  /\ pc \in {"diff", "applied"} \cup Afterwards => Defined(job.head)

IsLast(spec, i) ==
  spec \in history[i].changes /\ \A k \in (i + 1)..job.head : spec \notin history[k].changes

SourcesTraced ==
  /\ pc \in {"grep", "pickaxe", "current", "parent", "previous", "again"} => job.sources = <<>>
  /\ pc \in InCompat => Len(job.sources) < Len(Specs)
  /\ pc \in {"parent-of", "compat"} =>
       Matches(CompatSpec) # {} /\ job.match = Largest(Matches(CompatSpec))
  /\ pc = "compat" => ~IsRoot(job.match)
  /\ pc \in Traced => Len(job.sources) = Len(Specs)
  /\ pc \in InCompat \cup Traced =>
       \A n \in 1..Len(job.sources) : IsLast(Specs[n], job.sources[n])

(* The diff is of the commits that will be recorded.                       *)
DiffTaken ==
  /\ job.diff.hunks \in Diffs /\ FilterAccepts(Filtered(job.diff.hunks))
  /\ job.diff.from = job.candidate - 1 /\ job.diff.to = job.head

Recorded ==
  /\ lock # Nothing /\ lock.sources = job.sources
  /\ lock.introduction = job.candidate /\ lock.commit = job.head

PatchCut ==
  LET cut == Filtered(job.diff.hunks) IN
  /\ pc \in Afterwards \cup {"applied"} => DiffTaken
  /\ pc \in {"record", "adapt"} => output = Patch(cut)
  /\ pc \in {"policy", "apply", "applied"} =>
       output = Patch(Adapted(cut)) /\ PortAccepts(cut, Adapted(cut))
  /\ pc \in {"adapt", "policy", "apply", "applied"} => Recorded
  /\ pc \in {"apply", "applied"} => lock.sha256 = output
  /\ pc = "applied" => applied = output /\ ~Any(output.hunks, "thp")

IInv == TypeOK /\ InTime /\ RefChosen /\ CandidateFound /\ SourcesTraced /\ PatchCut /\ ShallowIsExact


-----------------------------------------------------------------------------
(* Steps of the resolver leave the world and the files alone, so what was  *)
(* recorded before stands and only the search has to be looked at.         *)
SearchOK ==
  /\ pc \in Commands \cup {"write", "failed"}
  /\ job \in Jobs /\ job.sources \in Seq(Shown) /\ Len(job.sources) <= Len(Specs)
  /\ CandidateFound /\ SourcesTraced
  /\ pc = "write" => DiffTaken

LEMMA ResolverKeeps ==
  ASSUME IInv, UNCHANGED <<world, files>>,
         now' \in Nat, now' <= Total + Delay, attempt' \in 1..Retries, faults' \in 0..MaxFaults,
         SearchOK',
         pc' # "failed" => /\ pc \notin {"idle", "ls-remote", "failed"}
                           /\ job'.ref = job.ref
  PROVE  IInv'
<1>1. TypeOK'
  BY DEF IInv, TypeOK, SearchOK, FilesOK, world, files, Commands, Afterwards, Ended
<1>2. InTime'
  BY DEF InTime
<1>3. RefChosen'
  BY DEF IInv, RefChosen, world
<1>4. PatchCut'
  BY DEF SearchOK, PatchCut, Afterwards, Commands, ByNetwork, Reads, InCompat
<1>5. ShallowIsExact'
  BY DEF IInv, ShallowIsExact, Introduces, Defined, world, files
<1>. QED BY <1>1, <1>2, <1>3, <1>4, <1>5 DEF IInv, SearchOK

LEMMA CountersInRange ==
  ASSUME IInv
  PROVE  /\ 1 \in 1..Retries /\ attempt \in 1..Retries /\ faults \in 0..MaxFaults
         /\ Total \in Nat /\ Delay \in Nat /\ Retries \in Nat /\ MaxFaults \in Nat
         /\ now \in Nat /\ now <= Total + Delay
<1>1. Total \in Nat /\ Delay \in Nat /\ Retries \in Nat \ {0} /\ MaxFaults \in Nat
  BY ZenShape
<1>. QED BY <1>1 DEF IInv, TypeOK, InTime

LEMMA AnsweredShape ==
  ASSUME IInv, NEW at, Answered(at)
  PROVE  /\ pc = at /\ UNCHANGED <<world, files>>
         /\ now' \in Nat /\ now' <= Total + Delay
         /\ attempt' \in 1..Retries /\ faults' \in 0..MaxFaults
<1>1. now' \in Nat /\ now' <= Total + 0
  BY SpendBounds DEF Answered, IInv
<1>. QED BY <1>1, CountersInRange DEF Answered

LEMMA FailIsSearch ==
  ASSUME IInv, NEW error, Fail(error)
  PROVE  SearchOK' /\ pc' = "failed"
<1>1. pc' = "failed" /\ job' = job
  BY DEF Fail
<1>2. job \in Jobs /\ job.sources \in Seq(Shown) /\ Len(job.sources) <= Len(Specs)
  BY DEF IInv, TypeOK
<1>3. job.sources' \in Seq(Shown)'
  BY <1>1, <1>2 DEF Shown
<1>4. CandidateFound' /\ SourcesTraced'
  BY <1>1 DEF CandidateFound, SourcesTraced, InCompat, Traced, Afterwards
<1>. QED BY <1>1, <1>2, <1>3, <1>4 DEF SearchOK

LEMMA DeepenIsSearch ==
  ASSUME IInv, Deepen
  PROVE  SearchOK' /\ job'.ref = job.ref
<1>1. /\ pc' \in {"fetch", "failed"}
      /\ job' \in Jobs /\ job'.sources = job.sources /\ job'.head = job.head
      /\ job'.depth \in Nat /\ job'.depth >= job.depth
  BY DeepenShape, JobShape DEF IInv
<1>2. Shown \subseteq Shown'
  BY <1>1, ShownGrows DEF IInv
<1>3. job.sources \in Seq(Shown) /\ Len(job.sources) <= Len(Specs)
  BY DEF IInv, TypeOK
<1>4. job.sources \in Seq(Shown')
  BY <1>2, <1>3
<1>5. CandidateFound' /\ SourcesTraced'
  BY <1>1 DEF CandidateFound, SourcesTraced, InCompat, Traced, Afterwards
<1>6. job'.ref = job.ref
  BY DEF Deepen, Goto, Fail, IInv, TypeOK, Jobs
<1>. QED BY <1>1, <1>3, <1>4, <1>5, <1>6 DEF SearchOK, Commands, ByNetwork

LEMMA RaiseIsSearch ==
  ASSUME IInv, NEW error, Raise(error)
  PROVE  SearchOK' /\ (pc' # "failed" => job'.ref = job.ref /\ pc \in InCompat)
<1>1. CASE Fail(error)
  BY <1>1, FailIsSearch
<1>2. CASE Deepen /\ pc \in InCompat
  BY <1>2, DeepenIsSearch
<1>. QED BY <1>1, <1>2 DEF Raise

(* A step that goes on with the same job.                                  *)
LEMMA SameJob ==
  ASSUME IInv, UNCHANGED <<history, job>>
  PROVE  /\ Shown' = Shown /\ job' \in Jobs
         /\ job'.sources \in Seq(Shown') /\ Len(job'.sources) <= Len(Specs)
         /\ (Introduces(job.candidate))' <=> Introduces(job.candidate)
         /\ (Defined(job.candidate))' <=> Defined(job.candidate)
         /\ (Defined(job.head))' <=> Defined(job.head)
<1>1. Shown' = Shown
  BY DEF Shown
<1>. QED BY <1>1 DEF IInv, TypeOK, Introduces, Defined

LEMMA LsRemoteKeeps ==
  ASSUME IInv, LsRemote
  PROVE  IInv'
<1>1. /\ pc = "ls-remote" /\ UNCHANGED <<world, files>>
      /\ now' \in Nat /\ now' <= Total + Delay /\ attempt' \in 1..Retries /\ faults' \in 0..MaxFaults
  BY AnsweredShape DEF LsRemote
<1>2. CASE Compatible(Published) = {}
  BY <1>1, <1>2, FailIsSearch, ResolverKeeps DEF LsRemote
<1>3. CASE Compatible(Published) # {}
  <2>. DEFINE best == Largest(Compatible(Published))
  <2>1. /\ best \in Series /\ best <= Target
        /\ \A s \in Series : heads[s] > 0 /\ s <= Target => s <= best
    <3>1. best \in Compatible(Published) /\ \A s \in Compatible(Published) : s <= best
      BY <1>3, CompatibleRef DEF IInv
    <3>. HIDE DEF best
    <3>. QED BY <3>1 DEF Compatible, Published
  <2>2. pc' = "init" /\ job' = [job EXCEPT !.ref = best]
    BY <1>3 DEF LsRemote, Goto
  <2>. HIDE DEF best
  <2>3. job \in Jobs /\ job.sources \in Seq(Shown) /\ Len(job.sources) <= Len(Specs)
    BY DEF IInv, TypeOK
  <2>4. /\ job' \in Jobs /\ job'.head = job.head /\ job'.depth = job.depth
        /\ job'.sources = job.sources /\ job'.ref = best
    BY <2>1, <2>2, <2>3 DEF Jobs
  <2>5. Shown' = Shown
    BY <2>4 DEF Shown
  <2>6. TypeOK'
    BY <1>1, <2>2, <2>3, <2>4, <2>5 DEF IInv, TypeOK, FilesOK, world, files, Commands
  <2>7. RefChosen'
    <3>1. \A s \in Series : asked[s] \in Nat /\ heads[s] \in Nat /\ asked[s] <= heads[s]
      BY ZenShape DEF IInv, RefChosen, TypeOK
    <3>. QED BY <1>1, <2>1, <2>4, <3>1 DEF RefChosen, world
  <2>8. CandidateFound' /\ SourcesTraced' /\ PatchCut'
    BY <2>2 DEF CandidateFound, SourcesTraced, PatchCut, InCompat, Traced, Afterwards
  <2>9. ShallowIsExact'
    BY <1>1 DEF IInv, ShallowIsExact, Introduces, Defined, world, files
  <2>. QED BY <1>1, <2>6, <2>7, <2>8, <2>9 DEF IInv, InTime
<1>. QED BY <1>2, <1>3

LEMMA InitCheckoutKeeps ==
  ASSUME IInv, InitCheckout
  PROVE  IInv'
<1>1. pc = "init" /\ pc' = "fetch" /\ job' = job /\ UNCHANGED <<world, files>>
  BY AnsweredShape DEF InitCheckout, Goto
<1>2. SearchOK'
  BY <1>1, SameJob DEF SearchOK, CandidateFound, SourcesTraced, InCompat, Traced, Afterwards, Commands, ByNetwork, world
<1>. QED BY <1>1, <1>2, AnsweredShape, ResolverKeeps DEF InitCheckout

LEMMA FetchDepthKeeps ==
  ASSUME IInv, FetchDepth
  PROVE  IInv'
<1>1. pc = "fetch" /\ UNCHANGED <<world, files>>
  BY AnsweredShape DEF FetchDepth
<1>2. pc' = "grep" /\ job' = [job EXCEPT !.head = heads[job.ref], !.sources = <<>>]
  BY DEF FetchDepth, Goto
<1>3. job.ref \in Series /\ heads[job.ref] \in 0..MaxCommits /\ job \in Jobs
  BY <1>1 DEF IInv, TypeOK, RefChosen
<1>4. job' \in Jobs /\ job'.sources = <<>> /\ job'.ref = job.ref
  <2>1. <<>> \in Seq(0..MaxCommits)
    OBVIOUS
  <2>. QED BY <1>2, <1>3, <2>1 DEF Jobs
<1>5. Len(job'.sources) <= Len(Specs)
  BY <1>4, ZenShape
<1>6. CandidateFound' /\ SourcesTraced'
  BY <1>2, <1>4 DEF CandidateFound, SourcesTraced, InCompat, Traced, Afterwards
<1>7. SearchOK'
  BY <1>2, <1>4, <1>5, <1>6 DEF SearchOK, Commands
<1>. QED BY <1>1, <1>4, <1>7, AnsweredShape, ResolverKeeps DEF FetchDepth

(* The command that looks for the oldest commit.                           *)
LEMMA OldestKeeps ==
  ASSUME IInv, NEW found, found \subseteq Shown, found # {},
         pc \in {"grep", "pickaxe"}, UNCHANGED world,
         Goto("current", [job EXCEPT !.candidate = Least(found)])
  PROVE  SearchOK' /\ job'.ref = job.ref
<1>1. found \subseteq 0..MaxCommits /\ MaxCommits \in Nat
  BY ShownIsHistory, ZenShape DEF IInv
<1>2. Least(found) \in 0..MaxCommits
  BY <1>1, LeastExists
<1>. DEFINE least == Least(found)
<1>. HIDE DEF least
<1>3. pc' = "current" /\ job' = [job EXCEPT !.candidate = least] /\ job \in Jobs
  BY DEF Goto, IInv, TypeOK, least
<1>4. /\ job' \in Jobs /\ job'.sources = job.sources /\ job'.ref = job.ref
      /\ job'.head = job.head /\ job'.depth = job.depth
  BY <1>2, <1>3 DEF Jobs, least
<1>5. job.sources \in Seq(Shown) /\ Len(job.sources) <= Len(Specs) /\ job.sources = <<>>
  BY DEF IInv, TypeOK, SourcesTraced
<1>6. Shown' = Shown
  BY <1>4 DEF Shown
<1>7. CandidateFound' /\ SourcesTraced'
  BY <1>3, <1>4, <1>5 DEF CandidateFound, SourcesTraced, InCompat, Traced, Afterwards
<1>. QED BY <1>3, <1>4, <1>5, <1>6, <1>7 DEF SearchOK, Commands, ByNetwork, Reads

LEMMA GrepSubjectKeeps ==
  ASSUME IInv, GrepSubject
  PROVE  IInv'
<1>1. pc = "grep" /\ UNCHANGED <<world, files>>
  BY AnsweredShape DEF GrepSubject
<1>2. CASE Titled = {}
  <2>1. pc' = "pickaxe" /\ job' = job /\ job.sources = <<>>
    BY <1>1, <1>2 DEF GrepSubject, Oldest, Goto, IInv, SourcesTraced
  <2>2. SearchOK'
    BY <1>1, <2>1, SameJob DEF SearchOK, CandidateFound, SourcesTraced, InCompat, Traced, Afterwards,
      Commands, ByNetwork, world
  <2>. QED BY <1>1, <2>1, <2>2, AnsweredShape, ResolverKeeps DEF GrepSubject
<1>3. CASE Titled # {}
  <2>1. SearchOK' /\ job'.ref = job.ref
    BY <1>1, <1>3, OldestKeeps DEF GrepSubject, Oldest, Titled
  <2>. QED BY <1>1, <2>1, AnsweredShape, ResolverKeeps DEF GrepSubject
<1>. QED BY <1>2, <1>3

LEMMA PickaxeKeeps ==
  ASSUME IInv, PickaxeDefinition
  PROVE  IInv'
<1>1. pc = "pickaxe" /\ UNCHANGED <<world, files>>
  BY AnsweredShape DEF PickaxeDefinition
<1>2. SearchOK' /\ job'.ref = job.ref
  BY <1>1, OldestKeeps, DeepenIsSearch DEF PickaxeDefinition, Oldest, Pickaxe
<1>. QED BY <1>1, <1>2, AnsweredShape, ResolverKeeps DEF PickaxeDefinition

(* An introduction is none of the history below it.                        *)
LEMMA DefinedIsLater ==
  ASSUME Defined(0)
  PROVE  FALSE
BY DEF Defined

LEMMA CheckKeeps ==
  ASSUME IInv, ReadCurrent \/ CheckParent \/ ReadPrevious \/ CheckAgain
  PROVE  IInv'
<1>1. /\ pc \in {"current", "parent", "previous", "again"} /\ UNCHANGED <<world, files>>
      /\ now' \in Nat /\ now' <= Total + Delay /\ attempt' \in 1..Retries /\ faults' \in 0..MaxFaults
  BY AnsweredShape DEF ReadCurrent, CheckParent, ReadPrevious, CheckAgain
<1>2. CASE Deepen
  BY <1>1, <1>2, DeepenIsSearch, ResolverKeeps
<1>3. CASE ~Deepen
  <2>1. job' = job /\ job.sources = <<>> /\ UNCHANGED history
    BY <1>1, <1>3 DEF ReadCurrent, CheckParent, ReadPrevious, CheckAgain, Goto, IInv, SourcesTraced, world
  <2>2. /\ pc' \in {"parent", "previous", "again", "log"}
        /\ pc' \in {"parent", "previous"} => Defined(job.candidate)
        /\ pc' \in {"again", "log"} => Introduces(job.candidate)
    <3>1. CASE ReadCurrent
      BY <1>3, <3>1 DEF ReadCurrent, Goto
    <3>2. CASE CheckParent
      BY <1>3, <3>2 DEF CheckParent, Goto, Answered, IInv, CandidateFound
    <3>3. CASE ReadPrevious
      <4>1. pc' = "again" /\ NewIn(job.candidate) /\ Defined(job.candidate)
        BY <1>3, <3>3 DEF ReadPrevious, Goto, Answered, IInv, CandidateFound
      <4>2. job.candidate \in Nat
        BY JobShape DEF IInv
      <4>. QED BY <4>1, <4>2, DefinedIsLater DEF NewIn, Introduces
    <3>4. CASE CheckAgain
      BY <3>4 DEF CheckAgain, Goto, Answered, IInv, CandidateFound
    <3>. QED BY <3>1, <3>2, <3>3, <3>4
  <2>3. Len(Specs) > 0 /\ Len(<<>>) = 0
    BY ZenShape
  <2>4. CandidateFound'
    BY <2>1, <2>2, SameJob DEF CandidateFound, InCompat, Traced, Afterwards
  <2>5. SourcesTraced'
    BY <2>1, <2>2, <2>3 DEF SourcesTraced, InCompat, Traced, Afterwards
  <2>6. SearchOK'
    BY <2>1, <2>2, <2>4, <2>5, SameJob DEF SearchOK, Commands, InCompat, ByNetwork, Reads
  <2>. QED BY <1>1, <2>1, <2>6, ResolverKeeps
<1>. QED BY <1>2, <1>3

(* What a clone shows depends on the branch, the depth and the sources.    *)
LEMMA SameClone ==
  ASSUME UNCHANGED history, job'.head = job.head, job'.depth = job.depth
  PROVE  /\ Shown' = Shown
         /\ \A spec, i : IsLast(spec, i) <=> IsLast(spec, i)'
         /\ job'.sources = job.sources => (Matches(CompatSpec))' = Matches(CompatSpec)
<1>1. Shown' = Shown
  BY DEF Shown
<1>2. \A spec, i : IsLast(spec, i) <=> IsLast(spec, i)'
  BY DEF IsLast
<1>3. ASSUME job'.sources = job.sources PROVE (Matches(CompatSpec))' = Matches(CompatSpec)
  BY <1>1, <1>3 DEF Matches, CompatSpec, IsRoot
<1>. QED BY <1>1, <1>2, <1>3

LEMMA LogPatternKeeps ==
  ASSUME IInv, LogPattern
  PROVE  IInv'
<1>1. pc = "log" /\ UNCHANGED <<world, files>>
  BY AnsweredShape DEF LogPattern
<1>2. CASE Matches(CompatSpec) = {}
  BY <1>1, <1>2, AnsweredShape, RaiseIsSearch, ResolverKeeps DEF LogPattern
<1>3. CASE Matches(CompatSpec) # {}
  <2>. DEFINE last == Largest(Matches(CompatSpec))
  <2>1. last \in 0..MaxCommits
    BY <1>3, MatchesShown, ShownIsHistory DEF IInv
  <2>2. pc' = "parent-of" /\ job' = [job EXCEPT !.match = last]
    BY <1>3 DEF LogPattern, Goto
  <2>3. job \in Jobs /\ job.sources \in Seq(Shown) /\ Len(job.sources) <= Len(Specs)
    BY DEF IInv, TypeOK
  <2>4. /\ job' \in Jobs /\ job'.ref = job.ref /\ job'.head = job.head /\ job'.depth = job.depth
        /\ job'.sources = job.sources /\ job'.candidate = job.candidate /\ job'.match = last
    <3>. HIDE DEF last
    <3>. QED BY <2>1, <2>2, <2>3 DEF Jobs
  <2>5. Shown' = Shown /\ (Matches(CompatSpec))' = Matches(CompatSpec)
    BY <1>1, <2>4, SameClone DEF world
  <2>6. \A spec, i : IsLast(spec, i) <=> IsLast(spec, i)'
    BY <1>1, <2>4, SameClone DEF world
  <2>7. CandidateFound'
    BY <1>1, <2>2, <2>4 DEF IInv, CandidateFound, InCompat, Traced, Afterwards, Introduces, Defined, world
  <2>8. job'.match = Largest((Matches(CompatSpec))') /\ (Matches(CompatSpec))' # {}
    BY <1>3, <2>4, <2>5
  <2>9. SourcesTraced'
    BY <1>1, <2>2, <2>4, <2>6, <2>8 DEF IInv, SourcesTraced, InCompat, Traced, Afterwards
  <2>10. SearchOK'
    BY <2>2, <2>3, <2>4, <2>5, <2>7, <2>9 DEF SearchOK, Commands, InCompat
  <2>. QED BY <1>1, <2>4, <2>10, AnsweredShape, ResolverKeeps DEF LogPattern
<1>. QED BY <1>2, <1>3

(* A step of the search after the introduction that goes on with its job.  *)
LEMMA SameJobKeeps ==
  ASSUME IInv, UNCHANGED <<world, job>>
  PROVE  /\ Shown' = Shown /\ job' \in Jobs
         /\ job'.sources \in Seq(Shown') /\ Len(job'.sources) <= Len(Specs)
         /\ \A spec, i : IsLast(spec, i) <=> IsLast(spec, i)'
         /\ (Matches(CompatSpec))' = Matches(CompatSpec)
         /\ (Introduces(job.candidate))' <=> Introduces(job.candidate)
         /\ (Defined(job.head))' <=> Defined(job.head)
BY SameJob, SameClone DEF world

LEMMA ParentOfKeeps ==
  ASSUME IInv, ParentOf
  PROVE  IInv'
<1>1. pc = "parent-of" /\ UNCHANGED <<world, files>>
  BY AnsweredShape DEF ParentOf
<1>2. CASE IsRoot(job.match)
  BY <1>1, <1>2, AnsweredShape, RaiseIsSearch, ResolverKeeps DEF ParentOf
<1>3. CASE ~IsRoot(job.match)
  <2>1. pc' = "compat" /\ job' = job /\ UNCHANGED world
    BY <1>1, <1>3 DEF ParentOf, Goto
  <2>2. CandidateFound'
    BY <1>1, <2>1, SameJobKeeps DEF IInv, CandidateFound, InCompat, Traced, Afterwards
  <2>3. ~(IsRoot(job.match))'
    BY <1>3, <2>1, SameJobKeeps DEF IsRoot
  <2>4. SourcesTraced'
    BY <1>1, <2>1, <2>3, SameJobKeeps DEF IInv, SourcesTraced, InCompat, Traced, Afterwards
  <2>5. SearchOK'
    BY <2>1, <2>2, <2>4, SameJobKeeps DEF SearchOK, Commands, InCompat
  <2>. QED BY <1>1, <2>1, <2>5, AnsweredShape, ResolverKeeps DEF ParentOf
<1>. QED BY <1>2, <1>3

(* The last commit that a shallow clone shows to match, if it is not the   *)
(* root, is the last that changes what the pattern names.                  *)
LEMMA LastMatchIsLast ==
  ASSUME IInv, NEW spec, Matches(spec) # {}, ~IsRoot(Largest(Matches(spec)))
  PROVE  IsLast(spec, Largest(Matches(spec)))
<1>. DEFINE last == Largest(Matches(spec))
<1>1. last \in Matches(spec) /\ \A i \in Matches(spec) : i <= last
  BY MatchesShown DEF IInv
<1>2. last \in Shown /\ spec \in history[last].changes
  BY <1>1 DEF Matches
<1>3. last \in 0..job.head /\ job.head \in Nat /\ job.depth \in Nat
  BY <1>2, ShownIsHistory, JobShape DEF IInv
<1>. HIDE DEF last
<1>4. ASSUME NEW k \in (last + 1)..job.head PROVE spec \notin history[k].changes
  <2>1. k \in Shown /\ ~(k <= last)
    BY <1>2, <1>3 DEF Shown, Window
  <2>. QED BY <1>1, <2>1 DEF Matches
<1>5. IsLast(spec, last)
  BY <1>2, <1>4 DEF IsLast
<1>. QED BY <1>5 DEF last

LEMMA DiffOfMatchKeeps ==
  ASSUME IInv, DiffOfMatch
  PROVE  IInv'
<1>1. pc = "compat" /\ UNCHANGED <<world, files>>
  BY AnsweredShape DEF DiffOfMatch
<1>2. CASE ~history[job.match].marked
  BY <1>1, <1>2, AnsweredShape, RaiseIsSearch, ResolverKeeps DEF DiffOfMatch
<1>3. CASE history[job.match].marked
  <2>. DEFINE n == Len(job.sources) + 1
  <2>1. /\ pc' = IF n = Len(Specs) THEN "rev-parse" ELSE "log"
        /\ job' = [job EXCEPT !.sources = Append(@, job.match)]
    BY <1>3 DEF DiffOfMatch, Goto
  <2>2. /\ Matches(CompatSpec) # {} /\ job.match = Largest(Matches(CompatSpec)) /\ ~IsRoot(job.match)
        /\ Len(job.sources) < Len(Specs)
        /\ \A m \in 1..Len(job.sources) : IsLast(Specs[m], job.sources[m])
    BY <1>1 DEF IInv, SourcesTraced, InCompat
  <2>3. IsLast(Specs[n], job.match)
    BY <2>2, LastMatchIsLast DEF CompatSpec
  <2>4. job.match \in Shown /\ job.match \in 0..MaxCommits
    BY <2>2, MatchesShown, ShownIsHistory DEF IInv
  <2>5. /\ job \in Jobs /\ job.sources \in Seq(Shown) /\ job.sources \in Seq(0..MaxCommits)
        /\ Len(job.sources) \in Nat /\ Len(Specs) \in Nat
    <3>1. Len(Specs) \in Nat
      BY ZenShape
    <3>. QED BY <3>1, JobShape DEF IInv, TypeOK
  <2>. DEFINE more == Append(job.sources, job.match)
  <2>6. /\ more \in Seq(Shown) /\ more \in Seq(0..MaxCommits) /\ Len(more) = n
        /\ more[n] = job.match /\ \A m \in 1..Len(job.sources) : more[m] = job.sources[m]
    BY <2>4, <2>5
  <2>7. \A m \in 1..n : IsLast(Specs[m], more[m])
    BY <2>2, <2>3, <2>5, <2>6
  <2>8. /\ job' \in Jobs /\ job'.ref = job.ref /\ job'.head = job.head /\ job'.depth = job.depth
        /\ job'.sources = more /\ job'.candidate = job.candidate
    <3>. HIDE DEF more
    <3>1. job' = [job EXCEPT !.sources = more]
      BY <2>1, <2>5 DEF more, Jobs
    <3>. QED BY <2>5, <2>6, <3>1 DEF Jobs
  <2>. HIDE DEF more
  <2>9. Shown' = Shown /\ \A spec, i : IsLast(spec, i) <=> IsLast(spec, i)'
    BY <1>1, <2>8, SameClone DEF world
  <2>10. CandidateFound'
    BY <1>1, <2>1, <2>8 DEF IInv, CandidateFound, InCompat, Traced, Afterwards, Introduces, Defined, world
  <2>11. SourcesTraced'
    BY <2>1, <2>2, <2>5, <2>6, <2>7, <2>8, <2>9 DEF SourcesTraced, InCompat, Traced, Afterwards
  <2>12. SearchOK'
    BY <2>1, <2>2, <2>5, <2>6, <2>8, <2>9, <2>10, <2>11 DEF SearchOK, Commands, InCompat
  <2>. QED BY <1>1, <2>8, <2>12, AnsweredShape, ResolverKeeps DEF DiffOfMatch
<1>. QED BY <1>2, <1>3

LEMMA RevParseKeeps ==
  ASSUME IInv, RevParse
  PROVE  IInv'
<1>1. pc = "rev-parse" /\ pc' = "symbols" /\ job' = job /\ UNCHANGED <<world, files>>
  BY AnsweredShape DEF RevParse, Goto
<1>2. CandidateFound'
  BY <1>1, SameJobKeeps DEF IInv, CandidateFound, InCompat, Traced, Afterwards
<1>3. SourcesTraced'
  BY <1>1, SameJobKeeps DEF IInv, SourcesTraced, InCompat, Traced, Afterwards
<1>4. SearchOK'
  BY <1>1, <1>2, <1>3, SameJobKeeps DEF SearchOK, Commands, ByNetwork
<1>. QED BY <1>1, <1>4, AnsweredShape, ResolverKeeps DEF RevParse

(* A step after the compatibility sources that only counts files or takes  *)
(* the diff.                                                               *)
LEMMA LateStep ==
  ASSUME IInv, pc \in {"symbols", "file", "diff"}, pc' \in {"file", "diff", "write"}, UNCHANGED world,
         NEW left \in 0..SymbolFiles, NEW diff \in DiffsOfTwo,
         job' = [job EXCEPT !.left = left, !.diff = diff],
         pc' # "file" => Defined(job.head),
         pc' = "write" => DiffTaken'
  PROVE  SearchOK' /\ job'.ref = job.ref
<1>1. job \in Jobs /\ job.sources \in Seq(Shown) /\ Len(job.sources) <= Len(Specs)
  BY DEF IInv, TypeOK
<1>2. /\ job' \in Jobs /\ job'.ref = job.ref /\ job'.head = job.head /\ job'.depth = job.depth
      /\ job'.sources = job.sources /\ job'.candidate = job.candidate /\ job'.diff = diff
  BY <1>1 DEF Jobs, DiffsOfTwo
<1>3. Shown' = Shown /\ \A spec, i : IsLast(spec, i) <=> IsLast(spec, i)'
  BY <1>2, SameClone DEF world
<1>4. CandidateFound'
  BY <1>2 DEF IInv, CandidateFound, InCompat, Traced, Afterwards, Introduces, Defined, world
<1>5. SourcesTraced'
  BY <1>2, <1>3 DEF IInv, SourcesTraced, InCompat, Traced, Afterwards
<1>. QED BY <1>1, <1>2, <1>3, <1>4, <1>5 DEF SearchOK, Commands, ByNetwork, Reads

LEMMA SymbolHistoryKeeps ==
  ASSUME IInv, SymbolHistory
  PROVE  IInv'
<1>1. pc = "symbols" /\ UNCHANGED <<world, files>>
  BY AnsweredShape DEF SymbolHistory
<1>2. pc' = "file" /\ job' = [job EXCEPT !.left = SymbolFiles]
  BY DEF SymbolHistory, Goto
<1>3. SymbolFiles \in 0..SymbolFiles /\ job.diff \in DiffsOfTwo /\ job \in Jobs
  <2>1. SymbolFiles \in Nat
    BY ZenShape
  <2>. QED BY <2>1, JobShape DEF IInv, TypeOK
<1>4. job' = [job EXCEPT !.left = SymbolFiles, !.diff = job.diff]
  BY <1>2, <1>3 DEF Jobs
<1>5. SearchOK' /\ job'.ref = job.ref
  BY <1>1, <1>2, <1>3, <1>4, LateStep
<1>. QED BY <1>1, <1>5, AnsweredShape, ResolverKeeps DEF SymbolHistory

LEMMA ReadSymbolFileKeeps ==
  ASSUME IInv, ReadSymbolFile
  PROVE  IInv'
<1>1. pc = "file" /\ UNCHANGED <<world, files>>
  BY AnsweredShape DEF ReadSymbolFile
<1>2. /\ job.left \in 0..SymbolFiles /\ SymbolFiles \in Nat
      /\ job.diff \in DiffsOfTwo /\ job \in Jobs
  <2>1. SymbolFiles \in Nat
    BY ZenShape
  <2>. QED BY <2>1, JobShape DEF IInv, TypeOK
<1>3. CASE job.left > 1
  <2>1. pc' = "file" /\ job' = [job EXCEPT !.left = job.left - 1]
    <3>1. ~(job.left <= 1)
      BY <1>2, <1>3
    <3>. QED BY <1>3, <3>1 DEF ReadSymbolFile, Goto
  <2>2. job' = [job EXCEPT !.left = job.left - 1, !.diff = job.diff]
    BY <1>2, <2>1 DEF Jobs
  <2>3. job.left - 1 \in 0..SymbolFiles
    BY <1>2, <1>3
  <2>4. SearchOK' /\ job'.ref = job.ref
    BY <1>1, <1>2, <2>1, <2>2, <2>3, LateStep
  <2>. QED BY <1>1, <2>4, AnsweredShape, ResolverKeeps DEF ReadSymbolFile
<1>4. CASE job.left <= 1 /\ Defined(job.head)
  <2>1. pc' = "diff" /\ job' = job
    BY <1>2, <1>4 DEF ReadSymbolFile, Goto
  <2>2. job' = [job EXCEPT !.left = job.left, !.diff = job.diff]
    BY <1>2, <2>1 DEF Jobs
  <2>3. SearchOK' /\ job'.ref = job.ref
    BY <1>1, <1>2, <1>4, <2>1, <2>2, LateStep
  <2>. QED BY <1>1, <2>3, AnsweredShape, ResolverKeeps DEF ReadSymbolFile
<1>5. CASE job.left <= 1 /\ ~Defined(job.head)
  <2>1. Fail("dropped")
    <3>1. ~(job.left > 1)
      BY <1>2, <1>5
    <3>. QED BY <1>5, <3>1 DEF ReadSymbolFile, Fail
  <2>. QED BY <1>1, <2>1, FailIsSearch, AnsweredShape, ResolverKeeps DEF ReadSymbolFile
<1>. QED BY <1>2, <1>3, <1>4, <1>5

LEMMA FullDiffKeeps ==
  ASSUME IInv, FullDiff
  PROVE  IInv'
<1>1. pc = "diff" /\ UNCHANGED <<world, files>> /\ Defined(job.head) /\ Introduces(job.candidate)
  BY AnsweredShape DEF FullDiff, IInv, CandidateFound, Traced
<1>2. PICK hunks \in Diffs :
        IF FilterAccepts(Filtered(hunks)) THEN Goto("write", [job EXCEPT !.diff = Between(hunks)])
                                          ELSE Fail("filter")
  BY DEF FullDiff
<1>3. CASE FilterAccepts(Filtered(hunks))
  <2>1. /\ job.left \in 0..SymbolFiles /\ job \in Jobs /\ MaxCommits \in Nat
        /\ job.candidate \in 0..MaxCommits /\ job.candidate > 0 /\ job.head \in 0..MaxCommits
    BY <1>1, JobShape, ZenShape DEF IInv, TypeOK, Introduces
  <2>. DEFINE diff == Between(hunks)
  <2>2. /\ diff \in DiffsOfTwo /\ diff.hunks = hunks
        /\ diff.from = job.candidate - 1 /\ diff.to = job.head
    BY <2>1 DEF DiffsOfTwo, Between
  <2>. HIDE DEF diff
  <2>3. pc' = "write" /\ job' = [job EXCEPT !.left = job.left, !.diff = diff]
    BY <1>2, <1>3, <2>1 DEF Goto, Jobs, diff
  <2>4. DiffTaken'
    <3>1. job'.diff = diff /\ job'.candidate = job.candidate /\ job'.head = job.head
      BY <2>1, <2>3 DEF Jobs
    <3>. QED BY <1>3, <2>2, <3>1 DEF DiffTaken
  <2>5. SearchOK' /\ job'.ref = job.ref
    BY <1>1, <2>1, <2>2, <2>3, <2>4, LateStep
  <2>. QED BY <1>1, <2>5, AnsweredShape, ResolverKeeps DEF FullDiff
<1>4. CASE ~FilterAccepts(Filtered(hunks))
  BY <1>1, <1>2, <1>4, FailIsSearch, AnsweredShape, ResolverKeeps DEF FullDiff
<1>. QED BY <1>3, <1>4

-----------------------------------------------------------------------------
(* The commands that fail.                                                 *)

LEMMA RetryKeeps ==
  ASSUME IInv, Retry
  PROVE  IInv'
<1>1. /\ pc \in Reads /\ UNCHANGED <<world, pc, why, job, files>>
      /\ faults' = faults + 1 /\ attempt' = attempt + 1 /\ faults < MaxFaults /\ attempt < Retries
  BY DEF Retry, AttemptsLeft
<1>2. now' \in Nat /\ now' <= Total + Delay
  BY SpendBounds, ZenShape DEF Retry, IInv
<1>3. attempt' \in 1..Retries /\ faults' \in 0..MaxFaults
  BY <1>1, CountersInRange
<1>4. CandidateFound' /\ SourcesTraced'
  BY <1>1, SameJob, SameJobKeeps DEF IInv, CandidateFound, SourcesTraced, Reads, InCompat, Traced, Afterwards, world
<1>5. SearchOK'
  BY <1>1, <1>4, SameJobKeeps DEF SearchOK, Commands, ByNetwork, Reads
<1>. QED BY <1>1, <1>2, <1>3, <1>5, ResolverKeeps DEF Reads

LEMMA BrokenKeeps ==
  ASSUME IInv, Broken
  PROVE  IInv'
<1>1. UNCHANGED <<world, files>> /\ faults' = faults + 1 /\ attempt' = 1 /\ faults < MaxFaults
  BY DEF Broken
<1>2. now' \in Nat /\ now' <= Total + Delay
  BY SpendBounds, CountersInRange DEF Broken, IInv
<1>3. attempt' \in 1..Retries /\ faults' \in 0..MaxFaults
  BY <1>1, CountersInRange
<1>. QED BY <1>1, <1>2, <1>3, RaiseIsSearch, ResolverKeeps DEF Broken, InCompat

LEMMA ReadBrokenKeeps ==
  ASSUME IInv, ReadBroken
  PROVE  IInv'
<1>1. UNCHANGED <<world, files>> /\ faults' = faults + 1 /\ attempt' = 1 /\ faults < MaxFaults
  BY DEF ReadBroken
<1>2. now' \in Nat /\ now' <= Total + Delay
  BY SpendBounds, CountersInRange DEF ReadBroken, IInv
<1>3. attempt' \in 1..Retries /\ faults' \in 0..MaxFaults
  BY <1>1, CountersInRange
<1>. QED BY <1>1, <1>2, <1>3, FailIsSearch, ResolverKeeps DEF ReadBroken

LEMMA ExpiredKeeps ==
  ASSUME IInv, Expired
  PROVE  IInv'
<1>1. UNCHANGED <<world, now, faults, files>> /\ attempt' = 1
  BY DEF Expired
<1>. QED BY <1>1, CountersInRange, RaiseIsSearch, ResolverKeeps DEF Expired, InCompat

-----------------------------------------------------------------------------
(* What the filters leave of a diff.                                       *)

LEMMA FilteredShape ==
  ASSUME NEW diff \in Diffs
  PROVE  /\ DOMAIN Filtered(diff) = {n \in DOMAIN diff : OfSymbol(diff[n])}
         /\ DOMAIN Filtered(diff) \subseteq 1..Len(diff) /\ Len(diff) \in Nat
         /\ \A n \in DOMAIN Filtered(diff) : Filtered(diff)[n] = diff[n] /\ diff[n] \in Hunks
         /\ Filtered(diff) \in [DOMAIN Filtered(diff) -> Hunks]
         /\ 1..(Len(diff) + 1) \subseteq Places /\ DOMAIN Filtered(diff) \subseteq Places
<1>1. diff \in Seq(Hunks)
  BY ZenShape
<1>2. Filtered(diff) = [n \in {m \in DOMAIN diff : OfSymbol(diff[m])} |-> diff[n]]
  BY DEF Filtered, RestrictValues, Restrict
<1>3. DOMAIN diff = 1..Len(diff) /\ Len(diff) \in Nat /\ \A n \in DOMAIN diff : diff[n] \in Hunks
  BY <1>1
<1>4. 1..(Len(diff) + 1) \subseteq Places
  BY DEF Places
<1>5. DOMAIN diff \subseteq Places
  BY <1>3, <1>4
<1>. QED BY <1>2, <1>3, <1>4, <1>5

LEMMA PortedShape ==
  ASSUME NEW diff \in Diffs
  PROVE  /\ Ported(Filtered(diff)) \subseteq 1..(Len(diff) + 1)
         /\ \A n \in Ported(Filtered(diff)) : n \notin DOMAIN Filtered(diff)
         /\ \A n, m \in Ported(Filtered(diff)) : m = n
         /\ \A n \in Ported(Filtered(diff)), m \in DOMAIN Filtered(diff) : m <= n
<1>. DEFINE cut == Filtered(diff)
<1>1. DOMAIN cut \subseteq 1..Len(diff) /\ DOMAIN cut \subseteq 0..Len(diff) /\ Len(diff) \in Nat
  <2>1. DOMAIN cut \subseteq 1..Len(diff) /\ Len(diff) \in Nat
    BY FilteredShape
  <2>. HIDE DEF cut
  <2>. QED BY <2>1
<1>2. CASE MigrationNeeded(cut)
  <2>1. DOMAIN cut # {}
    BY <1>2 DEF MigrationNeeded
  <2>2. Largest(DOMAIN cut) \in DOMAIN cut /\ \A n \in DOMAIN cut : n <= Largest(DOMAIN cut)
    BY <1>1, <2>1, LargestExists
  <2>. HIDE DEF cut
  <2>3. Ported(cut) = {Largest(DOMAIN cut) + 1}
    BY <1>2 DEF Ported
  <2>4. Largest(DOMAIN cut) \in 1..Len(diff)
    BY <1>1, <2>2
  <2>5. Largest(DOMAIN cut) + 1 \notin DOMAIN cut
    BY <1>1, <2>2, <2>4
  <2>6. Largest(DOMAIN cut) + 1 \in 1..(Len(diff) + 1)
    BY <1>1, <2>4
  <2>7. /\ Ported(cut) \subseteq 1..(Len(diff) + 1) /\ \A n \in Ported(cut) : n \notin DOMAIN cut
        /\ \A n, m \in Ported(cut) : m = n
    BY <2>3, <2>5, <2>6
  <2>8. \A n \in Ported(cut), m \in DOMAIN cut : m <= n
    BY <1>1, <2>2, <2>3, <2>4
  <2>. QED BY <2>7, <2>8 DEF cut
<1>3. CASE ~MigrationNeeded(cut)
  BY <1>3 DEF Ported
<1>. QED BY <1>2, <1>3

LEMMA AdaptedShape ==
  ASSUME NEW diff \in Diffs
  PROVE  LET cut == Filtered(diff)
             adapted == Adapted(cut)
         IN  /\ DOMAIN adapted = {n \in DOMAIN cut : Ours(cut[n])} \cup Ported(cut)
             /\ \A n \in DOMAIN adapted :
                  IF n \in DOMAIN cut THEN adapted[n] = cut[n] /\ Ours(cut[n])
                                      ELSE n \in Ported(cut) /\ adapted[n] = MigrationSection
             /\ adapted \in [DOMAIN adapted -> Hunks] /\ DOMAIN adapted \subseteq Places
<1>. DEFINE cut == Filtered(diff)
            adapted == Adapted(cut)
<1>1. /\ DOMAIN cut \subseteq 1..Len(diff) /\ Len(diff) \in Nat /\ 1..(Len(diff) + 1) \subseteq Places
      /\ \A n \in DOMAIN cut : cut[n] \in Hunks
  BY FilteredShape
<1>2. Ported(cut) \subseteq 1..(Len(diff) + 1) /\ \A n \in Ported(cut) : n \notin DOMAIN cut
  BY PortedShape
<1>3. MigrationSection \in Hunks
  BY DEF MigrationSection, Hunks
<1>. HIDE DEF cut
<1>4. adapted = [n \in {m \in DOMAIN cut : Ours(cut[m])} \cup Ported(cut) |->
                   IF n \in DOMAIN cut THEN cut[n] ELSE MigrationSection]
  BY DEF Adapted
<1>. HIDE DEF adapted
<1>5. DOMAIN adapted = {n \in DOMAIN cut : Ours(cut[n])} \cup Ported(cut)
  BY <1>4
<1>6. \A n \in DOMAIN adapted :
        IF n \in DOMAIN cut THEN adapted[n] = cut[n] /\ Ours(cut[n])
                            ELSE n \in Ported(cut) /\ adapted[n] = MigrationSection
  BY <1>2, <1>4
<1>7. \A n \in DOMAIN adapted : adapted[n] \in Hunks
  BY <1>1, <1>3, <1>6
<1>8. adapted \in [DOMAIN adapted -> Hunks]
  BY <1>4, <1>7
<1>9. DOMAIN adapted \subseteq Places
  BY <1>1, <1>2, <1>5
<1>. QED BY <1>5, <1>6, <1>8, <1>9 DEF cut, adapted

LEMMA PatchShape ==
  ASSUME IInv, NEW hunks, hunks \in [DOMAIN hunks -> Hunks], DOMAIN hunks \subseteq Places
  PROVE  IsPatch(Patch(hunks)) /\ Patch(hunks) # Nothing
<1>1. /\ job.sources \in Seq(0..MaxCommits)
      /\ job.diff.from \in 0..MaxCommits /\ job.diff.to \in 0..MaxCommits
  BY JobShape DEF IInv, DiffsOfTwo
<1>2. Patch(hunks) \in PatchesAt(DOMAIN hunks) /\ Patch(hunks).hunks = hunks
  BY <1>1 DEF Patch, PatchesAt
<1>. QED BY <1>2, ZenShape DEF IsPatch

-----------------------------------------------------------------------------
(* Steps after the search change the files only.                           *)

LEMMA PolicyKeeps ==
  ASSUME IInv, NEW at \in Afterwards, Step(at), pc' \in Afterwards \cup {"applied", "failed"},
         FilesOK', PatchCut', ShallowIsExact'
  PROVE  IInv'
<1>1. pc = at /\ UNCHANGED <<world, now, attempt, faults, job>>
  BY DEF Step
<1>2. TypeOK'
  BY <1>1, SameJobKeeps DEF IInv, TypeOK, Afterwards, Ended, world
<1>3. InTime'
  BY <1>1 DEF IInv, InTime
<1>4. RefChosen'
  BY <1>1 DEF IInv, RefChosen, Afterwards, Ended, world
<1>5. CandidateFound'
  BY <1>1, SameJobKeeps DEF IInv, CandidateFound, Afterwards, Traced, InCompat
<1>6. SourcesTraced'
  BY <1>1, SameJobKeeps DEF IInv, SourcesTraced, Afterwards, Traced, InCompat
<1>. QED BY <1>2, <1>3, <1>4, <1>5, <1>6 DEF IInv

LEMMA SameLock ==
  ASSUME IInv, UNCHANGED <<world, job>>, lock' = lock
  PROVE  ShallowIsExact'
BY DEF IInv, ShallowIsExact, Introduces, Defined, world

LEMMA WriteOutputKeeps ==
  ASSUME IInv, WriteOutput
  PROVE  IInv'
<1>. DEFINE cut == Filtered(job.diff.hunks)
<1>1. /\ pc = "write" /\ pc' = "record" /\ UNCHANGED <<world, now, attempt, faults, job, why, lock, applied>>
      /\ output' = Patch(cut)
  BY DEF WriteOutput, Step
<1>2. DiffTaken
  BY <1>1 DEF IInv, PatchCut, Afterwards
<1>3. IsPatch(Patch(cut))
  BY <1>2, FilteredShape, PatchShape DEF DiffTaken
<1>4. FilesOK'
  <2>1. IsPatch(output')
    BY <1>1, <1>3
  <2>2. IsPatch(output)'
    BY <2>1 DEF IsPatch, PatchesAt
  <2>. QED BY <1>1, <2>2 DEF IInv, TypeOK, FilesOK, IsPatch, PatchesAt, IsLock, LocksAt
<1>5. PatchCut'
  BY <1>1, <1>2 DEF PatchCut, DiffTaken, Recorded, Afterwards, Patch
<1>6. ShallowIsExact'
  BY <1>1, SameLock
<1>. QED BY <1>1, <1>4, <1>5, <1>6, PolicyKeeps DEF WriteOutput, Afterwards

LEMMA UpdateLockKeeps ==
  ASSUME IInv, UpdateLock
  PROVE  IInv'
<1>1. /\ pc = "record" /\ pc' = "adapt"
      /\ UNCHANGED <<world, now, attempt, faults, job, why, output, applied>>
      /\ lock' = [ref |-> job.ref, commit |-> job.head, introduction |-> job.candidate,
                  sources |-> job.sources, sha256 |-> output]
  BY DEF UpdateLock, Step
<1>2. DiffTaken /\ output = Patch(Filtered(job.diff.hunks))
  BY <1>1 DEF IInv, PatchCut, Afterwards
<1>3. IsPatch(output)
  BY <1>2, FilteredShape, PatchShape DEF DiffTaken
<1>4. IsLock(lock') /\ lock' # Nothing
  <2>. DEFINE places == DOMAIN output.hunks
  <2>1. places \in SUBSET Places /\ output \in PatchesAt(places)
    BY <1>3 DEF IsPatch
  <2>2. job.ref \in Series
    BY <1>1 DEF IInv, RefChosen
  <2>3. /\ job.head \in 0..MaxCommits /\ job.candidate \in 0..MaxCommits
        /\ job.sources \in Seq(0..MaxCommits)
    BY JobShape DEF IInv
  <2>. HIDE DEF places
  <2>4. lock' \in LocksAt(places) /\ lock'.sha256 = output
    BY <1>1, <2>1, <2>2, <2>3 DEF LocksAt
  <2>5. lock' # Nothing
    BY <2>1, <2>4, ZenShape
  <2>. QED BY <2>1, <2>4, <2>5 DEF IsLock, places
<1>5. FilesOK'
  BY <1>1, <1>4 DEF IInv, TypeOK, FilesOK, IsPatch, IsLock
<1>6. PatchCut'
  BY <1>1, <1>2, <1>4 DEF PatchCut, DiffTaken, Recorded, Afterwards, Patch
<1>7. ShallowIsExact'
  <2>1. /\ job.ref <= Target
        /\ \A s \in Series : asked[s] > 0 /\ s <= Target => s <= job.ref
    BY <1>1 DEF IInv, RefChosen
  <2>2. Introduces(job.candidate) /\ Defined(job.head)
    BY <1>1 DEF IInv, CandidateFound, Traced, Afterwards
  <2>3. Len(job.sources) = Len(Specs) /\ \A n \in 1..Len(job.sources) : IsLast(Specs[n], job.sources[n])
    BY <1>1 DEF IInv, SourcesTraced, Traced, Afterwards
  <2>4. DOMAIN Specs = 1..Len(Specs)
    BY ZenShape
  <2>. QED BY <1>1, <2>1, <2>2, <2>3, <2>4 DEF ShallowIsExact, Introduces, Defined, IsLast, world
<1>. QED BY <1>1, <1>5, <1>6, <1>7, PolicyKeeps DEF UpdateLock, Afterwards

LEMMA PreparePatchKeeps ==
  ASSUME IInv, PreparePatch
  PROVE  IInv'
<1>. DEFINE cut == Filtered(job.diff.hunks)
            adapted == Adapted(cut)
<1>1. pc = "adapt" /\ UNCHANGED <<world, now, attempt, faults, job, lock, applied>>
  BY DEF PreparePatch, Step
<1>2. /\ DiffTaken /\ output = Patch(cut) /\ output.hunks = cut
      /\ Recorded
  BY <1>1 DEF IInv, PatchCut, DiffTaken, Recorded, Afterwards, Patch
<1>3. CASE PortAccepts(cut, adapted)
  <2>1. pc' = "policy" /\ output' = Patch(adapted)
    BY <1>2, <1>3 DEF PreparePatch
  <2>2. adapted \in [DOMAIN adapted -> Hunks] /\ DOMAIN adapted \subseteq Places
    BY <1>2, AdaptedShape DEF DiffTaken
  <2>. HIDE DEF adapted
  <2>3. IsPatch(output')
    BY <2>1, <2>2, PatchShape
  <2>4. FilesOK'
    BY <1>1, <2>3 DEF IInv, TypeOK, FilesOK, IsPatch, PatchesAt, IsLock, LocksAt
  <2>5. PatchCut'
    BY <1>1, <1>2, <1>3, <2>1 DEF PatchCut, DiffTaken, Recorded, Afterwards, Patch, adapted
  <2>6. ShallowIsExact'
    BY <1>1, SameLock
  <2>. QED BY <1>1, <2>1, <2>4, <2>5, <2>6, PolicyKeeps DEF PreparePatch, Afterwards
<1>4. CASE ~PortAccepts(cut, adapted)
  <2>1. pc' = "failed" /\ output' = output
    BY <1>2, <1>4 DEF PreparePatch
  <2>2. FilesOK' /\ PatchCut' /\ ShallowIsExact'
    BY <1>1, <2>1, SameLock DEF IInv, TypeOK, FilesOK, IsPatch, IsLock, PatchCut, DiffTaken, Recorded, Afterwards
  <2>. QED BY <1>1, <2>1, <2>2, PolicyKeeps DEF PreparePatch, Afterwards
<1>. QED BY <1>3, <1>4

LEMMA LockPolicyKeeps ==
  ASSUME IInv, LockPolicy
  PROVE  IInv'
<1>1. /\ pc = "policy" /\ pc' = "apply"
      /\ UNCHANGED <<world, now, attempt, faults, job, why, output, applied>>
      /\ lock' = [lock EXCEPT !.sha256 = output]
  BY DEF LockPolicy, Step, WithPolicy
<1>2. /\ DiffTaken
      /\ output = Patch(Adapted(Filtered(job.diff.hunks)))
      /\ PortAccepts(Filtered(job.diff.hunks), Adapted(Filtered(job.diff.hunks)))
      /\ Recorded
  BY <1>1 DEF IInv, PatchCut, Afterwards
<1>3. IsPatch(output)
  BY <1>2, AdaptedShape, PatchShape DEF DiffTaken
<1>. DEFINE old == DOMAIN lock.sha256.hunks
            new == DOMAIN output.hunks
<1>4. lock \in LocksAt(old) /\ new \in SUBSET Places /\ output \in PatchesAt(new)
  BY <1>2, <1>3 DEF IInv, TypeOK, FilesOK, IsPatch, IsLock, Recorded
<1>. HIDE DEF old, new
<1>5. /\ lock' \in LocksAt(new) /\ lock'.sha256 = output /\ lock'.sources = lock.sources
      /\ lock'.ref = lock.ref /\ lock'.commit = lock.commit /\ lock'.introduction = lock.introduction
  BY <1>1, <1>4 DEF LocksAt
<1>6. lock' # Nothing
  BY <1>4, <1>5, ZenShape
<1>7. IsLock(lock')
  BY <1>4, <1>5 DEF IsLock, new
<1>8. FilesOK'
  BY <1>1, <1>7 DEF IInv, TypeOK, FilesOK, IsPatch, IsLock
<1>9. PatchCut'
  BY <1>1, <1>2, <1>5, <1>6 DEF PatchCut, DiffTaken, Recorded, Afterwards, Patch
<1>10. ShallowIsExact'
  BY <1>1, <1>2, <1>5 DEF IInv, Recorded, ShallowIsExact, Introduces, Defined, world
<1>. QED BY <1>1, <1>8, <1>9, <1>10, PolicyKeeps DEF LockPolicy, Afterwards

LEMMA ApplyProfileKeeps ==
  ASSUME IInv, ApplyProfile
  PROVE  IInv'
<1>1. pc = "apply" /\ UNCHANGED <<world, now, attempt, faults, job, output, lock>>
  BY DEF ApplyProfile, Step
<1>2. \/ ~Any(output.hunks, "thp") /\ pc' = "applied" /\ applied' = output
      \/ pc' = "failed" /\ applied' = applied
  BY DEF ApplyProfile
<1>3. FilesOK'
  BY <1>1, <1>2 DEF IInv, TypeOK, FilesOK, IsPatch, IsLock
<1>4. PatchCut'
  BY <1>1, <1>2 DEF IInv, PatchCut, DiffTaken, Recorded, Afterwards, Patch, Any
<1>5. ShallowIsExact'
  BY <1>1, SameLock
<1>. QED BY <1>1, <1>2, <1>3, <1>4, <1>5, PolicyKeeps DEF ApplyProfile, Afterwards

-----------------------------------------------------------------------------
(* The world, the start and the end of a run.                              *)

LEMMA IdleIsJob ==
  /\ Idle \in Jobs /\ Idle.sources = <<>>
  /\ Len(<<>>) <= Len(Specs) /\ \A S : <<>> \in Seq(S)
  /\ 0 \in Nat /\ 0 <= Total + Delay /\ 1 \in 1..Retries /\ 0 \in 0..MaxFaults
<1>1. /\ FirstDepth \in Nat /\ MaxDepth \in Nat /\ FirstDepth <= MaxDepth /\ MaxCommits \in Nat
      /\ SymbolFiles \in Nat /\ Total \in Nat /\ Delay \in Nat /\ MaxFaults \in Nat
      /\ Retries \in Nat \ {0}
  <2>1. FirstDepth \in FirstDepth..MaxDepth
    BY ZenDepths
  <2>. QED BY <2>1, ZenShape
<1>2. \A S : <<>> \in Seq(S)
  OBVIOUS
<1>3. Len(<<>>) <= Len(Specs)
  BY ZenShape
<1>4. Idle \in Jobs
  BY <1>1, <1>2 DEF Idle, Jobs
<1>. QED BY <1>1, <1>2, <1>3, <1>4 DEF Idle

LEMMA InitHolds ==
  ASSUME Init
  PROVE  IInv
<1>1. heads \in [Series -> 0..MaxCommits] /\ asked = heads
  <2>1. 0 \in 0..MaxCommits /\ MaxCommits - 1 \in 0..MaxCommits
    BY ZenShape
  <2>. QED BY <2>1 DEF Init
<1>2. TypeOK
  BY <1>1, IdleIsJob DEF Init, TypeOK, FilesOK, Ended
<1>3. RefChosen
  <2>1. \A s \in Series : heads[s] \in Nat
    BY <1>1, ZenShape
  <2>. QED BY <1>1, <2>1 DEF Init, RefChosen
<1>4. CandidateFound /\ SourcesTraced /\ PatchCut
  BY DEF Init, CandidateFound, SourcesTraced, PatchCut, InCompat, Traced, Afterwards
<1>. QED BY <1>2, <1>3, <1>4, IdleIsJob DEF IInv, Init, InTime, ShallowIsExact

LEMMA PushKeeps ==
  ASSUME IInv, NEW s \in Series, Push(s)
  PROVE  IInv'
<1>1. /\ heads' = [heads EXCEPT ![s] = IF @ = 0 THEN MaxCommits ELSE @ + 1] /\ heads[s] < MaxCommits
      /\ UNCHANGED <<history, asked, pc, why, now, attempt, faults, job, files>>
  BY DEF Push
<1>2. heads \in [Series -> 0..MaxCommits] /\ asked \in [Series -> 0..MaxCommits] /\ MaxCommits \in Nat
  BY ZenShape DEF IInv, TypeOK
<1>3. heads' \in [Series -> 0..MaxCommits] /\ \A r \in Series : heads[r] <= heads'[r]
  BY <1>1, <1>2
<1>4. TypeOK'
  BY <1>1, <1>3 DEF IInv, TypeOK, FilesOK, IsPatch, IsLock, Shown, files
<1>5. RefChosen'
  <2>1. \A r \in Series : asked[r] \in Nat /\ heads[r] \in Nat /\ heads'[r] \in Nat /\ asked[r] <= heads[r]
    BY <1>2, <1>3 DEF IInv, RefChosen
  <2>2. \A r \in Series : asked[r] <= heads'[r]
    BY <1>3, <2>1
  <2>. QED BY <1>1, <2>2 DEF IInv, RefChosen
<1>6. CandidateFound'
  BY <1>1 DEF IInv, CandidateFound, Introduces, Defined
<1>7. SourcesTraced'
  BY <1>1, SameClone DEF IInv, SourcesTraced, IsRoot
<1>8. PatchCut' /\ ShallowIsExact' /\ InTime'
  BY <1>1 DEF IInv, PatchCut, DiffTaken, Recorded, Patch, Any, ShallowIsExact, Introduces, Defined, InTime, files
<1>. QED BY <1>4, <1>5, <1>6, <1>7, <1>8 DEF IInv

LEMMA BeginKeeps ==
  ASSUME IInv, Begin
  PROVE  IInv'
<1>1. /\ pc' = "ls-remote" /\ now' = 0 /\ attempt' = 1 /\ job' = Idle /\ asked' = heads
      /\ output' = Nothing /\ lock' = Nothing /\ applied' = Nothing
      /\ UNCHANGED <<history, heads, faults>>
  BY DEF Begin
<1>2. TypeOK'
  BY <1>1, IdleIsJob DEF IInv, TypeOK, FilesOK, Commands, ByNetwork
<1>3. RefChosen'
  <2>1. \A s \in Series : heads[s] \in Nat
    BY ZenShape DEF IInv, TypeOK
  <2>. QED BY <1>1, <2>1 DEF RefChosen
<1>4. CandidateFound' /\ SourcesTraced' /\ PatchCut' /\ ShallowIsExact'
  BY <1>1 DEF CandidateFound, SourcesTraced, PatchCut, InCompat, Traced, Afterwards, ShallowIsExact
<1>. QED BY <1>1, <1>2, <1>3, <1>4, IdleIsJob DEF IInv, InTime

LEMMA StopKeeps ==
  ASSUME IInv, Stop
  PROVE  IInv'
<1>1. /\ pc' = "idle" /\ now' = 0 /\ attempt' = 1 /\ job' = Idle
      /\ UNCHANGED <<world, why, faults, files>>
  BY DEF Stop
<1>2. TypeOK'
  BY <1>1, IdleIsJob DEF IInv, TypeOK, FilesOK, IsPatch, IsLock, Ended, world, files
<1>3. RefChosen'
  BY <1>1 DEF IInv, RefChosen, world
<1>4. CandidateFound' /\ SourcesTraced' /\ PatchCut'
  BY <1>1 DEF CandidateFound, SourcesTraced, PatchCut, InCompat, Traced, Afterwards
<1>5. ShallowIsExact'
  BY <1>1 DEF IInv, ShallowIsExact, Introduces, Defined, world, files
<1>. QED BY <1>1, <1>2, <1>3, <1>4, <1>5, IdleIsJob DEF IInv, InTime

LEMMA StutterKeeps ==
  ASSUME IInv, UNCHANGED vars
  PROVE  IInv'
<1>1. UNCHANGED <<history, heads, asked, pc, why, now, attempt, faults, job, output, lock, applied>>
  BY DEF vars, world, files
<1>2. TypeOK' /\ InTime' /\ RefChosen' /\ PatchCut' /\ ShallowIsExact'
  BY <1>1 DEF IInv, TypeOK, FilesOK, IsPatch, IsLock, Shown, InTime, RefChosen, PatchCut, DiffTaken, Recorded, Patch, Any,
    ShallowIsExact, Introduces, Defined
<1>3. CandidateFound' /\ SourcesTraced'
  BY <1>1, SameClone DEF IInv, CandidateFound, Introduces, Defined, SourcesTraced, IsRoot
<1>. QED BY <1>2, <1>3 DEF IInv

(* The invariant is inductive: no answer, failure, timeout, push or stop   *)
(* breaks it.                                                              *)
LEMMA InductiveStep == IInv /\ [Next]_vars => IInv'
<1>. SUFFICES ASSUME IInv, [Next]_vars PROVE IInv'
  OBVIOUS
<1>1. CASE Resolver
  BY <1>1, LsRemoteKeeps, InitCheckoutKeeps, FetchDepthKeeps, GrepSubjectKeeps, PickaxeKeeps,
    CheckKeeps, LogPatternKeeps, ParentOfKeeps, DiffOfMatchKeeps, RevParseKeeps, SymbolHistoryKeeps,
    ReadSymbolFileKeeps, FullDiffKeeps, RetryKeeps, BrokenKeeps, ReadBrokenKeeps, ExpiredKeeps
    DEF Resolver
<1>2. CASE Policy
  BY <1>2, WriteOutputKeeps, UpdateLockKeeps, PreparePatchKeeps, LockPolicyKeeps, ApplyProfileKeeps
    DEF Policy
<1>3. CASE \E s \in Series : Push(s)
  BY <1>3, PushKeeps
<1>4. CASE Begin \/ Stop \/ UNCHANGED vars
  BY <1>4, BeginKeeps, StopKeeps, StutterKeeps
<1>. QED BY <1>1, <1>2, <1>3, <1>4 DEF Next

(* What the resolver knows at each command is so.                          *)
THEOREM Invariance == Spec => []IInv
<1>1. Init => IInv
  BY InitHolds
<1>. QED BY <1>1, InductiveStep, PTL DEF Spec

-----------------------------------------------------------------------------
(* When the resolver gives up.                                             *)

(* The depths it fetches: doubled, they meet the last one.                 *)
Doubles(depths) ==
  /\ FirstDepth \in depths
  /\ \A d \in depths : IF 2 * d <= MaxDepth THEN 2 * d \in depths ELSE d = MaxDepth

Depths == CHOOSE depths \in SUBSET (FirstDepth..MaxDepth) : Doubles(depths)

(* INTRODUCTION_SUBJECT is the introduction's own: the first commit that   *)
(* introduces the symbol is the first with the subject, or none has it.    *)
SubjectIsFirst ==
  \A i \in 1..MaxCommits :
    Introduces(i) /\ (\A j \in 1..(i - 1) : ~Introduces(j)) =>
      \/ history[i].titled /\ \A j \in 0..(i - 1) : ~history[j].titled
      \/ \A j \in 0..MaxCommits : ~history[j].titled

Searching == {"current", "parent", "previous"}

SearchInv ==
  /\ job.depth \in Depths
  /\ pc = "pickaxe" => Titled = {}
  /\ pc \in Searching =>
       \/ Titled # {} /\ job.candidate = Least(Titled)
       \/ Titled = {} /\ Pickaxe # {} /\ job.candidate = Least(Pickaxe)

GInv == IInv /\ SubjectIsFirst /\ SearchInv /\ GivesUpLast

LEMMA DepthsDouble == Doubles(Depths)
BY ZenDepths DEF Depths, Doubles

(* Before the first introduction nothing defines the symbol.               *)
LEMMA NotBefore ==
  ASSUME NEW first \in Nat, \A j \in 1..(first - 1) : ~Introduces(j)
  PROVE  \A i \in 0..(first - 1) : ~Defined(i)
<1>. DEFINE S == {k \in 0..(first - 1) : Defined(k)}
<1>. SUFFICES ASSUME S # {} PROVE FALSE
  OBVIOUS
<1>1. Least(S) \in S /\ \A x \in S : Least(S) <= x
  BY LeastExists
<1>. DEFINE m == Least(S)
<1>. HIDE DEF m
<1>2. m \in 0..(first - 1) /\ Defined(m)
  BY <1>1 DEF m
<1>3. m # 0
  BY <1>2, DefinedIsLater
<1>4. m - 1 \in 0..(first - 1) /\ m \in 1..(first - 1)
  BY <1>2, <1>3
<1>5. ~Defined(m - 1)
  BY <1>1, <1>4 DEF m
<1>6. Introduces(m)
  BY <1>2, <1>3, <1>4, <1>5 DEF Introduces
<1>. QED BY <1>4, <1>6

(* A clone that shows the first introduction and its parent makes the      *)
(* resolver look at that commit.                                           *)
LEMMA FirstIsFound ==
  ASSUME TypeOK, SubjectIsFirst, NEW first \in 1..job.head,
         Introduces(first), \A j \in 1..(first - 1) : ~Introduces(j), first - 1 \in Shown
  PROVE  /\ Titled # {} => Least(Titled) = first
         /\ Titled = {} => Pickaxe # {} /\ Least(Pickaxe) = first
<1>1. /\ job.head \in 0..MaxCommits /\ MaxCommits \in Nat /\ first \in 1..MaxCommits
      /\ job.head \in Nat /\ job.depth \in Nat
  <2>1. MaxCommits \in Nat
    BY ZenShape
  <2>. QED BY <2>1, JobShape
<1>2. Shown \subseteq 0..job.head
  BY ShownIsHistory
<1>3. first \in Shown
  BY <1>1 DEF Shown, Window
<1>4. ASSUME Titled # {} PROVE Least(Titled) = first
  <2>1. history[first].titled /\ \A j \in 0..(first - 1) : ~history[j].titled
    <3>1. PICK i \in Titled : TRUE
      BY <1>4
    <3>2. i \in 0..MaxCommits /\ history[i].titled
      BY <1>1, <1>2, <3>1 DEF Titled
    <3>. QED BY <1>1, <3>2 DEF SubjectIsFirst
  <2>2. first \in Titled
    BY <1>3, <2>1 DEF Titled
  <2>3. Titled \subseteq Nat /\ \A i \in Titled : i \notin 0..(first - 1)
    <3>1. Titled \subseteq Shown /\ \A i \in Titled : history[i].titled
      BY DEF Titled
    <3>. QED BY <1>2, <2>1, <3>1
  <2>4. Least(Titled) \in Titled /\ \A i \in Titled : Least(Titled) <= i
    BY <1>4, <2>3, LeastExists
  <2>. DEFINE least == Least(Titled)
  <2>5. least \in Nat /\ least <= first /\ least \notin 0..(first - 1)
    BY <2>2, <2>3, <2>4
  <2>. HIDE DEF least
  <2>6. least = first
    BY <1>1, <2>5
  <2>. QED BY <2>6 DEF least
<1>5. Defined(first) /\ ~Defined(first - 1)
  BY DEF Introduces
<1>6. first \in Pickaxe
  BY <1>3, <1>5 DEF Pickaxe, IsRoot
<1>7. \A i \in Pickaxe : i \notin 0..(first - 1)
  <2>1. \A i \in 0..(first - 1) : ~Defined(i)
    BY <1>1, NotBefore
  <2>2. ASSUME NEW i \in Pickaxe, i \in 0..(first - 1) PROVE FALSE
    <3>1. ~Defined(i)
      BY <2>1, <2>2
    <3>2. ~IsRoot(i) /\ Defined(i - 1)
      <4>1. Defined(i) \in BOOLEAN /\ Defined(i - 1) \in BOOLEAN
        BY DEF Defined
      <4>2. IF IsRoot(i) THEN Defined(i) ELSE Defined(i) # Defined(i - 1)
        BY DEF Pickaxe
      <4>. QED BY <3>1, <4>1, <4>2
    <3>3. i - 1 \in 0..(first - 1)
      BY <1>1, <1>2, <2>2, <3>2 DEF IsRoot
    <3>. QED BY <2>1, <3>2, <3>3
  <2>. QED BY <2>2
<1>8. Pickaxe \subseteq Nat
  <2>1. Pickaxe \subseteq Shown
    BY DEF Pickaxe
  <2>. QED BY <1>2, <2>1
<1>9. Least(Pickaxe) \in Pickaxe /\ \A i \in Pickaxe : Least(Pickaxe) <= i
  BY <1>6, <1>8, LeastExists
<1>. DEFINE least == Least(Pickaxe)
<1>10. least \in Nat /\ least <= first /\ least \notin 0..(first - 1)
  BY <1>6, <1>7, <1>8, <1>9
<1>. HIDE DEF least
<1>11. least = first
  BY <1>1, <1>10
<1>. QED BY <1>4, <1>6, <1>11 DEF least

(* The three ways to give up on a history, each at the last depth.         *)
OutOfReach ==
  LET introductions == {i \in 1..job.head : Introduces(i)}
  IN  introductions = {} \/ Least(introductions) - 1 \notin Window(job.head, MaxDepth)

ChangesOf(spec) == {i \in 1..job.head : spec \in history[i].changes}

NotTraced(spec) ==
  \/ ChangesOf(spec) = {}
  \/ Largest(ChangesOf(spec)) - 1 \notin Window(job.head, MaxDepth)
  \/ ~history[Largest(ChangesOf(spec))].marked

LEMMA DeepestIsLast ==
  ASSUME TypeOK, SearchInv
  PROVE  /\ Doubled <= MaxDepth => 2 * job.depth \in Depths
         /\ ~(Doubled <= MaxDepth) => job.depth = MaxDepth
         /\ job.depth \in Nat /\ MaxDepth \in Nat /\ job.depth <= MaxDepth
<1>1. MaxDepth \in Nat /\ FirstDepth \in Nat
  BY ZenShape
<1>. QED BY <1>1, JobShape, DepthsDouble DEF Doubles, SearchInv, Doubled

LEMMA NoIntroduction ==
  ASSUME IInv, SubjectIsFirst, SearchInv, pc \in Searching \cup {"pickaxe"},
         ~(Doubled <= MaxDepth),
         pc = "pickaxe" => Pickaxe = {},
         pc = "current" => ~Defined(job.candidate),
         pc = "parent" => IsRoot(job.candidate),
         pc = "previous" => Defined(job.candidate - 1)
  PROVE  OutOfReach
<1>. DEFINE introductions == {i \in 1..job.head : Introduces(i)}
            first == Least(introductions)
<1>. SUFFICES ASSUME introductions # {}, first - 1 \in Window(job.head, MaxDepth) PROVE FALSE
  BY DEF OutOfReach
<1>1. introductions \subseteq Nat
  OBVIOUS
<1>2. first \in introductions /\ \A i \in introductions : first <= i
  BY <1>1, LeastExists
<1>. HIDE DEF first
<1>3. first \in 1..job.head /\ Introduces(first) /\ job.head \in Nat
  BY <1>2, JobShape DEF IInv
<1>4. \A j \in 1..(first - 1) : ~Introduces(j)
  BY <1>2, <1>3
<1>5. first - 1 \in Shown
  BY DeepestIsLast DEF Shown, IInv
<1>6. /\ Titled # {} => Least(Titled) = first
      /\ Titled = {} => Pickaxe # {} /\ Least(Pickaxe) = first
  BY <1>3, <1>4, <1>5, FirstIsFound DEF IInv
<1>7. pc # "pickaxe"
  BY <1>6 DEF SearchInv
<1>8. job.candidate = first
  BY <1>6, <1>7 DEF SearchInv
<1>. QED BY <1>3, <1>5, <1>7, <1>8 DEF Searching, Introduces, IsRoot

LEMMA NoCompatibility ==
  ASSUME IInv, SearchInv, pc \in InCompat, ~(job.depth < MaxDepth),
         pc = "log" => Matches(CompatSpec) = {},
         pc = "parent-of" => IsRoot(job.match),
         pc = "compat" => ~history[job.match].marked
  PROVE  CompatSpec \in SpecNames /\ NotTraced(CompatSpec)
<1>. DEFINE spec == CompatSpec
            last == Largest(ChangesOf(spec))
<1>1. spec \in SpecNames
  <2>1. Len(job.sources) < Len(Specs) /\ Len(job.sources) \in Nat /\ Len(Specs) \in Nat
    <3>1. Len(Specs) \in Nat
      BY ZenShape
    <3>. QED BY <3>1, JobShape DEF IInv, SourcesTraced
  <2>2. Len(job.sources) + 1 \in DOMAIN Specs
    <3>1. DOMAIN Specs = 1..Len(Specs)
      BY ZenShape
    <3>. QED BY <2>1, <3>1
  <2>. QED BY <2>2 DEF CompatSpec, SpecNames
<1>. HIDE DEF spec
<1>. SUFFICES ASSUME ChangesOf(spec) # {}, last - 1 \in Window(job.head, MaxDepth), history[last].marked
              PROVE  FALSE
  BY <1>1 DEF NotTraced, spec
<1>2. job.head \in Nat /\ job.depth \in Nat /\ job.depth = MaxDepth
  BY JobShape, DeepestIsLast DEF IInv
<1>3. last \in ChangesOf(spec) /\ \A i \in ChangesOf(spec) : i <= last
  <2>1. ChangesOf(spec) \subseteq 0..job.head
    BY <1>2 DEF ChangesOf
  <2>. QED BY <1>2, <2>1, LargestExists
<1>. HIDE DEF last
<1>4. last \in 1..job.head /\ spec \in history[last].changes
  BY <1>3 DEF ChangesOf
<1>5. last - 1 \in Shown /\ last \in Shown
  BY <1>2, <1>4 DEF Shown, Window
<1>6. last \in Matches(spec)
  BY <1>4, <1>5 DEF Matches
<1>7. ASSUME NEW i \in Matches(spec), i > last PROVE FALSE
  <2>1. i \in Shown /\ i \in 0..job.head
    BY ShownIsHistory DEF Matches, IInv
  <2>2. i \notin ChangesOf(spec)
    BY <1>3, <1>4, <1>7, <2>1
  <2>3. spec \notin history[i].changes
    BY <1>2, <1>4, <1>7, <2>1, <2>2 DEF ChangesOf
  <2>4. IsRoot(i)
    BY <2>3 DEF Matches
  <2>5. i - 1 \in Shown
    BY <1>2, <1>4, <1>5, <1>7, <2>1 DEF Shown, Window
  <2>. QED BY <2>4, <2>5 DEF IsRoot
<1>8. Matches(spec) # {} /\ Largest(Matches(spec)) = last
  <2>1. Largest(Matches(spec)) \in Matches(spec) /\ last <= Largest(Matches(spec))
    BY <1>6, MatchesShown DEF IInv
  <2>2. Largest(Matches(spec)) \in Nat
    BY <1>2, <2>1, ShownIsHistory DEF Matches, IInv
  <2>. QED BY <1>4, <1>6, <1>7, <2>1, <2>2
<1>9. pc # "log" /\ (pc \in {"parent-of", "compat"} => job.match = last)
  BY <1>8 DEF IInv, SourcesTraced, spec
<1>. QED BY <1>5, <1>9 DEF InCompat, IsRoot

LEMMA GivesUpWhen ==
  GivesUpLast <=>
    (pc = "failed" =>
       /\ why = "series" => \A s \in Series : asked[s] > 0 => s > Target
       /\ why = "introduction" => OutOfReach
       /\ why = "compatibility" => \E spec \in SpecNames : NotTraced(spec))
BY DEF GivesUpLast, OutOfReach, NotTraced, ChangesOf

LEMMA SameHistory ==
  ASSUME UNCHANGED history, job'.head = job.head
  PROVE  /\ OutOfReach' <=> OutOfReach
         /\ \A spec : NotTraced(spec)' <=> NotTraced(spec)
         /\ job'.depth = job.depth => Titled' = Titled /\ Pickaxe' = Pickaxe
         /\ SubjectIsFirst' <=> SubjectIsFirst
<1>1. OutOfReach' <=> OutOfReach
  BY DEF OutOfReach, Introduces, Defined
<1>2. \A spec : NotTraced(spec)' <=> NotTraced(spec)
  BY DEF NotTraced, ChangesOf
<1>3. ASSUME job'.depth = job.depth PROVE Titled' = Titled /\ Pickaxe' = Pickaxe
  <2>1. Shown' = Shown
    BY <1>3 DEF Shown
  <2>2. Titled' = Titled
    BY <2>1 DEF Titled
  <2>3. Pickaxe' = Pickaxe
    BY <2>1 DEF Pickaxe, IsRoot, Defined
  <2>. QED BY <2>2, <2>3
<1>4. SubjectIsFirst' <=> SubjectIsFirst
  BY DEF SubjectIsFirst, Introduces, Defined
<1>. QED BY <1>1, <1>2, <1>3, <1>4

LEMMA GivesUpWhenNext ==
  GivesUpLast' <=>
    (pc' = "failed" =>
       /\ why' = "series" => \A s \in Series : asked'[s] > 0 => s > Target
       /\ why' = "introduction" => OutOfReach'
       /\ why' = "compatibility" => \E spec \in SpecNames : NotTraced(spec)')
BY DEF GivesUpLast, OutOfReach, NotTraced, ChangesOf

LEMMA DeepenGivesUp ==
  ASSUME IInv, SubjectIsFirst, SearchInv, UNCHANGED history, pc \in Searching \cup {"pickaxe"}, Deepen,
         pc = "pickaxe" => Pickaxe = {},
         pc = "current" => ~Defined(job.candidate),
         pc = "parent" => IsRoot(job.candidate),
         pc = "previous" => Defined(job.candidate - 1)
  PROVE  GivesUpLast' /\ SearchInv'
<1>1. CASE Doubled <= MaxDepth
  <2>1. pc' = "fetch" /\ job' = [job EXCEPT !.depth = Doubled] /\ job \in Jobs
    BY <1>1 DEF Deepen, Goto, IInv, TypeOK
  <2>2. job'.depth \in Depths
    BY <1>1, <2>1, DeepestIsLast DEF Jobs, Doubled, IInv
  <2>. QED BY <2>1, <2>2 DEF GivesUpLast, SearchInv, Searching
<1>2. CASE ~(Doubled <= MaxDepth)
  <2>1. pc' = "failed" /\ why' = "introduction" /\ job' = job
    BY <1>2 DEF Deepen, Fail
  <2>2. OutOfReach
    BY <1>2, NoIntroduction
  <2>3. OutOfReach'
    BY <2>1, <2>2, SameHistory
  <2>. QED BY <2>1, <2>3, GivesUpWhenNext DEF SearchInv, Searching
<1>. QED BY <1>1, <1>2

LEMMA RaiseGivesUp ==
  ASSUME IInv, SearchInv, UNCHANGED history, NEW error, Raise(error),
         \/ error \in {"network", "deadline"}
         \/ /\ error = "compatibility" /\ pc \in InCompat
            /\ pc = "log" => Matches(CompatSpec) = {}
            /\ pc = "parent-of" => IsRoot(job.match)
            /\ pc = "compat" => ~history[job.match].marked
  PROVE  GivesUpLast' /\ SearchInv'
<1>1. CASE pc \in InCompat /\ job.depth < MaxDepth
  <2>1. Doubled <= MaxDepth
    BY <1>1, DeepestIsLast DEF IInv
  <2>2. pc' = "fetch" /\ job' = [job EXCEPT !.depth = Doubled] /\ job \in Jobs
    BY <1>1, <2>1 DEF Raise, Deepen, Goto, IInv, TypeOK
  <2>3. job'.depth \in Depths
    BY <2>1, <2>2, DeepestIsLast DEF Jobs, Doubled, IInv
  <2>. QED BY <2>2, <2>3 DEF GivesUpLast, SearchInv, Searching
<1>2. CASE ~(pc \in InCompat /\ job.depth < MaxDepth)
  <2>1. pc' = "failed" /\ why' = error /\ job' = job
    BY <1>2 DEF Raise, Fail
  <2>2. error = "compatibility" => \E spec \in SpecNames : NotTraced(spec)'
    BY <1>2, <2>1, NoCompatibility, SameHistory
  <2>. QED BY <2>1, <2>2, GivesUpWhenNext DEF SearchInv, Searching
<1>. QED BY <1>1, <1>2

(* A step that goes on.                                                    *)
LEMMA GoesOn ==
  ASSUME SearchInv, pc' \notin Searching \cup {"pickaxe"}, job'.depth = job.depth,
         pc' = "failed" => why' \notin {"series", "introduction", "compatibility"}
  PROVE  GivesUpLast' /\ SearchInv'
BY GivesUpWhenNext DEF SearchInv

LEMMA SearchGivesUp ==
  ASSUME GInv,
         GrepSubject \/ PickaxeDefinition \/ ReadCurrent \/ CheckParent \/ ReadPrevious
  PROVE  GivesUpLast' /\ SearchInv'
<1>1. IInv /\ SubjectIsFirst /\ SearchInv
  BY DEF GInv
<1>2. UNCHANGED history /\ job \in Jobs
  BY DEF GrepSubject, PickaxeDefinition, ReadCurrent, CheckParent, ReadPrevious, Answered, world,
    GInv, IInv, TypeOK
<1>3. CASE GrepSubject
  <2>1. CASE Titled = {}
    <3>1. pc' = "pickaxe" /\ job' = job
      BY <1>3, <2>1 DEF GrepSubject, Oldest, Goto
    <3>. QED BY <1>1, <1>2, <2>1, <3>1, SameHistory DEF GivesUpLast, SearchInv, Searching
  <2>2. CASE Titled # {}
    <3>1. pc' = "current" /\ job' = [job EXCEPT !.candidate = Least(Titled)]
      BY <1>3, <2>2 DEF GrepSubject, Oldest, Goto
    <3>2. job'.candidate = Least(Titled) /\ job'.head = job.head /\ job'.depth = job.depth
      BY <1>2, <3>1 DEF Jobs
    <3>. QED BY <1>1, <1>2, <2>2, <3>1, <3>2, SameHistory DEF GivesUpLast, SearchInv, Searching
  <2>. QED BY <2>1, <2>2
<1>4. CASE PickaxeDefinition
  <2>1. pc = "pickaxe" /\ Titled = {}
    BY <1>1, <1>4 DEF PickaxeDefinition, Answered, SearchInv
  <2>2. CASE Pickaxe = {}
    BY <1>1, <1>2, <1>4, <2>1, <2>2, DeepenGivesUp DEF PickaxeDefinition, Oldest
  <2>3. CASE Pickaxe # {}
    <3>1. pc' = "current" /\ job' = [job EXCEPT !.candidate = Least(Pickaxe)]
      BY <1>4, <2>3 DEF PickaxeDefinition, Oldest, Goto
    <3>2. job'.candidate = Least(Pickaxe) /\ job'.head = job.head /\ job'.depth = job.depth
      BY <1>2, <3>1 DEF Jobs
    <3>. QED BY <1>1, <1>2, <2>1, <2>3, <3>1, <3>2, SameHistory DEF GivesUpLast, SearchInv, Searching
  <2>. QED BY <2>2, <2>3
<1>5. CASE ReadCurrent \/ CheckParent \/ ReadPrevious
  <2>1. pc \in Searching
    BY <1>5 DEF ReadCurrent, CheckParent, ReadPrevious, Answered, Searching
  <2>2. CASE Deepen
    <3>1. /\ pc = "current" => ~Defined(job.candidate)
          /\ pc = "parent" => IsRoot(job.candidate)
          /\ pc = "previous" => Defined(job.candidate - 1)
      <4>1. pc' # "parent" /\ pc' # "previous" /\ pc' # "again"
        BY <1>1, <2>2, DeepenShape DEF IInv
      <4>. QED BY <1>5, <4>1 DEF ReadCurrent, CheckParent, ReadPrevious, Answered, Goto, NewIn
    <3>. QED BY <1>1, <1>2, <2>1, <2>2, <3>1, DeepenGivesUp DEF Searching
  <2>3. CASE ~Deepen
    <3>1. pc' \in {"parent", "previous", "again"} /\ job' = job
      BY <1>5, <2>3 DEF ReadCurrent, CheckParent, ReadPrevious, Goto
    <3>. QED BY <1>1, <1>2, <2>1, <3>1, SameHistory DEF GivesUpLast, SearchInv, Searching
  <2>. QED BY <2>2, <2>3
<1>. QED BY <1>3, <1>4, <1>5

LEMMA LsRemoteGivesUp ==
  ASSUME GInv, LsRemote
  PROVE  GivesUpLast' /\ SearchInv'
<1>1. IInv /\ SearchInv /\ job \in Jobs /\ UNCHANGED world
  BY DEF GInv, IInv, TypeOK, LsRemote, Answered
<1>2. CASE Compatible(Published) = {}
  <2>1. pc' = "failed" /\ why' = "series" /\ job' = job
    BY <1>2 DEF LsRemote, Fail
  <2>2. ASSUME NEW s \in Series, asked[s] > 0 PROVE s > Target
    <3>1. asked[s] \in Nat /\ heads[s] \in Nat /\ asked[s] <= heads[s] /\ s \in Nat /\ Target \in Nat
      <4>1. MaxCommits \in Nat /\ Series \subseteq Nat /\ Target \in Nat
        BY ZenShape
      <4>. QED BY <1>1, <4>1 DEF IInv, TypeOK, RefChosen
    <3>2. s \in Published
      BY <2>2, <3>1 DEF Published
    <3>3. ~(s <= Target)
      BY <1>2, <3>2 DEF Compatible
    <3>. QED BY <3>1, <3>3
  <2>. QED BY <1>1, <2>1, <2>2, GivesUpWhenNext DEF SearchInv, Searching, world
<1>3. CASE Compatible(Published) # {}
  <2>1. pc' = "init" /\ job' = [job EXCEPT !.ref = Largest(Compatible(Published))]
    BY <1>3 DEF LsRemote, Goto
  <2>2. job'.depth = job.depth
    BY <1>1, <2>1 DEF Jobs
  <2>. QED BY <1>1, <2>1, <2>2, GoesOn DEF Searching
<1>. QED BY <1>2, <1>3

LEMMA TracingGivesUp ==
  ASSUME GInv, LogPattern \/ ParentOf \/ DiffOfMatch
  PROVE  GivesUpLast' /\ SearchInv'
<1>1. IInv /\ SearchInv /\ job \in Jobs /\ UNCHANGED history
  BY DEF GInv, IInv, TypeOK, LogPattern, ParentOf, DiffOfMatch, Answered, world
<1>2. CASE LogPattern
  <2>1. CASE Matches(CompatSpec) = {}
    BY <1>1, <1>2, <2>1, RaiseGivesUp DEF LogPattern, Answered, InCompat
  <2>2. CASE Matches(CompatSpec) # {}
    <3>1. pc' = "parent-of" /\ job' = [job EXCEPT !.match = Largest(Matches(CompatSpec))]
      BY <1>2, <2>2 DEF LogPattern, Goto
    <3>2. job'.depth = job.depth
      BY <1>1, <3>1 DEF Jobs
    <3>. QED BY <1>1, <3>1, <3>2, GoesOn DEF Searching
  <2>. QED BY <2>1, <2>2
<1>3. CASE ParentOf
  <2>1. CASE IsRoot(job.match)
    BY <1>1, <1>3, <2>1, RaiseGivesUp DEF ParentOf, Answered, InCompat
  <2>2. CASE ~IsRoot(job.match)
    BY <1>1, <1>3, <2>2, GoesOn DEF ParentOf, Goto, Searching
  <2>. QED BY <2>1, <2>2
<1>4. CASE DiffOfMatch
  <2>1. CASE ~history[job.match].marked
    BY <1>1, <1>4, <2>1, RaiseGivesUp DEF DiffOfMatch, Answered, InCompat
  <2>2. CASE history[job.match].marked
    <3>. DEFINE more == Append(job.sources, job.match)
    <3>1. pc' \in {"rev-parse", "log"} /\ job' = [job EXCEPT !.sources = more]
      BY <1>4, <2>2 DEF DiffOfMatch, Goto
    <3>. HIDE DEF more
    <3>2. job'.depth = job.depth
      BY <1>1, <3>1 DEF Jobs
    <3>. QED BY <1>1, <3>1, <3>2, GoesOn DEF Searching
  <2>. QED BY <2>1, <2>2
<1>. QED BY <1>2, <1>3, <1>4

LEMMA OtherGivesUp ==
  ASSUME GInv,
         \/ InitCheckout \/ FetchDepth \/ CheckAgain \/ RevParse \/ SymbolHistory
         \/ ReadSymbolFile \/ FullDiff \/ ReadBroken
  PROVE  GivesUpLast' /\ SearchInv'
<1>1. IInv /\ SearchInv /\ job \in Jobs
  BY DEF GInv, IInv, TypeOK
<1>2. CASE InitCheckout \/ CheckAgain \/ RevParse \/ ReadBroken
  BY <1>1, <1>2, GoesOn DEF InitCheckout, CheckAgain, RevParse, ReadBroken, Goto, Fail, Searching
<1>3. CASE FetchDepth
  <2>1. pc' = "grep" /\ job' = [job EXCEPT !.head = heads[job.ref], !.sources = <<>>]
    BY <1>3 DEF FetchDepth, Goto
  <2>2. job'.depth = job.depth
    BY <1>1, <2>1 DEF Jobs
  <2>. QED BY <1>1, <2>1, <2>2, GoesOn DEF Searching
<1>4. CASE SymbolHistory
  <2>1. pc' = "file" /\ job' = [job EXCEPT !.left = SymbolFiles]
    BY <1>4 DEF SymbolHistory, Goto
  <2>2. job'.depth = job.depth
    BY <1>1, <2>1 DEF Jobs
  <2>. QED BY <1>1, <2>1, <2>2, GoesOn DEF Searching
<1>5. CASE ReadSymbolFile
  <2>1. \/ pc' = "file" /\ job' = [job EXCEPT !.left = job.left - 1]
        \/ pc' = "diff" /\ job' = job
        \/ pc' = "failed" /\ why' = "dropped" /\ job' = job
    <3>1. job.left \in Int
      <4>1. SymbolFiles \in Nat
        BY ZenShape
      <4>. QED BY <1>1, <4>1 DEF Jobs
    <3>2. CASE job.left > 1
      <4>1. ~(job.left <= 1)
        BY <3>1, <3>2
      <4>. QED BY <1>5, <3>2, <4>1 DEF ReadSymbolFile, Goto
    <3>3. CASE job.left <= 1 /\ Defined(job.head)
      <4>1. ~(job.left > 1)
        BY <3>1, <3>3
      <4>. QED BY <1>5, <3>3, <4>1 DEF ReadSymbolFile, Goto
    <3>4. CASE job.left <= 1 /\ ~Defined(job.head)
      <4>1. ~(job.left > 1)
        BY <3>1, <3>4
      <4>. QED BY <1>5, <3>4, <4>1 DEF ReadSymbolFile, Fail
    <3>. QED BY <3>1, <3>2, <3>3, <3>4
  <2>2. job'.depth = job.depth
    BY <1>1, <2>1 DEF Jobs
  <2>. QED BY <1>1, <2>1, <2>2, GoesOn DEF Searching
<1>6. CASE FullDiff
  <2>1. PICK hunks \in Diffs : \/ pc' = "write" /\ job' = [job EXCEPT !.diff = Between(hunks)]
                               \/ pc' = "failed" /\ why' = "filter" /\ job' = job
    BY <1>6 DEF FullDiff, Goto, Fail
  <2>2. job'.depth = job.depth
    BY <1>1, <2>1 DEF Jobs
  <2>. QED BY <1>1, <2>1, <2>2, GoesOn DEF Searching
<1>. QED BY <1>2, <1>3, <1>4, <1>5, <1>6

(* Steps that leave the search where it is.                                *)
LEMMA StandsStill ==
  ASSUME GInv, UNCHANGED <<history, asked, pc, why, job>>
  PROVE  GivesUpLast' /\ SearchInv'
BY SameHistory, GivesUpWhen, GivesUpWhenNext DEF GInv, SearchInv, Searching

LEMMA HistoryIsGiven ==
  ASSUME [Next]_vars
  PROVE  UNCHANGED history
BY DEF Next, vars, world, files, Push, Begin, Stop, Policy, Resolver, Answered, Step,
  LsRemote, InitCheckout, FetchDepth, GrepSubject, PickaxeDefinition, ReadCurrent, CheckParent,
  ReadPrevious, CheckAgain, LogPattern, ParentOf, DiffOfMatch, RevParse, SymbolHistory, ReadSymbolFile,
  FullDiff, Retry, Broken, ReadBroken, Expired,
  WriteOutput, UpdateLock, PreparePatch, LockPolicy, ApplyProfile

LEMMA GivesUpStep ==
  ASSUME GInv, [Next]_vars
  PROVE  GivesUpLast' /\ SearchInv'
<1>1. IInv /\ SearchInv /\ UNCHANGED history
  BY HistoryIsGiven DEF GInv
<1>2. CASE Broken \/ Expired
  BY <1>1, <1>2, RaiseGivesUp DEF Broken, Expired
<1>3. CASE Retry \/ UNCHANGED vars \/ \E s \in Series : Push(s)
  BY <1>3, StandsStill DEF Retry, Push, vars, world
<1>4. CASE Begin \/ Stop
  <2>1. pc' \in {"ls-remote", "idle"} /\ job' = Idle
    BY <1>4 DEF Begin, Stop
  <2>2. job'.depth \in Depths
    BY <2>1, DepthsDouble DEF Doubles, Idle
  <2>. QED BY <2>1, <2>2 DEF GivesUpLast, SearchInv, Searching
<1>5. CASE Policy
  <2>1. pc' \in {"record", "adapt", "policy", "apply", "applied", "failed"} /\ job' = job
    BY <1>5 DEF Policy, WriteOutput, UpdateLock, PreparePatch, LockPolicy, ApplyProfile, Step
  <2>2. pc' = "failed" => why' \in {"port", "rejects"}
    BY <1>5 DEF Policy, WriteOutput, UpdateLock, PreparePatch, LockPolicy, ApplyProfile
  <2>. QED BY <1>1, <2>1, <2>2, GoesOn DEF Searching
<1>6. CASE Resolver /\ ~(Broken \/ Expired \/ Retry)
  BY <1>6, LsRemoteGivesUp, SearchGivesUp, TracingGivesUp, OtherGivesUp DEF Resolver
<1>. QED BY <1>2, <1>3, <1>4, <1>5, <1>6 DEF Next

(* The resolver gives up on a history only when it is out of reach of the  *)
(* deepest fetch, if the subject is the introduction's own.                *)
THEOREM GivesUpRight == Spec /\ SubjectIsFirst => []GivesUpLast
<1>1. Init /\ SubjectIsFirst => GInv
  <2>. SUFFICES ASSUME Init, SubjectIsFirst PROVE GInv
    OBVIOUS
  <2>1. IInv
    BY InitHolds
  <2>. QED BY <2>1, DepthsDouble DEF Init, Idle, GInv, SearchInv, GivesUpLast, Searching, Doubles
<1>2. GInv /\ [Next]_vars => GInv'
  <2>. SUFFICES ASSUME GInv, [Next]_vars PROVE GInv'
    OBVIOUS
  <2>1. IInv'
    BY InductiveStep DEF GInv
  <2>2. SubjectIsFirst'
    BY HistoryIsGiven DEF GInv, SubjectIsFirst, Introduces, Defined
  <2>. QED BY <2>1, <2>2, GivesUpStep DEF GInv
<1>3. GInv => GivesUpLast
  BY DEF GInv
<1>. QED BY <1>1, <1>2, <1>3, PTL DEF Spec

-----------------------------------------------------------------------------
(* The properties.                                                         *)

(* Whatever the network answers, the state keeps its shape.                *)
THEOREM TypeCorrect == Spec => []TypeOK
<1>1. IInv => TypeOK
  BY DEF IInv
<1>. QED BY <1>1, Invariance, PTL

(* The commands together stay within the total and one pause.              *)
THEOREM KeepsTime == Spec => []InTime
<1>1. IInv => InTime
  BY DEF IInv
<1>. QED BY <1>1, Invariance, PTL

(* What is recorded from a shallow clone is what the whole history says,   *)
(* whatever is pushed while it is resolved.                                *)
THEOREM ShallowExact == Spec => []ShallowIsExact
<1>1. IInv => ShallowIsExact
  BY DEF IInv
<1>. QED BY <1>1, Invariance, PTL

(* What the build applies is what the lock records: hunks of the diff of   *)
(* the recorded commits.                                                   *)
THEOREM AppliesTheRecorded == Spec => []AppliedIsRecorded
<1>1. ASSUME IInv, pc = "applied" PROVE AppliedIsRecorded
  <2>. DEFINE zen == job.diff
              cut == Filtered(zen.hunks)
              adapted == Adapted(cut)
  <2>1. DiffTaken /\ Recorded /\ applied = Patch(adapted) /\ lock.sha256 = applied
    BY <1>1 DEF IInv, PatchCut, Afterwards
  <2>2. /\ applied.from = zen.from /\ applied.to = zen.to
        /\ applied.hunks = adapted /\ applied.sources = job.sources
    BY <2>1 DEF Patch
  <2>3. job.candidate \in Int
    BY <1>1, JobShape DEF IInv
  <2>4. zen.hunks \in Diffs
    BY <2>1 DEF DiffTaken
  <2>5. /\ DOMAIN cut \subseteq DOMAIN zen.hunks /\ DOMAIN cut \subseteq Int
        /\ \A m \in DOMAIN cut : cut[m] = zen.hunks[m]
    <3>1. /\ DOMAIN cut = {m \in DOMAIN zen.hunks : OfSymbol(zen.hunks[m])}
          /\ DOMAIN cut \subseteq 1..Len(zen.hunks) /\ Len(zen.hunks) \in Nat
          /\ \A m \in DOMAIN cut : cut[m] = zen.hunks[m]
      BY <2>4, FilteredShape
    <3>. HIDE DEF cut
    <3>. QED BY <3>1
  <2>6. /\ DOMAIN adapted \subseteq DOMAIN cut \cup Ported(cut)
        /\ \A m \in DOMAIN adapted :
             IF m \in DOMAIN cut THEN adapted[m] = cut[m]
                                 ELSE m \in Ported(cut) /\ adapted[m] = MigrationSection
    BY <2>4, AdaptedShape
  <2>7. /\ Ported(cut) \subseteq Int /\ \A n, m \in Ported(cut) : m = n
        /\ \A n \in Ported(cut), m \in DOMAIN cut : m <= n
    BY <2>4, PortedShape
  <2>. HIDE DEF cut, adapted
  <2>8. ASSUME NEW n \in DOMAIN adapted
        PROVE  \/ n \in DOMAIN zen.hunks /\ adapted[n] = zen.hunks[n]
               \/ adapted[n] = MigrationSection /\ \A m \in DOMAIN adapted : m <= n
    <3>1. CASE n \in DOMAIN cut
      BY <2>5, <2>6, <3>1
    <3>2. CASE n \notin DOMAIN cut
      <4>1. n \in Ported(cut) /\ adapted[n] = MigrationSection /\ n \in Int
        BY <2>6, <2>7, <3>2
      <4>2. ASSUME NEW m \in DOMAIN adapted PROVE m <= n
        <5>1. CASE m \in DOMAIN cut
          BY <2>7, <4>1, <5>1
        <5>2. CASE m \in Ported(cut)
          <6>1. m = n
            BY <2>7, <4>1, <5>2
          <6>. QED BY <4>1, <6>1
        <5>. QED BY <2>6, <5>1, <5>2
      <4>. QED BY <4>1, <4>2
    <3>. QED BY <3>1, <3>2
  <2>. QED BY <1>1, <2>1, <2>2, <2>3, <2>8 DEF AppliedIsRecorded, DiffTaken, Recorded
<1>2. IInv => AppliedIsRecorded
  BY <1>1 DEF AppliedIsRecorded
<1>. QED BY <1>2, Invariance, PTL

(* The port's section is there exactly if the last hunk with the base      *)
(* slice brings the migration cost.                                        *)
LEMMA PortedForCost ==
  ASSUME NEW diff \in Diffs
  PROVE  Ported(Filtered(diff)) # {} <=>
           \E n \in DOMAIN diff : SetsCost(diff, n) /\ ~Ours(diff[n])
<1>. DEFINE cut == Filtered(diff)
            slices == {m \in DOMAIN cut : BaseSlice(cut[m])}
            last == Largest(slices)
<1>1. /\ DOMAIN cut = {m \in DOMAIN diff : OfSymbol(diff[m])}
      /\ DOMAIN cut \subseteq 1..Len(diff) /\ Len(diff) \in Nat
      /\ \A m \in DOMAIN cut : cut[m] = diff[m]
  BY FilteredShape
<1>2. Ported(cut) # {} <=> MigrationNeeded(cut)
  BY DEF Ported
<1>. HIDE DEF cut
<1>3. slices = {m \in DOMAIN diff : OfSymbol(diff[m]) /\ BaseSlice(diff[m])}
  BY <1>1
<1>4. slices \subseteq 0..Len(diff)
  BY <1>1
<1>5. slices # {} => last \in slices /\ \A m \in slices : m <= last
  BY <1>1, <1>4, LargestExists
<1>6. MigrationNeeded(cut) <=> slices # {} /\ "migration" \in cut[last].has
  BY DEF MigrationNeeded
<1>. HIDE DEF slices, last
<1>7. ASSUME MigrationNeeded(cut)
      PROVE  \E n \in DOMAIN diff : SetsCost(diff, n) /\ ~Ours(diff[n])
  <2>1. /\ last \in DOMAIN diff /\ OfSymbol(diff[last]) /\ BaseSlice(diff[last])
        /\ "migration" \in diff[last].has
    BY <1>1, <1>3, <1>5, <1>6, <1>7
  <2>2. ASSUME NEW m \in DOMAIN diff, m > last PROVE ~(OfSymbol(diff[m]) /\ BaseSlice(diff[m]))
    <3>1. m \in slices => m <= last
      BY <1>5
    <3>2. last \in 0..Len(diff)
      BY <1>4, <1>5, <1>6, <1>7
    <3>3. m \in slices => m \in Int
      BY <1>1, <1>4
    <3>. QED BY <1>1, <1>3, <2>2, <3>1, <3>2, <3>3
  <2>3. ~Ours(diff[last])
    BY <2>1 DEF Ours
  <2>. QED BY <2>1, <2>2, <2>3 DEF SetsCost
<1>8. ASSUME NEW n \in DOMAIN diff, SetsCost(diff, n), ~Ours(diff[n])
      PROVE  MigrationNeeded(cut)
  <2>1. /\ OfSymbol(diff[n]) /\ BaseSlice(diff[n]) /\ "migration" \in diff[n].has
        /\ \A m \in DOMAIN diff : m > n => ~(OfSymbol(diff[m]) /\ BaseSlice(diff[m]))
    BY <1>8 DEF SetsCost
  <2>2. n \in slices /\ last \in slices /\ n <= last
    BY <1>3, <1>5, <2>1
  <2>3. ~(last > n)
    BY <1>3, <2>1, <2>2
  <2>4. n = last
    BY <1>1, <1>4, <2>2, <2>3
  <2>5. cut[last] = diff[last]
    BY <1>1, <1>3, <2>2
  <2>. QED BY <1>6, <2>1, <2>2, <2>4, <2>5
<1>9. MigrationNeeded(cut) <=> \E n \in DOMAIN diff : SetsCost(diff, n) /\ ~Ours(diff[n])
  BY <1>7, <1>8
<1>. QED BY <1>2, <1>9 DEF cut

(* The kernel gets of Zen's profile what the policies leave, all of it,    *)
(* and the migration cost exactly as PolicyKept says, from any diff.       *)
THEOREM KeepsPolicy == Spec => []PolicyKept
<1>1. ASSUME IInv, pc = "applied" PROVE PolicyKept
  <2>. DEFINE diff == job.diff.hunks
              cut == Filtered(diff)
              adapted == Adapted(cut)
  <2>1. /\ diff \in Diffs /\ applied.hunks = adapted /\ PortAccepts(cut, adapted) /\ ~Any(adapted, "thp")
    BY <1>1 DEF IInv, PatchCut, DiffTaken, Patch, Afterwards
  <2>2. /\ DOMAIN cut = {m \in DOMAIN diff : OfSymbol(diff[m])}
        /\ \A m \in DOMAIN cut : cut[m] = diff[m]
    BY <2>1, FilteredShape
  <2>3. /\ DOMAIN adapted = {m \in DOMAIN cut : Ours(cut[m])} \cup Ported(cut)
        /\ \A m \in DOMAIN adapted :
             IF m \in DOMAIN cut THEN adapted[m] = cut[m] /\ Ours(cut[m])
                                 ELSE m \in Ported(cut) /\ adapted[m] = MigrationSection
    BY <2>1, AdaptedShape
  <2>4. /\ Ported(cut) # {} <=> \E n \in DOMAIN diff : SetsCost(diff, n) /\ ~Ours(diff[n])
        /\ \A n \in Ported(cut) : n \notin DOMAIN cut
    BY <2>1, PortedForCost, PortedShape
  <2>. HIDE DEF diff, cut, adapted
  <2>5. ASSUME NEW n \in DOMAIN adapted PROVE ~Foreign(adapted[n])
    <3>1. "thp" \notin adapted[n].has /\ "slice" \notin adapted[n].has /\ "runtime" \notin adapted[n].has
      BY <2>1 DEF Any, PortAccepts
    <3>2. adapted[n].path \notin {"elevator.c", "huge_memory.c"}
      <4>1. CASE n \in DOMAIN cut
        BY <2>2, <2>3, <4>1 DEF Ours, OfSymbol
      <4>2. CASE n \notin DOMAIN cut
        BY <2>3, <4>2 DEF MigrationSection
      <4>. QED BY <4>1, <4>2
    <3>. QED BY <3>1, <3>2 DEF Foreign
  <2>6. ASSUME NEW n \in DOMAIN diff, "symbol" \in diff[n].has, ~Foreign(diff[n])
        PROVE  n \in DOMAIN adapted /\ adapted[n] = diff[n]
    <3>1. n \in DOMAIN cut /\ cut[n] = diff[n]
      BY <2>2, <2>6 DEF OfSymbol, Foreign
    <3>2. Ours(cut[n])
      BY <2>6, <3>1 DEF Ours, RuntimeTunable, BaseSlice, Foreign
    <3>. QED BY <2>3, <3>1, <3>2
  <2>7. ASSUME NEW n \in DOMAIN adapted, "migration" \in adapted[n].has
        PROVE  \E m \in DOMAIN diff : SetsCost(diff, m)
    <3>1. CASE n \in DOMAIN cut
      <4>1. n \in DOMAIN diff /\ OfSymbol(diff[n]) /\ Ours(diff[n]) /\ "migration" \in diff[n].has
        BY <2>2, <2>3, <2>7, <3>1
      <4>. QED BY <4>1 DEF SetsCost
    <3>2. CASE n \notin DOMAIN cut
      BY <2>3, <2>4, <3>2
    <3>. QED BY <3>1, <3>2
  <2>8. ASSUME NEW n \in DOMAIN diff, SetsCost(diff, n)
        PROVE  \E m \in DOMAIN adapted : "migration" \in adapted[m].has
    <3>1. CASE Ours(diff[n])
      <4>1. n \in DOMAIN cut /\ cut[n] = diff[n] /\ "migration" \in diff[n].has
        BY <2>2, <2>8 DEF SetsCost
      <4>. QED BY <2>3, <3>1, <4>1
    <3>2. CASE ~Ours(diff[n])
      <4>1. PICK m \in Ported(cut) : TRUE
        BY <2>4, <2>8, <3>2
      <4>2. m \in DOMAIN adapted /\ adapted[m] = MigrationSection
        BY <2>3, <2>4, <4>1
      <4>. QED BY <4>2 DEF MigrationSection
    <3>. QED BY <3>1, <3>2
  <2>9. Any(applied.hunks, "migration") <=> \E n \in DOMAIN diff : SetsCost(diff, n)
    BY <2>1, <2>7, <2>8 DEF Any
  <2>. QED BY <2>1, <2>5, <2>6, <2>9 DEF PolicyKept, diff
<1>2. IInv => PolicyKept
  BY <1>1 DEF PolicyKept
<1>. QED BY <1>2, Invariance, PTL
=============================================================================

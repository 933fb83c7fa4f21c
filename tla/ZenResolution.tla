--------------------------- MODULE ZenResolution ---------------------------
(***************************************************************************)
(* The Zen profile of a build: resolve-zen-interactive-fast.py finds it in *)
(* a shallow, blob-less clone that it deepens, under one deadline for all  *)
(* git commands, cuts it to the symbol and to the project's policies, and  *)
(* records it in the lock; the build script then applies it.               *)
(*                                                                         *)
(* A commit is its place in the history of the branch, 0 the Linux release *)
(* below it.  A fetch of some depth shows the last commits only, and the   *)
(* oldest of those looks like a root: it changes every file and has no     *)
(* parent.  A hunk is a record of its file and of what the filters look    *)
(* for in it.  A diff is of two commits, and a patch keeps which they are, *)
(* with a function from places of the diff to the hunks that are left      *)
(* there; a digest is the bytes themselves.                                *)
(***************************************************************************)
EXTENDS Integers, Sequences, FiniteSets, Functions

CONSTANTS
  Series,     \* series of kernels, numbered in their order
  Target,     \* KERNEL_SERIES
  MaxCommits, \* bound on the commits of a branch
  Histories,  \* the histories a branch may have
  Diffs,      \* what the files may change between two commits, as hunks
  Specs,      \* COMPATIBILITY_SPECS
  FirstDepth, MaxDepth, \* 128 and MAX_HISTORY_DEPTH
  Total,      \* TOTAL_RESOLVE_TIMEOUT
  Fetch,      \* FETCH_TIMEOUT
  Local,      \* DEFAULT_COMMAND_TIMEOUT
  Delay,      \* REMOTE_RETRY_DELAY_SECONDS
  Retries,    \* REMOTE_FETCH_RETRIES
  SymbolFiles, \* how many files the history of the symbol names
  MaxFaults,  \* bound on the failures of the network
  Nothing

SpecNames == {Specs[n] : n \in DOMAIN Specs}
Commits == [symbol : {"keep", "define", "drop"}, titled : BOOLEAN,
            changes : SUBSET SpecNames, marked : BOOLEAN]
Hunks == [path : {"Kconfig", "fair.c", "elevator.c", "huge_memory.c", "runtime", "other"},
          has : SUBSET {"symbol", "definition", "thp", "slice", "migration", "runtime", "unbalanced"}]

(* The places of a diff, and one more for what a port adds at its end.     *)
Places == UNION {1..(Len(diff) + 1) : diff \in Diffs}
PatchesAt(places) == [from : 0..MaxCommits, to : 0..MaxCommits,
                      hunks : [places -> Hunks], sources : Seq(0..MaxCommits)]
LocksAt(places) == [ref : Series, commit : 0..MaxCommits, introduction : 0..MaxCommits,
                    sources : Seq(0..MaxCommits), sha256 : PatchesAt(places)]

ASSUME ZenShape ==
  /\ Series \subseteq Nat /\ Target \in Nat
  /\ MaxCommits \in Nat \ {0} /\ Histories \subseteq [0..MaxCommits -> Commits]
  /\ Diffs \subseteq Seq(Hunks)
  /\ Specs \in Seq(SpecNames) /\ Specs # <<>>
  /\ {FirstDepth, Retries} \subseteq Nat \ {0}
  /\ {MaxDepth, Total, Fetch, Local, Delay, SymbolFiles, MaxFaults} \subseteq Nat
  /\ \A places \in SUBSET Places : Nothing \notin PatchesAt(places) /\ Nothing \notin LocksAt(places)

(* Doubled again and again, the first depth meets the last one: 128 * 16.  *)
ASSUME ZenDepths ==
  \E depths \in SUBSET (FirstDepth..MaxDepth) :
    /\ FirstDepth \in depths
    /\ \A d \in depths : IF 2 * d <= MaxDepth THEN 2 * d \in depths ELSE d = MaxDepth

VARIABLES
  history, \* of the zen-sauce branches; how far each has come,
  heads,   \* 0 if it is not published,
  asked,   \* and how far it had come when the run began
  pc, why, \* the next command; the error the last run ended with
  now,     \* since the resolver started
  attempt, \* of the read that is under way
  faults,
  job,     \* the resolver's variables
  output, lock, \* the patch, and what patch-lock.json says of it
  applied  \* the patch the build applied

world == <<history, heads, asked>>
files == <<output, lock, applied>>
vars == <<world, pc, why, now, attempt, faults, job, files>>

Ended == {"idle", "failed", "applied"}

Idle == [ref |-> 0, depth |-> FirstDepth, head |-> 0, candidate |-> 0, match |-> 0,
         sources |-> <<>>, left |-> 0, diff |-> [from |-> 0, to |-> 0, hunks |-> <<>>]]

Largest(S) == CHOOSE x \in S : \A y \in S : y <= x
Least(S) == CHOOSE x \in S : \A y \in S : x <= y

-----------------------------------------------------------------------------
(* What the history says, and what a shallow clone shows of it.            *)

Defined(i) ==
  \E j \in 1..i : history[j].symbol = "define" /\ \A k \in (j + 1)..i : history[k].symbol # "drop"

Introduces(i) == i > 0 /\ Defined(i) /\ ~Defined(i - 1)

Window(head, depth) == {i \in 0..head : i > head - depth}

Shown == Window(job.head, job.depth)
IsRoot(i) == i - 1 \notin Shown

(* git log --grep, and git log -S: commits that change init/Kconfig.       *)
Titled == {i \in Shown : history[i].titled}
Pickaxe == {i \in Shown : IF IsRoot(i) THEN Defined(i) ELSE Defined(i) # Defined(i - 1)}

(* git log -G of a compatibility pattern.                                  *)
Matches(spec) ==
  {i \in Shown : \/ spec \in history[i].changes
                 \/ IsRoot(i) /\ \E j \in 0..i : spec \in history[j].changes}

Published == {s \in Series : heads[s] > 0}

(* select_compatible_ref(): the exact series or the nearest older one.     *)
Compatible(published) == {s \in published : s <= Target}

-----------------------------------------------------------------------------
(* The filters.                                                            *)

Any(patch, what) == \E n \in DOMAIN patch : what \in patch[n].has

(* filter_symbol_hunks(): hunks of the symbol, none of them about THP.     *)
OfSymbol(hunk) ==
  /\ "symbol" \in hunk.has
  /\ hunk.path # "huge_memory.c"
  /\ hunk.path = "Kconfig" \/ "thp" \notin hunk.has

Filtered(diff) == RestrictValues(diff, OfSymbol)

FilterAccepts(patch) == Any(patch, "definition") /\ Cardinality(DOMAIN patch) > 1 /\ ~Any(patch, "thp")

(* prepare_patch() of the project's port asks for run-time policy first;   *)
(* that of fair.c is the bandwidth slice.                                  *)
RuntimeTunable(hunk) == hunk.path \in {"runtime", "fair.c"} /\ "runtime" \in hunk.has
BaseSlice(hunk) == hunk.path = "fair.c" /\ "slice" \in hunk.has /\ ~RuntimeTunable(hunk)

Ours(hunk) == hunk.path # "elevator.c" /\ ~RuntimeTunable(hunk) /\ ~BaseSlice(hunk)

(* Slip: the hunk goes, and with it what shared it.                        *)
MigrationForgotten(patch) == FALSE

(* The last hunk with the base slice decides.                              *)
MigrationNeeded(patch) ==
  LET slices == {n \in DOMAIN patch : BaseSlice(patch[n])}
  IN slices # {} /\ "migration" \in patch[Largest(slices)].has

MigrationSection == [path |-> "fair.c", has |-> {"symbol", "migration"}]

(* The section goes after the last hunk.                                   *)
Ported(patch) == IF MigrationNeeded(patch) THEN {Largest(DOMAIN patch) + 1} ELSE {}

Adapted(patch) ==
  [n \in {m \in DOMAIN patch : Ours(patch[m])} \cup Ported(patch) |->
     IF n \in DOMAIN patch THEN patch[n] ELSE MigrationSection]

PortAccepts(patch, adapted) ==
  /\ ~Any(adapted, "slice") /\ ~Any(adapted, "runtime") /\ Any(adapted, "definition")
  /\ MigrationNeeded(patch) =>
       Cardinality({n \in DOMAIN adapted : "migration" \in adapted[n].has}) = 1
  /\ \A n \in DOMAIN adapted : adapted[n].path = "fair.c" => "unbalanced" \notin adapted[n].has

-----------------------------------------------------------------------------
Init ==
  /\ history \in Histories
  /\ heads \in [Series -> {0, MaxCommits - 1}] /\ asked = heads
  /\ pc = "idle" /\ why = Nothing /\ now = 0 /\ attempt = 1 /\ faults = 0
  /\ job = Idle /\ output = Nothing /\ lock = Nothing /\ applied = Nothing

(* Zen pushes a commit, or publishes a branch; one of them during a run is *)
(* the bound.                                                              *)
Push(s) ==
  /\ heads[s] < MaxCommits /\ heads = asked
  /\ heads' = [heads EXCEPT ![s] = IF @ = 0 THEN MaxCommits ELSE @ + 1]
  /\ UNCHANGED <<history, asked, pc, why, now, attempt, faults, job, files>>

(* A build: the work and log directories are new.                          *)
Begin ==
  /\ pc \in Ended
  /\ pc' = "ls-remote" /\ why' = Nothing /\ now' = 0 /\ attempt' = 1 /\ job' = Idle
  /\ asked' = heads
  /\ output' = Nothing /\ lock' = Nothing /\ applied' = Nothing
  /\ UNCHANGED <<history, heads, faults>>

(* Someone stops it.                                                       *)
Stop ==
  /\ pc \notin Ended
  /\ pc' = "idle" /\ now' = 0 /\ attempt' = 1 /\ job' = Idle
  /\ UNCHANGED <<world, why, faults, files>>

-----------------------------------------------------------------------------
(* Commands.  One takes as long as it takes, at most its limit and what is *)
(* left of the total (_remaining_timeout()); with nothing left it is not   *)
(* started.                                                                *)

Reads == {"current", "previous", "file"}
ByNetwork == Reads \cup {"ls-remote", "fetch", "pickaxe", "log", "compat", "symbols", "diff"}
InCompat == {"log", "parent-of", "compat"}
Commands == ByNetwork \cup InCompat \cup {"init", "grep", "parent", "again", "rev-parse"}

Limit == IF pc \in ByNetwork \ {"pickaxe"} THEN Fetch ELSE Local

(* Slip: every command has its own limit only.                             *)
AllowedAlone == Limit

Allowed == IF Limit < Total - now THEN Limit ELSE Total - now

Spend(pause) == now < Total /\ \E d \in 0..Allowed : now' = now + d + pause

(* The command at a place of the program answers; what follows is up to    *)
(* the program.                                                            *)
Answered(at) ==
  /\ pc = at /\ Spend(0) /\ attempt' = 1
  /\ UNCHANGED <<world, faults, files>>

Goto(to, vals) == pc' = to /\ job' = vals /\ UNCHANGED why

Fail(error) == pc' = "failed" /\ why' = error /\ UNCHANGED job

(* Slip: the depth stays.                                                  *)
DoubledNever == job.depth

(* Slip: the loop ends before the last depth.                              *)
DoubledOnce == 2 * job.depth + 1

Doubled == 2 * job.depth

(* fetch_profile() goes on with twice the depth, or gives up.              *)
Deepen ==
  IF Doubled <= MaxDepth THEN Goto("fetch", [job EXCEPT !.depth = Doubled])
                         ELSE Fail("introduction")

(* A ResolveError; the one handler is around the compatibility sources.    *)
Raise(error) ==
  IF pc \in InCompat /\ job.depth < MaxDepth THEN Deepen ELSE Fail(error)

(* The network fails, or is too slow for the command's limit.              *)
Broken ==
  /\ pc \in ByNetwork \ Reads /\ faults < MaxFaults
  /\ faults' = faults + 1 /\ attempt' = 1
  /\ Spend(0) /\ Raise("network")
  /\ UNCHANGED <<world, files>>

(* Slip: the first attempt is not counted.                                 *)
AttemptsLeftByOne == attempt <= Retries

AttemptsLeft == attempt < Retries

(* read_file_at(): once more after a pause, if the error is a transient    *)
(* one and this was not the last attempt.                                  *)
Retry ==
  /\ pc \in Reads /\ faults < MaxFaults /\ AttemptsLeft
  /\ faults' = faults + 1 /\ attempt' = attempt + 1
  /\ Spend(Delay)
  /\ UNCHANGED <<world, pc, why, job, files>>

ReadBroken ==
  /\ pc \in Reads /\ faults < MaxFaults
  /\ faults' = faults + 1 /\ attempt' = 1
  /\ Spend(0) /\ Fail("network")
  /\ UNCHANGED <<world, files>>

Expired ==
  /\ pc \in Commands /\ now >= Total /\ attempt' = 1
  /\ Raise("deadline")
  /\ UNCHANGED <<world, now, faults, files>>

-----------------------------------------------------------------------------
(* fetch_profile().                                                        *)

LsRemote ==
  /\ Answered("ls-remote")
  /\ IF Compatible(Published) = {} THEN Fail("series")
     ELSE Goto("init", [job EXCEPT !.ref = Largest(Compatible(Published))])

InitCheckout == Answered("init") /\ Goto("fetch", job)

FetchDepth ==
  /\ Answered("fetch")
  /\ Goto("grep", [job EXCEPT !.head = heads[job.ref], !.sources = <<>>])

(* locate_introduction(): the oldest commit with the subject, else the     *)
(* oldest that changes the definition.                                     *)
Oldest(found, otherwise) ==
  IF found = {} THEN otherwise ELSE Goto("current", [job EXCEPT !.candidate = Least(found)])

GrepSubject == Answered("grep") /\ Oldest(Titled, Goto("pickaxe", job))
PickaxeDefinition == Answered("pickaxe") /\ Oldest(Pickaxe, Deepen)

ReadCurrent ==
  /\ Answered("current")
  /\ IF Defined(job.candidate) THEN Goto("parent", job) ELSE Deepen

CheckParent ==
  /\ Answered("parent")
  /\ IF IsRoot(job.candidate) THEN Deepen ELSE Goto("previous", job)

(* Slip: the subject is enough.                                            *)
NewBySubject(i) == TRUE

(* The definition is not in the commit before.                             *)
NewIn(i) == ~Defined(i - 1)

ReadPrevious ==
  /\ Answered("previous")
  /\ IF NewIn(job.candidate) THEN Goto("again", job) ELSE Deepen

CheckAgain == Answered("again") /\ Goto("log", job)

(* discover_compatibility_sources(), for one after the other.              *)
CompatSpec == Specs[Len(job.sources) + 1]

LogPattern ==
  /\ Answered("log")
  /\ IF Matches(CompatSpec) = {} THEN Raise("compatibility")
     ELSE Goto("parent-of", [job EXCEPT !.match = Largest(Matches(CompatSpec))])

ParentOf ==
  /\ Answered("parent-of")
  /\ IF IsRoot(job.match) THEN Raise("compatibility") ELSE Goto("compat", job)

DiffOfMatch ==
  /\ Answered("compat")
  /\ IF ~history[job.match].marked THEN Raise("compatibility")
     ELSE Goto(IF Len(job.sources) + 1 = Len(Specs) THEN "rev-parse" ELSE "log",
               [job EXCEPT !.sources = Append(@, job.match)])

RevParse == Answered("rev-parse") /\ Goto("symbols", job)

(* discover_symbol_files() of the fast resolver.                           *)
SymbolHistory == Answered("symbols") /\ Goto("file", [job EXCEPT !.left = SymbolFiles])

ReadSymbolFile ==
  /\ Answered("file")
  /\ CASE job.left > 1 -> Goto("file", [job EXCEPT !.left = @ - 1])
       [] job.left <= 1 /\ Defined(job.head) -> Goto("diff", job)
       [] job.left <= 1 /\ ~Defined(job.head) -> Fail("dropped")

(* git diff from the parent of the introduction to the head.  A run asks   *)
(* once, so any hunks may be what lies between the two.                    *)
Between(hunks) == [from |-> job.candidate - 1, to |-> job.head, hunks |-> hunks]

FullDiff ==
  /\ Answered("diff")
  /\ \E hunks \in Diffs :
       IF FilterAccepts(Filtered(hunks)) THEN Goto("write", [job EXCEPT !.diff = Between(hunks)])
                                         ELSE Fail("filter")

-----------------------------------------------------------------------------
(* main(), apply_project_policy() and the build.                           *)

Afterwards == {"write", "record", "adapt", "policy", "apply"}

Step(at) == pc = at /\ UNCHANGED <<world, now, attempt, faults, job>>

Patch(hunks) == [from |-> job.diff.from, to |-> job.diff.to,
                 hunks |-> hunks, sources |-> job.sources]

WriteOutput ==
  /\ Step("write") /\ pc' = "record"
  /\ output' = Patch(Filtered(job.diff.hunks))
  /\ UNCHANGED <<why, lock, applied>>

(* update_lock().                                                          *)
UpdateLock ==
  /\ Step("record") /\ pc' = "adapt"
  /\ lock' = [ref |-> job.ref, commit |-> job.head, introduction |-> job.candidate,
              sources |-> job.sources, sha256 |-> output]
  /\ UNCHANGED <<why, output, applied>>

PreparePatch ==
  LET adapted == Adapted(output.hunks) IN
  /\ Step("adapt")
  /\ IF PortAccepts(output.hunks, adapted)
     THEN pc' = "policy" /\ output' = Patch(adapted) /\ UNCHANGED why
     ELSE pc' = "failed" /\ why' = "port" /\ UNCHANGED output
  /\ UNCHANGED <<lock, applied>>

(* Slip: only the new fields.                                              *)
WithPolicyAdded(record) == record

WithPolicy(record) == [record EXCEPT !.sha256 = output]

LockPolicy ==
  /\ Step("policy") /\ pc' = "apply"
  /\ lock' = WithPolicy(lock)
  /\ UNCHANGED <<why, output, applied>>

(* apply_zen_interactive_profile(): patch may leave rejects.               *)
ApplyProfile ==
  /\ Step("apply")
  /\ \/ ~Any(output.hunks, "thp") /\ pc' = "applied" /\ applied' = output /\ UNCHANGED why
     \/ pc' = "failed" /\ why' = "rejects" /\ UNCHANGED applied
  /\ UNCHANGED <<output, lock>>

Resolver ==
  \/ LsRemote \/ InitCheckout \/ FetchDepth \/ GrepSubject \/ PickaxeDefinition
  \/ ReadCurrent \/ CheckParent \/ ReadPrevious \/ CheckAgain
  \/ LogPattern \/ ParentOf \/ DiffOfMatch \/ RevParse
  \/ SymbolHistory \/ ReadSymbolFile \/ FullDiff
  \/ Retry \/ Broken \/ ReadBroken \/ Expired

Policy == WriteOutput \/ UpdateLock \/ PreparePatch \/ LockPolicy \/ ApplyProfile

Next == (\E s \in Series : Push(s)) \/ Begin \/ Stop \/ Resolver \/ Policy

(* A command returns or is ended by its timeout, and the script goes on.   *)
Spec == Init /\ [][Next]_vars /\ WF_vars(Resolver \/ Policy)

-----------------------------------------------------------------------------
Running == pc \notin Ended

Jobs == [ref : Series \cup {0}, depth : FirstDepth..MaxDepth, head : 0..MaxCommits,
         candidate : 0..MaxCommits, match : 0..MaxCommits, sources : Seq(0..MaxCommits),
         left : 0..SymbolFiles,
         diff : [from : 0..MaxCommits, to : 0..MaxCommits, hunks : Diffs \cup {<<>>}]]

IsPatch(patch) == DOMAIN patch.hunks \subseteq Places /\ patch \in PatchesAt(DOMAIN patch.hunks)

IsLock(record) ==
  LET places == DOMAIN record.sha256.hunks
  IN  places \subseteq Places /\ record \in LocksAt(places)

FilesOK ==
  /\ \A patch \in {output, applied} : patch = Nothing \/ IsPatch(patch)
  /\ lock = Nothing \/ IsLock(lock)

TypeOK ==
  /\ history \in Histories
  /\ heads \in [Series -> 0..MaxCommits] /\ asked \in [Series -> 0..MaxCommits]
  /\ pc \in Commands \cup Afterwards \cup Ended
  /\ now \in Nat /\ attempt \in 1..Retries /\ faults \in 0..MaxFaults
  /\ job \in Jobs /\ job.sources \in Seq(Shown) /\ Len(job.sources) <= Len(Specs)
  /\ FilesOK

(* What is recorded of a truncated history is what the whole one says: the *)
(* branch is the newest the kernel can take of those there were, the       *)
(* introduction introduces the symbol (a root only seems to), the head     *)
(* still has it, and each compatibility commit is the last of its kind.    *)
ShallowIsExact ==
  lock # Nothing =>
    /\ lock.ref <= Target
    /\ \A s \in Series : asked[s] > 0 /\ s <= Target => s <= lock.ref
    /\ Introduces(lock.introduction) /\ Defined(lock.commit)
    /\ Len(lock.sources) = Len(Specs)
    /\ \A n \in DOMAIN Specs :
         /\ Specs[n] \in history[lock.sources[n]].changes
         /\ \A i \in (lock.sources[n] + 1)..lock.commit : Specs[n] \notin history[i].changes

(* The resolver gives up on a history only if it is really out of reach of *)
(* the deepest fetch, whatever the network did at the shallower ones.      *)
GivesUpLast ==
  LET reach == Window(job.head, MaxDepth)
      changes(spec) == {i \in 1..job.head : spec \in history[i].changes}
      introductions == {i \in 1..job.head : Introduces(i)}
  IN
  pc = "failed" =>
    /\ why = "series" => \A s \in Series : asked[s] > 0 => s > Target
    /\ why = "introduction" =>
         introductions = {} \/ Least(introductions) - 1 \notin reach
    /\ why = "compatibility" =>
         \E spec \in SpecNames : \/ changes(spec) = {}
                                 \/ Largest(changes(spec)) - 1 \notin reach
                                 \/ ~history[Largest(changes(spec))].marked

(* Whatever is retried, deepened or swallowed, the commands together take  *)
(* no longer than the total and one pause between two attempts.            *)
InTime == now <= Total + Delay

(* What is applied is, byte for byte, what the lock records: of the diff   *)
(* from the parent of the recorded introduction to the recorded head, it   *)
(* has hunks in their places and, at its end, at most the port's own, and  *)
(* the recorded compatibility commits.                                     *)
AppliedIsRecorded ==
  pc = "applied" =>
    LET zen == job.diff IN
    /\ lock # Nothing /\ applied = lock.sha256 /\ applied.sources = lock.sources
    /\ applied.from = zen.from /\ zen.from = lock.introduction - 1
    /\ applied.to = zen.to /\ zen.to = lock.commit
    /\ \A n \in DOMAIN applied.hunks :
         \/ n \in DOMAIN zen.hunks /\ applied.hunks[n] = zen.hunks[n]
         \/ applied.hunks[n] = MigrationSection /\ \A m \in DOMAIN applied.hunks : m <= n

(* The project's policies: of what Zen changes for the symbol the kernel   *)
(* gets everything but THP, the elevator, the base slice and what is tuned *)
(* at run time.  The migration cost it gets, too, exactly if a hunk that   *)
(* stays has it or the last one with the base slice: the lock's            *)
(* migration_cost_ns says 300000 even if neither has.                      *)
Foreign(hunk) ==
  \/ hunk.path \in {"elevator.c", "huge_memory.c"}
  \/ "thp" \in hunk.has \/ "slice" \in hunk.has \/ "runtime" \in hunk.has

SetsCost(zen, n) ==
  /\ OfSymbol(zen[n]) /\ "migration" \in zen[n].has
  /\ \/ Ours(zen[n])
     \/ BaseSlice(zen[n]) /\ \A m \in DOMAIN zen : m > n => ~(OfSymbol(zen[m]) /\ BaseSlice(zen[m]))

PolicyKept ==
  pc = "applied" =>
    LET zen == job.diff.hunks IN
    /\ \A n \in DOMAIN applied.hunks : ~Foreign(applied.hunks[n])
    /\ \A n \in DOMAIN zen :
         "symbol" \in zen[n].has /\ ~Foreign(zen[n])
           => n \in DOMAIN applied.hunks /\ applied.hunks[n] = zen[n]
    /\ Any(applied.hunks, "migration") <=> \E n \in DOMAIN zen : SetsCost(zen, n)

(* A resolution comes to an end, with a patch or with an error, however    *)
(* often it deepens and retries.                                           *)
Ends == Running ~> ~Running
=============================================================================

------------------------------ MODULE Releases ------------------------------
(***************************************************************************)
(* How a build becomes a release: the runs of validate-kernel.yml, one at  *)
(* a time for a branch and cancelled by a newer one, their steps from the  *)
(* kernel of the day to the publication, and install-latest-release.sh,    *)
(* which reads while all that goes on.  A step may fail, a run may be      *)
(* cancelled between any two, and be run again.                            *)
(***************************************************************************)
EXTENDS Integers, Sequences, FiniteSets

CONSTANTS
  Runs,        \* run ids, numbered in the order they are requested
  MaxAttempts, \* bound on the attempts of a run, and
  MaxRerun,    \* on the runs that have more than one
  Branches,
  Days, Feed,  \* what kernel.org lists on each day
  Assets,
  Nothing

-----------------------------------------------------------------------------
(* resolve-latest-stable.py.                                               *)

Numbers(r) == <<r.major, r.minor, r.patch>>
Kernels == {Numbers(r) : r \in UNION {Feed[d] : d \in 1..Days}}

Older(a, b) ==
  \/ a[1] < b[1]
  \/ a[1] = b[1] /\ a[2] < b[2]
  \/ a[1] = b[1] /\ a[2] = b[2] /\ a[3] < b[3]

StableRelease(r) == ~r.rc /\ ~r.iseol /\ r.source /\ r.moniker = "stable"

Candidates(d) == {Numbers(r) : r \in {s \in Feed[d] : StableRelease(s)}}

LatestKernel(d) == CHOOSE k \in Candidates(d) : \A other \in Candidates(d) : ~Older(k, other)

ASSUME ReleaseShape ==
  /\ Runs \subseteq Nat /\ MaxAttempts \in Nat \ {0} /\ MaxRerun \in Nat /\ Days \in Nat \ {0}
  /\ Feed \in [1..Days -> SUBSET [major : Nat, minor : Nat, patch : Nat, rc : BOOLEAN,
                                  moniker : {"mainline", "stable", "longterm"},
                                  source : BOOLEAN, iseol : BOOLEAN]]
  /\ Branches # {} /\ Assets # {}

(* A day's page is finite, so that one of its releases is the newest, and  *)
(* kernel.org never goes back to an older one.                             *)
ASSUME FeedAdvances ==
  /\ \A d \in 1..Days : Candidates(d) # {} =>
       \E k \in Candidates(d) : \A other \in Candidates(d) : ~Older(k, other)
  /\ \A d, e \in 1..Days : d < e /\ Candidates(d) # {} /\ Candidates(e) # {} =>
       ~Older(LatestKernel(e), LatestKernel(d))

-----------------------------------------------------------------------------
(* The steps of a run that matter to its release, and what is kept of runs *)
(* and of releases.                                                        *)
Steps == <<"resolve", "tag", "draft", "upload", "publish">>

Tags == Runs \X (1..MaxAttempts)

RunRecords == [branch : Branches, attempt : 1..MaxAttempts, step : 0..5,
               kernel : Kernels \cup {Nothing}, over : BOOLEAN]

ReleaseRecords == [tag : Tags, branch : Branches, kernel : Kernels, assets : SUBSET Assets]

ASSUME NothingElse == Nothing \notin Tags \cup RunRecords \cup ReleaseRecords

VARIABLES
  day,
  runs,     \* Nothing, or how far each run is
  tags,     \* pushed to the repository
  releases, \* by tag
  order,    \* tags in the order of publication; the last is releases/latest
  reader,   \* install-latest-release.sh
  installed

publication == <<tags, releases, order>>
vars == <<day, runs, publication, reader, installed>>

-----------------------------------------------------------------------------
(* GitHub's side of a run.                                                 *)

Requested(branch, attempt) ==
  [branch |-> branch, attempt |-> attempt, step |-> 0, kernel |-> Nothing, over |-> FALSE]

Known(r) == runs[r] # Nothing
Over(r) == Known(r) /\ runs[r].over
Queued(r) == Known(r) /\ ~Over(r) /\ runs[r].step = 0
Going(r) == Known(r) /\ ~Over(r) /\ runs[r].step > 0
At(r, step) == Going(r) /\ Steps[runs[r].step] = step

(* The other runs of its concurrency group.                                *)
Group(r, branch) == {q \in Runs \ {r} : Known(q) /\ runs[q].branch = branch}

Others == <<day, publication, reader, installed>>
Ended(run) ==
  [branch |-> run.branch, attempt |-> run.attempt, step |-> 0, kernel |-> Nothing, over |-> TRUE]

(* A run is asked for: one that waits in its group gives way.  The one     *)
(* that is going is cancelled (Stop), which takes a while.                 *)
Request(r, branch, attempt) ==
  /\ runs' = [q \in Runs |->
       IF q = r THEN Requested(branch, attempt)
       ELSE IF q \in Group(r, branch) /\ Queued(q) THEN Ended(runs[q])
       ELSE runs[q]]
  /\ UNCHANGED Others

Dispatch(r, branch) ==
  /\ ~Known(r) /\ \A q \in Runs : q < r => Known(q)
  /\ Request(r, branch, 1)

Repeated == {q \in Runs : Known(q) /\ runs[q].attempt > 1}

Rerun(r) ==
  /\ Over(r) /\ runs[r].attempt < MaxAttempts
  /\ Cardinality(Repeated \cup {r}) <= MaxRerun
  /\ Request(r, runs[r].branch, runs[r].attempt + 1)

(* Slip: without the group.                                                *)
FreeAlways(r) == TRUE

Free(r) == \A q \in Group(r, runs[r].branch) : ~Going(q)

Start(r) ==
  /\ Queued(r) /\ Free(r)
  /\ runs' = [runs EXCEPT ![r].step = 1]
  /\ UNCHANGED Others

(* A step fails, or the run is cancelled.                                  *)
Stop(r) ==
  /\ Going(r)
  /\ runs' = [runs EXCEPT ![r] = Ended(@)]
  /\ UNCHANGED Others

(* A new day on kernel.org.                                                *)
NextDay == day < Days /\ day' = day + 1 /\ UNCHANGED <<runs, publication, reader, installed>>

-----------------------------------------------------------------------------
(* The steps of validate-kernel.yml.                                       *)

Step(r, step) == At(r, step) /\ UNCHANGED <<day, reader, installed>>

Onward(r) == runs' = [runs EXCEPT ![r].step = @ + 1]

(* The kernel of the day is resolved, and built.                           *)
Resolve(r) ==
  /\ Step(r, "resolve") /\ Candidates(day) # {}
  /\ runs' = [runs EXCEPT ![r].step = @ + 1, ![r].kernel = LatestKernel(day)]
  /\ UNCHANGED publication

(* Slip: the tag of a run.                                                 *)
TagOfRun(r) == <<r, 1>>

(* KERNEL_RELEASE_NAME-sha-runID-attemptN; the run stands for its commit.  *)
Tag(r) == <<r, runs[r].attempt>>

(* Slip: the tag stays in the runner's clone.                              *)
PushedNever(r) == tags

Pushed(r) == tags \cup {Tag(r)}

(* A tag that is taken fails the step.                                     *)
PushTag(r) ==
  /\ Step(r, "tag") /\ Tag(r) \notin tags
  /\ tags' = Pushed(r)
  /\ Onward(r) /\ UNCHANGED <<releases, order>>

(* With the notes of generate-release-notes.py, which fails if the lock is *)
(* incomplete or of another kernel.                                        *)
CreateDraft(r) ==
  /\ Step(r, "draft")
  /\ releases' = [releases EXCEPT ![Tag(r)] =
       [tag |-> Tag(r), branch |-> runs[r].branch, kernel |-> runs[r].kernel, assets |-> {}]]
  /\ Onward(r) /\ UNCHANGED <<tags, order>>

(* Slip: published as soon as the upload has begun.                        *)
UploadedSome(r) == releases[Tag(r)].assets # {}

Uploaded(r) == releases[Tag(r)].assets = Assets

UploadAsset(r) ==
  /\ Step(r, "upload")
  /\ \E asset \in Assets \ releases[Tag(r)].assets :
       releases' = [releases EXCEPT ![Tag(r)].assets = @ \cup {asset}]
  /\ UNCHANGED <<runs, tags, order>>

UploadDone(r) == Step(r, "upload") /\ Uploaded(r) /\ Onward(r) /\ UNCHANGED publication

Publish(r) ==
  /\ Step(r, "publish")
  /\ order' = Append(order, Tag(r))
  /\ runs' = [runs EXCEPT ![r] = Ended(@)]
  /\ UNCHANGED <<tags, releases>>

-----------------------------------------------------------------------------
(* install-latest-release.sh.                                              *)

Away == [at |-> "away", tag |-> Nothing, zip |-> Nothing]
Reading(at, tag, zip) == reader' = [at |-> at, tag |-> tag, zip |-> zip]

LatestTag == order[Len(order)]

Read(at) == reader.at = at /\ UNCHANGED <<day, runs, publication>>

(* The API answers with the tag and its assets at once.                    *)
ApiManifest ==
  /\ Read("away") /\ order # <<>>
  /\ Reading("download", LatestTag, LatestTag) /\ UNCHANGED installed

(* Slip: the assets of what is latest by then.                             *)
AssetsOfLatest(tag) == LatestTag

AssetsOf(tag) == tag

(* The public pages: where releases/latest leads, and then the assets of   *)
(* that tag.                                                               *)
PublicTag ==
  /\ Read("away") /\ order # <<>>
  /\ Reading("assets", LatestTag, Nothing) /\ UNCHANGED installed

PublicAssets ==
  /\ Read("assets")
  /\ Reading("download", reader.tag, AssetsOf(reader.tag)) /\ UNCHANGED installed

(* The archive is tested and its packages compared with SHA256SUMS.        *)
InstallZip ==
  /\ Read("download") /\ reader' = Away
  /\ installed' = releases[reader.zip]

GiveUp == Read(reader.at) /\ reader.at # "away" /\ reader' = Away /\ UNCHANGED installed

-----------------------------------------------------------------------------
Init ==
  /\ day = 1 /\ runs = [r \in Runs |-> Nothing]
  /\ tags = {} /\ order = <<>>
  /\ releases = [t \in Tags |-> Nothing]
  /\ reader = Away /\ installed = Nothing

Workflow(r) ==
  \/ (\E branch \in Branches : Dispatch(r, branch)) \/ Rerun(r) \/ Start(r) \/ Stop(r)
  \/ Resolve(r) \/ PushTag(r) \/ CreateDraft(r) \/ UploadAsset(r) \/ UploadDone(r) \/ Publish(r)

Reader == ApiManifest \/ PublicTag \/ PublicAssets \/ InstallZip \/ GiveUp

Next == (\E r \in Runs : Workflow(r)) \/ NextDay \/ Reader

Spec == Init /\ [][Next]_vars

-----------------------------------------------------------------------------
TypeOK ==
  /\ day \in 1..Days
  /\ runs \in [Runs -> {Nothing} \cup RunRecords]
  /\ tags \subseteq Tags /\ order \in Seq(tags)
  /\ releases \in [Tags -> {Nothing} \cup ReleaseRecords]
  /\ \A t \in Tags : releases[t] # Nothing => t \in tags /\ releases[t].tag = t
  /\ reader \in [at : {"away", "assets", "download"}, tag : tags \cup {Nothing}, zip : tags \cup {Nothing}]
  /\ installed \in {Nothing} \cup ReleaseRecords

(* "Every successful workflow attempt receives its own immutable release": *)
(* no attempt finds its tag taken, however earlier ones of the same run    *)
(* ended, so that a build can always be published.                         *)
TagIsNew ==
  \A r \in Runs : At(r, "tag") => Tag(r) \notin tags

(* The releases of one branch come out in the order of their kernels:      *)
(* whoever follows them is never led back to an older one.                 *)
KernelsInOrder ==
  \A m, n \in DOMAIN order :
    m < n /\ releases[order[m]].branch = releases[order[n]].branch
      => ~Older(releases[order[n]].kernel, releases[order[m]].kernel)

(* The archive that is downloaded is one of the release that the installer *)
(* names, whichever way it found it and whatever is published meanwhile.   *)
DownloadsWhatItNames == reader.zip \in {reader.tag, Nothing}

(* What is published is complete, is never touched again, and is what      *)
(* users install.                                                          *)
FeedOf == INSTANCE ReleaseFeed WITH
  Builds <- ReleaseRecords,
  published <- [n \in DOMAIN order |-> releases[order[n]]]

Implements == FeedOf!Spec
=============================================================================

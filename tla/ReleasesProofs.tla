--------------------------- MODULE ReleasesProofs ---------------------------
(***************************************************************************)
(* For any number of runs, attempts, branches and days, the releases are   *)
(* what ReleaseFeed promises, and those of a branch come out in the order  *)
(* of their kernels.                                                       *)
(***************************************************************************)
EXTENDS Releases, SequenceTheorems, TLAPS

Seen == {LatestKernel(d) : d \in {e \in 1..day : Candidates(e) # {}}}

(* The tag of an attempt is not there before the attempt has pushed it.    *)
TagsFollow ==
  \A t \in tags :
    /\ Known(t[1]) /\ t[2] <= runs[t[1]].attempt
    /\ t[2] = runs[t[1]].attempt => Over(t[1]) \/ (Going(t[1]) /\ runs[t[1]].step >= 3)

(* What a run has at each of its steps.                                    *)
Has(r) ==
  /\ runs[r].step >= 2 => runs[r].kernel \in Seen
  /\ runs[r].step >= 3 => Tag(r) \in tags
  /\ runs[r].step >= 4 =>
       /\ releases[Tag(r)] # Nothing
       /\ releases[Tag(r)].branch = runs[r].branch /\ releases[Tag(r)].kernel = runs[r].kernel
  /\ runs[r].step = 5 => releases[Tag(r)].assets = Assets

Prepared == \A r \in Runs : Going(r) => Has(r)

(* A release is complete, and the run that made it is over.                *)
Complete ==
  \A n \in DOMAIN order :
    /\ releases[order[n]] # Nothing
    /\ releases[order[n]].assets = Assets /\ releases[order[n]].kernel \in Seen
    /\ order[n] = Tag(order[n][1]) => Over(order[n][1])

OneGoing ==
  \A r, q \in Runs : Going(r) /\ Going(q) /\ runs[r].branch = runs[q].branch => r = q

(* No release of its branch is ahead of the kernel a run builds.           *)
NotBehind ==
  \A r \in Runs : \A n \in DOMAIN order :
    Going(r) /\ runs[r].step >= 2 /\ releases[order[n]].branch = runs[r].branch
      => ~Older(runs[r].kernel, releases[order[n]].kernel)

(* What the reader has found is a release.                                 *)
Found ==
  /\ reader.at # "away" => \E n \in DOMAIN order : reader.tag = order[n]
  /\ reader.at = "download" => reader.zip = reader.tag
  /\ reader.at # "download" => reader.zip = Nothing

IInv ==
  /\ TypeOK /\ TagsFollow /\ Prepared /\ Complete
  /\ OneGoing /\ NotBehind /\ KernelsInOrder /\ Found

LEMMA RunTypes ==
  ASSUME TypeOK, NEW r \in Runs, Known(r)
  PROVE  /\ runs[r] \in RunRecords /\ runs[r].branch \in Branches
         /\ runs[r].attempt \in 1..MaxAttempts /\ runs[r].step \in 0..5 /\ runs[r].attempt \in Int
         /\ runs[r].kernel \in Kernels \cup {Nothing} /\ runs[r].over \in BOOLEAN
         /\ Tag(r) \in Tags /\ Tag(r) # Nothing /\ Tag(r)[1] = r /\ Tag(r)[2] = runs[r].attempt
BY NothingElse DEF TypeOK, Known, RunRecords, Tag, Tags

LEMMA OrderTypes ==
  ASSUME TypeOK
  PROVE  /\ Len(order) \in Nat /\ DOMAIN order = 1..Len(order)
         /\ \A n \in DOMAIN order : order[n] \in tags /\ order[n] \in Tags /\ order[n] # Nothing
         /\ \A n \in DOMAIN order : order[n][1] \in Runs /\ order[n][2] \in Nat
BY NothingElse, ReleaseShape DEF TypeOK, Tags

(* The newest of a day is one of kernel.org's.                             *)
LEMMA LatestIsKernel ==
  ASSUME NEW d \in 1..Days, Candidates(d) # {}
  PROVE  LatestKernel(d) \in Candidates(d) /\ LatestKernel(d) \in Kernels
<1>1. LatestKernel(d) \in Candidates(d)
  BY FeedAdvances DEF LatestKernel
<1>2. Candidates(d) \subseteq Kernels
  BY DEF Candidates, Kernels
<1>. QED BY <1>1, <1>2

LEMMA KernelTypes ==
  ASSUME NEW k \in Kernels
  PROVE  k = <<k[1], k[2], k[3]>> /\ k[1] \in Nat /\ k[2] \in Nat /\ k[3] \in Nat
<1>1. PICK r \in UNION {Feed[d] : d \in 1..Days} : k = Numbers(r)
  BY DEF Kernels
<1>2. r \in [major : Nat, minor : Nat, patch : Nat, rc : BOOLEAN,
             moniker : {"mainline", "stable", "longterm"}, source : BOOLEAN, iseol : BOOLEAN]
  BY <1>1, ReleaseShape
<1>. QED BY <1>1, <1>2 DEF Numbers

LEMMA SeenTypes == ASSUME TypeOK PROVE Seen \subseteq Kernels
BY LatestIsKernel, ReleaseShape DEF Seen, TypeOK

(* A kernel resolved today is behind none resolved before.                 *)
LEMMA TodayIsNewest ==
  ASSUME TypeOK, Candidates(day) # {}, NEW k \in Seen
  PROVE  ~Older(LatestKernel(day), k)
<1>1. PICK d \in 1..day : Candidates(d) # {} /\ k = LatestKernel(d)
  BY DEF Seen
<1>2. day \in 1..Days /\ d \in 1..Days /\ Days \in Nat
  BY ReleaseShape DEF TypeOK
<1>3. CASE d < day
  BY <1>1, <1>2, <1>3, FeedAdvances
<1>4. CASE d = day
  <2>1. k \in Kernels
    BY SeenTypes
  <2>. QED BY <1>1, <1>4, <2>1, KernelTypes DEF Older
<1>. QED BY <1>1, <1>2, <1>3, <1>4

-----------------------------------------------------------------------------
(* Runs that end, are asked for, or go on.                                 *)

LEMMA EndedRun ==
  ASSUME NEW run \in RunRecords
  PROVE  /\ Ended(run) \in RunRecords /\ Ended(run).over
         /\ Ended(run).attempt = run.attempt /\ Ended(run).branch = run.branch
BY DEF Ended, RunRecords

LEMMA RequestedRun ==
  ASSUME NEW b \in Branches, NEW a \in 1..MaxAttempts
  PROVE  /\ Requested(b, a) \in RunRecords /\ ~Requested(b, a).over
         /\ Requested(b, a).step = 0 /\ Requested(b, a).attempt = a
BY DEF Requested, RunRecords

(* Nothing that counts has happened when runs were only asked for or ended. *)
Quiet ==
  /\ runs' \in [Runs -> {Nothing} \cup RunRecords]
  /\ UNCHANGED Others
  /\ \A q \in Runs : Going(q)' => runs'[q] = runs[q]
  /\ \A q \in Runs : Known(q) =>
       /\ Known(q)' /\ runs[q].attempt <= runs'[q].attempt
       /\ runs'[q].attempt = runs[q].attempt => Over(q)' \/ runs'[q] = runs[q]

LEMMA DispatchIsQuiet ==
  ASSUME TypeOK, NEW r \in Runs, NEW branch \in Branches, Dispatch(r, branch)
  PROVE  Quiet
<1>1. /\ Requested(branch, 1) \in RunRecords /\ ~Requested(branch, 1).over
      /\ Requested(branch, 1).step = 0
  BY RequestedRun, ReleaseShape
<1>2. runs' \in [Runs -> {Nothing} \cup RunRecords]
  BY <1>1, EndedRun DEF Dispatch, Request, TypeOK, Group, Queued, Known
<1>3. runs'[r] = Requested(branch, 1) /\ ~Going(r)' /\ ~Known(r)
  BY <1>1 DEF Dispatch, Request, Going
<1>4. ASSUME NEW q \in Runs, q # r
      PROVE  runs'[q] = runs[q] \/ (Queued(q) /\ runs'[q] = Ended(runs[q]))
  BY <1>4 DEF Dispatch, Request
<1>5. ASSUME NEW q \in Runs, q # r
      PROVE  /\ Going(q)' => runs'[q] = runs[q]
             /\ Known(q) => /\ Known(q)' /\ runs[q].attempt <= runs'[q].attempt
                            /\ runs'[q].attempt = runs[q].attempt => Over(q)' \/ runs'[q] = runs[q]
  <2>1. CASE runs'[q] = runs[q]
    BY <2>1, RunTypes DEF Known, Going, Over
  <2>2. CASE Queued(q) /\ runs'[q] = Ended(runs[q])
    <3>1. runs[q] \in RunRecords /\ runs[q].attempt \in Int
      BY <2>2, RunTypes DEF Queued
    <3>2. Ended(runs[q]) # Nothing /\ Ended(runs[q]).over /\ Ended(runs[q]).attempt = runs[q].attempt
      BY <3>1, EndedRun, NothingElse
    <3>. QED BY <2>2, <3>1, <3>2 DEF Known, Going, Over
  <2>. QED BY <1>4, <1>5, <2>1, <2>2
<1>6. UNCHANGED Others
  BY DEF Dispatch, Request
<1>. QED BY <1>2, <1>3, <1>5, <1>6 DEF Quiet

LEMMA RerunIsQuiet ==
  ASSUME TypeOK, NEW r \in Runs, Rerun(r)
  PROVE  Quiet
<1>. DEFINE next == Requested(runs[r].branch, runs[r].attempt + 1)
<1>1. /\ runs[r].branch \in Branches /\ runs[r].attempt \in Nat
      /\ runs[r].attempt + 1 \in 1..MaxAttempts
  BY RunTypes, ReleaseShape DEF Rerun, Over
<1>2. /\ next \in RunRecords /\ ~next.over /\ next.step = 0 /\ next.attempt = runs[r].attempt + 1
      /\ next # Nothing
  BY <1>1, RequestedRun, NothingElse
<1>3. runs' \in [Runs -> {Nothing} \cup RunRecords]
  BY <1>2, EndedRun DEF Rerun, Request, TypeOK, Group, Queued, Known
<1>4. runs'[r] = next /\ ~Going(r)' /\ Known(r)'
  BY <1>2 DEF Rerun, Request, Going, Known
<1>5. ASSUME NEW q \in Runs, q # r
      PROVE  runs'[q] = runs[q] \/ (Queued(q) /\ runs'[q] = Ended(runs[q]))
  BY <1>5 DEF Rerun, Request
<1>6. ASSUME NEW q \in Runs, q # r
      PROVE  /\ Going(q)' => runs'[q] = runs[q]
             /\ Known(q) => /\ Known(q)' /\ runs[q].attempt <= runs'[q].attempt
                            /\ runs'[q].attempt = runs[q].attempt => Over(q)' \/ runs'[q] = runs[q]
  <2>1. CASE runs'[q] = runs[q]
    BY <2>1, RunTypes DEF Known, Going, Over
  <2>2. CASE Queued(q) /\ runs'[q] = Ended(runs[q])
    <3>1. runs[q] \in RunRecords /\ runs[q].attempt \in Int
      BY <2>2, RunTypes DEF Queued
    <3>2. Ended(runs[q]) # Nothing /\ Ended(runs[q]).over /\ Ended(runs[q]).attempt = runs[q].attempt
      BY <3>1, EndedRun, NothingElse
    <3>. QED BY <2>2, <3>1, <3>2 DEF Known, Going, Over
  <2>. QED BY <1>5, <1>6, <2>1, <2>2
<1>7. UNCHANGED Others
  BY DEF Rerun, Request
<1>8. runs[r].attempt <= runs'[r].attempt /\ runs'[r].attempt # runs[r].attempt
  BY <1>1, <1>2, <1>4
<1>. QED BY <1>3, <1>4, <1>6, <1>7, <1>8 DEF Quiet

LEMMA StopIsQuiet ==
  ASSUME TypeOK, NEW r \in Runs, Stop(r)
  PROVE  Quiet
<1>1. runs[r] \in RunRecords /\ runs[r].attempt \in Int
  BY RunTypes DEF Stop, Going
<1>2. /\ Ended(runs[r]) \in RunRecords /\ Ended(runs[r]).over /\ Ended(runs[r]) # Nothing
      /\ Ended(runs[r]).attempt = runs[r].attempt
  BY <1>1, EndedRun, NothingElse
<1>3. runs' = [runs EXCEPT ![r] = Ended(runs[r])] /\ UNCHANGED Others
  BY DEF Stop
<1>4. runs' \in [Runs -> {Nothing} \cup RunRecords] /\ runs'[r] = Ended(runs[r])
  BY <1>2, <1>3 DEF TypeOK
<1>5. Over(r)' /\ ~Going(r)' /\ Known(r)' /\ runs'[r].attempt = runs[r].attempt
  BY <1>2, <1>4 DEF Over, Going, Known
<1>6. ASSUME NEW q \in Runs, q # r
      PROVE  runs'[q] = runs[q] /\ (Known(q) => Known(q)' /\ runs[q].attempt \in Int)
  BY <1>3, <1>6, RunTypes DEF Known, TypeOK
<1>. QED BY <1>1, <1>3, <1>4, <1>5, <1>6 DEF Quiet

(* The tag of an attempt that is still the current one has moved as little *)
(* as the run.                                                             *)
LEMMA QuietKeeps ==
  ASSUME IInv, Quiet
  PROVE  IInv'
<1>. USE DEF Quiet, Others, publication
<1>1. TypeOK /\ TypeOK'
  BY DEF IInv, TypeOK
<1>2. \A q \in Runs : Going(q)' => Going(q) /\ runs'[q] = runs[q] /\ Tag(q)' = Tag(q)
  BY DEF Going, Known, Over, Tag
<1>3. TagsFollow'
  <2>1. SUFFICES ASSUME NEW t \in tags
                 PROVE  /\ Known(t[1])' /\ t[2] <= runs'[t[1]].attempt
                        /\ t[2] = runs'[t[1]].attempt =>
                             Over(t[1])' \/ (Going(t[1])' /\ runs'[t[1]].step >= 3)
    BY DEF TagsFollow
  <2>2. t[1] \in Runs /\ t[2] \in Int
    BY <1>1, ReleaseShape DEF TypeOK, Tags
  <2>3. /\ Known(t[1]) /\ t[2] <= runs[t[1]].attempt
        /\ t[2] = runs[t[1]].attempt => Over(t[1]) \/ (Going(t[1]) /\ runs[t[1]].step >= 3)
    BY DEF IInv, TagsFollow
  <2>4. /\ Known(t[1])' /\ runs[t[1]].attempt <= runs'[t[1]].attempt
        /\ runs'[t[1]].attempt = runs[t[1]].attempt => Over(t[1])' \/ runs'[t[1]] = runs[t[1]]
    BY <2>2, <2>3
  <2>5. runs[t[1]].attempt \in Int /\ runs'[t[1]].attempt \in Int
    <3>1. runs[t[1]] \in RunRecords /\ runs'[t[1]] \in RunRecords
      BY <1>1, <2>2, <2>3, <2>4 DEF TypeOK, Known
    <3>. QED BY <3>1 DEF RunRecords
  <2>6. t[2] <= runs'[t[1]].attempt
    BY <2>2, <2>3, <2>4, <2>5
  <2>7. ASSUME t[2] = runs'[t[1]].attempt
        PROVE  Over(t[1])' \/ (Going(t[1])' /\ runs'[t[1]].step >= 3)
    <3>1. runs'[t[1]].attempt = runs[t[1]].attempt /\ t[2] = runs[t[1]].attempt
      BY <2>2, <2>3, <2>4, <2>5, <2>7
    <3>2. CASE runs'[t[1]] = runs[t[1]]
      BY <2>3, <3>1, <3>2 DEF Over, Going, Known
    <3>. QED BY <2>4, <3>1, <3>2
  <2>. QED BY <2>4, <2>6, <2>7
<1>4. Prepared'
  BY <1>2 DEF IInv, Prepared, Has, Seen
<1>5. Complete'
  <2>1. SUFFICES ASSUME NEW n \in DOMAIN order, order[n] = Tag(order[n][1])'
                 PROVE  Over(order[n][1])'
    BY DEF IInv, Complete, Seen
  <2>2. order[n] \in tags /\ order[n][1] \in Runs /\ order[n][2] = runs'[order[n][1]].attempt
    <3>1. order[n] \in tags /\ order[n][1] \in Runs
      BY <1>1, OrderTypes
    <3>2. order' = order
      OBVIOUS
    <3>. HIDE DEF Quiet
    <3>3. order[n] = <<order[n][1], runs'[order[n][1]].attempt>>
      BY <2>1, <3>2 DEF Tag
    <3>. QED BY <3>1, <3>3
  <2>3. Over(order[n][1])' \/ (Going(order[n][1])' /\ runs'[order[n][1]].step >= 3)
    BY <1>3, <2>2 DEF TagsFollow
  <2>4. CASE Going(order[n][1])'
    <3>1. Going(order[n][1]) /\ order[n] = Tag(order[n][1])
      BY <1>2, <2>1, <2>2, <2>4
    <3>2. Over(order[n][1])
      BY <3>1 DEF IInv, Complete
    <3>. QED BY <3>1, <3>2 DEF Going
  <2>. QED BY <2>3, <2>4
<1>6. OneGoing'
  BY <1>2 DEF IInv, OneGoing
<1>7. NotBehind'
  BY <1>2 DEF IInv, NotBehind
<1>8. KernelsInOrder' /\ Found'
  BY DEF IInv, KernelsInOrder, Found
<1>. QED BY <1>1, <1>3, <1>4, <1>5, <1>6, <1>7, <1>8 DEF IInv

-----------------------------------------------------------------------------
(* A run takes a step, and goes on.                                        *)

Advanced(r) ==
  /\ runs' \in [Runs -> {Nothing} \cup RunRecords]
  /\ \A q \in Runs \ {r} : runs'[q] = runs[q]
  /\ \A q \in Runs : /\ Known(q)' <=> Known(q)
                     /\ Over(q)' <=> Over(q)
                     /\ Going(q)' <=> Going(q) \/ q = r
                     /\ Known(q) => /\ Tag(q)' = Tag(q)
                                    /\ runs'[q].attempt = runs[q].attempt
                                    /\ runs'[q].branch = runs[q].branch

LEMMA Advance ==
  ASSUME TypeOK, NEW r \in Runs, Known(r), ~Over(r),
         NEW run \in RunRecords, runs' = [runs EXCEPT ![r] = run],
         run.branch = runs[r].branch, run.attempt = runs[r].attempt, ~run.over, run.step > 0
  PROVE  Advanced(r) /\ runs'[r] = run
<1>1. /\ runs' \in [Runs -> {Nothing} \cup RunRecords]
      /\ runs'[r] = run /\ \A q \in Runs \ {r} : runs'[q] = runs[q]
  BY DEF TypeOK
<1>2. run # Nothing
  BY NothingElse
<1>3. ASSUME NEW q \in Runs
      PROVE  /\ Known(q)' <=> Known(q)
             /\ Over(q)' <=> Over(q)
             /\ Going(q)' <=> Going(q) \/ q = r
             /\ Known(q) => /\ Tag(q)' = Tag(q)
                            /\ runs'[q].attempt = runs[q].attempt
                            /\ runs'[q].branch = runs[q].branch
  <2>1. CASE q = r
    BY <1>1, <1>2, <2>1 DEF Known, Over, Going, Tag
  <2>2. CASE q # r
    BY <1>1, <2>2 DEF Known, Over, Going, Tag
  <2>. QED BY <2>1, <2>2
<1>. QED BY <1>1, <1>3 DEF Advanced

LEMMA TagsDiffer ==
  ASSUME NEW r, NEW q, Tag(r) = Tag(q) PROVE r = q
BY DEF Tag

(* What has been published is not of a run that still goes on.             *)
LEMMA NotPublished ==
  ASSUME IInv, NEW r \in Runs, Going(r), NEW n \in DOMAIN order
  PROVE  order[n] # Tag(r)
<1>1. order[n] = Tag(r) => order[n][1] = r
  BY DEF Tag
<1>. QED BY <1>1 DEF IInv, Complete, Going

(* What another run's step leaves as it is.                                *)
LEMMA AdvancedKeeps ==
  ASSUME IInv, NEW r \in Runs, Advanced(r), runs'[r].step >= runs[r].step,
         runs[r].step \in Int, runs'[r].step \in Int,
         day' = day, order' = order, reader' = reader,
         \A n \in DOMAIN order : releases'[order[n]] = releases[order[n]]
  PROVE  /\ Complete' /\ KernelsInOrder' /\ Found'
         /\ \A t \in tags :
              /\ Known(t[1])' /\ t[2] <= runs'[t[1]].attempt
              /\ t[2] = runs'[t[1]].attempt => Over(t[1])' \/ (Going(t[1])' /\ runs'[t[1]].step >= 3)
         /\ \A q \in Runs \ {r} : Going(q)' => Going(q) /\ runs'[q] = runs[q] /\ Tag(q)' = Tag(q)
<1>1. TypeOK
  BY DEF IInv
<1>2. Seen' = Seen
  BY DEF Seen
<1>3. ASSUME NEW n \in DOMAIN order, order[n] = <<order[n][1], runs'[order[n][1]].attempt>>
      PROVE  Over(order[n][1])'
  <2>1. order[n] \in tags /\ order[n][1] \in Runs
    BY <1>1, OrderTypes
  <2>2. Known(order[n][1])
    BY <2>1 DEF IInv, TagsFollow
  <2>3. order[n] = Tag(order[n][1])
    BY <1>3, <2>1, <2>2 DEF Tag, Advanced
  <2>. QED BY <2>1, <2>3 DEF IInv, Complete, Advanced
<1>4. Complete'
  BY <1>2, <1>3 DEF IInv, Complete, Tag
<1>5. ASSUME NEW t \in tags
      PROVE  /\ Known(t[1])' /\ t[2] <= runs'[t[1]].attempt
             /\ t[2] = runs'[t[1]].attempt => Over(t[1])' \/ (Going(t[1])' /\ runs'[t[1]].step >= 3)
  <2>1. t[1] \in Runs
    BY <1>1 DEF TypeOK, Tags
  <2>2. /\ Known(t[1]) /\ t[2] <= runs[t[1]].attempt
        /\ t[2] = runs[t[1]].attempt => Over(t[1]) \/ (Going(t[1]) /\ runs[t[1]].step >= 3)
    BY DEF IInv, TagsFollow
  <2>3. CASE t[1] = r
    BY <2>1, <2>2, <2>3 DEF Advanced
  <2>4. CASE t[1] # r
    BY <2>1, <2>2, <2>4 DEF Advanced
  <2>. QED BY <2>3, <2>4
<1>6. ASSUME NEW q \in Runs \ {r}, Going(q)'
      PROVE  Going(q) /\ runs'[q] = runs[q] /\ Tag(q)' = Tag(q)
  BY <1>6 DEF Advanced, Going
<1>7. KernelsInOrder' /\ Found'
  BY DEF IInv, KernelsInOrder, Found
<1>. QED BY <1>4, <1>5, <1>6, <1>7

LEMMA StartKeeps ==
  ASSUME IInv, NEW r \in Runs, Start(r)
  PROVE  IInv'
<1>. DEFINE run == [runs[r] EXCEPT !.step = 1]
<1>1. /\ TypeOK /\ Queued(r) /\ Known(r) /\ ~Over(r) /\ ~Going(r) /\ UNCHANGED Others
      /\ runs' = [runs EXCEPT ![r] = run]
  BY DEF IInv, Start, Queued, Going
<1>2. runs[r] \in RunRecords
  BY <1>1, RunTypes
<1>3. /\ run \in RunRecords /\ run.branch = runs[r].branch /\ run.attempt = runs[r].attempt
      /\ run.over = runs[r].over /\ run.step = 1
  BY <1>2 DEF RunRecords
<1>4. ~run.over /\ run.step > 0
  BY <1>1, <1>3 DEF Over
<1>5. Advanced(r) /\ runs'[r] = run
  BY <1>1, <1>3, <1>4, Advance
<1>. HIDE DEF run
<1>. USE DEF Others, publication
<1>6. TypeOK'
  BY <1>1, <1>5 DEF TypeOK, Advanced
<1>7. /\ Complete' /\ KernelsInOrder' /\ Found' /\ TagsFollow'
      /\ \A q \in Runs \ {r} : Going(q)' => Going(q) /\ runs'[q] = runs[q] /\ Tag(q)' = Tag(q)
  BY <1>1, <1>3, <1>5, AdvancedKeeps DEF TagsFollow, Queued
<1>8. Prepared'
  <2>1. ASSUME NEW q \in Runs, q # r, Going(q)'
        PROVE  Has(q)'
    BY <1>1, <1>7, <2>1 DEF IInv, Prepared, Has, Seen
  <2>. QED BY <1>3, <1>5, <2>1 DEF Prepared, Has
<1>9. OneGoing'
  BY <1>1, <1>5 DEF IInv, OneGoing, Start, Free, Group, Going, Advanced
<1>10. NotBehind'
  BY <1>1, <1>3, <1>5, <1>7 DEF IInv, NotBehind
<1>. QED BY <1>6, <1>7, <1>8, <1>9, <1>10 DEF IInv

-----------------------------------------------------------------------------
(* The steps of a run.                                                     *)

LEMMA StepNumbers ==
  ASSUME TypeOK, NEW r \in Runs, Going(r)
  PROVE  /\ At(r, "resolve") => runs[r].step = 1
         /\ At(r, "tag") => runs[r].step = 2
         /\ At(r, "draft") => runs[r].step = 3
         /\ At(r, "upload") => runs[r].step = 4
         /\ At(r, "publish") => runs[r].step = 5
<1>1. runs[r].step \in 1..5
  BY RunTypes DEF Going
<1>. QED BY <1>1 DEF At, Steps

LEMMA NextDayKeeps == ASSUME IInv, NextDay PROVE IInv'
<1>. USE DEF NextDay, publication
<1>1. day \in 1..Days /\ day' \in 1..Days /\ day' = day + 1
  BY ReleaseShape DEF IInv, TypeOK
<1>2. Seen \subseteq Seen'
  BY <1>1 DEF Seen
<1>3. TypeOK'
  BY <1>1 DEF IInv, TypeOK
<1>4. TagsFollow' /\ OneGoing' /\ NotBehind' /\ KernelsInOrder' /\ Found'
  BY DEF IInv, TagsFollow, OneGoing, NotBehind, KernelsInOrder, Found, Known, Over, Going
<1>5. Prepared'
  BY <1>2 DEF IInv, Prepared, Has, Going, Known, Over, Tag
<1>6. Complete'
  BY <1>2 DEF IInv, Complete, Known, Over, Tag
<1>. QED BY <1>3, <1>4, <1>5, <1>6 DEF IInv

LEMMA ResolveKeeps ==
  ASSUME IInv, NEW r \in Runs, Resolve(r)
  PROVE  IInv'
<1>. DEFINE run == [runs[r] EXCEPT !.step = runs[r].step + 1, !.kernel = LatestKernel(day)]
<1>1. /\ TypeOK /\ Going(r) /\ Known(r) /\ ~Over(r) /\ UNCHANGED <<day, publication, reader, installed>>
      /\ runs' = [runs EXCEPT ![r] = run] /\ Candidates(day) # {}
  BY DEF IInv, Resolve, Step, At, Going
<1>2. runs[r] \in RunRecords /\ runs[r].step = 1
  BY <1>1, RunTypes, StepNumbers DEF Resolve, Step
<1>3. day \in 1..Days /\ LatestKernel(day) \in Seen /\ LatestKernel(day) \in Kernels
  BY <1>1, LatestIsKernel, ReleaseShape DEF TypeOK, Seen
<1>4. /\ run \in RunRecords /\ run.branch = runs[r].branch /\ run.attempt = runs[r].attempt
      /\ run.over = runs[r].over /\ run.step = 2 /\ run.kernel = LatestKernel(day)
  <2>1. /\ run.branch = runs[r].branch /\ run.attempt = runs[r].attempt
        /\ run.step = 2 /\ run.kernel = LatestKernel(day)
    BY <1>2 DEF RunRecords
  <2>2. run.over = runs[r].over
    BY <1>2 DEF RunRecords
  <2>3. run \in RunRecords
    <3>. DEFINE stepped == [runs[r] EXCEPT !.step = runs[r].step + 1]
    <3>1. stepped \in RunRecords
      BY <1>2 DEF RunRecords
    <3>2. \A other \in RunRecords : [other EXCEPT !.kernel = LatestKernel(day)] \in RunRecords
      BY <1>3 DEF RunRecords
    <3>3. run = [stepped EXCEPT !.kernel = LatestKernel(day)]
      OBVIOUS
    <3>. QED BY <3>1, <3>2, <3>3
  <2>. QED BY <2>1, <2>2, <2>3
<1>5. ~run.over /\ run.step > 0
  BY <1>1, <1>4 DEF Over
<1>6. Advanced(r) /\ runs'[r] = run
  BY <1>1, <1>4, <1>5, Advance
<1>. HIDE DEF run
<1>. USE DEF publication
<1>7. TypeOK'
  BY <1>1, <1>6 DEF TypeOK, Advanced
<1>8. /\ Complete' /\ KernelsInOrder' /\ Found' /\ TagsFollow'
      /\ \A q \in Runs \ {r} : Going(q)' => Going(q) /\ runs'[q] = runs[q] /\ Tag(q)' = Tag(q)
  BY <1>1, <1>2, <1>4, <1>6, AdvancedKeeps DEF TagsFollow
<1>9. Prepared'
  <2>1. ASSUME NEW q \in Runs, q # r, Going(q)'
        PROVE  Has(q)'
    BY <1>1, <1>8, <2>1 DEF IInv, Prepared, Has, Seen
  <2>2. Has(r)'
    BY <1>1, <1>3, <1>4, <1>6 DEF Has, Seen
  <2>. QED BY <2>1, <2>2 DEF Prepared
<1>10. OneGoing'
  BY <1>1, <1>6 DEF IInv, OneGoing, Going, Advanced
<1>11. NotBehind'
  <2>1. \A n \in DOMAIN order : ~Older(LatestKernel(day), releases[order[n]].kernel)
    BY <1>1, TodayIsNewest DEF IInv, Complete
  <2>. QED BY <1>1, <1>4, <1>6, <1>8, <2>1 DEF IInv, NotBehind
<1>. QED BY <1>7, <1>8, <1>9, <1>10, <1>11 DEF IInv

LEMMA PushTagKeeps ==
  ASSUME IInv, NEW r \in Runs, PushTag(r)
  PROVE  IInv'
<1>. DEFINE run == [runs[r] EXCEPT !.step = runs[r].step + 1]
<1>1. /\ TypeOK /\ Going(r) /\ Known(r) /\ ~Over(r) /\ UNCHANGED <<day, releases, order, reader, installed>>
      /\ runs' = [runs EXCEPT ![r] = run] /\ tags' = tags \cup {Tag(r)}
  BY DEF IInv, PushTag, Step, At, Going, Onward, Pushed
<1>2. runs[r] \in RunRecords /\ runs[r].step = 2
  BY <1>1, RunTypes, StepNumbers DEF PushTag, Step
<1>3. /\ run \in RunRecords /\ run.branch = runs[r].branch /\ run.attempt = runs[r].attempt
      /\ run.over = runs[r].over /\ run.step = 3 /\ run.kernel = runs[r].kernel
  BY <1>2 DEF RunRecords
<1>4. ~run.over /\ run.step > 0
  BY <1>1, <1>3 DEF Over
<1>5. Advanced(r) /\ runs'[r] = run
  BY <1>1, <1>3, <1>4, Advance
<1>. HIDE DEF run
<1>6. Tag(r) \in Tags /\ Tag(r)[1] = r /\ Tag(r)[2] = runs[r].attempt /\ runs[r].attempt \in Int
  BY <1>1, RunTypes
<1>7. TypeOK'
  <2>1. order \in Seq(tags')
    BY <1>1 DEF TypeOK
  <2>. QED BY <1>1, <1>5, <1>6, <2>1 DEF TypeOK, Advanced
<1>8. /\ Complete' /\ KernelsInOrder' /\ Found'
      /\ \A t \in tags :
           /\ Known(t[1])' /\ t[2] <= runs'[t[1]].attempt
           /\ t[2] = runs'[t[1]].attempt => Over(t[1])' \/ (Going(t[1])' /\ runs'[t[1]].step >= 3)
      /\ \A q \in Runs \ {r} : Going(q)' => Going(q) /\ runs'[q] = runs[q] /\ Tag(q)' = Tag(q)
  BY <1>1, <1>2, <1>3, <1>5, AdvancedKeeps
<1>9. TagsFollow'
  BY <1>1, <1>3, <1>5, <1>6, <1>8 DEF TagsFollow, Advanced
<1>10. Prepared'
  <2>1. ASSUME NEW q \in Runs, q # r, Going(q)'
        PROVE  Has(q)'
    BY <1>1, <1>8, <2>1 DEF IInv, Prepared, Has, Seen
  <2>2. Tag(r)' = Tag(r) /\ Has(r)
    BY <1>1, <1>5 DEF IInv, Prepared, Advanced
  <2>3. Has(r)'
    BY <1>1, <1>2, <1>3, <1>5, <2>2 DEF Has, Seen
  <2>. QED BY <2>1, <2>3 DEF Prepared
<1>11. OneGoing'
  BY <1>1, <1>5 DEF IInv, OneGoing, Going, Advanced
<1>12. NotBehind'
  BY <1>1, <1>2, <1>3, <1>5, <1>8 DEF IInv, NotBehind
<1>. QED BY <1>7, <1>8, <1>9, <1>10, <1>11, <1>12 DEF IInv

LEMMA CreateDraftKeeps ==
  ASSUME IInv, NEW r \in Runs, CreateDraft(r)
  PROVE  IInv'
<1>. DEFINE run == [runs[r] EXCEPT !.step = runs[r].step + 1]
            draft == [tag |-> Tag(r), branch |-> runs[r].branch, kernel |-> runs[r].kernel, assets |-> {}]
<1>1. /\ TypeOK /\ Going(r) /\ Known(r) /\ ~Over(r) /\ UNCHANGED <<day, tags, order, reader, installed>>
      /\ runs' = [runs EXCEPT ![r] = run] /\ releases' = [releases EXCEPT ![Tag(r)] = draft]
  BY DEF IInv, CreateDraft, Step, At, Going, Onward
<1>2. runs[r] \in RunRecords /\ runs[r].step = 3
  BY <1>1, RunTypes, StepNumbers DEF CreateDraft, Step
<1>3. /\ run \in RunRecords /\ run.branch = runs[r].branch /\ run.attempt = runs[r].attempt
      /\ run.over = runs[r].over /\ run.step = 4 /\ run.kernel = runs[r].kernel
  BY <1>2 DEF RunRecords
<1>4. ~run.over /\ run.step > 0
  BY <1>1, <1>3 DEF Over
<1>5. Advanced(r) /\ runs'[r] = run
  BY <1>1, <1>3, <1>4, Advance
<1>. HIDE DEF run
<1>6. Tag(r) \in Tags /\ Tag(r) \in tags /\ runs[r].kernel \in Kernels /\ Tag(r)' = Tag(r)
  <2>1. Has(r)
    BY <1>1 DEF IInv, Prepared
  <2>. QED BY <1>1, <1>2, <1>5, <2>1, RunTypes, SeenTypes DEF Has, Advanced
<1>7. draft \in ReleaseRecords /\ draft # Nothing /\ draft.tag = Tag(r)
      /\ draft.branch = runs[r].branch /\ draft.kernel = runs[r].kernel
  <2>1. draft \in ReleaseRecords
    BY <1>2, <1>6 DEF ReleaseRecords, RunRecords
  <2>. QED BY <2>1, NothingElse
<1>. HIDE DEF draft
<1>8. releases'[Tag(r)] = draft /\ \A t \in Tags : t # Tag(r) => releases'[t] = releases[t]
  BY <1>1, <1>6 DEF TypeOK
<1>9. TypeOK'
  <2>1. releases' \in [Tags -> {Nothing} \cup ReleaseRecords]
    BY <1>1, <1>7 DEF TypeOK
  <2>2. \A t \in Tags : releases'[t] # Nothing => t \in tags /\ releases'[t].tag = t
    BY <1>1, <1>6, <1>7, <1>8 DEF TypeOK
  <2>. QED BY <1>1, <1>5, <2>1, <2>2 DEF TypeOK, Advanced
<1>10. \A n \in DOMAIN order : releases'[order[n]] = releases[order[n]]
  BY <1>1, <1>8, OrderTypes, NotPublished
<1>11. /\ Complete' /\ KernelsInOrder' /\ Found' /\ TagsFollow'
       /\ \A q \in Runs \ {r} : Going(q)' => Going(q) /\ runs'[q] = runs[q] /\ Tag(q)' = Tag(q)
  BY <1>1, <1>2, <1>3, <1>5, <1>10, AdvancedKeeps DEF TagsFollow
<1>12. Prepared'
  <2>1. ASSUME NEW q \in Runs, q # r, Going(q)'
        PROVE  Has(q)'
    <3>1. Has(q) /\ Tag(q) # Tag(r) /\ Tag(q) \in Tags
      BY <1>1, <1>11, <2>1, RunTypes, TagsDiffer DEF IInv, Prepared, Going
    <3>. QED BY <1>1, <1>8, <1>11, <2>1, <3>1 DEF Has, Seen
  <2>2. Has(r)
    BY <1>1 DEF IInv, Prepared
  <2>3. Has(r)'
    BY <1>1, <1>2, <1>3, <1>5, <1>6, <1>7, <1>8, <2>2 DEF Has, Seen
  <2>. QED BY <2>1, <2>3 DEF Prepared
<1>13. OneGoing'
  BY <1>1, <1>5 DEF IInv, OneGoing, Going, Advanced
<1>14. NotBehind'
  BY <1>1, <1>2, <1>3, <1>5, <1>10, <1>11 DEF IInv, NotBehind
<1>. QED BY <1>9, <1>11, <1>12, <1>13, <1>14 DEF IInv

LEMMA UploadDoneKeeps ==
  ASSUME IInv, NEW r \in Runs, UploadDone(r)
  PROVE  IInv'
<1>. DEFINE run == [runs[r] EXCEPT !.step = runs[r].step + 1]
<1>1. /\ TypeOK /\ Going(r) /\ Known(r) /\ ~Over(r)
      /\ UNCHANGED <<day, tags, releases, order, reader, installed>>
      /\ runs' = [runs EXCEPT ![r] = run] /\ releases[Tag(r)].assets = Assets
  BY DEF IInv, UploadDone, Uploaded, Step, At, Going, Onward, publication
<1>2. runs[r] \in RunRecords /\ runs[r].step = 4
  BY <1>1, RunTypes, StepNumbers DEF UploadDone, Step
<1>3. /\ run \in RunRecords /\ run.branch = runs[r].branch /\ run.attempt = runs[r].attempt
      /\ run.over = runs[r].over /\ run.step = 5 /\ run.kernel = runs[r].kernel
  BY <1>2 DEF RunRecords
<1>4. ~run.over /\ run.step > 0
  BY <1>1, <1>3 DEF Over
<1>5. Advanced(r) /\ runs'[r] = run
  BY <1>1, <1>3, <1>4, Advance
<1>. HIDE DEF run
<1>6. TypeOK'
  BY <1>1, <1>5 DEF TypeOK, Advanced
<1>7. /\ Complete' /\ KernelsInOrder' /\ Found' /\ TagsFollow'
      /\ \A q \in Runs \ {r} : Going(q)' => Going(q) /\ runs'[q] = runs[q] /\ Tag(q)' = Tag(q)
  BY <1>1, <1>2, <1>3, <1>5, AdvancedKeeps DEF TagsFollow
<1>8. Prepared'
  <2>1. ASSUME NEW q \in Runs, q # r, Going(q)'
        PROVE  Has(q)'
    BY <1>1, <1>7, <2>1 DEF IInv, Prepared, Has, Seen
  <2>2. Has(r) /\ Tag(r)' = Tag(r)
    BY <1>1, <1>5 DEF IInv, Prepared, Advanced
  <2>3. Has(r)'
    BY <1>1, <1>2, <1>3, <1>5, <2>2 DEF Has, Seen
  <2>. QED BY <2>1, <2>3 DEF Prepared
<1>9. OneGoing'
  BY <1>1, <1>5 DEF IInv, OneGoing, Going, Advanced
<1>10. NotBehind'
  BY <1>1, <1>2, <1>3, <1>5, <1>7 DEF IInv, NotBehind
<1>. QED BY <1>6, <1>7, <1>8, <1>9, <1>10 DEF IInv

LEMMA UploadAssetKeeps ==
  ASSUME IInv, NEW r \in Runs, UploadAsset(r)
  PROVE  IInv'
<1>1. PICK asset \in Assets : releases' = [releases EXCEPT ![Tag(r)].assets = @ \cup {asset}]
  BY DEF UploadAsset
<1>2. /\ TypeOK /\ Going(r) /\ Known(r) /\ runs[r].step = 4
      /\ UNCHANGED <<day, runs, tags, order, reader, installed>>
  <2>1. TypeOK /\ Going(r) /\ At(r, "upload")
    BY DEF IInv, UploadAsset, Step, At
  <2>. QED BY <2>1, StepNumbers DEF UploadAsset, Step, Going
<1>3. Has(r) /\ Tag(r) \in Tags
  BY <1>2, RunTypes DEF IInv, Prepared
<1>4. PICK old \in ReleaseRecords : releases[Tag(r)] = old /\ old.tag = Tag(r)
  BY <1>2, <1>3 DEF Has, TypeOK
<1>5. PICK new \in ReleaseRecords :
        /\ releases' = [releases EXCEPT ![Tag(r)] = new]
        /\ new.tag = old.tag /\ new.branch = old.branch /\ new.kernel = old.kernel
  <2>. DEFINE new == [old EXCEPT !.assets = old.assets \cup {asset}]
  <2>1. /\ new \in ReleaseRecords
        /\ new.tag = old.tag /\ new.branch = old.branch /\ new.kernel = old.kernel
    BY DEF ReleaseRecords
  <2>2. releases' = [releases EXCEPT ![Tag(r)] = new]
    BY <1>1, <1>4
  <2>. HIDE DEF new
  <2>. QED BY <2>1, <2>2
<1>6. new # Nothing
  BY NothingElse
<1>7. releases'[Tag(r)] = new /\ \A t \in Tags : t # Tag(r) => releases'[t] = releases[t]
  BY <1>2, <1>3, <1>5 DEF TypeOK
<1>8. TypeOK'
  <2>1. releases' \in [Tags -> {Nothing} \cup ReleaseRecords]
    BY <1>2, <1>5 DEF TypeOK
  <2>2. \A t \in Tags : releases'[t] # Nothing => t \in tags /\ releases'[t].tag = t
    BY <1>2, <1>3, <1>4, <1>5, <1>7 DEF TypeOK, Has
  <2>. QED BY <1>2, <2>1, <2>2 DEF TypeOK
<1>9. \A n \in DOMAIN order : releases'[order[n]] = releases[order[n]]
  BY <1>2, <1>7, OrderTypes, NotPublished
<1>10. TagsFollow' /\ OneGoing' /\ Found'
  BY <1>2 DEF IInv, TagsFollow, OneGoing, Found, Known, Over, Going
<1>11. Complete' /\ NotBehind' /\ KernelsInOrder'
  BY <1>2, <1>9 DEF IInv, Complete, NotBehind, KernelsInOrder, Known, Over, Going, Tag, Seen
<1>12. Prepared'
  <2>1. ASSUME NEW q \in Runs, Going(q)
        PROVE  Has(q)'
    <3>1. Has(q) /\ Tag(q) \in Tags
      BY <1>2, <2>1, RunTypes DEF IInv, Prepared, Going
    <3>2. CASE q = r
      BY <1>2, <1>3, <1>4, <1>5, <1>6, <1>7, <3>2 DEF Has, Seen, Tag
    <3>3. CASE q # r
      BY <1>2, <1>7, <3>1, <3>3, TagsDiffer DEF Has, Seen, Tag
    <3>. QED BY <3>2, <3>3
  <2>. QED BY <1>2, <2>1 DEF Prepared, Going, Known, Over
<1>. QED BY <1>8, <1>10, <1>11, <1>12 DEF IInv

(* The release that comes out is behind none of its branch, and its run is *)
(* over.                                                                   *)
LEMMA PublishKeeps ==
  ASSUME IInv, NEW r \in Runs, Publish(r)
  PROVE  IInv'
<1>. DEFINE last == Len(order) + 1
<1>1. /\ TypeOK /\ Going(r) /\ Known(r) /\ ~Over(r) /\ UNCHANGED <<day, tags, releases, reader, installed>>
      /\ runs' = [runs EXCEPT ![r] = Ended(runs[r])] /\ order' = Append(order, Tag(r))
  BY DEF IInv, Publish, Step, At, Going
<1>2. runs[r] \in RunRecords /\ runs[r].step = 5 /\ Has(r) /\ Tag(r) \in tags
  <2>1. runs[r] \in RunRecords /\ runs[r].step = 5
    BY <1>1, RunTypes, StepNumbers DEF Publish, Step
  <2>. QED BY <1>1, <2>1 DEF IInv, Prepared, Has
<1>3. /\ Ended(runs[r]) \in RunRecords /\ Ended(runs[r]).over /\ Ended(runs[r]) # Nothing
      /\ Ended(runs[r]).attempt = runs[r].attempt
  BY <1>2, EndedRun, NothingElse
<1>4. /\ runs'[r] = Ended(runs[r]) /\ \A q \in Runs \ {r} : runs'[q] = runs[q]
      /\ runs' \in [Runs -> {Nothing} \cup RunRecords]
  BY <1>1, <1>3 DEF TypeOK
<1>5. Known(r)' /\ Over(r)' /\ ~Going(r)' /\ Tag(r)' = Tag(r)
  BY <1>3, <1>4 DEF Known, Over, Going, Tag
<1>6. \A q \in Runs \ {r} : /\ Known(q)' <=> Known(q)
                            /\ Over(q)' <=> Over(q)
                            /\ Going(q)' <=> Going(q)
                            /\ Tag(q)' = Tag(q)
  BY <1>4 DEF Known, Over, Going, Tag
<1>7. /\ Len(order) \in Nat /\ DOMAIN order = 1..Len(order) /\ DOMAIN order' = 1..last
      /\ order'[last] = Tag(r) /\ \A n \in DOMAIN order : order'[n] = order[n]
      /\ \A n \in DOMAIN order' : n \in DOMAIN order \/ n = last
      /\ order' \in Seq(tags)
  BY <1>1, <1>2 DEF TypeOK
<1>. HIDE DEF last
<1>8. TypeOK'
  BY <1>1, <1>4, <1>7 DEF TypeOK
<1>9. TagsFollow'
  <2>1. SUFFICES ASSUME NEW t \in tags
                 PROVE  /\ Known(t[1])' /\ t[2] <= runs'[t[1]].attempt
                        /\ t[2] = runs'[t[1]].attempt =>
                             Over(t[1])' \/ (Going(t[1])' /\ runs'[t[1]].step >= 3)
    BY <1>1 DEF TagsFollow
  <2>2. t[1] \in Runs
    BY <1>1 DEF TypeOK, Tags
  <2>3. /\ Known(t[1]) /\ t[2] <= runs[t[1]].attempt
        /\ t[2] = runs[t[1]].attempt => Over(t[1]) \/ (Going(t[1]) /\ runs[t[1]].step >= 3)
    BY DEF IInv, TagsFollow
  <2>4. CASE t[1] = r
    BY <1>3, <1>4, <1>5, <2>3, <2>4
  <2>5. CASE t[1] # r
    BY <1>4, <1>6, <2>2, <2>3, <2>5
  <2>. QED BY <2>4, <2>5
<1>10. Prepared'
  <2>1. ASSUME NEW q \in Runs \ {r}, Going(q)
        PROVE  Has(q)'
    BY <1>1, <1>4, <1>6, <2>1 DEF IInv, Prepared, Has, Seen
  <2>. QED BY <1>5, <1>6, <2>1 DEF Prepared
<1>11. Complete'
  <2>1. SUFFICES ASSUME NEW n \in DOMAIN order'
                 PROVE  /\ releases[order'[n]] # Nothing
                        /\ releases[order'[n]].assets = Assets /\ releases[order'[n]].kernel \in Seen
                        /\ order'[n] = Tag(order[n][1])' => Over(order[n][1])'
    BY <1>1 DEF Complete, Seen
  <2>2. CASE n = last
    <3>1. order'[n] = Tag(r) /\ order'[n][1] = r
      BY <1>7, <2>2 DEF Tag
    <3>. QED BY <1>2, <1>5, <3>1 DEF Has
  <2>3. CASE n \in DOMAIN order
    <3>1. order'[n] = order[n] /\ order[n][1] \in Runs
      BY <1>1, <1>7, <2>3, OrderTypes
    <3>2. order[n] = Tag(order[n][1]) => Over(order[n][1])
      BY <2>3 DEF IInv, Complete
    <3>3. order'[n] = Tag(order[n][1])' => Over(order[n][1])'
      BY <1>5, <1>6, <3>1, <3>2
    <3>. QED BY <2>3, <3>1, <3>3 DEF IInv, Complete
  <2>. QED BY <1>7, <2>2, <2>3
<1>12. OneGoing'
  BY <1>4, <1>5, <1>6 DEF IInv, OneGoing
<1>13. NotBehind'
  <2>1. SUFFICES ASSUME NEW q \in Runs, NEW n \in DOMAIN order', Going(q)', runs'[q].step >= 2,
                        releases[order'[n]].branch = runs'[q].branch
                 PROVE  ~Older(runs'[q].kernel, releases[order'[n]].kernel)
    BY <1>1 DEF NotBehind
  <2>2. q # r /\ Going(q) /\ runs'[q] = runs[q]
    BY <1>4, <1>5, <1>6, <2>1
  <2>3. CASE n = last
    BY <1>1, <1>2, <1>7, <2>1, <2>2, <2>3 DEF IInv, OneGoing, Has
  <2>4. CASE n \in DOMAIN order
    BY <1>7, <2>1, <2>2, <2>4 DEF IInv, NotBehind
  <2>. QED BY <1>7, <2>3, <2>4
<1>14. KernelsInOrder'
  <2>1. SUFFICES ASSUME NEW m \in DOMAIN order', NEW n \in DOMAIN order', m < n,
                        releases[order'[m]].branch = releases[order'[n]].branch
                 PROVE  ~Older(releases[order'[n]].kernel, releases[order'[m]].kernel)
    BY <1>1 DEF KernelsInOrder
  <2>2. m \in DOMAIN order
    BY <1>7, <2>1 DEF last
  <2>3. CASE n = last
    <3>1. order'[n] = Tag(r) /\ order'[m] = order[m]
      BY <1>7, <2>2, <2>3
    <3>. QED BY <1>1, <1>2, <2>1, <2>2, <3>1 DEF IInv, NotBehind, Has
  <2>4. CASE n \in DOMAIN order
    BY <1>7, <2>1, <2>2, <2>4 DEF IInv, KernelsInOrder
  <2>. QED BY <1>7, <2>3, <2>4
<1>15. Found'
  <2>1. ASSUME NEW n \in DOMAIN order, reader.tag = order[n]
        PROVE  n \in DOMAIN order' /\ reader.tag = order'[n]
    BY <1>7, <2>1 DEF last
  <2>2. reader.at # "away" => \E n \in DOMAIN order' : reader.tag = order'[n]
    BY <2>1 DEF IInv, Found
  <2>. QED BY <1>1, <2>2 DEF IInv, Found
<1>. QED BY <1>8, <1>9, <1>10, <1>11, <1>12, <1>13, <1>14, <1>15 DEF IInv

-----------------------------------------------------------------------------
(* The reader.                                                             *)

LEMMA LatestIsPublished ==
  ASSUME TypeOK, order # <<>>
  PROVE  /\ Len(order) \in DOMAIN order /\ LatestTag = order[Len(order)]
         /\ LatestTag \in tags /\ LatestTag # Nothing
<1>1. Len(order) \in DOMAIN order
  BY DEF TypeOK
<1>. QED BY <1>1, OrderTypes DEF LatestTag

LEMMA ReaderKeeps == ASSUME IInv, Reader PROVE IInv'
<1>. USE DEF Read, Reading, Away, publication
<1>1. TypeOK /\ UNCHANGED <<day, runs, tags, releases, order>>
  BY DEF IInv, Reader, ApiManifest, PublicTag, PublicAssets, InstallZip, GiveUp
<1>2. TagsFollow' /\ OneGoing' /\ NotBehind' /\ KernelsInOrder' /\ Prepared' /\ Complete'
  BY <1>1 DEF IInv, TagsFollow, OneGoing, NotBehind, KernelsInOrder, Prepared, Has, Complete,
     Known, Over, Going, Tag, Seen
<1>3. TypeOK' /\ Found'
  <2>1. CASE ApiManifest \/ PublicTag
    BY <1>1, <2>1, LatestIsPublished DEF ApiManifest, PublicTag, TypeOK, Found
  <2>2. CASE PublicAssets
    BY <1>1, <2>2 DEF PublicAssets, AssetsOf, TypeOK, IInv, Found
  <2>3. CASE InstallZip
    <3>1. reader.zip \in tags /\ installed' = releases[reader.zip]
      BY <1>1, <2>3, OrderTypes DEF InstallZip, IInv, Found
    <3>2. installed' \in {Nothing} \cup ReleaseRecords
      BY <1>1, <3>1 DEF TypeOK
    <3>. QED BY <1>1, <2>3, <3>2 DEF InstallZip, TypeOK, Found
  <2>4. CASE GiveUp
    BY <1>1, <2>4 DEF GiveUp, TypeOK, Found
  <2>. QED BY <2>1, <2>2, <2>3, <2>4 DEF Reader
<1>. QED BY <1>2, <1>3 DEF IInv

-----------------------------------------------------------------------------
LEMMA InitHolds == Init => IInv
BY ReleaseShape DEF Init, IInv, TypeOK, TagsFollow, Prepared, Complete, OneGoing, NotBehind,
   KernelsInOrder, Found, Going, Known, Away

LEMMA StepHolds == IInv /\ [Next]_vars => IInv'
<1>. SUFFICES ASSUME IInv, [Next]_vars PROVE IInv'
  OBVIOUS
<1>1. CASE UNCHANGED vars
  BY <1>1 DEF vars, publication, IInv, TypeOK, TagsFollow, Prepared, Has, Complete, OneGoing, NotBehind,
     KernelsInOrder, Found, Known, Over, Going, Tag, Seen
<1>2. ASSUME NEW r \in Runs, Workflow(r)
      PROVE  IInv'
  <2>1. CASE \E branch \in Branches : Dispatch(r, branch)
    BY <2>1, DispatchIsQuiet, QuietKeeps DEF IInv
  <2>2. CASE Rerun(r) \/ Stop(r)
    BY <2>2, RerunIsQuiet, StopIsQuiet, QuietKeeps DEF IInv
  <2>3. CASE Start(r) \/ Resolve(r) \/ PushTag(r) \/ CreateDraft(r)
    BY <2>3, StartKeeps, ResolveKeeps, PushTagKeeps, CreateDraftKeeps
  <2>4. CASE UploadAsset(r) \/ UploadDone(r) \/ Publish(r)
    BY <2>4, UploadAssetKeeps, UploadDoneKeeps, PublishKeeps
  <2>. QED BY <1>2, <2>1, <2>2, <2>3, <2>4 DEF Workflow
<1>. QED BY <1>1, <1>2, NextDayKeeps, ReaderKeeps DEF Next

THEOREM Invariance == Spec => []IInv
<1>. QED BY InitHolds, StepHolds, PTL DEF Spec

(* Runs, tags, releases and the reader keep their types; a release has the *)
(* tag it is filed under, and that tag has been pushed.                    *)
THEOREM TypeCorrect == Spec => []TypeOK
<1>1. IInv => TypeOK
  BY DEF IInv
<1>. QED BY Invariance, <1>1, PTL

(* However often runs are cancelled, fail and are run again, no attempt    *)
(* finds its tag taken.                                                    *)
THEOREM TagsAreNew == Spec => []TagIsNew
<1>1. IInv => TagIsNew
  <2>1. SUFFICES ASSUME IInv, NEW r \in Runs, At(r, "tag"), Tag(r) \in tags
                 PROVE  FALSE
    BY DEF TagIsNew
  <2>2. Going(r) /\ Known(r) /\ runs[r].step = 2
    BY <2>1, StepNumbers DEF At, Going, IInv
  <2>3. Tag(r)[1] = r /\ Tag(r)[2] = runs[r].attempt
    BY DEF Tag
  <2>. QED BY <2>1, <2>2, <2>3 DEF IInv, TagsFollow, Going
<1>. QED BY Invariance, <1>1, PTL

(* One branch's releases never go back to an older kernel, whichever of    *)
(* its runs come to publish.                                               *)
THEOREM BranchInOrder == Spec => []KernelsInOrder
<1>1. IInv => KernelsInOrder
  BY DEF IInv
<1>. QED BY Invariance, <1>1, PTL

(* The archive that the installer downloads is of the release it names.    *)
THEOREM NamesWhatItDownloads == Spec => []DownloadsWhatItNames
<1>1. IInv => DownloadsWhatItNames
  BY DEF IInv, TypeOK, Found, DownloadsWhatItNames
<1>. QED BY Invariance, <1>1, PTL

-----------------------------------------------------------------------------
(* What is published is a feed of complete releases that stay as they are. *)

Bar == [n \in DOMAIN order |-> releases[order[n]]]

(* A step that leaves the order and what it leads to is none of the feed.  *)
LEMMA SameFeed ==
  ASSUME order' = order, \A n \in DOMAIN order : releases'[order[n]] = releases[order[n]]
  PROVE  Bar' = Bar
BY DEF Bar

LEMMA PublishExtends ==
  ASSUME IInv, NEW r \in Runs, Publish(r)
  PROVE  FeedOf!Publish
<1>1. /\ TypeOK /\ Going(r) /\ UNCHANGED <<releases, installed>> /\ order' = Append(order, Tag(r))
  BY DEF IInv, Publish, Step, At
<1>2. runs[r].step = 5 /\ Has(r) /\ Tag(r) \in Tags /\ Tag(r) \in tags
  <2>1. runs[r].step = 5
    BY <1>1, StepNumbers DEF Publish, Step
  <2>. QED BY <1>1, <2>1, RunTypes DEF IInv, Prepared, Has, Going
<1>. DEFINE build == releases[Tag(r)]
<1>3. build \in ReleaseRecords /\ build.assets = Assets /\ build.tag = Tag(r)
  BY <1>1, <1>2 DEF TypeOK, Has
<1>4. ASSUME NEW n \in DOMAIN order
      PROVE  Bar[n].tag # build.tag
  <2>1. order[n] # Tag(r)
    BY <1>1, NotPublished
  <2>2. releases[order[n]] # Nothing /\ order[n] \in Tags
    BY <1>1, OrderTypes DEF IInv, Complete
  <2>3. releases[order[n]].tag = order[n]
    BY <1>1, <2>2 DEF TypeOK
  <2>. QED BY <1>3, <2>1, <2>3 DEF Bar
<1>5. Bar' = Append(Bar, build)
  <2>1. Len(order) \in Nat /\ DOMAIN order = 1..Len(order)
    BY <1>1, OrderTypes
  <2>2. /\ DOMAIN order' = 1..(Len(order) + 1) /\ order'[Len(order) + 1] = Tag(r)
        /\ \A n \in 1..Len(order) : order'[n] = order[n]
    BY <1>1, <1>2 DEF TypeOK
  <2>. DEFINE Every == {Bar[n] : n \in 1..Len(order)} \cup {build}
  <2>3. Bar = [n \in 1..Len(order) |-> Bar[n]] /\ Bar \in Seq(Every) /\ Len(Bar) = Len(order)
    BY <2>1 DEF Bar
  <2>4. Bar' = [n \in 1..(Len(order) + 1) |-> releases[order'[n]]]
    BY <1>1, <2>2 DEF Bar
  <2>5. /\ \A n \in 1..Len(order) : Bar'[n] = Bar[n]
        /\ Bar'[Len(order) + 1] = build
    BY <2>1, <2>2, <2>4 DEF Bar
  <2>. HIDE DEF build
  <2>6. Bar' \in Seq(Every) /\ Len(Bar') = Len(order) + 1
    <3>1. \A n \in 1..(Len(order) + 1) : n \in 1..Len(order) \/ n = Len(order) + 1
      BY <2>1
    <3>2. \A n \in 1..(Len(order) + 1) : Bar'[n] \in Every
      BY <2>5, <3>1
    <3>. QED BY <2>1, <2>4, <3>2
  <2>7. /\ Append(Bar, build) \in Seq(Every) /\ Len(Append(Bar, build)) = Len(order) + 1
        /\ \A n \in 1..Len(order) : Append(Bar, build)[n] = Bar[n]
        /\ Append(Bar, build)[Len(order) + 1] = build
    BY <2>3, AppendProperties
  <2>8. \A n \in 1..(Len(order) + 1) : Bar'[n] = Append(Bar, build)[n]
    <3>1. \A n \in 1..(Len(order) + 1) : n \in 1..Len(order) \/ n = Len(order) + 1
      BY <2>1
    <3>. QED BY <2>5, <2>7, <3>1
  <2>. HIDE DEF Every
  <2>. QED BY <2>6, <2>7, <2>8, SeqEqual
<1>6. DOMAIN Bar = DOMAIN order
  BY DEF Bar
<1>. HIDE DEF build
<1>. QED BY <1>1, <1>3, <1>4, <1>5, <1>6 DEF FeedOf!Publish, FeedOf!Released, Bar

LEMMA InstallIsReleased ==
  ASSUME IInv, InstallZip
  PROVE  FeedOf!Install
<1>1. reader.at = "download" /\ installed' = releases[reader.zip] /\ UNCHANGED <<order, releases>>
  BY DEF InstallZip, Read, publication
<1>2. PICK n \in DOMAIN order : reader.zip = order[n]
  BY <1>1 DEF IInv, Found
<1>3. installed' = Bar[n] /\ n \in DOMAIN Bar
  BY <1>1, <1>2 DEF Bar
<1>4. Bar' = Bar
  BY <1>1, SameFeed
<1>. QED BY <1>3, <1>4 DEF FeedOf!Install, FeedOf!Released, Bar

(* Releases come out complete and stay as they are, and what is installed  *)
(* is one of them, for any number of runs, attempts and branches.          *)
THEOREM Refinement == Spec => Implements
<1>1. Init => FeedOf!Init
  BY DEF Init, FeedOf!Init
<1>2. IInv /\ [Next]_vars => [FeedOf!Next]_(FeedOf!feed)
  <2>. SUFFICES ASSUME IInv, [Next]_vars, ~FeedOf!Publish, ~FeedOf!Install
                PROVE  Bar' = Bar /\ installed' = installed
    BY DEF FeedOf!Next, FeedOf!feed, Bar
  <2>1. CASE UNCHANGED vars
    BY <2>1, SameFeed DEF vars, publication
  <2>2. ASSUME NEW r \in Runs, Workflow(r)
        PROVE  Bar' = Bar /\ installed' = installed
    <3>1. CASE (\E branch \in Branches : Dispatch(r, branch)) \/ Rerun(r) \/ Start(r) \/ Stop(r)
      BY <3>1, SameFeed DEF Dispatch, Rerun, Request, Start, Stop, Others, publication
    <3>2. CASE Resolve(r) \/ PushTag(r) \/ UploadDone(r)
      BY <3>2, SameFeed DEF Resolve, PushTag, UploadDone, Step, publication
    <3>3. CASE CreateDraft(r) \/ UploadAsset(r)
      <4>1. TypeOK /\ Going(r) /\ UNCHANGED <<order, installed>>
        BY <3>3 DEF IInv, CreateDraft, UploadAsset, Step, At
      <4>2. \A t \in Tags : t # Tag(r) => releases'[t] = releases[t]
        BY <3>3, <4>1 DEF CreateDraft, UploadAsset, TypeOK
      <4>3. \A n \in DOMAIN order : releases'[order[n]] = releases[order[n]]
        BY <4>1, <4>2, OrderTypes, NotPublished
      <4>. QED BY <4>1, <4>3, SameFeed
    <3>4. CASE Publish(r)
      BY <3>4, PublishExtends
    <3>. QED BY <2>2, <3>1, <3>2, <3>3, <3>4 DEF Workflow
  <2>3. CASE NextDay
    BY <2>3, SameFeed DEF NextDay, publication
  <2>4. CASE Reader
    <3>1. CASE InstallZip
      BY <3>1, InstallIsReleased
    <3>2. CASE ApiManifest \/ PublicTag \/ PublicAssets \/ GiveUp
      BY <3>2, SameFeed DEF ApiManifest, PublicTag, PublicAssets, GiveUp, Read, publication
    <3>. QED BY <2>4, <3>1, <3>2 DEF Reader
  <2>. QED BY <2>1, <2>2, <2>3, <2>4 DEF Next
<1>. QED BY <1>1, <1>2, Invariance, PTL DEF Spec, Implements, FeedOf!Spec
=============================================================================

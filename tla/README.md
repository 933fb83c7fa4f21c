# TurboDecky GamerPc: verification project

TLA+ models of the parts of this repository that keep state, meet failures or run beside
something else; TLC configurations that check them on small instances; theorems that the TLAPS
proof system checks for every instance. The text-processing parts (kernel patches, the
rewriting of scripts and sources, packaging) are not modelled beyond what they do to that state.

Check a module with `tlc -config MCSwap_safety.cfg MCSwap` (the runs are listed below and in
`PROJECT.json`), its proofs with `tlapm SwapMigrationProofs.tla`.

## 1. The system

The repository builds a patched Debian kernel from whatever upstream has on the day of the
build, publishes it, and ships tools that run on the machine it is installed on.

```
 kernel.org, upstream Git       GitHub Actions runner                    the user's machine
 ------------------------       ---------------------                    ------------------
 resolve-latest-stable.py --> validate-dynamic-patches-local.sh          install-latest-release.sh
                                (preflight: the chain on copies)           |  postinst of turbodecky-tuning
 repositories of patches  --> rewriters -> resolve-patch-sources           +-> configure-gaming-swap
                                -> .resolved-patches (lock, files)         +-> napctl (boot, timer, admin)
                                -> pins -> ports -> build-kernelnote       +-> configure-zram-ir (udev)
                              -> packages -> tag, draft, upload, publish
```

| Component | State it keeps | Operations | Interacts through | What is hard |
|---|---|---|---|---|
| GamingSwap (`packaging/configure-gaming-swap`) | swapfiles, `/proc/swaps`, fstab and its backup, masks under `/etc` | one migration: inventory, prepare, swapon, drain, persist, verify, delete | systemd, the kernel, whoever else touches swap | power cuts and kills between any two steps, runs after runs, RAM that changes, files that change between check and use |
| NapState (`nap-tools/napctl`) | `state`, `state.prev`, the kernel's `weights_cpu` selector and weights, a lock | save, restore, reset, import, export, info | boot service, timer and administrator at once | one selector shared by all commands, crash between two renames, CPU hotplug |
| PatchResolver (`scripts/resolve-patch-sources*.py`) | the cache of repositories of one resolution, `.resolved-patches` | choose a candidate per component, write the lock | upstream repositories that move on | an order on releases and kernels, one commit per repository |
| PatchLockPipeline (`apply-dynamic-patch-sources.py`, `finalize-bore-stable-port*.py`, `validate-resolved-patches.py`, `apply-zarpon-generic-name.py`, `validate-dynamic-patches-local.sh`) | the lock, files, materialized repositories, ports, the pinned scripts | preflight and real pass of the chain | the resolver before it, the build after it | a chain that is killed anywhere and started in the tree it left, a second resolution after the first |
| BuildCore (`build-kernelnote*.sh`) | the work directory | fetch, apply, compile, package | the lock and the pins | a rebuild for another kernel in the same tree |
| LatestKernel (`resolve-latest-stable.py`) | none; kernel.org's page of the day | the newest stable release | the run that builds it | days that pass between two runs |
| ReleaseWorkflow (`.github/workflows`) | tags, drafts, releases | dispatch, cancel, re-run, tag, draft, upload, publish | concurrent runs, LatestKernel, the installer | cancellation between two publishing steps, attempts of the same run |
| BuildStatusRecord (`record-kernel-build-status.yml`) | `last-build-status.json` | one push per event of a run | other recorders | pushes that lose a race (not modelled) |
| InstallLatest (`install-latest-release.sh`) | a temporary directory | find, download, verify, install | releases published meanwhile | two requests that see two moments |
| NapRefresh (`nap-tools/refresh-tools.py`, `install-tools.py`, `build-tuning-package.sh`) | the resolved tools | query, fetch, adapt, swap directories, test, verify, install | upstream, the package build | two renames with a rollback, upstream between query and fetch |
| ZenInteractive (`resolve-zen-interactive*.py`, `port-zen-interactive.py`, `apply-zen-interactive.py`) | a shallow checkout, the patch, a record in the lock | search, deepen, filter, port, record twice, apply | upstream, the lock, the build | what a truncated history seems to say, retries that eat the time of later steps |
| ZramIr (`configure-zram-ir`) | two sysfs attributes | set the compressors | udev and a unit at once | the device is initialized between test and write |
| Rewriters, SourcePorts, Packages, NapServices, Assets | none, or text | one pass | files | anchors in text, out of scope here |

What makes each correct, in a sentence:

- **GamingSwap**: the machine always has swap, now and at the next boot; the kernel never swaps to
  a file that is gone; nothing old is given up before the new file works; originals and user data survive.
- **NapState**: no CPU ever gets what another one learned; a crash at any point leaves a snapshot.
- **PatchResolver**: the newest release, and of it the patch nearest to the kernel.
- **PatchLockPipeline** and **BuildCore**: what is compiled is what the kept lock says, for the
  kernel that is compiled, and from one state of upstream.
- **ZenInteractive**: what is recorded of a clone of a few commits is what the whole history says;
  the resolver gives up only where it must, and in time; what is applied is what is recorded, cut
  by the project's policies.
- **ReleaseWorkflow**, **LatestKernel** and **InstallLatest**: a release is complete before anyone
  sees it and never changes; whoever follows a branch is never led back to an older kernel; no
  attempt is stuck on what an earlier one left; the installer installs what it names.
- **NapRefresh**: a package holds one commit of upstream, adapted and untouched, and a refresh that
  fails leaves the tools it found.

`PROJECT.json` lists the hazards of this code line by line, with the properties that would catch each.

## 2. Modules

| Module | Models | Checked by | Proved in |
|---|---|---|---|
| `SwapMigration` | `configure-gaming-swap` on a machine with an outside world | `MCSwap` | `SwapMigrationProofs`, `SwapHandoverProofs` |
| `SwapHandover` | abstract: what a migration of swap promises | refined by `SwapMigration` | `SwapHandoverProofs` |
| `NapState` | `napctl` run by several processes, and the kernel's selector | `MCNap` | `NapStateProofs` |
| `PatchSelection` | which patch a build takes; whether the finalizer takes it too | `MCSelection` | `PatchSelectionProofs` |
| `PatchLock` | resolution, lock, pins, ports and fetches, with upstream moving | `MCPatchLock` | `PatchLockProofs` |
| `SnapshotBuild` | abstract: a build of one state of upstream | refined by `PatchLock` | `PatchLockProofs` |
| `ZenResolution` | the search in a shallow clone under one deadline, the filters, the record, the application | `MCZen` | `ZenResolutionProofs` |
| `NapRefresh` | the tools of a package, from upstream's head to the package directory | `MCNapRefresh` | `NapRefreshProofs` |
| `Releases` | runs of the workflow from the kernel of the day to the publication, and the installer | `MCReleases` | `ReleasesProofs` |
| `ReleaseFeed` | abstract: what releases promise to whoever installs them | refined by `Releases` | `ReleasesProofs` |

### SwapMigration

`pc` is where `Migration.install()` is; `target`, `created`, `snap`, `units`, `files` are its
locals; `todo` and `victim` the loop it is in. `disk`, `active`, `fstab`, `etc`, `saved`, ...
are the machine. The actions follow the source in its order:

| Action | Code |
|---|---|
| `Start`, `Scan` | `main()`, `active()`, `units()`, `old_files()`: only reads, and a refusal |
| `Prepare`, `Create`, `Undo` | `prepare()`: reuse, refuse or create; the clean-up of its `except` clauses |
| `Swapon`, `Drain` | `install()` 378-389, the target by the inventory, the drain by a fresh `/proc/swaps` |
| `BackupFstab`, `WriteFstab`, `WriteZramPolicy`, `Mask`, `RefuseMask`, `Retire`, `Unmask`, `StartUnit` | `persist()`, one durable write or systemctl call each |
| `Verify`, `CheckOld`, `Unlink`, `Finish` | `install()` 391-413, the check and the unlink being two steps |
| `Abort`, `PowerCycle`, `OutsideSwapon`, `Reuse`, `UpdateRestores` | kill or failing command; reboot, maybe with other RAM; an administrator; a path that becomes user data; an image update |

Abstracted: the text of fstab, units and grub (a set of entries, one of three values per
mask point); the writes of the zram policy are one step, since each only keeps zram down; the
zswap parameters of `runtime()` are only the step `Finish`; the checks of the managed directory
at the head of `prepare()` are left out. A configuration names in `Environment` which outside events exist.

### NapState

Every process has its own `pc`, command and loop. `sel` is `weights_cpu`: reading and writing
weights acts on what is selected *then*, not on what the process selected. `files` is what the
running system sees of `state` and `state.prev`, `older` the views of them a crash may still bring
back, until the directory is synced. A blob is known by whose learning it holds. Actions:
`Begin`, `Acquire` (`main()`); `SelectForRead`, `Read`, `ReadAll` (the loops of save, export and
`kernel_dims()`); `Rotate`, `InstallSnapshot`, `SyncDirectory` (`write_state()`); `Open`,
`SelectForLoad`, `Load`, `LoadFails`, `LoadedAll`, `DefaultStays` (`apply_state()`,
`cmd_restore()`, and import); `Reset`; and outside `Learn`, `Abort`, `Crash`, `Hotplug`, `Rot`.

Abstracted: CPUs are taken in any order, where the code takes them in the order of their numbers; the bytes
of a blob and their validation are "usable or not"; `average` is a pure file operation; the file
export writes is the user's and forgotten; import of a state file takes the steps of restore
with the file given.

### PatchSelection

The state is the upstream of the day, the kernel and the choice; every action is a build (after
a release upstream, after a removal, for another kernel) that chooses anew with `Best`, the
`max()` of `resolve()` over the tuples of `latest_first_candidate_score()`. Python's comparison
of tuples is `TupleLess`. `Accepts` is the finalizer's own test of what was chosen.

Abstracted: a candidate is what its path says (release, kernel target, channel) and matches a
glob of its component; `require_exact_series` and `latest_release_first` are left out, which
restrict or repeat the order that is modelled. Release candidates are among the kernels, since
the scripts and their tests take them; `resolve-latest-stable.py` itself offers final releases
only, although `README.en.md:7-8` says "including release candidates (RCs)" and the workflow
step that runs it (`validate-kernel.yml:72`) says the same.

### PatchLock

`tree` is the repository's scripts, `copy` those of the preflight; `resolved` the directory
`.resolved-patches` with its lock, files, ports and materialized repositories; `temp` the
resolver's memory and temporary directory. A patch is a record of its component, revision and
the kernel a port was made for; a digest is the bytes themselves, and so is the commit of a
materialized repository, which holds one file under fixed author and dates.

| Actions | Code |
|---|---|
| `Begin`, `EndPreflight` | `validate-dynamic-patches-local.sh`: scripts must still be templates; copies; products removed |
| `Rewrite` | `apply-upstream-generic.py` and the other rewriters, which refuse what is rewritten |
| `Resolve`, `RemoveOutput`, `ReplaceOutput` | `resolve()`: component after component with one look per repository; `rmtree`, then `os.replace` |
| `ZramBytes`, `ZramLock` | `port_zram_ir_if_needed()`: the port's bytes, then the lock |
| `Materialize`, `LockSnapshots`, `PinCore`, `PinWrapper` | `apply-dynamic-patch-sources.py` |
| `Validate`, `Validated` | `validate-resolved-patches.py`, before and after the ports |
| `NoBorePort`, `WriteBorePort`, `LockBorePort`, `WriteSchedExtPort`, `LockSchedExtPort`, `FinalizeCore` | `finalize-bore-stable-port.py` |
| `Build` | the fetches and checks of `build-kernelnote-core.sh` and the wrapper |
| `Rebuild`, `Stop`, `Checkout`, `Push` | a build in the tree as it is, for any kernel; a failure or kill at any step; `git checkout` with or without `git clean`; upstream |

Abstracted: which file of a commit a component gets for a kernel is the constant `File` (that is
PatchSelection's subject, as is the test of the series); components at fixed URLs and the Zen
profile are left out. `apply-dynamic-patch-sources.py` returns early on a core that has its marker
(145-146); the chain never reaches that, because the validation script looks for the sentinels
and `apply-upstream-generic.py` refuses what it has rewritten, and the model has those two guards.

### ZenResolution

`history` is what the `zen-sauce` branches contain, a function from a commit's place to what the
resolver looks for in it; 0 is the Linux release below. `heads` is how far each series' branch has
come, `job` the variables of `fetch_profile()`, `now` the time since the resolver began. A fetch of
some depth shows a window of the last commits (`Shown`), whose oldest looks like a root: `git log -S`
and `-G` find in it everything that lies before (`Pickaxe`, `Matches`), and it has no parent.

| Actions | Code |
|---|---|
| `LsRemote`, `InitCheckout`, `FetchDepth` | `official_refs()`, `select_compatible_ref()`, the loop of `fetch_profile()`, one turn per depth |
| `GrepSubject`, `PickaxeDefinition`, `ReadCurrent`, `CheckParent`, `ReadPrevious`, `CheckAgain` | `locate_introduction()` and its checks, a command each |
| `LogPattern`, `ParentOf`, `DiffOfMatch`, `RevParse` | `discover_compatibility_sources()`, one specification after the other |
| `SymbolHistory`, `ReadSymbolFile`, `FullDiff` | the fast resolver's `discover_symbol_files()`, the diff and `filter_symbol_hunks()` |
| `Retry`, `ReadBroken`, `Broken`, `Expired` | `read_file_at()`'s attempts, a network that fails, `_remaining_timeout()` |
| `WriteOutput`, `UpdateLock`, `PreparePatch`, `LockPolicy`, `ApplyProfile` | `main()`, `update_lock()`, `apply_project_policy()`, `apply_zen_interactive_profile()` |
| `Push`, `Begin`, `Stop` | zen-kernel; a build, in new directories; someone stops it |

Every command spends up to its limit or what is left of the total. An error inside the compatibility search is
swallowed and the search deepened (`Raise`); elsewhere it ends the run. A diff is of two commits (`Between`: the parent of the introduction found, and the head), and the
patch cut from it keeps which they are. Filters and port work on its hunks, functions from places to hunks; a hunk is a record of a file and of the marks the regular expressions look for, and keeps its place when others are dropped.
The port asks for run-time policy before it looks for the base slice, as `prepare_patch()` does (194-201), so a hunk with both goes before its migration cost is seen.

Abstracted: the text of hunks and the arithmetic of their headers ("unbalanced" is a hunk whose header
the port refuses); the rewriting of the build script by `apply-zen-interactive.py`, which pins what the lock says; the
provenance file; the refusals that only look at the
number of files or at a compatibility patch's own THP. The base resolver's discovery of files is left out, since the fast one replaces it.

### NapRefresh

`head` is upstream's, `output` the directory `.resolved-nap-tools`, `checkout`, `stage` and
`previous` what lies in the temporary directory. A directory is a record of the commit its files
are from, of what its `UPSTREAM.json` names, and of whether it is adapted and unchanged. `Retry`, `LsRemote`,
`FetchCommit`, `CheckTools`, `Adapt`, `Retire`, `Promote` and `PromoteFails` are `refresh()`; `TestTools` is
`build-tuning-package.sh`; `ReadManifest`, `VerifyHashes` and `Install` are `install-tools.py --require-resolved`.
`Stop` is a kill or an interrupt at any place, `Edit` a person who changes a resolved file, `NoSpace` a full disk.

Abstracted: which files upstream must have, and what the patch needs of them, are the sets `Regular` and `Fitting` of commits; the viewer's build and the archive are left out.

### Releases

| Actions | Code |
|---|---|
| `Dispatch`, `Rerun`, `Start`, `Stop` | the events and the concurrency group of `validate-kernel.yml`: one run of a branch goes, one waits, a newer request replaces the one that waits and cancels the one that goes; GitHub's part is modelled from what the workflow asks of it |
| `NextDay`, `Resolve` | kernel.org's page of the day and `select_latest_release()` |
| `PushTag`, `CreateDraft`, `UploadAsset`, `UploadDone`, `Publish` | "Publish GitHub release" (`validate-kernel.yml:266-302`) |
| `ApiManifest`, `PublicTag`, `PublicAssets`, `InstallZip`, `GiveUp` | `install-latest-release.sh`: one answer of the API, or the two requests of the fallback, then download, tests and installation |

A run is a record of its branch, attempt, step and kernel; a tag is the run and the attempt. The steps before `resolve` and
between it and the tag (build and validation, the subject of `PatchLock`) do nothing to a release but take time and fail,
which `Stop` does at every step. Left out: pull requests, which publish nothing; the installer's checks of names,
architectures and digests, which only refuse (`GiveUp`); and `configure-gaming-swap`, which it runs at its end (SwapMigration).

## 3. Runs

| Run | Question | Result |
|---|---|---|
| `swap_safety` | do swap, fstab, backups and data survive any two outside events in any number of runs? | holds |
| `swap_handover` | is the installer a `SwapHandover`, does it retire nothing before the drain, does it converge? | holds |
| `swap_reuse` | is a file that loses its swap signature after the inventory kept? | violated: finding |
| `nap_lock` | does the lock keep selector, learning and snapshots in order, with kills, crashes, hotplug? | holds |
| `nap_served` | does everyone who waits get served? | holds |
| `nap_info` | and if `info` runs beside a save? | violated: finding |
| `select_latest` | is the newest release taken, and of it the nearest patch? | holds |
| `select_accepted` | is what the resolver prefers something the finalizer accepts? | violated: finding |
| `patch_lock` | is what is compiled locked, for its kernel, and of one state of upstream? | holds |
| `zen_resolve` | is a shallow clone as good as the whole history, does the resolver end in time and give up only where it must, is what is applied recorded and cut by the policies? | holds |
| `nap_refresh` | is a package one adapted commit of upstream, and do failures spare the earlier tools? | holds |
| `releases` | is a release complete when it appears, in order on its branch, never stuck on a tag, and what the installer installs? | holds |

**Bounds, and why they are enough.**

- *Swap*: two legacy files (one at a known and scanned path, one only systemd or `/proc/swaps` can
  tell), one zram device, one partition, two RAM sizes, two outside events. A run handles files
  one by one, so two show every order between them; two sizes give the managed file a second name,
  and a third would only repeat the step from one to another. The number of runs is not bounded:
  `Start` leads back from every resting state. Two events are enough for a crash and the crash of the run that repairs it.
  `swap_handover` takes one size and the events that stop a run, to keep liveness cheap.
  The sizes are symmetric in `swap_safety`, which checks no liveness.
- *Nap*: two CPUs and two processes, two commands each, two events. Every property is about one
  CPU's record in the hands of another, or about two writers; two events give a hotplug or new
  learning and a crash. CPUs and processes are symmetric in `nap_lock` (no liveness there).
  Deadlock is not checked in the Nap runs: when the bounded commands are spent nothing is left to do.
- *Selection*: pools of eleven and five patches on either side of each boundary the order has, any
  four of them published at once. A choice is a maximum, so what can be wrong shows between two candidates;
  the properties compare the choice with one more.
- *Lock*: four components, one of each kind (a file read directly; a patch with a port that
  depends on its target; a patch whose port is always made; one pinned in the wrapper with a
  local port), two repositories with three commits, two kernels. Two components share a
  repository, which is what the cache is for, and commits change both of them or one. Number of runs and kills unbounded.
- *Zen*: three series around the target (older, exact, newer), branches of up to five commits, fetches of
  one, two and four of them. Seven histories put the introduction and the compatibility commits well inside, at the edge of and beyond
  the deepest window, with a revert, a repeated subject, a renamed commit, a symbol dropped at the head and a last match that is not the change. Eleven diffs
  give each filter something to drop, to keep and to refuse, and each way for the migration cost to stay, to be ported, to be taken back by a later hunk or to go with run-time policy. One push during a run moves the head between two depths. The
  total is three units, a fetch two, another command one: a run meets the deadline at every command. Two attempts and two
  faults let a command fail, be retried and fail for good.
- *Nap refresh*: five commits, one without a required file, one the patch does not fit, and four attempts, as the code has. Builds and edits are unbounded.
- *Releases*: two runs with two attempts each on two branches or on one, two days: enough for a run that
  overtakes another, is cancelled by it and is run again afterwards, on another day. Either run or both may be
  on their second attempt (`MaxRerun` is 2). The branches are symmetric, as no liveness is checked here. Two assets show every partial upload. On the second day the first series has reached its end of life, a candidate of the next is
  listed, and a stable kernel without its source, which no run may take.
  Deadlock is not checked: when the bounded runs are over and the days spent, nothing needs to happen.

**Fairness.** `SwapMigration!FairSpec`: weak fairness of the installer as a whole. A started process
runs, and it is started again: the package's postinst runs it at every update, `install-latest-release.sh`
runs it after every installation, and `SWAP.md` tells the user to run it again after an error.
Nothing is assumed of the world. `NapState!FairSpec`: weak fairness of each process's next step, which is
the scheduler's; when commands start is left open. The commands are bounded, so `EveryoneServed` speaks of
locks that are never given back and of everyone waiting, not of starvation by endless new commands, against which `flock` promises nothing.
`ZenResolution` and `NapRefresh`: weak fairness of the script's next step. Every git command
runs under a timeout (`run()` in both), so that it returns, fails or is ended; when builds start, and what upstream does, is left open.
`PatchSelection`, `PatchLock` and `Releases` have no liveness: upstream may always ask for work nobody has done yet, and nothing makes anyone request a run.

**Properties that need a word.**

- `HandsOver`: every step of the installer is one of a handover that drains a device only while another
  is left, never points the next boot from some swap to none, and deletes only what neither uses. The mapping
  reads `kept` off the disk and `boot` off fstab, units and masks.
- `SomethingToRestore` is about every view a crash can bring back, not only about what the system sees.
- `FromOneSnapshot`: the build is as if, at one moment since its run began, every repository had been read at once.
  The components of the model are resolved one after another while upstream moves; that this is still one state
  is the work of the cache, and of the second resolution replacing all of the first.
- `TypeOK` of `PatchLock` says that a lock is complete, and a built patch never a missing one, whatever a kill left behind.
- `GivesUpLast` is the other half of `ShallowIsExact`: an error of a shallow search may be an effect of its
  depth, and is only final at `MaxDepth`. It speaks of depths that double to `MaxDepth` exactly, as the source's constants do (128 to 2048, in four doublings), and of
  histories whose subject line is the introduction's own until its definition is there: a commit that quotes the subject before the symbol exists would be taken
  for the introduction at every depth.
- `InTime`: no command starts after the deadline, none outlasts it, and the pause before a retry is the only time that is not charged: `Total + Delay`.
- `AppliedIsRecorded` compares the applied patch with three things: the bytes the lock's digest stands for; the lock's introduction, head and sources; and the diff that
  was made, of which every hunk that is applied must be one, in its place, or the port's own section at the end.
- `PolicyKept` says of the migration cost exactly when it survives (`SetsCost`): if a hunk that stays has it, or the last hunk dropped for its base slice. That is less than the lock says, see section 4.
- `DoneMeansMigrated` states what the code does and three of the repository's documents promise; a fourth says the opposite, see section 4.
- `KernelsInOrder` is about one branch. Between the main branch and the integration branch the concurrency group
  orders nothing, and `releases/latest` may go from one's newer kernel to the other's older one; no document says otherwise.
- `Implements`: `Publish` is the only step at which the feed grows, by a release that is complete by then; drafts, tags and
  uploads before it, and everything a cancelled run leaves behind, are invisible.

## 4. Findings

1. `swap_reuse`: the deletion loop looks at `/proc/swaps` again but not at the signature, so a path that became user data is deleted.
2. `nap_info`: `info` selects CPUs without the lock and makes a save record one CPU's weights under another's number.
3. `select_accepted`: the resolver's distance has no direction, the finalizer's test has; the build fails beside a patch it could have used.

`PROJECT.json` quotes the lines that each contradicts. Three more disagreements have no run of their own:

- *What the installation does with ZRAM.* `README.en.md:264-275` says "ZRAM is the default swap" and "Zswap remains compiled in but is disabled by default", to be switched by
  `systemd.zram=0 zswap.enabled=1`; lines 89-96 speak of zram's swap as preserved. `configure-gaming-swap` turns ZRAM off for good, enables zswap and leaves one swapfile, as `README.md:268-271`,
  `INSTALL.md:70-75` and `SWAP.md:26-49` say. `DoneMeansMigrated` checks and `DoneIsMigrated` proves what the code does; read as the English README has it, the property is false after every run that ends well.
- *The migration cost.* `apply_project_policy()` records `migration_cost_ns` 300000 (`resolve-zen-interactive-fast.py:107`) and writes "Zen migration cost: 300000 ns" (118), and `prepare_patch()` notes "migration cost
  ported separately" (`port-zen-interactive.py:200`), whatever the diff was. The cost is lost if a later base-slice hunk comes without it (199 assigns the flag anew), or if its hunk is dropped for the bandwidth slice first (194-197).
  The run has both diffs; `PolicyKept` says when the cost is there, and does not say that the record is right.
- *A release without a ZIP.* `README.md:257-258`, `INSTALL.md:5-6` and `README.en.md:253-254` say that all `.deb` assets are downloaded then. The script fails in both ways to find a release (`install-latest-release.sh:53-54`, `122-123`) and ends with an
  error (166). In the model that is `GiveUp`; no property says otherwise.

More cases the models can reach, or just leave out, contradict no property that is run, because the
properties speak of something else or a run leaves the event out:

- *A swapon between the last look and the unlink* (`configure-gaming-swap:394-397`). `swap_reuse` shows the half of this window in which the path becomes user data. The other half, that somebody swaps on just then, is the event `"late"`,
  which `swap_safety` leaves out: `ActiveOnDisk` fails when `"late"` and `"outside"` are allowed, by a swapon between `CheckOld` and `Unlink`.
- *A power cut before `mkswap`.* The managed file has no signature and every later run refuses it (224), until someone removes it. fstab never names it (`FstabNamesRealSwap`); `Convergence` excepts refused files, so it does not say that the migration gets done.
- *An edit between the verification and the copies* of `install-tools.py` (42-48 and 53-76) is not in the model of NapRefresh: `Edit` comes while nothing runs and during the tests, before `install-tools.py` reads the manifest.

- *A damaged `state`.* `write_state()` renames whatever `state` is over `state.prev`. If it was damaged and the save is killed before its second
  rename, the damaged file is the only one left. `Rot` is not in the environment of `nap_lock`.
- *A restore that fails half-way.* `cmd_restore()` says that the default stays, though CPUs before the failing one have been loaded (`DefaultStays`); nothing is
  loaded into the wrong CPU (`LearningStaysHome`), and the next boot starts afresh.
- *An update that restores a masked file.* Its backup name is taken by the first backup, and the next installation stops there until someone decides which to keep
  (`RefuseMask`). `OriginalsBackedUp` shows why it stops, and `Convergence` excepts it.

## 5. Proofs

**SwapMigration** (`SwapMigrationProofs`). For any constants that satisfy the module's assumptions and every environment:
`TypeCorrect`, `ReplacementStays`, `FstabStaysReal`, `SwapNeverLost`, `BackupsStay`. Only `ActiveStaysOnDisk` assumes
`"late" \notin Environment`: nobody swaps on a file between the check of it and its unlink, or overwrites one during a run, which the code cannot exclude
either (finding 1). The properties are not inductive alone: that the target is still active at `verify` depends on no loop ever holding it. `IInv` adds:

- `MadeUnused`: until its swapon, a managed file this run creates is not active, in fstab or in the
  inventory; at its swapon it has a swap area;
- `LoopsSpareTarget`: the target stays active while the loops work; the lists still to be drained,
  retired or deleted never hold it, nor a unit that names it; a managed file being unlinked is not active;
- `ManagedOnDisk`: a managed file that is swapped to has its swap area, since nobody else touches those;
- `FstabFollows`: before the fstab write its managed entries are among the files that exist, and there is
  none before the backup; afterwards its one managed entry is the target.

`PrepareKeeps` and `StepKeeps` show it step by step; four theorems follow from it, of which `SwapNeverLost` and
`BackupsStay` are action properties. `ActiveStaysOnDisk` adds to it that no file being unlinked is active (`VictimUnused`, `OldFilesKeep`).

**SwapHandover** (`SwapHandoverProofs`). What a finished run has done, and the refinement, need to know what the inventory saw. `DInv` adds to `IInv`:

- `UnitsShown`, `NoneMissed`: only a managed unit ever names another file than its own, so that no old file the next boot would use is missed by the inventory;
- `UnitsRetired`: every enabled unit of an old file is still ahead in the loop over the units, and none is left when the managed one is started;
- `BootFollows`: once fstab is written the next boot has the target and nothing old, and the target has the size of the RAM;
- `OldGone`: every old file is still to be deleted or gone.

From it, in every environment: `DoneIsMigrated`, after any number of runs cut off anywhere. `UserDataStays` needs `ListHoldsSwap` besides, that no path on the list of files to
delete holds user data, and the hypothesis `NotReusedLate` (finding 1). `DrainedFirst` needs `Drained`, that the drain loop has every device ahead of it, and that nobody swaps on by hand.
`Handover` proves `HandsOver`: every action of `SwapMigration` is a named action of `SwapHandover` or leaves its variables alone. Its hypothesis `Quiet` is the environment of
`swap_handover`: kills, failing commands, power cuts, image updates and units that show an old file (`stale`). Four events are excluded because the abstract step fails there and not only its proof: a masked unit of the managed file, or
another RAM size, leaves a moment in which the next boot has no swap, after the new fstab and before the unit is unmasked or the next run; swapping on by hand lets one `systemctl stop` both swap off
and change the next boot; user data at a path fstab names takes a device from the next boot. None of them leaves the *running* machine without swap: `SwapNeverLost` has no such hypothesis.

**NapState** (`NapStateProofs`). For any set of CPUs and processes and any bounds. `TypeCorrect` needs no hypothesis: `TInv` adds to the types that a selector
is asked for a CPU only, that what is written is a snapshot (`InHand`), that `info` only reads (`InfoReads`), and that any other command past `wait` owns the lock (`OwnerRuns`).
`SelectorExclusive` and `LearningHome` assume that `info` is not run (finding 2); `IInv` adds that the records of a process are of the CPUs they are filed under (`RecsOwn`). `SelectorHeld` is what makes `RecsOwn` inductive: the weights read are those of the CPU the process
selected because nobody else could move the selector. `Rotates` adds `RotatedOut`: from the rotation to the installation there is no `state`, so that the second rename overwrites nothing; `Rotates` and `AlwaysRestorable` hold whatever commands are run, `info` among them.
`AlwaysRestorable` adds `UnusableTogether`, of what the system sees and of every view a crash can bring back: a `state` that cannot be used has no usable `state.prev` beside it. That holds of another network, which makes all
snapshots useless at once, and not of damage, so that theorem excludes `rot` as the run does (section 4).

**PatchSelection** (`PatchSelectionProofs`). For any pool of candidates, kernels and number of publications. The proof begins with the order: Python's comparison of tuples is irreflexive, transitive and total on tuples of integers
of any lengths (`TupleTransitive`, `TupleTotal`), and so are the scores, tuples of such tuples of one length; two candidates never have equal scores, since the path is the last component. That a finite set has a
best candidate (`BestExists`) follows without induction: the sets of candidates that outscore a given one are ordered by strict inclusion, which is well-founded on finite sets. `IInv` says that
what was chosen outscores everything else that was published. `LatestIsTaken` then rests on `KeyIsRelease`: the tuple that is compared is greater exactly if the release is newer, by the
independent definition `NewerRelease`. `NearestIsTaken` rests on `BetweenIsNearer`: the ordinal's weights order the series, and a series between two others is nearer. It
assumes that version numbers are below 1000 (`BelowThousand`), as the weights 1000000 and 1000 of `resolve-patch-sources-base.py:263-264` do; with a larger number the order of the series and of the ordinals differ.

**ZenResolution** (`ZenResolutionProofs`). For any series, histories, diffs, depths, limits, numbers of faults and of pushes. `IInv` says what the resolver knows at each command:

- `RefChosen`: the branch it chose is the newest at or below the target of those there were when the run began, because branches only grow;
- `CandidateFound`: before the check of the parent the candidate defines the symbol, after the last check it introduces it;
- `SourcesTraced`: every source found so far is the last commit with its change in the whole history up to the head, although the search saw a window only: a match at the window's edge is
  refused, since the edge looks like a root and has no parent;
- `PatchCut`: the patch file, the lock's digest and the lock's sources at each of the four writes between the diff and the kernel.

From it: `TypeCorrect`, `ShallowExact`, `KeepsTime`. `DiffTaken` says of which two commits the diff is, from its making to the application; with `Recorded`, that the lock names the same two,
`AppliesTheRecorded` follows. `KeepsPolicy` follows the hunks through the filter and the port, which the model has as partial functions of the places
of a diff, so that nothing is lost of a hunk's place; `PortedForCost` says when the port adds its section. It assumes nothing of upstream's diffs. `GivesUpRight` adds `SearchInv` (which candidate is looked at, and that depths double) and needs `SubjectIsFirst`: the first
introduction is the first commit with the subject line, or none has it. Least and greatest elements of sets of numbers exist by the well-foundedness of inclusion among finite sets (`LeastExists`, `LargestExists`).

**Releases** (`ReleasesProofs`). For any number of runs, attempts, branches, days and assets, and any number of runs with several attempts (`MaxRerun`), from two assumptions on kernel.org (`FeedAdvances`): a day's page, being
finite, has a newest stable release, and the newest never goes back. `TypeCorrect`, `TagsAreNew`, `BranchInOrder`,
`NamesWhatItDownloads`, and `Refinement`: the workflow and the installer implement `ReleaseFeed`. `IInv` adds:

- `TagsFollow`: a tag belongs to a past attempt of its run, or to the current one, which then is over or past its push. Hence `TagIsNew`;
- `Prepared`: what a run has at each of its steps: a kernel that was resolved, its tag, its draft of that kernel, all assets;
- `Complete`: what is published is complete, of a kernel that was resolved, and its run is over, so that no step of a run that goes on touches it;
- `OneGoing`: a branch has one run at a time, from the guard of `Start`;
- `NotBehind`: a run that has resolved its kernel is behind no release of its branch. `Resolve` establishes it from `FeedAdvances`, and only `Publish` of the same branch could break it, by `OneGoing` the run itself.

Runs that are requested, replaced or cancelled are one lemma (`QuietKeeps`), steps of a run that goes on share another (`AdvancedKeeps`). For
`Refinement` every step but `Publish` and `InstallZip` leaves the published releases as they are, since the release of a run that goes on is not among them (`NotPublished`).

**NapRefresh** (`NapRefreshProofs`). For any history and any number of attempts: `TypeCorrect`, `PackageStaysUpstream`, `FailureSpares`. `IInv` adds `OneCommit`, that
the commit the query returned is what every later place holds and no older than the head when the build began, and `Spared`, that until the second rename the earlier tools are in place or in the
temporary directory's `previous`, where the rollback finds them.

**PatchLock** (`PatchLockProofs`). For any components, repositories, histories and kernels, and any number of commits, runs and kills: `TypeCorrect`,
`LockIsWhatIsBuilt`, `PatchesFitTheirKernel`, and `SnapshotRefinement`: the pipeline implements `SnapshotBuild`. The assumptions (`PipelineShape`) are
those of the manifest and the scripts: BORE and its sched_ext fix are two components, ZRAM-IR has no derived port, and what is read as a file has none either.
`BuiltIsLocked` speaks of the last build only, and a tree that was finished can be built again after any kill or failure, so the invariant has to say what the output
holds at every place of the chain and, once the scripts are final, at every place whatever:

- `Stages`: the repository's scripts are templates until the preflight is over, and are final before a build, so that what is killed on the way is never built;
- `Looked`: the resolver's cache holds commits from between the start of the run and now, and what it has resolved is of those;
- `OneState`: the lock's commits are of one state of each repository; files and digests are that state's bytes for the run's kernel, but for ZRAM-IR;
- `ZramState`: ZRAM-IR's bytes become the local port before its record does, and agree afterwards;
- `Material`: the repositories the build fetches from hold the locked bytes;
- `PortState`: a port is written, then recorded; BORE's exactly if upstream's names another kernel; final scripts know which ports there are.

A rebuild may be for another kernel than the output. That it never gets through is `BuildApplies`: what is applied of BORE names exactly one kernel, upstream's own or its
port's, and by `PortState` that is the output's. For the refinement, `Seen` reads the abstract build's commits back off the lock, which is a function of repositories by `OneState`.

**Only model-checked.** Liveness under fairness: `Convergence`, `EveryoneServed` and `Ends` of `ZenResolution` and `NapRefresh`, since the prover has neither fairness nor `ENABLED`. Every invariant, action property and refinement of a run that
holds is also a theorem. What the theorems assume of the environment is what the runs
leave out of it or less; `GivesUpRight` and `NearestIsTaken` assume of upstream what the constants of `MCZen` and `MCSelection` satisfy. None of the environment's
hypotheses can be dropped: TLC finds each property violated as soon as one of the excluded events is allowed.

## 6. Not modelled, and the plan

Done: all components of section 1 that keep state, but for those below, and the proofs of section 5. Left for the proofs:

1. *SwapHandover* with a masked unit and with RAM that changes, for a weaker abstract step that may leave the next boot without swap until the unit is started.
2. *ZenResolution*: `GivesUpRight` for histories that quote the subject, at the depth where the quoting commit is out of the window.

Not modelled, and why:

- *BuildStatusRecord*: a recorder per event of each run multiplies the states of Releases beyond what TLC can exhaust. By itself it is one push that may be refused, of a record that only people
  read, and no document promises its order.
- *ZramIr*: a short script that udev and a unit start for one device. What could be said of it is that the later of two may fail, which its exit status shows.
- *NapServices*: five `systemctl` commands in a row; the commands they start may come in any order in NapState.
- *Rewriters*, *SourcePorts*, *Packages*, *Assets*: the rewriting of kernel sources and scripts, the assembly of packages, the viewer, the kernel configuration and patches are text in, text out,
  with nothing in between that a state machine would describe. PatchLock has the rewriters as one step that none of them takes twice.

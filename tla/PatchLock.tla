------------------------------ MODULE PatchLock ------------------------------
(***************************************************************************)
(* From upstream to the compiler: how a build resolves its patches, locks  *)
(* them in .resolved-patches, pins the build scripts to the lock, derives  *)
(* the ports and compiles what it pinned.  The chain runs twice, first as  *)
(* a preflight on copies of the scripts, while upstream goes on.  It may   *)
(* fail or be killed anywhere, and be started again in the tree it left.   *)
(*                                                                         *)
(* A patch is a record of the component, the revision of its file and the  *)
(* kernel a port was made for.  A digest is the bytes themselves; so is    *)
(* the commit of a materialized repository, which has one file and fixed   *)
(* author and dates.                                                       *)
(***************************************************************************)
EXTENDS Integers

CONSTANTS
  Order,      \* the components, as the manifest lists them
  Repos,      \* upstream repositories
  RepoOf,     \* the repository of each component
  File,       \* the revision of each component's patch at each commit, for each
              \* kernel (which one that is, PatchSelection says)
  MaxCommits, \* bound on the commits of a repository
  Kernels,    \* kernels that are built, numbered in the order of their release
  Bore, SchedExt, \* the components with a derived port
  Target,     \* the kernel each revision of the BORE patch names
  Zram,       \* the component with a reviewed local port,
  ZramKernels, \* the kernels that take it
  Reviewed,   \* and the upstream revision it stands for
  InWrapper,  \* components that are pinned in the wrapper, not in the core
  Direct,     \* components the build reads as files, past the pins
  Nothing

Components == {Order[i] : i \in DOMAIN Order}
Ported == {Bore, SchedExt}
Commits == 1..MaxCommits
Revisions == {File[c][n][k] : c \in Components, n \in Commits, k \in Kernels}

ASSUME PipelineShape ==
  /\ RepoOf \in [Components -> Repos] /\ MaxCommits \in Nat \ {0}
  /\ Kernels \subseteq Nat /\ Kernels # {} /\ ZramKernels \subseteq Kernels
  /\ Target \in [Revisions -> Nat]
  /\ {Bore, SchedExt, Zram} \subseteq Components
  /\ InWrapper \subseteq Components \ Ported /\ Direct \subseteq Components \ Ported
  /\ Bore # SchedExt /\ Zram \notin Ported \cup Direct

Patches == [of : Components, rev : Revisions, for : Kernels \cup {Nothing}]
Upstream(c, n, k) == [of |-> c, rev |-> File[c][n][k], for |-> Nothing]
PortOf(bytes, k) == [bytes EXCEPT !.for = k]

(* The kernel a patch names in its subject: a port's own, or the target of *)
(* the upstream BORE patch.                                                *)
Subject(bytes, k) == bytes.for = k \/ (bytes.of = Bore /\ bytes.for = Nothing /\ Target[bytes.rev] = k)

Ports == [kernel : Kernels, sha256 : Patches, source_sha256 : Patches]
Records == [commit : Commits, sha256 : Patches, snapshot : Patches \cup {Nothing},
            port : Ports \cup {Nothing}]

ScriptRecords ==
  [stage : {"template", "rewritten", "pinned", "final"},
   pins : [Components -> Patches \cup {Nothing}],
   sha256 : [Ported -> Patches \cup {Nothing}], port : [Ported -> BOOLEAN]]

Outputs ==
  [kernel : Kernels, lock : [Components -> Records], files : [Components -> Patches],
   repos : [Components -> Patches \cup {Nothing}], ports : [Ported -> Patches \cup {Nothing}]]

Builds == [kernel : Kernels, log : [Components -> Records], patches : [Components -> Patches]]

ASSUME NothingElse ==
  Nothing \notin Kernels \cup Commits \cup Patches \cup Ports \cup Records \cup Outputs \cup Builds

-----------------------------------------------------------------------------
VARIABLES
  upstream, \* the head of each repository
  start,    \* what it was when the last run began
  kernel,   \* KERNEL_VERSION of the environment
  pc,
  pass,     \* "preflight" or "real"
  temp,     \* the resolver: commits it has looked at, records it has made
  resolved, \* .resolved-patches
  tree,     \* the build scripts of the repository
  copy,     \* and of the preflight
  built     \* the last build that passed the fetches

resolver == <<temp, resolved>>
scripts == <<tree, copy>>
vars == <<upstream, start, kernel, pc, pass, temp, resolved, tree, copy, built>>

-----------------------------------------------------------------------------
Template == [stage |-> "template", pins |-> [c \in Components |-> Nothing],
             sha256 |-> [c \in Ported |-> Nothing], port |-> [c \in Ported |-> FALSE]]

Empty == [cache |-> [r \in Repos |-> Nothing], lock |-> [c \in Components |-> Nothing]]

(* The scripts this pass rewrites.                                         *)
Script == IF pass = "preflight" THEN copy ELSE tree
Write(s) == IF pass = "preflight" THEN copy' = s /\ UNCHANGED tree
                                  ELSE tree' = s /\ UNCHANGED copy

Goto(from, to) == pc = from /\ pc' = to

-----------------------------------------------------------------------------
Init ==
  /\ upstream = [r \in Repos |-> 1] /\ start = upstream
  /\ kernel \in Kernels
  /\ pc = "idle" /\ pass = "preflight"
  /\ temp = Empty /\ resolved = Nothing
  /\ tree = Template /\ copy = Template /\ built = Nothing

(* Someone pushes to a repository.                                         *)
Push(r) ==
  /\ upstream[r] < MaxCommits
  /\ upstream' = [upstream EXCEPT ![r] = @ + 1]
  /\ UNCHANGED <<start, kernel, pc, pass, resolver, scripts, built>>

(* A run: the kernel of the day, then the validation script, which refuses *)
(* scripts that were rewritten before.                                     *)
Begin ==
  /\ Goto("idle", "rewrite")
  /\ tree.stage = "template"
  /\ kernel' \in {k \in Kernels : k >= kernel}
  /\ start' = upstream
  /\ pass' = "preflight" /\ copy' = tree
  /\ UNCHANGED <<upstream, resolver, tree, built>>

(* The rewriters before the resolution; apply-upstream-generic.py refuses  *)
(* what it has rewritten.                                                  *)
Rewrite ==
  /\ Goto("rewrite", "resolve")
  /\ Script.stage = "template"
  /\ Write([Script EXCEPT !.stage = "rewritten"])
  /\ temp' = Empty
  /\ UNCHANGED <<upstream, start, kernel, pass, resolved, built>>

-----------------------------------------------------------------------------
(* The resolver.                                                           *)

(* The components before one are done, and it is not.                      *)
NextIs(i) ==
  /\ temp.lock[Order[i]] = Nothing
  /\ \A j \in DOMAIN Order : j < i => temp.lock[Order[j]] # Nothing

(* Slip: every component looks for itself.                                 *)
SnapshotAgain(c) == upstream[RepoOf[c]]

(* A repository is looked at once.                                         *)
Snapshot(c) == IF temp.cache[RepoOf[c]] = Nothing THEN upstream[RepoOf[c]] ELSE temp.cache[RepoOf[c]]

Resolve ==
  /\ pc = "resolve"
  /\ \E i \in DOMAIN Order :
       LET c == Order[i]
           commit == Snapshot(c)
       IN /\ NextIs(i)
          /\ temp' = [cache |-> [temp.cache EXCEPT ![RepoOf[c]] = commit],
                      lock |-> [temp.lock EXCEPT ![c] =
                        [commit |-> commit, sha256 |-> Upstream(c, commit, kernel),
                         snapshot |-> Nothing, port |-> Nothing]]]
  /\ UNCHANGED <<upstream, start, kernel, pc, pass, resolved, scripts, built>>

(* The old output is removed, then the new one takes its name.             *)
RemoveOutput ==
  /\ Goto("resolve", "replace")
  /\ \A c \in Components : temp.lock[c] # Nothing
  /\ resolved' = Nothing
  /\ UNCHANGED <<upstream, start, kernel, pass, temp, scripts, built>>

ReplaceOutput ==
  /\ pc = "replace"
  /\ resolved' = [kernel |-> kernel, lock |-> temp.lock,
                  files |-> [c \in Components |-> temp.lock[c].sha256],
                  repos |-> [c \in Components |-> Nothing],
                  ports |-> [c \in Ported |-> Nothing]]
  /\ pc' = IF kernel \in ZramKernels THEN "zram" ELSE "materialize"
  /\ temp' = Empty
  /\ UNCHANGED <<upstream, start, kernel, pass, scripts, built>>

(* port_zram_ir_if_needed(): the bytes, then the lock.                     *)
ZramPort == [of |-> Zram, rev |-> Reviewed, for |-> kernel]

ZramBytes ==
  /\ Goto("zram", "zram lock")
  /\ resolved.lock[Zram].sha256.rev = Reviewed
  /\ resolved' = [resolved EXCEPT !.files[Zram] = ZramPort]
  /\ UNCHANGED <<upstream, start, kernel, pass, temp, scripts, built>>

ZramLock ==
  /\ Goto("zram lock", "materialize")
  /\ resolved' = [resolved EXCEPT !.lock[Zram].sha256 = ZramPort]
  /\ UNCHANGED <<upstream, start, kernel, pass, temp, scripts, built>>

-----------------------------------------------------------------------------
(* apply-dynamic-patch-sources.py.                                         *)

(* Slip: from the repository that was fetched.                             *)
MaterializedFromUpstream(c) == Upstream(c, resolved.lock[c].commit, kernel)

(* One repository per component, from the bytes that are locked.           *)
Materialized(c) == resolved.files[c]

Materialize ==
  /\ Goto("materialize", "lock")
  /\ resolved' = [resolved EXCEPT !.repos = [c \in Components |-> Materialized(c)]]
  /\ UNCHANGED <<upstream, start, kernel, pass, temp, scripts, built>>

LockSnapshots ==
  /\ Goto("lock", "core")
  /\ resolved' = [resolved EXCEPT !.lock =
       [c \in Components |-> [resolved.lock[c] EXCEPT !.snapshot = resolved.repos[c]]]]
  /\ UNCHANGED <<upstream, start, kernel, pass, temp, scripts, built>>

Pinned(set) == [c \in Components |-> IF c \in set THEN resolved.lock[c].snapshot ELSE Script.pins[c]]

PinCore ==
  /\ Goto("core", "wrapper")
  /\ Write([Script EXCEPT !.stage = "pinned", !.pins = Pinned(Components \ InWrapper)])
  /\ UNCHANGED <<upstream, start, kernel, pass, resolver, built>>

PinWrapper ==
  /\ pc = "wrapper"
  /\ Write([Script EXCEPT !.pins = Pinned(InWrapper)])
  /\ pc' = IF pass = "preflight" THEN "bore" ELSE "validate"
  /\ UNCHANGED <<upstream, start, kernel, pass, resolver, built>>

(* validate-resolved-patches.py.                                           *)
Intact ==
  \A c \in Components :
    LET record == resolved.lock[c] IN
      /\ resolved.files[c] = record.sha256
      /\ record.port # Nothing =>
           /\ record.port.source_sha256 = record.sha256
           /\ record.port.kernel = resolved.kernel
           /\ resolved.ports[c] = record.port.sha256

Validate ==
  /\ Goto("validate", "bore")
  /\ Intact
  /\ UNCHANGED <<upstream, start, kernel, pass, resolver, scripts, built>>

-----------------------------------------------------------------------------
(* finalize-bore-stable-port.py.                                           *)

(* The source of a port: of this kernel's lock, authentic, not too new.    *)
Authentic(c) ==
  /\ resolved.kernel = kernel
  /\ resolved.files[c] = resolved.lock[c].sha256
  /\ c = Bore => Target[resolved.files[c].rev] <= kernel

(* An upstream BORE patch for this very kernel is taken as it is.          *)
NoBorePort ==
  /\ Goto("bore", "sched_ext")
  /\ Authentic(Bore)
  /\ Target[resolved.files[Bore].rev] = kernel
  /\ UNCHANGED <<upstream, start, kernel, pass, resolver, scripts, built>>

(* Slip: the lock is written before the port is.                           *)
PortNotWritten(c, at, next) ==
  /\ Goto(at, next)
  /\ Authentic(c)
  /\ UNCHANGED <<upstream, start, kernel, pass, resolver, scripts, built>>

(* The bytes of the port, then its record in the lock.                     *)
WritePort(c, at, next) ==
  /\ Goto(at, next)
  /\ Authentic(c)
  /\ resolved' = [resolved EXCEPT !.ports[c] = PortOf(resolved.files[c], kernel)]
  /\ UNCHANGED <<upstream, start, kernel, pass, temp, scripts, built>>

LockPort(c, at, next) ==
  /\ Goto(at, next)
  /\ resolved' = [resolved EXCEPT !.lock[c].port =
       [kernel |-> kernel, sha256 |-> resolved.ports[c], source_sha256 |-> resolved.lock[c].sha256]]
  /\ UNCHANGED <<upstream, start, kernel, pass, temp, scripts, built>>

WriteBorePort == WritePort(Bore, "bore", "bore lock") /\ Target[resolved.files[Bore].rev] # kernel
LockBorePort == LockPort(Bore, "bore lock", "sched_ext")
WriteSchedExtPort == WritePort(SchedExt, "sched_ext", "sched_ext lock")
LockSchedExtPort == LockPort(SchedExt, "sched_ext lock", "finalize")

FinalizeCore ==
  /\ Goto("finalize", "validate again")
  /\ Write([Script EXCEPT !.stage = "final",
             !.sha256 = [c \in Ported |-> resolved.lock[c].sha256],
             !.port = [c \in Ported |-> resolved.lock[c].port # Nothing]])
  /\ UNCHANGED <<upstream, start, kernel, pass, resolver, built>>

(* The end of the preflight: its products go, and the chain starts anew.   *)
EndPreflight ==
  /\ pass = "preflight" /\ Goto("validate again", "rewrite")
  /\ Intact
  /\ pass' = "real" /\ resolved' = Nothing /\ copy' = Template
  /\ UNCHANGED <<upstream, start, kernel, temp, tree, built>>

Validated ==
  /\ pass = "real" /\ Goto("validate again", "build")
  /\ Intact
  /\ UNCHANGED <<upstream, start, kernel, pass, resolver, scripts, built>>

-----------------------------------------------------------------------------
(* The fetches of the build.                                               *)

(* git fetch of the pinned commit from the materialized repository.        *)
Fetched(c) == tree.pins[c] # Nothing /\ resolved.repos[c] = tree.pins[c]

(* The file that is applied.                                               *)
Applied(c) ==
  CASE c \in Direct -> resolved.files[c]
    [] c \in Ported -> IF tree.port[c] THEN resolved.ports[c] ELSE resolved.files[c]
    [] c \notin Direct \cup Ported -> resolved.repos[c]

(* Slip: any subject will do.                                              *)
NamesSome(c, k) == TRUE

(* The subject of what is applied names the kernel that is compiled.       *)
NamesKernel(c, k) == Subject(Applied(c), k)

Build ==
  /\ Goto("build", "idle")
  /\ resolved # Nothing
  /\ \A c \in Components \ Direct : Fetched(c)
  /\ \A c \in Ported : /\ resolved.repos[c] = tree.sha256[c]
                       /\ Applied(c) # Nothing /\ NamesKernel(c, kernel)
  /\ built' = [kernel |-> kernel, log |-> resolved.lock,
               patches |-> [c \in Components |-> Applied(c)]]
  /\ UNCHANGED <<upstream, start, kernel, pass, resolver, scripts>>

(* build-kernelnote.sh once more in the same tree, whatever the kernel.    *)
Rebuild ==
  /\ Goto("idle", "build")
  /\ tree.stage = "final"
  /\ kernel' \in Kernels
  /\ UNCHANGED <<upstream, start, pass, resolver, scripts, built>>

(* A step fails, or the run is killed: files stay as they are.             *)
Stop ==
  /\ pc # "idle" /\ pc' = "idle"
  /\ temp' = Empty /\ copy' = Template
  /\ UNCHANGED <<upstream, start, kernel, pass, resolved, tree, built>>

(* git checkout of the scripts, with or without git clean.                 *)
Checkout ==
  /\ pc = "idle" /\ tree # Template /\ tree' = Template
  /\ resolved' \in {resolved, Nothing}
  /\ UNCHANGED <<upstream, start, kernel, pc, pass, temp, copy, built>>

Next ==
  \/ \E r \in Repos : Push(r)
  \/ Begin \/ Rewrite
  \/ Resolve \/ RemoveOutput \/ ReplaceOutput \/ ZramBytes \/ ZramLock
  \/ Materialize \/ LockSnapshots \/ PinCore \/ PinWrapper \/ Validate
  \/ NoBorePort \/ WriteBorePort \/ LockBorePort \/ WriteSchedExtPort \/ LockSchedExtPort
  \/ FinalizeCore \/ EndPreflight \/ Validated
  \/ Build \/ Rebuild \/ Stop \/ Checkout

Spec == Init /\ [][Next]_vars

-----------------------------------------------------------------------------
(* A lock is complete from the moment it has its name.                     *)
TypeOK ==
  /\ upstream \in [Repos -> Commits] /\ start \in [Repos -> Commits] /\ kernel \in Kernels
  /\ pc \in {"idle", "rewrite", "resolve", "replace", "zram", "zram lock", "materialize", "lock",
             "core", "wrapper", "validate", "bore", "bore lock", "sched_ext", "sched_ext lock",
             "finalize", "validate again", "build"}
  /\ pass \in {"preflight", "real"}
  /\ temp \in [cache : [Repos -> Commits \cup {Nothing}], lock : [Components -> Records \cup {Nothing}]]
  /\ resolved \in Outputs \cup {Nothing}
  /\ tree \in ScriptRecords /\ copy \in ScriptRecords
  /\ built \in Builds \cup {Nothing}

(* What is compiled is what the lock that is kept with the logs says: its  *)
(* bytes, or the port it records as derived from them (PATCH-SOURCES.md:   *)
(* the lock holds the digest "dos bytes aplicados").                       *)
BuiltIsLocked ==
  built # Nothing =>
    \A c \in Components :
      LET record == built.log[c] IN
        IF record.port = Nothing
        THEN built.patches[c] = record.sha256
        ELSE /\ built.patches[c] = record.port.sha256
             /\ record.port.source_sha256 = record.sha256

(* Patches that are made for one kernel are never compiled into another,   *)
(* though the tree may be built again after KERNEL_VERSION moved on.       *)
BuildsItsKernel ==
  built # Nothing =>
    \A c \in Components :
      built.patches[c].for # Nothing \/ c \in Ported => Subject(built.patches[c], built.kernel)

-----------------------------------------------------------------------------
(* Each build is one of a single state of every repository, not older than *)
(* the run (README.en.md: "On every build, the resolver selects and locks  *)
(* the newest").                                                           *)
Atomic == INSTANCE SnapshotBuild WITH
  patches <- IF built = Nothing THEN Nothing ELSE built.patches,
  target <- IF built = Nothing THEN Nothing ELSE built.kernel

FromOneSnapshot == Atomic!Spec
=============================================================================

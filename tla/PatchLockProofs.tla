-------------------------- MODULE PatchLockProofs --------------------------
(***************************************************************************)
(* Whatever is compiled is what its lock says, made for its kernel and of  *)
(* one state of upstream, for any components, repositories and kernels and *)
(* any number of commits, runs and kills.                                  *)
(***************************************************************************)
EXTENDS PatchLock, TLAPS

Places == {"idle", "rewrite", "resolve", "replace", "zram", "zram lock", "materialize", "lock",
           "core", "wrapper", "validate", "bore", "bore lock", "sched_ext", "sched_ext lock",
           "finalize", "validate again", "build"}

-----------------------------------------------------------------------------
(* Records with some fields replaced.                                      *)

LEMMA UpstreamTypes ==
  ASSUME NEW c \in Components, NEW n \in Commits, NEW k \in Kernels
  PROVE  /\ Upstream(c, n, k) \in Patches /\ Upstream(c, n, k) # Nothing
         /\ Upstream(c, n, k).of = c /\ Upstream(c, n, k).for = Nothing
         /\ Upstream(c, n, k).rev = File[c][n][k]
BY NothingElse DEF Upstream, Patches, Revisions

LEMMA PortTypes ==
  ASSUME NEW bytes \in Patches, NEW k \in Kernels
  PROVE  /\ PortOf(bytes, k) \in Patches /\ PortOf(bytes, k) # Nothing
         /\ PortOf(bytes, k).of = bytes.of /\ PortOf(bytes, k).rev = bytes.rev
         /\ PortOf(bytes, k).for = k
<1>1. /\ PortOf(bytes, k) \in Patches
      /\ PortOf(bytes, k).of = bytes.of /\ PortOf(bytes, k).rev = bytes.rev
      /\ PortOf(bytes, k).for = k
  BY DEF PortOf, Patches
<1>. QED BY <1>1, NothingElse

LEMMA RecordChanged ==
  ASSUME NEW record \in Records
  PROVE  /\ \A bytes \in Patches : [record EXCEPT !.sha256 = bytes] \in Records
         /\ \A bytes \in Patches \cup {Nothing} : [record EXCEPT !.snapshot = bytes] \in Records
         /\ \A port \in Ports : [record EXCEPT !.port = port] \in Records
BY DEF Records

LEMMA OutputChanged ==
  ASSUME NEW out \in Outputs
  PROVE  /\ \A f \in [Components -> Patches] : [out EXCEPT !.files = f] \in Outputs
         /\ \A f \in [Components -> Records] : [out EXCEPT !.lock = f] \in Outputs
         /\ \A f \in [Components -> Patches \cup {Nothing}] : [out EXCEPT !.repos = f] \in Outputs
         /\ \A f \in [Ported -> Patches \cup {Nothing}] : [out EXCEPT !.ports = f] \in Outputs
BY DEF Outputs

LEMMA ScriptChanged ==
  ASSUME NEW script \in ScriptRecords
  PROVE  /\ \A stage \in {"template", "rewritten", "pinned", "final"} :
              [script EXCEPT !.stage = stage] \in ScriptRecords
         /\ \A f \in [Components -> Patches \cup {Nothing}] : [script EXCEPT !.pins = f] \in ScriptRecords
         /\ \A f \in [Ported -> Patches \cup {Nothing}] : [script EXCEPT !.sha256 = f] \in ScriptRecords
         /\ \A f \in [Ported -> BOOLEAN] : [script EXCEPT !.port = f] \in ScriptRecords
BY DEF ScriptRecords

LEMMA TemplateType == Template \in ScriptRecords
BY DEF Template, ScriptRecords

LEMMA EmptyType ==
  Empty \in [cache : [Repos -> Commits \cup {Nothing}], lock : [Components -> Records \cup {Nothing}]]
BY DEF Empty

-----------------------------------------------------------------------------
(* Types.                                                                  *)

LEMMA InitTypes == Init => TypeOK
<1>. SUFFICES ASSUME Init PROVE TypeOK
  OBVIOUS
<1>1. 1 \in Commits
  BY PipelineShape DEF Commits
<1>. QED BY <1>1, TemplateType, EmptyType DEF Init, TypeOK

(* The scripts of this pass, changed or not, are scripts.                  *)
LEMMA WriteTypes ==
  ASSUME TypeOK, NEW s \in ScriptRecords, Write(s)
  PROVE  tree' \in ScriptRecords /\ copy' \in ScriptRecords
BY DEF TypeOK, Write

LEMMA ScriptType == TypeOK => Script \in ScriptRecords
BY DEF TypeOK, Script

LEMMA PinnedType ==
  ASSUME TypeOK, resolved # Nothing, NEW set
  PROVE  Pinned(set) \in [Components -> Patches \cup {Nothing}]
<1>1. \A c \in Components : resolved.lock[c].snapshot \in Patches \cup {Nothing}
  BY DEF TypeOK, Outputs, Records
<1>2. \A c \in Components : Script.pins[c] \in Patches \cup {Nothing}
  BY ScriptType DEF ScriptRecords
<1>. QED BY <1>1, <1>2 DEF Pinned

(* Past the resolution there is an output.                                 *)
Chain == {"zram", "zram lock", "materialize", "lock", "core", "wrapper", "validate", "bore",
          "bore lock", "sched_ext", "sched_ext lock", "finalize", "validate again"}
AfterZram == Chain \ {"zram", "zram lock"}
AfterMaterialize == AfterZram \ {"materialize"}
AfterBore == {"sched_ext", "sched_ext lock", "finalize", "validate again"}
AfterSchedExt == {"finalize", "validate again"}

Final == tree.stage = "final"
Past(places) == pc \in places \/ Final

(* What the scripts of the repository are at each place.                   *)
Stages ==
  /\ pass = "preflight" /\ pc \notin {"idle", "build"} => tree.stage = "template"
  /\ pass = "real" =>
       /\ pc = "rewrite" => tree.stage = "template"
       /\ pc \in {"resolve", "replace", "zram", "zram lock", "materialize", "lock", "core"} =>
            tree.stage = "rewritten"
       /\ pc \in {"wrapper", "validate", "bore", "bore lock", "sched_ext", "sched_ext lock", "finalize"} =>
            tree.stage = "pinned"
       /\ pc = "validate again" => Final
  /\ pc = "build" => Final

(* What the resolver has in hand.                                          *)
Looked ==
  /\ \A r \in Repos : start[r] <= upstream[r]
  /\ pc \in {"resolve", "replace"} =>
       /\ \A r \in Repos : temp.cache[r] # Nothing => temp.cache[r] \in start[r]..upstream[r]
       /\ \A c \in Components : temp.lock[c] # Nothing =>
            /\ temp.cache[RepoOf[c]] # Nothing
            /\ temp.lock[c] = [commit |-> temp.cache[RepoOf[c]],
                               sha256 |-> Upstream(c, temp.cache[RepoOf[c]], kernel),
                               snapshot |-> Nothing, port |-> Nothing]
  /\ pc = "replace" => \A c \in Components : temp.lock[c] # Nothing

Source(c) == Upstream(c, resolved.lock[c].commit, resolved.kernel)

(* The output is of one state of upstream, for the kernel of the run, and  *)
(* what it has of each component but ZRAM-IR are the bytes of upstream.    *)
OneState ==
  Past(Chain) =>
    /\ resolved # Nothing
    /\ pc \in Chain => resolved.kernel = kernel
    /\ \A c \in Components :
         resolved.lock[c].commit \in start[RepoOf[c]]..upstream[RepoOf[c]]
    /\ \A c, d \in Components :
         RepoOf[c] = RepoOf[d] => resolved.lock[c].commit = resolved.lock[d].commit
    /\ \A c \in Components \ {Zram} :
         resolved.files[c] = Source(c) /\ resolved.lock[c].sha256 = Source(c)
    /\ \A c \in Components \ Ported : resolved.lock[c].port = Nothing

(* ZRAM-IR's bytes become the local port before its record does.           *)
LocalPort == [of |-> Zram, rev |-> Source(Zram).rev, for |-> resolved.kernel]

ZramState ==
  /\ pc \in {"zram", "zram lock"} =>
       resolved.kernel \in ZramKernels /\ resolved.lock[Zram].sha256 = Source(Zram)
  /\ pc = "zram" => resolved.files[Zram] = Source(Zram)
  /\ pc = "zram lock" => resolved.files[Zram] = LocalPort /\ Source(Zram).rev = Reviewed
  /\ Past(AfterZram) =>
       /\ resolved.files[Zram] =
            IF resolved.kernel \in ZramKernels THEN LocalPort ELSE Source(Zram)
       /\ resolved.lock[Zram].sha256 = resolved.files[Zram]

(* The repositories the build fetches from hold the locked bytes.          *)
Material ==
  Past(AfterMaterialize) => \A c \in Components : resolved.repos[c] = resolved.files[c]

PortRecord(c) ==
  [kernel |-> resolved.kernel, sha256 |-> resolved.ports[c], source_sha256 |-> resolved.lock[c].sha256]

HasPort(c) ==
  /\ resolved.ports[c] = PortOf(Source(c), resolved.kernel)
  /\ resolved.lock[c].port = PortRecord(c)

Own == Target[Source(Bore).rev] = resolved.kernel

(* A port is written, then recorded; BORE's only if upstream has none for  *)
(* this kernel.                                                            *)
PortState ==
  /\ pc \in Chain \ AfterBore => resolved.lock[Bore].port = Nothing
  /\ pc = "bore lock" => ~Own /\ resolved.ports[Bore] = PortOf(Source(Bore), resolved.kernel)
  /\ Past(AfterBore) => IF Own THEN resolved.lock[Bore].port = Nothing ELSE HasPort(Bore)
  /\ pc \in Chain \ AfterSchedExt => resolved.lock[SchedExt].port = Nothing
  /\ pc = "sched_ext lock" => resolved.ports[SchedExt] = PortOf(Source(SchedExt), resolved.kernel)
  /\ Past(AfterSchedExt) => HasPort(SchedExt)
  /\ Final => \A c \in Ported : tree.port[c] <=> resolved.lock[c].port # Nothing

OutputOK == OneState /\ ZramState /\ Material /\ PortState

IInv == TypeOK /\ Stages /\ Looked /\ OutputOK /\ BuiltIsLocked /\ BuildsItsKernel

-----------------------------------------------------------------------------
(* Types, action by action.                                                *)

LEMMA OutputType ==
  ASSUME IInv, pc \in Chain \/ Final
  PROVE  /\ resolved \in Outputs /\ resolved.kernel \in Kernels
         /\ \A c \in Components : /\ resolved.lock[c] \in Records /\ resolved.files[c] \in Patches
                                  /\ resolved.lock[c].sha256 \in Patches
                                  /\ resolved.lock[c].commit \in Commits
                                  /\ resolved.repos[c] \in Patches \cup {Nothing}
         /\ \A c \in Ported : c \in Components /\ resolved.ports[c] \in Patches \cup {Nothing}
<1>1. resolved \in Outputs
  BY DEF IInv, OutputOK, OneState, Past, TypeOK
<1>. QED BY <1>1, PipelineShape DEF Outputs, Records, Ported

LEMMA SnapshotType ==
  ASSUME TypeOK, NEW c \in Components
  PROVE  /\ RepoOf[c] \in Repos /\ Snapshot(c) \in Commits /\ Snapshot(c) # Nothing
<1>1. RepoOf[c] \in Repos
  BY PipelineShape
<1>2. temp.cache[RepoOf[c]] \in Commits \cup {Nothing} /\ upstream[RepoOf[c]] \in Commits
  BY <1>1 DEF TypeOK
<1>3. Snapshot(c) \in Commits
  BY <1>2 DEF Snapshot
<1>. QED BY <1>1, <1>3, NothingElse

LEMMA ResolveTypes == ASSUME IInv, Resolve PROVE TypeOK'
<1>1. TypeOK /\ kernel \in Kernels
  BY DEF IInv, TypeOK
<1>2. PICK i \in DOMAIN Order :
        temp' = [cache |-> [temp.cache EXCEPT ![RepoOf[Order[i]]] = Snapshot(Order[i])],
                 lock |-> [temp.lock EXCEPT ![Order[i]] =
                   [commit |-> Snapshot(Order[i]), sha256 |-> Upstream(Order[i], Snapshot(Order[i]), kernel),
                    snapshot |-> Nothing, port |-> Nothing]]]
  BY DEF Resolve
<1>3. Order[i] \in Components
  BY DEF Components
<1>4. [commit |-> Snapshot(Order[i]), sha256 |-> Upstream(Order[i], Snapshot(Order[i]), kernel),
       snapshot |-> Nothing, port |-> Nothing] \in Records
  BY <1>1, <1>3, SnapshotType, UpstreamTypes DEF Records
<1>5. temp' \in [cache : [Repos -> Commits \cup {Nothing}], lock : [Components -> Records \cup {Nothing}]]
  BY <1>1, <1>2, <1>3, <1>4, SnapshotType DEF TypeOK
<1>. QED BY <1>1, <1>5 DEF Resolve, TypeOK, scripts

LEMMA ReplaceTypes == ASSUME IInv, ReplaceOutput PROVE TypeOK'
<1>1. TypeOK /\ kernel \in Kernels
  BY DEF IInv, TypeOK
<1>2. \A c \in Components : temp.lock[c] \in Records /\ temp.lock[c].sha256 \in Patches
  <2>1. \A c \in Components : temp.lock[c] \in Records
    BY <1>1 DEF TypeOK, IInv, Looked, ReplaceOutput
  <2>. QED BY <2>1 DEF Records
<1>3. temp.lock \in [Components -> Records]
  BY <1>1, <1>2 DEF TypeOK
<1>4. resolved' \in Outputs
  BY <1>1, <1>2, <1>3 DEF ReplaceOutput, Outputs
<1>. QED BY <1>1, <1>4, EmptyType DEF ReplaceOutput, TypeOK, scripts

(* The local port is a patch because its revision is the resolved one's.   *)
LEMMA ZramPortType ==
  ASSUME IInv, ZramBytes \/ ZramLock
  PROVE  /\ pc \in Chain /\ ZramPort \in Patches /\ ZramPort = LocalPort
         /\ resolved \in Outputs /\ resolved.kernel = kernel
<1>1. TypeOK /\ pc \in {"zram", "zram lock"} /\ pc \in Chain
  BY DEF IInv, ZramBytes, ZramLock, Goto, Chain
<1>2. resolved \in Outputs /\ resolved.kernel = kernel /\ kernel \in Kernels /\ Zram \in Components
  BY <1>1, OutputType, PipelineShape DEF IInv, OutputOK, OneState, Past
<1>3. resolved.lock[Zram].sha256 = Source(Zram) /\ Source(Zram) \in Patches
  BY <1>1, <1>2, OutputType DEF IInv, OutputOK, ZramState
<1>4. Source(Zram).rev = Reviewed
  BY <1>3 DEF IInv, OutputOK, ZramState, ZramBytes, ZramLock, Goto
<1>5. ZramPort = LocalPort
  BY <1>2, <1>4 DEF ZramPort, LocalPort
<1>6. ZramPort \in Patches
  BY <1>2, <1>3, <1>4 DEF ZramPort, Patches
<1>. QED BY <1>1, <1>2, <1>5, <1>6

(* A step that only replaces the output by another.                        *)
LEMMA OutputSteps ==
  ASSUME TypeOK, pc' \in Places, resolved' \in Outputs,
         UNCHANGED <<upstream, start, kernel, pass, temp, scripts, built>>
  PROVE  TypeOK'
BY DEF TypeOK, scripts, Places

LEMMA ZramTypes == ASSUME IInv, ZramBytes \/ ZramLock PROVE TypeOK'
<1>1. TypeOK /\ resolved \in Outputs /\ ZramPort \in Patches /\ Zram \in Components
  BY ZramPortType, PipelineShape DEF IInv
<1>2. CASE ZramBytes
  <2>1. [resolved.files EXCEPT ![Zram] = ZramPort] \in [Components -> Patches]
    BY <1>1 DEF Outputs
  <2>2. resolved' = [resolved EXCEPT !.files = [resolved.files EXCEPT ![Zram] = ZramPort]]
    BY <1>2 DEF ZramBytes
  <2>3. resolved' \in Outputs
    BY <1>1, <2>1, <2>2, OutputChanged
  <2>. QED BY <1>1, <1>2, <2>3, OutputSteps DEF ZramBytes, Goto, Places
<1>3. CASE ZramLock
  <2>. DEFINE record == [resolved.lock[Zram] EXCEPT !.sha256 = ZramPort]
  <2>1. record \in Records
    <3>1. resolved.lock[Zram] \in Records
      BY <1>1 DEF Outputs
    <3>. QED BY <1>1, <3>1, RecordChanged
  <2>2. [resolved.lock EXCEPT ![Zram] = record] \in [Components -> Records]
    BY <1>1, <2>1 DEF Outputs
  <2>3. resolved' = [resolved EXCEPT !.lock = [resolved.lock EXCEPT ![Zram] = record]]
    BY <1>3 DEF ZramLock
  <2>4. resolved' \in Outputs
    BY <1>1, <2>2, <2>3, OutputChanged
  <2>. QED BY <1>1, <1>3, <2>4, OutputSteps DEF ZramLock, Goto, Places
<1>. QED BY <1>2, <1>3

LEMMA MaterialTypes == ASSUME IInv, Materialize \/ LockSnapshots PROVE TypeOK'
<1>1. TypeOK /\ pc \in Chain
  BY DEF IInv, Materialize, LockSnapshots, Goto, Chain
<1>2. resolved \in Outputs
  BY <1>1, OutputType
<1>3. CASE Materialize
  <2>1. [c \in Components |-> Materialized(c)] \in [Components -> Patches \cup {Nothing}]
    BY <1>2 DEF Materialized, Outputs
  <2>2. resolved' \in Outputs
    BY <1>2, <1>3, <2>1, OutputChanged DEF Materialize
  <2>. QED BY <1>1, <1>3, <2>2, OutputSteps DEF Materialize, Goto, Places
<1>4. CASE LockSnapshots
  <2>. DEFINE lock == [c \in Components |-> [resolved.lock[c] EXCEPT !.snapshot = resolved.repos[c]]]
  <2>1. ASSUME NEW c \in Components
        PROVE  [resolved.lock[c] EXCEPT !.snapshot = resolved.repos[c]] \in Records
    <3>1. resolved.lock[c] \in Records /\ resolved.repos[c] \in Patches \cup {Nothing}
      BY <1>2 DEF Outputs
    <3>. QED BY <3>1, RecordChanged
  <2>2. lock \in [Components -> Records]
    BY <2>1
  <2>3. resolved' = [resolved EXCEPT !.lock = lock]
    BY <1>4 DEF LockSnapshots
  <2>. HIDE DEF lock
  <2>4. resolved' \in Outputs
    BY <1>2, <2>2, <2>3, OutputChanged
  <2>. QED BY <1>1, <1>4, <2>4, OutputSteps DEF LockSnapshots, Goto, Places
<1>. QED BY <1>3, <1>4

LEMMA WritePortTypes ==
  ASSUME IInv, NEW c \in Ported, NEW at \in Chain, NEW next \in Places, WritePort(c, at, next)
  PROVE  TypeOK'
<1>1. TypeOK /\ pc \in Chain /\ kernel \in Kernels
  BY DEF IInv, WritePort, Goto, TypeOK
<1>2. resolved \in Outputs /\ resolved.files[c] \in Patches
  BY <1>1, OutputType
<1>3. [resolved.ports EXCEPT ![c] = PortOf(resolved.files[c], kernel)] \in [Ported -> Patches \cup {Nothing}]
  BY <1>1, <1>2, PortTypes DEF Outputs
<1>4. resolved' = [resolved EXCEPT !.ports = [resolved.ports EXCEPT ![c] = PortOf(resolved.files[c], kernel)]]
  BY DEF WritePort
<1>5. resolved' \in Outputs
  BY <1>2, <1>3, <1>4, OutputChanged
<1>. QED BY <1>1, <1>5, OutputSteps DEF WritePort, Goto

LEMMA LockPortTypes ==
  ASSUME IInv, NEW c \in Ported, NEW at \in Chain, NEW next \in Places, LockPort(c, at, next),
         resolved.ports[c] \in Patches
  PROVE  TypeOK'
<1>. DEFINE port == [kernel |-> kernel, sha256 |-> resolved.ports[c], source_sha256 |-> resolved.lock[c].sha256]
            record == [resolved.lock[c] EXCEPT !.port = port]
<1>1. TypeOK /\ pc \in Chain /\ kernel \in Kernels
  BY DEF IInv, LockPort, Goto, TypeOK
<1>2. resolved \in Outputs /\ resolved.lock[c] \in Records /\ resolved.lock[c].sha256 \in Patches
  BY <1>1, OutputType
<1>3. port \in Ports
  BY <1>1, <1>2 DEF Ports
<1>4. record \in Records
  BY <1>2, <1>3, RecordChanged
<1>5. [resolved.lock EXCEPT ![c] = record] \in [Components -> Records]
  BY <1>2, <1>4 DEF Outputs
<1>6. resolved' = [resolved EXCEPT !.lock = [resolved.lock EXCEPT ![c] = record]]
  BY DEF LockPort
<1>7. resolved' \in Outputs
  BY <1>2, <1>5, <1>6, OutputChanged
<1>. QED BY <1>1, <1>7, OutputSteps DEF LockPort, Goto

(* A step that only replaces scripts.                                      *)
LEMMA ScriptSteps ==
  ASSUME TypeOK, pc' \in Places, NEW s \in ScriptRecords, Write(s),
         UNCHANGED <<upstream, start, kernel, pass, resolver, built>>
  PROVE  TypeOK'
BY WriteTypes DEF TypeOK, resolver, Places

LEMMA RewriteTypes == ASSUME TypeOK, Rewrite PROVE TypeOK'
<1>1. [Script EXCEPT !.stage = "rewritten"] \in ScriptRecords
  BY ScriptType, ScriptChanged
<1>2. tree' \in ScriptRecords /\ copy' \in ScriptRecords
  BY <1>1, WriteTypes DEF Rewrite
<1>. QED BY <1>2, EmptyType DEF Rewrite, Goto, TypeOK

LEMMA PinTypes == ASSUME IInv, PinCore \/ PinWrapper PROVE TypeOK'
<1>1. TypeOK /\ pc \in Chain /\ Script \in ScriptRecords
  BY ScriptType DEF IInv, PinCore, PinWrapper, Goto, Chain
<1>2. resolved # Nothing
  BY <1>1 DEF IInv, OutputOK, OneState, Past
<1>3. CASE PinCore
  <2>. DEFINE pins == Pinned(Components \ InWrapper)
  <2>1. pins \in [Components -> Patches \cup {Nothing}]
    BY <1>1, <1>2, PinnedType
  <2>2. [[Script EXCEPT !.stage = "pinned"] EXCEPT !.pins = pins] \in ScriptRecords
    <3>1. [Script EXCEPT !.stage = "pinned"] \in ScriptRecords
      BY <1>1, ScriptChanged
    <3>. QED BY <2>1, <3>1, ScriptChanged
  <2>3. [Script EXCEPT !.stage = "pinned", !.pins = pins] \in ScriptRecords
    BY <2>2
  <2>4. tree' \in ScriptRecords /\ copy' \in ScriptRecords
    BY <1>1, <1>3, <2>3, WriteTypes DEF PinCore
  <2>. QED BY <1>1, <1>3, <2>4 DEF PinCore, Goto, TypeOK, resolver
<1>4. CASE PinWrapper
  <2>1. Pinned(InWrapper) \in [Components -> Patches \cup {Nothing}]
    BY <1>1, <1>2, PinnedType
  <2>2. [Script EXCEPT !.pins = Pinned(InWrapper)] \in ScriptRecords
    BY <1>1, <2>1, ScriptChanged
  <2>3. tree' \in ScriptRecords /\ copy' \in ScriptRecords
    BY <1>1, <1>4, <2>2, WriteTypes DEF PinWrapper
  <2>. QED BY <1>1, <1>4, <2>3 DEF PinWrapper, TypeOK, resolver
<1>. QED BY <1>3, <1>4

LEMMA FinalizeTypes == ASSUME IInv, FinalizeCore PROVE TypeOK'
<1>. DEFINE locked == [c \in Ported |-> resolved.lock[c].sha256]
            port == [c \in Ported |-> resolved.lock[c].port # Nothing]
<1>1. TypeOK /\ pc \in Chain /\ Script \in ScriptRecords
  BY ScriptType DEF IInv, FinalizeCore, Goto, Chain
<1>2. locked \in [Ported -> Patches \cup {Nothing}] /\ port \in [Ported -> BOOLEAN]
  BY <1>1, OutputType
<1>3. [Script EXCEPT !.stage = "final", !.sha256 = locked, !.port = port] \in ScriptRecords
  <2>1. [Script EXCEPT !.stage = "final"] \in ScriptRecords
    BY <1>1, ScriptChanged
  <2>2. [[Script EXCEPT !.stage = "final"] EXCEPT !.sha256 = locked] \in ScriptRecords
    BY <1>2, <2>1, ScriptChanged
  <2>3. [[[Script EXCEPT !.stage = "final"] EXCEPT !.sha256 = locked] EXCEPT !.port = port] \in ScriptRecords
    BY <1>2, <2>2, ScriptChanged
  <2>. QED BY <2>3
<1>4. tree' \in ScriptRecords /\ copy' \in ScriptRecords
  BY <1>1, <1>3, WriteTypes DEF FinalizeCore
<1>. QED BY <1>1, <1>4 DEF FinalizeCore, Goto, TypeOK, resolver

(* What is fetched and applied are patches.                                *)
LEMMA AppliedType ==
  ASSUME IInv, Build, NEW c \in Components
  PROVE  Applied(c) \in Patches
<1>1. TypeOK /\ pc = "build" /\ Final
  BY DEF IInv, Build, Goto, Stages
<1>2. /\ resolved.files[c] \in Patches /\ resolved.repos[c] \in Patches \cup {Nothing}
      /\ c \in Ported => resolved.ports[c] \in Patches \cup {Nothing}
  BY <1>1, OutputType
<1>3. CASE c \in Direct
  <2>1. c \notin Ported
    BY <1>3, PipelineShape
  <2>. QED BY <1>2, <1>3, <2>1 DEF Applied
<1>4. CASE c \in Ported
  <2>1. c \notin Direct
    BY <1>4, PipelineShape
  <2>2. Applied(c) = IF tree.port[c] THEN resolved.ports[c] ELSE resolved.files[c]
    BY <1>4, <2>1 DEF Applied
  <2>3. Applied(c) # Nothing
    BY <1>4 DEF Build
  <2>. QED BY <1>2, <1>4, <2>2, <2>3
<1>5. CASE c \notin Direct \cup Ported
  <2>1. Applied(c) = resolved.repos[c]
    BY <1>5 DEF Applied
  <2>2. Fetched(c)
    BY <1>5 DEF Build
  <2>. QED BY <1>2, <2>1, <2>2 DEF Fetched
<1>. QED BY <1>3, <1>4, <1>5

LEMMA BuildTypes == ASSUME IInv, Build PROVE TypeOK'
<1>1. TypeOK /\ pc = "build" /\ Final
  BY DEF IInv, Build, Goto, Stages
<1>2. resolved.lock \in [Components -> Records]
  BY <1>1, OutputType DEF Outputs
<1>3. [c \in Components |-> Applied(c)] \in [Components -> Patches]
  BY AppliedType
<1>4. built' \in Builds
  BY <1>1, <1>2, <1>3 DEF Build, TypeOK, Builds
<1>. QED BY <1>1, <1>4 DEF Build, Goto, TypeOK, resolver, scripts

LEMMA LockPortsTypes == ASSUME IInv, LockBorePort \/ LockSchedExtPort PROVE TypeOK'
<1>1. ASSUME NEW c \in Ported, pc \in Chain, resolved.ports[c] = PortOf(Source(c), resolved.kernel)
      PROVE  resolved.ports[c] \in Patches
  <2>1. Source(c) = Upstream(c, resolved.lock[c].commit, resolved.kernel)
    BY DEF Source
  <2>2. Source(c) \in Patches /\ resolved.kernel \in Kernels
    BY <1>1, <2>1, OutputType, UpstreamTypes
  <2>. QED BY <1>1, <2>2, PortTypes
<1>2. CASE LockBorePort
  <2>1. pc = "bore lock" /\ pc \in Chain /\ Bore \in Ported
    BY <1>2 DEF LockBorePort, LockPort, Goto, Chain, Ported
  <2>2. resolved.ports[Bore] \in Patches
    BY <1>1, <2>1 DEF IInv, OutputOK, PortState
  <2>3. "bore lock" \in Chain /\ "sched_ext" \in Places
    BY DEF Chain, Places
  <2>. QED BY <1>2, <2>1, <2>2, <2>3, LockPortTypes DEF LockBorePort
<1>3. CASE LockSchedExtPort
  <2>1. pc = "sched_ext lock" /\ pc \in Chain /\ SchedExt \in Ported
    BY <1>3 DEF LockSchedExtPort, LockPort, Goto, Chain, Ported
  <2>2. resolved.ports[SchedExt] \in Patches
    BY <1>1, <2>1 DEF IInv, OutputOK, PortState
  <2>3. "sched_ext lock" \in Chain /\ "finalize" \in Places
    BY DEF Chain, Places
  <2>. QED BY <1>3, <2>1, <2>2, <2>3, LockPortTypes DEF LockSchedExtPort
<1>. QED BY <1>2, <1>3

LEMMA WritePortsTypes == ASSUME IInv, WriteBorePort \/ WriteSchedExtPort PROVE TypeOK'
<1>1. /\ Bore \in Ported /\ SchedExt \in Ported
      /\ {"bore", "sched_ext"} \subseteq Chain /\ {"bore lock", "sched_ext lock"} \subseteq Places
  BY DEF Ported, Chain, Places
<1>2. CASE WriteBorePort
  BY <1>1, <1>2, WritePortTypes DEF WriteBorePort
<1>3. CASE WriteSchedExtPort
  BY <1>1, <1>3, WritePortTypes DEF WriteSchedExtPort
<1>. QED BY <1>2, <1>3

(* Steps that write neither the output nor a script but from a template.   *)
LEMMA OtherTypes ==
  ASSUME TypeOK, \/ Begin \/ RemoveOutput \/ Validate \/ NoBorePort \/ EndPreflight \/ Validated
                 \/ Rebuild \/ Stop \/ Checkout
  PROVE  TypeOK'
<1>1. CASE Begin
  BY <1>1 DEF TypeOK, Begin, Goto, resolver
<1>2. CASE RemoveOutput
  BY <1>2 DEF TypeOK, RemoveOutput, Goto, scripts
<1>3. CASE Validate
  BY <1>3 DEF TypeOK, Validate, Goto, resolver, scripts
<1>4. CASE NoBorePort
  BY <1>4 DEF TypeOK, NoBorePort, Goto, resolver, scripts
<1>5. CASE EndPreflight
  BY <1>5, TemplateType DEF TypeOK, EndPreflight, Goto
<1>6. CASE Validated
  BY <1>6 DEF TypeOK, Validated, Goto, resolver, scripts
<1>7. CASE Rebuild
  BY <1>7 DEF TypeOK, Rebuild, Goto, resolver, scripts
<1>8. CASE Stop
  BY <1>8, TemplateType, EmptyType DEF TypeOK, Stop
<1>9. CASE Checkout
  BY <1>9, TemplateType DEF TypeOK, Checkout
<1>. QED BY <1>1, <1>2, <1>3, <1>4, <1>5, <1>6, <1>7, <1>8, <1>9

LEMMA PushTypes == ASSUME TypeOK, NEW r \in Repos, Push(r) PROVE TypeOK'
<1>1. upstream[r] \in 1..MaxCommits /\ upstream[r] < MaxCommits /\ MaxCommits \in Nat
  BY PipelineShape DEF TypeOK, Push, Commits
<1>2. upstream[r] + 1 \in Commits
  BY <1>1 DEF Commits
<1>. QED BY <1>2 DEF TypeOK, Push, resolver, scripts

LEMMA TypesKept == ASSUME IInv, [Next]_vars PROVE TypeOK'
<1>1. TypeOK
  BY DEF IInv
<1>2. CASE UNCHANGED vars
  BY <1>1, <1>2 DEF TypeOK, vars, resolver, scripts
<1>3. CASE \E r \in Repos : Push(r)
  BY <1>1, <1>3, PushTypes
<1>4. CASE Begin \/ RemoveOutput \/ Validate \/ NoBorePort \/ EndPreflight \/ Validated
           \/ Rebuild \/ Stop \/ Checkout
  BY <1>1, <1>4, OtherTypes
<1>5. CASE Rewrite \/ Resolve \/ ReplaceOutput \/ ZramBytes \/ ZramLock \/ Materialize \/ LockSnapshots
  BY <1>1, <1>5, RewriteTypes, ResolveTypes, ReplaceTypes, ZramTypes, MaterialTypes
<1>6. CASE PinCore \/ PinWrapper \/ FinalizeCore \/ Build
  BY <1>6, PinTypes, FinalizeTypes, BuildTypes
<1>7. CASE WriteBorePort \/ LockBorePort \/ WriteSchedExtPort \/ LockSchedExtPort
  BY <1>7, WritePortsTypes, LockPortsTypes
<1>. QED BY <1>2, <1>3, <1>4, <1>5, <1>6, <1>7 DEF Next

-----------------------------------------------------------------------------
(* The stage of the scripts.                                               *)

LEMMA StageOfWrite ==
  ASSUME TypeOK, NEW s, Write(s)
  PROVE  /\ pass = "preflight" => tree' = tree
         /\ pass = "real" => tree' = s /\ Script = tree
BY DEF Write, Script, TypeOK

LEMMA StagesKept == ASSUME IInv, [Next]_vars PROVE Stages'
<1>1. TypeOK /\ Stages /\ pass \in {"preflight", "real"} /\ tree \in ScriptRecords
  BY DEF IInv, TypeOK
<1>2. CASE UNCHANGED vars \/ \E r \in Repos : Push(r)
  BY <1>1, <1>2 DEF vars, Push, scripts, Stages, Final
<1>3. CASE Begin \/ Stop \/ Checkout \/ Build \/ Rebuild
  BY <1>1, <1>3 DEF Begin, Stop, Checkout, Build, Rebuild, Goto, scripts, Stages, Final
<1>4. CASE Rewrite
  <2>1. pass = "real" => tree'.stage = "rewritten"
    BY <1>1, <1>4, StageOfWrite DEF Rewrite, ScriptRecords
  <2>. QED BY <1>1, <1>4, <2>1, StageOfWrite DEF Rewrite, Goto, Stages, Final
<1>5. CASE Resolve \/ RemoveOutput \/ ReplaceOutput \/ ZramBytes \/ ZramLock \/ Materialize \/ LockSnapshots
  BY <1>1, <1>5 DEF Resolve, RemoveOutput, ReplaceOutput, ZramBytes, ZramLock, Materialize,
                    LockSnapshots, Goto, scripts, Stages, Final
<1>6. CASE PinCore
  <2>1. pass = "real" => tree'.stage = "pinned"
    <3>1. [Script EXCEPT !.stage = "pinned", !.pins = Pinned(Components \ InWrapper)].stage = "pinned"
      BY <1>1, ScriptType DEF ScriptRecords
    <3>. QED BY <1>1, <1>6, <3>1, StageOfWrite DEF PinCore
  <2>. QED BY <1>1, <1>6, <2>1, StageOfWrite DEF PinCore, Goto, Stages, Final
<1>7. CASE PinWrapper
  <2>1. pass = "real" => tree'.stage = "pinned"
    BY <1>1, <1>7, StageOfWrite DEF PinWrapper, ScriptRecords, Stages
  <2>. QED BY <1>1, <1>7, <2>1, StageOfWrite DEF PinWrapper, Stages, Final
<1>8. CASE Validate \/ NoBorePort \/ WriteBorePort \/ LockBorePort \/ WriteSchedExtPort \/ LockSchedExtPort
  BY <1>1, <1>8 DEF Validate, NoBorePort, WriteBorePort, LockBorePort, WriteSchedExtPort,
                    LockSchedExtPort, WritePort, LockPort, Goto, scripts, Stages, Final
<1>9. CASE FinalizeCore
  <2>1. pass = "real" => tree'.stage = "final"
    <3>1. [Script EXCEPT !.stage = "final",
             !.sha256 = [c \in Ported |-> resolved.lock[c].sha256],
             !.port = [c \in Ported |-> resolved.lock[c].port # Nothing]].stage = "final"
      BY <1>1, ScriptType DEF ScriptRecords
    <3>. QED BY <1>1, <1>9, <3>1, StageOfWrite DEF FinalizeCore
  <2>. QED BY <1>1, <1>9, <2>1, StageOfWrite DEF FinalizeCore, Goto, Stages, Final
<1>10. CASE EndPreflight \/ Validated
  BY <1>1, <1>10 DEF EndPreflight, Validated, Goto, scripts, Stages, Final
<1>. QED BY <1>2, <1>3, <1>4, <1>5, <1>6, <1>7, <1>8, <1>9, <1>10 DEF Next

-----------------------------------------------------------------------------
(* What the resolver has looked at.                                        *)

LEMMA ResolveLooks == ASSUME IInv, Resolve PROVE Looked'
<1>1. TypeOK /\ Looked /\ pc = "resolve"
  BY DEF IInv, Resolve
<1>2. PICK i \in DOMAIN Order :
        temp' = [cache |-> [temp.cache EXCEPT ![RepoOf[Order[i]]] = Snapshot(Order[i])],
                 lock |-> [temp.lock EXCEPT ![Order[i]] =
                   [commit |-> Snapshot(Order[i]), sha256 |-> Upstream(Order[i], Snapshot(Order[i]), kernel),
                    snapshot |-> Nothing, port |-> Nothing]]]
  BY DEF Resolve
<1>. DEFINE new == Order[i]
            commit == Snapshot(new)
            repo == RepoOf[new]
<1>3. new \in Components /\ repo \in Repos /\ commit \in Commits /\ commit # Nothing
  BY <1>1, SnapshotType DEF Components
<1>4. /\ temp.cache \in [Repos -> Commits \cup {Nothing}] /\ temp.lock \in [Components -> Records \cup {Nothing}]
      /\ start \in [Repos -> Commits] /\ upstream \in [Repos -> Commits]
  BY <1>1 DEF TypeOK
<1>5. commit = IF temp.cache[repo] = Nothing THEN upstream[repo] ELSE temp.cache[repo]
  BY DEF Snapshot
<1>6. UNCHANGED <<start, upstream, kernel, pc>>
  BY DEF Resolve
<1>7. \A r \in Repos : temp'.cache[r] = IF r = repo THEN commit ELSE temp.cache[r]
  BY <1>2, <1>3, <1>4
<1>8. \A c \in Components :
        temp'.lock[c] = IF c = new THEN [commit |-> commit, sha256 |-> Upstream(new, commit, kernel),
                                         snapshot |-> Nothing, port |-> Nothing]
                        ELSE temp.lock[c]
  BY <1>2, <1>3, <1>4
<1>. HIDE DEF commit, repo, new
<1>9. commit \in start[repo]..upstream[repo]
  <2>1. start[repo] \in Int /\ upstream[repo] \in Int /\ start[repo] <= upstream[repo]
    BY <1>1, <1>3, <1>4 DEF Looked, Commits
  <2>2. CASE temp.cache[repo] = Nothing
    BY <1>5, <2>1, <2>2
  <2>3. CASE temp.cache[repo] # Nothing
    BY <1>1, <1>3, <1>5, <2>3 DEF Looked
  <2>. QED BY <2>2, <2>3
<1>10. ASSUME NEW r \in Repos, temp'.cache[r] # Nothing
       PROVE  temp'.cache[r] \in start'[r]..upstream'[r]
  BY <1>1, <1>6, <1>7, <1>9, <1>10 DEF Looked
<1>11. ASSUME NEW c \in Components, temp'.lock[c] # Nothing
       PROVE  /\ temp'.cache[RepoOf[c]] # Nothing
              /\ temp'.lock[c] = [commit |-> temp'.cache[RepoOf[c]],
                                  sha256 |-> Upstream(c, temp'.cache[RepoOf[c]], kernel'),
                                  snapshot |-> Nothing, port |-> Nothing]
  <2>1. RepoOf[c] \in Repos
    BY PipelineShape
  <2>2. CASE c = new
    <3>1. temp'.cache[RepoOf[c]] = commit
      BY <1>7, <2>1, <2>2 DEF repo
    <3>. QED BY <1>3, <1>6, <1>8, <2>2, <3>1
  <2>3. CASE c # new
    <3>1. /\ temp'.lock[c] = temp.lock[c] /\ temp.cache[RepoOf[c]] # Nothing
          /\ temp.lock[c] = [commit |-> temp.cache[RepoOf[c]],
                             sha256 |-> Upstream(c, temp.cache[RepoOf[c]], kernel),
                             snapshot |-> Nothing, port |-> Nothing]
      BY <1>1, <1>8, <1>11, <2>3 DEF Looked
    <3>2. temp'.cache[RepoOf[c]] = temp.cache[RepoOf[c]]
      BY <1>5, <1>7, <2>1, <3>1
    <3>. QED BY <1>6, <3>1, <3>2
  <2>. QED BY <2>2, <2>3
<1>12. \A r \in Repos : start'[r] <= upstream'[r]
  BY <1>1, <1>6 DEF Looked
<1>. QED BY <1>1, <1>6, <1>10, <1>11, <1>12 DEF Looked

LEMMA CommitIsInt == Commits \subseteq Int /\ \A n \in Commits : n <= n
<1>1. MaxCommits \in Nat
  BY PipelineShape
<1>. QED BY <1>1 DEF Commits

LEMMA PushLooks == ASSUME IInv, NEW r \in Repos, Push(r) PROVE Looked'
<1>1. \A q \in Repos : /\ upstream[q] \in Int /\ start[q] \in Int /\ upstream'[q] \in Int
                       /\ upstream[q] <= upstream'[q]
  <2>1. upstream \in [Repos -> Commits] /\ start \in [Repos -> Commits]
    BY DEF IInv, TypeOK
  <2>2. \A q \in Repos : upstream[q] \in Int /\ start[q] \in Int
    BY <2>1, CommitIsInt
  <2>3. \A q \in Repos : upstream'[q] = IF q = r THEN upstream[r] + 1 ELSE upstream[q]
    BY <2>1 DEF Push
  <2>. QED BY <2>2, <2>3 DEF Push
<1>2. ASSUME NEW q \in Repos PROVE start[q]..upstream[q] \subseteq start[q]..upstream'[q]
  BY <1>1
<1>3. \A q \in Repos : start[q] <= upstream'[q]
  BY <1>1 DEF IInv, Looked
<1>. QED BY <1>2, <1>3 DEF IInv, Looked, Push, resolver

LEMMA LookedKept == ASSUME IInv, [Next]_vars PROVE Looked'
<1>1. TypeOK /\ Looked
  BY DEF IInv
<1>2. CASE UNCHANGED vars
  BY <1>1, <1>2 DEF vars, resolver, Looked
<1>3. CASE \E r \in Repos : Push(r)
  BY <1>3, PushLooks
<1>4. CASE Begin
  <2>1. \A r \in Repos : upstream[r] <= upstream[r]
    BY <1>1, CommitIsInt DEF TypeOK
  <2>. QED BY <1>4, <2>1 DEF Begin, Goto, Looked
<1>5. CASE Rewrite
  <2>1. /\ \A r \in Repos : temp'.cache[r] = Nothing
        /\ \A c \in Components : temp'.lock[c] = Nothing
    BY <1>5 DEF Rewrite, Empty
  <2>. QED BY <1>1, <1>5, <2>1 DEF Rewrite, Goto, Looked
<1>6. CASE Resolve
  BY <1>6, ResolveLooks
<1>7. CASE RemoveOutput
  BY <1>1, <1>7 DEF RemoveOutput, Goto, Looked
<1>8. ASSUME UNCHANGED <<start, upstream>>, pc' \notin {"resolve", "replace"}
      PROVE  Looked'
  BY <1>1, <1>8 DEF Looked
<1>9. CASE ReplaceOutput \/ ZramBytes \/ ZramLock \/ Materialize \/ LockSnapshots \/ PinCore \/ PinWrapper
  BY <1>8, <1>9 DEF ReplaceOutput, ZramBytes, ZramLock, Materialize, LockSnapshots, PinCore, PinWrapper, Goto
<1>10. CASE \/ Validate \/ NoBorePort \/ WriteBorePort \/ LockBorePort \/ WriteSchedExtPort \/ LockSchedExtPort
            \/ FinalizeCore
  BY <1>8, <1>10 DEF Validate, NoBorePort, WriteBorePort, LockBorePort, WriteSchedExtPort,
                     LockSchedExtPort, WritePort, LockPort, FinalizeCore, Goto
<1>11. CASE EndPreflight \/ Validated \/ Build \/ Rebuild \/ Stop \/ Checkout
  BY <1>8, <1>11 DEF EndPreflight, Validated, Build, Rebuild, Stop, Checkout, Goto
<1>. QED BY <1>2, <1>3, <1>4, <1>5, <1>6, <1>7, <1>9, <1>10, <1>11 DEF Next

-----------------------------------------------------------------------------
(* The output, as far as a step leaves it alone.                           *)

Early == (Chain \cup {"rewrite", "resolve", "replace"}) \ {"validate again"}

LEMMA NotFinal == TypeOK /\ Stages /\ pc \in Early => ~Final
BY DEF TypeOK, Stages, Early, Chain, Final

LEMMA NotFinalAfter == ASSUME IInv, [Next]_vars, pc' \in Early PROVE ~Final'
<1>1. TypeOK' /\ Stages'
  BY TypesKept, StagesKept
<1>. QED BY <1>1 DEF TypeOK, Stages, Early, Chain, Final

(* Nothing is asked of the output before there is one.                     *)
LEMMA Vacuous == ASSUME pc' \notin Chain, ~Final' PROVE OutputOK'
BY DEF OutputOK, OneState, ZramState, Material, PortState, Past, Chain, AfterZram,
       AfterMaterialize, AfterBore, AfterSchedExt

LEMMA FinalKept ==
  ASSUME OutputOK, pc' \notin Chain, UNCHANGED <<start, upstream, tree, resolved>>
  PROVE  OutputOK'
<1>1. CASE ~Final
  <2>1. ~Final'
    BY <1>1 DEF Final
  <2>. QED BY <2>1, Vacuous
<1>2. CASE Final
  <2>1. Final'
    BY <1>2 DEF Final
  <2>2. OneState'
    BY <1>2, <2>1 DEF OutputOK, OneState, Past, Source
  <2>3. ZramState'
    BY <1>2, <2>1 DEF OutputOK, ZramState, Past, LocalPort, Source, Chain
  <2>4. Material'
    BY <1>2, <2>1 DEF OutputOK, Material, Past
  <2>5. PortState'
    BY <1>2, <2>1 DEF OutputOK, PortState, Past, HasPort, PortRecord, Own, Source, Chain, AfterBore, AfterSchedExt
  <2>. QED BY <2>2, <2>3, <2>4, <2>5 DEF OutputOK
<1>. QED BY <1>1, <1>2

SameSource ==
  /\ resolved'.kernel = resolved.kernel
  /\ \A c \in Components : resolved'.lock[c].commit = resolved.lock[c].commit

LEMMA SourceKept ==
  ASSUME SameSource
  PROVE  /\ \A c \in Components : Source(c)' = Source(c)
         /\ LocalPort' = LocalPort /\ (Own' <=> Own)
<1>1. ASSUME NEW c \in Components PROVE Source(c)' = Source(c)
  BY DEF SameSource, Source
<1>2. Zram \in Components /\ Bore \in Components
  BY PipelineShape
<1>. QED BY <1>1, <1>2 DEF SameSource, LocalPort, Own

LEMMA OneStateKept ==
  ASSUME OneState, pc \in Chain, SameSource, resolved' # Nothing,
         UNCHANGED <<start, upstream, kernel>>,
         \A c \in Components \ {Zram} : /\ resolved'.files[c] = resolved.files[c]
                                        /\ resolved'.lock[c].sha256 = resolved.lock[c].sha256,
         \A c \in Components \ Ported : resolved'.lock[c].port = resolved.lock[c].port
  PROVE  OneState'
BY SourceKept DEF OneState, Past, SameSource

LEMMA ZramKept ==
  ASSUME ZramState, pc \in AfterZram, pc' \notin {"zram", "zram lock"}, SameSource,
         resolved'.files[Zram] = resolved.files[Zram],
         resolved'.lock[Zram].sha256 = resolved.lock[Zram].sha256
  PROVE  ZramState'
<1>1. Zram \in Components
  BY PipelineShape
<1>. QED BY <1>1, SourceKept DEF ZramState, Past, SameSource

LEMMA MaterialKept ==
  ASSUME Material, pc \in AfterMaterialize,
         \A c \in Components : /\ resolved'.repos[c] = resolved.repos[c]
                               /\ resolved'.files[c] = resolved.files[c]
  PROVE  Material'
BY DEF Material, Past

NoPortYet == Chain \ (AfterBore \cup {"bore lock"})

LEMMA NoPortKept ==
  ASSUME PortState, pc \in NoPortYet, pc' \in NoPortYet, ~Final',
         \A c \in Ported : resolved'.lock[c].port = resolved.lock[c].port
  PROVE  PortState'
<1>1. resolved'.lock[Bore].port = Nothing /\ resolved'.lock[SchedExt].port = Nothing
  BY DEF PortState, Ported, NoPortYet, AfterBore, AfterSchedExt
<1>. QED BY <1>1 DEF PortState, Past, NoPortYet, AfterBore, AfterSchedExt

-----------------------------------------------------------------------------
(* The output, action by action.                                           *)

(* The resolver names its output.                                          *)
LEMMA ReplaceKeeps == ASSUME IInv, ReplaceOutput PROVE OutputOK'
<1>1. /\ TypeOK /\ Looked /\ pc = "replace" /\ pc' \in {"zram", "materialize"}
      /\ pc' = "zram" <=> kernel \in ZramKernels
      /\ UNCHANGED <<start, upstream, kernel>>
  BY DEF IInv, ReplaceOutput
<1>2. ~Final'
  BY <1>1, NotFinalAfter DEF Early, Chain, Next
<1>3. /\ resolved' # Nothing /\ resolved'.kernel = kernel /\ resolved'.lock = temp.lock
      /\ \A c \in Components : resolved'.files[c] = temp.lock[c].sha256
  <2>1. resolved'.kernel = kernel /\ resolved'.lock = temp.lock
        /\ \A c \in Components : resolved'.files[c] = temp.lock[c].sha256
    BY DEF ReplaceOutput
  <2>2. resolved' \in Outputs
    <3>1. TypeOK'
      BY ReplaceTypes
    <3>2. \A c \in Components : temp.lock[c] # Nothing
      BY <1>1 DEF Looked
    <3>3. temp.lock \in [Components -> Records]
      BY <1>1, <3>2 DEF TypeOK
    <3>4. \A c \in Components : temp.lock[c].sha256 \in Patches
      BY <3>3 DEF Records
    <3>. QED BY <1>1, <3>3, <3>4 DEF TypeOK, ReplaceOutput, Outputs
  <2>. QED BY <2>1, <2>2, NothingElse
<1>4. ASSUME NEW c \in Components
      PROVE  /\ temp.cache[RepoOf[c]] \in start[RepoOf[c]]..upstream[RepoOf[c]]
             /\ resolved'.lock[c].commit = temp.cache[RepoOf[c]]
             /\ resolved'.lock[c].sha256 = Source(c)' /\ resolved'.files[c] = Source(c)'
             /\ resolved'.lock[c].port = Nothing
  <2>1. RepoOf[c] \in Repos /\ temp.lock[c] # Nothing
    BY <1>1, PipelineShape DEF Looked
  <2>2. /\ temp.cache[RepoOf[c]] \in start[RepoOf[c]]..upstream[RepoOf[c]]
        /\ temp.lock[c] = [commit |-> temp.cache[RepoOf[c]],
                           sha256 |-> Upstream(c, temp.cache[RepoOf[c]], kernel),
                           snapshot |-> Nothing, port |-> Nothing]
    BY <1>1, <2>1 DEF Looked
  <2>. QED BY <1>3, <2>2 DEF Source
<1>5. OneState'
  BY <1>1, <1>3, <1>4 DEF OneState
<1>6. ZramState'
  <2>1. Zram \in Components
    BY PipelineShape
  <2>2. CASE pc' = "zram"
    BY <1>1, <1>2, <1>3, <1>4, <2>1, <2>2 DEF ZramState, Past, AfterZram, Chain
  <2>3. CASE pc' = "materialize"
    BY <1>1, <1>3, <1>4, <2>1, <2>3 DEF ZramState
  <2>. QED BY <1>1, <2>2, <2>3
<1>7. Material'
  BY <1>1, <1>2 DEF Material, Past, AfterMaterialize, AfterZram, Chain
<1>8. PortState'
  <2>1. Bore \in Components /\ SchedExt \in Components
    BY PipelineShape
  <2>. QED BY <1>1, <1>2, <1>4, <2>1 DEF PortState, Past, AfterBore, AfterSchedExt
<1>. QED BY <1>5, <1>6, <1>7, <1>8 DEF OutputOK

LEMMA ZramBytesKeeps == ASSUME IInv, ZramBytes PROVE OutputOK'
<1>1. /\ OutputOK /\ pc = "zram" /\ pc' = "zram lock" /\ UNCHANGED <<start, upstream, kernel>>
      /\ Zram \in Components /\ Zram \notin Ported
  BY PipelineShape DEF IInv, ZramBytes, Goto
<1>2. ~Final'
  BY <1>1, NotFinalAfter DEF Early, Chain, Next
<1>3. resolved \in Outputs /\ ZramPort = LocalPort /\ resolved.kernel \in Kernels
  BY ZramPortType DEF Outputs
<1>4. /\ resolved' # Nothing /\ resolved'.kernel = resolved.kernel /\ resolved'.lock = resolved.lock
      /\ \A c \in Components : resolved'.files[c] = IF c = Zram THEN ZramPort ELSE resolved.files[c]
  <2>1. resolved' \in Outputs
    <3>1. [resolved.files EXCEPT ![Zram] = ZramPort] \in [Components -> Patches]
      BY <1>1, <1>3, ZramPortType DEF Outputs
    <3>. QED BY <1>3, <3>1, OutputChanged DEF ZramBytes
  <2>. QED BY <1>3, <2>1, NothingElse DEF ZramBytes, Outputs
<1>5. SameSource
  BY <1>4 DEF SameSource
<1>6. OneState'
  BY <1>1, <1>4, <1>5, OneStateKept DEF OutputOK, Chain
<1>7. ZramState'
  <2>1. LocalPort' = LocalPort /\ Source(Zram)' = Source(Zram)
    BY <1>1, <1>5, SourceKept
  <2>2. Source(Zram).rev = Reviewed
    BY <1>1 DEF ZramBytes, OutputOK, ZramState
  <2>3. resolved'.kernel \in ZramKernels /\ resolved'.lock[Zram].sha256 = Source(Zram)
    BY <1>1, <1>4 DEF OutputOK, ZramState
  <2>. QED BY <1>1, <1>2, <1>3, <1>4, <2>1, <2>2, <2>3 DEF ZramState, Past, AfterZram, Chain
<1>8. Material'
  BY <1>1, <1>2 DEF Material, Past, AfterMaterialize, AfterZram, Chain
<1>9. PortState'
  BY <1>1, <1>2, <1>4, NoPortKept DEF OutputOK, NoPortYet, Chain, AfterBore
<1>. QED BY <1>6, <1>7, <1>8, <1>9 DEF OutputOK

LEMMA ZramLockKeeps == ASSUME IInv, ZramLock PROVE OutputOK'
<1>1. /\ OutputOK /\ pc = "zram lock" /\ pc' = "materialize" /\ UNCHANGED <<start, upstream, kernel>>
      /\ Zram \in Components /\ Zram \notin Ported
  BY PipelineShape DEF IInv, ZramLock, Goto
<1>2. ~Final'
  BY <1>1, NotFinalAfter DEF Early, Chain, Next
<1>3. resolved \in Outputs /\ ZramPort = LocalPort /\ ZramPort \in Patches /\ resolved.lock[Zram] \in Records
  BY <1>1, ZramPortType DEF Outputs
<1>. DEFINE record == [resolved.lock[Zram] EXCEPT !.sha256 = ZramPort]
<1>4. /\ record \in Records /\ record.sha256 = ZramPort
      /\ record.commit = resolved.lock[Zram].commit /\ record.port = resolved.lock[Zram].port
  BY <1>3, RecordChanged DEF Records
<1>5. resolved' = [resolved EXCEPT !.lock = [resolved.lock EXCEPT ![Zram] = record]]
  BY DEF ZramLock
<1>. HIDE DEF record
<1>6. /\ resolved' # Nothing /\ resolved'.kernel = resolved.kernel /\ resolved'.files = resolved.files
      /\ \A c \in Components : resolved'.lock[c] = IF c = Zram THEN record ELSE resolved.lock[c]
  <2>1. resolved' \in Outputs
    <3>1. [resolved.lock EXCEPT ![Zram] = record] \in [Components -> Records]
      BY <1>3, <1>4 DEF Outputs
    <3>. QED BY <1>3, <1>5, <3>1, OutputChanged
  <2>. QED BY <1>1, <1>3, <1>5, <2>1, NothingElse DEF Outputs
<1>7. SameSource
  BY <1>4, <1>6 DEF SameSource
<1>8. OneState'
  BY <1>1, <1>4, <1>6, <1>7, OneStateKept DEF OutputOK, Chain
<1>9. ZramState'
  <2>1. LocalPort' = LocalPort /\ resolved.kernel \in ZramKernels /\ resolved.files[Zram] = LocalPort
    BY <1>1, <1>7, SourceKept DEF OutputOK, ZramState
  <2>. QED BY <1>1, <1>3, <1>4, <1>6, <2>1 DEF ZramState
<1>10. Material'
  BY <1>1, <1>2 DEF Material, Past, AfterMaterialize, AfterZram, Chain
<1>11. PortState'
  <2>1. \A c \in Ported : resolved'.lock[c].port = resolved.lock[c].port
    BY <1>4, <1>6, PipelineShape DEF Ported
  <2>. QED BY <1>1, <1>2, <2>1, NoPortKept DEF OutputOK, NoPortYet, Chain, AfterBore
<1>. QED BY <1>8, <1>9, <1>10, <1>11 DEF OutputOK

LEMMA MaterializeKeeps == ASSUME IInv, Materialize PROVE OutputOK'
<1>1. /\ OutputOK /\ pc = "materialize" /\ pc' = "lock" /\ UNCHANGED <<start, upstream, kernel>>
      /\ Zram \in Components /\ resolved \in Outputs
  BY OutputType, PipelineShape DEF IInv, Materialize, Goto, Chain
<1>2. ~Final'
  BY <1>1, NotFinalAfter DEF Early, Chain, Next
<1>3. /\ resolved' # Nothing /\ resolved'.kernel = resolved.kernel /\ resolved'.files = resolved.files
      /\ resolved'.lock = resolved.lock /\ \A c \in Components : resolved'.repos[c] = resolved.files[c]
  <2>. DEFINE repos == [c \in Components |-> Materialized(c)]
  <2>1. repos \in [Components -> Patches \cup {Nothing}] /\ \A c \in Components : repos[c] = resolved.files[c]
    BY <1>1 DEF Materialized, Outputs
  <2>2. resolved' = [resolved EXCEPT !.repos = repos]
    BY DEF Materialize
  <2>. HIDE DEF repos
  <2>3. resolved' \in Outputs
    BY <1>1, <2>1, <2>2, OutputChanged
  <2>. QED BY <1>1, <2>1, <2>2, <2>3, NothingElse DEF Outputs
<1>4. SameSource
  BY <1>3 DEF SameSource
<1>5. OneState'
  BY <1>1, <1>3, <1>4, OneStateKept DEF OutputOK, Chain
<1>6. ZramState'
  BY <1>1, <1>3, <1>4, ZramKept DEF OutputOK, AfterZram, Chain
<1>7. Material'
  BY <1>3 DEF Material
<1>8. PortState'
  BY <1>1, <1>2, <1>3, NoPortKept DEF OutputOK, NoPortYet, Chain, AfterBore
<1>. QED BY <1>5, <1>6, <1>7, <1>8 DEF OutputOK

LEMMA LockSnapshotsKeeps == ASSUME IInv, LockSnapshots PROVE OutputOK'
<1>1. /\ OutputOK /\ pc = "lock" /\ pc' = "core" /\ UNCHANGED <<start, upstream, kernel>>
      /\ Zram \in Components /\ resolved \in Outputs
  BY OutputType, PipelineShape DEF IInv, LockSnapshots, Goto, Chain
<1>2. ~Final'
  BY <1>1, NotFinalAfter DEF Early, Chain, Next
<1>3. /\ resolved' # Nothing /\ resolved'.kernel = resolved.kernel /\ resolved'.files = resolved.files
      /\ resolved'.repos = resolved.repos
      /\ \A c \in Components : /\ resolved'.lock[c].commit = resolved.lock[c].commit
                               /\ resolved'.lock[c].sha256 = resolved.lock[c].sha256
                               /\ resolved'.lock[c].port = resolved.lock[c].port
  <2>. DEFINE lock == [c \in Components |-> [resolved.lock[c] EXCEPT !.snapshot = resolved.repos[c]]]
  <2>1. ASSUME NEW c \in Components
        PROVE  /\ lock[c] \in Records /\ lock[c].commit = resolved.lock[c].commit
               /\ lock[c].sha256 = resolved.lock[c].sha256 /\ lock[c].port = resolved.lock[c].port
    <3>1. resolved.lock[c] \in Records /\ resolved.repos[c] \in Patches \cup {Nothing}
      BY <1>1 DEF Outputs
    <3>2. lock[c] = [resolved.lock[c] EXCEPT !.snapshot = resolved.repos[c]]
      OBVIOUS
    <3>. HIDE DEF lock
    <3>. QED BY <3>1, <3>2, RecordChanged DEF Records
  <2>2. lock \in [Components -> Records]
    BY <2>1
  <2>3. resolved' = [resolved EXCEPT !.lock = lock]
    BY DEF LockSnapshots
  <2>. HIDE DEF lock
  <2>4. resolved' \in Outputs
    BY <1>1, <2>2, <2>3, OutputChanged
  <2>. QED BY <1>1, <2>1, <2>3, <2>4, NothingElse DEF Outputs
<1>4. SameSource
  BY <1>3 DEF SameSource
<1>5. OneState'
  BY <1>1, <1>3, <1>4, OneStateKept DEF OutputOK, Chain
<1>6. ZramState'
  BY <1>1, <1>3, <1>4, ZramKept DEF OutputOK, AfterZram, Chain
<1>7. Material'
  BY <1>1, <1>3, MaterialKept DEF OutputOK, AfterMaterialize, AfterZram, Chain
<1>8. PortState'
  <2>1. \A c \in Ported : resolved'.lock[c].port = resolved.lock[c].port
    BY <1>3, PipelineShape DEF Ported
  <2>. QED BY <1>1, <1>2, <2>1, NoPortKept DEF OutputOK, NoPortYet, Chain, AfterBore
<1>. QED BY <1>5, <1>6, <1>7, <1>8 DEF OutputOK

(* Steps that leave the output as it is.                                   *)
LEMMA SameOutput ==
  ASSUME IInv, pc \in AfterMaterialize, pc' \in Chain \ {"zram", "zram lock"},
         UNCHANGED <<resolved, start, upstream, kernel>>
  PROVE  SameSource /\ OneState' /\ ZramState' /\ Material'
<1>1. OutputOK /\ pc \in Chain /\ pc \in AfterZram /\ resolved # Nothing
  BY DEF IInv, OutputOK, OneState, Past, AfterMaterialize, AfterZram
<1>2. SameSource
  BY DEF SameSource
<1>3. OneState'
  BY <1>1, <1>2, OneStateKept DEF OutputOK
<1>4. ZramState'
  BY <1>1, <1>2, ZramKept DEF OutputOK, Chain
<1>5. Material'
  BY <1>1, MaterialKept DEF OutputOK
<1>. QED BY <1>2, <1>3, <1>4, <1>5

LEMMA PinKeeps == ASSUME IInv, PinCore \/ PinWrapper \/ Validate PROVE OutputOK'
<1>1. /\ OutputOK /\ pc \in {"core", "wrapper", "validate"} /\ pc' \in {"wrapper", "validate", "bore"}
      /\ UNCHANGED <<resolved, start, upstream, kernel>>
  BY DEF IInv, PinCore, PinWrapper, Validate, Goto, resolver
<1>2. ~Final'
  BY <1>1, NotFinalAfter DEF Early, Chain, Next
<1>3. OneState' /\ ZramState' /\ Material'
  BY <1>1, SameOutput DEF AfterMaterialize, AfterZram, Chain
<1>4. PortState'
  BY <1>1, <1>2, NoPortKept DEF OutputOK, NoPortYet, Chain, AfterBore
<1>. QED BY <1>3, <1>4 DEF OutputOK

(* BORE's bytes are those of upstream, for this kernel.                    *)
LEMMA BoreSource ==
  ASSUME IInv, pc \in Chain
  PROVE  /\ Bore \in Components /\ Bore \in Ported /\ SchedExt \in Components /\ SchedExt \in Ported
         /\ resolved.files[Bore] = Source(Bore) /\ resolved.files[SchedExt] = Source(SchedExt)
         /\ resolved.kernel = kernel /\ kernel \in Kernels /\ kernel # Nothing
         /\ resolved # Nothing /\ resolved \in Outputs
         /\ Source(Bore) \in Patches /\ Source(SchedExt) \in Patches
<1>1. Bore \in Components \ {Zram} /\ SchedExt \in Components \ {Zram} /\ Bore \in Ported /\ SchedExt \in Ported
  BY PipelineShape DEF Ported
<1>2. /\ resolved.files[Bore] = Source(Bore) /\ resolved.files[SchedExt] = Source(SchedExt)
      /\ resolved.kernel = kernel /\ resolved # Nothing
  BY <1>1 DEF IInv, OutputOK, OneState, Past
<1>3. resolved.files[Bore] \in Patches /\ resolved.files[SchedExt] \in Patches /\ resolved \in Outputs
  BY <1>1, OutputType
<1>4. kernel \in Kernels
  BY DEF IInv, TypeOK
<1>. QED BY <1>1, <1>2, <1>3, <1>4, NothingElse

LEMMA NoBorePortKeeps == ASSUME IInv, NoBorePort PROVE OutputOK'
<1>1. /\ OutputOK /\ pc = "bore" /\ pc' = "sched_ext" /\ UNCHANGED <<resolved, start, upstream, kernel>>
  BY DEF IInv, NoBorePort, Goto, resolver
<1>2. ~Final'
  BY <1>1, NotFinalAfter DEF Early, Chain, Next
<1>3. OneState' /\ ZramState' /\ Material' /\ SameSource
  BY <1>1, SameOutput DEF AfterMaterialize, AfterZram, Chain
<1>4. PortState'
  <2>1. Own'
    BY <1>1, <1>3, BoreSource, SourceKept DEF NoBorePort, Own, Chain
  <2>2. resolved'.lock[Bore].port = Nothing /\ resolved'.lock[SchedExt].port = Nothing
    BY <1>1 DEF OutputOK, PortState, Chain, AfterBore, AfterSchedExt
  <2>. QED BY <1>1, <1>2, <2>1, <2>2 DEF PortState, Past, AfterBore, AfterSchedExt, Chain
<1>. QED BY <1>3, <1>4 DEF OutputOK

(* What writing a port changes, and what recording it changes.             *)
LEMMA WritePortDoes ==
  ASSUME IInv, NEW c \in Ported, NEW at \in Chain, NEW next \in Places, WritePort(c, at, next)
  PROVE  /\ resolved' # Nothing /\ resolved'.kernel = resolved.kernel /\ resolved'.lock = resolved.lock
         /\ resolved'.files = resolved.files /\ resolved'.repos = resolved.repos
         /\ \A d \in Ported : resolved'.ports[d] =
              IF d = c THEN PortOf(resolved.files[c], kernel) ELSE resolved.ports[d]
<1>1. resolved \in Outputs /\ resolved.files[c] \in Patches /\ kernel \in Kernels
  BY OutputType DEF WritePort, Goto, IInv, TypeOK
<1>. DEFINE ports == [resolved.ports EXCEPT ![c] = PortOf(resolved.files[c], kernel)]
<1>2. /\ ports \in [Ported -> Patches \cup {Nothing}]
      /\ \A d \in Ported : ports[d] = IF d = c THEN PortOf(resolved.files[c], kernel) ELSE resolved.ports[d]
  BY <1>1, PortTypes DEF Outputs
<1>3. resolved' = [resolved EXCEPT !.ports = ports]
  BY DEF WritePort
<1>. HIDE DEF ports
<1>4. resolved' \in Outputs
  BY <1>1, <1>2, <1>3, OutputChanged
<1>. QED BY <1>1, <1>2, <1>3, <1>4, NothingElse DEF Outputs

LEMMA LockPortDoes ==
  ASSUME IInv, NEW c \in Ported, NEW at \in Chain, NEW next \in Places, LockPort(c, at, next),
         resolved.ports[c] \in Patches
  PROVE  /\ resolved' # Nothing /\ resolved'.kernel = resolved.kernel /\ resolved'.ports = resolved.ports
         /\ resolved'.files = resolved.files /\ resolved'.repos = resolved.repos
         /\ \A d \in Components : /\ resolved'.lock[d].commit = resolved.lock[d].commit
                                  /\ resolved'.lock[d].sha256 = resolved.lock[d].sha256
                                  /\ d # c => resolved'.lock[d].port = resolved.lock[d].port
         /\ resolved'.lock[c].port = PortRecord(c)'
<1>. DEFINE port == [kernel |-> kernel, sha256 |-> resolved.ports[c], source_sha256 |-> resolved.lock[c].sha256]
            record == [resolved.lock[c] EXCEPT !.port = port]
<1>1. /\ resolved \in Outputs /\ resolved.lock[c] \in Records /\ resolved.lock[c].sha256 \in Patches
      /\ kernel \in Kernels /\ c \in Components
  BY OutputType DEF LockPort, Goto, IInv, TypeOK
<1>2. port \in Ports
  BY <1>1 DEF Ports
<1>3. resolved' = [resolved EXCEPT !.lock = [resolved.lock EXCEPT ![c] = record]]
  BY DEF LockPort
<1>. HIDE DEF port
<1>4. /\ record \in Records /\ record.port = port
      /\ record.commit = resolved.lock[c].commit /\ record.sha256 = resolved.lock[c].sha256
  BY <1>1, <1>2, RecordChanged DEF Records
<1>. HIDE DEF record
<1>5. /\ [resolved.lock EXCEPT ![c] = record] \in [Components -> Records]
      /\ \A d \in Components : [resolved.lock EXCEPT ![c] = record][d] = IF d = c THEN record ELSE resolved.lock[d]
  BY <1>1, <1>4 DEF Outputs
<1>6. resolved' \in Outputs
  BY <1>1, <1>3, <1>5, OutputChanged
<1>7. /\ resolved' # Nothing /\ resolved'.kernel = resolved.kernel /\ resolved'.ports = resolved.ports
      /\ resolved'.files = resolved.files /\ resolved'.repos = resolved.repos
      /\ resolved'.lock = [resolved.lock EXCEPT ![c] = record]
  BY <1>1, <1>3, <1>6, NothingElse DEF Outputs
<1>8. resolved'.lock[c].port = [kernel |-> kernel, sha256 |-> resolved.ports[c],
                                source_sha256 |-> resolved.lock[c].sha256]
  BY <1>1, <1>4, <1>5, <1>7 DEF port
<1>9. resolved'.lock[c].sha256 = resolved.lock[c].sha256 /\ resolved.kernel = kernel
  BY <1>1, <1>4, <1>5, <1>7 DEF IInv, OutputOK, OneState, Past, LockPort, Goto
<1>10. PortRecord(c)' = [kernel |-> kernel, sha256 |-> resolved.ports[c],
                         source_sha256 |-> resolved.lock[c].sha256]
  BY <1>7, <1>9 DEF PortRecord
<1>. QED BY <1>1, <1>4, <1>5, <1>7, <1>8, <1>10

(* A step of a port keeps all that is not about ports.                     *)
LEMMA PortSteps ==
  ASSUME IInv, pc \in AfterMaterialize, pc' \in Chain \ {"zram", "zram lock"},
         UNCHANGED <<start, upstream, kernel>>,
         resolved' # Nothing, resolved'.kernel = resolved.kernel,
         resolved'.files = resolved.files, resolved'.repos = resolved.repos,
         \A d \in Components : /\ resolved'.lock[d].commit = resolved.lock[d].commit
                               /\ resolved'.lock[d].sha256 = resolved.lock[d].sha256
                               /\ d \notin Ported => resolved'.lock[d].port = resolved.lock[d].port
  PROVE  SameSource /\ OneState' /\ ZramState' /\ Material'
<1>1. OutputOK /\ pc \in Chain /\ pc \in AfterZram /\ Zram \in Components
  BY PipelineShape DEF IInv, AfterMaterialize, AfterZram
<1>2. SameSource
  BY DEF SameSource
<1>3. OneState'
  BY <1>1, <1>2, OneStateKept DEF OutputOK
<1>4. ZramState'
  BY <1>1, <1>2, ZramKept DEF OutputOK
<1>5. Material'
  BY <1>1, MaterialKept DEF OutputOK
<1>. QED BY <1>2, <1>3, <1>4, <1>5

LEMMA WriteBorePortKeeps == ASSUME IInv, WriteBorePort PROVE OutputOK'
<1>1. /\ OutputOK /\ pc = "bore" /\ pc' = "bore lock" /\ UNCHANGED <<start, upstream, kernel>>
      /\ pc \in Chain /\ "bore" \in Chain /\ "bore lock" \in Places
  BY DEF IInv, WriteBorePort, WritePort, Goto, Chain, Places
<1>2. ~Final'
  BY <1>1, NotFinalAfter DEF Early, Chain, Next
<1>3. WritePort(Bore, "bore", "bore lock") /\ Target[resolved.files[Bore].rev] # kernel
  BY DEF WriteBorePort
<1>4. /\ resolved' # Nothing /\ resolved'.kernel = resolved.kernel /\ resolved'.lock = resolved.lock
      /\ resolved'.files = resolved.files /\ resolved'.repos = resolved.repos
      /\ resolved'.ports[Bore] = PortOf(Source(Bore), resolved.kernel)
  BY <1>1, <1>3, BoreSource, WritePortDoes
<1>5. OneState' /\ ZramState' /\ Material' /\ SameSource
  BY <1>1, <1>4, PortSteps DEF AfterMaterialize, AfterZram, Chain
<1>6. PortState'
  <2>1. ~Own' /\ Source(Bore)' = Source(Bore)
    BY <1>1, <1>3, <1>5, BoreSource, SourceKept DEF Own
  <2>2. resolved'.lock[Bore].port = Nothing /\ resolved'.lock[SchedExt].port = Nothing
    BY <1>1, <1>4 DEF OutputOK, PortState, AfterBore, AfterSchedExt
  <2>. QED BY <1>1, <1>2, <1>4, <2>1, <2>2 DEF PortState, Past, AfterBore, AfterSchedExt
<1>. QED BY <1>5, <1>6 DEF OutputOK

LEMMA LockBorePortKeeps == ASSUME IInv, LockBorePort PROVE OutputOK'
<1>1. /\ OutputOK /\ pc = "bore lock" /\ pc' = "sched_ext" /\ UNCHANGED <<start, upstream, kernel>>
      /\ pc \in Chain /\ "bore lock" \in Chain /\ "sched_ext" \in Places
  BY DEF IInv, LockBorePort, LockPort, Goto, Chain, Places
<1>2. ~Final'
  BY <1>1, NotFinalAfter DEF Early, Chain, Next
<1>3. LockPort(Bore, "bore lock", "sched_ext")
  BY DEF LockBorePort
<1>4. ~Own /\ resolved.ports[Bore] = PortOf(Source(Bore), resolved.kernel) /\ resolved.lock[SchedExt].port = Nothing
  BY <1>1 DEF OutputOK, PortState, AfterSchedExt
<1>5. resolved.ports[Bore] \in Patches
  BY <1>1, <1>4, BoreSource, PortTypes
<1>6. /\ resolved' # Nothing /\ resolved'.kernel = resolved.kernel /\ resolved'.ports = resolved.ports
      /\ resolved'.files = resolved.files /\ resolved'.repos = resolved.repos
      /\ \A d \in Components : /\ resolved'.lock[d].commit = resolved.lock[d].commit
                               /\ resolved'.lock[d].sha256 = resolved.lock[d].sha256
                               /\ d # Bore => resolved'.lock[d].port = resolved.lock[d].port
      /\ resolved'.lock[Bore].port = PortRecord(Bore)'
  BY <1>1, <1>3, <1>5, BoreSource, LockPortDoes
<1>7. OneState' /\ ZramState' /\ Material' /\ SameSource
  <2>1. pc \in AfterMaterialize /\ pc' \in Chain \ {"zram", "zram lock"} /\ UNCHANGED <<start, upstream, kernel>>
    BY <1>1 DEF AfterMaterialize, AfterZram, Chain
  <2>2. \A d \in Components : d \notin Ported => resolved'.lock[d].port = resolved.lock[d].port
    BY <1>6 DEF Ported
  <2>. QED BY <1>6, <2>1, <2>2, PortSteps
<1>8. PortState'
  <2>1. ~Own' /\ Source(Bore)' = Source(Bore)
    BY <1>1, <1>4, <1>7, BoreSource, SourceKept
  <2>2. HasPort(Bore)'
    BY <1>1, <1>4, <1>6, <2>1 DEF HasPort
  <2>3. resolved'.lock[SchedExt].port = Nothing
    <3>1. SchedExt \in Components /\ SchedExt # Bore
      BY PipelineShape
    <3>2. resolved'.lock[SchedExt].port = resolved.lock[SchedExt].port
      BY <1>6, <3>1
    <3>. QED BY <1>4, <3>2
  <2>. QED BY <1>1, <1>2, <2>1, <2>2, <2>3 DEF PortState, Past, AfterSchedExt, Chain, AfterBore
<1>. QED BY <1>7, <1>8 DEF OutputOK

LEMMA WriteSchedExtPortKeeps == ASSUME IInv, WriteSchedExtPort PROVE OutputOK'
<1>1. /\ OutputOK /\ pc = "sched_ext" /\ pc' = "sched_ext lock" /\ UNCHANGED <<start, upstream, kernel>>
      /\ pc \in Chain /\ "sched_ext" \in Chain /\ "sched_ext lock" \in Places
  BY DEF IInv, WriteSchedExtPort, WritePort, Goto, Chain, Places
<1>2. ~Final'
  BY <1>1, NotFinalAfter DEF Early, Chain, Next
<1>3. WritePort(SchedExt, "sched_ext", "sched_ext lock")
  BY DEF WriteSchedExtPort
<1>4. /\ resolved' # Nothing /\ resolved'.kernel = resolved.kernel /\ resolved'.lock = resolved.lock
      /\ resolved'.files = resolved.files /\ resolved'.repos = resolved.repos
      /\ resolved'.ports[SchedExt] = PortOf(Source(SchedExt), resolved.kernel)
      /\ resolved'.ports[Bore] = resolved.ports[Bore]
  BY <1>1, <1>3, BoreSource, WritePortDoes, PipelineShape
<1>5. OneState' /\ ZramState' /\ Material' /\ SameSource
  BY <1>1, <1>4, PortSteps DEF AfterMaterialize, AfterZram, Chain
<1>6. PortState'
  <2>1. (Own' <=> Own) /\ Source(Bore)' = Source(Bore) /\ Source(SchedExt)' = Source(SchedExt)
    BY <1>1, <1>5, BoreSource, SourceKept
  <2>2. IF Own THEN resolved.lock[Bore].port = Nothing ELSE HasPort(Bore)
    BY <1>1 DEF OutputOK, PortState, Past, AfterBore
  <2>3. IF Own' THEN resolved'.lock[Bore].port = Nothing ELSE HasPort(Bore)'
    BY <1>4, <2>1, <2>2 DEF HasPort, PortRecord
  <2>4. resolved'.lock[SchedExt].port = Nothing
    BY <1>1, <1>4 DEF OutputOK, PortState, AfterSchedExt
  <2>. QED BY <1>1, <1>2, <1>4, <2>1, <2>3, <2>4 DEF PortState, Past, AfterBore, AfterSchedExt
<1>. QED BY <1>5, <1>6 DEF OutputOK

LEMMA LockSchedExtPortKeeps == ASSUME IInv, LockSchedExtPort PROVE OutputOK'
<1>1. /\ OutputOK /\ pc = "sched_ext lock" /\ pc' = "finalize" /\ UNCHANGED <<start, upstream, kernel>>
      /\ pc \in Chain /\ "sched_ext lock" \in Chain /\ "finalize" \in Places
  BY DEF IInv, LockSchedExtPort, LockPort, Goto, Chain, Places
<1>2. ~Final'
  BY <1>1, NotFinalAfter DEF Early, Chain, Next
<1>3. LockPort(SchedExt, "sched_ext lock", "finalize")
  BY DEF LockSchedExtPort
<1>4. /\ resolved.ports[SchedExt] = PortOf(Source(SchedExt), resolved.kernel)
      /\ IF Own THEN resolved.lock[Bore].port = Nothing ELSE HasPort(Bore)
  BY <1>1 DEF OutputOK, PortState, Past, AfterBore
<1>5. resolved.ports[SchedExt] \in Patches
  BY <1>1, <1>4, BoreSource, PortTypes
<1>6. /\ resolved' # Nothing /\ resolved'.kernel = resolved.kernel /\ resolved'.ports = resolved.ports
      /\ resolved'.files = resolved.files /\ resolved'.repos = resolved.repos
      /\ \A d \in Components : /\ resolved'.lock[d].commit = resolved.lock[d].commit
                               /\ resolved'.lock[d].sha256 = resolved.lock[d].sha256
                               /\ d # SchedExt => resolved'.lock[d].port = resolved.lock[d].port
      /\ resolved'.lock[SchedExt].port = PortRecord(SchedExt)'
  BY <1>1, <1>3, <1>5, BoreSource, LockPortDoes
<1>7. OneState' /\ ZramState' /\ Material' /\ SameSource
  <2>1. pc \in AfterMaterialize /\ pc' \in Chain \ {"zram", "zram lock"} /\ UNCHANGED <<start, upstream, kernel>>
    BY <1>1 DEF AfterMaterialize, AfterZram, Chain
  <2>2. \A d \in Components : d \notin Ported => resolved'.lock[d].port = resolved.lock[d].port
    BY <1>6 DEF Ported
  <2>. QED BY <1>6, <2>1, <2>2, PortSteps
<1>8. PortState'
  <2>1. (Own' <=> Own) /\ Source(Bore)' = Source(Bore) /\ Source(SchedExt)' = Source(SchedExt)
    BY <1>1, <1>7, BoreSource, SourceKept
  <2>2. HasPort(SchedExt)'
    BY <1>1, <1>4, <1>6, <2>1 DEF HasPort
  <2>3. IF Own' THEN resolved'.lock[Bore].port = Nothing ELSE HasPort(Bore)'
    <3>1. Bore \in Components /\ Bore # SchedExt
      BY PipelineShape
    <3>2. /\ resolved'.lock[Bore].port = resolved.lock[Bore].port
          /\ resolved'.lock[Bore].sha256 = resolved.lock[Bore].sha256
      BY <1>6, <3>1
    <3>3. PortRecord(Bore)' = PortRecord(Bore)
      BY <1>6, <3>2 DEF PortRecord
    <3>. QED BY <1>4, <1>6, <2>1, <3>2, <3>3 DEF HasPort
  <2>. QED BY <1>1, <1>2, <2>2, <2>3 DEF PortState, Past, AfterSchedExt, Chain, AfterBore
<1>. QED BY <1>7, <1>8 DEF OutputOK

(* The scripts are told which ports there are.                             *)
LEMMA FinalizeKeeps == ASSUME IInv, FinalizeCore PROVE OutputOK'
<1>1. /\ OutputOK /\ TypeOK /\ Stages /\ pc = "finalize" /\ pc' = "validate again"
      /\ UNCHANGED <<resolved, start, upstream, kernel>> /\ pc \in Chain
  BY DEF IInv, FinalizeCore, Goto, resolver, Chain
<1>2. OneState' /\ ZramState' /\ Material' /\ SameSource
  BY <1>1, SameOutput DEF AfterMaterialize, AfterZram, Chain
<1>3. Final' => \A c \in Ported : tree'.port[c] <=> resolved.lock[c].port # Nothing
  <2>. DEFINE port == [c \in Ported |-> resolved.lock[c].port # Nothing]
              s == [Script EXCEPT !.stage = "final",
                      !.sha256 = [c \in Ported |-> resolved.lock[c].sha256], !.port = port]
  <2>1. ~Final
    BY <1>1, NotFinal DEF Early, Chain
  <2>2. s.port = port
    BY <1>1, ScriptType DEF ScriptRecords
  <2>3. Write(s)
    BY DEF FinalizeCore
  <2>. HIDE DEF s
  <2>4. tree' = s \/ tree' = tree
    BY <2>3 DEF Write
  <2>5. Final' => tree'.port = port
    BY <2>1, <2>2, <2>4 DEF Final
  <2>. QED BY <2>5
<1>4. PortState'
  <2>1. (Own' <=> Own) /\ Source(Bore)' = Source(Bore) /\ Source(SchedExt)' = Source(SchedExt)
    BY <1>1, <1>2, BoreSource, SourceKept
  <2>2. /\ IF Own THEN resolved.lock[Bore].port = Nothing ELSE HasPort(Bore)
        /\ HasPort(SchedExt)
    BY <1>1 DEF OutputOK, PortState, Past, AfterBore, AfterSchedExt
  <2>3. HasPort(Bore)' = HasPort(Bore) /\ HasPort(SchedExt)' = HasPort(SchedExt)
    BY <1>1, <2>1 DEF HasPort, PortRecord
  <2>. QED BY <1>1, <1>3, <2>1, <2>2, <2>3 DEF PortState, Past, AfterSchedExt, Chain, AfterBore
<1>. QED BY <1>2, <1>4 DEF OutputOK

LEMMA PushKeeps == ASSUME IInv, NEW r \in Repos, Push(r) PROVE OutputOK'
<1>1. OutputOK /\ UNCHANGED <<start, kernel, pc, resolved, tree>>
  BY DEF IInv, Push, resolver, scripts
<1>2. \A q \in Repos : start[q]..upstream[q] \subseteq start[q]..upstream'[q]
  <2>1. upstream \in [Repos -> Commits] /\ start \in [Repos -> Commits]
    BY DEF IInv, TypeOK
  <2>2. \A q \in Repos : upstream[q] \in Int /\ start[q] \in Int
    BY <2>1, CommitIsInt
  <2>3. \A q \in Repos : upstream'[q] = IF q = r THEN upstream[r] + 1 ELSE upstream[q]
    BY <2>1 DEF Push
  <2>. QED BY <2>2, <2>3
<1>3. OneState'
  <2>1. \A c \in Components : RepoOf[c] \in Repos
    BY PipelineShape
  <2>. QED BY <1>1, <1>2, <2>1 DEF OutputOK, OneState, Past, Final, Source
<1>4. ZramState' /\ Material' /\ PortState'
  BY <1>1 DEF OutputOK, ZramState, Material, PortState, Past, Final, Source, LocalPort, Own, HasPort, PortRecord
<1>. QED BY <1>3, <1>4 DEF OutputOK

(* Steps after which nothing is asked of the output, or what was.          *)
LEMMA OtherKeeps ==
  ASSUME IInv, \/ Begin \/ Rewrite \/ Resolve \/ RemoveOutput \/ EndPreflight \/ Checkout
               \/ Validated \/ Build \/ Rebuild \/ Stop
  PROVE  OutputOK'
<1>1. CASE Begin \/ Rewrite \/ Resolve \/ RemoveOutput \/ EndPreflight
  <2>1. pc' \in {"rewrite", "resolve", "replace"}
    BY <1>1 DEF Begin, Rewrite, Resolve, RemoveOutput, EndPreflight, Goto
  <2>2. ~Final'
    BY <1>1, <2>1, NotFinalAfter DEF Early, Next
  <2>. QED BY <2>1, <2>2, Vacuous DEF Chain
<1>2. CASE Checkout
  <2>1. pc' = "idle" /\ ~Final'
    BY <1>2 DEF Checkout, Template, Final
  <2>. QED BY <2>1, Vacuous DEF Chain
<1>3. CASE Validated \/ Build \/ Rebuild \/ Stop
  <2>1. OutputOK /\ pc' \in {"build", "idle"} /\ UNCHANGED <<start, upstream, tree, resolved>>
    BY <1>3 DEF IInv, Validated, Build, Rebuild, Stop, Goto, resolver, scripts
  <2>. QED BY <2>1, FinalKept DEF Chain
<1>. QED BY <1>1, <1>2, <1>3

LEMMA OutputKept == ASSUME IInv, [Next]_vars PROVE OutputOK'
<1>1. CASE UNCHANGED vars
  BY <1>1 DEF IInv, vars, resolver, scripts, OutputOK, OneState, ZramState, Material, PortState, Past,
              Final, Source, LocalPort, Own, HasPort, PortRecord
<1>2. CASE \E r \in Repos : Push(r)
  BY <1>2, PushKeeps
<1>3. CASE \/ Begin \/ Rewrite \/ Resolve \/ RemoveOutput \/ EndPreflight \/ Checkout
           \/ Validated \/ Build \/ Rebuild \/ Stop
  BY <1>3, OtherKeeps
<1>4. CASE ReplaceOutput \/ ZramBytes \/ ZramLock \/ Materialize \/ LockSnapshots
  BY <1>4, ReplaceKeeps, ZramBytesKeeps, ZramLockKeeps, MaterializeKeeps, LockSnapshotsKeeps
<1>5. CASE PinCore \/ PinWrapper \/ Validate
  BY <1>5, PinKeeps
<1>6. CASE NoBorePort \/ WriteBorePort \/ LockBorePort
  BY <1>6, NoBorePortKeeps, WriteBorePortKeeps, LockBorePortKeeps
<1>7. CASE WriteSchedExtPort \/ LockSchedExtPort \/ FinalizeCore
  BY <1>7, WriteSchedExtPortKeeps, LockSchedExtPortKeeps, FinalizeKeeps
<1>. QED BY <1>1, <1>2, <1>3, <1>4, <1>5, <1>6, <1>7 DEF Next

-----------------------------------------------------------------------------
(* The build.                                                              *)

(* What is applied of each component, and for which kernel the output is.  *)
LEMMA BuildApplies ==
  ASSUME IInv, Build
  PROVE  /\ resolved.kernel = kernel
         /\ \A c \in Components \ Ported :
              Applied(c) = resolved.files[c] /\ resolved.lock[c].port = Nothing
         /\ \A c \in Ported : IF resolved.lock[c].port = Nothing
                              THEN Applied(c) = resolved.files[c]
                              ELSE HasPort(c) /\ Applied(c) = resolved.ports[c]
         /\ \A c \in Components : resolved.lock[c].sha256 = resolved.files[c]
         /\ Applied(Bore) = IF Own THEN Source(Bore) ELSE PortOf(Source(Bore), kernel)
         /\ Applied(SchedExt) = PortOf(Source(SchedExt), kernel)
<1>1. TypeOK /\ OutputOK /\ pc = "build" /\ Final
  BY DEF IInv, Build, Goto, Stages
<1>2. Bore \in Components \ {Zram} /\ SchedExt \in Components \ {Zram} /\ Ported = {Bore, SchedExt}
  BY PipelineShape DEF Ported
<1>3. \A c \in Components : resolved.lock[c].sha256 = resolved.files[c] /\ resolved.repos[c] = resolved.files[c]
  BY <1>1 DEF OutputOK, OneState, ZramState, Material, Past
<1>4. ASSUME NEW c \in Components \ Ported
      PROVE  Applied(c) = resolved.files[c] /\ resolved.lock[c].port = Nothing
  <2>1. resolved.lock[c].port = Nothing
    BY <1>1 DEF OutputOK, OneState, Past
  <2>2. CASE c \in Direct
    BY <2>1, <2>2, PipelineShape DEF Applied
  <2>3. CASE c \notin Direct
    BY <1>3, <2>1, <2>3 DEF Applied
  <2>. QED BY <2>1, <2>2, <2>3
<1>5. /\ IF Own THEN resolved.lock[Bore].port = Nothing ELSE HasPort(Bore)
      /\ HasPort(SchedExt)
      /\ \A c \in Ported : tree.port[c] <=> resolved.lock[c].port # Nothing
  BY <1>1 DEF OutputOK, PortState, Past
<1>6. \A c \in Ported : Applied(c) = IF tree.port[c] THEN resolved.ports[c] ELSE resolved.files[c]
  BY PipelineShape DEF Applied
<1>7. ASSUME NEW c \in Components PROVE HasPort(c) => resolved.lock[c].port # Nothing
  <2>1. resolved.lock[c] \in Records /\ resolved.lock[c].sha256 \in Patches /\ resolved.kernel \in Kernels
    BY <1>1, OutputType
  <2>2. ASSUME HasPort(c) PROVE resolved.lock[c].port # Nothing
    <3>1. Source(c) \in Patches
      BY <1>1, <2>1, OutputType, UpstreamTypes DEF Source
    <3>2. resolved.ports[c] \in Patches
      BY <2>1, <2>2, <3>1, PortTypes DEF HasPort
    <3>3. PortRecord(c) \in Ports
      BY <2>1, <3>2 DEF PortRecord, Ports
    <3>. QED BY <2>2, <3>3, NothingElse DEF HasPort
  <2>. QED BY <2>2
<1>8. \A c \in Ported : IF resolved.lock[c].port = Nothing
                        THEN Applied(c) = resolved.files[c]
                        ELSE HasPort(c) /\ Applied(c) = resolved.ports[c]
  BY <1>2, <1>5, <1>6, <1>7
<1>9. resolved.kernel = kernel
  <2>1. /\ Source(Bore) \in Patches /\ Source(Bore).for = Nothing /\ Source(Bore).of = Bore
        /\ resolved.kernel \in Kernels /\ resolved.files[Bore] = Source(Bore)
        /\ kernel \in Kernels /\ kernel # Nothing /\ resolved.kernel # Nothing
    <3>1. resolved.files[Bore] = Source(Bore)
      BY <1>1, <1>2 DEF OutputOK, OneState, Past
    <3>2. resolved.kernel \in Kernels /\ resolved.lock[Bore].commit \in Commits
      BY <1>1, <1>2, OutputType
    <3>3. kernel \in Kernels
      BY <1>1 DEF TypeOK
    <3>. QED BY <1>2, <3>1, <3>2, <3>3, UpstreamTypes, NothingElse DEF Source
  <2>2. Subject(Applied(Bore), kernel)
    BY <1>2 DEF Build, NamesKernel
  <2>3. CASE Own
    <3>1. Applied(Bore) = Source(Bore)
      BY <1>2, <1>5, <1>8, <2>1, <2>3
    <3>. QED BY <2>1, <2>2, <2>3, <3>1 DEF Subject, Own
  <2>4. CASE ~Own
    <3>1. Applied(Bore) = PortOf(Source(Bore), resolved.kernel)
      BY <1>2, <1>5, <1>7, <1>8, <2>4 DEF HasPort
    <3>2. Applied(Bore).for = resolved.kernel
      BY <2>1, <3>1, PortTypes
    <3>. QED BY <2>1, <2>2, <3>2 DEF Subject
  <2>. QED BY <2>3, <2>4
<1>10. Applied(Bore) = IF Own THEN Source(Bore) ELSE PortOf(Source(Bore), kernel)
  <2>1. resolved.files[Bore] = Source(Bore)
    BY <1>1, <1>2 DEF OutputOK, OneState, Past
  <2>. QED BY <1>2, <1>5, <1>7, <1>8, <1>9, <2>1 DEF HasPort
<1>11. Applied(SchedExt) = PortOf(Source(SchedExt), kernel)
  BY <1>2, <1>5, <1>7, <1>8, <1>9 DEF HasPort
<1>. QED BY <1>3, <1>4, <1>8, <1>9, <1>10, <1>11

LEMMA BuildIsLocked == ASSUME IInv, Build PROVE BuiltIsLocked'
<1>1. /\ built'.log = resolved.lock
      /\ \A c \in Components : built'.patches[c] = Applied(c)
  BY DEF Build
<1>2. ASSUME NEW c \in Components
      PROVE  LET record == resolved.lock[c] IN
               IF record.port = Nothing
               THEN Applied(c) = record.sha256
               ELSE /\ Applied(c) = record.port.sha256
                    /\ record.port.source_sha256 = record.sha256
  <2>1. CASE c \notin Ported
    BY <2>1, BuildApplies
  <2>2. CASE c \in Ported /\ resolved.lock[c].port = Nothing
    BY <2>2, BuildApplies
  <2>3. CASE c \in Ported /\ resolved.lock[c].port # Nothing
    <3>1. Applied(c) = resolved.ports[c] /\ resolved.lock[c].port = PortRecord(c)
      BY <2>3, BuildApplies DEF HasPort
    <3>. QED BY <2>3, <3>1 DEF PortRecord
  <2>. QED BY <2>1, <2>2, <2>3
<1>. QED BY <1>1, <1>2 DEF BuiltIsLocked

LEMMA BuildIsForItsKernel == ASSUME IInv, Build PROVE BuildsItsKernel'
<1>1. /\ built'.kernel = kernel
      /\ \A c \in Components : built'.patches[c] = Applied(c)
  BY DEF Build
<1>2. ASSUME NEW c \in Components, Applied(c).for # Nothing \/ c \in Ported
      PROVE  Subject(Applied(c), kernel)
  <2>1. CASE c \in Ported
    BY <2>1 DEF Build, NamesKernel
  <2>2. CASE c \notin Ported
    <3>1. Applied(c) = resolved.files[c] /\ resolved.kernel = kernel
      BY <2>2, BuildApplies
    <3>2. /\ TypeOK /\ OutputOK /\ Final
          /\ c # Zram => resolved.files[c] = Source(c)
      BY DEF IInv, Build, Goto, Stages, OutputOK, OneState, Past
    <3>3. resolved.lock[c].commit \in Commits /\ resolved.kernel \in Kernels
      BY <3>2, OutputType
    <3>4. Source(c).for = Nothing
      BY <3>3, UpstreamTypes DEF Source
    <3>5. c = Zram /\ resolved.files[Zram] = LocalPort
      BY <1>2, <2>2, <3>1, <3>2, <3>4 DEF OutputOK, ZramState, Past
    <3>. QED BY <3>1, <3>5 DEF LocalPort, Subject
  <2>. QED BY <2>1, <2>2
<1>. QED BY <1>1, <1>2 DEF BuildsItsKernel

LEMMA BuiltKept == ASSUME IInv, [Next]_vars PROVE BuiltIsLocked' /\ BuildsItsKernel'
<1>1. CASE Build
  BY <1>1, BuildIsLocked, BuildIsForItsKernel
<1>2. CASE built' = built
  BY <1>2 DEF IInv, BuiltIsLocked, BuildsItsKernel
<1>3. [Next]_vars => Build \/ built' = built
  BY DEF Next, vars, Push, Begin, Rewrite, Resolve, RemoveOutput, ReplaceOutput, ZramBytes, ZramLock,
         Materialize, LockSnapshots, PinCore, PinWrapper, Validate, NoBorePort, WriteBorePort,
         LockBorePort, WriteSchedExtPort, LockSchedExtPort, WritePort, LockPort, FinalizeCore,
         EndPreflight, Validated, Rebuild, Stop, Checkout
<1>. QED BY <1>1, <1>2, <1>3

-----------------------------------------------------------------------------
LEMMA InitHolds == Init => IInv
<1>. SUFFICES ASSUME Init PROVE IInv
  OBVIOUS
<1>1. TypeOK
  BY InitTypes
<1>2. pc = "idle" /\ ~Final /\ built = Nothing /\ start = upstream
  BY DEF Init, Final, Template
<1>3. Stages
  BY <1>2, <1>1 DEF Stages, Init
<1>4. Looked
  <2>1. \A r \in Repos : start[r] <= upstream[r]
    BY <1>1, <1>2, CommitIsInt DEF TypeOK
  <2>. QED BY <1>2, <2>1 DEF Looked
<1>5. OutputOK
  BY <1>2 DEF OutputOK, OneState, ZramState, Material, PortState, Past, Chain, AfterZram,
              AfterMaterialize, AfterBore, AfterSchedExt
<1>. QED BY <1>1, <1>2, <1>3, <1>4, <1>5 DEF IInv, BuiltIsLocked, BuildsItsKernel

(* The invariant the others follow from: the stage of the scripts, what    *)
(* the resolver has looked at, and what the output is at each place of the *)
(* chain, with the scripts that were made final remembering it.            *)
THEOREM Invariance == Spec => []IInv
<1>1. IInv /\ [Next]_vars => IInv'
  BY TypesKept, StagesKept, LookedKept, OutputKept, BuiltKept DEF IInv
<1>. QED BY <1>1, InitHolds, PTL DEF Spec

(* Every variable keeps its type; a lock is complete from the moment it    *)
(* has its name, whatever is killed when.                                  *)
THEOREM TypeCorrect == Spec => []TypeOK
<1>1. IInv => TypeOK
  BY DEF IInv
<1>. QED BY <1>1, Invariance, PTL

(* What any build compiles is what the lock kept with its logs says.       *)
THEOREM LockIsWhatIsBuilt == Spec => []BuiltIsLocked
<1>1. IInv => BuiltIsLocked
  BY DEF IInv
<1>. QED BY <1>1, Invariance, PTL

(* No patch made for one kernel goes into another, although a finished     *)
(* tree may be built again for any kernel.                                 *)
THEOREM PatchesFitTheirKernel == Spec => []BuildsItsKernel
<1>1. IInv => BuildsItsKernel
  BY DEF IInv
<1>. QED BY <1>1, Invariance, PTL

-----------------------------------------------------------------------------
(* One state of upstream.                                                  *)

(* The commits of the lock, as a state of every repository.                *)
Seen == [r \in Repos |->
  IF \E c \in Components : RepoOf[c] = r
  THEN resolved.lock[CHOOSE c \in Components : RepoOf[c] = r].commit
  ELSE upstream[r]]

LEMMA SeenIsOneState ==
  ASSUME IInv, Build
  PROVE  /\ Seen \in [Repos -> 1..MaxCommits]
         /\ \A r \in Repos : start[r] <= Seen[r] /\ Seen[r] <= upstream[r]
         /\ \A c \in Components : Seen[RepoOf[c]] = resolved.lock[c].commit
<1>1. TypeOK /\ OutputOK /\ Looked /\ Final
  BY DEF IInv, Build, Goto, Stages
<1>2. /\ upstream \in [Repos -> Commits] /\ start \in [Repos -> Commits]
      /\ \A r \in Repos : start[r] <= upstream[r]
  BY <1>1 DEF TypeOK, Looked
<1>3. ASSUME NEW c \in Components
      PROVE  /\ resolved.lock[c].commit \in Commits /\ RepoOf[c] \in Repos
             /\ resolved.lock[c].commit \in start[RepoOf[c]]..upstream[RepoOf[c]]
  BY <1>1, OutputType, PipelineShape DEF OutputOK, OneState, Past
<1>4. \A c, d \in Components :
        RepoOf[c] = RepoOf[d] => resolved.lock[c].commit = resolved.lock[d].commit
  BY <1>1 DEF OutputOK, OneState, Past
<1>5. ASSUME NEW r \in Repos
      PROVE  /\ Seen[r] \in Commits /\ start[r] <= Seen[r] /\ Seen[r] <= upstream[r]
             /\ \A c \in Components : RepoOf[c] = r => Seen[r] = resolved.lock[c].commit
  <2>1. start[r] \in Int /\ upstream[r] \in Int /\ upstream[r] \in Commits /\ upstream[r] <= upstream[r]
    BY <1>2, CommitIsInt
  <2>2. CASE \E c \in Components : RepoOf[c] = r
    <3>. DEFINE d == CHOOSE c \in Components : RepoOf[c] = r
    <3>1. d \in Components /\ RepoOf[d] = r
      BY <2>2
    <3>2. Seen[r] = resolved.lock[d].commit
      BY <2>2 DEF Seen
    <3>. HIDE DEF d
    <3>. QED BY <1>3, <1>4, <2>1, <3>1, <3>2
  <2>3. CASE ~\E c \in Components : RepoOf[c] = r
    <3>1. Seen[r] = upstream[r]
      BY <2>3 DEF Seen
    <3>. QED BY <1>2, <2>1, <2>3, <3>1
  <2>. QED BY <2>2, <2>3
<1>6. Seen \in [Repos -> 1..MaxCommits]
  <2>1. Seen = [r \in Repos |-> Seen[r]]
    BY DEF Seen
  <2>. QED BY <1>5, <2>1 DEF Commits
<1>. QED BY <1>3, <1>5, <1>6

(* What is applied is what the abstract build derives from the commits.    *)
LEMMA AppliesWhatIsDerived ==
  ASSUME IInv, Build, NEW c \in Components
  PROVE  Applied(c) = Atomic!PatchFor(c, resolved.lock[c].commit, kernel)
<1>1. TypeOK /\ OutputOK /\ Final
  BY DEF IInv, Build, Goto, Stages
<1>. DEFINE n == resolved.lock[c].commit
<1>2. /\ n \in Commits /\ kernel \in Kernels /\ resolved.kernel = kernel
      /\ Source(c) = Upstream(c, n, kernel)
  BY <1>1, OutputType, BuildApplies DEF Source
<1>3. Atomic!Upstream(c, n, kernel) = Upstream(c, n, kernel)
  BY DEF Atomic!Upstream, Upstream
<1>4. /\ Source(c).rev = File[c][n][kernel] /\ Source(c).of = c /\ Source(c) \in Patches
  BY <1>2, UpstreamTypes
<1>5. PortOf(Source(c), kernel) = [Upstream(c, n, kernel) EXCEPT !.for = kernel]
  BY <1>2 DEF PortOf
<1>. HIDE DEF n
<1>6. CASE c = SchedExt
  <2>1. Applied(c) = PortOf(Source(c), kernel)
    BY <1>6, BuildApplies
  <2>2. Atomic!Derived(c, n, kernel)
    BY <1>6 DEF Atomic!Derived
  <2>. QED BY <1>3, <1>5, <2>1, <2>2 DEF Atomic!PatchFor, n
<1>7. CASE c = Bore
  <2>1. Applied(c) = IF Own THEN Source(c) ELSE PortOf(Source(c), kernel)
    BY <1>7, BuildApplies
  <2>2. Own <=> Target[File[c][n][kernel]] = kernel
    BY <1>2, <1>4, <1>7 DEF Own
  <2>3. Atomic!Derived(c, n, kernel) <=> ~Own
    BY <1>7, <2>2, PipelineShape DEF Atomic!Derived, Ported
  <2>. QED BY <1>2, <1>3, <1>5, <2>1, <2>3 DEF Atomic!PatchFor, n
<1>8. CASE c = Zram
  <2>1. c \notin Ported /\ c # SchedExt /\ c # Bore
    BY <1>8, PipelineShape DEF Ported
  <2>2. Applied(c) = IF kernel \in ZramKernels THEN LocalPort ELSE Source(c)
    BY <1>1, <1>2, <1>8, <2>1, BuildApplies DEF OutputOK, ZramState, Past
  <2>3. LocalPort = PortOf(Source(c), kernel)
    BY <1>2, <1>4, <1>8 DEF LocalPort, PortOf, Patches
  <2>4. Atomic!Derived(c, n, kernel) <=> kernel \in ZramKernels
    BY <1>8, <2>1 DEF Atomic!Derived
  <2>. QED BY <1>2, <1>3, <1>5, <2>2, <2>3, <2>4 DEF Atomic!PatchFor, n
<1>9. CASE c \notin {SchedExt, Bore, Zram}
  <2>1. Applied(c) = Source(c)
    BY <1>1, <1>9, BuildApplies DEF OutputOK, OneState, Past, Ported
  <2>2. ~Atomic!Derived(c, n, kernel)
    BY <1>9 DEF Atomic!Derived
  <2>. QED BY <1>2, <1>3, <2>1, <2>2 DEF Atomic!PatchFor, n
<1>. QED BY <1>6, <1>7, <1>8, <1>9

LEMMA BuildImplements == ASSUME IInv, Build PROVE Atomic!Build
<1>1. /\ built' \in Builds /\ built'.kernel = kernel /\ kernel \in Kernels
      /\ built'.patches = [c \in Components |-> Applied(c)]
      /\ UNCHANGED <<upstream, start>>
  <2>1. TypeOK' /\ TypeOK
    BY BuildTypes DEF IInv
  <2>2. built' = [kernel |-> kernel, log |-> resolved.lock, patches |-> [c \in Components |-> Applied(c)]]
    BY DEF Build
  <2>3. resolved.lock \in [Components -> Records]
    BY OutputType DEF IInv, Build, Goto, Stages, Outputs
  <2>4. [c \in Components |-> Applied(c)] \in [Components -> Patches]
    BY AppliedType
  <2>5. kernel \in Kernels
    BY <2>1 DEF TypeOK
  <2>6. built' \in Builds
    BY <2>2, <2>3, <2>4, <2>5 DEF Builds
  <2>. QED BY <2>2, <2>5, <2>6 DEF Build
<1>2. built' # Nothing
  BY <1>1, NothingElse
<1>3. built'.patches = [c \in Components |-> Atomic!PatchFor(c, Seen[RepoOf[c]], kernel)]
  BY <1>1, AppliesWhatIsDerived, SeenIsOneState
<1>4. Atomic!Components = Components
  BY DEF Atomic!Components, Components
<1>. QED BY <1>1, <1>2, <1>3, <1>4, SeenIsOneState DEF Atomic!Build

(* Whatever a build compiles is as if it had read every repository at one  *)
(* moment since the run began, though the resolver asks one repository     *)
(* after the other, the chain runs twice and anything is killed anywhere.  *)
THEOREM SnapshotRefinement == Spec => FromOneSnapshot
<1>1. Init => Atomic!Init
  BY DEF Init, Atomic!Init
<1>2. IInv /\ [Next]_vars => [Atomic!Next]_(Atomic!vars)
  <2>. SUFFICES ASSUME IInv, [Next]_vars PROVE [Atomic!Next]_(Atomic!vars)
    OBVIOUS
  <2>1. CASE \E r \in Repos : Push(r)
    BY <2>1 DEF Push, Atomic!Next, Atomic!Push
  <2>2. CASE Begin
    BY <2>2 DEF Begin, Atomic!Next, Atomic!Begin
  <2>3. CASE Build
    BY <2>3, BuildImplements DEF Atomic!Next
  <2>4. CASE UNCHANGED <<upstream, start, built>>
    BY <2>4 DEF Atomic!vars
  <2>5. \/ \E r \in Repos : Push(r)
        \/ Begin \/ Build \/ UNCHANGED <<upstream, start, built>>
    BY DEF Next, vars, Rewrite, Resolve, RemoveOutput, ReplaceOutput, ZramBytes, ZramLock,
           Materialize, LockSnapshots, PinCore, PinWrapper, Validate, NoBorePort, WriteBorePort,
           LockBorePort, WriteSchedExtPort, LockSchedExtPort, WritePort, LockPort, FinalizeCore,
           EndPreflight, Validated, Rebuild, Stop, Checkout
  <2>. QED BY <2>1, <2>2, <2>3, <2>4, <2>5
<1>. QED BY <1>1, <1>2, Invariance, PTL DEF Spec, FromOneSnapshot, Atomic!Spec
=============================================================================

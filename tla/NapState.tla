------------------------------ MODULE NapState ------------------------------
(***************************************************************************)
(* nap-tools/napctl: the commands that share the kernel's weights_cpu      *)
(* selector and the snapshots in /var/lib/nap, run by the boot service,    *)
(* the timer and the administrator at once.  The kernel side (selector,    *)
(* weights, reset) is modelled from how napctl uses it.                    *)
(*                                                                         *)
(* A weight blob is known by whose learning it holds: the CPU itself for   *)
(* what it learned, Mean for an average.  A snapshot maps the CPUs that    *)
(* have a record to blobs.                                                 *)
(***************************************************************************)
EXTENDS Naturals, FiniteSets

CONSTANTS
  Cpu, Proc,
  All,       \* weights_cpu = "all"
  Default,   \* a CPU that has not learned anything: reading it fails
  Mean,      \* the average of several records
  Nobody,    \* the lock is free
  Absent,    \* no such file
  Unusable,  \* a damaged file, or one of another machine or network
  Commands,  \* the commands in use
  Events,    \* what may happen outside: "kill", "fail", "crash", "newnet",
             \* "hotplug", "rot"
  MaxRuns,   \* bound on the commands started by each process
  MaxEvents  \* bound on the outside events

ASSUME NapNames ==
  /\ Cpu \cap {All, Default, Mean, Nobody, Absent, Unusable} = {}
  /\ Default # Mean /\ Nobody \notin Proc /\ Absent # Unusable
  /\ {Absent, Unusable} \cap UNION {[cpus -> Cpu \cup {Mean}] : cpus \in SUBSET Cpu} = {}
ASSUME NapBounds ==
  /\ Commands \subseteq {"save", "restore", "reset", "import", "export", "info"}
  /\ MaxRuns \in Nat /\ MaxEvents \in Nat /\ IsFiniteSet(Cpu) /\ Cpu # {}

Blob      == Cpu \cup {Mean}
Snapshots == UNION {[cpus -> Blob] : cpus \in (SUBSET Cpu) \ {{}}}
Files     == [state : Snapshots \cup {Absent, Unusable},
              prev  : Snapshots \cup {Absent, Unusable}]

VARIABLES
  online,   \* /sys/devices/system/cpu/online
  weights,  \* the governor's weights of each CPU
  sel,      \* weights_cpu
  lock,     \* the owner of /run/lock/napctl.lock
  files,    \* state and state.prev as the running system sees them
  older,    \* the views of them a crash may still bring back
  pc, cmd, todo, cur, recs,  \* of each process
  src,      \* the file restore is working on
  loaded,   \* CPUs whose weights this restore has replaced
  runs, events

kernel == <<online, weights, sel>>
store  == <<files, older>>
procs  == <<pc, cmd, todo, cur, recs, src, loaded>>
vars   == <<kernel, lock, store, procs, runs, events>>

NoRecs == [c \in {} |-> Mean]

Init ==
  /\ online = Cpu /\ weights = [c \in Cpu |-> Default] /\ sel = All /\ lock = Nobody
  /\ files = [state |-> Absent, prev |-> Absent] /\ older = {}
  /\ pc = [p \in Proc |-> "idle"] /\ cmd = [p \in Proc |-> "save"]
  /\ todo = [p \in Proc |-> {}] /\ cur = [p \in Proc |-> All]
  /\ recs = [p \in Proc |-> NoRecs] /\ src = [p \in Proc |-> "state"]
  /\ loaded = [p \in Proc |-> {}]
  /\ runs = [p \in Proc |-> 0] /\ events = 0

-----------------------------------------------------------------------------
(* main(): every command but info and average takes the lock.              *)

(* Slips: export, or save, is left out of the list of locked commands.     *)
LockedNotExport(command) == command \notin {"info", "export"}
LockedNotSave(command) == command \notin {"info", "save"}

Locked(command) == command # "info"

Begin(p) ==
  /\ pc[p] = "idle" /\ runs[p] < MaxRuns
  /\ \E command \in Commands :
       /\ cmd' = [cmd EXCEPT ![p] = command]
       /\ pc' = [pc EXCEPT ![p] = IF Locked(command) THEN "wait" ELSE "read?"]
       /\ todo' = [todo EXCEPT ![p] = IF Locked(command) THEN {} ELSE online]
  /\ runs' = [runs EXCEPT ![p] = @ + 1]
  /\ UNCHANGED <<kernel, lock, store, cur, recs, src, loaded, events>>

First(command) ==
  CASE command \in {"save", "export"} -> "read?"
    [] command = "restore" -> "open"
    [] command = "import" -> "load?"
    [] command = "reset" -> "reset"

(* online_cpus() is read once, when the command begins its loop.           *)
Acquire(p) ==
  /\ pc[p] = "wait" /\ lock = Nobody
  /\ lock' = p
  /\ pc' = [pc EXCEPT ![p] = First(cmd[p])]
  /\ todo' = [todo EXCEPT ![p] = IF cmd[p] = "import" THEN {All} ELSE online]
  /\ UNCHANGED <<kernel, store, cmd, cur, recs, src, loaded, runs, events>>

(* Slip: the lock is a file that outlives its owner.                       *)
ReleasedNever(p) == lock

Released(p) == IF lock = p THEN Nobody ELSE lock

(* The process ends, by itself or not: the kernel drops its flock.         *)
Ends(p) ==
  /\ pc' = [pc EXCEPT ![p] = "idle"]
  /\ lock' = Released(p)
  /\ todo' = [todo EXCEPT ![p] = {}] /\ cur' = [cur EXCEPT ![p] = All]
  /\ recs' = [recs EXCEPT ![p] = NoRecs] /\ src' = [src EXCEPT ![p] = "state"]
  /\ loaded' = [loaded EXCEPT ![p] = {}]
  /\ UNCHANGED <<cmd, runs>>

-----------------------------------------------------------------------------
(* dump_cpu() and try_dump(), in the loops of save, export and             *)
(* kernel_dims() (restore, info): select a CPU, then read what is selected. *)

(* The kernel refuses to select a CPU that is offline: try_dump() passes    *)
(* over it, export does not use try_dump().                                *)
SelectForRead(p) ==
  /\ pc[p] = "read?"
  /\ \E c \in todo[p] :
       \/ /\ c \in online
          /\ sel' = c /\ cur' = [cur EXCEPT ![p] = c]
          /\ pc' = [pc EXCEPT ![p] = "read"]
          /\ todo' = [todo EXCEPT ![p] = @ \ {c}]
          /\ UNCHANGED <<lock, cmd, recs, src, loaded, runs>>
       \/ /\ c \notin online /\ cmd[p] # "export"
          /\ todo' = [todo EXCEPT ![p] = @ \ {c}]
          /\ UNCHANGED <<sel, pc, lock, cmd, cur, recs, src, loaded, runs>>
       \/ c \notin online /\ cmd[p] = "export" /\ Ends(p) /\ UNCHANGED sel
  /\ UNCHANGED <<online, weights, store, events>>

Readable == sel \in online /\ weights[sel] # Default

(* A blob becomes the record of the CPU this process asked for; restore    *)
(* and info stop at the first blob; for export a CPU without one is fatal. *)
Read(p) ==
  /\ pc[p] = "read"
  /\ \/ /\ Readable /\ cmd[p] \in {"save", "export"}
        /\ recs' = [recs EXCEPT ![p] = [c \in DOMAIN @ \cup {cur[p]} |->
                                          IF c = cur[p] THEN weights[sel] ELSE @[c]]]
        /\ pc' = [pc EXCEPT ![p] = "read?"]
        /\ UNCHANGED <<todo, lock, cmd, cur, src, loaded, runs>>
     \/ /\ Readable /\ cmd[p] \in {"restore", "info"}
        /\ todo' = [todo EXCEPT ![p] = {}]
        /\ pc' = [pc EXCEPT ![p] = "read?"]
        /\ UNCHANGED <<lock, cmd, cur, recs, src, loaded, runs>>
     \/ /\ ~Readable /\ cmd[p] # "export"
        /\ pc' = [pc EXCEPT ![p] = "read?"]
        /\ UNCHANGED <<lock, cmd, todo, cur, recs, src, loaded, runs>>
     \/ ~Readable /\ cmd[p] = "export" /\ Ends(p)
  /\ UNCHANGED <<kernel, store, events>>

(* Slip: a snapshot is written even if no CPU has learned anything.        *)
LearnedAssumed(p) == TRUE

Learned(p) == recs[p] # NoRecs

(* The loop is over: save writes, restore loads, the others are done.      *)
ReadAll(p) ==
  /\ pc[p] = "read?" /\ todo[p] = {}
  /\ \/ /\ cmd[p] = "save" /\ Learned(p)
        /\ pc' = [pc EXCEPT ![p] = "rotate"]
        /\ UNCHANGED <<lock, cmd, todo, cur, recs, src, loaded, runs>>
     \/ /\ cmd[p] = "restore"
        /\ pc' = [pc EXCEPT ![p] = "load?"]
        /\ todo' = [todo EXCEPT ![p] = online]
        /\ UNCHANGED <<lock, cmd, cur, recs, src, loaded, runs>>
     \/ (cmd[p] = "save" => ~Learned(p)) /\ cmd[p] # "restore" /\ Ends(p)
  /\ UNCHANGED <<kernel, store, events>>

-----------------------------------------------------------------------------
(* write_state(): the temporary file is complete and on disk before the    *)
(* two renames; the fsync of the directory makes them durable.             *)

Rename(new) == files' = new /\ older' = older \cup {files}

(* Slip: the old file is unlinked instead of kept.                         *)
RotatedAway == [files EXCEPT !.state = Absent]

Rotated == [state |-> Absent, prev |-> files.state]

Rotate(p) ==
  /\ pc[p] = "rotate"
  /\ pc' = [pc EXCEPT ![p] = "install"]
  /\ IF files.state # Absent
     THEN Rename(Rotated)
     ELSE UNCHANGED store
  /\ UNCHANGED <<kernel, lock, cmd, todo, cur, recs, src, loaded, runs, events>>

InstallSnapshot(p) ==
  /\ pc[p] = "install"
  /\ pc' = [pc EXCEPT ![p] = "sync"]
  /\ Rename([files EXCEPT !.state = recs[p]])
  /\ UNCHANGED <<kernel, lock, cmd, todo, cur, recs, src, loaded, runs, events>>

SyncDirectory(p) ==
  /\ pc[p] = "sync"
  /\ older' = {}
  /\ Ends(p)
  /\ UNCHANGED <<kernel, files, events>>

-----------------------------------------------------------------------------
(* cmd_restore() and apply_state().                                        *)

NextSource(p) ==
  \/ src[p] = "state" /\ pc' = [pc EXCEPT ![p] = "open"] /\ src' = [src EXCEPT ![p] = "prev"]
  \/ src[p] = "prev" /\ pc' = [pc EXCEPT ![p] = "default"] /\ UNCHANGED src

Usable(content) == content \notin {Absent, Unusable}

(* A file that is not there, not valid or not of this machine is skipped.  *)
Open(p) ==
  /\ pc[p] = "open"
  /\ \/ /\ Usable(files[src[p]])
        /\ recs' = [recs EXCEPT ![p] = files[src[p]]]
        /\ todo' = [todo EXCEPT ![p] = online]
        /\ pc' = [pc EXCEPT ![p] = "read?"]
        /\ UNCHANGED src
     \/ ~Usable(files[src[p]]) /\ NextSource(p) /\ UNCHANGED <<recs, todo>>
  /\ UNCHANGED <<kernel, lock, store, cmd, cur, loaded, runs, events>>

SelectForLoad(p) ==
  /\ pc[p] = "load?"
  /\ \E c \in todo[p] :
       /\ c \in online \cup {All}
       /\ todo' = [todo EXCEPT ![p] = @ \ {c}]
       /\ sel' = c /\ cur' = [cur EXCEPT ![p] = c]
  /\ pc' = [pc EXCEPT ![p] = "load"]
  /\ UNCHANGED <<online, weights, lock, store, cmd, recs, src, loaded, runs, events>>

(* Slip: records are taken as they come, not by CPU number.                *)
BlobByPosition(p) == CHOOSE b \in {recs[p][c] : c \in DOMAIN recs[p]} \cup {Mean} : b # cur[p]

(* The record of the CPU, or the average of all records.                   *)
BlobFor(p) == IF cur[p] \in DOMAIN recs[p] THEN recs[p][cur[p]] ELSE Mean

Selected == IF sel = All THEN online ELSE {sel} \cap online

Load(p) ==
  /\ pc[p] = "load" /\ Selected # {}
  /\ weights' = [c \in Cpu |-> IF c \in Selected THEN BlobFor(p) ELSE weights[c]]
  /\ loaded' = [loaded EXCEPT ![p] = @ \cup Selected]
  /\ pc' = [pc EXCEPT ![p] = "load?"]
  /\ UNCHANGED <<online, sel, lock, store, cmd, todo, cur, recs, src, runs, events>>

(* The CPU went away: an error, and restore turns to the next file.        *)
LoadFails(p) ==
  /\ \/ pc[p] = "load?" /\ ~(todo[p] \subseteq online \cup {All})
     \/ pc[p] = "load" /\ Selected = {}
  /\ \/ cmd[p] = "restore" /\ NextSource(p) /\ UNCHANGED <<lock, cmd, todo, cur, recs, loaded, runs>>
     \/ cmd[p] = "import" /\ Ends(p)
  /\ UNCHANGED <<kernel, store, events>>

LoadedAll(p) ==
  /\ pc[p] = "load?" /\ todo[p] = {}
  /\ Ends(p)
  /\ UNCHANGED <<kernel, store, events>>

(* "no saved weights; the built-in default stays"                          *)
DefaultStays(p) ==
  /\ pc[p] = "default"
  /\ Ends(p)
  /\ UNCHANGED <<kernel, store, events>>

Reset(p) ==
  /\ pc[p] = "reset"
  /\ weights' = [c \in Cpu |-> Default]
  /\ Ends(p)
  /\ UNCHANGED <<online, sel, store, events>>

-----------------------------------------------------------------------------
(* Outside the commands.                                                   *)

(* The governor learns; a loaded model is learned on from there.           *)
Learn ==
  /\ \E c \in online : weights[c] # c /\ weights' = [weights EXCEPT ![c] = c]
  /\ UNCHANGED <<online, sel, lock, store, procs, runs, events>>

Event(name) == name \in Events /\ events < MaxEvents /\ events' = events + 1

(* The process is killed, or a write fails: the temporary file, if any, is *)
(* the only thing it leaves.                                               *)
Abort(p) ==
  /\ pc[p] # "idle"
  /\ Event("kill")
  /\ Ends(p)
  /\ UNCHANGED <<kernel, store>>

(* A crash and the next boot: renames that were not synced may be lost,    *)
(* the later ones first.  The next kernel may have another network.        *)
Crash ==
  /\ Event("crash")
  /\ \E view \in older \cup {files} :
       files' \in {view} \cup
         IF "newnet" \in Events
         THEN {[f \in {"state", "prev"} |-> IF view[f] = Absent THEN Absent ELSE Unusable]}
         ELSE {}
  /\ older' = {}
  /\ weights' = [c \in Cpu |-> Default] /\ sel' = All /\ online' = Cpu /\ lock' = Nobody
  /\ pc' = [p \in Proc |-> "idle"] /\ cmd' = [p \in Proc |-> "save"]
  /\ todo' = [p \in Proc |-> {}] /\ cur' = [p \in Proc |-> All]
  /\ recs' = [p \in Proc |-> NoRecs] /\ src' = [p \in Proc |-> "state"]
  /\ loaded' = [p \in Proc |-> {}]
  /\ UNCHANGED runs

Hotplug ==
  /\ Event("hotplug")
  /\ online' \in (SUBSET Cpu) \ {{}, online}
  /\ UNCHANGED <<weights, sel, lock, store, procs, runs>>

(* The current snapshot is damaged where it lies.                          *)
Rot ==
  /\ Event("rot")
  /\ older = {} /\ Usable(files.state)
  /\ files' = [files EXCEPT !.state = Unusable]
  /\ UNCHANGED <<kernel, lock, older, procs, runs>>

-----------------------------------------------------------------------------
Step(p) ==
  \/ Acquire(p) \/ SelectForRead(p) \/ Read(p) \/ ReadAll(p)
  \/ Rotate(p) \/ InstallSnapshot(p) \/ SyncDirectory(p)
  \/ Open(p) \/ SelectForLoad(p) \/ Load(p) \/ LoadFails(p) \/ LoadedAll(p)
  \/ DefaultStays(p) \/ Reset(p)

Next ==
  \/ \E p \in Proc : Begin(p) \/ Step(p) \/ Abort(p)
  \/ Learn \/ Crash \/ Hotplug \/ Rot

Spec == Init /\ [][Next]_vars

(* A process that can go on does; nothing is assumed of when commands are  *)
(* started or of what happens outside.                                     *)
FairSpec == Spec /\ \A p \in Proc : WF_vars(Step(p))

-----------------------------------------------------------------------------
TypeOK ==
  /\ online \subseteq Cpu /\ weights \in [Cpu -> Blob \cup {Default}] /\ sel \in Cpu \cup {All}
  /\ lock \in Proc \cup {Nobody}
  /\ files \in Files /\ older \subseteq Files
  /\ pc \in [Proc -> {"idle", "wait", "read?", "read", "rotate", "install", "sync", "open",
                      "load?", "load", "default", "reset"}]
  /\ cmd \in [Proc -> {"save", "restore", "reset", "import", "export", "info"}]
  /\ todo \in [Proc -> SUBSET (Cpu \cup {All})] /\ cur \in [Proc -> Cpu \cup {All}]
  /\ recs \in [Proc -> Snapshots \cup {NoRecs}] /\ src \in [Proc -> {"state", "prev"}]
  /\ loaded \in [Proc -> SUBSET Cpu]
  /\ runs \in [Proc -> 0..MaxRuns] /\ events \in 0..MaxEvents

(* Between selecting a CPU and reading or writing its weights, the owner   *)
(* of the lock has the selector to itself (NAP-TOOLS.md: "Um lock          *)
(* serializa operações no seletor weights_cpu, inclusive entre o timer e   *)
(* os comandos manuais").                                                  *)
SelectorHeld ==
  \A p \in Proc : lock = p /\ pc[p] \in {"read", "load"} => sel = cur[p]

OwnOrMean(blobs) == \A c \in DOMAIN blobs : blobs[c] \in {c, Mean, Default}

(* No CPU ever runs on, and no snapshot ever records for a CPU, what       *)
(* another CPU learned, over any number of saves, restores and crashes.    *)
LearningStaysHome ==
  /\ OwnOrMean(weights)
  /\ \A view \in older \cup {files} : \A f \in {"state", "prev"} :
       Usable(view[f]) => OwnOrMean(view[f])

Restorable ==
  \A view \in older \cup {files} : Usable(view.state) \/ Usable(view.prev)

(* Once there is a snapshot that a crash cannot take away, no save, killed *)
(* or cut off at any step, leaves the next boot without one (README: "the  *)
(* timer saves every 30 minutes so that a crash costs at most that much"). *)
SomethingToRestore == [][Restorable => Restorable' \/ Crash \/ Rot]_vars

(* A good snapshot leaves its place only to become state.prev, whoever     *)
(* saves at the same time.                                                 *)
SnapshotsRotate ==
  [][ Usable(files.state) /\ files'.state # files.state
        => files'.prev = files.state \/ Crash \/ Rot ]_vars

(* Whoever waits for the lock gets it and gets done, though any owner may  *)
(* be killed.                                                              *)
EveryoneServed == \A p \in Proc : pc[p] = "wait" ~> pc[p] = "idle"
=============================================================================

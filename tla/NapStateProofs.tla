-------------------------- MODULE NapStateProofs ---------------------------
(***************************************************************************)
(* The lock does its work for every number of CPUs and processes: whatever *)
(* is run, the snapshots rotate and are not lost; and as long as only      *)
(* commands that take it are in use, no CPU gets what another one learned. *)
(***************************************************************************)
EXTENDS NapState, TLAPS

Labels == {"idle", "wait", "read?", "read", "rotate", "install", "sync", "open",
           "load?", "load", "default", "reset"}

ProcsOK == TypeOK /\ cmd \in [Proc -> Commands \cup {"save"}]

(* Only a CPU is read, never the whole selector.                           *)
AsksACpu ==
  \A p \in Proc : /\ pc[p] = "read?" => todo[p] \subseteq Cpu
                  /\ pc[p] = "read" => todo[p] \subseteq Cpu /\ cur[p] \in Cpu

(* A process that runs a locked command is the owner of the lock.          *)
OwnerRuns ==
  \A p \in Proc : pc[p] \notin {"idle", "wait"} /\ cmd[p] # "info" => lock = p

(* What a save is about to install is a snapshot.                          *)
InHand == \A p \in Proc : pc[p] \in {"rotate", "install"} => recs[p] \in Snapshots

RecsOwn == \A p \in Proc : \A c \in DOMAIN recs[p] : recs[p][c] \in {c, Mean}

(* The command that does not take the lock only reads the kernel.          *)
InfoReads == \A p \in Proc : cmd[p] = "info" => pc[p] \in {"idle", "read?", "read"}

(* These hold whether or not the commands in use take the lock.            *)
TInv == ProcsOK /\ InfoReads /\ OwnerRuns /\ AsksACpu /\ InHand

IInv == TInv /\ SelectorHeld /\ LearningStaysHome /\ RecsOwn

LEMMA EndsOK ==
  ASSUME TypeOK, NEW p \in Proc, Ends(p)
  PROVE  /\ pc' \in [Proc -> Labels]
         /\ todo' \in [Proc -> SUBSET (Cpu \cup {All})] /\ cur' \in [Proc -> Cpu \cup {All}]
         /\ recs' \in [Proc -> Snapshots \cup {NoRecs}] /\ src' \in [Proc -> {"state", "prev"}]
         /\ loaded' \in [Proc -> SUBSET Cpu]
         /\ lock' \in Proc \cup {Nobody}
         /\ UNCHANGED <<cmd, runs>>
  BY DEF TypeOK, Ends, Released, Labels

(* A snapshot with one more record is a snapshot.                          *)
LEMMA RecordAdded ==
  ASSUME NEW r \in Snapshots \cup {NoRecs}, NEW c \in Cpu, NEW b \in Blob
  PROVE  [d \in DOMAIN r \cup {c} |-> IF d = c THEN b ELSE r[d]] \in Snapshots
<1>. DEFINE new == [d \in DOMAIN r \cup {c} |-> IF d = c THEN b ELSE r[d]]
<1>1. DOMAIN r \subseteq Cpu /\ \A d \in DOMAIN r : r[d] \in Blob
  <2>1. CASE r = NoRecs
    BY <2>1 DEF NoRecs
  <2>2. CASE r \in Snapshots
    BY <2>2 DEF Snapshots
  <2>. QED BY <2>1, <2>2
<1>2. new \in [DOMAIN r \cup {c} -> Blob]
  BY <1>1
<1>3. DOMAIN r \cup {c} \in (SUBSET Cpu) \ {{}}
  BY <1>1
<1>. QED
  BY <1>2, <1>3 DEF Snapshots

(* What a file of a view holds.                                            *)
LEMMA FileOK ==
  ASSUME NEW view \in Files, NEW f \in {"state", "prev"}
  PROVE  view[f] \in Snapshots \cup {Absent, Unusable}
  BY DEF Files

(* What is loaded into a CPU is a blob.                                    *)
LEMMA BlobOK ==
  ASSUME TypeOK, NEW p \in Proc
  PROVE  BlobFor(p) \in Blob
<1>1. recs[p] \in Snapshots \cup {NoRecs} /\ Mean \in Blob
  BY DEF TypeOK, Blob
<1>2. CASE recs[p] = NoRecs
  BY <1>1, <1>2 DEF BlobFor, NoRecs
<1>3. CASE recs[p] \in Snapshots
  <2>1. PICK cpus \in (SUBSET Cpu) \ {{}} : recs[p] \in [cpus -> Blob]
    BY <1>3 DEF Snapshots
  <2>. QED BY <1>1, <2>1 DEF BlobFor
<1>. QED BY <1>1, <1>2, <1>3

LEMMA ProcsStep ==
  ASSUME TInv, [Next]_vars
  PROVE  ProcsOK'
<1>. USE DEF kernel, store, procs
<1>. USE DEF TInv, ProcsOK, TypeOK, Labels
<1>0. /\ MaxRuns \in Nat /\ MaxEvents \in Nat
      /\ Commands \subseteq {"save", "restore", "reset", "import", "export", "info"}
  BY NapBounds
<1>. DEFINE CmdOK == cmd' \in [Proc -> Commands \cup {"save"}]
<1>1. CASE UNCHANGED vars
  BY <1>1 DEF vars
<1>2. ASSUME NEW p \in Proc, Begin(p) PROVE ProcsOK'
  <2>1. cmd' \in [Proc -> Commands \cup {"save"}] /\ pc' \in [Proc -> Labels]
    BY <1>2 DEF Begin
  <2>2. cmd' \in [Proc -> {"save", "restore", "reset", "import", "export", "info"}]
    BY <1>0, <1>2 DEF Begin
  <2>3. todo' \in [Proc -> SUBSET (Cpu \cup {All})] /\ runs' \in [Proc -> 0..MaxRuns]
    BY <1>0, <1>2 DEF Begin
  <2>. QED BY <1>2, <2>1, <2>2, <2>3 DEF Begin
<1>3. ASSUME NEW p \in Proc, Acquire(p) PROVE ProcsOK'
  <2>1. todo' \in [Proc -> SUBSET (Cpu \cup {All})] /\ lock' \in Proc \cup {Nobody}
    BY <1>3 DEF Acquire
  <2>2. pc[p] = "wait" /\ cmd[p] \in {"save", "restore", "reset", "import", "export", "info"}
    BY <1>3 DEF Acquire
  <2>3. CASE cmd[p] # "info"
    BY <1>3, <2>1, <2>2, <2>3 DEF Acquire, First
  <2>. QED BY <2>2, <2>3 DEF InfoReads
<1>4. ASSUME NEW p \in Proc, SelectForRead(p) PROVE ProcsOK'
  <2>1. CASE Ends(p)
    BY <1>4, <2>1, EndsOK DEF SelectForRead
  <2>. QED BY <1>4, <2>1 DEF SelectForRead
<1>5. ASSUME NEW p \in Proc, Read(p) PROVE ProcsOK'
  <2>1. CASE Ends(p)
    BY <1>5, <2>1, EndsOK DEF Read
  <2>2. CASE Readable /\ cmd[p] \in {"save", "export"}
    <3>1. cur[p] \in Cpu /\ weights[sel] \in Blob
      BY <1>5, <2>2 DEF Read, AsksACpu, Readable
    <3>2. [d \in DOMAIN recs[p] \cup {cur[p]} |->
             IF d = cur[p] THEN weights[sel] ELSE recs[p][d]] \in Snapshots
      <4>1. recs[p] \in Snapshots \cup {NoRecs}
        OBVIOUS
      <4>. HIDE DEF ProcsOK, TInv, TypeOK
      <4>. QED BY <3>1, <4>1, RecordAdded
    <3>3. recs' \in [Proc -> Snapshots \cup {NoRecs}]
      BY <1>5, <2>1, <2>2, <3>2 DEF Read
    <3>. QED BY <1>5, <2>1, <2>2, <3>3 DEF Read
  <2>3. CASE ~(Readable /\ cmd[p] \in {"save", "export"})
    BY <1>5, <2>1, <2>3 DEF Read
  <2>. QED BY <2>2, <2>3
<1>6. ASSUME NEW p \in Proc, ReadAll(p) PROVE ProcsOK'
  <2>1. CASE Ends(p)
    BY <1>6, <2>1, EndsOK DEF ReadAll
  <2>. QED BY <1>6, <2>1 DEF ReadAll
<1>7. ASSUME NEW p \in Proc, Rotate(p) PROVE ProcsOK'
  BY <1>7 DEF Rotate, Rename, Rotated, Files
<1>8. ASSUME NEW p \in Proc, InstallSnapshot(p) PROVE ProcsOK'
  <2>1. recs[p] \in Snapshots
    BY <1>8 DEF InHand, InstallSnapshot
  <2>2. files' \in Files /\ older' \subseteq Files
    BY <1>8, <2>1 DEF InstallSnapshot, Rename, Files
  <2>. QED BY <1>8, <2>2 DEF InstallSnapshot
<1>9. ASSUME NEW p \in Proc, SyncDirectory(p) PROVE ProcsOK'
  BY <1>9, EndsOK DEF SyncDirectory
<1>10. ASSUME NEW p \in Proc, Open(p) PROVE ProcsOK'
  <2>1. src[p] \in {"state", "prev"} /\ files[src[p]] \in Snapshots \cup {Absent, Unusable}
    BY FileOK
  <2>2. CASE Usable(files[src[p]])
    BY <1>10, <2>1, <2>2 DEF Open, Usable
  <2>3. CASE ~Usable(files[src[p]])
    BY <1>10, <2>3 DEF Open, NextSource
  <2>. QED BY <2>2, <2>3
<1>11. ASSUME NEW p \in Proc, SelectForLoad(p) PROVE ProcsOK'
  BY <1>11 DEF SelectForLoad
<1>12. ASSUME NEW p \in Proc, Load(p) PROVE ProcsOK'
  <2>1. BlobFor(p) \in Blob
    BY BlobOK
  <2>2. weights' \in [Cpu -> Blob \cup {Default}]
    BY <1>12, <2>1 DEF Load
  <2>3. loaded' \in [Proc -> SUBSET Cpu]
    BY <1>12 DEF Load, Selected
  <2>. QED BY <1>12, <2>2, <2>3 DEF Load
<1>13. ASSUME NEW p \in Proc, LoadFails(p) PROVE ProcsOK'
  <2>1. CASE Ends(p)
    BY <1>13, <2>1, EndsOK DEF LoadFails
  <2>. QED BY <1>13, <2>1 DEF LoadFails, NextSource
<1>14. ASSUME NEW p \in Proc, LoadedAll(p) \/ DefaultStays(p) \/ Reset(p) PROVE ProcsOK'
  <2>1. weights' \in [Cpu -> Blob \cup {Default}]
    BY <1>14 DEF LoadedAll, DefaultStays, Reset
  <2>. QED BY <1>14, <2>1, EndsOK DEF LoadedAll, DefaultStays, Reset
<1>15. ASSUME NEW p \in Proc, Abort(p) PROVE ProcsOK'
  BY <1>0, <1>15, EndsOK DEF Abort, Event
<1>16. CASE Learn \/ Hotplug
  BY <1>0, <1>16 DEF Learn, Hotplug, Event, Blob
<1>17. CASE Crash \/ Rot
  <2>1. events' \in 0..MaxEvents
    BY <1>0, <1>17 DEF Crash, Rot, Event
  <2>2. files' \in Files /\ older' \subseteq Files
    BY <1>17 DEF Crash, Rot, Files
  <2>. QED BY <1>17, <2>1, <2>2 DEF Crash, Rot
<1>. QED
  BY <1>1, <1>2, <1>3, <1>4, <1>5, <1>6, <1>7, <1>8, <1>9, <1>10, <1>11, <1>12, <1>13,
     <1>14, <1>15, <1>16, <1>17 DEF Next, Step

LEMMA AsksStep ==
  ASSUME TInv, [Next]_vars
  PROVE  AsksACpu'
<1>. USE DEF kernel, store, procs
<1>. USE DEF TInv, AsksACpu
<1>. SUFFICES ASSUME NEW q \in Proc
              PROVE  /\ pc'[q] = "read?" => todo'[q] \subseteq Cpu
                     /\ pc'[q] = "read" => todo'[q] \subseteq Cpu /\ cur'[q] \in Cpu
  OBVIOUS
<1>. DEFINE Goal == /\ pc'[q] = "read?" => todo'[q] \subseteq Cpu
                    /\ pc'[q] = "read" => todo'[q] \subseteq Cpu /\ cur'[q] \in Cpu
<1>0. /\ pc \in [Proc -> Labels] /\ todo \in [Proc -> SUBSET (Cpu \cup {All})]
      /\ cur \in [Proc -> Cpu \cup {All}] /\ online \subseteq Cpu
      /\ cmd \in [Proc -> {"save", "restore", "reset", "import", "export", "info"}]
  BY DEF ProcsOK, TypeOK, Labels
<1>1. CASE UNCHANGED vars
  BY <1>1 DEF vars
<1>2. ASSUME NEW p \in Proc, Ends(p) PROVE Goal
  BY <1>0, <1>2 DEF Ends
<1>3. ASSUME NEW p \in Proc, Begin(p) \/ Rotate(p) \/ InstallSnapshot(p) PROVE Goal
  BY <1>0, <1>3 DEF Begin, Rotate, InstallSnapshot
<1>4. ASSUME NEW p \in Proc, Acquire(p) PROVE Goal
  <2>1. cmd[p] = "import" => pc'[p] = "load?"
    BY <1>0, <1>4 DEF Acquire, First
  <2>2. cmd[p] # "import" => todo'[p] \subseteq Cpu
    BY <1>0, <1>4 DEF Acquire
  <2>3. cmd[p] \in {"save", "restore", "reset", "export"} => pc'[p] # "read"
    BY <1>0, <1>4 DEF Acquire, First
  <2>4. cmd[p] # "info"
    BY <1>4 DEF Acquire, InfoReads
  <2>. QED BY <1>0, <1>4, <2>1, <2>2, <2>3, <2>4 DEF Acquire
<1>5. ASSUME NEW p \in Proc, SelectForRead(p) PROVE Goal
  BY <1>0, <1>2, <1>5 DEF SelectForRead
<1>6. ASSUME NEW p \in Proc, Read(p) \/ ReadAll(p) PROVE Goal
  BY <1>0, <1>2, <1>6 DEF Read, ReadAll
<1>7. ASSUME NEW p \in Proc, SelectForLoad(p) \/ Load(p) PROVE Goal
  BY <1>0, <1>7 DEF SelectForLoad, Load
<1>8. ASSUME NEW p \in Proc, Open(p) \/ LoadFails(p) PROVE Goal
  BY <1>0, <1>2, <1>8 DEF Open, LoadFails, NextSource
<1>9. ASSUME NEW p \in Proc, SyncDirectory(p) \/ LoadedAll(p) \/ DefaultStays(p) \/ Reset(p)
                              \/ Abort(p)
      PROVE  Goal
  BY <1>2, <1>9 DEF SyncDirectory, LoadedAll, DefaultStays, Reset, Abort
<1>10. CASE Learn \/ Hotplug \/ Crash \/ Rot
  BY <1>0, <1>10 DEF Learn, Hotplug, Crash, Rot
<1>. QED
  BY <1>1, <1>3, <1>4, <1>5, <1>6, <1>7, <1>8, <1>9, <1>10 DEF Next, Step

LEMMA InfoStep ==
  ASSUME TInv, [Next]_vars
  PROVE  InfoReads'
<1>. USE DEF kernel, store, procs
<1>. USE DEF TInv, InfoReads
<1>0. /\ pc \in [Proc -> Labels] /\ cmd \in [Proc -> Commands \cup {"save"}]
  BY DEF ProcsOK, TypeOK, Labels
<1>1. CASE UNCHANGED vars
  BY <1>1 DEF vars
<1>2. ASSUME NEW p \in Proc, Begin(p) PROVE InfoReads'
  BY <1>0, <1>2 DEF Begin, Locked
<1>3. ASSUME NEW p \in Proc, Ends(p) PROVE InfoReads'
  BY <1>0, <1>3 DEF Ends
<1>4. ASSUME NEW p \in Proc, SelectForRead(p) \/ Read(p) \/ ReadAll(p) PROVE InfoReads'
  BY <1>0, <1>3, <1>4 DEF SelectForRead, Read, ReadAll
<1>5. ASSUME NEW p \in Proc, pc[p] \notin {"idle", "read?", "read"}, cmd' = cmd,
             \A q \in Proc \ {p} : pc'[q] = pc[q]
      PROVE  InfoReads'
  BY <1>0, <1>5
<1>6. ASSUME NEW p \in Proc,
             \/ Acquire(p) \/ Rotate(p) \/ InstallSnapshot(p) \/ SyncDirectory(p)
             \/ Open(p) \/ SelectForLoad(p) \/ Load(p) \/ LoadFails(p) \/ LoadedAll(p)
             \/ DefaultStays(p) \/ Reset(p)
      PROVE  /\ pc[p] \notin {"idle", "read?", "read"} /\ cmd' = cmd
             /\ \A q \in Proc \ {p} : pc'[q] = pc[q]
  BY <1>0, <1>6 DEF Acquire, Rotate, InstallSnapshot, SyncDirectory, Open, SelectForLoad, Load,
                    LoadFails, LoadedAll, DefaultStays, Reset, NextSource, Ends
<1>7. ASSUME NEW p \in Proc, Abort(p) PROVE InfoReads'
  BY <1>3, <1>7 DEF Abort
<1>8. CASE Learn \/ Hotplug \/ Crash \/ Rot
  BY <1>0, <1>8 DEF Learn, Hotplug, Crash, Rot
<1>. QED
  BY <1>1, <1>2, <1>4, <1>5, <1>6, <1>7, <1>8 DEF Next, Step

(* The lock is given to one process at a time and back by its owner only.  *)
LEMMA OwnerStep ==
  ASSUME TInv, [Next]_vars
  PROVE  OwnerRuns'
<1>. USE DEF kernel, store, procs
<1>. USE DEF TInv, OwnerRuns
<1>0. /\ pc \in [Proc -> Labels] /\ cmd \in [Proc -> Commands \cup {"save"}]
      /\ Nobody \notin Proc
  BY NapNames DEF ProcsOK, TypeOK, Labels
<1>1. CASE UNCHANGED vars
  BY <1>1 DEF vars
<1>2. ASSUME NEW p \in Proc, Ends(p) PROVE OwnerRuns'
  BY <1>0, <1>2 DEF Ends, Released
<1>3. ASSUME NEW p \in Proc, Begin(p) PROVE OwnerRuns'
  BY <1>0, <1>3 DEF Begin, Locked
<1>4. ASSUME NEW p \in Proc, Acquire(p) PROVE OwnerRuns'
  BY <1>0, <1>4 DEF Acquire
<1>5. ASSUME NEW p \in Proc, SelectForRead(p) \/ Read(p) \/ ReadAll(p) PROVE OwnerRuns'
  BY <1>0, <1>2, <1>5 DEF SelectForRead, Read, ReadAll
<1>6. ASSUME NEW p \in Proc, Rotate(p) \/ InstallSnapshot(p) \/ SyncDirectory(p) PROVE OwnerRuns'
  BY <1>0, <1>2, <1>6 DEF Rotate, InstallSnapshot, SyncDirectory
<1>7. ASSUME NEW p \in Proc, Open(p) \/ SelectForLoad(p) \/ Load(p) PROVE OwnerRuns'
  BY <1>0, <1>7 DEF Open, NextSource, SelectForLoad, Load
<1>8. ASSUME NEW p \in Proc,
             LoadFails(p) \/ LoadedAll(p) \/ DefaultStays(p) \/ Reset(p) \/ Abort(p)
      PROVE  OwnerRuns'
  BY <1>0, <1>2, <1>8 DEF LoadFails, NextSource, LoadedAll, DefaultStays, Reset, Abort
<1>9. CASE Learn \/ Hotplug \/ Crash \/ Rot
  BY <1>0, <1>9 DEF Learn, Hotplug, Crash, Rot
<1>. QED
  BY <1>1, <1>3, <1>4, <1>5, <1>6, <1>7, <1>8, <1>9 DEF Next, Step

(* Every action but Crash and Hotplug concerns one process, or none.       *)
LEMMA InHandStep ==
  ASSUME TInv, [Next]_vars
  PROVE  InHand'
<1>. USE DEF kernel, store, procs
<1>. USE DEF TInv, InHand
<1>. SUFFICES ASSUME NEW q \in Proc, pc'[q] \in {"rotate", "install"}
              PROVE  recs'[q] \in Snapshots
  OBVIOUS
<1>0. pc \in [Proc -> Labels] /\ recs \in [Proc -> Snapshots \cup {NoRecs}]
  BY DEF ProcsOK, TypeOK, Labels
<1>1. CASE UNCHANGED vars
  BY <1>1 DEF vars
<1>2. ASSUME NEW p \in Proc, Ends(p) PROVE recs'[q] \in Snapshots
  BY <1>0, <1>2 DEF Ends
<1>3. ASSUME NEW p \in Proc, Begin(p) \/ SelectForRead(p) \/ Rotate(p) \/ InstallSnapshot(p)
      PROVE  recs'[q] \in Snapshots
  BY <1>0, <1>2, <1>3 DEF Locked, Begin, SelectForRead, Rotate, InstallSnapshot
<1>11. ASSUME NEW p \in Proc, Acquire(p) PROVE recs'[q] \in Snapshots
  <2>1. cmd[p] \in {"save", "restore", "reset", "import", "export"}
    BY <1>11, NapBounds DEF ProcsOK, TypeOK, Acquire, InfoReads
  <2>2. pc'[p] \in {"read?", "open", "load?", "reset"}
    BY <1>0, <1>11, <2>1 DEF Acquire, First, Labels
  <2>. QED BY <1>0, <1>11, <2>2 DEF Acquire
<1>4. ASSUME NEW p \in Proc, SelectForLoad(p) \/ Load(p) PROVE recs'[q] \in Snapshots
  BY <1>0, <1>4 DEF SelectForLoad, Load
<1>5. ASSUME NEW p \in Proc, Read(p) PROVE recs'[q] \in Snapshots
  <2>1. Ends(p) \/ (pc' = [pc EXCEPT ![p] = "read?"] /\ \A r \in Proc : r # p => recs'[r] = recs[r])
    BY <1>0, <1>5 DEF Read
  <2>. QED BY <1>0, <1>2, <2>1
<1>6. ASSUME NEW p \in Proc, ReadAll(p) PROVE recs'[q] \in Snapshots
  BY <1>0, <1>2, <1>6 DEF ReadAll, Learned
<1>7. ASSUME NEW p \in Proc, Open(p) PROVE recs'[q] \in Snapshots
  <2>1. pc'[p] \in {"read?", "open", "default"} /\ \A r \in Proc : r # p => pc'[r] = pc[r] /\ recs'[r] = recs[r]
    BY <1>0, <1>7 DEF Open, NextSource
  <2>. QED BY <1>0, <2>1
<1>8. ASSUME NEW p \in Proc, LoadFails(p) PROVE recs'[q] \in Snapshots
  BY <1>0, <1>2, <1>8 DEF LoadFails, NextSource
<1>9. ASSUME NEW p \in Proc, SyncDirectory(p) \/ LoadedAll(p) \/ DefaultStays(p) \/ Reset(p)
                              \/ Abort(p)
      PROVE  recs'[q] \in Snapshots
  BY <1>2, <1>9 DEF SyncDirectory, LoadedAll, DefaultStays, Reset, Abort
<1>10. CASE Learn \/ Hotplug \/ Crash \/ Rot
  BY <1>0, <1>10 DEF Learn, Hotplug, Crash, Rot
<1>. QED
  BY <1>1, <1>3, <1>4, <1>5, <1>6, <1>7, <1>8, <1>9, <1>10, <1>11 DEF Next, Step

LEMMA TypeStep ==
  ASSUME TInv, [Next]_vars
  PROVE  TInv'
BY ProcsStep, InfoStep, OwnerStep, AsksStep, InHandStep DEF TInv

(* Only the owner of the lock runs: the others cannot move the selector.   *)
LEMMA LockStep ==
  ASSUME "info" \notin Commands, IInv, [Next]_vars
  PROVE  SelectorHeld'
<1>. USE DEF kernel, store, procs
<1>. USE DEF IInv, TInv, OwnerRuns, SelectorHeld
<1>. DEFINE Goal == SelectorHeld'
<1>0. /\ pc \in [Proc -> Labels] /\ cur \in [Proc -> Cpu \cup {All}] /\ cmd \in [Proc -> Commands \cup {"save"}]
      /\ Nobody \notin Proc /\ \A p \in Proc : cmd[p] # "info"
  BY NapNames DEF ProcsOK, TypeOK, Labels
<1>1. CASE UNCHANGED vars
  BY <1>1 DEF vars
<1>2. ASSUME NEW p \in Proc, Ends(p), UNCHANGED sel PROVE Goal
  BY <1>0, <1>2 DEF Ends, Released
<1>3. ASSUME NEW p \in Proc, Begin(p) PROVE Goal
  BY <1>0, <1>3 DEF Begin, Locked
<1>4. ASSUME NEW p \in Proc, Acquire(p) PROVE Goal
  BY <1>0, <1>4, NapBounds DEF Acquire, First
<1>5. ASSUME NEW p \in Proc, SelectForRead(p) \/ SelectForLoad(p) PROVE Goal
  BY <1>0, <1>2, <1>5 DEF SelectForRead, SelectForLoad
<1>6. ASSUME NEW p \in Proc, Read(p) \/ ReadAll(p) PROVE Goal
  BY <1>0, <1>2, <1>6 DEF Read, ReadAll
<1>7. ASSUME NEW p \in Proc, Rotate(p) \/ InstallSnapshot(p) \/ Load(p) PROVE Goal
  BY <1>0, <1>7 DEF Rotate, InstallSnapshot, Load
<1>8. ASSUME NEW p \in Proc, Open(p) \/ LoadFails(p) PROVE Goal
  BY <1>0, <1>2, <1>8 DEF Open, LoadFails, NextSource
<1>9. ASSUME NEW p \in Proc, SyncDirectory(p) \/ LoadedAll(p) \/ DefaultStays(p) \/ Reset(p)
                              \/ Abort(p)
      PROVE  Goal
  BY <1>2, <1>9 DEF SyncDirectory, LoadedAll, DefaultStays, Reset, Abort
<1>10. CASE Learn \/ Hotplug \/ Crash \/ Rot
  BY <1>0, <1>10 DEF Learn, Hotplug, Crash, Rot
<1>. QED
  BY <1>1, <1>3, <1>4, <1>5, <1>6, <1>7, <1>8, <1>9, <1>10 DEF Next, Step

(* The record a process makes is of the CPU it asked for, because the      *)
(* selector is still on that CPU.                                          *)
LEMMA RecsStep ==
  ASSUME "info" \notin Commands, IInv, [Next]_vars
  PROVE  RecsOwn'
<1>. USE DEF kernel, store, procs
<1>. USE DEF IInv, TInv, RecsOwn
<1>. SUFFICES ASSUME NEW q \in Proc, NEW c \in DOMAIN recs'[q]
              PROVE  recs'[q][c] \in {c, Mean}
  OBVIOUS
<1>0. recs \in [Proc -> Snapshots \cup {NoRecs}] /\ cmd \in [Proc -> Commands \cup {"save"}]
  BY DEF ProcsOK, TypeOK
<1>1. CASE recs'[q] = recs[q]
  BY <1>1
<1>2. CASE recs'[q] = NoRecs
  BY <1>2 DEF NoRecs
<1>3. ASSUME NEW p \in Proc, Read(p), recs'[q] # recs[q], recs'[q] # NoRecs
      PROVE  recs'[q][c] \in {c, Mean}
  <2>1. p = q /\ Readable /\ pc[p] = "read"
           /\ recs'[q] = [d \in DOMAIN recs[q] \cup {cur[q]} |->
                            IF d = cur[q] THEN weights[sel] ELSE recs[q][d]]
    BY <1>0, <1>3 DEF Read, Ends
  <2>2. sel = cur[q] /\ weights[sel] \in {sel, Mean}
    BY <2>1, NapNames DEF ProcsOK, TypeOK, OwnerRuns, SelectorHeld, Readable, LearningStaysHome, OwnOrMean
  <2>. QED BY <2>1, <2>2
<1>4. ASSUME NEW p \in Proc, Open(p), recs'[q] # recs[q] PROVE recs'[q][c] \in {c, Mean}
  <2>1. p = q /\ Usable(files[src[q]]) /\ recs'[q] = files[src[q]]
    BY <1>0, <1>4 DEF Open
  <2>2. src[q] \in {"state", "prev"} /\ files[src[q]] \in Snapshots
    BY <2>1 DEF ProcsOK, TypeOK, Files, Usable
  <2>3. OwnOrMean(files[src[q]])
    BY <2>1, <2>2 DEF LearningStaysHome
  <2>4. files[src[q]][c] \in Blob
    BY <2>1, <2>2 DEF Snapshots
  <2>. QED BY <2>1, <2>3, <2>4, NapNames DEF OwnOrMean, Blob
<1>5. ASSUME NEW p \in Proc,
             SelectForRead(p) \/ ReadAll(p) \/ LoadFails(p) \/ SyncDirectory(p) \/ LoadedAll(p) \/ DefaultStays(p)
               \/ Reset(p) \/ Abort(p)
      PROVE  recs'[q] = recs[q] \/ recs'[q] = NoRecs
  BY <1>0, <1>5 DEF SelectForRead, ReadAll, LoadFails, SyncDirectory, LoadedAll, DefaultStays, Reset, Abort, Ends
<1>6. ASSUME NEW p \in Proc,
             Begin(p) \/ Acquire(p) \/ Rotate(p) \/ InstallSnapshot(p)
               \/ SelectForLoad(p) \/ Load(p)
      PROVE  recs'[q] = recs[q]
  BY <1>6 DEF Begin, Acquire, Rotate, InstallSnapshot, SelectForLoad, Load
<1>7. CASE Learn \/ Hotplug \/ Crash \/ Rot \/ UNCHANGED vars
  BY <1>1, <1>2, <1>7 DEF Learn, Hotplug, Crash, Rot, vars
<1>. QED
  BY <1>1, <1>2, <1>3, <1>4, <1>5, <1>6, <1>7 DEF Next, Step

(* Weights and snapshots stay own or mean.                                 *)
LEMMA HomeStep ==
  ASSUME "info" \notin Commands, IInv, [Next]_vars
  PROVE  LearningStaysHome'
<1>. USE DEF kernel, store, procs
<1>. USE DEF IInv, TInv, LearningStaysHome
<1>1. CASE UNCHANGED <<weights, store>>
  BY <1>1 DEF OwnOrMean, Usable
<1>2. ASSUME NEW p \in Proc, Load(p) PROVE LearningStaysHome'
  <2>1. sel = cur[p] /\ cur[p] \in Cpu \cup {All} /\ DOMAIN weights = Cpu /\ online \subseteq Cpu
    BY <1>2 DEF Load, ProcsOK, TypeOK, OwnerRuns, SelectorHeld
  <2>2. ASSUME NEW c \in Selected PROVE BlobFor(p) \in {c, Mean}
    <3>1. CASE cur[p] = All
      <4>1. recs[p] \in Snapshots \cup {NoRecs}
        BY DEF ProcsOK, TypeOK
      <4>2. DOMAIN recs[p] \subseteq Cpu
        BY <4>1 DEF Snapshots, NoRecs
      <4>. QED BY <3>1, <4>2, NapNames DEF BlobFor
    <3>2. CASE cur[p] # All
      BY <2>1, <2>2, <3>2 DEF BlobFor, Selected, RecsOwn
    <3>. QED BY <3>1, <3>2
  <2>3. OwnOrMean(weights')
    BY <1>2, <2>1, <2>2 DEF Load, OwnOrMean
  <2>. QED BY <1>2, <2>3 DEF Load, OwnOrMean, Usable
<1>3. ASSUME NEW p \in Proc, Reset(p) PROVE LearningStaysHome'
  BY <1>3 DEF Reset, OwnOrMean, Usable
<1>4. CASE Learn
  BY <1>4 DEF Learn, ProcsOK, TypeOK, OwnOrMean, Usable
<1>5. ASSUME NEW p \in Proc, Rotate(p) PROVE LearningStaysHome'
  BY <1>5 DEF Rotate, Rename, Rotated, OwnOrMean, Usable
<1>6. ASSUME NEW p \in Proc, InstallSnapshot(p) PROVE LearningStaysHome'
  <2>1. OwnOrMean(recs[p])
    BY DEF RecsOwn, OwnOrMean
  <2>2. files' = [files EXCEPT !.state = recs[p]] /\ older' = older \cup {files} /\ weights' = weights
    BY <1>6 DEF InstallSnapshot, Rename
  <2>3. files'.state = recs[p] /\ files'.prev = files.prev
    BY <2>2 DEF ProcsOK, TypeOK, Files
  <2>4. ASSUME NEW view \in older' \cup {files'}, NEW f \in {"state", "prev"}, Usable(view[f])
        PROVE  OwnOrMean(view[f])
    <3>1. CASE view \in older \cup {files}
      BY <2>4, <3>1
    <3>2. CASE view = files'
      BY <2>1, <2>3, <2>4, <3>2
    <3>. QED BY <2>2, <2>4, <3>1, <3>2
  <2>5. OwnOrMean(weights')
    BY <2>2 DEF OwnOrMean
  <2>. QED BY <2>4, <2>5 DEF Usable, OwnOrMean
<1>7. ASSUME NEW p \in Proc, SyncDirectory(p) PROVE LearningStaysHome'
  BY <1>7 DEF SyncDirectory, OwnOrMean, Usable
<1>8. CASE Crash
  <2>1. OwnOrMean(weights')
    BY <1>8 DEF Crash, OwnOrMean
  <2>2. PICK view \in older \cup {files} :
          files' = view \/ \A f \in {"state", "prev"} : ~Usable(files'[f])
    BY <1>8 DEF Crash, Usable
  <2>. QED BY <1>8, <2>1, <2>2 DEF Crash, OwnOrMean, Usable
<1>9. CASE Rot
  BY <1>9 DEF Rot, ProcsOK, TypeOK, Files, OwnOrMean, Usable
<1>10. CASE Hotplug
  BY <1>1, <1>10 DEF Hotplug
<1>11. ASSUME NEW p \in Proc,
              \/ Begin(p) \/ Acquire(p) \/ SelectForRead(p) \/ Read(p) \/ ReadAll(p) \/ Open(p)
              \/ SelectForLoad(p) \/ LoadFails(p) \/ LoadedAll(p) \/ DefaultStays(p) \/ Abort(p)
       PROVE  UNCHANGED <<weights, store>>
  BY <1>11 DEF Begin, Acquire, SelectForRead, Read, ReadAll, Open, SelectForLoad, LoadFails,
               LoadedAll, DefaultStays, Abort
<1>. QED
  BY <1>1, <1>2, <1>3, <1>4, <1>5, <1>6, <1>7, <1>8, <1>9, <1>10, <1>11 DEF Next, Step, vars

LEMMA InitOK == Init => IInv
<1>. SUFFICES ASSUME Init PROVE IInv
  OBVIOUS
<1>1. ProcsOK
  BY NapBounds DEF Init, ProcsOK, TypeOK, Files, Labels
<1>2. InHand /\ AsksACpu /\ InfoReads /\ OwnerRuns /\ SelectorHeld
  BY DEF Init, InHand, AsksACpu, InfoReads, OwnerRuns, SelectorHeld
<1>3. LearningStaysHome /\ RecsOwn
  BY DEF Init, LearningStaysHome, OwnOrMean, RecsOwn, Usable, NoRecs
<1>. QED BY <1>1, <1>2, <1>3 DEF IInv, TInv

(* Every variable stays in its range, whatever commands are in use.        *)
THEOREM TypeCorrect == Spec => []TypeOK
<1>1. Init => TInv
  BY InitOK DEF IInv
<1>2. TInv => TypeOK
  BY DEF TInv, ProcsOK
<1>. QED BY <1>1, <1>2, TypeStep, PTL DEF Spec

THEOREM Invariance == ASSUME "info" \notin Commands PROVE Spec => []IInv
<1>1. IInv /\ [Next]_vars => IInv'
  BY TypeStep, LockStep, RecsStep, HomeStep DEF IInv
<1>. QED BY InitOK, <1>1, PTL DEF Spec

(* The selector belongs to the owner of the lock, for every number of CPUs *)
(* and of processes, in every interleaving, with kills, crashes and        *)
(* hotplug, as long as nobody runs "napctl info".                          *)
THEOREM SelectorExclusive == ASSUME "info" \notin Commands PROVE Spec => []SelectorHeld
<1>1. IInv => SelectorHeld
  BY DEF IInv
<1>. QED BY Invariance, <1>1, PTL

(* And so no CPU ever gets what another one learned.                       *)
THEOREM LearningHome == ASSUME "info" \notin Commands PROVE Spec => []LearningStaysHome
<1>1. IInv => LearningStaysHome
  BY DEF IInv
<1>. QED BY Invariance, <1>1, PTL

-----------------------------------------------------------------------------
(* What a rotation leaves behind: from then until the new snapshot is      *)
(* installed there is no state, and nobody but the owner could bring one.  *)
RotatedOut == \A p \in Proc : pc[p] = "install" => files.state = Absent

RInv == TInv /\ RotatedOut

LEMMA NotAFile == \A s \in Snapshots : s # Absent /\ s # Unusable
<1>1. SUFFICES ASSUME NEW cpus \in SUBSET Cpu, NEW s \in [cpus -> Blob]
               PROVE  s # Absent /\ s # Unusable
  BY DEF Snapshots
<1>2. s \in UNION {[those -> Cpu \cup {Mean}] : those \in SUBSET Cpu}
  BY DEF Blob
<1>. QED BY <1>2, NapNames

(* The files change in four ways.                                          *)
LEMMA FilesChange ==
  ASSUME [Next]_vars
  PROVE  \/ UNCHANGED files /\ older' \in {older, {}}
         \/ \E p \in Proc : Rotate(p) \/ InstallSnapshot(p)
         \/ Crash \/ Rot
<1>. USE DEF kernel, store, procs
<1>1. CASE UNCHANGED vars
  BY <1>1 DEF vars
<1>2. ASSUME NEW p \in Proc,
             \/ Begin(p) \/ Acquire(p) \/ SelectForRead(p) \/ Read(p) \/ ReadAll(p)
             \/ Open(p) \/ SelectForLoad(p) \/ Load(p)
      PROVE  UNCHANGED store
  BY <1>2 DEF Begin, Acquire, SelectForRead, Read, ReadAll, Open, SelectForLoad, Load
<1>3. ASSUME NEW p \in Proc,
             LoadFails(p) \/ LoadedAll(p) \/ DefaultStays(p) \/ Reset(p) \/ Abort(p)
      PROVE  UNCHANGED store
  BY <1>3 DEF LoadFails, LoadedAll, DefaultStays, Reset, Abort
<1>4. ASSUME NEW p \in Proc, SyncDirectory(p)
      PROVE  UNCHANGED files /\ older' = {}
  BY <1>4 DEF SyncDirectory
<1>5. CASE Learn \/ Hotplug
  BY <1>5 DEF Learn, Hotplug
<1>. QED BY <1>1, <1>2, <1>3, <1>4, <1>5 DEF Next, Step

(* Only its rotation brings a process to the installation.                 *)
LEMMA InstallAfterRotate ==
  ASSUME RInv, [Next]_vars, NEW q \in Proc, pc'[q] = "install"
  PROVE  pc[q] = "install" \/ Rotate(q)
<1>. USE DEF kernel, store, procs
<1>0. pc \in [Proc -> Labels] /\ cmd \in [Proc -> {"save", "restore", "reset", "import", "export", "info"}]
  BY DEF RInv, TInv, ProcsOK, TypeOK, Labels
<1>. SUFFICES ASSUME pc'[q] # pc[q] PROVE Rotate(q)
  OBVIOUS
<1>1. ASSUME NEW p \in Proc, Ends(p) PROVE FALSE
  BY <1>0, <1>1 DEF Ends
<1>2. ASSUME NEW p \in Proc, Acquire(p) PROVE FALSE
  <2>1. cmd[p] \in {"save", "restore", "reset", "import", "export"}
    BY <1>0, <1>2 DEF Acquire, InfoReads, RInv, TInv
  <2>. QED BY <1>0, <1>2, <2>1 DEF Acquire, First
<1>3. ASSUME NEW p \in Proc, Begin(p) \/ SelectForRead(p) \/ Read(p) \/ ReadAll(p) PROVE FALSE
  BY <1>0, <1>1, <1>3 DEF Begin, SelectForRead, Read, ReadAll
<1>4. ASSUME NEW p \in Proc, Rotate(p) PROVE Rotate(q)
  BY <1>0, <1>4 DEF Rotate
<1>5. ASSUME NEW p \in Proc, InstallSnapshot(p) \/ SyncDirectory(p) PROVE FALSE
  BY <1>0, <1>1, <1>5 DEF InstallSnapshot, SyncDirectory
<1>6. ASSUME NEW p \in Proc, Open(p) \/ SelectForLoad(p) \/ Load(p) PROVE FALSE
  BY <1>0, <1>6 DEF Open, NextSource, SelectForLoad, Load
<1>7. ASSUME NEW p \in Proc,
             LoadFails(p) \/ LoadedAll(p) \/ DefaultStays(p) \/ Reset(p) \/ Abort(p)
      PROVE  FALSE
  BY <1>0, <1>1, <1>7 DEF LoadFails, NextSource, LoadedAll, DefaultStays, Reset, Abort
<1>8. CASE Learn \/ Hotplug \/ Crash \/ Rot \/ UNCHANGED vars
  BY <1>8 DEF Learn, Hotplug, Crash, Rot, vars
<1>. QED BY <1>2, <1>3, <1>4, <1>5, <1>6, <1>7, <1>8 DEF Next, Step

LEMMA RotatedOutStep ==
  ASSUME RInv, [Next]_vars
  PROVE  RotatedOut'
<1>. USE DEF kernel, store, procs
<1>. SUFFICES ASSUME NEW q \in Proc, pc'[q] = "install" PROVE files'.state = Absent
  BY DEF RotatedOut
<1>0. files \in Files /\ pc \in [Proc -> Labels]
  BY DEF RInv, TInv, ProcsOK, TypeOK, Labels
<1>1. CASE Rotate(q)
  BY <1>0, <1>1 DEF Rotate, Rename, Rotated
<1>. SUFFICES ASSUME pc[q] = "install" PROVE files'.state = Absent
  BY <1>1, InstallAfterRotate
<1>2. files.state = Absent /\ lock = q
  BY DEF RInv, RotatedOut, TInv, OwnerRuns, InfoReads
<1>3. CASE UNCHANGED files
  BY <1>2, <1>3
<1>4. ASSUME NEW p \in Proc, Rotate(p) PROVE files'.state = Absent
  BY <1>2, <1>4 DEF Rotate
<1>5. ASSUME NEW p \in Proc, InstallSnapshot(p) PROVE FALSE
  <2>1. p = q
    BY <1>2, <1>5 DEF InstallSnapshot, RInv, TInv, OwnerRuns, InfoReads
  <2>. QED BY <1>0, <1>5, <2>1 DEF InstallSnapshot
<1>6. CASE Crash
  BY <1>6 DEF Crash
<1>7. CASE Rot
  BY <1>2, <1>7 DEF Rot, Usable
<1>. QED BY <1>3, <1>4, <1>5, <1>6, <1>7, FilesChange

LEMMA RInvariance == Spec => []RInv
<1>1. Init => RInv
  BY InitOK DEF RInv, IInv, RotatedOut, Init
<1>2. RInv /\ [Next]_vars => RotatedOut'
  BY RotatedOutStep
<1>3. RInv => TInv
  BY DEF RInv
<1>. QED BY <1>1, <1>2, <1>3, TypeStep, PTL DEF Spec, RInv

(* A good snapshot leaves its place only to become state.prev, for every   *)
(* number of processes that run any commands at once, killed or not at any *)
(* step.                                                                   *)
THEOREM Rotates == Spec => SnapshotsRotate
<1>1. ASSUME RInv, [Next]_vars
      PROVE  [ Usable(files.state) /\ files'.state # files.state
                 => files'.prev = files.state \/ Crash \/ Rot ]_vars
  <2>1. ASSUME Usable(files.state), files'.state # files.state, ~Crash, ~Rot
        PROVE  files'.prev = files.state
    <3>1. PICK p \in Proc : Rotate(p) \/ InstallSnapshot(p)
      BY <1>1, <2>1, FilesChange
    <3>2. CASE Rotate(p)
      BY <2>1, <3>2 DEF Rotate, Rename, Rotated, store
    <3>3. CASE InstallSnapshot(p)
      BY <1>1, <2>1, <3>3 DEF InstallSnapshot, RInv, RotatedOut, Usable
    <3>. QED BY <3>1, <3>2, <3>3
  <2>. QED BY <2>1
<1>. QED BY <1>1, RInvariance, PTL DEF Spec, SnapshotsRotate

(* Without damage on the disk, a state that cannot be used (another        *)
(* machine or network) has a state.prev that cannot be used either.        *)
UnusableTogether ==
  \A view \in older \cup {files} : view.state = Unusable => ~Usable(view.prev)

PInv == RInv /\ UnusableTogether

LEMMA TogetherStep ==
  ASSUME "rot" \notin Events, RInv, UnusableTogether, [Next]_vars
  PROVE  UnusableTogether'
<1>. USE DEF UnusableTogether
<1>0. files \in Files /\ older \subseteq Files /\ pc \in [Proc -> Labels]
  BY DEF RInv, TInv, ProcsOK, TypeOK, Labels
<1>1. CASE UNCHANGED files /\ older' \in {older, {}}
  BY <1>1
<1>2. ASSUME NEW p \in Proc, Rotate(p) PROVE UnusableTogether'
  <2>1. CASE files.state # Absent
    <3>1. files' = Rotated /\ older' = older \cup {files}
      BY <1>2, <2>1 DEF Rotate, Rename
    <3>. QED BY <3>1, NapNames DEF Rotated
  <2>2. CASE files.state = Absent
    BY <1>2, <2>2 DEF Rotate, store
  <2>. QED BY <2>1, <2>2
<1>3. ASSUME NEW p \in Proc, InstallSnapshot(p) PROVE UnusableTogether'
  <2>1. recs[p] \in Snapshots
    BY <1>3 DEF InstallSnapshot, RInv, TInv, InHand
  <2>2. files'.state # Unusable /\ older' = older \cup {files}
    BY <1>0, <1>3, <2>1, NotAFile DEF InstallSnapshot, Rename, Files
  <2>. QED BY <2>2
<1>4. CASE Crash
  <2>1. PICK view \in older \cup {files} :
          files' = view \/ \A f \in {"state", "prev"} : ~Usable(files'[f])
    BY <1>4 DEF Crash, Usable
  <2>2. older' = {}
    BY <1>4 DEF Crash
  <2>. QED BY <2>1, <2>2
<1>5. CASE Rot
  BY <1>5 DEF Rot, Event
<1>. QED BY <1>1, <1>2, <1>3, <1>4, <1>5, FilesChange

LEMMA PInvariance ==
  ASSUME "rot" \notin Events
  PROVE  Spec => []PInv
<1>1. Init => UnusableTogether
  BY NapNames DEF Init, UnusableTogether
<1>2. RInv /\ UnusableTogether /\ [Next]_vars => UnusableTogether'
  BY TogetherStep
<1>. QED BY <1>1, <1>2, RInvariance, PTL DEF Spec, PInv

(* Once there is a snapshot a crash cannot take away, no step of any       *)
(* command leaves the next boot without one, as long as nothing damages    *)
(* the files where they lie: a damaged state is rotated over a good        *)
(* state.prev (src/nap-tools/napctl, write_state).                         *)
THEOREM AlwaysRestorable ==
  ASSUME "rot" \notin Events
  PROVE  Spec => SomethingToRestore
<1>1. ASSUME PInv, [Next]_vars
      PROVE  [Restorable => Restorable' \/ Crash \/ Rot]_vars
  <2>. SUFFICES ASSUME Restorable, ~Crash, ~Rot PROVE Restorable'
    OBVIOUS
  <2>0. files \in Files
    BY <1>1 DEF PInv, RInv, TInv, ProcsOK, TypeOK
  <2>1. CASE UNCHANGED files /\ older' \in {older, {}}
    BY <2>1 DEF Restorable
  <2>2. ASSUME NEW p \in Proc, Rotate(p) PROVE Restorable'
    <3>1. CASE files.state # Absent
      <4>1. files' = Rotated /\ older' = older \cup {files}
        BY <2>2, <3>1 DEF Rotate, Rename
      <4>2. Usable(files.state)
        BY <1>1, <3>1 DEF PInv, UnusableTogether, Restorable, Usable
      <4>. QED BY <4>1, <4>2 DEF Rotated, Restorable
    <3>2. CASE files.state = Absent
      BY <2>2, <3>2 DEF Rotate, store, Restorable
    <3>. QED BY <3>1, <3>2
  <2>3. ASSUME NEW p \in Proc, InstallSnapshot(p) PROVE Restorable'
    <3>1. recs[p] \in Snapshots
      BY <1>1, <2>3 DEF InstallSnapshot, PInv, RInv, TInv, InHand
    <3>2. Usable(files'.state) /\ older' = older \cup {files}
      BY <2>0, <2>3, <3>1, NotAFile DEF InstallSnapshot, Rename, Files, Usable
    <3>. QED BY <3>2 DEF Restorable
  <2>. QED BY <1>1, <2>1, <2>2, <2>3, FilesChange
<1>. QED BY <1>1, PInvariance, PTL DEF Spec, SomethingToRestore
=============================================================================

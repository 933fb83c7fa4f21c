------------------------- MODULE SwapHandoverProofs -------------------------
(***************************************************************************)
(* What a finished run has done, what it never touches, and that every     *)
(* step of the migration is a step of SwapHandover or none.                *)
(***************************************************************************)
EXTENDS SwapMigrationProofs

(* From the inventory to the end of a run; from the new fstab on; from the *)
(* start of the managed unit on.                                           *)
Informed == (Running \ {"scan"}) \cup {"done"}
Pointed  == {"zramconf", "mask", "retire", "start", "verify", "delete", "unlink", "done"}
Started  == {"start", "verify", "delete", "unlink", "done"}

(* Only a managed unit ever shows the What= of another file.               *)
UnitsShown ==
  /\ enabled \subseteq Legacy
  /\ \A f \in Files \ {Base} : shown[f] = f

(* The inventory misses no old swapfile the next boot would use.           *)
NoneMissed ==
  pc \in Informed =>
    \A f \in (fstab \cup enabled) \cap Legacy : f \in files \/ disk[f] = Absent

(* The loop over the units starts after the tmpfiles rule is masked, and   *)
(* from then on has every enabled unit of an old file ahead of it.         *)
UnitsRetired ==
  /\ pc \in {"scan", "prepare", "create", "swapon", "drain", "backup", "fstab", "zramconf"}
       => victim = Tmpfiles
  /\ pc \in Running \ {"scan"} => enabled \subseteq units
  /\ pc = "retire" \/ (pc = "mask" /\ victim # Tmpfiles)
       => enabled \cap files \subseteq todo
  /\ pc \in Started => enabled \cap files = {}

(* The next boot after the new fstab: the target and nothing that was old. *)
BootFollows ==
  /\ pc \in Pointed => fstab \cap Managed = {target} /\ fstab \cap (files \cup Zram) \subseteq {target}
  /\ pc \in Pointed \ {"zramconf"} => zramOff
  /\ pc \in Started => etc[target] # "null"
  /\ pc \in Working \cup {"swapon", "done"} => disk[target] = ram

(* Each old file is still to be deleted or gone.                           *)
OldGone ==
  pc \in {"delete", "unlink", "done"} =>
    \A f \in files \ {target} :
      \/ disk[f] = Absent
      \/ pc # "done" /\ f \in todo
      \/ pc = "unlink" /\ f = victim

DInv == IInv /\ UnitsShown /\ NoneMissed /\ UnitsRetired /\ BootFollows /\ OldGone

(* No path the installer has on its list holds user data.                  *)
ListHoldsSwap ==
  /\ pc \in Running => \A f \in files \cap Legacy : disk[f] # Junk
  /\ pc \in {"delete", "unlink"} => todo \subseteq files
  /\ pc = "unlink" => victim \in files

(* The drain loop has every device that is not the target.                 *)
Drained ==
  /\ pc = "drain" => active \cap Drains \subseteq todo \cup {target}
  /\ pc \in Working \ {"drain"} => active \cap (Files \cup Zram) = {target}

(* A file this run made is not an old one.                                 *)
MadeIsNew ==
  /\ pc = "prepare" => \A f \in files : disk[f] # Absent
  /\ pc \in {"create", "swapon"} /\ created => target \notin files

(* As long as RAM stays the same the managed file is Base, and its unit is *)
(* never masked.                                                           *)
OneManaged ==
  /\ \A m \in Sizes : disk[m] = Absent
  /\ disk[Base] \in {Absent, Junk, ram} /\ target = Base
  /\ pc = "prepare" => disk[Base] # Junk
  /\ pc = "create" => disk[Base] = Junk
  /\ files \cap Sizes = {}
  /\ \A m \in Managed : etc[m] # "null"
  /\ pc \in {"mask", "retire"} => todo \cap Managed = {}
  /\ pc = "mask" => victim \notin Managed

RInv == DInv /\ Drained /\ MadeIsNew

HInv == RInv /\ ListHoldsSwap /\ OneManaged

(* One lemma per part of the invariant, one case per group of actions.     *)
LEMMA UnitsShownStep ==
  ASSUME DInv, [Next]_vars
  PROVE  UnitsShown'
<1>. USE DEF host, conf, locals
<1>. USE DEF DInv, UnitsShown, IInv, TypeOK, Running, Resting, Informed, Pointed, Started,
             Working
<1>1. CASE Start \/ Scan
  BY <1>1, Apart DEF Start, Ends, Scan
<1>2. CASE Prepare \/ Create \/ Swapon \/ Drain
  BY <1>2, Apart DEF Prepare, Create, Swapon, SwapsOn, Drains, Drain, AfterSwapoff
<1>3. CASE BackupFstab \/ WriteFstab \/ WriteZramPolicy
  BY <1>3, Apart DEF BackupFstab, Backup, WriteFstab, NewFstab, WriteZramPolicy
<1>4. CASE Mask \/ RefuseMask \/ Retire
  BY <1>4, Apart DEF Mask, RefuseMask, Ends, Retire
<1>5. CASE Unmask \/ StartUnit
  BY <1>5, Apart DEF Unmask, Unmasked, StartUnit, Canonical
<1>6. CASE Verify \/ CheckOld \/ Unlink \/ Finish
  BY <1>6, Apart DEF Verify, Ends, CheckOld, Reactivated, Unlink, Finish
<1>7. CASE Undo \/ Abort \/ PowerCycle
  BY <1>7, Apart DEF Undo, Ends, Abort, Event, PowerCycle, Canonical
<1>8. CASE OutsideSwapon \/ Reuse \/ UpdateRestores
  BY <1>8, Apart DEF OutsideSwapon, Event, Reuse, UpdateRestores
<1>9. CASE UNCHANGED vars
  BY <1>9 DEF vars
<1>. QED BY <1>1, <1>2, <1>3, <1>4, <1>5, <1>6, <1>7, <1>8, <1>9 DEF Next, Installer, World

LEMMA NoneMissedStep ==
  ASSUME DInv, [Next]_vars
  PROVE  NoneMissed'
<1>. USE DEF host, conf, locals
<1>. USE DEF DInv, UnitsShown, NoneMissed, IInv, TypeOK, Running, Resting, Informed,
             Pointed, Started, Working
<1>1. CASE Scan
  <2>1. ASSUME pc' # "failed", NEW f \in (fstab \cup enabled) \cap Legacy, disk[f] # Absent
        PROVE  f \in files'
    <3>1. f \in Files /\ shown[f] = f
      BY Apart DEF Files, Managed
    <3>2. f \in Candidates
      BY <2>1, <3>1 DEF Candidates, Listed
    <3>. QED BY <1>1, <2>1, <3>2 DEF Scan, Ends, Refused
  <2>. QED BY <1>1, <2>1 DEF Scan, Ends
<1>2. CASE Start
  BY <1>2, Apart DEF Start, Ends
<1>3. CASE Prepare
  <2>1. \A f \in Legacy : disk'[f] = disk[f]
    BY <1>3, NameOK, Apart DEF Prepare, Files
  <2>. QED BY <1>3, <2>1 DEF Prepare
<1>4. CASE Create
  BY <1>4, Apart DEF Create
<1>5. CASE Swapon \/ Drain
  BY <1>5, Apart DEF Swapon, SwapsOn, Drains, Drain, AfterSwapoff
<1>6. CASE BackupFstab \/ WriteFstab \/ WriteZramPolicy
  BY <1>6, Apart DEF BackupFstab, Backup, WriteFstab, NewFstab, WriteZramPolicy
<1>7. CASE Mask \/ RefuseMask \/ Retire
  BY <1>7, Apart DEF Mask, RefuseMask, Ends, Retire
<1>8. CASE Unmask \/ StartUnit
  BY <1>8, Apart DEF Unmask, Unmasked, StartUnit, Canonical
<1>9. CASE Unlink
  BY <1>9, Apart DEF Unlink
<1>10. CASE Verify \/ CheckOld \/ Finish
  BY <1>10, Apart DEF Verify, Ends, CheckOld, Reactivated, Finish
<1>11. CASE Undo \/ Abort \/ PowerCycle
  BY <1>11, Apart DEF Undo, Ends, Abort, Event, PowerCycle, Canonical
<1>12. CASE Reuse
  BY <1>12, Apart DEF Reuse, Event
<1>13. CASE OutsideSwapon \/ UpdateRestores
  BY <1>13, Apart DEF OutsideSwapon, Event, UpdateRestores
<1>14. CASE UNCHANGED vars
  BY <1>14 DEF vars
<1>. QED BY <1>1, <1>2, <1>3, <1>4, <1>5, <1>6, <1>7, <1>8, <1>9, <1>10, <1>11, <1>12,
         <1>13, <1>14 DEF Next, Installer, World

LEMMA UnitsRetiredStep ==
  ASSUME DInv, [Next]_vars
  PROVE  UnitsRetired'
<1>. USE DEF host, conf, locals
<1>. USE DEF DInv, UnitsShown, UnitsRetired, IInv, TypeOK, Running, Resting, Informed,
             Pointed, Started, Working
<1>1. CASE Start \/ Scan
  BY <1>1, Apart DEF Start, Ends, Scan, Listed
<1>2. CASE Prepare \/ Create \/ Swapon \/ Drain
  BY <1>2, Apart DEF Prepare, Create, Swapon, SwapsOn, Drains, Drain, AfterSwapoff
<1>3. CASE BackupFstab \/ WriteFstab \/ WriteZramPolicy
  BY <1>3, Apart DEF BackupFstab, Backup, WriteFstab, NewFstab, WriteZramPolicy
<1>4. CASE Mask
  <2>1. enabled \cap files \subseteq Retired
    <3>1. ASSUME NEW u \in enabled \cap files PROVE u \in units /\ shown[u] = u /\ u # target
      BY <1>4, Apart DEF Mask, Managed
    <3>. QED BY <3>1 DEF Retired
  <2>. QED BY <1>4, <2>1 DEF Mask
<1>5. CASE RefuseMask \/ Retire
  BY <1>5, Apart DEF RefuseMask, Ends, Retire
<1>6. CASE Unmask \/ StartUnit
  BY <1>6, Apart DEF Unmask, Unmasked, StartUnit, Canonical
<1>7. CASE Verify \/ CheckOld \/ Unlink \/ Finish
  BY <1>7, Apart DEF Verify, Ends, CheckOld, Reactivated, Unlink, Finish
<1>8. CASE Undo \/ Abort \/ PowerCycle
  BY <1>8, Apart DEF Undo, Ends, Abort, Event, PowerCycle, Canonical
<1>9. CASE OutsideSwapon \/ Reuse \/ UpdateRestores
  BY <1>9, Apart DEF OutsideSwapon, Event, Reuse, UpdateRestores
<1>10. CASE UNCHANGED vars
  BY <1>10 DEF vars
<1>. QED BY <1>1, <1>2, <1>3, <1>4, <1>5, <1>6, <1>7, <1>8, <1>9, <1>10 DEF Next,
         Installer, World

LEMMA BootFollowsStep ==
  ASSUME DInv, [Next]_vars
  PROVE  BootFollows'
<1>. USE DEF host, conf, locals
<1>. USE DEF DInv, BootFollows, LoopsSpareTarget, FstabFollows, IInv, TypeOK, Running,
             Resting, Informed, Pointed, Started, Working
<1>1. CASE Start \/ Scan
  BY <1>1, Apart DEF Start, Ends, Scan
<1>2. CASE Prepare
  BY <1>2, Apart DEF Prepare, Reusable
<1>3. CASE Create
  BY <1>3, Apart DEF Create, Files
<1>4. CASE Swapon \/ Drain
  BY <1>4, Apart DEF Swapon, SwapsOn, Drains, Drain, AfterSwapoff
<1>5. CASE BackupFstab \/ WriteFstab \/ WriteZramPolicy
  BY <1>5, Apart DEF BackupFstab, Backup, WriteFstab, NewFstab, WriteZramPolicy
<1>6. CASE Mask \/ RefuseMask \/ Retire
  BY <1>6, Apart DEF Mask, RefuseMask, Ends, Retire
<1>7. CASE Unmask \/ StartUnit
  BY <1>7, Apart DEF Unmask, Unmasked, MaskPoints, Files, StartUnit, Canonical
<1>8. CASE Unlink
  BY <1>8, Apart DEF Unlink
<1>9. CASE Verify \/ CheckOld \/ Finish
  BY <1>9, Apart DEF Verify, Ends, CheckOld, Reactivated, Finish
<1>10. CASE Undo \/ Abort \/ PowerCycle
  BY <1>10, Apart DEF Undo, Ends, Abort, Event, PowerCycle, Canonical
<1>11. CASE Reuse
  BY <1>11, Apart DEF Reuse, Event
<1>12. CASE UpdateRestores
  BY <1>12, Apart DEF UpdateRestores
<1>13. CASE OutsideSwapon
  BY <1>13, Apart DEF OutsideSwapon, Event
<1>14. CASE UNCHANGED vars
  BY <1>14 DEF vars
<1>. QED BY <1>1, <1>2, <1>3, <1>4, <1>5, <1>6, <1>7, <1>8, <1>9, <1>10, <1>11, <1>12,
         <1>13, <1>14 DEF Next, Installer, World

LEMMA OldGoneStep ==
  ASSUME DInv, [Next]_vars
  PROVE  OldGone'
<1>. USE DEF host, conf, locals
<1>. USE DEF DInv, OldGone, LoopsSpareTarget, IInv, TypeOK, Running, Resting, Informed,
             Pointed, Started, Working
<1>1. CASE Start \/ Scan
  BY <1>1, Apart DEF Start, Ends, Scan
<1>2. CASE Prepare \/ Create \/ Swapon \/ Drain
  BY <1>2, Apart DEF Prepare, Create, Swapon, SwapsOn, Drains, Drain, AfterSwapoff
<1>3. CASE BackupFstab \/ WriteFstab \/ WriteZramPolicy
  BY <1>3, Apart DEF BackupFstab, Backup, WriteFstab, NewFstab, WriteZramPolicy
<1>4. CASE Mask \/ RefuseMask \/ Retire
  BY <1>4, Apart DEF Mask, RefuseMask, Ends, Retire
<1>5. CASE Unmask \/ StartUnit
  BY <1>5, Apart DEF Unmask, Unmasked, StartUnit, Canonical
<1>6. CASE Verify \/ CheckOld \/ Unlink \/ Finish
  BY <1>6, Apart DEF Verify, Ends, CheckOld, Reactivated, Unlink, Finish
<1>7. CASE Undo \/ Abort \/ PowerCycle
  BY <1>7, Apart DEF Undo, Ends, Abort, Event, PowerCycle, Canonical
<1>8. CASE OutsideSwapon \/ Reuse \/ UpdateRestores
  BY <1>8, Apart DEF OutsideSwapon, Event, Reuse, UpdateRestores
<1>9. CASE UNCHANGED vars
  BY <1>9 DEF vars
<1>. QED BY <1>1, <1>2, <1>3, <1>4, <1>5, <1>6, <1>7, <1>8, <1>9 DEF Next, Installer, World

LEMMA DInit == Init => DInv
<1>. SUFFICES ASSUME Init PROVE DInv
  OBVIOUS
<1>1. UnitsShown
  <2>1. enabled \subseteq Legacy
    BY DEF Init
  <2>2. Canonical \in [Files -> Files] /\ \A f \in Files : Canonical[f] = f
    BY DEF Canonical
  <2>3. shown = Canonical \/ \E g \in Legacy : shown = [Canonical EXCEPT ![Base] = g]
    BY DEF Init
  <2>4. \A f \in Files \ {Base} : shown[f] = f
    BY <2>2, <2>3
  <2>. QED BY <2>1, <2>4 DEF UnitsShown
<1>2. NoneMissed /\ UnitsRetired /\ BootFollows /\ OldGone
  BY DEF Init, NoneMissed, UnitsRetired, BootFollows, OldGone, Informed, Pointed, Started,
         Running, Working
<1>. QED BY <1>1, <1>2, InitOK DEF DInv

LEMMA DInvariance == Spec => []DInv
<1>1. DInv /\ [Next]_vars => DInv'
  BY StepKeeps, TypeStep, UnitsShownStep, NoneMissedStep, UnitsRetiredStep, BootFollowsStep,
     OldGoneStep DEF DInv, IInv
<1>. QED BY DInit, <1>1, PTL DEF Spec

(* After a run that ended well the next boot swaps to the managed file     *)
(* alone (and to partitions), that file has the size the RAM asks for, and *)
(* every old file is gone: with any number of runs cut off before, and     *)
(* whatever happens after.                                                 *)
THEOREM DoneIsMigrated == Spec => []DoneMeansMigrated
<1>1. DInv => DoneMeansMigrated
  <2>. SUFFICES ASSUME DInv, pc = "done"
                PROVE  /\ BootSwaps \ Parts = {target} /\ disk[target] = ram
                       /\ \A f \in files \ {target} : disk[f] = Absent
    BY DEF DoneMeansMigrated
  <2>1. disk[target] = ram /\ \A f \in files \ {target} : disk[f] = Absent
    BY DEF DInv, BootFollows, OldGone
  <2>2. target \in Files /\ target \notin Legacy \cup Parts /\ ram \in Sizes
    BY Apart DEF DInv, IInv, TypeOK, Files
  <2>3. target \in fstab /\ etc[target] # "null" /\ zramOff
    BY DEF DInv, BootFollows, Pointed, Started
  <2>4. target \in BootSwaps
    BY <2>1, <2>2, <2>3 DEF BootSwaps, Usable
  <2>5. ASSUME NEW d \in BootSwaps, d \notin Parts PROVE d = target
    <3>1. d \in fstab \cup enabled /\ (d \in Files => disk[d] \in Sizes)
      BY <2>3, <2>5 DEF BootSwaps, Usable
    <3>2. enabled \subseteq Legacy /\ fstab \subseteq Legacy \cup Managed \cup Zram \cup Parts
      BY DEF DInv, UnitsShown, IInv, TypeOK, Devices, Files
    <3>3. CASE d \in Legacy
      <4>1. d \in files
        BY <3>1, <3>3, Apart DEF DInv, NoneMissed, Informed, Files
      <4>. QED BY <3>1, <4>1 DEF DInv, UnitsRetired, BootFollows, Pointed, Started
    <3>4. CASE d \notin Legacy
      BY <2>5, <3>1, <3>2, <3>4 DEF DInv, BootFollows, Pointed
    <3>. QED BY <3>3, <3>4
  <2>. QED BY <2>1, <2>2, <2>4, <2>5
<1>. QED BY DInvariance, <1>1, PTL

-----------------------------------------------------------------------------
(* Nothing takes the path of an old swapfile during a run.                 *)
NotReusedLate == ~({"late", "reuse"} \subseteq Environment)

LEMMA ListHoldsSwapStep ==
  ASSUME NotReusedLate, DInv, ListHoldsSwap, [Next]_vars
  PROVE  ListHoldsSwap'
<1>. USE DEF host, conf, locals
<1>. USE DEF DInv, ListHoldsSwap, LoopsSpareTarget, IInv, TypeOK, Running, Resting,
             Informed, Pointed, Started, Working
<1>1. CASE Start \/ Scan
  BY <1>1, Apart DEF Start, Ends, Scan, Swapfile
<1>2. CASE Prepare
  <2>1. \A f \in Legacy : disk'[f] = disk[f]
    BY <1>2, NameOK, Apart DEF Prepare, Files
  <2>. QED BY <1>2, <2>1 DEF Prepare
<1>3. CASE Create
  BY <1>3, Apart DEF Create
<1>4. CASE Swapon \/ Drain
  BY <1>4, Apart DEF Swapon, SwapsOn, Drains, Drain, AfterSwapoff
<1>5. CASE BackupFstab \/ WriteFstab \/ WriteZramPolicy
  BY <1>5, Apart DEF BackupFstab, Backup, WriteFstab, NewFstab, WriteZramPolicy
<1>6. CASE Mask \/ RefuseMask \/ Retire
  BY <1>6, Apart DEF Mask, RefuseMask, Ends, Retire
<1>7. CASE Unmask \/ StartUnit
  BY <1>7, Apart DEF Unmask, Unmasked, StartUnit, Canonical
<1>8. CASE Unlink
  BY <1>8, Apart, SwapNames DEF Unlink
<1>9. CASE Verify \/ CheckOld \/ Finish
  BY <1>9, Apart DEF Verify, Ends, CheckOld, Reactivated, Finish
<1>10. CASE Undo
  BY <1>10, Apart DEF Undo, Ends
<1>11. CASE Abort \/ PowerCycle
  BY <1>11, Apart DEF Abort, Ends, Event, PowerCycle, Canonical
<1>12. CASE Reuse
  BY <1>12, Apart DEF Reuse, Event, NotReusedLate
<1>13. CASE OutsideSwapon \/ UpdateRestores
  BY <1>13, Apart DEF OutsideSwapon, Event, UpdateRestores
<1>14. CASE UNCHANGED vars
  BY <1>14 DEF vars
<1>. QED BY <1>1, <1>2, <1>3, <1>4, <1>5, <1>6, <1>7, <1>8, <1>9, <1>10, <1>11, <1>12,
         <1>13, <1>14 DEF Next, Installer, World

(* What lies at the path of an old swapfile and is none is left alone by   *)
(* every step of every run, as long as nothing takes that path between the *)
(* inventory and the unlink.                                               *)
THEOREM UserDataStays == ASSUME NotReusedLate PROVE Spec => UserDataKept
<1>1. Init => ListHoldsSwap
  BY DEF Init, ListHoldsSwap, Running
<1>2. DInv /\ ListHoldsSwap /\ [Next]_vars => ListHoldsSwap'
  BY ListHoldsSwapStep
<1>3. DInv /\ ListHoldsSwap /\ [Next]_vars
        => [\A f \in Legacy : disk[f] = Junk => disk'[f] = Junk]_vars
  <2>. SUFFICES ASSUME DInv, ListHoldsSwap, Next, NEW f \in Legacy, disk[f] = Junk
                PROVE  disk'[f] = Junk
    BY DEF vars
  <2>. USE DEF DInv, IInv, TypeOK, host, conf, locals
  <2>1. CASE Prepare
    BY <2>1, NameOK, Apart DEF Prepare, Files
  <2>2. CASE Create \/ Undo
    BY <2>2, Apart DEF Create, Undo, Files
  <2>3. CASE Unlink
    BY <2>3 DEF Unlink, ListHoldsSwap, Running, Files
  <2>4. CASE Reuse
    BY <2>4, Apart DEF Reuse, Files
  <2>. QED
    BY <2>1, <2>2, <2>3, <2>4
       DEF Next, Installer, World, Start, Scan, Swapon, Drain, BackupFstab, WriteFstab,
           WriteZramPolicy, Mask, RefuseMask, Retire, Unmask, StartUnit, Verify, CheckOld,
           Finish, Abort, PowerCycle, OutsideSwapon, UpdateRestores
<1>. QED BY DInvariance, <1>1, <1>2, <1>3, PTL DEF Spec, UserDataKept

-----------------------------------------------------------------------------
LEMMA DrainedStep ==
  ASSUME "outside" \notin Environment, DInv, Drained, [Next]_vars
  PROVE  Drained'
<1>. USE DEF host, conf, locals
<1>. USE DEF DInv, Drained, LoopsSpareTarget, IInv, TypeOK, Running, Resting, Informed,
             Pointed, Started, Working
<1>1. CASE Start \/ Scan
  BY <1>1, Apart DEF Start, Ends, Scan
<1>2. CASE Prepare \/ Create \/ Swapon \/ Drain
  BY <1>2, Apart DEF Prepare, Create, Swapon, SwapsOn, Drains, Files, Drain, AfterSwapoff
<1>3. CASE BackupFstab \/ WriteFstab \/ WriteZramPolicy
  BY <1>3, Apart DEF BackupFstab, Backup, WriteFstab, NewFstab, WriteZramPolicy
<1>4. CASE Mask \/ RefuseMask \/ Retire
  BY <1>4, Apart DEF Mask, RefuseMask, Ends, Retire, Files
<1>5. CASE Unmask \/ StartUnit
  BY <1>5, Apart DEF Unmask, Unmasked, StartUnit, Canonical
<1>6. CASE Verify \/ CheckOld \/ Unlink \/ Finish
  BY <1>6, Apart DEF Verify, Ends, CheckOld, Reactivated, Unlink, Finish
<1>7. CASE Undo \/ Abort \/ PowerCycle
  BY <1>7, Apart DEF Undo, Ends, Abort, Event, PowerCycle, Canonical
<1>8. CASE OutsideSwapon \/ Reuse \/ UpdateRestores
  BY <1>8, Apart DEF OutsideSwapon, Event, Reuse, UpdateRestores
<1>9. CASE UNCHANGED vars
  BY <1>9 DEF vars
<1>. QED BY <1>1, <1>2, <1>3, <1>4, <1>5, <1>6, <1>7, <1>8, <1>9 DEF Next, Installer, World

LEMMA MadeIsNewStep ==
  ASSUME DInv, MadeIsNew, [Next]_vars
  PROVE  MadeIsNew'
<1>. USE DEF host, conf, locals
<1>. USE DEF DInv, MadeIsNew, IInv, TypeOK, Running, Resting, Informed, Pointed, Started,
             Working
<1>1. CASE Start \/ Scan
  BY <1>1, Apart DEF Start, Ends, Scan, Swapfile, Refused
<1>2. CASE Prepare
  <2>1. created' = (disk[ManagedName] = Absent) /\ target' = ManagedName /\ UNCHANGED files
    BY <1>2 DEF Prepare
  <2>2. pc' # "prepare" /\ pc = "prepare"
    BY <1>2 DEF Prepare
  <2>. QED BY <2>1, <2>2
<1>3. CASE Create
  BY <1>3, Apart DEF Create
<1>4. CASE Swapon \/ Drain
  BY <1>4, Apart DEF Swapon, SwapsOn, Drains, Drain, AfterSwapoff
<1>5. CASE BackupFstab \/ WriteFstab \/ WriteZramPolicy
  BY <1>5, Apart DEF BackupFstab, Backup, WriteFstab, NewFstab, WriteZramPolicy
<1>6. CASE Mask \/ RefuseMask \/ Retire
  BY <1>6, Apart DEF Mask, RefuseMask, Ends, Retire
<1>7. CASE Unmask \/ StartUnit
  BY <1>7, Apart DEF Unmask, Unmasked, StartUnit, Canonical
<1>8. CASE Unlink
  BY <1>8, Apart DEF Unlink
<1>9. CASE Verify \/ CheckOld \/ Finish
  BY <1>9, Apart DEF Verify, Ends, CheckOld, Reactivated, Finish
<1>10. CASE Undo \/ Abort \/ PowerCycle
  BY <1>10, Apart DEF Undo, Ends, Abort, Event, PowerCycle, Canonical
<1>11. CASE Reuse
  BY <1>11, Apart, SwapNames DEF Reuse
<1>12. CASE OutsideSwapon \/ UpdateRestores
  BY <1>12, Apart DEF OutsideSwapon, Event, UpdateRestores
<1>13. CASE UNCHANGED vars
  BY <1>13 DEF vars
<1>. QED BY <1>1, <1>2, <1>3, <1>4, <1>5, <1>6, <1>7, <1>8, <1>9, <1>10, <1>11, <1>12,
         <1>13 DEF Next, Installer, World

LEMMA RInvariance ==
  ASSUME "outside" \notin Environment
  PROVE  Spec => []RInv
<1>1. Init => Drained /\ MadeIsNew
  BY DEF Init, Drained, MadeIsNew, Working
<1>2. RInv /\ [Next]_vars => Drained' /\ MadeIsNew'
  BY DrainedStep, MadeIsNewStep DEF RInv
<1>. QED BY DInvariance, <1>1, <1>2, PTL DEF Spec, RInv

(* Nothing is retired, masked or deleted while a drain is outstanding, as  *)
(* long as nobody swaps on by hand in the meantime.                        *)
THEOREM DrainedFirst ==
  ASSUME "outside" \notin Environment
  PROVE  Spec => NothingRetiredBeforeDrain
<1>. DEFINE Step ==
       \/ /\ zramOff' = zramOff /\ enabled' = enabled
          /\ \A m \in MaskPoints : etc'[m] = "null" => etc[m] = "null"
          /\ \A f \in files : disk'[f] = Absent => disk[f] = Absent
       \/ active \cap (Files \cup Zram) = {target}
<1>1. RInv /\ [Next]_vars => [Step]_vars
  <2>. SUFFICES ASSUME RInv, Next PROVE Step
    BY DEF vars
  <2>. USE DEF RInv, DInv, IInv, TypeOK, host, conf, locals
  <2>1. CASE WriteZramPolicy \/ Mask \/ Retire \/ Unlink
    BY <2>1 DEF WriteZramPolicy, Mask, Retire, Unlink, Drained, Working
  <2>2. CASE Prepare
    BY <2>2, NameOK, Apart, SwapNames DEF Prepare, Files
  <2>3. CASE Create
    BY <2>3, Apart DEF Create, Files
  <2>4. CASE Undo
    <3>1. \A f \in files : disk'[f] = disk[f]
      BY <2>4 DEF Undo, MadeIsNew, MadeUnused, Files
    <3>. QED BY <2>4, <3>1 DEF Undo
  <2>5. CASE Reuse
    BY <2>5, SwapNames DEF Reuse
  <2>6. CASE Unmask
    BY <2>6 DEF Unmask, Unmasked, MaskPoints, Files
  <2>7. CASE UpdateRestores
    BY <2>7 DEF UpdateRestores
  <2>. QED
    BY <2>1, <2>2, <2>3, <2>4, <2>5, <2>6, <2>7
       DEF Next, Installer, World, Start, Scan, Swapon, Drain, BackupFstab, WriteFstab,
           RefuseMask, StartUnit, Verify, CheckOld, Finish, Abort, PowerCycle, OutsideSwapon
<1>. QED BY RInvariance, <1>1, PTL DEF Spec, NothingRetiredBeforeDrain

-----------------------------------------------------------------------------
LEMMA OneManagedStep ==
  ASSUME "ram" \notin Environment, "masked" \notin Environment, DInv, OneManaged, [Next]_vars
  PROVE  OneManaged'
<1>. USE DEF host, conf, locals
<1>. USE DEF DInv, OneManaged, LoopsSpareTarget, IInv, TypeOK, Running, Resting, Informed,
             Pointed, Started, Working
<1>1. CASE Scan
  <2>1. disk[Base] \notin {Absent, ram} => Refused # {}
    BY <1>1, Apart DEF Refused, Candidates, Swapfile, Managed, Files
  <2>2. pc' # "failed" => \A f \in files' : disk[f] \in Sizes
    BY <1>1 DEF Scan, Ends, Swapfile
  <2>3. files' \cap Sizes = {}
    <3>1. files' = {} \/ \A f \in files' : disk[f] \in Sizes
      BY <1>1 DEF Scan, Ends, Swapfile
    <3>. QED BY <3>1, Apart
  <2>. QED BY <1>1, <2>1, <2>3, SwapNames DEF Scan, Ends
<1>2. CASE Start
  BY <1>2, Apart DEF Start, Ends
<1>3. CASE Prepare
  <2>1. ManagedName = Base
    BY <1>3 DEF Prepare, ManagedName
  <2>2. CASE disk[Base] = Absent
    <3>1. created' = TRUE
      BY <1>3, <2>1, <2>2, Zenon DEF Prepare
    <3>2. disk' = [disk EXCEPT ![Base] = Junk] /\ pc' = "create"
      BY <1>3, <2>1, <3>1, <2>2, Apart DEF Prepare, Reusable
    <3>. QED BY <1>3, <2>1, <3>2, SwapNames DEF Prepare, Files, Managed
  <2>3. CASE disk[Base] # Absent
    <3>1. created' = FALSE
      BY <1>3, <2>1, <2>3, Zenon DEF Prepare
    <3>2. disk' = disk /\ pc' \in {"swapon", "failed"}
      BY <1>3, <2>1, <3>1, <2>3, Apart DEF Prepare, Reusable
    <3>. QED BY <1>3, <2>1, <3>2, SwapNames DEF Prepare
  <2>. QED BY <2>2, <2>3
<1>4. CASE Create
  BY <1>4, Apart, SwapNames DEF Create, Files, Managed
<1>5. CASE Swapon \/ Drain
  BY <1>5, Apart DEF Swapon, SwapsOn, Drains, Drain, AfterSwapoff
<1>6. CASE WriteZramPolicy
  BY <1>6, Apart DEF WriteZramPolicy, UnitsRetired
<1>7. CASE BackupFstab \/ WriteFstab
  BY <1>7, Apart DEF BackupFstab, Backup, WriteFstab, NewFstab
<1>8. CASE Mask
  <2>1. Retired \cap Managed = {}
    <3>1. ASSUME NEW u \in Retired \cap Managed PROVE FALSE
      <4>1. u \in Sizes /\ u # Base /\ shown[u] \in files
        BY <1>8, <3>1, Apart, SwapNames DEF Retired, Managed
      <4>2. shown[u] = u
        BY <4>1 DEF UnitsShown, Files, Managed
      <4>. QED BY <4>1, <4>2
    <3>. QED BY <3>1
  <2>2. \A m \in Managed : etc'[m] # "null"
    BY <1>8 DEF Mask, MaskPoints, Files
  <2>. QED BY <1>8, <2>1, <2>2 DEF Mask
<1>9. CASE Retire
  BY <1>9, Apart DEF Retire
<1>10. CASE RefuseMask
  BY <1>10, Apart DEF RefuseMask, Ends
<1>11. CASE Unmask
  BY <1>11, Apart DEF Unmask, Unmasked
<1>12. CASE StartUnit
  BY <1>12, Apart DEF StartUnit, Canonical
<1>13. CASE Unlink
  BY <1>13, Apart DEF Unlink
<1>14. CASE Verify \/ CheckOld \/ Finish
  BY <1>14, Apart DEF Verify, Ends, CheckOld, Reactivated, Finish
<1>15. CASE Undo
  BY <1>15, Apart DEF Undo, Ends
<1>16. CASE PowerCycle
  BY <1>16, Apart DEF PowerCycle, Ends, Canonical
<1>17. CASE Abort
  BY <1>17, Apart DEF Abort, Ends, Event
<1>18. CASE OutsideSwapon
  BY <1>18, Apart DEF OutsideSwapon, Event
<1>19. CASE Reuse
  BY <1>19, Apart DEF Reuse, Event
<1>20. CASE UpdateRestores
  BY <1>20, Apart DEF UpdateRestores
<1>21. CASE UNCHANGED vars
  BY <1>21 DEF vars
<1>. QED BY <1>1, <1>2, <1>3, <1>4, <1>5, <1>6, <1>7, <1>8, <1>9, <1>10, <1>11, <1>12,
         <1>13, <1>14, <1>15, <1>16, <1>17, <1>18, <1>19, <1>20, <1>21 DEF Next, Installer,
         World

LEMMA OneManagedInit == "masked" \notin Environment /\ Init => OneManaged
  BY Apart, SwapNames DEF Init, OneManaged, Managed, Files, MaskPoints

(* What the handover stands: kills, errors, power cuts, updates, stale      *)
(* units.  A masked unit of the managed file or another RAM size leaves a  *)
(* moment in which the next boot has no swap; swapping on by hand lets one *)
(* systemctl stop both swap off and change the next boot; and user data at *)
(* a path that fstab still names takes a device from the next boot.        *)
Quiet == Environment \cap {"outside", "reuse", "ram", "masked"} = {}

LEMMA HInvariance == ASSUME Quiet PROVE Spec => []HInv
<1>1. Init => OneManaged /\ ListHoldsSwap
  BY OneManagedInit DEF Quiet, Init, ListHoldsSwap, Running
<1>2. DInv /\ OneManaged /\ ListHoldsSwap /\ [Next]_vars => OneManaged' /\ ListHoldsSwap'
  BY OneManagedStep, ListHoldsSwapStep DEF Quiet, NotReusedLate
<1>3. Spec => []RInv
  BY RInvariance DEF Quiet
<1>4. RInv => DInv
  BY DEF RInv
<1>. QED BY <1>1, <1>2, <1>3, <1>4, PTL DEF Spec, HInv

Kept == {d \in Devices : Usable(d)}

(* The next boot depends on the configuration and on what is a swap area.  *)
LEMMA SameBoot ==
  ASSUME UNCHANGED <<fstab, enabled, etc, zramOff>>,
         \A f \in Files : disk'[f] \in Sizes <=> disk[f] \in Sizes
  PROVE  UNCHANGED <<BootSwaps, Kept>>
<1>1. \A d : Usable(d)' <=> Usable(d)
  BY DEF Usable
<1>. QED BY <1>1 DEF BootSwaps, Kept

LEMMA BootKept == TypeOK => BootSwaps \subseteq Kept
  BY Apart DEF TypeOK, BootSwaps, Kept, Usable, Devices

(* From the new fstab on, the next boot has the target.                    *)
LEMMA TargetBoots == HInv /\ pc \in Pointed => target \in BootSwaps
<1>. SUFFICES ASSUME HInv, pc \in Pointed PROVE target \in BootSwaps
  OBVIOUS
<1>1. target \in fstab /\ etc[target] # "null"
  BY DEF HInv, RInv, DInv, BootFollows, OneManaged, Managed
<1>2. disk[target] \in Sizes
  BY DEF HInv, RInv, DInv, IInv, TypeOK, BootFollows, Pointed, Working
<1>. QED BY <1>1, <1>2 DEF BootSwaps, Usable

(* The same of the state after a step.                                     *)
LEMMA BootKeptNext == TypeOK' => (BootSwaps \subseteq Kept)'
  BY BootKept, PTL

LEMMA TargetBootsNext == (HInv /\ pc \in Pointed)' => (target \in BootSwaps)'
  BY TargetBoots, PTL

(* A step that leaves the next boot and the disk to themselves, or swaps   *)
(* on or off one device.                                                   *)
LEMMA StepHandsOver ==
  ASSUME Quiet, HInv, HInv', [Next]_vars
  PROVE  [Promise!Next]_(Promise!vars)
<1>. USE DEF host, conf, locals, Promise!vars, Kept
<1>. DEFINE Same == UNCHANGED <<active, BootSwaps, Kept>>
<1>0. TypeOK /\ IInv /\ DInv /\ BootSwaps \subseteq Kept /\ TypeOK'
  BY BootKept DEF HInv, RInv, DInv, IInv
<1>1. CASE \/ UNCHANGED vars \/ Start \/ Scan \/ BackupFstab \/ RefuseMask \/ Verify
           \/ CheckOld \/ Finish \/ Abort
  <2>1. UNCHANGED <<active, disk, fstab, enabled, etc, zramOff>>
    BY <1>1 DEF vars, Start, Scan, BackupFstab, RefuseMask, Verify, CheckOld, Finish, Abort
  <2>. QED BY <2>1, SameBoot
<1>2. CASE StartUnit
  <2>1. active' = active
    BY <1>0, <1>2 DEF StartUnit, IInv, LoopsSpareTarget, Working
  <2>. QED BY <1>2, <2>1, SameBoot DEF StartUnit
<1>3. CASE OutsideSwapon \/ Reuse
  BY <1>3 DEF OutsideSwapon, Reuse, Event, Quiet
<1>4. CASE Prepare
  <2>1. \A f \in Files : disk'[f] \in Sizes <=> disk[f] \in Sizes
    <3>1. CASE created'
      <4>1. disk[ManagedName] = Absent
        BY <1>4, <3>1, Zenon DEF Prepare
      <4>2. disk' = [disk EXCEPT ![ManagedName] = Junk]
        BY <1>4, <3>1, Zenon DEF Prepare
      <4>. QED BY <1>0, <4>1, <4>2, Apart DEF TypeOK
    <3>2. CASE ~created'
      BY <1>4, <3>2 DEF Prepare
    <3>. QED BY <3>1, <3>2
  <2>. QED BY <1>4, <2>1, SameBoot DEF Prepare
<1>5. ASSUME pc \in {"create", "swapon"}, created, target \in Files
      PROVE  target \notin active \cup BootSwaps
  BY <1>0, <1>5, Apart DEF IInv, MadeUnused, DInv, UnitsShown, BootSwaps, TypeOK
<1>. target \in Managed /\ target \in Files /\ target \in Devices
  BY <1>0 DEF TypeOK, Files, Devices
<1>6. CASE Create
  <2>1. target \notin BootSwaps /\ target \notin Kept /\ created
    BY <1>0, <1>5, <1>6, Apart DEF Create, IInv, MadeUnused, HInv, OneManaged, Usable
  <2>2. /\ disk' = [disk EXCEPT ![target] = ram] /\ ram \in Sizes
        /\ UNCHANGED <<active, fstab, enabled, etc, zramOff>>
    BY <1>0, <1>6 DEF Create, TypeOK
  <2>3. \A d : IF d = target THEN Usable(d)' ELSE Usable(d)' <=> Usable(d)
    BY <1>0, <2>2 DEF Usable, TypeOK
  <2>4. Kept' = Kept \cup {target}
    BY <2>3
  <2>5. target \notin fstab \cup enabled
    BY <1>0, <1>6, <2>1, Apart DEF Create, IInv, MadeUnused, DInv, UnitsShown
  <2>6. BootSwaps' = BootSwaps
    BY <2>2, <2>3, <2>5 DEF BootSwaps
  <2>. QED BY <2>1, <2>2, <2>4, <2>6 DEF Promise!Next, Promise!Make
<1>7. CASE Undo
  <2>1. CASE ~created
    BY <1>7, <2>1, SameBoot DEF Undo
  <2>2. CASE created
    <3>1. target \notin active \cup BootSwaps /\ target \notin fstab \cup enabled
      BY <1>0, <1>5, <1>7, <2>2, Apart DEF Undo, IInv, MadeUnused, DInv, UnitsShown
    <3>2. /\ disk' = [disk EXCEPT ![target] = Absent]
          /\ UNCHANGED <<active, fstab, enabled, etc, zramOff>>
      BY <1>7, <2>2 DEF Undo
    <3>3. \A d : IF d = target THEN ~Usable(d)' ELSE Usable(d)' <=> Usable(d)
      BY <1>0, <3>2, Apart DEF Usable, TypeOK
    <3>4. Kept' = Kept \ {target}
      BY <3>3
    <3>5. BootSwaps' = BootSwaps
      BY <3>1, <3>2, <3>3 DEF BootSwaps
    <3>. QED BY <3>1, <3>2, <3>4, <3>5 DEF Promise!Next, Promise!Discard
  <2>. QED BY <2>1, <2>2
<1>8. CASE Swapon
  <2>1. UNCHANGED <<BootSwaps, Kept>>
    BY <1>8, SameBoot DEF Swapon
  <2>2. target \in Kept /\ active' \in {active, active \cup {target}}
    BY <1>0, <1>8 DEF Swapon, IInv, MadeUnused, Usable
  <2>. QED BY <2>1, <2>2 DEF Promise!Next, Promise!Activate
<1>9. CASE Drain
  <2>1. UNCHANGED <<BootSwaps, Kept>>
    BY <1>9, SameBoot DEF Drain
  <2>2. CASE active' = active
    BY <2>1, <2>2
  <2>3. CASE active' # active
    <3>1. PICK n \in todo : active' = active \ {n}
      BY <1>9, <2>3 DEF Drain, AfterSwapoff
    <3>2. n \in active /\ target \in active \ {n}
      BY <1>0, <1>9, <2>3, <3>1 DEF Drain, IInv, LoopsSpareTarget, Working
    <3>. QED BY <2>1, <3>1, <3>2 DEF Promise!Next, Promise!Drain
  <2>. QED BY <2>2, <2>3
<1>10. ASSUME UNCHANGED <<active, disk>>, target \in BootSwaps' \/ BootSwaps \subseteq BootSwaps'
       PROVE  [Promise!Next]_(Promise!vars)
  <2>1. Kept' = Kept
    BY <1>10 DEF Usable
  <2>2. BootSwaps' \subseteq Kept'
    BY <1>0, BootKeptNext
  <2>3. BootSwaps # {} => BootSwaps' # {}
    BY <1>10
  <2>. QED BY <1>10, <2>1, <2>2, <2>3 DEF Promise!Next, Promise!Repoint
<1>11. CASE WriteFstab \/ WriteZramPolicy \/ Mask
  <2>1. UNCHANGED <<active, disk, target>> /\ pc' \in Pointed
    BY <1>0, <1>11 DEF WriteFstab, WriteZramPolicy, Mask, Pointed
  <2>2. target \in BootSwaps'
    BY <2>1, TargetBootsNext
  <2>. QED BY <1>10, <2>1, <2>2
<1>12. CASE Retire
  <2>1. active \cap (Files \cup Zram) = {target} /\ target \in active'
    BY <1>0, <1>12, Apart DEF Retire, HInv, RInv, Drained, Working, IInv, LoopsSpareTarget
  <2>2. active' = active
    BY <1>0, <1>12, <2>1 DEF Retire, TypeOK
  <2>3. UNCHANGED <<disk, target>> /\ pc' \in Pointed
    BY <1>12 DEF Retire, Pointed
  <2>4. target \in BootSwaps'
    BY <2>3, TargetBootsNext
  <2>. QED BY <1>10, <2>2, <2>3, <2>4
<1>13. CASE Unmask
  <2>1. UNCHANGED <<active, disk, target>> /\ pc' \in Pointed
    BY <1>13 DEF Unmask, Pointed
  <2>2. target \in BootSwaps'
    BY <2>1, TargetBootsNext
  <2>. QED BY <1>10, <2>1, <2>2
<1>14. CASE UpdateRestores
  <2>1. UNCHANGED <<active, disk, fstab, enabled, zramOff>>
    BY <1>14 DEF UpdateRestores
  <2>2. \A d \in Files \cup Zram : etc[d] # "null" => etc'[d] # "null"
    BY <1>0, <1>14 DEF UpdateRestores, TypeOK, MaskPoints
  <2>3. BootSwaps \subseteq BootSwaps'
    BY <2>1, <2>2 DEF BootSwaps, Usable
  <2>. QED BY <1>10, <2>1, <2>3
<1>15. CASE Unlink
  <2>1. victim \in Files /\ victim \in files /\ victim # target /\ victim \notin active
    BY <1>0, <1>15 DEF Unlink, IInv, LoopsSpareTarget, HInv, RInv, Drained, Working, ListHoldsSwap
  <2>2. victim \notin fstab \cup enabled
    BY <1>0, <1>15, <2>1 DEF Unlink, DInv, UnitsRetired, BootFollows, Started, Pointed
  <2>3. /\ disk' = [disk EXCEPT ![victim] = Absent]
        /\ UNCHANGED <<active, fstab, enabled, etc, zramOff>>
    BY <1>15 DEF Unlink
  <2>4. \A d : IF d = victim THEN ~Usable(d)' ELSE Usable(d)' <=> Usable(d)
    BY <1>0, <2>1, <2>3, Apart DEF Usable, TypeOK
  <2>5. Kept' = Kept \ {victim}
    BY <2>4
  <2>6. BootSwaps' = BootSwaps /\ victim \notin BootSwaps
    BY <2>1, <2>2, <2>3, <2>4, Apart DEF BootSwaps
  <2>. QED BY <2>1, <2>3, <2>5, <2>6 DEF Promise!Next, Promise!Discard
<1>16. CASE PowerCycle
  <2>1. active' = BootSwaps /\ UNCHANGED <<BootSwaps, Kept>>
    BY <1>16, SameBoot DEF PowerCycle
  <2>. QED BY <2>1 DEF Promise!Next, Promise!Reboot
<1>. QED
  BY <1>1, <1>2, <1>3, <1>4, <1>6, <1>7, <1>8, <1>9, <1>11, <1>12, <1>13, <1>14, <1>15, <1>16
     DEF Next, Installer, World

(* Step by step the migration is the handover SwapHandover promises: swap  *)
(* is taken off a device only while another one remains, the next boot     *)
(* never goes from some swap to none, and only what neither the kernel nor *)
(* the next boot uses is deleted.                                          *)
THEOREM Handover == ASSUME Quiet PROVE Spec => HandsOver
<1>1. Init => Promise!Init
  <2>. SUFFICES ASSUME Init PROVE Promise!Init
    OBVIOUS
  <2>1. TypeOK /\ ActiveOnDisk
    BY InitOK, Apart DEF IInv, Init, ActiveOnDisk, BootSwaps, Usable, Files
  <2>2. active \subseteq Kept
    BY <2>1 DEF TypeOK, ActiveOnDisk, Kept, Usable, Devices
  <2>3. BootSwaps \subseteq active
    BY DEF Init
  <2>. QED BY <2>2, <2>3 DEF Promise!Init, Kept
<1>2. HInv /\ HInv' /\ [Next]_vars => [Promise!Next]_(Promise!vars)
  BY StepHandsOver
<1>. QED BY <1>1, <1>2, HInvariance, PTL DEF Spec, HandsOver, Promise!Spec
=============================================================================

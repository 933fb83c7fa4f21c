------------------------ MODULE SwapMigrationProofs ------------------------
(***************************************************************************)
(* What holds of SwapMigration for every set of swapfiles, RAM sizes, zram *)
(* devices and partitions and any number of outside events.                *)
(***************************************************************************)
EXTENDS SwapMigration, TLAPS

(* The names of the devices, pairwise apart.                               *)
LEMMA Apart ==
  /\ Managed \cap (Legacy \cup Zram \cup Parts \cup {Tmpfiles}) = {}
  /\ Files \cap (Zram \cup {Tmpfiles}) = {}
  /\ Absent \notin Sizes /\ Junk \notin Sizes
  BY SwapNames DEF Managed, Files

LEMMA NameOK == TypeOK => ManagedName \in Managed
  BY DEF TypeOK, ManagedName, Managed

LEMMA BootOK == TypeOK => BootSwaps \subseteq Devices
  BY DEF TypeOK, BootSwaps, Devices

LEMMA EndsOK ==
  ASSUME NEW where \in Resting \cup Running, Ends(where)
  PROVE  /\ pc' \in Resting \cup Running
         /\ target' \in Managed /\ created' \in BOOLEAN /\ snap' \subseteq Devices
         /\ units' \subseteq Files /\ files' \subseteq Files
         /\ todo' \subseteq Files \cup Zram /\ victim' \in MaskPoints
  BY DEF Ends, Managed, MaskPoints

LEMMA TypeInit == Init => TypeOK
<1>. SUFFICES ASSUME Init PROVE TypeOK
  OBVIOUS
<1>1. BootSwaps \subseteq Devices
  BY DEF Init, BootSwaps, Devices, Files
<1>2. Canonical \in [Files -> Files]
  BY DEF Canonical
<1>3. shown \in [Files -> Files]
  BY <1>2, SwapNames DEF Init, Files, Managed
<1>4. /\ disk \in [Files -> {Absent, Junk} \cup Sizes] /\ active \subseteq Devices
      /\ fstab \subseteq Devices /\ enabled \subseteq Files
  BY <1>1 DEF Init, Devices, Files
<1>5. /\ etc \in [MaskPoints -> {"absent", "local", "null"}] /\ zramOff \in BOOLEAN
      /\ ram \in Sizes
  BY DEF Init
<1>6. /\ fstabBak \subseteq SUBSET Devices /\ saved \subseteq MaskPoints
      /\ target \in Managed /\ created \in BOOLEAN /\ snap \subseteq Devices
      /\ units \subseteq Files /\ files \subseteq Files
      /\ todo \subseteq Files \cup Zram /\ victim \in MaskPoints
  BY DEF Init, Managed, MaskPoints
<1>7. faults \in 0..MaxFaults /\ pc \in Resting \cup Running
  BY SwapBounds DEF Init, Resting
<1>. QED
  BY <1>3, <1>4, <1>5, <1>6, <1>7 DEF TypeOK

(* Every step of the installer and of the world keeps the types.            *)
LEMMA TypeStep == TypeOK /\ [Next]_vars => TypeOK'
<1>. SUFFICES ASSUME TypeOK, [Next]_vars PROVE TypeOK'
  OBVIOUS
<1>. USE DEF host, conf, locals, Resting, Running
<1>1. CASE Start
  BY <1>1, EndsOK DEF TypeOK, Start
<1>2. CASE Scan
  <2>1. CASE Refused # {}
    BY <1>2, <2>1, EndsOK DEF TypeOK, Scan
  <2>2. CASE Refused = {}
    BY <1>2, <2>2, SwapNames DEF TypeOK, Scan, Listed, Candidates, Files, Devices
  <2>. QED BY <2>1, <2>2
<1>3. CASE Prepare
  BY <1>3, NameOK DEF TypeOK, Prepare, Files
<1>4. CASE Create
  BY <1>4 DEF TypeOK, Create
<1>5. CASE Swapon
  BY <1>5 DEF TypeOK, Swapon, Drains, Devices, Files
<1>6. CASE Drain
  BY <1>6 DEF TypeOK, Drain, AfterSwapoff
<1>7. CASE BackupFstab
  BY <1>7 DEF TypeOK, BackupFstab, Backup
<1>8. CASE WriteFstab
  BY <1>8 DEF TypeOK, WriteFstab, NewFstab, Devices, Files
<1>9. CASE WriteZramPolicy
  BY <1>9 DEF TypeOK, WriteZramPolicy
<1>10. CASE Mask
  <2>1. Retired \subseteq Files \cup Zram
    BY DEF Retired
  <2>. QED BY <1>10, <2>1 DEF TypeOK, Mask, MaskPoints
<1>11. CASE RefuseMask
  BY <1>11, EndsOK DEF TypeOK, RefuseMask
<1>12. CASE Retire
  BY <1>12 DEF TypeOK, Retire, MaskPoints
<1>13. CASE Unmask
  BY <1>13 DEF TypeOK, Unmask, Unmasked, MaskPoints
<1>14. CASE StartUnit
  BY <1>14 DEF TypeOK, StartUnit, Canonical, Devices, Files
<1>15. CASE Verify
  BY <1>15, EndsOK DEF TypeOK, Verify
<1>16. CASE CheckOld
  <2>. PICK f \in todo :
         IF Reactivated(f) THEN Ends("failed")
         ELSE /\ pc' = "unlink" /\ victim' = f /\ todo' = todo \ {f}
              /\ UNCHANGED locals
    BY <1>16 DEF CheckOld
  <2>1. CASE Reactivated(f)
    BY <1>16, <2>1, EndsOK DEF TypeOK, CheckOld
  <2>2. CASE ~Reactivated(f)
    BY <1>16, <2>2 DEF TypeOK, CheckOld, MaskPoints
  <2>. QED BY <2>1, <2>2
<1>17. CASE Unlink
  BY <1>17 DEF TypeOK, Unlink, MaskPoints
<1>18. CASE Finish
  BY <1>18 DEF TypeOK, Finish
<1>19. CASE Undo
  <2>1. faults' \in 0..MaxFaults
    BY <1>19, SwapBounds DEF TypeOK, Undo
  <2>2. disk' \in [Files -> {Absent, Junk} \cup Sizes]
    BY <1>19 DEF TypeOK, Undo
  <2>. QED BY <1>19, <2>1, <2>2, EndsOK DEF TypeOK, Undo
<1>20. CASE Abort
  BY <1>20, EndsOK, SwapBounds DEF TypeOK, Abort, Event
<1>21. CASE PowerCycle
  BY <1>21, EndsOK, BootOK, SwapBounds DEF TypeOK, PowerCycle, Event, Canonical
<1>22. CASE OutsideSwapon
  BY <1>22, SwapBounds DEF TypeOK, OutsideSwapon, Event, Devices, Files
<1>23. CASE Reuse
  <2>1. faults' \in 0..MaxFaults
    BY <1>23, SwapBounds DEF TypeOK, Reuse, Event
  <2>2. disk' \in [Files -> {Absent, Junk} \cup Sizes]
    BY <1>23 DEF TypeOK, Reuse
  <2>. QED BY <1>23, <2>1, <2>2 DEF TypeOK, Reuse
<1>24. CASE UpdateRestores
  BY <1>24, SwapBounds DEF TypeOK, UpdateRestores, Event
<1>25. CASE UNCHANGED vars
  BY <1>25 DEF TypeOK, vars
<1>. QED
  BY <1>1, <1>2, <1>3, <1>4, <1>5, <1>6, <1>7, <1>8, <1>9, <1>10, <1>11, <1>12, <1>13,
     <1>14, <1>15, <1>16, <1>17, <1>18, <1>19, <1>20, <1>21, <1>22, <1>23, <1>24, <1>25
     DEF Next, Installer, World

(* Type correctness (TypeOK), whatever the environment does.                *)
THEOREM TypeCorrect == Spec => []TypeOK
  BY TypeInit, TypeStep, PTL DEF Spec

-----------------------------------------------------------------------------
(* The inductive invariant of the migration.  Safety speaks of /proc/swaps *)
(* and the disk at one moment; what keeps it is what the process remembers *)
(* from earlier steps: the inventory, the loops' rests, the file it made.  *)

Working == {"drain", "backup", "fstab", "zramconf", "mask", "retire", "start", "verify",
            "delete", "unlink"}

(* Before the drain: nothing was swapped off since the inventory, and a    *)
(* file this run made is used by nobody yet.                               *)
MadeUnused ==
  /\ pc \in {"prepare", "create", "swapon"} => snap \subseteq active
  /\ pc = "create" => created
  /\ pc \in {"create", "swapon"} /\ created => target \notin active \cup fstab \cup snap
  /\ pc = "swapon" => disk[target] \in Sizes

(* Afterwards: no loop still has the target to deal with.                  *)
LoopsSpareTarget ==
  /\ pc \in Working => target \in active
  /\ pc \in {"backup", "fstab", "zramconf"} => todo = {}
  /\ pc \in {"drain", "mask", "retire", "delete", "unlink"} => target \notin todo
  /\ pc \in {"mask", "retire"} => \A u \in todo \cap Files : shown[u] # target
  /\ pc \in {"delete", "unlink"} => todo \subseteq Files
  /\ pc = "unlink" => victim \in Files \ {target} /\ victim \notin active \cap Managed

(* The managed entry of fstab: seen by the inventory, then replaced.       *)
FstabFollows ==
  /\ pc \in {"prepare", "create", "swapon", "drain", "backup", "fstab"}
       => fstab \cap Managed \subseteq files
  /\ pc \in {"zramconf", "mask", "retire", "start", "verify", "delete", "unlink"}
       => fstab \cap Managed = {target}
  /\ fstabBak = {} => fstab \cap Managed = {}
  /\ pc = "fstab" => fstabBak # {}

(* Nobody else swaps to a managed file or takes its path.                  *)
ManagedOnDisk == \A m \in active \cap Managed : disk[m] \in Sizes

IInv == TypeOK /\ ManagedOnDisk /\ FstabNamesRealSwap
          /\ MadeUnused /\ LoopsSpareTarget /\ FstabFollows

(* prepare() makes a file only under a name that nothing uses.             *)
LEMMA PrepareKeeps ==
  ASSUME IInv, TypeOK', Prepare
  PROVE  IInv'
<1>. USE DEF conf, locals
<1>1. ManagedName \in Files /\ target' = ManagedName
  BY NameOK DEF Prepare, Files, IInv
<1>2. UNCHANGED <<active, fstab, fstabBak, shown, snap, files, todo>> /\ pc = "prepare"
  BY DEF Prepare
<1>3. CASE disk[ManagedName] = Absent
  <2>1. created' = TRUE
    BY <1>3, Zenon DEF Prepare
  <2>2. pc' = "create" /\ disk' = [disk EXCEPT ![ManagedName] = Junk]
    BY <1>3, <2>1, Apart DEF Prepare, Reusable, IInv, TypeOK
  <2>3. ManagedName \notin active \cup fstab \cup snap
    BY <1>1, <1>2, <1>3, NameOK, Apart
       DEF IInv, ManagedOnDisk, FstabNamesRealSwap, MadeUnused
  <2>4. ManagedOnDisk' /\ FstabNamesRealSwap'
    BY <1>1, <1>2, <2>2, <2>3 DEF IInv, TypeOK, ManagedOnDisk, FstabNamesRealSwap, Files
  <2>5. MadeUnused' /\ LoopsSpareTarget' /\ FstabFollows'
    BY <1>1, <1>2, <2>1, <2>2, <2>3
       DEF IInv, MadeUnused, LoopsSpareTarget, FstabFollows, Working
  <2>. QED BY <2>4, <2>5 DEF IInv
<1>4. CASE disk[ManagedName] # Absent
  <2>1. created' = FALSE
    BY <1>4, Zenon DEF Prepare
  <2>2. /\ disk' = disk /\ pc' \in {"swapon", "failed"}
        /\ pc' = "swapon" => disk[ManagedName] \in Sizes
    BY <2>1 DEF Prepare, Reusable, IInv, TypeOK
  <2>3. ManagedOnDisk' /\ FstabNamesRealSwap'
    BY <1>2, <2>2 DEF IInv, ManagedOnDisk, FstabNamesRealSwap
  <2>4. MadeUnused' /\ LoopsSpareTarget' /\ FstabFollows'
    BY <1>1, <1>2, <2>1, <2>2 DEF IInv, MadeUnused, LoopsSpareTarget, FstabFollows, Working
  <2>. QED BY <2>3, <2>4 DEF IInv
<1>. QED BY <1>3, <1>4

(* One step keeps the invariant, whatever happens outside.                 *)
LEMMA StepKeeps ==
  ASSUME IInv, TypeOK', [Next]_vars
  PROVE  IInv'
<1>. USE DEF host, conf, locals
<1>. USE DEF IInv, TypeOK, ManagedOnDisk, FstabNamesRealSwap, MadeUnused, LoopsSpareTarget,
             FstabFollows, Working
<1>1. CASE Start
  BY <1>1, Apart DEF Start, Ends
<1>2. CASE Scan
  BY <1>2, Apart DEF Scan, Ends, Candidates, Swapfile, Refused
<1>3. CASE Prepare
  BY <1>3, PrepareKeeps
<1>4. CASE Create
  BY <1>4, Apart DEF Create
<1>5. CASE Swapon
  BY <1>5, Apart DEF Swapon, SwapsOn, Drains
<1>6. CASE Drain
  BY <1>6, Apart DEF Drain, AfterSwapoff
<1>7. CASE BackupFstab
  BY <1>7, Apart DEF BackupFstab, Backup
<1>8. CASE WriteFstab
  <2>1. fstab' \cap Managed = {target}
    BY <1>8, Apart DEF WriteFstab, NewFstab
  <2>2. disk[target] \in Sizes
    BY <1>8 DEF WriteFstab, Files
  <2>3. FstabNamesRealSwap'
    BY <1>8, <2>1, <2>2 DEF WriteFstab
  <2>. QED BY <1>8, <2>1, <2>3 DEF WriteFstab
<1>9. CASE WriteZramPolicy
  BY <1>9, Apart DEF WriteZramPolicy
<1>10. CASE Mask
  BY <1>10, Apart DEF Mask, Retired
<1>11. CASE RefuseMask
  BY <1>11, Apart DEF RefuseMask, Ends
<1>12. CASE Retire
  BY <1>12, Apart DEF Retire
<1>13. CASE Unmask
  BY <1>13, Apart DEF Unmask, Unmasked
<1>14. CASE StartUnit
  BY <1>14, Apart DEF StartUnit
<1>15. CASE Verify
  BY <1>15, Apart DEF Verify, Ends
<1>16. CASE CheckOld
  BY <1>16, Apart DEF CheckOld, Ends, Reactivated
<1>17. CASE Unlink
  BY <1>17, Apart DEF Unlink
<1>18. CASE Finish
  BY <1>18, Apart DEF Finish
<1>19. CASE Undo
  BY <1>19, Apart DEF Undo, Ends
<1>20. CASE Abort
  BY <1>20, Apart DEF Abort, Ends
<1>21. CASE PowerCycle
  BY <1>21, Apart DEF PowerCycle, Ends, BootSwaps, Usable
<1>22. CASE OutsideSwapon
  BY <1>22, Apart DEF OutsideSwapon
<1>23. CASE Reuse
  BY <1>23, Apart DEF Reuse
<1>24. CASE UpdateRestores
  BY <1>24, Apart DEF UpdateRestores
<1>25. CASE UNCHANGED vars
  BY <1>25 DEF vars
<1>. QED
  BY <1>1, <1>2, <1>3, <1>4, <1>5, <1>6, <1>7, <1>8, <1>9, <1>10, <1>11, <1>12, <1>13,
     <1>14, <1>15, <1>16, <1>17, <1>18, <1>19, <1>20, <1>21, <1>22, <1>23, <1>24, <1>25
     DEF Next, Installer, World

LEMMA InitOK == Init => IInv
<1>. SUFFICES ASSUME Init PROVE IInv
  OBVIOUS
<1>1. TypeOK
  BY TypeInit
<1>2. fstab \cap Managed = {}
  BY Apart DEF Init
<1>3. ManagedOnDisk
  BY Apart DEF Init, ManagedOnDisk, BootSwaps, Usable, Files
<1>. QED
  BY <1>1, <1>2, <1>3
     DEF Init, IInv, FstabNamesRealSwap, MadeUnused, LoopsSpareTarget, FstabFollows, Working

THEOREM Invariance == Spec => []IInv
<1>1. IInv /\ [Next]_vars => IInv'
  BY StepKeeps, TypeStep DEF IInv
<1>. QED
  BY InitOK, <1>1, PTL DEF Spec

(* The replacement stays active from the first swapoff to the last unlink. *)
THEOREM ReplacementStays == Spec => []ReplacementFirst
<1>1. IInv => ReplacementFirst
  BY DEF IInv, LoopsSpareTarget, Working, ReplacementFirst
<1>. QED
  BY Invariance, <1>1, PTL

(* fstab's managed entry is single and names a real swapfile.              *)
THEOREM FstabStaysReal == Spec => []FstabNamesRealSwap
<1>1. IInv => FstabNamesRealSwap
  BY DEF IInv
<1>. QED
  BY Invariance, <1>1, PTL

(* Only a reboot may take a machine from some swap to none.                *)
THEOREM SwapNeverLost == Spec => NeverWithoutSwap
<1>1. IInv /\ [Next]_vars => [active # {} /\ active' = {} => PowerCycle]_vars
  <2>. SUFFICES ASSUME IInv, Next, active # {}, active' = {} PROVE PowerCycle
    BY DEF vars
  <2>. USE DEF IInv, TypeOK, LoopsSpareTarget, Working, host, conf, locals
  <2>1. ~Swapon
    BY DEF Swapon, SwapsOn
  <2>2. ~Drain
    BY DEF Drain, AfterSwapoff
  <2>3. ~Retire
    BY Apart DEF Retire
  <2>4. ~StartUnit /\ ~OutsideSwapon
    BY DEF StartUnit, OutsideSwapon
  <2>. QED
    BY <2>1, <2>2, <2>3, <2>4
       DEF Next, Installer, World, Start, Scan, Prepare, Create, BackupFstab, WriteFstab,
           WriteZramPolicy, Mask, RefuseMask, Unmask, Verify, CheckOld, Unlink, Finish, Undo,
           Abort, Reuse, UpdateRestores
<1>. QED
  BY Invariance, <1>1, PTL DEF Spec, NeverWithoutSwap

(* The first backup of fstab is the original, and every change after it    *)
(* leaves something to put back.                                           *)
THEOREM BackupsStay == Spec => OriginalsBackedUp
<1>. DEFINE Step == /\ fstab' # fstab => fstabBak' # {}
                    /\ fstabBak # {} => fstabBak' = fstabBak
                    /\ fstabBak' # fstabBak => fstabBak' = {fstab} /\ fstab \cap Managed = {}
                    /\ \A m \in MaskPoints :
                         etc[m] = "local" /\ etc'[m] # "local" => m \in saved' \ saved
<1>1. IInv /\ [Next]_vars => [Step]_vars
  <2>. SUFFICES ASSUME IInv, Next PROVE Step
    BY DEF vars
  <2>. USE DEF IInv, TypeOK, FstabFollows, host, conf, locals
  <2>1. CASE BackupFstab
    BY <2>1 DEF BackupFstab, Backup
  <2>2. CASE WriteFstab
    BY <2>2 DEF WriteFstab
  <2>3. CASE Mask
    BY <2>3 DEF Mask
  <2>4. CASE Unmask
    BY <2>4 DEF Unmask, Unmasked
  <2>5. CASE UpdateRestores
    BY <2>5 DEF UpdateRestores
  <2>6. CASE Retire
    BY <2>6 DEF Retire
  <2>. QED
    BY <2>1, <2>2, <2>3, <2>4, <2>5, <2>6
       DEF Next, Installer, World, Start, Scan, Prepare, Create, Swapon, Drain,
           WriteZramPolicy, RefuseMask, StartUnit, Verify, CheckOld, Unlink, Finish,
           Undo, Abort, PowerCycle, OutsideSwapon, Reuse
<1>. QED
  BY Invariance, <1>1, PTL DEF Spec, OriginalsBackedUp

-----------------------------------------------------------------------------
(* Old files.                                                              *)

(* What is about to be deleted is not swapped to, as long as nobody swaps  *)
(* it on between the check and the unlink.                                 *)
VictimUnused == pc = "unlink" => victim \notin active

AInv == IInv /\ ActiveOnDisk /\ VictimUnused

LEMMA OldFilesKeep ==
  ASSUME "late" \notin Environment, AInv, [Next]_vars
  PROVE  ActiveOnDisk' /\ VictimUnused'
<1>. USE DEF host, conf, locals
<1>. USE DEF AInv, IInv, TypeOK, ActiveOnDisk, VictimUnused
<1>1. CASE Start \/ Scan \/ RefuseMask \/ Verify \/ Abort
  BY <1>1 DEF Start, Scan, RefuseMask, Verify, Abort, Ends
<1>2. CASE Prepare
  <2>1. pc' # "unlink" /\ active' = active
    BY <1>2 DEF Prepare
  <2>2. CASE disk[ManagedName] = Absent
    <3>1. disk' = [disk EXCEPT ![ManagedName] = Junk]
      BY <1>2, <2>2 DEF Prepare
    <3>2. ManagedName \in Managed /\ ManagedName \notin active
      BY <2>2, NameOK, Apart DEF Files
    <3>. QED BY <2>1, <3>1, <3>2
  <2>3. CASE disk[ManagedName] # Absent
    <3>1. disk' = disk
      BY <1>2, <2>3 DEF Prepare
    <3>. QED BY <2>1, <3>1
  <2>. QED BY <2>2, <2>3
<1>14. CASE Undo
  <2>1. pc' # "unlink" /\ active' = active
    BY <1>14 DEF Undo, Ends
  <2>2. disk' = disk \/ (disk' = [disk EXCEPT ![target] = Absent] /\ target \notin active)
    BY <1>14 DEF Undo, MadeUnused
  <2>. QED BY <2>1, <2>2
<1>3. CASE Create
  BY <1>3, Apart DEF Create
<1>4. CASE Swapon
  BY <1>4, Apart DEF Swapon, SwapsOn, MadeUnused
<1>5. CASE Drain \/ Retire
  BY <1>5 DEF Drain, AfterSwapoff, Retire
<1>6. CASE BackupFstab \/ WriteFstab \/ WriteZramPolicy \/ Mask \/ Unmask \/ Finish
  BY <1>6 DEF BackupFstab, Backup, WriteFstab, WriteZramPolicy, Mask, Unmask, Unmasked, Finish
<1>7. CASE StartUnit
  BY <1>7 DEF StartUnit, LoopsSpareTarget, Working
<1>8. CASE CheckOld
  BY <1>8 DEF CheckOld, Ends, Reactivated
<1>9. CASE Unlink
  BY <1>9 DEF Unlink
<1>10. CASE PowerCycle
  BY <1>10, Apart DEF PowerCycle, Ends, BootSwaps, Usable
<1>11. CASE OutsideSwapon
  BY <1>11, Apart DEF OutsideSwapon
<1>12. CASE Reuse
  BY <1>12 DEF Reuse
<1>13. CASE UpdateRestores \/ UNCHANGED vars
  BY <1>13 DEF UpdateRestores, vars
<1>. QED
  BY <1>1, <1>2, <1>3, <1>4, <1>5, <1>6, <1>7, <1>8, <1>9, <1>10, <1>11, <1>12, <1>13, <1>14
     DEF Next, Installer, World

LEMMA AInvariance == ASSUME "late" \notin Environment PROVE Spec => []AInv
<1>1. Init => ActiveOnDisk /\ VictimUnused
  BY Apart DEF Init, ActiveOnDisk, VictimUnused, BootSwaps, Usable, Files
<1>2. AInv /\ [Next]_vars => ActiveOnDisk' /\ VictimUnused'
  BY OldFilesKeep
<1>. QED BY Invariance, <1>1, <1>2, PTL DEF Spec, AInv

(* The kernel never swaps to a file without its swap area, provided nobody *)
(* swaps on an old file between the check and the unlink of that very file *)
(* or overwrites one during a run ("late").                                *)
THEOREM ActiveStaysOnDisk ==
  ASSUME "late" \notin Environment PROVE Spec => []ActiveOnDisk
<1>1. AInv => ActiveOnDisk
  BY DEF AInv
<1>. QED
  BY AInvariance, <1>1, PTL
=============================================================================

--------------------------- MODULE SwapMigration ---------------------------
(***************************************************************************)
(* packaging/configure-gaming-swap: the migration of a running machine     *)
(* from its old swap (legacy swapfiles, zram) to one managed swapfile      *)
(* under /home/.gaming-swap, with the power cuts, killed processes, failing *)
(* commands and outside activity it can meet between any two of its steps. *)
(*                                                                         *)
(* The installer is one process (flock in main()), so the actors are the   *)
(* installer, the kernel and systemd (which the commands drive), and the   *)
(* outside world.  Its control is kept as it is in install(), prepare()    *)
(* and persist(); names, sizes and unit files are abstract values.         *)
(***************************************************************************)
EXTENDS Naturals, FiniteSets

CONSTANTS
  Legacy,      \* swapfiles outside the managed directory
  Known,       \* the members of KNOWN_FILES among them
  Scanned,     \* those orphan_swapfiles() would find by place and name
  Base,        \* /home/.gaming-swap/swapfile
  Sizes,       \* 150% of RAM for each RAM the machine may have; the managed
               \* file "swapfile-<size>" is named by its size
  Zram,        \* zram devices; each also names the unit that sets it up
  Parts,       \* swap partitions
  Tmpfiles,    \* /etc/tmpfiles.d/zswap-disable.conf
  Absent,      \* no such file
  Junk,        \* a file without a swap signature, or one that is refused
               \* (symbolic link, hard link)
  Environment, \* which outside events happen: a subset of Events
  MaxFaults    \* bound on the number of outside events

Managed    == {Base} \cup Sizes
Files      == Legacy \cup Managed
Devices    == Files \cup Zram \cup Parts
MaskPoints == Files \cup Zram \cup {Tmpfiles}

(* The events a configuration may allow:                                   *)
(*   kill, fail   the process dies; a command it runs fails                *)
(*   power, ram   a reboot or power cut; one that finds another RAM size   *)
(*   outside      a legacy swapfile is swapped on by hand                  *)
(*   reuse        a path that held a legacy swapfile becomes user data     *)
(*   late         outside and reuse also hit between a check and its use   *)
(*   update       an image update puts replaced configuration back         *)
(*   stale,masked leftovers of an earlier run (see Init)                   *)
Events == {"kill", "fail", "power", "ram", "outside", "late", "reuse",
           "update", "stale", "masked"}

ASSUME SwapNames ==
  /\ Known \subseteq Legacy /\ Scanned \subseteq Legacy
  /\ Base \notin Sizes \cup Legacy \cup Zram \cup Parts \cup {Tmpfiles}
  /\ Legacy \cap (Sizes \cup Zram \cup Parts \cup {Tmpfiles}) = {}
  /\ Sizes \cap (Zram \cup Parts \cup {Tmpfiles, Absent, Junk}) = {}
  /\ Zram \cap (Parts \cup {Tmpfiles}) = {}
  /\ Absent # Junk
ASSUME SwapBounds ==
  Environment \subseteq Events /\ Sizes # {} /\ MaxFaults \in Nat

VARIABLES
  disk,      \* what each swapfile path holds: Absent, Junk or a size
  active,    \* /proc/swaps
  fstab,     \* swap entries of /etc/fstab
  fstabBak,  \* /etc/fstab.gaming-swap.bak: {} until written, then {entries}
  enabled,   \* .swap units enabled without an fstab line
  etc,       \* what /etc holds at each mask point: "absent", "local", "null"
  saved,     \* mask points that have a .gaming-swap.bak
  zramOff,   \* no zram is set up at boot (distribution or our policy)
  ram,       \* the swap size the installed RAM asks for
  shown,     \* the What= systemctl shows for the unit of each file
  pc,        \* where the installer is
  target, created, snap, units, files,  \* locals of install()
  todo,      \* what is left of the loop being run
  victim,    \* the element of the loop being handled
  faults     \* outside events so far

host   == <<disk, active>>
conf   == <<fstab, fstabBak, enabled, etc, saved, zramOff>>
locals == <<target, created, snap, units, files>>
vars   == <<host, conf, ram, shown, pc, locals, todo, victim, faults>>

-----------------------------------------------------------------------------
(* The machine: what a boot brings up, what systemctl lists.               *)

Usable(d) == d \in Files => disk[d] \in Sizes

BootSwaps ==
  {d \in fstab \cup enabled : Usable(d) /\ (d \in Files => etc[d] # "null")}
    \cup {z \in Zram : ~zramOff /\ etc[z] # "null"}

Listed == ((fstab \cup active) \cap Files) \cup enabled
            \cup {f \in Files : etc[f] # "absent"}

Resting == {"idle", "failed", "done"}
Running == {"scan", "prepare", "create", "swapon", "drain", "backup", "fstab", "zramconf",
            "mask", "retire", "start", "verify", "delete", "unlink"}

Canonical == [f \in Files |-> f]

(* RAM as it was before the first installation: no managed file, a boot    *)
(* that brings up the configured swap, and possibly more swapped on by     *)
(* hand.  A unit of the managed file may be left masked ("masked") or show *)
(* a stale What= ("stale"), as tests/test_gaming_swap.py sets up.          *)
Init ==
  /\ ram \in Sizes
  /\ disk \in {d \in [Files -> {Absent, Junk, ram}] :
                 \A m \in Managed : d[m] = Absent}
  /\ fstab \in SUBSET (Legacy \cup Parts)
  /\ enabled \in SUBSET (Legacy \ fstab)
  /\ zramOff \in BOOLEAN
  /\ etc \in {e \in [MaskPoints -> {"absent", "local", "null"}] :
                /\ \A m \in MaskPoints : e[m] = "null" => m = Base /\ "masked" \in Environment
                /\ \A m \in Zram \cup {Tmpfiles} : e[m] = IF zramOff THEN "absent" ELSE "local"
                /\ \A f \in Files : e[f] = "local" <=> f \in enabled}
  /\ \E extra \in SUBSET {f \in Legacy : disk[f] = ram} :
       active = BootSwaps \cup extra
  /\ shown \in {Canonical} \cup
       {[Canonical EXCEPT ![Base] = f] : f \in IF "stale" \in Environment THEN Legacy ELSE {}}
  /\ fstabBak = {} /\ saved = {} /\ faults = 0
  /\ pc = "idle" /\ target = Base /\ created = FALSE
  /\ snap = {} /\ units = {} /\ files = {} /\ todo = {} /\ victim = Tmpfiles

-----------------------------------------------------------------------------
(* install(): inventory, then the replacement, then the drain.             *)

(* The process is gone: its memory with it.                                *)
Ends(where) ==
  /\ pc' = where
  /\ target' = Base /\ created' = FALSE
  /\ snap' = {} /\ units' = {} /\ files' = {} /\ todo' = {} /\ victim' = Tmpfiles

(* main() and the head of install(): read RAM, take the lock, begin.       *)
Start ==
  /\ pc \in Resting
  /\ Ends("scan")
  /\ UNCHANGED <<host, conf, ram, shown, faults>>

Candidates ==
  (active \cap Files) \cup (fstab \cap Files)
    \cup {f \in Known : disk[f] # Absent}
    \cup {f \in Scanned : disk[f] \in Sizes}
    \cup {f \in {shown[u] : u \in Listed} : disk[f] # Absent}
    \cup {m \in Managed : disk[m] # Absent}

(* Slip: blkid is not asked, the name is enough.                           *)
SwapfileByName(f) == disk[f] # Absent

(* swapfile(): a regular file on which blkid finds a swap signature.       *)
Swapfile(f) == disk[f] \in Sizes

Refused == {f \in Candidates : disk[f] # Absent /\ ~Swapfile(f)}

(* active(), units() and old_files(): nothing is changed; a candidate that *)
(* exists but is not a swapfile makes the run refuse.                      *)
Scan ==
  /\ pc = "scan"
  /\ \/ /\ Refused # {} /\ Ends("failed")
     \/ /\ Refused = {} /\ pc' = "prepare"
        /\ snap' = active
        /\ units' = Listed
        /\ files' = {f \in Candidates : Swapfile(f)}
        /\ UNCHANGED <<target, created, todo, victim>>
  /\ UNCHANGED <<host, conf, ram, shown, faults>>

ManagedName == IF disk[Base] \notin {Absent, ram} THEN ram ELSE Base

(* Slip: a managed file that is in use is not taken over.                  *)
ReusableWhenIdle == disk[ManagedName] = ram /\ ManagedName \notin active

Reusable == disk[ManagedName] = ram

(* prepare(): a valid file of the wanted size is reused, another one under *)
(* that name is refused, and a missing one is created: until mkswap has    *)
(* run, the path holds a file without a signature.                         *)
Prepare ==
  /\ pc = "prepare"
  /\ target' = ManagedName
  /\ created' = (disk[ManagedName] = Absent)
  /\ pc' = CASE created' -> "create"
             [] Reusable -> "swapon"
             [] OTHER -> "failed"
  /\ disk' = IF created' THEN [disk EXCEPT ![ManagedName] = Junk] ELSE disk
  /\ UNCHANGED <<active, conf, ram, shown, snap, units, files, todo, victim, faults>>

Create ==
  /\ pc = "create"
  /\ pc' = "swapon"
  /\ disk' = [disk EXCEPT ![target] = ram]
  /\ UNCHANGED <<active, conf, ram, shown, locals, todo, victim, faults>>

(* The except clauses of prepare() and of the swapon: a file this run made *)
(* is removed before the error is reported.                                *)
Undo ==
  /\ pc = "create" \/ (pc = "swapon" /\ target \notin snap)
  /\ "fail" \in Environment /\ faults < MaxFaults
  /\ disk' = IF created THEN [disk EXCEPT ![target] = Absent] ELSE disk
  /\ faults' = faults + 1
  /\ Ends("failed")
  /\ UNCHANGED <<active, conf, ram, shown>>

(* Slips: only a file made by this run is swapped on; partitions are       *)
(* drained too; a swapoff that fails is passed over.                       *)
SwapsOnWhenCreated == created
DrainsAll == Devices
AfterSwapoffUnchecked(n) == {active, active \ {n}}

SwapsOn == target \notin snap
Drains == Files \cup Zram
AfterSwapoff(n) == {active \ {n}}

(* swapon, skipped when the inventory (not /proc/swaps now) has the target; *)
(* then the drain loop reads /proc/swaps afresh.                           *)
Swapon ==
  /\ pc = "swapon"
  /\ pc' = "drain"
  /\ active' = IF SwapsOn THEN active \cup {target} ELSE active
  /\ todo' = (active' \cap Drains) \ {target}
  /\ UNCHANGED <<disk, conf, ram, shown, locals, victim, faults>>

Drain ==
  /\ pc = "drain"
  /\ \/ \E n \in todo :
          /\ active' \in AfterSwapoff(n) /\ todo' = todo \ {n} /\ pc' = pc
     \/ todo = {} /\ pc' = "backup" /\ UNCHANGED <<active, todo>>
  /\ UNCHANGED <<disk, conf, ram, shown, locals, victim, faults>>

-----------------------------------------------------------------------------
(* persist(): the configuration of the next boot, one durable write at a   *)
(* time (write() replaces a file atomically and syncs it).                 *)

(* Slips: a backup by every run; entries of other managed files stay; the  *)
(* entry is added only for a file this run made.                           *)
BackupAlways == {fstab}
FstabKeepingManaged == (fstab \ ((files \cap Legacy) \cup Zram)) \cup {target}
FstabWhenCreated == (fstab \ (files \cup Zram)) \cup (IF created THEN {target} ELSE {})

Backup == IF fstabBak = {} THEN {fstab} ELSE fstabBak

NewFstab == (fstab \ (files \cup Zram)) \cup {target}

BackupFstab ==
  /\ pc = "backup"
  /\ pc' = "fstab"
  /\ fstabBak' = Backup
  /\ UNCHANGED <<host, fstab, enabled, etc, saved, zramOff, ram, shown, locals, todo, victim, faults>>

WriteFstab ==
  /\ pc = "fstab"
  /\ pc' = "zramconf"
  /\ fstab' = NewFstab
  /\ UNCHANGED <<host, fstabBak, enabled, etc, saved, zramOff, ram, shown, locals, todo, victim, faults>>

(* modprobe.d, the zram generator (two files) and zramswap: four writes    *)
(* taken as one, since any of them only keeps zram down.                   *)
WriteZramPolicy ==
  /\ pc = "zramconf"
  /\ pc' = "mask"
  /\ zramOff' = TRUE
  /\ UNCHANGED <<host, fstab, fstabBak, enabled, etc, saved, ram, shown, locals, todo, victim, faults>>

(* Slip: the unit of the target is retired when its What= is stale.        *)
RetiredByWhat == Zram \cup {u \in units \cap Files : shown[u] \in files \ {target}}

(* ZRAM_UNITS and every zram unit; the units whose What= is an old file;   *)
(* never the unit of the target, whatever systemctl shows for it.          *)
Retired == (Zram \cup {u \in units \cap Files : shown[u] \in files \ {target}}) \ {target}

(* One mask: a local file is first moved aside, then nothing (or already   *)
(* the link) is there and the link is made.  The tmpfiles rule is masked    *)
(* first, then every retired unit.                                         *)
Mask ==
  /\ pc = "mask"
  /\ \/ /\ etc[victim] = "local" /\ victim \notin saved
        /\ etc' = [etc EXCEPT ![victim] = "absent"]
        /\ saved' = saved \cup {victim}
        /\ UNCHANGED <<pc, todo>>
     \/ /\ etc[victim] # "local"
        /\ etc' = [etc EXCEPT ![victim] = "null"]
        /\ pc' = "retire"
        /\ todo' = IF victim = Tmpfiles THEN Retired ELSE todo
        /\ UNCHANGED saved
  /\ UNCHANGED <<host, fstab, fstabBak, enabled, zramOff, ram, shown, locals, victim, faults>>

(* "Cannot replace ...: backup already exists".                            *)
Collision == pc = "mask" /\ etc[victim] = "local" /\ victim \in saved

RefuseMask == Collision /\ Ends("failed") /\ UNCHANGED <<host, conf, ram, shown, faults>>

(* The loop over disabled units: stop (which may swap off what the unit    *)
(* stands for) and disable, both with check=False, then the mask.          *)
Retire ==
  /\ pc = "retire"
  /\ \E u \in todo : \E off \in SUBSET (IF u \in Files THEN {u, shown[u]} ELSE {u}) :
       /\ active' = active \ off
       /\ enabled' = enabled \ {u}
       /\ victim' = u /\ todo' = todo \ {u}
  /\ pc' = "mask"
  /\ UNCHANGED <<disk, fstab, fstabBak, etc, saved, zramOff, ram, shown, locals, faults>>

(* Slip: only the mask under /run is cleared.                              *)
UnmaskedRuntime == etc[target]

Unmasked == IF etc[target] = "null" THEN "absent" ELSE etc[target]

(* unmask (both kinds), daemon-reload, start: starting an active unit      *)
(* changes nothing, a masked one cannot be started.                        *)
Unmask ==
  /\ pc = "retire" /\ todo = {}
  /\ pc' = "start"
  /\ etc' = [etc EXCEPT ![target] = Unmasked]
  /\ victim' = Tmpfiles
  /\ UNCHANGED <<host, fstab, fstabBak, enabled, saved, zramOff, ram, shown, locals, todo, faults>>

StartUnit ==
  /\ pc = "start"
  /\ pc' = "verify"
  /\ shown' = Canonical
  /\ active' = IF Usable(target) /\ etc[target] # "null" THEN active \cup {target} ELSE active
  /\ UNCHANGED <<disk, conf, ram, locals, todo, victim, faults>>

-----------------------------------------------------------------------------
(* Back in install(): the target must be active, then the old files go.    *)

Verify ==
  /\ pc = "verify"
  /\ IF target \in active
     THEN /\ pc' = "delete" /\ todo' = files \ {target}
          /\ UNCHANGED <<locals, victim>>
     ELSE Ends("failed")
  /\ UNCHANGED <<host, conf, ram, shown, faults>>

(* Slip: only the target is looked for in /proc/swaps.                     *)
ReactivatedNever(f) == f = target

Reactivated(f) == f \in active

(* The check of one old file against /proc/swaps; its unlink is the next   *)
(* step, not the same one.                                                 *)
CheckOld ==
  /\ pc = "delete"
  /\ \E f \in todo :
       IF Reactivated(f)
       THEN Ends("failed")
       ELSE /\ pc' = "unlink" /\ victim' = f /\ todo' = todo \ {f}
            /\ UNCHANGED locals
  /\ UNCHANGED <<host, conf, ram, shown, faults>>

Unlink ==
  /\ pc = "unlink"
  /\ pc' = "delete"
  /\ disk' = [disk EXCEPT ![victim] = Absent]
  /\ victim' = Tmpfiles
  /\ UNCHANGED <<active, conf, ram, shown, locals, todo, faults>>

(* runtime() (its errors are only printed) and the bootloader update.      *)
Finish ==
  /\ pc = "delete" /\ todo = {}
  /\ pc' = "done"
  /\ UNCHANGED <<host, conf, ram, shown, locals, todo, victim, faults>>

-----------------------------------------------------------------------------
(* The outside world, between any two steps.                               *)

Event(name) == name \in Environment /\ faults < MaxFaults /\ faults' = faults + 1

(* The process is killed, or a command fails where nothing is cleaned up.  *)
Abort ==
  /\ pc \in Running
  /\ Event("kill") \/ (Event("fail") /\ pc \notin {"create", "swapon"})
  /\ Ends("failed")
  /\ UNCHANGED <<host, conf, ram, shown>>

(* What is on disk stays; the boot brings up BootSwaps and reads the units *)
(* again.                                                                  *)
PowerCycle ==
  /\ Event("power")
  /\ active' = BootSwaps
  /\ ram' \in IF "ram" \in Environment THEN Sizes ELSE {ram}
  /\ shown' = Canonical
  /\ Ends("idle")
  /\ UNCHANGED <<disk, conf>>

OutsideSwapon ==
  /\ Event("outside")
  /\ \E f \in Legacy \ active :
       /\ disk[f] \in Sizes
       /\ pc = "unlink" /\ f = victim => "late" \in Environment
       /\ active' = active \cup {f}
  /\ UNCHANGED <<disk, conf, ram, shown, pc, locals, todo, victim>>

Reuse ==
  /\ Event("reuse")
  /\ pc \in Resting \/ "late" \in Environment
  /\ \E f \in Legacy \ active :
       /\ disk[f] \in Sizes
       /\ disk' = [disk EXCEPT ![f] = Junk]
  /\ UNCHANGED <<active, conf, ram, shown, pc, locals, todo, victim>>

UpdateRestores ==
  /\ pc \in Resting
  /\ Event("update")
  /\ \E m \in saved \cap (Zram \cup {Tmpfiles}) : etc' = [etc EXCEPT ![m] = "local"]
  /\ UNCHANGED <<host, fstab, fstabBak, enabled, saved, zramOff, ram, shown, pc, locals, todo, victim>>

-----------------------------------------------------------------------------
Installer ==
  \/ Start \/ Scan \/ Prepare \/ Create \/ Swapon \/ Drain
  \/ BackupFstab \/ WriteFstab \/ WriteZramPolicy \/ Mask \/ RefuseMask \/ Retire
  \/ Unmask \/ StartUnit \/ Verify \/ CheckOld \/ Unlink \/ Finish

World == Undo \/ Abort \/ PowerCycle \/ OutsideSwapon \/ Reuse \/ UpdateRestores

Next == Installer \/ World

Spec == Init /\ [][Next]_vars

(* A started installer keeps running and is run again after it ends: the   *)
(* postinst of every package update runs it, and SWAP.md tells the user to *)
(* run it again after an error.  Nothing is assumed of the world.          *)
FairSpec == Spec /\ WF_vars(Installer)

-----------------------------------------------------------------------------
(* What should be true of it.                                              *)

TypeOK ==
  /\ disk \in [Files -> {Absent, Junk} \cup Sizes] /\ active \subseteq Devices
  /\ fstab \subseteq Devices /\ fstabBak \subseteq SUBSET Devices /\ enabled \subseteq Files
  /\ etc \in [MaskPoints -> {"absent", "local", "null"}]
  /\ saved \subseteq MaskPoints /\ zramOff \in BOOLEAN
  /\ ram \in Sizes /\ shown \in [Files -> Files]
  /\ pc \in Resting \cup Running
  /\ target \in Managed /\ created \in BOOLEAN /\ snap \subseteq Devices
  /\ units \subseteq Files /\ files \subseteq Files
  /\ todo \subseteq Files \cup Zram /\ victim \in MaskPoints
  /\ faults \in 0..MaxFaults

(* The kernel never swaps to a file that was deleted or overwritten: the   *)
(* check against /proc/swaps and the unlink are two steps, and systemctl   *)
(* stop, the drain and a boot all change /proc/swaps in between.           *)
ActiveOnDisk == \A f \in active \cap Files : disk[f] \in Sizes

(* From the first swapoff to the last unlink the replacement is active:    *)
(* the stale What= of a unit or the inventory's old copy of /proc/swaps    *)
(* never costs it its place (SWAP.md: "O arquivo novo é ativado antes de   *)
(* drenar e remover os swapfiles anteriores").                             *)
ReplacementFirst ==
  pc \in {"drain", "backup", "fstab", "zramconf", "mask", "retire", "start", "verify",
         "delete", "unlink"} => target \in active

(* A machine that has swap is never left with none while it runs.          *)
NeverWithoutSwap == [][active # {} /\ active' = {} => PowerCycle]_vars

(* Whatever step a run stops at and however many runs there were, the next *)
(* boot's fstab names at most one managed file, and that file holds a swap *)
(* area: neither the file of another RAM size nor one that was deleted.    *)
FstabNamesRealSwap ==
  \A m \in fstab \cap Managed :
    disk[m] \in Sizes /\ fstab \cap Managed = {m}

(* No old file is removed, no unit retired and zram not switched off until *)
(* every drain succeeded (install(): "Nothing is blacklisted, masked or    *)
(* deleted until every drain succeeds"); swapon by hand aside.             *)
NothingRetiredBeforeDrain ==
  [][ \/ /\ zramOff' = zramOff /\ enabled' = enabled
         /\ \A m \in MaskPoints : etc'[m] = "null" => etc[m] = "null"
         /\ \A f \in files : disk'[f] = Absent => disk[f] = Absent
      \/ active \cap (Files \cup Zram) = {target} ]_vars

(* The user's configuration can always be put back: fstab is not touched   *)
(* before its backup exists, that backup stays the original over every     *)
(* later run, and a unit file leaves its place only for a free backup name. *)
OriginalsBackedUp ==
  [][ /\ fstab' # fstab => fstabBak' # {}
      /\ fstabBak # {} => fstabBak' = fstabBak
      /\ fstabBak' # fstabBak => fstabBak' = {fstab} /\ fstab \cap Managed = {}
      /\ \A m \in MaskPoints :
           etc[m] = "local" /\ etc'[m] # "local" => m \in saved' \ saved ]_vars

(* A run that ended well leaves one swapfile that the next boot will use,  *)
(* every old one physically gone and no zram at boot: README.md:268-271,   *)
(* INSTALL.md:70-75 and SWAP.md:26-49.  README.en.md:264-275 says the      *)
(* opposite of the same installation: ZRAM is the default swap, and zswap  *)
(* is disabled until a kernel argument switches.                           *)
DoneMeansMigrated ==
  pc = "done" =>
    /\ BootSwaps \ Parts = {target} /\ disk[target] = ram
    /\ \A f \in files \ {target} : disk[f] = Absent

(* User data at a path that held a swapfile survives every run (SWAP.md:   *)
(* "Arquivos sem assinatura de swap não são apagados").                    *)
UserDataKept == [][\A f \in Legacy : disk[f] = Junk => disk'[f] = Junk]_vars

(* Run again often enough, the migration gets done, unless a file that is  *)
(* no swapfile sits where one is expected or a backup name is taken.       *)
Convergence == []<>(pc = "done" \/ Refused # {} \/ Collision)

(* The installer keeps the promise of SwapHandover: a device exists when it *)
(* is no file or a file with a swap area, and /etc decides the next boot.  *)
Promise == INSTANCE SwapHandover WITH
  Device <- Devices, live <- active, boot <- BootSwaps,
  kept <- {d \in Devices : Usable(d)}

HandsOver == Promise!Spec

=============================================================================

---------------------------- MODULE SwapHandover ----------------------------
(***************************************************************************)
(* What a swap migration promises the machine, without saying how: swap is *)
(* handed over from the old devices to a new one while the machine runs,   *)
(* the next boot always has swap, and only what neither the kernel nor the *)
(* next boot uses is deleted.                                              *)
(***************************************************************************)
CONSTANT Device

VARIABLES
  live,  \* devices the kernel swaps to
  boot,  \* devices the next boot will swap to
  kept   \* devices that exist with a swap area

vars == <<live, boot, kept>>

Init ==
  /\ kept \subseteq Device
  /\ live \subseteq kept /\ boot \subseteq live

(* A device is made, and later swapped to.                                 *)
Make == \E d \in Device \ kept : kept' = kept \cup {d} /\ UNCHANGED <<live, boot>>

Activate == \E d \in kept \ live : live' = live \cup {d} /\ UNCHANGED <<boot, kept>>

(* Swap is taken off a device only while another one remains.              *)
Drain == \E d \in live : live \ {d} # {} /\ live' = live \ {d} /\ UNCHANGED <<boot, kept>>

(* The next boot changes, never from some swap to none.                    *)
Repoint ==
  /\ boot' \subseteq kept
  /\ boot # {} => boot' # {}
  /\ UNCHANGED <<live, kept>>

(* A device nobody uses, now or at the next boot, is deleted.              *)
Discard == \E d \in kept \ (live \cup boot) : kept' = kept \ {d} /\ UNCHANGED <<live, boot>>

Reboot == live' = boot /\ UNCHANGED <<boot, kept>>

Next == Make \/ Activate \/ Drain \/ Repoint \/ Discard \/ Reboot

Spec == Init /\ [][Next]_vars
=============================================================================

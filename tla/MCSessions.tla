----------------------------- MODULE MCSessions -----------------------------
(***************************************************************************)
(* Sessions on small sets: no name and no slot is special.                 *)
(*                                                                         *)
(* The view drops what no property will ask for again: whether a dead VM   *)
(* was known; whether one is spoilt that neither lives nor is in a record  *)
(* or a command, since it never comes back; and everything once all VMs    *)
(* have been assigned and those that last are spoilt.                      *)
(***************************************************************************)
EXTENDS Sessions, TLC

Interchangeable == Permutations(Name) \cup Permutations(Slot)

Lasting == vms \cup (VM \cap ({store[n].vm : n \in Name} \cup {S(c).vm : c \in Slot}))
Over == made = MaxVMs /\ Lasting \subseteq spoilt

Relevant ==
  IF Over THEN <<>>
  ELSE <<vms, made, known \cap vms, store, daemon, spawned, cmd, trouble, spoilt \cap Lasting>>
=============================================================================

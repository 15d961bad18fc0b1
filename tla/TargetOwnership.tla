--------------------------- MODULE TargetOwnership ---------------------------
(***************************************************************************)
(* What a transfer lease promises about one transfer target: at most one   *)
(* process owns the target, and the announcement left on disk is replaced  *)
(* by another process only when the process it names no longer runs.       *)
(*                                                                         *)
(* A process is an identity (<<pid, incarnation>> in the concrete module); *)
(* this specification knows nothing of lock files, metadata writes or      *)
(* process probes.                                                         *)
(***************************************************************************)
CONSTANTS Identity,   \* every process that ever runs
          Nobody      \* not an identity

VARIABLES
  alive,      \* the processes that run now
  owner,      \* the process that holds the target, or Nobody
  announced   \* the process the metadata on disk names, or Nobody

vars == <<alive, owner, announced>>

Init ==
  /\ alive \in SUBSET Identity
  /\ owner = Nobody
  /\ announced = Nobody

Start(x) ==
  /\ x \notin alive
  /\ alive' = alive \cup {x}
  /\ UNCHANGED <<owner, announced>>

\* The end of a process, ordinary or not, frees what it owned; its
\* announcement stays on disk.
Stop(x) ==
  /\ x \in alive
  /\ alive' = alive \ {x}
  /\ owner' = IF owner = x THEN Nobody ELSE owner
  /\ UNCHANGED announced

\* Acquisition announces the new owner over what a dead one left behind; an
\* interrupted acquisition announces itself without owning the target.
Take(x) ==
  /\ x \in alive
  /\ owner = Nobody
  /\ announced \notin alive
  /\ owner' \in {x, Nobody}
  /\ announced' = x
  /\ UNCHANGED alive

Withdraw(x) ==
  /\ owner = x
  /\ announced' = Nobody
  /\ UNCHANGED <<alive, owner>>

Drop(x) ==
  /\ owner = x
  /\ owner' = Nobody
  /\ UNCHANGED <<alive, announced>>

Next == \E x \in Identity :
          Start(x) \/ Stop(x) \/ Take(x) \/ Withdraw(x) \/ Drop(x)

Spec == Init /\ [][Next]_vars
=============================================================================

----------------------------- MODULE UpdateCheck ----------------------------
(***************************************************************************)
(* The update check of every command (auto_update.py) and `colab update    *)
(* --install` (commands/utility.py) on settings.json, beside the other     *)
(* operations of the stores (LockedStore).                                 *)
(*                                                                         *)
(* A check loads the settings, asks the source for its latest release and  *)
(* saves the settings it loaded: two operations of the store, with a call  *)
(* of up to 5 seconds in between.  A release is a number; 0 is none.       *)
(***************************************************************************)
EXTENDS LockedStore

CONSTANTS
  Current,     \* the version that is installed
  Upstream,    \* the latest release at the former upstream source
  MaxRelease   \* bound: releases of the fork

\* Settings as far as the check changes them.
ASSUME UpdateAssumption ==
  /\ Current \in Nat /\ Upstream \in Nat /\ MaxRelease \in Nat
  /\ Setting = [url : {"legacy", "fork"}, latest : 0..(MaxRelease + Upstream)]
  /\ DefaultSetting = [url |-> "fork", latest |-> 0]

VARIABLES
  check,    \* check[p]: the state of p's update check
  release   \* the latest release of the fork

vars == <<file, job, breaks, check, release>>

NoCheck == [at |-> "none", install |-> FALSE, since |-> 0, version |-> 0,
            settings |-> DefaultSetting]
Checks(p, at) == check[p].at = at
Latest(s) == IF s.url = "fork" THEN release ELSE Upstream

Init ==
  /\ StoreInit
  /\ check = [p \in Proc |-> NoCheck]
  /\ release \in 0..MaxRelease
  /\ Content("settings").value.latest <= Latest(Content("settings").value)

Publish ==
  /\ release < MaxRelease
  /\ release' = release + 1
  /\ UNCHANGED <<file, job, breaks, check>>

\* Other operations of the stores.
Operate(p) ==
  /\ Checks(p, "none")
  /\ \/ \E op \in Reads : LockShared(p, op)
     \/ \E op \in SessionWrites : LockExclusive(p, op)
     \/ StoreStep(p)
  /\ UNCHANGED <<check, release>>

Began(install) == [NoCheck EXCEPT !.install = install, !.since = release]

\* check_for_updates, from a command or from `colab update`.
CheckLoads(p) ==
  /\ Checks(p, "none") /\ At(p, "none")
  /\ \E install \in BOOLEAN :
       \/ /\ LockShared(p, [store |-> "settings", kind |-> "load"])
          /\ check' = [check EXCEPT ![p] = [Began(install) EXCEPT !.at = "load"]]
       \/ /\ file["settings"].text = "absent"
          /\ check' = [check EXCEPT ![p] = [Began(install) EXCEPT !.at = "fetch"]]
          /\ UNCHANGED storeVars
  /\ UNCHANGED release

CheckReads(p) ==
  /\ Checks(p, "load")
  /\ Read(p)
  /\ check' = [check EXCEPT ![p].at = "fetch", ![p].settings = job[p].seen.value]
  /\ UNCHANGED release

\* Mutant of Migrated: the cached version stays.
MigratedUrl(s) == [s EXCEPT !.url = "fork"]

\* The former upstream source is replaced, and what was cached from it.
Migrated(s) == IF s.url = "legacy" THEN DefaultSetting ELSE s

Larger(i, j) == IF i > j THEN i ELSE j

\* Mutant of Fetched: the cache stands in for an answer.
FetchedOrCached(s) == {Latest(s), s.latest}

\* The answer, or none.
Fetched(s) == {Latest(s), 0}

\* "Cache the highest observed version; never downgrade."
CheckFetches(p) ==
  /\ Checks(p, "fetch")
  /\ LET s == Migrated(check[p].settings) IN
       \E v \in Fetched(s) :
         check' = [check EXCEPT ![p].at = "save", ![p].version = v,
                                ![p].settings = [s EXCEPT !.latest = Larger(@, v)]]
  /\ UNCHANGED <<file, job, breaks, release>>

CheckSaves(p) ==
  /\ Checks(p, "save")
  /\ LockExclusive(p, [store |-> "settings", kind |-> "save", value |-> check[p].settings])
  /\ check' = [check EXCEPT ![p].at = "write"]
  /\ UNCHANGED release

CheckWrites(p) ==
  /\ Checks(p, "write")
  /\ \/ (Load(p) \/ Truncate(p) \/ Write(p)) /\ UNCHANGED check
     \/ Sync(p) /\ check' = [check EXCEPT ![p].at = "saved"]
  /\ UNCHANGED release

\* self_install of the version of this check, if it is newer than this one.
Installs(p) ==
  /\ Checks(p, "saved") /\ check[p].install /\ check[p].version > Current
  /\ check' = [check EXCEPT ![p].at = "installed"]
  /\ UNCHANGED <<file, job, breaks, release>>

CheckEnds(p) ==
  /\ check[p].at \in {"saved", "installed"}
  /\ check' = [check EXCEPT ![p] = NoCheck]
  /\ UNCHANGED <<file, job, breaks, release>>

\* A check whose save raises installs nothing.
Breaks(p) ==
  /\ Break(p)
  /\ check' = [check EXCEPT ![p] = NoCheck]
  /\ UNCHANGED release

Check(p) ==
  CheckLoads(p) \/ CheckReads(p) \/ CheckFetches(p) \/ CheckSaves(p) \/ CheckWrites(p)
    \/ Installs(p) \/ CheckEnds(p)

Next == Publish \/ \E p \in Proc : Operate(p) \/ Check(p) \/ Breaks(p)

Spec == Init /\ [][Next]_vars
-----------------------------------------------------------------------------
(* Properties *)

CheckAt == {"none", "load", "fetch", "save", "write", "saved", "installed"}

TypeOK ==
  /\ StoreTypeOK
  /\ check \in [Proc -> [at : CheckAt, install : BOOLEAN, since : 0..MaxRelease,
                         version : 0..(MaxRelease + Upstream), settings : Setting]]
  /\ release \in 0..MaxRelease

\* docs/04_automation_and_utility.md: "an upstream version cannot be
\* reinterpreted as a fork tag": the version cached for a source is one that
\* this source has released, whatever checks ran at the same time.
CacheIsOfItsSource == AbstractTable["settings"].value.latest <= Latest(AbstractTable["settings"].value)

\* "Installation is allowed only when the current invocation successfully
\* fetches, parses, and persists a newer fork release": what is installed has
\* been the fork's latest release since the check began, newer than the
\* installed one; a cached version never stands in.
InstallIsVerified ==
  \A p \in Proc : Checks(p, "installed") =>
    check[p].version > Current /\ check[p].version \in check[p].since..release

\* What a check carries from its load to its save.
CheckFollows ==
  \A p \in Proc :
    /\ Checks(p, "load") => At(p, "read") /\ job[p].op.kind = "load"
    /\ Checks(p, "write") =>
         Writing(p) /\ job[p].op = [store |-> "settings", kind |-> "save",
                                    value |-> check[p].settings]
    /\ ~Checks(p, "none") /\ ~Checks(p, "load") /\ ~Checks(p, "write") => At(p, "none")
    /\ Checks(p, "none") /\ ~At(p, "none") => job[p].op.kind # "save"
    /\ check[p].settings.latest <= Latest(check[p].settings)
    /\ check[p].since <= release
    /\ check[p].version = 0 \/ check[p].version \in check[p].since..release
    /\ check[p].at \in {"save", "write", "saved", "installed"} =>
         check[p].settings.url = "fork"

UpdateInv == TypeOK /\ StoreInv /\ CacheIsOfItsSource /\ InstallIsVerified /\ CheckFollows
=============================================================================

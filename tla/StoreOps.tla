------------------------------ MODULE StoreOps ------------------------------
(***************************************************************************)
(* The contents of the two stores of state.py and what each operation      *)
(* makes of them: an operation of sessions.json changes one name, a save   *)
(* of settings.json replaces all of it.                                    *)
(***************************************************************************)

CONSTANTS
  Name, Endpoint, NoEndpoint,  \* a session, its VM, no session
  Setting, DefaultSetting      \* contents of settings.json; that of Settings()

ASSUME StoreAssumption ==
  /\ NoEndpoint \notin Endpoint
  /\ DefaultSetting \in Setting

Store == {"sessions", "settings"}
Default(s) == IF s = "sessions" THEN [n \in Name |-> NoEndpoint] ELSE DefaultSetting

\* A damaged content reads as the default, or raises.
Intact(value) == [ok |-> TRUE, value |-> value]
Damaged(s) == [ok |-> FALSE, value |-> Default(s)]
Values(s) == IF s = "sessions" THEN [Name -> Endpoint \cup {NoEndpoint}] ELSE Setting
Contents(s) == [ok : BOOLEAN, value : Values(s)]

Adds == {"add", "add_strict", "claim_strict", "update_claim_strict"}
Removes == {"remove", "remove_strict", "remove_claim_strict"}
StrictKind == {"add_strict", "claim_strict", "update_claim_strict", "remove_strict",
               "remove_claim_strict", "list_strict"}

SessionWrites ==
  [store : {"sessions"}, kind : Adds \cup Removes, name : Name, endpoint : Endpoint]
Reads == [store : {"sessions"}, kind : {"list", "list_strict"}]
           \cup [store : {"settings"}, kind : {"load"}]
Saves == [store : {"settings"}, kind : {"save"}, value : Setting]
Writes == SessionWrites \cup Saves

\* An operation that raises leaves the store as it is.
Raises(op, c) ==
  \/ op.kind \in StrictKind /\ ~c.ok
  \/ /\ op.kind = "claim_strict"
     /\ c.value[op.name] # NoEndpoint \/ \E n \in Name : c.value[n] = op.endpoint
  \/ op.kind = "update_claim_strict" /\ c.value[op.name] # op.endpoint

\* Nothing to remove: the file is not written.
Keeps(op, c) ==
  \/ op.kind \in {"remove", "remove_strict"} /\ c.value[op.name] = NoEndpoint
  \/ op.kind = "remove_claim_strict" /\ c.value[op.name] # op.endpoint

\* What a write of op makes of content c.
Written(op, c) ==
  Intact(IF op.kind = "save" THEN op.value
         ELSE [c.value EXCEPT ![op.name] = IF op.kind \in Adds THEN op.endpoint
                                           ELSE NoEndpoint])
=============================================================================

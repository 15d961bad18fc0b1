----------------------------- MODULE StoreTable -----------------------------
(***************************************************************************)
(* What the stores of state.py promise: every operation takes effect at    *)
(* one moment, on all that was written before it.  When a write breaks off *)
(* the content may be gone, or damaged: then it no longer parses.          *)
(***************************************************************************)
EXTENDS StoreOps, Naturals

VARIABLES
  table,   \* table[s]: the content of store s
  breaks   \* operations broken off so far

Init ==
  /\ \E v \in Values("sessions"), w \in Setting :
       table = [s \in Store |-> Intact(IF s = "sessions" THEN v ELSE w)]
  /\ breaks = 0

\* One operation takes effect and changes something.
Takes(before, after) ==
  /\ before # after
  /\ \E op \in Writes :
       LET c == before[op.store] IN
         /\ ~Raises(op, c) /\ ~Keeps(op, c)
         /\ after = [before EXCEPT ![op.store] = Written(op, c)]

BreaksOff(before, after) ==
  \E s \in Store : \E c \in {before[s], Intact(Default(s)), Damaged(s)} :
    after = [before EXCEPT ![s] = c]

Next ==
  LET before == table
      after == table' IN
    \/ breaks' = breaks /\ Takes(before, after)
    \/ breaks' = breaks + 1 /\ BreaksOff(before, after)

TableSpec == Init /\ [][Next]_<<table, breaks>>
=============================================================================

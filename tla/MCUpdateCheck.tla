---------------------------- MODULE MCUpdateCheck ---------------------------
(* Instances of UpdateCheck for TLC. *)
EXTENDS UpdateCheck, TLC

SettingRecords == [url : {"legacy", "fork"}, latest : 0..(MaxRelease + Upstream)]
\* Processes, names and endpoints are alike.
Symmetry == Permutations(Proc) \cup Permutations(Name) \cup Permutations(Endpoint)
NoSettings == [url |-> "fork", latest |-> 0]
=============================================================================

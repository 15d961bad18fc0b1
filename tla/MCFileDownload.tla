--------------------------- MODULE MCFileDownload ---------------------------
(* Instances of FileDownload for TLC: two downloads, from two VMs, of one   *)
(* local target, and an edit on the first VM.                               *)
EXTENDS FileDownload, TLC

CONSTANTS d1, d2, e1, vm1, vm2

Contents == {<<1, 2, 3>>, <<1, 4>>}
GivenFiles == vm1 :> <<1, 2, 3>> @@ vm2 :> <<1, 4>>
Paths == d1 :> "local" @@ d2 :> "local" @@ e1 :> "temporary"
Sources == d1 :> vm1 @@ d2 :> vm2 @@ e1 :> vm1
PathsOfRuns == [p \in Proc |-> Paths[p]]
SourcesOfRuns == [p \in Proc |-> Sources[p]]
=============================================================================

---------------------------- MODULE MCFileUpload ----------------------------
(* Instances of FileUpload for TLC: contents of two chunks and one. *)
EXTENDS FileUpload, TLC

CONSTANTS a, b

ChunksOf == [v \in Version |-> CASE v = a -> 2 [] v = b -> 1]
=============================================================================

------------------------ MODULE MCObservabilityWriter ------------------------
(***************************************************************************)
(* Small instances of the observability writer.  The cfg files give the    *)
(* writers as model values; where none of them publishes they are alike.   *)
(***************************************************************************)
EXTENDS ObservabilityWriter, TLC

AlikeWriters == Permutations(Writer)
=============================================================================

--------------------------- MODULE MCStreamConsumer ---------------------------
(* The stream consumer for TLC: the cfg files bound messages, runs and faults. *)
EXTENDS StreamConsumer
=============================================================================

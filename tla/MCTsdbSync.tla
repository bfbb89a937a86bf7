----------------------------- MODULE MCTsdbSync -----------------------------
(* Instances of TsdbSync for TLC. *)
EXTENDS TsdbSync

CONSTANTS w1, w2, a, b
=============================================================================

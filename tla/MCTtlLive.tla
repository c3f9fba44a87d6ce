------------------------------- MODULE MCTtlLive ------------------------------
(* Small instances of TtlLive for TLC. *)
EXTENDS TtlLive, TLC

CONSTANTS k1, k2

TwoKeys == {k1, k2}
=============================================================================

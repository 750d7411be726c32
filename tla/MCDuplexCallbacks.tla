------------------------- MODULE MCDuplexCallbacks -------------------------
(* Instances of DuplexCallbacks for TLC.                                      *)
EXTENDS DuplexCallbacks
=============================================================================

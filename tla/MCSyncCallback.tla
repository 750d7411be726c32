--------------------------- MODULE MCSyncCallback ---------------------------
(* An instance of SyncCallback for TLC: one call of set_sub_devices_sync.     *)
EXTENDS SyncCallback, TLC

CONSTANTS c1, a1, h1

MCSub == c1 :> "sub"
=============================================================================

------------------------- MODULE MCDeviceCollection -------------------------
(* Instances of DeviceCollection for TLC.                                     *)
EXTENDS DeviceCollection

MCLists == {"headset", "speakers"}
=============================================================================

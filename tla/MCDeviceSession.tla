--------------------------- MODULE MCDeviceSession --------------------------
(* DeviceSession with short timeouts, for TLC.                                *)
EXTENDS DeviceSession, TLC
=============================================================================

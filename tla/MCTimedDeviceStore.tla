------------------------- MODULE MCTimedDeviceStore -------------------------
(* TimedDeviceStore with ticks of 15 seconds, and the values of MCDeviceStore. *)
EXTENDS TimedDeviceStore, MCDeviceStore
=============================================================================

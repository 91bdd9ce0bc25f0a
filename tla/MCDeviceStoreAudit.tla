------------------------- MODULE MCDeviceStoreAudit -------------------------
(* Small instances of DeviceStoreAudit, with the values of MCDeviceStore. *)
EXTENDS DeviceStoreAudit, MCDeviceStore
=============================================================================

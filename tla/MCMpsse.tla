------------------------------ MODULE MCMpsse ------------------------------
(* Mpsse for TLC: which errors a transfer may fail with in a run. *)
EXTENDS Mpsse

SomeFaults == {"DeviceDisconnected", "TransferTimeout", "Usb"}
============================================================================

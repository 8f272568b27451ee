--------------------------- MODULE MCAcquisition ---------------------------
(* Acquisition for TLC: the errors a transfer may fail with and the numbers *)
(* of segments of a request in a run.                                       *)
EXTENDS Acquisition

NoFaults == {}
SomeFaults == {"DeviceDisconnected", "TransferTimeout"}
OneOrTwo == {1, 2}
One == {1}
OneFault == {"Usb"}
Never == {}
Anywhere == InitLabels \cup ReadLabels \cup {"closed", "idle"}
============================================================================

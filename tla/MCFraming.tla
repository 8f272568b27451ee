----------------------------- MODULE MCFraming -----------------------------
(* Framing for TLC.  Payload takes the values a misplaced status byte could *)
(* hide behind: the expected modem status and an idle line status.          *)
EXTENDS Framing

StatusLike == {"modem", "idle"}
AnyModem == {"modem", "other"}
AnyLine == {"idle", "busy", "other"}
GoodModem == {"modem"}
GoodLine == {"idle", "busy"}
============================================================================

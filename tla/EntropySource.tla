--------------------------- MODULE EntropySource ---------------------------
(***************************************************************************)
(* What a BitBabbler handle promises its user (README, DECISIONS and the    *)
(* docs of `get_bits_with_fold`): a call returns as many bytes as it reads, *)
(* all of them read for it, or fails and returns none; a failed acquisition *)
(* is the handle's last unless it failed for want of memory.               *)
(***************************************************************************)
EXTENDS Integers

CONSTANT Own    \* a byte read for the call that returns it

VARIABLES
    handle,     \* "none", "opening", "ready", "busy" with a call, or "failed"
    due,        \* the bytes the latest call is to read
    reply,      \* those it has returned
    verdict     \* what the latest call, or opening, returned

sourceVars == <<handle, due, reply, verdict>>

Open ==
    /\ handle = "none"
    /\ handle' = "opening"
    /\ reply' = <<>>
    /\ verdict' = "none"
    /\ UNCHANGED due

Opened ==
    /\ handle = "opening"
    /\ \/ handle' = "ready" /\ verdict' = "Opened"
       \/ handle' = "none" /\ verdict' \notin {"Opened", "Ok"}
    /\ UNCHANGED <<due, reply>>

Close ==
    /\ handle \in {"ready", "failed"}
    /\ handle' = "none"
    /\ UNCHANGED <<due, reply, verdict>>

Die ==
    /\ handle # "none"
    /\ handle' = "none"
    /\ reply' = <<>>
    /\ verdict' = "none"
    /\ UNCHANGED due

(* Nothing is read: for bits that are no bytes, for want of memory, or on a  *)
(* failed handle for ever.                                                  *)
Refuse ==
    /\ \/ handle \in {"ready", "failed"} /\ verdict' = "InvalidBits"
       \/ handle = "ready" /\ verdict' = "AllocationFailed"
       \/ handle = "failed" /\ verdict' = "DeviceDisconnected"
    /\ reply' = <<>>
    /\ UNCHANGED <<handle, due>>

Ask ==
    /\ handle = "ready"
    /\ handle' = "busy"
    /\ due' \in Nat \ {0}
    /\ reply' = <<>>
    /\ verdict' = "none"

Serve ==
    /\ handle = "busy"
    /\ handle' = "ready"
    /\ reply' = [i \in 1 .. due |-> Own]
    /\ verdict' = "Ok"
    /\ UNCHANGED due

GiveUp ==
    /\ handle = "busy"
    /\ \/ handle' = "ready" /\ verdict' = "AllocationFailed"
       \/ handle' = "failed" /\ verdict' \notin {"Ok", "AllocationFailed"}
    /\ reply' = <<>>
    /\ UNCHANGED due

SourceInit == handle = "none" /\ due \in Nat /\ reply = <<>> /\ verdict = "none"

SourceNext == Open \/ Opened \/ Close \/ Die \/ Refuse \/ Ask \/ Serve \/ GiveUp

SourceSpec == SourceInit /\ [][SourceNext]_sourceVars
============================================================================

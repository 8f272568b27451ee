---------------------------- MODULE PayloadStream ----------------------------
(***************************************************************************)
(* What the bytes of one read command look like to the code above the USB  *)
(* framing (module Acquisition): the chip's payload arrives in pieces, each *)
(* byte once and in order, and the command ends with all of it or with an   *)
(* error and nothing.                                                      *)
(***************************************************************************)
EXTENDS Integers, Sequences

CONSTANTS
    Values,   \* what a byte of payload may be
    MaxLen    \* bound on the bytes of a command

VARIABLES
    payload,  \* the chip's answer to the current command
    got,      \* the bytes of it read so far
    outcome   \* "reading", "Ok" or the error that ended the command

streamVars == <<payload, got, outcome>>

Payloads == UNION {[1 .. n -> Values] : n \in 1 .. MaxLen}

Start ==
    /\ outcome \in {"none", "Ok", "Incomplete"}
    /\ payload' \in Payloads
    /\ got' = <<>>
    /\ outcome' = "reading"

Receive ==
    /\ outcome = "reading"
    /\ \E n \in Len(got) + 1 .. Len(payload) : got' = SubSeq(payload, 1, n)
    /\ UNCHANGED <<payload, outcome>>

Finish ==
    /\ outcome = "reading"
    /\ got = payload
    /\ outcome' = "Ok"
    /\ UNCHANGED <<payload, got>>

Fail ==
    /\ outcome = "reading"
    /\ outcome' \notin {"none", "reading", "Ok"}
    /\ got' = <<>>
    /\ UNCHANGED payload

StreamInit == payload = <<>> /\ got = <<>> /\ outcome = "none"

StreamNext == Start \/ Receive \/ Finish \/ Fail

StreamSpec == StreamInit /\ [][StreamNext]_streamVars
=============================================================================

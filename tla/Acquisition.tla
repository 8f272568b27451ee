---------------------------- MODULE Acquisition ----------------------------
(***************************************************************************)
(* One BitBabbler handle: `get_bits_with_fold` of src/src/device.rs over   *)
(* the raw reads of src/src/protocol.rs, with `initialize` (module Mpsse)  *)
(* run when the device is opened and again inside a read that stays        *)
(* incomplete.  The same variable pc tells the next step of either part:   *)
(*                                                                         *)
(*   closed -> [initialize] -> idle -> segment -> command -> read -> check *)
(*                                                ^           |            *)
(*                                                +-[initialize]           *)
(*                                                                         *)
(* A process may die at any step and leave the chip as it is.  Byte values *)
(* are abstracted to where a byte comes from: it is "fresh" when the latest *)
(* read command asked for it.                                              *)
(***************************************************************************)
EXTENDS Mpsse

CONSTANTS
    MaxBytes,       \* bound on the bytes of one request
    MaxRead,        \* MAX_MPSSE_READ_BYTES: bytes of one read command
    Segments,       \* segments a request may have: 2^fold, so 1, 2, 4, 8 or 16
    MaxExcess,      \* bytes the chip may send beyond those a command asks for
    BadStatus       \* the chip may send status bytes the client rejects

ASSUME AcquisitionAssumption ==
    /\ MaxBytes \in Nat \ {0}
    /\ MaxRead \in Nat \ {0}
    /\ Segments \subseteq Nat \ {0}
    /\ MaxExcess \in Nat
    /\ BadStatus \in BOOLEAN

VARIABLES
    failed,    \* BitBabbler.failed
    caller,    \* what `initialize` returns to: "open" or the read it "recover"s
    bytes,     \* n_bytes of the request
    segs,      \* its segments, `segment_count`
    seg,       \* the segment being read
    left,      \* the bytes of the segment not yet read (`remaining`)
    resets,    \* reset_attempts of the current command
    copied,    \* the `ftdi_read_payload` under way has delivered bytes
    got,       \* bytes of the current command received
    out,       \* bytes of the commands completed for this request
    result     \* what the latest call returned

call == <<failed, caller, bytes, segs, seg, left, resets, copied, got, out, result>>
vars == <<mpsseVars, call>>

ReadLabels == {"segment", "command", "read", "check"}
ReadErrors == UsbErrors \cup {"AllocationFailed", "InitializationFailed",
                              "ReadRetriesExhausted", "ProtocolViolation"}
Results == {"none", "Opened", "Ok", "InvalidBits"} \cup ReadErrors

(* The bytes the current command asks for. *)
Want == IF left < MaxRead THEN left ELSE MaxRead

TypeOK ==
    /\ MpsseTypeOK
    /\ pc \in {"closed", "idle"} \cup InitLabels \cup ReadLabels
    /\ failed \in BOOLEAN
    /\ caller \in {"open", "recover"}
    /\ bytes \in 1 .. MaxBytes
    /\ segs \in Segments
    /\ seg \in 1 .. segs
    /\ left \in 0 .. MaxBytes
    /\ resets \in 0 .. InitRetries - 1
    /\ copied \in BOOLEAN
    /\ got \in Seq(Items)
    /\ out \in Seq(Items)
    /\ result \in Results

(* A call has not returned yet. *)
Busy == pc \notin {"closed", "idle"}

----------------------------------------------------------------------------
(* Opening and closing *)

(* open_enumerated: a new session, initialized before the handle exists. *)
Open ==
    /\ pc = "closed"
    /\ StartInit
    /\ chunk' = <<>>
    /\ caller' = "open"
    /\ result' = "none"
    /\ UNCHANGED <<pipe, line, failed, bytes, segs, seg, left, resets, copied, got, out>>

OpenReturns ==
    /\ pc = "done"
    /\ caller = "open"
    /\ \/ outcome = "Ok" /\ pc' = "idle" /\ result' = "Opened"
       \/ outcome # "Ok" /\ pc' = "closed" /\ result' = outcome
    /\ failed' = FALSE
    /\ UNCHANGED <<pipe, line, chunk, attempt, pair, probe, streak, reads, outcome>>
    /\ UNCHANGED <<caller, bytes, segs, seg, left, resets, copied, got, out>>

(* Drop: mode reset and chip reset at best, nothing is drained. *)
Drop ==
    /\ pc = "idle"
    /\ pc' = "closed"
    /\ chunk' = <<>>
    /\ pipe' \in {pipe, IF ModeSwitchDiscards THEN <<>> ELSE pipe}
    /\ UNCHANGED <<line, attempt, pair, probe, streak, reads, outcome, call>>

(* The process ends anywhere, without Drop: only the chip keeps its state. *)
ProcessDies ==
    /\ pc # "closed"
    /\ pc' = "closed"
    /\ chunk' = <<>>
    /\ got' = <<>>
    /\ out' = <<>>
    /\ result' = "none"
    /\ UNCHANGED <<pipe, line, attempt, pair, probe, streak, reads, outcome>>
    /\ UNCHANGED <<failed, caller, bytes, segs, seg, left, resets, copied>>

----------------------------------------------------------------------------
(* get_bits_with_fold *)

(* A call that returns before it reads anything. *)
Rejected(r) ==
    /\ result' = r
    /\ out' = <<>>
    /\ UNCHANGED <<mpsseVars, failed, caller, bytes, segs, seg, left, resets, copied, got>>

(* Zero bits, or bits that are not whole bytes: said of a failed handle too. *)
GetBitsInvalid == pc = "idle" /\ Rejected("InvalidBits")

GetBitsOnFailed == pc = "idle" /\ failed /\ Rejected("DeviceDisconnected")

GetBitsOutOfMemory == pc = "idle" /\ ~ failed /\ Rejected("AllocationFailed")

(* Mutated: `failed` is not looked at. *)
GetBitsOnAny(n, s) ==
    /\ pc = "idle"
    /\ Enter("segment")
    /\ bytes' = n
    /\ segs' = s
    /\ seg' = 1
    /\ left' = n
    /\ resets' = 0
    /\ out' = <<>>
    /\ result' = "none"
    /\ UNCHANGED <<pipe, line, chunk, attempt, pair, probe, outcome, failed, caller, copied, got>>

(* A handle that has not failed starts on a request of n bytes from each of  *)
(* s segments.                                                              *)
GetBits(n, s) ==
    /\ pc = "idle"
    /\ ~ failed
    /\ Enter("segment")
    /\ bytes' = n
    /\ segs' = s
    /\ seg' = 1
    /\ left' = n
    /\ resets' = 0
    /\ out' = <<>>
    /\ result' = "none"
    /\ UNCHANGED <<pipe, line, chunk, attempt, pair, probe, outcome, failed, caller, copied, got>>

(* Mutated: only a lost device invalidates the handle. *)
AcquireFailsSoftly(e) ==
    /\ Enter("idle")
    /\ result' = e
    /\ failed' = (e \in FatalErrors)
    /\ chunk' = <<>>
    /\ got' = <<>>
    /\ out' = <<>>
    /\ UNCHANGED <<attempt, pair, probe, outcome, caller, bytes, segs, seg, left, resets, copied>>

(* The acquisition fails with error e: no byte of it is handed out, and only *)
(* a failed allocation leaves the handle usable.                            *)
AcquireFails(e) ==
    /\ Enter("idle")
    /\ result' = e
    /\ failed' = (e # "AllocationFailed")
    /\ chunk' = <<>>
    /\ got' = <<>>
    /\ out' = <<>>
    /\ UNCHANGED <<attempt, pair, probe, outcome, caller, bytes, segs, seg, left, resets, copied>>

(* The buffer of the first segment, and the one all later segments share.   *)
Reserve ==
    /\ pc = "segment"
    /\ UNCHANGED <<pipe, line>>
    /\ \/ /\ Enter("command")
          /\ UNCHANGED <<chunk, attempt, pair, probe, outcome, call>>
       \/ seg \in {1, 2} /\ AcquireFails("AllocationFailed")

----------------------------------------------------------------------------
(* read_exact_raw_into *)

(* The chip gets a command to read n bytes: from now on what it still had to *)
(* say is stale, and so is what it says beyond the bytes asked for.  It may *)
(* say more than that while fewer than MaxPipe bytes are left from before.  *)
Aged(s) == [i \in 1 .. Len(s) |-> IF s[i] = "fresh" THEN "stale" ELSE s[i]]
Reply(j, n) == [i \in 1 .. j |-> IF i <= n THEN "fresh" ELSE "stale"]
Excess == IF Len(pipe) < MaxPipe THEN MaxExcess ELSE 0
AnswersRead(n) ==
    \E j \in (IF Prompt THEN n ELSE 0) .. n + Excess : pipe' = Aged(pipe) \o Reply(j, n)

(* Mutated: the length is sent less two. *)
WriteCommandShort ==
    /\ pc = "command"
    /\ UNCHANGED line
    /\ \/ /\ Enter("read")
          /\ AnswersRead(Want - 1)
          /\ copied' = FALSE
          /\ UNCHANGED <<chunk, attempt, pair, probe, outcome>>
          /\ UNCHANGED <<failed, caller, bytes, segs, seg, left, resets, got, out, result>>
       \/ /\ \E e \in UsbFaults : AcquireFails(e)
          /\ UNCHANGED pipe \/ AnswersRead(Want - 1)

(* Mutated: the length is sent as it is, not less one. *)
WriteCommandLong ==
    /\ pc = "command"
    /\ UNCHANGED line
    /\ \/ /\ Enter("read")
          /\ AnswersRead(Want + 1)
          /\ copied' = FALSE
          /\ UNCHANGED <<chunk, attempt, pair, probe, outcome>>
          /\ UNCHANGED <<failed, caller, bytes, segs, seg, left, resets, got, out, result>>
       \/ /\ \E e \in UsbFaults : AcquireFails(e)
          /\ UNCHANGED pipe \/ AnswersRead(Want + 1)

WriteCommand ==
    /\ pc = "command"
    /\ UNCHANGED line
    /\ \/ /\ Enter("read")
          /\ AnswersRead(Want)
          /\ copied' = FALSE
          /\ UNCHANGED <<chunk, attempt, pair, probe, outcome>>
          /\ UNCHANGED <<failed, caller, bytes, segs, seg, left, resets, got, out, result>>
       \/ /\ \E e \in UsbFaults : AcquireFails(e)
          /\ UNCHANGED pipe \/ AnswersRead(Want)

(* What the status bytes of an accepted transfer may leave in line_status.  *)
LineAfter == IF BadStatus THEN LineStates ELSE {"ok"}

(* The length of the bulk read when n bytes are lacking: as many packets as  *)
(* n bytes and two of status take.  (The limit to MAX_MPSSE_READ_BYTES and a *)
(* packet cuts nothing off, n being at most MaxRead.)                       *)
ReadBuffer(n) == ((n + 1 + MaxPacket) \div MaxPacket) * MaxPacket

(* A transfer with k payload bytes: those the command lacks are copied out,  *)
(* the others stay in the chunk.                                            *)
ReadBytes(k) ==
    LET take == IF k < Want - Len(got) THEN k ELSE Want - Len(got) IN
    /\ pc = "read"
    /\ pipe' = Undelivered(k)
    /\ \/ /\ got' = got \o SubSeq(pipe, 1, take)
          /\ chunk' = SubSeq(pipe, take + 1, k)
          /\ line' \in LineAfter
          /\ copied' = TRUE
          /\ pc' = IF Len(got) + take = Want THEN "check" ELSE "read"
          /\ UNCHANGED <<attempt, pair, probe, streak, reads, outcome>>
          /\ UNCHANGED <<failed, caller, bytes, segs, seg, left, resets, out, result>>
       \/ BadStatus /\ AcquireFails("ProtocolViolation") /\ UNCHANGED line

(* Mutated: bytes that came before the reads dried up are kept. *)
IncompleteKeepsBytes ==
    \/ /\ resets + 1 < InitRetries
       /\ StartInit
       /\ caller' = "recover"
       /\ resets' = resets + 1
       /\ chunk' = <<>>
       /\ UNCHANGED <<failed, bytes, segs, seg, left, copied, got, out, result>>
    \/ resets + 1 = InitRetries /\ AcquireFails("ReadRetriesExhausted")

(* Mutated: the recovery is not counted. *)
IncompleteUncounted ==
    \/ /\ resets + 1 < InitRetries
       /\ StartInit
       /\ caller' = "recover"
       /\ chunk' = <<>>
       /\ got' = <<>>
       /\ UNCHANGED <<failed, bytes, segs, seg, left, resets, copied, out, result>>
    \/ resets + 1 = InitRetries /\ AcquireFails("ReadRetriesExhausted")

(* Too many empty reads: what came is dropped, and the chip initialized to  *)
(* try again, for a limited number of times.                                *)
Incomplete ==
    \/ /\ resets + 1 < InitRetries
       /\ StartInit
       /\ caller' = "recover"
       /\ resets' = resets + 1
       /\ chunk' = <<>>
       /\ got' = <<>>
       /\ UNCHANGED <<failed, bytes, segs, seg, left, copied, out, result>>
    \/ resets + 1 = InitRetries /\ AcquireFails("ReadRetriesExhausted")

(* A read without payload.  It ends an `ftdi_read_payload` that has copied   *)
(* bytes, and counts as an empty one otherwise.                             *)
ReadEmpty ==
    /\ pc = "read"
    /\ Silent
    /\ UNCHANGED pipe
    /\ \/ /\ line' \in {line} \cup LineAfter
          /\ \/ /\ copied \/ streak + 1 < ReadRetries
                /\ streak' = IF copied THEN 0 ELSE streak + 1
                /\ copied' = FALSE
                /\ UNCHANGED <<chunk, pc, attempt, pair, probe, reads, outcome>>
                /\ UNCHANGED <<failed, caller, bytes, segs, seg, left, resets, got, out, result>>
             \/ ~ copied /\ streak + 1 = ReadRetries /\ Incomplete
       \/ BadStatus /\ AcquireFails("ProtocolViolation") /\ UNCHANGED line

ReadError(e) ==
    /\ pc = "read"
    /\ AcquireFails(e)
    /\ UNCHANGED <<pipe, line>>

RecoveryReturns ==
    /\ pc = "done"
    /\ caller = "recover"
    /\ UNCHANGED <<pipe, line>>
    /\ \/ /\ outcome = "Ok"
          /\ Enter("command")
          /\ UNCHANGED <<chunk, attempt, pair, probe, outcome, call>>
       \/ outcome # "Ok" /\ AcquireFails(outcome)

(* The command is served: the next one of the segment, the next segment, or  *)
(* the end of the request.                                                  *)
CommandDone ==
    /\ out' = out \o got
    /\ got' = <<>>
    /\ resets' = 0
    /\ \/ /\ left > Want
          /\ Enter("command")
          /\ left' = left - Want
          /\ UNCHANGED <<seg, result>>
       \/ /\ left = Want /\ seg < segs
          /\ Enter("segment")
          /\ left' = bytes
          /\ seg' = seg + 1
          /\ UNCHANGED result
       \/ /\ left = Want /\ seg = segs
          /\ Enter("idle")
          /\ left' = 0
          /\ result' = "Ok"
          /\ UNCHANGED seg
    /\ UNCHANGED <<chunk, attempt, pair, probe, outcome>>
    /\ UNCHANGED <<failed, caller, bytes, segs, copied>>

(* Mutated: bytes fetched beyond the requested ones are not looked at. *)
CheckWithoutExcess ==
    /\ pc = "check"
    /\ UNCHANGED <<pipe, line>>
    /\ \/ line # "ok" /\ AcquireFails("ProtocolViolation")
       \/ line = "ok" /\ CommandDone

(* All bytes are there: there must be no more in the chunk, and the chip's  *)
(* transmitter must be idle.                                                *)
Check ==
    /\ pc = "check"
    /\ UNCHANGED <<pipe, line>>
    /\ \/ chunk # <<>> /\ AcquireFails("ProtocolViolation")
       \/ chunk = <<>> /\ line # "ok" /\ AcquireFails("ProtocolViolation")
       \/ chunk = <<>> /\ line = "ok" /\ CommandDone

----------------------------------------------------------------------------
Init ==
    /\ pipe = <<>>
    /\ chunk = <<>>
    /\ line = "incomplete"
    /\ pc = "closed"
    /\ attempt = 1
    /\ pair = 1
    /\ probe = "AA"
    /\ streak = 0
    /\ reads = 0
    /\ outcome = "none"
    /\ failed = FALSE
    /\ caller = "open"
    /\ bytes = 1
    /\ segs \in Segments
    /\ seg = 1
    /\ left = 0
    /\ resets = 0
    /\ copied = FALSE
    /\ got = <<>>
    /\ out = <<>>
    /\ result = "none"

(* The steps of a call that has not returned. *)
CallStep ==
    \/ InitStep /\ UNCHANGED call
    \/ OpenReturns
    \/ Reserve
    \/ WriteCommand
    \/ \E k \in Transfers(ReadBuffer(Want - Len(got))) : ReadBytes(k)
    \/ ReadEmpty
    \/ \E e \in UsbFaults : ReadError(e)
    \/ RecoveryReturns
    \/ Check

(* The client's calls. *)
Calls ==
    \/ Open
    \/ Drop
    \/ GetBitsInvalid
    \/ GetBitsOnFailed
    \/ GetBitsOutOfMemory
    \/ \E n \in 1 .. MaxBytes, s \in Segments : GetBits(n, s)

Next == CallStep \/ Calls \/ ProcessDies \/ (Noise /\ UNCHANGED call)

Spec == Init /\ [][Next]_vars

(* A call runs on: every transfer in it has a timeout.  No call, no answer  *)
(* and no crash is owed.                                                    *)
FairSpec == Spec /\ WF_vars(CallStep)

----------------------------------------------------------------------------
(* Correctness. *)

(* The chip trusted by the code that sends what a command asks for and no   *)
(* more.                                                                    *)
ExactChip == TrustedChip /\ MaxExcess = 0

AllFresh(s) == \A i \in 1 .. Len(s) : s[i] = "fresh"

(* A request is being served. *)
Serving == pc \in ReadLabels \/ (pc \in InitLabels /\ caller = "recover")

(* Whatever the chip sends, a request keeps count of its segments, commands  *)
(* and bytes through every retry: what it has accepted and what is left add *)
(* up to it, and bytes in hand belong to a command being read.              *)
Accounting ==
    /\ pc \notin {"read", "check"} => got = <<>>
    /\ pc = "read" => Len(got) < Want
    /\ pc = "check" => Len(got) = Want
    /\ Serving => /\ left \in 1 .. bytes
                  /\ Len(out) = (seg - 1) * bytes + (bytes - left)

(* While a command is read, the bytes in hand and those under way are all   *)
(* its own and never more than it asked for, and so were those of the       *)
(* commands before it; no payload is carried over from a transfer.          *)
OwnReply ==
    /\ chunk = <<>>
    /\ pc = "read" => AllFresh(pipe) /\ AllFresh(got) /\ Len(got) + Len(pipe) <= Want
    /\ pc = "check" => pipe = <<>> /\ AllFresh(got)
    /\ Serving => AllFresh(out)

(* A read command, the first or one sent again after a recovery, is sent    *)
(* only when no byte of an earlier one is left in the chip, in the chunk or *)
(* in the buffer.                                                           *)
CommandOnClean == pc \in {"segment", "command"} => pipe = <<>> /\ chunk = <<>> /\ got = <<>>

(* A successful get_bits_with_fold has consumed exactly bytes * segs bytes,  *)
(* all of them asked for by the command they were read for: no late answer  *)
(* of an earlier command, of a failed or dead handle, or of a probe is      *)
(* taken for entropy.                                                       *)
ExactLength == result = "Ok" => Len(out) = bytes * segs
ExactlyFresh == result = "Ok" => AllFresh(out) /\ Len(out) = bytes * segs

(* Between two calls a usable handle has left no byte anywhere, so that the  *)
(* next call starts with its own bytes (device.rs: "A late USB reply must   *)
(* never satisfy a subsequent acquisition").                                *)
HealthyIsClean == pc = "idle" /\ ~ failed => pipe = <<>> /\ chunk = <<>>

(* The last read command of a request for n bytes asks for what some number  *)
(* of whole packets carries, and so leaves no room in its bulk read.        *)
FillsPackets(n) ==
    \E c, p \in 0 .. n :
        LET last == p * (MaxPacket - 2)
        IN last \in 1 .. MaxRead /\ n = c * MaxRead + last

(* A chip that sends bytes in excess at once: whatever it has piled up over  *)
(* commands, segments and calls that filled their packets, it is noticed as *)
(* soon as a command leaves room in its last one, and a request that ends   *)
(* with such a command and succeeds has left no byte anywhere.              *)
ExcessNoticed ==
    Prompt /\ pc = "idle" /\ result = "Ok" /\ ~ FillsPackets(bytes) => pipe = <<>> /\ chunk = <<>>

(* A failed handle stays failed, whatever is called on it, and does no USB  *)
(* transfer but those of Drop.                                              *)
FailedIsFinal ==
    [][pc = "idle" /\ failed /\ pc' # "closed" => UNCHANGED <<pipe, chunk, pc, failed>>]_vars

(* On a chip that answers in full and in time no call needs a recovery, after *)
(* any crash of an earlier client, and the only call to fail for another     *)
(* reason than memory or its arguments is one that got bytes in excess.      *)
PromptServes ==
    Prompt /\ UsbFaults = {} /\ ~ BadStatus =>
        /\ resets = 0
        /\ result \in {"none", "Opened", "Ok", "InvalidBits", "AllocationFailed"}
                      \cup (IF MaxExcess = 0 THEN {} ELSE {"ProtocolViolation", "DeviceDisconnected"})

(* The steps one command may take: writing it, reads of which each brings a  *)
(* byte or counts as empty, and the check; and the steps of one recovery.    *)
ReadMax == MaxRead * (ReadRetries + 1) + ReadRetries
TryMax == ReadMax + 2
RecoveryMax == ((InitRetries - 1) * 14 + 13) * DrainLimit + 2
CommandMax == (InitRetries - 1) * (TryMax + RecoveryMax) + TryMax

ReadsLeft ==
    (Want - Len(got)) * (ReadRetries + 1) + (IF copied THEN ReadRetries ELSE ReadRetries - 1 - streak)

(* Those still ahead of the current command with all its recoveries.         *)
TryLeft ==
    CASE pc = "check" -> 1
      [] pc = "read" -> ReadsLeft + 1
      [] pc = "command" -> TryMax
      [] OTHER -> TryMax + 1 + WorkLeft

CommandLeft == (InitRetries - 1 - resets) * (TryMax + RecoveryMax) + TryLeft

(* The bytes the request still has to read, and a bound on its steps.        *)
BytesLeft == (segs - seg) * bytes + left

CallWork ==
    CASE ~ Busy -> 0
      [] pc = "segment" -> BytesLeft * (CommandMax + 1)
      [] pc \in ReadLabels \ {"segment"} \/ (pc \in InitLabels /\ caller = "recover") ->
            (BytesLeft - 1) * (CommandMax + 1) + CommandLeft
      [] OTHER -> WorkLeft + 1

(* Each step of a call brings its end nearer, through all of its nested      *)
(* retries and whatever the chip does: no mixture of silence, single bytes   *)
(* and recoveries keeps get_bits_with_fold busy for more than CallWork       *)
(* transfers, each of which has a timeout.                                  *)
CallBounded == [][CallStep => CallWork' < CallWork /\ CallWork' >= 0]_vars

(* Every call returns (or its process dies), whatever the chip does.         *)
CallsReturn == Busy ~> ~ Busy

(* A handle as its user sees it: what a call has read is his when it returns *)
(* Ok and not before, and transfers, recoveries and segments are its own     *)
(* affair.                                                                  *)
Seen ==
    CASE pc = "closed" -> "none"
      [] pc = "idle" /\ failed -> "failed"
      [] pc = "idle" /\ ~ failed -> "ready"
      [] Serving -> "busy"
      [] OTHER -> "opening"

Source == INSTANCE EntropySource WITH
    Own <- "fresh", handle <- Seen, due <- bytes * segs,
    reply <- IF result = "Ok" THEN out ELSE <<>>, verdict <- result

(* With an exact chip a handle implements EntropySource: every step is one of *)
(* that module's or changes nothing its user sees.                          *)
Provides == Source!SourceSpec
============================================================================

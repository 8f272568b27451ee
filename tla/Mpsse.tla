------------------------------- MODULE Mpsse -------------------------------
(***************************************************************************)
(* Bringing the FTDI chip of a BitBabbler into a known state: `initialize` *)
(* of src/src/protocol.rs with everything it calls.  One attempt is        *)
(*                                                                         *)
(*   reset -> purge1 -> configure -> probe/sync (AA, then AB; the pair is  *)
(*   retried once) -> clock -> purge2 -> done                              *)
(*                                                                         *)
(* and any failure on the way that is not fatal starts another one.  The   *)
(* chip is the environment: it answers in order, late, partly or not at    *)
(* all, so a read may find nothing while an answer is still on its way.    *)
(* Each action is one USB transfer of the client together with the code    *)
(* that runs before the next one.                                          *)
(***************************************************************************)
EXTENDS Integers, Sequences

CONSTANTS
    ReadRetries,         \* FTDI_READ_RETRIES: empty reads in a row before giving up
    DrainLimit,          \* FTDI_DRAIN_READ_LIMIT: reads of any kind per sync or purge
    InitRetries,         \* FTDI_INIT_RETRIES: initialization attempts
    UsbFaults,           \* the errors a USB transfer may fail with
    ModeSwitchDiscards,  \* entering MPSSE mode drops the answers not yet delivered
    Prompt,              \* the chip answers in full by the client's next read
    NoisyAt,             \* steps before which the chip may send bytes nobody asked for
    MaxPipe,             \* bound on what is left in the chip at first, on noise and on
                         \* what may be left when it sends more than it was asked for
    MaxPacket,           \* wMaxPacketSize, 64 or 512
    ProbeBuffer,         \* length of the bulk reads of check_sync
    PurgeBuffer          \* length of the bulk reads of purge_read

(* Errors `initialize` gives up on at once. *)
FatalErrors == {"DeviceDisconnected", "PermissionDenied", "DeviceBusy"}

UsbErrors == FatalErrors \cup {"TransferTimeout", "Usb"}

ASSUME PolicyAssumption ==
    /\ ReadRetries \in Nat \ {0}
    /\ DrainLimit \in Nat \ {0}
    /\ InitRetries \in Nat \ {0}
    /\ UsbFaults \subseteq UsbErrors
    /\ ModeSwitchDiscards \in BOOLEAN
    /\ Prompt \in BOOLEAN
    /\ MaxPipe \in Nat
    /\ MaxPacket \in Nat /\ MaxPacket >= 4
    /\ ProbeBuffer \in Nat /\ ProbeBuffer >= MaxPacket
    /\ PurgeBuffer \in Nat /\ PurgeBuffer >= MaxPacket

VARIABLES
    pipe,     \* the bytes of the chip's undelivered answers, oldest first
    chunk,    \* FtdiSession.chunk: payload fetched and not yet handed out
    line,     \* FtdiSession.line_status, as far as the exact-idle test tells
    pc,       \* the next USB transfer of the client
    attempt,  \* the attempt of `initialize` under way
    pair,     \* which of its two AA/AB pairs `init_mpsse` is sending
    probe,    \* the bad command `check_sync` sends or waits for
    streak,   \* empty reads in a row
    reads,    \* reads of any kind in this sync or purge
    outcome   \* what `initialize` returned

control == <<chunk, pc, attempt, pair, probe, streak, reads, outcome>>
mpsseVars == <<pipe, line, control>>

(* An answer is the echo of a probe (FA AA, FA AB), or data: bytes that the  *)
(* latest read command asked for and any other ones.                        *)
Probes == {"AA", "AB"}
EchoBytes == {"FA"} \cup Probes
DataBytes == {"fresh", "stale"}
Items == EchoBytes \cup DataBytes

LineStates == {"ok", "incomplete"}
InitLabels == {"reset", "purge1", "configure", "probe", "sync", "clock", "purge2", "done"}
Purging == {"purge1", "purge2"}
Outcomes == {"none", "Ok", "InitializationFailed"} \cup FatalErrors

MpsseTypeOK ==
    /\ pipe \in Seq(Items)
    /\ chunk \in Seq(Items)
    /\ line \in LineStates
    /\ attempt \in 1 .. InitRetries
    /\ pair \in {1, 2}
    /\ probe \in Probes
    /\ streak \in 0 .. ReadRetries - 1
    /\ reads \in 0 .. DrainLimit - 1
    /\ outcome \in Outcomes

(* What a transfer of k bytes delivers and leaves behind. *)
Delivered(k) == SubSeq(pipe, 1, k)
Undelivered(k) == SubSeq(pipe, k + 1, Len(pipe))

(* The payload that fits a buffer: a packet starts with two status bytes.   *)
Payload(buffer) == (buffer \div MaxPacket) * (MaxPacket - 2)

(* The payload bytes a bulk read into a buffer may bring, and whether it may *)
(* come back without any.  The client chooses the buffer, the chip its time: *)
(* a prompt one delivers all it has, as far as the buffer holds it.         *)
Transfers(buffer) ==
    {k \in 1 .. Len(pipe) : /\ k <= Payload(buffer)
                            /\ Prompt => k = Len(pipe) \/ k = Payload(buffer)}
Silent == Prompt => pipe = <<>>

(* The chip gets a command: what it answers follows what it said before, and *)
(* unless it is prompt the end of the answer, or all of it, may never come.  *)
Answers(reply) ==
    \/ pipe' = pipe \o reply
    \/ ~ Prompt /\ \E j \in 0 .. Len(reply) - 1 : pipe' = pipe \o SubSeq(reply, 1, j)

----------------------------------------------------------------------------
(* Control flow shared by the steps. *)

Enter(label) == pc' = label /\ streak' = 0 /\ reads' = 0

StartInit ==
    /\ Enter("reset")
    /\ attempt' = 1
    /\ outcome' = "none"
    /\ UNCHANGED <<pair, probe>>

(* The attempt fails with error e: `initialize` decides whether to retry.   *)
Abort(e) ==
    /\ UNCHANGED <<pair, probe>>
    /\ \/ /\ e \in FatalErrors
          /\ Enter("done")
          /\ outcome' = e
          /\ UNCHANGED <<chunk, attempt>>
       \/ /\ e \notin FatalErrors
          /\ attempt = InitRetries
          /\ Enter("done")
          /\ outcome' = "InitializationFailed"
          /\ chunk' = <<>>
          /\ UNCHANGED attempt
       \/ /\ e \notin FatalErrors
          /\ attempt < InitRetries
          /\ Enter("reset")
          /\ attempt' = attempt + 1
          /\ chunk' = <<>>
          /\ UNCHANGED outcome

(* Mutated: only empty reads end the loop. *)
CountReadUnlimited(s, onLimit) ==
    /\ streak' = s
    /\ UNCHANGED <<reads, chunk, pc, attempt, pair, probe, outcome>>

(* One more read of a sync or a purge, after which s reads in a row were     *)
(* empty: within the loop's limit it goes on.                               *)
CountRead(s, onLimit) ==
    \/ reads + 1 = DrainLimit /\ onLimit
    \/ /\ reads + 1 < DrainLimit
       /\ streak' = s
       /\ reads' = reads + 1
       /\ UNCHANGED <<chunk, pc, attempt, pair, probe, outcome>>

(* Mutated: one empty read more than allowed. *)
CountEmptyLate(onStreak, onLimit) ==
    \/ streak = ReadRetries /\ onStreak
    \/ streak < ReadRetries /\ CountRead(streak + 1, onLimit)

(* An empty read: the streak is looked at before the limit.                 *)
CountEmpty(onStreak, onLimit) ==
    \/ streak + 1 = ReadRetries /\ onStreak
    \/ streak + 1 < ReadRetries /\ CountRead(streak + 1, onLimit)

----------------------------------------------------------------------------
(* init_mpsse up to the sync. *)

(* Mutated: the input is not purged before the mode switch. *)
ResetWithoutPurge ==
    /\ pc = "reset"
    /\ UNCHANGED <<pipe, line>>
    /\ \/ /\ Enter("configure")
          /\ chunk' = <<>>
          /\ UNCHANGED <<attempt, pair, probe, outcome>>
       \/ \E e \in UsbFaults : Abort(e)

Reset ==
    /\ pc = "reset"
    /\ UNCHANGED <<pipe, line>>
    /\ \/ /\ Enter("purge1")
          /\ chunk' = <<>>
          /\ UNCHANGED <<attempt, pair, probe, outcome>>
       \/ \E e \in UsbFaults : Abort(e)

(* Special characters, latency, flow control, the two mode switches and the *)
(* line status.  A failure comes before or after the switch.                *)
Configure ==
    LET switched == IF ModeSwitchDiscards THEN <<>> ELSE pipe IN
    /\ pc = "configure"
    /\ \/ /\ Enter("probe")
          /\ pair' = 1
          /\ probe' = "AA"
          /\ pipe' = switched
          /\ line' \in LineStates
          /\ UNCHANGED <<chunk, attempt, outcome>>
       \/ /\ \E e \in UsbFaults : Abort(e)
          /\ pipe' \in {pipe, switched}
          /\ UNCHANGED line

----------------------------------------------------------------------------
(* check_sync *)

SyncWrite ==
    /\ pc = "probe"
    /\ UNCHANGED line
    /\ \/ /\ Enter("sync")
          /\ Answers(<<"FA", probe>>)
          /\ UNCHANGED <<chunk, attempt, pair, probe, outcome>>
       \/ /\ \E e \in UsbFaults : Abort(e)
          /\ UNCHANGED pipe \/ Answers(<<"FA", probe>>)

(* Mutated: any echo is taken for the awaited one. *)
IsAnyEcho(items) ==
    /\ Len(items) = 2
    /\ items[1] \in {"FA"} \cup DataBytes

(* A transfer of two payload bytes that reads as the echo of the probe: the *)
(* echo itself, or data that happens to spell it.                           *)
IsEcho(items) ==
    /\ Len(items) = 2
    /\ items[1] \in {"FA"} \cup DataBytes
    /\ items[2] \in {probe} \cup DataBytes

(* Mutated: the first miss retries the missed probe instead of the pair. *)
SyncMissedRetriesProbe ==
    \/ /\ pair = 1
       /\ Enter("probe")
       /\ pair' = 2
       /\ UNCHANGED <<chunk, attempt, probe, outcome>>
    \/ pair = 2 /\ Abort("ProtocolViolation")

(* No echo: the first pair is retried from its AA, the second fails.        *)
SyncMissed ==
    \/ /\ pair = 1
       /\ Enter("probe")
       /\ pair' = 2
       /\ probe' = "AA"
       /\ UNCHANGED <<chunk, attempt, outcome>>
    \/ pair = 2 /\ Abort("ProtocolViolation")

SyncMatch(k) ==
    /\ pc = "sync"
    /\ IsEcho(Delivered(k))
    /\ pipe' = Undelivered(k)
    /\ UNCHANGED line
    /\ UNCHANGED <<chunk, attempt, pair, outcome>>
    /\ \/ probe = "AA" /\ Enter("probe") /\ probe' = "AB"
       \/ probe = "AB" /\ Enter("clock") /\ UNCHANGED probe

SyncOther(k) ==
    /\ pc = "sync"
    /\ ~ IsEcho(Delivered(k))
    /\ pipe' = Undelivered(k)
    /\ UNCHANGED line
    /\ CountRead(0, SyncMissed)

SyncEmpty ==
    /\ pc = "sync"
    /\ Silent
    /\ UNCHANGED <<pipe, line>>
    /\ CountEmpty(SyncMissed, SyncMissed)

SyncError(e) ==
    /\ pc = "sync"
    /\ Abort(e)
    /\ UNCHANGED <<pipe, line>>

----------------------------------------------------------------------------
(* purge_read, before the configuration and at the end of an attempt *)

PurgeDone ==
    /\ UNCHANGED <<chunk, attempt, pair, probe>>
    /\ \/ pc = "purge1" /\ Enter("configure") /\ UNCHANGED outcome
       \/ pc = "purge2" /\ Enter("done") /\ outcome' = "Ok"

PurgeBytes(k) ==
    /\ pc \in Purging
    /\ pipe' = Undelivered(k)
    /\ UNCHANGED line
    /\ CountRead(0, Abort("ProtocolViolation"))

(* Two bytes or fewer, or a timeout. *)
PurgeEmpty ==
    /\ pc \in Purging
    /\ Silent
    /\ UNCHANGED <<pipe, line>>
    /\ CountEmpty(PurgeDone, Abort("ProtocolViolation"))

PurgeError(e) ==
    /\ pc \in Purging
    /\ e # "TransferTimeout"
    /\ Abort(e)
    /\ UNCHANGED <<pipe, line>>

(* Clock and pins, then the second purge starts. *)
Clock ==
    /\ pc = "clock"
    /\ UNCHANGED <<pipe, line>>
    /\ \/ /\ Enter("purge2")
          /\ chunk' = <<>>
          /\ UNCHANGED <<attempt, pair, probe, outcome>>
       \/ \E e \in UsbFaults : Abort(e)

----------------------------------------------------------------------------
(* The environment: a byte nobody asked for. *)
Noise ==
    /\ pc \in NoisyAt
    /\ Len(pipe) < MaxPipe
    /\ pipe' = Append(pipe, "stale")
    /\ UNCHANGED <<line, control>>

(* A step of `initialize`. *)
InitStep ==
    \/ Reset
    \/ Configure
    \/ SyncWrite
    \/ SyncEmpty
    \/ \E k \in Transfers(ProbeBuffer) : SyncMatch(k) \/ SyncOther(k)
    \/ \E k \in Transfers(PurgeBuffer) : PurgeBytes(k)
    \/ PurgeEmpty
    \/ \E e \in UsbFaults : SyncError(e) \/ PurgeError(e)
    \/ Clock

(* A device some earlier client left any answers in. *)
Residues == UNION {[1 .. n -> Items \ {"fresh"}] : n \in 0 .. MaxPipe}

MpsseInit ==
    /\ pipe \in Residues
    /\ chunk = <<>>
    /\ line \in LineStates
    /\ pc = "reset"
    /\ attempt = 1
    /\ pair = 1
    /\ probe = "AA"
    /\ streak = 0
    /\ reads = 0
    /\ outcome = "none"

MpsseNext == InitStep \/ Noise

MpsseSpec == MpsseInit /\ [][MpsseNext]_mpsseVars

----------------------------------------------------------------------------
(* Correctness. *)

(* Until it enters MPSSE mode, which Configure makes it do, the chip is a    *)
(* serial port, or still busy with what an earlier client asked of it.      *)
BeforeMpsse == {"closed", "reset", "purge1", "configure"}

(* The chip as the code trusts it: entering MPSSE mode leaves nothing of    *)
(* what it had to say before, and in it it only speaks when spoken to.      *)
TrustedChip == ModeSwitchDiscards /\ NoisyAt \subseteq BeforeMpsse

NoneIs(b) == \A i \in 1 .. Len(pipe) : pipe[i] # b
OnlyLastIs(b) == \A i \in 1 .. Len(pipe) : pipe[i] = b => i = Len(pipe)

(* Why an echo, even a late one, proves what it should (init_mpsse and      *)
(* check_sync with a trusted chip): no answer but echoes is under way; while *)
(* AA is being asked for no old AA can come before an old AB, so that the    *)
(* echo of AA is followed by no AB; and the AB the client then waits for is  *)
(* the last thing the chip says.                                            *)
EchoOrder ==
    /\ pc \in {"probe", "sync"} => pipe \in Seq(EchoBytes)
    /\ pc \in {"probe", "sync"} /\ probe = "AA" =>
          \A i, j \in 1 .. Len(pipe) : i < j => ~ (pipe[i] = "AA" /\ pipe[j] = "AB")
    /\ pc = "probe" /\ probe = "AB" => NoneIs("AB")
    /\ pc = "sync" /\ probe = "AB" => OnlyLastIs("AB")
    /\ pair = 1 =>
          /\ pc = "probe" => pipe = <<>>
          /\ pc = "sync" /\ probe = "AA" => OnlyLastIs("AA") /\ NoneIs("AB")
          /\ pc = "sync" /\ probe = "AB" => NoneIs("AA")
    /\ pc \in {"clock", "purge2"} => pipe = <<>>

(* `initialize` returns Ok only when the chip has nothing left to say, so    *)
(* that the next bytes to arrive are the ones the next command asks for.     *)
SyncedMeansEmpty == outcome = "Ok" => pipe = <<>>

(* A chip that answers in full and in time is synchronised by the first pair *)
(* of the first attempt, whatever an earlier client left in it: none of the  *)
(* retries of `initialize` is spent on a healthy device.                     *)
PromptSucceeds ==
    Prompt /\ UsbFaults = {} => attempt = 1 /\ pair = 1 /\ outcome \in {"none", "Ok"}

(* The loops of an attempt that are still ahead, the current one included.   *)
LoopsLeft ==
    CASE pc = "done" -> 0
      [] pc = "purge2" -> 1
      [] pc = "clock" -> 2
      [] pc \in {"probe", "sync"} ->
            3 + (IF pc = "probe" THEN 1 ELSE 0) + (IF probe = "AA" THEN 2 ELSE 0)
              + (IF pair = 1 THEN 4 ELSE 0)
      [] pc = "configure" -> 11
      [] pc = "purge1" -> 12
      [] OTHER -> 13

(* A bound on the USB transfers `initialize` still makes. *)
WorkLeft == ((InitRetries - attempt) * 14 + LoopsLeft) * DrainLimit - reads

(* Whatever the chip sends or fails to send, each transfer of `initialize`   *)
(* brings its end nearer: no stream of unexpected answers, silence or error  *)
(* keeps it busy for more than WorkLeft transfers.                           *)
InitBounded == [][InitStep => WorkLeft' < WorkLeft /\ WorkLeft' >= 0]_mpsseVars
============================================================================

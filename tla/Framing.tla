------------------------------ MODULE Framing ------------------------------
(***************************************************************************)
(* The bytes of one read command as they come over USB: `ftdi_read_payload` *)
(* and `drain_chunk` of src/src/protocol.rs inside the loop of              *)
(* `read_exact_raw_into`.  The chip cuts its answer into packets of at most *)
(* MaxPacket bytes, each headed by a modem and a line status byte; a bulk   *)
(* read returns one or several packets, of which only the last may be short. *)
(* Payload bytes may have any value, those of status bytes included.        *)
(***************************************************************************)
EXTENDS PayloadStream

CONSTANTS
    MaxPacket,  \* wMaxPacketSize
    MaxRead,    \* MAX_MPSSE_READ_BYTES
    Retries,    \* FTDI_READ_RETRIES
    Modems,     \* modem status bytes the chip may send
    Lines,      \* line status bytes the chip may send
    Splits      \* a bulk read may end within a packet

(* A byte by what the client can tell of it: the modem status it expects, a  *)
(* line status with an idle transmitter, one with a busy one, and any other. *)
Bytes == {"modem", "idle", "busy", "other"}
GoodLines == {"idle", "busy"}

ASSUME FramingAssumption ==
    /\ MaxPacket \in Nat /\ MaxPacket > 2
    /\ MaxLen \in Nat \ {0}
    /\ MaxRead \in Nat /\ MaxLen <= MaxRead
    /\ Retries \in Nat \ {0}
    /\ Values \subseteq Bytes
    /\ Modems \subseteq Bytes
    /\ Lines \subseteq Bytes
    /\ Splits \in BOOLEAN

VARIABLES
    sent,     \* payload bytes the chip has put into packets
    rest,     \* bytes of a packet that no bulk read has returned yet
    bad,      \* the chip has sent a status byte that must be refused
    lastLine, \* history: the latest line status byte the chip has sent
    chunk,    \* FtdiSession.chunk
    head,     \* FtdiSession.chunk_head
    line,     \* FtdiSession.line_status
    copied,   \* the `ftdi_read_payload` under way has delivered bytes
    streak,   \* empty_streak
    pc        \* "idle", "fetch", "drain" or "check"

session == <<chunk, head, line>>
chip == <<sent, rest, bad, lastLine>>
framingVars == <<streamVars, chip, session, copied, streak, pc>>

Remaining == Len(chunk) - head
Need == Len(payload) - Len(got)
LesserOf(a, b) == IF a < b THEN a ELSE b

FramingTypeOK ==
    /\ payload \in Seq(Values) /\ Len(payload) <= MaxLen
    /\ got \in Seq(Bytes) /\ Len(got) <= Len(payload)
    /\ sent \in 0 .. Len(payload)
    /\ rest \in Seq(Bytes)
    /\ chunk \in Seq(Bytes)
    /\ head \in 0 .. Len(chunk)
    /\ line \in GoodLines
    /\ lastLine \in Bytes
    /\ streak \in 0 .. Retries - 1
    /\ bad \in BOOLEAN /\ copied \in BOOLEAN
    /\ pc \in {"idle", "fetch", "drain", "check"}

----------------------------------------------------------------------------
(* The chip *)

(* Mutated: one packet more than the bytes take. *)
RoundTwice(n) == n + 2 * MaxPacket - 1 - ((n - 1) % MaxPacket)

(* n rounded up to whole packets, for n > 0. *)
RoundToMaxPacket(n) == n + MaxPacket - 1 - ((n - 1) % MaxPacket)

(* The length of the bulk read for the bytes still needed. *)
Request ==
    RoundToMaxPacket(LesserOf(RoundToMaxPacket(Need + 2), MaxRead + MaxPacket))

(* k payload bytes in n packets with the given statuses. *)
Frame(k, n, modem, status) ==
    [i \in 1 .. k + 2 * n |->
        LET q == (i - 1) \div MaxPacket
            at == (i - 1) % MaxPacket
        IN CASE at = 0 -> modem[q + 1]
             [] at = 1 -> status[q + 1]
             [] OTHER -> payload[sent + q * (MaxPacket - 2) + at - 1]]

(* All packets of an answer are full but the last, and they fit the request. *)
Fits(k, n) ==
    /\ (n - 1) * (MaxPacket - 2) <= k
    /\ k <= n * (MaxPacket - 2)
    /\ k + 2 * n <= Request

(* A bulk read returns the first c of the given bytes. *)
Cuts(bytes) ==
    IF Splits THEN 1 .. LesserOf(Len(bytes), Request) ELSE {Len(bytes)}

----------------------------------------------------------------------------
(* The client *)

StartRead ==
    /\ pc = "idle"
    /\ Start
    /\ pc' = "fetch"
    /\ sent' = 0
    /\ rest' = <<>>
    /\ bad' = FALSE
    /\ copied' = FALSE
    /\ streak' = 0
    /\ UNCHANGED <<lastLine, session>>

(* The command fails: nothing of it is kept. *)
FailWith(error) ==
    /\ pc' = "idle"
    /\ outcome' = error
    /\ got' = <<>>
    /\ chunk' = <<>>
    /\ head' = 0
    /\ UNCHANGED <<payload, copied, streak>>

(* `ftdi_read_payload` returns without all the bytes: it is called again,   *)
(* unless it was empty too many times in a row.                             *)
ReadReturns ==
    \/ /\ copied \/ streak + 1 < Retries
       /\ streak' = IF copied THEN 0 ELSE streak + 1
       /\ copied' = FALSE
       /\ UNCHANGED <<streamVars, chunk, head, pc>>
    \/ ~ copied /\ streak + 1 = Retries /\ FailWith("Incomplete")

(* What `ftdi_read_payload` does with the bytes of a bulk read. *)
Take(xfer) ==
    \/ Len(xfer) < 2 /\ ReadReturns /\ UNCHANGED line
    \/ /\ Len(xfer) = 2
       /\ \/ xfer[1] = "modem" /\ xfer[2] \in GoodLines /\ line' = xfer[2] /\ ReadReturns
          \/ xfer[1] # "modem" /\ FailWith("ModemStatus") /\ UNCHANGED line
          \/ xfer[1] = "modem" /\ xfer[2] \notin GoodLines /\ FailWith("LineStatus") /\ UNCHANGED line
    \/ /\ Len(xfer) > 2
       /\ pc' = "drain"
       /\ chunk' = xfer
       /\ head' = 0
       /\ UNCHANGED <<streamVars, line, copied, streak>>

(* A bulk read that returns packets, or the rest of a packet. *)
Fetch ==
    /\ pc = "fetch"
    /\ \/ /\ rest = <<>>
          /\ \E k \in 0 .. Len(payload) - sent, n \in 1 .. Request \div 2 :
                /\ Fits(k, n)
                /\ sent' = sent + k
                /\ \E modem \in [1 .. n -> Modems], status \in [1 .. n -> Lines] :
                      LET bytes == Frame(k, n, modem, status) IN
                      /\ bad' = (bad \/ \E q \in 1 .. n :
                                           modem[q] # "modem" \/ status[q] \notin GoodLines)
                      /\ lastLine' = status[n]
                      /\ \E c \in Cuts(bytes) :
                            /\ Take(SubSeq(bytes, 1, c))
                            /\ rest' = SubSeq(bytes, c + 1, Len(bytes))
       \/ /\ rest # <<>>
          /\ \E c \in Cuts(rest) :
                /\ Take(SubSeq(rest, 1, c))
                /\ rest' = SubSeq(rest, c + 1, Len(rest))
          /\ UNCHANGED <<sent, bad, lastLine>>

FetchNothing ==
    /\ pc = "fetch"
    /\ Take(<<>>)
    /\ UNCHANGED chip

FetchError ==
    /\ pc = "fetch"
    /\ FailWith("Usb")
    /\ UNCHANGED <<chip, line>>

(* Status bytes before the payload at head, in a packet entered at `at`. *)
Skip(at) == IF at > 1 THEN 0 ELSE LesserOf(2 - at, Remaining)

(* Mutated: status bytes are only looked for at the start of the transfer. *)
DrainFirstPacketOnly ==
    LET skip == IF head = 0 THEN 2 ELSE 0
        n == LesserOf(Need, Remaining - skip)
    IN /\ pc = "drain"
       /\ Remaining > 0
       /\ Need > 0
       /\ got' = got \o SubSeq(chunk, head + skip + 1, head + skip + n)
       /\ head' = head + skip + n
       /\ line' = IF head = 0 THEN chunk[2] ELSE line
       /\ copied' = TRUE
       /\ UNCHANGED <<payload, outcome, chip, chunk, streak, pc>>

(* Mutated: the line status of a later packet is checked but not kept. *)
DrainPacketKeepingFirst ==
    LET at == head % MaxPacket
        skip == Skip(at)
        n == LesserOf(Need, LesserOf(MaxPacket - at, Remaining) - skip)
        newLine == chunk[head + skip]
    IN /\ pc = "drain"
       /\ Remaining > 0
       /\ Need > 0
       /\ UNCHANGED chip
       /\ \/ at = 0 /\ chunk[head + 1] # "modem" /\ FailWith("ModemStatus") /\ UNCHANGED line
          \/ /\ at = 0 => chunk[head + 1] = "modem" /\ newLine \notin GoodLines
             /\ at = 0 /\ FailWith("LineStatus") /\ UNCHANGED line
          \/ /\ at = 0 => chunk[head + 1] = "modem" /\ newLine \in GoodLines
             /\ line' = IF head = 0 THEN newLine ELSE line
             /\ got' = got \o SubSeq(chunk, head + skip + 1, head + skip + n)
             /\ head' = head + skip + n
             /\ copied' = (copied \/ n > 0)
             /\ UNCHANGED <<payload, outcome, chunk, streak, pc>>

(* One round of the loop of `drain_chunk`: the status bytes at head are     *)
(* checked and skipped, then payload is copied up to the end of the packet. *)
DrainPacket ==
    LET at == head % MaxPacket
        skip == Skip(at)
        n == LesserOf(Need, LesserOf(MaxPacket - at, Remaining) - skip)
        lineSeen == at + skip = 2 /\ skip > 0
        newLine == chunk[head + skip]
    IN /\ pc = "drain"
       /\ Remaining > 0
       /\ Need > 0
       /\ UNCHANGED chip
       /\ \/ at = 0 /\ chunk[head + 1] # "modem" /\ FailWith("ModemStatus") /\ UNCHANGED line
          \/ /\ at = 0 => chunk[head + 1] = "modem"
             /\ lineSeen /\ newLine \notin GoodLines
             /\ FailWith("LineStatus") /\ UNCHANGED line
          \/ /\ at = 0 => chunk[head + 1] = "modem"
             /\ lineSeen => newLine \in GoodLines
             /\ line' = IF lineSeen THEN newLine ELSE line
             /\ got' = got \o SubSeq(chunk, head + skip + 1, head + skip + n)
             /\ head' = head + skip + n
             /\ copied' = (copied \/ n > 0)
             /\ UNCHANGED <<payload, outcome, chunk, streak, pc>>

(* The chunk is used up, or the bytes are all there: more is fetched, or    *)
(* `ftdi_read_payload` returns.                                            *)
DrainEnd ==
    /\ pc = "drain"
    /\ Remaining = 0 \/ Need = 0
    /\ UNCHANGED <<streamVars, chip, line>>
    /\ chunk' = IF Remaining = 0 THEN <<>> ELSE chunk
    /\ head' = IF Remaining = 0 THEN 0 ELSE head
    /\ \/ Need > 0 /\ pc' = "fetch" /\ UNCHANGED <<copied, streak>>
       \/ Need = 0 /\ pc' = "check" /\ copied' = FALSE /\ streak' = 0

(* The end of `read_exact_raw_into`. *)
CheckEnd ==
    /\ pc = "check"
    /\ UNCHANGED <<chip, line>>
    /\ \/ chunk # <<>> /\ FailWith("ExcessPayload")
       \/ chunk = <<>> /\ line # "idle" /\ FailWith("IncompleteLineStatus")
       \/ /\ chunk = <<>> /\ line = "idle"
          /\ pc' = "idle"
          /\ outcome' = "Ok"
          /\ UNCHANGED <<payload, got, chunk, head, copied, streak>>

FramingInit ==
    /\ StreamInit
    /\ sent = 0
    /\ rest = <<>>
    /\ bad = FALSE
    /\ chunk = <<>>
    /\ head = 0
    /\ line \in GoodLines
    /\ lastLine = line
    /\ copied = FALSE
    /\ streak = 0
    /\ pc = "idle"

FramingNext ==
    \/ StartRead
    \/ Fetch
    \/ FetchNothing
    \/ FetchError
    \/ DrainPacket
    \/ DrainEnd
    \/ CheckEnd

FramingSpec == FramingInit /\ [][FramingNext]_framingVars

----------------------------------------------------------------------------
(* Correctness, with bulk reads that end at the end of a packet. *)

(* Between two bulk reads every payload byte that has come is in the buffer, *)
(* in order, and nothing else is: no status byte is taken for payload, and  *)
(* no payload byte for a status byte, whatever its value.                   *)
Stripped ==
    /\ got = SubSeq(payload, 1, Len(got))
    /\ pc \in {"fetch", "check"} => Len(got) = sent /\ chunk = <<>>

(* A command ends well only when each status byte of each of its packets was *)
(* as it should be and the last one the chip has sent, in whatever packet of *)
(* whatever bulk read, said that its transmitter was idle.                  *)
StatusChecked == outcome = "Ok" => ~ bad /\ lastLine = "idle" /\ got = payload

(* A chip whose status bytes are right is not refused: the length of a bulk  *)
(* read leaves no room for a packet after the last byte needed, so that no   *)
(* status byte is ever taken for excess payload.                            *)
GoodChipAccepted ==
    outcome \in {"ModemStatus", "LineStatus", "ExcessPayload"} => bad

(* What is above sees a stream of payload and no packets. *)
Streams == StreamSpec

(* Status bytes split between two bulk reads are handled like any others    *)
(* (docs/specs/2026-08-11-bitb-rs-design.md).                               *)
SplitStatusAccepted ==
    outcome \in {"ModemStatus", "LineStatus", "ExcessPayload"} => bad
=============================================================================

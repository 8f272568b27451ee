# bitb-rs: verification project

TLA+ modules for [bitb-rs](../src/README.md), a Rust library that reads random
bytes from a BitBabbler device over USB. The device is an FTDI chip in MPSSE
mode: it answers commands over a bulk pipe, in packets headed by two status
bytes. The library promises that what it returns is exactly what the device
answered to this call: no byte of an earlier command, of a synchronisation
probe, or of the USB framing, and never a part of a request.

The modules are checked with TLC on small instances; the theorems of the
`*Proofs` modules are checked by TLAPS for all values of the constants.

## The system

| Component | Code | State | Operations |
|---|---|---|---|
| Chip initialization | `src/protocol.rs` `initialize`, `try_initialize_once`, `init_mpsse`, `check_sync`, `purge_read` | the chip's undelivered answers, `FtdiSession.chunk`, `line_status`, retry counters | bring the chip into MPSSE mode and prove by echoes that nothing else is under way |
| Acquisition | `src/device.rs` `BitBabbler`, `src/protocol.rs` `read_exact_raw_into`, `read_raw_bytes` | `failed`, the buffer being filled, the rest of the segment, `reset_attempts` | `open*`, `get_bits`, `get_bits_with_fold`, `random_u64`, `Drop` |
| Packet framing | `src/protocol.rs` `ftdi_read_payload`, `drain_chunk`, `validate_status_bytes`, `round_to_max_packet` | `chunk`, `chunk_head`, `line_status` | turn bulk reads into payload, check status bytes |
| Range sampling | `src/device.rs` `random_range` | draws made | unbiased value of a range |
| Selection and transport | `src/device.rs` `list_devices`, `open`, `open_by_serial`; `src/transport.rs` `enumerate_rusb`, `open_rusb`, `RusbHandle` | the listed devices, the USB handle and its claim | list, select, reopen, claim, release |
| Folding | `src/fold.rs`, `src/device.rs` `read_folded_segments` | the segment being read, the place in it, the result so far | XOR of 2^fold segments, piece by piece |
| Policy, errors, crate root | `src/policy.rs`, `src/error.rs`, `src/lib.rs` | none | limits, error classes, re-exports |
| Laboratory example | `examples/bitb_lab.rs` | options, statistics, counts | parse options, open, take samples in one of three modes, summarise |

Calls go down only: selection opens a handle and runs initialization;
an acquisition runs read commands through the framing and, when a command
stays incomplete, runs initialization again; range sampling runs acquisitions.
The library has no threads and no callbacks. What makes it hard is the other
side: the chip answers late, in part or not at all, keeps its answers when a
process dies, and is shared between processes; the bus changes while a device
is being looked for, and a chip can be reset without a claim to it. Timeouts bound every transfer, and three nested retry
loops (pairs of probes, attempts, commands) bound every call.

What makes each component correct:

- initialization: success means that nothing is under way; late echoes do not
  fool it; it ends; a healthy chip needs no retry;
- acquisition: own bytes only, exactly as many as asked for, nothing left for
  the next call, a failed handle stays failed, every call returns;
- framing: payload and status bytes are told apart by position alone, every
  status byte is checked, a good chip is not refused;
- range sampling: in range, unbiased, bounded;
- folding: byte i of the result is the XOR of the bytes i of all segments, each
  read once, whatever the pieces they are read in;
- selection: one claim per device, released however the call ends; a device is
  selected with all candidates in view, and the one opened is the one asked for;
  its chip is left alone by everyone else while the handle is open;
- laboratory: nothing is accepted that the library would refuse, statistics
  are those of all samples together, success means that all were delivered.

## Modules

| Module | Models | Composition |
|---|---|---|
| `Mpsse` | initialization, one action per USB transfer | |
| `EntropySource` | abstract: a call returns all its own bytes or none; failed is final | |
| `Acquisition` | a handle's life: open, calls, drop, crash | EXTENDS `Mpsse`, whose steps run inside a call; implements `EntropySource` |
| `PayloadStream` | abstract: the payload of a command arrives in order, whole or not at all | |
| `Framing` | the framing, byte by byte | EXTENDS `PayloadStream`, whose specification it implements |
| `Folding` | fold numbers, the XOR of segments | the bytes read are `Acquisition`'s `out` |
| `RangeSampling` | `random_range` | a draw stands for an acquisition |
| `Descriptors` | what endpoint, string and packet-size descriptors must be | pure operators |
| `Discovery` | listing, selecting, opening and closing by several clients | EXTENDS `Descriptors`; initialization is one step here |
| `Laboratory` | the example program | a library call is one step: what it promises, or an error |
| `MC*` | values of constants for TLC | |
| `*Proofs` | theorems | EXTENDS the component |

### Mpsse

`pipe` is the sequence of bytes the chip has still to deliver. A byte is `FA`,
`AA` or `AB` for the three bytes of echoes, or `fresh`/`stale` for data, which
may have any value: a data byte may therefore pass for any byte of an echo.
`pc` is the next USB transfer, and an action is that transfer with all the code
up to the next one. `Reset`, `Configure` and `Clock` are runs of requests
between which nothing is read; a failure in `Configure` happens before or after
the switch to MPSSE mode. `CountRead` and `CountEmpty` are the two loop limits
(`FTDI_DRAIN_READ_LIMIT`, `FTDI_READ_RETRIES`) in the order the code tests
them. `Abort` is the decision of `initialize` after a failed attempt.

The chip is the environment. `Answers` appends an answer or, unless the chip is
`Prompt`, a part of it or nothing. A read returns any number of the bytes under
way, or none of them even when there are some (`Silent`): that is the
chip's latency, and the reason why an empty read proves nothing. How many a read can
return is up to the client (`Transfers`): a buffer of so many packets holds their bytes less
two of status per packet (`Payload`), and a prompt chip, which delivers all it has, stops
there too. `MaxPacket` is the packet size, `ProbeBuffer` and `PurgeBuffer` are the buffers
of `check_sync` and `purge_read`. Two constants say how far the chip is trusted:

- `ModeSwitchDiscards`: entering MPSSE mode drops what was not delivered. The
  code relies on it: a purge that finds nothing ends although an answer may
  still come.
- `NoisyAt`: the steps before which the chip may send bytes nobody asked for.
  Before the switch (`BeforeMpsse`) it is a serial port, or still busy with an
  earlier client's command, and the theorems let it say anything; while a handle
  drives it in MPSSE mode they need it to speak only when spoken to.

### Acquisition

Adds the handle and a call. A byte of data is `fresh` when the latest read
command asked for it; the next command makes the rest of it `stale`, and
so are bytes beyond those asked for (`Excess`, at most `MaxExcess` to a command). A bulk
read of a command asks for the packets that the bytes still lacking and two of status take
(`ReadBuffer`); so a command may need several transfers, and one whose bytes fill
their packets asks for nothing that follows them. `got` is what
`read_exact_raw_into` has of the current command, `out` what earlier commands
of the request gave. The result's XOR is module Folding's; here `out` is all the bytes
that went into it, segment after segment.

`get_bits_with_fold` is `GetBits` or one of three refusals; `Reserve` is the
allocation of the first segment's buffer and of the one shared by the others;
`WriteCommand`, `ReadBytes`, `ReadEmpty`, `ReadError` and `Check` are the loop
of `read_exact_raw_into`; `Incomplete` runs `StartInit` of `Mpsse` with
`caller = "recover"` or gives up; `AcquireFails` is the error arm of
`get_bits_with_fold`, the only place that sets `failed`. `ProcessDies` is
possible at any step.

`EntropySource` is what the user of a handle is told: `Provides` says that with
`Seen` for the handle, `bytes * segs` for the bytes due and `out` for the reply
once it is returned, every step of `Acquisition` is a step of `EntropySource` or
changes nothing.

`CallWork` bounds what a call has still to do. The three retry loops are nested:
a byte takes at most so many reads, a command so many bytes and so many
recoveries, a recovery so many attempts of `initialize`, a request so many
commands. `CallWork` is the sum of these products for what is left, and each step of
a call lowers it (`CallBounded`).

### PayloadStream and Framing

The framing is modelled on bytes. The chip's packets and the length of a bulk
read are concrete; a byte is abstracted to what the status checks tell apart:
the expected modem status, an idle and a busy line status, and any other. The
payload takes the values of a correct status pair, so that no check can find
a misplaced boundary by value. `Splits` lets a bulk read end within a packet,
which USB does not do but the design document lists. `Framing` implements
`PayloadStream` (property `Streams`): with the framing variables hidden, each
step appends payload, ends the command, or drops all of it. `Acquisition`
uses just that: a transfer with k payload bytes, as many as its packets carry at most.
The chip's side has a history variable, `lastLine`, the last line status it sent, which no
step of the client reads: `StatusChecked` compares the outcome with it and not with the
client's own `line`.

### Folding

The bytes a call reads are numbered in the order they are read in. A byte of a
buffer is the set of those whose XOR it is, and XOR is symmetric difference: one
run decides for all values of the bytes, which XOR treats bit by bit alike. `ReadFirst`
is the buffer of `read_raw_bytes`, `XorPiece` the loop over the others, `Starts`
the zeroed result. `MaxUsize` is the largest `usize` of the overflow check.

### RangeSampling

Words are `0 .. Size - 1`, with `WrappingNeg` the arithmetic modulo `Size`.

### Descriptors and Discovery

A configuration is its number and the alternate settings of its interfaces in
their order; `HasLayout` and `EndpointConfig` are what `read_endpoint_config`
accepts and returns, `Resolves` what `resolve_required_string` does, with
`Trim` for the trimming of the strings at hand.

`bus` maps addresses to devices; `Attach` and `Detach` change it at any time.
A client takes the list (`Enumerate`: `listed`), reads each candidate on it
(`Describe`: `found`), selects (`SelectOnly`, `SelectSerial`), looks up the address
again and compares the endpoints (`Reopen`), claims (`Claim`), makes a session
(`StartSession`, which refuses a packet size) and initializes (`Initialize`). An open handle is
dropped in two steps, as in the code: `DropResets` takes the chip out of MPSSE
mode, `DropReleases` gives up the interface. `holder` is libusb's claim;
`actual` the device the USB handle really is; `ready` has the devices whose
chip is initialized. `Ends` is any end of a call: the handle and its claim go
with it. `reused` remembers the addresses given to a second device, as happens
when a device is replaced between two steps. A device with another VID:PID is
passed over everywhere and is left out; so is a failing release, after which
`RusbHandle::drop` tries again.

### Laboratory

`Option` is one turn of the loop of `parse_args`, with valid and invalid values;
`EndOfArguments` its checks; `SampleBits`, `SampleU64` and `SampleRange` one turn of
the loops of `run_bits`, `run_u64` and `run_range`. A sample is any bytes, any
word or any value of the range, or an error. `received` and `rawBits` are all that
the library has returned and read, and are kept for the properties alone;
`CountBit` is the body of `BitStats::observe`. What the summary prints is defined as
`TotalBits`, `EstimatedRawBits`, `CommonBytes` (the first of the sorted list are those
with fewest before them, `Rank`), `Bar` and `Buckets`; `Preview` gives the positions of
the bytes shown of a sample.

## Runs

| Run | Question | Instance |
|---|---|---|
| `mpsse_sync` | does success leave nothing under way? | slow, lossy, failing chip, noisy until it is in MPSSE mode |
| `acquisition_exact` | own bytes only, exactly as many, nothing left, no way back from failure; does each step bring the end nearer; is it an `EntropySource`? | the same chip, two segments, two commands per segment, crashes |
| `acquisition_prompt` | does initialization of a prompt chip need a retry, or a call a recovery, and are bytes too many noticed as soon as a bulk read has room for them? | prompt chip that keeps old answers, crashes, a byte too many behind the last one, packets of 4, commands of up to 6 bytes |
| `acquisition_excess_late` | the same, when it comes later (violation) | slow chip |
| `acquisition_returns` | does every call return, and each transfer of `initialize` bring its end nearer? | slow, failing, noisy chip |
| `framing_whole` | payload and status told apart, `PayloadStream` implemented | packets of 4, 1 to 5 bytes, wrong status bytes |
| `framing_split` | bulk reads within packets (violation) | correct status bytes |
| `range_sampling` | in range, unbiased, bounded | 4-bit words, all ranges, 3 draws |
| `folding` | is the piecewise XOR the fold of the whole block? | folds 0 to 5, 0 to 48 bits, read commands of 4 bytes, overflow above 80 |
| `discovery_open` | a claim per handle, none leaked; is the chip left alone while open; is the open device the one asked for, chosen from all? | 2 clients, 2 addresses (both symmetric), 5 devices: two supported, an unsupported one with the serial of the first, one without a readable serial, one with packets of 32 bytes |
| `discovery_replug` | is it the device listed, whatever came to its address? (violation) | 1 client, devices with like endpoints |
| `laboratory` | is what is accepted served, are statistics and histogram whole, does success mean all samples? | up to 3 options, 1 or 2 samples, bytes of 2 bits, words of 2 bytes, ranges within 0 to 3 |

Bounds. The limits of `policy.rs` are 10, 64, 20 and 100; the runs use 2, 3 or
4, 2 and 3. Two empty reads and a limit above them give every order of reaching
the limits, two attempts and two pairs every kind of retry, and the theorems
hold for all limits. `MaxPipe` bounds what is left in the chip at first; two or
three bytes are a whole echo and a byte around it; a command's excess bytes are added while fewer
are left from before (`Excess`), so that they pile up over commands but not without end. `MaxBytes = 3` with `MaxRead = 2`
makes a segment of a full and a partial command, two segments share the
second buffer. Packets of 4 carry 2 bytes of payload; in `acquisition_prompt`, with `MaxBytes = 7`
and `MaxRead = 6`, commands of 2, 4 and 6 bytes fill theirs and those of 1, 3 and 5 leave
room, commands of 5 and 6 take two transfers, and a segment may follow a full command with one byte; five reads of a
purge, two of which must be empty, take 12 bytes, and 9 at most are there. `MaxLen = 5` with packets of 4 (2 payload bytes) spans three packets
and all alignments. Six bytes in pieces of four make a full and a partial piece per segment, for up to 16
segments. Two addresses with five devices force a replacement. The clients are alike, and so
are the addresses: nothing names one, and the properties quantify over all. The `VIEW`
of `discovery_open` leaves out `result`, which no action reads and no property of the run names.
For the laboratory two bits make every kind of run across a byte, two samples every
run across samples; three options set any two fields and the mode, and the
narrowest wide range has three values. `BarWidth`, `MaxBuckets` and `MaxCommon` are
scaled with them (4, 2 and 2 for 40, 256 and 8).

Deadlock is checked wherever the system has a next call; `initialize` on its
own stops when done, a failed framing command ends its device, and the laboratory is a
program that ends.

Fairness is assumed only for the steps of a call under way (`WF_vars(CallStep)`,
`WF_vars(Drawing)`): each USB transfer has a timeout of `USB_TIMEOUT_MS`, so the
code always takes its next step. Nothing is assumed of the chip, of new calls
or of crashes.

## What the violations show

1. `acquisition_excess_late`. The design asks that no entropy byte remain after
   a command's exact length (design, line 202). The code compares only the bytes
   already fetched (`protocol.rs:305`). A surplus byte in a later transfer stays in
   the chip after `Ok`, and nothing is read before the next command. The chip need not be
   slow for that: a command of a multiple of 62 (or 510) bytes fills the packets of
   its bulk read (`protocol.rs:386`), and what follows them is never asked for. With
   `HealthyIsClean` among its invariants `acquisition_prompt` is violated too, by a request of
   two bytes. What the code does give with a prompt chip is `ExcessNoticed`: surplus bytes, piled up
   over any number of such commands, segments and calls, are noticed by the first command
   that leaves room in its last packet, so a request that ends with one and
   succeeds has left none. For a chip without surplus bytes
   `HealthyIsClean` is a theorem (`NothingLeftBehind`).
2. `framing_split`. The design lists status bytes split between bulk reads as handled
   (line 328). Each transfer is taken to begin with status bytes
   (`protocol.rs:397`, position restarting at 0), so the rest of a cut packet is
   refused as a wrong modem status. Whole packets, which USB guarantees for bulk reads
   of a multiple of the packet size, are unaffected (`framing_whole`).
3. `discovery_replug`. The key of a listed device is to "reopen the same
   physical device" (`transport.rs:49`), but reopening compares address, VID:PID
   and endpoints only. With reuse of the address a handle may drive another
   BitBabbler than its `DeviceInfo` says.

## Theorems

| Theorem | Statement | Assumes |
|---|---|---|
| `InitTypeCorrect` | types and limits of `initialize` | |
| `SyncSound` | `EchoOrder`, `SyncedMeansEmpty` | `TrustedChip` |
| `InitIsBounded` | `WorkLeft` falls with each transfer | |
| `PromptFirstAttempt` | `PromptSucceeds` | `PromptChip` |
| `TypeCorrect` | types and limits of a handle | |
| `RequestCounted` | `Accounting`, exact length of a result | |
| `OwnBytesOnly` | `ExactlyFresh` | `ExactChip` |
| `CallIsBounded` | `CallBounded`: `CallWork` falls with each step of a call | |
| `NothingLeftBehind` | `CommandOnClean`, `OwnReply`, `HealthyIsClean`, `EchoOrder` | `ExactChip` |
| `PromptDeviceServes` | `PromptServes`, `PromptSucceeds`, `ExcessNoticed` | `PromptHandle` |
| `FailureIsFinal` | `FailedIsFinal` | no noise between calls |
| `HandleIsSource` | `Provides` | `ExactChip` |
| `FramingTypes` | `FramingTypeOK` | |
| `FramingSound` | `Stripped`, `StatusChecked`, `GoodChipAccepted` | `~Splits` |
| `FramingStreams` | `Streams`: the framing implements `PayloadStream` | `~Splits` |
| `FoldsWhole` | `TypeOK`, `FoldedSoFar`, `FoldedWhole` | |
| `FoldsSuccessively` | `IsSuccessiveFold` | |
| `ValueInRange` | `TypeOK`, `InRange` | |
| `RejectionDealsEvenly` | `EvenDeal` | |
| `ValuesAreEquallyLikely` | `Unbiased` | |
| `ClaimsAreHandles` | `TypeOK`, `ClaimsMatchHandles` | |
| `OpenIsAsked` | `OpenedAsAsked` | |
| `ChipStaysReady` | `ReadyWhenOpen` | |
| `SelectionIsWhole` | `SelectedFromAll` | |
| `LibraryServes` | `AcceptedIsServed` | |
| `SuccessPrintsAll` | `SuccessIsComplete` | |
| `LaboratoryTypes` | `LabTypeOK` | |
| `StatisticsOfAllReceived` | `StatsOfAll` | |
| `HistogramOfAllReceived` | `HistogramWhole` | |

All assume the named ASSUMEs on the constants, which say that limits are
positive and sets are what they are. `TrustedChip`, `ExactChip`, `PromptChip`, `PromptHandle` and
`~Splits` are assumptions on the chip and on bulk reads and are stated in the theorems; each is what
a run has: `mpsse_sync`, `acquisition_exact`, `acquisition_prompt` and `framing_whole`.
`PromptChip` also asks that `ReadRetries < DrainLimit`, 10 and 64 in `policy.rs`, and that the reads
a purge has beside its row of empty ones take all the chip may have to say (`Backlog`): 54 reads of 8192
bytes with their status bytes, some 420 000 bytes of payload, against the 65536 of a command and
what was left before it.

Every invariant and every action property a passing run checks is a theorem. The inductive
invariants are conjunctions of named parts, and each action has a lemma of its own that it keeps them.

The echo argument (`SyncSound`). `SyncedMeansEmpty` is far from inductive: the
client never sees the pipe. The invariant `EchoOrder` says what the pipe may hold at each
step. After the mode switch it holds echoes only. While `AA` is being asked for
no old `AA` is ahead of an old `AB`; hence once an echo of `AA` has
been read no `AB` is left. So the `AB` awaited next can only be the answer to the last
probe and is the last thing the chip says. A stale `AA` may well be accepted,
and it does no harm. The retry must therefore resend the pair and not the missed
probe: `SyncMissedRetriesProbe` breaks it.

A prompt chip (`PromptFirstAttempt`, `PromptDeviceServes`). `PromptInv`: the first purge takes
all an earlier client left, a buffer at a time and with reads to spare for its row of empty ones; from then on the pipe is empty but for the
answer to the probe that is awaited, so nothing is repeated. `ServedInv` carries it on through
the calls: what is in hand and under way while a command is read is never less than it wants, so
no read is empty however the buffers cut the answer, and in excess only if the chip sends excess bytes.
When the last wanted byte has come, the read has taken all there was, or the chunk holds a
byte too many, or the command's length is what whole packets carry: every read before filled its buffer
(`WholePackets`). The commands before the last one of a segment were of `MaxRead` bytes (`WholeReads`), so that
case is one of `FillsPackets`, which `ExcessNoticed` leaves out.

The handle (`OwnBytesOnly`, `NothingLeftBehind`). `HandleInv` (types, `Accounting`,
and that a call under way has not returned `Ok`) holds with any chip. `Clean` adds
`OwnReply` and `CommandOnClean`: every command meets an empty pipe, because it follows
a completed command of an exact chip or a successful `initialize`; then what
comes while it is read is its answer, and `Len(got) + Len(pipe)` never
exceeds what it asked for. A call that ends otherwise marks the handle failed, and a
new handle starts with `initialize`.

The promise (`HandleIsSource`). A step of `Acquisition` that serves a request is
quiet, fails, or ends it; that the reply of the last is all own bytes is
`OwnBytesOnly`, and that it leaves a usable handle needs the one new fact, that
a handle which serves has not failed (`ServesHealthy`).

The framing (`FramingSound`, `FramingStreams`). `WholeInv` says of the buffer within a bulk read
that ahead of `head` are whole packets (`Ahead`), all full but the last, with the next bytes of the payload
in their places and all bad status bytes there are. How many packets is an
existential: each turn of the loop takes one, and the last leaves none. A read asks for what
the payload needs with its status bytes and no more, so a full read ends at a packet's end; one that
ends elsewhere needs `Splits`, and `framing_split` shows what comes of it. At the end of a full
read the client's `line` is the chip's `lastLine`: keeping the status of an earlier packet, as `DrainPacketKeepingFirst` does, breaks `StatusChecked`. That the
framing implements `PayloadStream` is the same step seen from above: payload appears
in order or the command fails.

The fold (`FoldsWhole`). `FoldedSoFar` says which bytes have been XORed where, one
segment more before the offset than after it; with the collected first segment it is
inductive, and at the last piece it is `FoldedWhole`.

The whole block (`FoldsSuccessively`). `Combined(n, c)` is the block of `c` segments of `n` bytes
folded into one; halving `Combined(2n, c)` gives `Combined(n, 2c)`, so at most four
halvings of the block read give what `FoldedWhole` says is returned.

The words (`ValuesAreEquallyLikely`). The accepted words are an interval whose length is a multiple
`m` of the span (`EvenDeal`); those that leave a given remainder are one span apart, so there
are `m` of them for every value (`EqualShares`, by a bijection with `1 .. m`).

The bound (`InitIsBounded`). `WorkLeft` counts the loops ahead of all attempts, each worth
`DrainLimit` transfers, less those made. It is positive while `initialize` runs.

The bound of a call (`CallIsBounded`, module `HandleProofs`). `BoundInv` is `HandleInv` with the
fact that no reads are counted when `initialize` returns, needed where a recovery hands
over to the next command. A step within a recovery lowers `WorkLeft`; a read lowers
what is left of the try (`SameTry`); a failed try trades one of the recoveries left for its full
cost; a finished command or segment trades at least one byte left for the cost of a
command. Each lemma `...Less` is one such step. With it a call takes a bounded number of
transfers, and fairness is needed for no more than that transfers return.

The claims (`ClaimsAreHandles`). `ClaimsMatchHandles` is inductive with the types and the fact
that a client about to reopen has selected a device.

The device asked for (`OpenIsAsked`). What was read of an address describes
the device there as long as the address was not given again (`Known`), which
holds of every entry listed and selected; the device reopened is the one at the address.

The chip (`ChipStaysReady`). A client that resets a chip has claimed it: `StartSession`
comes after `Claim`, and `DropResets` before `DropReleases`. As a device has one claimant
(`ClaimsMatchHandles`), nobody but the owner of an open handle touches its chip. The swapped order of
closing, `DropResetsLast`, breaks it.

The selection (`SelectionIsWhole`). `found` has an entry per candidate described, each of a listed
address, and an address is described once; a client leaves the loop with none pending.

The laboratory (`LibraryServes`, `SuccessPrintsAll`). `LabInv` says that parsed options are of their types and
a fold is one that was asked for, that nothing is asked of the library before `Accepts`, and that the
samples so far have been received and printed whole.

The summary (`LaboratoryTypes`, `StatisticsOfAllReceived`, `HistogramOfAllReceived`). `SummaryInv`
says that the statistics are those of `received`, and the counts too. For the statistics that is
`Tallied`: the number of each bit, no run longer than the longest recorded, one that long, and
the run under way at the end, which is what carries a run across the ends of bytes and samples:
`CountByteAfresh`, which forgets it, breaks `StatsOfAll`. `CountBitTallies` is the
step for one bit; for a byte and a sample it is repeated along the fold, whose
steps `FoldOfBits` and `FoldOfBytes` lay out, by induction in the form of the least counterexample
(`LeastNumber`, `InductionUpTo`). `Ranked` and `CommonBytesAre` give the list of the most
common bytes: ranks are distinct and below the number of bytes seen, so every rank up to the
list's length is taken. The histogram follows from the counts, the maximum of a bounded set (`MaxExists`)
and `BarGrows`.

## Only model-checked, and not modelled

Model-checked only: liveness (`CallsReturn`, `CallEnds`), since the provers do not
handle it. `InitBounded` and `CallBounded`, which are proved, say that no more than a bounded number of
steps is left to take. The three violations are shown by their runs, on instances outside the
theorems' assumptions where those exist.

Not modelled: the conversion of eight bytes to a word; kernel driver detachment;
latency timer, clock and pin values, which the chip never answers to; the text of
errors; of the laboratory the text of options and numbers, percentages, elapsed time,
throughput, the header and the pause between samples; a bulk write that takes a part or nothing,
which `write_all` continues or fails like any other error. libusb, the chip and the
operating system are modelled as the code uses them and are marked external in
`PROJECT.json`. The mock transport and the tests script what the modules leave open.

## Plan

Done: `Mpsse`, `Acquisition` with `EntropySource`, `Framing` with `PayloadStream`, `Folding`,
`RangeSampling`, `Descriptors` and `Discovery`, `Laboratory` with their runs, and the theorems above. Next:

1. `Discovery` composed with `Acquisition` for two clients of one chip, with the bytes a
   closing or dying client leaves in it, and `OwnBytesOnly` for both.

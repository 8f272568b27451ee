----------------------------- MODULE Laboratory -----------------------------
(***************************************************************************)
(* The command-line laboratory, src/examples/bitb_lab.rs: it parses its     *)
(* arguments, opens a device, asks it for samples in one of three modes and *)
(* prints a summary of them.  A library call returns what it promises       *)
(* (modules Acquisition, RangeSampling, Folding) or an error.               *)
(***************************************************************************)
EXTENDS Integers, SequencesExt

CONSTANTS
    Width,        \* bits of a byte: 8
    WordBytes,    \* bytes of a u64: 8
    BarWidth,     \* BAR_WIDTH: marks of the longest bar
    MaxBuckets,   \* the widest range printed with its empty buckets: 256
    MaxCommon,    \* the bytes listed as most common: 8
    DefaultBits, DefaultEnd, DefaultShow,
    MaxBits, MaxSamples, MaxBound, MaxFold, MaxShow,
                  \* the largest numbers given as option values
    MaxFlags      \* the most options given

ASSUME LaboratoryAssumption ==
    /\ {Width, WordBytes, BarWidth, MaxCommon, DefaultEnd} \subseteq Nat \ {0}
    /\ {MaxBuckets, DefaultShow, MaxFlags} \subseteq Nat
    /\ {MaxBits, MaxSamples, MaxBound, MaxFold, MaxShow} \subseteq Nat
    /\ DefaultBits \in Nat \ {0} /\ DefaultBits % Width = 0

VARIABLES
    pc,        \* "parsing", "opening", "sampling" or "done"
    config,    \* Config
    foldSet,   \* fold_was_set
    flags,     \* how many options have been parsed
    sample,    \* how many samples have been delivered
    stats,     \* BitStats, of the bits and u64 modes
    counts,    \* the counts of the range mode
    lines,     \* for every sample printed, the positions shown of its bytes
    status,    \* how the program ended
    received,  \* all that the library has returned, in order
    rawBits    \* the bits read from the device for it

labVars == <<pc, config, foldSet, flags, sample, stats, counts, lines, status, received, rawBits>>

Modes == {"bits", "u64", "range"}
Serials == {"none", "", "given"}
Statuses == {"none", "Help", "Ok", "BadArguments", "Refused", "OpenFailed", "SampleFailed"}

Bit == 0 .. 1
Bytes == 0 .. 2^Width - 1
Word == [1 .. WordBytes -> Bytes]

SegmentCount == [f \in 0 .. 4 |-> <<1, 2, 4, 8, 16>>[f + 1]]

(* The values the options may be given, the invalid ones among them. *)
Options == [mode |-> Modes \cup {"other"}, bits |-> 0 .. MaxBits, samples |-> 0 .. MaxSamples,
            start |-> 0 .. MaxBound, end |-> 0 .. MaxBound, fold |-> 0 .. MaxFold,
            serial |-> {"", "given"}, show |-> 0 .. MaxShow]

Configs == [mode : Modes, bits : Nat, samples : Nat, start : Nat, end : Nat,
            fold : 0 .. 4, serial : Serials, show : Nat]

Default == [mode |-> "bits", bits |-> DefaultBits, samples |-> 1, start |-> 0,
            end |-> DefaultEnd, fold |-> 0, serial |-> "none", show |-> DefaultShow]

NoStats == [count |-> [b \in Bit |-> 0], longest |-> [b \in Bit |-> 0],
            current |-> 2, run |-> 0, frequency |-> [b \in Bytes |-> 0]]

LabTypeOK ==
    /\ pc \in {"parsing", "opening", "sampling", "done"}
    /\ config \in Configs
    /\ foldSet \in BOOLEAN
    /\ flags \in 0 .. MaxFlags
    /\ sample \in 0 .. config.samples
    /\ stats \in [count : [Bit -> Nat], longest : [Bit -> Nat], current : 0 .. 2,
                  run : Nat, frequency : [Bytes -> Nat]]
    /\ DOMAIN counts \subseteq Nat /\ \A v \in DOMAIN counts : counts[v] \in Nat \ {0}
    /\ lines \in Seq(Seq(Nat \ {0}))
    /\ status \in Statuses /\ (status # "none" <=> pc = "done")
    /\ rawBits \in Nat

----------------------------------------------------------------------------
(* The arguments. *)

Exits(how) ==
    /\ pc' = "done"
    /\ status' = how
    /\ UNCHANGED <<config, foldSet, flags, sample, stats, counts, lines, received, rawBits>>

(* main looks for --help before anything is parsed. *)
Help == pc = "parsing" /\ flags = 0 /\ Exits("Help")

(* An unknown option, one without a value, or a value that does not parse.  *)
BadArgument == pc = "parsing" /\ flags < MaxFlags /\ Exits("BadArguments")

(* Mutated: a fold is any number. *)
ValidValueAnyFold(option, v) ==
    /\ option = "mode" => v \in Modes
    /\ option = "serial" => v # ""

ValidValue(option, v) ==
    /\ option = "mode" => v \in Modes
    /\ option = "fold" => v \in 0 .. 4
    /\ option = "serial" => v # ""

Option(option, v) ==
    /\ pc = "parsing"
    /\ flags < MaxFlags
    /\ \/ ~ValidValue(option, v) /\ Exits("BadArguments")
       \/ /\ ValidValue(option, v)
          /\ config' = [config EXCEPT ![option] = v]
          /\ foldSet' = (foldSet \/ option = "fold")
          /\ flags' = flags + 1
          /\ UNCHANGED <<pc, sample, stats, counts, lines, status, received, rawBits>>

(* --format and --interval-ms, which say only how and when a sample is shown. *)
Presentation ==
    /\ pc = "parsing"
    /\ flags < MaxFlags
    /\ flags' = flags + 1
    /\ UNCHANGED <<pc, config, foldSet, sample, stats, counts, lines, status, received, rawBits>>

(* Mutated: the bits are only looked at when they were not left at 0. *)
AcceptsNoBits ==
    /\ config.samples # 0
    /\ config.mode = "bits" => config.bits % Width = 0
    /\ config.mode = "range" => config.start < config.end
    /\ foldSet => config.mode = "bits"

(* What parse_args requires of the options taken together. *)
Accepts ==
    /\ config.samples # 0
    /\ config.mode = "bits" => config.bits # 0 /\ config.bits % Width = 0
    /\ config.mode = "range" => config.start < config.end
    /\ foldSet => config.mode = "bits"

EndOfArguments ==
    /\ pc = "parsing"
    /\ \/ ~Accepts /\ Exits("BadArguments")
       \/ /\ Accepts
          /\ pc' = "opening"
          /\ UNCHANGED <<config, foldSet, flags, sample, stats, counts, lines, status, received, rawBits>>

----------------------------------------------------------------------------
(* The samples. *)

(* open, or open_by_serial, which refuses an empty serial. *)
OpenDevice ==
    /\ pc = "opening"
    /\ \/ Exits(IF config.serial = "" THEN "Refused" ELSE "OpenFailed")
       \/ /\ config.serial # ""
          /\ pc' = "sampling"
          /\ UNCHANGED <<config, foldSet, flags, sample, stats, counts, lines, status, received, rawBits>>

(* The arguments the library refuses: ZeroBitLength, BitLengthNotByteAligned *)
(* and InvalidRange.                                                        *)
Refused ==
    \/ config.mode = "bits" /\ (config.bits = 0 \/ config.bits % Width # 0)
    \/ config.mode = "range" /\ config.start >= config.end

Asking == pc = "sampling" /\ sample < config.samples

(* Mutated: an error ends the loop, not the program. *)
SampleFailsSoftly == Asking /\ Exits(IF Refused THEN "Refused" ELSE "Ok")

(* The library refuses, or fails in any other way. *)
SampleFails == Asking /\ Exits(IF Refused THEN "Refused" ELSE "SampleFailed")

BitsOf(byte) == [i \in 1 .. Width |-> IF (byte \div 2^(Width - i)) % 2 # 0 THEN 1 ELSE 0]

CountBit(st, bit) ==
    LET run == IF st.current = bit THEN st.run + 1 ELSE 1
    IN [st EXCEPT !.count[bit] = @ + 1,
                  !.current = bit,
                  !.run = run,
                  !.longest[bit] = IF run > @ THEN run ELSE @]

(* Mutated: a run ends with its byte. *)
CountByteAfresh(st, byte) ==
    FoldLeft(CountBit, [st EXCEPT !.frequency[byte] = @ + 1, !.current = 2], BitsOf(byte))

CountByte(st, byte) ==
    FoldLeft(CountBit, [st EXCEPT !.frequency[byte] = @ + 1], BitsOf(byte))

Observe(bytes) == FoldLeft(CountByte, stats, bytes)

Upto(n) == [i \in 1 .. n |-> i]

(* The positions shown of n bytes: none, all, or the first and last of them. *)
Preview(n) ==
    LET head == (config.show + 1) \div 2
        tail == config.show \div 2
    IN IF config.show = 0 THEN <<>>
       ELSE IF n <= config.show THEN Upto(n)
       ELSE Upto(head) \o [i \in 1 .. tail |-> n - tail + i]

Delivered(more, bits) ==
    /\ sample' = sample + 1
    /\ received' = received \o more
    /\ rawBits' = rawBits + bits
    /\ UNCHANGED <<pc, config, foldSet, flags, status>>

(* get_bits, or get_bits_with_fold when a fold was asked for. *)
SampleBits ==
    /\ Asking /\ config.mode = "bits" /\ ~Refused
    /\ \E bytes \in [1 .. config.bits \div Width -> Bytes] :
           /\ stats' = Observe(bytes)
           /\ lines' = Append(lines, Preview(Len(bytes)))
           /\ Delivered(bytes, config.bits * SegmentCount[config.fold])
    /\ UNCHANGED counts

SampleU64 ==
    /\ Asking /\ config.mode = "u64"
    /\ \E word \in Word :
           /\ stats' = Observe(word)
           /\ lines' = Append(lines, Upto(WordBytes))
           /\ Delivered(word, WordBytes * Width)
    /\ UNCHANGED counts

(* Nothing is printed of it before the histogram, nor are its bits counted. *)
SampleRange ==
    /\ Asking /\ config.mode = "range" /\ ~Refused
    /\ \E v \in config.start .. config.end - 1 :
           /\ counts' = [w \in DOMAIN counts \cup {v} |->
                            (IF w \in DOMAIN counts THEN counts[w] ELSE 0) + (IF w = v THEN 1 ELSE 0)]
           /\ Delivered(<<v>>, 0)
    /\ UNCHANGED <<stats, lines>>

(* The summary is printed, and what it says defined below. *)
Summarise == pc = "sampling" /\ sample = config.samples /\ Exits("Ok")

LabInit ==
    /\ pc = "parsing"
    /\ config = Default
    /\ foldSet = FALSE
    /\ flags = 0
    /\ sample = 0
    /\ stats = NoStats
    /\ counts = [v \in {} |-> 0]
    /\ lines = <<>>
    /\ status = "none"
    /\ received = <<>>
    /\ rawBits = 0

LabNext ==
    \/ Help
    \/ BadArgument
    \/ \E option \in DOMAIN Options : \E v \in Options[option] : Option(option, v)
    \/ Presentation
    \/ EndOfArguments
    \/ OpenDevice
    \/ SampleFails
    \/ SampleBits
    \/ SampleU64
    \/ SampleRange
    \/ Summarise

LabSpec == LabInit /\ [][LabNext]_labVars

----------------------------------------------------------------------------
(* What is printed at the end. *)

TotalBits == stats.count[0] + stats.count[1]

EstimatedRawBits == TotalBits * (IF config.mode = "bits" THEN SegmentCount[config.fold] ELSE 1)

(* The marks of the bar of a part of a whole. *)
Bar(part, whole) == IF whole = 0 THEN 0 ELSE (part * BarWidth) \div whole

(* The bytes listed: sorted with the more frequent first and then the        *)
(* smaller, those with fewer than MaxCommon before them.                    *)
Seen == {b \in Bytes : stats.frequency[b] > 0}
Before(a, b) == \/ stats.frequency[a] > stats.frequency[b]
                \/ stats.frequency[a] = stats.frequency[b] /\ a < b
Rank(b) == Cardinality({a \in Seen : Before(a, b)})
CommonBytes == {b \in Seen : Rank(b) < MaxCommon}

(* Mutated: the range is taken without its last value. *)
BucketsHalfOpen ==
    LET count(v) == IF v \in DOMAIN counts THEN counts[v] ELSE 0
        most == Max({0} \cup {counts[v] : v \in DOMAIN counts})
        values == IF config.end - config.start <= MaxBuckets
                     THEN config.start .. config.end - 2 ELSE DOMAIN counts
    IN [v \in values |-> [count |-> count(v), bar |-> Bar(count(v), most)]]

(* The buckets printed, with their counts and bars: those of all values of a *)
(* narrow range, those of the values seen of a wide one.                    *)
Buckets ==
    LET count(v) == IF v \in DOMAIN counts THEN counts[v] ELSE 0
        most == Max({0} \cup {counts[v] : v \in DOMAIN counts})
        values == IF config.end - config.start <= MaxBuckets
                     THEN config.start .. config.end - 1 ELSE DOMAIN counts
    IN [v \in values |-> [count |-> count(v), bar |-> Bar(count(v), most)]]

----------------------------------------------------------------------------
(* Correctness. *)

(* Whatever the options and their order, the library never refuses what the  *)
(* laboratory asks of it, and a fold asked for is not left out.             *)
AcceptedIsServed ==
    /\ status # "Refused"
    /\ pc \in {"opening", "sampling"} /\ (foldSet \/ config.fold # 0) => config.mode = "bits"

(* The bits received, as one sequence. *)
AllBits == FlattenSeq([i \in DOMAIN received |-> BitsOf(received[i])])

(* The longest stretch of a sequence with nothing but bit b in it. *)
LongestRun(s, b) ==
    Max({0} \cup {p[2] - p[1] + 1 : p \in {q \in (DOMAIN s) \X (DOMAIN s) :
                      q[1] <= q[2] /\ \A k \in q[1] .. q[2] : s[k] = b}})

(* The statistics, gathered bit by bit, are those of all bits received taken *)
(* together, runs across the ends of bytes and samples included; the raw    *)
(* bits printed are those read; the list of the most common bytes is full   *)
(* or has all there are, and no byte left off is more frequent than one on  *)
(* it.                                                                      *)
StatsOfAll ==
    config.mode # "range" =>
        /\ \A b \in Bit :
               /\ stats.count[b] = Cardinality({i \in DOMAIN AllBits : AllBits[i] = b})
               /\ stats.longest[b] = LongestRun(AllBits, b)
        /\ \A byte \in Bytes :
               stats.frequency[byte] = Cardinality({i \in DOMAIN received : received[i] = byte})
        /\ EstimatedRawBits = rawBits
        /\ Cardinality(CommonBytes) =
               (IF Cardinality(Seen) < MaxCommon THEN Cardinality(Seen) ELSE MaxCommon)
        /\ \A a \in CommonBytes, b \in Bytes \ CommonBytes :
               stats.frequency[a] >= stats.frequency[b]

(* The histogram of a run has every value received in one bucket, counted as *)
(* often as it was received; the fullest bucket has the longest bar and no   *)
(* bucket a longer one than a fuller one.                                   *)
HistogramWhole ==
    status = "Ok" /\ config.mode = "range" =>
        /\ ToSet(received) \subseteq DOMAIN Buckets
        /\ \A v \in DOMAIN Buckets :
               /\ Buckets[v].count = Cardinality({i \in DOMAIN received : received[i] = v})
               /\ \A w \in DOMAIN Buckets :
                      Buckets[v].count <= Buckets[w].count => Buckets[v].bar <= Buckets[w].bar
        /\ Max({Buckets[v].bar : v \in DOMAIN Buckets}) = BarWidth

(* The bytes of a sample. *)
SampleBytes == IF config.mode = "u64" THEN WordBytes ELSE config.bits \div Width

(* The program ends well only with all samples delivered, and all printed:   *)
(* whole, or as many bytes of each as are to be shown, none of them twice    *)
(* and, of two or more, the first and the last among them.                  *)
SuccessIsComplete ==
    status = "Ok" =>
        /\ sample = config.samples
        /\ Len(received) = sample * (IF config.mode = "range" THEN 1 ELSE SampleBytes)
        /\ config.mode # "range" => Len(lines) = sample
        /\ \A k \in DOMAIN lines :
               LET line == lines[k] IN
               /\ ToSet(line) \subseteq 1 .. SampleBytes
               /\ IsInjective(line)
               /\ config.mode = "u64" \/ config.show >= SampleBytes => Len(line) = SampleBytes
               /\ config.mode = "bits" /\ config.show < SampleBytes => Len(line) = config.show
               /\ Len(line) >= 2 => {1, SampleBytes} \subseteq ToSet(line)
============================================================================

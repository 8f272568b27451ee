-------------------------- MODULE LaboratoryProofs --------------------------
(* Proofs about the laboratory, for any width of bytes and words, any        *)
(* options and any number of samples.                                       *)
EXTENDS Laboratory, FiniteSetTheorems, TLAPS

(* The options parsed are of their types, and a fold was asked for if there  *)
(* is one.                                                                  *)
Parsed ==
    /\ config \in Configs
    /\ config.serial # ""
    /\ foldSet \in BOOLEAN
    /\ config.fold # 0 => foldSet

(* What is asked for has been accepted, and nothing is asked before. *)
Checked ==
    /\ pc \in {"opening", "sampling"} => Accepts
    /\ pc \in {"parsing", "opening"} => sample = 0 /\ received = <<>> /\ lines = <<>>
    /\ pc # "done" => status = "none"
    /\ status # "Refused"

(* The elements a sample adds to what was received. *)
Unit == IF config.mode = "range" THEN 1 ELSE SampleBytes

(* What is printed of a sample is as much of it as was asked for. *)
LineWhole(line) ==
    /\ ToSet(line) \subseteq 1 .. SampleBytes
    /\ IsInjective(line)
    /\ config.mode = "u64" \/ config.show >= SampleBytes => Len(line) = SampleBytes
    /\ config.mode = "bits" /\ config.show < SampleBytes => Len(line) = config.show
    /\ Len(line) >= 2 => {1, SampleBytes} \subseteq ToSet(line)

(* The samples delivered so far have been printed. *)
PrintedSoFar ==
    /\ sample \in Nat
    /\ received \in Seq(Int)
    /\ lines \in Seq(Seq(Nat))
    /\ Len(received) = sample * Unit
    /\ config.mode # "range" => Len(lines) = sample
    /\ \A k \in DOMAIN lines : LineWhole(lines[k])
    /\ status = "Ok" => sample = config.samples

LabInv == Parsed /\ Checked /\ PrintedSoFar

(* The fields of a configuration. *)
LEMMA ConfigFields ==
    ASSUME NEW c \in Configs
    PROVE  /\ c.mode \in Modes /\ c.bits \in Nat /\ c.samples \in Nat
           /\ c.start \in Nat /\ c.end \in Nat /\ c.fold \in 0 .. 4
           /\ c.serial \in Serials /\ c.show \in Nat
BY DEF Configs

(* A function of positions to bytes is a sequence of numbers. *)
LEMMA SequenceOfBytes ==
    ASSUME NEW n \in Nat, NEW f \in [1 .. n -> Bytes]
    PROVE  f \in Seq(Int) /\ Len(f) = n
<1>1. f \in [1 .. n -> Int] /\ DOMAIN f = 1 .. n
  BY DEF Bytes
<1> QED
  BY <1>1

(* A sample has a number of bytes. *)
LEMMA UnitNumber ==
    ASSUME config \in Configs
    PROVE  SampleBytes \in Nat /\ Unit \in Nat
<1>1. config.bits \in Nat /\ Width \in Nat \ {0} /\ WordBytes \in Nat \ {0}
  BY ConfigFields, LaboratoryAssumption
<1>2. config.bits \div Width \in Nat
  BY <1>1
<1> QED
  BY <1>1, <1>2 DEF SampleBytes, Unit

(* An option with a valid value leaves a configuration. *)
LEMMA OptionParsed ==
    ASSUME Parsed, NEW option \in DOMAIN Options, NEW v \in Options[option],
           ValidValue(option, v)
    PROVE  LET c == [config EXCEPT ![option] = v] IN
           c \in Configs /\ c.serial # "" /\ (c.fold # config.fold => option = "fold")
<1> DEFINE c == [config EXCEPT ![option] = v]
<1>1. /\ MaxBits \in Nat /\ MaxSamples \in Nat /\ MaxBound \in Nat
      /\ MaxFold \in Nat /\ MaxShow \in Nat
  BY LaboratoryAssumption
<1>2. option \in {"mode", "bits", "samples", "start", "end", "fold", "serial", "show"}
  BY DEF Options
<1>3. /\ option = "mode" => v \in Modes
      /\ option = "fold" => v \in 0 .. 4
      /\ option = "serial" => v # ""
  BY DEF ValidValue
<1>4. option = "serial" => v \in Serials
  <2>1. Options["serial"] = {"", "given"}
    BY DEF Options
  <2> QED
    BY <2>1 DEF Serials
<1>5. option = "bits" => v \in 0 .. MaxBits
  BY DEF Options
<1>6. option = "samples" => v \in 0 .. MaxSamples
  BY DEF Options
<1>7. option = "start" => v \in 0 .. MaxBound
  BY DEF Options
<1>8. option = "end" => v \in 0 .. MaxBound
  BY DEF Options
<1>9. option = "show" => v \in 0 .. MaxShow
  BY DEF Options
<1>10. option \in {"bits", "samples", "start", "end", "show"} => v \in Nat
  BY <1>1, <1>5, <1>6, <1>7, <1>8, <1>9
<1>11. config \in Configs /\ config.serial # ""
  BY DEF Parsed
<1>12. c \in Configs
  <2>1. CASE option = "mode"
    <3>1. c = [config EXCEPT !.mode = v]
      BY <2>1
    <3> QED
      BY <1>3, <1>4, <1>10, <1>11, <2>1, <3>1 DEF Configs
  <2>2. CASE option = "bits"
    <3>1. c = [config EXCEPT !.bits = v]
      BY <2>2
    <3> QED
      BY <1>3, <1>4, <1>10, <1>11, <2>2, <3>1 DEF Configs
  <2>3. CASE option = "samples"
    <3>1. c = [config EXCEPT !.samples = v]
      BY <2>3
    <3> QED
      BY <1>3, <1>4, <1>10, <1>11, <2>3, <3>1 DEF Configs
  <2>4. CASE option = "start"
    <3>1. c = [config EXCEPT !.start = v]
      BY <2>4
    <3> QED
      BY <1>3, <1>4, <1>10, <1>11, <2>4, <3>1 DEF Configs
  <2>5. CASE option = "end"
    <3>1. c = [config EXCEPT !.end = v]
      BY <2>5
    <3> QED
      BY <1>3, <1>4, <1>10, <1>11, <2>5, <3>1 DEF Configs
  <2>6. CASE option = "fold"
    <3>1. c = [config EXCEPT !.fold = v]
      BY <2>6
    <3> QED
      BY <1>3, <1>4, <1>10, <1>11, <2>6, <3>1 DEF Configs
  <2>7. CASE option = "serial"
    <3>1. c = [config EXCEPT !.serial = v]
      BY <2>7
    <3> QED
      BY <1>3, <1>4, <1>10, <1>11, <2>7, <3>1 DEF Configs
  <2>8. CASE option = "show"
    <3>1. c = [config EXCEPT !.show = v]
      BY <2>8
    <3> QED
      BY <1>3, <1>4, <1>10, <1>11, <2>8, <3>1 DEF Configs
  <2> QED
    BY <1>2, <2>1, <2>2, <2>3, <2>4, <2>5, <2>6, <2>7, <2>8
<1>13. c.serial # ""
  BY <1>3, <1>11 DEF Configs
<1>14. option # "fold" => c.fold = config.fold
  BY <1>11 DEF Configs
<1> QED
  BY <1>12, <1>13, <1>14

(* All positions of a sample are a whole line of it. *)
LEMMA UptoWhole ==
    ASSUME config \in Configs,
           config.mode = "u64" \/ config.show >= SampleBytes
    PROVE  Upto(SampleBytes) \in Seq(Nat) /\ LineWhole(Upto(SampleBytes))
<1> DEFINE n == SampleBytes
           line == Upto(n)
<1>1. n \in Nat
  BY UnitNumber
<1>2. /\ line \in Seq(Nat) /\ Len(line) = n /\ DOMAIN line = 1 .. n
      /\ \A i \in 1 .. n : line[i] = i
  BY <1>1 DEF Upto
<1>3. ToSet(line) \subseteq 1 .. n
  BY <1>2 DEF ToSet
<1>4. IsInjective(line)
  BY <1>2 DEF IsInjective
<1>5. n >= 2 => 1 \in ToSet(line) /\ n \in ToSet(line)
  BY <1>1, <1>2 DEF ToSet
<1>6. config.show \in Nat /\ (config.mode = "bits" /\ config.show < n => Len(line) = config.show)
  BY <1>1, ConfigFields
<1> QED
  BY <1>2, <1>3, <1>4, <1>5, <1>6 DEF LineWhole

(* The head and the tail of a longer sample are a line of it. *)
LEMMA PreviewWhole ==
    ASSUME config \in Configs, config.mode = "bits"
    PROVE  Preview(SampleBytes) \in Seq(Nat) /\ LineWhole(Preview(SampleBytes))
<1> DEFINE n == SampleBytes
           head == (config.show + 1) \div 2
           tail == config.show \div 2
           line == Preview(n)
<1>1. n \in Nat /\ config.show \in Nat
  BY UnitNumber, ConfigFields
<1>2. CASE config.show = 0
  <2>1. line = <<>> /\ Len(line) = 0 /\ line \in Seq(Nat) /\ DOMAIN line = {}
    BY <1>2 DEF Preview
  <2>2. ToSet(line) = {} /\ IsInjective(line)
    BY <2>1 DEF ToSet, IsInjective
  <2> QED
    BY <1>1, <1>2, <2>1, <2>2 DEF LineWhole
<1>3. CASE config.show # 0 /\ n <= config.show
  <2>1. line = Upto(n)
    BY <1>3 DEF Preview
  <2> QED
    BY <1>1, <1>3, <2>1, UptoWhole
<1>4. CASE config.show # 0 /\ n > config.show
  <2>1. head \in Nat /\ tail \in Nat /\ head + tail = config.show /\ head >= 1 /\ tail <= n
    BY <1>1, <1>4
  <2> DEFINE front == Upto(head)
             back == [i \in 1 .. tail |-> n - tail + i]
  <2>2. line = front \o back
    BY <1>1, <1>4 DEF Preview
  <2> HIDE DEF head, tail, n
  <2>3. /\ front \in Seq(Nat) /\ Len(front) = head
        /\ \A i \in 1 .. head : front[i] = i
    BY <2>1 DEF Upto
  <2>4. /\ back \in Seq(Nat) /\ Len(back) = tail
        /\ \A i \in 1 .. tail : back[i] = n - tail + i
    <3>1. \A i \in 1 .. tail : n - tail + i \in Nat
      BY <1>1, <2>1
    <3> QED
      BY <2>1, <3>1
  <2> HIDE DEF front, back, line
  <2>5. /\ line \in Seq(Nat) /\ Len(line) = config.show /\ DOMAIN line = 1 .. config.show
        /\ \A i \in 1 .. head : line[i] = i
        /\ \A i \in head + 1 .. config.show : line[i] = n - tail + (i - head)
    <3>1. front \o back \in Seq(Nat) /\ Len(front \o back) = config.show
      BY <2>1, <2>3, <2>4
    <3>2. \A i \in 1 .. head : (front \o back)[i] = front[i]
      BY <2>1, <2>3, <2>4
    <3>3. \A i \in head + 1 .. config.show : (front \o back)[i] = back[i - head]
      BY <1>1, <2>1, <2>3, <2>4, SMTT(40)
    <3>4. \A i \in head + 1 .. config.show : i - head \in 1 .. tail
      BY <1>1, <2>1
    <3> QED
      BY <2>2, <2>3, <2>4, <3>1, <3>2, <3>3, <3>4
  <2>6. \A i \in 1 .. config.show : line[i] \in 1 .. n
    BY <1>1, <1>4, <2>1, <2>5
  <2>7. ToSet(line) \subseteq 1 .. n
    BY <2>5, <2>6 DEF ToSet
  <2>8. \A i, j \in 1 .. config.show : line[i] = line[j] => i = j
    BY <1>1, <1>4, <2>1, <2>5
  <2>9. IsInjective(line)
    BY <2>5, <2>8 DEF IsInjective
  <2>10. line[1] = 1 /\ 1 \in DOMAIN line
    BY <1>1, <1>4, <2>1, <2>5
  <2>11. config.show >= 2 => tail >= 1
    BY <1>1 DEF tail
  <2>12. config.show >= 2 => line[config.show] = n /\ config.show \in DOMAIN line
    BY <1>1, <2>1, <2>5, <2>11
  <2>13. config.show >= 2 => {1, n} \subseteq ToSet(line)
    BY <2>10, <2>12 DEF ToSet
  <2> QED
    BY <1>1, <1>4, <2>5, <2>7, <2>9, <2>13 DEF LineWhole, n, line
<1> QED
  BY <1>1, <1>2, <1>3, <1>4

----------------------------------------------------------------------------
(* The program starts in LabInv. *)
LEMMA LabInvInit == LabInit => LabInv
<1> SUFFICES ASSUME LabInit
             PROVE  LabInv
  OBVIOUS
<1> USE DEF LabInit
<1>1. /\ DefaultBits \in Nat /\ DefaultEnd \in Nat /\ DefaultShow \in Nat
  BY LaboratoryAssumption
<1>2. Parsed
  <2>1. config \in Configs
    BY <1>1 DEF Default, Configs, Modes, Serials
  <2>2. config.serial # "" /\ config.fold = 0
    BY DEF Default
  <2> QED
    BY <2>1, <2>2 DEF Parsed
<1>3. Checked
  BY DEF Checked
<1>4. Unit \in Nat
  BY <1>2, UnitNumber DEF Parsed
<1>5. PrintedSoFar
  BY <1>4 DEF PrintedSoFar
<1> QED
  BY <1>2, <1>3, <1>5 DEF LabInv

(* What an ending leaves as it was, and what it may end with. *)
LEMMA ExitsKeeps ==
    ASSUME LabInv, NEW how, Exits(how), how # "Refused",
           how = "Ok" => sample = config.samples
    PROVE  LabInv'
<1> USE DEF Exits
<1>1. Parsed'
  BY DEF LabInv, Parsed
<1>2. Checked'
  BY DEF LabInv, Checked
<1>3. Unit' = Unit /\ \A line : LineWhole(line)' <=> LineWhole(line)
  BY DEF Unit, SampleBytes, LineWhole
<1>4. PrintedSoFar'
  BY <1>3 DEF LabInv, PrintedSoFar
<1> QED
  BY <1>1, <1>2, <1>4 DEF LabInv

(* An option, valid or not, keeps LabInv, *)
LEMMA OptionKeeps ==
    ASSUME LabInv, NEW option \in DOMAIN Options, NEW v \in Options[option], Option(option, v)
    PROVE  LabInv'
<1>1. CASE ~ValidValue(option, v)
  BY <1>1, ExitsKeeps DEF Option
<1>2. CASE ValidValue(option, v)
  <2>1. /\ config' = [config EXCEPT ![option] = v]
        /\ foldSet' = (foldSet \/ option = "fold")
        /\ pc = "parsing" /\ pc' = pc
        /\ UNCHANGED <<sample, lines, status, received>>
    BY <1>2 DEF Option
  <2>2. Parsed'
    BY <1>2, <2>1, OptionParsed DEF LabInv, Parsed
  <2>3. Checked'
    BY <2>1 DEF LabInv, Checked
  <2>4. Unit' \in Nat
    <3>1. config'.bits \in Nat /\ Width \in Nat \ {0} /\ WordBytes \in Nat \ {0}
      BY <2>2, ConfigFields, LaboratoryAssumption DEF Parsed
    <3>2. config'.bits \div Width \in Nat
      BY <3>1
    <3> QED
      BY <3>1, <3>2 DEF Unit, SampleBytes
  <2>5. sample = 0 /\ received = <<>> /\ lines = <<>> /\ status = "none"
    BY <2>1 DEF LabInv, Checked
  <2>6. PrintedSoFar'
    <3>1. sample' = 0 /\ received' = <<>> /\ lines' = <<>> /\ status' = "none"
      BY <2>1, <2>5
    <3>2. received' \in Seq(Int) /\ Len(received') = 0
      BY <3>1
    <3>3. \A n \in Nat : 0 * n = 0
      OBVIOUS
    <3>4. 0 * Unit' = 0
      BY <2>4, <3>3, Zenon
    <3>5. lines' \in Seq(Seq(Nat)) /\ Len(lines') = 0 /\ DOMAIN lines' = {}
      BY <3>1
    <3> QED
      BY <3>1, <3>2, <3>4, <3>5 DEF PrintedSoFar
  <2> QED
    BY <2>2, <2>3, <2>6 DEF LabInv
<1> QED
  BY <1>1, <1>2

(* A sample delivered and, unless a value of a range, printed whole. *)
LEMMA DeliveredKeeps ==
    ASSUME LabInv, pc = "sampling", NEW more \in Seq(Int), NEW bits,
           Len(more) = Unit, Delivered(more, bits),
           \/ config.mode = "range" /\ UNCHANGED lines
           \/ \E line \in Seq(Nat) : LineWhole(line) /\ lines' = Append(lines, line)
    PROVE  LabInv'
<1> USE DEF Delivered
<1>1. Parsed'
  BY DEF LabInv, Parsed
<1>2. Checked'
  BY DEF LabInv, Checked, Accepts
<1>3. Unit' = Unit /\ \A line : LineWhole(line)' <=> LineWhole(line)
  BY DEF Unit, SampleBytes, LineWhole
<1>4. Unit \in Nat /\ sample \in Nat /\ (sample + 1) * Unit = sample * Unit + Unit
  <2>1. Unit \in Nat /\ sample \in Nat
    BY UnitNumber DEF LabInv, Parsed, PrintedSoFar
  <2> QED
    BY <2>1
<1>5. received' \in Seq(Int) /\ Len(received') = (sample + 1) * Unit
  BY <1>4 DEF LabInv, PrintedSoFar
<1> DEFINE Printed ==
               /\ lines' \in Seq(Seq(Nat))
               /\ config.mode # "range" => Len(lines') = sample + 1
               /\ \A k \in DOMAIN lines' : LineWhole(lines'[k])
<1>6. Printed
  <2>1. CASE config.mode = "range" /\ UNCHANGED lines
    BY <2>1 DEF LabInv, PrintedSoFar
  <2>2. ASSUME NEW line \in Seq(Nat), LineWhole(line), lines' = Append(lines, line)
        PROVE  Printed
    <3>1. lines \in Seq(Seq(Nat)) /\ \A k \in 1 .. Len(lines) : LineWhole(lines[k])
      BY DEF LabInv, PrintedSoFar
    <3>2. /\ lines' \in Seq(Seq(Nat)) /\ Len(lines') = Len(lines) + 1
          /\ DOMAIN lines' = 1 .. Len(lines) + 1
          /\ \A k \in 1 .. Len(lines) : lines'[k] = lines[k]
          /\ lines'[Len(lines) + 1] = line
      BY <2>2, <3>1
    <3>3. \A k \in DOMAIN lines' : LineWhole(lines'[k])
      BY <2>2, <3>1, <3>2
    <3> QED
      BY <3>2, <3>3 DEF LabInv, PrintedSoFar
  <2> QED
    BY <2>1, <2>2
<1>7. status = "none"
  BY DEF LabInv, Checked
<1> QED
  BY <1>1, <1>2, <1>3, <1>4, <1>5, <1>6, <1>7 DEF LabInv, PrintedSoFar

(* as does a sample of bits, *)
LEMMA BitsSampleKeeps == LabInv /\ SampleBits => LabInv'
<1> SUFFICES ASSUME LabInv, SampleBits
             PROVE  LabInv'
  OBVIOUS
<1>1. PICK bytes \in [1 .. config.bits \div Width -> Bytes] :
          /\ lines' = Append(lines, Preview(Len(bytes)))
          /\ Delivered(bytes, config.bits * SegmentCount[config.fold])
  BY DEF SampleBits
<1>2. pc = "sampling" /\ config.mode = "bits" /\ config \in Configs
  BY DEF SampleBits, Asking, LabInv, Parsed
<1>3. SampleBytes \in Nat /\ SampleBytes = config.bits \div Width /\ Unit = SampleBytes
  BY <1>2, UnitNumber DEF SampleBytes, Unit
<1>4. bytes \in Seq(Int) /\ Len(bytes) = SampleBytes
  BY <1>1, <1>3, SequenceOfBytes
<1>5. Preview(SampleBytes) \in Seq(Nat) /\ LineWhole(Preview(SampleBytes))
  BY <1>2, PreviewWhole
<1> QED
  BY <1>1, <1>2, <1>3, <1>4, <1>5, DeliveredKeeps

(* a sample of a word, *)
LEMMA WordSampleKeeps == LabInv /\ SampleU64 => LabInv'
<1> SUFFICES ASSUME LabInv, SampleU64
             PROVE  LabInv'
  OBVIOUS
<1>1. PICK word \in Word :
          /\ lines' = Append(lines, Upto(WordBytes))
          /\ Delivered(word, WordBytes * Width)
  BY DEF SampleU64
<1>2. pc = "sampling" /\ config.mode = "u64" /\ config \in Configs
  BY DEF SampleU64, Asking, LabInv, Parsed
<1>3. WordBytes \in Nat /\ SampleBytes = WordBytes /\ Unit = WordBytes
  BY <1>2, LaboratoryAssumption DEF SampleBytes, Unit
<1>4. word \in Seq(Int) /\ Len(word) = WordBytes
  BY <1>1, <1>3, SequenceOfBytes DEF Word
<1>5. Upto(WordBytes) \in Seq(Nat) /\ LineWhole(Upto(WordBytes))
  BY <1>2, <1>3, UptoWhole
<1> QED
  BY <1>1, <1>2, <1>3, <1>4, <1>5, DeliveredKeeps

(* a value of a range, *)
LEMMA RangeSampleKeeps == LabInv /\ SampleRange => LabInv'
<1> SUFFICES ASSUME LabInv, SampleRange
             PROVE  LabInv'
  OBVIOUS
<1>1. PICK v \in config.start .. config.end - 1 : Delivered(<<v>>, 0)
  BY DEF SampleRange
<1>2. pc = "sampling" /\ config.mode = "range" /\ Unit = 1 /\ UNCHANGED lines
  BY DEF SampleRange, Asking, Unit
<1>3. <<v>> \in Seq(Int) /\ Len(<<v>>) = 1
  OBVIOUS
<1> QED
  BY <1>1, <1>2, <1>3, DeliveredKeeps

(* and so every step. *)
LEMMA LabInvNext == LabInv /\ [LabNext]_labVars => LabInv'
<1> SUFFICES ASSUME LabInv, [LabNext]_labVars
             PROVE  LabInv'
  OBVIOUS
<1>1. CASE Help
  BY <1>1, ExitsKeeps DEF Help
<1>2. CASE BadArgument
  BY <1>2, ExitsKeeps DEF BadArgument
<1>3. ASSUME NEW option \in DOMAIN Options, NEW v \in Options[option], Option(option, v)
      PROVE  LabInv'
  BY <1>3, OptionKeeps
<1>4. CASE Presentation
  <2>1. UNCHANGED <<pc, config, foldSet, sample, lines, status, received>>
    BY <1>4 DEF Presentation
  <2>2. Unit' = Unit /\ \A line : LineWhole(line)' <=> LineWhole(line)
    BY <2>1 DEF Unit, SampleBytes, LineWhole
  <2> QED
    BY <2>1, <2>2 DEF LabInv, Parsed, Checked, PrintedSoFar, Accepts
<1>5. CASE EndOfArguments
  <2>1. CASE Exits("BadArguments")
    BY <2>1, ExitsKeeps
  <2>2. CASE ~Exits("BadArguments")
    <3>1. /\ pc = "parsing" /\ Accepts /\ pc' = "opening"
          /\ UNCHANGED <<config, foldSet, sample, lines, status, received>>
      BY <1>5, <2>2 DEF EndOfArguments
    <3>2. Unit' = Unit /\ \A line : LineWhole(line)' <=> LineWhole(line)
      BY <3>1 DEF Unit, SampleBytes, LineWhole
    <3>3. Parsed' /\ Checked'
      BY <3>1 DEF LabInv, Parsed, Checked, Accepts
    <3> QED
      BY <3>1, <3>2, <3>3 DEF LabInv, PrintedSoFar
  <2> QED
    BY <2>1, <2>2
<1>6. CASE OpenDevice
  <2>1. config.serial # ""
    BY DEF LabInv, Parsed
  <2>2. CASE Exits("OpenFailed")
    BY <2>2, ExitsKeeps
  <2>3. CASE ~Exits("OpenFailed")
    <3>1. /\ pc = "opening" /\ pc' = "sampling"
          /\ UNCHANGED <<config, foldSet, sample, lines, status, received>>
      BY <1>6, <2>1, <2>3 DEF OpenDevice
    <3>2. Unit' = Unit /\ \A line : LineWhole(line)' <=> LineWhole(line)
      BY <3>1 DEF Unit, SampleBytes, LineWhole
    <3>3. Parsed' /\ Checked'
      BY <3>1 DEF LabInv, Parsed, Checked, Accepts
    <3> QED
      BY <3>1, <3>2, <3>3 DEF LabInv, PrintedSoFar
  <2> QED
    BY <2>2, <2>3
<1>7. CASE SampleFails
  <2>1. ~Refused
    <3>1. pc = "sampling" /\ Accepts /\ config \in Configs
      BY <1>7 DEF SampleFails, Asking, LabInv, Checked, Parsed
    <3>2. config.start \in Nat /\ config.end \in Nat
      BY <3>1, ConfigFields
    <3> QED
      BY <3>1, <3>2 DEF Accepts, Refused
  <2> QED
    BY <1>7, <2>1, ExitsKeeps DEF SampleFails
<1>8. CASE SampleBits
  BY <1>8, BitsSampleKeeps
<1>9. CASE SampleU64
  BY <1>9, WordSampleKeeps
<1>10. CASE SampleRange
  BY <1>10, RangeSampleKeeps
<1>11. CASE Summarise
  BY <1>11, ExitsKeeps DEF Summarise
<1>12. CASE UNCHANGED labVars
  <2>1. UNCHANGED <<pc, config, foldSet, sample, lines, status, received>>
    BY <1>12 DEF labVars
  <2>2. Unit' = Unit /\ \A line : LineWhole(line)' <=> LineWhole(line)
    BY <2>1 DEF Unit, SampleBytes, LineWhole
  <2> QED
    BY <2>1, <2>2 DEF LabInv, Parsed, Checked, PrintedSoFar, Accepts
<1> QED
  BY <1>1, <1>2, <1>3, <1>4, <1>5, <1>6, <1>7, <1>8, <1>9, <1>10, <1>11, <1>12 DEF LabNext

(* The invariant holds in every run of the program. *)
THEOREM LabInvariant == LabSpec => []LabInv
BY LabInvInit, LabInvNext, PTL DEF LabSpec

(* parse_args lets through nothing that the library refuses, in whatever     *)
(* order the options come, and drops no fold asked for.                     *)
THEOREM LibraryServes == LabSpec => []AcceptedIsServed
<1>1. LabInv => AcceptedIsServed
  BY DEF LabInv, Parsed, Checked, Accepts, AcceptedIsServed
<1> QED
  BY <1>1, LabInvariant, PTL

(* A run that exits with success has delivered every sample and printed what *)
(* was asked for of each.                                                   *)
THEOREM SuccessPrintsAll == LabSpec => []SuccessIsComplete
<1>1. LabInv => SuccessIsComplete
  BY DEF LabInv, PrintedSoFar, LineWhole, Unit, SuccessIsComplete
<1> QED
  BY <1>1, LabInvariant, PTL

-----------------------------------------------------------------------------
(* Least and greatest numbers, folds and counts.                             *)

(* A set of numbers that is not empty has a least one.  A statement about all *)
(* numbers follows when the set of those it fails for has no least.         *)
LEMMA LeastNumber ==
    ASSUME NEW S \in SUBSET Nat, S # {}
    PROVE  \E n \in S : \A m \in S : n <= m
<1> DEFINE R == {ss \in Nat \X Nat : ss[1] < ss[2]}
<1>1. IsWellFoundedOn(R, Nat)
  BY NatLessThanWellFounded DEF OpToRel
<1>2. \A i, j \in Nat : <<i, j>> \in R <=> i < j
  OBVIOUS
<1> HIDE DEF R
<1>3. PICK n \in S : \A m \in S : ~ (<<m, n>> \in R)
  BY <1>1, WFMin
<1>4. \A m \in S : ~ (m < n)
  BY <1>2, <1>3
<1> QED
  BY <1>4

(* What the maximum of a set is ... *)
LEMMA MaxIs ==
    ASSUME NEW S \in SUBSET Int, NEW m \in S, \A x \in S : x <= m
    PROVE  Max(S) = m
<1>1. \A x \in S : (\A y \in S : x >= y) => x = m
  OBVIOUS
<1>2. \E x \in S : \A y \in S : x >= y
  OBVIOUS
<1> DEFINE P(x) == x \in S /\ \A y \in S : x >= y
<1>3. P(Max(S))
  <2>1. \E x : P(x)
    BY <1>2
  <2>2. P(CHOOSE x : P(x))
    BY <2>1, Zenon
  <2>3. Max(S) = CHOOSE x : P(x)
    BY DEF Max
  <2> QED
    BY <2>2, <2>3
<1> QED
  BY <1>1, <1>3

(* ... and that a bounded one has it. *)
LEMMA MaxExists ==
    ASSUME NEW S \in SUBSET Nat, S # {}, NEW n \in Nat, \A x \in S : x <= n
    PROVE  Max(S) \in S /\ \A x \in S : x <= Max(S)
<1> DEFINE T == {k \in Nat : \A x \in S : x <= k}
<1>1. PICK m \in T : \A k \in T : m <= k
  <2>1. n \in T
    OBVIOUS
  <2> HIDE DEF T
  <2>2. T \subseteq Nat /\ T # {}
    BY <2>1 DEF T
  <2> QED
    BY <2>2, LeastNumber
<1>2. m \in S
  <2> SUFFICES ASSUME m \notin S PROVE FALSE
    OBVIOUS
  <2>1. \A x \in S : x < m
    BY <1>1
  <2>2. m - 1 \in Nat
    <3>1. PICK x \in S : x < m
      BY <2>1
    <3> QED
      BY <1>1, <3>1
  <2>3. m - 1 \in T
    BY <1>1, <2>1, <2>2
  <2> QED
    BY <1>1, <2>3
<1>3. Max(S) = m
  BY <1>1, <1>2, MaxIs
<1> QED
  BY <1>1, <1>2, <1>3

(* The statistics st with a sequence of bits, or of bytes, counted as well. *)
CountBits(st, s) == FoldLeft(CountBit, st, s)
CountBytes(st, s) == FoldLeft(CountByte, st, s)

(* h has the statistics after each of the n bits, or bytes, of s. *)
BitSteps(h, st, s, n) ==
    /\ h[0] = st
    /\ \A k \in 0 .. n - 1 : h[k + 1] = CountBit(h[k], s[k + 1])
    /\ CountBits(st, s) = h[n]
ByteSteps(h, st, s, n) ==
    /\ h[0] = st
    /\ \A k \in 0 .. n - 1 : h[k + 1] = CountByte(h[k], s[k + 1])
    /\ CountBytes(st, s) = h[n]

(* A fold of CountBit takes the bits one after the other. *)
LEMMA FoldOfBits ==
    ASSUME NEW st, NEW n \in Nat, NEW s, DOMAIN s = 1 .. n
    PROVE  \E h : BitSteps(h, st, s, n)
<1> DEFINE Folds(f, m) ==
        f = [S \in SUBSET (1 .. m) |->
                IF S = {} THEN st ELSE CountBit(f[S \ {Max(S)}], s[Max(S)])]
           Bad == {m \in Nat : ~ \E f : Folds(f, m)}
<1>1. \E f : Folds(f, 0)
  <2> DEFINE f == [S \in SUBSET (1 .. 0) |-> st]
  <2>1. \A S \in SUBSET (1 .. 0) : S = {}
    OBVIOUS
  <2>2. Folds(f, 0)
    BY <2>1
  <2> QED
    BY <2>2
<1>2. ASSUME NEW m \in Nat, \E f : Folds(f, m)
      PROVE  \E f : Folds(f, m + 1)
  <2>1. PICK f : Folds(f, m)
    BY <1>2
  <2> DEFINE g == [S \in SUBSET (1 .. m + 1) |->
                      IF m + 1 \in S THEN CountBit(f[S \ {m + 1}], s[m + 1]) ELSE f[S]]
  <2>2. ASSUME NEW S \in SUBSET (1 .. m + 1)
        PROVE  g[S] = IF S = {} THEN st ELSE CountBit(g[S \ {Max(S)}], s[Max(S)])
    <3>1. CASE m + 1 \in S
      <4>1. Max(S) = m + 1
        BY <3>1, MaxIs
      <4>2. S \ {m + 1} \in SUBSET (1 .. m + 1) /\ m + 1 \notin S \ {m + 1}
        OBVIOUS
      <4>3. g[S \ {m + 1}] = f[S \ {m + 1}]
        BY <4>2
      <4>4. g[S] = CountBit(f[S \ {m + 1}], s[m + 1])
        BY <3>1
      <4> QED
        BY <3>1, <4>1, <4>3, <4>4
    <3>2. CASE m + 1 \notin S
      <4>1. S \in SUBSET (1 .. m)
        BY <3>2
      <4>2. g[S] = f[S]
        BY <3>2
      <4>3. f[S] = IF S = {} THEN st ELSE CountBit(f[S \ {Max(S)}], s[Max(S)])
        BY <2>1, <4>1
      <4>4. S \ {Max(S)} \in SUBSET (1 .. m + 1) /\ m + 1 \notin S \ {Max(S)}
        BY <3>2
      <4>5. g[S \ {Max(S)}] = f[S \ {Max(S)}]
        BY <4>4
      <4> QED
        BY <4>2, <4>3, <4>5
    <3> QED
      BY <3>1, <3>2
  <2>3. Folds(g, m + 1)
    <3>1. g = [S \in SUBSET (1 .. m + 1) |-> g[S]]
      OBVIOUS
    <3> HIDE DEF g
    <3> QED
      BY <2>2, <3>1
  <2> QED
    BY <2>3
<1> HIDE DEF Folds
<1>3. Bad = {}
  <2> SUFFICES ASSUME Bad # {} PROVE FALSE
    OBVIOUS
  <2>1. PICK m \in Bad : \A k \in Bad : m <= k
    <3>1. Bad \in SUBSET Nat
      OBVIOUS
    <3> HIDE DEF Bad
    <3> QED
      BY <3>1, LeastNumber
  <2>2. m # 0
    BY <1>1, <2>1
  <2>3. m - 1 \in Nat /\ m - 1 \notin Bad /\ (m - 1) + 1 = m
    BY <2>1, <2>2
  <2> QED
    BY <1>2, <2>1, <2>3
<1> DEFINE iter == CHOOSE f : Folds(f, n)
<1>4. Folds(iter, n)
  <2>1. \E f : Folds(f, n)
    BY <1>3
  <2> QED
    BY <2>1, Zenon
<1>5. CountBits(st, s) = iter[1 .. n]
  BY DEF CountBits, FoldLeft, MapThenFoldSet, Folds
<1> HIDE DEF iter
<1> DEFINE h == [k \in 0 .. n |-> iter[1 .. k]]
<1>6. h[0] = st
  <2>1. 1 .. 0 = {} /\ 1 .. 0 \in SUBSET (1 .. n)
    OBVIOUS
  <2>2. iter[{}] = st
    BY <1>4, <2>1 DEF Folds
  <2> QED
    BY <2>1, <2>2
<1>7. ASSUME NEW k \in 0 .. n - 1
      PROVE  h[k + 1] = CountBit(h[k], s[k + 1])
  <2>1. 1 .. k + 1 \in SUBSET (1 .. n) /\ 1 .. k + 1 # {} /\ k \in 0 .. n /\ k + 1 \in 0 .. n
    OBVIOUS
  <2>2. Max(1 .. k + 1) = k + 1
    <3> DEFINE S == 1 .. k + 1
    <3>1. S \in SUBSET Int /\ k + 1 \in S /\ \A x \in S : x <= k + 1
      OBVIOUS
    <3> HIDE DEF S
    <3>2. Max(S) = k + 1
      BY <3>1, MaxIs
    <3> QED
      BY <3>2 DEF S
  <2>3. (1 .. k + 1) \ {k + 1} = 1 .. k
    OBVIOUS
  <2>4. iter[1 .. k + 1] = CountBit(iter[1 .. k], s[k + 1])
    BY <1>4, <2>1, <2>2, <2>3 DEF Folds
  <2> QED
    BY <2>1, <2>4
<1>8. h[n] = iter[1 .. n]
  OBVIOUS
<1> HIDE DEF h
<1> QED
  BY <1>5, <1>6, <1>7, <1>8 DEF BitSteps

(* A fold of CountByte takes the bytes one after the other. *)
LEMMA FoldOfBytes ==
    ASSUME NEW st, NEW n \in Nat, NEW s, DOMAIN s = 1 .. n
    PROVE  \E h : ByteSteps(h, st, s, n)
<1> DEFINE Folds(f, m) ==
        f = [S \in SUBSET (1 .. m) |->
                IF S = {} THEN st ELSE CountByte(f[S \ {Max(S)}], s[Max(S)])]
           Bad == {m \in Nat : ~ \E f : Folds(f, m)}
<1>1. \E f : Folds(f, 0)
  <2> DEFINE f == [S \in SUBSET (1 .. 0) |-> st]
  <2>1. \A S \in SUBSET (1 .. 0) : S = {}
    OBVIOUS
  <2>2. Folds(f, 0)
    BY <2>1
  <2> QED
    BY <2>2
<1>2. ASSUME NEW m \in Nat, \E f : Folds(f, m)
      PROVE  \E f : Folds(f, m + 1)
  <2>1. PICK f : Folds(f, m)
    BY <1>2
  <2> DEFINE g == [S \in SUBSET (1 .. m + 1) |->
                      IF m + 1 \in S THEN CountByte(f[S \ {m + 1}], s[m + 1]) ELSE f[S]]
  <2>2. ASSUME NEW S \in SUBSET (1 .. m + 1)
        PROVE  g[S] = IF S = {} THEN st ELSE CountByte(g[S \ {Max(S)}], s[Max(S)])
    <3>1. CASE m + 1 \in S
      <4>1. Max(S) = m + 1
        BY <3>1, MaxIs
      <4>2. S \ {m + 1} \in SUBSET (1 .. m + 1) /\ m + 1 \notin S \ {m + 1}
        OBVIOUS
      <4>3. g[S \ {m + 1}] = f[S \ {m + 1}]
        BY <4>2
      <4>4. g[S] = CountByte(f[S \ {m + 1}], s[m + 1])
        BY <3>1
      <4> QED
        BY <3>1, <4>1, <4>3, <4>4
    <3>2. CASE m + 1 \notin S
      <4>1. S \in SUBSET (1 .. m)
        BY <3>2
      <4>2. g[S] = f[S]
        BY <3>2
      <4>3. f[S] = IF S = {} THEN st ELSE CountByte(f[S \ {Max(S)}], s[Max(S)])
        BY <2>1, <4>1
      <4>4. S \ {Max(S)} \in SUBSET (1 .. m + 1) /\ m + 1 \notin S \ {Max(S)}
        BY <3>2
      <4>5. g[S \ {Max(S)}] = f[S \ {Max(S)}]
        BY <4>4
      <4> QED
        BY <4>2, <4>3, <4>5
    <3> QED
      BY <3>1, <3>2
  <2>3. Folds(g, m + 1)
    <3>1. g = [S \in SUBSET (1 .. m + 1) |-> g[S]]
      OBVIOUS
    <3> HIDE DEF g
    <3> QED
      BY <2>2, <3>1
  <2> QED
    BY <2>3
<1> HIDE DEF Folds
<1>3. Bad = {}
  <2> SUFFICES ASSUME Bad # {} PROVE FALSE
    OBVIOUS
  <2>1. PICK m \in Bad : \A k \in Bad : m <= k
    <3>1. Bad \in SUBSET Nat
      OBVIOUS
    <3> HIDE DEF Bad
    <3> QED
      BY <3>1, LeastNumber
  <2>2. m # 0
    BY <1>1, <2>1
  <2>3. m - 1 \in Nat /\ m - 1 \notin Bad /\ (m - 1) + 1 = m
    BY <2>1, <2>2
  <2> QED
    BY <1>2, <2>1, <2>3
<1> DEFINE iter == CHOOSE f : Folds(f, n)
<1>4. Folds(iter, n)
  <2>1. \E f : Folds(f, n)
    BY <1>3
  <2> QED
    BY <2>1, Zenon
<1>5. CountBytes(st, s) = iter[1 .. n]
  BY DEF CountBytes, FoldLeft, MapThenFoldSet, Folds
<1> HIDE DEF iter
<1> DEFINE h == [k \in 0 .. n |-> iter[1 .. k]]
<1>6. h[0] = st
  <2>1. 1 .. 0 = {} /\ 1 .. 0 \in SUBSET (1 .. n)
    OBVIOUS
  <2>2. iter[{}] = st
    BY <1>4, <2>1 DEF Folds
  <2> QED
    BY <2>1, <2>2
<1>7. ASSUME NEW k \in 0 .. n - 1
      PROVE  h[k + 1] = CountByte(h[k], s[k + 1])
  <2>1. 1 .. k + 1 \in SUBSET (1 .. n) /\ 1 .. k + 1 # {} /\ k \in 0 .. n /\ k + 1 \in 0 .. n
    OBVIOUS
  <2>2. Max(1 .. k + 1) = k + 1
    <3> DEFINE S == 1 .. k + 1
    <3>1. S \in SUBSET Int /\ k + 1 \in S /\ \A x \in S : x <= k + 1
      OBVIOUS
    <3> HIDE DEF S
    <3>2. Max(S) = k + 1
      BY <3>1, MaxIs
    <3> QED
      BY <3>2 DEF S
  <2>3. (1 .. k + 1) \ {k + 1} = 1 .. k
    OBVIOUS
  <2>4. iter[1 .. k + 1] = CountByte(iter[1 .. k], s[k + 1])
    BY <1>4, <2>1, <2>2, <2>3 DEF Folds
  <2> QED
    BY <2>1, <2>4
<1>8. h[n] = iter[1 .. n]
  OBVIOUS
<1> HIDE DEF h
<1> QED
  BY <1>5, <1>6, <1>7, <1>8 DEF ByteSteps

(* Induction up to m. *)
LEMMA InductionUpTo ==
    ASSUME NEW m \in Nat, NEW T, 0 \in T, \A k \in 0 .. m - 1 : k \in T => k + 1 \in T
    PROVE  \A k \in 0 .. m : k \in T
<1> DEFINE Bad == {k \in 0 .. m : k \notin T}
<1> SUFFICES ASSUME Bad # {} PROVE FALSE
  OBVIOUS
<1>1. PICK n \in Bad : \A k \in Bad : n <= k
  <2>1. Bad \in SUBSET Nat
    OBVIOUS
  <2> HIDE DEF Bad
  <2> QED
    BY <2>1, LeastNumber
<1>2. n \in 1 .. m
  BY <1>1
<1>3. n - 1 \in 0 .. m - 1 /\ n - 1 \notin Bad /\ (n - 1) + 1 = n
  BY <1>1, <1>2
<1> QED
  BY <1>1, <1>3

(* How often b is among the first n elements of s. *)
Times(s, n, b) == Cardinality({i \in 1 .. n : s[i] = b})

(* One place more to look for b in. *)
LEMMA CountGrows ==
    ASSUME NEW s, NEW n \in Nat, NEW b
    PROVE  /\ Times(s, n, b) \in Nat
           /\ Times(s, n + 1, b) = Times(s, n, b) + (IF s[n + 1] = b THEN 1 ELSE 0)
<1> DEFINE S == {i \in 1 .. n : s[i] = b}
           T == {i \in 1 .. n + 1 : s[i] = b}
<1>1. IsFiniteSet(1 .. n) /\ S \in SUBSET (1 .. n)
  BY FS_Interval
<1>2. IsFiniteSet(S) /\ n + 1 \notin S
  <2>1. IsFiniteSet(S)
    <3> HIDE DEF S
    <3> QED
      BY <1>1, FS_Subset
  <2> QED
    BY <2>1
<1>3. s[n + 1] = b => T = S \cup {n + 1}
  OBVIOUS
<1>4. s[n + 1] # b => T = S
  OBVIOUS
<1> HIDE DEF S, T
<1>5. Cardinality(S) \in Nat /\ Cardinality(S \cup {n + 1}) = Cardinality(S) + 1
  BY <1>2, FS_CardinalityType, FS_AddElement
<1>6. Cardinality(S) \in Nat /\ Cardinality(T) = Cardinality(S) + (IF s[n + 1] = b THEN 1 ELSE 0)
  BY <1>3, <1>4, <1>5
<1> QED
  BY <1>6 DEF S, T, Times

(* No place to look in. *)
LEMMA CountNone ==
    ASSUME NEW s, NEW b
    PROVE  Times(s, 0, b) = 0
<1>1. {i \in 1 .. 0 : s[i] = b} = {}
  OBVIOUS
<1> QED
  BY <1>1, FS_EmptySet DEF Times

-----------------------------------------------------------------------------
(* The statistics of a sequence of bits.                                     *)

Stats == [count : [Bit -> Nat], longest : [Bit -> Nat], current : 0 .. 2,
          run : Nat, frequency : [Bytes -> Nat]]

(* From p to q there is nothing but b. *)
RunOf(s, p, q, b) == \A k \in p .. q : s[k] = b

(* st counts the first n bits of s, knows the longest runs in them, and has   *)
(* the run they end with under way.                                         *)
Counted(st, s, n) ==
    /\ st.count[0] + st.count[1] = n
    /\ \A b \in Bit : st.count[b] = Times(s, n, b)
LongestAtMost(st, s, n) ==
    \A b \in Bit : \A p, q \in 1 .. n :
        p <= q /\ RunOf(s, p, q, b) => q - p + 1 <= st.longest[b]
LongestFound(st, s, n) ==
    \A b \in Bit : st.longest[b] # 0 =>
        \E p, q \in 1 .. n : p <= q /\ RunOf(s, p, q, b) /\ q - p + 1 = st.longest[b]
RunUnderWay(st, s, n) ==
    /\ st.run \in 0 .. n
    /\ n = 0 => st.current = 2
    /\ n > 0 => st.run > 0
    /\ RunOf(s, n - st.run + 1, n, st.current)
    /\ st.run < n => s[n - st.run] # st.current
Tallied(st, s, n) ==
    Counted(st, s, n) /\ LongestAtMost(st, s, n) /\ LongestFound(st, s, n) /\ RunUnderWay(st, s, n)

(* What CountBit does to the fields of the statistics. *)
LEMMA CountBitFields ==
    ASSUME NEW st \in Stats, NEW bit \in Bit
    PROVE  LET c == CountBit(st, bit) IN
           /\ c \in Stats
           /\ \A b \in Bit : c.count[b] = IF b = bit THEN st.count[b] + 1 ELSE st.count[b]
           /\ c.current = bit
           /\ c.run = IF st.current = bit THEN st.run + 1 ELSE 1
           /\ \A b \in Bit : c.longest[b] = IF b = bit /\ c.run > st.longest[b] THEN c.run ELSE st.longest[b]
           /\ c.frequency = st.frequency
<1> DEFINE run == IF st.current = bit THEN st.run + 1 ELSE 1
           count == [st.count EXCEPT ![bit] = @ + 1]
           longest == [st.longest EXCEPT ![bit] = IF run > @ THEN run ELSE @]
<1>1. /\ st.count \in [Bit -> Nat] /\ st.longest \in [Bit -> Nat]
      /\ st.run \in Nat /\ st.frequency \in [Bytes -> Nat] /\ bit \in 0 .. 2
  BY DEF Stats, Bit
<1>2. run \in Nat
  BY <1>1
<1>3. count \in [Bit -> Nat] /\ \A b \in Bit : count[b] = IF b = bit THEN st.count[b] + 1 ELSE st.count[b]
  BY <1>1
<1>4. longest \in [Bit -> Nat] /\ \A b \in Bit : longest[b] = IF b = bit /\ run > st.longest[b] THEN run ELSE st.longest[b]
  BY <1>1, <1>2
<1>5. CountBit(st, bit) = [count |-> count, longest |-> longest, current |-> bit, run |-> run,
                           frequency |-> st.frequency]
  <2>1. CountBit(st, bit) = [st EXCEPT !.count = count, !.current = bit, !.run = run, !.longest = longest]
    BY DEF CountBit, Stats
  <2> HIDE DEF run, count, longest
  <2> QED
    BY <2>1 DEF Stats
<1> HIDE DEF run, count, longest
<1>6. CountBit(st, bit) \in Stats
  BY <1>1, <1>2, <1>3, <1>4, <1>5 DEF Stats
<1> QED
  BY <1>3, <1>4, <1>5, <1>6 DEF run

(* One more bit is counted, in the run it continues or begins. *)
LEMMA CountBitTallies ==
    ASSUME NEW st \in Stats, NEW s, NEW n \in Nat, Tallied(st, s, n), s[n + 1] \in Bit
    PROVE  Tallied(CountBit(st, s[n + 1]), s, n + 1)
<1> DEFINE bit == s[n + 1]
           c == CountBit(st, bit)
<1>1. bit \in Bit /\ st.count \in [Bit -> Nat] /\ st.longest \in [Bit -> Nat] /\ st.run \in Nat
  BY DEF Stats
<1>2. /\ c \in Stats
      /\ \A b \in Bit : c.count[b] = IF b = bit THEN st.count[b] + 1 ELSE st.count[b]
      /\ c.current = bit
      /\ c.run = IF st.current = bit THEN st.run + 1 ELSE 1
      /\ \A b \in Bit : c.longest[b] = IF b = bit /\ c.run > st.longest[b] THEN c.run ELSE st.longest[b]
  BY CountBitFields
<1>3. c.run \in Nat /\ \A b \in Bit : c.longest[b] \in Nat
  BY <1>2 DEF Stats
<1> HIDE DEF c
<1>4. Counted(c, s, n + 1)
  <2>1. c.count[0] + c.count[1] = n + 1
    BY <1>1, <1>2 DEF Tallied, Counted, Bit
  <2>2. ASSUME NEW b \in Bit
        PROVE  c.count[b] = Times(s, n + 1, b)
    <3>1. st.count[b] = Times(s, n, b) /\ st.count[b] \in Nat
      BY <1>1 DEF Tallied, Counted
    <3>2. c.count[b] = st.count[b] + (IF s[n + 1] = b THEN 1 ELSE 0)
      BY <1>2, <3>1
    <3>3. Times(s, n + 1, b) = Times(s, n, b) + (IF s[n + 1] = b THEN 1 ELSE 0)
      BY CountGrows
    <3> QED
      BY <3>1, <3>2, <3>3
  <2> QED
    BY <2>1, <2>2 DEF Counted
<1>5. RunUnderWay(st, s, n)
  BY DEF Tallied
<1>6. st.current # bit /\ n > 0 => s[n] # bit
  BY <1>1, <1>5 DEF RunUnderWay, RunOf
<1>7. RunUnderWay(c, s, n + 1)
  <2>1. CASE st.current = bit
    <3>1. c.run = st.run + 1 /\ n + 1 - c.run = n - st.run /\ c.run \in 1 .. n + 1
      BY <1>1, <1>2, <1>5, <2>1 DEF RunUnderWay
    <3>2. \A k \in n - st.run + 1 .. n + 1 : s[k] = bit
      BY <1>1, <1>5, <2>1 DEF RunUnderWay, RunOf
    <3>3. st.run < n => s[n - st.run] # bit
      BY <1>5, <2>1 DEF RunUnderWay
    <3>4. RunOf(s, n + 1 - c.run + 1, n + 1, c.current)
      BY <1>2, <3>1, <3>2 DEF RunOf
    <3>5. c.run < n + 1 => s[n + 1 - c.run] # c.current
      BY <1>1, <1>2, <3>1, <3>3
    <3> QED
      BY <3>1, <3>4, <3>5 DEF RunUnderWay
  <2>2. CASE st.current # bit
    BY <1>1, <1>2, <1>6, <2>2 DEF RunUnderWay, RunOf
  <2> QED
    BY <2>1, <2>2
<1>8. LongestAtMost(c, s, n + 1)
  <2> SUFFICES ASSUME NEW b \in Bit, NEW p \in 1 .. n + 1, NEW q \in 1 .. n + 1,
                      p <= q, RunOf(s, p, q, b)
               PROVE  q - p + 1 <= c.longest[b]
    BY DEF LongestAtMost
  <2>1. CASE q <= n
    <3>1. q - p + 1 <= st.longest[b]
      BY <2>1 DEF Tallied, LongestAtMost
    <3>2. st.longest[b] <= c.longest[b]
      BY <1>1, <1>2, <1>3
    <3> QED
      BY <1>1, <1>3, <3>1, <3>2
  <2>2. CASE q = n + 1
    <3>1. b = bit /\ \A k \in p .. n + 1 : s[k] = bit
      BY <2>2 DEF RunOf
    <3>2. n + 1 - p + 1 <= c.run
      <4>1. c.run < n + 1 => s[n + 1 - c.run] # bit
        BY <1>2, <1>7 DEF RunUnderWay
      <4>2. c.run \in 0 .. n + 1
        BY <1>7 DEF RunUnderWay
      <4>3. ~ (p <= n + 1 - c.run)
        BY <3>1, <4>1, <4>2
      <4> QED
        BY <4>2, <4>3
    <3> QED
      BY <1>1, <1>2, <1>3, <2>2, <3>1, <3>2
  <2> QED
    BY <2>1, <2>2
<1>9. LongestFound(c, s, n + 1)
  <2> SUFFICES ASSUME NEW b \in Bit, c.longest[b] # 0
               PROVE  \E p, q \in 1 .. n + 1 : p <= q /\ RunOf(s, p, q, b) /\ q - p + 1 = c.longest[b]
    BY DEF LongestFound
  <2>1. CASE c.longest[b] = st.longest[b]
    <3>1. PICK p \in 1 .. n, q \in 1 .. n :
              p <= q /\ RunOf(s, p, q, b) /\ q - p + 1 = st.longest[b]
      BY <2>1 DEF Tallied, LongestFound
    <3>2. p \in 1 .. n + 1 /\ q \in 1 .. n + 1
      OBVIOUS
    <3> QED
      BY <2>1, <3>1, <3>2
  <2>2. CASE c.longest[b] # st.longest[b]
    <3>1. b = bit /\ c.longest[b] = c.run
      BY <1>2, <2>2
    <3> DEFINE p == n + 1 - c.run + 1
    <3>2. p \in 1 .. n + 1 /\ p <= n + 1 /\ (n + 1) - p + 1 = c.run
      BY <1>7 DEF RunUnderWay
    <3>3. RunOf(s, p, n + 1, b)
      BY <1>2, <1>7, <3>1 DEF RunUnderWay
    <3> HIDE DEF p
    <3>4. n + 1 \in 1 .. n + 1
      OBVIOUS
    <3> QED
      BY <3>1, <3>2, <3>3, <3>4
  <2> QED
    BY <2>1, <2>2
<1>10. Tallied(c, s, n + 1)
  BY <1>4, <1>7, <1>8, <1>9 DEF Tallied
<1> QED
  BY <1>10 DEF c

(* Only the first n elements count, for the numbers of each ... *)
LEMMA TimesSame ==
    ASSUME NEW s, NEW t, NEW n \in Nat, \A k \in 1 .. n : s[k] = t[k], NEW b
    PROVE  Times(s, n, b) = Times(t, n, b)
<1>1. {i \in 1 .. n : s[i] = b} = {i \in 1 .. n : t[i] = b}
  OBVIOUS
<1> QED
  BY <1>1 DEF Times

(* ... for the statistics either. *)
LEMMA TalliedSame ==
    ASSUME NEW st, NEW s, NEW t, NEW n \in Nat, \A k \in 1 .. n : s[k] = t[k], Tallied(st, s, n)
    PROVE  Tallied(st, t, n)
<1>1. \A p, q \in 1 .. n : \A b : RunOf(s, p, q, b) <=> RunOf(t, p, q, b)
  <2> SUFFICES ASSUME NEW p \in 1 .. n, NEW q \in 1 .. n, NEW b
               PROVE  RunOf(s, p, q, b) <=> RunOf(t, p, q, b)
    OBVIOUS
  <2>1. \A k \in p .. q : k \in 1 .. n
    OBVIOUS
  <2> QED
    BY <2>1 DEF RunOf
<1>2. Counted(st, t, n)
  BY TimesSame DEF Tallied, Counted
<1>3. LongestAtMost(st, t, n) /\ LongestFound(st, t, n)
  BY <1>1 DEF Tallied, LongestAtMost, LongestFound
<1>4. RunUnderWay(st, t, n)
  <2>1. st.run \in 0 .. n /\ RunUnderWay(st, s, n)
    BY DEF Tallied, RunUnderWay
  <2>2. \A k \in n - st.run + 1 .. n : k \in 1 .. n
    BY <2>1
  <2>3. st.run < n => n - st.run \in 1 .. n
    BY <2>1
  <2>4. RunOf(t, n - st.run + 1, n, st.current)
    <3>1. RunOf(s, n - st.run + 1, n, st.current)
      BY <2>1 DEF RunUnderWay
    <3> QED
      BY <2>2, <3>1 DEF RunOf
  <2>5. st.run < n => t[n - st.run] # st.current
    BY <2>1, <2>3 DEF RunUnderWay
  <2> QED
    BY <2>1, <2>4, <2>5 DEF RunUnderWay
<1> QED
  BY <1>2, <1>3, <1>4 DEF Tallied

(* The bits of a sequence of bytes, one after the other. *)
BitSeq(r) == [k \in 1 .. Width * Len(r) |-> BitsOf(r[((k - 1) \div Width) + 1])[((k - 1) % Width) + 1]]

(* A byte has Width bits, ... *)
LEMMA BitsOfByte ==
    ASSUME NEW byte
    PROVE  /\ DOMAIN BitsOf(byte) = 1 .. Width
           /\ \A j \in 1 .. Width : BitsOf(byte)[j] \in Bit
BY DEF BitsOf, Bit

(* ... those of byte m + 1 after those of m bytes. *)
LEMMA BitPlace ==
    ASSUME NEW r, Len(r) \in Nat, NEW m \in 0 .. Len(r) - 1, NEW j \in 1 .. Width
    PROVE  /\ Width * m + j \in 1 .. Width * Len(r)
           /\ BitSeq(r)[Width * m + j] = BitsOf(r[m + 1])[j]
<1>1. Width \in Nat \ {0} /\ Width * m \in Nat
  <2>1. Width \in Nat \ {0} /\ m \in Nat
    BY LaboratoryAssumption
  <2>2. \A a, b \in Nat : a * b \in Nat
    OBVIOUS
  <2> QED
    BY <2>1, <2>2
<1>2. Width * m + Width <= Width * Len(r)
  <2>1. Width * (Len(r) - m) = Width * Len(r) - Width * m
    BY <1>1
  <2>2. Width * (Len(r) - m) >= Width
    BY <1>1
  <2> QED
    BY <1>1, <2>1, <2>2
<1>3. Width * m + j \in 1 .. Width * Len(r)
  BY <1>1, <1>2
<1>4. ((Width * m + j) - 1) \div Width = m /\ ((Width * m + j) - 1) % Width = j - 1
  <2>1. \A e \in 0 .. Width - 1 : (Width * m + e) \div Width = m /\ (Width * m + e) % Width = e
    BY <1>1
  <2>2. (Width * m + j) - 1 = Width * m + (j - 1) /\ j - 1 \in 0 .. Width - 1
    BY <1>1
  <2> QED
    BY <2>1, <2>2
<1>5. (j - 1) + 1 = j
  OBVIOUS
<1> QED
  BY <1>3, <1>4, <1>5 DEF BitSeq

(* CountByte counts the bits of the next byte and the byte itself. *)
LEMMA CountByteTallies ==
    ASSUME NEW r \in Seq(Bytes), NEW m \in 0 .. Len(r) - 1,
           NEW st \in Stats, Tallied(st, BitSeq(r), Width * m)
    PROVE  LET c == CountByte(st, r[m + 1]) IN
           /\ c \in Stats
           /\ Tallied(c, BitSeq(r), Width * (m + 1))
           /\ c.frequency = [st.frequency EXCEPT ![r[m + 1]] = @ + 1]
<1> DEFINE byte == r[m + 1]
           frequency == [st.frequency EXCEPT ![byte] = @ + 1]
           st1 == [st EXCEPT !.frequency = frequency]
           s == BitSeq(r)
<1>1. Width \in Nat \ {0} /\ Width * m \in Nat /\ Width * (m + 1) = Width * m + Width
  <2>1. Width \in Nat \ {0} /\ m \in Nat
    BY LaboratoryAssumption
  <2> QED
    BY <2>1
<1>2. byte \in Bytes /\ Len(r) \in Nat
  OBVIOUS
<1>3. frequency \in [Bytes -> Nat]
  BY <1>2 DEF Stats
<1>4. CountByte(st, byte) = CountBits(st1, BitsOf(byte))
  BY DEF CountByte, CountBits
<1> HIDE DEF frequency
<1>5. /\ st1 \in Stats /\ st1.frequency = frequency
      /\ st1.count = st.count /\ st1.longest = st.longest
      /\ st1.current = st.current /\ st1.run = st.run
  BY <1>3 DEF Stats
<1> HIDE DEF st1
<1>6. Tallied(st1, s, Width * m)
  BY <1>5 DEF Tallied, Counted, LongestAtMost, LongestFound, RunUnderWay
<1>7. PICK h : /\ h[0] = st1
               /\ \A k \in 0 .. Width - 1 : h[k + 1] = CountBit(h[k], BitsOf(byte)[k + 1])
               /\ CountBits(st1, BitsOf(byte)) = h[Width]
  <2> DEFINE bits == BitsOf(byte)
  <2>1. DOMAIN bits = 1 .. Width
    BY BitsOfByte
  <2> HIDE DEF bits
  <2>2. \E h : BitSteps(h, st1, bits, Width)
    BY <1>1, <2>1, FoldOfBits
  <2> QED
    BY <2>2 DEF BitSteps, bits
<1> DEFINE T == {k \in 0 .. Width : h[k] \in Stats /\ Tallied(h[k], s, Width * m + k)
                                   /\ h[k].frequency = frequency}
<1>8. 0 \in T
  BY <1>1, <1>5, <1>6, <1>7
<1>9. ASSUME NEW k \in 0 .. Width - 1, k \in T
      PROVE  k + 1 \in T
  <2>1. k + 1 \in 1 .. Width /\ k + 1 \in 0 .. Width /\ Width * m + k \in Nat
        /\ (Width * m + k) + 1 = Width * m + (k + 1)
    BY <1>1
  <2>2. BitsOf(byte)[k + 1] \in Bit /\ s[(Width * m + k) + 1] = BitsOf(byte)[k + 1]
    BY <1>2, <2>1, BitPlace, BitsOfByte
  <2>3. h[k + 1] = CountBit(h[k], s[(Width * m + k) + 1])
    BY <1>7, <2>2
  <2>4. h[k] \in Stats /\ Tallied(h[k], s, Width * m + k) /\ h[k].frequency = frequency
    BY <1>9
  <2> HIDE DEF s
  <2>5. h[k + 1] \in Stats /\ h[k + 1].frequency = frequency
    BY <2>2, <2>3, <2>4, CountBitFields
  <2>6. Tallied(h[k + 1], s, Width * m + (k + 1))
    BY <2>1, <2>2, <2>3, <2>4, CountBitTallies
  <2> QED
    BY <2>1, <2>5, <2>6
<1>10. Width \in T
  <2>1. Width \in Nat /\ Width \in 0 .. Width
    BY <1>1
  <2> HIDE DEF T
  <2> QED
    BY <1>8, <1>9, <2>1, InductionUpTo
<1> QED
  BY <1>1, <1>4, <1>7, <1>10 DEF frequency

(* st is the statistics of the first m bytes of r. *)
Summarised(st, r, m) ==
    /\ st \in Stats
    /\ Tallied(st, BitSeq(r), Width * m)
    /\ \A b \in Bytes : st.frequency[b] = Times(r, m, b)

(* CountByte adds a byte to the statistics. *)
LEMMA CountByteSummarises ==
    ASSUME NEW r \in Seq(Bytes), NEW m \in 0 .. Len(r) - 1, NEW st, Summarised(st, r, m)
    PROVE  Summarised(CountByte(st, r[m + 1]), r, m + 1)
<1> DEFINE c == CountByte(st, r[m + 1])
<1>1. st \in Stats /\ Tallied(st, BitSeq(r), Width * m)
  BY DEF Summarised
<1>2. /\ c \in Stats
      /\ Tallied(c, BitSeq(r), Width * (m + 1))
      /\ c.frequency = [st.frequency EXCEPT ![r[m + 1]] = @ + 1]
  BY <1>1, CountByteTallies
<1> HIDE DEF c
<1>3. ASSUME NEW b \in Bytes
      PROVE  c.frequency[b] = Times(r, m + 1, b)
  <2>1. st.frequency[b] = Times(r, m, b) /\ st.frequency \in [Bytes -> Nat] /\ m \in Nat
    BY <1>1 DEF Summarised, Stats
  <2>2. c.frequency[b] = st.frequency[b] + (IF r[m + 1] = b THEN 1 ELSE 0)
    BY <1>2, <2>1
  <2>3. Times(r, m + 1, b) = Times(r, m, b) + (IF r[m + 1] = b THEN 1 ELSE 0)
    BY <2>1, CountGrows
  <2> QED
    BY <2>1, <2>2, <2>3
<1>4. Summarised(c, r, m + 1)
  BY <1>2, <1>3 DEF Summarised
<1> QED
  BY <1>4 DEF c

(* Observing more bytes makes the statistics those of all. *)
LEMMA ObserveSummarises ==
    ASSUME NEW r \in Seq(Bytes), NEW more \in Seq(Bytes), NEW st, Summarised(st, r, Len(r))
    PROVE  Summarised(CountBytes(st, more), r \o more, Len(r \o more))
<1> DEFINE all == r \o more
           n == Len(more)
<1>1. /\ all \in Seq(Bytes) /\ n \in Nat /\ Len(r) \in Nat /\ Len(all) = Len(r) + n
      /\ \A i \in 1 .. Len(r) : all[i] = r[i]
      /\ \A i \in 1 .. n : all[Len(r) + i] = more[i]
      /\ DOMAIN more = 1 .. n
  OBVIOUS
<1> HIDE DEF all, n
<1>2. Summarised(st, all, Len(r))
  <2>0. Width \in Nat \ {0}
    BY LaboratoryAssumption
  <2>1. Width \in Nat \ {0} /\ Width * Len(r) \in Nat
    BY <1>1, <2>0
  <2>2. \A k \in 1 .. Width * Len(r) : BitSeq(r)[k] = BitSeq(all)[k]
    <3> TAKE k \in 1 .. Width * Len(r)
    <3>1. Width * Len(r) <= Width * Len(all)
      <4>1. Width * Len(all) = Width * Len(r) + Width * n /\ Width * n \in Nat
        BY <1>1, <2>1
      <4> QED
        BY <2>1, <4>1
    <3>2. k \in 1 .. Width * Len(all)
      <4>1. Width * Len(all) \in Nat
        BY <1>1, <2>1
      <4> QED
        BY <2>1, <3>1, <4>1
    <3>3. ((k - 1) \div Width) + 1 \in 1 .. Len(r)
      <4> DEFINE q == (k - 1) \div Width
      <4>1. q \in Nat /\ Width * q <= k - 1
        BY <2>1
      <4> HIDE DEF q
      <4>2. Len(r) <= q => Width * Len(r) <= Width * q
        <5> SUFFICES ASSUME Len(r) <= q PROVE Width * Len(r) <= Width * q
          OBVIOUS
        <5> DEFINE d == q - Len(r)
        <5>1. d \in Nat /\ q = Len(r) + d
          BY <1>1, <4>1
        <5> HIDE DEF d
        <5>2. Width * d \in Nat /\ Width * q = Width * Len(r) + Width * d
          BY <1>1, <2>1, <5>1
        <5> QED
          BY <2>1, <5>2
      <4>3. q < Len(r)
        BY <1>1, <2>1, <4>1, <4>2
      <4>4. q + 1 \in 1 .. Len(r)
        BY <1>1, <4>1, <4>3
      <4> QED
        BY <4>4 DEF q
    <3> QED
      BY <1>1, <3>2, <3>3 DEF BitSeq
  <2>3. Tallied(st, BitSeq(all), Width * Len(r))
    <3>1. Tallied(st, BitSeq(r), Width * Len(r))
      BY DEF Summarised
    <3> QED
      BY <2>1, <2>2, <3>1, TalliedSame
  <2>4. ASSUME NEW b \in Bytes
        PROVE  Times(r, Len(r), b) = Times(all, Len(r), b)
    <3> DEFINE l == Len(r)
    <3>1. l \in Nat /\ \A i \in 1 .. l : r[i] = all[i]
      BY <1>1
    <3> HIDE DEF l
    <3>2. Times(r, l, b) = Times(all, l, b)
      BY <3>1, TimesSame
    <3> QED
      BY <3>2 DEF l
  <2> QED
    BY <2>3, <2>4 DEF Summarised
<1>3. PICK h : /\ h[0] = st
               /\ \A k \in 0 .. n - 1 : h[k + 1] = CountByte(h[k], more[k + 1])
               /\ CountBytes(st, more) = h[n]
  <2>1. \E h : ByteSteps(h, st, more, n)
    BY <1>1, FoldOfBytes
  <2> QED
    BY <2>1 DEF ByteSteps
<1> DEFINE T == {k \in 0 .. n : Summarised(h[k], all, Len(r) + k)}
<1>4. 0 \in T
  BY <1>1, <1>2, <1>3
<1>5. ASSUME NEW k \in 0 .. n - 1, k \in T
      PROVE  k + 1 \in T
  <2>1. /\ Len(r) + k \in 0 .. Len(all) - 1 /\ k + 1 \in 1 .. n /\ k + 1 \in 0 .. n
        /\ (Len(r) + k) + 1 = Len(r) + (k + 1)
    BY <1>1
  <2>2. h[k + 1] = CountByte(h[k], all[(Len(r) + k) + 1])
    BY <1>1, <1>3, <2>1
  <2>3. Summarised(h[k + 1], all, (Len(r) + k) + 1)
    BY <1>1, <1>5, <2>1, <2>2, CountByteSummarises
  <2> QED
    BY <2>1, <2>3
<1>6. n \in T
  <2>1. n \in 0 .. n
    BY <1>1
  <2> HIDE DEF T
  <2> QED
    BY <1>1, <1>4, <1>5, <2>1, InductionUpTo
<1>7. Summarised(CountBytes(st, more), all, Len(all))
  BY <1>1, <1>3, <1>6
<1> QED
  BY <1>7 DEF all

(* Two sequences of bits that agree everywhere are the same. *)
LEMMA SameBits ==
    ASSUME NEW n \in Nat, NEW s \in Seq(Bit), NEW t \in Seq(Bit), Len(s) = n, Len(t) = n,
           \A k \in 1 .. n : s[k] = t[k]
    PROVE  s = t
OBVIOUS

(* The bits of the first m bytes. *)
BitsUpto(r, m) == [k \in 1 .. Width * m |-> BitSeq(r)[k]]

(* They are a sequence ... *)
LEMMA BitsUptoType ==
    ASSUME NEW r \in Seq(Bytes), NEW m \in 0 .. Len(r)
    PROVE  BitsUpto(r, m) \in Seq(Bit) /\ Len(BitsUpto(r, m)) = Width * m
<1>1. Width \in Nat \ {0} /\ m \in Nat /\ Len(r) \in Nat
  BY LaboratoryAssumption
<1>2. Width * m \in Nat
  BY <1>1
<1>3. ASSUME NEW k \in 1 .. Width * m
      PROVE  BitSeq(r)[k] \in Bit
  <2> DEFINE q == (k - 1) \div Width
             e == (k - 1) % Width
  <2>1. q \in Nat /\ e \in 0 .. Width - 1 /\ k = Width * q + (e + 1)
    BY <1>1, <1>2
  <2> HIDE DEF q, e
  <2>2. q < m
    <3> SUFFICES ASSUME m <= q PROVE FALSE
      BY <1>1, <2>1
    <3> DEFINE d == q - m
    <3>1. d \in Nat /\ q = m + d
      BY <1>1, <2>1
    <3> HIDE DEF d
    <3>2. Width * d \in Nat /\ Width * q = Width * m + Width * d
      BY <1>1, <3>1
    <3> QED
      BY <1>1, <1>2, <2>1, <3>2
  <2>3. q \in 0 .. Len(r) - 1 /\ e + 1 \in 1 .. Width
    BY <1>1, <2>1, <2>2
  <2> QED
    <3>1. BitSeq(r)[Width * q + (e + 1)] = BitsOf(r[q + 1])[e + 1]
      BY <1>1, <2>3, BitPlace
    <3>2. BitsOf(r[q + 1])[e + 1] \in Bit
      BY <2>3, BitsOfByte
    <3> QED
      BY <2>1, <3>1, <3>2
<1>4. BitsUpto(r, m) \in [1 .. Width * m -> Bit]
  BY <1>3 DEF BitsUpto
<1> QED
  BY <1>2, <1>4

(* ... that grows by the bits of a byte. *)
LEMMA BitsUptoGrows ==
    ASSUME NEW r \in Seq(Bytes), NEW m \in 0 .. Len(r) - 1
    PROVE  BitsUpto(r, m + 1) = BitsUpto(r, m) \o BitsOf(r[m + 1])
<1> DEFINE s == BitsUpto(r, m)
           t == BitsUpto(r, m + 1)
           b == BitsOf(r[m + 1])
<1>1. Width \in Nat \ {0} /\ m \in Nat /\ Len(r) \in Nat
  BY LaboratoryAssumption
<1>2. Width * m \in Nat /\ Width * (m + 1) = Width * m + Width
  BY <1>1
<1>3. s \in Seq(Bit) /\ Len(s) = Width * m
  BY <1>1, BitsUptoType
<1>4. t \in Seq(Bit) /\ Len(t) = Width * m + Width
  <2>1. m + 1 \in 0 .. Len(r)
    BY <1>1
  <2> QED
    BY <1>2, <2>1, BitsUptoType
<1>5. b \in Seq(Bit) /\ Len(b) = Width
  <2>1. b \in [1 .. Width -> Bit]
    BY BitsOfByte DEF BitsOf
  <2> HIDE DEF b
  <2> QED
    BY <1>1, <2>1
<1>6. \A k \in 1 .. Width * m : s[k] = t[k]
  BY <1>1, <1>2 DEF BitsUpto
<1>7. \A j \in 1 .. Width : t[Width * m + j] = b[j]
  <2> TAKE j \in 1 .. Width
  <2>1. Width * m + j \in 1 .. Width * (m + 1)
    BY <1>1, <1>2
  <2>2. t[Width * m + j] = BitSeq(r)[Width * m + j]
    BY <2>1 DEF BitsUpto
  <2>3. BitSeq(r)[Width * m + j] = b[j]
    BY <1>1, BitPlace
  <2> QED
    BY <2>2, <2>3
<1> DEFINE l == Width * m
<1>8. l \in Nat /\ Len(s) = l /\ Len(t) = l + Width /\ (\A k \in 1 .. l : s[k] = t[k])
      /\ \A j \in 1 .. Width : t[l + j] = b[j]
  BY <1>2, <1>3, <1>4, <1>6, <1>7
<1> HIDE DEF s, t, b, l
<1>9. /\ s \o b \in Seq(Bit) /\ Len(s \o b) = l + Width
      /\ \A k \in 1 .. l : (s \o b)[k] = s[k]
      /\ \A j \in 1 .. Width : (s \o b)[l + j] = b[j]
  <2>1. s \in Seq(Bit) /\ b \in Seq(Bit) /\ Len(s) = l /\ Len(b) = Width
    BY <1>3, <1>5, <1>8
  <2>2. l \in Nat /\ Width \in Nat
    BY <1>1, <1>8
  <2>3. s \o b \in Seq(Bit) /\ Len(s \o b) = l + Width
    BY <2>1
  <2>4. \A k \in 1 .. l : (s \o b)[k] = s[k]
    BY <2>1, <2>2
  <2>5. \A j \in 1 .. Width : (s \o b)[l + j] = b[j]
    BY <2>1, <2>2
  <2> QED
    BY <2>3, <2>4, <2>5
<1>10. \A k \in 1 .. l + Width : t[k] = (s \o b)[k]
  <2> TAKE k \in 1 .. l + Width
  <2>1. CASE k <= l
    BY <1>8, <1>9, <2>1
  <2>2. CASE k > l
    <3>1. k - l \in 1 .. Width /\ l + (k - l) = k
      BY <1>1, <1>8, <2>2
    <3> QED
      BY <1>8, <1>9, <3>1
  <2>3. l \in Nat /\ Width \in Nat
    BY <1>1, <1>8
  <2>4. k <= l \/ k > l
    BY <2>3
  <2> QED
    BY <2>1, <2>2, <2>4
<1>11. t = s \o b
  <2> DEFINE u == s \o b
             n == l + Width
  <2>1. n \in Nat /\ t \in Seq(Bit) /\ u \in Seq(Bit) /\ Len(t) = n /\ Len(u) = n
    BY <1>1, <1>4, <1>8, <1>9
  <2>2. \A k \in 1 .. n : t[k] = u[k]
    BY <1>10
  <2> HIDE DEF u, n
  <2>3. t = u
    BY <2>1, <2>2, SameBits
  <2> QED
    BY <2>3 DEF u
<1> QED
  BY <1>11 DEF s, t, b

(* The bits received are those of the bytes received. *)
LEMMA FlattenedBits ==
    ASSUME NEW r \in Seq(Bytes)
    PROVE  FlattenSeq([i \in DOMAIN r |-> BitsOf(r[i])]) = BitSeq(r)
<1> DEFINE n == Len(r)
           seqs == [i \in DOMAIN r |-> BitsOf(r[i])]
           Flattens(f) == f = [i \in 1 .. Len(seqs) |-> IF i = 1 THEN seqs[i] ELSE f[i - 1] \o seqs[i]]
           f == CHOOSE f : Flattens(f)
           g == [i \in 1 .. n |-> BitsUpto(r, i)]
<1>1. n \in Nat /\ DOMAIN r = 1 .. n /\ Width \in Nat \ {0}
  BY LaboratoryAssumption
<1>2. Len(seqs) = n /\ \A i \in 1 .. n : seqs[i] = BitsOf(r[i])
  BY <1>1
<1>3. CASE n = 0
  <2>1. seqs = BitSeq(r)
    BY <1>1, <1>3 DEF BitSeq
  <2>2. FlattenSeq(seqs) = seqs
    BY <1>2, <1>3 DEF FlattenSeq
  <2> QED
    BY <2>1, <2>2
<1>4. CASE n # 0
  <2>1. BitsUpto(r, 1) = BitsOf(r[1])
    <3>1. BitsUpto(r, 0 + 1) = BitsUpto(r, 0) \o BitsOf(r[0 + 1])
      <4>1. 0 \in 0 .. Len(r) - 1
        BY <1>1, <1>4
      <4> QED
        BY <4>1, BitsUptoGrows
    <3>2. BitsUpto(r, 0) = <<>>
      BY <1>1 DEF BitsUpto
    <3>3. BitsOf(r[1]) \in Seq(Bit)
      <4>1. BitsOf(r[1]) \in [1 .. Width -> Bit]
        BY BitsOfByte DEF BitsOf
      <4> QED
        BY <1>1, <4>1
    <3> QED
      BY <3>1, <3>2, <3>3
  <2>2. ASSUME NEW i \in 2 .. n
        PROVE  BitsUpto(r, i) = BitsUpto(r, i - 1) \o BitsOf(r[i])
    <3> DEFINE m == i - 1
    <3>1. m \in 0 .. Len(r) - 1 /\ m + 1 = i
      BY <1>1
    <3> HIDE DEF m
    <3>2. BitsUpto(r, m + 1) = BitsUpto(r, m) \o BitsOf(r[m + 1])
      BY <3>1, BitsUptoGrows
    <3> QED
      BY <3>1, <3>2 DEF m
  <2> HIDE DEF seqs
  <2>3. Flattens(g)
    <3>1. ASSUME NEW i \in 1 .. n
          PROVE  g[i] = IF i = 1 THEN seqs[i] ELSE g[i - 1] \o seqs[i]
      <4>1. CASE i = 1
        BY <1>2, <2>1, <4>1
      <4>2. CASE i # 1
        <5>1. i \in 2 .. n /\ i - 1 \in 1 .. n
          BY <1>1, <4>2
        <5>2. g[i] = BitsUpto(r, i) /\ g[i - 1] = BitsUpto(r, i - 1)
          BY <5>1
        <5> HIDE DEF g
        <5> QED
          BY <1>2, <2>2, <4>2, <5>1, <5>2
      <4> QED
        BY <4>1, <4>2
    <3>2. g = [i \in 1 .. n |-> g[i]]
      OBVIOUS
    <3> HIDE DEF g, n
    <3> QED
      BY <1>2, <3>1, <3>2
  <2> HIDE DEF g, n
  <2>4. Flattens(f)
    <3> HIDE DEF Flattens
    <3>1. \E h : Flattens(h)
      BY <2>3
    <3> QED
      BY <3>1, Zenon
  <2>5. FlattenSeq(seqs) = f[n]
    BY <1>2, <1>4 DEF FlattenSeq
  <2> HIDE DEF f
  <2> DEFINE T == {k \in 0 .. n : k = 0 \/ f[k] = g[k]}
  <2>6. 0 \in T
    BY <1>1
  <2>7. ASSUME NEW k \in 0 .. n - 1, k \in T
        PROVE  k + 1 \in T
    <3>1. k + 1 \in 1 .. n /\ k + 1 \in 0 .. n /\ (k + 1) - 1 = k
      BY <1>1
    <3>2. f[k + 1] = IF k + 1 = 1 THEN seqs[k + 1] ELSE f[(k + 1) - 1] \o seqs[k + 1]
      BY <1>2, <2>4, <3>1
    <3>3. g[k + 1] = IF k + 1 = 1 THEN seqs[k + 1] ELSE g[(k + 1) - 1] \o seqs[k + 1]
      BY <1>2, <2>3, <3>1
    <3>4. k # 0 => f[k] = g[k]
      BY <2>7
    <3>5. f[k + 1] = g[k + 1]
      BY <3>1, <3>2, <3>3, <3>4
    <3> QED
      BY <3>1, <3>5
  <2>8. n \in T
    <3>1. n \in 0 .. n
      BY <1>1
    <3> HIDE DEF T
    <3> QED
      BY <1>1, <2>6, <2>7, <3>1, InductionUpTo
  <2>9. g[n] = BitSeq(r)
    <3>1. n \in 1 .. n
      BY <1>1, <1>4
    <3>2. g[n] = BitsUpto(r, n)
      BY <3>1 DEF g
    <3>3. BitsUpto(r, n) = BitSeq(r)
      BY DEF BitsUpto, BitSeq, n
    <3> QED
      BY <3>2, <3>3
  <2>10. FlattenSeq(seqs) = BitSeq(r)
    BY <1>4, <2>5, <2>8, <2>9
  <2> QED
    BY <2>10 DEF seqs
<1> QED
  BY <1>3, <1>4

-----------------------------------------------------------------------------
(* What has been gathered of the samples.                                    *)

(* The counters are in range and the program has ended if it has a status. *)
Progress ==
    /\ pc \in {"parsing", "opening", "sampling", "done"}
    /\ flags \in 0 .. MaxFlags
    /\ sample \in 0 .. config.samples
    /\ status \in Statuses /\ (status # "none" <=> pc = "done")
    /\ status = "Ok" => config.samples # 0

(* Nothing has been gathered before the first sample. *)
NothingYet ==
    pc \in {"parsing", "opening"} => stats = NoStats /\ DOMAIN counts = {} /\ rawBits = 0

Gathered ==
    /\ stats \in Stats
    /\ rawBits \in Nat
    /\ DOMAIN counts \subseteq Nat /\ \A v \in DOMAIN counts : counts[v] \in Nat \ {0}

(* The bits read for one bit received. *)
Segments == IF config.mode = "bits" THEN SegmentCount[config.fold] ELSE 1

(* The statistics are those of all bytes received, *)
BytesCounted ==
    config.mode # "range" =>
        /\ received \in Seq(Bytes)
        /\ Summarised(stats, received, Len(received))
        /\ rawBits = (Width * Len(received)) * Segments

(* and the counts those of all values received. *)
ValuesCounted ==
    config.mode = "range" =>
        /\ \A v \in DOMAIN counts : v \in config.start .. config.end - 1
        /\ \A v : v \in DOMAIN counts <=> \E i \in 1 .. Len(received) : received[i] = v
        /\ \A v \in DOMAIN counts : counts[v] = Times(received, Len(received), v)

SummaryInv == Progress /\ NothingYet /\ Gathered /\ BytesCounted /\ ValuesCounted

(* The statistics of nothing. *)
LEMMA NothingSummarised ==
    ASSUME NEW r \in Seq(Bytes), Len(r) = 0
    PROVE  NoStats \in Stats /\ Summarised(NoStats, r, 0)
<1>1. NoStats \in Stats
  BY DEF NoStats, Stats, Bit
<1>2. Width * 0 = 0
  BY LaboratoryAssumption
<1>3. Tallied(NoStats, BitSeq(r), 0)
  <2> DEFINE s == BitSeq(r)
  <2>1. Counted(NoStats, s, 0)
    <3>1. NoStats.count[0] = 0 /\ NoStats.count[1] = 0 /\ Bit = {0, 1}
      BY DEF NoStats, Bit
    <3> HIDE DEF s
    <3>2. Times(s, 0, 0) = 0 /\ Times(s, 0, 1) = 0
      BY CountNone
    <3> QED
      BY <3>1, <3>2 DEF Counted
  <2> HIDE DEF s
  <2>2. LongestAtMost(NoStats, s, 0)
    BY DEF LongestAtMost
  <2>3. LongestFound(NoStats, s, 0)
    BY DEF LongestFound, NoStats, Bit
  <2>4. RunUnderWay(NoStats, s, 0)
    BY DEF RunUnderWay, RunOf, NoStats
  <2> QED
    BY <2>1, <2>2, <2>3, <2>4 DEF Tallied, s
<1>4. ASSUME NEW b \in Bytes
      PROVE  NoStats.frequency[b] = Times(r, 0, b)
  BY CountNone DEF NoStats
<1> QED
  BY <1>1, <1>2, <1>3, <1>4 DEF Summarised

(* As long as nothing was received all is gathered, whatever the options. *)
LEMMA NothingGathered ==
    config \in Configs /\ received = <<>> /\ stats = NoStats /\ DOMAIN counts = {} /\ rawBits = 0
        => Gathered /\ BytesCounted /\ ValuesCounted
<1> SUFFICES ASSUME config \in Configs, received = <<>>, stats = NoStats, DOMAIN counts = {},
                    rawBits = 0
             PROVE  Gathered /\ BytesCounted /\ ValuesCounted
  OBVIOUS
<1>1. received \in Seq(Bytes) /\ Len(received) = 0
  OBVIOUS
<1>2. stats \in Stats /\ Summarised(stats, received, Len(received))
  BY <1>1, NothingSummarised
<1>3. (Width * Len(received)) * Segments = 0
  <2>1. Segments \in Nat
    BY ConfigFields DEF Segments, SegmentCount
  <2>2. Width * 0 = 0 /\ 0 * Segments = 0
    BY <2>1, LaboratoryAssumption
  <2> QED
    BY <1>1, <2>2
<1>4. Gathered
  BY <1>2 DEF Gathered
<1>5. BytesCounted
  BY <1>1, <1>2, <1>3 DEF BytesCounted
<1>6. ValuesCounted
  BY <1>1 DEF ValuesCounted
<1> QED
  BY <1>4, <1>5, <1>6

(* So it is when the program starts. *)
LEMMA SummaryInit == LabInit => SummaryInv
<1> SUFFICES ASSUME LabInit PROVE SummaryInv
  OBVIOUS
<1>1. config \in Configs
  BY LabInvInit DEF LabInv, Parsed
<1>2. Gathered /\ BytesCounted /\ ValuesCounted
  BY <1>1, NothingGathered DEF LabInit
<1>3. Progress
  <2>1. 0 \in 0 .. config.samples /\ 0 \in 0 .. MaxFlags
    BY LaboratoryAssumption DEF LabInit, Default
  <2> QED
    BY <2>1 DEF LabInit, Progress, Statuses
<1>4. NothingYet
  BY DEF LabInit, NothingYet
<1> QED
  BY <1>2, <1>3, <1>4 DEF SummaryInv

(* A step that gathers nothing and leaves the options as they are. *)
LEMMA GatheredSame ==
    ASSUME SummaryInv, Progress', pc' \in {"parsing", "opening"} => pc \in {"parsing", "opening"},
           UNCHANGED <<config, stats, counts, received, rawBits>>
    PROVE  SummaryInv'
<1>1. NothingYet'
  BY DEF SummaryInv, NothingYet
<1>2. Gathered'
  BY DEF SummaryInv, Gathered
<1>3. BytesCounted'
  BY DEF SummaryInv, BytesCounted, Segments
<1>4. ValuesCounted'
  BY DEF SummaryInv, ValuesCounted
<1> QED
  BY <1>1, <1>2, <1>3, <1>4 DEF SummaryInv

(* An ending, *)
LEMMA ExitsSummary ==
    ASSUME SummaryInv, NEW how \in Statuses \ {"none"}, Exits(how),
           how = "Ok" => config.samples # 0
    PROVE  SummaryInv'
<1>1. Progress'
  BY DEF SummaryInv, Progress, Exits
<1> QED
  BY <1>1, GatheredSame DEF Exits

(* an option, *)
LEMMA OptionSummary ==
    ASSUME LabInv, LabInv', SummaryInv,
           NEW option \in DOMAIN Options, NEW v \in Options[option], Option(option, v)
    PROVE  SummaryInv'
<1>1. CASE ~ValidValue(option, v)
  BY <1>1, ExitsSummary DEF Option, Statuses
<1>2. CASE ValidValue(option, v)
  <2>1. /\ pc = "parsing" /\ flags < MaxFlags /\ flags' = flags + 1
        /\ UNCHANGED <<pc, sample, stats, counts, status, received, rawBits>>
    BY <1>2 DEF Option
  <2>2. sample = 0 /\ received = <<>> /\ config' \in Configs
    BY <2>1 DEF LabInv, Checked, Parsed
  <2>3. stats = NoStats /\ DOMAIN counts = {} /\ rawBits = 0
    BY <2>1 DEF SummaryInv, NothingYet
  <2>4. Gathered' /\ BytesCounted' /\ ValuesCounted'
    <3>1. (config \in Configs /\ received = <<>> /\ stats = NoStats /\ DOMAIN counts = {} /\ rawBits = 0)'
      BY <2>1, <2>2, <2>3 DEF NoStats
    <3> QED
      BY <3>1, NothingGathered, PTL
  <2>5. NothingYet'
    BY <2>1, <2>3 DEF NothingYet, NoStats
  <2>6. Progress'
    <3>1. config'.samples \in Nat
      BY <2>2, ConfigFields
    <3>2. flags' \in 0 .. MaxFlags
      BY <2>1, LaboratoryAssumption DEF SummaryInv, Progress
    <3> QED
      BY <2>1, <2>2, <3>1, <3>2 DEF SummaryInv, Progress
  <2> QED
    BY <2>4, <2>5, <2>6 DEF SummaryInv
<1> QED
  BY <1>1, <1>2

(* bytes observed, *)
LEMMA BytesSummary ==
    ASSUME LabInv, SummaryInv, config.mode # "range", Asking,
           NEW more \in Seq(Bytes), NEW bits, Delivered(more, bits),
           stats' = Observe(more), UNCHANGED counts,
           bits = (Width * Len(more)) * Segments
    PROVE  SummaryInv'
<1>1. /\ pc = "sampling" /\ sample < config.samples /\ sample' = sample + 1
      /\ received' = received \o more /\ rawBits' = rawBits + bits
      /\ UNCHANGED <<pc, config, flags, status>>
  BY DEF Asking, Delivered
<1>2. /\ received \in Seq(Bytes)
      /\ Summarised(stats, received, Len(received))
      /\ rawBits = (Width * Len(received)) * Segments
  BY DEF SummaryInv, BytesCounted
<1>3. Summarised(stats', received', Len(received'))
  <2>1. stats' = CountBytes(stats, more)
    BY DEF Observe, CountBytes
  <2>2. Summarised(CountBytes(stats, more), received \o more, Len(received \o more))
    BY <1>2, ObserveSummarises
  <2> QED
    BY <1>1, <2>1, <2>2
<1>4. stats' \in Stats
  BY <1>3 DEF Summarised
<1>5. received' \in Seq(Bytes) /\ Len(received') = Len(received) + Len(more)
  BY <1>1, <1>2
<1>6. Segments \in Nat /\ Segments' = Segments
  <2>1. config \in Configs
    BY DEF LabInv, Parsed
  <2> QED
    BY <1>1, <2>1, ConfigFields DEF Segments, SegmentCount
<1>7. rawBits' \in Nat /\ rawBits' = (Width * Len(received')) * Segments
  <2> DEFINE a == Len(received)
             b == Len(more)
  <2>1. a \in Nat /\ b \in Nat /\ Width \in Nat
    <3>1. received \in Seq(Bytes)
      BY <1>2
    <3>2. Width \in Nat
      BY LaboratoryAssumption
    <3> QED
      BY <3>1, <3>2
  <2> HIDE DEF a, b
  <2> DEFINE wa == Width * a
             wb == Width * b
  <2>2. wa \in Nat /\ wb \in Nat /\ Width * (a + b) = wa + wb
    BY <2>1
  <2> HIDE DEF wa, wb
  <2>3. wa * Segments \in Nat /\ wb * Segments \in Nat
        /\ (wa + wb) * Segments = wa * Segments + wb * Segments
    BY <1>6, <2>2
  <2>4. rawBits = wa * Segments /\ bits = wb * Segments /\ Len(received') = a + b
    BY <1>2, <1>5 DEF a, b, wa, wb
  <2> QED
    BY <1>1, <2>2, <2>3, <2>4
<1>8. BytesCounted'
  BY <1>3, <1>5, <1>6, <1>7 DEF BytesCounted
<1>9. ValuesCounted'
  BY <1>1 DEF ValuesCounted
<1>10. Progress'
  <2>1. config.samples \in Nat
    BY ConfigFields DEF LabInv, Parsed
  <2> QED
    BY <1>1, <2>1 DEF SummaryInv, Progress
<1>11. NothingYet'
  BY <1>1 DEF NothingYet
<1>12. Gathered'
  BY <1>4, <1>7 DEF SummaryInv, Gathered
<1> QED
  BY <1>8, <1>9, <1>10, <1>11, <1>12 DEF SummaryInv

(* a sample of bits, *)
LEMMA BitsSummary == LabInv /\ SummaryInv /\ SampleBits => SummaryInv'
<1> SUFFICES ASSUME LabInv, SummaryInv, SampleBits PROVE SummaryInv'
  OBVIOUS
<1>1. PICK bytes \in [1 .. config.bits \div Width -> Bytes] :
          /\ stats' = Observe(bytes)
          /\ Delivered(bytes, config.bits * SegmentCount[config.fold])
  BY DEF SampleBits
<1>2. Asking /\ config.mode = "bits" /\ UNCHANGED counts /\ ~Refused
  BY DEF SampleBits
<1>3. config.bits \in Nat /\ Width \in Nat \ {0} /\ config.bits % Width = 0
  BY <1>2, ConfigFields, LaboratoryAssumption DEF LabInv, Parsed, Refused
<1> DEFINE n == config.bits \div Width
<1>4. n \in Nat /\ Width * n = config.bits
  BY <1>3
<1> HIDE DEF n
<1>5. bytes \in Seq(Bytes) /\ Len(bytes) = n
  BY <1>1, <1>4 DEF n
<1>6. config.bits * SegmentCount[config.fold] = (Width * Len(bytes)) * Segments
  BY <1>2, <1>4, <1>5 DEF Segments
<1>7. config.mode # "range"
  BY <1>2
<1> QED
  BY <1>1, <1>2, <1>5, <1>6, <1>7, BytesSummary

(* a sample of a word, *)
LEMMA WordSummary == LabInv /\ SummaryInv /\ SampleU64 => SummaryInv'
<1> SUFFICES ASSUME LabInv, SummaryInv, SampleU64 PROVE SummaryInv'
  OBVIOUS
<1>1. PICK word \in Word :
          /\ stats' = Observe(word)
          /\ Delivered(word, WordBytes * Width)
  BY DEF SampleU64
<1>2. Asking /\ config.mode = "u64" /\ config.mode # "range" /\ UNCHANGED counts
  BY DEF SampleU64
<1>3. WordBytes \in Nat /\ Width \in Nat
  BY LaboratoryAssumption
<1>4. word \in Seq(Bytes) /\ Len(word) = WordBytes
  BY <1>1, <1>3 DEF Word
<1>5. WordBytes * Width = (Width * Len(word)) * Segments
  <2>1. Segments = 1
    BY <1>2 DEF Segments
  <2>2. WordBytes * Width = Width * WordBytes /\ (Width * WordBytes) * 1 = Width * WordBytes
    BY <1>3
  <2> QED
    BY <1>4, <2>1, <2>2
<1> QED
  BY <1>1, <1>2, <1>4, <1>5, BytesSummary

(* and a value of a range. *)
LEMMA ValueSummary == LabInv /\ SummaryInv /\ SampleRange => SummaryInv'
<1> SUFFICES ASSUME LabInv, SummaryInv, SampleRange PROVE SummaryInv'
  OBVIOUS
<1>1. PICK v \in config.start .. config.end - 1 :
          /\ counts' = [w \in DOMAIN counts \cup {v} |->
                           (IF w \in DOMAIN counts THEN counts[w] ELSE 0) + (IF w = v THEN 1 ELSE 0)]
          /\ Delivered(<<v>>, 0)
  BY DEF SampleRange
<1>2. /\ pc = "sampling" /\ config.mode = "range" /\ sample < config.samples
      /\ UNCHANGED <<pc, config, flags, status, stats>>
      /\ sample' = sample + 1 /\ received' = received \o <<v>> /\ rawBits' = rawBits + 0
  BY <1>1 DEF SampleRange, Asking, Delivered
<1>3. config.start \in Nat /\ config.end \in Nat /\ config.samples \in Nat /\ v \in Nat
  <2>1. config.start \in Nat /\ config.end \in Nat /\ config.samples \in Nat
    BY ConfigFields DEF LabInv, Parsed
  <2> QED
    BY <2>1
<1> DEFINE n == Len(received)
<1>4. received \in Seq(Int) /\ n \in Nat
  BY DEF LabInv, PrintedSoFar
<1>5. /\ Len(received') = n + 1
      /\ \A i \in 1 .. n : received'[i] = received[i]
      /\ received'[n + 1] = v
  <2>1. received' = Append(received, v)
    BY <1>2, <1>3, <1>4
  <2> QED
    BY <1>3, <1>4, <2>1
<1> HIDE DEF n
<1>6. /\ \A w \in DOMAIN counts : w \in config.start .. config.end - 1
      /\ \A w : w \in DOMAIN counts <=> \E i \in 1 .. n : received[i] = w
      /\ \A w \in DOMAIN counts : counts[w] = Times(received, n, w)
  BY <1>2 DEF SummaryInv, ValuesCounted, n
<1>7. DOMAIN counts \subseteq Nat /\ \A w \in DOMAIN counts : counts[w] \in Nat \ {0}
  BY DEF SummaryInv, Gathered
<1>8. DOMAIN counts' = DOMAIN counts \cup {v}
  BY <1>1
<1>9. ASSUME NEW w \in DOMAIN counts \cup {v}
      PROVE  counts'[w] = Times(received', n + 1, w) /\ counts'[w] \in Nat \ {0}
  <2>1. Times(received', n + 1, w) = Times(received', n, w) + (IF v = w THEN 1 ELSE 0)
    BY <1>4, <1>5, CountGrows
  <2>2. Times(received', n, w) = Times(received, n, w)
    BY <1>4, <1>5, TimesSame
  <2>3. w \notin DOMAIN counts => Times(received, n, w) = 0 /\ w = v
    <3> SUFFICES ASSUME w \notin DOMAIN counts PROVE Times(received, n, w) = 0
      OBVIOUS
    <3>1. {i \in 1 .. n : received[i] = w} = {}
      BY <1>6
    <3> QED
      BY <3>1, FS_EmptySet DEF Times
  <2>4. counts'[w] = (IF w \in DOMAIN counts THEN counts[w] ELSE 0) + (IF w = v THEN 1 ELSE 0)
    BY <1>1
  <2>5. CASE w \in DOMAIN counts
    BY <1>6, <1>7, <2>1, <2>2, <2>4, <2>5
  <2>6. CASE w \notin DOMAIN counts
    BY <2>1, <2>2, <2>3, <2>4, <2>6
  <2> QED
    BY <2>5, <2>6
<1>10. ValuesCounted'
  <2>1. \A w \in DOMAIN counts' : w \in config.start .. config.end - 1
    BY <1>6, <1>8
  <2>2. ASSUME NEW w
        PROVE  w \in DOMAIN counts' <=> \E i \in 1 .. n + 1 : received'[i] = w
    <3>1. w \in DOMAIN counts' <=> (\E i \in 1 .. n : received[i] = w) \/ w = v
      BY <1>6, <1>8
    <3>2. (\E i \in 1 .. n : received[i] = w) <=> (\E i \in 1 .. n : received'[i] = w)
      BY <1>5
    <3>3. 1 .. n + 1 = (1 .. n) \cup {n + 1}
      BY <1>4
    <3> QED
      BY <1>5, <3>1, <3>2, <3>3
  <2>3. \A w \in DOMAIN counts' : counts'[w] = Times(received', n + 1, w)
    BY <1>8, <1>9
  <2>4. config' = config
    BY <1>2
  <2> QED
    BY <1>5, <2>1, <2>2, <2>3, <2>4 DEF ValuesCounted
<1>11. Gathered'
  <2>1. DOMAIN counts' \subseteq Nat /\ \A w \in DOMAIN counts' : counts'[w] \in Nat \ {0}
    BY <1>3, <1>7, <1>8, <1>9
  <2>2. rawBits' \in Nat /\ stats' \in Stats
    BY <1>2 DEF SummaryInv, Gathered
  <2> QED
    BY <2>1, <2>2 DEF Gathered
<1>12. BytesCounted' /\ NothingYet'
  BY <1>2 DEF BytesCounted, NothingYet
<1>13. Progress'
  BY <1>2, <1>3 DEF SummaryInv, Progress
<1> QED
  BY <1>10, <1>11, <1>12, <1>13 DEF SummaryInv

(* Every step keeps the summary. *)
LEMMA SummaryNext == LabInv /\ LabInv' /\ SummaryInv /\ [LabNext]_labVars => SummaryInv'
<1> SUFFICES ASSUME LabInv, LabInv', SummaryInv, [LabNext]_labVars PROVE SummaryInv'
  OBVIOUS
<1> USE DEF Statuses
<1>1. CASE Help
  BY <1>1, ExitsSummary DEF Help
<1>2. CASE BadArgument
  BY <1>2, ExitsSummary DEF BadArgument
<1>3. ASSUME NEW option \in DOMAIN Options, NEW v \in Options[option], Option(option, v)
      PROVE  SummaryInv'
  BY <1>3, OptionSummary
<1>4. CASE Presentation
  <2>1. Progress'
    BY <1>4, LaboratoryAssumption DEF Presentation, SummaryInv, Progress
  <2> QED
    BY <1>4, <2>1, GatheredSame DEF Presentation
<1>5. CASE EndOfArguments
  <2>1. CASE Exits("BadArguments")
    BY <2>1, ExitsSummary
  <2>2. CASE ~Exits("BadArguments")
    <3>1. /\ pc = "parsing" /\ pc' = "opening"
          /\ UNCHANGED <<config, flags, sample, stats, counts, status, received, rawBits>>
      BY <1>5, <2>2 DEF EndOfArguments
    <3>2. Progress'
      BY <3>1 DEF SummaryInv, Progress
    <3> QED
      BY <3>1, <3>2, GatheredSame
  <2> QED
    BY <2>1, <2>2
<1>6. CASE OpenDevice
  <2>1. CASE Exits(IF config.serial = "" THEN "Refused" ELSE "OpenFailed")
    BY <2>1, ExitsSummary
  <2>2. CASE ~Exits(IF config.serial = "" THEN "Refused" ELSE "OpenFailed")
    <3>1. /\ pc = "opening" /\ pc' = "sampling"
          /\ UNCHANGED <<config, flags, sample, stats, counts, status, received, rawBits>>
      BY <1>6, <2>2 DEF OpenDevice
    <3>2. Progress'
      BY <3>1 DEF SummaryInv, Progress
    <3> QED
      BY <3>1, <3>2, GatheredSame
  <2> QED
    BY <2>1, <2>2
<1>7. CASE SampleFails
  BY <1>7, ExitsSummary DEF SampleFails
<1>8. CASE SampleBits
  BY <1>8, BitsSummary
<1>9. CASE SampleU64
  BY <1>9, WordSummary
<1>10. CASE SampleRange
  BY <1>10, ValueSummary
<1>11. CASE Summarise
  <2>1. config.samples # 0
    BY <1>11 DEF Summarise, LabInv, Checked, Accepts
  <2> QED
    BY <1>11, <2>1, ExitsSummary DEF Summarise
<1>12. CASE UNCHANGED labVars
  <2>1. UNCHANGED <<pc, config, flags, sample, stats, counts, status, received, rawBits>>
    BY <1>12 DEF labVars
  <2>2. Progress'
    BY <2>1 DEF SummaryInv, Progress
  <2> QED
    BY <2>1, <2>2, GatheredSame
<1> QED
  BY <1>1, <1>2, <1>3, <1>4, <1>5, <1>6, <1>7, <1>8, <1>9, <1>10, <1>11, <1>12 DEF LabNext

(* What has been gathered is that of all received, in every run. *)
THEOREM SummaryInvariant == LabSpec => []SummaryInv
<1>1. LabInv /\ SummaryInv /\ [LabNext]_labVars /\ LabInv' => SummaryInv'
  BY SummaryNext
<1> QED
  BY <1>1, SummaryInit, LabInvariant, PTL DEF LabSpec

(* The state of the program has its types: the counters stay in their        *)
(* bounds, and the program has a status when, and only when, it is done.    *)
THEOREM LaboratoryTypes == LabSpec => []LabTypeOK
<1>1. LabInv /\ SummaryInv => LabTypeOK
  <2> SUFFICES ASSUME LabInv, SummaryInv PROVE LabTypeOK
    OBVIOUS
  <2>1. lines \in Seq(Seq(Nat \ {0}))
    <3>1. lines \in Seq(Seq(Nat)) /\ \A k \in 1 .. Len(lines) : LineWhole(lines[k])
      BY DEF LabInv, PrintedSoFar
    <3>2. ASSUME NEW k \in 1 .. Len(lines)
          PROVE  lines[k] \in Seq(Nat \ {0})
      <4> DEFINE line == lines[k]
      <4>1. line \in Seq(Nat) /\ LineWhole(line)
        BY <3>1
      <4> HIDE DEF line
      <4>2. \A i \in 1 .. Len(line) : line[i] \in Nat \ {0}
        BY <4>1 DEF LineWhole, ToSet
      <4>3. line \in Seq(Nat \ {0})
        BY <4>1, <4>2
      <4> QED
        BY <4>3 DEF line
    <3>3. lines \in Seq(Seq(Nat)) /\ Len(lines) \in Nat /\ lines \in [1 .. Len(lines) -> Seq(Nat)]
      BY <3>1
    <3>4. \A S, T : \A s \in Seq(S) : (\A k \in 1 .. Len(s) : s[k] \in T) => s \in Seq(T)
      OBVIOUS
    <3>5. \A k \in 1 .. Len(lines) : lines[k] \in Seq(Nat \ {0})
      BY <3>2
    <3> QED
      BY <3>3, <3>4, <3>5
  <2>2. config \in Configs /\ foldSet \in BOOLEAN
    BY DEF LabInv, Parsed
  <2> QED
    BY <2>1, <2>2 DEF LabTypeOK, SummaryInv, Progress, Gathered, Stats
<1> QED
  BY <1>1, LabInvariant, SummaryInvariant, PTL

-----------------------------------------------------------------------------
(* What is printed of it.                                                    *)

(* The longest run in s is the one the statistics know. *)
LEMMA LongestIs ==
    ASSUME NEW s, NEW n \in Nat, DOMAIN s = 1 .. n, NEW st \in Stats, Tallied(st, s, n),
           NEW b \in Bit
    PROVE  LongestRun(s, b) = st.longest[b]
<1> DEFINE Runs == {q \in (DOMAIN s) \X (DOMAIN s) :
                        q[1] <= q[2] /\ \A k \in q[1] .. q[2] : s[k] = b}
           L == {0} \cup {p[2] - p[1] + 1 : p \in Runs}
<1>1. st.longest[b] \in Nat
  BY DEF Stats
<1>2. ASSUME NEW x \in L
      PROVE  x \in Int /\ x <= st.longest[b]
  <2>1. CASE x = 0
    BY <1>1, <2>1
  <2>2. CASE x # 0
    <3>1. PICK p \in Runs : x = p[2] - p[1] + 1
      BY <2>2
    <3>2. /\ p[1] \in 1 .. n /\ p[2] \in 1 .. n /\ p[1] <= p[2]
          /\ RunOf(s, p[1], p[2], b)
      BY <3>1 DEF RunOf
    <3> QED
      BY <3>1, <3>2 DEF Tallied, LongestAtMost
  <2> QED
    BY <2>1, <2>2
<1>3. st.longest[b] \in L
  <2>1. CASE st.longest[b] = 0
    BY <2>1
  <2>2. CASE st.longest[b] # 0
    <3>1. PICK p \in 1 .. n, q \in 1 .. n :
              p <= q /\ RunOf(s, p, q, b) /\ q - p + 1 = st.longest[b]
      BY <2>2 DEF Tallied, LongestFound
    <3>2. <<p, q>> \in Runs
      BY <3>1 DEF RunOf
    <3>3. <<p, q>>[2] - <<p, q>>[1] + 1 \in L
      <4> HIDE DEF Runs
      <4> QED
        BY <3>2
    <3> QED
      BY <3>1, <3>3
  <2> QED
    BY <2>1, <2>2
<1>4. L \in SUBSET Int
  BY <1>2
<1>5. LongestRun(s, b) = Max(L)
  BY DEF LongestRun
<1> HIDE DEF L
<1> QED
  BY <1>2, <1>3, <1>4, <1>5, MaxIs

(* The bytes are ranked from 0 on, no two the same. *)
LEMMA Ranked ==
    ASSUME stats \in Stats
    PROVE  /\ IsFiniteSet(Seen) /\ Cardinality(Seen) \in Nat
           /\ \A b \in Seen : Rank(b) \in 0 .. Cardinality(Seen) - 1
           /\ \A a, b \in Seen : Before(a, b) => Rank(a) < Rank(b)
           /\ \A a, b \in Seen : a # b => Before(a, b) \/ Before(b, a)
<1> DEFINE Earlier(b) == {a \in Seen : Before(a, b)}
<1>1. Width \in Nat /\ 2^Width \in Int
  BY LaboratoryAssumption
<1>2. IsFiniteSet(Bytes)
  BY <1>1, FS_Interval DEF Bytes
<1>3. Seen \subseteq Bytes /\ Bytes \subseteq Int /\ stats.frequency \in [Bytes -> Nat]
  BY DEF Seen, Bytes, Stats
<1>4. IsFiniteSet(Seen) /\ Cardinality(Seen) \in Nat
  BY <1>2, <1>3, FS_Subset, FS_CardinalityType
<1>5. \A a, b \in Seen : a # b => Before(a, b) \/ Before(b, a)
  BY <1>3 DEF Before
<1>6. ASSUME NEW a \in Seen, NEW b \in Seen, NEW c \in Seen, Before(a, b), Before(b, c)
      PROVE  Before(a, c)
  <2>1. \A x \in {a, b, c} : x \in Int /\ stats.frequency[x] \in Nat
    BY <1>3
  <2> QED
    BY <1>6, <2>1 DEF Before
<1>7. ASSUME NEW a \in Seen
      PROVE  ~ Before(a, a)
  <2>1. a \in Int /\ stats.frequency[a] \in Nat
    BY <1>3
  <2> QED
    BY <2>1 DEF Before
<1>8. ASSUME NEW b \in Seen
      PROVE  IsFiniteSet(Earlier(b)) /\ Cardinality(Earlier(b)) \in Nat
             /\ Cardinality(Earlier(b) \cup {b}) = Cardinality(Earlier(b)) + 1
             /\ IsFiniteSet(Earlier(b) \cup {b})
  <2> DEFINE E == Earlier(b)
  <2>1. E \in SUBSET Seen /\ b \notin E
    BY <1>7
  <2> HIDE DEF E
  <2>2. IsFiniteSet(E) /\ Cardinality(E) \in Nat
    BY <1>4, <2>1, FS_Subset, FS_CardinalityType
  <2>3. IsFiniteSet(E \cup {b}) /\ Cardinality(E \cup {b}) = Cardinality(E) + 1
    BY <2>1, <2>2, FS_AddElement
  <2> QED
    BY <2>2, <2>3 DEF E
<1>9. ASSUME NEW b \in Seen
      PROVE  Rank(b) \in 0 .. Cardinality(Seen) - 1
  <2> DEFINE E == Earlier(b)
  <2>1. E \cup {b} \in SUBSET Seen
    OBVIOUS
  <2>2. Cardinality(E) \in Nat /\ Cardinality(E \cup {b}) = Cardinality(E) + 1
    BY <1>8
  <2>3. Rank(b) = Cardinality(E)
    BY DEF Rank
  <2> HIDE DEF E
  <2>4. Cardinality(E \cup {b}) <= Cardinality(Seen)
    BY <1>4, <2>1, FS_Subset
  <2> QED
    BY <1>4, <2>2, <2>3, <2>4
<1>10. ASSUME NEW a \in Seen, NEW b \in Seen, Before(a, b)
       PROVE  Rank(a) < Rank(b)
  <2> DEFINE E == Earlier(a)
             F == Earlier(b)
  <2>1. E \cup {a} \in SUBSET F
    BY <1>6, <1>10
  <2>2. Cardinality(E) \in Nat /\ Cardinality(E \cup {a}) = Cardinality(E) + 1
    BY <1>8
  <2>3. IsFiniteSet(F) /\ Cardinality(F) \in Nat
    BY <1>8
  <2>4. Rank(a) = Cardinality(E) /\ Rank(b) = Cardinality(F)
    BY DEF Rank
  <2> HIDE DEF E, F
  <2>5. Cardinality(E \cup {a}) <= Cardinality(F)
    BY <2>1, <2>3, FS_Subset
  <2> QED
    BY <2>2, <2>3, <2>4, <2>5
<1> QED
  BY <1>4, <1>5, <1>9, <1>10

(* The list of the most common bytes is full or has all, and leaves off none *)
(* that is more frequent than one on it.                                    *)
LEMMA CommonBytesAre ==
    ASSUME stats \in Stats
    PROVE  /\ Cardinality(CommonBytes) =
                  (IF Cardinality(Seen) < MaxCommon THEN Cardinality(Seen) ELSE MaxCommon)
           /\ \A a \in CommonBytes, b \in Bytes \ CommonBytes :
                  stats.frequency[a] >= stats.frequency[b]
<1> DEFINE N == Cardinality(Seen)
           k == IF N < MaxCommon THEN N ELSE MaxCommon
           g == [b \in Seen |-> Rank(b)]
           h == [b \in CommonBytes |-> Rank(b)]
<1>1. N \in Nat /\ MaxCommon \in Nat /\ IsFiniteSet(Seen)
  BY Ranked, LaboratoryAssumption
<1>2. \A b \in Seen : Rank(b) \in 0 .. N - 1
  BY Ranked
<1>3. \A a, b \in Seen : Before(a, b) => Rank(a) < Rank(b)
  BY Ranked
<1>4. \A a, b \in Seen : a # b => Before(a, b) \/ Before(b, a)
  BY Ranked
<1>5. CommonBytes \subseteq Seen /\ \A b \in Seen : b \in CommonBytes <=> Rank(b) < MaxCommon
  BY DEF CommonBytes
<1> HIDE DEF N
<1>6. \A a, b \in Seen : Rank(a) = Rank(b) => a = b
  BY <1>1, <1>2, <1>3, <1>4
<1>7. g \in Surjection(Seen, 0 .. N - 1)
  <2>1. g \in Injection(Seen, 0 .. N - 1)
    BY <1>2, <1>6 DEF Injection, IsInjective
  <2>2. IsFiniteSet(0 .. N - 1) /\ Cardinality(0 .. N - 1) = N
    BY <1>1, FS_Interval
  <2> DEFINE T == 0 .. N - 1
  <2> HIDE DEF T, g
  <2>3. g \in Injection(Seen, T) /\ IsFiniteSet(T) /\ Cardinality(Seen) = Cardinality(T)
    BY <2>1, <2>2 DEF T, N
  <2>4. g \in Surjection(Seen, T)
    BY <2>3, FS_Injection
  <2> QED
    BY <2>4 DEF T
<1>8. k \in Nat /\ k <= N /\ k <= MaxCommon /\ (k = N \/ k = MaxCommon)
  BY <1>1
<1> HIDE DEF k
<1>9. h \in Bijection(CommonBytes, 0 .. k - 1)
  <2>1. \A b \in CommonBytes : Rank(b) \in 0 .. k - 1
    BY <1>1, <1>2, <1>5, <1>8
  <2>2. \A a, b \in CommonBytes : Rank(a) = Rank(b) => a = b
    BY <1>5, <1>6
  <2>3. ASSUME NEW r \in 0 .. k - 1
        PROVE  \E b \in CommonBytes : Rank(b) = r
    <3>1. r \in 0 .. N - 1 /\ r < MaxCommon
      BY <1>1, <1>8
    <3>2. \E b \in Seen : Rank(b) = r
      BY <1>7, <3>1 DEF Surjection
    <3> QED
      BY <1>5, <3>1, <3>2
  <2> QED
    BY <2>1, <2>2, <2>3 DEF Bijection, Injection, Surjection, IsInjective
<1>10. Cardinality(CommonBytes) = k
  <2>1. IsFiniteSet(CommonBytes)
    BY <1>1, <1>5, FS_Subset
  <2>2. Cardinality(0 .. k - 1) = k
    BY <1>8, FS_Interval
  <2> DEFINE T == 0 .. k - 1
  <2>3. ExistsBijection(CommonBytes, T)
    BY <1>9 DEF ExistsBijection
  <2> HIDE DEF T
  <2>4. Cardinality(T) = Cardinality(CommonBytes)
    BY <2>1, <2>3, FS_Bijection
  <2> QED
    BY <2>2, <2>4 DEF T
<1>11. ASSUME NEW a \in CommonBytes, NEW b \in Bytes \ CommonBytes
       PROVE  stats.frequency[a] >= stats.frequency[b]
  <2>1. stats.frequency[a] \in Nat /\ stats.frequency[b] \in Nat /\ a \in Seen
    BY <1>5 DEF Stats, Seen
  <2>2. CASE b \in Seen
    <3>1. ~ Before(b, a)
      <4>1. Rank(a) < MaxCommon /\ ~ (Rank(b) < MaxCommon)
        BY <1>5, <2>2
      <4>2. Rank(a) \in Nat /\ Rank(b) \in Nat
        BY <1>2, <2>1, <2>2
      <4> QED
        BY <1>1, <1>3, <2>1, <2>2, <4>1, <4>2
    <3> QED
      BY <2>1, <3>1 DEF Before
  <2>3. CASE b \notin Seen
    BY <2>1, <2>3 DEF Seen
  <2> QED
    BY <2>2, <2>3
<1> QED
  BY <1>10, <1>11 DEF k, N

(* The statistics printed are those of all bits and bytes received together, *)
(* runs across the ends of bytes and samples included, and the bits printed *)
(* as read are those read.                                                  *)
THEOREM StatisticsOfAllReceived == LabSpec => []StatsOfAll
<1>1. LabInv /\ SummaryInv => StatsOfAll
  <2> SUFFICES ASSUME LabInv, SummaryInv, config.mode # "range" PROVE StatsOfAll
    BY DEF StatsOfAll
  <2> DEFINE n == Len(received)
             s == BitSeq(received)
             w == Width * n
  <2>1. /\ received \in Seq(Bytes) /\ stats \in Stats
        /\ Tallied(stats, s, w)
        /\ \A b \in Bytes : stats.frequency[b] = Times(received, n, b)
        /\ rawBits = w * Segments
    BY DEF SummaryInv, BytesCounted, Summarised
  <2>2. AllBits = s
    BY <2>1, FlattenedBits DEF AllBits
  <2>3. n \in Nat /\ DOMAIN received = 1 .. n
    BY <2>1
  <2>4. w \in Nat /\ DOMAIN s = 1 .. w
    <3>1. Width \in Nat
      BY LaboratoryAssumption
    <3> QED
      BY <2>3, <3>1 DEF BitSeq
  <2> HIDE DEF n, s, w
  <2>5. ASSUME NEW b \in Bit
        PROVE  /\ stats.count[b] = Cardinality({i \in DOMAIN AllBits : AllBits[i] = b})
               /\ stats.longest[b] = LongestRun(AllBits, b)
    <3>1. stats.count[b] = Times(s, w, b)
      BY <2>1 DEF Tallied, Counted
    <3>2. Times(s, w, b) = Cardinality({i \in DOMAIN AllBits : AllBits[i] = b})
      BY <2>2, <2>4 DEF Times
    <3>3. LongestRun(s, b) = stats.longest[b]
      BY <2>1, <2>4, LongestIs
    <3> QED
      BY <2>2, <3>1, <3>2, <3>3
  <2>6. ASSUME NEW byte \in Bytes
        PROVE  stats.frequency[byte] = Cardinality({i \in DOMAIN received : received[i] = byte})
    BY <2>1, <2>3 DEF Times
  <2>7. EstimatedRawBits = rawBits
    <3>1. TotalBits = w
      BY <2>1 DEF Tallied, Counted, TotalBits
    <3> QED
      BY <2>1, <3>1 DEF EstimatedRawBits, Segments
  <2> QED
    BY <2>1, <2>5, <2>6, <2>7, CommonBytesAre DEF StatsOfAll
<1> QED
  BY <1>1, LabInvariant, SummaryInvariant, PTL

(* No number occurs more often than there are places. *)
LEMMA TimesBounded ==
    ASSUME NEW s, NEW n \in Nat, NEW b
    PROVE  Times(s, n, b) <= n
<1> DEFINE S == {i \in 1 .. n : s[i] = b}
<1>1. IsFiniteSet(1 .. n) /\ Cardinality(1 .. n) = n
  BY FS_Interval
<1>2. S \in SUBSET (1 .. n)
  OBVIOUS
<1> HIDE DEF S
<1>3. Cardinality(S) <= n
  BY <1>1, <1>2, FS_Subset
<1> QED
  BY <1>3 DEF S, Times

(* The bar of a larger part is no shorter, that of the whole the longest. *)
LEMMA BarGrows ==
    ASSUME NEW w \in Nat \ {0}, NEW p \in Nat, NEW q \in Nat, p <= q
    PROVE  /\ Bar(p, w) \in Nat /\ Bar(q, w) \in Nat
           /\ Bar(p, w) <= Bar(q, w)
           /\ Bar(w, w) = BarWidth
<1> DEFINE a == p * BarWidth
           b == q * BarWidth
           x == a \div w
           y == b \div w
<1>1. BarWidth \in Nat
  BY LaboratoryAssumption
<1>2. a \in Nat /\ b \in Nat /\ a <= b
  <2> DEFINE d == q - p
  <2>1. d \in Nat /\ q = p + d
    OBVIOUS
  <2> HIDE DEF d
  <2>2. d * BarWidth \in Nat /\ p * BarWidth \in Nat
        /\ (p + d) * BarWidth = p * BarWidth + d * BarWidth
    BY <1>1, <2>1
  <2> QED
    BY <2>1, <2>2
<1>3. Bar(p, w) = x /\ Bar(q, w) = y
  BY DEF Bar
<1>4. Bar(w, w) = BarWidth
  <2>1. w * BarWidth = BarWidth * w /\ (BarWidth * w) \div w = BarWidth
    BY <1>1
  <2> QED
    BY <2>1 DEF Bar
<1> HIDE DEF a, b
<1>5. x \in Nat /\ y \in Nat /\ w * x <= a /\ b < w * y + w
  BY <1>2
<1> HIDE DEF x, y
<1>6. x <= y
  <2> SUFFICES ASSUME y < x PROVE FALSE
    BY <1>5
  <2> DEFINE d == x - (y + 1)
  <2>1. d \in Nat /\ x = (y + 1) + d
    BY <1>5
  <2> HIDE DEF d
  <2>2. w * d \in Nat /\ w * x = (w * y + w) + w * d /\ w * y \in Nat
    BY <1>5, <2>1
  <2> QED
    BY <1>2, <1>5, <2>2
<1> QED
  BY <1>3, <1>4, <1>5, <1>6

(* The histogram printed has all values received, counted as often as they   *)
(* were, in bars that grow with the counts and reach the longest.           *)
THEOREM HistogramOfAllReceived == LabSpec => []HistogramWhole
<1>1. LabInv /\ SummaryInv => HistogramWhole
  <2> SUFFICES ASSUME LabInv, SummaryInv, status = "Ok", config.mode = "range"
               PROVE  HistogramWhole
    BY DEF HistogramWhole
  <2> DEFINE n == Len(received)
             count(v) == IF v \in DOMAIN counts THEN counts[v] ELSE 0
             C == {0} \cup {counts[v] : v \in DOMAIN counts}
             most == Max(C)
             values == IF config.end - config.start <= MaxBuckets
                          THEN config.start .. config.end - 1 ELSE DOMAIN counts
  <2>1. n \in Nat /\ n # 0 /\ DOMAIN received = 1 .. n
    <3>1. n = sample * 1 /\ sample = config.samples /\ received \in Seq(Int)
      BY DEF LabInv, PrintedSoFar, Unit
    <3>2. config.samples \in Nat /\ config.samples # 0
      BY ConfigFields DEF LabInv, Parsed, SummaryInv, Progress
    <3> QED
      BY <3>1, <3>2
  <2>2. /\ \A v \in DOMAIN counts : v \in config.start .. config.end - 1
        /\ \A v : v \in DOMAIN counts <=> \E i \in 1 .. n : received[i] = v
        /\ \A v \in DOMAIN counts : counts[v] = Times(received, n, v)
    BY DEF SummaryInv, ValuesCounted
  <2>3. \A v \in DOMAIN counts : counts[v] \in Nat \ {0}
    BY DEF SummaryInv, Gathered
  <2>4. DOMAIN counts \subseteq values
    BY <2>2
  <2>5. DOMAIN Buckets = values
        /\ \A v \in values : Buckets[v].count = count(v) /\ Buckets[v].bar = Bar(count(v), most)
    BY DEF Buckets
  <2> HIDE DEF n, values
  <2>6. /\ most \in C /\ \A x \in C : x <= most
    <3>1. C \in SUBSET Nat /\ C # {}
      BY <2>3
    <3>2. \A x \in C : x <= n
      <4>1. ASSUME NEW v \in DOMAIN counts
            PROVE  counts[v] <= n
        BY <2>1, <2>2, TimesBounded
      <4> QED
        BY <2>1, <4>1
    <3> HIDE DEF C
    <3> QED
      BY <2>1, <3>1, <3>2, MaxExists
  <2>7. most \in Nat \ {0} /\ \E v \in DOMAIN counts : counts[v] = most
    <3>1. PICK v \in DOMAIN counts : received[1] = v
      BY <2>1, <2>2
    <3>2. counts[v] \in C /\ counts[v] \in Nat \ {0}
      BY <2>3, <3>1
    <3>3. C \subseteq Nat
      BY <2>3
    <3>4. most # 0
      BY <2>6, <3>2, <3>3
    <3> QED
      BY <2>6, <3>3, <3>4
  <2>8. ASSUME NEW v
        PROVE  count(v) \in Nat /\ count(v) <= most
    BY <2>3, <2>6, <2>7
  <2>9. ASSUME NEW v
        PROVE  count(v) = Cardinality({i \in DOMAIN received : received[i] = v})
    <3>1. CASE v \in DOMAIN counts
      BY <2>1, <2>2, <3>1 DEF Times
    <3>2. CASE v \notin DOMAIN counts
      <4>1. {i \in DOMAIN received : received[i] = v} = {}
        BY <2>1, <2>2, <3>2
      <4> QED
        BY <3>2, <4>1, FS_EmptySet
    <3> QED
      BY <3>1, <3>2
  <2>10. ToSet(received) \subseteq DOMAIN Buckets
    BY <2>1, <2>2, <2>4, <2>5 DEF ToSet
  <2> HIDE DEF most, C
  <2>11. PICK top \in DOMAIN counts : counts[top] = most
    BY <2>7
  <2>12. top \in values /\ count(top) = most
    BY <2>4, <2>11
  <2> HIDE DEF count
  <2>13. ASSUME NEW v \in DOMAIN Buckets, NEW u \in DOMAIN Buckets,
                Buckets[v].count <= Buckets[u].count
         PROVE  Buckets[v].bar <= Buckets[u].bar
    BY <2>5, <2>7, <2>8, <2>13, BarGrows
  <2>14. Max({Buckets[v].bar : v \in DOMAIN Buckets}) = BarWidth
    <3> DEFINE B == {Buckets[v].bar : v \in DOMAIN Buckets}
    <3>1. ASSUME NEW v \in values
          PROVE  Bar(count(v), most) \in Nat /\ Bar(count(v), most) <= BarWidth
      <4>1. Bar(count(v), most) \in Nat /\ Bar(count(v), most) <= Bar(most, most)
            /\ Bar(most, most) = BarWidth
        BY <2>7, <2>8, BarGrows
      <4> QED
        BY <4>1
    <3>2. BarWidth \in B
      <4>1. Buckets[top].bar = Bar(most, most)
        BY <2>5, <2>12
      <4>2. Bar(most, most) = BarWidth
        BY <2>7, BarGrows
      <4> QED
        BY <2>5, <2>12, <4>1, <4>2
    <3>3. B \in SUBSET Int /\ \A x \in B : x <= BarWidth
      BY <2>5, <3>1
    <3> HIDE DEF B
    <3>4. Max(B) = BarWidth
      BY <3>2, <3>3, MaxIs
    <3> QED
      BY <3>4 DEF B
  <2> QED
    BY <2>5, <2>9, <2>10, <2>13, <2>14 DEF HistogramWhole
<1> QED
  BY <1>1, LabInvariant, SummaryInvariant, PTL
============================================================================

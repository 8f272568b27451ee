------------------------- MODULE AcquisitionProofs -------------------------
(* Proofs about a handle's life, for every value of the constants that      *)
(* PolicyAssumption and AcquisitionAssumption allow.                        *)
EXTENDS Acquisition, MpsseProofs

----------------------------------------------------------------------------
(* Type correctness *)

(* The type invariant but for the chip and the line status. *)
ClientTypeOK ==
    /\ chunk \in Seq(Items)
    /\ attempt \in 1 .. InitRetries
    /\ pair \in {1, 2}
    /\ probe \in Probes
    /\ streak \in 0 .. ReadRetries - 1
    /\ reads \in 0 .. DrainLimit - 1
    /\ outcome \in Outcomes
    /\ pc \in {"closed", "idle"} \cup InitLabels \cup ReadLabels
    /\ failed \in BOOLEAN
    /\ caller \in {"open", "recover"}
    /\ bytes \in 1 .. MaxBytes
    /\ segs \in Segments
    /\ seg \in 1 .. segs
    /\ left \in 0 .. MaxBytes
    /\ resets \in 0 .. InitRetries - 1
    /\ copied \in BOOLEAN
    /\ got \in Seq(Items)
    /\ out \in Seq(Items)
    /\ result \in Results

(* The types of the client's variables and of the chip's apart. *)
LEMMA TypeSplit ==
    /\ TypeOK <=> ClientTypeOK /\ pipe \in Seq(Items) /\ line \in LineStates
    /\ TypeOK' <=> ClientTypeOK' /\ pipe' \in Seq(Items) /\ line' \in LineStates
BY DEF TypeOK, MpsseTypeOK, ClientTypeOK

(* The labels entered with Enter, and the counters it resets. *)
LEMMA EnterClient ==
    ASSUME NEW label \in {"closed", "idle"} \cup InitLabels \cup ReadLabels, Enter(label)
    PROVE  /\ pc' \in {"closed", "idle"} \cup InitLabels \cup ReadLabels
           /\ streak' \in 0 .. ReadRetries - 1
           /\ reads' \in 0 .. DrainLimit - 1
BY PolicyAssumption DEF Enter

(* A function on 1 .. n is a sequence of length n. *)
LEMMA ConstantFunctionIsSeq ==
    ASSUME NEW n \in Nat, NEW f, NEW S, f \in [1 .. n -> S]
    PROVE  f \in Seq(S) /\ Len(f) = n
OBVIOUS

(* Bytes that have become stale are bytes, and as many. *)
LEMMA AgedType ==
    ASSUME NEW s \in Seq(Items)
    PROVE  /\ Aged(s) \in Seq(Items)
           /\ Len(Aged(s)) = Len(s)
<1>1. Len(s) \in Nat /\ \A i \in 1 .. Len(s) : s[i] \in Items
  OBVIOUS
<1>2. Aged(s) \in [1 .. Len(s) -> Items]
  BY <1>1 DEF Aged, Items, DataBytes
<1> QED
  BY <1>1, <1>2, ConstantFunctionIsSeq

(* A reply is a sequence of the given length. *)
LEMMA ReplyType ==
    ASSUME NEW j \in Nat, NEW n
    PROVE  /\ Reply(j, n) \in Seq(Items)
           /\ Len(Reply(j, n)) = j
<1>1. Reply(j, n) \in [1 .. j -> Items]
  BY DEF Reply, Items, DataBytes
<1> QED
  BY <1>1, ConstantFunctionIsSeq

(* A command asks for no more than the segment lacks. *)
LEMMA WantType ==
    ASSUME TypeOK
    PROVE  Want \in Nat /\ Want <= left
BY AcquisitionAssumption DEF TypeOK, Want

(* The chip sends no more in excess than it may. *)
LEMMA ExcessType == Excess \in 0 .. MaxExcess
BY AcquisitionAssumption DEF Excess

(* The chip's answer leaves the pipe well typed. *)
LEMMA AnswersReadType ==
    ASSUME TypeOK, AnswersRead(Want)
    PROVE  pipe' \in Seq(Items)
<1>1. PICK j \in (IF Prompt THEN Want ELSE 0) .. Want + Excess :
         pipe' = Aged(pipe) \o Reply(j, Want)
  BY DEF AnswersRead
<1>2. j \in Nat
  BY <1>1, WantType, ExcessType, AcquisitionAssumption
<1>3. pipe \in Seq(Items)
  BY DEF TypeOK, MpsseTypeOK
<1>4. Aged(pipe) \in Seq(Items) /\ Reply(j, Want) \in Seq(Items)
  BY <1>2, <1>3, AgedType, ReplyType
<1> QED
  BY <1>1, <1>4, ConcatType

(* An acquisition that fails leaves the client's variables well typed. *)
LEMMA AcquireFailsType ==
    ASSUME TypeOK, NEW e \in Results, AcquireFails(e)
    PROVE  ClientTypeOK'
<1>1. /\ pc' \in {"closed", "idle"} \cup InitLabels \cup ReadLabels
      /\ streak' \in 0 .. ReadRetries - 1
      /\ reads' \in 0 .. DrainLimit - 1
  BY EnterClient DEF AcquireFails
<1> QED
  BY <1>1 DEF AcquireFails, TypeOK, MpsseTypeOK, ClientTypeOK, Results

(* So does one that gives up on its reads or recovers. *)
LEMMA IncompleteType ==
    ASSUME TypeOK, Incomplete
    PROVE  ClientTypeOK'
<1>1. CASE AcquireFails("ReadRetriesExhausted")
  BY <1>1, AcquireFailsType DEF ReadErrors, Results
<1>2. CASE /\ resets + 1 < InitRetries
           /\ StartInit
           /\ caller' = "recover"
           /\ resets' = resets + 1
           /\ chunk' = <<>>
           /\ got' = <<>>
           /\ UNCHANGED <<failed, bytes, segs, seg, left, copied, out, result>>
  <2>1. /\ pc' \in {"closed", "idle"} \cup InitLabels \cup ReadLabels
        /\ streak' \in 0 .. ReadRetries - 1
        /\ reads' \in 0 .. DrainLimit - 1
    BY <1>2, EnterClient DEF StartInit, InitLabels
  <2>2. resets' \in 0 .. InitRetries - 1 /\ attempt' \in 1 .. InitRetries
    BY <1>2, PolicyAssumption DEF StartInit, TypeOK
  <2> QED
    BY <1>2, <2>1, <2>2 DEF StartInit, TypeOK, MpsseTypeOK, ClientTypeOK, Outcomes
<1> QED
  BY <1>1, <1>2 DEF Incomplete

(* So does the end of a command. *)
LEMMA CommandDoneType ==
    ASSUME TypeOK, CommandDone
    PROVE  ClientTypeOK'
<1>1. /\ pc' \in {"closed", "idle"} \cup InitLabels \cup ReadLabels
      /\ streak' \in 0 .. ReadRetries - 1
      /\ reads' \in 0 .. DrainLimit - 1
  BY EnterClient DEF CommandDone, ReadLabels
<1>2. left' \in 0 .. MaxBytes
  BY WantType, AcquisitionAssumption DEF CommandDone, TypeOK
<1>3. seg' \in 1 .. segs
  BY AcquisitionAssumption DEF CommandDone, TypeOK
<1>4. out' \in Seq(Items) /\ got' \in Seq(Items)
  BY ConcatType DEF CommandDone, TypeOK
<1>5. resets' \in 0 .. InitRetries - 1 /\ result' \in Results
  BY PolicyAssumption DEF CommandDone, TypeOK, Results
<1> QED
  BY <1>1, <1>2, <1>3, <1>4, <1>5 DEF CommandDone, TypeOK, MpsseTypeOK, ClientTypeOK

(* A step of `initialize` is one in a state where it runs. *)
LEMMA InitStepRuns ==
    ASSUME InitStep
    PROVE  pc \in InitLabels
BY DEF InitStep, Reset, Configure, SyncWrite, SyncMatch, SyncOther, SyncEmpty, SyncError,
       PurgeBytes, PurgeEmpty, PurgeError, Clock, Purging, InitLabels

(* Every step of a call keeps the types; Accounting bounds the bytes in hand. *)
LEMMA CallStepType ==
    ASSUME TypeOK, Accounting, CallStep
    PROVE  TypeOK'
<1> SUFFICES ClientTypeOK' /\ pipe' \in Seq(Items) /\ line' \in LineStates
  BY TypeSplit
<1>0. pipe \in Seq(Items) /\ line \in LineStates
  BY TypeSplit
<1>1. CASE InitStep /\ UNCHANGED call
  <2>1. MpsseInv
    BY <1>1, InitStepRuns DEF TypeOK, MpsseInv
  <2>2. MpsseInv'
    BY <1>1, <2>1, InitStepType
  <2> QED
    BY <1>1, <2>2 DEF MpsseInv, MpsseTypeOK, ClientTypeOK, TypeOK, call
<1>2. CASE OpenReturns
  BY <1>0, <1>2 DEF OpenReturns, TypeOK, MpsseTypeOK, ClientTypeOK, Outcomes, Results, ReadErrors, UsbErrors
<1>3. CASE Reserve
  <2>1. CASE AcquireFails("AllocationFailed")
    BY <1>0, <1>3, <2>1, AcquireFailsType DEF Reserve, ReadErrors, Results
  <2>2. CASE Enter("command") /\ UNCHANGED <<chunk, attempt, pair, probe, outcome, call>>
    BY <1>0, <1>3, <2>2, EnterClient DEF Reserve, ReadLabels, TypeOK, MpsseTypeOK, ClientTypeOK, call
  <2> QED
    BY <1>3, <2>1, <2>2 DEF Reserve
<1>4. CASE WriteCommand
  <2>1. pipe' \in Seq(Items) /\ line' \in LineStates
    BY <1>0, <1>4, AnswersReadType DEF WriteCommand
  <2>2. ASSUME NEW e \in UsbFaults, AcquireFails(e)
        PROVE  ClientTypeOK'
    BY <2>2, AcquireFailsType, PolicyAssumption DEF ReadErrors, Results
  <2>3. ASSUME Enter("read"), copied' = FALSE,
               UNCHANGED <<chunk, attempt, pair, probe, outcome>>,
               UNCHANGED <<failed, caller, bytes, segs, seg, left, resets, got, out, result>>
        PROVE  ClientTypeOK'
    BY <2>3, EnterClient DEF ReadLabels, TypeOK, MpsseTypeOK, ClientTypeOK
  <2> QED
    BY <1>4, <2>1, <2>2, <2>3 DEF WriteCommand
<1>5. ASSUME NEW k \in Transfers(ReadBuffer(Want - Len(got))), ReadBytes(k)
      PROVE  ClientTypeOK' /\ pipe' \in Seq(Items) /\ line' \in LineStates
  <2> DEFINE take == IF k < Want - Len(got) THEN k ELSE Want - Len(got)
  <2>0. k \in 1 .. Len(pipe)
    BY <1>0, TransfersType
  <2>1. pipe' \in Seq(Items)
    BY <1>0, <1>5, <2>0, UndeliveredType DEF ReadBytes
  <2>2. CASE AcquireFails("ProtocolViolation") /\ UNCHANGED line
    BY <1>0, <2>1, <2>2, AcquireFailsType DEF ReadErrors, Results
  <2>3. CASE /\ got' = got \o SubSeq(pipe, 1, take)
             /\ chunk' = SubSeq(pipe, take + 1, k)
             /\ line' \in LineAfter
             /\ copied' = TRUE
             /\ pc' = IF Len(got) + take = Want THEN "check" ELSE "read"
             /\ UNCHANGED <<attempt, pair, probe, streak, reads, outcome>>
             /\ UNCHANGED <<failed, caller, bytes, segs, seg, left, resets, out, result>>
    <3>0. take \in 0 .. k
      <4>1. Want - Len(got) \in Nat
        BY <1>5, WantType DEF ReadBytes, Accounting, TypeOK
      <4> QED
        BY <2>0, <4>1
    <3> HIDE DEF take
    <3>1. SubSeq(pipe, 1, take) \in Seq(Items)
      BY <1>0, <2>0, <3>0
    <3>2. SubSeq(pipe, take + 1, k) \in Seq(Items)
      BY <1>0, <2>0, <3>0
    <3>3. got' \in Seq(Items)
      BY <2>3, <3>1, ConcatType DEF TypeOK
    <3>4. line' \in LineStates
      BY <2>3 DEF LineAfter, LineStates
    <3>5. pc' \in {"closed", "idle"} \cup InitLabels \cup ReadLabels
      BY <2>3 DEF ReadLabels
    <3> QED
      BY <2>1, <2>3, <3>2, <3>3, <3>4, <3>5 DEF TypeOK, MpsseTypeOK, ClientTypeOK
  <2> QED
    BY <1>5, <2>2, <2>3 DEF ReadBytes
<1>6. CASE ReadEmpty
  <2>1. pipe' \in Seq(Items) /\ line' \in LineStates
    BY <1>0, <1>6 DEF ReadEmpty, LineAfter, LineStates
  <2>2. CASE AcquireFails("ProtocolViolation")
    BY <2>1, <2>2, AcquireFailsType DEF ReadErrors, Results
  <2>3. CASE Incomplete
    BY <2>1, <2>3, IncompleteType
  <2>4. CASE /\ copied \/ streak + 1 < ReadRetries
             /\ streak' = IF copied THEN 0 ELSE streak + 1
             /\ copied' = FALSE
             /\ UNCHANGED <<chunk, pc, attempt, pair, probe, reads, outcome>>
             /\ UNCHANGED <<failed, caller, bytes, segs, seg, left, resets, got, out, result>>
    <3>1. streak' \in 0 .. ReadRetries - 1
      BY <2>4, PolicyAssumption DEF TypeOK, MpsseTypeOK
    <3> QED
      BY <2>1, <2>4, <3>1 DEF TypeOK, MpsseTypeOK, ClientTypeOK
  <2> QED
    BY <1>6, <2>2, <2>3, <2>4 DEF ReadEmpty
<1>7. ASSUME NEW e \in UsbFaults, ReadError(e)
      PROVE  ClientTypeOK' /\ pipe' \in Seq(Items) /\ line' \in LineStates
  BY <1>0, <1>7, AcquireFailsType, PolicyAssumption DEF ReadError, ReadErrors, Results
<1>8. CASE RecoveryReturns
  <2>1. CASE outcome # "Ok" /\ AcquireFails(outcome)
    <3>1. outcome \in Results
      BY <2>1 DEF TypeOK, MpsseTypeOK, Outcomes, Results, ReadErrors, UsbErrors
    <3> QED
      BY <1>0, <1>8, <2>1, <3>1, AcquireFailsType DEF RecoveryReturns
  <2>2. CASE Enter("command") /\ UNCHANGED <<chunk, attempt, pair, probe, outcome, call>>
    BY <1>0, <1>8, <2>2, EnterClient
    DEF RecoveryReturns, ReadLabels, TypeOK, MpsseTypeOK, ClientTypeOK, call
  <2> QED
    BY <1>8, <2>1, <2>2 DEF RecoveryReturns
<1>9. CASE Check
  BY <1>0, <1>9, AcquireFailsType, CommandDoneType DEF Check, ReadErrors, Results
<1> QED
  BY <1>1, <1>2, <1>3, <1>4, <1>5, <1>6, <1>7, <1>8, <1>9 DEF CallStep

----------------------------------------------------------------------------
(* The accounting of a request *)

Counted == Accounting /\ ExactLength

(* A failed acquisition has no count to keep. *)
LEMMA AcquireFailsCounted ==
    ASSUME NEW e, e # "Ok", AcquireFails(e)
    PROVE  Counted'
BY DEF AcquireFails, Enter, Counted, Accounting, ExactLength, Serving, ReadLabels, InitLabels

(* The arithmetic of a command's end: w of the l bytes left have come.       *)
LEMMA CommandAdds ==
    ASSUME NEW b \in Nat, NEW s \in Nat, NEW l \in Nat, NEW w \in Nat
    PROVE  /\ (s - 1) * b + (b - l) + l = s * b
           /\ (s - 1) * b + (b - l) + w = (s - 1) * b + (b - (l - w))
           /\ s * b = ((s + 1) - 1) * b + (b - b)
           /\ s * b = b * s
<1>1. (s - 1) * b = s * b - b /\ s * b \in Int
  BY Z3
<1>2. \A m \in Int : /\ (m - b) + (b - l) + l = m
                     /\ (m - b) + (b - l) + w = (m - b) + (b - (l - w))
                     /\ m = m + (b - b)
  OBVIOUS
<1>3. (s + 1) - 1 = s /\ s * b = b * s
  OBVIOUS
<1> QED
  BY <1>1, <1>2, <1>3

(* A step that leaves no bytes in hand and no command being read. *)
LEMMA CountedBetweenReads ==
    ASSUME pc' \notin {"read", "check"}, got' = <<>>,
           Serving' => /\ left' \in 1 .. bytes'
                       /\ Len(out') = (seg' - 1) * bytes' + (bytes' - left'),
           result' = "Ok" => Len(out') = bytes' * segs'
    PROVE  Counted'
BY DEF Counted, Accounting, ExactLength

(* Every step of a call keeps count, and only the last one returns Ok. *)
LEMMA CallStepCounted ==
    ASSUME TypeOK, Counted, CallStep, pc \notin {"closed", "idle"} => result # "Ok"
    PROVE  Counted' /\ (pc' \notin {"closed", "idle"} => result' # "Ok")
<1> DEFINE Goal == Counted' /\ (pc' \notin {"closed", "idle"} => result' # "Ok")
<1> SUFFICES Goal
  OBVIOUS
<1>0. \A e : e # "Ok" /\ AcquireFails(e) => Goal
  BY AcquireFailsCounted DEF AcquireFails, Enter
<1> HIDE DEF Goal
<1>1. CASE InitStep /\ UNCHANGED call
  <2>1. pc \in InitLabels /\ pc' \in InitLabels
    BY <1>1, InitStepRuns, InitStepType DEF MpsseInv, TypeOK
  <2>2. Counted'
    BY <1>1, <2>1 DEF Counted, Accounting, ExactLength, Serving, call, InitLabels, ReadLabels, Want
  <2> QED
    BY <1>1, <2>1, <2>2 DEF Goal, call, InitLabels
<1>2. CASE OpenReturns
  BY <1>2 DEF OpenReturns, Goal, Counted, Accounting, ExactLength, Serving, InitLabels, ReadLabels
<1>3. CASE Reserve
  <2>1. CASE AcquireFails("AllocationFailed")
    BY <1>0, <2>1
  <2>2. CASE Enter("command") /\ UNCHANGED call
    BY <1>3, <2>2 DEF Reserve, Enter, Goal, Counted, Accounting, ExactLength, Serving, call,
                      InitLabels, ReadLabels, Want
  <2> QED
    BY <1>3, <2>1, <2>2 DEF Reserve
<1>4. CASE WriteCommand
  <2>1. ASSUME NEW e \in UsbFaults, AcquireFails(e)
        PROVE  Goal
    BY <1>0, <2>1, PolicyAssumption DEF UsbErrors, FatalErrors
  <2>2. ASSUME Enter("read"),
               UNCHANGED <<failed, caller, bytes, segs, seg, left, resets, got, out, result>>
        PROVE  Goal
    <3>1. pc = "command" /\ got = <<>>
      BY <1>4 DEF WriteCommand, Counted, Accounting
    <3>2. left \in Nat /\ left > 0 /\ bytes \in Nat
      BY <3>1, AcquisitionAssumption DEF Counted, Accounting, Serving, ReadLabels, TypeOK
    <3>3. Want \in Nat /\ Want > 0
      BY <3>2, AcquisitionAssumption DEF Want
    <3>4. pc' = "read" /\ got' = <<>> /\ Len(<<>>) = 0 /\ Want' = Want
      BY <2>2, <3>1 DEF Enter, Want
    <3>5. Len(got') < Want'
      BY <3>3, <3>4
    <3>6. Serving
      BY <3>1 DEF Serving, ReadLabels
    <3>7. left' \in 1 .. bytes' /\ Len(out') = (seg' - 1) * bytes' + (bytes' - left')
      BY <2>2, <3>6 DEF Counted, Accounting
    <3> QED
      BY <2>2, <3>1, <3>4, <3>5, <3>7 DEF Goal, Counted, Accounting, ExactLength
  <2> QED
    BY <1>4, <2>1, <2>2 DEF WriteCommand
<1>5. ASSUME NEW k \in Transfers(ReadBuffer(Want - Len(got))), ReadBytes(k)
      PROVE  Goal
  <2> DEFINE take == IF k < Want - Len(got) THEN k ELSE Want - Len(got)
  <2>1. pipe \in Seq(Items) /\ got \in Seq(Items) /\ k \in 1 .. Len(pipe)
    BY TransfersType DEF TypeOK, MpsseTypeOK
  <2>2. Want \in Nat /\ Len(got) \in Nat /\ Len(got) < Want
    BY <1>5, <2>1, WantType DEF ReadBytes, Counted, Accounting
  <2>3. take \in 0 .. Len(pipe) /\ Len(got) + take <= Want
    BY <2>1, <2>2
  <2>4. CASE AcquireFails("ProtocolViolation")
    BY <1>0, <2>4
  <2>5. CASE /\ got' = got \o SubSeq(pipe, 1, take)
             /\ pc' = IF Len(got) + take = Want THEN "check" ELSE "read"
             /\ UNCHANGED <<failed, caller, bytes, segs, seg, left, resets, out, result>>
    <3> HIDE DEF take
    <3>1. SubSeq(pipe, 1, take) \in Seq(Items) /\ Len(SubSeq(pipe, 1, take)) = take
      BY <2>1, <2>3
    <3>2. Len(got') = Len(got) + take
      BY <2>1, <2>5, <3>1, ConcatType
    <3>3. pc' \in {"read", "check"} /\ Want' = Want /\ pc = "read"
      BY <1>5, <2>5 DEF Want, ReadBytes
    <3>4. (pc' = "read" => Len(got') < Want) /\ (pc' = "check" => Len(got') = Want)
      <4>1. \A n \in Nat : n <= Want /\ n # Want => n < Want
        BY <2>2
      <4>2. Len(got') \in Nat /\ Len(got') <= Want
        BY <2>1, <2>2, <2>3, <3>2
      <4> QED
        BY <2>5, <3>2, <4>1, <4>2
    <3> QED
      BY <2>5, <3>3, <3>4 DEF Goal, Counted, Accounting, ExactLength, Serving, InitLabels, ReadLabels
  <2> QED
    BY <1>5, <2>4, <2>5 DEF ReadBytes
<1>6. CASE ReadEmpty
  <2>1. CASE Incomplete
    <3>1. CASE AcquireFails("ReadRetriesExhausted")
      BY <1>0, <3>1
    <3>2. CASE /\ StartInit
               /\ caller' = "recover"
               /\ got' = <<>>
               /\ UNCHANGED <<failed, bytes, segs, seg, left, copied, out, result>>
      BY <1>6, <3>2 DEF ReadEmpty, StartInit, Enter, Goal, Counted, Accounting, ExactLength,
                        Serving, InitLabels, ReadLabels
    <3> QED
      BY <2>1, <3>1, <3>2 DEF Incomplete
  <2>2. CASE AcquireFails("ProtocolViolation")
    BY <1>0, <2>2
  <2>3. CASE /\ UNCHANGED pc
             /\ UNCHANGED <<failed, caller, bytes, segs, seg, left, resets, got, out, result>>
    BY <1>6, <2>3 DEF ReadEmpty, Goal, Counted, Accounting, ExactLength, Serving,
                      InitLabels, ReadLabels, Want
  <2> QED
    BY <1>6, <2>1, <2>2, <2>3 DEF ReadEmpty
<1>7. ASSUME NEW e \in UsbFaults, ReadError(e)
      PROVE  Goal
  BY <1>0, <1>7, PolicyAssumption DEF ReadError, UsbErrors, FatalErrors
<1>8. CASE RecoveryReturns
  <2>1. CASE outcome # "Ok" /\ AcquireFails(outcome)
    BY <1>0, <2>1
  <2>2. CASE Enter("command") /\ UNCHANGED call
    BY <1>8, <2>2 DEF RecoveryReturns, Enter, Goal, Counted, Accounting, ExactLength, Serving,
                      call, InitLabels, ReadLabels, Want
  <2> QED
    BY <1>8, <2>1, <2>2 DEF RecoveryReturns
<1>9. CASE Check
  <2>1. CASE AcquireFails("ProtocolViolation")
    BY <1>0, <2>1
  <2>2. CASE CommandDone
    <3>1. /\ pc = "check" /\ got \in Seq(Items) /\ out \in Seq(Items)
          /\ bytes \in Nat /\ left \in Nat /\ Want \in Nat
      BY <1>9, WantType, AcquisitionAssumption DEF Check, TypeOK
    <3>0. segs \in Nat /\ seg \in Nat
      <4>1. segs \in Nat
        BY AcquisitionAssumption DEF TypeOK
      <4> QED
        BY <4>1 DEF TypeOK
    <3>2. /\ Len(got) = Want
          /\ Len(out) = (seg - 1) * bytes + (bytes - left)
          /\ left \in 1 .. bytes
      BY <3>1 DEF Counted, Accounting, Serving, ReadLabels
    <3>3. Len(out') = Len(out) + Want
      BY <2>2, <3>1, <3>2, ConcatType DEF CommandDone
    <3>4. /\ Len(out) + left = seg * bytes
          /\ Len(out) + Want = (seg - 1) * bytes + (bytes - (left - Want))
          /\ seg * bytes = ((seg + 1) - 1) * bytes + (bytes - bytes)
          /\ seg * bytes = bytes * seg
      BY <3>0, <3>1, <3>2, CommandAdds
    <3> HIDE DEF Want
    <3>a. result # "Ok" /\ got' = <<>> /\ bytes' = bytes /\ segs' = segs
      BY <2>2, <3>1 DEF CommandDone
    <3>5. CASE left > Want /\ Enter("command") /\ left' = left - Want /\ UNCHANGED <<seg, result>>
      <4>0. left - Want \in 1 .. bytes
        <5>1. \A l, w, b \in Nat : l \in 1 .. b /\ l > w => l - w \in 1 .. b
          OBVIOUS
        <5> QED
          BY <3>1, <3>2, <3>5, <5>1
      <4>1. left' \in 1 .. bytes' /\ Len(out') = (seg' - 1) * bytes' + (bytes' - left')
        BY <3>3, <3>4, <3>5, <3>a, <4>0
      <4>2. pc' \notin {"read", "check"} /\ result' # "Ok"
        BY <3>5, <3>a DEF Enter
      <4>3. Counted'
        BY <3>a, <4>1, <4>2, CountedBetweenReads
      <4> QED
        BY <4>2, <4>3 DEF Goal
    <3>6. CASE left = Want /\ Enter("segment") /\ left' = bytes /\ seg' = seg + 1 /\ UNCHANGED result
      <4>1. left' \in 1 .. bytes'
        BY <3>1, <3>2, <3>6, <3>a
      <4>2. Len(out') = (seg' - 1) * bytes' + (bytes' - left')
        BY <3>3, <3>4, <3>6, <3>a
      <4>3. pc' \notin {"read", "check"} /\ result' # "Ok"
        BY <3>6, <3>a DEF Enter
      <4>4. Counted'
        BY <3>a, <4>1, <4>2, <4>3, CountedBetweenReads
      <4> QED
        BY <4>3, <4>4 DEF Goal
    <3>7. CASE left = Want /\ seg = segs /\ Enter("idle")
      <4>1. Len(out') = bytes' * segs'
        BY <3>3, <3>4, <3>7, <3>a
      <4>2. pc' = "idle" /\ ~ Serving'
        BY <3>7 DEF Enter, Serving, InitLabels, ReadLabels
      <4>3. Counted'
        BY <3>a, <4>1, <4>2, CountedBetweenReads
      <4> QED
        BY <4>2, <4>3 DEF Goal
    <3> QED
      BY <2>2, <3>5, <3>6, <3>7 DEF CommandDone
  <2> QED
    BY <1>9, <2>1, <2>2 DEF Check
<1> QED
  BY <1>1, <1>2, <1>3, <1>4, <1>5, <1>6, <1>7, <1>8, <1>9 DEF CallStep

(* Between calls, when one starts and when a process dies. *)
LEMMA ClientStep ==
    ASSUME TypeOK, Counted, Calls \/ ProcessDies \/ (Noise /\ UNCHANGED call)
    PROVE  TypeOK' /\ Counted' /\ (pc' \notin {"closed", "idle"} /\ pc \in {"closed", "idle"} => result' # "Ok")
<1> DEFINE Goal == TypeOK' /\ Counted' /\ (pc' \notin {"closed", "idle"} /\ pc \in {"closed", "idle"} => result' # "Ok")
<1> SUFFICES Goal
  OBVIOUS
<1>0. pipe \in Seq(Items) /\ line \in LineStates /\ <<>> \in Seq(Items) /\ Len(<<>>) = 0
  BY TypeSplit
<1>1. CASE Open
  <2>1. ClientTypeOK'
    BY <1>1, PolicyAssumption
    DEF Open, StartInit, Enter, ClientTypeOK, TypeOK, MpsseTypeOK, InitLabels, Outcomes, Results
  <2>2. TypeOK'
    BY <1>0, <1>1, <2>1, TypeSplit DEF Open
  <2>3. got' = <<>>
    BY <1>1 DEF Open, Counted, Accounting
  <2> QED
    BY <1>1, <2>2, <2>3 DEF Open, StartInit, Enter, Counted, Accounting, ExactLength, Serving, ReadLabels
<1>2. CASE Drop
  <2>1. ClientTypeOK' /\ pipe' \in Seq(Items) /\ line' \in LineStates
    BY <1>0, <1>2 DEF Drop, call, ClientTypeOK, TypeOK, MpsseTypeOK
  <2> QED
    BY <1>2, <2>1, TypeSplit DEF Drop, call, Counted, Accounting, ExactLength, Serving, ReadLabels, InitLabels
<1>3. ASSUME NEW r \in {"InvalidBits", "DeviceDisconnected", "AllocationFailed"}, pc = "idle", Rejected(r)
      PROVE  Goal
  <2>1. ClientTypeOK' /\ pipe' \in Seq(Items) /\ line' \in LineStates
    BY <1>0, <1>3
    DEF Rejected, mpsseVars, control, ClientTypeOK, TypeOK, MpsseTypeOK, Results, ReadErrors, UsbErrors, FatalErrors
  <2> QED
    BY <1>3, <2>1, TypeSplit
    DEF Rejected, mpsseVars, control, Counted, Accounting, ExactLength, Serving, ReadLabels, InitLabels
<1>4. ASSUME NEW n \in 1 .. MaxBytes, NEW s \in Segments, GetBits(n, s)
      PROVE  Goal
  <2>1. s \in Nat \ {0} /\ n \in Nat \ {0}
    BY AcquisitionAssumption
  <2>2. 1 \in 1 .. s /\ n \in 0 .. MaxBytes
    BY <2>1, AcquisitionAssumption
  <2>3. ClientTypeOK'
    BY <1>4, <1>0, <2>2, EnterClient, PolicyAssumption
    DEF GetBits, ClientTypeOK, TypeOK, MpsseTypeOK, ReadLabels, Results
  <2>4. TypeOK'
    BY <1>0, <1>4, <2>3, TypeSplit DEF GetBits
  <2>5. got' = <<>> /\ pc' = "segment" /\ result' # "Ok"
    BY <1>4 DEF GetBits, Enter, Counted, Accounting
  <2>6. left' \in 1 .. bytes' /\ Len(out') = (seg' - 1) * bytes' + (bytes' - left')
    BY <1>0, <1>4, <2>1 DEF GetBits
  <2>7. Counted'
    BY <2>5, <2>6, CountedBetweenReads
  <2> QED
    BY <2>4, <2>5, <2>7
<1>5. CASE ProcessDies
  <2>1. ClientTypeOK' /\ pipe' \in Seq(Items) /\ line' \in LineStates
    BY <1>0, <1>5 DEF ProcessDies, ClientTypeOK, TypeOK, MpsseTypeOK, Results
  <2> QED
    BY <1>5, <2>1, TypeSplit
    DEF ProcessDies, Counted, Accounting, ExactLength, Serving, ReadLabels, InitLabels
<1>6. CASE Noise /\ UNCHANGED call
  <2>1. pipe' \in Seq(Items)
    BY <1>0, <1>6 DEF Noise, Items, DataBytes
  <2>2. ClientTypeOK' /\ line' \in LineStates
    BY <1>0, <1>6 DEF Noise, control, call, ClientTypeOK, TypeOK, MpsseTypeOK
  <2> QED
    BY <1>6, <2>1, <2>2, TypeSplit
    DEF Noise, control, call, Counted, Accounting, ExactLength, Serving, Want
<1> QED
  BY <1>1, <1>2, <1>3, <1>4, <1>5, <1>6 DEF Calls, GetBitsInvalid, GetBitsOnFailed, GetBitsOutOfMemory

(* What every state of a handle satisfies, whatever its chip does. *)
HandleInv == TypeOK /\ Counted /\ (pc \notin {"closed", "idle"} => result # "Ok")

(* Initially ... *)
LEMMA HandleInit ==
    ASSUME Init
    PROVE  HandleInv
<1>1. segs \in Nat \ {0} /\ <<>> \in Seq(Items) /\ seg = 1
  BY AcquisitionAssumption DEF Init
<1>2. seg \in 1 .. segs
  BY <1>1
<1>3. TypeOK
  <2>1. MpsseTypeOK
    BY <1>1, PolicyAssumption DEF Init, MpsseTypeOK, LineStates, Probes, Outcomes
  <2>2. bytes \in 1 .. MaxBytes /\ left \in 0 .. MaxBytes /\ resets \in 0 .. InitRetries - 1
    BY PolicyAssumption, AcquisitionAssumption DEF Init
  <2> QED
    BY <1>1, <1>2, <2>1, <2>2 DEF Init, TypeOK, Results
<1> QED
  BY <1>3 DEF Init, HandleInv, Counted, Accounting, ExactLength, Serving, ReadLabels, InitLabels

(* ... in every step ... *)
LEMMA HandleStep ==
    ASSUME HandleInv, [Next]_vars
    PROVE  HandleInv'
<1>1. CASE CallStep
  BY <1>1, CallStepType, CallStepCounted DEF HandleInv, Counted
<1>2. CASE Calls \/ ProcessDies \/ (Noise /\ UNCHANGED call)
  <2>1. TypeOK' /\ Counted' /\ (pc' \notin {"closed", "idle"} /\ pc \in {"closed", "idle"} => result' # "Ok")
    BY <1>2, ClientStep DEF HandleInv
  <2>2. pc \notin {"closed", "idle"} => result' # "Ok"
    <3>1. CASE Calls
      BY <3>1 DEF Calls, Open, Drop, GetBitsInvalid, GetBitsOnFailed, GetBitsOutOfMemory, GetBits
    <3>2. CASE ProcessDies
      BY <3>2 DEF ProcessDies
    <3>3. CASE Noise /\ UNCHANGED call
      BY <3>3 DEF Noise, control, call, HandleInv
    <3> QED
      BY <1>2, <3>1, <3>2, <3>3
  <2> QED
    BY <2>1, <2>2 DEF HandleInv
<1>3. CASE UNCHANGED vars
  BY <1>3
  DEF vars, mpsseVars, control, call, HandleInv, TypeOK, MpsseTypeOK, Counted, Accounting,
      ExactLength, Serving, Want
<1> QED
  BY <1>1, <1>2, <1>3 DEF Next

(* ... and so in every behaviour. *)
LEMMA HandleInvariant == Spec => []HandleInv
BY HandleInit, HandleStep, PTL DEF Spec

(* A handle never leaves the ranges of its counters, through any order of    *)
(* calls, failures, recoveries and crashes (device.rs, protocol.rs).        *)
THEOREM TypeCorrect == Spec => []TypeOK
<1>1. HandleInv => TypeOK
  BY DEF HandleInv
<1> QED
  BY <1>1, HandleInvariant, PTL

(* No chip, however it behaves, makes a call lose count: what was accepted   *)
(* and what is left always add up to the request, and a successful call has *)
(* read its bytes * segs bytes exactly (read_exact_raw_into).               *)
THEOREM RequestCounted == Spec => [](Accounting /\ ExactLength)
<1>1. HandleInv => Accounting /\ ExactLength
  BY DEF HandleInv, Counted
<1> QED
  BY <1>1, HandleInvariant, PTL

----------------------------------------------------------------------------
(* Whose bytes a call returns, with an exact chip *)

(* Bytes in the chip, the chunk and the buffer are the current command's     *)
(* while it is read and none at all otherwise, but for failed handles and   *)
(* initializations, where EchoInv says what is left in the chip.            *)
Clean ==
    /\ OwnReply
    /\ CommandOnClean
    /\ HealthyIsClean
    /\ EchoInv
    /\ result = "Ok" => AllFresh(out)

(* A failing acquisition leaves a usable handle only before it reads. *)
LEMMA AcquireFailsClean ==
    ASSUME NEW e, e # "Ok", AcquireFails(e), e = "AllocationFailed" => pipe' = <<>>
    PROVE  Clean'
BY DEF AcquireFails, Enter, Clean, OwnReply, CommandOnClean, HealthyIsClean, EchoInv, EchoOrder,
       Serving, InitLabels, ReadLabels

(* No step of `initialize` leaves payload in the chunk it found empty. *)
LEMMA InitStepChunk ==
    ASSUME chunk = <<>>, InitStep
    PROVE  chunk' = <<>>
BY DEF InitStep, Reset, Configure, SyncWrite, SyncMatch, SyncOther, SyncEmpty, SyncError, SyncMissed,
       PurgeBytes, PurgeEmpty, PurgeError, PurgeDone, Clock, CountEmpty, CountRead, Abort

(* Bytes added to fresh ones are fresh if they are. *)
LEMMA FreshConcat ==
    ASSUME NEW s \in Seq(Items), NEW t \in Seq(Items), AllFresh(s), AllFresh(t)
    PROVE  AllFresh(s \o t)
<1> SUFFICES ASSUME NEW i \in 1 .. Len(s \o t) PROVE (s \o t)[i] = "fresh"
  BY DEF AllFresh
<1>1. Len(s \o t) = Len(s) + Len(t) /\ Len(s) \in Nat /\ Len(t) \in Nat
  BY ConcatType
<1>2. CASE i <= Len(s)
  <2>1. i \in 1 .. Len(s)
    BY <1>1, <1>2
  <2> QED
    BY <2>1, ConcatType DEF AllFresh
<1>3. CASE i > Len(s)
  <2>1. i \in Len(s) + 1 .. Len(s) + Len(t) /\ i - Len(s) \in 1 .. Len(t)
    BY <1>1, <1>3
  <2> QED
    BY <2>1, ConcatType DEF AllFresh
<1> QED
  BY <1>1, <1>2, <1>3

(* An exact chip with nothing left to say answers a command with its bytes. *)
LEMMA ExactAnswer ==
    ASSUME ExactChip, TypeOK, pipe = <<>>, AnswersRead(Want)
    PROVE  AllFresh(pipe') /\ Len(pipe') <= Want /\ pipe' \in Seq(Items)
<1>1. PICK j \in (IF Prompt THEN Want ELSE 0) .. Want + Excess :
         pipe' = Aged(pipe) \o Reply(j, Want)
  BY DEF AnswersRead
<1>2. j \in 0 .. Want /\ Want \in Nat
  BY <1>1, WantType, ExcessType DEF ExactChip
<1>3. Reply(j, Want) \in Seq(Items) /\ Len(Reply(j, Want)) = j
  BY <1>2, ReplyType
<1>4. AllFresh(Reply(j, Want))
  BY <1>2, <1>3 DEF AllFresh, Reply
<1>5. <<>> \in Seq(Items) /\ Len(<<>>) = 0
  OBVIOUS
<1>6. Aged(<<>>) \in Seq(Items) /\ Len(Aged(<<>>)) = 0
  BY <1>5, AgedType
<1>7. AllFresh(Aged(<<>>))
  BY <1>6 DEF AllFresh
<1>8. AllFresh(pipe')
  BY <1>1, <1>3, <1>4, <1>6, <1>7, FreshConcat
<1>9. Len(pipe') = j /\ pipe' \in Seq(Items)
  BY <1>1, <1>2, <1>3, <1>6, ConcatType
<1> QED
  BY <1>2, <1>8, <1>9

(* Nothing of the invariant but the chip matters when no request is served. *)
LEMMA CleanAtRest ==
    ASSUME chunk' = <<>>, pc' \in {"closed", "idle", "segment", "command", "reset"},
           pc' \in {"segment", "command"} => pipe' = <<>> /\ got' = <<>>,
           pc' = "idle" /\ ~ failed' => pipe' = <<>>,
           Serving' => AllFresh(out'),
           result' = "Ok" => AllFresh(out')
    PROVE  Clean'
BY DEF Clean, OwnReply, CommandOnClean, HealthyIsClean, EchoInv, EchoOrder

(* Every step of a call keeps to its own bytes. *)
LEMMA CallStepClean ==
    ASSUME ExactChip, HandleInv, Clean, CallStep
    PROVE  Clean'
<1>a. TrustedChip /\ TypeOK /\ Counted /\ (pc \notin {"closed", "idle"} => result # "Ok")
  BY DEF ExactChip, HandleInv
<1>b. /\ pipe \in Seq(Items) /\ got \in Seq(Items) /\ out \in Seq(Items)
      /\ chunk = <<>> /\ EchoInv
      /\ pc \notin {"read", "check"} => got = <<>>
  BY <1>a DEF TypeOK, MpsseTypeOK, Clean, OwnReply, Counted, Accounting
<1>0. \A e : e # "Ok" /\ AcquireFails(e) /\ (e = "AllocationFailed" => pipe' = <<>>) => Clean'
  BY AcquireFailsClean
<1>1. CASE InitStep /\ UNCHANGED call
  <2>1. pc \in InitLabels /\ pc' \in InitLabels /\ EchoInv'
    BY <1>1, <1>a, <1>b, InitStepRuns, InitStepType, EchoStep DEF MpsseInv, TypeOK
  <2>2. chunk' = <<>>
    BY <1>1, <1>b, InitStepChunk
  <2>3. result' # "Ok" /\ (Serving' => AllFresh(out'))
    BY <1>1, <1>a, <2>1 DEF call, InitLabels, ReadLabels, Clean, OwnReply, Serving
  <2> QED
    BY <2>1, <2>2, <2>3 DEF Clean, OwnReply, CommandOnClean, HealthyIsClean, InitLabels
<1>2. CASE OpenReturns
  BY <1>2, <1>a, <1>b, CleanAtRest DEF OpenReturns, EchoInv, Serving, InitLabels, ReadLabels
<1>3. CASE Reserve
  <2>1. pipe' = <<>> /\ got = <<>> /\ AllFresh(out) /\ result # "Ok"
    BY <1>3, <1>a DEF Reserve, Clean, CommandOnClean, OwnReply, Serving, ReadLabels
  <2>2. CASE AcquireFails("AllocationFailed")
    BY <1>0, <2>1, <2>2
  <2>3. CASE Enter("command") /\ UNCHANGED <<chunk, attempt, pair, probe, outcome, call>>
    BY <1>b, <2>1, <2>3, CleanAtRest DEF Enter, call
  <2> QED
    BY <1>3, <2>2, <2>3 DEF Reserve
<1>4. CASE WriteCommand
  <2>1. pipe = <<>> /\ got = <<>> /\ AllFresh(out) /\ result # "Ok"
    BY <1>4, <1>a DEF WriteCommand, Clean, CommandOnClean, OwnReply, Serving, ReadLabels
  <2>2. CASE \E e \in UsbFaults : AcquireFails(e)
    BY <1>0, <2>2, PolicyAssumption DEF UsbErrors, FatalErrors
  <2>3. CASE /\ Enter("read")
             /\ AnswersRead(Want)
             /\ UNCHANGED <<chunk, attempt, pair, probe, outcome>>
             /\ UNCHANGED <<failed, caller, bytes, segs, seg, left, resets, got, out, result>>
    <3>1. AllFresh(pipe') /\ Len(pipe') <= Want /\ pipe' \in Seq(Items)
      BY <1>a, <2>1, <2>3, ExactAnswer
    <3>2. pc' = "read" /\ chunk' = <<>> /\ got' = <<>> /\ out' = out /\ result' # "Ok" /\ Want' = Want
      BY <1>b, <2>1, <2>3 DEF Enter, Want
    <3>3. AllFresh(<<>>) /\ Len(<<>>) = 0
      BY DEF AllFresh
    <3>4. Len(got') + Len(pipe') <= Want'
      BY <3>1, <3>2, <3>3
    <3> QED
      BY <2>1, <3>1, <3>2, <3>3, <3>4
      DEF Clean, OwnReply, CommandOnClean, HealthyIsClean, EchoInv, EchoOrder
  <2> QED
    BY <1>4, <2>2, <2>3 DEF WriteCommand
<1>5. ASSUME NEW k \in Transfers(ReadBuffer(Want - Len(got))), ReadBytes(k)
      PROVE  Clean'
  <2> DEFINE take == IF k < Want - Len(got) THEN k ELSE Want - Len(got)
  <2>0. /\ k \in 1 .. Len(pipe) /\ Len(pipe) \in Nat /\ Len(got) \in Nat
        /\ Want \in Nat /\ Len(got) + Len(pipe) <= Want
        /\ AllFresh(pipe) /\ AllFresh(got) /\ AllFresh(out) /\ result # "Ok"
        /\ pipe' = Undelivered(k)
    BY <1>5, <1>a, <1>b, TransfersType, WantType DEF ReadBytes, Clean, OwnReply, Serving, ReadLabels
  <2>1. take = k
    BY <2>0
  <2>2. /\ Undelivered(k) \in Seq(Items)
        /\ Len(Undelivered(k)) = Len(pipe) - k
        /\ AllFresh(Undelivered(k))
    <3>1. /\ Undelivered(k) \in Seq(Items)
          /\ Len(Undelivered(k)) = Len(pipe) - k
          /\ \A i \in 1 .. Len(pipe) - k : Undelivered(k)[i] = pipe[i + k]
      BY <1>b, <2>0, UndeliveredElements
    <3>2. \A i \in 1 .. Len(pipe) - k : i + k \in 1 .. Len(pipe)
      BY <2>0
    <3>3. \A i \in 1 .. Len(pipe) - k : Undelivered(k)[i] = "fresh"
      BY <2>0, <3>1, <3>2 DEF AllFresh
    <3> QED
      BY <3>1, <3>3 DEF AllFresh
  <2>3. CASE AcquireFails("ProtocolViolation")
    BY <1>0, <2>3
  <2>4. CASE /\ got' = got \o SubSeq(pipe, 1, take)
             /\ chunk' = SubSeq(pipe, take + 1, k)
             /\ pc' = IF Len(got) + take = Want THEN "check" ELSE "read"
             /\ UNCHANGED <<failed, caller, bytes, segs, seg, left, resets, out, result>>
    <3> HIDE DEF take
    <3>1. /\ SubSeq(pipe, 1, k) \in Seq(Items)
          /\ Len(SubSeq(pipe, 1, k)) = k
          /\ AllFresh(SubSeq(pipe, 1, k))
      <4>1. 1 \in 1 .. Len(pipe) + 1 /\ k \in 0 .. Len(pipe) /\ 1 <= k /\ k - 1 + 1 = k
        BY <2>0
      <4>2. /\ SubSeq(pipe, 1, k) \in Seq(Items)
            /\ Len(SubSeq(pipe, 1, k)) = k
            /\ \A i \in 1 .. k : SubSeq(pipe, 1, k)[i] = pipe[i]
        BY <1>b, <4>1
      <4> QED
        BY <2>0, <4>1, <4>2 DEF AllFresh
    <3>2. chunk' = <<>>
      <4>1. chunk' = SubSeq(pipe, k + 1, k) /\ k \in 1 .. Len(pipe) /\ pipe \in Seq(Items)
        BY <1>b, <2>0, <2>1, <2>4
      <4>2. \A s \in Seq(Items) : \A n \in 1 .. Len(s) : SubSeq(s, n + 1, n) = <<>>
        OBVIOUS
      <4> QED
        BY <4>1, <4>2
    <3>3. AllFresh(got') /\ Len(got') = Len(got) + k
      <4>1. got' = got \o SubSeq(pipe, 1, k)
        BY <2>1, <2>4
      <4>2. AllFresh(got')
        BY <1>b, <2>0, <3>1, <4>1, FreshConcat
      <4>3. Len(got \o SubSeq(pipe, 1, k)) = Len(got) + Len(SubSeq(pipe, 1, k))
        BY <1>b, <3>1, ConcatType
      <4> QED
        BY <3>1, <4>1, <4>2, <4>3
    <3>4. Len(got') + Len(pipe') <= Want /\ Want' = Want
      <4>1. Len(got') = Len(got) + k /\ Len(pipe') = Len(pipe) - k
        BY <2>0, <2>2, <3>3
      <4>2. \A g, p, w \in Nat : g + p <= w => (g + k) + (p - k) <= w
        BY <2>0
      <4>3. (Len(got) + k) + (Len(pipe) - k) <= Want
        BY <2>0, <4>2
      <4>4. Want' = Want
        BY <2>4 DEF Want
      <4> QED
        BY <4>1, <4>3, <4>4
    <3>5. pc' = "check" => pipe' = <<>>
      <4>1. pc' = "check" => Len(got) + k = Want
        BY <2>1, <2>4
      <4>2. pc' = "check" => Len(pipe) - k = 0
        BY <2>0, <4>1
      <4> QED
        BY <2>0, <2>2, <4>2
    <3>6. pc' \in {"read", "check"} /\ out' = out /\ result' # "Ok" /\ AllFresh(pipe')
      BY <2>0, <2>2, <2>4
    <3> QED
      BY <2>0, <3>2, <3>3, <3>4, <3>5, <3>6
      DEF Clean, OwnReply, CommandOnClean, HealthyIsClean, EchoInv, EchoOrder
  <2> QED
    BY <1>5, <2>3, <2>4 DEF ReadBytes
<1>6. CASE ReadEmpty
  <2>0. AllFresh(out) /\ result # "Ok" /\ pc = "read"
    BY <1>6, <1>a DEF ReadEmpty, Clean, OwnReply, Serving, ReadLabels
  <2>1. CASE AcquireFails("ProtocolViolation") \/ AcquireFails("ReadRetriesExhausted")
    BY <1>0, <2>1
  <2>2. CASE StartInit /\ chunk' = <<>> /\ UNCHANGED <<out, result>>
    BY <2>0, <2>2, CleanAtRest DEF StartInit, Enter
  <2>3. CASE /\ UNCHANGED <<chunk, pc, attempt, pair, probe, reads, outcome>>
             /\ UNCHANGED <<failed, caller, bytes, segs, seg, left, resets, got, out, result>>
    BY <1>6, <1>b, <2>0, <2>3
    DEF ReadEmpty, Clean, OwnReply, CommandOnClean, HealthyIsClean, EchoInv, EchoOrder, Want
  <2> QED
    BY <1>6, <2>1, <2>2, <2>3 DEF ReadEmpty, Incomplete
<1>7. ASSUME NEW e \in UsbFaults, ReadError(e)
      PROVE  Clean'
  BY <1>0, <1>7, PolicyAssumption DEF ReadError, UsbErrors, FatalErrors
<1>8. CASE RecoveryReturns
  <2>0. AllFresh(out) /\ result # "Ok" /\ got = <<>>
    BY <1>8, <1>a, <1>b DEF RecoveryReturns, Clean, OwnReply, Serving, InitLabels
  <2>1. CASE outcome # "Ok" /\ AcquireFails(outcome)
    <3>1. outcome # "AllocationFailed"
      BY <1>a DEF TypeOK, MpsseTypeOK, Outcomes, FatalErrors
    <3> QED
      BY <1>0, <2>1, <3>1
  <2>2. CASE outcome = "Ok" /\ Enter("command") /\ UNCHANGED <<chunk, call>>
    <3>1. pipe' = <<>>
      BY <1>8, <1>b, <2>2 DEF RecoveryReturns, EchoInv
    <3> QED
      BY <1>b, <2>0, <2>2, <3>1, CleanAtRest DEF Enter, call
  <2> QED
    BY <1>8, <2>1, <2>2 DEF RecoveryReturns
<1>9. CASE Check
  <2>1. pipe' = <<>> /\ AllFresh(got) /\ AllFresh(out)
    BY <1>9, <1>a DEF Check, Clean, OwnReply, Serving, ReadLabels
  <2>2. CASE AcquireFails("ProtocolViolation")
    BY <1>0, <2>2
  <2>3. CASE CommandDone
    <3>1. AllFresh(out') /\ got' = <<>> /\ chunk' = <<>>
      BY <1>b, <2>1, <2>3, FreshConcat DEF CommandDone
    <3>2. pc' \in {"command", "segment", "idle"}
      BY <2>3 DEF CommandDone, Enter
    <3> QED
      BY <2>1, <3>1, <3>2, CleanAtRest
  <2> QED
    BY <1>9, <2>2, <2>3 DEF Check
<1> QED
  BY <1>1, <1>2, <1>3, <1>4, <1>5, <1>6, <1>7, <1>8, <1>9 DEF CallStep

(* So does a call that starts and a process that dies. *)
LEMMA ClientStepClean ==
    ASSUME ExactChip, HandleInv, Clean, Calls \/ ProcessDies
    PROVE  Clean'
<1>a. /\ chunk = <<>>
      /\ pc \in {"closed", "idle"} => got = <<>>
      /\ pc = "idle" /\ ~ failed => pipe = <<>>
      /\ result = "Ok" => AllFresh(out)
  BY DEF HandleInv, Counted, Accounting, Clean, OwnReply, HealthyIsClean
<1>b. AllFresh(<<>>)
  BY DEF AllFresh
<1>1. CASE Open
  BY <1>1, CleanAtRest DEF Open, StartInit, Enter, Serving, ReadLabels
<1>2. CASE Drop
  BY <1>2, <1>a, CleanAtRest DEF Drop, call, Serving, ReadLabels, InitLabels
<1>3. ASSUME NEW r \in {"InvalidBits", "DeviceDisconnected", "AllocationFailed"}, pc = "idle", Rejected(r)
      PROVE  Clean'
  BY <1>3, <1>a, CleanAtRest DEF Rejected, mpsseVars, control, Serving, ReadLabels, InitLabels
<1>4. ASSUME NEW n \in 1 .. MaxBytes, NEW s \in Segments, GetBits(n, s)
      PROVE  Clean'
  BY <1>4, <1>a, <1>b, CleanAtRest DEF GetBits, Enter
<1>5. CASE ProcessDies
  BY <1>5, CleanAtRest DEF ProcessDies, Serving, ReadLabels, InitLabels
<1> QED
  BY <1>1, <1>2, <1>3, <1>4, <1>5 DEF Calls, GetBitsInvalid, GetBitsOnFailed, GetBitsOutOfMemory

(* What the chip says before it enters MPSSE mode disturbs nothing. *)
LEMMA NoiseClean ==
    ASSUME ExactChip, Clean, Noise, UNCHANGED call
    PROVE  Clean'
BY DEF Noise, control, call, ExactChip, TrustedChip, BeforeMpsse, Clean, OwnReply, CommandOnClean,
       HealthyIsClean, EchoInv, EchoOrder, Serving, ReadLabels, AllFresh

(* ... and so does every behaviour. *)
LEMMA CleanInvariant ==
    ASSUME ExactChip
    PROVE  Spec => [](HandleInv /\ Clean)
<1>1. Init => HandleInv /\ Clean
  BY HandleInit
  DEF Init, Clean, OwnReply, CommandOnClean, HealthyIsClean, EchoInv, EchoOrder, Serving,
      ReadLabels, InitLabels
<1>2. HandleInv /\ Clean /\ [Next]_vars => (HandleInv /\ Clean)'
  <2> SUFFICES ASSUME HandleInv, Clean, [Next]_vars PROVE Clean'
    BY HandleStep
  <2>1. CASE CallStep
    BY <2>1, CallStepClean
  <2>2. CASE Calls \/ ProcessDies
    BY <2>2, ClientStepClean
  <2>3. CASE Noise /\ UNCHANGED call
    BY <2>3, NoiseClean DEF Next
  <2>4. CASE UNCHANGED vars
    BY <2>4
    DEF vars, mpsseVars, control, call, Clean, OwnReply, CommandOnClean, HealthyIsClean, EchoInv,
        EchoOrder, NoneIs, OnlyLastIs, Serving, Want, AllFresh
  <2> QED
    BY <2>1, <2>2, <2>3, <2>4 DEF Next
<1> QED
  BY <1>1, <1>2, PTL DEF Spec

(* With a chip that sends what it is asked for and drops its old answers on  *)
(* a mode switch, every successful call returns bytes of its own read       *)
(* commands only and exactly as many as it asked for, through any sequence  *)
(* of crashes, failures, late or lost answers and recoveries               *)
(* (get_bits_with_fold).                                                   *)
THEOREM OwnBytesOnly ==
    ASSUME ExactChip
    PROVE  Spec => []ExactlyFresh
<1>1. HandleInv /\ Clean => ExactlyFresh
  BY DEF HandleInv, Counted, ExactLength, Clean, ExactlyFresh
<1> QED
  BY <1>1, CleanInvariant, PTL

(* Under the same assumption every read command goes to a chip with nothing  *)
(* left to say, what comes while it is read is its answer, and a handle that *)
(* is not failed has left nothing behind (read_exact_raw_into).             *)
THEOREM NothingLeftBehind ==
    ASSUME ExactChip
    PROVE  Spec => [](CommandOnClean /\ OwnReply /\ HealthyIsClean /\ EchoOrder)
<1>1. HandleInv /\ Clean => CommandOnClean /\ OwnReply /\ HealthyIsClean /\ EchoOrder
  BY DEF Clean, EchoInv
<1> QED
  BY <1>1, CleanInvariant, PTL

(* A failed handle stays failed and touches the chip no more until it is     *)
(* dropped, for any retry limits and any faults (BitBabbler.failed).        *)
THEOREM FailureIsFinal ==
    ASSUME "idle" \notin NoisyAt
    PROVE  Spec => FailedIsFinal
<1>1. ASSUME [Next]_vars, pc = "idle", failed, pc' # "closed"
      PROVE  UNCHANGED <<pipe, chunk, pc, failed>>
  <2>1. ~ CallStep
    BY <1>1, InitStepRuns
    DEF CallStep, InitLabels, OpenReturns, Reserve, WriteCommand, ReadBytes, ReadEmpty, ReadError,
        RecoveryReturns, Check
  <2>2. CASE Calls
    BY <1>1, <2>2
    DEF Calls, Open, Drop, GetBitsInvalid, GetBitsOnFailed, GetBitsOutOfMemory, GetBits, Rejected,
        mpsseVars, control
  <2>3. CASE UNCHANGED vars
    BY <2>3 DEF vars, mpsseVars, control, call
  <2> QED
    BY <1>1, <2>1, <2>2, <2>3 DEF Next, ProcessDies, Noise
<1>2. [Next]_vars => [pc = "idle" /\ failed /\ pc' # "closed" => UNCHANGED <<pipe, chunk, pc, failed>>]_vars
  BY <1>1
<1> QED
  BY <1>2, PTL DEF Spec, FailedIsFinal

----------------------------------------------------------------------------
(* A chip that answers in full and in time, maybe with bytes in excess *)

(* What such a chip may have piled up: the reads of a purge, 54 of 8192      *)
(* bytes, take it and the answer of a command that nobody has read.         *)
PromptHandle == PromptChip /\ ~ BadStatus /\ MaxPipe + MaxExcess + MaxRead <= Backlog

(* n bytes are what some number of whole packets carries.                   *)
WholePackets(n) == \E q \in Nat : n = q * (MaxPacket - 2)

(* All commands of the segment up to the current one were of MaxRead bytes. *)
WholeReads == \E c \in Nat : bytes = c * MaxRead + left

(* The excess bytes of commands that filled their packets.                  *)
Leftover == Len(pipe) <= MaxPipe + MaxExcess /\ (MaxExcess = 0 => pipe = <<>>)

(* A command's answer is under way in full behind what was left before it,   *)
(* so that no read is ever empty, and as many bytes are left over when its  *)
(* own number has come.  They end up in the chunk unless the command fills  *)
(* its packets; a handle is only lost to bytes in excess.                   *)
ServedInv ==
    /\ PromptInv
    /\ Len(pipe) <= Backlog
    /\ pc \in InitLabels => caller = "open" /\ chunk = <<>>
    /\ pc \in {"segment", "command"} \/ (pc = "idle" /\ ~ failed) => Leftover /\ chunk = <<>>
    /\ pc = "read" =>
          /\ chunk = <<>>
          /\ Len(got) + Len(pipe) \in Want .. Want + MaxPipe + MaxExcess
          /\ MaxExcess = 0 => Len(got) + Len(pipe) = Want
          /\ WholePackets(Len(got))
    /\ pc = "check" =>
          /\ line = "ok"
          /\ Leftover
          /\ chunk # <<>> => MaxExcess > 0
          /\ pipe = <<>> \/ chunk # <<>> \/ WholePackets(Want)
    /\ pc \in ReadLabels => WholeReads
    /\ failed => MaxExcess > 0
    /\ ExcessNoticed
    /\ PromptServes

(* What a call may return. *)
ServedResults ==
    {"none", "Opened", "Ok", "InvalidBits", "AllocationFailed"}
        \cup (IF MaxExcess = 0 THEN {} ELSE {"ProtocolViolation", "DeviceDisconnected"})

(* PromptServes of a prompt handle. *)
LEMMA ServesMeans ==
    ASSUME PromptHandle
    PROVE  /\ PromptServes <=> resets = 0 /\ result \in ServedResults
           /\ PromptServes' <=> resets' = 0 /\ result' \in ServedResults
BY DEF PromptHandle, PromptChip, PromptServes, ServedResults

(* Numbers that the purge's reads are enough for. *)
LEMMA PromptNumbers ==
    ASSUME PromptHandle
    PROVE  /\ Backlog \in Nat /\ MaxPipe \in Nat /\ MaxExcess \in Nat /\ MaxRead \in Nat \ {0}
           /\ MaxPipe + MaxExcess + MaxRead <= Backlog
           /\ MaxPacket - 2 \in Nat \ {0}
BY BacklogType, PolicyAssumption, AcquisitionAssumption DEF PromptHandle

(* What initialize leaves under way fits in a purge. *)
LEMMA PromptInitPipe ==
    ASSUME PromptChip
    PROVE  /\ MpsseInv /\ PromptInv => Len(pipe) <= Backlog
           /\ MpsseInv' /\ PromptInv' => Len(pipe') <= Backlog
<1>0. Backlog \in Nat /\ Backlog >= 2 /\ Payload(PurgeBuffer) \in Nat /\ Len(<<>>) = 0
  BY BacklogType
<1>1. \A b, n, r, w \in Nat : n + r * w <= b => n <= b
  <2> SUFFICES ASSUME NEW b \in Nat, NEW n \in Nat, NEW r \in Nat, NEW w \in Nat, n + r * w <= b
               PROVE  n <= b
    OBVIOUS
  <2>1. r * w \in Nat
    OBVIOUS
  <2> QED
    BY <2>1
<1>2. ASSUME MpsseInv, PromptInv
      PROVE  Len(pipe) <= Backlog
  <2>0. pipe \in Seq(Items) /\ Len(pipe) \in Nat /\ reads \in Nat /\ pc \in InitLabels
    BY <1>2 DEF MpsseInv, MpsseTypeOK
  <2>1. CASE pipe = <<>>
    BY <1>0, <2>1
  <2>2. CASE pc = "sync"
    <3>1. pipe = <<"FA", probe>>
      BY <1>2, <2>2 DEF PromptInv
    <3>2. Len(pipe) = 2
      BY <3>1
    <3> QED
      BY <1>0, <3>2
  <2>3. CASE pc = "purge1" /\ pipe # <<>>
    <3>1. Len(pipe) + reads * Payload(PurgeBuffer) <= Backlog
      BY <1>2, <2>3 DEF PromptInv
    <3> QED
      BY <1>0, <1>1, <2>0, <3>1
  <2>4. CASE pc = "reset"
    BY <1>2, <2>4 DEF PromptInv
  <2> QED
    BY <1>2, <2>0, <2>1, <2>2, <2>3, <2>4 DEF PromptInv, InitLabels
<1>3. ASSUME MpsseInv', PromptInv'
      PROVE  Len(pipe') <= Backlog
  <2>0. pipe' \in Seq(Items) /\ Len(pipe') \in Nat /\ reads' \in Nat /\ pc' \in InitLabels
    BY <1>3 DEF MpsseInv, MpsseTypeOK
  <2>1. CASE pipe' = <<>>
    BY <1>0, <2>1
  <2>2. CASE pc' = "sync"
    <3>1. pipe' = <<"FA", probe'>>
      BY <1>3, <2>2 DEF PromptInv
    <3>2. Len(pipe') = 2
      BY <3>1
    <3> QED
      BY <1>0, <3>2
  <2>3. CASE pc' = "purge1" /\ pipe' # <<>>
    <3>1. Len(pipe') + reads' * Payload(PurgeBuffer) <= Backlog
      BY <1>3, <2>3 DEF PromptInv
    <3> QED
      BY <1>0, <1>1, <2>0, <3>1
  <2>4. CASE pc' = "reset"
    BY <1>3, <2>4 DEF PromptInv
  <2> QED
    BY <1>3, <2>0, <2>1, <2>2, <2>3, <2>4 DEF PromptInv, InitLabels
<1> QED
  BY <1>2, <1>3

(* A prompt chip answers with all a command asks for, behind what was left.  *)
LEMMA PromptAnswer ==
    ASSUME PromptHandle, TypeOK, Leftover, AnswersRead(Want)
    PROVE  /\ pipe' \in Seq(Items)
           /\ Len(pipe') \in Want .. Want + MaxPipe + MaxExcess
           /\ MaxExcess = 0 => Len(pipe') = Want
<1>1. PICK j \in Want .. Want + Excess : pipe' = Aged(pipe) \o Reply(j, Want)
  BY DEF AnswersRead, PromptHandle, PromptChip
<1>2. j \in Nat /\ Want \in Nat /\ Excess \in 0 .. MaxExcess
  BY <1>1, WantType, ExcessType, PromptNumbers
<1>3. pipe \in Seq(Items) /\ Len(pipe) \in Nat /\ Len(<<>>) = 0
  BY DEF TypeOK, MpsseTypeOK
<1>4. Aged(pipe) \in Seq(Items) /\ Len(Aged(pipe)) = Len(pipe)
  BY <1>3, AgedType
<1>5. Reply(j, Want) \in Seq(Items) /\ Len(Reply(j, Want)) = j
  BY <1>2, ReplyType
<1>6. pipe' \in Seq(Items) /\ Len(pipe') = Len(pipe) + j
  <2>1. Len(Aged(pipe) \o Reply(j, Want)) = Len(Aged(pipe)) + Len(Reply(j, Want))
    BY <1>4, <1>5, ConcatType
  <2>2. Aged(pipe) \o Reply(j, Want) \in Seq(Items)
    BY <1>4, <1>5, ConcatType
  <2> QED
    BY <1>1, <1>4, <1>5, <2>1, <2>2
<1>7. Len(pipe) + Excess <= MaxPipe + MaxExcess
  BY <1>2, <1>3, PromptNumbers DEF Excess, Leftover
<1>8. /\ MaxPipe \in Nat /\ MaxExcess \in Nat
      /\ Want <= j /\ j <= Want + Excess
      /\ MaxExcess = 0 => Len(pipe) = 0 /\ Excess = 0
  BY <1>1, <1>2, <1>3, PromptNumbers DEF Leftover
<1> QED
  BY <1>2, <1>3, <1>6, <1>7, <1>8

(* The bulk read of a command that lacks n bytes is of one packet or more.   *)
LEMMA ReadBufferType ==
    ASSUME NEW n \in Nat
    PROVE  ReadBuffer(n) \in Nat /\ ReadBuffer(n) >= MaxPacket
<1> DEFINE b == n + 1 + MaxPacket
           p == b \div MaxPacket
<1>1. MaxPacket \in Nat \ {0} /\ b \in Nat /\ b >= MaxPacket
  BY PolicyAssumption
<1>2. p \in Nat /\ b % MaxPacket \in 0 .. MaxPacket - 1 /\ b = MaxPacket * p + (b % MaxPacket)
  BY <1>1
<1>3. ReadBuffer(n) = p * MaxPacket
  BY DEF ReadBuffer
<1> HIDE DEF b, p
<1>4. p # 0
  <2> SUFFICES ASSUME p = 0 PROVE FALSE
    OBVIOUS
  <2>1. MaxPacket * p = 0
    BY <1>1
  <2> QED
    BY <1>1, <1>2, <2>1
<1>5. 1 * MaxPacket <= p * MaxPacket /\ p * MaxPacket \in Nat
  BY <1>1, <1>2, <1>4, FactorsGrow
<1> QED
  BY <1>1, <1>3, <1>5

(* Whole packets make up whole packets. *)
LEMMA PacketsAdd ==
    ASSUME NEW a \in Nat, NEW b \in Nat, WholePackets(a), WholePackets(b)
    PROVE  WholePackets(a + b)
<1>1. PICK p \in Nat : a = p * (MaxPacket - 2)
  BY DEF WholePackets
<1>2. PICK q \in Nat : b = q * (MaxPacket - 2)
  BY DEF WholePackets
<1> DEFINE room == MaxPacket - 2
<1>3. room \in Nat
  BY PolicyAssumption
<1> HIDE DEF room
<1>4. (p + q) * room = p * room + q * room /\ p + q \in Nat
  BY <1>3
<1>5. a + b = (p + q) * room
  BY <1>1, <1>2, <1>4 DEF room
<1> QED
  BY <1>4, <1>5 DEF WholePackets, room

(* A request ending with a command that fills its packets is such a request. *)
LEMMA PacketsFilled ==
    ASSUME NEW n \in Nat, NEW w \in 1 .. MaxRead, NEW c \in Nat, n = c * MaxRead + w, WholePackets(w)
    PROVE  FillsPackets(n)
<1>1. PICK p \in Nat : w = p * (MaxPacket - 2)
  BY DEF WholePackets
<1> DEFINE room == MaxPacket - 2
<1>2. room \in Nat /\ room >= 1 /\ MaxRead \in Nat \ {0} /\ w \in Nat
  BY PolicyAssumption, AcquisitionAssumption
<1> HIDE DEF room
<1>3. \A a, m \in Nat : m >= 1 => a <= a * m /\ a * m \in Nat
  OBVIOUS
<1>4. w = p * room
  BY <1>1 DEF room
<1>5. c <= c * MaxRead /\ c * MaxRead \in Nat /\ p <= p * room
  BY <1>2, <1>3
<1>6. c \in 0 .. n /\ p \in 0 .. n
  BY <1>2, <1>4, <1>5
<1>7. p * (MaxPacket - 2) \in 1 .. MaxRead /\ n = c * MaxRead + p * (MaxPacket - 2)
  BY <1>1
<1> QED
  BY <1>6, <1>7 DEF FillsPackets

(* What a step must leave for ServedInv outside of reads and checks.         *)
LEMMA ServedAtRest ==
    ASSUME PromptHandle, PromptInv', Len(pipe') <= Backlog, pc' \notin {"read", "check"},
           pc' \in InitLabels => caller' = "open" /\ chunk' = <<>>,
           pc' \in {"segment", "command"} \/ (pc' = "idle" /\ ~ failed') => Leftover' /\ chunk' = <<>>,
           pc' \in {"segment", "command"} => WholeReads',
           failed' => MaxExcess > 0,
           ExcessNoticed', resets' = 0, result' \in ServedResults
    PROVE  ServedInv'
BY ServesMeans DEF ServedInv, ReadLabels

(* A call loses its handle to bytes in excess only. *)
LEMMA AcquireFailsServed ==
    ASSUME PromptHandle, PromptInv, resets = 0, Leftover', Len(pipe') <= Backlog,
           NEW e, AcquireFails(e),
           e = "AllocationFailed" \/ (e = "ProtocolViolation" /\ MaxExcess > 0)
    PROVE  ServedInv'
<1>1. /\ pc' = "idle" /\ chunk' = <<>> /\ result' = e /\ failed' = (e # "AllocationFailed") /\ resets' = 0
      /\ UNCHANGED <<attempt, pair, probe, outcome, caller>>
  BY DEF AcquireFails, Enter
<1>2. PromptInv'
  BY <1>1 DEF PromptInv, Purging
<1>3. result' \in ServedResults /\ ExcessNoticed'
  BY <1>1, AcquisitionAssumption DEF ServedResults, ExcessNoticed
<1> QED
  BY <1>1, <1>2, <1>3, ServedAtRest DEF InitLabels

(* A transfer of a command's answer takes all there is or fills its buffer.  *)
LEMMA ReadBytesServed ==
    ASSUME PromptHandle, HandleInv, ServedInv,
           NEW k \in Transfers(ReadBuffer(Want - Len(got))), ReadBytes(k)
    PROVE  ServedInv'
<1> DEFINE lack == Want - Len(got)
           take == IF k < lack THEN k ELSE lack
           room == Payload(ReadBuffer(lack))
<1>0. /\ PromptInv /\ Prompt /\ UsbFaults = {} /\ ~ BadStatus /\ TypeOK
      /\ resets = 0 /\ result \in ServedResults /\ result # "Ok" /\ pc = "read" /\ chunk = <<>>
      /\ pipe \in Seq(Items) /\ got \in Seq(Items) /\ WholeReads /\ (failed => MaxExcess > 0)
  BY ServesMeans
  DEF PromptHandle, PromptChip, HandleInv, TypeOK, MpsseTypeOK, ServedInv, ReadBytes, ReadLabels
<1>1. /\ Want \in Nat /\ Len(got) \in Nat /\ Len(pipe) \in Nat /\ Len(got) < Want
      /\ lack \in Nat \ {0} /\ lack = Want - Len(got)
  BY <1>0, WantType DEF HandleInv, Counted, Accounting
<1>2. /\ Len(got) + Len(pipe) \in Want .. Want + MaxPipe + MaxExcess
      /\ MaxExcess = 0 => Len(got) + Len(pipe) = Want
      /\ WholePackets(Len(got)) /\ Len(pipe) <= Backlog
  BY <1>0 DEF ServedInv
<1>3. room \in Nat /\ WholePackets(room)
  <2>1. ReadBuffer(lack) \in Nat /\ ReadBuffer(lack) >= MaxPacket
    BY <1>1, ReadBufferType
  <2> QED
    BY <2>1, PayloadType DEF WholePackets
<1>4. /\ k \in 1 .. Len(pipe) /\ (k = Len(pipe) \/ k = room)
      /\ Len(Undelivered(k)) = Len(pipe) - k
      /\ k = Len(pipe) => Undelivered(k) = <<>>
  BY <1>0, PromptTransfer, TransfersType
<1>5. /\ pipe' = Undelivered(k)
      /\ got' = got \o SubSeq(pipe, 1, take)
      /\ chunk' = SubSeq(pipe, take + 1, k)
      /\ line' = "ok"
      /\ pc' = IF Len(got) + take = Want THEN "check" ELSE "read"
      /\ UNCHANGED <<attempt, pair, probe, streak, reads, outcome>>
      /\ UNCHANGED <<failed, caller, bytes, segs, seg, left, resets, out, result>>
  BY <1>0 DEF ReadBytes, LineAfter
<1> HIDE DEF lack, room
<1>6. take \in Nat /\ take <= k /\ take <= lack /\ (take = k \/ take = lack)
  BY <1>1, <1>4
<1> HIDE DEF take
<1>7. /\ Len(pipe') = Len(pipe) - k
      /\ Len(got') = Len(got) + take
      /\ take = k => chunk' = <<>>
      /\ k = Len(pipe) => pipe' = <<>>
  <2>1. SubSeq(pipe, 1, take) \in Seq(Items) /\ Len(SubSeq(pipe, 1, take)) = take
    BY <1>0, <1>1, <1>4, <1>6
  <2>2. Len(got \o SubSeq(pipe, 1, take)) = Len(got) + take
    BY <1>0, <2>1, ConcatType
  <2>3. SubSeq(pipe, k + 1, k) = <<>>
    BY <1>0, <1>1, <1>4
  <2> QED
    BY <1>4, <1>5, <2>2, <2>3
<1>8. /\ PromptInv' /\ PromptServes' /\ ExcessNoticed' /\ WholeReads' /\ Want' = Want
      /\ (failed' => MaxExcess > 0) /\ Len(pipe') <= Backlog
  <2>1. PromptInv' /\ ExcessNoticed'
    BY <1>0, <1>5 DEF PromptInv, Purging, ExcessNoticed
  <2>2. PromptServes'
    BY <1>0, <1>5, ServesMeans
  <2>3. WholeReads' /\ Want' = Want
    BY <1>0, <1>5 DEF WholeReads, Want
  <2>4. Len(pipe') <= Backlog
    BY <1>1, <1>2, <1>4, <1>7, PromptNumbers
  <2> QED
    BY <1>0, <1>5, <2>1, <2>2, <2>3, <2>4
<1>9. CASE Len(got) + take = Want
  <2>1. take = lack /\ pc' = "check" /\ line' = "ok"
    BY <1>1, <1>5, <1>6, <1>9
  <2>2. Len(pipe') <= MaxPipe + MaxExcess
    <3>1. /\ Len(pipe') = Len(pipe) - k /\ k \in Nat /\ Want - Len(got) <= k
          /\ MaxPipe \in Nat /\ MaxExcess \in Nat
      BY <1>1, <1>4, <1>6, <1>7, <2>1, PromptNumbers
    <3>2. Len(got) + Len(pipe) <= Want + MaxPipe + MaxExcess
      BY <1>1, <1>2, <3>1
    <3> QED
      BY <1>1, <3>1, <3>2
  <2>3. MaxExcess = 0 => pipe' = <<>>
    <3>1. MaxExcess = 0 => k = Len(pipe)
      BY <1>1, <1>2, <1>4, <1>6, <2>1
    <3> QED
      BY <1>7, <3>1
  <2>4. chunk' # <<>> => MaxExcess > 0
    <3>1. take # k => MaxExcess # 0
      BY <1>1, <1>2, <1>4, <1>6, <2>1
    <3> QED
      BY <1>7, <3>1, PromptNumbers
  <2>5. take # k => chunk' # <<>>
    <3>1. take # k => take + 1 \in 1 .. k /\ k \in 1 .. Len(pipe)
      BY <1>4, <1>6
    <3>2. take # k => Len(SubSeq(pipe, take + 1, k)) > 0
      BY <1>0, <3>1
    <3>3. Len(<<>>) = 0
      OBVIOUS
    <3>4. chunk' = SubSeq(pipe, take + 1, k)
      BY <1>5
    <3>5. take # k => Len(chunk') > 0
      BY <3>2, <3>4
    <3> QED
      BY <3>3, <3>5
  <2>6. pipe' = <<>> \/ chunk' # <<>> \/ WholePackets(Want)
    <3>1. SUFFICES ASSUME k # Len(pipe), take = k PROVE WholePackets(Want)
      BY <1>7, <2>5
    <3>2. Want = Len(got) + room
      BY <1>4, <1>9, <3>1
    <3> QED
      BY <1>1, <1>2, <1>3, <3>2, PacketsAdd
  <2> QED
    BY <1>8, <2>1, <2>2, <2>3, <2>4, <2>6 DEF ServedInv, Leftover, InitLabels
<1>10. CASE Len(got) + take # Want
  <2>1. take = k /\ pc' = "read" /\ k = room /\ chunk' = <<>>
    <3>1. take # lack
      BY <1>1, <1>10
    <3>2. take = k /\ k < lack
      BY <1>1, <1>4, <1>6, <3>1
    <3>3. Len(got) + Len(pipe) >= Want
      BY <1>1, <1>2, PromptNumbers
    <3>4. k # Len(pipe)
      BY <1>1, <3>2, <3>3
    <3> QED
      BY <1>4, <1>5, <1>7, <1>10, <3>2, <3>4
  <2>2. Len(got') + Len(pipe') = Len(got) + Len(pipe) /\ Len(got') = Len(got) + room
    BY <1>1, <1>4, <1>7, <2>1
  <2>3. WholePackets(Len(got'))
    BY <1>1, <1>2, <1>3, <2>2, PacketsAdd
  <2> QED
    BY <1>2, <1>8, <2>1, <2>2, <2>3 DEF ServedInv, InitLabels
<1> QED
  BY <1>9, <1>10

(* A command that is done leaves what it left in the chip to the next one,   *)
(* and none if it is the last one of its request and left room.             *)
LEMMA CommandDoneServed ==
    ASSUME PromptHandle, HandleInv, ServedInv, pc = "check", chunk = <<>>, CommandDone, UNCHANGED pipe
    PROVE  ServedInv'
<1>0. /\ PromptInv /\ Leftover /\ WholeReads /\ (pipe = <<>> \/ WholePackets(Want))
      /\ result \in ServedResults /\ (failed => MaxExcess > 0) /\ Len(pipe) <= Backlog
  BY ServesMeans DEF ServedInv, ReadLabels
<1>1. /\ left \in 1 .. bytes /\ bytes \in Nat /\ left \in Nat /\ MaxRead \in Nat \ {0} /\ Want \in 1 .. MaxRead
  <2>1. left \in 1 .. bytes
    BY DEF HandleInv, Counted, Accounting, Serving, ReadLabels
  <2>2. bytes \in Nat /\ left \in Nat /\ MaxRead \in Nat \ {0}
    BY AcquisitionAssumption DEF HandleInv, TypeOK
  <2> QED
    BY <2>1, <2>2 DEF Want
<1>2. /\ pc' \in {"command", "segment", "idle"} /\ chunk' = <<>> /\ resets' = 0
      /\ result' \in ServedResults /\ UNCHANGED <<attempt, pair, probe, outcome, failed, pipe, bytes>>
  BY <1>0 DEF CommandDone, Enter, ServedResults
<1>3. PromptInv' /\ Leftover'
  BY <1>0, <1>2 DEF PromptInv, Purging, Leftover
<1>4. pc' \in {"segment", "command"} => WholeReads'
  <2>1. PICK c \in Nat : bytes = c * MaxRead + left
    BY <1>0 DEF WholeReads
  <2>2. CASE pc' = "command"
    <3>1. left > Want /\ left' = left - Want
      BY <2>2 DEF CommandDone, Enter
    <3>2. Want = MaxRead
      BY <1>1, <3>1 DEF Want
    <3>3. (c + 1) * MaxRead = c * MaxRead + MaxRead /\ c * MaxRead \in Nat
      BY <1>1
    <3>4. bytes = (c + 1) * MaxRead + (left - MaxRead) /\ c + 1 \in Nat
      BY <1>1, <2>1, <3>3
    <3> QED
      BY <1>2, <3>1, <3>2, <3>4 DEF WholeReads
  <2>3. CASE pc' = "segment"
    <3>1. left' = bytes
      BY <2>3 DEF CommandDone, Enter
    <3>2. bytes = 0 * MaxRead + bytes
      BY <1>1
    <3> QED
      BY <1>2, <3>1, <3>2 DEF WholeReads
  <2> QED
    BY <2>2, <2>3
<1>5. ExcessNoticed'
  <2> SUFFICES ASSUME pc' = "idle", pipe # <<>> PROVE FillsPackets(bytes)
    BY <1>2 DEF ExcessNoticed, FillsPackets
  <2>1. left = Want
    BY DEF CommandDone, Enter
  <2>2. PICK c \in Nat : bytes = c * MaxRead + Want
    BY <1>0, <2>1 DEF WholeReads
  <2> QED
    BY <1>0, <1>1, <2>2, PacketsFilled
<1> QED
  BY <1>0, <1>2, <1>3, <1>4, <1>5, ServedAtRest DEF InitLabels

(* A step of a call with a prompt chip. *)
LEMMA CallStepServed ==
    ASSUME PromptHandle, HandleInv, ServedInv, CallStep
    PROVE  ServedInv'
<1>0. /\ PromptChip /\ PromptInv /\ Prompt /\ UsbFaults = {} /\ ~ BadStatus /\ TypeOK
      /\ pipe \in Seq(Items) /\ (failed => MaxExcess > 0) /\ Len(pipe) <= Backlog
      /\ resets = 0 /\ result \in ServedResults
  BY ServesMeans DEF PromptHandle, PromptChip, HandleInv, TypeOK, MpsseTypeOK, ServedInv
<1>1. CASE InitStep /\ UNCHANGED call
  <2>1. pc \in InitLabels /\ pc' \in InitLabels /\ MpsseInv /\ MpsseInv'
    BY <1>0, <1>1, InitStepRuns, InitStepType DEF MpsseInv, TypeOK
  <2>2. PromptInv'
    BY <1>0, <1>1, <2>1, PromptStep
  <2>3. Len(pipe') <= Backlog
    BY <1>0, <2>1, <2>2, PromptInitPipe
  <2>4. caller' = "open" /\ chunk' = <<>> /\ failed' = failed /\ resets' = resets /\ result' = result
    BY <1>1, <2>1, InitStepChunk DEF call, ServedInv
  <2>5. ExcessNoticed'
    BY <2>1 DEF ExcessNoticed, InitLabels
  <2> QED
    BY <1>0, <2>1, <2>2, <2>3, <2>4, <2>5, ServedAtRest DEF InitLabels
<1>2. CASE OpenReturns
  <2>1. pc = "done" /\ outcome = "Ok" /\ pipe = <<>> /\ chunk = <<>>
    BY <1>0, <1>2 DEF OpenReturns, PromptInv, ServedInv, InitLabels
  <2>2. /\ pc' = "idle" /\ result' = "Opened" /\ failed' = FALSE /\ pipe' = <<>> /\ chunk' = <<>>
        /\ resets' = 0 /\ UNCHANGED <<attempt, pair, probe, streak, reads, outcome>>
    BY <1>0, <1>2, <2>1 DEF OpenReturns
  <2>3. PromptInv' /\ ExcessNoticed'
    BY <1>0, <2>2 DEF PromptInv, Purging, ExcessNoticed
  <2>4. Leftover' /\ Len(pipe') <= Backlog
    BY <1>0, <2>1, <2>2, PromptNumbers DEF Leftover
  <2> QED
    BY <1>0, <2>2, <2>3, <2>4, ServedAtRest DEF InitLabels, ServedResults
<1>3. CASE Reserve
  <2>1. Leftover' /\ pipe' = pipe /\ chunk = <<>> /\ WholeReads /\ pc = "segment"
    BY <1>3 DEF Reserve, ServedInv, Leftover, ReadLabels
  <2>2. CASE AcquireFails("AllocationFailed")
    BY <1>0, <2>1, <2>2, AcquireFailsServed
  <2>3. CASE Enter("command") /\ UNCHANGED <<chunk, attempt, pair, probe, outcome, call>>
    <3>1. PromptInv' /\ WholeReads' /\ ExcessNoticed' /\ pc' = "command"
      BY <1>0, <2>1, <2>3 DEF Enter, PromptInv, Purging, WholeReads, call, ExcessNoticed
    <3> QED
      BY <1>0, <2>1, <2>3, <3>1, ServedAtRest DEF Enter, call, InitLabels
  <2> QED
    BY <1>3, <2>2, <2>3 DEF Reserve
<1>4. CASE WriteCommand
  <2>1. Leftover /\ chunk = <<>> /\ got = <<>> /\ WholeReads /\ result # "Ok"
    BY <1>4 DEF WriteCommand, HandleInv, Counted, Accounting, ServedInv, ReadLabels
  <2>2. /\ Enter("read")
        /\ AnswersRead(Want)
        /\ UNCHANGED <<chunk, attempt, pair, probe, outcome>>
        /\ UNCHANGED <<failed, caller, bytes, segs, seg, left, resets, got, out, result>>
    BY <1>0, <1>4 DEF WriteCommand
  <2>3. /\ Len(pipe') \in Want .. Want + MaxPipe + MaxExcess
        /\ MaxExcess = 0 => Len(pipe') = Want
    BY <1>0, <2>1, <2>2, PromptAnswer
  <2>4. Want' = Want /\ pc' = "read" /\ PromptInv' /\ ExcessNoticed' /\ WholeReads'
    BY <1>0, <2>1, <2>2 DEF Want, Enter, PromptInv, Purging, ExcessNoticed, WholeReads
  <2>5. PromptServes'
    BY <1>0, <2>2, ServesMeans
  <2>6. Len(pipe') <= Backlog /\ Want \in Nat
    <3>1. Want \in Nat /\ Want <= MaxRead
      BY <1>0, WantType, PromptNumbers DEF Want, TypeOK
    <3> QED
      BY <2>3, <3>1, PromptNumbers
  <2>7. chunk' = <<>> /\ got' = <<>> /\ Len(<<>>) = 0 /\ (failed' => MaxExcess > 0)
    BY <1>0, <2>1, <2>2
  <2>8. WholePackets(Len(got'))
    <3>1. 0 = 0 * (MaxPacket - 2)
      BY PolicyAssumption
    <3> QED
      BY <2>7, <3>1 DEF WholePackets
  <2>9. /\ Len(got') + Len(pipe') \in Want .. Want + MaxPipe + MaxExcess
        /\ MaxExcess = 0 => Len(got') + Len(pipe') = Want
    BY <2>3, <2>6, <2>7, PromptNumbers
  <2> QED
    BY <2>4, <2>5, <2>6, <2>7, <2>8, <2>9 DEF ServedInv, InitLabels
<1>5. ASSUME NEW k \in Transfers(ReadBuffer(Want - Len(got))), ReadBytes(k)
      PROVE  ServedInv'
  BY <1>5, ReadBytesServed
<1>6. CASE ReadEmpty
  <2>1. pc = "read" /\ pipe = <<>> /\ Len(got) < Want /\ Len(got) + Len(pipe) >= Want
    BY <1>0, <1>6, WantType, PromptNumbers
    DEF ReadEmpty, Silent, HandleInv, Counted, Accounting, ServedInv
  <2>2. Len(pipe) = 0 /\ Want \in Nat /\ Len(got) \in Nat
    BY <1>0, <2>1, WantType DEF TypeOK
  <2> QED
    BY <2>1, <2>2
<1>7. ASSUME NEW e \in UsbFaults, ReadError(e)
      PROVE  ServedInv'
  BY <1>0, <1>7
<1>8. CASE RecoveryReturns
  BY <1>8 DEF RecoveryReturns, ServedInv, InitLabels
<1>9. CASE Check
  <2>1. pc = "check" /\ Leftover' /\ pipe' = pipe /\ line = "ok" /\ (chunk # <<>> => MaxExcess > 0)
    BY <1>9 DEF Check, ServedInv, Leftover
  <2>2. CASE chunk # <<>> /\ AcquireFails("ProtocolViolation")
    BY <1>0, <2>1, <2>2, AcquireFailsServed
  <2>3. CASE chunk = <<>> /\ CommandDone
    BY <2>1, <2>3, CommandDoneServed
  <2> QED
    BY <1>9, <2>1, <2>2, <2>3 DEF Check
<1> QED
  BY <1>1, <1>2, <1>3, <1>4, <1>5, <1>6, <1>7, <1>8, <1>9 DEF CallStep

(* The client's calls and the end of its process. *)
LEMMA ClientStepServed ==
    ASSUME PromptHandle, HandleInv, ServedInv, Calls \/ ProcessDies
    PROVE  ServedInv'
<1>0. /\ PromptInv /\ (failed => MaxExcess > 0) /\ resets = 0 /\ result \in ServedResults
      /\ Len(pipe) <= Backlog /\ 1 \in 1 .. InitRetries
  BY ServesMeans, PolicyAssumption DEF ServedInv
<1>1. CASE Open
  <2>1. /\ pc' = "reset" /\ attempt' = 1 /\ outcome' = "none" /\ caller' = "open" /\ chunk' = <<>>
        /\ result' = "none" /\ UNCHANGED <<pipe, failed, resets, pair, probe>>
    BY <1>1 DEF Open, StartInit, Enter
  <2>2. PromptInv' /\ ExcessNoticed'
    BY <1>0, <2>1 DEF PromptInv, Purging, ExcessNoticed
  <2> QED
    BY <1>0, <2>1, <2>2, ServedAtRest DEF ServedResults
<1>2. CASE Drop
  <2>1. PromptInv' /\ ExcessNoticed'
    BY <1>0, <1>2 DEF Drop, PromptInv, Purging, ExcessNoticed
  <2>2. Len(pipe') <= Backlog
    BY <1>0, <1>2, PromptNumbers DEF Drop
  <2> QED
    BY <1>0, <1>2, <2>1, <2>2, ServedAtRest DEF Drop, call, InitLabels
<1>3. ASSUME NEW r \in ServedResults, r # "Ok", pc = "idle", Rejected(r)
      PROVE  ServedInv'
  <2>1. PromptInv' /\ UNCHANGED <<pc, failed, pipe, chunk, resets>> /\ result' = r
    BY <1>0, <1>3 DEF Rejected, mpsseVars, control, PromptInv
  <2>2. ~ failed' => Leftover' /\ chunk' = <<>>
    BY <1>3, <2>1 DEF ServedInv, Leftover
  <2>3. ExcessNoticed'
    BY <1>3, <2>1 DEF ExcessNoticed
  <2> QED
    BY <1>0, <1>3, <2>1, <2>2, <2>3, ServedAtRest DEF InitLabels
<1>4. ASSUME NEW n \in 1 .. MaxBytes, NEW s \in Segments, GetBits(n, s)
      PROVE  ServedInv'
  <2>1. /\ pc' = "segment" /\ bytes' = n /\ left' = n /\ resets' = 0 /\ result' = "none"
        /\ UNCHANGED <<pipe, chunk, attempt, pair, probe, outcome, failed>>
    BY <1>4 DEF GetBits, Enter
  <2>2. Leftover' /\ chunk' = <<>>
    BY <1>4, <2>1 DEF GetBits, ServedInv, Leftover
  <2>3. PromptInv' /\ ExcessNoticed'
    BY <1>0, <2>1 DEF PromptInv, Purging, ExcessNoticed
  <2>4. WholeReads'
    <3>1. n = 0 * MaxRead + n
      BY AcquisitionAssumption
    <3> QED
      BY <2>1, <3>1 DEF WholeReads
  <2> QED
    BY <1>0, <2>1, <2>2, <2>3, <2>4, ServedAtRest DEF InitLabels, ServedResults
<1>5. CASE ProcessDies
  <2>1. PromptInv' /\ ExcessNoticed'
    BY <1>0, <1>5 DEF ProcessDies, PromptInv, Purging, ExcessNoticed
  <2> QED
    BY <1>0, <1>5, <2>1, ServedAtRest DEF ProcessDies, InitLabels, ServedResults
<1>6. CASE GetBitsOnFailed
  <2>1. "DeviceDisconnected" \in ServedResults
    BY <1>0, <1>6, AcquisitionAssumption DEF GetBitsOnFailed, ServedResults
  <2> QED
    BY <1>3, <1>6, <2>1 DEF GetBitsOnFailed
<1>7. CASE GetBitsInvalid \/ GetBitsOutOfMemory
  BY <1>3, <1>7 DEF GetBitsInvalid, GetBitsOutOfMemory, ServedResults
<1> QED
  BY <1>1, <1>2, <1>4, <1>5, <1>6, <1>7 DEF Calls

(* On a chip that answers in full and in time, though maybe with more bytes  *)
(* than asked for, every handle opens at the first attempt, no call needs a  *)
(* recovery, and a call only fails for memory, for its arguments or for     *)
(* bytes in excess, after any crash of any client and whether or not a mode *)
(* switch drops what the chip had still to say; and a request that succeeds *)
(* has left no excess byte behind unless its last command filled the packets *)
(* of its bulk read (read_exact_raw_into, ftdi_read_payload, `initialize`).  *)
THEOREM PromptDeviceServes ==
    ASSUME PromptHandle
    PROVE  Spec => [](PromptServes /\ PromptSucceeds /\ ExcessNoticed)
<1>1. Init => ServedInv
  <2> SUFFICES ASSUME Init PROVE ServedInv
    OBVIOUS
  <2>1. PromptInv
    BY DEF Init, PromptInv, Purging
  <2>2. PromptServes
    BY ServesMeans DEF Init, ServedResults
  <2>3. Len(pipe) <= Backlog
    BY PromptNumbers DEF Init
  <2> QED
    BY <2>1, <2>2, <2>3 DEF Init, ServedInv, ExcessNoticed, InitLabels, ReadLabels
<1>2. HandleInv /\ ServedInv /\ [Next]_vars => ServedInv'
  <2> SUFFICES ASSUME HandleInv, ServedInv, [Next]_vars PROVE ServedInv'
    OBVIOUS
  <2>1. CASE CallStep
    BY <2>1, CallStepServed
  <2>2. CASE Calls \/ ProcessDies
    BY <2>2, ClientStepServed
  <2>3. CASE Noise /\ UNCHANGED call
    BY <2>3 DEF Noise, PromptHandle, PromptChip
  <2>4. CASE UNCHANGED vars
    BY <2>4
    DEF vars, mpsseVars, control, call, ServedInv, PromptInv, Leftover, WholeReads, ExcessNoticed,
        PromptServes, Want
  <2> QED
    BY <2>1, <2>2, <2>3, <2>4 DEF Next
<1>3. ServedInv => PromptServes /\ PromptSucceeds /\ ExcessNoticed
  BY DEF ServedInv, PromptInv, PromptSucceeds
<1> QED
  BY <1>1, <1>2, <1>3, HandleInvariant, PTL DEF Spec
============================================================================

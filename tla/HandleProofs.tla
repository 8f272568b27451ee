---------------------------- MODULE HandleProofs ----------------------------
(* What the user of a handle may rely on, for every value of the limits and  *)
(* lengths: with an exact chip it implements EntropySource, and with any chip *)
(* each of its calls is bounded through its nested retries.                  *)
EXTENDS AcquisitionProofs

-----------------------------------------------------------------------------
(* The promise of EntropySource.                                             *)

(* A handle that serves a request has not failed. *)
ServesHealthy == Serving => ~ failed

(* How a handle is seen at each step of the code. *)
LEMMA SeenAs ==
    /\ pc = "closed" => Seen = "none"
    /\ pc = "idle" /\ failed => Seen = "failed"
    /\ pc = "idle" /\ ~ failed => Seen = "ready"
    /\ Serving => Seen = "busy"
    /\ pc \in InitLabels /\ caller = "open" => Seen = "opening"
BY DEF Seen, Serving, ReadLabels, InitLabels

(* ... and after it. *)
LEMMA SeenNext ==
    /\ pc' = "closed" => Seen' = "none"
    /\ pc' = "idle" /\ failed' => Seen' = "failed"
    /\ pc' = "idle" /\ ~ failed' => Seen' = "ready"
    /\ Serving' => Seen' = "busy"
    /\ pc' \in InitLabels /\ caller' = "open" => Seen' = "opening"
BY DEF Seen, Serving, ReadLabels, InitLabels

(* The abstract step of a concrete one. *)
Provided == Source!SourceNext \/ UNCHANGED Source!sourceVars

(* Transfers, recoveries and segments change nothing the user sees. *)
LEMMA QuietStep ==
    ASSUME HandleInv, Serving, Serving', UNCHANGED <<bytes, segs, result>>
    PROVE  Provided
<1>1. result # "Ok"
  BY DEF HandleInv, Serving, ReadLabels, InitLabels
<1>2. Seen = "busy" /\ Seen' = "busy"
  BY SeenAs, SeenNext
<1> QED
  BY <1>1, <1>2 DEF Provided, Source!sourceVars

(* An acquisition that fails leaves the handle failed, but for memory. *)
LEMMA FailureSeen ==
    ASSUME Serving, NEW e, e # "Ok", AcquireFails(e)
    PROVE  Provided
<1>1. pc' = "idle" /\ result' = e /\ failed' = (e # "AllocationFailed") /\ UNCHANGED <<bytes, segs>>
  BY DEF AcquireFails, Enter
<1>2. Seen = "busy"
  BY SeenAs
<1>3. CASE e = "AllocationFailed"
  <2>1. ~ failed'
    BY <1>1, <1>3
  <2>2. Seen' = "ready"
    BY <1>1, <2>1, SeenNext
  <2> QED
    BY <1>1, <1>2, <1>3, <2>2 DEF Provided, Source!SourceNext, Source!GiveUp
<1>4. CASE e # "AllocationFailed"
  <2>1. failed'
    BY <1>1, <1>4
  <2>2. Seen' = "failed"
    BY <1>1, <2>1, SeenNext
  <2> QED
    BY <1>1, <1>2, <1>4, <2>2 DEF Provided, Source!SourceNext, Source!GiveUp
<1> QED
  BY <1>3, <1>4

(* A request that ends well returns the bytes it was to read. *)
LEMMA ServedSeen ==
    ASSUME HandleInv, HandleInv', Clean', Serving, ~ failed,
           pc' = "idle", result' = "Ok", UNCHANGED <<failed, bytes, segs>>
    PROVE  Provided
<1>1. Seen = "busy" /\ Seen' = "ready"
  BY SeenAs, SeenNext
<1>2. out' \in Seq(Items) /\ Len(out') = bytes * segs /\ \A i \in 1 .. Len(out') : out'[i] = "fresh"
  BY DEF HandleInv, TypeOK, Counted, ExactLength, Clean, AllFresh
<1>3. out' = [i \in 1 .. bytes * segs |-> "fresh"]
  BY <1>2
<1> QED
  BY <1>1, <1>3 DEF Provided, Source!SourceNext, Source!Serve

(* The steps of a call. *)
LEMMA CallStepSeen ==
    ASSUME ExactChip, HandleInv, HandleInv', Clean', ServesHealthy, CallStep
    PROVE  Provided /\ ServesHealthy'
<1>a. \A e : Serving /\ e # "Ok" /\ AcquireFails(e) => Provided /\ ServesHealthy'
  <2> SUFFICES ASSUME NEW e, Serving, e # "Ok", AcquireFails(e) PROVE Provided /\ ServesHealthy'
    OBVIOUS
  <2>1. ~ Serving'
    BY DEF AcquireFails, Enter, Serving, ReadLabels, InitLabels
  <2> QED
    BY <2>1, FailureSeen DEF ServesHealthy
<1>b. Serving /\ Serving' /\ UNCHANGED <<failed, bytes, segs, result>> => Provided /\ ServesHealthy'
  BY QuietStep DEF ServesHealthy
<1>c. "ProtocolViolation" # "Ok" /\ "AllocationFailed" # "Ok" /\ "ReadRetriesExhausted" # "Ok"
      /\ \A e \in UsbFaults : e # "Ok"
  BY PolicyAssumption DEF UsbErrors, FatalErrors
<1>1. CASE InitStep /\ UNCHANGED call
  <2>1. pc \in InitLabels /\ pc' \in InitLabels /\ caller' = caller
    BY <1>1, InitStepRuns, InitStepType DEF call, MpsseInv, HandleInv, TypeOK
  <2>2. CASE caller = "recover"
    BY <1>1, <1>b, <2>1, <2>2 DEF call, Serving
  <2>3. CASE caller = "open"
    <3>1. Seen' = Seen
      BY <2>1, <2>3, SeenAs, SeenNext
    <3>2. ~ Serving'
      BY <2>1, <2>3 DEF Serving, ReadLabels, InitLabels
    <3> QED
      BY <1>1, <3>1, <3>2 DEF call, Provided, Source!sourceVars, ServesHealthy
  <2> QED
    BY <2>2, <2>3 DEF HandleInv, TypeOK
<1>2. CASE OpenReturns
  <2>1. pc = "done" /\ caller = "open" /\ UNCHANGED <<bytes, segs, out>> /\ failed' = FALSE
    BY <1>2 DEF OpenReturns
  <2>2. Seen = "opening" /\ result # "Ok" /\ ~ Serving'
    BY <1>2, <2>1, SeenAs DEF InitLabels, HandleInv, OpenReturns, Serving, ReadLabels
  <2>3. CASE outcome = "Ok"
    <3>1. pc' = "idle" /\ result' = "Opened"
      BY <1>2, <2>3 DEF OpenReturns
    <3>2. Seen' = "ready"
      BY <2>1, <3>1, SeenNext
    <3> QED
      BY <2>1, <2>2, <3>1, <3>2 DEF Provided, Source!SourceNext, Source!Opened, ServesHealthy
  <2>4. CASE outcome # "Ok"
    <3>1. pc' = "closed" /\ result' = outcome /\ outcome # "Opened"
      BY <1>2, <2>4 DEF OpenReturns, HandleInv, TypeOK, MpsseTypeOK, Outcomes, FatalErrors
    <3>2. Seen' = "none"
      BY <3>1, SeenNext
    <3> QED
      BY <2>1, <2>2, <2>4, <3>1, <3>2 DEF Provided, Source!SourceNext, Source!Opened, ServesHealthy
  <2> QED
    BY <2>3, <2>4
<1>3. CASE Reserve
  <2>1. Serving
    BY <1>3 DEF Reserve, Serving, ReadLabels
  <2>2. CASE Enter("command") /\ UNCHANGED call
    BY <1>b, <2>1, <2>2 DEF Enter, call, Serving, ReadLabels
  <2> QED
    BY <1>3, <1>a, <1>c, <2>1, <2>2 DEF Reserve
<1>4. CASE WriteCommand
  <2>1. Serving
    BY <1>4 DEF WriteCommand, Serving, ReadLabels
  <2>2. CASE Enter("read") /\ UNCHANGED <<failed, bytes, segs, result>>
    BY <1>b, <2>1, <2>2 DEF Enter, Serving, ReadLabels
  <2> QED
    BY <1>4, <1>a, <1>c, <2>1, <2>2 DEF WriteCommand
<1>5. ASSUME NEW k \in Transfers(ReadBuffer(Want - Len(got))), ReadBytes(k)
      PROVE  Provided /\ ServesHealthy'
  <2>1. Serving
    BY <1>5 DEF ReadBytes, Serving, ReadLabels
  <2>2. CASE pc' \in {"check", "read"} /\ UNCHANGED <<failed, bytes, segs, result>>
    BY <1>b, <2>1, <2>2 DEF Serving, ReadLabels
  <2> QED
    BY <1>5, <1>a, <1>c, <2>1, <2>2 DEF ReadBytes
<1>6. CASE ReadEmpty
  <2>1. Serving
    BY <1>6 DEF ReadEmpty, Serving, ReadLabels
  <2>2. CASE pc' = pc /\ UNCHANGED <<failed, bytes, segs, result>>
    BY <1>6, <1>b, <2>1, <2>2 DEF ReadEmpty, Serving, ReadLabels
  <2>3. CASE Incomplete
    <3>1. CASE pc' = "reset" /\ caller' = "recover" /\ UNCHANGED <<failed, bytes, segs, result>>
      BY <1>b, <2>1, <3>1 DEF Serving, InitLabels
    <3> QED
      BY <2>3, <1>a, <1>c, <2>1, <3>1 DEF Incomplete, StartInit, Enter
  <2> QED
    BY <1>6, <1>a, <1>c, <2>1, <2>2, <2>3 DEF ReadEmpty
<1>7. ASSUME NEW e \in UsbFaults, ReadError(e)
      PROVE  Provided /\ ServesHealthy'
  BY <1>7, <1>a, <1>c DEF ReadError, Serving, ReadLabels
<1>8. CASE RecoveryReturns
  <2>1. Serving
    BY <1>8 DEF RecoveryReturns, Serving, InitLabels
  <2>2. CASE Enter("command") /\ UNCHANGED call
    BY <1>b, <2>1, <2>2 DEF Enter, call, Serving, ReadLabels
  <2> QED
    BY <1>8, <1>a, <2>1, <2>2 DEF RecoveryReturns
<1>9. CASE Check
  <2>1. Serving
    BY <1>9 DEF Check, Serving, ReadLabels
  <2>2. CASE CommandDone
    <3>1. UNCHANGED <<failed, bytes, segs>>
      BY <2>2 DEF CommandDone
    <3>2. CASE pc' \in {"command", "segment"} /\ result' = result
      BY <1>b, <2>1, <3>1, <3>2 DEF Serving, ReadLabels
    <3>3. CASE pc' = "idle" /\ result' = "Ok"
      <4>1. Provided
        BY <2>1, <3>1, <3>3, ServedSeen DEF ServesHealthy
      <4>2. ~ Serving'
        BY <3>3 DEF Serving, ReadLabels, InitLabels
      <4> QED
        BY <4>1, <4>2 DEF ServesHealthy
    <3> QED
      BY <2>2, <3>2, <3>3 DEF CommandDone, Enter
  <2> QED
    BY <1>9, <1>a, <1>c, <2>1, <2>2 DEF Check
<1> QED
  BY <1>1, <1>2, <1>3, <1>4, <1>5, <1>6, <1>7, <1>8, <1>9 DEF CallStep

(* Calls, and the end of a process. *)
LEMMA ClientStepSeen ==
    ASSUME HandleInv, ServesHealthy, Calls \/ ProcessDies
    PROVE  Provided /\ ServesHealthy'
<1>1. CASE Open
  <2>1. pc = "closed" /\ pc' = "reset" /\ caller' = "open" /\ result' = "none"
        /\ UNCHANGED <<bytes, segs>>
    BY <1>1 DEF Open, StartInit, Enter
  <2>2. Seen = "none" /\ Seen' = "opening" /\ ~ Serving'
    BY <2>1, SeenAs, SeenNext DEF InitLabels, Serving, ReadLabels
  <2> QED
    BY <2>1, <2>2 DEF Provided, Source!SourceNext, Source!Open, ServesHealthy
<1>2. CASE Drop
  <2>1. pc = "idle" /\ pc' = "closed" /\ UNCHANGED <<bytes, segs, out, result, failed>>
    BY <1>2 DEF Drop, call
  <2>2. Seen \in {"ready", "failed"} /\ Seen' = "none" /\ ~ Serving'
    BY <2>1, SeenAs, SeenNext DEF HandleInv, TypeOK, InitLabels, Serving, ReadLabels
  <2> QED
    BY <2>1, <2>2 DEF Provided, Source!SourceNext, Source!Close, ServesHealthy
<1>3. ASSUME NEW r, pc = "idle", Rejected(r),
             r = "InvalidBits" \/ (failed /\ r = "DeviceDisconnected")
                               \/ (~ failed /\ r = "AllocationFailed")
      PROVE  Provided /\ ServesHealthy'
  <2>1. pc' = "idle" /\ result' = r /\ out' = <<>> /\ UNCHANGED <<bytes, segs, failed>>
    BY <1>3 DEF Rejected, mpsseVars, control
  <2>2. ~ Serving' /\ r # "Ok"
    BY <1>3, <2>1 DEF InitLabels, Serving, ReadLabels
  <2>3. CASE failed
    <3>1. Seen = "failed" /\ Seen' = "failed"
      BY <1>3, <2>1, <2>3, SeenAs, SeenNext
    <3> QED
      BY <1>3, <2>1, <2>2, <2>3, <3>1 DEF Provided, Source!SourceNext, Source!Refuse, ServesHealthy
  <2>4. CASE ~ failed
    <3>1. Seen = "ready" /\ Seen' = "ready"
      BY <1>3, <2>1, <2>4, SeenAs, SeenNext
    <3> QED
      BY <1>3, <2>1, <2>2, <2>4, <3>1 DEF Provided, Source!SourceNext, Source!Refuse, ServesHealthy
  <2> QED
    BY <2>3, <2>4
<1>4. ASSUME NEW n \in 1 .. MaxBytes, NEW s \in Segments, GetBits(n, s)
      PROVE  Provided /\ ServesHealthy'
  <2>1. pc = "idle" /\ ~ failed /\ pc' = "segment" /\ bytes' = n /\ segs' = s /\ result' = "none"
        /\ failed' = failed
    BY <1>4 DEF GetBits, Enter
  <2>2. bytes' * segs' \in Nat \ {0}
    <3>1. n \in Nat \ {0} /\ s \in Nat \ {0}
      BY AcquisitionAssumption
    <3>2. n * s \in Nat \ {0}
      BY <3>1
    <3> QED
      BY <2>1, <3>2
  <2>3. Seen = "ready" /\ Seen' = "busy"
    BY <2>1, SeenAs, SeenNext DEF Serving, ReadLabels
  <2> QED
    BY <2>1, <2>2, <2>3 DEF Provided, Source!SourceNext, Source!Ask, ServesHealthy
<1>5. CASE ProcessDies
  <2>1. pc # "closed" /\ pc' = "closed" /\ result' = "none" /\ UNCHANGED <<bytes, segs>>
    BY <1>5 DEF ProcessDies
  <2>2. Seen # "none"
    BY <2>1 DEF Seen, Serving
  <2>3. Seen' = "none" /\ ~ Serving'
    BY <2>1, SeenNext DEF Serving, InitLabels, ReadLabels
  <2> QED
    BY <2>1, <2>2, <2>3 DEF Provided, Source!SourceNext, Source!Die, ServesHealthy
<1> QED
  BY <1>1, <1>2, <1>3, <1>4, <1>5 DEF Calls, GetBitsInvalid, GetBitsOnFailed, GetBitsOutOfMemory

(* With an exact chip a handle keeps the promise of EntropySource through    *)
(* retries, failures and crashes: a call returns as many bytes as it was to  *)
(* read, all read for it, or none and fails; and no call after a failed      *)
(* acquisition returns any (get_bits_with_fold, BitBabbler.failed).          *)
THEOREM HandleIsSource ==
    ASSUME ExactChip
    PROVE  Spec => Provides
<1>1. Init => Source!SourceInit /\ ServesHealthy
  <2> SUFFICES ASSUME Init PROVE Source!SourceInit /\ ServesHealthy
    OBVIOUS
  <2>1. Seen = "none"
    BY SeenAs DEF Init
  <2>2. bytes * segs \in Nat
    <3>1. bytes = 1 /\ segs \in Nat
      BY AcquisitionAssumption DEF Init
    <3> QED
      BY <3>1
  <2> QED
    BY <2>1, <2>2 DEF Init, Source!SourceInit, ServesHealthy, Serving, ReadLabels, InitLabels
<1>2. HandleInv /\ (HandleInv /\ Clean)' /\ ServesHealthy /\ [Next]_vars
         => [Source!SourceNext]_Source!sourceVars /\ ServesHealthy'
  <2> SUFFICES ASSUME HandleInv, HandleInv', Clean', ServesHealthy, [Next]_vars
               PROVE  Provided /\ ServesHealthy'
    BY DEF Provided
  <2>1. CASE CallStep
    BY <2>1, CallStepSeen
  <2>2. CASE Calls \/ ProcessDies
    BY <2>2, ClientStepSeen
  <2>3. CASE Noise /\ UNCHANGED call
    BY <2>3 DEF Noise, control, call, Provided, Source!sourceVars, Seen, ServesHealthy, Serving
  <2>4. CASE UNCHANGED vars
    BY <2>4
    DEF vars, mpsseVars, control, call, Provided, Source!sourceVars, Seen, ServesHealthy, Serving
  <2> QED
    BY <2>1, <2>2, <2>3, <2>4 DEF Next
<1> QED
  BY <1>1, <1>2, CleanInvariant, PTL DEF Spec, Provides, Source!SourceSpec

-----------------------------------------------------------------------------
(* The bound of a call, for any limits of the retries, any requests and any  *)
(* behaviour of the chip.                                                   *)

(* `initialize` counts no reads when it returns. *)
BoundInv == HandleInv /\ (pc = "done" => reads = 0)

(* A step of initialize that ends it well leaves no counted read behind. *)
LEMMA InitStepDone ==
    ASSUME InitStep, pc' = "done"
    PROVE  reads' = 0
BY DEF InitStep, Reset, Configure, SyncWrite, SyncMatch, SyncOther, SyncEmpty, SyncError, SyncMissed,
       PurgeBytes, PurgeEmpty, PurgeError, PurgeDone, Clock, CountEmpty, CountRead, Abort, Enter, Purging

(* No step of the call itself ends an initialization. *)
LEMMA CallStepDone ==
    ASSUME CallStep, pc' = "done"
    PROVE  reads' = 0
<1>1. \A e : AcquireFails(e) => pc' # "done"
  BY DEF AcquireFails, Enter
<1>2. CASE InitStep
  BY <1>2, InitStepDone
<1>3. CASE OpenReturns \/ Reserve \/ WriteCommand \/ RecoveryReturns \/ Check
  BY <1>1, <1>3 DEF OpenReturns, Reserve, WriteCommand, RecoveryReturns, Check, CommandDone, Enter
<1>4. ASSUME NEW k \in Transfers(ReadBuffer(Want - Len(got))), ReadBytes(k)
      PROVE  FALSE
  BY <1>1, <1>4 DEF ReadBytes
<1>5. CASE ReadEmpty
  BY <1>1, <1>5 DEF ReadEmpty, Incomplete, StartInit, Enter
<1>6. ASSUME NEW e \in UsbFaults, ReadError(e)
      PROVE  FALSE
  BY <1>1, <1>6 DEF ReadError
<1> QED
  BY <1>2, <1>3, <1>4, <1>5, <1>6 DEF CallStep

(* Every step keeps BoundInv. *)
LEMMA BoundInvStep ==
    ASSUME BoundInv, [Next]_vars
    PROVE  BoundInv'
<1>1. HandleInv'
  BY HandleStep DEF BoundInv
<1>2. CASE CallStep
  BY <1>1, <1>2, CallStepDone DEF BoundInv
<1>3. CASE Calls
  BY <1>1, <1>3 DEF BoundInv, Calls, Open, StartInit, Drop, GetBitsInvalid, GetBitsOnFailed,
                    GetBitsOutOfMemory, Rejected, GetBits, Enter, mpsseVars, control
<1>4. CASE ProcessDies
  BY <1>1, <1>4 DEF BoundInv, ProcessDies
<1>5. CASE Noise
  BY <1>1, <1>5 DEF BoundInv, Noise, control
<1>6. CASE UNCHANGED vars
  BY <1>1, <1>6 DEF BoundInv, vars, mpsseVars, control
<1> QED
  BY <1>2, <1>3, <1>4, <1>5, <1>6 DEF Next

(* BoundInv holds in every reachable state. *)
LEMMA BoundInvariant == Spec => []BoundInv
<1>1. Init => BoundInv
  BY HandleInit DEF Init, BoundInv
<1> QED
  BY <1>1, BoundInvStep, PTL DEF Spec

----------------------------------------------------------------------------
(* The bounds are numbers, and what is left of them is not negative. *)

K == CommandMax + 1
RetryCost == TryMax + RecoveryMax

(* A product of natural numbers, for leaves that cannot multiply. *)
LEMMA NaturalProduct ==
    ASSUME NEW a \in Nat, NEW b \in Nat
    PROVE  a * b \in Nat
OBVIOUS

(* The limits and the weights of the measure are natural numbers. *)
LEMMA Limits ==
    /\ ReadMax \in Nat /\ TryMax \in Nat /\ RecoveryMax \in Nat /\ CommandMax \in Nat
    /\ K \in Nat \ {0} /\ RetryCost \in Nat
<1>1. ReadMax \in Nat
  <2>1. MaxRead * (ReadRetries + 1) \in Nat
    BY NaturalProduct, AcquisitionAssumption, PolicyAssumption
  <2> QED
    BY <2>1, PolicyAssumption DEF ReadMax
<1>2. TryMax \in Nat
  BY <1>1 DEF TryMax
<1>3. RecoveryMax \in Nat
  <2>1. (InitRetries - 1) * 14 + 13 \in Nat
    BY PolicyAssumption
  <2>2. ((InitRetries - 1) * 14 + 13) * DrainLimit \in Nat
    BY <2>1, NaturalProduct, PolicyAssumption
  <2> QED
    BY <2>2 DEF RecoveryMax
<1>4. RetryCost \in Nat
  BY <1>2, <1>3 DEF RetryCost
<1>5. (InitRetries - 1) * RetryCost \in Nat
  BY <1>4, NaturalProduct, PolicyAssumption
<1>6. CommandMax = (InitRetries - 1) * RetryCost + TryMax
  BY DEF CommandMax, RetryCost
<1>7. CommandMax \in Nat
  BY <1>2, <1>5, <1>6
<1> QED
  BY <1>1, <1>2, <1>3, <1>4, <1>7 DEF K

(* `initialize` never has a negative number of transfers left. *)
LEMMA WorkNatural ==
    ASSUME MpsseInv, pc = "done" => reads = 0
    PROVE  WorkLeft \in Nat
<1>1. Units \in Nat /\ (pc # "done" => Units >= 1)
  BY LoopsRange, UnitsType DEF Units
<1>2. Units * DrainLimit \in Nat /\ (Units >= 1 => Units * DrainLimit >= DrainLimit)
  BY <1>1, Multiples, NaturalProduct, PolicyAssumption
<1>3. reads \in 0 .. DrainLimit - 1
  BY DEF MpsseInv, MpsseTypeOK
<1>4. WorkLeft = Units * DrainLimit - reads
  BY DEF WorkLeft, Units
<1> QED
  BY <1>1, <1>2, <1>3, <1>4, PolicyAssumption

(* Commands are being sent and read, or recovered. *)
InCommand == pc \in {"command", "read", "check"} \/ (pc \in InitLabels /\ caller = "recover")

(* What a request still has to read is some bytes, and its counters of its   *)
(* types.                                                                   *)
LEMMA Remaining ==
    ASSUME BoundInv, Serving
    PROVE  /\ BytesLeft \in Nat \ {0} /\ left \in Nat \ {0} /\ bytes \in Nat \ {0}
           /\ segs - seg \in Nat /\ (segs - seg) * bytes \in Nat
           /\ InitRetries - 1 - resets \in Nat
           /\ Want \in Nat \ {0} /\ Want <= left /\ Want <= MaxRead
<1>1. TypeOK /\ left \in 1 .. bytes /\ segs \in Nat /\ seg \in 1 .. segs
  BY AcquisitionAssumption DEF BoundInv, HandleInv, Counted, Accounting, TypeOK
<1>2. bytes \in Nat \ {0} /\ left \in Nat \ {0} /\ segs - seg \in Nat
  BY <1>1 DEF TypeOK
<1>3. (segs - seg) * bytes \in Nat
  BY <1>2, NaturalProduct
<1>4. BytesLeft \in Nat \ {0}
  BY <1>2, <1>3 DEF BytesLeft
<1>5. InitRetries - 1 - resets \in Nat
  BY <1>1, PolicyAssumption DEF TypeOK
<1>6. Want \in Nat \ {0} /\ Want <= left /\ Want <= MaxRead
  BY <1>2, AcquisitionAssumption DEF Want
<1> QED
  BY <1>2, <1>3, <1>4, <1>5, <1>6

(* Where a call can be in its own part: in a command or between segments. *)
LEMMA ServingCases ==
    /\ InCommand => Serving /\ pc # "segment" /\ Busy
    /\ pc = "segment" => Serving /\ Busy /\ ~ InCommand
    /\ Serving => InCommand \/ pc = "segment"
BY DEF InCommand, Serving, ReadLabels, InitLabels, Busy

(* A read command under way lacks a byte, and reads for it remain. *)
LEMMA ReadsRemaining ==
    ASSUME BoundInv, pc = "read"
    PROVE  /\ Len(got) \in Nat /\ Want - Len(got) \in Nat \ {0}
           /\ (Want - Len(got)) * (ReadRetries + 1) \in Nat
           /\ (Want - Len(got)) * (ReadRetries + 1) >= ReadRetries + 1
           /\ ReadsLeft \in Nat /\ ReadsLeft >= 1
<1>1. TypeOK /\ Len(got) < Want /\ Serving
  BY DEF BoundInv, HandleInv, Counted, Accounting, Serving, ReadLabels
<1>2. Len(got) \in Nat /\ Want \in Nat
  BY <1>1, Remaining DEF TypeOK
<1>3. Want - Len(got) \in Nat \ {0}
  BY <1>1, <1>2
<1>4. ReadRetries + 1 \in Nat \ {0} /\ ReadRetries \in Nat \ {0}
  BY PolicyAssumption
<1>5. /\ (Want - Len(got)) * (ReadRetries + 1) \in Nat
      /\ (Want - Len(got)) * (ReadRetries + 1) >= ReadRetries + 1
  BY <1>3, <1>4, Multiples
<1>6. streak \in 0 .. ReadRetries - 1 /\ copied \in BOOLEAN
  BY <1>1 DEF TypeOK, MpsseTypeOK
<1>7. (IF copied THEN ReadRetries ELSE ReadRetries - 1 - streak) \in Nat
  BY <1>4, <1>6
<1> QED
  BY <1>2, <1>3, <1>4, <1>5, <1>7 DEF ReadsLeft

(* What is left of a try is a positive number. *)
LEMMA TryNatural ==
    ASSUME BoundInv, InCommand
    PROVE  TryLeft \in Nat \ {0}
<1>1. CASE pc = "read"
  BY <1>1, ReadsRemaining DEF TryLeft
<1>2. CASE pc = "check"
  BY <1>2 DEF TryLeft
<1>3. CASE pc = "command"
  BY <1>3, Limits DEF TryLeft, TryMax
<1>4. CASE pc \in InitLabels
  <2>1. MpsseInv
    BY <1>4 DEF MpsseInv, BoundInv, HandleInv, TypeOK
  <2>2. WorkLeft \in Nat
    BY <2>1, WorkNatural DEF BoundInv
  <2> QED
    BY <1>4, <2>2, Limits DEF TryLeft, InitLabels
<1> QED
  BY <1>1, <1>2, <1>3, <1>4 DEF InCommand

----------------------------------------------------------------------------
(* The measure, by where a call stands, before and after a step. *)
LEMMA WorkForms ==
    /\ ~ Busy => CallWork = 0
    /\ pc = "segment" => CallWork = BytesLeft * K
    /\ InCommand => CallWork = (BytesLeft - 1) * K + ((InitRetries - 1 - resets) * RetryCost + TryLeft)
    /\ pc \in InitLabels /\ caller # "recover" => CallWork = WorkLeft + 1
BY DEF CallWork, Busy, InCommand, CommandLeft, ReadLabels, InitLabels, K, RetryCost

(* CallWork after a step, for each place the call may be in by then. *)
LEMMA WorkFormsNext ==
    /\ ~ Busy' => CallWork' = 0
    /\ pc' = "segment" => CallWork' = BytesLeft' * K
    /\ InCommand' =>
          CallWork' = (BytesLeft' - 1) * K + ((InitRetries - 1 - resets') * RetryCost + TryLeft')
    /\ pc' \in InitLabels /\ caller' # "recover" => CallWork' = WorkLeft' + 1
BY DEF CallWork, Busy, InCommand, CommandLeft, ReadLabels, InitLabels, K, RetryCost

(* A call that has not returned has work left. *)
LEMMA WorkPositive ==
    ASSUME BoundInv, Busy
    PROVE  CallWork \in Nat \ {0}
<1>1. CASE pc = "segment"
  <2>1. BytesLeft \in Nat \ {0} /\ K \in Nat \ {0}
    BY <1>1, ServingCases, Remaining, Limits
  <2>2. BytesLeft * K \in Nat /\ 0 * K + K <= BytesLeft * K
    BY <2>1, Multiples
  <2> QED
    BY <1>1, <2>1, <2>2, WorkForms
<1>2. CASE InCommand
  <2>1. /\ BytesLeft - 1 \in Nat /\ K \in Nat
        /\ InitRetries - 1 - resets \in Nat /\ RetryCost \in Nat
    BY <1>2, ServingCases, Remaining, Limits
  <2>2. (BytesLeft - 1) * K \in Nat /\ (InitRetries - 1 - resets) * RetryCost \in Nat
    BY <2>1, NaturalProduct
  <2>3. TryLeft \in Nat \ {0}
    BY <1>2, TryNatural
  <2> QED
    BY <1>2, <2>2, <2>3, WorkForms
<1>3. CASE pc \in InitLabels /\ caller # "recover"
  <2>1. MpsseInv
    BY <1>3 DEF MpsseInv, BoundInv, HandleInv, TypeOK
  <2>2. WorkLeft \in Nat
    BY <2>1, WorkNatural DEF BoundInv
  <2> QED
    BY <1>3, <2>2, WorkForms
<1> QED
  BY <1>1, <1>2, <1>3 DEF Busy, InCommand, ReadLabels, BoundInv, HandleInv, TypeOK

(* A call that returns leaves none. *)
Less == CallWork' < CallWork /\ CallWork' >= 0

(* A step with which the call returns leaves no work. *)
LEMMA Returns ==
    ASSUME BoundInv, Busy, pc' \in {"closed", "idle"}
    PROVE  Less
BY WorkPositive, WorkFormsNext DEF Busy, Less

(* So does a failure. *)
LEMMA FailureReturns ==
    ASSUME BoundInv, Busy, NEW e, AcquireFails(e)
    PROVE  Less
BY Returns DEF AcquireFails, Enter

(* The same of the state after a step. *)
LEMMA TryNaturalHere == BoundInv /\ InCommand => TryLeft \in Nat \ {0}
BY TryNatural

(* TryNatural in the state after a step. *)
LEMMA TryNaturalNext == (BoundInv /\ InCommand => TryLeft \in Nat \ {0})'
BY TryNaturalHere, PTL

(* Within one try only what is left of the try counts. *)
LEMMA SameTry ==
    ASSUME BoundInv, BoundInv', InCommand, InCommand', UNCHANGED <<bytes, segs, seg, left, resets>>,
           TryLeft' < TryLeft
    PROVE  Less
<1>1. BytesLeft' = BytesLeft
  BY DEF BytesLeft
<1>2. BytesLeft - 1 \in Nat /\ InitRetries - 1 - resets \in Nat /\ K \in Nat /\ RetryCost \in Nat
  BY ServingCases, Remaining, Limits
<1>3. TryLeft \in Nat
  BY TryNatural
<1>4. TryLeft' \in Nat
  BY TryNaturalNext
<1> DEFINE w == (BytesLeft - 1) * K
           r == (InitRetries - 1 - resets) * RetryCost
<1>5. w \in Nat /\ r \in Nat
  BY <1>2, NaturalProduct
<1>6. CallWork = w + (r + TryLeft) /\ CallWork' = w + (r + TryLeft')
  BY <1>1, WorkForms, WorkFormsNext
<1> HIDE DEF w, r
<1>7. \A a, b, x, y \in Nat : x < y => a + (b + x) < a + (b + y) /\ a + (b + x) >= 0
  OBVIOUS
<1>8. w + (r + TryLeft') < w + (r + TryLeft) /\ w + (r + TryLeft') >= 0
  BY <1>3, <1>4, <1>5, <1>7
<1> QED
  BY <1>6, <1>8 DEF Less

----------------------------------------------------------------------------
(* Each step of a call lowers the measure. *)

(* A step of a recovery lowers the work of the call. *)
LEMMA InitStepLess ==
    ASSUME BoundInv, BoundInv', InitStep, UNCHANGED call
    PROVE  Less
<1>1. pc \in InitLabels /\ MpsseInv
  BY InitStepRuns DEF BoundInv, HandleInv, TypeOK, MpsseInv
<1>2. WorkLeft' < WorkLeft /\ WorkLeft' >= 0 /\ pc' \in InitLabels
  BY <1>1, WorkStep, InitStepType DEF MpsseInv
<1>3. WorkLeft \in Nat /\ WorkLeft' \in Int
  <2>1. reads' \in Int /\ attempt' \in Int /\ LoopsLeft' \in Int
    <3>1. MpsseInv'
      BY <1>1, InitStepType
    <3>2. LoopsLeft' \in 0 .. 13
      BY <3>1, LoopsRange
    <3>3. reads' \in Int /\ attempt' \in Int
      BY <3>1 DEF MpsseInv, MpsseTypeOK
    <3> HIDE DEF MpsseInv
    <3> QED
      BY <3>2, <3>3
  <2>2. ((InitRetries - attempt') * 14 + LoopsLeft') * DrainLimit \in Int
    BY <2>1, PolicyAssumption
  <2> QED
    BY <1>1, <2>1, <2>2, WorkNatural DEF BoundInv, WorkLeft
<1>4. CASE caller = "recover"
  <2>1. InCommand /\ InCommand' /\ UNCHANGED <<bytes, segs, seg, left, resets>>
    BY <1>1, <1>2, <1>4 DEF InCommand, call
  <2>2. TryLeft = TryMax + 1 + WorkLeft /\ TryLeft' = TryMax + 1 + WorkLeft'
    BY <1>1, <1>2 DEF TryLeft, InitLabels
  <2> DEFINE u == WorkLeft'
             v == WorkLeft
  <2>3. u < v /\ u \in Int /\ v \in Int /\ TryLeft' = TryMax + 1 + u /\ TryLeft = TryMax + 1 + v
    BY <1>2, <1>3, <2>2
  <2> HIDE DEF u, v
  <2>4. TryLeft' < TryLeft
    BY <2>3, Limits
  <2> QED
    BY <2>1, <2>4, SameTry
<1>5. CASE caller # "recover"
  <2>1. caller' # "recover"
    BY <1>5 DEF call
  <2> DEFINE u == WorkLeft'
             v == WorkLeft
  <2>2. /\ u < v /\ u >= 0 /\ u \in Int /\ v \in Int
        /\ CallWork = v + 1 /\ CallWork' = u + 1
    BY <1>1, <1>2, <1>3, <1>5, <2>1, WorkForms, WorkFormsNext
  <2> HIDE DEF u, v
  <2> QED
    BY <2>2 DEF Less
<1> QED
  BY <1>4, <1>5

(* So does the start of a segment, *)
LEMMA ReserveLess ==
    ASSUME BoundInv, BoundInv', Reserve
    PROVE  Less
<1>1. Busy /\ pc = "segment" /\ Serving
  BY ServingCases DEF Reserve
<1>2. CASE AcquireFails("AllocationFailed")
  BY <1>1, <1>2, FailureReturns
<1>3. CASE Enter("command") /\ UNCHANGED call
  <2>1. BytesLeft' = BytesLeft /\ pc' = "command" /\ resets' = resets
    BY <1>3 DEF BytesLeft, Enter, call
  <2>2. TryLeft' = TryMax
    BY <2>1 DEF TryLeft
  <2>3. BytesLeft \in Nat \ {0} /\ InitRetries - 1 - resets \in Nat
    BY <1>1, Remaining
  <2>4. /\ (InitRetries - 1 - resets) * RetryCost \in Nat
        /\ (InitRetries - 1 - resets) * RetryCost <= (InitRetries - 1) * RetryCost
    <3>1. RetryCost \in Nat /\ resets \in Nat /\ InitRetries - 1 \in Nat
      BY Limits, PolicyAssumption DEF BoundInv, HandleInv, TypeOK
    <3>2. resets * RetryCost \in Nat
      BY <3>1, NaturalProduct
    <3>3. (InitRetries - 1 - resets) * RetryCost = (InitRetries - 1) * RetryCost - resets * RetryCost
      BY <3>1
    <3> QED
      BY <2>3, <3>1, <3>2, <3>3, NaturalProduct
  <2>5. K = (InitRetries - 1) * RetryCost + TryMax + 1
    BY DEF K, CommandMax, RetryCost
  <2>6. (BytesLeft - 1) * K \in Nat /\ (BytesLeft - 1) * K + K <= BytesLeft * K
    BY <2>3, Limits, Multiples
  <2>7. InCommand'
    BY <2>1 DEF InCommand
  <2>8. CallWork' = (BytesLeft - 1) * K + ((InitRetries - 1 - resets) * RetryCost + TryMax)
    BY <2>1, <2>2, <2>7, WorkFormsNext
  <2> DEFINE b == BytesLeft * K
             c == (BytesLeft - 1) * K
             r == (InitRetries - 1 - resets) * RetryCost
             m == (InitRetries - 1) * RetryCost
  <2>9. m \in Nat /\ TryMax \in Nat /\ b \in Int
    BY <2>3, Limits, NaturalProduct, PolicyAssumption
  <2>10. c \in Nat /\ r \in Nat /\ r <= m /\ c + (m + TryMax + 1) <= b
    BY <2>4, <2>5, <2>6
  <2>11. CallWork = b /\ CallWork' = c + (r + TryMax)
    BY <1>1, <2>8, WorkForms
  <2> HIDE DEF b, c, r, m
  <2> QED
    BY <2>9, <2>10, <2>11 DEF Less
<1> QED
  BY <1>2, <1>3 DEF Reserve

(* a command written, *)
LEMMA WriteCommandLess ==
    ASSUME BoundInv, BoundInv', WriteCommand
    PROVE  Less
<1>1. Busy /\ pc = "command" /\ Serving /\ InCommand
  BY ServingCases DEF WriteCommand, InCommand
<1>2. ASSUME NEW e, AcquireFails(e)
      PROVE  Less
  BY <1>1, <1>2, FailureReturns
<1>3. CASE /\ Enter("read") /\ copied' = FALSE
           /\ UNCHANGED <<failed, caller, bytes, segs, seg, left, resets, got, out, result>>
  <2>1. Want' = Want /\ got' = <<>> /\ streak' = 0 /\ pc' = "read" /\ InCommand'
    BY <1>1, <1>3 DEF Want, Enter, InCommand, BoundInv, HandleInv, Counted, Accounting
  <2>2. TryLeft = TryMax /\ TryLeft' = ReadsLeft' + 1
    BY <1>1, <2>1 DEF TryLeft
  <2>3. ReadsLeft' = Want * (ReadRetries + 1) + (ReadRetries - 1)
    <3>1. Want' - Len(got') = Want
      BY <1>1, <2>1, Remaining
    <3> QED
      BY <1>3, <2>1, <3>1, PolicyAssumption DEF ReadsLeft
  <2>4. Want * (ReadRetries + 1) \in Nat /\ Want * (ReadRetries + 1) <= MaxRead * (ReadRetries + 1)
    <3>1. Want \in Nat /\ MaxRead \in Nat /\ Want <= MaxRead /\ ReadRetries + 1 \in Nat \ {0}
      BY <1>1, Remaining, PolicyAssumption, AcquisitionAssumption
    <3>2. CASE Want = MaxRead
      BY <3>1, <3>2, NaturalProduct
    <3>3. CASE Want < MaxRead
      BY <3>1, <3>3, Multiples
    <3> QED
      BY <3>1, <3>2, <3>3
  <2>5. TryMax = MaxRead * (ReadRetries + 1) + ReadRetries + 2 /\ MaxRead * (ReadRetries + 1) \in Nat
    BY NaturalProduct, PolicyAssumption, AcquisitionAssumption DEF TryMax, ReadMax
  <2> DEFINE x == Want * (ReadRetries + 1)
             y == MaxRead * (ReadRetries + 1)
  <2>6. /\ x \in Nat /\ y \in Nat /\ x <= y
        /\ TryLeft' = x + (ReadRetries - 1) + 1 /\ TryLeft = y + ReadRetries + 2
    BY <2>2, <2>3, <2>4, <2>5
  <2> HIDE DEF x, y
  <2>7. TryLeft' < TryLeft
    BY <2>6, PolicyAssumption
  <2> QED
    BY <1>1, <1>3, <2>1, <2>7, SameTry
<1> QED
  BY <1>2, <1>3 DEF WriteCommand

(* a read that brings bytes, *)
LEMMA ReadBytesLess ==
    ASSUME BoundInv, BoundInv', NEW k \in Transfers(ReadBuffer(Want - Len(got))), ReadBytes(k)
    PROVE  Less
<1> DEFINE take == IF k < Want - Len(got) THEN k ELSE Want - Len(got)
<1>1. Busy /\ pc = "read" /\ Serving /\ InCommand
  BY ServingCases DEF ReadBytes, InCommand
<1>2. CASE AcquireFails("ProtocolViolation")
  BY <1>1, <1>2, FailureReturns
<1>3. CASE /\ got' = got \o SubSeq(pipe, 1, take)
           /\ copied' = TRUE
           /\ pc' = IF Len(got) + take = Want THEN "check" ELSE "read"
           /\ UNCHANGED <<failed, caller, bytes, segs, seg, left, resets, out, result>>
  <2>0. pipe \in Seq(Items) /\ got \in Seq(Items) /\ k \in 1 .. Len(pipe)
    BY TransfersType DEF BoundInv, HandleInv, TypeOK, MpsseTypeOK
  <2>1. Want' = Want /\ InCommand'
    BY <1>3 DEF Want, InCommand
  <2>2. TryLeft = ReadsLeft + 1 /\ ReadsLeft \in Nat /\ ReadsLeft >= 1
    BY <1>1, ReadsRemaining DEF TryLeft
  <2>3. CASE pc' = "check"
    <3>1. TryLeft' = 1
      BY <2>3 DEF TryLeft
    <3>2. TryLeft' < TryLeft
      BY <2>2, <3>1
    <3> QED
      BY <1>1, <1>3, <2>1, <3>2, SameTry
  <2>4. CASE pc' = "read"
    <3>1. take \in 1 .. Len(pipe) /\ Want - Len(got) \in Nat /\ Len(got) \in Nat
      BY <1>1, <2>0, ReadsRemaining
    <3> HIDE DEF take
    <3>2. Len(got') = Len(got) + take
      BY <1>3, <2>0, <3>1
    <3> DEFINE m == Want' - Len(got')
               n == Want - Len(got)
    <3>3. m < n /\ n \in Nat /\ m \in Nat
      <4>1. m = n - take
        BY <1>1, <2>1, <3>1, <3>2, Remaining
      <4>2. Len(got') < Want'
        BY <2>4 DEF BoundInv, HandleInv, Counted, Accounting
      <4>3. Want \in Nat
        BY <1>1, Remaining
      <4> QED
        BY <2>1, <3>1, <3>2, <4>1, <4>2, <4>3
    <3> HIDE DEF m, n
    <3>4. /\ m * (ReadRetries + 1) \in Nat /\ n * (ReadRetries + 1) \in Nat
          /\ m * (ReadRetries + 1) + (ReadRetries + 1) <= n * (ReadRetries + 1)
      BY <3>3, Multiples, PolicyAssumption
    <3>5. ReadsLeft' = m * (ReadRetries + 1) + ReadRetries
      BY <1>3 DEF ReadsLeft, m
    <3>6. ReadsLeft = n * (ReadRetries + 1) + (IF copied THEN ReadRetries ELSE ReadRetries - 1 - streak)
      BY DEF ReadsLeft, n
    <3>7. (IF copied THEN ReadRetries ELSE ReadRetries - 1 - streak) \in Nat
      BY PolicyAssumption DEF BoundInv, HandleInv, TypeOK, MpsseTypeOK
    <3>8. ReadsLeft' < ReadsLeft /\ ReadsLeft' \in Nat
      BY <3>4, <3>5, <3>6, <3>7, PolicyAssumption
    <3>9. TryLeft' = ReadsLeft' + 1
      BY <2>4 DEF TryLeft
    <3> DEFINE u == ReadsLeft'
               v == ReadsLeft
    <3>10. u < v /\ u \in Nat /\ v \in Nat /\ TryLeft' = u + 1 /\ TryLeft = v + 1
      BY <2>2, <3>8, <3>9
    <3> HIDE DEF u, v
    <3>11. TryLeft' < TryLeft
      BY <3>10
    <3> QED
      BY <1>1, <1>3, <2>1, <3>11, SameTry
  <2> QED
    BY <1>3, <2>3, <2>4
<1> QED
  BY <1>2, <1>3 DEF ReadBytes

(* A recovery costs one of the tries left, which was worth more. *)
LEMMA IncompleteLess ==
    ASSUME BoundInv, BoundInv', pc = "read", Incomplete
    PROVE  Less
<1>1. Busy /\ Serving /\ InCommand
  BY ServingCases DEF InCommand
<1>2. CASE AcquireFails("ReadRetriesExhausted")
  BY <1>1, <1>2, FailureReturns
<1>3. CASE /\ resets + 1 < InitRetries /\ StartInit
           /\ caller' = "recover" /\ resets' = resets + 1
           /\ UNCHANGED <<failed, bytes, segs, seg, left, copied, out, result>>
  <2>1. pc' = "reset" /\ InCommand' /\ BytesLeft' = BytesLeft
    BY <1>3 DEF StartInit, Enter, InCommand, InitLabels, BytesLeft
  <2>2. WorkLeft' = ((InitRetries - 1) * 14 + 13) * DrainLimit
    <3>1. attempt' = 1 /\ reads' = 0 /\ LoopsLeft' = 13
      BY <1>3 DEF StartInit, Enter, LoopsLeft
    <3>2. ((InitRetries - 1) * 14 + 13) * DrainLimit \in Nat
      BY NaturalProduct, PolicyAssumption
    <3> QED
      BY <3>1, <3>2 DEF WorkLeft
  <2>3. TryLeft' = TryMax + 1 + ((InitRetries - 1) * 14 + 13) * DrainLimit
    BY <2>1, <2>2 DEF TryLeft
  <2>4. ((InitRetries - 1) * 14 + 13) * DrainLimit = RecoveryMax - 2
    BY NaturalProduct, PolicyAssumption DEF RecoveryMax
  <2>5. TryLeft' = RetryCost - 1
    BY <2>3, <2>4, Limits DEF RetryCost
  <2>6. /\ BytesLeft - 1 \in Nat /\ InitRetries - 1 - resets \in Nat \ {0}
        /\ InitRetries - 1 - resets' = InitRetries - 1 - resets - 1
    BY <1>1, <1>3, Remaining, PolicyAssumption DEF BoundInv, HandleInv, TypeOK
  <2> DEFINE n == InitRetries - 1 - resets
             w == (BytesLeft - 1) * K
             r == n * RetryCost
             s == (n - 1) * RetryCost
             l == TryLeft
  <2>7. w \in Nat /\ RetryCost \in Nat
    BY <2>6, Limits, NaturalProduct
  <2>8. s \in Nat /\ s + RetryCost = r
    <3>1. n \in Nat \ {0}
      BY <2>6
    <3> HIDE DEF n
    <3> QED
      BY <2>7, <3>1
  <2>9. l \in Nat \ {0}
    BY <1>1, TryNatural
  <2>10. CallWork = w + (r + l)
    BY <1>1, WorkForms
  <2>11. CallWork' = w + (s + (RetryCost - 1))
    BY <2>1, <2>5, <2>6, WorkFormsNext
  <2>12. RetryCost >= 1
    BY Limits DEF RetryCost, TryMax
  <2> HIDE DEF w, r, s, l
  <2> QED
    BY <2>7, <2>8, <2>9, <2>10, <2>11, <2>12 DEF Less
<1> QED
  BY <1>2, <1>3 DEF Incomplete

(* a read that brings none, *)
LEMMA ReadEmptyLess ==
    ASSUME BoundInv, BoundInv', ReadEmpty
    PROVE  Less
<1>1. Busy /\ pc = "read" /\ Serving /\ InCommand
  BY ServingCases DEF ReadEmpty, InCommand
<1>2. CASE AcquireFails("ProtocolViolation")
  BY <1>1, <1>2, FailureReturns
<1>3. CASE Incomplete
  BY <1>1, <1>3, IncompleteLess
<1>4. CASE /\ copied \/ streak + 1 < ReadRetries
           /\ streak' = IF copied THEN 0 ELSE streak + 1
           /\ copied' = FALSE
           /\ pc' = pc
           /\ UNCHANGED <<failed, caller, bytes, segs, seg, left, resets, got, out, result>>
  <2>1. Want' = Want /\ InCommand' /\ pc' = "read"
    BY <1>1, <1>4 DEF Want, InCommand
  <2> DEFINE x == (Want - Len(got)) * (ReadRetries + 1)
             c == IF copied THEN ReadRetries ELSE ReadRetries - 1 - streak
             d == ReadRetries - 1 - streak'
  <2>2. x \in Nat
    BY <1>1, ReadsRemaining
  <2>3. c \in Nat /\ d \in Nat /\ d < c
    BY <1>4, PolicyAssumption DEF BoundInv, HandleInv, TypeOK, MpsseTypeOK
  <2>4. TryLeft = x + c + 1
    BY <1>1 DEF TryLeft, ReadsLeft
  <2>5. TryLeft' = x + d + 1
    BY <1>4, <2>1 DEF TryLeft, ReadsLeft
  <2> HIDE DEF x, c, d
  <2>6. TryLeft' < TryLeft
    BY <2>2, <2>3, <2>4, <2>5
  <2> QED
    BY <1>1, <1>4, <2>1, <2>6, SameTry
<1> QED
  BY <1>2, <1>3, <1>4 DEF ReadEmpty

(* the return from a recovery, *)
LEMMA RecoveryReturnsLess ==
    ASSUME BoundInv, BoundInv', RecoveryReturns
    PROVE  Less
<1>1. Busy /\ pc = "done" /\ Serving /\ InCommand
  BY ServingCases DEF RecoveryReturns, InCommand, InitLabels
<1>2. CASE AcquireFails(outcome)
  BY <1>1, <1>2, FailureReturns
<1>3. CASE Enter("command") /\ UNCHANGED call
  <2>1. InCommand' /\ TryLeft' = TryMax
    BY <1>3 DEF Enter, InCommand, TryLeft
  <2> DEFINE v == WorkLeft
  <2>2. v \in Nat
    BY <1>1, WorkNatural DEF BoundInv, HandleInv, TypeOK, MpsseInv, InitLabels
  <2>3. TryLeft = TryMax + 1 + v
    BY <1>1 DEF TryLeft
  <2> HIDE DEF v
  <2>4. TryLeft' < TryLeft
    BY <2>1, <2>2, <2>3, Limits
  <2> QED
    BY <1>1, <1>3, <2>1, <2>4, SameTry DEF call
<1> QED
  BY <1>2, <1>3 DEF RecoveryReturns

(* A command served is one byte less to read, at least. *)
LEMMA CommandDoneLess ==
    ASSUME BoundInv, BoundInv', pc = "check", CommandDone
    PROVE  Less
<1>1. Busy /\ Serving /\ InCommand
  BY ServingCases DEF InCommand
<1>2. /\ BytesLeft \in Nat \ {0} /\ left \in Nat \ {0} /\ Want \in Nat \ {0}
      /\ segs - seg \in Nat /\ bytes \in Nat \ {0} /\ (segs - seg) * bytes \in Nat
      /\ segs \in Int /\ seg \in Int
  <2>1. segs \in Int /\ seg \in Int
    BY AcquisitionAssumption DEF BoundInv, HandleInv, TypeOK
  <2> QED
    BY <1>1, <2>1, Remaining
<1> DEFINE w == (BytesLeft - 1) * K
           r == (InitRetries - 1 - resets) * RetryCost
<1>3. w \in Nat /\ r \in Nat
  BY <1>1, <1>2, Remaining, Limits, NaturalProduct
<1>4. CallWork = w + (r + 1)
  <2>1. TryLeft = 1
    BY DEF TryLeft
  <2> QED
    BY <1>1, <2>1, WorkForms
<1>5. \A b \in Nat : b < BytesLeft => b * K \in Nat /\ b * K <= w
  <2> SUFFICES ASSUME NEW b \in Nat, b < BytesLeft
               PROVE  b * K \in Nat /\ b * K <= w
    OBVIOUS
  <2>1. CASE b = BytesLeft - 1
    BY <1>3, <2>1
  <2>2. CASE b < BytesLeft - 1
    BY <1>2, <2>2, Limits, Multiples
  <2> QED
    BY <1>2, <2>1, <2>2
<1> HIDE DEF w, r
<1>6. CASE left > Want /\ Enter("command") /\ left' = left - Want /\ UNCHANGED seg
  <2>1. pc' = "command" /\ InCommand' /\ resets' = 0
    BY <1>6 DEF CommandDone, Enter, InCommand
  <2>2. BytesLeft' = BytesLeft - Want /\ BytesLeft' \in Nat \ {0}
    <3> DEFINE z == (segs - seg) * bytes
    <3>1. BytesLeft = z + left /\ BytesLeft' = z + (left - Want)
      BY <1>6 DEF CommandDone, BytesLeft
    <3>2. z \in Nat
      BY <1>2
    <3> HIDE DEF z
    <3> QED
      BY <1>2, <1>6, <3>1, <3>2
  <2>3. TryLeft' = TryMax
    BY <2>1 DEF TryLeft
  <2> DEFINE b == BytesLeft'
             v == (b - 1) * K
             m == (InitRetries - 1) * RetryCost
  <2>4. CallWork' = v + (m + TryMax)
    BY <2>1, <2>3, WorkFormsNext, PolicyAssumption
  <2>5. b \in Nat \ {0} /\ b < BytesLeft
    BY <1>2, <2>2
  <2> HIDE DEF b
  <2>6. b * K \in Nat /\ b * K <= w /\ v \in Nat /\ v + K <= b * K
    BY <1>5, <2>5, Limits, Multiples
  <2>7. K = m + TryMax + 1 /\ m \in Nat /\ TryMax \in Nat
    BY Limits, NaturalProduct, PolicyAssumption DEF K, CommandMax, RetryCost
  <2> HIDE DEF v, m
  <2> DEFINE p == b * K
  <2>8. p \in Nat /\ p <= w /\ v \in Nat /\ v + K <= p
    BY <2>6
  <2> HIDE DEF p
  <2> QED
    BY <1>3, <1>4, <2>4, <2>7, <2>8 DEF Less
<1>7. CASE left = Want /\ seg < segs /\ Enter("segment") /\ left' = bytes /\ seg' = seg + 1
  <2>1. pc' = "segment"
    BY <1>7 DEF Enter
  <2>2. BytesLeft' = BytesLeft - left /\ BytesLeft' \in Nat
    <3>1. (segs - (seg + 1)) * bytes + bytes = (segs - seg) * bytes
      BY <1>2
    <3>2. BytesLeft' = (segs - seg) * bytes
      BY <1>7, <3>1 DEF CommandDone, BytesLeft
    <3> QED
      BY <1>2, <3>2 DEF BytesLeft
  <2>3. CallWork' = BytesLeft' * K
    BY <2>1, WorkFormsNext
  <2> DEFINE b == BytesLeft'
             p == b * K
  <2>4. b \in Nat /\ b < BytesLeft
    BY <1>2, <2>2
  <2> HIDE DEF b
  <2>5. p \in Nat /\ p <= w
    BY <1>5, <2>4
  <2>6. CallWork' = p
    BY <2>3 DEF b
  <2> HIDE DEF p
  <2> QED
    BY <1>3, <1>4, <2>5, <2>6 DEF Less
<1>8. CASE Enter("idle")
  BY <1>1, <1>8, Returns DEF Enter
<1> QED
  BY <1>6, <1>7, <1>8 DEF CommandDone

(* and so any step of the call. *)
LEMMA CallStepLess ==
    ASSUME BoundInv, BoundInv', CallStep
    PROVE  Less
<1>1. CASE InitStep /\ UNCHANGED call
  BY <1>1, InitStepLess
<1>2. CASE OpenReturns
  <2>1. Busy /\ pc' \in {"closed", "idle"}
    BY <1>2 DEF OpenReturns, Busy
  <2> QED
    BY <2>1, Returns
<1>3. CASE Reserve
  BY <1>3, ReserveLess
<1>4. CASE WriteCommand
  BY <1>4, WriteCommandLess
<1>5. ASSUME NEW k \in Transfers(ReadBuffer(Want - Len(got))), ReadBytes(k)
      PROVE  Less
  BY <1>5, ReadBytesLess
<1>6. CASE ReadEmpty
  BY <1>6, ReadEmptyLess
<1>7. ASSUME NEW e \in UsbFaults, ReadError(e)
      PROVE  Less
  BY <1>7, FailureReturns DEF ReadError, Busy
<1>8. CASE RecoveryReturns
  BY <1>8, RecoveryReturnsLess
<1>9. CASE Check
  <2>1. CASE AcquireFails("ProtocolViolation")
    BY <1>9, <2>1, FailureReturns DEF Check, Busy
  <2>2. CASE CommandDone
    BY <1>9, <2>2, CommandDoneLess DEF Check
  <2> QED
    BY <1>9, <2>1, <2>2 DEF Check
<1> QED
  BY <1>1, <1>2, <1>3, <1>4, <1>5, <1>6, <1>7, <1>8, <1>9 DEF CallStep

(* A call of get_bits_with_fold or open is bounded whatever the chip does:    *)
(* through reads, resets, recoveries and segments nested in one another each *)
(* USB transfer uses up one of the finitely many CallWork counts.           *)
THEOREM CallIsBounded == Spec => CallBounded
<1>1. BoundInv /\ [Next]_vars => BoundInv'
  BY BoundInvStep
<1>2. BoundInv /\ BoundInv' /\ [Next]_vars =>
         [CallStep => CallWork' < CallWork /\ CallWork' >= 0]_vars
  BY CallStepLess DEF Less
<1> QED
  BY <1>1, <1>2, BoundInvariant, PTL DEF Spec, CallBounded
============================================================================

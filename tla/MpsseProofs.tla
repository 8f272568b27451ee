---------------------------- MODULE MpsseProofs ----------------------------
(* Proofs about the initialization of the chip, for every value of the      *)
(* constants that PolicyAssumption allows.                                  *)
EXTENDS Mpsse, TLAPS

(* The part of the type invariant about the client. *)
ControlTypeOK ==
    /\ chunk \in Seq(Items)
    /\ pc \in InitLabels
    /\ attempt \in 1 .. InitRetries
    /\ pair \in {1, 2}
    /\ probe \in Probes
    /\ streak \in 0 .. ReadRetries - 1
    /\ reads \in 0 .. DrainLimit - 1
    /\ outcome \in Outcomes

MpsseInv == MpsseTypeOK /\ pc \in InitLabels

----------------------------------------------------------------------------
(* Sequences *)

(* What a transfer leaves behind is a sequence of the remaining bytes. *)
LEMMA UndeliveredType ==
    ASSUME pipe \in Seq(Items), NEW k \in 0 .. Len(pipe)
    PROVE  Undelivered(k) \in Seq(Items)
BY DEF Undelivered

(* The elements of a part of a sequence. *)
LEMMA SubSeqType ==
    ASSUME NEW S, NEW s \in Seq(S), NEW m \in 1 .. Len(s) + 1, NEW n \in 0 .. Len(s)
    PROVE  /\ SubSeq(s, m, n) \in Seq(S)
           /\ Len(SubSeq(s, m, n)) = IF m <= n THEN n - m + 1 ELSE 0
           /\ \A i \in 1 .. Len(SubSeq(s, m, n)) : SubSeq(s, m, n)[i] = s[m + i - 1]
OBVIOUS

(* The elements of two sequences joined. *)
LEMMA ConcatType ==
    ASSUME NEW S, NEW s \in Seq(S), NEW t \in Seq(S)
    PROVE  /\ s \o t \in Seq(S)
           /\ Len(s \o t) = Len(s) + Len(t)
           /\ \A i \in 1 .. Len(s) : (s \o t)[i] = s[i]
           /\ \A i \in Len(s) + 1 .. Len(s) + Len(t) : (s \o t)[i] = t[i - Len(s)]
OBVIOUS

(* Of n elements with m <= 2 added, one past the n-th is the first or the   *)
(* second of those added.                                                  *)
LEMMA PastTheEnd ==
    ASSUME NEW n \in Nat, NEW m \in Nat, m <= 2, NEW i \in 1 .. n + m, i \notin 1 .. n
    PROVE  /\ i \in n + 1 .. n + m
           /\ i > n
           /\ \/ i = n + 1 /\ i - n = 1 /\ m >= 1
              \/ i = n + 2 /\ i - n = 2 /\ m = 2 /\ i = n + m
OBVIOUS

(* The elements of a sequence followed by at most two more. *)
LEMMA ShortConcat ==
    ASSUME NEW S, NEW s \in Seq(S), NEW t \in Seq(S), Len(t) <= 2
    PROVE  /\ s \o t \in Seq(S)
           /\ \A i \in 1 .. Len(s \o t) :
                 \/ i \in 1 .. Len(s) /\ (s \o t)[i] = s[i]
                 \/ i = Len(s) + 1 /\ i > Len(s) /\ Len(t) >= 1 /\ (s \o t)[i] = t[1]
                 \/ /\ i = Len(s) + 2 /\ i > Len(s) /\ i = Len(s \o t)
                    /\ Len(t) = 2 /\ (s \o t)[i] = t[2]
<1>1. Len(s) \in Nat /\ Len(t) \in Nat
  OBVIOUS
<1>2. /\ s \o t \in Seq(S)
      /\ Len(s \o t) = Len(s) + Len(t)
      /\ \A i \in 1 .. Len(s) : (s \o t)[i] = s[i]
      /\ \A i \in Len(s) + 1 .. Len(s) + Len(t) : (s \o t)[i] = t[i - Len(s)]
  BY ConcatType
<1> DEFINE st == s \o t
<1> HIDE DEF st
<1>3. ASSUME NEW i \in 1 .. Len(st), i \notin 1 .. Len(s)
      PROVE  /\ i > Len(s)
             /\ \/ i = Len(s) + 1 /\ Len(t) >= 1 /\ st[i] = t[1]
                \/ i = Len(s) + 2 /\ i = Len(st) /\ Len(t) = 2 /\ st[i] = t[2]
  <2>1. i \in 1 .. Len(s) + Len(t)
    BY <1>2, <1>3 DEF st
  <2>2. /\ i \in Len(s) + 1 .. Len(s) + Len(t)
        /\ i > Len(s)
        /\ \/ i = Len(s) + 1 /\ i - Len(s) = 1 /\ Len(t) >= 1
           \/ i = Len(s) + 2 /\ i - Len(s) = 2 /\ Len(t) = 2 /\ i = Len(s) + Len(t)
    BY <1>1, <1>3, <2>1, PastTheEnd
  <2>3. st[i] = t[i - Len(s)] /\ Len(st) = Len(s) + Len(t)
    BY <1>2, <2>2 DEF st
  <2> QED
    BY <2>2, <2>3
<1> QED
  BY <1>2, <1>3 DEF st

(* What the chip says to a probe follows what it had to say before, in      *)
(* order and up to some point.                                              *)
LEMMA EchoAnswer ==
    ASSUME MpsseTypeOK, Answers(<<"FA", probe>>)
    PROVE  \E t \in Seq(EchoBytes) :
              /\ pipe' = pipe \o t
              /\ Len(t) <= 2
              /\ Len(t) >= 1 => t[1] = "FA"
              /\ Len(t) = 2 => t[2] = probe
<1> DEFINE echo == <<"FA", probe>>
<1>1. /\ echo \in Seq(EchoBytes)
      /\ Len(echo) = 2
      /\ echo[1] = "FA"
      /\ echo[2] = probe
  BY DEF MpsseTypeOK, EchoBytes, Probes
<1> HIDE DEF echo
<1>2. CASE pipe' = pipe \o echo
  <2> USE <1>1
  <2> WITNESS echo \in Seq(EchoBytes)
  <2> QED
    BY <1>1, <1>2
<1>3. CASE \E j \in 0 .. Len(echo) - 1 : pipe' = pipe \o SubSeq(echo, 1, j)
  <2>1. PICK j \in 0 .. Len(echo) - 1 : pipe' = pipe \o SubSeq(echo, 1, j)
    BY <1>3
  <2>2. /\ SubSeq(echo, 1, j) \in Seq(EchoBytes)
        /\ Len(SubSeq(echo, 1, j)) = j
        /\ \A i \in 1 .. j : SubSeq(echo, 1, j)[i] = echo[i]
    BY <1>1, <2>1, SubSeqType
  <2>3. j \in {0, 1}
    BY <1>1
  <2> DEFINE t == SubSeq(echo, 1, j)
  <2> HIDE DEF t
  <2>4. /\ t \in Seq(EchoBytes)
        /\ pipe' = pipe \o t
        /\ Len(t) <= 2
        /\ Len(t) >= 1 => t[1] = "FA"
        /\ Len(t) = 2 => t[2] = probe
    BY <1>1, <2>1, <2>2, <2>3 DEF t
  <2> USE <2>4
  <2> WITNESS t \in Seq(EchoBytes)
  <2> QED
    BY <2>4
<1> QED
  BY <1>2, <1>3 DEF Answers, echo

(* A transfer delivers at least a byte and at most all there are. *)
LEMMA TransfersType ==
    ASSUME pipe \in Seq(Items), NEW buffer, NEW k \in Transfers(buffer)
    PROVE  k \in 1 .. Len(pipe)
BY DEF Transfers

(* The counters start within their ranges. *)
LEMMA EnterType ==
    ASSUME NEW label \in InitLabels, Enter(label)
    PROVE  /\ pc' \in InitLabels
           /\ streak' \in 0 .. ReadRetries - 1
           /\ reads' \in 0 .. DrainLimit - 1
BY PolicyAssumption DEF Enter

(* An attempt that fails leaves the client's variables well typed. *)
LEMMA AbortType ==
    ASSUME MpsseInv, NEW e, Abort(e)
    PROVE  ControlTypeOK'
<1>1. CASE e \in FatalErrors /\ Enter("done") /\ outcome' = e /\ UNCHANGED <<chunk, attempt>>
  BY <1>1, EnterType DEF Abort, MpsseInv, MpsseTypeOK, ControlTypeOK, InitLabels, Outcomes
<1>2. CASE Enter("done") /\ outcome' = "InitializationFailed" /\ chunk' = <<>> /\ UNCHANGED attempt
  BY <1>2, EnterType DEF Abort, MpsseInv, MpsseTypeOK, ControlTypeOK, InitLabels, Outcomes
<1>3. CASE attempt < InitRetries /\ Enter("reset") /\ attempt' = attempt + 1 /\ chunk' = <<>> /\ UNCHANGED outcome
  BY <1>3, EnterType, PolicyAssumption DEF Abort, MpsseInv, MpsseTypeOK, ControlTypeOK, InitLabels
<1> QED
  BY <1>1, <1>2, <1>3 DEF Abort

(* So does a missed echo. *)
LEMMA SyncMissedType ==
    ASSUME MpsseInv, SyncMissed
    PROVE  ControlTypeOK'
<1>1. CASE Enter("probe") /\ pair' = 2 /\ probe' = "AA" /\ UNCHANGED <<chunk, attempt, outcome>>
  BY <1>1, EnterType DEF MpsseInv, MpsseTypeOK, ControlTypeOK, InitLabels, Probes
<1>2. CASE Abort("ProtocolViolation")
  BY <1>2, AbortType
<1> QED
  BY <1>1, <1>2 DEF SyncMissed

(* So does the end of a purge. *)
LEMMA PurgeDoneType ==
    ASSUME MpsseInv, PurgeDone
    PROVE  ControlTypeOK'
BY EnterType DEF PurgeDone, MpsseInv, MpsseTypeOK, ControlTypeOK, InitLabels, Outcomes

(* A loop that goes on counts its read within its limits. *)
LEMMA CountType ==
    ASSUME MpsseInv, NEW s \in 0 .. ReadRetries - 1, reads + 1 < DrainLimit,
           streak' = s, reads' = reads + 1,
           UNCHANGED <<chunk, pc, attempt, pair, probe, outcome>>
    PROVE  ControlTypeOK'
BY PolicyAssumption DEF MpsseInv, MpsseTypeOK, ControlTypeOK

----------------------------------------------------------------------------
(* Type correctness: one step per action of `initialize`. *)

(* Every step of `initialize` keeps the types. *)
LEMMA InitStepType ==
    ASSUME MpsseInv, InitStep
    PROVE  MpsseInv'
<1> SUFFICES pipe' \in Seq(Items) /\ line' \in LineStates /\ ControlTypeOK'
  BY DEF MpsseInv, MpsseTypeOK, ControlTypeOK
<1> USE DEF MpsseInv
<1>0. pipe \in Seq(Items) /\ line \in LineStates
  BY DEF MpsseTypeOK
<1>1. CASE Reset
  <2>1. ASSUME Enter("purge1") /\ chunk' = <<>> /\ UNCHANGED <<attempt, pair, probe, outcome>>
       PROVE  ControlTypeOK'
    BY <2>1, EnterType DEF MpsseTypeOK, ControlTypeOK, InitLabels
  <2>2. ASSUME \E e \in UsbFaults : Abort(e)
       PROVE  ControlTypeOK'
    BY <2>2, AbortType
  <2> QED
    BY <1>0, <1>1, <2>1, <2>2 DEF Reset
<1>2. CASE Configure
  <2>0. (pipe' = pipe \/ pipe' = <<>>) /\ (line' = line \/ line' \in LineStates)
    BY <1>2, Zenon DEF Configure
  <2>1. pipe' \in Seq(Items) /\ line' \in LineStates
    <3>1. <<>> \in Seq(Items)
      OBVIOUS
    <3> QED
      BY <1>0, <2>0, <3>1, Zenon
  <2>2. ASSUME Enter("probe") /\ pair' = 1 /\ probe' = "AA" /\ UNCHANGED <<chunk, attempt, outcome>>
       PROVE  ControlTypeOK'
    BY <2>2, EnterType DEF MpsseTypeOK, ControlTypeOK, InitLabels, Probes
  <2>3. ASSUME \E e \in UsbFaults : Abort(e)
       PROVE  ControlTypeOK'
    BY <2>3, AbortType
  <2> QED
    BY <1>2, <2>1, <2>2, <2>3 DEF Configure
<1>3. CASE SyncWrite
  <2>1. Answers(<<"FA", probe>>) => pipe' \in Seq(Items)
    <3>1. SUFFICES ASSUME Answers(<<"FA", probe>>)
                   PROVE  pipe' \in Seq(Items)
      OBVIOUS
    <3>2. PICK t \in Seq(EchoBytes) : pipe' = pipe \o t
      BY <3>1, EchoAnswer
    <3>3. t \in Seq(Items)
      BY DEF Items
    <3> QED
      BY <1>0, <3>2, <3>3, ConcatType
  <2>2. ASSUME Enter("sync") /\ UNCHANGED <<chunk, attempt, pair, probe, outcome>>
       PROVE  ControlTypeOK'
    BY <2>2, EnterType DEF MpsseTypeOK, ControlTypeOK, InitLabels
  <2>3. ASSUME \E e \in UsbFaults : Abort(e)
       PROVE  ControlTypeOK'
    BY <2>3, AbortType
  <2> QED
    BY <1>0, <1>3, <2>1, <2>2, <2>3 DEF SyncWrite
<1>4. ASSUME NEW k \in Transfers(ProbeBuffer), SyncMatch(k)
      PROVE  pipe' \in Seq(Items) /\ line' \in LineStates /\ ControlTypeOK'
  <2>1. pipe' \in Seq(Items)
    BY <1>0, <1>4, TransfersType, UndeliveredType DEF SyncMatch
  <2>2. ASSUME Enter("probe") /\ probe' = "AB"
       PROVE  ControlTypeOK'
    BY <1>4, <2>2, EnterType DEF SyncMatch, MpsseTypeOK, ControlTypeOK, InitLabels, Probes
  <2>3. ASSUME Enter("clock") /\ UNCHANGED probe
       PROVE  ControlTypeOK'
    BY <1>4, <2>3, EnterType DEF SyncMatch, MpsseTypeOK, ControlTypeOK, InitLabels
  <2> QED
    BY <1>0, <1>4, <2>1, <2>2, <2>3 DEF SyncMatch
<1>5. ASSUME NEW k \in Transfers(ProbeBuffer), SyncOther(k)
      PROVE  pipe' \in Seq(Items) /\ line' \in LineStates /\ ControlTypeOK'
  <2>1. pipe' \in Seq(Items)
    BY <1>0, <1>5, TransfersType, UndeliveredType DEF SyncOther
  <2>2. 0 \in 0 .. ReadRetries - 1
    BY PolicyAssumption
  <2> QED
    BY <1>0, <1>5, <2>1, <2>2, SyncMissedType, CountType DEF SyncOther, CountRead
<1>6. CASE SyncEmpty
  <2>1. streak + 1 < ReadRetries => streak + 1 \in 0 .. ReadRetries - 1
    BY PolicyAssumption DEF MpsseTypeOK
  <2> QED
    BY <1>0, <1>6, <2>1, SyncMissedType, CountType DEF SyncEmpty, CountEmpty, CountRead
<1>7. ASSUME NEW e \in UsbFaults, SyncError(e) \/ PurgeError(e)
      PROVE  pipe' \in Seq(Items) /\ line' \in LineStates /\ ControlTypeOK'
  BY <1>0, <1>7, AbortType DEF SyncError, PurgeError
<1>8. ASSUME NEW k \in Transfers(PurgeBuffer), PurgeBytes(k)
      PROVE  pipe' \in Seq(Items) /\ line' \in LineStates /\ ControlTypeOK'
  <2>1. pipe' \in Seq(Items)
    BY <1>0, <1>8, TransfersType, UndeliveredType DEF PurgeBytes
  <2>2. 0 \in 0 .. ReadRetries - 1
    BY PolicyAssumption
  <2> QED
    BY <1>0, <1>8, <2>1, <2>2, AbortType, CountType DEF PurgeBytes, CountRead
<1>9. CASE PurgeEmpty
  <2>1. streak + 1 < ReadRetries => streak + 1 \in 0 .. ReadRetries - 1
    BY PolicyAssumption DEF MpsseTypeOK
  <2> QED
    BY <1>0, <1>9, <2>1, PurgeDoneType, AbortType, CountType
    DEF PurgeEmpty, CountEmpty, CountRead
<1>10. CASE Clock
  <2>1. ASSUME Enter("purge2") /\ chunk' = <<>> /\ UNCHANGED <<attempt, pair, probe, outcome>>
       PROVE  ControlTypeOK'
    BY <2>1, EnterType DEF MpsseTypeOK, ControlTypeOK, InitLabels
  <2>2. ASSUME \E e \in UsbFaults : Abort(e)
       PROVE  ControlTypeOK'
    BY <2>2, AbortType
  <2> QED
    BY <1>0, <1>10, <2>1, <2>2 DEF Clock
<1> QED
  BY <1>1, <1>2, <1>3, <1>4, <1>5, <1>6, <1>7, <1>8, <1>9, <1>10 DEF InitStep

(* Whatever the chip says unasked is a byte. *)
LEMMA NoiseType ==
    ASSUME MpsseInv, Noise
    PROVE  MpsseInv'
<1>1. pipe' \in Seq(Items)
  BY DEF Noise, MpsseInv, MpsseTypeOK, Items, DataBytes
<1> QED
  BY <1>1 DEF Noise, MpsseInv, MpsseTypeOK, control

(* ... and so does every behaviour. *)
LEMMA InitTypeCorrectStrong == MpsseSpec => []MpsseInv
<1>1. MpsseInit => MpsseInv
  <2> SUFFICES ASSUME MpsseInit PROVE MpsseInv
    OBVIOUS
  <2>1. pipe \in Seq(Items)
    BY DEF MpsseInit, Residues
  <2> QED
    BY <2>1, PolicyAssumption
    DEF MpsseInit, MpsseInv, MpsseTypeOK, InitLabels, Outcomes, Probes
<1>2. MpsseInv /\ [MpsseNext]_mpsseVars => MpsseInv'
  <2> SUFFICES ASSUME MpsseInv, [MpsseNext]_mpsseVars PROVE MpsseInv'
    OBVIOUS
  <2>1. CASE InitStep
    BY <2>1, InitStepType
  <2>2. CASE Noise
    BY <2>2, NoiseType
  <2>3. CASE UNCHANGED mpsseVars
    BY <2>3 DEF MpsseInv, MpsseTypeOK, mpsseVars, control
  <2> QED
    BY <2>1, <2>2, <2>3 DEF MpsseNext
<1> QED
  BY <1>1, <1>2, PTL DEF MpsseSpec

(* `initialize` never leaves the ranges of its counters: every attempt,     *)
(* streak and loop ends within the limits of policy.rs.                     *)
THEOREM InitTypeCorrect == MpsseSpec => []MpsseTypeOK
<1>1. MpsseInv => MpsseTypeOK
  BY DEF MpsseInv
<1> QED
  BY <1>1, InitTypeCorrectStrong, PTL

----------------------------------------------------------------------------
(* The order of the echoes, with a trusted chip. *)

EchoInv == EchoOrder /\ (pc = "done" /\ outcome = "Ok" => pipe = <<>>)

(* The bytes a transfer leaves behind are the later ones, in order. *)
LEMMA UndeliveredElements ==
    ASSUME NEW S, pipe \in Seq(S), NEW k \in 1 .. Len(pipe)
    PROVE  /\ Undelivered(k) \in Seq(S)
           /\ Len(Undelivered(k)) = Len(pipe) - k
           /\ \A i \in 1 .. Len(pipe) - k : Undelivered(k)[i] = pipe[i + k]
BY DEF Undelivered

(* A failed attempt makes no promise about the chip. *)
LEMMA AbortEcho ==
    ASSUME NEW e, Abort(e)
    PROVE  EchoInv'
BY DEF Abort, Enter, EchoInv, EchoOrder, FatalErrors

(* Giving up on an echo, whatever part of the answers has arrived. *)
LEMMA SyncMissedEcho ==
    ASSUME MpsseInv, EchoInv, pc = "sync", SyncMissed,
           NEW k \in 0 .. Len(pipe), pipe' = Undelivered(k)
    PROVE  EchoInv'
<1>1. CASE Abort("ProtocolViolation")
  BY <1>1, AbortEcho
<1>2. CASE pair = 1 /\ Enter("probe") /\ pair' = 2 /\ probe' = "AA" /\ UNCHANGED outcome
  <2>1. pipe \in Seq(EchoBytes)
    BY DEF EchoInv, EchoOrder
  <2>2. /\ pipe' \in Seq(EchoBytes)
        /\ Len(pipe') = Len(pipe) - k
        /\ \A i \in 1 .. Len(pipe) - k : pipe'[i] = pipe[i + k]
    BY <2>1 DEF Undelivered
  <2>3. \A i, j \in 1 .. Len(pipe) : i < j => ~ (pipe[i] = "AA" /\ pipe[j] = "AB")
    BY <1>2 DEF EchoInv, EchoOrder, NoneIs, OnlyLastIs, MpsseInv, MpsseTypeOK, Probes
  <2>4. \A i, j \in 1 .. Len(pipe') : i < j => ~ (pipe'[i] = "AA" /\ pipe'[j] = "AB")
    <3> SUFFICES ASSUME NEW i \in 1 .. Len(pipe'), NEW j \in 1 .. Len(pipe'), i < j
                 PROVE  ~ (pipe'[i] = "AA" /\ pipe'[j] = "AB")
      OBVIOUS
    <3>1. /\ i + k \in 1 .. Len(pipe) /\ j + k \in 1 .. Len(pipe) /\ i + k < j + k
          /\ i \in 1 .. Len(pipe) - k /\ j \in 1 .. Len(pipe) - k
      BY <2>1, <2>2
    <3> QED
      BY <2>2, <2>3, <3>1
  <2> QED
    BY <1>2, <2>2, <2>4 DEF EchoInv, EchoOrder, Enter
<1> QED
  BY <1>1, <1>2 DEF SyncMissed

(* Sending a probe: its echo, or a part of it, follows older echoes. *)
LEMMA SyncWriteEcho ==
    ASSUME MpsseInv, EchoInv, SyncWrite
    PROVE  EchoInv'
<1>1. CASE \E e \in UsbFaults : Abort(e)
  BY <1>1, AbortEcho
<1>2. CASE Enter("sync") /\ Answers(<<"FA", probe>>) /\ UNCHANGED <<pair, probe>>
  <2> DEFINE n == Len(pipe)
  <2>1. pc = "probe" /\ pipe \in Seq(EchoBytes)
    BY DEF SyncWrite, EchoInv, EchoOrder
  <2>2. PICK t \in Seq(EchoBytes) :
           /\ pipe' = pipe \o t
           /\ Len(t) <= 2
           /\ Len(t) >= 1 => t[1] = "FA"
           /\ Len(t) = 2 => t[2] = probe
    BY <1>2, EchoAnswer DEF MpsseInv
  <2>3. pipe' \in Seq(EchoBytes)
    BY <2>1, <2>2, ConcatType
  <2>4. \A i \in 1 .. Len(pipe') :
           \/ i \in 1 .. n /\ pipe'[i] = pipe[i]
           \/ i = n + 1 /\ i > n /\ pipe'[i] = "FA"
           \/ i = n + 2 /\ i > n /\ i = Len(pipe') /\ pipe'[i] = probe
    BY <2>1, <2>2, ShortConcat
  <2>5. n \in Nat /\ Len(pipe') \in Nat
    BY <2>1, <2>3
  <2> HIDE DEF n
  <2>6. CASE probe = "AA"
    <3>1. \A i, j \in 1 .. Len(pipe') : i < j => ~ (pipe'[i] = "AA" /\ pipe'[j] = "AB")
      BY <2>1, <2>4, <2>5, <2>6 DEF EchoInv, EchoOrder, n
    <3>2. pair = 1 => OnlyLastIs("AA")' /\ NoneIs("AB")'
      <4>1. SUFFICES ASSUME pair = 1
                     PROVE  OnlyLastIs("AA")' /\ NoneIs("AB")'
        OBVIOUS
      <4>2. n = 0
        BY <2>1, <4>1 DEF EchoInv, EchoOrder, n
      <4> QED
        BY <2>4, <2>6, <4>2 DEF OnlyLastIs, NoneIs
    <3> QED
      BY <1>2, <2>3, <2>6, <3>1, <3>2 DEF EchoInv, EchoOrder, Enter
  <2>7. CASE probe = "AB"
    <3>1. OnlyLastIs("AB")'
      BY <2>1, <2>4, <2>5, <2>7 DEF EchoInv, EchoOrder, NoneIs, OnlyLastIs, n
    <3>2. pair = 1 => NoneIs("AA")'
      <4>1. SUFFICES ASSUME pair = 1
                     PROVE  NoneIs("AA")'
        OBVIOUS
      <4>2. n = 0
        BY <2>1, <4>1 DEF EchoInv, EchoOrder, n
      <4> QED
        BY <2>4, <2>7, <4>2 DEF NoneIs
    <3> QED
      BY <1>2, <2>3, <2>7, <3>1, <3>2 DEF EchoInv, EchoOrder, Enter
  <2> QED
    BY <2>6, <2>7 DEF MpsseInv, MpsseTypeOK, Probes
<1> QED
  BY <1>1, <1>2 DEF SyncWrite

(* Taking a transfer for the echo of the probe: what follows it is newer. *)
LEMMA SyncMatchEcho ==
    ASSUME MpsseInv, EchoInv, NEW k \in 1 .. Len(pipe), SyncMatch(k)
    PROVE  EchoInv'
<1>1. pc = "sync" /\ pipe \in Seq(EchoBytes)
  BY DEF SyncMatch, EchoInv, EchoOrder
<1>2. k = 2 /\ Len(pipe) >= 2 /\ pipe[2] = Delivered(2)[2]
  BY <1>1 DEF SyncMatch, IsEcho, Delivered
<1>3. pipe[2] = probe
  BY <1>1, <1>2 DEF SyncMatch, IsEcho, EchoBytes, Probes, DataBytes
<1>4. /\ pipe' \in Seq(EchoBytes)
      /\ Len(pipe') = Len(pipe) - 2
      /\ \A i \in 1 .. Len(pipe) - 2 : pipe'[i] = pipe[i + 2]
  BY <1>1, <1>2, UndeliveredElements DEF SyncMatch
<1>5. CASE probe = "AA" /\ Enter("probe") /\ probe' = "AB"
  <2>1. NoneIs("AB")'
    <3>1. \A i \in 1 .. Len(pipe') : i + 2 \in 1 .. Len(pipe) /\ 2 \in 1 .. Len(pipe) /\ 2 < i + 2
      BY <1>1, <1>2, <1>4
    <3> QED
      BY <1>1, <1>3, <1>4, <1>5, <3>1 DEF EchoInv, EchoOrder, NoneIs
  <2>2. pair = 1 => pipe' = <<>>
    <3>1. pair = 1 => Len(pipe) = 2
      BY <1>1, <1>2, <1>3, <1>5 DEF EchoInv, EchoOrder, OnlyLastIs
    <3>2. Len(pipe) = 2 => pipe' = <<>>
      BY <1>4
    <3> QED
      BY <3>1, <3>2
  <2>3. pair' = pair
    BY DEF SyncMatch
  <2> QED
    BY <1>4, <1>5, <2>1, <2>2, <2>3 DEF EchoInv, EchoOrder, Enter
<1>6. CASE probe = "AB" /\ Enter("clock")
  <2>1. Len(pipe) = 2
    BY <1>1, <1>2, <1>3, <1>6 DEF EchoInv, EchoOrder, OnlyLastIs
  <2>2. pipe' = <<>>
    BY <1>4, <2>1
  <2> QED
    BY <1>6, <2>2 DEF EchoInv, EchoOrder, Enter
<1> QED
  BY <1>5, <1>6 DEF SyncMatch

(* Every step of `initialize` keeps the order of the echoes. *)
LEMMA EchoStep ==
    ASSUME TrustedChip, MpsseInv, EchoInv, InitStep
    PROVE  EchoInv'
<1>0. pipe \in Seq(Items)
  BY DEF MpsseInv, MpsseTypeOK
<1>1. CASE Reset
  BY <1>1, AbortEcho DEF Reset, Enter, EchoInv, EchoOrder
<1>2. CASE Configure
  <2>1. CASE \E e \in UsbFaults : Abort(e)
    BY <2>1, AbortEcho
  <2>2. CASE Enter("probe") /\ pair' = 1 /\ probe' = "AA" /\ pipe' = <<>>
    BY <2>2 DEF Enter, EchoInv, EchoOrder, NoneIs, OnlyLastIs
  <2> QED
    BY <1>2, <2>1, <2>2 DEF Configure, TrustedChip
<1>3. CASE SyncWrite
  BY <1>3, SyncWriteEcho
<1>4. ASSUME NEW k \in Transfers(ProbeBuffer), SyncMatch(k)
      PROVE  EchoInv'
  BY <1>0, <1>4, TransfersType, SyncMatchEcho
<1>5. ASSUME NEW k \in 0 .. Len(pipe), pc = "sync", pipe' = Undelivered(k),
             UNCHANGED <<pc, pair, probe, outcome>>
      PROVE  EchoInv'
  <2>1. pipe \in Seq(EchoBytes)
    BY <1>5 DEF EchoInv, EchoOrder
  <2>2. /\ pipe' \in Seq(EchoBytes)
        /\ Len(pipe') = Len(pipe) - k
        /\ \A i \in 1 .. Len(pipe) - k : pipe'[i] = pipe[i + k]
    BY <1>5, <2>1 DEF Undelivered
  <2>3. \A i \in 1 .. Len(pipe') :
           /\ i + k \in 1 .. Len(pipe) /\ pipe'[i] = pipe[i + k]
           /\ i + k = Len(pipe) => i = Len(pipe')
           /\ \A j \in 1 .. Len(pipe') : i < j => i + k < j + k
    BY <2>1, <2>2
  <2>4. /\ \A b : NoneIs(b) => NoneIs(b)'
        /\ \A b : OnlyLastIs(b) => OnlyLastIs(b)'
    BY <2>3 DEF NoneIs, OnlyLastIs
  <2>5. probe = "AA" =>
          \A i, j \in 1 .. Len(pipe') : i < j => ~ (pipe'[i] = "AA" /\ pipe'[j] = "AB")
    <3> SUFFICES ASSUME probe = "AA", NEW i \in 1 .. Len(pipe'), NEW j \in 1 .. Len(pipe'), i < j
                 PROVE  ~ (pipe'[i] = "AA" /\ pipe'[j] = "AB")
      OBVIOUS
    <3>1. /\ i + k \in 1 .. Len(pipe) /\ j + k \in 1 .. Len(pipe) /\ i + k < j + k
          /\ pipe'[i] = pipe[i + k] /\ pipe'[j] = pipe[j + k]
      BY <2>3
    <3> QED
      BY <1>5, <3>1 DEF EchoInv, EchoOrder
  <2> QED
    BY <1>5, <2>2, <2>4, <2>5 DEF EchoInv, EchoOrder
<1>6. ASSUME NEW k \in Transfers(ProbeBuffer), SyncOther(k)
      PROVE  EchoInv'
  <2>1. k \in 0 .. Len(pipe) /\ pc = "sync" /\ pipe' = Undelivered(k)
    BY <1>0, <1>6, TransfersType DEF SyncOther
  <2> QED
    BY <1>5, <1>6, <2>1, SyncMissedEcho DEF SyncOther, CountRead
<1>7. CASE SyncEmpty
  <2>1. 0 \in 0 .. Len(pipe) /\ pc = "sync" /\ pipe' = Undelivered(0)
    BY <1>0, <1>7 DEF SyncEmpty, Undelivered
  <2> QED
    BY <1>5, <1>7, <2>1, SyncMissedEcho DEF SyncEmpty, CountEmpty, CountRead
<1>8. ASSUME NEW e \in UsbFaults, SyncError(e) \/ PurgeError(e)
      PROVE  EchoInv'
  BY <1>8, AbortEcho DEF SyncError, PurgeError
<1>9. ASSUME NEW k \in Transfers(PurgeBuffer), PurgeBytes(k)
      PROVE  EchoInv'
  <2>1. CASE Abort("ProtocolViolation")
    BY <2>1, AbortEcho
  <2>2. CASE UNCHANGED pc
    <3>1. pc = "purge1"
      BY <1>0, <1>9, TransfersType DEF PurgeBytes, Purging, EchoInv, EchoOrder
    <3> QED
      BY <2>2, <3>1 DEF EchoInv, EchoOrder
  <2> QED
    BY <1>9, <2>1, <2>2 DEF PurgeBytes, CountRead
<1>10. CASE PurgeEmpty
  <2>1. CASE Abort("ProtocolViolation")
    BY <2>1, AbortEcho
  <2>2. CASE PurgeDone
    BY <1>10, <2>2 DEF PurgeEmpty, PurgeDone, Enter, EchoInv, EchoOrder
  <2>3. CASE UNCHANGED <<pc, pair, probe, outcome>>
    BY <1>10, <2>3 DEF PurgeEmpty, Purging, EchoInv, EchoOrder
  <2> QED
    BY <1>10, <2>1, <2>2, <2>3 DEF PurgeEmpty, CountEmpty, CountRead
<1>11. CASE Clock
  BY <1>11, AbortEcho DEF Clock, Enter, EchoInv, EchoOrder
<1> QED
  BY <1>1, <1>2, <1>3, <1>4, <1>6, <1>7, <1>8, <1>9, <1>10, <1>11 DEF InitStep

(* What the echoes prove: with a chip that drops its undelivered answers on  *)
(* a mode switch and from then on only speaks when spoken to, whatever it   *)
(* said before, however late or cut short its answers are and whatever      *)
(* transfer fails, `initialize` returns Ok only when no answer is under way. *)
THEOREM SyncSound ==
    ASSUME TrustedChip
    PROVE  MpsseSpec => [](EchoOrder /\ SyncedMeansEmpty)
<1> DEFINE Inv == MpsseInv /\ EchoInv /\ (outcome = "Ok" => pc = "done")
<1>1. MpsseInit => Inv
  <2> SUFFICES ASSUME MpsseInit PROVE Inv
    OBVIOUS
  <2>1. pipe \in Seq(Items)
    BY DEF MpsseInit, Residues
  <2> QED
    BY <2>1, PolicyAssumption
    DEF MpsseInit, MpsseInv, MpsseTypeOK, InitLabels, Outcomes, Probes, EchoInv, EchoOrder
<1>2. Inv /\ [MpsseNext]_mpsseVars => Inv'
  <2> SUFFICES ASSUME Inv, [MpsseNext]_mpsseVars PROVE Inv'
    OBVIOUS
  <2>1. CASE InitStep
    <3>1. MpsseInv' /\ EchoInv'
      BY <2>1, InitStepType, EchoStep
    <3>2. outcome' = "Ok" => pc' = "done"
      BY <2>1 DEF InitStep, Reset, Configure, SyncWrite, SyncMatch, SyncOther, SyncEmpty,
                  SyncError, SyncMissed, PurgeBytes, PurgeEmpty, PurgeError, PurgeDone, Clock,
                  CountEmpty, CountRead, Abort, Enter, Purging
    <3> QED
      BY <3>1, <3>2
  <2>2. CASE UNCHANGED mpsseVars
    BY <2>2 DEF mpsseVars, control, MpsseInv, MpsseTypeOK, EchoInv, EchoOrder, NoneIs, OnlyLastIs
  <2>3. CASE Noise
    <3>1. MpsseInv'
      BY <2>3, NoiseType
    <3> QED
      BY <2>3, <3>1 DEF Noise, control, TrustedChip, BeforeMpsse, EchoInv, EchoOrder
  <2> QED
    BY <2>1, <2>2, <2>3 DEF MpsseNext
<1>3. Inv => EchoOrder /\ SyncedMeansEmpty
  BY DEF EchoInv, SyncedMeansEmpty
<1> QED
  BY <1>1, <1>2, <1>3, PTL DEF MpsseSpec

----------------------------------------------------------------------------
(* The bound on the work of `initialize`. *)

Units == (InitRetries - attempt) * 14 + LoopsLeft

(* A smaller number of loops makes for DrainLimit transfers less at least. *)
LEMMA Multiples ==
    ASSUME NEW d \in Nat \ {0}, NEW m \in Nat, NEW n \in Nat, m < n
    PROVE  m * d \in Nat /\ n * d \in Nat /\ m * d + d <= n * d
<1>1. n - m \in Nat /\ n - m >= 1 /\ n = m + (n - m)
  OBVIOUS
<1>2. \A a \in Nat, b \in Nat : (a + b) * d = a * d + b * d /\ a * d \in Nat /\ b * d \in Nat
  OBVIOUS
<1>3. \A a \in Nat : a >= 1 => a * d >= d
  OBVIOUS
<1> QED
  BY <1>1, <1>2, <1>3

(* An attempt has at most 13 loops ahead, and none only at its end. *)
LEMMA LoopsRange ==
    /\ MpsseInv => LoopsLeft \in 0 .. 13 /\ (LoopsLeft = 0 <=> pc = "done")
    /\ MpsseInv' => LoopsLeft' \in 0 .. 13 /\ (LoopsLeft' = 0 <=> pc' = "done")
<1>1. MpsseInv => LoopsLeft \in 0 .. 13 /\ (LoopsLeft = 0 <=> pc = "done")
  BY DEF MpsseInv, MpsseTypeOK, InitLabels, LoopsLeft, Probes
<1>2. MpsseInv' => LoopsLeft' \in 0 .. 13 /\ (LoopsLeft' = 0 <=> pc' = "done")
  BY DEF MpsseInv, MpsseTypeOK, InitLabels, LoopsLeft, Probes
<1> QED
  BY <1>1, <1>2

(* The loops still ahead, all attempts included, are a natural number. *)
LEMMA UnitsType ==
    /\ MpsseInv => Units \in Nat /\ InitRetries - attempt \in Nat
    /\ MpsseInv' => Units' \in Nat /\ InitRetries - attempt' \in Nat
<1>1. MpsseInv => Units \in Nat /\ InitRetries - attempt \in Nat
  BY LoopsRange, PolicyAssumption DEF Units, MpsseInv, MpsseTypeOK
<1>2. ASSUME MpsseInv'
      PROVE  Units' \in Nat /\ InitRetries - attempt' \in Nat
  <2>1. attempt' \in 1 .. InitRetries
    BY <1>2 DEF MpsseInv, MpsseTypeOK
  <2>2. LoopsLeft' \in Nat
    BY <1>2, LoopsRange
  <2>3. \A a \in 1 .. InitRetries : InitRetries - a \in Nat
    BY PolicyAssumption
  <2>4. InitRetries - attempt' \in Nat
    BY <2>1, <2>3
  <2> QED
    BY <2>2, <2>4 DEF Units
<1> QED
  BY <1>1, <1>2

(* Leaving a loop for a later one, or for a later attempt. *)
LEMMA UnitsFall ==
    ASSUME MpsseInv, MpsseInv', Units' < Units, reads' = 0
    PROVE  WorkLeft' < WorkLeft /\ WorkLeft' >= 0
<1>1. Units \in Nat /\ Units' \in Nat
  BY UnitsType
<1>2. /\ Units' * DrainLimit \in Nat /\ Units * DrainLimit \in Nat
      /\ Units' * DrainLimit + DrainLimit <= Units * DrainLimit
  BY <1>1, Multiples, PolicyAssumption
<1>3. WorkLeft = Units * DrainLimit - reads /\ WorkLeft' = Units' * DrainLimit - reads'
  BY DEF WorkLeft, Units
<1>4. reads \in 0 .. DrainLimit - 1
  BY DEF MpsseInv, MpsseTypeOK
<1>5. \A u, v \in Nat, r, d \in Nat :
         u + d <= v /\ r < d => u < v - r /\ v - r \in Int
  OBVIOUS
<1>6. WorkLeft' = Units' * DrainLimit
  BY <1>2, <1>3
<1> QED
  BY <1>2, <1>3, <1>4, <1>5, <1>6, PolicyAssumption

(* Going on within a loop. *)
LEMMA CountWork ==
    ASSUME MpsseInv, pc # "done", reads + 1 < DrainLimit, reads' = reads + 1,
           UNCHANGED <<pc, attempt, pair, probe>>
    PROVE  WorkLeft' < WorkLeft /\ WorkLeft' >= 0
<1>0. LoopsLeft \in 1 .. 13 /\ LoopsLeft' = LoopsLeft
  BY LoopsRange DEF LoopsLeft
<1>1. Units \in Nat /\ Units >= 1 /\ Units' = Units
  BY <1>0, UnitsType DEF Units
<1>2. Units * DrainLimit \in Nat /\ Units * DrainLimit >= DrainLimit
  BY <1>1, Multiples, PolicyAssumption
<1>3. WorkLeft = Units * DrainLimit - reads /\ WorkLeft' = Units' * DrainLimit - reads'
  BY DEF WorkLeft, Units
<1>4. reads \in 0 .. DrainLimit - 1
  BY DEF MpsseInv, MpsseTypeOK
<1> QED
  BY <1>1, <1>2, <1>3, <1>4, PolicyAssumption

(* A failed attempt brings the end nearer. *)
LEMMA AbortWork ==
    ASSUME MpsseInv, MpsseInv', pc # "done", NEW e, Abort(e)
    PROVE  WorkLeft' < WorkLeft /\ WorkLeft' >= 0
<1>1. LoopsLeft \in 1 .. 13
  BY LoopsRange
<1>2. reads' = 0
  BY DEF Abort, Enter
<1>3. CASE pc' = "done" /\ attempt' = attempt
  <2>1. LoopsLeft' = 0
    BY <1>3 DEF LoopsLeft
  <2> QED
    BY <1>1, <1>2, <1>3, <2>1, UnitsFall, PolicyAssumption DEF Units, MpsseInv, MpsseTypeOK
<1>4. CASE pc' = "reset" /\ attempt' = attempt + 1
  <2>1. LoopsLeft' = 13
    BY <1>4 DEF LoopsLeft
  <2> QED
    BY <1>1, <1>2, <1>4, <2>1, UnitsFall, PolicyAssumption DEF Units, MpsseInv, MpsseTypeOK
<1> QED
  BY <1>3, <1>4 DEF Abort, Enter

(* Entering a later loop of the same attempt. *)
LEMMA EnterWork ==
    ASSUME MpsseInv, MpsseInv', reads' = 0, attempt' = attempt, LoopsLeft' < LoopsLeft
    PROVE  WorkLeft' < WorkLeft /\ WorkLeft' >= 0
<1>1. Units' < Units
  BY LoopsRange, UnitsType DEF Units
<1> QED
  BY <1>1, UnitsFall

(* So does a missed echo. *)
LEMMA SyncMissedWork ==
    ASSUME MpsseInv, MpsseInv', pc = "sync", SyncMissed
    PROVE  WorkLeft' < WorkLeft /\ WorkLeft' >= 0
<1>1. CASE Abort("ProtocolViolation")
  BY <1>1, AbortWork
<1>2. CASE pair = 1 /\ Enter("probe") /\ pair' = 2 /\ probe' = "AA" /\ UNCHANGED attempt
  <2>1. LoopsLeft' < LoopsLeft
    BY <1>2 DEF LoopsLeft, Enter, MpsseInv, MpsseTypeOK, Probes
  <2> QED
    BY <1>2, <2>1, EnterWork DEF Enter
<1> QED
  BY <1>1, <1>2 DEF SyncMissed

(* So does every step of `initialize`. *)
LEMMA WorkStep ==
    ASSUME MpsseInv, InitStep
    PROVE  WorkLeft' < WorkLeft /\ WorkLeft' >= 0
<1> DEFINE Less == WorkLeft' < WorkLeft /\ WorkLeft' >= 0
<1>0. MpsseInv'
  BY InitStepType
<1> SUFFICES Less
  OBVIOUS
<1> HIDE DEF Less
<1>a. ASSUME NEW e, Abort(e), pc # "done"
      PROVE  Less
  BY <1>0, <1>a, AbortWork DEF Less
<1>b. ASSUME NEW label, Enter(label), UNCHANGED attempt, LoopsLeft' < LoopsLeft
      PROVE  Less
  BY <1>0, <1>b, EnterWork DEF Enter, Less
<1>c. ASSUME pc # "done", reads + 1 < DrainLimit, reads' = reads + 1,
             UNCHANGED <<pc, attempt, pair, probe>>
      PROVE  Less
  BY <1>c, CountWork DEF Less
<1>d. ASSUME pc = "sync", SyncMissed
      PROVE  Less
  BY <1>0, <1>d, SyncMissedWork DEF Less
<1>1. CASE Reset
  <2>1. ASSUME Enter("purge1")
        PROVE  LoopsLeft' < LoopsLeft
    BY <1>1, <2>1 DEF Reset, Enter, LoopsLeft
  <2> QED
    BY <1>1, <1>a, <1>b, <2>1 DEF Reset
<1>2. CASE Configure
  <2>1. ASSUME Enter("probe"), pair' = 1, probe' = "AA"
        PROVE  LoopsLeft' < LoopsLeft
    BY <1>2, <2>1 DEF Configure, Enter, LoopsLeft
  <2> QED
    BY <1>2, <1>a, <1>b, <2>1 DEF Configure
<1>3. CASE SyncWrite
  <2>1. ASSUME Enter("sync"), UNCHANGED <<pair, probe>>
        PROVE  LoopsLeft' < LoopsLeft
    BY <1>3, <2>1 DEF SyncWrite, Enter, LoopsLeft
  <2> QED
    BY <1>3, <1>a, <1>b, <2>1 DEF SyncWrite
<1>4. ASSUME NEW k \in Transfers(ProbeBuffer), SyncMatch(k)
      PROVE  Less
  <2>1. LoopsLeft' < LoopsLeft
    BY <1>4 DEF SyncMatch, Enter, LoopsLeft
  <2> QED
    BY <1>4, <1>b, <2>1 DEF SyncMatch
<1>5. ASSUME NEW k \in Transfers(ProbeBuffer), SyncOther(k)
      PROVE  Less
  BY <1>5, <1>c, <1>d DEF SyncOther, CountRead
<1>6. CASE SyncEmpty
  BY <1>6, <1>c, <1>d DEF SyncEmpty, CountEmpty, CountRead
<1>7. ASSUME NEW e \in UsbFaults, SyncError(e) \/ PurgeError(e)
      PROVE  Less
  BY <1>7, <1>a DEF SyncError, PurgeError, Purging
<1>8. ASSUME NEW k \in Transfers(PurgeBuffer), PurgeBytes(k)
      PROVE  Less
  BY <1>8, <1>a, <1>c DEF PurgeBytes, CountRead, Purging
<1>9. CASE PurgeEmpty
  <2>1. ASSUME PurgeDone
        PROVE  Less
    <3>1. LoopsLeft' < LoopsLeft
      BY <2>1 DEF PurgeDone, Enter, LoopsLeft
    <3> QED
      BY <1>b, <2>1, <3>1 DEF PurgeDone
  <2> QED
    BY <1>9, <1>a, <1>c, <2>1 DEF PurgeEmpty, CountEmpty, CountRead, Purging
<1>10. CASE Clock
  <2>1. ASSUME Enter("purge2")
        PROVE  LoopsLeft' < LoopsLeft
    BY <1>10, <2>1 DEF Clock, Enter, LoopsLeft
  <2> QED
    BY <1>10, <1>a, <1>b, <2>1 DEF Clock
<1> QED
  BY <1>1, <1>2, <1>3, <1>4, <1>5, <1>6, <1>7, <1>8, <1>9, <1>10 DEF InitStep

(* `initialize` is bounded whatever the chip does: each of its transfers      *)
(* uses up one of the finitely many WorkLeft counts, for any retry limits.   *)
THEOREM InitIsBounded == MpsseSpec => InitBounded
<1>1. MpsseSpec => []MpsseInv
  BY InitTypeCorrectStrong
<1>2. MpsseInv /\ [MpsseNext]_mpsseVars =>
         [InitStep => WorkLeft' < WorkLeft /\ WorkLeft' >= 0]_mpsseVars
  BY WorkStep
<1> QED
  BY <1>1, <1>2, PTL DEF MpsseSpec, InitBounded

----------------------------------------------------------------------------
(* A chip that answers in full and in time *)

(* Products grow with their factors. *)
LEMMA FactorsGrow ==
    ASSUME NEW a \in Int, NEW b \in Int, NEW c \in Nat, a <= b
    PROVE  a * c <= b * c
OBVIOUS

(* A buffer of a packet or more holds at least two bytes of payload.         *)
LEMMA PayloadType ==
    ASSUME NEW buffer \in Nat, buffer >= MaxPacket
    PROVE  /\ Payload(buffer) \in Nat /\ Payload(buffer) >= 2
           /\ \E p \in Nat : Payload(buffer) = p * (MaxPacket - 2)
<1> DEFINE p == buffer \div MaxPacket
<1>1. MaxPacket \in Nat \ {0} /\ MaxPacket >= 4 /\ MaxPacket - 2 \in Nat
  BY PolicyAssumption
<1>2. p \in Nat /\ buffer % MaxPacket \in 0 .. MaxPacket - 1
      /\ buffer = MaxPacket * p + (buffer % MaxPacket)
  BY <1>1
<1> HIDE DEF p
<1>3. p # 0
  <2> SUFFICES ASSUME p = 0 PROVE FALSE
    OBVIOUS
  <2>1. MaxPacket * p = 0
    BY <1>1
  <2> QED
    BY <1>1, <1>2, <2>1
<1>4. 1 * (MaxPacket - 2) <= p * (MaxPacket - 2)
  BY <1>1, <1>2, <1>3, FactorsGrow
<1>5. Payload(buffer) = p * (MaxPacket - 2) /\ p * (MaxPacket - 2) \in Nat
  BY <1>1, <1>2 DEF Payload, p
<1> QED
  BY <1>1, <1>2, <1>4, <1>5

(* What a purge can take before its row of empty reads.                     *)
Backlog == (DrainLimit - ReadRetries) * Payload(PurgeBuffer)

(* What a prompt chip's user may count on, with the limits of policy.rs: the *)
(* reads a purge has beside its row of empty ones, 54 of 8192 bytes, are    *)
(* enough for what the chip may have to say.                                *)
PromptChip ==
    Prompt /\ UsbFaults = {} /\ NoisyAt = {} /\ ReadRetries < DrainLimit /\ MaxPipe <= Backlog

LEMMA BacklogType ==
    ASSUME PromptChip
    PROVE  /\ Backlog \in Nat /\ Backlog >= 2
           /\ DrainLimit - ReadRetries \in Nat \ {0} /\ ReadRetries \in Nat \ {0}
           /\ Payload(PurgeBuffer) \in Nat \ {0}
<1>1. Payload(PurgeBuffer) \in Nat /\ Payload(PurgeBuffer) >= 2
  BY PayloadType, PolicyAssumption
<1>2. DrainLimit - ReadRetries \in Nat \ {0} /\ ReadRetries \in Nat \ {0}
  BY PolicyAssumption DEF PromptChip
<1> DEFINE spare == DrainLimit - ReadRetries
           room == Payload(PurgeBuffer)
<1>3. spare \in Nat \ {0} /\ room \in Nat /\ room >= 2
  BY <1>1, <1>2
<1> HIDE DEF spare, room
<1>4. 1 * room <= spare * room
  BY <1>3, FactorsGrow
<1>5. spare * room \in Nat /\ spare * room >= 2
  BY <1>3, <1>4
<1> QED
  BY <1>1, <1>2, <1>5 DEF Backlog, spare, room

(* The first purge takes all there is, with reads to spare for its row of   *)
(* empty ones, and from then on the chip has just the answer of the probe   *)
(* that is waited for.                                                      *)
PromptInv ==
    /\ attempt = 1 /\ pair = 1 /\ outcome \in {"none", "Ok"}
    /\ pc = "reset" => Len(pipe) <= Backlog
    /\ pc = "purge1" /\ pipe # <<>> => Len(pipe) + reads * Payload(PurgeBuffer) <= Backlog
    /\ pc \in Purging /\ pipe = <<>> => reads <= DrainLimit - ReadRetries + streak
    /\ pc \in {"configure", "probe", "clock", "purge2", "done"} => pipe = <<>>
    /\ pc = "sync" => pipe = <<"FA", probe>>
    /\ pc = "done" => outcome = "Ok"

(* A prompt chip delivers all it has when the buffer holds it, and otherwise *)
(* fills the buffer.                                                        *)
LEMMA PromptTransfer ==
    ASSUME Prompt, pipe \in Seq(Items), NEW buffer, NEW k \in Transfers(buffer)
    PROVE  /\ k = Len(pipe) \/ k = Payload(buffer)
           /\ Len(Undelivered(k)) = Len(pipe) - k
           /\ k = Len(pipe) => Delivered(k) = pipe /\ Undelivered(k) = <<>>
<1>1. k \in 1 .. Len(pipe) /\ Len(pipe) \in Nat /\ (k = Len(pipe) \/ k = Payload(buffer))
  BY DEF Transfers
<1>2. Len(Undelivered(k)) = Len(pipe) - k
  BY <1>1 DEF Undelivered
<1>3. k = Len(pipe) => Delivered(k) = pipe /\ Undelivered(k) = <<>>
  BY <1>1 DEF Delivered, Undelivered
<1> QED
  BY <1>1, <1>2, <1>3

(* No read of a purge is one too many: while it finds something one of those *)
(* beside the row of empty reads is left.                                   *)
LEMMA PromptPurge ==
    ASSUME PromptChip, MpsseTypeOK, PromptInv, pc \in Purging
    PROVE  /\ pipe # <<>> => reads + 1 <= DrainLimit - ReadRetries /\ reads + 1 # DrainLimit
           /\ pipe = <<>> /\ streak + 1 < ReadRetries =>
                 /\ reads + 1 # DrainLimit
                 /\ reads + 1 <= DrainLimit - ReadRetries + (streak + 1)
<1>1. /\ reads \in Nat /\ streak \in Nat /\ DrainLimit \in Nat /\ ReadRetries \in Nat \ {0}
      /\ DrainLimit - ReadRetries \in Nat /\ Len(pipe) \in Nat
  BY PolicyAssumption, BacklogType DEF MpsseTypeOK
<1>2. ASSUME pipe # <<>>
      PROVE  reads + 1 <= DrainLimit - ReadRetries
  <2> DEFINE room == Payload(PurgeBuffer)
             spare == DrainLimit - ReadRetries
  <2>1. Len(pipe) + reads * room <= spare * room /\ Len(pipe) >= 1
    BY <1>1, <1>2 DEF PromptInv, Purging, Backlog, MpsseTypeOK
  <2>2. room \in Nat \ {0} /\ spare \in Nat
    BY BacklogType
  <2> HIDE DEF room, spare
  <2>3. ~ (spare <= reads)
    <3> SUFFICES ASSUME spare <= reads PROVE FALSE
      OBVIOUS
    <3>1. spare * room <= reads * room
      BY <1>1, <2>2, FactorsGrow
    <3>2. spare * room \in Nat /\ reads * room \in Nat
      BY <1>1, <2>2
    <3> QED
      BY <1>1, <2>1, <3>1, <3>2
  <2> QED
    BY <1>1, <2>2, <2>3 DEF spare
<1>3. ASSUME pipe = <<>>, streak + 1 < ReadRetries
      PROVE  reads + 1 # DrainLimit /\ reads + 1 <= DrainLimit - ReadRetries + (streak + 1)
  <2>1. reads <= DrainLimit - ReadRetries + streak
    BY <1>3 DEF PromptInv
  <2> QED
    BY <1>1, <1>3, <2>1
<1> QED
  BY <1>1, <1>2, <1>3

(* A read of a purge takes a bufferful or all there is.                     *)
LEMMA PromptPurgeStep ==
    ASSUME PromptChip, MpsseInv, PromptInv, NEW k \in Transfers(PurgeBuffer), PurgeBytes(k)
    PROVE  PromptInv'
<1>1. /\ pc \in Purging /\ pipe' = Undelivered(k) /\ pipe # <<>> /\ pipe \in Seq(Items)
      /\ Len(pipe) \in Nat /\ Prompt
  BY TransfersType DEF PurgeBytes, MpsseInv, MpsseTypeOK, PromptChip, Transfers
<1>2. pc = "purge1" /\ Len(pipe) + reads * Payload(PurgeBuffer) <= Backlog
  BY <1>1 DEF PromptInv, Purging
<1>3. CountRead(0, Abort("ProtocolViolation")) /\ reads \in Nat
  BY DEF PurgeBytes, MpsseInv, MpsseTypeOK
<1>4. reads + 1 <= DrainLimit - ReadRetries /\ reads + 1 # DrainLimit
  BY <1>1, PromptPurge DEF MpsseInv
<1>5. streak' = 0 /\ reads' = reads + 1 /\ UNCHANGED <<chunk, pc, attempt, pair, probe, outcome>>
  BY <1>3, <1>4 DEF CountRead
<1>6. ASSUME pipe' # <<>>
      PROVE  Len(pipe') + reads' * Payload(PurgeBuffer) <= Backlog
  <2> DEFINE room == Payload(PurgeBuffer)
  <2>1. room \in Nat /\ Backlog \in Nat
    BY BacklogType
  <2>2. k = room /\ Len(pipe') = Len(pipe) - k
    BY <1>1, <1>6, PromptTransfer
  <2>3. Len(pipe) + reads * room <= Backlog /\ reads' = reads + 1
    BY <1>2, <1>5
  <2> HIDE DEF room
  <2>4. (reads + 1) * room = reads * room + room /\ reads * room \in Nat
    BY <1>3, <2>1
  <2> QED
    BY <1>1, <2>1, <2>2, <2>3, <2>4 DEF room
<1>7. 0 \in Nat /\ reads' <= DrainLimit - ReadRetries + streak'
  BY <1>3, <1>4, <1>5, PolicyAssumption
<1> QED
  BY <1>2, <1>5, <1>6, <1>7 DEF PromptInv, Purging

(* A step of `initialize` with a prompt chip. *)
LEMMA PromptStep ==
    ASSUME PromptChip, MpsseInv, PromptInv, InitStep
    PROVE  PromptInv'
<1>0. /\ Prompt /\ UsbFaults = {} /\ pipe \in Seq(Items) /\ Len(<<>>) = 0
      /\ attempt = 1 /\ pair = 1 /\ outcome \in {"none", "Ok"}
  BY DEF PromptChip, MpsseInv, MpsseTypeOK, PromptInv
<1>a. /\ DrainLimit - ReadRetries \in Nat /\ Payload(PurgeBuffer) \in Nat
      /\ 0 * Payload(PurgeBuffer) = 0 /\ Len(pipe) \in Nat
  BY <1>0, BacklogType
<1>1. CASE Reset
  <2>1. /\ Enter("purge1") /\ UNCHANGED <<pipe, attempt, pair, probe, outcome>>
        /\ Len(pipe) <= Backlog
    BY <1>0, <1>1 DEF Reset, PromptInv
  <2> QED
    BY <1>0, <1>a, <2>1 DEF Enter, PromptInv, Purging
<1>2. CASE Configure
  BY <1>0, <1>2 DEF Configure, Enter, PromptInv, Purging
<1>3. CASE SyncWrite
  <2>1. pipe = <<>> /\ Answers(<<"FA", probe>>) /\ Enter("sync") /\ UNCHANGED <<chunk, attempt, pair, probe, outcome>>
    BY <1>0, <1>3 DEF SyncWrite, PromptInv
  <2>2. pipe' = <<"FA", probe>>
    BY <1>0, <2>1 DEF Answers
  <2> QED
    BY <1>0, <2>1, <2>2 DEF Enter, PromptInv, Purging
<1>4. CASE SyncEmpty
  <2>1. pipe = <<>> /\ pipe = <<"FA", probe>>
    BY <1>0, <1>4 DEF SyncEmpty, Silent, PromptInv
  <2> QED
    BY <2>1
<1>5. ASSUME NEW k \in Transfers(ProbeBuffer), SyncMatch(k) \/ SyncOther(k)
      PROVE  PromptInv'
  <2>1. pc = "sync" /\ pipe = <<"FA", probe>> /\ Len(pipe) = 2
    BY <1>5 DEF SyncMatch, SyncOther, PromptInv
  <2>2. k = Len(pipe)
    <3>1. Payload(ProbeBuffer) \in Nat /\ Payload(ProbeBuffer) >= 2
      BY PayloadType, PolicyAssumption
    <3>2. k \in 1 .. 2 /\ (k = Len(pipe) \/ k = Payload(ProbeBuffer))
      BY <1>0, <2>1, PromptTransfer, TransfersType
    <3> QED
      BY <2>1, <3>1, <3>2
  <2>3. IsEcho(Delivered(k)) /\ Undelivered(k) = <<>>
    BY <1>0, <2>1, <2>2, PromptTransfer DEF IsEcho
  <2>4. SyncMatch(k)
    BY <1>5, <2>3 DEF SyncOther
  <2> QED
    BY <1>0, <2>3, <2>4 DEF SyncMatch, Enter, PromptInv, Purging
<1>6. ASSUME NEW k \in Transfers(PurgeBuffer), PurgeBytes(k)
      PROVE  PromptInv'
  BY <1>6, PromptPurgeStep
<1>7. CASE PurgeEmpty
  <2>1. pc \in Purging /\ pipe = <<>> /\ pipe' = <<>>
    BY <1>0, <1>7 DEF PurgeEmpty, Silent
  <2>2. CASE PurgeDone
    BY <1>0, <2>1, <2>2 DEF PurgeDone, Enter, PromptInv, Purging
  <2>3. CASE streak + 1 < ReadRetries /\ CountRead(streak + 1, Abort("ProtocolViolation"))
    <3>1. /\ streak' = streak + 1 /\ reads' = reads + 1
          /\ UNCHANGED <<chunk, pc, attempt, pair, probe, outcome>>
      BY <2>1, <2>3, PromptPurge DEF CountRead, MpsseInv
    <3>2. reads' <= DrainLimit - ReadRetries + streak'
      BY <2>1, <2>3, <3>1, PromptPurge DEF MpsseInv
    <3> QED
      BY <1>0, <2>1, <3>1, <3>2 DEF PromptInv, Purging
  <2> QED
    BY <1>7, <2>2, <2>3 DEF PurgeEmpty, CountEmpty
<1>8. CASE Clock
  BY <1>0, <1>a, <1>8 DEF Clock, Enter, PromptInv, Purging
<1> QED
  BY <1>0, <1>1, <1>2, <1>3, <1>4, <1>5, <1>6, <1>7, <1>8 DEF InitStep

(* A chip that answers in full and in time is synchronised by the first pair *)
(* of the first attempt whatever an earlier client left in it and whether   *)
(* or not a mode switch drops that, for any retry limits that leave a purge  *)
(* enough reads for it (`initialize`, policy.rs).                           *)
THEOREM PromptFirstAttempt ==
    ASSUME PromptChip
    PROVE  MpsseSpec => []PromptSucceeds
<1>1. MpsseInit => PromptInv
  <2> SUFFICES ASSUME MpsseInit PROVE PromptInv
    OBVIOUS
  <2>1. Len(pipe) <= MaxPipe /\ Len(pipe) \in Nat
    <3>1. PICK n \in 0 .. MaxPipe : pipe \in [1 .. n -> Items \ {"fresh"}]
      BY DEF MpsseInit, Residues
    <3>2. n \in Nat /\ MaxPipe \in Nat
      BY PolicyAssumption
    <3>3. Len(pipe) = n
      BY <3>1, <3>2
    <3> QED
      BY <3>1, <3>2, <3>3
  <2>2. Len(pipe) <= Backlog
    BY <2>1, BacklogType, PolicyAssumption DEF PromptChip
  <2> QED
    BY <2>2 DEF MpsseInit, PromptInv, Purging
<1>2. MpsseInv /\ PromptInv /\ [MpsseNext]_mpsseVars => PromptInv'
  <2> SUFFICES ASSUME MpsseInv, PromptInv, [MpsseNext]_mpsseVars PROVE PromptInv'
    OBVIOUS
  <2>1. CASE InitStep
    BY <2>1, PromptStep
  <2>2. CASE Noise
    BY <2>2 DEF Noise, PromptChip
  <2>3. CASE UNCHANGED mpsseVars
    BY <2>3 DEF mpsseVars, control, PromptInv
  <2> QED
    BY <2>1, <2>2, <2>3 DEF MpsseNext
<1>3. PromptInv => PromptSucceeds
  BY DEF PromptInv, PromptSucceeds
<1> QED
  BY <1>1, <1>2, <1>3, InitTypeCorrectStrong, PTL DEF MpsseSpec
============================================================================

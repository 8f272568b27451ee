--------------------------- MODULE RangeSampling ---------------------------
(***************************************************************************)
(* `random_range` of src/src/device.rs: rejection sampling of raw words    *)
(* into a half-open range.  A word is one request of the device (module     *)
(* Acquisition), which returns any word or an error.                       *)
(***************************************************************************)
EXTENDS Integers, FiniteSets

CONSTANTS
    Size,        \* the number of words, 2^64 for u64
    MaxSamples,  \* MAX_RANGE_SAMPLES: words drawn before giving up
    Errors       \* the errors a request of a word may end with

Outcomes == {"none", "drawing", "Ok", "InvalidRange", "RangeSamplingExhausted"}

ASSUME SamplingAssumption ==
    /\ Size \in Nat \ {0}
    /\ MaxSamples \in Nat \ {0}
    /\ Errors \cap Outcomes = {}

VARIABLES
    start, end,  \* the bounds of the call
    draws,       \* the words drawn for it
    value,       \* what it returned
    outcome      \* how it stands or ended

vars == <<start, end, draws, value, outcome>>

Words == 0 .. Size - 1

TypeOK ==
    /\ start \in Words /\ end \in Words
    /\ draws \in 0 .. MaxSamples
    /\ value \in Words
    /\ outcome \in Outcomes \cup Errors

Span == end - start

(* u64::wrapping_neg *)
WrappingNeg(n) == (Size - n) % Size

(* Mutated: every word is accepted. *)
NoThreshold == 0

(* Words below it are rejected: those left over when the words are dealt out *)
(* evenly to the Span values.                                               *)
Threshold == WrappingNeg(Span) % Span

(* Mutated: the word is not reduced to the range. *)
ReturnedUnreduced(word) == start + word

Returned(word) == start + (word % Span)

----------------------------------------------------------------------------
Call(s, e) ==
    /\ outcome # "drawing"
    /\ start' = s
    /\ end' = e
    /\ draws' = 0
    /\ outcome' = IF s < e THEN "drawing" ELSE "InvalidRange"
    /\ UNCHANGED value

(* Mutated: after the last word allowed the call starts over. *)
DrawStartsOver(word) ==
    /\ outcome = "drawing"
    /\ draws' = (draws + 1) % MaxSamples
    /\ \/ word >= Threshold /\ value' = Returned(word) /\ outcome' = "Ok"
       \/ word < Threshold /\ UNCHANGED <<value, outcome>>
    /\ UNCHANGED <<start, end>>

(* One more word, accepted, rejected, or rejected as the last one allowed.  *)
Draw(word) ==
    /\ outcome = "drawing"
    /\ draws' = draws + 1
    /\ \/ word >= Threshold /\ value' = Returned(word) /\ outcome' = "Ok"
       \/ word < Threshold /\ draws + 1 < MaxSamples /\ UNCHANGED <<value, outcome>>
       \/ /\ word < Threshold /\ draws + 1 = MaxSamples
          /\ outcome' = "RangeSamplingExhausted"
          /\ UNCHANGED value
    /\ UNCHANGED <<start, end>>

(* No word comes: the device's error is the call's. *)
DrawFails(error) ==
    /\ outcome = "drawing"
    /\ outcome' = error
    /\ UNCHANGED <<start, end, draws, value>>

Init ==
    /\ start = 0
    /\ end = 0
    /\ draws = 0
    /\ value = 0
    /\ outcome = "none"

Drawing == (\E word \in Words : Draw(word)) \/ (\E error \in Errors : DrawFails(error))

Next == (\E s, e \in Words : Call(s, e)) \/ Drawing

Spec == Init /\ [][Next]_vars

(* Every request of a word returns (CallsReturn of Acquisition). *)
FairSpec == Spec /\ WF_vars(Drawing)

----------------------------------------------------------------------------
(* A value that is returned lies in the range asked for; computing it wraps *)
(* around nowhere, up to the end of the word range.                         *)
InRange == outcome = "Ok" => value \in start .. end - 1

(* The words that make a call return v. *)
WordsFor(v) == {word \in Words : word >= Threshold /\ Returned(word) = v}

(* No value of the range is likelier than another: the accepted words give   *)
(* each of them the same number of times.                                   *)
Unbiased ==
    outcome = "drawing" =>
        \A v \in start .. end - 1 : Cardinality(WordsFor(v)) * Span = Size - Threshold

(* The accepted words can be dealt out evenly, and are more than the rejected *)
(* ones, for any range: running out of draws means a broken source and never *)
(* an unlucky range.                                                        *)
EvenDeal ==
    outcome = "drawing" => (Size - Threshold) % Span = 0 /\ 2 * Threshold < Size

(* A call ends, by MaxSamples words at the latest, whatever words come.      *)
CallEnds == outcome = "drawing" ~> outcome # "drawing"
=============================================================================

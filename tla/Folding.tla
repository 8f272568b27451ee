------------------------------ MODULE Folding ------------------------------
(***************************************************************************)
(* The XOR of `get_bits_with_fold`: `read_folded_segments` of              *)
(* src/src/device.rs with `Fold` and `xor_into` of src/src/fold.rs.        *)
(*                                                                         *)
(* The bytes a call reads (module Acquisition's `out`) are numbered 1, 2,   *)
(* 3 ... and a byte in a buffer is the set of those whose XOR it is: all    *)
(* that can be said of it for every value the bytes may have.  Zero is {}   *)
(* and XOR is the symmetric difference, bit by bit the same thing.          *)
(***************************************************************************)
EXTENDS Integers, Sequences, FiniteSetsExt

CONSTANTS
    MaxBits,   \* bound on the bits of one request
    MaxFold,   \* the largest number given as a fold
    MaxRead,   \* MAX_MPSSE_READ_BYTES: bytes of one read command
    MaxUsize   \* usize::MAX

ASSUME FoldingAssumption ==
    /\ MaxBits \in Nat
    /\ MaxFold \in Nat
    /\ MaxRead \in Nat \ {0}
    /\ MaxUsize \in Nat

VARIABLES
    pc,       \* "idle" between calls, "reading" in one
    fold,     \* the fold of the call
    bytes,    \* n_bytes of the request
    seg,      \* the segment being read
    offset,   \* the bytes of it read so far
    count,    \* the bytes of all segments read so far
    first,    \* what read_raw_bytes has of the first segment
    out,      \* the buffer of the result
    result    \* what the latest call returned

vars == <<pc, fold, bytes, seg, offset, count, first, out, result>>

(* Fold::segment_count, 1 << fold. *)
Folds == 0 .. 4
SegmentCount == [f \in Folds |-> <<1, 2, 4, 8, 16>>[f + 1]]

Errors == {"InvalidFold", "ZeroBitLength", "BitLengthNotByteAligned", "AllocationFailed", "ReadFailed"}

Sums == SUBSET (Nat \ {0})

TypeOK ==
    /\ pc \in {"idle", "reading"}
    /\ fold \in Folds
    /\ bytes \in 0 .. MaxBits
    /\ seg \in 1 .. SegmentCount[fold]
    /\ offset \in 0 .. bytes
    /\ count \in Nat
    /\ first \in Seq(Sums)
    /\ out \in Seq(Sums)
    /\ result \in {"none", "Ok"} \cup Errors

----------------------------------------------------------------------------
(* A call that fails hands out nothing. *)
Fails(e) ==
    /\ pc' = "idle"
    /\ result' = e
    /\ out' = <<>>
    /\ first' = <<>>
    /\ UNCHANGED <<fold, bytes, seg, offset, count>>

(* A number becomes a Fold, bits become bytes, and the buffer starts zeroed. *)
Starts(f, n) ==
    /\ pc' = "reading"
    /\ fold' = f
    /\ bytes' = n
    /\ seg' = 1
    /\ offset' = 0
    /\ count' = 0
    /\ first' = <<>>
    /\ out' = [i \in 1 .. n |-> {}]
    /\ result' = "none"

GetBitsWithFold(bits, f) ==
    LET n == bits \div 8 IN
    /\ pc = "idle"
    /\ \/ f \notin Folds /\ Fails("InvalidFold")
       \/ /\ f \in Folds
          /\ \/ bits = 0 /\ Fails("ZeroBitLength")
             \/ bits % 8 # 0 /\ Fails("BitLengthNotByteAligned")
             \/ /\ bits # 0 /\ bits % 8 = 0
                /\ \/ n * SegmentCount[f] > MaxUsize /\ Fails("AllocationFailed")
                   \/ n * SegmentCount[f] <= MaxUsize /\ Starts(f, n)

(* The result, the first segment and the pieces of all later ones have a     *)
(* buffer each, taken before anything is read into it.                      *)
OutOfMemory == pc = "reading" /\ seg \in {1, 2} /\ offset = 0 /\ Fails("AllocationFailed")

ReadFails == pc = "reading" /\ Fails("ReadFailed")

(* The bytes of the next read command. *)
Piece == IF bytes - offset < MaxRead THEN bytes - offset ELSE MaxRead
Fresh == [i \in 1 .. Piece |-> {count + i}]

(* Mutated: one segment more than the fold has. *)
ProceedsPastLast ==
    /\ count' = count + Piece
    /\ \/ /\ offset + Piece < bytes
          /\ offset' = offset + Piece
          /\ UNCHANGED <<pc, seg, result>>
       \/ /\ offset + Piece = bytes
          /\ seg <= SegmentCount[fold]
          /\ offset' = 0
          /\ seg' = seg + 1
          /\ UNCHANGED <<pc, result>>
       \/ /\ offset + Piece = bytes
          /\ seg > SegmentCount[fold]
          /\ pc' = "idle"
          /\ result' = "Ok"
          /\ UNCHANGED <<offset, seg>>
    /\ UNCHANGED <<fold, bytes>>

(* Where the call goes after a piece. *)
Proceeds ==
    /\ count' = count + Piece
    /\ \/ /\ offset + Piece < bytes
          /\ offset' = offset + Piece
          /\ UNCHANGED <<pc, seg, result>>
       \/ /\ offset + Piece = bytes
          /\ seg < SegmentCount[fold]
          /\ offset' = 0
          /\ seg' = seg + 1
          /\ UNCHANGED <<pc, result>>
       \/ /\ offset + Piece = bytes
          /\ seg = SegmentCount[fold]
          /\ pc' = "idle"
          /\ result' = "Ok"
          /\ UNCHANGED <<offset, seg>>
    /\ UNCHANGED <<fold, bytes>>

(* read_raw_bytes collects the first segment, which is copied when complete. *)
ReadFirst ==
    /\ pc = "reading"
    /\ seg = 1
    /\ first' = first \o Fresh
    /\ out' = IF offset + Piece = bytes THEN first' ELSE out
    /\ Proceeds

(* Mutated: each piece goes to the front of the buffer. *)
XorAtFront ==
    /\ pc = "reading"
    /\ seg > 1
    /\ out' = [i \in 1 .. bytes |-> IF i <= Piece THEN SymDiff(out[i], Fresh[i]) ELSE out[i]]
    /\ UNCHANGED first
    /\ Proceeds

(* Every later segment is XORed in piece by piece (xor_into). *)
XorPiece ==
    /\ pc = "reading"
    /\ seg > 1
    /\ out' = [i \in 1 .. bytes |->
                  IF i \in offset + 1 .. offset + Piece
                     THEN SymDiff(out[i], Fresh[i - offset])
                     ELSE out[i]]
    /\ UNCHANGED first
    /\ Proceeds

Init ==
    /\ pc = "idle"
    /\ fold = 0
    /\ bytes = 0
    /\ seg = 1
    /\ offset = 0
    /\ count = 0
    /\ first = <<>>
    /\ out = <<>>
    /\ result = "none"

Next ==
    \/ \E bits \in 0 .. MaxBits, f \in 0 .. MaxFold : GetBitsWithFold(bits, f)
    \/ OutOfMemory
    \/ ReadFails
    \/ ReadFirst
    \/ XorPiece

Spec == Init /\ [][Next]_vars

----------------------------------------------------------------------------
(* Correctness. *)

(* The bytes at the same place in the first k segments. *)
Column(i, k) == {s * bytes + i : s \in 0 .. k - 1}

(* While segments are XORed in, in pieces that end where they may, a byte of  *)
(* the buffer is the XOR of those at its place in the segments read, one    *)
(* more of them before the offset than after it: no byte read is lost, used *)
(* twice or put elsewhere.                                                  *)
FoldedSoFar ==
    pc = "reading" /\ seg > 1 =>
        /\ count = (seg - 1) * bytes + offset
        /\ Len(out) = bytes
        /\ \A i \in 1 .. bytes : out[i] = Column(i, IF i <= offset THEN seg ELSE seg - 1)

(* A call that succeeds has read 2^fold segments and no more than a usize    *)
(* counts, and byte i of its result is the XOR of their bytes i.             *)
FoldedWhole ==
    result = "Ok" =>
        /\ count = SegmentCount[fold] * bytes
        /\ count <= MaxUsize
        /\ Len(out) = bytes
        /\ \A i \in 1 .. bytes : out[i] = Column(i, SegmentCount[fold])

(* One fold of a whole block: its halves XORed.  *)
Halved(block) ==
    LET half == Len(block) \div 2
    IN [i \in 1 .. half |-> SymDiff(block[i], block[half + i])]

(* The result is what folding the whole block fold times gives (the design's *)
(* 11.2: "equivalent to successive folding of the whole block").            *)
IsSuccessiveFold ==
    LET block == [i \in 1 .. count |-> {i}]
        folded[k \in Folds] == IF k = 0 THEN block ELSE Halved(folded[k - 1])
    IN result = "Ok" => out = folded[fold]
============================================================================

--------------------------- MODULE FoldingProofs ---------------------------
(* Proofs about the XOR of segments, for any length of a request, of a read  *)
(* command and of a usize, and any values of the bytes.                     *)
EXTENDS Folding, TLAPS

(* The call under way has something to read and counted all it has to. *)
Reading ==
    pc = "reading" =>
        /\ offset < bytes
        /\ bytes * SegmentCount[fold] <= MaxUsize
        /\ result = "none"

(* The first segment is collected in its order, and the result has its room. *)
FirstSoFar ==
    pc = "reading" /\ seg = 1 =>
        /\ count = offset
        /\ Len(first) = offset
        /\ \A i \in 1 .. offset : first[i] = {i}

FoldInv == TypeOK /\ Reading /\ FirstSoFar /\ FoldedSoFar /\ FoldedWhole

(* Folds are of whole segments. *)
LEMMA SegmentCounts ==
    /\ SegmentCount \in [Folds -> Nat \ {0}]
    /\ 0 \in Folds
BY DEF SegmentCount, Folds

(* The elements of two sequences joined. *)
LEMMA JoinedSequences ==
    ASSUME NEW S, NEW s \in Seq(S), NEW t \in Seq(S)
    PROVE  /\ s \o t \in Seq(S)
           /\ Len(s \o t) = Len(s) + Len(t)
           /\ \A i \in 1 .. Len(s) : (s \o t)[i] = s[i]
           /\ \A i \in Len(s) + 1 .. Len(s) + Len(t) : (s \o t)[i] = t[i - Len(s)]
OBVIOUS

(* Products of the same positive length keep the order of the segments. *)
LEMMA SegmentsApart ==
    ASSUME NEW s \in Nat, NEW k \in Nat, NEW n \in Nat, s < k, 0 < n
    PROVE  s * n < k * n
<1>1. PICK d \in Nat : k = s + 1 + d
  <2>1. k - s - 1 \in Nat /\ k = s + 1 + (k - s - 1)
    OBVIOUS
  <2> QED
    BY <2>1
<1>2. k * n = s * n + n + d * n
  BY <1>1
<1>3. d * n \in Nat /\ s * n \in Nat
  OBVIOUS
<1> QED
  BY <1>2, <1>3

(* XORing the byte of the next segment in makes the XOR of one segment more. *)
LEMMA ColumnGrows ==
    ASSUME bytes \in Nat \ {0}, NEW i \in 1 .. bytes, NEW k \in Nat
    PROVE  SymDiff(Column(i, k), {k * bytes + i}) = Column(i, k + 1)
<1>1. k * bytes + i \notin Column(i, k)
  <2> SUFFICES ASSUME NEW s \in 0 .. k - 1, s * bytes + i = k * bytes + i
               PROVE  FALSE
    BY DEF Column
  <2>1. s * bytes < k * bytes
    BY SegmentsApart
  <2>2. s * bytes \in Int /\ k * bytes \in Int
    OBVIOUS
  <2> QED
    BY <2>1, <2>2
<1>2. 0 .. (k + 1) - 1 = (0 .. k - 1) \cup {k}
  OBVIOUS
<1>3. Column(i, k + 1) = Column(i, k) \cup {k * bytes + i}
  BY <1>2 DEF Column
<1> QED
  BY <1>1, <1>3 DEF SymDiff

(* A place in the first segment alone. *)
LEMMA FirstColumn ==
    ASSUME bytes \in Nat, NEW i \in 1 .. bytes
    PROVE  Column(i, 1) = {i}
<1>1. 0 .. 1 - 1 = {0} /\ 0 * bytes + i = i
  OBVIOUS
<1> QED
  BY <1>1 DEF Column

(* A column is a set of bytes read. *)
LEMMA ColumnType ==
    ASSUME bytes \in Nat, NEW i \in 1 .. bytes, NEW k \in Nat
    PROVE  Column(i, k) \in Sums
<1> SUFFICES ASSUME NEW s \in 0 .. k - 1 PROVE s * bytes + i \in Nat \ {0}
  BY DEF Column, Sums
<1>1. s * bytes \in Nat
  OBVIOUS
<1> QED
  BY <1>1

(* A read command asks for something and for no more than is missing. *)
LEMMA PieceType ==
    ASSUME TypeOK, Reading, pc = "reading"
    PROVE  /\ Piece \in 1 .. MaxRead
           /\ offset + Piece \in 1 .. bytes
           /\ bytes \in Nat \ {0} /\ offset \in Nat /\ count \in Nat /\ seg \in Nat \ {0}
           /\ Fresh \in Seq(Sums) /\ Len(Fresh) = Piece
           /\ \A i \in 1 .. Piece : Fresh[i] = {count + i}
<1>1. bytes \in Nat \ {0} /\ offset \in Nat /\ count \in Nat /\ offset < bytes
      /\ SegmentCount[fold] \in Nat
  BY SegmentCounts, FoldingAssumption DEF TypeOK, Reading
<1>2. Piece \in 1 .. MaxRead /\ offset + Piece \in 1 .. bytes
  BY <1>1, FoldingAssumption DEF Piece
<1>3. \A i \in 1 .. Piece : {count + i} \in Sums
  BY <1>1, <1>2 DEF Sums
<1>4. Fresh \in [1 .. Piece -> Sums]
  BY <1>3 DEF Fresh
<1>5. Piece \in Nat
  BY <1>2, FoldingAssumption
<1>6. Fresh \in Seq(Sums) /\ Len(Fresh) = Piece
  BY <1>4, <1>5
<1>7. \A i \in 1 .. Piece : Fresh[i] = {count + i}
  BY DEF Fresh
<1>8. seg \in Nat \ {0}
  BY <1>1 DEF TypeOK
<1> QED
  BY <1>1, <1>2, <1>6, <1>7, <1>8

(* Going on keeps the counters in their ranges, and the next segment starts  *)
(* where this one ends.                                                     *)
LEMMA ProceedsType ==
    ASSUME TypeOK, Reading, pc = "reading", Proceeds, first' \in Seq(Sums), out' \in Seq(Sums),
           count = (seg - 1) * bytes + offset
    PROVE  /\ TypeOK' /\ Reading'
           /\ fold' = fold /\ bytes' = bytes
           /\ \/ /\ offset + Piece < bytes
                 /\ pc' = "reading" /\ seg' = seg /\ offset' = offset + Piece
                 /\ count' = (seg' - 1) * bytes + offset'
                 /\ result' = result
              \/ /\ offset + Piece = bytes
                 /\ pc' = "reading" /\ seg' = seg + 1 /\ offset' = 0
                 /\ count' = (seg' - 1) * bytes + offset'
                 /\ result' = result
              \/ /\ offset + Piece = bytes
                 /\ pc' = "idle" /\ seg = SegmentCount[fold] /\ result' = "Ok"
                 /\ count' = SegmentCount[fold] * bytes
<1>1. /\ Piece \in Nat \ {0} /\ offset + Piece \in 1 .. bytes
      /\ bytes \in Nat \ {0} /\ offset \in Nat /\ count \in Nat /\ seg \in Nat \ {0}
      /\ SegmentCount[fold] \in Nat \ {0}
  BY PieceType, SegmentCounts, FoldingAssumption DEF TypeOK
<1>a. (seg - 1) * bytes \in Int
  BY <1>1
<1>2. count' = (seg - 1) * bytes + (offset + Piece) /\ count' \in Nat
  BY <1>1, <1>a DEF Proceeds
<1>3. (seg - 1) * bytes + bytes = seg * bytes /\ (seg + 1) - 1 = seg /\ seg * bytes + 0 = seg * bytes
  BY <1>1
<1>4. TypeOK'
  BY <1>1, <1>2 DEF Proceeds, TypeOK
<1>5. Reading'
  BY <1>1 DEF Proceeds, Reading
<1>6. CASE offset + Piece < bytes
  BY <1>1, <1>2, <1>4, <1>5, <1>6 DEF Proceeds
<1>7. CASE offset + Piece = bytes /\ seg < SegmentCount[fold]
  <2>1. seg' = seg + 1 /\ offset' = 0 /\ pc' = "reading" /\ UNCHANGED <<fold, bytes, result>>
    BY <1>1, <1>7 DEF Proceeds
  <2>2. count' = seg * bytes
    BY <1>2, <1>3, <1>7
  <2>3. count' = (seg' - 1) * bytes + offset'
    BY <1>3, <2>1, <2>2
  <2> QED
    BY <1>4, <1>5, <1>7, <2>1, <2>3
<1>8. CASE offset + Piece = bytes /\ seg = SegmentCount[fold]
  <2>1. pc' = "idle" /\ result' = "Ok" /\ UNCHANGED <<fold, bytes>>
    <3>1. ~ (offset + Piece < bytes) /\ ~ (seg < SegmentCount[fold])
      BY <1>1, <1>8
    <3> QED
      BY <3>1, Zenon DEF Proceeds
  <2>2. count' = SegmentCount[fold] * bytes
    BY <1>2, <1>3, <1>8
  <2> QED
    BY <1>4, <1>5, <1>8, <2>1, <2>2
<1> QED
  BY <1>6, <1>7, <1>8 DEF Proceeds

(* The first segment: when it is complete, each byte is the one at its place. *)
LEMMA ReadFirstFolds ==
    ASSUME FoldInv, ReadFirst
    PROVE  FoldInv'
<1>1. /\ Piece \in Nat \ {0} /\ offset + Piece \in 1 .. bytes
      /\ bytes \in Nat \ {0} /\ offset \in Nat
      /\ Fresh \in Seq(Sums) /\ Len(Fresh) = Piece
      /\ \A i \in 1 .. Piece : Fresh[i] = {count + i}
  BY PieceType, FoldingAssumption DEF FoldInv, ReadFirst
<1>2. /\ first \in Seq(Sums) /\ Len(first) = offset /\ count = offset
      /\ \A i \in 1 .. offset : first[i] = {i}
      /\ seg = 1 /\ out \in Seq(Sums)
  BY DEF FoldInv, TypeOK, FirstSoFar, ReadFirst
<1>3. /\ first' \in Seq(Sums) /\ Len(first') = offset + Piece
      /\ \A i \in 1 .. offset : first'[i] = first[i]
      /\ \A i \in offset + 1 .. offset + Piece : first'[i] = Fresh[i - offset]
  <2> DEFINE joined == first \o Fresh
  <2>1. /\ joined \in Seq(Sums)
        /\ Len(joined) = Len(first) + Len(Fresh)
        /\ \A i \in 1 .. Len(first) : joined[i] = first[i]
        /\ \A i \in Len(first) + 1 .. Len(first) + Len(Fresh) : joined[i] = Fresh[i - Len(first)]
    <3>1. first \in Seq(Sums) /\ Fresh \in Seq(Sums)
      BY <1>1, <1>2
    <3> HIDE DEF joined
    <3>2. joined = first \o Fresh
      BY DEF joined
    <3> QED
      BY <3>1, <3>2, JoinedSequences
  <2>2. first' = joined
    BY DEF ReadFirst
  <2> HIDE DEF joined
  <2> QED
    BY <1>1, <1>2, <2>1, <2>2
<1>4. \A i \in 1 .. offset + Piece : first'[i] = {i}
  <2> SUFFICES ASSUME NEW i \in 1 .. offset + Piece PROVE first'[i] = {i}
    OBVIOUS
  <2>1. CASE i <= offset
    BY <1>1, <1>2, <1>3, <2>1
  <2>2. CASE i > offset
    <3>1. first'[i] = Fresh[i - offset] /\ i - offset \in 1 .. Piece
      BY <1>1, <1>3, <2>2
    <3> QED
      BY <1>1, <1>2, <3>1
  <2> QED
    BY <1>1, <2>1, <2>2
<1>5. out' \in Seq(Sums) /\ Proceeds /\ pc = "reading"
  BY <1>2, <1>3 DEF ReadFirst
<1>6. count = (seg - 1) * bytes + offset
  BY <1>1, <1>2
<1>7. TypeOK /\ Reading
  BY DEF FoldInv
<1>8. /\ TypeOK' /\ Reading'
      /\ fold' = fold /\ bytes' = bytes
      /\ \/ /\ offset + Piece < bytes
            /\ pc' = "reading" /\ seg' = seg /\ offset' = offset + Piece
            /\ count' = (seg' - 1) * bytes + offset'
            /\ result' = result
         \/ /\ offset + Piece = bytes
            /\ pc' = "reading" /\ seg' = seg + 1 /\ offset' = 0
            /\ count' = (seg' - 1) * bytes + offset'
            /\ result' = result
         \/ /\ offset + Piece = bytes
            /\ pc' = "idle" /\ seg = SegmentCount[fold] /\ result' = "Ok"
            /\ count' = SegmentCount[fold] * bytes
  BY <1>3, <1>5, <1>6, <1>7, ProceedsType
<1>9. FirstSoFar'
  BY <1>1, <1>2, <1>3, <1>4, <1>8 DEF FirstSoFar
<1>10. offset + Piece = bytes =>
          Len(out') = bytes /\ \A i \in 1 .. bytes : out'[i] = Column(i, 1)
  BY <1>1, <1>3, <1>4, FirstColumn DEF ReadFirst
<1>11. FoldedSoFar'
  BY <1>1, <1>2, <1>8, <1>10 DEF FoldedSoFar, Column
<1>12. FoldedWhole'
  <2>1. result # "Ok"
    BY <1>5, <1>7 DEF Reading
  <2>2. SegmentCount[fold] * bytes <= MaxUsize
    <3>1. bytes * SegmentCount[fold] <= MaxUsize /\ SegmentCount[fold] \in Nat
      BY <1>5, <1>7, SegmentCounts DEF Reading, TypeOK
    <3> QED
      BY <1>1, <3>1
  <2>3. ASSUME result' = "Ok"
        PROVE  /\ count' = SegmentCount[fold] * bytes
               /\ offset + Piece = bytes /\ SegmentCount[fold] = 1
    BY <1>2, <1>8, <2>1, <2>3
  <2> QED
    BY <1>8, <1>10, <2>2, <2>3 DEF FoldedWhole, Column
<1> QED
  BY <1>8, <1>9, <1>11, <1>12 DEF FoldInv

(* A later segment: the bytes of each piece are XORed in at their places. *)
LEMMA XorPieceFolds ==
    ASSUME FoldInv, XorPiece
    PROVE  FoldInv'
<1>1. /\ Piece \in Nat \ {0} /\ offset + Piece \in 1 .. bytes
      /\ bytes \in Nat \ {0} /\ offset \in Nat /\ seg \in Nat \ {0} /\ seg > 1
      /\ \A i \in 1 .. Piece : Fresh[i] = {count + i}
  BY PieceType, FoldingAssumption DEF FoldInv, XorPiece
<1>2. /\ count = (seg - 1) * bytes + offset
      /\ \A i \in 1 .. bytes : out[i] = Column(i, IF i <= offset THEN seg ELSE seg - 1)
      /\ first \in Seq(Sums) /\ TypeOK /\ Reading /\ pc = "reading" /\ Proceeds
  BY <1>1 DEF FoldInv, FoldedSoFar, TypeOK, XorPiece
<1>3. \A i \in 1 .. bytes :
          out'[i] = IF i \in offset + 1 .. offset + Piece
                       THEN SymDiff(out[i], Fresh[i - offset])
                       ELSE out[i]
  BY DEF XorPiece
<1>4. \A i \in 1 .. bytes : out'[i] = Column(i, IF i <= offset + Piece THEN seg ELSE seg - 1)
  <2> SUFFICES ASSUME NEW i \in 1 .. bytes
               PROVE  out'[i] = Column(i, IF i <= offset + Piece THEN seg ELSE seg - 1)
    OBVIOUS
  <2>1. CASE i \in offset + 1 .. offset + Piece
    <3>1. i - offset \in 1 .. Piece /\ ~ (i <= offset) /\ i <= offset + Piece
      BY <1>1, <2>1
    <3>2. count + (i - offset) = (seg - 1) * bytes + i
      <4>1. (seg - 1) * bytes \in Int
        BY <1>1
      <4> QED
        BY <1>1, <1>2, <4>1
    <3>3. Fresh[i - offset] = {(seg - 1) * bytes + i}
      BY <1>1, <3>1, <3>2
    <3>4. seg - 1 \in Nat /\ (seg - 1) + 1 = seg
      BY <1>1
    <3>5. out'[i] = SymDiff(Column(i, seg - 1), {(seg - 1) * bytes + i})
      BY <1>2, <1>3, <2>1, <3>1, <3>3
    <3>6. out'[i] = Column(i, (seg - 1) + 1)
      BY <1>1, <3>4, <3>5, ColumnGrows
    <3> QED
      BY <3>1, <3>4, <3>6
  <2>2. CASE i \notin offset + 1 .. offset + Piece
    <3>1. i <= offset <=> i <= offset + Piece
      BY <1>1, <2>2
    <3> QED
      BY <1>2, <1>3, <2>2, <3>1
  <2> QED
    BY <2>1, <2>2
<1>5. out' \in Seq(Sums) /\ Len(out') = bytes
  <2>1. \A i \in 1 .. bytes : out'[i] \in Sums
    BY <1>1, <1>4, ColumnType
  <2>2. out' \in [1 .. bytes -> Sums]
    BY <2>1 DEF XorPiece
  <2> QED
    BY <1>1, <2>2
<1>6. /\ TypeOK' /\ Reading'
      /\ fold' = fold /\ bytes' = bytes
      /\ \/ /\ offset + Piece < bytes
            /\ pc' = "reading" /\ seg' = seg /\ offset' = offset + Piece
            /\ count' = (seg' - 1) * bytes + offset'
            /\ result' = result
         \/ /\ offset + Piece = bytes
            /\ pc' = "reading" /\ seg' = seg + 1 /\ offset' = 0
            /\ count' = (seg' - 1) * bytes + offset'
            /\ result' = result
         \/ /\ offset + Piece = bytes
            /\ pc' = "idle" /\ seg = SegmentCount[fold] /\ result' = "Ok"
            /\ count' = SegmentCount[fold] * bytes
  <2>1. first' \in Seq(Sums)
    BY <1>2 DEF XorPiece
  <2> QED
    BY <1>2, <1>5, <2>1, ProceedsType
<1>7. FirstSoFar'
  BY <1>1, <1>6 DEF FirstSoFar
<1>8. offset + Piece = bytes => \A i \in 1 .. bytes : out'[i] = Column(i, seg)
  BY <1>1, <1>4
<1>9. FoldedSoFar'
  <2>1. CASE offset + Piece < bytes
    <3>1. seg' = seg /\ offset' = offset + Piece /\ bytes' = bytes
          /\ count' = (seg' - 1) * bytes + offset'
      BY <1>1, <1>6, <2>1
    <3>2. \A i \in 1 .. bytes : out'[i] = Column(i, IF i <= offset' THEN seg' ELSE seg' - 1)
      BY <1>4, <3>1
    <3> QED
      BY <1>5, <3>1, <3>2 DEF FoldedSoFar, Column
  <2>2. CASE offset + Piece = bytes /\ pc' = "reading"
    <3>1. seg' = seg + 1 /\ offset' = 0 /\ bytes' = bytes /\ seg' - 1 = seg
          /\ count' = (seg' - 1) * bytes + offset'
      BY <1>1, <1>6, <2>2
    <3>2. \A i \in 1 .. bytes : ~ (i <= offset')
      BY <1>1, <3>1
    <3> QED
      BY <1>5, <1>8, <2>2, <3>1, <3>2 DEF FoldedSoFar, Column
  <2> QED
    BY <1>1, <1>6, <2>1, <2>2 DEF FoldedSoFar
<1>10. FoldedWhole'
  <2>1. result # "Ok"
    BY <1>2 DEF Reading
  <2>2. SegmentCount[fold] * bytes <= MaxUsize
    <3>1. bytes * SegmentCount[fold] <= MaxUsize /\ SegmentCount[fold] \in Nat
      BY <1>2, SegmentCounts DEF Reading, TypeOK
    <3> QED
      BY <1>1, <3>1
  <2>3. ASSUME result' = "Ok"
        PROVE  /\ count' = SegmentCount[fold] * bytes
               /\ offset + Piece = bytes /\ SegmentCount[fold] = seg
    BY <1>6, <2>1, <2>3
  <2> QED
    BY <1>5, <1>6, <1>8, <2>2, <2>3 DEF FoldedWhole, Column
<1> QED
  BY <1>6, <1>7, <1>9, <1>10 DEF FoldInv

(* A call that fails, or is refused, returns nothing to be wrong. *)
LEMMA FailsFolds ==
    ASSUME FoldInv, NEW e \in Errors, Fails(e)
    PROVE  FoldInv'
<1>1. <<>> \in Seq(Sums)
  OBVIOUS
<1>2. TypeOK'
  BY <1>1 DEF Fails, FoldInv, TypeOK
<1> QED
  BY <1>2 DEF Fails, FoldInv, Reading, FirstSoFar, FoldedSoFar, FoldedWhole, Errors

(* A call that starts has the first byte of the first segment before it. *)
LEMMA StartsFolds ==
    ASSUME NEW bits \in 0 .. MaxBits, NEW f \in Folds, bits # 0, bits % 8 = 0,
           (bits \div 8) * SegmentCount[f] <= MaxUsize,
           Starts(f, bits \div 8)
    PROVE  FoldInv'
<1> DEFINE n == bits \div 8
<1>1. n \in Nat \ {0} /\ n <= MaxBits
  BY FoldingAssumption
<1> HIDE DEF n
<1>2. n * SegmentCount[f] <= MaxUsize /\ Starts(f, n)
  BY DEF n
<1>3. [i \in 1 .. n |-> {}] \in Seq(Sums) /\ Len([i \in 1 .. n |-> {}]) = n /\ <<>> \in Seq(Sums)
  <2>1. [i \in 1 .. n |-> {}] \in [1 .. n -> Sums]
    BY DEF Sums
  <2> QED
    BY <1>1, <2>1
<1>4. SegmentCount[f] \in Nat \ {0}
  BY SegmentCounts
<1>5. TypeOK'
  BY <1>1, <1>2, <1>3, <1>4, FoldingAssumption DEF Starts, TypeOK
<1>6. Reading'
  BY <1>1, <1>2 DEF Starts, Reading
<1>7. FirstSoFar'
  BY <1>2 DEF Starts, FirstSoFar
<1> QED
  BY <1>2, <1>5, <1>6, <1>7 DEF Starts, FoldInv, FoldedSoFar, FoldedWhole

(* Every behaviour folds. *)
LEMMA FoldInvariant == Spec => []FoldInv
<1>1. Init => FoldInv
  <2>1. <<>> \in Seq(Sums) /\ 1 \in 1 .. SegmentCount[0]
    BY SegmentCounts
  <2> QED
    BY <2>1, SegmentCounts, FoldingAssumption
    DEF Init, FoldInv, TypeOK, Reading, FirstSoFar, FoldedSoFar, FoldedWhole
<1>2. FoldInv /\ [Next]_vars => FoldInv'
  <2> SUFFICES ASSUME FoldInv, [Next]_vars PROVE FoldInv'
    OBVIOUS
  <2>1. ASSUME NEW bits \in 0 .. MaxBits, NEW f \in 0 .. MaxFold, GetBitsWithFold(bits, f)
        PROVE  FoldInv'
    BY <2>1, FailsFolds, StartsFolds DEF GetBitsWithFold, Errors
  <2>2. CASE OutOfMemory \/ ReadFails
    BY <2>2, FailsFolds DEF OutOfMemory, ReadFails, Errors
  <2>3. CASE UNCHANGED vars
    BY <2>3 DEF vars, FoldInv, TypeOK, Reading, FirstSoFar, FoldedSoFar, FoldedWhole, Column
  <2> QED
    BY <2>1, <2>2, <2>3, ReadFirstFolds, XorPieceFolds DEF Next
<1> QED
  BY <1>1, <1>2, PTL DEF Spec

(* For any lengths of requests and read commands, and whatever the bytes,    *)
(* a successful call has read 2^fold segments, no more bytes than a usize   *)
(* counts, and byte i of its result is the XOR of their bytes i             *)
(* (read_folded_segments, xor_into).                                       *)
THEOREM FoldsWhole == Spec => [](TypeOK /\ FoldedSoFar /\ FoldedWhole)
<1>1. FoldInv => TypeOK /\ FoldedSoFar /\ FoldedWhole
  BY DEF FoldInv
<1> QED
  BY <1>1, FoldInvariant, PTL

-----------------------------------------------------------------------------
(* Folding the whole block.                                                  *)

(* The block of c segments of n bytes folded into one. *)
Combined(n, c) == [i \in 1 .. n |-> {s * n + i : s \in 0 .. c - 1}]

(* One fold of a block folds twice as many segments of half the length. *)
LEMMA HalvedCombined ==
    ASSUME NEW n \in Nat, NEW c \in Nat
    PROVE  Halved(Combined(2 * n, c)) = Combined(n, 2 * c)
<1> DEFINE block == Combined(2 * n, c)
<1>1. Len(block) = 2 * n /\ (2 * n) \div 2 = n
  BY DEF Combined
<1>2. ASSUME NEW i \in 1 .. n
      PROVE  SymDiff(block[i], block[n + i]) = {s * n + i : s \in 0 .. 2 * c - 1}
  <2> DEFINE even == {s * (2 * n) + i : s \in 0 .. c - 1}
             odd == {s * (2 * n) + (n + i) : s \in 0 .. c - 1}
             all == {s * n + i : s \in 0 .. 2 * c - 1}
  <2>1. block[i] = even /\ block[n + i] = odd
    <3>1. i \in 1 .. 2 * n /\ n + i \in 1 .. 2 * n
      OBVIOUS
    <3>2. \A p \in 1 .. 2 * n : block[p] = {s * (2 * n) + p : s \in 0 .. c - 1}
      BY DEF Combined
    <3> QED
      BY <3>1, <3>2, Zenon
  <2>2. \A s \in Nat : s * (2 * n) + i = (2 * s) * n + i /\ s * (2 * n) + (n + i) = (2 * s + 1) * n + i
    OBVIOUS
  <2>3. ASSUME NEW a \in Nat, NEW b \in Nat, a < b
        PROVE  a * n < b * n
    BY <2>3, SegmentsApart
  <2>4. even \cap odd = {}
    <3> SUFFICES ASSUME NEW s \in 0 .. c - 1, NEW t \in 0 .. c - 1,
                        s * (2 * n) + i = t * (2 * n) + (n + i)
                 PROVE  FALSE
      OBVIOUS
    <3>1. (2 * s) * n = (2 * t + 1) * n
      BY <2>2
    <3>2. 2 * s < 2 * t + 1 \/ 2 * t + 1 < 2 * s
      OBVIOUS
    <3>3. (2 * s) * n \in Int /\ (2 * t + 1) * n \in Int
      OBVIOUS
    <3> QED
      BY <2>3, <3>1, <3>2, <3>3
  <2>5. even \cup odd \subseteq all
    <3>1. \A s \in 0 .. c - 1 : s \in Nat /\ 2 * s \in 0 .. 2 * c - 1 /\ 2 * s + 1 \in 0 .. 2 * c - 1
      OBVIOUS
    <3> QED
      BY <2>2, <3>1
  <2>6. all \subseteq even \cup odd
    <3> SUFFICES ASSUME NEW t \in 0 .. 2 * c - 1 PROVE t * n + i \in even \cup odd
      OBVIOUS
    <3>1. PICK s \in 0 .. c - 1 : t = 2 * s \/ t = 2 * s + 1
      <4>1. t \div 2 \in 0 .. c - 1 /\ (t = 2 * (t \div 2) \/ t = 2 * (t \div 2) + 1)
        OBVIOUS
      <4> QED
        BY <4>1
    <3> QED
      BY <2>2, <3>1
  <2> HIDE DEF even, odd
  <2>7. SymDiff(even, odd) = even \cup odd
    BY <2>4 DEF SymDiff
  <2> QED
    BY <2>1, <2>5, <2>6, <2>7
<1>3. Halved(block) = [i \in 1 .. n |-> SymDiff(block[i], block[n + i])]
  BY <1>1 DEF Halved
<1> QED
  BY <1>2, <1>3 DEF Combined

(* There are blocks of which each is the one before it folded once. *)
LEMMA SuccessiveBlocks ==
    ASSUME NEW block
    PROVE  \E f : f = [k \in Folds |-> IF k = 0 THEN block ELSE Halved(f[k - 1])]
<1> DEFINE b1 == Halved(block)
           b2 == Halved(b1)
           b3 == Halved(b2)
           b4 == Halved(b3)
           g == [k \in Folds |-> IF k = 0 THEN block ELSE IF k = 1 THEN b1 ELSE IF k = 2 THEN b2
                                  ELSE IF k = 3 THEN b3 ELSE b4]
<1>1. g = [k \in Folds |-> IF k = 0 THEN block ELSE Halved(g[k - 1])]
  <2>1. \A k \in Folds : g[k] = IF k = 0 THEN block ELSE Halved(g[k - 1])
    <3>1. Folds = {0, 1, 2, 3, 4}
      BY DEF Folds
    <3>2. g[0] = block /\ g[1] = b1 /\ g[2] = b2 /\ g[3] = b3 /\ g[4] = b4
      BY <3>1
    <3> HIDE DEF g
    <3>3. 1 - 1 = 0 /\ 2 - 1 = 1 /\ 3 - 1 = 2 /\ 4 - 1 = 3
      OBVIOUS
    <3> QED
      BY <3>1, <3>2, <3>3
  <2> QED
    BY <2>1
<1> HIDE DEF g
<1> QED
  BY <1>1

(* A call that succeeds returns the whole block folded fold times. *)
LEMMA WholeIsSuccessive == FoldInv => IsSuccessiveFold
<1> SUFFICES ASSUME FoldInv, result = "Ok"
             PROVE  LET block == [i \in 1 .. count |-> {i}]
                        folded[k \in Folds] == IF k = 0 THEN block ELSE Halved(folded[k - 1])
                    IN  out = folded[fold]
  BY DEF IsSuccessiveFold
<1> DEFINE block == [i \in 1 .. count |-> {i}]
           folded[k \in Folds] == IF k = 0 THEN block ELSE Halved(folded[k - 1])
<1>1. folded = [k \in Folds |-> IF k = 0 THEN block ELSE Halved(folded[k - 1])]
  <2> HIDE DEF block
  <2>1. \E f : f = [k \in Folds |-> IF k = 0 THEN block ELSE Halved(f[k - 1])]
    BY SuccessiveBlocks
  <2> QED
    BY <2>1, Zenon
<1> HIDE DEF folded
<1>2. /\ folded[0] = block
      /\ folded[1] = Halved(folded[0]) /\ folded[2] = Halved(folded[1])
      /\ folded[3] = Halved(folded[2]) /\ folded[4] = Halved(folded[3])
  <2>1. Folds = {0, 1, 2, 3, 4} /\ 1 - 1 = 0 /\ 2 - 1 = 1 /\ 3 - 1 = 2 /\ 4 - 1 = 3
    BY DEF Folds
  <2>2. \A k \in Folds : folded[k] = IF k = 0 THEN block ELSE Halved(folded[k - 1])
    BY <1>1
  <2> HIDE DEF block
  <2> QED
    BY <2>1, <2>2
<1>3. bytes \in Nat /\ fold \in {0, 1, 2, 3, 4}
  BY FoldingAssumption DEF FoldInv, TypeOK, Folds
<1>4. /\ count = SegmentCount[fold] * bytes
      /\ out = Combined(bytes, SegmentCount[fold])
  <2>1. out \in Seq(Sums) /\ Len(out) = bytes
    BY DEF FoldInv, TypeOK, FoldedWhole
  <2>2. \A i \in 1 .. bytes : out[i] = {s * bytes + i : s \in 0 .. SegmentCount[fold] - 1}
    BY DEF FoldInv, FoldedWhole, Column
  <2> QED
    BY <2>1, <2>2 DEF Combined, FoldInv, FoldedWhole
<1>5. block = Combined(count, 1)
  <2>1. count \in Nat /\ 0 .. 1 - 1 = {0}
    BY DEF FoldInv, TypeOK
  <2>2. \A i \in 1 .. count : 0 * count + i = i
    BY <2>1
  <2>3. \A i \in 1 .. count : {s * count + i : s \in 0 .. 1 - 1} = {i}
    BY <2>1, <2>2
  <2> QED
    BY <2>3 DEF Combined
<1> HIDE DEF block
<1>6. \A n, c \in Nat : Halved(Combined(2 * n, c)) = Combined(n, 2 * c)
  BY HalvedCombined
<1>7. \A n, c \in Nat : 2 * n \in Nat /\ 2 * c \in Nat
  OBVIOUS
<1>8. ASSUME fold = 0
      PROVE  out = folded[fold]
  <2>1. SegmentCount[fold] = 1
    BY <1>8 DEF SegmentCount, Folds
  <2>2. count = bytes
    BY <1>3, <1>4, <2>1
  <2> QED
    BY <1>2, <1>4, <1>5, <1>8, <2>1, <2>2
<1>9. ASSUME fold = 1
      PROVE  out = folded[fold]
  <2>1. SegmentCount[fold] = 2
    BY <1>9 DEF SegmentCount, Folds
  <2>2. count = 2 * bytes /\ 2 * 1 = 2
    BY <1>3, <1>4, <2>1
  <2>3. folded[1] = Combined(bytes, 2)
    BY <1>2, <1>3, <1>5, <1>6, <1>7, <2>2
  <2> QED
    BY <1>4, <1>9, <2>1, <2>3
<1>10. ASSUME fold = 2
      PROVE  out = folded[fold]
  <2>1. SegmentCount[fold] = 4
    BY <1>10 DEF SegmentCount, Folds
  <2>2. count = 2 * (2 * bytes) /\ 2 * 1 = 2 /\ 2 * 2 = 4
    BY <1>3, <1>4, <2>1
  <2>3. folded[1] = Combined(2 * bytes, 2)
    BY <1>2, <1>3, <1>5, <1>6, <1>7, <2>2
  <2>4. folded[2] = Combined(bytes, 4)
    BY <1>2, <1>3, <1>6, <1>7, <2>2, <2>3
  <2> QED
    BY <1>4, <1>10, <2>1, <2>4
<1>11. ASSUME fold = 3
      PROVE  out = folded[fold]
  <2>1. SegmentCount[fold] = 8
    BY <1>11 DEF SegmentCount, Folds
  <2>2. count = 2 * (2 * (2 * bytes)) /\ 2 * 1 = 2 /\ 2 * 2 = 4 /\ 2 * 4 = 8
    BY <1>3, <1>4, <2>1
  <2>3. folded[1] = Combined(2 * (2 * bytes), 2)
    BY <1>2, <1>3, <1>5, <1>6, <1>7, <2>2
  <2>4. folded[2] = Combined(2 * bytes, 4)
    BY <1>2, <1>3, <1>6, <1>7, <2>2, <2>3
  <2>5. folded[3] = Combined(bytes, 8)
    BY <1>2, <1>3, <1>6, <1>7, <2>2, <2>4
  <2> QED
    BY <1>4, <1>11, <2>1, <2>5
<1>12. ASSUME fold = 4
      PROVE  out = folded[fold]
  <2>1. SegmentCount[fold] = 16
    BY <1>12 DEF SegmentCount, Folds
  <2>2. count = 2 * (2 * (2 * (2 * bytes))) /\ 2 * 1 = 2 /\ 2 * 2 = 4 /\ 2 * 4 = 8 /\ 2 * 8 = 16
    BY <1>3, <1>4, <2>1
  <2>3. folded[1] = Combined(2 * (2 * (2 * bytes)), 2)
    BY <1>2, <1>3, <1>5, <1>6, <1>7, <2>2
  <2>4. folded[2] = Combined(2 * (2 * bytes), 4)
    BY <1>2, <1>3, <1>6, <1>7, <2>2, <2>3
  <2>5. folded[3] = Combined(2 * bytes, 8)
    BY <1>2, <1>3, <1>6, <1>7, <2>2, <2>4
  <2>6. folded[4] = Combined(bytes, 16)
    BY <1>2, <1>3, <1>6, <1>7, <2>2, <2>5
  <2> QED
    BY <1>4, <1>12, <2>1, <2>6
<1>13. out = folded[fold]
  BY <1>3, <1>8, <1>9, <1>10, <1>11, <1>12
<1> QED
  BY <1>13, Zenon DEF folded, block

(* What a call returns is what folding the whole block it has read gives, for *)
(* any length of the block and any values of its bytes (the design's 11.2).  *)
THEOREM FoldsSuccessively == Spec => []IsSuccessiveFold
BY FoldInvariant, WholeIsSuccessive, PTL

=============================================================================

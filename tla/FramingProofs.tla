--------------------------- MODULE FramingProofs ---------------------------
(* Proofs about the framing of a read command, for packets, payloads and    *)
(* retry limits of any size.                                                *)
EXTENDS Framing, SequenceTheorems, TLAPS

(***************************************************************************)
(* Arithmetic of packets                                                   *)
(***************************************************************************)

(* Products grow with their factors. *)
LEMMA ProductMonotone ==
    ASSUME NEW a \in Int, NEW b \in Int, NEW c \in Nat, a <= b
    PROVE  a * c <= b * c
OBVIOUS

(* What a packet carries beside its two status bytes. *)
Room == MaxPacket - 2

LEMMA RoomType == MaxPacket \in Nat \ {0} /\ Room \in Nat \ {0} /\ MaxPacket = Room + 2
BY FramingAssumption DEF Room

(* The packet a position is in, and its place there. *)
LEMMA Position ==
    ASSUME NEW q \in Nat, NEW b \in 0 .. MaxPacket - 1
    PROVE  /\ (q * MaxPacket + b) \div MaxPacket = q
           /\ (q * MaxPacket + b) % MaxPacket = b
<1>1. MaxPacket \in Nat \ {0}
  BY RoomType
<1> DEFINE n == q * MaxPacket + b
           d == n \div MaxPacket
           r == n % MaxPacket
<1>2. n \in Nat /\ d \in Nat /\ r \in 0 .. MaxPacket - 1 /\ n = MaxPacket * d + r
  BY <1>1
<1> HIDE DEF n, d, r
<1>0. n = q * MaxPacket + b
  BY DEF n
<1>3. ~ (d + 1 <= q)
  <2> SUFFICES ASSUME d + 1 <= q PROVE FALSE
    OBVIOUS
  <2>1. (d + 1) * MaxPacket <= q * MaxPacket
    BY <1>1, <1>2, ProductMonotone
  <2>2. (d + 1) * MaxPacket = MaxPacket * d + MaxPacket
    BY <1>1, <1>2
  <2> QED
    BY <1>0, <1>1, <1>2, <2>1, <2>2
<1>4. ~ (q + 1 <= d)
  <2> SUFFICES ASSUME q + 1 <= d PROVE FALSE
    OBVIOUS
  <2>1. (q + 1) * MaxPacket <= d * MaxPacket
    BY <1>1, <1>2, ProductMonotone
  <2>2. (q + 1) * MaxPacket = q * MaxPacket + MaxPacket /\ d * MaxPacket = MaxPacket * d
    BY <1>1, <1>2
  <2> QED
    BY <1>0, <1>1, <1>2, <2>1, <2>2
<1>5. d = q
  BY <1>2, <1>3, <1>4
<1>6. MaxPacket * d = q * MaxPacket
  BY <1>1, <1>5
<1>7. r = b
  BY <1>0, <1>1, <1>2, <1>6
<1> QED
  BY <1>5, <1>7 DEF n, d, r

(* Every position is in a packet. *)
LEMMA InPacket ==
    ASSUME NEW n \in Nat
    PROVE  /\ n \div MaxPacket \in Nat
           /\ n % MaxPacket \in 0 .. MaxPacket - 1
           /\ n = (n \div MaxPacket) * MaxPacket + (n % MaxPacket)
<1>1. MaxPacket \in Nat \ {0}
  BY RoomType
<1>2. n \div MaxPacket \in Nat /\ n % MaxPacket \in 0 .. MaxPacket - 1
  BY <1>1
<1>3. n = MaxPacket * (n \div MaxPacket) + (n % MaxPacket)
  BY <1>1
<1>4. MaxPacket * (n \div MaxPacket) = (n \div MaxPacket) * MaxPacket
  BY <1>1, <1>2
<1> QED
  BY <1>2, <1>3, <1>4

(* Rounding up stays within any number of whole packets that is enough. *)
LEMMA RoundWithin ==
    ASSUME NEW n \in Nat \ {0}, NEW m \in Nat, n <= m * MaxPacket
    PROVE  RoundToMaxPacket(n) \in Nat \ {0} /\ RoundToMaxPacket(n) <= m * MaxPacket
<1> DEFINE q == (n - 1) \div MaxPacket
           r == (n - 1) % MaxPacket
<1>1. MaxPacket \in Nat \ {0}
  BY RoomType
<1>2. q \in Nat /\ r \in 0 .. MaxPacket - 1 /\ n - 1 = q * MaxPacket + r
  BY InPacket
<1> HIDE DEF q, r
<1>3. q + 1 <= m
  <2> SUFFICES ASSUME m <= q PROVE FALSE
    BY <1>2
  <2>1. m * MaxPacket <= q * MaxPacket
    BY <1>1, <1>2, ProductMonotone
  <2> QED
    BY <1>1, <1>2, <2>1
<1>4. (q + 1) * MaxPacket <= m * MaxPacket
  BY <1>1, <1>2, <1>3, ProductMonotone
<1>5. RoundToMaxPacket(n) = q * MaxPacket + MaxPacket
  <2>1. RoundToMaxPacket(n) = n + MaxPacket - 1 - r
    BY DEF RoundToMaxPacket, r
  <2> QED
    BY <1>1, <1>2, <2>1
<1>6. (q + 1) * MaxPacket = q * MaxPacket + MaxPacket
  BY <1>1, <1>2
<1> QED
  BY <1>1, <1>2, <1>4, <1>5, <1>6

(***************************************************************************)
(* The chip's answer                                                       *)
(***************************************************************************)

(* What is left to read, between zero and the whole answer. *)
LEMMA NeedType ==
    ASSUME FramingTypeOK
    PROVE  Need \in 0 .. MaxLen /\ Remaining \in Nat /\ Len(got) \in Nat /\ Len(payload) \in Nat
BY FramingAssumption DEF FramingTypeOK, Need, Remaining

(* The length of a bulk read is a positive number. *)
LEMMA RoundType ==
    ASSUME NEW n \in Nat \ {0}
    PROVE  RoundToMaxPacket(n) \in Nat \ {0}
<1>1. MaxPacket \in Nat \ {0}
  BY RoomType
<1>2. (n - 1) % MaxPacket \in 0 .. MaxPacket - 1
  BY <1>1
<1> QED
  BY <1>1, <1>2 DEF RoundToMaxPacket

(* An answer whose packets are all full but the last: every byte of it is   *)
(* in one of the packets, and a byte of payload is one of the answer's.     *)
LEMMA PayloadPlace ==
    ASSUME NEW k \in Nat, NEW n \in Nat \ {0}, (n - 1) * Room <= k, k <= n * Room,
           NEW q \in Nat, NEW a \in 1 .. MaxPacket, q * MaxPacket + a <= k + 2 * n
    PROVE  /\ q < n
           /\ a > 2 => q * Room + a - 2 \in 1 .. k
<1>1. MaxPacket \in Nat \ {0} /\ Room \in Nat \ {0} /\ MaxPacket = Room + 2
  BY RoomType
<1>2. q * MaxPacket = q * Room + 2 * q /\ q * Room \in Nat
  BY <1>1
<1>3. q < n
  <2> SUFFICES ASSUME n <= q PROVE FALSE
    OBVIOUS
  <2>1. n * Room <= q * Room
    BY <1>1, ProductMonotone
  <2> QED
    BY <1>1, <1>2, <2>1
<1>4. a > 2 => q * Room + a - 2 >= 1
  BY <1>1, <1>2
<1>5. q * Room + a - 2 <= k
  <2>1. CASE q = n - 1
    BY <1>1, <1>2, <2>1
  <2>2. CASE q + 1 <= n - 1
    <3>1. (q + 1) * Room <= (n - 1) * Room
      BY <1>1, <2>2, ProductMonotone
    <3>2. (q + 1) * Room = q * Room + Room
      BY <1>1
    <3> QED
      BY <1>1, <1>2, <3>1, <3>2
  <2> QED
    BY <1>3, <2>1, <2>2
<1> QED
  BY <1>1, <1>2, <1>3, <1>4, <1>5

(* The status bytes of its packets are all there. *)
LEMMA StatusPlace ==
    ASSUME NEW k \in Nat, NEW n \in Nat \ {0}, (n - 1) * Room <= k, NEW q \in 0 .. n - 1
    PROVE  q * MaxPacket + 2 <= k + 2 * n
<1>1. MaxPacket \in Nat \ {0} /\ Room \in Nat \ {0} /\ MaxPacket = Room + 2
  BY RoomType
<1>2. q * MaxPacket = q * Room + 2 * q
  BY <1>1
<1>3. q * Room <= (n - 1) * Room
  BY <1>1, ProductMonotone
<1> QED
  BY <1>1, <1>2, <1>3

(* What Frame puts where. *)
LEMMA FrameBytes ==
    ASSUME FramingTypeOK,
           NEW k \in 0 .. Len(payload) - sent, NEW n \in Nat \ {0},
           (n - 1) * Room <= k, k <= n * Room,
           NEW modem \in [1 .. n -> Modems], NEW status \in [1 .. n -> Lines]
    PROVE  /\ Frame(k, n, modem, status) \in Seq(Bytes)
           /\ Len(Frame(k, n, modem, status)) = k + 2 * n
           /\ \A q \in 0 .. n - 1 :
                 /\ Frame(k, n, modem, status)[q * MaxPacket + 1] = modem[q + 1]
                 /\ Frame(k, n, modem, status)[q * MaxPacket + 2] = status[q + 1]
           /\ \A q \in 0 .. n - 1, a \in 3 .. MaxPacket :
                 q * MaxPacket + a <= k + 2 * n =>
                     Frame(k, n, modem, status)[q * MaxPacket + a] = payload[sent + q * Room + a - 2]
<1> DEFINE bytes == Frame(k, n, modem, status)
           Cell(q, at) ==
               CASE at = 0 -> modem[q + 1]
                 [] at = 1 -> status[q + 1]
                 [] OTHER -> payload[sent + q * (MaxPacket - 2) + at - 1]
           Byte(i) == Cell((i - 1) \div MaxPacket, (i - 1) % MaxPacket)
<1>1. MaxPacket \in Nat \ {0} /\ Room \in Nat \ {0} /\ MaxPacket = Room + 2
  BY RoomType
<1>2. k \in Nat /\ n \in Nat /\ sent \in Nat /\ sent + k <= Len(payload)
      /\ payload \in Seq(Values) /\ Len(payload) \in Nat
  BY DEF FramingTypeOK
<1>3. bytes = [i \in 1 .. k + 2 * n |-> Byte(i)]
  BY DEF Frame
<1> HIDE DEF bytes
<1>4. ASSUME NEW q \in Nat, NEW a \in 1 .. MaxPacket, q * MaxPacket + a <= k + 2 * n
      PROVE  /\ q < n
             /\ bytes[q * MaxPacket + a] = Cell(q, a - 1)
             /\ a > 2 => sent + q * Room + a - 2 \in 1 .. Len(payload)
  <2>1. q * MaxPacket \in Nat /\ a - 1 \in 0 .. MaxPacket - 1
    BY <1>1, <1>4
  <2>2. q * MaxPacket + a - 1 = q * MaxPacket + (a - 1)
    BY <1>1, <1>4, <2>1
  <2>3. /\ (q * MaxPacket + a - 1) \div MaxPacket = q
        /\ (q * MaxPacket + a - 1) % MaxPacket = a - 1
    BY <2>1, <2>2, Position
  <2>4. q < n /\ (a > 2 => q * Room + a - 2 \in 1 .. k)
    BY <1>2, <1>4, PayloadPlace
  <2>5. q * Room \in Nat
    BY <1>1
  <2>6. q * MaxPacket + a \in 1 .. k + 2 * n
    BY <1>2, <1>4, <2>1
  <2> HIDE DEF Cell
  <2>7. bytes[q * MaxPacket + a] = Cell(q, a - 1)
    <3>1. \A i \in 1 .. k + 2 * n : bytes[i] = Cell((i - 1) \div MaxPacket, (i - 1) % MaxPacket)
      BY <1>3
    <3>2. PICK i \in 1 .. k + 2 * n : i = q * MaxPacket + a
      BY <2>6
    <3>3. bytes[i] = Cell((i - 1) \div MaxPacket, (i - 1) % MaxPacket)
      BY <3>1
    <3>4. (i - 1) \div MaxPacket = q /\ (i - 1) % MaxPacket = a - 1
      BY <1>1, <2>3, <3>2
    <3> QED
      BY <3>2, <3>3, <3>4
  <2>8. ASSUME a > 2
        PROVE  sent + q * Room + a - 2 \in 1 .. Len(payload)
    <3> DEFINE x == q * Room
    <3>1. x \in Nat /\ x + a - 2 \in 1 .. k /\ a \in Nat
      BY <2>1, <2>4, <2>5, <2>8
    <3> HIDE DEF x
    <3>2. sent + x + a - 2 \in 1 .. Len(payload)
      BY <1>2, <3>1
    <3> QED
      BY <3>2 DEF x
  <2> QED
    BY <2>4, <2>7, <2>8
<1>5. ASSUME NEW q \in Nat, NEW a \in 1 .. MaxPacket, q * MaxPacket + a <= k + 2 * n
      PROVE  /\ a = 1 => bytes[q * MaxPacket + a] = modem[q + 1]
             /\ a = 2 => bytes[q * MaxPacket + a] = status[q + 1]
             /\ a > 2 => bytes[q * MaxPacket + a] = payload[sent + q * Room + a - 2]
  <2>0. ASSUME NEW at \in Nat
        PROVE  /\ at = 0 => Cell(q, at) = modem[q + 1]
               /\ at = 1 => Cell(q, at) = status[q + 1]
               /\ at > 1 => Cell(q, at) = payload[sent + q * (MaxPacket - 2) + at - 1]
    BY <2>0
  <2> HIDE DEF Cell
  <2>1. /\ a = 1 => Cell(q, a - 1) = modem[q + 1]
        /\ a = 2 => Cell(q, a - 1) = status[q + 1]
        /\ a > 2 => Cell(q, a - 1) = payload[sent + q * (MaxPacket - 2) + (a - 1) - 1]
    <3>1. a - 1 \in Nat /\ (a = 1 => a - 1 = 0) /\ (a = 2 => a - 1 = 1) /\ (a > 2 => a - 1 > 1)
      BY <1>1, <1>5
    <3> QED
      BY <2>0, <3>1
  <2>3. sent + q * (MaxPacket - 2) + (a - 1) - 1 = sent + q * Room + a - 2
    BY <1>1, <1>2 DEF Room
  <2> QED
    BY <1>4, <1>5, <2>1, <2>3
<1>6. ASSUME NEW q \in Nat, NEW a \in 1 .. MaxPacket, q * MaxPacket + a <= k + 2 * n
      PROVE  bytes[q * MaxPacket + a] \in Bytes
  <2>1. q + 1 \in 1 .. n
    BY <1>2, <1>4, <1>6
  <2>2. modem[q + 1] \in Bytes /\ status[q + 1] \in Bytes
    BY <2>1, FramingAssumption
  <2>3. a > 2 => payload[sent + q * Room + a - 2] \in Bytes
    <3>1. \A j \in 1 .. Len(payload) : payload[j] \in Bytes
      BY <1>2, FramingAssumption
    <3> QED
      BY <1>4, <1>6, <3>1
  <2>4. a = 1 \/ a = 2 \/ a > 2
    BY <1>1, <1>6
  <2> QED
    BY <1>5, <1>6, <2>2, <2>3, <2>4
<1>7. ASSUME NEW i \in 1 .. k + 2 * n
      PROVE  bytes[i] \in Bytes
  <2> DEFINE q == (i - 1) \div MaxPacket
             a == ((i - 1) % MaxPacket) + 1
  <2>1. i - 1 \in Nat
    BY <1>2
  <2>0. ASSUME NEW j \in Nat
        PROVE  /\ j \div MaxPacket \in Nat
               /\ j % MaxPacket \in 0 .. MaxPacket - 1
               /\ j = (j \div MaxPacket) * MaxPacket + (j % MaxPacket)
    BY <2>0, InPacket
  <2>2. /\ q \in Nat
        /\ (i - 1) % MaxPacket \in 0 .. MaxPacket - 1
        /\ i - 1 = q * MaxPacket + ((i - 1) % MaxPacket)
    BY <2>0, <2>1
  <2>3. a \in 1 .. MaxPacket /\ i = q * MaxPacket + a
    <3> DEFINE r == (i - 1) % MaxPacket
               x == q * MaxPacket
    <3>1. r \in 0 .. MaxPacket - 1 /\ i - 1 = x + r /\ a = r + 1 /\ x \in Int
      BY <1>1, <2>2
    <3> HIDE DEF r, x, a
    <3>2. a \in 1 .. MaxPacket /\ i = x + a
      BY <1>1, <1>2, <3>1
    <3> QED
      BY <3>2 DEF x
  <2> HIDE DEF q, a
  <2> QED
    BY <1>2, <1>6, <2>2, <2>3
<1>8. bytes \in [1 .. k + 2 * n -> Bytes]
  BY <1>3, <1>7
<1>9. bytes \in Seq(Bytes) /\ Len(bytes) = k + 2 * n
  BY <1>2, <1>8
<1>10. ASSUME NEW q \in 0 .. n - 1
       PROVE  /\ bytes[q * MaxPacket + 1] = modem[q + 1]
              /\ bytes[q * MaxPacket + 2] = status[q + 1]
  <2>1. q * MaxPacket + 2 <= k + 2 * n /\ q * MaxPacket \in Nat
    <3>1. k \in Nat /\ q \in Nat
      BY <1>2
    <3>2. q * MaxPacket + 2 <= k + 2 * n
      BY <3>1, StatusPlace
    <3>3. q * MaxPacket \in Nat
      BY <1>1, <3>1
    <3> QED
      BY <3>2, <3>3
  <2>2. 1 \in 1 .. MaxPacket /\ 2 \in 1 .. MaxPacket /\ q \in Nat
    BY <1>1, <1>2
  <2>3. q * MaxPacket + 1 <= k + 2 * n
    <3> DEFINE x == q * MaxPacket
               y == k + 2 * n
    <3>1. x + 2 <= y /\ x \in Nat /\ y \in Nat
      BY <1>2, <2>1
    <3> HIDE DEF x, y
    <3>2. x + 1 <= y
      BY <3>1
    <3> QED
      BY <3>2 DEF x, y
  <2> QED
    BY <1>5, <2>1, <2>2, <2>3
<1>11. ASSUME NEW q \in 0 .. n - 1, NEW a \in 3 .. MaxPacket, q * MaxPacket + a <= k + 2 * n
       PROVE  bytes[q * MaxPacket + a] = payload[sent + q * Room + a - 2]
  BY <1>5, <1>11
<1> QED
  BY <1>9, <1>10, <1>11 DEF bytes

(* The length of a bulk read, and its bound by any number of whole packets  *)
(* that is enough for the bytes needed with the status bytes of one packet. *)
LEMMA RequestType ==
    ASSUME FramingTypeOK
    PROVE  /\ Request \in Nat \ {0}
           /\ \A m \in Nat : Need + 2 <= m * MaxPacket => Request <= m * MaxPacket
<1> DEFINE whole == RoundToMaxPacket(Need + 2)
           most == MaxRead + MaxPacket
           lesser == LesserOf(whole, most)
<1>1. MaxPacket \in Nat \ {0}
  BY RoomType
<1>2. Need + 2 \in Nat \ {0}
  BY NeedType
<1>3. whole \in Nat \ {0}
  BY <1>2, RoundType
<1>4. most \in Nat \ {0}
  BY <1>1, FramingAssumption
<1> HIDE DEF whole, most
<1>5. lesser \in Nat \ {0} /\ lesser <= whole
  BY <1>3, <1>4 DEF LesserOf
<1>6. Request = RoundToMaxPacket(lesser)
  BY DEF Request, whole, most
<1> HIDE DEF lesser
<1>7. Request \in Nat \ {0}
  BY <1>5, <1>6, RoundType
<1>8. ASSUME NEW m \in Nat, Need + 2 <= m * MaxPacket
      PROVE  Request <= m * MaxPacket
  <2>1. whole <= m * MaxPacket
    BY <1>2, <1>8, RoundWithin DEF whole
  <2>2. m * MaxPacket \in Nat
    BY <1>1
  <2>3. lesser <= m * MaxPacket
    BY <1>3, <1>5, <2>1, <2>2
  <2> QED
    BY <1>5, <1>6, <2>3, RoundWithin
<1> QED
  BY <1>7, <1>8

(* The last packet of an answer with all the bytes needed carries some: a   *)
(* bulk read has no room for one after it.                                  *)
LEMMA NoPacketAfter ==
    ASSUME FramingTypeOK, NEW k \in Nat, NEW n \in Nat \ {0}, Fits(k, n), k = Need, k > 0
    PROVE  (n - 1) * Room < k
<1>1. MaxPacket \in Nat \ {0} /\ Room \in Nat \ {0} /\ MaxPacket = Room + 2
  BY RoomType
<1>2. (n - 1) * Room <= k /\ k + 2 * n <= Request
  BY DEF Fits, Room
<1>3. (n - 1) * Room \in Nat /\ n - 1 \in Nat
  BY <1>1
<1> SUFFICES ASSUME (n - 1) * Room = k PROVE FALSE
  BY <1>2, <1>3
<1> DEFINE m == n - 1
<1>4. m \in Nat /\ m * MaxPacket = m * Room + 2 * m
  BY <1>1
<1>5. m >= 1
  BY <1>1, <1>4
<1>6. Need + 2 <= m * MaxPacket
  BY <1>1, <1>4, <1>5
<1>7. Request <= m * MaxPacket /\ Request \in Nat
  BY <1>4, <1>6, RequestType
<1> QED
  BY <1>1, <1>2, <1>4, <1>7

(***************************************************************************)
(* Types, whether bulk reads split packets or not                          *)
(***************************************************************************)

(* The part of the type invariant a bulk read's handling may touch. *)
ClientTypeOK ==
    /\ got \in Seq(Bytes) /\ Len(got) <= Len(payload)
    /\ chunk \in Seq(Bytes)
    /\ head \in 0 .. Len(chunk)
    /\ line \in GoodLines
    /\ streak \in 0 .. Retries - 1
    /\ copied \in BOOLEAN
    /\ pc \in {"idle", "fetch", "drain", "check"}

(* A failed command leaves nothing behind. *)
LEMMA FailType ==
    ASSUME FramingTypeOK, NEW e, FailWith(e), line' \in GoodLines
    PROVE  ClientTypeOK' /\ payload' = payload
<1>1. <<>> \in Seq(Bytes) /\ Len(<<>>) = 0 /\ Len(payload) \in Nat
  BY DEF FramingTypeOK
<1> QED
  BY <1>1 DEF FramingTypeOK, ClientTypeOK, FailWith

(* `ftdi_read_payload` returning keeps the types. *)
LEMMA ReturnType ==
    ASSUME FramingTypeOK, ReadReturns, line' \in GoodLines
    PROVE  ClientTypeOK' /\ payload' = payload
<1>1. CASE /\ copied \/ streak + 1 < Retries
           /\ streak' = IF copied THEN 0 ELSE streak + 1
           /\ copied' = FALSE
           /\ UNCHANGED <<streamVars, chunk, head, pc>>
  <2>1. streak' \in 0 .. Retries - 1
    BY <1>1, FramingAssumption DEF FramingTypeOK
  <2> QED
    BY <1>1, <2>1 DEF FramingTypeOK, ClientTypeOK, streamVars
<1>2. CASE FailWith("Incomplete")
  BY <1>2, FailType
<1> QED
  BY <1>1, <1>2 DEF ReadReturns

(* So does what it does with the bytes of a bulk read. *)
LEMMA TakeType ==
    ASSUME FramingTypeOK, NEW xfer \in Seq(Bytes), Take(xfer)
    PROVE  ClientTypeOK' /\ payload' = payload
<1>1. CASE Len(xfer) < 2 /\ ReadReturns /\ UNCHANGED line
  BY <1>1, ReturnType DEF FramingTypeOK
<1>2. CASE xfer[2] \in GoodLines /\ line' = xfer[2] /\ ReadReturns
  BY <1>2, ReturnType
<1>3. ASSUME NEW e, FailWith(e), UNCHANGED line
      PROVE  ClientTypeOK' /\ payload' = payload
  BY <1>3, FailType DEF FramingTypeOK
<1>4. CASE /\ pc' = "drain"
           /\ chunk' = xfer
           /\ head' = 0
           /\ UNCHANGED <<streamVars, line, copied, streak>>
  BY <1>4 DEF FramingTypeOK, ClientTypeOK, streamVars
<1> QED
  BY <1>1, <1>2, <1>3, <1>4 DEF Take

(* The chip's side of a bulk read. *)
LEMMA FetchType ==
    ASSUME FramingTypeOK, Fetch
    PROVE  FramingTypeOK'
<1>1. ASSUME NEW bytes \in Seq(Bytes), NEW c \in Cuts(bytes), bytes # <<>>
      PROVE  /\ SubSeq(bytes, 1, c) \in Seq(Bytes)
             /\ SubSeq(bytes, c + 1, Len(bytes)) \in Seq(Bytes)
  <2>1. Len(bytes) \in Nat \ {0} /\ \A i \in 1 .. Len(bytes) : bytes[i] \in Bytes
    BY <1>1
  <2>2. c \in 1 .. Len(bytes)
    BY <2>1, RequestType DEF Cuts, LesserOf
  <2> QED
    BY <2>1, <2>2, SubSeqProperties
<1>2. CASE rest # <<>>
  <2>1. PICK c \in Cuts(rest) :
            /\ Take(SubSeq(rest, 1, c))
            /\ rest' = SubSeq(rest, c + 1, Len(rest))
            /\ UNCHANGED <<sent, bad, lastLine>>
    BY <1>2 DEF Fetch
  <2>2. SubSeq(rest, 1, c) \in Seq(Bytes) /\ rest' \in Seq(Bytes)
    BY <1>1, <1>2, <2>1 DEF FramingTypeOK
  <2>3. ClientTypeOK' /\ payload' = payload
    BY <2>1, <2>2, TakeType
  <2> QED
    BY <2>1, <2>2, <2>3 DEF FramingTypeOK, ClientTypeOK
<1>3. CASE rest = <<>>
  <2>1. PICK k \in 0 .. Len(payload) - sent, n \in 1 .. Request \div 2 :
            /\ Fits(k, n)
            /\ sent' = sent + k
            /\ \E modem \in [1 .. n -> Modems], status \in [1 .. n -> Lines] :
                  LET bytes == Frame(k, n, modem, status) IN
                  /\ bad' = (bad \/ \E q \in 1 .. n :
                                       modem[q] # "modem" \/ status[q] \notin GoodLines)
                  /\ lastLine' = status[n]
                  /\ \E c \in Cuts(bytes) :
                        /\ Take(SubSeq(bytes, 1, c))
                        /\ rest' = SubSeq(bytes, c + 1, Len(bytes))
    BY <1>3, Zenon DEF Fetch
  <2>2. PICK modem \in [1 .. n -> Modems], status \in [1 .. n -> Lines] :
            LET bytes == Frame(k, n, modem, status) IN
            /\ bad' = (bad \/ \E q \in 1 .. n :
                                 modem[q] # "modem" \/ status[q] \notin GoodLines)
            /\ lastLine' = status[n]
            /\ \E c \in Cuts(bytes) :
                  /\ Take(SubSeq(bytes, 1, c))
                  /\ rest' = SubSeq(bytes, c + 1, Len(bytes))
    BY <2>1, Zenon
  <2> DEFINE bytes == Frame(k, n, modem, status)
  <2>3. n \in Nat \ {0} /\ (n - 1) * Room <= k /\ k <= n * Room /\ k \in Nat
    <3>1. Request \div 2 \in Nat
      BY RequestType
    <3> QED
      BY <2>1, <3>1 DEF Fits, Room, FramingTypeOK
  <2>4. bytes \in Seq(Bytes) /\ Len(bytes) = k + 2 * n
    BY <2>3, FrameBytes
  <2> HIDE DEF bytes
  <2>5. bytes # <<>>
    BY <2>3, <2>4
  <2>6. PICK c \in Cuts(bytes) :
            /\ Take(SubSeq(bytes, 1, c))
            /\ rest' = SubSeq(bytes, c + 1, Len(bytes))
    BY <2>2 DEF bytes
  <2>7. SubSeq(bytes, 1, c) \in Seq(Bytes) /\ rest' \in Seq(Bytes)
    BY <1>1, <2>4, <2>5, <2>6
  <2>8. ClientTypeOK' /\ payload' = payload
    BY <2>6, <2>7, TakeType
  <2>9. sent' \in 0 .. Len(payload) /\ bad' \in BOOLEAN
    BY <2>1, <2>2, <2>3 DEF FramingTypeOK
  <2>10. lastLine' \in Bytes
    BY <2>2, <2>3, FramingAssumption
  <2> QED
    BY <2>7, <2>8, <2>9, <2>10 DEF FramingTypeOK, ClientTypeOK
<1> QED
  BY <1>2, <1>3

(* Steps of a and b bytes from h on that stay within the rest. *)
LEMMA StaysWithin ==
    ASSUME NEW h \in Nat, NEW l \in Nat, NEW r \in Nat, r = l - h,
           NEW m \in Nat, m <= r, NEW a \in Nat, NEW b \in Nat, b <= m - a
    PROVE  h + a + b \in h .. l
OBVIOUS

(* How far one round of `drain_chunk` goes: within the chunk, and to no more *)
(* bytes than are needed.                                                   *)
LEMMA RoundStep ==
    ASSUME FramingTypeOK, Remaining > 0,
           NEW at, at = head % MaxPacket,
           NEW skip, skip = Skip(at),
           NEW n, n = LesserOf(Need, LesserOf(MaxPacket - at, Remaining) - skip)
    PROVE  /\ skip \in 0 .. 2 /\ n \in 0 .. Need
           /\ head + skip + n \in head .. Len(chunk)
           /\ Len(got) + n <= Len(payload)
<1>1. MaxPacket \in Nat /\ MaxPacket > 2 /\ MaxPacket \in Nat \ {0}
  BY FramingAssumption
<1>2. head \in Nat /\ Len(chunk) \in Nat /\ Remaining = Len(chunk) - head /\ Remaining \in Nat \ {0}
  BY DEF FramingTypeOK, Remaining
<1>3. at \in 0 .. MaxPacket - 1
  BY <1>1, <1>2
<1>4. skip \in 0 .. 2 /\ skip <= LesserOf(MaxPacket - at, Remaining)
  BY <1>1, <1>2, <1>3 DEF Skip, LesserOf
<1>5. LesserOf(MaxPacket - at, Remaining) \in Nat /\ LesserOf(MaxPacket - at, Remaining) <= Remaining
  BY <1>1, <1>2, <1>3 DEF LesserOf
<1>6. Need \in Nat /\ Need = Len(payload) - Len(got) /\ Len(payload) \in Nat /\ Len(got) \in Nat
  BY NeedType DEF Need
<1>7. n \in 0 .. Need /\ n <= LesserOf(MaxPacket - at, Remaining) - skip
  BY <1>4, <1>5, <1>6 DEF LesserOf
<1>8. head + skip + n \in head .. Len(chunk)
  <2> DEFINE most == LesserOf(MaxPacket - at, Remaining)
  <2>1. most \in Nat /\ most <= Remaining /\ n <= most - skip /\ n \in Nat /\ skip \in Nat
    <3>1. most \in Nat /\ most <= Remaining
      BY <1>5
    <3>2. n <= most - skip
      BY <1>7
    <3>3. n \in Nat
      BY <1>6, <1>7
    <3>4. skip \in Nat
      BY <1>4
    <3> HIDE DEF most
    <3> QED
      BY <3>1, <3>2, <3>3, <3>4
  <2> HIDE DEF most
  <2> QED
    BY <1>2, <2>1, StaysWithin
<1>9. Len(got) + n <= Len(payload)
  BY <1>6, <1>7
<1> QED
  BY <1>4, <1>7, <1>8, <1>9

(* A round of `drain_chunk` keeps the types. *)
LEMMA DrainType ==
    ASSUME FramingTypeOK, DrainPacket
    PROVE  FramingTypeOK'
<1> DEFINE at == head % MaxPacket
           skip == Skip(at)
           n == LesserOf(Need, LesserOf(MaxPacket - at, Remaining) - skip)
           lineSeen == at + skip = 2 /\ skip > 0
           newLine == chunk[head + skip]
<1>1. /\ skip \in 0 .. 2 /\ n \in 0 .. Need
      /\ head + skip + n \in head .. Len(chunk)
      /\ Len(got) + n <= Len(payload)
  BY RoundStep DEF DrainPacket
<1>2. pc = "drain" /\ UNCHANGED <<sent, rest, bad, lastLine>>
  BY DEF DrainPacket, chip
<1>3. ASSUME NEW e, FailWith(e), UNCHANGED line
      PROVE  FramingTypeOK'
  BY <1>2, <1>3, FailType DEF FramingTypeOK, ClientTypeOK
<1>4. CASE /\ lineSeen => newLine \in GoodLines
           /\ line' = IF lineSeen THEN newLine ELSE line
           /\ got' = got \o SubSeq(chunk, head + skip + 1, head + skip + n)
           /\ head' = head + skip + n
           /\ copied' = (copied \/ n > 0)
           /\ UNCHANGED <<payload, outcome, chunk, streak, pc>>
  <2> DEFINE piece == SubSeq(chunk, head + skip + 1, head + skip + n)
             seen == lineSeen
             status == newLine
  <2>1. chunk \in Seq(Bytes) /\ got \in Seq(Bytes) /\ head \in Nat
    BY DEF FramingTypeOK
  <2> HIDE DEF skip, n, lineSeen, newLine
  <2>2. \A i \in head + skip + 1 .. head + skip + n : chunk[i] \in Bytes
    BY <1>1, <2>1
  <2>3. piece \in Seq(Bytes) /\ Len(piece) = n
    BY <1>1, <2>1, <2>2, SubSeqProperties
  <2>4. got' \in Seq(Bytes) /\ Len(got') = Len(got) + n
    BY <1>4, <2>1, <2>3, ConcatProperties
  <2>5. line' \in GoodLines
    BY <1>4 DEF FramingTypeOK
  <2>6. head' \in 0 .. Len(chunk')
    BY <1>1, <1>4, <2>1
  <2> QED
    BY <1>1, <1>2, <1>4, <2>4, <2>5, <2>6 DEF FramingTypeOK
<1> QED
  BY <1>3, <1>4 DEF DrainPacket

(* So does every other step. *)
LEMMA OtherType ==
    ASSUME FramingTypeOK, StartRead \/ FetchNothing \/ FetchError \/ DrainEnd \/ CheckEnd
    PROVE  FramingTypeOK'
<1>0. <<>> \in Seq(Bytes) /\ Len(<<>>) = 0 /\ 0 \in 0 .. Retries - 1 /\ FramingAssumption
  BY FramingAssumption
<1>1. CASE StartRead
  <2>1. payload' \in Seq(Values) /\ Len(payload') \in 1 .. MaxLen
    BY <1>1, FramingAssumption DEF StartRead, Start, Payloads
  <2>2. got' = <<>> /\ sent' = 0 /\ rest' = <<>> /\ streak' = 0 /\ pc' = "fetch"
    BY <1>1 DEF StartRead, Start
  <2>3. bad' \in BOOLEAN /\ copied' \in BOOLEAN
    BY <1>1 DEF StartRead
  <2>4. chunk' = chunk /\ head' = head /\ line' = line /\ lastLine' = lastLine
    BY <1>1 DEF StartRead, session
  <2> QED
    BY <1>0, <2>1, <2>2, <2>3, <2>4 DEF FramingTypeOK
<1>2. CASE FetchNothing
  BY <1>0, <1>2, TakeType DEF FetchNothing, chip, FramingTypeOK, ClientTypeOK
<1>3. CASE FetchError
  BY <1>3, FailType DEF FetchError, chip, FramingTypeOK, ClientTypeOK
<1>4. CASE DrainEnd
  <2>1. UNCHANGED <<payload, got, sent, rest, bad, lastLine, line>>
    BY <1>4 DEF DrainEnd, chip, streamVars
  <2>2. chunk' \in Seq(Bytes) /\ head' \in 0 .. Len(chunk')
    BY <1>0, <1>4 DEF DrainEnd, FramingTypeOK
  <2>3. pc' \in {"fetch", "check"} /\ copied' \in BOOLEAN /\ streak' \in 0 .. Retries - 1
    BY <1>0, <1>4 DEF DrainEnd, FramingTypeOK
  <2> QED
    BY <2>1, <2>2, <2>3 DEF FramingTypeOK
<1>5. CASE CheckEnd
  <2>1. ASSUME NEW e, FailWith(e)
        PROVE  FramingTypeOK'
    BY <1>5, <2>1, FailType DEF CheckEnd, chip, FramingTypeOK, ClientTypeOK
  <2>2. CASE pc' = "idle" /\ UNCHANGED <<payload, got, chunk, head, copied, streak>>
    BY <1>5, <2>2 DEF CheckEnd, chip, FramingTypeOK
  <2> QED
    BY <1>5, <2>1, <2>2 DEF CheckEnd
<1> QED
  BY <1>1, <1>2, <1>3, <1>4, <1>5

(* Every state of a read command is well typed. *)
THEOREM FramingTypes == FramingSpec => []FramingTypeOK
<1>1. FramingInit => FramingTypeOK
  <2>1. <<>> \in Seq(Bytes) /\ <<>> \in Seq(Values) /\ Len(<<>>) = 0
    OBVIOUS
  <2>2. 0 \in 0 .. Retries - 1 /\ 0 <= MaxLen
    BY FramingAssumption
  <2> SUFFICES ASSUME FramingInit PROVE FramingTypeOK
    OBVIOUS
  <2>3. /\ payload = <<>> /\ got = <<>> /\ sent = 0 /\ rest = <<>> /\ chunk = <<>>
        /\ head = 0 /\ line \in GoodLines /\ streak = 0 /\ pc = "idle"
    BY DEF FramingInit, StreamInit
  <2>4. bad \in BOOLEAN /\ copied \in BOOLEAN /\ lastLine \in Bytes
    BY DEF FramingInit, GoodLines, Bytes
  <2> QED
    BY <2>1, <2>2, <2>3, <2>4 DEF FramingTypeOK
<1>2. FramingTypeOK /\ [FramingNext]_framingVars => FramingTypeOK'
  <2> SUFFICES ASSUME FramingTypeOK, [FramingNext]_framingVars
               PROVE  FramingTypeOK'
    OBVIOUS
  <2>1. CASE FramingNext
    BY <2>1, FetchType, DrainType, OtherType DEF FramingNext
  <2>2. CASE UNCHANGED framingVars
    BY <2>2 DEF framingVars, chip, streamVars, session, FramingTypeOK
  <2> QED
    BY <2>1, <2>2
<1> QED
  BY <1>1, <1>2, PTL DEF FramingSpec

(***************************************************************************)
(* The stream, with bulk reads that end at the end of a packet             *)
(***************************************************************************)

(* Payload of the chunk that is not copied yet. *)
Left == sent - Len(got)

(* The q-th packet from head has the status bytes it should have. *)
PacketGood(q) ==
    /\ chunk[head + q * MaxPacket + 1] = "modem"
    /\ chunk[head + q * MaxPacket + 2] \in GoodLines

(* Ahead of head are m packets, all full but the last, with the next bytes  *)
(* of the payload, in order, and every bad status byte there is; the latest *)
(* line status sent is that of the last of them, or the one remembered.     *)
Ahead(m) ==
    /\ Left >= 0
    /\ Remaining = Left + 2 * m
    /\ (m - 1) * Room <= Left
    /\ Left <= m * Room
    /\ m > 0 /\ Left = Need => (m - 1) * Room < Left
    /\ m > 0 => head % MaxPacket = 0
    /\ \A q \in 0 .. m - 1, a \in 3 .. MaxPacket :
          q * MaxPacket + a <= Remaining =>
              chunk[head + q * MaxPacket + a] = payload[Len(got) + q * Room + a - 2]
    /\ bad <=> \E q \in 0 .. m - 1 : ~ PacketGood(q)
    /\ m > 0 => chunk[head + (m - 1) * MaxPacket + 2] = lastLine
    /\ m = 0 => line = lastLine

(* The inductive invariant, beside the types: between two bulk reads all    *)
(* that came is in the buffer and was good, within one it is Ahead.         *)
WholeInv ==
    /\ rest = <<>>
    /\ got = SubSeq(payload, 1, Len(got))
    /\ pc = "idle" <=> outcome # "reading"
    /\ pc # "drain" => chunk = <<>>
    /\ pc \in {"fetch", "check"} => Left = 0 /\ ~ bad
    /\ pc = "fetch" => Need > 0
    /\ pc = "check" => Need = 0 /\ line = lastLine
    /\ pc = "drain" => \E m \in 0 .. Len(chunk) : Ahead(m)
    /\ StatusChecked
    /\ GoodChipAccepted

(* What the code above sees of a step. *)
Streamed == StreamNext \/ UNCHANGED streamVars

(* A command may fail at any time, for a bad status only if there was one.  *)
LEMMA FailStep ==
    ASSUME WholeInv, pc # "idle", NEW e, FailWith(e), rest' = <<>>,
           e \notin {"none", "reading", "Ok"},
           e \in {"ModemStatus", "LineStatus", "ExcessPayload"} => bad'
    PROVE  WholeInv' /\ Streamed
<1>1. /\ pc' = "idle" /\ outcome' = e /\ got' = <<>> /\ chunk' = <<>> /\ payload' = payload
      /\ outcome = "reading"
  BY DEF FailWith, WholeInv
<1>2. <<>> = SubSeq(payload, 1, 0) /\ Len(<<>>) = 0
  BY SubSeqEmpty
<1>3. WholeInv'
  BY <1>1, <1>2 DEF WholeInv, StatusChecked, GoodChipAccepted
<1>4. Fail
  BY <1>1 DEF Fail
<1> QED
  BY <1>3, <1>4 DEF Streamed, StreamNext

(* `ftdi_read_payload` returns from bulk reads that brought only good status. *)
LEMMA ReturnStep ==
    ASSUME FramingTypeOK, WholeInv, pc = "fetch", ReadReturns,
           rest' = <<>>, sent' = sent, bad' = bad
    PROVE  WholeInv' /\ Streamed
<1>1. CASE UNCHANGED <<streamVars, chunk, head, pc>>
  <2>1. WholeInv'
    BY <1>1 DEF WholeInv, streamVars, Left, Need, StatusChecked, GoodChipAccepted
  <2> QED
    BY <1>1, <2>1 DEF Streamed
<1>2. CASE FailWith("Incomplete")
  BY <1>2, FailStep
<1> QED
  BY <1>1, <1>2 DEF ReadReturns

(* A command begins with an empty chunk. *)
LEMMA StartStep ==
    ASSUME FramingTypeOK, WholeInv, StartRead
    PROVE  WholeInv' /\ Streamed
<1>1. payload' \in Seq(Values) /\ Len(payload') \in Nat \ {0}
  BY FramingAssumption DEF StartRead, Start, Payloads
<1>2. /\ got' = <<>> /\ outcome' = "reading" /\ sent' = 0 /\ rest' = <<>> /\ bad' = FALSE
      /\ pc' = "fetch" /\ chunk' = chunk /\ chunk = <<>>
  BY DEF StartRead, Start, session, WholeInv
<1>3. <<>> = SubSeq(payload', 1, 0) /\ Len(<<>>) = 0
  BY SubSeqEmpty
<1>4. WholeInv'
  <2>1. got' = SubSeq(payload', 1, Len(got'))
    BY <1>2, <1>3
  <2>2. Len(got') = 0
    BY <1>2, <1>3
  <2>4. ~ bad'
    BY <1>2
  <2>5. Left' = 0
    <3>1. sent' = 0
      BY <1>2
    <3> QED
      BY <2>2, <3>1 DEF Left
  <2>6. Need' > 0
    BY <1>1, <2>2 DEF Need
  <2>3. Left' = 0 /\ Need' > 0 /\ ~ bad'
    BY <2>4, <2>5, <2>6
  <2> QED
    BY <1>2, <2>1, <2>3 DEF WholeInv, StatusChecked, GoodChipAccepted
<1> QED
  BY <1>4 DEF StartRead, Streamed, StreamNext

(* Bulk reads that bring nothing. *)
LEMMA NothingStep ==
    ASSUME FramingTypeOK, WholeInv, FetchNothing \/ FetchError
    PROVE  WholeInv' /\ Streamed
<1>1. pc = "fetch" /\ rest' = <<>> /\ sent' = sent /\ bad' = bad
  BY DEF FetchNothing, FetchError, chip, WholeInv
<1>2. CASE FetchError
  BY <1>1, <1>2, FailStep DEF FetchError
<1>3. CASE FetchNothing
  <2>1. Len(<<>>) = 0
    OBVIOUS
  <2>2. ReadReturns
    BY <1>3, <2>1 DEF FetchNothing, Take
  <2> QED
    BY <1>1, <2>2, ReturnStep
<1> QED
  BY <1>2, <1>3

(* A bulk read returns whole packets: either one with nothing but its two   *)
(* status bytes, or all of Ahead.                                           *)
LEMMA FetchStep ==
    ASSUME ~ Splits, FramingTypeOK, WholeInv, Fetch
    PROVE  WholeInv' /\ Streamed
<1>1. /\ pc = "fetch" /\ rest = <<>> /\ Left = 0 /\ ~ bad /\ Need > 0 /\ chunk = <<>>
      /\ outcome = "reading" /\ got = SubSeq(payload, 1, Len(got))
  BY DEF Fetch, WholeInv
<1>2. /\ sent \in Nat /\ Len(got) \in Nat /\ Len(payload) \in Nat /\ sent = Len(got)
      /\ Need = Len(payload) - Len(got)
  BY <1>1 DEF FramingTypeOK, Left, Need
<1>3. PICK k \in 0 .. Len(payload) - sent, n \in 1 .. Request \div 2 :
          /\ Fits(k, n)
          /\ sent' = sent + k
          /\ \E modem \in [1 .. n -> Modems], status \in [1 .. n -> Lines] :
                LET bytes == Frame(k, n, modem, status) IN
                /\ bad' = (bad \/ \E q \in 1 .. n :
                                     modem[q] # "modem" \/ status[q] \notin GoodLines)
                /\ lastLine' = status[n]
                /\ \E c \in Cuts(bytes) :
                      /\ Take(SubSeq(bytes, 1, c))
                      /\ rest' = SubSeq(bytes, c + 1, Len(bytes))
  BY <1>1, Zenon DEF Fetch
<1>4. PICK modem \in [1 .. n -> Modems], status \in [1 .. n -> Lines] :
          LET bytes == Frame(k, n, modem, status) IN
          /\ bad' = (bad \/ \E q \in 1 .. n :
                               modem[q] # "modem" \/ status[q] \notin GoodLines)
          /\ lastLine' = status[n]
          /\ \E c \in Cuts(bytes) :
                /\ Take(SubSeq(bytes, 1, c))
                /\ rest' = SubSeq(bytes, c + 1, Len(bytes))
  BY <1>3, Zenon
<1> DEFINE bytes == Frame(k, n, modem, status)
<1>5. n \in Nat \ {0} /\ (n - 1) * Room <= k /\ k <= n * Room /\ k \in Nat /\ k <= Need
  <2>1. Request \div 2 \in Nat
    BY RequestType
  <2> QED
    BY <1>2, <1>3, <2>1 DEF Fits, Room
<1>6. /\ bytes \in Seq(Bytes) /\ Len(bytes) = k + 2 * n
      /\ \A q \in 0 .. n - 1 :
            /\ bytes[q * MaxPacket + 1] = modem[q + 1]
            /\ bytes[q * MaxPacket + 2] = status[q + 1]
      /\ \A q \in 0 .. n - 1, a \in 3 .. MaxPacket :
            q * MaxPacket + a <= k + 2 * n =>
                bytes[q * MaxPacket + a] = payload[sent + q * Room + a - 2]
  BY <1>5, FrameBytes
<1>7. bad' <=> \E q \in 1 .. n : modem[q] # "modem" \/ status[q] \notin GoodLines
  BY <1>1, <1>4
<1> HIDE DEF bytes
<1>8. Take(bytes) /\ rest' = <<>>
  <2>1. PICK c \in Cuts(bytes) :
            /\ Take(SubSeq(bytes, 1, c))
            /\ rest' = SubSeq(bytes, c + 1, Len(bytes))
    BY <1>4 DEF bytes
  <2>2. c = Len(bytes) /\ c \in Nat
    BY <1>5, <1>6, <2>1 DEF Cuts
  <2>3. SubSeq(bytes, 1, c) = bytes
    BY <1>6, <2>2, SubSeqFull
  <2>4. SubSeq(bytes, c + 1, Len(bytes)) = <<>>
    BY <2>2, SubSeqEmpty
  <2> QED
    BY <2>1, <2>3, <2>4
<1>9. n \in Nat \ {0} /\ k \in Nat /\ Len(bytes) = k + 2 * n /\ Len(bytes) >= 2
  <2>1. n \in Nat \ {0} /\ k \in Nat
    BY <1>5
  <2> QED
    BY <1>6, <2>1
<1>10. CASE Len(bytes) = 2
  <2>1. k = 0 /\ n = 1
    <3>1. \A i \in Nat, j \in Nat \ {0} : i + 2 * j = 2 => i = 0 /\ j = 1
      OBVIOUS
    <3> QED
      BY <1>9, <1>10, <3>1
  <2>2. bytes[1] = modem[1] /\ bytes[2] = status[1]
    <3>1. 0 * MaxPacket = 0
      BY RoomType
    <3> QED
      BY <1>6, <2>1, <3>1
  <2>3. bad' <=> bytes[1] # "modem" \/ bytes[2] \notin GoodLines
    BY <1>7, <2>1, <2>2
  <2>4. sent' = sent
    BY <1>2, <1>3, <2>1
  <2>5. CASE bytes[1] = "modem" /\ bytes[2] \in GoodLines /\ ReadReturns
    <3>1. bad' = bad
      BY <1>1, <2>3, <2>5, FetchType DEF FramingTypeOK
    <3> QED
      BY <1>1, <1>8, <2>4, <2>5, <3>1, ReturnStep
  <2>6. CASE bytes[1] # "modem" /\ FailWith("ModemStatus")
    BY <1>1, <1>8, <2>3, <2>6, FailStep
  <2>7. CASE bytes[2] \notin GoodLines /\ FailWith("LineStatus")
    BY <1>1, <1>8, <2>3, <2>7, FailStep
  <2> QED
    BY <1>8, <1>10, <2>5, <2>6, <2>7 DEF Take
<1>11. CASE Len(bytes) > 2
  <2>1. pc' = "drain" /\ chunk' = bytes /\ head' = 0 /\ UNCHANGED streamVars
    BY <1>8, <1>9, <1>11 DEF Take
  <2>2. Left' = k /\ Need' = Need /\ Remaining' = k + 2 * n
    BY <1>2, <1>3, <1>5, <1>6, <2>1 DEF Left, Need, Remaining, streamVars
  <2>3. k = Need => (n - 1) * Room < k
    BY <1>1, <1>3, <1>5, NoPacketAfter
  <2>4. 0 % MaxPacket = 0
    BY RoomType
  <2>5. ASSUME NEW q \in 0 .. n - 1, NEW a \in 3 .. MaxPacket, q * MaxPacket + a <= Remaining'
        PROVE  chunk'[head' + q * MaxPacket + a] = payload'[Len(got') + q * Room + a - 2]
    <3>1. bytes[q * MaxPacket + a] = payload[sent + q * Room + a - 2]
      BY <1>6, <2>2, <2>5
    <3>2. head' + q * MaxPacket + a = q * MaxPacket + a
      BY <2>1, RoomType
    <3> QED
      BY <1>2, <2>1, <3>1, <3>2 DEF streamVars
  <2>6. ASSUME NEW q \in 0 .. n - 1
        PROVE  PacketGood(q)' <=> modem[q + 1] = "modem" /\ status[q + 1] \in GoodLines
    <3>1. head' + q * MaxPacket + 1 = q * MaxPacket + 1 /\ head' + q * MaxPacket + 2 = q * MaxPacket + 2
      BY <2>1, RoomType
    <3> QED
      BY <1>6, <2>1, <3>1 DEF PacketGood
  <2>7. bad' <=> \E q \in 0 .. n - 1 : ~ PacketGood(q)'
    <3>1. ASSUME NEW q \in 0 .. n - 1, ~ PacketGood(q)'
          PROVE  bad'
      <4>1. q + 1 \in 1 .. n
        BY <1>5
      <4> QED
        BY <1>7, <2>6, <3>1, <4>1
    <3>2. ASSUME NEW p \in 1 .. n, modem[p] # "modem" \/ status[p] \notin GoodLines
          PROVE  \E q \in 0 .. n - 1 : ~ PacketGood(q)'
      <4>1. p - 1 \in 0 .. n - 1 /\ (p - 1) + 1 = p
        BY <1>5
      <4>2. ~ PacketGood(p - 1)'
        BY <2>6, <3>2, <4>1
      <4> QED
        BY <4>1, <4>2
    <3> QED
      BY <1>7, <3>1, <3>2
  <2>11. chunk'[head' + (n - 1) * MaxPacket + 2] = lastLine'
    <3>1. n - 1 \in 0 .. n - 1 /\ (n - 1) + 1 = n
      BY <1>5
    <3>2. bytes[(n - 1) * MaxPacket + 2] = status[n]
      BY <1>6, <3>1
    <3>3. head' + (n - 1) * MaxPacket + 2 = (n - 1) * MaxPacket + 2
      BY <1>5, <2>1, RoomType
    <3> QED
      BY <1>4, <2>1, <3>2, <3>3
  <2>8. Ahead(n)'
    BY <1>5, <2>1, <2>2, <2>3, <2>4, <2>5, <2>7, <2>11 DEF Ahead
  <2>9. n \in 0 .. Len(chunk')
    BY <1>5, <1>6, <2>1
  <2>10. WholeInv'
    BY <1>1, <1>8, <2>1, <2>8, <2>9 DEF WholeInv, streamVars, StatusChecked, GoodChipAccepted
  <2> QED
    BY <2>1, <2>10 DEF Streamed
<1> QED
  BY <1>9, <1>10, <1>11

(* The packet at head: all of the rest when it is the last, full otherwise. *)
LEMMA NextPacket ==
    ASSUME FramingTypeOK, NEW m \in Nat, Ahead(m), Remaining > 0
    PROVE  /\ m >= 1 /\ Left \in Nat /\ Left <= Need
           /\ m = 1 => Left <= Room /\ Remaining = Left + 2
           /\ m > 1 => Left >= Room /\ Remaining > MaxPacket
<1>1. MaxPacket \in Nat \ {0} /\ Room \in Nat \ {0} /\ MaxPacket = Room + 2
  BY RoomType
<1>2. Left \in Nat /\ Left <= Need
  <2>1. sent \in 0 .. Len(payload) /\ Len(payload) \in Nat /\ Len(got) \in Nat
    BY NeedType DEF FramingTypeOK
  <2> QED
    BY <2>1 DEF Ahead, Left, Need
<1>3. /\ Remaining = Left + 2 * m /\ (m - 1) * Room <= Left /\ Left <= m * Room
  BY DEF Ahead
<1>4. m # 0
  <2> SUFFICES ASSUME m = 0 PROVE FALSE
    OBVIOUS
  <2>1. 0 * Room = 0
    BY <1>1
  <2> QED
    BY <1>2, <1>3, <2>1
<1>5. m = 1 => Left <= Room /\ Remaining = Left + 2
  BY <1>1, <1>2, <1>3
<1>6. ASSUME m > 1
      PROVE  Left >= Room /\ Remaining > MaxPacket
  <2>1. 1 * Room <= (m - 1) * Room
    BY <1>1, <1>6, ProductMonotone
  <2>2. Left >= Room
    BY <1>1, <1>2, <1>3, <2>1
  <2> QED
    BY <1>1, <1>2, <1>3, <1>6, <2>2
<1> QED
  BY <1>2, <1>4, <1>5, <1>6

(* One round of `drain_chunk` takes the packet at head off what is Ahead. *)
LEMMA DrainStep ==
    ASSUME FramingTypeOK, WholeInv, DrainPacket
    PROVE  WholeInv' /\ Streamed
<1> DEFINE at == head % MaxPacket
           skip == Skip(at)
           n == LesserOf(Need, LesserOf(MaxPacket - at, Remaining) - skip)
           lineSeen == at + skip = 2 /\ skip > 0
           newLine == chunk[head + skip]
<1>1. /\ pc = "drain" /\ Remaining > 0 /\ Need > 0 /\ UNCHANGED <<sent, rest, bad, lastLine>>
      /\ rest = <<>> /\ outcome = "reading" /\ got = SubSeq(payload, 1, Len(got))
  BY DEF DrainPacket, chip, WholeInv
<1>2. PICK m \in 0 .. Len(chunk) : Ahead(m)
  BY <1>1 DEF WholeInv
<1> DEFINE c == IF m = 1 THEN Left ELSE Room
<1>3. MaxPacket \in Nat \ {0} /\ Room \in Nat \ {0} /\ MaxPacket = Room + 2
  BY RoomType
<1>4. /\ head \in Nat /\ Len(chunk) \in Nat /\ Remaining = Len(chunk) - head
      /\ Len(got) \in Nat /\ Len(payload) \in Nat /\ Need = Len(payload) - Len(got)
      /\ sent \in Nat /\ Left = sent - Len(got) /\ m \in Nat
  BY <1>2 DEF FramingTypeOK, Remaining, Need, Left
<1>5. /\ m >= 1 /\ Left \in Nat /\ Left <= Need
      /\ m = 1 => Left <= Room /\ Remaining = Left + 2
      /\ m > 1 => Left >= Room /\ Remaining > MaxPacket
  BY <1>1, <1>2, <1>4, NextPacket
<1>6. at = 0
  BY <1>2, <1>4, <1>5 DEF Ahead
<1>7. skip = 2
  BY <1>3, <1>4, <1>5, <1>6 DEF Skip, LesserOf
<1>8. c \in Nat /\ c <= Left /\ c <= Need /\ c + 2 <= Remaining
  BY <1>3, <1>4, <1>5
<1>9. n = c
  <2>1. CASE m = 1
    <3>1. LesserOf(MaxPacket - 0, Remaining) = Left + 2
      BY <1>3, <1>5, <2>1 DEF LesserOf
    <3>2. LesserOf(Need, Left) = Left
      BY <1>4, <1>5 DEF LesserOf
    <3>3. (Left + 2) - 2 = Left
      BY <1>5
    <3> QED
      BY <1>6, <1>7, <2>1, <3>1, <3>2, <3>3
  <2>2. CASE m > 1
    <3>1. LesserOf(MaxPacket - 0, Remaining) = Room + 2
      BY <1>3, <1>4, <1>5, <2>2 DEF LesserOf
    <3>2. LesserOf(Need, Room) = Room
      BY <1>3, <1>4, <1>5, <2>2 DEF LesserOf
    <3>3. (Room + 2) - 2 = Room /\ m # 1
      BY <1>3, <1>4, <2>2
    <3> QED
      BY <1>6, <1>7, <3>1, <3>2, <3>3
  <2> QED
    BY <1>4, <1>5, <2>1, <2>2
<1>10. (chunk[head + 1] # "modem" \/ chunk[head + 2] \notin GoodLines) <=> ~ PacketGood(0)
  <2>1. head + 0 * MaxPacket + 1 = head + 1 /\ head + 0 * MaxPacket + 2 = head + 2
    BY <1>3, <1>4
  <2> QED
    BY <2>1 DEF PacketGood
<1>11. ~ PacketGood(0) => bad'
  <2>1. 0 \in 0 .. m - 1
    BY <1>4, <1>5
  <2> QED
    BY <1>1, <1>2, <2>1 DEF Ahead
<1>12. CASE chunk[head + 1] # "modem" /\ FailWith("ModemStatus")
  BY <1>1, <1>10, <1>11, <1>12, FailStep
<1>13. CASE lineSeen /\ newLine \notin GoodLines /\ FailWith("LineStatus")
  <2>1. ~ PacketGood(0)
    BY <1>7, <1>10, <1>13
  <2> QED
    BY <1>1, <1>11, <1>13, <2>1, FailStep
<1>14. CASE /\ at = 0 => chunk[head + 1] = "modem"
            /\ lineSeen => newLine \in GoodLines
            /\ line' = IF lineSeen THEN newLine ELSE line
            /\ got' = got \o SubSeq(chunk, head + skip + 1, head + skip + n)
            /\ head' = head + skip + n
            /\ UNCHANGED <<payload, outcome, chunk, streak, pc>>
  <2>10. line' = chunk[head + 2]
    BY <1>6, <1>7, <1>14
  <2>1. PacketGood(0)
    BY <1>6, <1>7, <1>10, <1>14
  <2>2. /\ got' = got \o SubSeq(chunk, head + 3, head + 2 + c)
        /\ head' = head + 2 + c /\ payload' = payload /\ outcome' = outcome
        /\ chunk' = chunk /\ pc' = pc
    <3>1. head + 2 + 1 = head + 3
      BY <1>4
    <3> QED
      BY <1>7, <1>9, <1>14, <3>1
  <2>0. /\ m = 1 => c = Left
        /\ m > 1 => c = Room
        /\ c <= Room
    BY <1>3, <1>4, <1>5
  <2> HIDE DEF at, skip, n, lineSeen, newLine, c
  <2>3. got' = SubSeq(payload, 1, Len(got) + c) /\ Len(got') = Len(got) + c
    <3> DEFINE piece == SubSeq(chunk, head + 3, head + 2 + c)
               more == SubSeq(payload, 1, Len(got) + c)
    <3>1. chunk \in Seq(Bytes) /\ got \in Seq(Bytes) /\ payload \in Seq(Bytes)
      BY FramingAssumption DEF FramingTypeOK
    <3>2. ASSUME NEW i \in head + 3 .. head + 2 + c
          PROVE  chunk[i] \in Bytes
      BY <1>4, <1>8, <3>1
    <3>3. /\ piece \in Seq(Bytes) /\ Len(piece) = c
          /\ \A j \in 1 .. c : piece[j] = chunk[head + 3 + j - 1]
      BY <1>4, <1>8, <3>2, SubSeqProperties
    <3>4. /\ more \in Seq(Bytes) /\ Len(more) = Len(got) + c
          /\ \A j \in 1 .. Len(got) + c : more[j] = payload[j]
      BY <1>4, <1>8, <3>1
    <3>5. ASSUME NEW j \in 1 .. c
          PROVE  piece[j] = payload[Len(got) + j]
      <4>1. piece[j] = chunk[head + 3 + j - 1]
        BY <3>3
      <4>2. j + 2 \in 3 .. MaxPacket /\ 0 * MaxPacket + (j + 2) <= Remaining /\ 0 \in 0 .. m - 1
        BY <1>3, <1>4, <1>5, <1>8, <2>0
      <4>3. chunk[head + 0 * MaxPacket + (j + 2)] = payload[Len(got) + 0 * Room + (j + 2) - 2]
        BY <1>2, <4>2 DEF Ahead
      <4>4. head + 0 * MaxPacket + (j + 2) = head + 3 + j - 1
            /\ Len(got) + 0 * Room + (j + 2) - 2 = Len(got) + j
        BY <1>3, <1>4, <1>8
      <4> QED
        BY <4>1, <4>3, <4>4
    <3>6. ASSUME NEW j \in 1 .. Len(got)
          PROVE  got[j] = payload[j]
      <4>1. SubSeq(payload, 1, Len(got))[j] = payload[j]
        BY <1>4, <3>1, NeedType
      <4> QED
        BY <1>1, <4>1
    <3> HIDE DEF piece, more
    <3>7. /\ got \o piece \in Seq(Bytes)
          /\ Len(got \o piece) = Len(got) + c
          /\ \A j \in 1 .. Len(got) + c :
                (got \o piece)[j] = IF j <= Len(got) THEN got[j] ELSE piece[j - Len(got)]
      BY <3>1, <3>3, ConcatProperties
    <3>8. ASSUME NEW j \in 1 .. Len(got) + c
          PROVE  (got \o piece)[j] = more[j]
      <4>1. CASE j <= Len(got)
        BY <1>4, <3>4, <3>6, <3>7, <4>1
      <4>2. CASE j > Len(got)
        <5>1. j - Len(got) \in 1 .. c /\ Len(got) + (j - Len(got)) = j
          BY <1>4, <1>8, <4>2
        <5>2. piece[j - Len(got)] = payload[j]
          BY <3>5, <5>1
        <5> QED
          BY <1>4, <3>4, <3>7, <4>2, <5>2
      <4>3. j \in Nat /\ Len(got) \in Nat
        BY <1>4, <1>8
      <4>4. j <= Len(got) \/ j > Len(got)
        BY <4>3
      <4> QED
        BY <4>1, <4>2, <4>4, Zenon
    <3>9. got \o piece = more
      BY <3>4, <3>7, <3>8, SeqEqual
    <3>10. got' = got \o piece
      BY <2>2 DEF piece
    <3> QED
      BY <3>4, <3>9, <3>10 DEF more
  <2>4. /\ Left' = Left - c /\ Need' = Need - c /\ Remaining' = Remaining - c - 2
        /\ head' = head + (c + 2)
    <3>1. sent' = sent
      BY <1>1
    <3>2. Left' = Left - c
      BY <1>4, <1>8, <2>3, <3>1 DEF Left
    <3>3. Need' = Need - c
      BY <1>4, <1>8, <2>2, <2>3 DEF Need
    <3>4. Remaining' = Remaining - c - 2 /\ head' = head + (c + 2)
      BY <1>4, <1>8, <2>2 DEF Remaining
    <3> QED
      BY <3>2, <3>3, <3>4
  <2>5. Ahead(m - 1)'
    <3>1. /\ Remaining = Left + 2 * m /\ (m - 1) * Room <= Left /\ Left <= m * Room
          /\ Left = Need => (m - 1) * Room < Left
          /\ head % MaxPacket = 0
      BY <1>2, <1>4, <1>5 DEF Ahead
    <3>2. Left' >= 0 /\ Remaining' = Left' + 2 * (m - 1)
      <4>1. Remaining = Left + 2 * m
        BY <1>2 DEF Ahead
      <4>2. Left' = Left - c /\ Remaining' = Remaining - c - 2
        BY <2>4
      <4>3. Left \in Nat /\ c \in Nat /\ c <= Left /\ m \in Nat
        BY <1>4, <1>5, <1>8
      <4> QED
        BY <4>1, <4>2, <4>3
    <3>3. /\ (m - 1) * Room = ((m - 1) - 1) * Room + Room
          /\ m * Room = (m - 1) * Room + Room
      BY <1>3, <1>4
    <3>4. ((m - 1) - 1) * Room <= Left' /\ Left' <= (m - 1) * Room
      <4>1. CASE m = 1
        <5>1. ((m - 1) - 1) * Room = 0 - Room /\ (m - 1) * Room = 0 /\ Left' = 0
          BY <1>3, <1>5, <2>0, <2>4, <4>1
        <5> QED
          BY <1>3, <5>1
      <4>2. CASE m > 1
        <5>1. Left' = Left - Room /\ (m - 1) * Room \in Int /\ ((m - 1) - 1) * Room \in Int
          BY <1>3, <1>4, <2>0, <2>4, <4>2
        <5> QED
          BY <1>3, <1>5, <3>1, <3>3, <5>1
      <4> QED
        BY <1>4, <1>5, <4>1, <4>2
    <3>5. ASSUME m - 1 > 0, Left' = Need'
          PROVE  ((m - 1) - 1) * Room < Left'
      <4>1. Left = Need /\ Left' = Left - Room
        BY <1>4, <1>5, <1>8, <2>0, <2>4, <3>5
      <4> QED
        BY <1>3, <1>4, <1>5, <3>1, <3>3, <4>1
    <3>6. ASSUME m - 1 > 0
          PROVE  head' % MaxPacket = 0
      <4>1. PICK q \in Nat : head = q * MaxPacket
        <5>1. head \div MaxPacket \in Nat /\ head = (head \div MaxPacket) * MaxPacket + (head % MaxPacket)
          BY <1>4, InPacket
        <5>2. (head \div MaxPacket) * MaxPacket \in Nat
          BY <1>3, <5>1
        <5> QED
          BY <3>1, <5>1, <5>2
      <4>2. head' = (q + 1) * MaxPacket + 0
        <5>1. (q + 1) * MaxPacket + 0 = q * MaxPacket + MaxPacket
          BY <1>3
        <5>2. m > 1
          BY <1>4, <3>6
        <5>3. head' = head + MaxPacket
          BY <1>3, <1>4, <2>0, <2>4, <5>2
        <5> QED
          BY <4>1, <5>1, <5>3
      <4>3. ((q + 1) * MaxPacket + 0) % MaxPacket = 0
        <5>1. q + 1 \in Nat /\ 0 \in 0 .. MaxPacket - 1
          BY <1>3
        <5> QED
          BY <5>1, Position
      <4> QED
        BY <4>2, <4>3
    <3>7. ASSUME NEW q \in 0 .. (m - 1) - 1, NEW a \in Nat
          PROVE  /\ q + 1 \in 0 .. m - 1
                 /\ head' + q * MaxPacket + a = head + (q + 1) * MaxPacket + a
                 /\ Len(got') + q * Room + a - 2 = Len(got) + (q + 1) * Room + a - 2
                 /\ q * MaxPacket + a <= Remaining' => (q + 1) * MaxPacket + a <= Remaining
      <4>1. m > 1 /\ q \in Nat /\ c = Room
        BY <1>4, <2>0, <3>7
      <4>2. (q + 1) * MaxPacket = q * MaxPacket + MaxPacket /\ (q + 1) * Room = q * Room + Room
            /\ q * MaxPacket \in Nat /\ q * Room \in Nat
        BY <1>3, <4>1
      <4>3. head' = head + MaxPacket /\ Len(got') = Len(got) + Room /\ Remaining' = Remaining - MaxPacket
        BY <1>3, <1>4, <2>3, <2>4, <4>1
      <4> QED
        BY <1>3, <1>4, <3>7, <4>1, <4>2, <4>3
    <3>8. ASSUME NEW q \in 0 .. (m - 1) - 1, NEW a \in 3 .. MaxPacket, q * MaxPacket + a <= Remaining'
          PROVE  chunk'[head' + q * MaxPacket + a] = payload'[Len(got') + q * Room + a - 2]
      <4>1. a \in Nat
        BY <1>3
      <4>2. chunk[head + (q + 1) * MaxPacket + a] = payload[Len(got) + (q + 1) * Room + a - 2]
        BY <1>2, <3>7, <3>8, <4>1 DEF Ahead
      <4> QED
        BY <2>2, <3>7, <4>1, <4>2
    <3>9. ASSUME NEW q \in 0 .. (m - 1) - 1
          PROVE  PacketGood(q)' <=> PacketGood(q + 1)
      <4>1. /\ head' + q * MaxPacket + 1 = head + (q + 1) * MaxPacket + 1
            /\ head' + q * MaxPacket + 2 = head + (q + 1) * MaxPacket + 2
        BY <3>7
      <4> QED
        BY <2>2, <4>1 DEF PacketGood
    <3>10. bad' <=> \E q \in 0 .. (m - 1) - 1 : ~ PacketGood(q)'
      <4>1. bad' <=> \E q \in 0 .. m - 1 : ~ PacketGood(q)
        BY <1>1, <1>2 DEF Ahead
      <4>2. ASSUME NEW q \in 0 .. m - 1, ~ PacketGood(q)
            PROVE  \E p \in 0 .. (m - 1) - 1 : ~ PacketGood(p)'
        <5>1. q # 0
          BY <2>1, <4>2
        <5>2. q - 1 \in 0 .. (m - 1) - 1 /\ (q - 1) + 1 = q
          BY <1>4, <5>1
        <5> QED
          BY <3>9, <4>2, <5>2
      <4>3. ASSUME NEW q \in 0 .. (m - 1) - 1, ~ PacketGood(q)'
            PROVE  \E p \in 0 .. m - 1 : ~ PacketGood(p)
        <5>1. q + 1 \in 0 .. m - 1
          BY <1>4
        <5> QED
          BY <3>9, <4>3, <5>1
      <4> QED
        BY <4>1, <4>2, <4>3
    <3>11. chunk[head + (m - 1) * MaxPacket + 2] = lastLine
      BY <1>2, <1>4, <1>5 DEF Ahead
    <3>12. ASSUME m - 1 > 0
           PROVE  chunk'[head' + ((m - 1) - 1) * MaxPacket + 2] = lastLine'
      <4>a. m > 1
        BY <1>4, <3>12
      <4>b. head' = head + (c + 2)
        BY <2>4
      <4>c. c = Room
        BY <2>0, <4>a
      <4>1. head' = head + MaxPacket
        BY <1>3, <4>b, <4>c
      <4>2. (m - 1) * MaxPacket = ((m - 1) - 1) * MaxPacket + MaxPacket
            /\ ((m - 1) - 1) * MaxPacket \in Int
        BY <1>3, <1>4
      <4>3. head' + ((m - 1) - 1) * MaxPacket + 2 = head + (m - 1) * MaxPacket + 2
        BY <1>3, <1>4, <4>1, <4>2
      <4> QED
        BY <1>1, <2>2, <3>11, <4>3
    <3>13. ASSUME m - 1 = 0
           PROVE  line' = lastLine'
      <4>1. head + (m - 1) * MaxPacket + 2 = head + 2
        BY <1>3, <1>4, <3>13
      <4> QED
        BY <1>1, <2>10, <3>11, <4>1
    <3> QED
      BY <3>2, <3>4, <3>5, <3>6, <3>8, <3>10, <3>12, <3>13 DEF Ahead
  <2>6. m - 1 \in 0 .. Len(chunk')
    BY <1>2, <1>4, <1>5, <2>2
  <2>7. WholeInv'
    BY <1>1, <2>2, <2>3, <2>5, <2>6 DEF WholeInv, StatusChecked, GoodChipAccepted
  <2>8. CASE c = 0
    <3>1. got' = got
      BY <1>1, <1>4, <2>3, <2>8
    <3> QED
      BY <2>2, <2>7, <3>1 DEF Streamed, streamVars
  <2>9. CASE c > 0
    <3>1. Len(got) + c \in Len(got) + 1 .. Len(payload)
      BY <1>4, <1>8, <2>9
    <3>2. Receive
      BY <1>1, <2>2, <2>3, <3>1 DEF Receive
    <3> QED
      BY <2>7, <3>2 DEF Streamed, StreamNext
  <2> QED
    BY <1>8, <2>8, <2>9
<1> QED
  BY <1>12, <1>13, <1>14, <1>6 DEF DrainPacket

(* The chunk is used up when the bytes are all there: no packet is left.     *)
LEMMA DrainEndStep ==
    ASSUME FramingTypeOK, WholeInv, DrainEnd
    PROVE  WholeInv' /\ Streamed
<1>1. /\ pc = "drain" /\ rest' = <<>> /\ sent' = sent /\ bad' = bad /\ lastLine' = lastLine
      /\ payload' = payload /\ got' = got /\ outcome' = outcome /\ line' = line
      /\ outcome = "reading" /\ got = SubSeq(payload, 1, Len(got))
  BY DEF DrainEnd, WholeInv, chip, streamVars
<1>2. PICK m \in 0 .. Len(chunk) : Ahead(m)
  BY <1>1 DEF WholeInv
<1>3. /\ Need \in Nat /\ Left <= Need /\ Left \in Int /\ Room \in Nat \ {0} /\ m \in Nat
      /\ Remaining \in Nat
  BY <1>2, NeedType, RoomType DEF FramingTypeOK, Need, Left
<1>4. Left >= 0 /\ Remaining = Left + 2 * m /\ (m > 0 /\ Left = Need => (m - 1) * Room < Left)
  BY <1>2 DEF Ahead
<1>5. m = 0 /\ Remaining = 0 /\ Left = 0
  <2>1. CASE Remaining = 0
    BY <1>3, <1>4, <2>1
  <2>2. CASE Need = 0
    <3>1. Left = 0 /\ Left = Need
      BY <1>3, <1>4, <2>2
    <3>2. m > 0 => (m - 1) * Room >= 0
      BY <1>3
    <3>3. m = 0
      BY <1>3, <1>4, <3>1, <3>2
    <3> QED
      BY <1>4, <3>1, <3>3
  <2> QED
    BY <2>1, <2>2 DEF DrainEnd
<1>6. ~ bad /\ line = lastLine
  BY <1>2, <1>5 DEF Ahead
<1>7. chunk' = <<>> /\ Left' = 0 /\ ~ bad' /\ Need' = Need /\ line' = lastLine'
  BY <1>1, <1>5, <1>6 DEF DrainEnd, Left, Need
<1>8. (Need > 0 /\ pc' = "fetch") \/ (Need = 0 /\ pc' = "check")
  BY DEF DrainEnd
<1>9. WholeInv'
  BY <1>1, <1>7, <1>8 DEF WholeInv, StatusChecked, GoodChipAccepted
<1> QED
  BY <1>1, <1>9 DEF Streamed, streamVars

(* A command that ends has all its bytes and an empty chunk. *)
LEMMA CheckStep ==
    ASSUME FramingTypeOK, WholeInv, CheckEnd
    PROVE  WholeInv' /\ Streamed
<1>1. /\ pc = "check" /\ chunk = <<>> /\ Need = 0 /\ Left = 0 /\ ~ bad /\ outcome = "reading"
      /\ rest' = <<>> /\ sent' = sent /\ bad' = bad /\ line' = line
      /\ line = lastLine /\ lastLine' = lastLine
  BY DEF CheckEnd, chip, WholeInv
<1>2. CASE FailWith("IncompleteLineStatus")
  BY <1>1, <1>2, FailStep
<1>3. CASE /\ line = "idle"
           /\ pc' = "idle"
           /\ outcome' = "Ok"
           /\ UNCHANGED <<payload, got, chunk, head, copied, streak>>
  <2>1. payload \in Seq(Values) /\ Len(got) = Len(payload)
    BY <1>1, NeedType DEF FramingTypeOK, Need
  <2>2. got = payload
    BY <2>1, SubSeqFull DEF WholeInv
  <2>3. WholeInv'
    BY <1>1, <1>3, <2>2 DEF WholeInv, StatusChecked, GoodChipAccepted
  <2>4. Finish
    BY <1>1, <1>3, <2>2 DEF Finish
  <2> QED
    BY <2>3, <2>4 DEF Streamed, StreamNext
<1> QED
  BY <1>1, <1>2, <1>3 DEF CheckEnd

(* Every step keeps the invariant, and is one of the stream or none.        *)
LEMMA WholeStep ==
    ASSUME ~ Splits, FramingTypeOK, WholeInv, [FramingNext]_framingVars
    PROVE  WholeInv' /\ Streamed
<1>1. CASE FramingNext
  BY <1>1, StartStep, FetchStep, NothingStep, DrainStep, DrainEndStep, CheckStep DEF FramingNext
<1>2. CASE UNCHANGED framingVars
  <2>1. UNCHANGED <<payload, got, outcome, sent, rest, bad, lastLine, chunk, head, line, copied,
                    streak, pc>>
    BY <1>2 DEF framingVars, chip, streamVars, session
  <2>2. WholeInv'
    BY <2>1 DEF WholeInv, Ahead, PacketGood, Left, Need, Remaining, StatusChecked, GoodChipAccepted
  <2> QED
    BY <2>1, <2>2 DEF Streamed, streamVars
<1> QED
  BY <1>1, <1>2

(* The initial states have it. *)
LEMMA WholeInit == FramingInit => WholeInv
<1>1. <<>> = SubSeq(<<>>, 1, 0) /\ Len(<<>>) = 0
  BY SubSeqEmpty
<1> QED
  BY <1>1 DEF FramingInit, StreamInit, WholeInv, StatusChecked, GoodChipAccepted

(* As long as no bulk read ends within a packet, the payload is put together *)
(* whole and in order whatever bytes it has, a command only ends well when   *)
(* every status byte was good and the last one the chip sent said that its   *)
(* transmitter is idle, and a chip whose status bytes are good is not        *)
(* refused: for packets, answers, bulk reads and retry limits of any size.  *)
THEOREM FramingSound ==
    ASSUME ~ Splits
    PROVE  FramingSpec => [](Stripped /\ StatusChecked /\ GoodChipAccepted)
<1>1. FramingTypeOK /\ WholeInv => Stripped /\ StatusChecked /\ GoodChipAccepted
  <2> SUFFICES ASSUME FramingTypeOK, WholeInv
               PROVE  Stripped /\ StatusChecked /\ GoodChipAccepted
    OBVIOUS
  <2>1. pc \in {"fetch", "check"} => Len(got) = sent /\ chunk = <<>>
    <3>1. sent \in Nat /\ Len(got) \in Nat
      BY NeedType DEF FramingTypeOK
    <3>2. pc \in {"fetch", "check"} => Left = 0 /\ chunk = <<>>
      BY DEF WholeInv
    <3> QED
      BY <3>1, <3>2 DEF Left
  <2> QED
    BY <2>1 DEF WholeInv, Stripped
<1>2. FramingTypeOK /\ WholeInv /\ [FramingNext]_framingVars => WholeInv'
  BY WholeStep
<1> QED
  BY <1>1, <1>2, WholeInit, FramingTypes, PTL DEF FramingSpec

(* What the code above the framing sees is PayloadStream.                   *)
THEOREM FramingStreams ==
    ASSUME ~ Splits
    PROVE  FramingSpec => Streams
<1>1. FramingInit => StreamInit
  BY DEF FramingInit
<1>2. FramingTypeOK /\ WholeInv /\ [FramingNext]_framingVars => WholeInv' /\ [StreamNext]_streamVars
  BY WholeStep DEF Streamed
<1> QED
  BY <1>1, <1>2, WholeInit, FramingTypes, PTL DEF FramingSpec, Streams, StreamSpec
=============================================================================

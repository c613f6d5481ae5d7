----------------------------- MODULE SplpProofs ------------------------------
(***************************************************************************)
(* The invariants of the encoder, for recordings of any length that does   *)
(* not run out of sector numbers, any capacity and any marks, and whatever *)
(* downstream refuses.                                                     *)
(*                                                                         *)
(* The argument: the number of a sector fixes its payload.  Sector n of a  *)
(* recording of "total" bytes starts at byte n * Capacity, or at the end   *)
(* when the recording is shorter, and is as long as what is left allows    *)
(* (Fits).  While a recording is open, every sector of it is full, so it   *)
(* keeps fitting as the total grows; and what has left the adapter is      *)
(* exactly the sectors whose numbers have been used up, so the next one    *)
(* fits too.                                                               *)
(*                                                                         *)
(* The composition: encoder and decoder keep their invariants with any     *)
(* tape between them, and one recording, read by a program that handles    *)
(* the events of the decoder, implements the file transfer.                *)
(*                                                                         *)
(* The argument: as long as nothing has stopped the playback, every number *)
(* up to the last one was delivered, and sectors have their place from     *)
(* their numbers, so what was delivered is the beginning of the recording  *)
(* up to the place where the next number starts.  A sector without data    *)
(* fits only at the end.                                                   *)
(***************************************************************************)
EXTENDS SplpRecord, SequenceTheorems, TLAPS

(***************************************************************************)
(* What the sector header preserves: every number the field can hold and   *)
(* the length of every short sector come back as they were written.        *)
(***************************************************************************)
(* Quotient and remainder are the only numbers that recompose a dividend.  *)
LEMMA DivMod ==
  ASSUME NEW m \in Nat \ {0}, NEW q \in Int, NEW r \in 0..(m - 1)
  PROVE  /\ (m * q + r) \div m = q
         /\ (m * q + r) % m = r
  OBVIOUS

(* A number within the range of the signed field survives being stored.    *)
LEMMA NumberFieldInRange ==
  ASSUME NEW n \in (-HalfRange)..(HalfRange - 1)
  PROVE  NumberField(n) = n
<1>1. /\ 2 * HalfRange \in Nat \ {0}
      /\ n + HalfRange \in 0..(2 * HalfRange - 1)
  BY SectorAssumption
<1>2. (n + HalfRange) % (2 * HalfRange) = n + HalfRange
  BY <1>1
<1>3. QED
  BY <1>2, SectorAssumption DEF NumberField

(* The length of a short sector: the low digit never takes the value kept  *)
(* for full sectors, and the two digits give the length back.              *)
THEOREM LengthRoundTrip ==
  ASSUME NEW length \in Nat
  PROVE  /\ LowUsed(length) \in 1..LowDigits
         /\ HighUsed(length) \in Nat
         /\ DecodeLength(HighUsed(length), LowUsed(length)) = length
<1> DEFINE q == length \div LowDigits
           r == length % LowDigits
<1>1. /\ q \in Nat
      /\ r \in 0..(LowDigits - 1)
      /\ length = LowDigits * q + r
  BY SectorAssumption
<1>2. EncodeLength(length) = (LowDigits + 1) * q + (r + 1)
  <2>1. (LowDigits + 1) * q = LowDigits * q + q
    BY <1>1, SectorAssumption
  <2>2. QED
    BY <1>1, <2>1, SectorAssumption DEF EncodeLength
<1>3. r + 1 \in 0..LowDigits
  BY <1>1, SectorAssumption
<1> HIDE DEF q, r
<1>4. HighUsed(length) = q /\ LowUsed(length) = r + 1
  <2> DEFINE m == LowDigits + 1
             d == r + 1
  <2>1. m \in Nat \ {0} /\ d \in 0..(m - 1) /\ q \in Int
    BY <1>1, <1>3, SectorAssumption
  <2>2. EncodeLength(length) = m * q + d
    BY <1>2
  <2> HIDE DEF m, d
  <2>3. (m * q + d) \div m = q /\ (m * q + d) % m = d
    BY <2>1, DivMod
  <2>4. QED
    BY <2>2, <2>3 DEF HighUsed, LowUsed, m, d
<1>5. DecodeLength(q, r + 1) = length
  <2>1. q * LowDigits = LowDigits * q
    BY <1>1, SectorAssumption
  <2>2. QED
    BY <1>1, <2>1, SectorAssumption DEF DecodeLength
<1>6. QED
  BY <1>1, <1>4, <1>5, SectorAssumption

(* The sizes read off an undamaged sector: the size that was written.      *)
LEMMA SizeOfSector ==
  ASSUME NEW recording, NEW number, NEW first, NEW size \in 0..Capacity
  PROVE  LET s == Sector(recording, number, first, size)
         IN  SizeRead(s, s.high) = size
<1>1. CASE size < Capacity
  <2>1. LowUsed(size) \in 1..LowDigits
    BY LengthRoundTrip
  <2>2. DecodeLength(HighUsed(size), LowUsed(size)) = size
    BY LengthRoundTrip
  <2>3. QED
    BY <1>1, <2>1, <2>2, SectorAssumption DEF Sector, SizeRead
<1>2. CASE size = Capacity
  BY <1>2, SectorAssumption DEF Sector, SizeRead
<1>3. QED
  BY <1>1, <1>2, SectorAssumption

(* A sector is of the type that the modules exchange.                      *)
LEMMA SectorTyped ==
  ASSUME NEW recording \in Nat, NEW number \in Int, NEW first \in Nat,
         NEW size \in Nat
  PROVE  Sector(recording, number, first, size) \in SectorType
<1>1. NumberField(number) \in Int
  BY SectorAssumption DEF NumberField
<1>2. LowUsed(size) \in Nat /\ HighUsed(size) \in Nat
  BY LengthRoundTrip, SectorAssumption
<1>3. QED
  BY <1>1, <1>2, SectorAssumption DEF Sector, SectorType

-----------------------------------------------------------------------------
(* The encoder.                                                            *)

(* All the numbers a recording uses are within the range of the field.     *)
NumbersSuffice == MaxBytes <= (HalfRange - 1) * Capacity

(* It reads back as the size it has.                                       *)
Fits(s, total) ==
  /\ s.first = Lesser(s.number * Capacity, total)
  /\ s.size = Lesser(Capacity, total - s.first)
  /\ SizeRead(s, s.high) = s.size

IsFull(s, total) == (s.number + 1) * Capacity <= total

Numbered(r) == {i \in DOMAIN tape : tape[i].rec = r /\ tape[i].number >= 0}

NumbersUsed == IF sectorNumber < 0 THEN 0 ELSE sectorNumber

(* The sectors on the tape: those of each recording fit one total, which   *)
(* for the recording in progress is what it has been given so far.         *)
TapeFits ==
  /\ \A i \in DOMAIN tape : tape[i].rec \in 1..rec
  /\ \A r \in 0..(rec - 1) :
       \E total \in Nat : \A i \in Numbered(r) : Fits(tape[i], total)
  /\ \A i \in Numbered(rec) : Fits(tape[i], pushed)

AllFull == \A i \in Numbered(rec) : IsFull(tape[i], pushed)

EncInv ==
  /\ EncTypeOK
  /\ taken <= pushed /\ pushed <= MaxBytes
  /\ TapeFits
  /\ phase = "idle" => pushed = 0
  /\ phase # "idle" => rec # 0
  /\ phase \in {"open", "error"} =>
       /\ AllFull
       /\ sectorNumber >= -1
       /\ taken = NumbersUsed * Capacity
       /\ format => sectorNumber >= 0
  /\ phase = "created" =>
       /\ Numbered(rec) = {}
       /\ sectorNumber = 0 /\ taken = 0 /\ pushed = 0 /\ ~format

-----------------------------------------------------------------------------
(* Sectors with numbers that fit the same total have payloads that are     *)
(* functions of their numbers, adjacent when the numbers are.              *)
LEMMA FitsIsFunctional ==
  ASSUME NEW s \in SectorType, NEW t \in SectorType, NEW total \in Nat,
         s.number >= 0, t.number >= 0, Fits(s, total), Fits(t, total)
  PROVE  /\ s.number = t.number => s.first = t.first /\ s.size = t.size
         /\ t.number = s.number + 1 => t.first = s.first + s.size
         /\ s.number = 0 => s.first = 0
         /\ s.size = 0 => s.first = total
<1>1. /\ s.number \in Nat /\ t.number \in Nat
      /\ s.first \in Nat /\ t.first \in Nat /\ s.size \in Nat /\ t.size \in Nat
      /\ Capacity \in Nat \ {0}
  BY SectorAssumption DEF SectorType
<1>2. s.number * Capacity \in Nat
  BY <1>1
<1>3. ASSUME s.number = t.number
      PROVE  s.first = t.first /\ s.size = t.size
  <2>1. s.first = t.first
    BY <1>3, Zenon DEF Fits
  <2>2. QED
    BY <2>1, Zenon DEF Fits
<1>4. ASSUME t.number = s.number + 1
      PROVE  t.first = s.first + s.size
  <2>1. t.number * Capacity = s.number * Capacity + Capacity
    BY <1>1, <1>4
  <2>2. QED
    BY <1>1, <1>2, <2>1 DEF Fits, Lesser
<1>5. s.number = 0 => s.first = 0
  BY <1>1 DEF Fits, Lesser
<1>6. s.size = 0 => s.first = total
  BY <1>1, <1>2 DEF Fits, Lesser
<1>7. QED
  BY <1>3, <1>4, <1>5, <1>6

(* A full sector fits every longer total as well.                          *)
LEMMA FullFitsLonger ==
  ASSUME NEW s \in SectorType, NEW total \in Nat, NEW longer \in Nat,
         s.number >= 0, Fits(s, total), IsFull(s, total), total <= longer
  PROVE  Fits(s, longer) /\ IsFull(s, longer)
<1> DEFINE start == s.number * Capacity
<1>1. /\ Capacity \in Nat \ {0} /\ start \in Nat
      /\ (s.number + 1) * Capacity = start + Capacity
  <2>1. s.number \in Nat
    BY DEF SectorType
  <2>2. QED
    BY <2>1, SectorAssumption
<1>2. start + Capacity <= total
  BY <1>1 DEF IsFull
<1>3. s.first = start /\ s.size = Capacity
  <2>1. s.first = Lesser(start, total) /\ s.size = Lesser(Capacity, total - s.first)
    BY DEF Fits
  <2> HIDE DEF start
  <2>2. QED
    BY <1>1, <1>2, <2>1 DEF Lesser
<1>4. /\ s.first = Lesser(start, longer)
      /\ s.size = Lesser(Capacity, longer - s.first)
  <2> HIDE DEF start
  <2>1. QED
    BY <1>1, <1>2, <1>3 DEF Lesser
<1>5. (s.number + 1) * Capacity <= longer
  <2> HIDE DEF start
  <2>1. QED
    BY <1>1, <1>2
<1>6. SizeRead(s, s.high) = s.size
  BY Zenon DEF Fits
<1>7. QED
  BY <1>4, <1>5, <1>6 DEF Fits, IsFull

(* The sectors cut from the adapter fit the bytes that were put into it.   *)
LEMMA DataSectorsFit ==
  ASSUME NumbersSuffice, rec \in Nat,
         NEW number \in Nat, NEW end \in Nat, NEW n \in Nat, NEW i \in 1..n,
         taken = number * Capacity, end <= MaxBytes,
         (number + i - 1) * Capacity < end
  PROVE  LET s == DataSectors(number, end, n)[i]
         IN  /\ s \in SectorType
             /\ s.rec = rec
             /\ s.number = number + i - 1
             /\ Fits(s, end)
<1> DEFINE place == number + i - 1
           first == taken + (i - 1) * Capacity
           size  == Lesser(Capacity, end - first)
<1>1. Capacity \in Nat \ {0} /\ HalfRange \in Nat \ {0} /\ MaxBytes \in Nat
  BY SectorAssumption, EncoderAssumption
<1>2. place \in Nat /\ first = place * Capacity /\ first \in Nat
  <2>1. i - 1 \in Nat
    OBVIOUS
  <2>2. (number + (i - 1)) * Capacity = number * Capacity + (i - 1) * Capacity
    BY <1>1, <2>1
  <2>3. place * Capacity \in Nat
    BY <1>1, <2>1
  <2>4. QED
    BY <1>1, <2>1, <2>2, <2>3
<1>3. size \in 1..Capacity
  BY <1>1, <1>2 DEF Lesser
<1>4. place <= HalfRange - 1
  <2>1. place * Capacity < (HalfRange - 1) * Capacity
    BY <1>1, <1>2 DEF NumbersSuffice
  <2>2. QED
    BY <1>1, <1>2, <2>1
<1>5. NumberField(place) = place
  BY <1>1, <1>2, <1>4, NumberFieldInRange
<1>6. DataSectors(number, end, n)[i] = Sector(rec, place, first, size)
  BY DEF DataSectors
<1>7. Sector(rec, place, first, size) \in SectorType
  BY <1>2, <1>3, SectorTyped
<1>8. /\ DataSectors(number, end, n)[i].rec = rec
      /\ DataSectors(number, end, n)[i].number = place
      /\ DataSectors(number, end, n)[i].first = first
      /\ DataSectors(number, end, n)[i].size = size
  <2> HIDE DEF place, first, size
  <2>1. QED
    BY <1>5, <1>6 DEF Sector
<1>9. first = Lesser(place * Capacity, end)
  BY <1>1, <1>2 DEF Lesser
<1>10. SizeRead(DataSectors(number, end, n)[i], DataSectors(number, end, n)[i].high) = size
  <2>1. size \in 0..Capacity
    BY <1>1, <1>3
  <2> HIDE DEF place, first, size
  <2>2. QED
    BY <1>6, <2>1, SizeOfSector
<1>11. QED
  BY <1>6, <1>7, <1>8, <1>9, <1>10, Zenon DEF Fits

-----------------------------------------------------------------------------
(* A run of sectors of the recording in progress that may go on the tape   *)
(* when the recording has "total" bytes.                                   *)
Piece(new, total) ==
  /\ new \in Seq(SectorType)
  /\ \A k \in DOMAIN new :
       new[k].rec = rec /\ (new[k].number >= 0 => Fits(new[k], total))

FullPiece(new, total) ==
  \A k \in DOMAIN new : new[k].number >= 0 => IsFull(new[k], total)

LEMMA PieceConcat ==
  ASSUME NEW a, NEW b, NEW total, Piece(a, total), Piece(b, total)
  PROVE  /\ Piece(a \o b, total)
         /\ FullPiece(a, total) /\ FullPiece(b, total)
              => FullPiece(a \o b, total)
<1>1. /\ a \in Seq(SectorType) /\ b \in Seq(SectorType)
      /\ a \o b \in Seq(SectorType)
  BY DEF Piece
<1>2. ASSUME NEW k \in DOMAIN (a \o b)
      PROVE  \/ k \in DOMAIN a /\ (a \o b)[k] = a[k]
             \/ \E j \in DOMAIN b : (a \o b)[k] = b[j]
  <2>1. CASE k <= Len(a)
    BY <1>1, <2>1
  <2>2. CASE ~(k <= Len(a))
    <3>1. k - Len(a) \in DOMAIN b /\ (a \o b)[k] = b[k - Len(a)]
      BY <1>1, <2>2
    <3>2. QED
      BY <3>1
  <2>3. QED
    BY <2>1, <2>2
<1>3. QED
  BY <1>1, <1>2, Zenon DEF Piece, FullPiece

(* The sectors of a BOR mark have no number to fit.                        *)
LEMMA BorPiece ==
  ASSUME rec \in Nat, taken \in Nat, NEW n \in Nat, NEW total
  PROVE  /\ Piece(EmptySectors(-1, n), total)
         /\ FullPiece(EmptySectors(-1, n), total)
<1> DEFINE s == Sector(rec, -1, taken, 0)
<1>1. NumberField(-1) = -1
  BY NumberFieldInRange, SectorAssumption
<1>2. s \in SectorType /\ s.rec = rec /\ s.number = -1
  <2>1. s \in SectorType
    BY SectorTyped
  <2>2. s.rec = rec /\ s.number = NumberField(-1)
    BY DEF Sector
  <2>3. QED
    BY <1>1, <2>1, <2>2
<1>3. /\ EmptySectors(-1, n) \in Seq(SectorType)
      /\ \A k \in DOMAIN EmptySectors(-1, n) : EmptySectors(-1, n)[k] = s
  BY <1>2 DEF EmptySectors
<1>4. ~(-1 >= 0)
  OBVIOUS
<1> HIDE DEF s
<1>5. QED
  BY <1>2, <1>3, <1>4, Zenon DEF Piece, FullPiece

LEMMA DataPiece ==
  ASSUME NumbersSuffice, rec \in Nat,
         NEW number \in Nat, NEW end \in Nat, NEW n \in Nat,
         taken = number * Capacity, end <= MaxBytes,
         n > 0 => (number + n - 1) * Capacity < end
  PROVE  /\ Piece(DataSectors(number, end, n), end)
         /\ (number + n) * Capacity <= end
              => FullPiece(DataSectors(number, end, n), end)
<1> DEFINE d == DataSectors(number, end, n)
<1>1. Capacity \in Nat \ {0}
  BY SectorAssumption
<1>2. ASSUME NEW i \in 1..n
      PROVE  /\ d[i] \in SectorType /\ d[i].rec = rec
             /\ d[i].number = number + i - 1
             /\ Fits(d[i], end)
  <2>1. (number + i - 1) * Capacity <= (number + n - 1) * Capacity
    BY <1>1
  <2>2. (number + i - 1) * Capacity < end
    <3>1. n > 0
      OBVIOUS
    <3>2. (number + i - 1) * Capacity \in Int /\ (number + n - 1) * Capacity \in Int
      BY <1>1
    <3>3. QED
      BY <2>1, <3>1, <3>2
  <2>3. QED
    BY <2>2, DataSectorsFit
<1>3. DOMAIN d = 1..n /\ d \in Seq(SectorType)
  <2>1. d = [i \in 1..n |-> d[i]] /\ DOMAIN d = 1..n
    BY DEF DataSectors
  <2> HIDE DEF d
  <2>2. QED
    BY <1>2, <2>1
<1>4. ASSUME (number + n) * Capacity <= end, NEW i \in 1..n
      PROVE  IsFull(d[i], end)
  <2>1. (number + i) * Capacity <= (number + n) * Capacity
    BY <1>1
  <2>2. d[i].number + 1 = number + i
    BY <1>2
  <2>3. (number + i) * Capacity \in Int /\ (number + n) * Capacity \in Int
    BY <1>1
  <2> HIDE DEF d
  <2>4. (number + i) * Capacity <= end
    BY <1>4, <2>1, <2>3
  <2>5. QED
    BY <2>2, <2>4, Zenon DEF IsFull
<1> HIDE DEF d
<1>5. Piece(d, end)
  BY <1>2, <1>3, Zenon DEF Piece
<1>6. (number + n) * Capacity <= end => FullPiece(d, end)
  BY <1>3, <1>4, Zenon DEF FullPiece
<1>7. QED
  BY <1>5, <1>6 DEF d

-----------------------------------------------------------------------------
(* What goes on the tape keeps it fitting, if the sectors of the recording *)
(* in progress that are there already fit the new total.                   *)
LEMMA TapeGrows ==
  ASSUME EncInv, NEW new, Piece(new, pushed'), tape' = tape \o new,
         rec' = rec, rec # 0, pushed' \in Nat,
         pushed' = pushed \/ (AllFull /\ pushed <= pushed')
  PROVE  /\ tape' \in Seq(SectorType)
         /\ TapeFits'
         /\ AllFull /\ FullPiece(new, pushed') /\ pushed <= pushed' => AllFull'
<1>1. /\ tape \in Seq(SectorType) /\ new \in Seq(SectorType)
      /\ rec \in Nat /\ pushed \in Nat /\ TapeFits
  BY DEF EncInv, EncTypeOK, Piece
<1>2. tape' \in Seq(SectorType)
  BY <1>1
<1>3. ASSUME NEW i \in DOMAIN tape'
      PROVE  \/ i \in DOMAIN tape /\ tape'[i] = tape[i]
             \/ \E k \in DOMAIN new : tape'[i] = new[k]
  <2>1. CASE i <= Len(tape)
    BY <1>1, <2>1
  <2>2. CASE ~(i <= Len(tape))
    <3>1. i - Len(tape) \in DOMAIN new /\ tape'[i] = new[i - Len(tape)]
      BY <1>1, <2>2
    <3>2. QED
      BY <3>1
  <2>3. QED
    BY <2>1, <2>2
<1>4. \A k \in DOMAIN new :
        new[k].rec = rec /\ (new[k].number >= 0 => Fits(new[k], pushed'))
  BY DEF Piece
<1>5. \A i \in DOMAIN tape' : tape'[i].rec \in 1..rec'
  <2>1. rec \in 1..rec
    BY <1>1
  <2>2. \A i \in DOMAIN tape : tape[i].rec \in 1..rec
    BY <1>1 DEF TapeFits
  <2>3. rec' = rec
    OBVIOUS
  <2>4. QED
    BY <1>3, <1>4, <2>1, <2>2, <2>3
<1>6. ASSUME NEW r \in 0..(rec' - 1)
      PROVE  \E total \in Nat : \A i \in Numbered(r)' : Fits(tape'[i], total)
  <2>1. r # rec /\ r \in 0..(rec - 1)
    BY <1>1
  <2>2. \A i \in Numbered(r)' : i \in Numbered(r) /\ tape'[i] = tape[i]
    BY <1>3, <1>4, <2>1 DEF Numbered
  <2>3. PICK total \in Nat : \A i \in Numbered(r) : Fits(tape[i], total)
    BY <1>1, <2>1 DEF TapeFits
  <2>4. \A i \in Numbered(r)' : Fits(tape'[i], total)
    BY <2>2, <2>3, Zenon
  <2>5. QED
    BY <2>4
<1>7. \A i \in Numbered(rec) :
        /\ Fits(tape[i], pushed')
        /\ AllFull /\ pushed <= pushed' => IsFull(tape[i], pushed')
  <2>1. SUFFICES ASSUME NEW i \in Numbered(rec)
                 PROVE  /\ Fits(tape[i], pushed')
                        /\ AllFull /\ pushed <= pushed'
                             => IsFull(tape[i], pushed')
    OBVIOUS
  <2>2. tape[i] \in SectorType /\ tape[i].number >= 0 /\ Fits(tape[i], pushed)
    BY <1>1 DEF Numbered, TapeFits
  <2>3. ASSUME AllFull, pushed <= pushed'
        PROVE  Fits(tape[i], pushed') /\ IsFull(tape[i], pushed')
    BY <1>1, <2>2, <2>3, FullFitsLonger DEF AllFull
  <2>4. QED
    BY <2>2, <2>3
<1>8. \A i \in Numbered(rec)' :
        \/ i \in Numbered(rec) /\ tape'[i] = tape[i]
        \/ \E k \in DOMAIN new : tape'[i] = new[k] /\ new[k].number >= 0
  BY <1>3, Zenon DEF Numbered
<1>9. \A i \in Numbered(rec)' : Fits(tape'[i], pushed')
  BY <1>4, <1>7, <1>8, Zenon
<1>10. TapeFits'
  BY <1>5, <1>6, <1>9 DEF TapeFits
<1>11. ASSUME AllFull, FullPiece(new, pushed'), pushed <= pushed'
       PROVE  AllFull'
  <2>1. \A i \in Numbered(rec)' : IsFull(tape'[i], pushed')
    BY <1>7, <1>8, <1>11, Zenon DEF FullPiece
  <2>2. QED
    BY <2>1 DEF AllFull
<1>12. QED
  BY <1>2, <1>10, <1>11

-----------------------------------------------------------------------------
LEMMA Quotient ==
  ASSUME NEW a \in Nat, NEW c \in Nat \ {0}
  PROVE  /\ a \div c \in Nat
         /\ (a \div c) * c <= a
         /\ a < (a \div c) * c + c
<1> DEFINE q == a \div c
           r == a % c
<1>1. q \in Nat /\ r \in 0..(c - 1) /\ a = c * q + r
  OBVIOUS
<1>2. c * q = q * c /\ q * c \in Nat
  BY <1>1
<1> HIDE DEF q, r
<1>3. q * c <= a /\ a < q * c + c
  BY <1>1, <1>2
<1>4. QED
  BY <1>1, <1>3 DEF q

(* A call of enc_chain() takes whole sectors from the adapter. *)
LEMMA ChainArith ==
  ASSUME EncInv, NEW n \in 1..MaxBytes, phase = "open",
         NEW k \in 0..ChainCount(n)
  PROVE  /\ ChainCount(n) \in Nat
         /\ ChainStart \in Nat
         /\ taken = ChainStart * Capacity
         /\ (ChainStart + k) * Capacity <= pushed + n
         /\ TakenAfter(k, pushed + n) = (ChainStart + k) * Capacity
<1>1. /\ sectorNumber \in Int /\ taken \in Nat /\ pushed \in Nat /\ n \in Nat
      /\ taken <= pushed /\ Capacity \in Nat \ {0}
      /\ taken = NumbersUsed * Capacity
  BY SectorAssumption, EncoderAssumption DEF EncInv, EncTypeOK
<1>2. ChainStart \in Nat /\ taken = ChainStart * Capacity
  BY <1>1 DEF ChainStart, NumbersUsed
<1> DEFINE q == ChainCount(n)
<1>3. q \in Nat /\ q * Capacity <= pushed - taken + n
  <2>1. pushed - taken + n \in Nat /\ q = (pushed - taken + n) \div Capacity
    BY <1>1 DEF ChainCount, Available
  <2>2. QED
    BY <1>1, <2>1, Quotient
<1>4. k \in Nat /\ k * Capacity <= q * Capacity
  BY <1>1, <1>3
<1>5. /\ k * Capacity \in Nat /\ q * Capacity \in Nat
      /\ (ChainStart + k) * Capacity = ChainStart * Capacity + k * Capacity
  BY <1>1, <1>2, <1>3, <1>4
<1> HIDE DEF q
<1>6. taken + k * Capacity <= pushed + n
  BY <1>1, <1>3, <1>4, <1>5
<1>7. TakenAfter(k, pushed + n) = taken + k * Capacity
  BY <1>1, <1>5, <1>6 DEF TakenAfter, Lesser
<1>8. q \in Nat
  BY <1>3
<1>9. QED
  BY <1>2, <1>5, <1>6, <1>7, <1>8 DEF q

(* What such a call puts on the tape fits, and its data sectors are full.  *)
LEMMA ChainTapeFits ==
  ASSUME NumbersSuffice, EncInv, NEW n \in 1..MaxBytes, EnterChain(n),
         NEW k \in 0..ChainCount(n),
         tape' = ChainTape \o DataSectors(ChainStart, pushed + n, k)
  PROVE  tape' \in Seq(SectorType) /\ TapeFits' /\ AllFull'
<1> DEFINE mark == IF sectorNumber < 0 THEN EmptySectors(-1, BorLength) ELSE <<>>
           data == DataSectors(ChainStart, pushed + n, k)
<1>1. /\ rec \in Nat /\ taken \in Nat /\ pushed \in Nat /\ n \in Nat
      /\ pushed' = pushed + n /\ rec' = rec /\ pushed' <= MaxBytes
      /\ tape \in Seq(SectorType) /\ phase = "open" /\ AllFull
      /\ BorLength \in Nat /\ Capacity \in Nat \ {0} /\ k \in Nat /\ rec # 0
  <2>1. ChainCount(n) \in Nat
    BY SectorAssumption, EncoderAssumption
    DEF EnterChain, EncInv, EncTypeOK, ChainCount, Available
  <2>2. QED
    BY <2>1, SectorAssumption, EncoderAssumption DEF EncInv, EncTypeOK, EnterChain
<1>2. /\ ChainStart \in Nat /\ taken = ChainStart * Capacity
      /\ (ChainStart + k) * Capacity <= pushed'
  BY <1>1, ChainArith
<1>3. Piece(mark, pushed') /\ FullPiece(mark, pushed')
  <2>1. CASE sectorNumber < 0
    BY <1>1, <2>1, BorPiece
  <2>2. CASE ~(sectorNumber < 0)
    BY <2>2 DEF Piece, FullPiece
  <2>3. QED
    BY <2>1, <2>2
<1>4. Piece(data, pushed') /\ FullPiece(data, pushed')
  <2>1. k > 0 => (ChainStart + k - 1) * Capacity < pushed'
    <3>1. (ChainStart + k) * Capacity = (ChainStart + k - 1) * Capacity + Capacity
      BY <1>1, <1>2
    <3>2. (ChainStart + k) * Capacity \in Int /\ (ChainStart + k - 1) * Capacity \in Int
      BY <1>1, <1>2
    <3>3. QED
      BY <1>1, <1>2, <3>1, <3>2
  <2>2. pushed' \in Nat
    BY <1>1
  <2>3. data = DataSectors(ChainStart, pushed', k)
    BY <1>1
  <2>4. QED
    BY <1>1, <1>2, <2>1, <2>2, <2>3, DataPiece
<1> HIDE DEF mark, data
<1>5. Piece(mark \o data, pushed') /\ FullPiece(mark \o data, pushed')
  BY <1>3, <1>4, PieceConcat
<1>6. tape' = tape \o (mark \o data)
  <2>1. tape' = (tape \o mark) \o data
    BY DEF ChainTape, mark, data
  <2>2. /\ tape \in Seq(SectorType)
        /\ mark \in Seq(SectorType) /\ data \in Seq(SectorType)
    BY <1>1, <1>3, <1>4 DEF Piece
  <2>3. (tape \o mark) \o data = tape \o (mark \o data)
    BY <2>2, ConcatAssociative, SMTT(30)
  <2>4. QED
    BY <2>1, <2>3, Zenon
<1>7. pushed' \in Nat /\ pushed <= pushed'
  BY <1>1
<1>8. QED
  BY <1>1, <1>5, <1>6, <1>7, TapeGrows

-----------------------------------------------------------------------------
(* The flush empties the adapter, and needs no number the field lacks.     *)
LEMMA FlushArith ==
  ASSUME NumbersSuffice, EncInv, EnterEos, format
  PROVE  /\ FlushCount \in Nat /\ sectorNumber \in Nat
         /\ taken = sectorNumber * Capacity
         /\ FlushTaken = pushed
         /\ pushed <= (sectorNumber + FlushCount) * Capacity
         /\ FlushCount > 0 => (sectorNumber + FlushCount - 1) * Capacity < pushed
         /\ sectorNumber + FlushCount <= HalfRange - 1
<1>1. /\ sectorNumber \in Nat /\ taken \in Nat /\ pushed \in Nat
      /\ taken <= pushed /\ pushed <= MaxBytes /\ MaxBytes \in Nat
      /\ Capacity \in Nat \ {0} /\ HalfRange \in Nat \ {0}
      /\ taken = sectorNumber * Capacity
  BY SectorAssumption, EncoderAssumption
  DEF EncInv, EncTypeOK, EnterEos, NumbersUsed
<1> DEFINE f == FlushCount
           c == Capacity
<1>2. /\ f \in Nat /\ f * c <= pushed - taken + c - 1
      /\ pushed - taken + c - 1 < f * c + c
  <2>1. pushed - taken + c - 1 \in Nat /\ f = (pushed - taken + c - 1) \div c
    BY <1>1 DEF FlushCount, Available
  <2>2. QED
    BY <1>1, <2>1, Quotient
<1>3. /\ f * c \in Nat
      /\ (sectorNumber + f) * c = sectorNumber * c + f * c
      /\ (sectorNumber + f - 1) * c = sectorNumber * c + f * c - c
  BY <1>1, <1>2
<1>4. /\ (sectorNumber + f) * c = taken + f * c
      /\ (sectorNumber + f - 1) * c = taken + f * c - c
  BY <1>1, <1>3
<1> HIDE DEF f, c
<1>5. c \in Nat \ {0} /\ c = Capacity
  BY <1>1 DEF c
<1>6. pushed <= (sectorNumber + f) * c /\ (sectorNumber + f - 1) * c < pushed
  BY <1>1, <1>2, <1>3, <1>4, <1>5
<1>7. FlushTaken = pushed
  <2>1. taken + f * c >= pushed
    BY <1>1, <1>2, <1>3, <1>5
  <2>2. FlushTaken = Lesser(taken + f * c, pushed)
    BY DEF FlushTaken, TakenAfter, f, c
  <2>3. QED
    BY <1>1, <1>3, <2>1, <2>2 DEF Lesser
<1>8. sectorNumber + f - 1 < HalfRange - 1
  <2>1. (sectorNumber + f - 1) * c < (HalfRange - 1) * c
    <3>1. pushed <= (HalfRange - 1) * c
      <4>1. (HalfRange - 1) * c \in Int
        BY <1>1, <1>5
      <4>2. QED
        BY <1>1, <1>5, <4>1 DEF NumbersSuffice
    <3>2. (HalfRange - 1) * c \in Int /\ (sectorNumber + f - 1) * c \in Int
      BY <1>1, <1>2, <1>5
    <3>3. QED
      BY <1>1, <1>6, <3>1, <3>2
  <2>2. QED
    BY <1>1, <1>2, <1>5, <2>1
<1>9. sectorNumber + f <= HalfRange - 1
  BY <1>1, <1>2, <1>8
<1>10. QED
  BY <1>1, <1>2, <1>6, <1>7, <1>9 DEF f, c

(* The sectors of an EOR mark fit, and start at the last byte. *)
LEMMA EorPiece ==
  ASSUME NumbersSuffice, EncInv, EnterEos, format, NEW n \in Nat
  PROVE  Piece(EorSectors(n), pushed)
<1> DEFINE number == sectorNumber + FlushCount
           s == Sector(rec, number, pushed, 0)
<1>1. /\ number \in Nat /\ number <= HalfRange - 1 /\ FlushTaken = pushed
      /\ pushed <= number * Capacity
  BY FlushArith
<1>2. rec \in Nat /\ pushed \in Nat /\ Capacity \in Nat \ {0} /\ HalfRange \in Nat
  BY SectorAssumption DEF EncInv, EncTypeOK
<1> HIDE DEF number
<1>3. NumberField(number) = number
  BY <1>1, <1>2, NumberFieldInRange
<1>4. s \in SectorType
  BY <1>1, <1>2, SectorTyped
<1>5. s.rec = rec /\ s.number = number /\ s.first = pushed /\ s.size = 0
  BY <1>3 DEF Sector
<1>6. Fits(s, pushed)
  <2>1. pushed = Lesser(number * Capacity, pushed)
    <3>1. number * Capacity \in Int
      BY <1>1, <1>2
    <3>2. QED
      BY <1>1, <1>2, <3>1 DEF Lesser
  <2>2. 0 = Lesser(Capacity, pushed - pushed)
    BY <1>2 DEF Lesser
  <2>3. SizeRead(s, s.high) = 0
    <3>1. 0 \in 0..Capacity
      BY <1>2
    <3>2. QED
      BY <3>1, SizeOfSector
  <2>4. QED
    BY <1>5, <2>1, <2>2, <2>3 DEF Fits
<1>7. /\ EorSectors(n) \in Seq(SectorType)
      /\ \A k \in DOMAIN EorSectors(n) : EorSectors(n)[k] = s
  BY <1>1, <1>4 DEF EorSectors, number
<1> HIDE DEF s
<1>8. QED
  BY <1>5, <1>6, <1>7, Zenon DEF Piece

(* What the flush writes, all of it or the first k sectors, fits. *)
LEMMA FlushPiece ==
  ASSUME NumbersSuffice, EncInv, EnterEos, format, NEW k \in 0..FlushCount
  PROVE  Piece(DataSectors(sectorNumber, pushed, k), pushed)
<1>1. /\ FlushCount \in Nat /\ sectorNumber \in Nat
      /\ taken = sectorNumber * Capacity
      /\ FlushCount > 0 => (sectorNumber + FlushCount - 1) * Capacity < pushed
  BY FlushArith
<1>2. /\ rec \in Nat /\ pushed \in Nat /\ pushed <= MaxBytes /\ k \in Nat
      /\ Capacity \in Nat \ {0}
  BY <1>1, SectorAssumption DEF EncInv, EncTypeOK
<1>3. k > 0 => (sectorNumber + k - 1) * Capacity < pushed
  <2>1. (sectorNumber + k - 1) * Capacity <= (sectorNumber + FlushCount - 1) * Capacity
    BY <1>1, <1>2
  <2>2. /\ (sectorNumber + k - 1) * Capacity \in Int
        /\ (sectorNumber + FlushCount - 1) * Capacity \in Int
    BY <1>1, <1>2
  <2>3. QED
    BY <1>1, <1>2, <2>1, <2>2
<1>4. QED
  BY <1>1, <1>2, <1>3, DataPiece

LEMMA FlushTapeFits ==
  ASSUME NumbersSuffice, EncInv, EnterEos, format, NEW k \in Nat,
         tape' = FlushTape \o EorSectors(k)
  PROVE  tape' \in Seq(SectorType) /\ TapeFits'
<1> DEFINE data == DataSectors(sectorNumber, pushed, FlushCount)
           mark == EorSectors(k)
<1>1. Piece(data, pushed)
  BY FlushArith, FlushPiece
<1>2. Piece(mark, pushed)
  BY EorPiece
<1>3. tape' = (tape \o data) \o mark
  BY DEF FlushTape
<1>4. /\ pushed' = pushed /\ rec' = rec /\ pushed \in Nat /\ rec # 0
      /\ tape \in Seq(SectorType)
  BY DEF EnterEos, EncInv, EncTypeOK
<1> HIDE DEF data, mark
<1>5. Piece(data \o mark, pushed')
  BY <1>1, <1>2, <1>4, PieceConcat
<1>6. tape' = tape \o (data \o mark)
  <2>1. data \in Seq(SectorType) /\ mark \in Seq(SectorType)
    BY <1>1, <1>2 DEF Piece
  <2>2. (tape \o data) \o mark = tape \o (data \o mark)
    BY <1>4, <2>1, ConcatAssociative, SMTT(30)
  <2>3. QED
    BY <1>3, <2>2
<1>7. QED
  BY <1>4, <1>5, <1>6, TapeGrows

(* Bytes taken never exceed the bytes there are. *)
LEMMA TakenAfterBound ==
  ASSUME taken \in Nat, NEW k \in Nat, NEW end \in Nat
  PROVE  TakenAfter(k, end) \in Nat /\ TakenAfter(k, end) <= end
<1>1. k * Capacity \in Nat
  BY SectorAssumption
<1>2. QED
  BY <1>1 DEF TakenAfter, Lesser

-----------------------------------------------------------------------------
LEMMA EncInvInit == EncInit => EncInv
<1> SUFFICES ASSUME EncInit PROVE EncInv
  OBVIOUS
<1>1. EncTypeOK
  <2>1. format \in BOOLEAN
    BY Zenon DEF EncInit
  <2>2. tape \in Seq(SectorType)
    BY DEF EncInit
  <2>3. QED
    BY <2>1, <2>2 DEF EncInit, EncTypeOK
<1>2. DOMAIN tape = {} /\ pushed = 0 /\ taken = 0 /\ MaxBytes \in Nat
  BY EncoderAssumption DEF EncInit
<1>3. TapeFits
  BY <1>2 DEF TapeFits, Numbered
<1>4. phase = "idle"
  BY DEF EncInit
<1>5. QED
  BY <1>1, <1>2, <1>3, <1>4 DEF EncInv

(* A new recording: those before it keep the totals they ended with. *)
LEMMA NewRecordingKeeps ==
  ASSUME EncInv, NewRecording
  PROVE  EncInv'
<1>1. /\ rec \in Nat /\ rec' = rec + 1 /\ tape' = tape
      /\ pushed \in Nat /\ tape \in Seq(SectorType) /\ TapeFits
      /\ sectorNumber' = 0 /\ pushed' = 0 /\ taken' = 0 /\ format' = FALSE
      /\ phase' = "created"
  BY DEF EncInv, EncTypeOK, NewRecording
<1>2. EncTypeOK'
  <2>1. format' \in BOOLEAN
    BY <1>1, Zenon
  <2>2. QED
    BY <1>1, <2>1 DEF EncTypeOK
<1>3. \A i \in DOMAIN tape : tape[i].rec \in 1..rec /\ tape[i].rec \in Nat
  <2>1. \A i \in DOMAIN tape : tape[i] \in SectorType
    BY <1>1
  <2>2. QED
    BY <1>1, <2>1 DEF TapeFits, SectorType
<1>4. Numbered(rec)' = {}
  BY <1>1, <1>3 DEF Numbered
<1>5. TapeFits'
  <2>1. \A i \in DOMAIN tape' : tape'[i].rec \in 1..rec'
    BY <1>1, <1>3
  <2>2. ASSUME NEW r \in 0..(rec' - 1)
        PROVE  \E total \in Nat : \A i \in Numbered(r)' : Fits(tape'[i], total)
    <3>1. Numbered(r)' = Numbered(r)
      BY <1>1 DEF Numbered
    <3>2. CASE r = rec
      <4>1. \A i \in Numbered(r) : Fits(tape[i], pushed)
        BY <1>1, <3>2 DEF TapeFits
      <4>2. QED
        BY <1>1, <3>1, <4>1
    <3>3. CASE r # rec
      <4>1. r \in 0..(rec - 1)
        BY <1>1, <3>3
      <4>2. QED
        BY <1>1, <3>1, <4>1 DEF TapeFits
    <3>4. QED
      BY <3>2, <3>3
  <2>3. QED
    BY <1>4, <2>1, <2>2 DEF TapeFits
<1>6. QED
  BY <1>1, <1>2, <1>4, <1>5, EncoderAssumption DEF EncInv

LEMMA NewSegmentKeeps ==
  ASSUME EncInv, EncNewSegment
  PROVE  EncInv'
<1>1. /\ UNCHANGED <<rec, format, pushed, taken, tape>> /\ phase' = "open"
      /\ sectorNumber' \in {-1, 0} /\ phase = "created"
  BY DEF EncInv, EncNewSegment
<1>2. /\ Numbered(rec) = {} /\ taken = 0 /\ ~format /\ TapeFits /\ EncTypeOK
      /\ rec # 0 /\ taken <= pushed /\ pushed <= MaxBytes
  BY <1>1 DEF EncInv
<1>3. EncTypeOK'
  BY <1>1, <1>2 DEF EncTypeOK
<1>4. TapeFits' /\ AllFull'
  BY <1>1, <1>2 DEF TapeFits, AllFull, Numbered
<1>5. taken' = NumbersUsed' * Capacity
  <2>1. NumbersUsed' = 0
    BY <1>1 DEF NumbersUsed
  <2>2. QED
    BY <1>1, <1>2, <2>1, SectorAssumption
<1>6. sectorNumber' >= -1 /\ ~format' /\ rec' # 0
  BY <1>1, <1>2
<1>7. QED
  BY <1>1, <1>2, <1>3, <1>4, <1>5, <1>6 DEF EncInv

(* A call of enc_chain() that counts j sectors and gets k of them through. *)
LEMMA ChainCalled ==
  ASSUME NumbersSuffice, EncInv, NEW n \in 1..MaxBytes, EnterChain(n),
         NEW k \in 0..ChainCount(n), NEW j \in 0..ChainCount(n),
         tape' = ChainTape \o DataSectors(ChainStart, pushed + n, k),
         sectorNumber' = ChainStart + j,
         taken' = TakenAfter(j, pushed + n),
         phase' \in {"open", "error"}
  PROVE  EncInv'
<1>1. /\ rec' = rec /\ pushed' = pushed + n /\ format' = TRUE /\ phase = "open"
      /\ rec \in Nat /\ rec # 0 /\ pushed' \in Nat /\ pushed' <= MaxBytes
  BY EncoderAssumption DEF EncInv, EncTypeOK, EnterChain
<1>2. tape' \in Seq(SectorType) /\ TapeFits' /\ AllFull'
  BY ChainTapeFits
<1>3. /\ ChainStart \in Nat /\ ChainCount(n) \in Nat
      /\ taken' = (ChainStart + j) * Capacity
      /\ (ChainStart + j) * Capacity <= pushed'
  BY <1>1, ChainArith
<1>4. sectorNumber' \in Nat /\ taken' \in Nat /\ NumbersUsed' = sectorNumber'
  <2>1. j \in Nat
    BY <1>3
  <2>2. sectorNumber' \in Nat
    BY <1>3, <2>1
  <2>3. QED
    BY <1>3, <2>2, SectorAssumption DEF NumbersUsed
<1>5. EncTypeOK'
  <2>1. format' \in BOOLEAN
    BY <1>1, Zenon
  <2>2. QED
    BY <1>1, <1>2, <1>4, <2>1 DEF EncTypeOK
<1>6. taken' <= pushed' /\ taken' = NumbersUsed' * Capacity
  BY <1>3, <1>4
<1>7. /\ phase' # "created" /\ phase' # "idle"
      /\ sectorNumber' >= -1 /\ sectorNumber' >= 0
  BY <1>4
<1>8. MaxBytes' = MaxBytes
  OBVIOUS
<1>9. QED
  BY <1>1, <1>2, <1>5, <1>6, <1>7 DEF EncInv

LEMMA ChainKeeps ==
  ASSUME NumbersSuffice, EncInv, NEW n \in 1..MaxBytes,
         EncChain(n) \/ EncChainDataFails(n)
  PROVE  EncInv'
<1>1. ChainCount(n) \in Nat
  <2>1. phase = "open"
    BY DEF EncChain, EncChainDataFails, EnterChain
  <2>2. QED
    BY SectorAssumption, EncoderAssumption
    DEF EncInv, EncTypeOK, ChainCount, Available
<1>2. CASE EncChain(n)
  <2>1. ChainCount(n) \in 0..ChainCount(n) /\ phase' \in {"open", "error"}
    BY <1>1, <1>2 DEF EncChain, EnterChain
  <2>2. QED
    BY <1>2, <2>1, ChainCalled DEF EncChain
<1>3. CASE EncChainDataFails(n)
  <2>1. PICK k \in 0..(ChainCount(n) - 1) :
          FailAfter(ChainTape, ChainStart, pushed + n, k)
    BY <1>3 DEF EncChainDataFails
  <2>2. PICK consumed \in {0, 1} :
          /\ sectorNumber' = ChainStart + k + consumed
          /\ taken' = TakenAfter(k + consumed, pushed + n)
    BY <2>1 DEF FailAfter
  <2>3. k \in 0..ChainCount(n) /\ k + consumed \in 0..ChainCount(n)
    BY <1>1
  <2>4. sectorNumber' = ChainStart + (k + consumed)
    <3>1. ChainStart \in Int
      BY DEF ChainStart, EncInv, EncTypeOK
    <3>2. QED
      BY <2>2, <2>3, <3>1
  <2>5. /\ tape' = ChainTape \o DataSectors(ChainStart, pushed + n, k)
        /\ EnterChain(n) /\ phase' \in {"open", "error"}
    BY <1>3, <2>1 DEF EncChainDataFails, FailAfter
  <2>6. QED
    BY <2>2, <2>3, <2>4, <2>5, ChainCalled
<1>4. QED
  BY <1>2, <1>3

LEMMA ChainBorFailsKeeps ==
  ASSUME EncInv, NEW n \in 1..MaxBytes, EncChainBorFails(n)
  PROVE  EncInv'
<1>1. /\ rec' = rec /\ pushed' = pushed + n /\ format' = TRUE /\ phase = "open"
      /\ sectorNumber < 0 /\ sectorNumber' = 0 /\ taken' = taken
      /\ phase' = "error" /\ pushed' <= MaxBytes
  BY DEF EncChainBorFails, EnterChain
<1>2. /\ rec \in Nat /\ pushed \in Nat /\ pushed' \in Nat /\ pushed <= pushed'
      /\ AllFull /\ taken = 0 /\ BorLength \in Nat /\ rec # 0
  BY <1>1, SectorAssumption, EncoderAssumption DEF EncInv, EncTypeOK, NumbersUsed
<1>3. PICK k \in 0..(BorLength - 1) : tape' = tape \o EmptySectors(-1, k)
  BY DEF EncChainBorFails
<1>4. k \in Nat /\ taken \in Nat
  BY <1>2
<1>5. Piece(EmptySectors(-1, k), pushed') /\ FullPiece(EmptySectors(-1, k), pushed')
  BY <1>2, <1>4, BorPiece
<1>6. tape' \in Seq(SectorType) /\ TapeFits' /\ AllFull'
  BY <1>1, <1>2, <1>3, <1>5, TapeGrows
<1>7. EncTypeOK'
  <2>1. format' \in BOOLEAN
    BY <1>1, Zenon
  <2>2. QED
    BY <1>1, <1>2, <1>6, <2>1 DEF EncTypeOK
<1>8. NumbersUsed' * Capacity = 0
  BY <1>1, SectorAssumption DEF NumbersUsed
<1>9. QED
  BY <1>1, <1>2, <1>6, <1>7, <1>8 DEF EncInv

(* The end of the recording, however it ended: nothing more is asked of    *)
(* its state than the fitting of what is on the tape.                      *)
LEMMA RecordingOver ==
  ASSUME EncInv, UNCHANGED <<rec, format, pushed>>, phase # "idle",
         phase' \in {"done", "broken"},
         sectorNumber' \in Int, taken' \in Nat, taken' <= pushed,
         tape' \in Seq(SectorType), TapeFits'
  PROVE  EncInv'
<1>1. EncTypeOK /\ pushed <= MaxBytes
  BY DEF EncInv
<1>2. EncTypeOK'
  BY <1>1 DEF EncTypeOK
<1>3. /\ ~(phase' \in {"open", "error"}) /\ phase' # "created" /\ phase' # "idle"
      /\ rec' # 0
  BY DEF EncInv
<1>4. QED
  BY <1>1, <1>2, <1>3 DEF EncInv

LEMMA EosKeeps ==
  ASSUME NumbersSuffice, EncInv, EncEos \/ EncEosMarkFails
  PROVE  EncInv'
<1>1. EnterEos /\ format /\ phase' \in {"done", "broken"}
      /\ sectorNumber' = sectorNumber + FlushCount /\ taken' = FlushTaken
  BY DEF EncEos, EncEosMarkFails
<1>2. \E k \in Nat : tape' = FlushTape \o EorSectors(k)
  <2>1. EorLength \in Nat /\ 0..(EorLength - 1) \subseteq Nat
    BY EncoderAssumption
  <2>2. QED
    BY <2>1 DEF EncEos, EncEosMarkFails
<1>3. tape' \in Seq(SectorType) /\ TapeFits'
  BY <1>1, <1>2, FlushTapeFits
<1>4. /\ sectorNumber' \in Int /\ taken' = pushed /\ phase # "idle"
      /\ UNCHANGED <<rec, format, pushed>> /\ pushed \in Nat
  BY <1>1, FlushArith DEF EnterEos, EncInv, EncTypeOK
<1>5. QED
  BY <1>1, <1>3, <1>4, RecordingOver

LEMMA EosFlushFailsKeeps ==
  ASSUME NumbersSuffice, EncInv, EncEosFlushFails
  PROVE  EncInv'
<1>1. /\ EnterEos /\ format /\ phase # "idle" /\ phase' = "broken"
      /\ UNCHANGED <<rec, format, pushed>>
  BY DEF EncEosFlushFails, EnterEos
<1>2. FlushCount \in Nat /\ sectorNumber \in Nat
  BY <1>1, FlushArith
<1>3. PICK k \in 0..(FlushCount - 1) : FailAfter(tape, sectorNumber, pushed, k)
  BY DEF EncEosFlushFails
<1>4. PICK consumed \in {0, 1} : /\ sectorNumber' = sectorNumber + k + consumed
                                /\ taken' = TakenAfter(k + consumed, pushed)
  BY <1>3 DEF FailAfter
<1>5. k \in 0..FlushCount /\ k + consumed \in Nat /\ sectorNumber' \in Int
  BY <1>2, <1>4
<1>6. /\ taken \in Nat /\ pushed \in Nat /\ pushed' = pushed
      /\ rec' = rec /\ rec # 0
  BY <1>1 DEF EncInv, EncTypeOK
<1>7. tape' \in Seq(SectorType) /\ TapeFits'
  <2>1. Piece(DataSectors(sectorNumber, pushed, k), pushed')
    BY <1>1, <1>5, <1>6, FlushPiece
  <2>2. tape' = tape \o DataSectors(sectorNumber, pushed, k)
    BY <1>3 DEF FailAfter
  <2>3. QED
    BY <1>6, <2>1, <2>2, TapeGrows
<1>8. taken' \in Nat /\ taken' <= pushed
  BY <1>4, <1>5, <1>6, TakenAfterBound
<1>9. QED
  BY <1>1, <1>5, <1>7, <1>8, RecordingOver

(* Endings that write nothing. *)
LEMMA SilentEndKeeps ==
  ASSUME EncInv, EncEosNotNegotiated \/ Kill
  PROVE  EncInv'
<1>1. /\ UNCHANGED <<rec, sectorNumber, format, pushed, taken, tape>>
      /\ phase # "idle" /\ phase' = "broken"
  BY DEF EncEosNotNegotiated, Kill, EnterEos
<1>2. /\ sectorNumber' \in Int /\ taken' \in Nat /\ taken' <= pushed
      /\ tape' \in Seq(SectorType)
  BY <1>1 DEF EncInv, EncTypeOK
<1>3. TapeFits'
  BY <1>1 DEF EncInv, TapeFits, Numbered
<1>4. QED
  BY <1>1, <1>2, <1>3, RecordingOver

LEMMA EncInvStutter ==
  ASSUME EncInv, UNCHANGED encVars
  PROVE  EncInv'
BY DEF EncInv, EncTypeOK, TapeFits, AllFull, Numbered, NumbersUsed, encVars

LEMMA EncInvStep ==
  ASSUME NumbersSuffice, EncInv, [EncNext]_encVars
  PROVE  EncInv'
<1>1. CASE NewRecording
  BY <1>1, NewRecordingKeeps
<1>2. CASE EncNewSegment
  BY <1>2, NewSegmentKeeps
<1>3. ASSUME NEW n \in 1..MaxBytes,
             EncChain(n) \/ EncChainBorFails(n) \/ EncChainDataFails(n)
      PROVE  EncInv'
  BY <1>3, ChainKeeps, ChainBorFailsKeeps
<1>4. CASE EncEos \/ EncEosMarkFails
  BY <1>4, EosKeeps
<1>5. CASE EncEosFlushFails
  BY <1>5, EosFlushFailsKeeps
<1>6. CASE EncEosNotNegotiated \/ Kill
  BY <1>6, SilentEndKeeps
<1>7. CASE UNCHANGED encVars
  BY <1>7, EncInvStutter
<1>8. QED
  BY <1>1, <1>2, <1>3, <1>4, <1>5, <1>6, <1>7 DEF EncNext

(* The encoder keeps its invariant, for every capacity, mark length and    *)
(* number of recordings, as long as no recording outruns the sector        *)
(* numbers.                                                                *)
THEOREM EncoderInvariance == NumbersSuffice => (EncSpec => []EncInv)
<1> SUFFICES ASSUME NumbersSuffice PROVE EncSpec => []EncInv
  OBVIOUS
<1>1. EncInit => EncInv
  BY EncInvInit
<1>2. EncInv /\ [EncNext]_encVars => EncInv'
  BY EncInvStep
<1>3. QED
  BY <1>1, <1>2, PTL DEF EncSpec

-----------------------------------------------------------------------------
(* All sectors of any one recording fit one total. *)
LEMMA OneTotal ==
  ASSUME EncInv, NEW i \in DOMAIN tape
  PROVE  \E total \in Nat :
           \A j \in Numbered(tape[i].rec) : Fits(tape[j], total)
<1>1. /\ tape \in Seq(SectorType) /\ rec \in Nat /\ pushed \in Nat /\ TapeFits
  BY DEF EncInv, EncTypeOK
<1>2. tape[i].rec \in Nat /\ tape[i].rec <= rec
  <2>1. tape[i] \in SectorType
    BY <1>1
  <2>2. QED
    BY <1>1, <2>1 DEF SectorType, TapeFits
<1>3. CASE tape[i].rec = rec
  BY <1>1, <1>3 DEF TapeFits
<1>4. CASE tape[i].rec # rec
  <2>1. tape[i].rec \in 0..(rec - 1)
    BY <1>1, <1>2, <1>4
  <2>2. QED
    BY <1>1, <2>1 DEF TapeFits
<1>5. QED
  BY <1>3, <1>4

LEMMA SamePayload ==
  ASSUME EncInv, NEW i \in DOMAIN tape, NEW j \in DOMAIN tape,
         tape[i].rec = tape[j].rec, tape[i].number >= 0, tape[j].number >= 0
  PROVE  /\ tape[i].number = tape[j].number
              => tape[i].first = tape[j].first /\ tape[i].size = tape[j].size
         /\ tape[j].number = tape[i].number + 1
              => tape[j].first = tape[i].first + tape[i].size
         /\ tape[i].number = 0 => tape[i].first = 0
<1>1. tape[i] \in SectorType /\ tape[j] \in SectorType
  BY DEF EncInv, EncTypeOK
<1>2. PICK total \in Nat : \A k \in Numbered(tape[i].rec) : Fits(tape[k], total)
  BY OneTotal
<1>3. i \in Numbered(tape[i].rec) /\ j \in Numbered(tape[i].rec)
  BY DEF Numbered
<1>4. Fits(tape[i], total) /\ Fits(tape[j], total)
  BY <1>2, <1>3
<1>5. QED
  BY <1>1, <1>4, FitsIsFunctional

LEMMA PayloadFromInv == EncInv => NumberIdentifiesPayload
<1> SUFFICES ASSUME EncInv, NEW i \in DOMAIN tape, NEW j \in DOMAIN tape,
                    tape[i].rec = tape[j].rec,
                    tape[i].number = tape[j].number, tape[i].number >= 0
             PROVE  tape[i].first = tape[j].first /\ tape[i].size = tape[j].size
  BY DEF NumberIdentifiesPayload
<1>1. tape[j].number >= 0
  OBVIOUS
<1>2. QED
  BY <1>1, SamePayload

LEMMA GapFromInv == EncInv => LossShowsAsGap
<1> SUFFICES ASSUME EncInv PROVE LossShowsAsGap
  OBVIOUS
<1>1. ASSUME NEW i \in DOMAIN tape, NEW j \in DOMAIN tape,
             tape[i].rec = tape[j].rec, tape[i].number >= 0,
             tape[j].number = tape[i].number + 1
      PROVE  tape[j].first = tape[i].first + tape[i].size
  <2>1. tape[j].number >= 0
    <3>1. tape[i] \in SectorType
      BY DEF EncInv, EncTypeOK
    <3>2. tape[i].number \in Int
      BY <3>1 DEF SectorType
    <3>3. QED
      BY <1>1, <3>2
  <2>2. QED
    BY <1>1, <2>1, SamePayload
<1>2. ASSUME NEW i \in DOMAIN tape, tape[i].number = 0
      PROVE  tape[i].first = 0
  <2>1. tape[i].number >= 0
    BY <1>2
  <2>2. QED
    BY <1>2, <2>1, SamePayload
<1>3. QED
  BY <1>1, <1>2 DEF LossShowsAsGap

LEMMA EorFromInv == EncInv => EorIsAfterTheLastByte
<1> SUFFICES ASSUME EncInv, NEW i \in DOMAIN tape,
                    IsEor(tape[i]), tape[i].rec = rec
             PROVE  tape[i].first = pushed
  BY DEF EorIsAfterTheLastByte
<1>1. tape[i] \in SectorType /\ pushed \in Nat /\ TapeFits
  BY DEF EncInv, EncTypeOK
<1>2. i \in Numbered(rec) /\ tape[i].number >= 0 /\ tape[i].size = 0
  BY DEF Numbered, IsEor
<1>3. Fits(tape[i], pushed)
  BY <1>1, <1>2 DEF TapeFits
<1>4. QED
  BY <1>1, <1>2, <1>3, FitsIsFunctional

(* The number of a sector identifies its bytes, in every recording.        *)
THEOREM NumberIdentifiesPayloadAlways ==
  NumbersSuffice => (EncSpec => []NumberIdentifiesPayload)
BY EncoderInvariance, PayloadFromInv, PTL

(* A hole in the data on the tape is a hole in the numbers.                *)
THEOREM LossShowsAsGapAlways ==
  NumbersSuffice => (EncSpec => []LossShowsAsGap)
BY EncoderInvariance, GapFromInv, PTL

(* An end-of-record mark stands after the last byte, whatever failed.      *)
THEOREM EorIsAfterTheLastByteAlways ==
  NumbersSuffice => (EncSpec => []EorIsAfterTheLastByte)
BY EncoderInvariance, EorFromInv, PTL

-----------------------------------------------------------------------------
(* The layout of the tape when the recordings are ended as they should be: *)
(* one after the other, the numbers going up in each, and an EOR mark at   *)
(* the end of every one that is over.                                      *)

WholeRecordings == NumbersSuffice /\ ~DownstreamFails /\ ~MayBeKilled

(* What is known of a sector that comes some time after another.           *)
Follows(a, b) ==
  /\ a.rec <= b.rec
  /\ a.rec = b.rec /\ ~IsBor(a) =>
       IF IsEor(a) THEN IsEor(b) ELSE a.number < b.number

Ascending(s) == \A i, j \in DOMAIN s : i < j => Follows(s[i], s[j])

MarkAt(e, r) ==
  \A k \in e..(e + EorLength - 1) :
    k \in DOMAIN tape /\ tape[k].rec = r /\ IsEor(tape[k])

Marked(r) == \E e \in DOMAIN tape : MarkAt(e, r)

(* A sector of the recording in progress is not part of an EOR mark yet.   *)
InProgress(i) ==
  /\ format
  /\ tape[i].rec = rec
  /\ ~IsEor(tape[i])
  /\ tape[i].number < NumbersUsed

Placed(i) ==
  IF phase \in {"created", "open"} /\ tape[i].rec = rec
    THEN InProgress(i)
    ELSE Marked(tape[i].rec)

LayoutInv ==
  /\ Ascending(tape)
  /\ phase # "error"
  /\ phase = "created" => ~format
  /\ \A i \in DOMAIN tape : Placed(i)

(* One ascending run of sectors after another.                             *)
LEMMA AscendingConcat ==
  ASSUME NEW a \in Seq(SectorType), NEW b \in Seq(SectorType),
         Ascending(a), Ascending(b),
         \A i \in DOMAIN a, j \in DOMAIN b : Follows(a[i], b[j])
  PROVE  Ascending(a \o b)
<1> DEFINE c == a \o b
           n == Len(a)
<1>1. /\ n \in Nat /\ Len(b) \in Nat /\ DOMAIN a = 1..n /\ DOMAIN b = 1..Len(b)
      /\ DOMAIN c = 1..(n + Len(b))
      /\ \A i \in 1..n : c[i] = a[i]
      /\ \A i \in DOMAIN c : i > n => i - n \in DOMAIN b /\ c[i] = b[i - n]
  OBVIOUS
<1> HIDE DEF c, n
<1>2. SUFFICES ASSUME NEW i \in DOMAIN c, NEW j \in DOMAIN c, i < j
               PROVE  Follows(c[i], c[j])
  BY DEF Ascending, c
<1>3. CASE j <= n
  BY <1>1, <1>2, <1>3 DEF Ascending
<1>4. CASE i <= n /\ j > n
  <2>1. i \in DOMAIN a /\ c[i] = a[i]
    BY <1>1, <1>4
  <2>2. j - n \in DOMAIN b /\ c[j] = b[j - n]
    BY <1>1, <1>4
  <2>3. QED
    BY <2>1, <2>2
<1>5. CASE i > n
  <2>1. /\ i - n \in DOMAIN b /\ c[i] = b[i - n]
        /\ j - n \in DOMAIN b /\ c[j] = b[j - n]
        /\ i - n < j - n
    BY <1>1, <1>2, <1>5
  <2>2. QED
    BY <2>1 DEF Ascending
<1>6. QED
  BY <1>1, <1>3, <1>4, <1>5

(* A mark stays where it is when more is written after it.                 *)
LEMMA MarkStays ==
  ASSUME tape \in Seq(SectorType), NEW new \in Seq(SectorType),
         tape' = tape \o new, NEW r
  PROVE  /\ \A i \in DOMAIN tape : i \in DOMAIN tape' /\ tape'[i] = tape[i]
         /\ Marked(r) => Marked(r)'
<1>1. \A i \in DOMAIN tape : i \in DOMAIN tape' /\ tape'[i] = tape[i]
  OBVIOUS
<1>2. ASSUME NEW e \in DOMAIN tape, MarkAt(e, r)
      PROVE  e \in DOMAIN tape' /\ MarkAt(e, r)'
  BY <1>1, <1>2 DEF MarkAt
<1>3. QED
  BY <1>1, <1>2 DEF Marked

LEMMA PlacedAtMark ==
  ASSUME NEW i, NEW r, tape'[i].rec = r, Marked(r)',
         phase' \in {"created", "open"} => r # rec'
  PROVE  Placed(i)'
BY DEF Placed, Marked, MarkAt

(* What may be written next: sectors of the recording in progress that go  *)
(* on with the numbers.                                                    *)
Goes(new, from, to) ==
  /\ new \in Seq(SectorType)
  /\ Ascending(new)
  /\ \A k \in DOMAIN new :
       /\ new[k].rec = rec
       /\ ~IsEor(new[k]) /\ new[k].number < to
       /\ from > 0 => new[k].number >= from

LEMMA BorGoes ==
  ASSUME rec \in Nat, taken \in Nat, NEW n \in Nat
  PROVE  Goes(EmptySectors(-1, n), 0, 0)
<1> DEFINE s == Sector(rec, -1, taken, 0)
<1>1. NumberField(-1) = -1
  BY NumberFieldInRange, SectorAssumption
<1>2. s \in SectorType /\ s.rec = rec /\ s.number = -1
  <2>1. s \in SectorType
    BY SectorTyped
  <2>2. s.rec = rec /\ s.number = NumberField(-1)
    BY DEF Sector
  <2>3. QED
    BY <1>1, <2>1, <2>2
<1>3. /\ EmptySectors(-1, n) \in Seq(SectorType)
      /\ \A k \in DOMAIN EmptySectors(-1, n) : EmptySectors(-1, n)[k] = s
  BY <1>2 DEF EmptySectors
<1> HIDE DEF s
<1>4. Follows(s, s) /\ ~IsEor(s)
  BY <1>2 DEF Follows, IsBor, IsEor
<1>5. Ascending(EmptySectors(-1, n))
  BY <1>3, <1>4, Zenon DEF Ascending
<1>6. \A k \in DOMAIN EmptySectors(-1, n) :
        LET b == EmptySectors(-1, n)[k]
        IN  b.rec = rec /\ ~IsEor(b) /\ b.number < 0
  BY <1>2, <1>3, <1>4
<1>7. QED
  BY <1>3, <1>5, <1>6 DEF Goes

LEMMA DataGoes ==
  ASSUME NumbersSuffice, rec \in Nat,
         NEW number \in Nat, NEW end \in Nat, NEW n \in Nat,
         taken = number * Capacity, end <= MaxBytes,
         n > 0 => (number + n - 1) * Capacity < end
  PROVE  Goes(DataSectors(number, end, n), number, number + n)
<1> DEFINE d == DataSectors(number, end, n)
<1>1. Capacity \in Nat \ {0}
  BY SectorAssumption
<1>2. ASSUME NEW i \in 1..n
      PROVE  /\ d[i] \in SectorType /\ d[i].rec = rec
             /\ d[i].number = number + i - 1
             /\ ~IsEor(d[i]) /\ ~IsBor(d[i])
  <2>1. (number + i - 1) * Capacity <= (number + n - 1) * Capacity
    BY <1>1
  <2>2. /\ (number + i - 1) * Capacity \in Int /\ (number + n - 1) * Capacity \in Int
        /\ number + i - 1 \in Nat
    BY <1>1
  <2>3. (number + i - 1) * Capacity < end
    BY <2>1, <2>2
  <2>4. /\ d[i] \in SectorType /\ d[i].rec = rec
        /\ d[i].number = number + i - 1
        /\ Fits(d[i], end)
    BY <2>3, DataSectorsFit
  <2> HIDE DEF d
  <2>5. PICK m \in Int : m = (number + i - 1) * Capacity
    BY <2>2
  <2>6. d[i].first = Lesser(m, end) /\ d[i].size = Lesser(Capacity, end - d[i].first)
    BY <2>4, <2>5 DEF Fits
  <2>7. d[i].first = m /\ d[i].size # 0
    BY <1>1, <2>3, <2>5, <2>6 DEF Lesser
  <2>8. QED
    BY <2>2, <2>4, <2>7 DEF IsEor, IsBor
<1>3. DOMAIN d = 1..n /\ d \in Seq(SectorType)
  <2>1. d = [i \in 1..n |-> d[i]] /\ DOMAIN d = 1..n
    BY DEF DataSectors
  <2> HIDE DEF d
  <2>2. QED
    BY <1>2, <2>1
<1> HIDE DEF d
<1>4. Ascending(d)
  <2>1. SUFFICES ASSUME NEW i \in DOMAIN d, NEW j \in DOMAIN d, i < j
                 PROVE  Follows(d[i], d[j])
    BY DEF Ascending
  <2>2. i \in 1..n /\ j \in 1..n
    BY <1>3
  <2>3. /\ d[i].rec = rec /\ d[j].rec = rec /\ ~IsEor(d[i])
        /\ d[i].number = number + i - 1 /\ d[j].number = number + j - 1
    BY <1>2, <2>2
  <2>4. QED
    BY <2>1, <2>2, <2>3 DEF Follows
<1>5. \A k \in DOMAIN d : /\ d[k].rec = rec /\ ~IsEor(d[k])
                          /\ d[k].number < number + n /\ d[k].number >= number
  BY <1>2, <1>3
<1>6. QED
  BY <1>3, <1>4, <1>5 DEF Goes, d

LEMMA GoesConcat ==
  ASSUME NEW a, NEW b, rec \in Nat, NEW from \in Nat, NEW mid \in Nat, NEW to \in Nat,
         Goes(a, from, mid), Goes(b, mid, to), from <= mid, mid <= to
  PROVE  Goes(a \o b, from, to)
<1>1. /\ a \in Seq(SectorType) /\ b \in Seq(SectorType) /\ a \o b \in Seq(SectorType)
      /\ Ascending(a) /\ Ascending(b)
  BY DEF Goes
<1>2. ASSUME NEW i \in DOMAIN a
      PROVE  /\ a[i].number \in Int /\ a[i].rec = rec /\ ~IsEor(a[i])
             /\ a[i].number < mid /\ (from > 0 => a[i].number >= from)
  <2>1. a[i] \in SectorType
    BY <1>1
  <2>2. QED
    BY <2>1 DEF Goes, SectorType
<1>3. ASSUME NEW j \in DOMAIN b
      PROVE  /\ b[j].number \in Int /\ b[j].rec = rec /\ ~IsEor(b[j])
             /\ b[j].number < to /\ (mid > 0 => b[j].number >= mid)
  <2>1. b[j] \in SectorType
    BY <1>1
  <2>2. QED
    BY <2>1 DEF Goes, SectorType
<1>4. \A i \in DOMAIN a, j \in DOMAIN b : Follows(a[i], b[j])
  BY <1>2, <1>3 DEF Follows, IsBor
<1>5. Ascending(a \o b)
  BY <1>1, <1>4, AscendingConcat
<1>6. ASSUME NEW k \in DOMAIN (a \o b)
      PROVE  /\ (a \o b)[k].rec = rec /\ ~IsEor((a \o b)[k])
             /\ (a \o b)[k].number < to
             /\ (from > 0 => (a \o b)[k].number >= from)
  <2>1. CASE k <= Len(a)
    <3>1. k \in DOMAIN a /\ (a \o b)[k] = a[k]
      BY <1>1, <2>1
    <3>2. QED
      BY <1>2, <3>1
  <2>2. CASE ~(k <= Len(a))
    <3>1. k - Len(a) \in DOMAIN b /\ (a \o b)[k] = b[k - Len(a)]
      BY <1>1, <2>2
    <3>2. QED
      BY <1>3, <3>1
  <2>3. QED
    BY <2>1, <2>2
<1>7. QED
  BY <1>1, <1>5, <1>6 DEF Goes

(* The tape with more of the recording in progress.                        *)
LEMMA GrowsInOrder ==
  ASSUME EncInv, LayoutInv, phase = "open", NEW new, NEW to \in Nat,
         Goes(new, NumbersUsed, to), NumbersUsed <= to
  PROVE  /\ tape \o new \in Seq(SectorType)
         /\ Ascending(tape \o new)
         /\ \A i \in DOMAIN (tape \o new) :
              LET s == (tape \o new)[i]
              IN  /\ s.rec \in 1..rec
                  /\ s.rec = rec => ~IsEor(s) /\ s.number < to
         /\ \A i \in DOMAIN (tape \o new) :
              i \notin DOMAIN tape => (tape \o new)[i].rec = rec
<1>1. /\ tape \in Seq(SectorType) /\ new \in Seq(SectorType)
      /\ tape \o new \in Seq(SectorType)
      /\ Ascending(tape) /\ Ascending(new)
      /\ rec \in Nat /\ rec # 0 /\ NumbersUsed \in Nat /\ TapeFits
  BY DEF EncInv, EncTypeOK, LayoutInv, Goes, NumbersUsed
<1>2. ASSUME NEW i \in DOMAIN tape
      PROVE  /\ tape[i].number \in Int /\ tape[i].rec \in 1..rec
             /\ tape[i].rec = rec => /\ ~IsEor(tape[i])
                                     /\ tape[i].number < NumbersUsed
  <2>1. tape[i] \in SectorType
    BY <1>1
  <2>2. QED
    BY <1>1, <2>1 DEF LayoutInv, Placed, InProgress, TapeFits, SectorType
<1>3. ASSUME NEW k \in DOMAIN new
      PROVE  /\ new[k].number \in Int /\ new[k].rec = rec /\ ~IsEor(new[k])
             /\ new[k].number < to
             /\ NumbersUsed > 0 => new[k].number >= NumbersUsed
  <2>1. new[k] \in SectorType
    BY <1>1
  <2>2. QED
    BY <2>1 DEF Goes, SectorType
<1>4. \A i \in DOMAIN tape, k \in DOMAIN new : Follows(tape[i], new[k])
  <2>1. SUFFICES ASSUME NEW i \in DOMAIN tape, NEW k \in DOMAIN new
                 PROVE  Follows(tape[i], new[k])
    OBVIOUS
  <2>2. PICK u \in Nat : u = NumbersUsed
    BY <1>1
  <2>3. QED
    BY <1>1, <1>2, <1>3, <2>2 DEF Follows, IsBor
<1>5. Ascending(tape \o new)
  BY <1>1, <1>4, AscendingConcat
<1>6. ASSUME NEW i \in DOMAIN (tape \o new)
      PROVE  \/ i \in DOMAIN tape /\ (tape \o new)[i] = tape[i]
             \/ /\ i \notin DOMAIN tape
                /\ \E k \in DOMAIN new : (tape \o new)[i] = new[k]
  <2>1. CASE i <= Len(tape)
    BY <1>1, <2>1
  <2>2. CASE ~(i <= Len(tape))
    <3>1. /\ i - Len(tape) \in DOMAIN new /\ (tape \o new)[i] = new[i - Len(tape)]
          /\ i \notin DOMAIN tape
      BY <1>1, <2>2
    <3>2. QED
      BY <3>1
  <2>3. QED
    BY <2>1, <2>2
<1>7. rec \in 1..rec
  BY <1>1
<1>8. ASSUME NEW i \in DOMAIN (tape \o new)
      PROVE  /\ (tape \o new)[i].rec \in 1..rec
             /\ (tape \o new)[i].rec = rec
                  => ~IsEor((tape \o new)[i]) /\ (tape \o new)[i].number < to
             /\ i \notin DOMAIN tape => (tape \o new)[i].rec = rec
  <2>1. CASE i \in DOMAIN tape /\ (tape \o new)[i] = tape[i]
    <3>1. PICK u \in Nat : u = NumbersUsed
      BY <1>1
    <3>2. QED
      BY <1>2, <2>1, <3>1
  <2>2. CASE \E k \in DOMAIN new : (tape \o new)[i] = new[k]
    BY <1>3, <1>7, <2>2
  <2>3. QED
    BY <1>6, <2>1, <2>2
<1>9. QED
  BY <1>1, <1>5, <1>8

(* What a call of enc_chain() writes.                                      *)
LEMMA ChainGoes ==
  ASSUME NumbersSuffice, EncInv, NEW n \in 1..MaxBytes, EnterChain(n)
  PROVE  \E new : /\ ChainTape \o DataSectors(ChainStart, pushed + n, ChainCount(n))
                       = tape \o new
                  /\ Goes(new, NumbersUsed, ChainStart + ChainCount(n))
<1> DEFINE mark == IF sectorNumber < 0 THEN EmptySectors(-1, BorLength) ELSE <<>>
           k == ChainCount(n)
           data == DataSectors(ChainStart, pushed + n, k)
<1>1. /\ rec \in Nat /\ taken \in Nat /\ pushed \in Nat /\ n \in Nat
      /\ pushed + n <= MaxBytes /\ tape \in Seq(SectorType) /\ phase = "open"
      /\ BorLength \in Nat /\ Capacity \in Nat \ {0} /\ k \in Nat
  <2>1. k \in Nat
    BY SectorAssumption, EncoderAssumption
    DEF EnterChain, EncInv, EncTypeOK, ChainCount, Available
  <2>2. QED
    BY <2>1, SectorAssumption, EncoderAssumption DEF EncInv, EncTypeOK, EnterChain
<1>2. /\ ChainStart \in Nat /\ taken = ChainStart * Capacity
      /\ (ChainStart + k) * Capacity <= pushed + n
  BY <1>1, ChainArith
<1>3. ChainStart = NumbersUsed
  BY DEF ChainStart, NumbersUsed
<1>4. Goes(mark, ChainStart, ChainStart)
  <2>1. CASE sectorNumber < 0
    BY <1>1, <2>1, BorGoes DEF ChainStart
  <2>2. CASE ~(sectorNumber < 0)
    BY <2>2 DEF Goes, Ascending
  <2>3. QED
    BY <2>1, <2>2
<1>5. Goes(data, ChainStart, ChainStart + k)
  <2>1. k > 0 => (ChainStart + k - 1) * Capacity < pushed + n
    <3>1. (ChainStart + k) * Capacity = (ChainStart + k - 1) * Capacity + Capacity
      BY <1>1, <1>2
    <3>2. (ChainStart + k) * Capacity \in Int /\ (ChainStart + k - 1) * Capacity \in Int
      BY <1>1, <1>2
    <3>3. QED
      BY <1>1, <1>2, <3>1, <3>2
  <2>2. pushed + n \in Nat
    BY <1>1
  <2>3. QED
    BY <1>1, <1>2, <2>1, <2>2, DataGoes
<1> HIDE DEF mark, data, k
<1>6. Goes(mark \o data, ChainStart, ChainStart + k)
  <2>1. ChainStart + k \in Nat /\ ChainStart <= ChainStart + k
    BY <1>1, <1>2
  <2>2. ChainStart <= ChainStart
    BY <1>2
  <2>3. QED
    BY <1>1, <1>2, <1>4, <1>5, <2>1, <2>2, GoesConcat
<1>7. (tape \o mark) \o data = tape \o (mark \o data)
  <2>1. mark \in Seq(SectorType) /\ data \in Seq(SectorType)
    BY <1>4, <1>5 DEF Goes
  <2>2. QED
    BY <1>1, <2>1, ConcatAssociative, SMTT(30)
<1>8. ChainTape \o data = tape \o (mark \o data)
  BY <1>7, Zenon DEF ChainTape, mark
<1>9. QED
  BY <1>3, <1>6, <1>8 DEF data, k

LEMMA ChainKeepsLayout ==
  ASSUME NumbersSuffice, EncInv, LayoutInv, NEW n \in 1..MaxBytes, EncChain(n)
  PROVE  LayoutInv'
<1> DEFINE to == ChainStart + ChainCount(n)
<1>1. /\ EnterChain(n) /\ phase = "open" /\ phase' = "open" /\ rec' = rec
      /\ format' = TRUE /\ sectorNumber' = to
  BY DEF EncChain, EnterChain
<1>2. ChainCount(n) \in Nat /\ ChainStart \in Nat /\ NumbersUsed = ChainStart
  BY <1>1, SectorAssumption, EncoderAssumption
  DEF EncInv, EncTypeOK, ChainCount, Available, ChainStart, NumbersUsed
<1>3. PICK new : tape' = tape \o new /\ Goes(new, NumbersUsed, to)
  BY <1>1, ChainGoes DEF EncChain
<1>4. to \in Nat /\ NumbersUsed <= to /\ NumbersUsed' = to
  BY <1>1, <1>2 DEF NumbersUsed
<1> HIDE DEF to
<1>5. /\ Ascending(tape')
      /\ \A i \in DOMAIN tape' :
           /\ tape'[i].rec = rec => ~IsEor(tape'[i]) /\ tape'[i].number < to
           /\ i \notin DOMAIN tape => tape'[i].rec = rec
  BY <1>1, <1>3, <1>4, GrowsInOrder
<1>6. ASSUME NEW i \in DOMAIN tape'
      PROVE  Placed(i)'
  <2>1. CASE tape'[i].rec = rec
    <3>1. ~IsEor(tape'[i]) /\ tape'[i].number < NumbersUsed'
      BY <1>4, <1>5, <2>1
    <3>2. InProgress(i)'
      BY <1>1, <2>1, <3>1, Zenon DEF InProgress
    <3>3. QED
      BY <1>1, <2>1, <3>2 DEF Placed
  <2>2. CASE tape'[i].rec # rec
    <3>1. i \in DOMAIN tape
      BY <1>5, <2>2
    <3>2. tape \in Seq(SectorType) /\ new \in Seq(SectorType)
      BY <1>3 DEF EncInv, EncTypeOK, Goes
    <3>3. tape'[i] = tape[i]
      BY <1>3, <3>1, <3>2, MarkStays
    <3>4. Marked(tape[i].rec)
      BY <2>2, <3>1, <3>3 DEF LayoutInv, Placed
    <3>5. PICK r : r = tape[i].rec
      OBVIOUS
    <3>6. Marked(r)'
      BY <1>3, <3>2, <3>4, <3>5, MarkStays
    <3>7. QED
      BY <1>1, <2>2, <3>3, <3>5, <3>6, PlacedAtMark
  <2>3. QED
    BY <2>1, <2>2
<1>7. QED
  BY <1>1, <1>5, <1>6 DEF LayoutInv

(* The end of a recording: the rest of the data, then the mark.            *)
LEMMA EosKeepsLayout ==
  ASSUME NumbersSuffice, EncInv, LayoutInv, EncEos
  PROVE  LayoutInv'
<1> DEFINE data == DataSectors(sectorNumber, pushed, FlushCount)
           mark == EorSectors(EorLength)
           to   == sectorNumber + FlushCount
           s    == Sector(rec, to, FlushTaken, 0)
           n    == Len(FlushTape)
<1>1. /\ EnterEos /\ format /\ phase = "open" /\ phase' = "done" /\ rec' = rec
      /\ tape' = FlushTape \o mark
  BY DEF EncEos, EnterEos, LayoutInv
<1>2. /\ FlushCount \in Nat /\ sectorNumber \in Nat /\ FlushTaken = pushed
      /\ taken = sectorNumber * Capacity
      /\ FlushCount > 0 => (sectorNumber + FlushCount - 1) * Capacity < pushed
      /\ to <= HalfRange - 1
  BY <1>1, FlushArith
<1>3. /\ rec \in Nat /\ pushed \in Nat /\ pushed <= MaxBytes /\ HalfRange \in Nat \ {0}
      /\ tape \in Seq(SectorType) /\ EorLength \in Nat \ {0}
  BY SectorAssumption, EncoderAssumption DEF EncInv, EncTypeOK
<1>4. NumbersUsed = sectorNumber /\ to \in Nat /\ sectorNumber <= to
  BY <1>2 DEF NumbersUsed
<1>5. Goes(data, NumbersUsed, to)
  BY <1>2, <1>3, <1>4, DataGoes
<1>6. /\ s \in SectorType /\ s.rec = rec /\ s.number = to /\ IsEor(s)
  <2>1. s \in SectorType
    BY <1>2, <1>3, <1>4, SectorTyped
  <2>2. NumberField(to) = to
    BY <1>2, <1>3, <1>4, NumberFieldInRange
  <2>3. s.rec = rec /\ s.number = NumberField(to) /\ s.size = 0
    BY DEF Sector
  <2>4. QED
    BY <1>4, <2>1, <2>2, <2>3 DEF IsEor
<1>7. /\ mark \in Seq(SectorType) /\ DOMAIN mark = 1..EorLength
      /\ \A k \in 1..EorLength : mark[k] = s
  BY <1>3, <1>6 DEF EorSectors
<1>8. FlushTape = tape \o data
  BY DEF FlushTape
<1> HIDE DEF data, mark, to, s
<1>9. /\ FlushTape \in Seq(SectorType) /\ Ascending(FlushTape)
      /\ \A i \in DOMAIN FlushTape :
           /\ FlushTape[i].rec \in 1..rec
           /\ FlushTape[i].rec = rec => ~IsEor(FlushTape[i]) /\ FlushTape[i].number < to
           /\ i \notin DOMAIN tape => FlushTape[i].rec = rec
  BY <1>1, <1>4, <1>5, <1>8, GrowsInOrder
<1>10. Ascending(tape')
  <2>1. \A i \in DOMAIN FlushTape, k \in DOMAIN mark : Follows(FlushTape[i], mark[k])
    BY <1>3, <1>6, <1>7, <1>9 DEF Follows
  <2>2. Follows(s, s)
    BY <1>3, <1>6 DEF Follows
  <2>3. Ascending(mark)
    BY <1>7, <2>2 DEF Ascending
  <2>4. QED
    BY <1>1, <1>7, <1>9, <2>1, <2>3, AscendingConcat
<1>11. Marked(rec)'
  <2>1. n \in Nat
    BY <1>9
  <2>2. ASSUME NEW k \in (n + 1)..(n + 1 + EorLength - 1)
        PROVE  k \in DOMAIN tape' /\ tape'[k].rec = rec' /\ IsEor(tape'[k])
    <3>1. k \in DOMAIN tape' /\ tape'[k] = mark[k - n] /\ k - n \in 1..EorLength
      BY <1>1, <1>3, <1>7, <1>9
    <3>2. QED
      BY <1>1, <1>6, <1>7, <3>1
  <2>3. n + 1 \in (n + 1)..(n + 1 + EorLength - 1)
    BY <1>3, <2>1
  <2>4. PICK e : e = n + 1
    OBVIOUS
  <2> HIDE DEF n
  <2>5. \A k \in e..(e + EorLength - 1) :
          k \in DOMAIN tape' /\ tape'[k].rec = rec' /\ IsEor(tape'[k])
    BY <2>2, <2>4
  <2>6. e \in DOMAIN tape'
    BY <2>2, <2>3, <2>4
  <2>7. QED
    BY <2>5, <2>6 DEF Marked, MarkAt
<1>12. ASSUME NEW i \in DOMAIN tape'
       PROVE  Placed(i)'
  <2>1. CASE tape'[i].rec = rec
    <3>1. PICK r : r = rec
      OBVIOUS
    <3>2. Marked(r)'
      BY <1>1, <1>11, <3>1 DEF Marked, MarkAt
    <3>3. QED
      BY <1>1, <2>1, <3>1, <3>2, PlacedAtMark
  <2>2. CASE tape'[i].rec # rec
    <3>1. data \in Seq(SectorType)
      BY <1>5 DEF Goes
    <3>2. /\ tape' = tape \o (data \o mark)
          /\ data \o mark \in Seq(SectorType)
      <4>1. (tape \o data) \o mark = tape \o (data \o mark)
        BY <1>3, <1>7, <3>1, ConcatAssociative, SMTT(30)
      <4>2. tape' = tape \o (data \o mark)
        BY <1>1, <1>8, <4>1, Zenon
      <4>3. QED
        BY <1>7, <3>1, <4>2
    <3>3. i \in DOMAIN tape
      <4>1. CASE i > n
        <5>1. tape'[i] = mark[i - n] /\ i - n \in 1..EorLength
          BY <1>1, <1>3, <1>7, <1>9, <4>1
        <5>2. QED
          BY <1>6, <1>7, <2>2, <5>1
      <4>2. CASE ~(i > n)
        <5>1. i \in DOMAIN FlushTape /\ tape'[i] = FlushTape[i]
          BY <1>1, <1>3, <1>7, <1>9, <4>2
        <5>2. QED
          BY <1>9, <2>2, <5>1
      <4>3. QED
        BY <4>1, <4>2
    <3>4. tape'[i] = tape[i]
      BY <1>3, <3>2, <3>3, MarkStays
    <3>5. PICK r : r = tape[i].rec
      OBVIOUS
    <3>6. Marked(r)
      BY <2>2, <3>3, <3>4, <3>5 DEF LayoutInv, Placed
    <3>7. Marked(r)'
      BY <1>3, <3>2, <3>6, MarkStays
    <3>8. QED
      BY <1>1, <3>4, <3>5, <3>7, PlacedAtMark
  <2>3. QED
    BY <2>1, <2>2
<1>13. QED
  BY <1>1, <1>10, <1>12 DEF LayoutInv

(* Nothing is written at the other steps.                                  *)
LEMMA QuietKeepsLayout ==
  ASSUME EncInv, LayoutInv, tape' = tape,
         \/ NewRecording
         \/ EncNewSegment
         \/ EncEosNotNegotiated
         \/ UNCHANGED encVars
  PROVE  LayoutInv'
<1>1. /\ rec \in Nat /\ Ascending(tape') /\ phase # "error"
      /\ \A i \in DOMAIN tape : tape[i].rec \in 1..rec
  BY DEF EncInv, EncTypeOK, LayoutInv, TapeFits
<1>2. ASSUME NEW r, Marked(r)
      PROVE  Marked(r)'
  BY <1>2 DEF Marked, MarkAt
<1>3. CASE NewRecording
  <2>1. phase \notin {"created", "open"} /\ phase' = "created" /\ rec' = rec + 1
        /\ format' = FALSE
    BY <1>3 DEF NewRecording
  <2>2. \A i \in DOMAIN tape : Marked(tape[i].rec) /\ tape[i].rec # rec'
    BY <1>1, <2>1 DEF LayoutInv, Placed
  <2>3. ASSUME NEW i \in DOMAIN tape'
        PROVE  Placed(i)'
    <3>1. PICK r : r = tape[i].rec
      OBVIOUS
    <3>2. Marked(r) /\ r # rec'
      BY <2>2, <3>1
    <3>3. QED
      BY <1>2, <3>1, <3>2, PlacedAtMark
  <2>4. QED
    BY <1>1, <2>1, <2>3, Zenon DEF LayoutInv
<1>4. CASE EncNewSegment \/ EncEosNotNegotiated
  <2>1. ~format /\ phase' \in {"open", "broken"} /\ rec' = rec
    BY <1>4 DEF EncNewSegment, EncEosNotNegotiated, EnterEos, LayoutInv
  <2>2. phase \in {"created", "open"}
    BY <1>1, <1>4 DEF EncNewSegment, EncEosNotNegotiated, EnterEos
  <2>3. \A i \in DOMAIN tape : Marked(tape[i].rec) /\ tape[i].rec # rec'
    BY <2>1, <2>2 DEF LayoutInv, Placed, InProgress
  <2>4. ASSUME NEW i \in DOMAIN tape'
        PROVE  Placed(i)'
    <3>1. PICK r : r = tape[i].rec
      OBVIOUS
    <3>2. Marked(r) /\ r # rec'
      BY <2>3, <3>1
    <3>3. QED
      BY <1>2, <3>1, <3>2, PlacedAtMark
  <2>5. QED
    BY <1>1, <2>1, <2>4, Zenon DEF LayoutInv
<1>5. CASE UNCHANGED encVars
  <2>1. UNCHANGED <<phase, rec, sectorNumber, format>>
    BY <1>5 DEF encVars
  <2>2. NumbersUsed' = NumbersUsed
    BY <2>1 DEF NumbersUsed
  <2>3. ASSUME NEW i \in DOMAIN tape'
        PROVE  Placed(i)'
    <3>1. CASE phase \in {"created", "open"} /\ tape[i].rec = rec
      <4>1. InProgress(i)
        BY <3>1 DEF LayoutInv, Placed
      <4>2. InProgress(i)'
        BY <2>1, <2>2, <4>1 DEF InProgress
      <4>3. QED
        BY <2>1, <3>1, <4>2 DEF Placed
    <3>2. CASE ~(phase \in {"created", "open"} /\ tape[i].rec = rec)
      <4>1. PICK r : r = tape[i].rec
        OBVIOUS
      <4>2. Marked(r)
        BY <3>2, <4>1 DEF LayoutInv, Placed
      <4>3. QED
        BY <1>2, <2>1, <3>2, <4>1, <4>2, PlacedAtMark
    <3>3. QED
      BY <3>1, <3>2
  <2>4. QED
    BY <1>1, <2>1, <2>3 DEF LayoutInv
<1>6. QED
  BY <1>3, <1>4, <1>5

LEMMA LayoutInvStep ==
  ASSUME WholeRecordings, EncInv, LayoutInv, [EncNext]_encVars
  PROVE  LayoutInv'
<1>1. NumbersSuffice /\ ~DownstreamFails /\ ~MayBeKilled
  BY DEF WholeRecordings
<1>2. CASE NewRecording \/ EncNewSegment \/ EncEosNotNegotiated \/ UNCHANGED encVars
  <2>1. tape' = tape
    BY <1>2 DEF NewRecording, EncNewSegment, EncEosNotNegotiated, encVars
  <2>2. QED
    BY <1>2, <2>1, QuietKeepsLayout
<1>3. ASSUME NEW n \in 1..MaxBytes, EncChain(n)
      PROVE  LayoutInv'
  BY <1>1, <1>3, ChainKeepsLayout
<1>4. CASE EncEos
  BY <1>1, <1>4, EosKeepsLayout
<1>5. QED
  BY <1>1, <1>2, <1>3, <1>4
  DEF EncNext, EncChainBorFails, EncChainDataFails, EncEosFlushFails,
      EncEosMarkFails, Kill

LEMMA LayoutInvInit == EncInit => LayoutInv
<1> SUFFICES ASSUME EncInit PROVE LayoutInv
  OBVIOUS
<1>1. DOMAIN tape = {} /\ phase = "idle"
  BY DEF EncInit
<1>2. QED
  BY <1>1 DEF LayoutInv, Ascending

(* Recordings that nothing cuts short stand on the tape one after the      *)
(* other, each with its numbers in ascending order and a whole EOR mark at *)
(* its end.                                                                *)
THEOREM LayoutInvariance == WholeRecordings => (EncSpec => []LayoutInv)
<1> SUFFICES ASSUME WholeRecordings PROVE EncSpec => []LayoutInv
  OBVIOUS
<1>1. NumbersSuffice
  BY DEF WholeRecordings
<1>2. EncInit => LayoutInv
  BY LayoutInvInit
<1>3. LayoutInv /\ EncInv /\ [EncNext]_encVars => LayoutInv'
  BY LayoutInvStep
<1>4. EncSpec => []EncInv
  BY <1>1, EncoderInvariance
<1>5. QED
  BY <1>2, <1>3, <1>4, PTL DEF EncSpec

-----------------------------------------------------------------------------
(***************************************************************************)
(* What the decoder keeps whatever sectors it is given, in whatever order  *)
(* and condition, and whatever the element downstream answers.             *)
(***************************************************************************)
DecInv == DecTypeOK /\ DeliveredInOrder /\ PositionKept

-----------------------------------------------------------------------------
LEMMA SizeReadTyped ==
  ASSUME NEW s \in SectorType, NEW damage, NEW size \in SizesRead(s, damage)
  PROVE  size \in Nat
<1>1. s.low \in Nat /\ s.high \in Nat /\ LowDigits \in Nat \ {0} /\ Capacity \in Nat
  BY SectorAssumption DEF SectorType
<1>2. PICK high \in IF damage = "length" THEN HighBytes ELSE {s.high} :
        size = SizeRead(s, high)
  BY DEF SizesRead
<1>3. high \in Nat
  BY <1>1, <1>2, DecoderAssumption
<1>4. high * LowDigits \in Nat
  BY <1>1, <1>3
<1>5. QED
  BY <1>1, <1>2, <1>4 DEF SizeRead, DecodeLength

(* What an accepted sector leaves: the number moves up, and the peer gets  *)
(* the sector once, or nothing.                                            *)
LEMMA DeliverEffect ==
  ASSUME DecTypeOK, NEW s \in SectorType, NEW damage, NEW size \in Nat,
         NEW event \in BOOLEAN, NEW push \in BOOLEAN,
         Deliver(s, damage, size, event, push)
  PROVE  /\ halted' \in BOOLEAN /\ eosSeen' \in BOOLEAN /\ sunk' \in Nat
         /\ delivered' \in {delivered, Append(delivered, s)}
         /\ ~halted' /\ ~eosSeen' => delivered' = Append(delivered, s)
         /\ ~eosSeen' => ~eosSeen
<1>1. sunk \in Nat /\ eosSeen \in BOOLEAN
  BY DEF DecTypeOK
<1>2. CASE size = 0 /\ eosSeen' = TRUE /\ halted' = event
           /\ UNCHANGED <<delivered, sunk>>
  BY <1>1, <1>2
<1>3. CASE halted' = TRUE /\ UNCHANGED <<delivered, sunk, eosSeen>>
  BY <1>1, <1>3
<1>4. CASE /\ delivered' = IF push THEN Append(delivered, s) ELSE delivered
           /\ sunk' = sunk + (IF push THEN size ELSE 0)
           /\ halted' = ~push
           /\ UNCHANGED eosSeen
  <2>1. sunk' \in Nat
    BY <1>1, <1>4
  <2>2. delivered' \in {delivered, Append(delivered, s)}
    BY <1>4
  <2>3. halted' \in BOOLEAN /\ eosSeen' \in BOOLEAN /\ (~eosSeen' => ~eosSeen)
    BY <1>1, <1>4, Zenon
  <2>4. ~halted' => delivered' = Append(delivered, s)
    BY <1>4, Zenon
  <2>5. QED
    BY <2>1, <2>2, <2>3, <2>4, Zenon
<1>5. QED
  BY <1>2, <1>3, <1>4 DEF Deliver

(* The sequence of delivered numbers goes on increasing. *)
LEMMA AcceptInOrder ==
  ASSUME DecTypeOK, DeliveredInOrder, NEW s \in SectorType, NEW damage,
         Accept(s, damage),
         delivered' \in {delivered, Append(delivered, s)}
  PROVE  DeliveredInOrder' /\ delivered' \in Seq(SectorType)
<1>1. /\ lastNumber \in Int /\ s.number \in Int /\ s.number > lastNumber
      /\ lastNumber' = s.number /\ delivered \in Seq(SectorType)
  BY DEF DecTypeOK, SectorType, Accept, IsDuplicate
<1>2. \A i \in DOMAIN delivered : delivered[i].number \in Int
  <2>1. \A i \in DOMAIN delivered : delivered[i] \in SectorType
    BY <1>1
  <2>2. QED
    BY <2>1 DEF SectorType
<1>3. CASE delivered' = delivered
  BY <1>1, <1>2, <1>3 DEF DeliveredInOrder
<1>4. CASE delivered' = Append(delivered, s)
  <2>1. DOMAIN delivered' = DOMAIN delivered \cup {Len(delivered) + 1}
    BY <1>1, <1>4
  <2>2. \A i \in DOMAIN delivered : /\ delivered'[i] = delivered[i]
                                    /\ i < Len(delivered) + 1
    BY <1>1, <1>4
  <2>3. delivered'[Len(delivered) + 1] = s /\ Len(delivered) \in Nat
    BY <1>1, <1>4
  <2>4. \A i \in DOMAIN delivered : delivered[i].number < s.number
    BY <1>1, <1>2 DEF DeliveredInOrder
  <2>5. \A i \in DOMAIN delivered' : delivered'[i].number <= lastNumber'
    BY <1>1, <1>2, <2>1, <2>2, <2>3, <2>4
  <2>6. ASSUME NEW i \in DOMAIN delivered', NEW j \in DOMAIN delivered', i < j
        PROVE  delivered'[i].number < delivered'[j].number
    <3>1. i \in DOMAIN delivered
      BY <1>1, <2>1, <2>2, <2>3, <2>6
    <3>2. CASE j \in DOMAIN delivered
      BY <2>2, <2>6, <3>1, <3>2 DEF DeliveredInOrder
    <3>3. CASE j = Len(delivered) + 1
      BY <2>2, <2>3, <2>4, <3>1, <3>3
    <3>4. QED
      BY <2>1, <3>2, <3>3
  <2>7. delivered' \in Seq(SectorType)
    BY <1>1, <1>4
  <2>8. QED
    BY <2>5, <2>6, <2>7 DEF DeliveredInOrder
<1>5. QED
  BY <1>3, <1>4

-----------------------------------------------------------------------------
LEMMA DecInvInit == DecInit => DecInv
<1> SUFFICES ASSUME DecInit PROVE DecInv
  OBVIOUS
<1>1. halted \in BOOLEAN /\ eosSeen \in BOOLEAN
  BY Zenon DEF DecInit
<1>2. delivered \in Seq(SectorType) /\ DOMAIN delivered = {}
  BY DEF DecInit
<1>3. DecTypeOK
  BY <1>1, <1>2 DEF DecInit, DecTypeOK
<1>4. DeliveredInOrder
  BY <1>2 DEF DeliveredInOrder
<1>5. PositionKept
  BY DEF DecInit, PositionKept
<1>6. QED
  BY <1>3, <1>4, <1>5 DEF DecInv

LEMMA CountBadTyped ==
  ASSUME DecTypeOK, NEW damage
  PROVE  CountBad(damage) \in Nat
BY DEF DecTypeOK, CountBad

(* A sector that is dropped before it is accepted. *)
LEMMA DropKeeps ==
  ASSUME DecInv, NEW s \in SectorType, NEW damage,
         DropHeaderless(damage) \/ DropBor(s, damage) \/ DropDuplicate(s, damage)
  PROVE  DecInv'
<1>1. /\ UNCHANGED <<lastNumber, halted, position, delivered, sunk, eosSeen>>
  BY DEF DropHeaderless, DropBor, DropDuplicate, peerVars
<1>2. DecTypeOK
  BY DEF DecInv
<1>3. notUnderrunning' \in {0, 1} /\ duplicateRuns' \in Nat /\ badSectors' \in Nat
  <2>1. CountBad(damage) \in Nat
    BY <1>2, CountBadTyped
  <2>2. QED
    BY <1>2, <2>1 DEF DecTypeOK, DropHeaderless, DropBor, DropDuplicate
<1>4. DecTypeOK'
  BY <1>1, <1>2, <1>3 DEF DecTypeOK
<1>5. DeliveredInOrder' /\ PositionKept'
  BY <1>1 DEF DecInv, DeliveredInOrder, PositionKept
<1>6. QED
  BY <1>4, <1>5 DEF DecInv

(* A sector that is accepted; "told" is what the peer was told of. *)
LEMMA AcceptKeeps ==
  ASSUME DecInv, NEW s \in SectorType, NEW damage, Accept(s, damage),
         halted' \in BOOLEAN, eosSeen' \in BOOLEAN, sunk' \in Nat,
         position' \in Nat,
         delivered' \in {delivered, Append(delivered, s)},
         ~halted' /\ ~eosSeen' => position' = s.number + 1
  PROVE  DecInv'
<1>1. /\ DecTypeOK /\ DeliveredInOrder
  BY DEF DecInv
<1>2. DeliveredInOrder' /\ delivered' \in Seq(SectorType)
  BY <1>1, AcceptInOrder
<1>3. /\ lastNumber' = s.number /\ s.number \in Int /\ s.number >= -1
      /\ notUnderrunning' = 1 /\ duplicateRuns' = duplicateRuns
      /\ badSectors' = CountBad(damage)
  BY <1>1 DEF Accept, SectorType, IsBor, DecTypeOK
<1>4. DecTypeOK'
  <2>1. badSectors' \in Nat
    BY <1>1, <1>3, CountBadTyped
  <2>2. QED
    BY <1>1, <1>2, <1>3, <2>1 DEF DecTypeOK
<1>5. PositionKept'
  BY <1>3 DEF PositionKept
<1>6. QED
  BY <1>2, <1>4, <1>5 DEF DecInv

LEMMA DecChainKeeps ==
  ASSUME DecInv, NEW s \in SectorType, NEW damage \in Damages, DecChain(s, damage)
  PROVE  DecInv'
<1>1. /\ DecTypeOK /\ PositionKept /\ ~halted
  BY DEF DecInv, DecChain
<1>2. CASE DropHeaderless(damage) \/ DropBor(s, damage) \/ DropDuplicate(s, damage)
  BY <1>2, DropKeeps
<1>3. ASSUME NEW custom \in EventResults, NEW eos \in EosResults,
             NEW push \in PushResults, NEW size \in SizesRead(s, damage),
             NEW event \in {eos, custom},
             \/ AcceptNext(s, damage, size, event, push)
             \/ AcceptAfterGapUnhandled(s, damage, size, event, push)
      PROVE  DecInv'
  <2>1. size \in Nat
    BY SizeReadTyped
  <2>2. event \in BOOLEAN /\ push \in BOOLEAN
    BY <1>3, DecoderAssumption
  <2>3. /\ Accept(s, damage) /\ Deliver(s, damage, size, event, push)
        /\ SectorsSkipped(s) \in Nat
        /\ position' = position + SectorsSkipped(s) + Len(delivered') - Len(delivered)
    <3>1. position \in Nat /\ SectorsSkipped(s) \in Int
      BY <1>1 DEF SectorsSkipped, DecTypeOK, SectorType
    <3>2. CASE AcceptNext(s, damage, size, event, push)
      <4>1. /\ Accept(s, damage) /\ Deliver(s, damage, size, event, push)
            /\ SectorsSkipped(s) = 0
            /\ position' = position + Len(delivered') - Len(delivered)
        BY <3>2 DEF AcceptNext
      <4>2. position + SectorsSkipped(s) = position
        BY <3>1, <4>1
      <4>3. QED
        BY <4>1, <4>2
    <3>3. CASE AcceptAfterGapUnhandled(s, damage, size, event, push)
      BY <3>1, <3>3 DEF AcceptAfterGapUnhandled
    <3>4. QED
      BY <1>3, <3>2, <3>3
  <2>4. /\ halted' \in BOOLEAN /\ eosSeen' \in BOOLEAN /\ sunk' \in Nat
        /\ delivered' \in {delivered, Append(delivered, s)}
        /\ ~halted' /\ ~eosSeen' => delivered' = Append(delivered, s)
        /\ ~eosSeen' => ~eosSeen
    BY <1>1, <2>1, <2>2, <2>3, DeliverEffect
  <2>5. /\ delivered \in Seq(SectorType) /\ Len(delivered) \in Nat
        /\ Len(Append(delivered, s)) = Len(delivered) + 1
        /\ position \in Nat /\ lastNumber \in Int /\ s.number \in Int
    BY <1>1 DEF DecTypeOK, SectorType
  <2>6. position' \in Nat
    BY <2>3, <2>4, <2>5
  <2>7. ~halted' /\ ~eosSeen' => position' = s.number + 1
    <3>1. SUFFICES ASSUME ~halted', ~eosSeen' PROVE position' = s.number + 1
      OBVIOUS
    <3>2. delivered' = Append(delivered, s) /\ position = lastNumber + 1
      BY <1>1, <2>4, <3>1 DEF PositionKept
    <3>3. SectorsSkipped(s) = s.number - lastNumber - 1
      BY DEF SectorsSkipped
    <3>4. Len(delivered') = Len(delivered) + 1
      BY <2>5, <3>2
    <3>5. position' = position + SectorsSkipped(s) + Len(delivered') - Len(delivered)
      BY <2>3
    <3>6. QED
      BY <2>5, <3>2, <3>3, <3>4, <3>5
  <2>8. QED
    BY <2>3, <2>4, <2>6, <2>7, AcceptKeeps
<1>4. CASE AcceptAfterGapHandled(s, damage)
  <2>1. /\ position' = position + 1 /\ halted' = TRUE
        /\ UNCHANGED <<delivered, sunk, eosSeen>> /\ Accept(s, damage)
    BY <1>4 DEF AcceptAfterGapHandled
  <2>2. /\ halted' \in BOOLEAN /\ eosSeen' \in BOOLEAN /\ sunk' \in Nat
        /\ position' \in Nat
    BY <1>1, <2>1 DEF DecTypeOK
  <2>3. QED
    BY <2>1, <2>2, AcceptKeeps
<1>5. QED
  BY <1>2, <1>3, <1>4 DEF DecChain

LEMMA DecInvStutter ==
  ASSUME DecInv, UNCHANGED decVars
  PROVE  DecInv'
BY DEF DecInv, DecTypeOK, DeliveredInOrder, PositionKept, decVars, statVars, peerVars

(* Whatever sectors arrive, the decoder delivers each number at most once, *)
(* in increasing order, and while it runs the peer can keep count.         *)
THEOREM DecoderInvariance == DecSpec => []DecInv
<1>1. DecInit => DecInv
  BY DecInvInit
<1>2. DecInv /\ [DecNext]_decVars => DecInv'
  BY DecChainKeeps, DecInvStutter DEF DecNext
<1>3. QED
  BY <1>1, <1>2, PTL DEF DecSpec

(* Delivery is in order and without repetition. *)
THEOREM DeliveredInOrderAlways == DecSpec => []DeliveredInOrder
<1>1. DecInv => DeliveredInOrder
  BY DEF DecInv
<1>2. QED
  BY <1>1, DecoderInvariance, PTL

(* Sectors delivered and reported missing add up while the decoder runs. *)
THEOREM PositionKeptAlways == DecSpec => []PositionKept
<1>1. DecInv => PositionKept
  BY DEF DecInv
<1>2. QED
  BY <1>1, DecoderInvariance, PTL

-----------------------------------------------------------------------------
(* The composition.                                                        *)

TapeTypeOK ==
  /\ playing \in BOOLEAN
  /\ head \in Nat \ {0}
  /\ faults \in Nat
  /\ replays \in Nat
  /\ dataFaults \in Nat

RecordInv == EncInv /\ DecInv /\ TapeTypeOK

(* One recording, a peer that handles events, so that a gap or a bad       *)
(* sector stops the playback, and no damage to the byte the length of a    *)
(* short sector is in, which is not noticed.                               *)
TransferConditions ==
  /\ NumbersSuffice
  /\ MaxRecordings <= 1
  /\ EventResults \subseteq {TRUE}
  /\ "length" \notin Damages

(* The bytes of the recording up to the place of sector n. *)
Before(n) == Lesser(n * Capacity, pushed)

TransferInv ==
  /\ rec <= MaxRecordings
  /\ ~playing => lastNumber = -1 /\ ~halted /\ ~eosSeen
  /\ sunk <= pushed
  /\ ~halted /\ ~eosSeen => sunk = Before(lastNumber + 1)
  /\ eosSeen => sunk = pushed /\ pushed <= lastNumber * Capacity

-----------------------------------------------------------------------------
(* A step of the playback is a call of the decoder for a sector of the     *)
(* tape, or none.                                                          *)
LEMMA PlaybackCalls ==
  ASSUME RecordInv, Playback
  PROVE  /\ UNCHANGED encVars
         /\ playing /\ playing'
         /\ TapeTypeOK'
         /\ \/ UNCHANGED decVars
            \/ \E i \in DOMAIN tape, damage \in Damages : DecChain(tape[i], damage)
<1>1. /\ TapeTypeOK /\ tape \in Seq(SectorType)
  BY DEF RecordInv, EncInv, EncTypeOK
<1>2. head \in DOMAIN tape /\ playing /\ head + 1 \in Nat \ {0} /\ faults + 1 \in Nat
  <2>1. Running
    BY DEF Playback, PlayGood, PlayDamaged, Miss, Repeat
  <2>2. QED
    BY <1>1, <2>1 DEF Running, TapeTypeOK
<1>3. ASSUME faults' = faults \/ Fault
      PROVE  faults' \in Nat /\ (Fault => dataFaults' \in Nat)
  BY <1>1, <1>3 DEF Fault, TapeTypeOK
<1>4. CASE PlayGood
  <2>1. /\ UNCHANGED <<encVars, playing, faults, replays, dataFaults>>
        /\ head' = head + 1
        /\ DecChain(tape[head], "none")
    BY <1>4 DEF PlayGood
  <2>2. "none" \in Damages
    BY DecoderAssumption
  <2>3. playing'
    BY <1>2, <2>1, Zenon
  <2>4. TapeTypeOK'
    BY <1>1, <1>2, <2>1 DEF TapeTypeOK
  <2>5. QED
    BY <1>2, <2>1, <2>2, <2>3, <2>4
<1>5. CASE PlayDamaged
  <2>1. /\ UNCHANGED <<encVars, playing, replays>> /\ Fault
        /\ head' = head + 1
        /\ \E damage \in Damages : DecChain(tape[head], damage)
    BY <1>5 DEF PlayDamaged
  <2>2. playing'
    BY <1>2, <2>1, Zenon
  <2>3. TapeTypeOK'
    BY <1>1, <1>2, <1>3, <2>1 DEF TapeTypeOK
  <2>4. QED
    BY <1>2, <2>1, <2>2, <2>3
<1>6. CASE Miss
  <2>1. /\ UNCHANGED <<encVars, decVars, playing, replays>> /\ Fault
        /\ head' = head + 1
    BY <1>6 DEF Miss
  <2>2. playing'
    BY <1>2, <2>1, Zenon
  <2>3. TapeTypeOK'
    BY <1>1, <1>2, <1>3, <2>1 DEF TapeTypeOK
  <2>4. QED
    BY <1>2, <2>1, <2>2, <2>3
<1>7. CASE Repeat
  <2>1. /\ UNCHANGED <<encVars, decVars, playing, dataFaults>>
        /\ head' \in 1..(head - 1)
        /\ faults' = faults + 1 /\ replays' = replays + 1
    BY <1>7 DEF Repeat
  <2>2. playing'
    BY <1>2, <2>1, Zenon
  <2>3. TapeTypeOK'
    BY <1>1, <1>2, <2>1 DEF TapeTypeOK
  <2>4. QED
    BY <1>2, <2>1, <2>2, <2>3
<1>8. QED
  BY <1>4, <1>5, <1>6, <1>7 DEF Playback

LEMMA RecordInitially == Init => RecordInv
<1> SUFFICES ASSUME Init PROVE RecordInv
  OBVIOUS
<1>1. EncInv /\ DecInv
  BY EncInvInit, DecInvInit DEF Init
<1>2. playing \in BOOLEAN
  BY Zenon DEF Init
<1>3. QED
  BY <1>1, <1>2 DEF Init, RecordInv, TapeTypeOK

LEMMA RecordStep ==
  ASSUME NumbersSuffice, RecordInv, [Next]_vars
  PROVE  RecordInv'
<1>1. EncInv /\ DecInv /\ TapeTypeOK /\ tape \in Seq(SectorType)
  BY DEF RecordInv, EncInv, EncTypeOK
<1>2. CASE Recording
  <2>1. EncNext /\ UNCHANGED decVars /\ UNCHANGED tapeVars
    BY <1>2 DEF Recording
  <2>2. EncInv' /\ DecInv'
    BY <1>1, <2>1, EncInvStep, DecInvStutter
  <2>3. TapeTypeOK'
    BY <1>1, <2>1 DEF TapeTypeOK, tapeVars
  <2>4. QED
    BY <2>2, <2>3 DEF RecordInv
<1>3. CASE Rewind \/ UNCHANGED vars
  <2>1. UNCHANGED encVars /\ UNCHANGED decVars
    BY <1>3 DEF Rewind, vars
  <2>2. EncInv' /\ DecInv'
    BY <1>1, <2>1, EncInvStutter, DecInvStutter
  <2>3. playing' \in BOOLEAN
    BY <1>1, <1>3, Zenon DEF Rewind, vars, tapeVars, TapeTypeOK
  <2>4. TapeTypeOK'
    BY <1>1, <1>3, <2>3 DEF TapeTypeOK, Rewind, vars, tapeVars
  <2>5. QED
    BY <2>2, <2>4 DEF RecordInv
<1>4. CASE Playback
  <2>1. UNCHANGED encVars /\ TapeTypeOK'
    BY <1>4, PlaybackCalls
  <2>2. EncInv'
    BY <1>1, <2>1, EncInvStutter
  <2>3. CASE UNCHANGED decVars
    BY <1>1, <2>1, <2>2, <2>3, DecInvStutter DEF RecordInv
  <2>4. ASSUME NEW i \in DOMAIN tape, NEW damage \in Damages,
               DecChain(tape[i], damage)
        PROVE  RecordInv'
    <3>1. tape[i] \in SectorType
      BY <1>1
    <3>2. DecInv'
      BY <1>1, <2>4, <3>1, DecChainKeeps
    <3>3. QED
      BY <2>1, <2>2, <3>2 DEF RecordInv
  <2>5. QED
    BY <1>4, <2>3, <2>4, PlaybackCalls
<1>5. QED
  BY <1>2, <1>3, <1>4 DEF Next

(* Encoder and decoder keep their invariants in the composition, with any  *)
(* number of recordings and faults: what was proved of each alone holds of *)
(* the two with a tape between them.                                       *)
THEOREM RecordInvariance == NumbersSuffice => (Spec => []RecordInv)
<1> SUFFICES ASSUME NumbersSuffice PROVE Spec => []RecordInv
  OBVIOUS
<1>1. Init => RecordInv
  BY RecordInitially
<1>2. RecordInv /\ [Next]_vars => RecordInv'
  BY RecordStep
<1>3. QED
  BY <1>1, <1>2, PTL DEF Spec

(* Everything has its type: the numbers that come off the tape, in         *)
(* whatever order, never take the decoder's counts below zero.             *)
THEOREM RecordTypes == NumbersSuffice => (Spec => []TypeOK)
<1> SUFFICES ASSUME NumbersSuffice PROVE Spec => []TypeOK
  OBVIOUS
<1>1. RecordInv => TypeOK
  BY DEF RecordInv, EncInv, DecInv, TapeTypeOK, TypeOK
<1>2. QED
  BY <1>1, RecordInvariance, PTL

-----------------------------------------------------------------------------
(* A sector that fits: without data it stands at the end, and with data it *)
(* takes the recording from its own place to that of the next number.      *)
LEMMA FitsBetween ==
  ASSUME NEW s \in SectorType, s.number >= 0, pushed \in Nat, Fits(s, pushed)
  PROVE  /\ s.size = 0 => pushed <= s.number * Capacity
         /\ s.size # 0 => /\ s.number * Capacity < pushed
                          /\ Before(s.number) + s.size = Before(s.number + 1)
         /\ Before(s.number + 1) <= pushed
<1> DEFINE m == s.number * Capacity
<1>1. s.number \in Nat /\ s.size \in Nat /\ s.first \in Nat /\ Capacity \in Nat \ {0}
  BY SectorAssumption DEF SectorType
<1>2. m \in Nat /\ (s.number + 1) * Capacity = m + Capacity
  BY <1>1
<1>3. /\ s.first = Lesser(m, pushed) /\ s.size = Lesser(Capacity, pushed - s.first)
      /\ Before(s.number) = Lesser(m, pushed)
      /\ Before(s.number + 1) = Lesser(m + Capacity, pushed)
  BY <1>2, Zenon DEF Fits, Before
<1> HIDE DEF m
<1>4. /\ s.size = 0 => pushed <= m
      /\ s.size # 0 => /\ m < pushed
                       /\ Lesser(m, pushed) + s.size = Lesser(m + Capacity, pushed)
      /\ Lesser(m + Capacity, pushed) <= pushed
  BY <1>1, <1>2, <1>3 DEF Lesser
<1>5. QED
  BY <1>3, <1>4, Zenon DEF m

(* The sector the decoder is given is one of the only recording.           *)
LEMMA SectorsFit ==
  ASSUME EncInv, rec <= 1, NEW i \in DOMAIN tape, ~IsBor(tape[i])
  PROVE  /\ tape[i] \in SectorType /\ tape[i].number >= 0
         /\ Fits(tape[i], pushed)
<1>1. tape[i] \in SectorType /\ rec \in Nat /\ TapeFits
  BY DEF EncInv, EncTypeOK
<1>2. tape[i].rec \in 1..rec /\ tape[i].number \in Int /\ tape[i].rec \in Nat
  BY <1>1 DEF TapeFits, SectorType
<1>3. tape[i].rec = rec /\ tape[i].number >= 0
  BY <1>1, <1>2 DEF IsBor
<1>4. Fits(tape[i], pushed)
  BY <1>1, <1>3 DEF TapeFits, Numbered
<1>5. QED
  BY <1>1, <1>3, <1>4

(* A buffer with the bytes that follow those already delivered.            *)
Continues(s) ==
  /\ s.first = sunk /\ s.size \in 1..(pushed - sunk)
  /\ sunk' = sunk + s.size
  /\ delivered' = Append(delivered, s)

(* What a call of the decoder may do to the transfer: nothing, the next    *)
(* piece of the recording, or the announcement of its end.                 *)
TransferStep ==
  \/ UNCHANGED <<delivered, sunk, eosSeen>>
  \/ ~eosSeen /\ eosSeen' = eosSeen /\ \E s \in SectorType : Continues(s)
  \/ ~eosSeen /\ eosSeen' = TRUE /\ UNCHANGED <<delivered, sunk>> /\ sunk = pushed

(* The list of pieces grows with the list of buffers.                      *)
LEMMA PiecesAppend ==
  ASSUME delivered \in Seq(SectorType), NEW s \in SectorType,
         delivered' = Append(delivered, s)
  PROVE  Pieces' = Append(Pieces, [first |-> s.first, size |-> s.size])
<1> DEFINE x == [first |-> s.first, size |-> s.size]
           n == Len(delivered)
           P == [i \in 1..n |-> [first |-> delivered[i].first, size |-> delivered[i].size]]
           T == [first : Nat, size : Nat]
<1>1. n \in Nat /\ DOMAIN delivered = 1..n /\ DOMAIN delivered' = 1..(n + 1)
  OBVIOUS
<1>2. /\ \A i \in 1..n : delivered'[i] = delivered[i] /\ delivered[i] \in SectorType
      /\ delivered'[n + 1] = s
  OBVIOUS
<1>3. x \in T /\ \A i \in 1..n : P[i] \in T
  BY <1>2 DEF SectorType
<1>4. P \in Seq(T) /\ Len(P) = n
  BY <1>1, <1>3
<1>5. Pieces = P
  BY <1>1 DEF Pieces
<1>6. Pieces' = [i \in 1..(n + 1) |-> [first |-> delivered'[i].first, size |-> delivered'[i].size]]
  BY <1>1 DEF Pieces
<1>7. \A i \in 1..(n + 1) : Pieces'[i] = Append(P, x)[i]
  <2>1. ASSUME NEW i \in 1..n PROVE Pieces'[i] = Append(P, x)[i]
    <3>1. Pieces'[i] = [first |-> delivered[i].first, size |-> delivered[i].size]
      BY <1>1, <1>2, <1>6
    <3>2. Append(P, x)[i] = P[i]
      BY <1>1, <1>3, <1>4
    <3>3. QED
      BY <3>1, <3>2
  <2>2. Pieces'[n + 1] = x /\ Append(P, x)[n + 1] = x
    BY <1>1, <1>2, <1>3, <1>4, <1>6
  <2>3. QED
    BY <1>1, <2>1, <2>2
<1>8. Pieces' = Append(P, x)
  <2>1. Append(P, x) \in Seq(T) /\ Len(Append(P, x)) = n + 1
    BY <1>3, <1>4
  <2>2. Append(P, x) = [i \in 1..(n + 1) |-> Append(P, x)[i]]
    BY <2>1
  <2>3. Pieces' = [i \in 1..(n + 1) |-> Pieces'[i]]
    BY <1>6
  <2> HIDE DEF P, x
  <2>4. QED
    BY <1>7, <2>2, <2>3
<1>9. QED
  BY <1>5, <1>8

(* A sector that is accepted in its turn.                                  *)
LEMMA AcceptNextTransfers ==
  ASSUME TransferConditions, EncInv, DecInv, TransferInv, ~halted,
         NEW i \in DOMAIN tape, NEW damage \in Damages,
         NEW size \in SizesRead(tape[i], damage),
         NEW event \in BOOLEAN, NEW push \in BOOLEAN, size # 0 => event,
         AcceptNext(tape[i], damage, size, event, push)
  PROVE  /\ TransferStep
         /\ sunk' <= pushed
         /\ ~halted' /\ ~eosSeen' => sunk' = Before(lastNumber' + 1)
         /\ eosSeen' => sunk' = pushed /\ pushed <= lastNumber' * Capacity
<1> DEFINE s == tape[i]
           n == s.number
<1>1. /\ Accept(s, damage) /\ Deliver(s, damage, size, event, push)
      /\ SectorsSkipped(s) = 0
  BY DEF AcceptNext
<1>2. rec <= 1
  BY EncoderAssumption DEF TransferConditions, TransferInv, EncInv, EncTypeOK
<1>3. s \in SectorType /\ n >= 0 /\ Fits(s, pushed)
  BY <1>1, <1>2, SectorsFit DEF Accept
<1>4. /\ lastNumber \in Int /\ lastNumber >= -1 /\ sunk \in Nat /\ eosSeen \in BOOLEAN
      /\ pushed \in Nat /\ n \in Int /\ Capacity \in Nat \ {0} /\ s.size \in Nat
  BY <1>3, SectorAssumption DEF DecInv, DecTypeOK, EncInv, EncTypeOK, SectorType
<1>5. lastNumber' = n /\ n = lastNumber + 1
  BY <1>1, <1>4 DEF Accept, SectorsSkipped
<1>6. size = s.size
  BY <1>3 DEF SizesRead, Fits, TransferConditions
<1>15. s.first = Before(n)
  BY <1>3, Zenon DEF Fits, Before
<1>7. /\ size = 0 => pushed <= n * Capacity
      /\ size # 0 => n * Capacity < pushed /\ Before(n) + size = Before(n + 1)
      /\ Before(n + 1) <= pushed
  BY <1>3, <1>4, <1>6, FitsBetween
<1>8. /\ sunk <= pushed
      /\ ~eosSeen => sunk = Before(n)
      /\ eosSeen => sunk = pushed /\ pushed <= n * Capacity
  <2>1. eosSeen => lastNumber * Capacity <= n * Capacity
    BY <1>4, <1>5
  <2>2. lastNumber * Capacity \in Int /\ n * Capacity \in Int
    BY <1>4
  <2>3. /\ sunk <= pushed
        /\ eosSeen => sunk = pushed /\ pushed <= lastNumber * Capacity
    BY DEF TransferInv
  <2>4. ~eosSeen => sunk = Before(lastNumber + 1)
    BY DEF TransferInv
  <2>5. ~eosSeen => sunk = Before(n)
    BY <1>5, <2>4, Zenon
  <2>6. eosSeen => pushed <= n * Capacity
    BY <1>4, <2>1, <2>2, <2>3
  <2>7. QED
    BY <2>3, <2>5, <2>6
<1>9. n * Capacity \in Int
  BY <1>4
<1> HIDE DEF s, n
<1>10. ~eosSeen /\ size = 0 => sunk = pushed
  <2>1. Before(n) = IF n * Capacity < pushed THEN n * Capacity ELSE pushed
    BY DEF Before, Lesser
  <2>2. QED
    BY <1>4, <1>7, <1>8, <1>9, <2>1
<1>11. CASE size = 0 /\ eosSeen' = TRUE /\ UNCHANGED <<delivered, sunk>>
  <2>1. sunk = pushed /\ pushed <= n * Capacity
    BY <1>7, <1>8, <1>10, <1>11
  <2>2. TransferStep
    BY <1>4, <1>11, <2>1, Zenon DEF TransferStep
  <2>3. sunk' <= pushed
    BY <1>8, <1>11
  <2>4. QED
    BY <1>5, <1>11, <2>1, <2>2, <2>3, Zenon
<1>12. CASE halted' = TRUE /\ UNCHANGED <<delivered, sunk, eosSeen>>
  <2>1. TransferStep
    BY <1>12, Zenon DEF TransferStep
  <2>2. sunk' <= pushed
    BY <1>8, <1>12
  <2>3. eosSeen' => sunk' = pushed /\ pushed <= n * Capacity
    BY <1>8, <1>12, Zenon
  <2>4. QED
    BY <1>5, <1>12, <2>1, <2>2, <2>3, Zenon
<1>13. CASE /\ size # 0 /\ push
            /\ sunk' = sunk + size /\ delivered' = Append(delivered, s)
            /\ UNCHANGED eosSeen
  <2>1. ~eosSeen
    BY <1>4, <1>7, <1>8, <1>9, <1>13
  <2>2. Before(n) \in Int /\ size \in Nat
    BY <1>4, <1>6, <1>8, <2>1 DEF s
  <2>3. sunk' = Before(n + 1) /\ size \in 1..(pushed - sunk) /\ sunk' <= pushed
    BY <1>4, <1>7, <1>8, <1>13, <2>1, <2>2
  <2>7. s.first = sunk
    BY <1>8, <1>15, <2>1
  <2>8. Continues(s) /\ s \in SectorType
    BY <1>3, <1>6, <1>13, <2>3, <2>7 DEF Continues
  <2>4. ~eosSeen'
    BY <1>13, <2>1, Zenon
  <2>5. TransferStep
    BY <1>13, <2>1, <2>8, Zenon DEF TransferStep
  <2>6. QED
    BY <1>5, <2>3, <2>4, <2>5, Zenon
<1>14. QED
  <2>1. CASE /\ size # 0
             /\ SectorIsValid(damage) \/ ~event
             /\ sunk' = sunk + (IF push THEN size ELSE 0)
             /\ delivered' = IF push THEN Append(delivered, s) ELSE delivered
             /\ halted' = ~push
             /\ UNCHANGED eosSeen
    <3>1. CASE push
      BY <1>13, <2>1, <3>1
    <3>2. CASE ~push
      <4>1. halted' = TRUE
        BY <2>1, <3>2, Zenon
      <4>2. sunk' = sunk + 0 /\ delivered' = delivered /\ eosSeen' = eosSeen
        BY <2>1, <3>2, Zenon
      <4>3. sunk' = sunk
        BY <1>4, <4>2
      <4>4. QED
        BY <1>12, <4>1, <4>2, <4>3
    <3>3. QED
      BY <3>1, <3>2
  <2>2. QED
    BY <1>1, <1>11, <1>12, <2>1, Zenon DEF Deliver

(* A call of the decoder in the course of the playback.                    *)
LEMMA DecChainTransfers ==
  ASSUME TransferConditions, EncInv, DecInv, TransferInv,
         NEW i \in DOMAIN tape, NEW damage \in Damages, DecChain(tape[i], damage)
  PROVE  /\ TransferStep
         /\ sunk' <= pushed
         /\ ~halted' /\ ~eosSeen' => sunk' = Before(lastNumber' + 1)
         /\ eosSeen' => sunk' = pushed /\ pushed <= lastNumber' * Capacity
<1> DEFINE s == tape[i]
<1>1. ~halted
  BY DEF DecChain
<1>2. /\ lastNumber \in Int /\ sunk \in Nat /\ pushed \in Nat /\ eosSeen \in BOOLEAN
      /\ s \in SectorType /\ s.number \in Int /\ Capacity \in Nat \ {0}
  <2>1. lastNumber \in Int /\ sunk \in Nat /\ eosSeen \in BOOLEAN
    BY Zenon DEF DecInv, DecTypeOK
  <2>2. pushed \in Nat /\ tape \in Seq(SectorType)
    BY Zenon DEF EncInv, EncTypeOK
  <2>3. s \in SectorType
    BY <2>2
  <2>4. s.number \in Int
    BY <2>3, Zenon DEF SectorType
  <2>5. Capacity \in Nat \ {0}
    BY SectorAssumption
  <2>6. QED
    BY <2>1, <2>2, <2>3, <2>4, <2>5
<1>3. /\ sunk <= pushed
      /\ ~eosSeen => sunk = Before(lastNumber + 1)
      /\ eosSeen => sunk = pushed /\ pushed <= lastNumber * Capacity
  BY <1>1, Zenon DEF TransferInv
<1>4. CASE DropHeaderless(damage) \/ DropBor(s, damage) \/ DropDuplicate(s, damage)
  <2>1. UNCHANGED <<lastNumber, halted, delivered, sunk, eosSeen>>
    BY <1>4 DEF DropHeaderless, DropBor, DropDuplicate, peerVars
  <2>2. TransferStep
    BY <2>1, Zenon DEF TransferStep
  <2>3. sunk' <= pushed
    BY <1>3, <2>1
  <2>4. ~eosSeen' => sunk' = Before(lastNumber' + 1)
    BY <1>3, <2>1, Zenon
  <2>5. eosSeen' => sunk' = pushed /\ pushed <= lastNumber' * Capacity
    BY <1>3, <2>1, Zenon
  <2>6. QED
    BY <2>2, <2>3, <2>4, <2>5
<1>5. CASE AcceptAfterGapHandled(s, damage)
  <2>1. /\ halted' = TRUE /\ UNCHANGED <<delivered, sunk, eosSeen>>
        /\ lastNumber' = s.number /\ lastNumber < s.number
    BY <1>2, <1>5 DEF AcceptAfterGapHandled, Accept, IsDuplicate
  <2>2. TransferStep
    BY <2>1, Zenon DEF TransferStep
  <2>3. sunk' <= pushed
    BY <1>3, <2>1
  <2>4. pushed <= lastNumber * Capacity => pushed <= lastNumber' * Capacity
    <3>1. lastNumber * Capacity <= s.number * Capacity
      BY <1>2, <2>1
    <3>2. lastNumber * Capacity \in Int /\ s.number * Capacity \in Int
      BY <1>2
    <3> HIDE DEF s
    <3>3. QED
      BY <1>2, <2>1, <3>1, <3>2
  <2>5. eosSeen' => sunk' = pushed /\ pushed <= lastNumber' * Capacity
    BY <1>3, <2>1, <2>4, Zenon
  <2>6. QED
    BY <2>1, <2>2, <2>3, <2>5, Zenon
<1>6. ASSUME NEW custom \in EventResults, NEW eos \in EosResults,
             NEW push \in PushResults, NEW size \in SizesRead(s, damage),
             NEW event, event = IF size = 0 THEN eos ELSE custom,
             \/ AcceptNext(s, damage, size, event, push)
             \/ ~custom
      PROVE  AcceptNext(s, damage, size, event, push) /\ (size # 0 => event)
             /\ event \in BOOLEAN /\ push \in BOOLEAN
  <2>1. custom = TRUE
    BY <1>6 DEF TransferConditions
  <2>2. eos \in BOOLEAN /\ push \in BOOLEAN
    BY <1>6, DecoderAssumption
  <2>3. event \in BOOLEAN /\ (size # 0 => event)
    BY <1>6, <2>1, <2>2
  <2>4. QED
    BY <1>6, <2>1, <2>2, <2>3, Zenon
<1>7. ASSUME NEW custom \in EventResults, NEW eos \in EosResults,
             NEW push \in PushResults, NEW size \in SizesRead(s, damage),
             NEW event, event = IF size = 0 THEN eos ELSE custom,
             \/ AcceptNext(s, damage, size, event, push)
             \/ ~custom /\ AcceptAfterGapUnhandled(s, damage, size, event, push)
      PROVE  /\ TransferStep
             /\ sunk' <= pushed
             /\ ~halted' /\ ~eosSeen' => sunk' = Before(lastNumber' + 1)
             /\ eosSeen' => sunk' = pushed /\ pushed <= lastNumber' * Capacity
  <2>1. /\ AcceptNext(s, damage, size, event, push) /\ (size # 0 => event)
        /\ event \in BOOLEAN /\ push \in BOOLEAN
    BY <1>6, <1>7
  <2>2. QED
    BY <1>1, <1>7, <2>1, AcceptNextTransfers
<1>8. QED
  BY <1>4, <1>5, <1>7 DEF DecChain

(* The encoder only ever adds to the recording: there is but one.          *)
LEMMA RecordingGrows ==
  ASSUME EncInv, EncNext, MaxRecordings <= 1, rec <= MaxRecordings
  PROVE  /\ rec' <= MaxRecordings
         /\ pushed' = pushed \/ (pushed' > pushed /\ pushed' \in 0..MaxBytes)
<1>1. /\ rec \in Nat /\ pushed \in Nat /\ MaxBytes \in Nat /\ MaxRecordings \in Nat
  BY EncoderAssumption DEF EncInv, EncTypeOK
<1>2. CASE NewRecording
  <2>1. rec' = rec + 1 /\ rec < MaxRecordings /\ pushed' = 0
    BY <1>2 DEF NewRecording
  <2>2. rec = 0
    BY <1>1, <2>1
  <2>3. pushed = 0
    BY <2>2 DEF EncInv
  <2>4. QED
    BY <1>1, <2>1, <2>3
<1>3. ASSUME NEW n \in 1..MaxBytes,
             EncChain(n) \/ EncChainBorFails(n) \/ EncChainDataFails(n)
      PROVE  /\ rec' = rec
             /\ pushed' > pushed /\ pushed' \in 0..MaxBytes
  <2>1. EnterChain(n)
    BY <1>3 DEF EncChain, EncChainBorFails, EncChainDataFails
  <2>2. QED
    BY <1>1, <2>1 DEF EnterChain
<1>4. ASSUME \/ EncNewSegment \/ EncEos \/ EncEosNotNegotiated
             \/ EncEosFlushFails \/ EncEosMarkFails \/ Kill
      PROVE  rec' = rec /\ pushed' = pushed
  BY <1>4 DEF EncNewSegment, EncEos, EncEosNotNegotiated, EncEosFlushFails,
              EncEosMarkFails, Kill, EnterEos
<1>5. QED
  BY <1>2, <1>3, <1>4 DEF EncNext

-----------------------------------------------------------------------------
LEMMA TransferInitially == Init => TransferInv /\ Transfer!Init
<1> SUFFICES ASSUME Init PROVE TransferInv /\ Transfer!Init
  OBVIOUS
<1>1. /\ rec = 0 /\ pushed = 0 /\ lastNumber = -1 /\ sunk = 0
      /\ halted = FALSE /\ eosSeen = FALSE /\ playing = FALSE /\ delivered = <<>>
  BY DEF Init, EncInit, DecInit
<1>7. Pieces = <<>>
  BY <1>1 DEF Pieces
<1>2. Before(lastNumber + 1) = 0
  <2>1. (lastNumber + 1) * Capacity = 0
    BY <1>1, SectorAssumption
  <2>2. QED
    BY <1>1, <2>1 DEF Before, Lesser
<1>3. rec <= MaxRecordings /\ sunk <= pushed
  BY <1>1, EncoderAssumption
<1>4. TransferInv
  BY <1>1, <1>2, <1>3, Zenon DEF TransferInv
<1>5. Transfer!Init
  BY <1>1, <1>7, Zenon DEF Transfer!Init
<1>6. QED
  BY <1>4, <1>5

(* Every step of the composition keeps the invariant and is a step of the  *)
(* transfer, or none.                                                      *)
LEMMA TransferNext ==
  ASSUME TransferConditions, RecordInv, RecordInv', TransferInv, [Next]_vars
  PROVE  TransferInv' /\ [Transfer!Next]_(Transfer!transferVars)
<1>1. /\ EncInv /\ DecInv /\ MaxRecordings <= 1 /\ rec <= MaxRecordings
      /\ pushed' \in Nat /\ pushed \in Nat
  BY DEF RecordInv, TransferConditions, TransferInv, EncInv, EncTypeOK
<1>2. CASE Recording
  <2>1. /\ EncNext /\ ~playing /\ playing' = playing
        /\ UNCHANGED <<lastNumber, halted, delivered, sunk, eosSeen>>
    BY <1>2 DEF Recording, decVars, peerVars, tapeVars
  <2>10. UNCHANGED Pieces
    BY <2>1 DEF Pieces
  <2>2. /\ rec' <= MaxRecordings
        /\ pushed' = pushed \/ (pushed' > pushed /\ pushed' \in 0..MaxBytes)
    BY <1>1, <2>1, RecordingGrows
  <2>3. /\ lastNumber = -1 /\ ~halted /\ ~eosSeen /\ sunk = Before(lastNumber + 1)
    BY <2>1, Zenon DEF TransferInv
  <2>4. (lastNumber + 1) * Capacity = 0
    BY <2>3, SectorAssumption
  <2>5. sunk = 0 /\ 0 = Lesser(0, pushed')
    BY <1>1, <2>3, <2>4 DEF Before, Lesser
  <2>6. sunk' = Before(lastNumber + 1)' /\ sunk' <= pushed'
    BY <1>1, <2>1, <2>4, <2>5 DEF Before
  <2>7. TransferInv'
    BY <2>1, <2>2, <2>3, <2>6, Zenon DEF TransferInv
  <2>8. UNCHANGED <<pushed, playing, Pieces, sunk, eosSeen>> \/ Transfer!Record
    BY <2>1, <2>2, <2>10 DEF Transfer!Record
  <2>9. QED
    BY <2>7, <2>8 DEF Transfer!Next, Transfer!transferVars
<1>3. CASE Rewind
  <2>1. /\ ~playing /\ playing'
        /\ UNCHANGED <<rec, pushed, lastNumber, halted, delivered, sunk, eosSeen>>
    BY <1>3, Zenon DEF Rewind, encVars, decVars, peerVars
  <2>5. UNCHANGED Pieces
    BY <2>1 DEF Pieces
  <2>2. TransferInv'
    BY <2>1 DEF TransferInv, Before
  <2>3. Transfer!StartPlaying
    BY <2>1, <2>5, Zenon DEF Transfer!StartPlaying
  <2>4. QED
    BY <2>2, <2>3 DEF Transfer!Next
<1>4. CASE Playback
  <2>1. /\ UNCHANGED <<rec, pushed>> /\ playing /\ playing'
        /\ \/ UNCHANGED decVars
           \/ \E i \in DOMAIN tape, damage \in Damages : DecChain(tape[i], damage)
    BY <1>4, PlaybackCalls DEF encVars
  <2>2. /\ TransferStep
        /\ sunk' <= pushed
        /\ ~halted' /\ ~eosSeen' => sunk' = Before(lastNumber' + 1)
        /\ eosSeen' => sunk' = pushed /\ pushed <= lastNumber' * Capacity
    <3>1. CASE UNCHANGED decVars
      <4>1. UNCHANGED <<lastNumber, halted, delivered, sunk, eosSeen>>
        BY <3>1 DEF decVars, peerVars
      <4>2. TransferStep
        BY <4>1, Zenon DEF TransferStep
      <4>3. QED
        BY <4>1, <4>2 DEF TransferInv
    <3>2. ASSUME NEW i \in DOMAIN tape, NEW damage \in Damages, DecChain(tape[i], damage)
          PROVE  /\ TransferStep
                 /\ sunk' <= pushed
                 /\ ~halted' /\ ~eosSeen' => sunk' = Before(lastNumber' + 1)
                 /\ eosSeen' => sunk' = pushed /\ pushed <= lastNumber' * Capacity
      BY <1>1, <3>2, DecChainTransfers
    <3>3. QED
      BY <2>1, <3>1, <3>2
  <2>3. TransferInv'
    <3>1. rec' <= MaxRecordings /\ sunk' <= pushed'
      BY <1>1, <2>1, <2>2
    <3>2. ~halted' /\ ~eosSeen' => sunk' = Before(lastNumber + 1)'
      BY <2>1, <2>2 DEF Before
    <3>3. eosSeen' => sunk' = pushed' /\ pushed' <= lastNumber' * Capacity
      BY <2>1, <2>2
    <3>4. QED
      BY <2>1, <3>1, <3>2, <3>3, Zenon DEF TransferInv
  <2>4. \/ UNCHANGED <<pushed, playing, Pieces, sunk, eosSeen>>
        \/ Transfer!Read \/ Transfer!Announce
    <3>1. playing \in BOOLEAN /\ playing' \in BOOLEAN /\ delivered \in Seq(SectorType)
      BY DEF RecordInv, TapeTypeOK, DecInv, DecTypeOK
    <3>2. playing' = playing /\ pushed' = pushed
      BY <2>1, <3>1, Zenon
    <3>3. CASE UNCHANGED <<delivered, sunk, eosSeen>>
      <4>1. UNCHANGED Pieces
        BY <3>3 DEF Pieces
      <4>2. QED
        BY <3>2, <3>3, <4>1
    <3>4. ASSUME ~eosSeen, eosSeen' = eosSeen, NEW s \in SectorType, Continues(s)
          PROVE  Transfer!Read
      <4>1. Pieces' = Append(Pieces, [first |-> sunk, size |-> s.size])
        BY <3>1, <3>4, PiecesAppend DEF Continues
      <4>2. s.size \in 1..(pushed - sunk) /\ sunk' = sunk + s.size
        BY <3>4 DEF Continues
      <4>3. QED
        BY <2>1, <3>2, <3>4, <4>1, <4>2, Zenon DEF Transfer!Read
    <3>5. CASE ~eosSeen /\ eosSeen' = TRUE /\ UNCHANGED <<delivered, sunk>> /\ sunk = pushed
      <4>1. UNCHANGED Pieces
        BY <3>5 DEF Pieces
      <4>2. QED
        BY <2>1, <3>2, <3>5, <4>1, Zenon DEF Transfer!Announce
    <3>6. QED
      BY <2>2, <3>3, <3>4, <3>5 DEF TransferStep
  <2>5. QED
    BY <2>3, <2>4 DEF Transfer!Next, Transfer!transferVars
<1>5. CASE UNCHANGED vars
  <2>1. UNCHANGED <<rec, pushed, playing, lastNumber, halted, delivered, sunk, eosSeen>>
    BY <1>5 DEF vars, encVars, decVars, peerVars, tapeVars
  <2>4. UNCHANGED Pieces
    BY <2>1 DEF Pieces
  <2>2. TransferInv'
    BY <2>1 DEF TransferInv, Before
  <2>3. QED
    BY <2>1, <2>2, <2>4 DEF Transfer!transferVars
<1>6. QED
  BY <1>2, <1>3, <1>4, <1>5 DEF Next

(* The end of the stream is announced only when every byte has been        *)
(* delivered, whatever is missed, damaged or read twice on the way.        *)
THEOREM EosMeansCompleteAlways ==
  TransferConditions => (Spec => []EosMeansComplete)
<1> SUFFICES ASSUME TransferConditions PROVE Spec => []EosMeansComplete
  OBVIOUS
<1>1. NumbersSuffice
  BY DEF TransferConditions
<1>2. Init => TransferInv
  BY TransferInitially
<1>3. TransferInv /\ RecordInv /\ RecordInv' /\ [Next]_vars => TransferInv'
  BY TransferNext
<1>4. TransferInv => EosMeansComplete
  BY DEF TransferInv, EosMeansComplete
<1>5. Spec => []RecordInv
  BY <1>1, RecordInvariance
<1>6. QED
  BY <1>2, <1>3, <1>4, <1>5, PTL DEF Spec

(* Encoder, tape and decoder implement the transfer of a file: each buffer *)
(* holds the bytes that follow those of the buffer before it, from the     *)
(* first byte of the recording on, and the end is announced after the last *)
(* one.                                                                    *)
THEOREM RecordingIsTransfer ==
  TransferConditions => (Spec => ImplementsTransfer)
<1> SUFFICES ASSUME TransferConditions PROVE Spec => ImplementsTransfer
  OBVIOUS
<1>1. NumbersSuffice
  BY DEF TransferConditions
<1>2. Init => TransferInv /\ Transfer!Init
  BY TransferInitially
<1>3. TransferInv /\ RecordInv /\ RecordInv' /\ [Next]_vars
        => TransferInv' /\ [Transfer!Next]_(Transfer!transferVars)
  BY TransferNext
<1>4. Spec => []RecordInv
  BY <1>1, RecordInvariance
<1>5. QED
  BY <1>2, <1>3, <1>4, PTL DEF Spec, ImplementsTransfer, Transfer!Spec

-----------------------------------------------------------------------------
(* Playback of a tape with several recordings on it.                       *)

(* Recordings that were ended as they should be, no damage to the byte the *)
(* length of a short sector is in, a pipeline that accepts the EOS event,  *)
(* and fewer faults than an EOR mark has sectors.                          *)
PlaybackConditions ==
  /\ WholeRecordings
  /\ "length" \notin Damages
  /\ EosResults \subseteq {TRUE}
  /\ MaxFaults < EorLength

First == tape[1].rec

(* Sectors from h on of the first recording that repeat one up to n.       *)
Behind(h, n) ==
  \E j \in DOMAIN tape :
    j >= h /\ tape[j].rec = First /\ ~IsBor(tape[j]) /\ tape[j].number <= n

IsDataNumber(n) ==
  \E i \in DOMAIN tape :
    tape[i].rec = First /\ IsData(tape[i]) /\ tape[i].number = n

(* A playback that goes on has passed no more sectors of the mark than     *)
(* there were faults.                                                      *)
UpToTheMark ==
  \A e \in DOMAIN tape : MarkAt(e, First) => head <= e + faults

PlayInv ==
  /\ faults <= MaxFaults
  /\ ~playing => /\ head = 1 /\ faults = 0 /\ lastNumber = -1
                 /\ notUnderrunning = 0 /\ duplicateRuns = 0 /\ delivered = <<>>
  /\ \A i \in DOMAIN delivered : delivered[i].rec = First
  /\ duplicateRuns <= replays
  /\ ~halted => /\ UpToTheMark
                /\ lastNumber = -1 \/ IsDataNumber(lastNumber)
                /\ notUnderrunning = 1 /\ Behind(head, lastNumber)
                     => duplicateRuns < replays

(* A sector on the tape reads back as the size it has.                     *)
LEMMA TapeReads ==
  ASSUME EncInv, NEW i \in DOMAIN tape
  PROVE  /\ tape[i] \in SectorType
         /\ tape[i].number \in Int /\ tape[i].size \in Nat
         /\ tape[i].rec \in 1..rec /\ tape[i].rec \in Nat /\ rec \in Nat
         /\ ~IsBor(tape[i]) => SizeRead(tape[i], tape[i].high) = tape[i].size
<1>1. /\ tape \in Seq(SectorType) /\ rec \in Nat /\ TapeFits
  BY DEF EncInv, EncTypeOK
<1>2. /\ tape[i] \in SectorType /\ tape[i].rec \in 1..rec
      /\ tape[i].number \in Int /\ tape[i].size \in Nat /\ tape[i].rec \in Nat
  <2>1. tape[i] \in SectorType
    BY <1>1
  <2>2. QED
    BY <1>1, <2>1 DEF TapeFits, SectorType
<1>3. ASSUME ~IsBor(tape[i])
      PROVE  \E total : Fits(tape[i], total)
  <2>1. i \in Numbered(tape[i].rec)
    BY <1>2, <1>3 DEF Numbered, IsBor
  <2>2. CASE tape[i].rec = rec
    BY <1>1, <2>1, <2>2 DEF TapeFits
  <2>3. CASE tape[i].rec # rec
    <3>1. tape[i].rec \in 0..(rec - 1)
      BY <1>1, <1>2, <2>3
    <3>2. QED
      BY <1>1, <2>1, <3>1 DEF TapeFits
  <2>4. QED
    BY <2>2, <2>3
<1>4. QED
  BY <1>1, <1>2, <1>3 DEF Fits

(* What a call of the decoder comes to: an EOR mark stops it.              *)
LEMMA DecChainOutcome ==
  ASSUME PlaybackConditions, EncInv, DecInv, NEW i \in DOMAIN tape,
         NEW damage \in Damages, DecChain(tape[i], damage)
  PROVE  LET s == tape[i]
         IN  \/ DropHeaderless(damage)
             \/ DropBor(s, damage)
             \/ DropDuplicate(s, damage)
             \/ /\ Accept(s, damage)
                /\ delivered' \in {delivered, Append(delivered, s)}
                /\ s.size # 0 \/ halted'
<1> DEFINE s == tape[i]
<1>1. /\ s \in SectorType /\ (~IsBor(s) => SizeRead(s, s.high) = s.size)
      /\ DecTypeOK
  BY TapeReads DEF DecInv
<1>2. ASSUME NEW custom \in EventResults, NEW eos \in EosResults,
             NEW push \in PushResults, NEW size \in SizesRead(s, damage),
             NEW event, event = IF size = 0 THEN eos ELSE custom,
             \/ AcceptNext(s, damage, size, event, push)
             \/ AcceptAfterGapUnhandled(s, damage, size, event, push)
      PROVE  /\ Accept(s, damage)
             /\ delivered' \in {delivered, Append(delivered, s)}
             /\ s.size # 0 \/ halted'
  <2>1. Accept(s, damage) /\ Deliver(s, damage, size, event, push)
    BY <1>2 DEF AcceptNext, AcceptAfterGapUnhandled
  <2>2. size = s.size
    BY <1>1, <2>1 DEF Accept, SizesRead, PlaybackConditions
  <2>3. eos = TRUE /\ event \in BOOLEAN /\ push \in BOOLEAN
    BY <1>2, DecoderAssumption DEF PlaybackConditions
  <2>4. size \in Nat
    BY <1>1, SizeReadTyped
  <2>5. delivered' \in {delivered, Append(delivered, s)}
    BY <1>1, <2>1, <2>3, <2>4, DeliverEffect
  <2>6. size = 0 => halted'
    <3>1. SUFFICES ASSUME size = 0 PROVE halted'
      OBVIOUS
    <3>2. halted' = event
      BY <2>1, <3>1, Zenon DEF Deliver
    <3>3. event = TRUE
      BY <1>2, <2>3, <3>1
    <3>4. QED
      BY <3>2, <3>3
  <2>7. QED
    BY <2>1, <2>2, <2>5, <2>6
<1>3. CASE AcceptAfterGapHandled(s, damage)
  BY <1>3 DEF AcceptAfterGapHandled
<1> HIDE DEF s
<1>4. QED
  BY <1>2, <1>3 DEF DecChain, s

(* The playback has not left the first recording: past its mark there      *)
(* would have been as many faults as the mark has sectors.                 *)
LEMMA WithinFirst ==
  ASSUME PlaybackConditions, RecordInv, LayoutInv, PlayInv, Running
  PROVE  head \in DOMAIN tape /\ tape[head].rec = First
<1>1. /\ EncInv /\ tape \in Seq(SectorType) /\ head \in Nat \ {0} /\ faults \in Nat
      /\ EorLength \in Nat \ {0} /\ MaxFaults \in Nat
      /\ faults <= MaxFaults /\ MaxFaults < EorLength /\ UpToTheMark
      /\ Ascending(tape)
  BY EncoderAssumption, FaultAssumption
  DEF RecordInv, EncInv, EncTypeOK, TapeTypeOK, PlaybackConditions, PlayInv,
      LayoutInv, Running
<1>2. head \in DOMAIN tape /\ 1 \in DOMAIN tape
  BY <1>1 DEF Running
<1>3. /\ tape[1].rec \in Nat /\ tape[head].rec \in Nat /\ tape[head].rec <= rec
      /\ rec \in Nat
  BY <1>1, <1>2, TapeReads
<1>4. tape[1].rec <= tape[head].rec
  <2>1. CASE head = 1
    BY <1>3, <2>1
  <2>2. CASE head # 1
    BY <1>1, <1>2, <2>2 DEF Ascending, Follows
  <2>3. QED
    BY <2>1, <2>2
<1>5. SUFFICES ASSUME tape[1].rec < tape[head].rec PROVE FALSE
  BY <1>2, <1>3, <1>4 DEF First
<1>6. tape[1].rec # rec
  BY <1>3, <1>5
<1>7. PICK e \in DOMAIN tape : MarkAt(e, First)
  BY <1>2, <1>6 DEF LayoutInv, Placed, Marked, First
<1>8. e \in Nat /\ head <= e + faults
  BY <1>1, <1>7 DEF UpToTheMark
<1> DEFINE k == e + EorLength - 1
<1>9. k \in e..(e + EorLength - 1) /\ head <= k
  BY <1>1, <1>8
<1>10. k \in DOMAIN tape /\ tape[k].rec = tape[1].rec
  BY <1>7, <1>9 DEF MarkAt, First
<1>11. head # k
  BY <1>3, <1>5, <1>10
<1>12. Follows(tape[head], tape[k])
  BY <1>1, <1>2, <1>9, <1>10, <1>11 DEF Ascending
<1>13. QED
  BY <1>3, <1>5, <1>10, <1>12 DEF Follows

(* Its numbers go up, as far as the mark.                                  *)
LEMMA LaterNumbers ==
  ASSUME EncInv, LayoutInv, NEW i \in DOMAIN tape, NEW j \in DOMAIN tape,
         tape[i].rec = tape[j].rec, ~IsBor(tape[i]), ~IsBor(tape[j]),
         tape[i].size # 0
  PROVE  /\ i < j => tape[i].number < tape[j].number
         /\ tape[j].size = 0 => tape[i].number < tape[j].number
<1>1. /\ Ascending(tape) /\ tape \in Seq(SectorType)
      /\ tape[i].number \in Int /\ tape[j].number \in Int
      /\ tape[i].size \in Nat /\ tape[j].size \in Nat /\ i \in Nat /\ j \in Nat
  BY TapeReads DEF LayoutInv, EncInv, EncTypeOK
<1>2. i < j => tape[i].number < tape[j].number
  BY <1>1 DEF Ascending, Follows, IsEor, IsBor
<1>3. ASSUME tape[j].size = 0
      PROVE  i < j
  <2>1. i # j
    BY <1>3
  <2>2. IsEor(tape[j]) /\ ~IsEor(tape[i])
    BY <1>1, <1>3 DEF IsEor, IsBor
  <2>3. ~(j < i)
    BY <1>1, <2>2 DEF Ascending, Follows
  <2>4. QED
    BY <1>1, <2>1, <2>3
<1>4. QED
  BY <1>2, <1>3

(* A sector given to the decoder, without a fault or with one of the few   *)
(* that are left.                                                          *)
LEMMA DecChainPlays ==
  ASSUME PlaybackConditions, RecordInv, LayoutInv, PlayInv, Running,
         NEW damage \in Damages, DecChain(tape[head], damage),
         UNCHANGED encVars, playing', head' = head + 1, replays' = replays,
         \/ damage = "none" /\ faults' = faults
         \/ faults < MaxFaults /\ faults' = faults + 1
  PROVE  PlayInv'
<1> DEFINE s == tape[head]
<1>1. /\ EncInv /\ DecInv /\ DecTypeOK /\ tape \in Seq(SectorType)
      /\ head \in Nat \ {0} /\ faults \in Nat /\ replays \in Nat
      /\ MaxFaults \in Nat /\ EorLength \in Nat \ {0}
      /\ faults <= MaxFaults /\ MaxFaults < EorLength /\ tape' = tape
      /\ ~halted /\ duplicateRuns \in Nat /\ lastNumber \in Int
      /\ notUnderrunning \in {0, 1} /\ delivered \in Seq(SectorType)
  BY EncoderAssumption, FaultAssumption
  DEF RecordInv, EncInv, EncTypeOK, DecInv, DecTypeOK, TapeTypeOK,
      PlaybackConditions, PlayInv, Running, encVars
<1>2. /\ UpToTheMark /\ (lastNumber = -1 \/ IsDataNumber(lastNumber))
      /\ notUnderrunning = 1 /\ Behind(head, lastNumber) => duplicateRuns < replays
      /\ duplicateRuns <= replays
      /\ \A i \in DOMAIN delivered : delivered[i].rec = First
  BY <1>1 DEF PlayInv
<1>3. head \in DOMAIN tape /\ s.rec = First
  BY WithinFirst
<1>4. /\ s \in SectorType /\ s.number \in Int /\ s.size \in Nat
  BY <1>1, <1>3, TapeReads
<1>5. \/ DropHeaderless(damage)
      \/ DropBor(s, damage)
      \/ DropDuplicate(s, damage)
      \/ /\ Accept(s, damage)
         /\ delivered' \in {delivered, Append(delivered, s)}
         /\ s.size # 0 \/ halted'
  BY <1>1, <1>3, DecChainOutcome
<1>6. First' = First
  BY <1>1 DEF First
<1> HIDE DEF s
<1>7. faults' <= MaxFaults
  BY <1>1
<1>8. \A i \in DOMAIN delivered' : delivered'[i].rec = First
  <2>1. delivered' \in {delivered, Append(delivered, s)}
    BY <1>5 DEF DropHeaderless, DropBor, DropDuplicate, peerVars
  <2>2. CASE delivered' = Append(delivered, s)
    <3>1. \A i \in DOMAIN delivered' :
            \/ i \in DOMAIN delivered /\ delivered'[i] = delivered[i]
            \/ delivered'[i] = s
      BY <1>1, <1>4, <2>2
    <3>2. QED
      BY <1>2, <1>3, <3>1
  <2>3. QED
    BY <1>2, <2>1, <2>2
<1>9. ASSUME Behind(head + 1, lastNumber)
      PROVE  Behind(head, lastNumber)
  BY <1>1, <1>9 DEF Behind
<1>10. ASSUME DropDuplicate(s, damage)
       PROVE  Behind(head, lastNumber) /\ s.number # -1
  BY <1>1, <1>3, <1>4, <1>10 DEF DropDuplicate, IsDuplicate, Behind, IsBor, s
<1>11. duplicateRuns' <= replays
  <2>1. CASE DropDuplicate(s, damage)
    <3>1. duplicateRuns' = duplicateRuns + notUnderrunning
      BY <2>1 DEF DropDuplicate
    <3>2. QED
      BY <1>1, <1>2, <1>10, <2>1, <3>1
  <2>2. QED
    BY <1>1, <1>2, <1>5, <2>1 DEF DropHeaderless, DropBor, Accept, statVars
<1>12. ASSUME ~halted'
       PROVE  head + 1 \in Int /\ \A e \in DOMAIN tape :
                MarkAt(e, First) => head + 1 <= e + faults'
  <2>1. SUFFICES ASSUME NEW e \in DOMAIN tape, MarkAt(e, First)
                 PROVE  head + 1 <= e + faults'
    BY <1>1
  <2>2. e \in Nat /\ head <= e + faults
    BY <1>1, <1>2, <2>1 DEF UpToTheMark
  <2>3. CASE faults' = faults + 1 \/ head < e + faults
    BY <1>1, <2>2, <2>3
  <2>4. ASSUME head = e + faults, damage = "none"
        PROVE  FALSE
    <3>1. head \in e..(e + EorLength - 1)
      BY <1>1, <2>2, <2>4
    <3>2. IsEor(s) /\ ~IsBor(s) /\ s.size = 0
      BY <1>4, <2>1, <3>1 DEF MarkAt, IsEor, IsBor, s
    <3>3. s.number > lastNumber
      <4>1. CASE lastNumber = -1
        BY <1>4, <3>2, <4>1 DEF IsEor
      <4>2. CASE IsDataNumber(lastNumber)
        <5>1. PICK a \in DOMAIN tape : /\ tape[a].rec = First /\ IsData(tape[a])
                                       /\ tape[a].number = lastNumber
          BY <4>2 DEF IsDataNumber
        <5>2. ~IsBor(tape[a]) /\ tape[a].size # 0
          BY <1>1, <5>1, TapeReads DEF IsData, IsBor
        <5>3. QED
          BY <1>1, <1>3, <1>4, <3>2, <5>1, <5>2, LaterNumbers DEF s
      <4>3. QED
        BY <1>2, <4>1, <4>2
    <3>4. ~DropHeaderless(damage) /\ ~DropBor(s, damage)
      BY <2>4, <3>2 DEF DropHeaderless, DropBor, HeaderIsValid
    <3>5. ~DropDuplicate(s, damage)
      BY <1>1, <1>4, <3>3 DEF DropDuplicate, IsDuplicate
    <3>6. QED
      BY <1>5, <1>12, <3>2, <3>4, <3>5
  <2>5. QED
    BY <1>1, <2>2, <2>3, <2>4
<1>13. ASSUME ~halted'
       PROVE  /\ lastNumber' = -1 \/ IsDataNumber(lastNumber')
              /\ notUnderrunning' = 1 /\ Behind(head + 1, lastNumber')
                   => duplicateRuns' < replays
  <2>1. CASE DropHeaderless(damage)
    <3>1. UNCHANGED <<lastNumber, notUnderrunning, duplicateRuns>>
      BY <2>1 DEF DropHeaderless
    <3>2. QED
      BY <1>2, <1>9, <3>1
  <2>2. CASE DropBor(s, damage)
    <3>1. UNCHANGED <<lastNumber, notUnderrunning>> /\ duplicateRuns' = 0
      BY <2>2 DEF DropBor
    <3>2. notUnderrunning = 1 /\ Behind(head, lastNumber) => 0 < replays
      BY <1>1, <1>2
    <3>3. QED
      BY <1>2, <1>9, <3>1, <3>2
  <2>3. CASE DropDuplicate(s, damage)
    <3>1. lastNumber' = lastNumber /\ notUnderrunning' = 0
      BY <2>3 DEF DropDuplicate
    <3>2. QED
      BY <1>2, <3>1
  <2>4. CASE Accept(s, damage) /\ s.size # 0
    <3>1. lastNumber' = s.number /\ ~IsBor(s)
      BY <2>4 DEF Accept
    <3>2. IsDataNumber(s.number)
      BY <1>3, <1>4, <2>4, <3>1 DEF IsDataNumber, IsData, IsBor, s
    <3>3. ~Behind(head + 1, s.number)
      <4>1. SUFFICES ASSUME NEW j \in DOMAIN tape, j >= head + 1,
                            tape[j].rec = First, ~IsBor(tape[j]),
                            tape[j].number <= s.number
                     PROVE  FALSE
        BY DEF Behind
      <4>2. head < j
        BY <1>1, <4>1
      <4>3. s.number < tape[j].number
        BY <1>1, <1>3, <2>4, <3>1, <4>1, <4>2, LaterNumbers DEF s
      <4>4. tape[j].number \in Int
        BY <1>1, <4>1, TapeReads
      <4>5. QED
        BY <1>4, <4>1, <4>3, <4>4
    <3>4. QED
      BY <3>1, <3>2, <3>3
  <2>5. QED
    BY <1>5, <1>13, <2>1, <2>2, <2>3, <2>4
<1>14. PlayInv'
  <2>1. \A i \in DOMAIN delivered' : delivered'[i].rec = First'
    BY <1>6, <1>8
  <2>2. duplicateRuns' <= replays'
    BY <1>11
  <2>3. ASSUME ~halted'
        PROVE  /\ UpToTheMark'
               /\ lastNumber' = -1 \/ IsDataNumber(lastNumber)'
               /\ notUnderrunning' = 1 /\ Behind(head, lastNumber)'
                    => duplicateRuns' < replays'
    <3>1. UpToTheMark'
      <4>1. \A e \in DOMAIN tape' : MarkAt(e, First)' => head' <= e + faults'
        BY <1>1, <1>6, <1>12, <2>3 DEF MarkAt
      <4>2. QED
        BY <4>1 DEF UpToTheMark
    <3>2. lastNumber' = -1 \/ IsDataNumber(lastNumber)'
      BY <1>1, <1>6, <1>13, <2>3 DEF IsDataNumber
    <3>3. Behind(head, lastNumber)' => Behind(head + 1, lastNumber')
      BY <1>1, <1>6 DEF Behind
    <3>4. QED
      BY <1>13, <2>3, <3>1, <3>2, <3>3
  <2>4. QED
    BY <1>7, <2>1, <2>2, <2>3 DEF PlayInv
<1>15. QED
  BY <1>14

(* Sectors the decoder does not get to see, and sectors played again.      *)
LEMMA SilentlyPlays ==
  ASSUME PlaybackConditions, RecordInv, LayoutInv, PlayInv, Running,
         UNCHANGED encVars, UNCHANGED decVars, UNCHANGED playing,
         faults < MaxFaults, faults' = faults + 1,
         \/ head' = head + 1 /\ replays' = replays
         \/ head' \in 1..(head - 1) /\ replays' = replays + 1
  PROVE  PlayInv'
<1>1. /\ tape \in Seq(SectorType) /\ head \in Nat \ {0} /\ faults \in Nat
      /\ replays \in Nat /\ MaxFaults \in Nat /\ duplicateRuns \in Nat
      /\ tape' = tape /\ playing' /\ ~halted
      /\ UNCHANGED <<lastNumber, notUnderrunning, duplicateRuns, delivered>>
  <2>1. playing = TRUE /\ playing' = playing /\ ~halted
    BY DEF Running, RecordInv, TapeTypeOK
  <2>2. playing'
    BY <2>1
  <2>3. QED
    BY <2>1, <2>2, FaultAssumption
    DEF RecordInv, EncInv, EncTypeOK, DecInv, DecTypeOK, TapeTypeOK, encVars,
        decVars, statVars, peerVars
<1>2. /\ UpToTheMark /\ (lastNumber = -1 \/ IsDataNumber(lastNumber))
      /\ notUnderrunning = 1 /\ Behind(head, lastNumber) => duplicateRuns < replays
      /\ duplicateRuns <= replays
      /\ \A i \in DOMAIN delivered : delivered[i].rec = First
  BY <1>1 DEF PlayInv
<1>3. First' = First
  BY <1>1 DEF First
<1>4. UpToTheMark'
  <2>1. ASSUME NEW e \in DOMAIN tape', MarkAt(e, First)'
        PROVE  head' <= e + faults'
    <3>1. e \in DOMAIN tape /\ MarkAt(e, First)
      BY <1>1, <1>3, <2>1 DEF MarkAt
    <3>2. e \in Nat /\ head <= e + faults
      BY <1>1, <1>2, <3>1 DEF UpToTheMark
    <3>3. QED
      BY <1>1, <3>2
  <2>2. QED
    BY <2>1 DEF UpToTheMark
<1>5. notUnderrunning' = 1 /\ Behind(head, lastNumber)' => duplicateRuns' < replays'
  <2>1. CASE head' = head + 1 /\ replays' = replays
    <3>1. Behind(head, lastNumber)' => Behind(head, lastNumber)
      BY <1>1, <1>3, <2>1 DEF Behind
    <3>2. QED
      BY <1>1, <1>2, <2>1, <3>1
  <2>2. CASE replays' = replays + 1
    BY <1>1, <1>2, <2>2
  <2>3. QED
    BY <2>1, <2>2
<1>6. lastNumber' = -1 \/ IsDataNumber(lastNumber)'
  BY <1>1, <1>2, <1>3 DEF IsDataNumber
<1>7. \A i \in DOMAIN delivered' : delivered'[i].rec = First'
  BY <1>1, <1>2, <1>3
<1>8. faults' <= MaxFaults /\ duplicateRuns' <= replays'
  BY <1>1, <1>2
<1>9. QED
  BY <1>1, <1>4, <1>5, <1>6, <1>7, <1>8 DEF PlayInv

LEMMA PlayInvInit == Init => PlayInv
<1> SUFFICES ASSUME Init PROVE PlayInv
  OBVIOUS
<1>1. /\ DOMAIN tape = {} /\ DOMAIN delivered = {} /\ delivered = <<>>
      /\ head = 1 /\ faults = 0 /\ replays = 0 /\ lastNumber = -1
      /\ notUnderrunning = 0 /\ duplicateRuns = 0
  BY DEF Init, EncInit, DecInit
<1>2. faults <= MaxFaults /\ duplicateRuns <= replays
  BY <1>1, FaultAssumption
<1>3. UpToTheMark
  BY <1>1 DEF UpToTheMark
<1>4. QED
  BY <1>1, <1>2, <1>3 DEF PlayInv

LEMMA PlayInvStep ==
  ASSUME PlaybackConditions, RecordInv, RecordInv', LayoutInv, PlayInv, [Next]_vars
  PROVE  PlayInv'
<1>1. CASE Recording
  <2>1. /\ ~playing /\ playing' = playing /\ UNCHANGED decVars
        /\ UNCHANGED <<head, faults, replays>>
    BY <1>1 DEF Recording, tapeVars
  <2>2. /\ head' = 1 /\ faults' = 0 /\ lastNumber' = -1 /\ notUnderrunning' = 0
        /\ duplicateRuns' = 0 /\ delivered' = <<>> /\ replays' \in Nat
        /\ faults' <= MaxFaults
    BY <2>1, FaultAssumption
    DEF PlayInv, RecordInv, TapeTypeOK, decVars, statVars, peerVars
  <2>3. tape' \in Seq(SectorType)
    BY DEF RecordInv, EncInv, EncTypeOK
  <2>4. UpToTheMark'
    <3>1. \A e \in DOMAIN tape' : head' <= e + faults'
      BY <2>2, <2>3
    <3>2. QED
      BY <3>1 DEF UpToTheMark
  <2>5. DOMAIN delivered' = {} /\ duplicateRuns' <= replays' /\ notUnderrunning' # 1
    BY <2>2
  <2>6. QED
    BY <2>2, <2>4, <2>5 DEF PlayInv
<1>2. CASE Rewind
  <2>1. /\ playing' = TRUE
        /\ UNCHANGED <<tape, head, faults, replays, lastNumber, notUnderrunning,
                       duplicateRuns, delivered, halted>>
    BY <1>2 DEF Rewind, encVars, decVars, statVars, peerVars
  <2>2. /\ First' = First /\ (UpToTheMark => UpToTheMark')
        /\ Behind(head, lastNumber)' = Behind(head, lastNumber)
        /\ IsDataNumber(lastNumber)' = IsDataNumber(lastNumber)
    BY <2>1 DEF First, UpToTheMark, MarkAt, Behind, IsDataNumber
  <2>3. QED
    BY <2>1, <2>2 DEF PlayInv
<1>3. CASE Playback
  <2>1. Running /\ UNCHANGED encVars /\ playing'
    BY <1>3, PlaybackCalls DEF Playback, PlayGood, PlayDamaged, Miss, Repeat
  <2>2. CASE PlayGood
    <3>1. /\ DecChain(tape[head], "none") /\ head' = head + 1
          /\ faults' = faults /\ replays' = replays /\ "none" \in Damages
      BY <2>2, DecoderAssumption DEF PlayGood
    <3>2. QED
      BY <2>1, <3>1, DecChainPlays
  <2>3. CASE PlayDamaged
    <3>1. /\ head' = head + 1 /\ replays' = replays
          /\ faults < MaxFaults /\ faults' = faults + 1
      BY <2>3 DEF PlayDamaged, Fault
    <3>2. PICK damage \in Damages : DecChain(tape[head], damage)
      BY <2>3 DEF PlayDamaged
    <3>3. QED
      BY <2>1, <3>1, <3>2, DecChainPlays
  <2>4. CASE Miss
    BY <2>1, <2>4, SilentlyPlays DEF Miss, Fault
  <2>5. CASE Repeat
    BY <2>1, <2>5, SilentlyPlays DEF Repeat
  <2>6. QED
    BY <1>3, <2>2, <2>3, <2>4, <2>5 DEF Playback
<1>4. CASE UNCHANGED vars
  <2>1. UNCHANGED <<tape, playing, head, faults, replays, lastNumber, notUnderrunning,
                    duplicateRuns, delivered, halted>>
    BY <1>4 DEF vars, encVars, decVars, statVars, peerVars, tapeVars
  <2>2. /\ First' = First /\ (UpToTheMark => UpToTheMark')
        /\ Behind(head, lastNumber)' = Behind(head, lastNumber)
        /\ IsDataNumber(lastNumber)' = IsDataNumber(lastNumber)
    BY <2>1 DEF First, UpToTheMark, MarkAt, Behind, IsDataNumber
  <2>3. QED
    BY <2>1, <2>2 DEF PlayInv
<1>5. QED
  BY <1>1, <1>2, <1>3, <1>4 DEF Next

(* The layout of the tape does not change while it is played.              *)
LEMMA LayoutStays ==
  ASSUME WholeRecordings, RecordInv, LayoutInv, [Next]_vars
  PROVE  LayoutInv'
<1>1. EncInv
  BY DEF RecordInv
<1>2. [EncNext]_encVars
  BY PlaybackCalls DEF Next, Recording, Rewind, vars
<1>3. QED
  BY <1>1, <1>2, LayoutInvStep

(* Playback keeps to the first recording on the tape, and every run of     *)
(* repeats that is counted was an underrun.                                *)
THEOREM PlaybackInvariance == PlaybackConditions => (Spec => []PlayInv)
<1> SUFFICES ASSUME PlaybackConditions PROVE Spec => []PlayInv
  OBVIOUS
<1>1. WholeRecordings /\ NumbersSuffice
  BY DEF PlaybackConditions, WholeRecordings
<1>2. Init => LayoutInv /\ PlayInv
  BY LayoutInvInit, PlayInvInit DEF Init
<1>3. /\ RecordInv /\ RecordInv' /\ LayoutInv /\ PlayInv /\ [Next]_vars
           => LayoutInv' /\ PlayInv'
  BY <1>1, LayoutStays, PlayInvStep
<1>4. Spec => []RecordInv
  BY <1>1, RecordInvariance
<1>5. QED
  BY <1>2, <1>3, <1>4, PTL DEF Spec

(* No splice: whatever else is on the tape, what is delivered is of one    *)
(* recording, when fewer sectors are lost than its end mark has.           *)
THEOREM OneRecordingDeliveredAlways ==
  PlaybackConditions => (Spec => []OneRecordingDelivered)
<1> SUFFICES ASSUME PlaybackConditions PROVE Spec => []OneRecordingDelivered
  OBVIOUS
<1>1. PlayInv => OneRecordingDelivered
  BY DEF PlayInv, OneRecordingDelivered
<1>2. QED
  BY <1>1, PlaybackInvariance, PTL

(* The count of runs of repeated sectors never exceeds the number of       *)
(* underruns.                                                              *)
THEOREM DuplicateRunsAreUnderrunsAlways ==
  PlaybackConditions => (Spec => []DuplicateRunsAreUnderruns)
<1> SUFFICES ASSUME PlaybackConditions PROVE Spec => []DuplicateRunsAreUnderruns
  OBVIOUS
<1>1. PlayInv => DuplicateRunsAreUnderruns
  BY DEF PlayInv, DuplicateRunsAreUnderruns
<1>2. QED
  BY <1>1, PlaybackInvariance, PTL
=============================================================================

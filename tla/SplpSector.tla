------------------------------ MODULE SplpSector ------------------------------
(***************************************************************************)
(* The sector of the SP/LP codec (src/codecs/bkr_splp.c): the header, the  *)
(* sector number field and the coding of the length of a short sector.     *)
(*                                                                         *)
(* A sector is what stands on the tape between two sets of parity bytes.   *)
(* The file data it carries is represented by its place in the stream it   *)
(* was cut from: "first" is the offset of its first byte and "size" the    *)
(* number of bytes, so that two payloads are equal when they are the same  *)
(* bytes of the same recording.                                            *)
(***************************************************************************)
EXTENDS Integers, Sequences

CONSTANTS
  Capacity,   \* file bytes a full sector holds (format->capacity)
  HalfRange,  \* 2^27 in the code: the number field is 28 bits, signed
  LowDigits   \* 15 in the code: the nonzero values of the 4-bit low_used

ASSUME SectorAssumption ==
  /\ Capacity \in Nat \ {0}
  /\ HalfRange \in Nat \ {0}
  /\ LowDigits \in Nat \ {0}

-----------------------------------------------------------------------------
(* The value a sector number has after put_sector_header() stored it in    *)
(* the signed bit field and get_sector_header() read it back.              *)
NumberField(n) == ((n + HalfRange) % (2 * HalfRange)) - HalfRange

(* encode_sector_length(): the count is stretched so that its low digit is *)
(* never 0, which is reserved for a full sector.                           *)
EncodeLength(length) == length + (length \div LowDigits) + 1

LowUsed(length)  == EncodeLength(length) % (LowDigits + 1)
HighUsed(length) == EncodeLength(length) \div (LowDigits + 1)

\* Mutant: decoding takes the offset of the low digit off twice.
ShortDecodeLength(high, low) == (high * LowDigits) + low - 2

DecodeLength(high, low) == (high * LowDigits) + low - 1

-----------------------------------------------------------------------------
(* encode_sector(): a short sector carries the two digits of its length, a *)
(* full one a zero low digit; its high digit is then the last data byte.   *)
Sector(rec, number, first, size) ==
  [rec    |-> rec,
   number |-> NumberField(number),
   low    |-> IF size < Capacity THEN LowUsed(size) ELSE 0,
   high   |-> IF size < Capacity THEN HighUsed(size) ELSE 0,
   first  |-> first,
   size   |-> size]

(* What decode_sector() takes the size of a sector to be, when the byte    *)
(* high_used() points at reads as "high".                                  *)
SizeRead(s, high) ==
  IF s.low = 0 THEN Capacity ELSE DecodeLength(high, s.low)

SectorType ==
  [rec : Nat, number : Int, low : Nat, high : Nat, first : Nat, size : Nat]

(* The three types of sector are told apart by the sign of the number and  *)
(* the amount of data.                                                     *)
IsBor(s)  == s.number < 0
IsEor(s)  == s.number >= 0 /\ s.size = 0
IsData(s) == s.number >= 0 /\ s.size > 0
=============================================================================

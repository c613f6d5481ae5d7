------------------------------ MODULE Ecc2Group ------------------------------
(***************************************************************************)
(* The sector group of the ECC2 codec (src/codecs/bkr_ecc2.c) and the      *)
(* Reed-Solomon code laid across it: BlockSize sectors of SectorBytes      *)
(* bytes each, first the data sectors, then the parity sectors.  Byte b of *)
(* every sector together are block b, one code word.  The last HeaderSize  *)
(* bytes of the data sectors hold the number of file bytes in the group.   *)
(*                                                                         *)
(* A group is identified by its file bytes, a nonempty sequence, and a     *)
(* sector by its group and its place in it; "wrong" are the blocks in      *)
(* which a copy of the sector differs from what was recorded.              *)
(***************************************************************************)
EXTENDS Integers, FiniteSets, SequencesExt

CONSTANTS
  BlockSize,   \* 255 in the code: sectors of a group, symbols of a code word
  Parity,      \* 20 in the code: how many of them are parity
  SectorBytes, \* format->interleave: bytes of a sector, blocks of a group
  HeaderSize   \* 4 in the code: bytes of the header

ASSUME GroupAssumption ==
  /\ BlockSize \in Nat
  /\ Parity \in 1..(BlockSize - 1)
  /\ SectorBytes \in Nat
  /\ HeaderSize \in 1..SectorBytes
  /\ (BlockSize - Parity) * SectorBytes > HeaderSize

Sectors     == 0..(BlockSize - 1)
Blocks      == 0..(SectorBytes - 1)
DataSectors == BlockSize - Parity

(* format->capacity: file bytes in a full group. *)
GroupCapacity == DataSectors * SectorBytes - HeaderSize

(* The sector and the block that byte i of the file data is in. *)
SectorOfByte(i) == (i - 1) \div SectorBytes
BlockOfByte(i)  == (i - 1) % SectorBytes

(* Byte i of the data sectors of a group: short data is padded with zeros. *)
ByteOf(group, i) == IF i <= Len(group) THEN group[i] ELSE 0

HeaderSector == DataSectors - 1
HeaderBlocks == (SectorBytes - HeaderSize)..(SectorBytes - 1)

Group == Seq(Nat \ {0}) \ {<<>>}

SectorType == [group : Seq(Nat), index : Nat, wrong : SUBSET Blocks]

(* What the event handler puts in the place of a sector that is missing. *)
Padding == [group |-> <<>>, index |-> 0, wrong |-> Blocks]

Bad == -1  \* a byte that is not of the file data of any group

(* Byte b of a sector as it was received. *)
ByteReceived(s, b) ==
  LET i == s.index * SectorBytes + b + 1
  IN  IF b \in s.wrong \/ i > GroupCapacity THEN Bad ELSE ByteOf(s.group, i)

-----------------------------------------------------------------------------
(* The place of a sector in the code word: the parity symbols stand below  *)
(* the data symbols.                                                       *)
SymbolOf(q) == IF q < DataSectors THEN Parity + q ELSE q - DataSectors

(* The locator polynomial takes a location for a power of beta, so that    *)
(* they count modulo the length of the code word.                          *)
LocationsIn(erasure) == {erasure[i] % BlockSize : i \in DOMAIN erasure}

AllDistinct(erasure) == Cardinality(LocationsIn(erasure)) = Len(erasure)

(* An error uses up two parity symbols, an erasure one.  A location given  *)
(* twice makes a double root, of which the root search finds one.          *)
WithinReach(wrong, erasure) ==
  /\ AllDistinct(erasure)
  /\ Len(erasure) + 2 * Cardinality(wrong \ LocationsIn(erasure)) <= Parity

(* The result for one block: "wrong" are the symbols that are not those of *)
(* the group afterwards, "altered" those of them the decoder has changed.  *)
Unchanged(wrong, erasure, result) ==
  [corrections |-> result, erasure |-> erasure, wrong |-> wrong, altered |-> {}]

Corrected(wrong, erasure) ==
  LET found == wrong \union LocationsIn(erasure)
  IN  [corrections |-> Cardinality(found), erasure |-> SetToSeq(found),
       wrong |-> {}, altered |-> {}]

(* A block beyond reach may be another code word as it is, or have symbols *)
(* changed at the erasures and some other locations: none at all, if the   *)
(* locator polynomial comes out as 1, which the decoder takes for success. *)
Miscorrected(wrong, erasure) ==
  (IF Cardinality(wrong) > Parity THEN {Unchanged(wrong, erasure, 0)} ELSE {})
    \union
  {[corrections |-> Cardinality(r), erasure |-> SetToSeq(r),
    wrong |-> wrong \union r, altered |-> r] :
      r \in {r \in SUBSET Sectors : /\ AllDistinct(erasure)
                                    /\ LocationsIn(erasure) \subseteq r
                                    /\ Cardinality(r) \in 0..Parity}}

(* reed_solomon_decode(): the results it may have for a block with the     *)
(* symbols "wrong" in error, given a list of erasures.                     *)
Decode(wrong, erasure) ==
  IF wrong = {} THEN {Unchanged(wrong, erasure, 0)}
  ELSE IF WithinReach(wrong, erasure) THEN {Corrected(wrong, erasure)}
  ELSE {Unchanged(wrong, erasure, -1)} \union Miscorrected(wrong, erasure)
=============================================================================

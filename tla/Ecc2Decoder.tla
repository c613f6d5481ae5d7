----------------------------- MODULE Ecc2Decoder -----------------------------
(***************************************************************************)
(* bkr_ecc2dec (src/codecs/bkr_ecc2.c): collects sectors into groups,      *)
(* corrects each group with the list of erasures made from the events of   *)
(* the SP/LP decoder, and passes its file bytes on.                        *)
(***************************************************************************)
EXTENDS Ecc2Group

CONSTANTS
  PushResults, \* whether the peer accepts a buffer
  Lengths      \* 0..(2^32 - 1) in the code: what a wrong header may say

ASSUME Ecc2DecoderAssumption == PushResults \subseteq BOOLEAN /\ Lengths \subseteq Nat

VARIABLES
  collected,    \* filter->adapter of the decoder, in sectors
  erasure,      \* filter->erasure and filter->num_erasure
  sectorNumber, \* filter->sector_number
  worstGroup,   \* filter->worst_group
  extraErrors,  \* filter->extra_errors
  delivered,    \* external: the buffers the peer was given
  stopped,      \* dec_chain() returned something other than GST_FLOW_OK
  eosSeen       \* external: the peer was given an EOS event

decVars == <<collected, erasure, sectorNumber, worstGroup, extraErrors,
             delivered, stopped, eosSeen>>

DecInit ==
  /\ collected = <<>>
  /\ erasure = <<>>
  /\ sectorNumber = 0
  /\ worstGroup = 0
  /\ extraErrors = 0
  /\ delivered = <<>>
  /\ stopped = FALSE
  /\ eosSeen = FALSE

-----------------------------------------------------------------------------
(* The symbols of block b that are not those of group g.                   *)
WrongSymbols(sectors, g, b) ==
  {SymbolOf(q) : q \in {q \in Sectors :
      LET s == sectors[q + 1] IN s.group # g \/ s.index # q \/ b \in s.wrong}}

(* A group is read as one of those its sectors belong to.                  *)
GroupsAmong(sectors) ==
  LET found == {sectors[i].group : i \in DOMAIN sectors} \ {<<>>}
  IN  IF found = {} THEN {<<>>} ELSE found

(* What decode_group() makes of one block, starting from the list and the  *)
(* statistics "r": a block that needed more corrections than there were    *)
(* erasures leaves its locations as the erasures of the next one.          *)
AfterBlock(r, b, result) ==
  [erasure |-> IF result.corrections > Len(r.erasure) THEN result.erasure ELSE r.erasure,
   extra   |-> r.extra + (IF result.corrections > Len(r.erasure)
                          THEN result.corrections - Len(r.erasure) ELSE 0),
   worst   |-> Max({r.worst, result.corrections}),
   wrong   |-> [r.wrong EXCEPT ![b] = result.wrong],
   altered |-> [r.altered EXCEPT ![b] = result.altered]]

(* All the blocks, in order: the results decode_group() may come to.       *)
Corrections(sectors, g) ==
  LET upTo[b \in 0..SectorBytes] ==
        IF b = 0
        THEN {[erasure |-> erasure, extra |-> extraErrors, worst |-> worstGroup,
               wrong   |-> [c \in Blocks |-> WrongSymbols(sectors, g, c)],
               altered |-> [c \in Blocks |-> {}]]}
        ELSE UNION {{AfterBlock(r, b - 1, result) :
                        result \in Decode(r.wrong[b - 1], r.erasure)} : r \in upTo[b - 1]}
  IN  upTo[SectorBytes]

(* get_header(): the length, which is anything when a byte of it is wrong. *)
(* Nothing compares it with the size of the group.                         *)
LengthsRead(g, wrong) ==
  IF \E b \in HeaderBlocks : SymbolOf(HeaderSector) \in wrong[b]
  THEN Lengths
  ELSE {Len(g)}

(* The buffer that is passed on: symbols that are not corrected keep what  *)
(* was received.  Behind the file bytes are the header, the parity, and    *)
(* what happens to be behind the memory of the group.                      *)
ByteDecoded(sectors, g, r, i) ==
  LET q == SectorOfByte(i)
      b == BlockOfByte(i)
  IN  IF i > GroupCapacity THEN Bad
      ELSE IF SymbolOf(q) \notin r.wrong[b] THEN ByteOf(g, i)
      ELSE IF SymbolOf(q) \in r.altered[b] THEN Bad
      ELSE ByteReceived(sectors[q + 1], b)

Buffer(sectors, g, r, length) ==
  [i \in 1..length |-> ByteDecoded(sectors, g, r, i)]

DecodeGroup(sectors, push) ==
  \E g \in GroupsAmong(sectors) :
    \E r \in Corrections(sectors, g) :
      \E length \in LengthsRead(g, r.wrong) :
        /\ worstGroup' = r.worst
        /\ extraErrors' = r.extra
        /\ delivered' = IF push THEN Append(delivered, Buffer(sectors, g, r, length))
                        ELSE delivered

-----------------------------------------------------------------------------
(* The decoder's list has room for Parity erasures and nothing checks it:  *)
(* what a decoder does that has written behind it is not modelled.         *)
ListFits == Len(erasure) <= Parity

Listening == ~stopped /\ ~eosSeen /\ ListFits

\* Mutant: a missing sector is listed and not replaced.
UnpaddedSkipped ==
  /\ Listening
  /\ erasure' = Append(erasure, sectorNumber)
  /\ sectorNumber' = sectorNumber + 1
  /\ UNCHANGED <<collected, worstGroup, extraErrors, delivered, stopped, eosSeen>>

(* dec_event(), BKR_EVENT_SKIPPED_SECTOR: zeros take the sector's place.   *)
(* Nothing is decoded here, even if that completes the group.              *)
Skipped ==
  /\ Listening
  /\ collected' = Append(collected, Padding)
  /\ erasure' = Append(erasure, sectorNumber)
  /\ sectorNumber' = sectorNumber + 1
  /\ UNCHANGED <<worstGroup, extraErrors, delivered, stopped, eosSeen>>

(* dec_event(), BKR_EVENT_NEXT_SECTOR_INVALID. *)
NextInvalid ==
  /\ Listening
  /\ erasure' = Append(erasure, sectorNumber)
  /\ UNCHANGED <<collected, sectorNumber, worstGroup, extraErrors, delivered,
                 stopped, eosSeen>>

\* Mutant: a group is complete one sector later.
LateIsGroup(sectors) == Len(sectors) > BlockSize

IsGroup(sectors) == Len(sectors) >= BlockSize

(* dec_chain(): a sector, and the group when it is complete. *)
CollectSector(s) ==
  /\ ~IsGroup(Append(collected, s))
  /\ collected' = Append(collected, s)
  /\ sectorNumber' = sectorNumber + 1
  /\ UNCHANGED <<erasure, worstGroup, extraErrors, delivered, stopped>>

\* Mutant: the erasures of a group stay in the list for the next.
StaleCompleteGroup(s, push) ==
  LET all == Append(collected, s)
  IN  /\ IsGroup(all)
      /\ DecodeGroup(SubSeq(all, 1, BlockSize), push)
      /\ collected' = SubSeq(all, BlockSize + 1, Len(all))
      /\ sectorNumber' = 0
      /\ stopped' = ~push
      /\ UNCHANGED erasure

CompleteGroup(s, push) ==
  LET all == Append(collected, s)
  IN  /\ IsGroup(all)
      /\ DecodeGroup(SubSeq(all, 1, BlockSize), push)
      /\ collected' = SubSeq(all, BlockSize + 1, Len(all))
      /\ sectorNumber' = 0
      /\ erasure' = <<>>
      /\ stopped' = ~push

DecChain(s) ==
  /\ Listening
  /\ \/ CollectSector(s)
     \/ \E push \in PushResults : CompleteGroup(s, push)
  /\ UNCHANGED eosSeen

(* dec_event(), an EOS event: it is passed on, and what has been collected *)
(* stays where it is.                                                      *)
DecEos ==
  /\ Listening
  /\ eosSeen' = TRUE
  /\ UNCHANGED <<collected, erasure, sectorNumber, worstGroup, extraErrors,
                 delivered, stopped>>

-----------------------------------------------------------------------------
DecTypeOK ==
  /\ collected \in Seq(SectorType)
  /\ erasure \in Seq(Nat)
  /\ sectorNumber \in Nat
  /\ worstGroup \in 0..Parity
  /\ extraErrors \in Nat
  /\ delivered \in Seq(Seq(Nat \union {Bad}))
  /\ stopped \in BOOLEAN
  /\ eosSeen \in BOOLEAN
=============================================================================

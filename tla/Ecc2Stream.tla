------------------------------ MODULE Ecc2Stream ------------------------------
(***************************************************************************)
(* The ECC2 encoder, what lies between, and the ECC2 decoder: the sectors  *)
(* of the groups are recorded one behind the other, and played back with   *)
(* some of them missing, bad and reported, or bad without a report.        *)
(*                                                                         *)
(* The link stands for the SP/LP codec, the tape and the rest.  It tells   *)
(* the decoder of a missing sector before it passes the next one on, and   *)
(* of a bad one before it passes that one on, as dec_chain() of            *)
(* src/codecs/bkr_splp.c is written to do for a peer whose event results   *)
(* it takes for success.                                                   *)
(***************************************************************************)
EXTENDS Ecc2Encoder, Ecc2Decoder

CONSTANT MaxFaults  \* bound: sectors missing or bad

ASSUME Ecc2FaultAssumption == MaxFaults \in Nat

VARIABLES
  played,    \* sectors that have left the link
  announced, \* the decoder has been told that the next sector is bad
  missing,   \* the sectors the tape has lost
  damaged    \* the sectors that were bad, reported or not

linkVars == <<played, announced, missing, damaged>>
vars == <<encVars, decVars, linkVars>>

Init ==
  /\ EncInit
  /\ DecInit
  /\ played = 0
  /\ announced = FALSE
  /\ missing = {}
  /\ damaged = {}

-----------------------------------------------------------------------------
Playing == phase \in {"done", "broken"} /\ Listening

SectorAt(k, wrong) ==
  [group |-> sent[(k \div BlockSize) + 1], index |-> k % BlockSize, wrong |-> wrong]

SectorsLeft == played < Len(sent) * BlockSize

MayFail == Cardinality(missing) + Cardinality(damaged) < MaxFaults

Recording == EncNext /\ UNCHANGED <<decVars, linkVars>>

PlayGood ==
  /\ Playing /\ SectorsLeft /\ ~announced
  /\ DecChain(SectorAt(played, {}))
  /\ played' = played + 1
  /\ UNCHANGED <<encVars, announced, missing, damaged>>

Miss ==
  /\ Playing /\ SectorsLeft /\ ~announced /\ MayFail
  /\ Skipped
  /\ played' = played + 1
  /\ missing' = missing \union {played}
  /\ UNCHANGED <<encVars, announced, damaged>>

Announce ==
  /\ Playing /\ SectorsLeft /\ ~announced /\ MayFail
  /\ NextInvalid
  /\ announced' = TRUE
  /\ damaged' = damaged \union {played}
  /\ UNCHANGED <<encVars, played, missing>>

PlayAnnounced ==
  /\ Playing /\ announced
  /\ \E wrong \in SUBSET Blocks : DecChain(SectorAt(played, wrong))
  /\ played' = played + 1
  /\ announced' = FALSE
  /\ UNCHANGED <<encVars, missing, damaged>>

(* The SP/LP decoder's own code has taken a bad sector for a good one.     *)
PlayUnnoticed ==
  /\ Playing /\ SectorsLeft /\ ~announced /\ MayFail
  /\ \E wrong \in SUBSET Blocks \ {{}} : DecChain(SectorAt(played, wrong))
  /\ played' = played + 1
  /\ damaged' = damaged \union {played}
  /\ UNCHANGED <<encVars, announced, missing>>

End ==
  /\ Playing /\ ~SectorsLeft
  /\ DecEos
  /\ UNCHANGED <<encVars, linkVars>>

Next ==
  \/ Recording
  \/ PlayGood \/ Miss \/ Announce \/ PlayAnnounced \/ PlayUnnoticed
  \/ End

Spec == Init /\ [][Next]_vars

-----------------------------------------------------------------------------
TypeOK ==
  /\ EncTypeOK
  /\ DecTypeOK
  /\ played \in 0..(Len(sent) * BlockSize)
  /\ announced \in BOOLEAN
  /\ missing \subseteq 0..(played - 1)
  /\ damaged \subseteq 0..played

SectorsOf(i) == ((i - 1) * BlockSize)..(i * BlockSize - 1)
LastSectorOf(i) == i * BlockSize - 1

(* Sectors stay in their places: byte j of buffer i is byte j of group i,  *)
(* or one that could not be corrected, or padding, however many sectors    *)
(* were lost, reported late, or corrected wrongly before.  Nothing is said *)
(* of the length of a buffer, which may be that of no group at all.        *)
BuffersAreGroups ==
  \A i \in DOMAIN delivered : \A j \in DOMAIN delivered[i] :
    delivered[i][j] \in {Bad, ByteOf(sent[i], j)}

(* A group comes out whole, with its length, when three times the sectors  *)
(* of it that are missing or bad are no more than Parity: each is an error *)
(* and an erasure besides.  It may not have lost its last sector together  *)
(* with a fault of the sector after it, which the events for that sector   *)
(* would put into its list.                                                *)
WithinReachIsDelivered ==
  \A i \in DOMAIN delivered :
    \/ LastSectorOf(i) \in missing /\ LastSectorOf(i) + 1 \in missing \union damaged
    \/ 3 * Cardinality((missing \union damaged) \cap SectorsOf(i)) > Parity
    \/ delivered[i] = sent[i]

(* All groups have been passed on when the stream ends, if the last sector *)
(* of it came through: groups that were complete when none arrived are     *)
(* caught up with, one with each sector.                                   *)
EveryGroupIsDelivered ==
  eosSeen => LastSectorOf(Len(sent)) \in missing \/ Len(delivered) = Len(sent)

(* The list of erasures is of missing and bad sectors among those that are *)
(* collected, or the next one: it can only outgrow its room when there are *)
(* more than Parity of them, and never by those of a group that is done.   *)
ErasuresAreOfTheCollected ==
  stopped \/ Len(erasure) <=
    Cardinality((missing \union damaged) \cap ((played - Len(collected))..played))

-----------------------------------------------------------------------------
(* README.md says the code can replace up to 20 sectors in each group:     *)
(* that a group of which no more than Parity sectors are missing and the   *)
(* others are good comes out whole.                                        *)
MissingSectorsAreReplaced ==
  \A i \in DOMAIN delivered :
    \/ damaged \cap SectorsOf(i) # {}
    \/ Cardinality(missing \cap SectorsOf(i)) > Parity
    \/ delivered[i] = sent[i]

(* By the same words a recording of which one sector is missing and all    *)
(* others are good comes out with all its groups.                          *)
OneMissingCostsNoGroup ==
  eosSeen /\ damaged = {} /\ Cardinality(missing) <= 1 => Len(delivered) = Len(sent)
=============================================================================

----------------------------- MODULE SplpDecoder -----------------------------
(***************************************************************************)
(* bkr_splpdec (src/codecs/bkr_splp.c): turns the sectors found on the     *)
(* tape back into a byte stream, dropping marks and repeats and telling    *)
(* the element downstream, by events, of sectors that are missing or bad.  *)
(*                                                                         *)
(* DecChain is one call of dec_chain().  Its inputs are the sector, what   *)
(* the tape has done to it, and what the downstream peer returns: a        *)
(* gboolean from an event handler, a GstFlowReturn from a push.  Both are  *)
(* integers to the code, which compares either with GST_FLOW_OK.           *)
(***************************************************************************)
EXTENDS SplpSector

CONSTANTS
  Damages,      \* what may be wrong with a sector that reaches the decoder
  HighBytes,    \* what an uncorrectable high_used() byte may read as
  EventResults, \* what the peer returns for the codec's two events
  EosResults,   \* what it returns for an EOS event
  PushResults   \* whether it accepts a buffer

(* Damage by the Reed-Solomon block it makes uncorrectable: one that holds *)
(* header bytes, one that holds file data only, or the one that holds the  *)
(* high_used() byte of a short sector.                                     *)
DamageKinds == {"none", "header", "body", "length"}

ASSUME DecoderAssumption ==
  /\ "none" \in Damages /\ Damages \subseteq DamageKinds
  /\ HighBytes \subseteq Nat
  /\ EventResults \subseteq BOOLEAN
  /\ EosResults \subseteq BOOLEAN
  /\ PushResults \subseteq BOOLEAN

VARIABLES
  lastNumber,      \* filter->sector_number: the last sector accepted
  notUnderrunning, \* filter->not_underrunning
  duplicateRuns,   \* filter->duplicate_runs
  badSectors,      \* filter->bad_sectors
  halted,          \* dec_chain() returned something other than GST_FLOW_OK
  position,        \* external: sectors the peer was told of, held or skipped
  delivered,       \* external: the buffers the peer was given
  sunk,            \* external: their bytes
  eosSeen          \* external: the peer was given an EOS event

statVars == <<notUnderrunning, duplicateRuns, badSectors>>
peerVars == <<position, delivered, sunk, eosSeen>>
decVars  == <<lastNumber, statVars, halted, peerVars>>

DecInit ==
  /\ lastNumber = -1
  /\ notUnderrunning = 0
  /\ duplicateRuns = 0
  /\ badSectors = 0
  /\ halted = FALSE
  /\ position = 0
  /\ delivered = <<>>
  /\ sunk = 0
  /\ eosSeen = FALSE

-----------------------------------------------------------------------------
(* correct_sector(): the header is taken to be good unless one of the      *)
(* blocks of the four header bytes failed.                                 *)
SectorIsValid(damage) == damage = "none"
HeaderIsValid(damage) == damage # "header"

CountBad(damage) == badSectors + (IF SectorIsValid(damage) THEN 0 ELSE 1)

(* No usable header: the sector is dropped.                                *)
DropHeaderless(damage) ==
  /\ ~HeaderIsValid(damage)
  /\ badSectors' = CountBad(damage)
  /\ UNCHANGED <<lastNumber, notUnderrunning, duplicateRuns, halted, peerVars>>

\* Mutant: a BOR mark also restarts the numbering.
RestartingDropBor(s, damage) ==
  /\ HeaderIsValid(damage)
  /\ IsBor(s)
  /\ badSectors' = 0
  /\ duplicateRuns' = 0
  /\ lastNumber' = s.number
  /\ UNCHANGED <<notUnderrunning, halted, peerVars>>

(* A sector of a BOR mark resets the statistics, the number stays.         *)
DropBor(s, damage) ==
  /\ HeaderIsValid(damage)
  /\ IsBor(s)
  /\ badSectors' = 0
  /\ duplicateRuns' = 0
  /\ UNCHANGED <<lastNumber, notUnderrunning, halted, peerVars>>

IsDuplicate(s) == s.number <= lastNumber

\* Mutant: every repeat is counted as a run of its own.
CountingDropDuplicate(s, damage) ==
  /\ HeaderIsValid(damage)
  /\ ~IsBor(s)
  /\ IsDuplicate(s)
  /\ badSectors' = CountBad(damage)
  /\ duplicateRuns' = duplicateRuns + notUnderrunning
  /\ UNCHANGED <<lastNumber, notUnderrunning, halted, peerVars>>

(* A repeat is dropped; a run of them is counted once.                     *)
DropDuplicate(s, damage) ==
  /\ HeaderIsValid(damage)
  /\ ~IsBor(s)
  /\ IsDuplicate(s)
  /\ badSectors' = CountBad(damage)
  /\ duplicateRuns' = duplicateRuns + notUnderrunning
  /\ notUnderrunning' = 0
  /\ UNCHANGED <<lastNumber, halted, peerVars>>

(* The part of decode_sector() after those three early returns.            *)
Accept(s, damage) ==
  /\ HeaderIsValid(damage)
  /\ ~IsBor(s)
  /\ ~IsDuplicate(s)
  /\ lastNumber' = s.number
  /\ notUnderrunning' = 1
  /\ badSectors' = CountBad(damage)
  /\ UNCHANGED duplicateRuns

SectorsSkipped(s) == s.number - lastNumber - 1

(* The size decode_sector() reads off an accepted sector: the high digit   *)
(* is anything when its block could not be corrected.                      *)
SizesRead(s, damage) ==
  {SizeRead(s, high) : high \in IF damage = "length" THEN HighBytes ELSE {s.high}}

\* Mutant: a bad sector is announced and dropped, and playback goes on.
SilentDeliver(s, damage, size, event, push) ==
  \/ /\ size = 0
     /\ eosSeen' = TRUE
     /\ halted' = event
     /\ UNCHANGED <<delivered, sunk>>
  \/ /\ size # 0
     /\ delivered' = IF SectorIsValid(damage) THEN Append(delivered, s) ELSE delivered
     /\ sunk' = sunk + (IF SectorIsValid(damage) THEN size ELSE 0)
     /\ halted' = ~push
     /\ UNCHANGED eosSeen

(* After the missing sectors, an EOR mark becomes an EOS event; anything   *)
(* else is announced if it is bad, and pushed.                             *)
Deliver(s, damage, size, event, push) ==
  \/ /\ size = 0
     /\ eosSeen' = TRUE
     /\ halted' = event
     /\ UNCHANGED <<delivered, sunk>>
  \/ /\ size # 0
     /\ ~SectorIsValid(damage) /\ event
     /\ halted' = TRUE
     /\ UNCHANGED <<delivered, sunk, eosSeen>>
  \/ /\ size # 0
     /\ SectorIsValid(damage) \/ ~event
     /\ delivered' = IF push THEN Append(delivered, s) ELSE delivered
     /\ sunk' = sunk + (IF push THEN size ELSE 0)
     /\ halted' = ~push
     /\ UNCHANGED eosSeen

(* An accepted sector that follows the last one.                           *)
AcceptNext(s, damage, size, event, push) ==
  /\ Accept(s, damage)
  /\ SectorsSkipped(s) = 0
  /\ Deliver(s, damage, size, event, push)
  /\ position' = position + Len(delivered') - Len(delivered)

(* An accepted sector that comes after missing ones, to a peer whose event *)
(* handler returns TRUE: 1 is not GST_FLOW_OK, so the loop stops after one *)
(* event and the sector is dropped.                                        *)
AcceptAfterGapHandled(s, damage) ==
  /\ Accept(s, damage)
  /\ SectorsSkipped(s) > 0
  /\ position' = position + 1
  /\ halted' = TRUE
  /\ UNCHANGED <<delivered, sunk, eosSeen>>

(* The same, to a peer that returns FALSE: 0 is GST_FLOW_OK.               *)
AcceptAfterGapUnhandled(s, damage, size, event, push) ==
  /\ Accept(s, damage)
  /\ SectorsSkipped(s) > 0
  /\ Deliver(s, damage, size, event, push)
  /\ position' = position + SectorsSkipped(s)
                 + Len(delivered') - Len(delivered)

(* One call of dec_chain(). *)
DecChain(s, damage) ==
  /\ ~halted
  /\ \/ DropHeaderless(damage)
     \/ DropBor(s, damage)
     \/ DropDuplicate(s, damage)
     \/ \E custom \in EventResults, eos \in EosResults,
           push \in PushResults, size \in SizesRead(s, damage) :
          LET event == IF size = 0 THEN eos ELSE custom
          IN  \/ AcceptNext(s, damage, size, event, push)
              \/ custom /\ AcceptAfterGapHandled(s, damage)
              \/ ~custom /\ AcceptAfterGapUnhandled(s, damage, size, event, push)

-----------------------------------------------------------------------------
(* The decoder alone, given any sector at any time. *)
DecNext == \E s \in SectorType, damage \in Damages : DecChain(s, damage)
DecSpec == DecInit /\ [][DecNext]_decVars

DecTypeOK ==
  /\ lastNumber \in Int /\ lastNumber >= -1
  /\ notUnderrunning \in {0, 1}
  /\ duplicateRuns \in Nat
  /\ badSectors \in Nat
  /\ halted \in BOOLEAN
  /\ position \in Nat
  /\ delivered \in Seq(SectorType)
  /\ sunk \in Nat
  /\ eosSeen \in BOOLEAN

(* What is delivered is delivered once and in the order of the sector      *)
(* numbers, whatever arrives in whatever order.                            *)
DeliveredInOrder ==
  /\ \A i \in DOMAIN delivered : delivered[i].number <= lastNumber
  /\ \A i, j \in DOMAIN delivered :
       i < j => delivered[i].number < delivered[j].number

(* The element downstream can tell where it is: as long as the decoder is  *)
(* running, sectors delivered and sectors reported missing add up to the   *)
(* numbers passed.  The sector-group code behind it depends on the count.  *)
PositionKept ==
  ~halted /\ ~eosSeen => position = lastNumber + 1

(* The comments in dec_chain(): a "skipped sector" event for each missing  *)
(* sector, then the sector itself, even if it has to be announced as bad.  *)
EverySectorReported == ~eosSeen => position = lastNumber + 1
=============================================================================

----------------------------- MODULE SplpEncoder -----------------------------
(***************************************************************************)
(* bkr_splpenc (src/codecs/bkr_splp.c): cuts a byte stream into numbered   *)
(* sectors between a beginning-of-record and an end-of-record mark.        *)
(*                                                                         *)
(* The element lives in one streaming thread: a buffer or an event is      *)
(* handled to the end, pushing any number of sectors downstream, before    *)
(* the next one.  Downstream may refuse any of those sectors; a sector it  *)
(* accepts is on the tape.                                                 *)
(***************************************************************************)
EXTENDS SplpSector

CONSTANTS
  BorLength,       \* sectors of a BOR mark (BOR_LENGTH * fields per second)
  EorLength,       \* sectors of an EOR mark
  MaxRecordings,   \* bound: recordings made on the tape
  MaxBytes,        \* bound: bytes offered to one recording
  DownstreamFails, \* whether the source pad may refuse a sector
  MayBeKilled,     \* whether the program may die before its EOS event
  SegmentResults   \* what pushing the new-segment event may return

ASSUME EncoderAssumption ==
  /\ BorLength \in Nat \ {0}
  /\ EorLength \in Nat \ {0}
  /\ MaxRecordings \in Nat
  /\ MaxBytes \in Nat
  /\ DownstreamFails \in BOOLEAN
  /\ MayBeKilled \in BOOLEAN
  /\ SegmentResults \subseteq BOOLEAN

VARIABLES
  phase,         \* where the recording is, seen from the source; it is
                 \* "broken" when it ended without its EOS being forwarded
  rec,           \* ghost: number of the recording in progress
  sectorNumber,  \* filter->sector_number
  format,        \* filter->format is not NULL
  pushed,        \* bytes put into filter->adapter
  taken,         \* bytes flushed from it: it holds pushed - taken
  tape           \* the sectors that reached the tape

encVars == <<phase, rec, sectorNumber, format, pushed, taken, tape>>

Available == pushed - taken
Lesser(a, b) == IF a < b THEN a ELSE b

-----------------------------------------------------------------------------
(* n copies of an empty sector: the number is not advanced between them.   *)
EmptySectors(number, n) == [i \in 1..n |-> Sector(rec, number, taken, 0)]

(* The next n sectors write_sector() cuts from an adapter filled up to     *)
(* "end"; the last may be short.                                           *)
DataSectors(number, end, n) ==
  [i \in 1..n |->
     LET first == taken + (i - 1) * Capacity
     IN  Sector(rec, number + i - 1, first, Lesser(Capacity, end - first))]

TakenAfter(n, end) == Lesser(taken + n * Capacity, end)

\* Mutant: the number moves only after a successful push.
UncountedFailAfter(written, number, end, k) ==
  /\ tape' = written \o DataSectors(number, end, k)
  /\ sectorNumber' = number + k
  /\ taken' = TakenAfter(k + 1, end)

(* Of n sectors to write, starting at "number", the sector after the k     *)
(* first ones fails.  A failed allocation leaves the adapter and the       *)
(* number alone; a failed push comes after both have moved.                *)
FailAfter(written, number, end, k) ==
  /\ tape' = written \o DataSectors(number, end, k)
  /\ \E consumed \in {0, 1} :
       /\ sectorNumber' = number + k + consumed
       /\ taken' = TakenAfter(k + consumed, end)

-----------------------------------------------------------------------------
EncInit ==
  /\ phase = "idle"
  /\ rec = 0
  /\ sectorNumber = 0
  /\ format = FALSE
  /\ pushed = 0
  /\ taken = 0
  /\ tape = <<>>

(* A new run of the encoder: a fresh element (enc_instance_init) whose     *)
(* output continues where the tape stands.                                 *)
NewRecording ==
  /\ phase \in {"idle", "done", "broken"}
  /\ rec < MaxRecordings
  /\ phase' = "created"
  /\ rec' = rec + 1
  /\ sectorNumber' = 0
  /\ format' = FALSE
  /\ pushed' = 0
  /\ taken' = 0
  /\ UNCHANGED tape

(* enc_event(NEWSEGMENT): forward it, then ask for a BOR mark.             *)
EncNewSegment ==
  /\ phase = "created"
  /\ phase' = "open"
  /\ \E handled \in SegmentResults :
       sectorNumber' = IF handled THEN -1 ELSE sectorNumber
  /\ UNCHANGED <<rec, format, pushed, taken, tape>>

(* The state every call of enc_chain() for a buffer of n bytes starts      *)
(* with: caps negotiated by the first buffer, data in the adapter.         *)
EnterChain(n) ==
  /\ phase = "open"
  /\ pushed + n <= MaxBytes
  /\ pushed' = pushed + n
  /\ format' = TRUE
  /\ UNCHANGED rec

ChainStart    == IF sectorNumber < 0 THEN 0 ELSE sectorNumber
ChainTape     == tape \o IF sectorNumber < 0
                           THEN EmptySectors(-1, BorLength) ELSE <<>>
ChainCount(n) == (Available + n) \div Capacity

(* enc_chain(), every sector accepted.                                     *)
EncChain(n) ==
  /\ EnterChain(n)
  /\ tape' = ChainTape \o DataSectors(ChainStart, pushed + n, ChainCount(n))
  /\ sectorNumber' = ChainStart + ChainCount(n)
  /\ taken' = TakenAfter(ChainCount(n), pushed + n)
  /\ UNCHANGED phase

(* enc_chain(), a sector of the BOR mark refused: write_bor() resets the   *)
(* number to 0 all the same.                                               *)
EncChainBorFails(n) ==
  /\ DownstreamFails
  /\ EnterChain(n)
  /\ sectorNumber < 0
  /\ \E k \in 0..(BorLength - 1) : tape' = tape \o EmptySectors(-1, k)
  /\ sectorNumber' = 0
  /\ phase' = "error"
  /\ UNCHANGED taken

(* enc_chain(), a data sector refused.                                     *)
EncChainDataFails(n) ==
  /\ DownstreamFails
  /\ EnterChain(n)
  /\ \E k \in 0..(ChainCount(n) - 1) :
       FailAfter(ChainTape, ChainStart, pushed + n, k)
  /\ phase' = "error"

\* Mutant: the flush forgets a final short sector.
FullFlushCount == Available \div Capacity

(* Sectors enc_flush() writes: whatever the adapter holds, the last one    *)
(* short if need be.  write_eor() comes after them.                        *)
FlushCount == (Available + Capacity - 1) \div Capacity
FlushTaken == TakenAfter(FlushCount, pushed)
FlushTape  == tape \o DataSectors(sectorNumber, pushed, FlushCount)

\* Mutant: the EOR mark reuses the number of the last data sector.
StaleEorSectors(n) ==
  [i \in 1..n |-> Sector(rec, sectorNumber + FlushCount - 1, FlushTaken, 0)]

\* Mutant: the EOR mark is a single sector.
LoneEorSectors(n) ==
  [i \in 1..(n - EorLength + 1) |->
     Sector(rec, sectorNumber + FlushCount, FlushTaken, 0)]

EorSectors(n) ==
  [i \in 1..n |-> Sector(rec, sectorNumber + FlushCount, FlushTaken, 0)]

EnterEos ==
  /\ phase \in {"open", "error"}
  /\ UNCHANGED <<rec, format, pushed>>

(* enc_event(EOS), every sector accepted.  A source sends it at the end of *)
(* the stream, and after a fatal flow return.                              *)
EncEos ==
  /\ EnterEos
  /\ format
  /\ tape' = FlushTape \o EorSectors(EorLength)
  /\ sectorNumber' = sectorNumber + FlushCount
  /\ taken' = FlushTaken
  /\ phase' = "done"

(* Without a buffer there were no caps: write_empty_sectors() finds no     *)
(* format and the EOS event is dropped.                                    *)
EncEosNotNegotiated ==
  /\ EnterEos
  /\ ~format
  /\ phase' = "broken"
  /\ UNCHANGED <<sectorNumber, taken, tape>>

(* The flush fails: the EOS event is dropped.                              *)
EncEosFlushFails ==
  /\ DownstreamFails
  /\ EnterEos
  /\ format
  /\ \E k \in 0..(FlushCount - 1) : FailAfter(tape, sectorNumber, pushed, k)
  /\ phase' = "broken"

(* The EOR mark fails after k of its sectors: the EOS event is dropped.    *)
EncEosMarkFails ==
  /\ DownstreamFails
  /\ EnterEos
  /\ format
  /\ \E k \in 0..(EorLength - 1) : tape' = FlushTape \o EorSectors(k)
  /\ sectorNumber' = sectorNumber + FlushCount
  /\ taken' = FlushTaken
  /\ phase' = "broken"

(* External: the recording program dies (only SIGINT makes it send EOS).   *)
Kill ==
  /\ MayBeKilled
  /\ phase \in {"created", "open", "error"}
  /\ phase' = "broken"
  /\ UNCHANGED <<rec, sectorNumber, format, pushed, taken, tape>>

EncNext ==
  \/ NewRecording
  \/ EncNewSegment
  \/ \E n \in 1..MaxBytes :
       EncChain(n) \/ EncChainBorFails(n) \/ EncChainDataFails(n)
  \/ EncEos
  \/ EncEosNotNegotiated
  \/ EncEosFlushFails
  \/ EncEosMarkFails
  \/ Kill

EncSpec == EncInit /\ [][EncNext]_encVars

-----------------------------------------------------------------------------
EncTypeOK ==
  /\ phase \in {"idle", "created", "open", "error", "done", "broken"}
  /\ rec \in Nat
  /\ sectorNumber \in Int
  /\ format \in BOOLEAN
  /\ pushed \in Nat
  /\ taken \in Nat
  /\ tape \in Seq(SectorType)

(* The number is the identity of a sector: within one recording, sectors   *)
(* with the same number carry the same bytes.  The decoder drops a sector  *)
(* whose number it has seen as a repeat, which is right only under this.   *)
NumberIdentifiesPayload ==
  \A i, j \in DOMAIN tape :
    (/\ tape[i].rec = tape[j].rec
     /\ tape[i].number = tape[j].number
     /\ tape[i].number >= 0)
      => tape[i].first = tape[j].first /\ tape[i].size = tape[j].size

(* Sectors with consecutive numbers carry adjacent bytes: a sector that    *)
(* was cut from the stream and lost on its way to the tape has used up a   *)
(* number, so the hole shows.  Sector 0 starts the recording.              *)
LossShowsAsGap ==
  /\ \A i, j \in DOMAIN tape :
       (/\ tape[i].rec = tape[j].rec
        /\ tape[i].number >= 0
        /\ tape[j].number = tape[i].number + 1)
         => tape[j].first = tape[i].first + tape[i].size
  /\ \A i \in DOMAIN tape : tape[i].number = 0 => tape[i].first = 0

(* The end-of-record mark stands after all the bytes the encoder was       *)
(* given: no byte stays behind in the adapter, whatever failed on the way. *)
EorIsAfterTheLastByte ==
  \A i \in DOMAIN tape :
    (IsEor(tape[i]) /\ tape[i].rec = rec) => tape[i].first = pushed
=============================================================================

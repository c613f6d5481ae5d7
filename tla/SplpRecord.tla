------------------------------ MODULE SplpRecord ------------------------------
(***************************************************************************)
(* The encoder, a tape and the decoder: recordings are made one after the  *)
(* other on the tape, then the tape is played from its start.              *)
(*                                                                         *)
(* The tape stands for all that lies between the two elements: modulator,  *)
(* frame synchroniser, driver, card and VCR.  On the way out of it a       *)
(* sector may be missed (no sync, or the ring buffer overran), found       *)
(* damaged, or repeated together with its predecessors: an underrun while  *)
(* recording makes the hardware send the contents of the ring again.       *)
(***************************************************************************)
EXTENDS SplpEncoder, SplpDecoder

CONSTANTS
  MaxFaults  \* bound: sectors missed, damaged, or runs repeated, in one playback

ASSUME FaultAssumption == MaxFaults \in Nat

VARIABLES
  playing,   \* the tape is being played
  head,      \* next sector to come off the tape
  faults,    \* faults the tape has made
  replays,   \* how many of them were repeats
  dataFaults \* how many hit a sector with data

tapeVars == <<playing, head, faults, replays, dataFaults>>
vars == <<encVars, decVars, tapeVars>>

Init ==
  /\ EncInit
  /\ DecInit
  /\ playing = FALSE
  /\ head = 1
  /\ faults = 0
  /\ replays = 0
  /\ dataFaults = 0

Recording == ~playing /\ EncNext /\ UNCHANGED <<decVars, tapeVars>>

(* The last recording has ended, one way or the other.                     *)
Rewind ==
  /\ ~playing
  /\ phase \in {"done", "broken"}
  /\ playing' = TRUE
  /\ UNCHANGED <<encVars, decVars, head, faults, replays, dataFaults>>

(* External: a source pauses for good when a buffer it pushed returned     *)
(* anything but GST_FLOW_OK.                                               *)
Running == playing /\ ~halted /\ head <= Len(tape)

Fault ==
  /\ faults < MaxFaults
  /\ faults' = faults + 1
  /\ dataFaults' = dataFaults + (IF IsData(tape[head]) THEN 1 ELSE 0)

PlayGood ==
  /\ Running
  /\ DecChain(tape[head], "none")
  /\ head' = head + 1
  /\ UNCHANGED <<encVars, playing, faults, replays, dataFaults>>

PlayDamaged ==
  /\ Running
  /\ Fault
  /\ \E damage \in Damages \ {"none"} : DecChain(tape[head], damage)
  /\ head' = head + 1
  /\ UNCHANGED <<encVars, playing, replays>>

Miss ==
  /\ Running
  /\ Fault
  /\ head' = head + 1
  /\ UNCHANGED <<encVars, decVars, playing, replays>>

Repeat ==
  /\ Running
  /\ faults < MaxFaults
  /\ faults' = faults + 1
  /\ replays' = replays + 1
  /\ head' \in 1..(head - 1)
  /\ UNCHANGED <<encVars, decVars, playing, dataFaults>>

Playback == PlayGood \/ PlayDamaged \/ Miss \/ Repeat

Next == Recording \/ Rewind \/ Playback

Spec == Init /\ [][Next]_vars

(* The streaming thread keeps reading the tape while it turns.             *)
FairSpec == Spec /\ WF_vars(Playback)

-----------------------------------------------------------------------------
TypeOK ==
  /\ EncTypeOK
  /\ DecTypeOK
  /\ playing \in BOOLEAN
  /\ head \in Nat \ {0}
  /\ faults \in Nat
  /\ replays \in Nat
  /\ dataFaults \in Nat

(* An EOS event is sent only when every byte the encoder was given has     *)
(* been delivered: a sector lost before the end, on the tape or on its way *)
(* to it, stops the playback instead of shortening the file.               *)
EosMeansComplete == eosSeen => sunk = pushed

(* No splice: playback does not run from one recording into the next when  *)
(* the first was ended with an EOR mark and fewer sectors are lost than    *)
(* the mark has.                                                           *)
OneRecordingDelivered ==
  \A i, j \in DOMAIN delivered : delivered[i].rec = delivered[j].rec

(* A burst of repeated sectors is counted once, so that the statistic      *)
(* tells the number of underruns.                                          *)
DuplicateRunsAreUnderruns == duplicateRuns <= replays

(* Marks are repeated so that some of their sectors may be lost: the end   *)
(* is announced when the recording is complete on the tape, the data was   *)
(* read without a fault, and not all of the EOR mark was lost.             *)
EosDespiteFaults ==
  (playing /\ phase = "done") ~> (eosSeen \/ dataFaults > 0 \/ faults >= EorLength)

(* An EOS event comes from an end-of-record sector and nothing else.       *)
EosOnlyAtEor == eosSeen => IsEor(tape[head - 1])

-----------------------------------------------------------------------------
(* What the peer was given, piece by piece: which bytes of the recording    *)
(* each buffer holds.                                                      *)
Pieces == [i \in DOMAIN delivered |->
             [first |-> delivered[i].first, size |-> delivered[i].size]]

(* The file transfer the recording implements.  Each piece has the place   *)
(* its bytes were cut from, and the bytes read are counted by the sizes    *)
(* the decoder took them to have: a buffer with other bytes of the         *)
(* recording, with bytes already delivered or of another length than the   *)
(* decoder believes is no step of the transfer.                            *)
Transfer == INSTANCE RecordTransfer WITH
  Total  <- 0..MaxBytes,
  length <- pushed,
  pieces <- Pieces,
  got    <- sunk,
  ended  <- eosSeen

ImplementsTransfer == Transfer!Spec
=============================================================================

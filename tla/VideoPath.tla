------------------------------ MODULE VideoPath ------------------------------
(***************************************************************************)
(* The field codec with what it is there for: a recording is made, and     *)
(* then either played back from a tape that has lost, changed or inserted  *)
(* bytes and is read in buffers of any size (bkr_framedec), or shown on    *)
(* the screen as it was written (bkr_video_out).                           *)
(*                                                                         *)
(* In the programs the two are separate processes: both pipelines of       *)
(* bkrencode.c begin with an fdsrc and end in an fdsink, and that of       *)
(* bkrvideo begins with an fdsrc.  So the stream is a queue with one       *)
(* writer and one reader, nothing comes back through it, and recording     *)
(* everything before reading any of it loses no behaviour of either.  A    *)
(* pipeline that links the elements directly is not covered: there what    *)
(* became of an image, or of the data of a field, comes back as the result *)
(* of the gst_pad_push() of enc_chain().                                   *)
(***************************************************************************)
EXTENDS FrameDecoder, VideoOut

CONSTANT MaxWear  \* bound: bytes the tape damages

(* Some of the key has to be seen, and the tables of the field codec and   *)
(* of the screen agree, as FitsIn of Formats has it.                       *)
ASSUME VideoPathAssumption ==
  /\ MaxWear \in Nat
  /\ \A caps \in DOMAIN FrameFormats :
       LET f == FrameFormats[caps]
       IN  /\ Threshold(f) > 0
           /\ VideoFormats[caps].height * VideoFormats[caps].bytes_per_line = f.field_size
           /\ VideoFormats[caps].interlace * VideoFormats[caps].bytes_per_line = f.interlace

VARIABLES
  sink,   \* external: where the stream goes
  phase,  \* external: "record", then "play"
  worn    \* external: bytes the tape damaged

pathVars == <<sink, phase, worn>>
vars == <<encVars, budgets, decVars, voVars, pathVars>>

Init ==
  /\ EncInit
  /\ DecInit
  /\ VoInit
  /\ sink \in {"tape", "screen"}
  /\ sink = "tape" => mode = CHOOSE m \in DOMAIN VideoFormats : TRUE
  /\ sink = "screen" => ~injecting
  /\ phase = "record"
  /\ worn = 0

(* The screen does not look at the bytes, so what is shown on it needs no  *)
(* data that looks like the key.                                           *)
Record ==
  /\ phase = "record"
  /\ EncNext
  /\ sink = "screen" => falseKeys' = 0
  /\ UNCHANGED <<decVars, voVars, pathVars>>

Rewind ==
  /\ phase = "record"
  /\ phase' = "play"
  /\ UNCHANGED <<encVars, budgets, decVars, voVars, sink, worn>>

-----------------------------------------------------------------------------
(* External: the tape, between recording and playing.  The noise injector  *)
(* is there to stand in for it.                                            *)
Wear ==
  /\ sink = "tape" /\ phase = "play" /\ decCaps = OtherCaps /\ ~injecting
  /\ worn < MaxWear /\ worn' = worn + 1
  /\ Trouble
  /\ UNCHANGED <<encCaps, encFormat, oddField, injecting, sent, decVars, voVars,
                 sink, phase>>

FalseByte(b) == IF b[1] = "key" THEN 1 ELSE 0

Harm(fields) == damaged' = damaged \union fields

(* A byte is read as another one.                                          *)
CorruptByte(i) ==
  /\ \E b \in NoiseBytes(FormatOf(link[i].caps)) \ {link[i].byte} :
       /\ Accident(FalseByte(b))
       /\ link' = [link EXCEPT ![i].byte = b]
  /\ Harm(IF link[i].active THEN {link[i].field} ELSE {})

(* A byte is lost.                                                         *)
LoseByte(i) ==
  /\ link' = SubSeq(link, 1, i - 1) \o SubSeq(link, i + 1, Len(link))
  /\ Harm(IF link[i].active THEN {link[i].field} ELSE {})
  /\ UNCHANGED falseKeys

(* A byte is read that was not written, behind byte i: it harms the field  *)
(* when it has active bytes of it on both sides.                           *)
InsertByte(i) ==
  /\ \E b \in NoiseBytes(FormatOf(link[i].caps)) :
       /\ Accident(FalseByte(b))
       /\ link' = SubSeq(link, 1, i)
                    \o <<[link[i] EXCEPT !.byte = b,
                            !.active = @ /\ i < Len(link) /\ link[i + 1].active]>>
                    \o SubSeq(link, i + 1, Len(link))
  /\ Harm(IF link[i].active /\ i < Len(link) /\ link[i + 1].active
          THEN {link[i].field} ELSE {})

Damage == Wear /\ \E i \in DOMAIN link :
                    CorruptByte(i) \/ LoseByte(i) \/ InsertByte(i)

-----------------------------------------------------------------------------
Play ==
  /\ sink = "tape" /\ phase = "play"
  /\ DecNext
  /\ UNCHANGED <<encCaps, encFormat, oddField, injecting, sent, damaged, falseKeys,
                 voVars, pathVars>>

Show ==
  /\ sink = "screen" /\ phase = "play"
  /\ VoNext
  /\ UNCHANGED <<encCaps, encFormat, oddField, injecting, sent, damaged, falseKeys,
                 decVars, pathVars>>

Next == Record \/ Rewind \/ Damage \/ Play \/ Show

Spec == Init /\ [][Next]_vars

-----------------------------------------------------------------------------
TypeOK ==
  /\ EncTypeOK
  /\ DecTypeOK
  /\ VoTypeOK
  /\ sink \in {"tape", "screen"}
  /\ phase \in {"record", "play"}
  /\ worn \in 0..MaxWear

(* A field whose active region came through whole is found and passed on   *)
(* with exactly its data, wherever the buffers were cut, whatever became   *)
(* of the fields next to it, and even if its data was refused a buffer     *)
(* once: damage to one field never costs another one, and a key byte among *)
(* the data, or a change of caps, does not mislead the search.  Only a     *)
(* field that was refused a buffer and then overtaken by other caps may.   *)
CleanFieldsAreDelivered ==
  (/\ sink = "tape" /\ phase = "play"
   /\ link = <<>> /\ ~inChain /\ ~stranded /\ decFormat # "crashed"
   /\ decCaps # OtherCaps => Keyed(DecFormat) = {})
    => \A n \in DOMAIN sent \ (damaged \union refused) :
         \E i \in DOMAIN out :
           /\ out[i].field = n
           /\ out[i].caps = sent[n].caps
           /\ out[i].data = sent[n].data

(* What is passed on came from fields that were recorded, in their order,  *)
(* and no field is passed on twice: nothing between two fields, and no     *)
(* remains of a damaged one, is taken for one more.                        *)
OutputsAreFieldsInOrder ==
  \A i, j \in DOMAIN out : i < j => out[i].field < out[j].field

(* The image with number n is field n of the recording from its leader to  *)
(* its trailer: counting lines keeps step with the encoder's odd and even  *)
(* fields through refused fields and images, as long as the formats of the *)
(* two agree and no noise is injected.  They are shown in order.           *)
ImageIsOneField ==
  (/\ ~changed /\ ~injecting
   /\ \A n \in DOMAIN sent : sent[n].caps = mode)
    => \A i \in DOMAIN images :
         /\ images[i].number \in DOMAIN sent
         /\ images[i].bytes = EncodeField(FormatOf(mode), sent[images[i].number].data,
                                          images[i].number % 2)
         /\ i > 1 => images[i - 1].number < images[i].number
=============================================================================

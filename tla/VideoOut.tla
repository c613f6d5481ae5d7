------------------------------- MODULE VideoOut -------------------------------
(***************************************************************************)
(* bkr_video_out (src/codecs/bkr_video_out.c): draws the byte stream of a  *)
(* recording as the card would put it on the screen, one image for each    *)
(* video field.  It does not look for fields in the stream: it cuts it by  *)
(* counting, odd fields having the lines of the interlace more.            *)
(*                                                                         *)
(* The base class asks transform_size() how large the output will be,      *)
(* allocates it, calls transform(), and pushes the output unless           *)
(* transform() says it was dropped.                                        *)
(***************************************************************************)
EXTENDS FrameEncoder

CONSTANTS
  VideoFormats,  \* the rows of the format table: a function of the caps
  ScreenSizes    \* sizes of the buffers the stream comes in

ASSUME VideoAssumption ==
  /\ DOMAIN VideoFormats = DOMAIN FrameFormats
  /\ \A caps \in DOMAIN VideoFormats :
       LET v == VideoFormats[caps]
       IN  /\ {v.height, v.bytes_per_line} \subseteq Nat \ {0}
           /\ v.interlace \in Nat
  /\ ScreenSizes \subseteq Nat \ {0}

VARIABLES
  mode,         \* element->videomode and bitdensity: they choose the format
  screen,       \* element->adapter
  fieldNumber,  \* element->field_number
  inTransform,  \* transform() is in its loop
  announced,    \* what transform_size() answered: an image, or nothing
  images,       \* external: the images passed on
  changed       \* ghost: the mode was set after the stream had started

voVars == <<mode, screen, fieldNumber, inTransform, announced, images, changed>>

Video == VideoFormats[mode]

LinesInNextField == Video.height + (IF fieldNumber % 2 = 1 THEN Video.interlace ELSE 0)
LinesInTwoFields == 2 * Video.height + Video.interlace
NextFieldBytes   == LinesInNextField * Video.bytes_per_line
TwoFieldsBytes   == LinesInTwoFields * Video.bytes_per_line

\* Mutant: an image is announced only for two fields.
GreedyTransformSize(size) == Len(screen) + size >= TwoFieldsBytes

(* transform_size() for the sink: is there going to be an image?           *)
TransformSize(size) == Len(screen) + size >= NextFieldBytes

Image == [number |-> fieldNumber, bytes |-> SubSeq(screen, 1, NextFieldBytes)]
Drawn == SubSeq(screen, NextFieldBytes + 1, Len(screen))

-----------------------------------------------------------------------------
VoInit ==
  /\ mode \in DOMAIN VideoFormats
  /\ screen = <<>>
  /\ fieldNumber = 1
  /\ inTransform = FALSE
  /\ announced = FALSE
  /\ images = <<>>
  /\ changed = FALSE

(* A buffer of any size arrives: its output is sized, then it is put into  *)
(* the adapter.                                                            *)
Transform ==
  /\ ~inTransform
  /\ \E n \in {k \in 1..Len(link) : k \in ScreenSizes \/ k = Len(link)} :
       /\ announced' = TransformSize(n)
       /\ screen' = screen \o [i \in 1..n |-> link[i].byte]
       /\ link' = SubSeq(link, n + 1, Len(link))
  /\ inTransform' = TRUE
  /\ UNCHANGED <<mode, fieldNumber, images, changed, troubles>>

(* The loop: more than one image can be made, all but the last one are     *)
(* pushed by transform() itself.                                           *)
BonusField ==
  /\ inTransform
  /\ Len(screen) >= TwoFieldsBytes
  /\ images' = Append(images, Image)
  /\ screen' = Drawn
  /\ fieldNumber' = fieldNumber + 1
  /\ UNCHANGED <<mode, inTransform, announced, changed, link, troubles>>

(* No buffer for a bonus image, or the peer refuses it: transform() fails  *)
(* with the bytes still in the adapter, to be drawn next time.             *)
BonusFieldFails ==
  /\ inTransform
  /\ Len(screen) >= TwoFieldsBytes
  /\ Trouble
  /\ inTransform' = FALSE
  /\ UNCHANGED <<mode, screen, fieldNumber, announced, images, changed, link>>

(* After the loop, less than one field: the output is dropped.             *)
DropOutput ==
  /\ inTransform
  /\ Len(screen) < NextFieldBytes
  /\ inTransform' = FALSE
  /\ UNCHANGED <<mode, screen, fieldNumber, announced, images, changed, link, troubles>>

(* After the loop, one field: it is drawn into the output, which the base  *)
(* class then pushes, with or without success.                             *)
LastField(taken) ==
  /\ inTransform
  /\ Len(screen) < TwoFieldsBytes
  /\ Len(screen) >= NextFieldBytes
  /\ images' = IF taken THEN Append(images, Image) ELSE images
  /\ IF taken THEN UNCHANGED troubles ELSE Trouble
  /\ screen' = Drawn
  /\ fieldNumber' = fieldNumber + 1
  /\ inTransform' = FALSE
  /\ UNCHANGED <<mode, announced, changed, link>>

(* set_property(): a new format at once, whatever is in the adapter.       *)
(* transform() does not take the lock of the object.                       *)
Reconfigure ==
  /\ \E m \in DOMAIN VideoFormats \ {mode} : mode' = m
  /\ ~changed
  /\ changed' = TRUE
  /\ UNCHANGED <<screen, fieldNumber, inTransform, announced, images, link, troubles>>

VoNext ==
  \/ Transform
  \/ BonusField
  \/ BonusFieldFails
  \/ DropOutput
  \/ LastField(TRUE)
  \/ LastField(FALSE)
  \/ Reconfigure

-----------------------------------------------------------------------------
VoTypeOK ==
  /\ mode \in DOMAIN VideoFormats
  /\ \A i \in DOMAIN screen : screen[i][1] \in
       {"data", "key", "leader", "trailer", "noise"}
  /\ fieldNumber \in Nat \ {0}
  /\ {inTransform, announced, changed} \subseteq BOOLEAN
  /\ \A i \in DOMAIN images : images[i].number \in 1..(fieldNumber - 1)

(* The buffer the base class allocates after transform_size() is the one   *)
(* transform() draws into or drops, however many bonus images it makes in  *)
(* between: as long as the mode is not set, an image was announced exactly *)
(* when there is a field left to draw.                                     *)
OutputIsAnnounced ==
  inTransform /\ ~changed => announced = (Len(screen) >= NextFieldBytes)
=============================================================================

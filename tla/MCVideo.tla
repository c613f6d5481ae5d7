------------------------------- MODULE MCVideo -------------------------------
(* A small instance of VideoPath: a format with an interlace (NTSC) and    *)
(* one without (PAL), whose fields are whole lines of the screen.          *)
EXTENDS VideoPath

(* The search is a statistical one: enough bytes that look like the key    *)
(* are a field, wherever they come from, and a field that lost more bytes  *)
(* than stand between two fields is found over the start of the next one.  *)
(* What the run says of the search is said of fewer troubles than that.    *)
ASSUME MCBounds ==
  \A caps \in DOMAIN FrameFormats :
    LET f == FrameFormats[caps]
    IN  /\ MaxTroubles <= f.leader + f.trailer
        /\ MaxFalse < Threshold(f)
        /\ GapsAreShort(f)

MCFrameFormats == [ntsc |-> FrameRow(10, 2, 1, 1, 8, 3, 3),
                   pal  |-> FrameRow(7, 0, 1, 1, 5, 2, 3)]

MCVideoFormats == [ntsc |-> [bytes_per_line |-> 2, height |-> 5, interlace |-> 1],
                   pal  |-> [bytes_per_line |-> 7, height |-> 1, interlace |-> 0]]
=============================================================================

----------------------------- MODULE ParportStream -----------------------------
(***************************************************************************)
(* The data stream of the parallel-port driver (src/drivers/bkr_parport.c) *)
(* and the card behind it.  DMA moves one frame at a time between the card *)
(* and a ring of whole frames; the interrupt at the end of a frame counts  *)
(* it into the ring, or out of it, and starts the next.                    *)
(*                                                                         *)
(* A byte in the ring is a stamp: the number of the byte written, or of    *)
(* the byte that came off the tape.  Zeros and fillers are stamp 0.        *)
(***************************************************************************)
EXTENDS Ring

CONSTANTS
  Frame,    \* bytes in a frame (stream->frame_size)
  Frames,   \* frames in the ring
  MaxTape,  \* bound: bytes that come off the tape
  MayStall  \* whether the card may stop in the middle of a transfer

ASSUME StreamAssumption ==
  /\ Frame \in Nat \ {0}
  /\ Frames \in Nat \ {0, 1}
  /\ MaxTape \in Nat
  /\ MayStall \in BOOLEAN

VARIABLES
  ring,      \* stream->ring, offsets only
  contents,  \* the DMA buffer, as stamps
  direction, \* stream->direction
  irqFunc,   \* private->dev->irq_func: bkr_parport_first_irq or _irq
  late,      \* check_for_timeout() would say so
  hw,        \* external: what the card and the DMA channel do
  stalled,   \* external: they have stopped in the middle of it
  dma,       \* external: where the frame in flight starts
  moved,     \* external: how many of its bytes were moved
  tapeBytes, \* external: bytes that came off the tape
  sent,      \* ghost: written bytes 1..sent went to the tape, in order
  short,     \* ghost: the frame in flight was not all there when it started
  underran,  \* ghost: such a frame was drained
  overran    \* ghost: a frame was started over bytes not yet read

driverVars == <<ring, contents, direction, irqFunc, late>>
cardVars   == <<hw, stalled, dma, moved, tapeBytes, sent>>
slipVars   == <<short, underran, overran>>
streamVars == <<driverVars, cardVars, slipVars>>

Directions == {"stopped", "reading", "writing"}
Size       == Frame * Frames

\* An offset that is not aligned lets DMA run past the end of the ring.
Places == 0..(Size + Frame - 2)

EmptyRing == [size |-> Size, head |-> 0, tail |-> 0]
Blank     == [place \in Places |-> 0]

StreamInit ==
  /\ ring = EmptyRing
  /\ contents = Blank
  /\ direction = "stopped"
  /\ irqFunc = "first"
  /\ late = FALSE
  /\ hw = "off"
  /\ stalled = FALSE
  /\ dma = 0
  /\ moved = 0
  /\ tapeBytes = 0
  /\ sent = 0
  /\ short = FALSE
  /\ underran = FALSE
  /\ overran = FALSE

-----------------------------------------------------------------------------
(* What a new transfer of a frame does to the ghosts, with the ring as r.  *)
FrameStarts(r, dir) ==
  /\ short' = (dir = "writing" /\ BytesInRing(r) < Frame)
  /\ overran' = (overran \/ (dir = "reading" /\ SpaceInRing(r) < Frame))

(* ready(): the driver's side is reset, the card is left as it is.         *)
Ready ==
  /\ direction' = "stopped"
  /\ ring' = EmptyRing
  /\ contents' = Blank
  /\ tapeBytes' = 0
  /\ sent' = 0
  /\ short' = FALSE
  /\ underran' = FALSE
  /\ overran' = FALSE
  /\ UNCHANGED <<irqFunc, late, hw, stalled, dma, moved>>

(* start(): the DMA channel is set to the start of the buffer, wherever    *)
(* the ring stands.  parport_claim() lets the owner of the port pass.      *)
Start(dir) ==
  /\ direction' = dir
  /\ hw' = dir
  /\ stalled' = FALSE
  /\ dma' = 0
  /\ moved' = 0
  /\ late' = FALSE
  /\ FrameStarts(ring, dir)
  /\ UNCHANGED <<ring, contents, irqFunc, tapeBytes, sent, underran>>

(* The part of release() that stops the transfer. *)
Stop ==
  /\ direction' = "stopped"
  /\ irqFunc' = "first"
  /\ hw' = "off"
  /\ stalled' = FALSE
  /\ moved' = 0
  /\ UNCHANGED <<late, dma, tapeBytes, sent, slipVars>>

-----------------------------------------------------------------------------
(* External: one byte crosses between the card and the buffer.             *)
Byte == contents[dma + moved]

Transfers == hw # "off" /\ ~stalled

MoveByte ==
  /\ Transfers
  /\ moved < Frame
  /\ moved' = moved + 1
  /\ \/ /\ hw = "reading"
        /\ tapeBytes < MaxTape
        /\ tapeBytes' = tapeBytes + 1
        /\ contents' = [contents EXCEPT ![dma + moved] = tapeBytes + 1]
        /\ UNCHANGED sent
     \/ /\ hw = "writing"
        /\ sent' = IF Byte = sent + 1 THEN Byte ELSE sent
        /\ UNCHANGED <<contents, tapeBytes>>
  /\ UNCHANGED <<ring, direction, irqFunc, late, hw, stalled, dma, slipVars>>

(* External: the interrupt at the end of a frame.                          *)
Interrupts == Transfers /\ moved = Frame

(* bkr_parport_first_irq(): the first frame is transferred again.  The DMA *)
(* channel initialises itself with the address it was given.               *)
FirstIrq ==
  /\ Interrupts
  /\ irqFunc = "first"
  /\ irqFunc' = "irq"
  /\ late' = FALSE
  /\ moved' = 0
  /\ FrameStarts(ring, direction)
  /\ UNCHANGED <<ring, contents, direction, hw, stalled, dma, tapeBytes, sent, underran>>

\* Mutant: DMA is pointed at the frame that was just read.
StaleIrqFill ==
  /\ direction = "reading"
  /\ ring' = RingFill(ring, Frame)
  /\ dma' = ring.head
  /\ UNCHANGED underran

(* bkr_parport_irq() while reading. *)
IrqFill ==
  /\ direction = "reading"
  /\ ring' = RingFill(ring, Frame)
  /\ dma' = ring'.head
  /\ UNCHANGED underran

(* bkr_parport_irq() while writing.  Nothing asks whether there is a frame *)
(* to drain.                                                               *)
IrqDrain ==
  /\ direction = "writing"
  /\ ring' = RingDrain(ring, Frame)
  /\ dma' = ring'.tail
  /\ underran' = (underran \/ short)

(* bkr_parport_irq(), up to the callback. *)
Irq ==
  /\ Interrupts
  /\ irqFunc = "irq"
  /\ IrqFill \/ IrqDrain
  /\ late' = FALSE
  /\ moved' = 0
  /\ FrameStarts(ring', direction)
  /\ UNCHANGED <<contents, direction, irqFunc, hw, stalled, tapeBytes, sent>>

(* bkr_parport_irq() when the stream was stopped: the port is not told to  *)
(* go on.                                                                  *)
IrqStopped ==
  /\ Interrupts
  /\ irqFunc = "irq"
  /\ direction = "stopped"
  /\ stalled' = TRUE
  /\ UNCHANGED <<driverVars, hw, dma, moved, tapeBytes, sent, slipVars>>

(* External: the card stops, its cable is pulled.                          *)
Stall ==
  /\ MayStall
  /\ Transfers
  /\ stalled' = TRUE
  /\ UNCHANGED <<driverVars, hw, dma, moved, tapeBytes, sent, slipVars>>

(* No interrupt will come any more. *)
Quiet == ~Transfers \/ (hw = "reading" /\ moved < Frame /\ tapeBytes = MaxTape)

(* External: BKR_PARPORT_TIMEOUT passes since the last interrupt, which is *)
(* 30 frames long: it does not pass while the card is working.             *)
BecomeLate ==
  /\ Quiet
  /\ direction # "stopped"
  /\ ~late
  /\ late' = TRUE
  /\ UNCHANGED <<ring, contents, direction, irqFunc, cardVars, slipVars>>

StreamTypeOK ==
  /\ ring \in RingType(Size)
  /\ contents \in [Places -> Nat]
  /\ direction \in Directions
  /\ irqFunc \in {"first", "irq"}
  /\ late \in BOOLEAN
  /\ hw \in {"off", "reading", "writing"}
  /\ stalled \in BOOLEAN
  /\ dma \in 0..(Size - 1)
  /\ moved \in 0..Frame
  /\ tapeBytes \in 0..MaxTape
  /\ sent \in Nat
  /\ short \in BOOLEAN
  /\ underran \in BOOLEAN
  /\ overran \in BOOLEAN
=============================================================================

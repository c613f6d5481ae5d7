------------------------------- MODULE BkrDevice -------------------------------
(***************************************************************************)
(* The character device of a unit (src/drivers/bkr_main.c) on the stream   *)
(* of the parallel-port driver: one program opens the device, reads or     *)
(* writes, and closes it, while interrupts move frames under it.           *)
(*                                                                         *)
(* The steps of read() and write() are those the ring's lock makes: the    *)
(* amount that can be moved is looked up under it, and the bytes are       *)
(* copied under it again; an interrupt may come in between.  Between the   *)
(* look and falling asleep nothing is held either: interruptible_sleep_on  *)
(* misses a wake-up that comes then; poll() does not.                      *)
(***************************************************************************)
EXTENDS ParportStream, Sequences

CONSTANTS
  Transferring, \* directions the program uses
  Promptness,   \* values "prompt" may have
  MayTurn,      \* whether it uses both on one open file
  NonBlocking,  \* values O_NONBLOCK may have
  Signals,      \* whether it may be sent a signal
  MaxCall,      \* bound: bytes asked for in one call
  MaxWritten    \* bound: bytes written to one open file

ASSUME DeviceAssumption ==
  /\ Transferring \subseteq {"reading", "writing"}
  /\ Promptness \subseteq BOOLEAN
  /\ MayTurn \in BOOLEAN
  /\ NonBlocking \subseteq BOOLEAN
  /\ Signals \in BOOLEAN
  /\ MaxCall \in Nat
  /\ MaxWritten \in Nat

VARIABLES
  pc,        \* where the program is
  fOp,       \* filp->f_op, by the direction of its operations
  nonblock,  \* filp->f_flags
  lastError, \* unit->last_error is not 0
  count,     \* bytes the call has still to move
  movedSoFar,\* "moved" of the call
  chunkSize, \* chunk_size
  written,   \* ghost: bytes copied into the ring since open()
  got,       \* ghost: stamps of the bytes copied out of it
  reported,  \* ghost: sum of the counts read() and write() returned
  abandoned, \* ghost: the last close() gave up
  polled,    \* ghost: poll() said that the next call in fOp can move bytes
  prompt     \* external: the machine is fast, see Interrupt

fileVars == <<fOp, nonblock, lastError, abandoned, prompt, polled>>
callVars == <<count, movedSoFar, chunkSize>>
dataVars == <<written, got, reported>>
vars     == <<streamVars, pc, fileVars, callVars, dataVars>>

Init ==
  /\ StreamInit
  /\ pc = "closed"
  /\ fOp = "stopped"
  /\ nonblock = FALSE
  /\ lastError = FALSE
  /\ count = 0
  /\ movedSoFar = 0
  /\ chunkSize = 0
  /\ written = 0
  /\ got = <<>>
  /\ reported = 0
  /\ abandoned = FALSE
  /\ polled = FALSE
  /\ prompt \in Promptness

-----------------------------------------------------------------------------
(* open() *)
Open ==
  /\ pc = "closed"
  /\ Ready
  /\ pc' = "idle"
  /\ fOp' = "stopped"
  /\ nonblock' \in NonBlocking
  /\ lastError' = FALSE
  /\ written' = 0
  /\ got' = <<>>
  /\ reported' = 0
  /\ abandoned' = FALSE
  /\ polled' = FALSE
  /\ UNCHANGED <<prompt, callVars>>

(* The call ends after it moved n bytes.                                   *)
Return(n) == pc' = "idle" /\ reported' = reported + n

(* Entry of read() or write(), through start_read() or start_write() if    *)
(* the file is not yet transferring in that direction.  A pending error is *)
(* returned instead of data.                                               *)
Call(dir, n) ==
  /\ pc = "idle"
  /\ fOp \in {"stopped", dir} \/ MayTurn
  /\ dir = "writing" => written + n <= MaxWritten
  /\ fOp' = dir
  /\ IF fOp = dir THEN UNCHANGED streamVars ELSE Start(dir)
  /\ lastError' = FALSE
  /\ pc' = IF lastError THEN "idle" ELSE "look"
  /\ count' = n
  /\ movedSoFar' = 0
  /\ chunkSize' = 0
  /\ polled' = (polled /\ fOp = dir)
  /\ UNCHANGED <<nonblock, abandoned, prompt, dataVars>>

Movable == IF fOp = "writing" THEN SpaceInRing(ring) ELSE BytesInRing(ring)

\* Mutant: the error is returned though bytes were moved.
ForgetfulLookLate ==
  /\ pc = "look"
  /\ late
  /\ lastError' = FALSE
  /\ Return(0)
  /\ polled' = FALSE
  /\ UNCHANGED <<streamVars, fOp, nonblock, abandoned, prompt, callVars, written, got>>

(* stream->ops.read() and write() time out: an error, which is put off to  *)
(* the next call if this one has moved bytes.                              *)
LookLate ==
  /\ pc = "look"
  /\ late
  /\ lastError' = (movedSoFar > 0)
  /\ Return(movedSoFar)
  /\ polled' = FALSE
  /\ UNCHANGED <<streamVars, fOp, nonblock, abandoned, prompt, callVars, written, got>>

LookMovable ==
  /\ pc = "look"
  /\ ~late
  /\ Movable > 0
  /\ chunkSize' = IF count < Movable THEN count ELSE Movable
  /\ pc' = "copy"
  /\ polled' = FALSE
  /\ UNCHANGED <<streamVars, fOp, nonblock, lastError, abandoned, prompt, count,
                 movedSoFar, dataVars>>

(* -EAGAIN: a short count, an error, or sleep. *)
LookReturn ==
  /\ pc = "look"
  /\ ~late
  /\ Movable = 0
  /\ movedSoFar > 0 \/ nonblock
  /\ Return(movedSoFar)
  /\ UNCHANGED <<streamVars, fileVars, callVars, written, got>>

LookBlock ==
  /\ pc = "look"
  /\ ~late
  /\ Movable = 0
  /\ movedSoFar = 0
  /\ ~nonblock
  /\ pc' = "falling"
  /\ UNCHANGED <<streamVars, fileVars, callVars, dataVars>>

(* The chunk was the last of the call, or it looks for more.               *)
AfterCopy ==
  /\ movedSoFar' = movedSoFar + chunkSize
  /\ count' = count - chunkSize
  /\ IF count = chunkSize
       THEN Return(movedSoFar + chunkSize)
       ELSE pc' = "look" /\ UNCHANGED reported
  /\ UNCHANGED <<chunkSize, fileVars, cardVars, slipVars, direction, irqFunc, late>>

(* copy_to_user_from_ring() *)
CopyOut ==
  /\ pc = "copy"
  /\ fOp = "reading"
  /\ ring' = CopiedOut(ring, chunkSize)
  /\ got' = got \o [i \in 1..chunkSize |-> contents[CopyPlace(ring, ring.tail, i)]]
  /\ AfterCopy
  /\ UNCHANGED <<contents, written>>

(* copy_to_ring_from_user() *)
CopyIn ==
  /\ pc = "copy"
  /\ fOp = "writing"
  /\ ring' = CopiedIn(ring, chunkSize)
  /\ contents' = [place \in Places |->
       LET is == {i \in 1..chunkSize : CopyPlace(ring, ring.head, i) = place}
       IN  IF is = {} THEN contents[place] ELSE written + CHOOSE i \in is : TRUE]
  /\ written' = written + chunkSize
  /\ AfterCopy
  /\ UNCHANGED got

(* interruptible_sleep_on_timeout(), in read() and write() or in release() *)
Asleep(state) == IF state = "falling" THEN "asleep" ELSE "closeAsleep"

FallAsleep ==
  /\ pc \in {"falling", "closeFalling"}
  /\ pc' = Asleep(pc)
  /\ UNCHANGED <<streamVars, fileVars, callVars, dataVars>>

(* The sleep ends without a wake-up: -ETIMEDOUT or -EINTR. *)
SleepFails ==
  /\ pc = "asleep"
  /\ Return(0)
  /\ UNCHANGED <<streamVars, fileVars, callVars, written, got>>

-----------------------------------------------------------------------------
\* Mutant: the bytes in the ring are taken for its space, and the other way.
SwappedPollable ==
  \/ direction = "reading" /\ SpaceInRing(ring) > 0
  \/ direction = "writing" /\ BytesInRing(ring) > 0

Pollable ==
  \/ direction = "reading" /\ BytesInRing(ring) > 0
  \/ direction = "writing" /\ SpaceInRing(ring) > 0

(* poll().  The program is in the queue before it looks, so that it misses *)
(* no wake-up.  The time-out of the stream is not looked at, and nothing   *)
(* starts a transfer.                                                      *)
PollLook ==
  /\ pc' = IF Pollable \/ lastError THEN "idle" ELSE "polling"
  /\ polled' = (Pollable /\ ~lastError)
  /\ UNCHANGED <<streamVars, fOp, nonblock, lastError, abandoned, prompt, callVars, dataVars>>

Poll      == pc = "idle" /\ PollLook
PollAgain == pc = "pollAgain" /\ PollLook

(* The program is sent a signal, or gives up waiting. *)
PollFails ==
  /\ pc = "polling"
  /\ pc' = "idle"
  /\ UNCHANGED <<streamVars, fileVars, callVars, dataVars>>

-----------------------------------------------------------------------------
Close ==
  /\ pc = "idle"
  /\ pc' = "closing"
  /\ UNCHANGED <<streamVars, fileVars, callVars, dataVars>>

(* flush(): pad the ring to a whole frame if there is room.                *)
PadFits  == FillFits(ring, Frame)
PadSize  == IF PadFits THEN FillMissing(ring, Frame) ELSE 0
Padded   == CopiedIn(ring, PadSize)
PadBytes ==
  [place \in Places |->
     IF \E i \in 1..PadSize : CopyPlace(ring, ring.head, i) = place
       THEN 0 ELSE contents[place]]

\* Mutant: a last frame that is not full is left behind.
HastyFlushed == BytesInRing(ring) < Frame

Flushed  == PadFits /\ BytesInRing(Padded) = 0

(* release(): the stream's release() succeeds.                             *)
CloseDone ==
  /\ pc = "closing"
  /\ direction = "writing" => Flushed
  /\ ring' = IF direction = "writing" THEN Padded ELSE ring
  /\ contents' = IF direction = "writing" THEN PadBytes ELSE contents
  /\ IF direction = "stopped"
       THEN UNCHANGED <<direction, irqFunc, late, cardVars, slipVars>>
       ELSE Stop
  /\ pc' = "closed"
  /\ UNCHANGED <<fileVars, callVars, dataVars>>

(* release(): the stream's release() returns -EAGAIN. *)
CloseAgain ==
  /\ pc = "closing"
  /\ direction = "writing"
  /\ ~Flushed
  /\ ring' = Padded
  /\ contents' = PadBytes
  /\ pc' = "closeFalling"
  /\ UNCHANGED <<direction, irqFunc, late, cardVars, slipVars>>
  /\ UNCHANGED <<fileVars, callVars, dataVars>>

(* release() breaks off on a timeout or a signal: the unit is given back   *)
(* while the transfer goes on.                                             *)
CloseAbandon ==
  /\ pc = "closeAsleep"
  /\ pc' = "closed"
  /\ abandoned' = TRUE
  /\ UNCHANGED <<streamVars, fOp, nonblock, lastError, prompt, polled, callVars, dataVars>>

-----------------------------------------------------------------------------
\* Mutant: only a program in close() is woken.
PartialWake == pc' = IF pc = "closeAsleep" THEN "closing" ELSE pc

(* io_callback() *)
Wake == pc' = CASE pc = "asleep"      -> "look"
                [] pc = "closeAsleep" -> "closing"
                [] pc = "polling"     -> "pollAgain"
                [] OTHER              -> pc

(* The program sleeps, or is not in the driver.                            *)
Resting == pc \in {"closed", "idle", "asleep", "closeAsleep", "polling"}

(* The interrupt handlers.  On a fast machine a frame, 1/30 s, is longer   *)
(* than it takes the driver to find out what it can do and to do it.       *)
Interrupt ==
  /\ prompt => Resting
  /\ \/ Irq /\ Wake
     \/ (FirstIrq \/ IrqStopped) /\ UNCHANGED pc
  /\ UNCHANGED <<fileVars, callVars, dataVars>>

Card ==
  /\ MoveByte \/ Stall \/ BecomeLate
  /\ UNCHANGED <<pc, fileVars, callVars, dataVars>>

Program ==
  \/ LookLate \/ LookMovable \/ LookReturn \/ LookBlock
  \/ CopyOut \/ CopyIn
  \/ FallAsleep
  \/ PollAgain
  \/ CloseDone \/ CloseAgain

\* Mutant: read() and write() sleep without a time-out.
UntimedSleepTimeout == Quiet /\ CloseAbandon

(* External: stream->timeout passes in the sleep, or a signal ends it.     *)
SleepTimeout == Quiet /\ (SleepFails \/ CloseAbandon)
Signal       == Signals /\ (SleepFails \/ CloseAbandon \/ PollFails)

Next ==
  \/ Open
  \/ \E dir \in Transferring, n \in 0..MaxCall : Call(dir, n)
  \/ Poll
  \/ Close
  \/ Program
  \/ SleepTimeout
  \/ Signal
  \/ Interrupt
  \/ Card

Spec == Init /\ [][Next]_vars

(* A call runs on, the card delivers frames, and time passes.              *)
FairSpec ==
  /\ Spec
  /\ WF_vars(Program)
  /\ WF_vars(SleepTimeout)
  /\ WF_vars(Interrupt)
  /\ WF_vars(MoveByte /\ UNCHANGED <<pc, fileVars, callVars, dataVars>>)
  /\ WF_vars(BecomeLate /\ UNCHANGED <<pc, fileVars, callVars, dataVars>>)

-----------------------------------------------------------------------------
Pcs == {"closed", "idle", "look", "copy", "falling", "asleep", "closing",
        "closeFalling", "closeAsleep", "polling", "pollAgain"}

TypeOK ==
  /\ StreamTypeOK
  /\ pc \in Pcs
  /\ fOp \in Directions
  /\ nonblock \in BOOLEAN
  /\ lastError \in BOOLEAN
  /\ abandoned \in BOOLEAN
  /\ prompt \in BOOLEAN
  /\ polled \in BOOLEAN
  /\ count \in Nat
  /\ movedSoFar \in Nat
  /\ chunkSize \in Nat
  /\ written \in Nat
  /\ got \in Seq(Nat)
  /\ reported \in Nat

Pending ==
  {contents[CopyPlace(ring, ring.tail, i)] : i \in 1..BytesInRing(ring)}

(* A byte the program wrote is on the tape, where all the bytes written    *)
(* before it came off the ring earlier, or it is still in the ring: as     *)
(* long as no frame was drained that was not all there when DMA began with *)
(* it, DMA does not run past a byte.  What else is on the tape, fillers or *)
(* frames that were sent twice, this does not say.                         *)
WrittenIsSentOrPending ==
  ~underran => \A i \in (sent + 1)..written : i \in Pending

(* A close that did not give up has flushed all that was written, if the   *)
(* program was never late with a frame: UnderrunIsHarmless shows what      *)
(* becomes of a program that was.                                          *)
CloseFlushes == pc = "closed" /\ ~abandoned /\ ~underran => sent = written

(* The manuals: a program that is late does no harm but to repeat what is  *)
(* in the ring, and close() returns when all of it was flushed.            *)
UnderrunIsHarmless == pc = "closed" /\ ~abandoned => sent = written

(* What read() returns is what came off the tape, no byte twice and none   *)
(* left out, as long as no frame arrived over bytes not yet read.          *)
ReadIsConsecutive ==
  ~overran =>
    /\ \A i \in DOMAIN got : got[i] > 0
    /\ \A i \in 2..Len(got) : got[i] = got[i-1] + 1

(* Whatever errors come in between, the counts that calls returned add up  *)
(* to the bytes they moved.                                                *)
MovedIsReported == pc = "idle" => reported = written + Len(got)

(* When poll() said so, the next call in that direction moves bytes or     *)
(* finds the card late, but does not wait: interrupts in between only add  *)
(* to what can be moved, unless they overtook the program.                 *)
PolledCallsMove ==
  pc = "look" /\ polled /\ ~overran /\ ~underran => Movable > 0

(* On a fast machine every call returns, whether the card works or not:    *)
(* there are bytes, or there is room, or the card is late, or the ring is  *)
(* flushed.  Only poll() waits for as long as the card does nothing.       *)
FastCallsReturn ==
  prompt => (pc \notin {"idle", "closed"} ~>
               pc \in {"idle", "closed"} \/ (pc = "polling" /\ Quiet))

(* On any machine, a call that missed a wake-up between its look at the    *)
(* ring and its sleep is not left behind: the next interrupt or the        *)
(* time-out ends the sleep, and the call returns, unless the program is    *)
(* later than the whole ring.                                              *)
MissedWakesAreMadeUp ==
  pc \in {"look", "copy", "falling", "asleep"} ~> pc = "idle" \/ overran \/ underran

(* No call waits for ever, on either machine.                              *)
CallsReturn == FastCallsReturn /\ MissedWakesAreMadeUp
=============================================================================

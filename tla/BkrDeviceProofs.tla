---------------------------- MODULE BkrDeviceProofs ----------------------------
(***************************************************************************)
(* The device of any frame size and ring, under any traffic: the offsets   *)
(* never leave the ring, even when interrupts overtake the program, the    *)
(* counts that calls return account for every byte moved, and as long as   *)
(* nobody is late the bytes are the right ones.  First the                 *)
(* relations bkr_ring_buffer.h promises of space and bytes, and what the   *)
(* operations do to them, for rings of every size.                         *)
(***************************************************************************)
EXTENDS BkrDevice, TLAPS

LEMMA OffsetsTyped ==
  ASSUME NEW size \in Nat \ {0}, NEW r \in RingType(size)
  PROVE  /\ r.size = size
         /\ r.head \in 0..(size - 1) /\ r.tail \in 0..(size - 1)
BY DEF RingType

(* bkr_ring_buffer.h: space and bytes are both less than the size and add  *)
(* up to one less than the size; the ring is empty when the offsets meet.  *)
THEOREM SpaceAndBytes ==
  ASSUME NEW size \in Nat \ {0}, NEW r \in RingType(size)
  PROVE  /\ SpaceInRing(r) \in 0..(size - 1)
         /\ BytesInRing(r) \in 0..(size - 1)
         /\ SpaceInRing(r) + BytesInRing(r) = size - 1
         /\ BytesInRing(r) = 0 <=> r.head = r.tail
BY OffsetsTyped DEF SpaceInRing, BytesInRing, OffsetSub

(* The two ways of moving an offset agree, and stay inside the ring.       *)
THEOREM OneWayRound ==
  ASSUME NEW size \in Nat \ {0}, NEW r \in RingType(size),
         NEW offset \in 0..(size - 1), NEW n \in 0..size
  PROVE  /\ CopyOffset(r, offset, n) = OffsetInc(r, offset, n)
         /\ OffsetInc(r, offset, n) \in 0..(size - 1)
         /\ OffsetInc(r, offset, n) = (offset + n) % size
<1>1. r.size = size
  BY OffsetsTyped
<1>2. CopyOffset(r, offset, n) = OffsetInc(r, offset, n)
  BY <1>1 DEF CopyOffset, OffsetInc
<1>3. OffsetInc(r, offset, n) \in 0..(size - 1)
  BY <1>1 DEF OffsetInc
<1>4. OffsetInc(r, offset, n) = (offset + n) % size
  BY <1>1 DEF OffsetInc
<1>5. QED
  BY <1>2, <1>3, <1>4

(* Copying in what there is space for adds that much to the bytes, and     *)
(* copying out what there is takes it away.                                *)
THEOREM CopiesCount ==
  ASSUME NEW size \in Nat \ {0}, NEW r \in RingType(size), NEW n \in Nat
  PROVE  /\ n <= SpaceInRing(r) =>
              /\ CopiedIn(r, n) \in RingType(size)
              /\ BytesInRing(CopiedIn(r, n)) = BytesInRing(r) + n
         /\ n <= BytesInRing(r) =>
              /\ CopiedOut(r, n) \in RingType(size)
              /\ BytesInRing(CopiedOut(r, n)) = BytesInRing(r) - n
<1>1. /\ r = [size |-> size, head |-> r.head, tail |-> r.tail]
      /\ r.size = size /\ r.head \in 0..(size - 1) /\ r.tail \in 0..(size - 1)
  BY DEF RingType
<1>2. ASSUME n <= SpaceInRing(r)
      PROVE  /\ CopiedIn(r, n) \in RingType(size)
             /\ BytesInRing(CopiedIn(r, n)) = BytesInRing(r) + n
  <2> DEFINE h == CopyOffset(r, r.head, n)
  <2>1. /\ h \in 0..(size - 1)
        /\ h = IF r.head + n >= size THEN r.head + n - size ELSE r.head + n
    BY <1>1, <1>2 DEF CopyOffset, SpaceInRing, OffsetSub
  <2>2. CopiedIn(r, n) = [size |-> size, head |-> h, tail |-> r.tail]
    BY <1>1 DEF CopiedIn
  <2> HIDE DEF h
  <2>3. QED
    BY <1>1, <1>2, <2>1, <2>2 DEF BytesInRing, SpaceInRing, OffsetSub, RingType
<1>3. ASSUME n <= BytesInRing(r)
      PROVE  /\ CopiedOut(r, n) \in RingType(size)
             /\ BytesInRing(CopiedOut(r, n)) = BytesInRing(r) - n
  <2> DEFINE t == CopyOffset(r, r.tail, n)
  <2>1. /\ t \in 0..(size - 1)
        /\ t = IF r.tail + n >= size THEN r.tail + n - size ELSE r.tail + n
    BY <1>1, <1>3 DEF CopyOffset, BytesInRing, OffsetSub
  <2>2. CopiedOut(r, n) = [size |-> size, head |-> r.head, tail |-> t]
    BY <1>1 DEF CopiedOut
  <2> HIDE DEF t
  <2>3. QED
    BY <1>1, <1>3, <2>1, <2>2 DEF BytesInRing, OffsetSub, RingType
<1>4. QED
  BY <1>2, <1>3

-----------------------------------------------------------------------------

(* What a call in progress has moved and not yet reported.                 *)
Unreported == IF pc \in {"look", "copy"} THEN movedSoFar ELSE 0

(* A chunk is part of the call and less than the ring.                     *)
ChunkFits == pc = "copy" => chunkSize <= count /\ chunkSize < Size

(* A call sleeps only before it has moved anything.                        *)
SleepsEmpty == pc \in {"falling", "asleep"} => movedSoFar = 0

Accounted == reported + Unreported = written + Len(got)

DevInv == TypeOK /\ ChunkFits /\ SleepsEmpty /\ Accounted

-----------------------------------------------------------------------------
LEMMA SizeOfRing ==
  /\ Size \in Nat \ {0}
  /\ Frame \in Nat \ {0}
  /\ 2 * Frame <= Size
<1>1. Frame \in Nat \ {0} /\ Frames \in Nat \ {0, 1}
  BY StreamAssumption
<1>2. PICK k \in Nat : Frames = k + 2
  <2>1. Frames - 2 \in Nat /\ Frames = (Frames - 2) + 2
    BY <1>1
  <2>2. QED
    BY <2>1
<1>3. Size = Frame * k + 2 * Frame
  BY <1>1, <1>2 DEF Size
<1>4. Frame * k \in Nat
  BY <1>1, <1>2
<1>5. QED
  BY <1>1, <1>3, <1>4

(* The interrupts keep the offsets in the ring, whatever it holds.         *)
LEMMA InterruptKeepsRing ==
  ASSUME NEW r \in RingType(Size)
  PROVE  /\ RingFill(r, Frame) \in RingType(Size)
         /\ RingDrain(r, Frame) \in RingType(Size)
         /\ RingFill(r, Frame).head \in 0..(Size - 1)
         /\ RingDrain(r, Frame).tail \in 0..(Size - 1)
<1>1. Size \in Nat \ {0} /\ Frame \in 0..Size
  BY SizeOfRing
<1>2. /\ r = [size |-> Size, head |-> r.head, tail |-> r.tail]
      /\ r.head \in 0..(Size - 1) /\ r.tail \in 0..(Size - 1)
  BY DEF RingType
<1>3. /\ OffsetInc(r, r.head, Frame) \in 0..(Size - 1)
      /\ OffsetInc(r, r.tail, Frame) \in 0..(Size - 1)
  BY <1>1, <1>2, OneWayRound
<1>4. QED
  BY <1>2, <1>3 DEF RingType, RingFill, RingDrain

(* So do copies of less than a ring, of whatever was looked up before.     *)
LEMMA CopyKeepsRing ==
  ASSUME NEW r \in RingType(Size), NEW n \in 0..Size
  PROVE  /\ CopiedIn(r, n) \in RingType(Size)
         /\ CopiedOut(r, n) \in RingType(Size)
<1>1. Size \in Nat \ {0}
  BY SizeOfRing
<1>2. /\ r = [size |-> Size, head |-> r.head, tail |-> r.tail]
      /\ r.head \in 0..(Size - 1) /\ r.tail \in 0..(Size - 1)
  BY DEF RingType
<1>3. /\ CopyOffset(r, r.head, n) \in 0..(Size - 1)
      /\ CopyOffset(r, r.tail, n) \in 0..(Size - 1)
  <2>1. /\ CopyOffset(r, r.head, n) = OffsetInc(r, r.head, n)
        /\ OffsetInc(r, r.head, n) \in 0..(Size - 1)
    BY <1>1, <1>2, OneWayRound
  <2>2. /\ CopyOffset(r, r.tail, n) = OffsetInc(r, r.tail, n)
        /\ OffsetInc(r, r.tail, n) \in 0..(Size - 1)
    BY <1>1, <1>2, OneWayRound
  <2>3. QED
    BY <2>1, <2>2
<1>4. QED
  BY <1>2, <1>3 DEF RingType, CopiedIn, CopiedOut

LEMMA CopyPlaceInRing ==
  ASSUME NEW r \in RingType(Size), NEW n \in 0..Size, NEW i \in 1..n,
         NEW offset \in 0..(Size - 1)
  PROVE  CopyPlace(r, offset, i) \in Places
<1>1. r.size = Size /\ Size \in Nat /\ Frame \in Nat \ {0} /\ 2 * Frame <= Size
  BY SizeOfRing, OffsetsTyped
<1>2. CopyPlace(r, offset, i) \in 0..(Size - 1)
  BY <1>1 DEF CopyPlace
<1>3. QED
  BY <1>1, <1>2 DEF Places

LEMMA MovableIsLessThanRing ==
  ASSUME ring \in RingType(Size)
  PROVE  Movable \in 0..(Size - 1)
<1>1. /\ SpaceInRing(ring) \in 0..(Size - 1)
      /\ BytesInRing(ring) \in 0..(Size - 1)
  BY SizeOfRing, SpaceAndBytes
<1>2. QED
  BY <1>1 DEF Movable

LEMMA PadIsLessThanRing ==
  ASSUME ring \in RingType(Size)
  PROVE  PadSize \in 0..Size
<1>1. /\ ring.head \in Nat
      /\ Frame \in Nat \ {0} /\ Size \in Nat /\ 2 * Frame <= Size
  BY SizeOfRing, OffsetsTyped
<1>2. FillMissing(ring, Frame) \in 0..(Frame - 1)
  <2>1. ring.head % Frame \in 0..(Frame - 1)
    BY <1>1
  <2>2. Frame - (ring.head % Frame) \in Nat
    BY <1>1, <2>1
  <2>3. QED
    BY <1>1, <2>2 DEF FillMissing
<1>3. QED
  BY <1>1, <1>2 DEF PadSize

-----------------------------------------------------------------------------
(* The stream's variables stay in their types, handler by handler.         *)
LEMMA ReadyTyped == StreamTypeOK /\ Ready => StreamTypeOK'
<1> SUFFICES ASSUME StreamTypeOK, Ready
             PROVE  StreamTypeOK'
  OBVIOUS
<1>1. /\ EmptyRing \in RingType(Size)
      /\ Blank \in [Places -> Nat]
  BY SizeOfRing DEF EmptyRing, RingType, Blank
<1>2. 0 \in 0..MaxTape
  BY StreamAssumption
<1>3. /\ ring' \in RingType(Size) /\ contents' \in [Places -> Nat]
      /\ direction' \in Directions /\ tapeBytes' \in 0..MaxTape /\ sent' \in Nat
  BY <1>1, <1>2 DEF Ready, Directions
<1>4. short' \in BOOLEAN /\ underran' \in BOOLEAN /\ overran' \in BOOLEAN
  BY DEF Ready
<1>5. UNCHANGED <<irqFunc, late, hw, stalled, dma, moved>>
  BY DEF Ready
<1>6. QED
  BY <1>3, <1>4, <1>5 DEF StreamTypeOK

LEMMA StartTyped ==
  ASSUME StreamTypeOK, NEW dir \in {"reading", "writing"}, Start(dir)
  PROVE  StreamTypeOK'
<1>1. 0 \in 0..(Size - 1) /\ 0 \in 0..Frame
  BY SizeOfRing
<1>2. short' \in BOOLEAN /\ overran' \in BOOLEAN
  BY DEF StreamTypeOK, Start, FrameStarts
<1>3. QED
  BY <1>1, <1>2 DEF StreamTypeOK, Start, Directions

LEMMA StopTyped ==
  ASSUME StreamTypeOK, Stop, ring' \in RingType(Size), contents' \in [Places -> Nat]
  PROVE  StreamTypeOK'
<1>1. 0 \in 0..Frame
  BY SizeOfRing
<1>2. QED
  BY <1>1 DEF StreamTypeOK, Stop, Directions, slipVars

LEMMA MoveByteTyped == StreamTypeOK /\ MoveByte => StreamTypeOK'
<1> SUFFICES ASSUME StreamTypeOK, MoveByte
             PROVE  StreamTypeOK'
  OBVIOUS
<1>1. moved' \in 0..Frame
  BY SizeOfRing DEF StreamTypeOK, MoveByte
<1>2. tapeBytes' \in 0..MaxTape /\ contents' \in [Places -> Nat] /\ sent' \in Nat
  <2>1. CASE hw = "reading"
    <3>1. /\ tapeBytes' = tapeBytes + 1 /\ tapeBytes < MaxTape
          /\ contents' = [contents EXCEPT ![dma + moved] = tapeBytes + 1]
          /\ sent' = sent
      BY <2>1 DEF MoveByte
    <3>2. tapeBytes \in 0..MaxTape /\ contents \in [Places -> Nat] /\ sent \in Nat
      BY DEF StreamTypeOK
    <3>3. tapeBytes + 1 \in Nat /\ tapeBytes + 1 \in 0..MaxTape
      BY <3>1, <3>2, StreamAssumption
    <3>4. QED
      BY <3>1, <3>2, <3>3
  <2>2. CASE hw = "writing"
    <3>1. /\ tapeBytes' = tapeBytes /\ contents' = contents
          /\ sent' = IF Byte = sent + 1 THEN Byte ELSE sent
      BY <2>2 DEF MoveByte
    <3>2. sent + 1 \in Nat
      BY DEF StreamTypeOK
    <3>3. QED
      BY <3>1, <3>2 DEF StreamTypeOK
  <2>3. QED
    BY <2>1, <2>2 DEF MoveByte
<1>3. QED
  BY <1>1, <1>2 DEF StreamTypeOK, MoveByte, slipVars

LEMMA FirstIrqTyped == StreamTypeOK /\ FirstIrq => StreamTypeOK'
<1>1. 0 \in 0..Frame
  BY SizeOfRing
<1>2. QED
  BY <1>1 DEF StreamTypeOK, FirstIrq, FrameStarts

LEMMA IrqTyped == StreamTypeOK /\ Irq => StreamTypeOK'
<1> SUFFICES ASSUME StreamTypeOK, Irq
             PROVE  StreamTypeOK'
  OBVIOUS
<1>1. 0 \in 0..Frame
  BY SizeOfRing
<1>2. ring' \in RingType(Size) /\ dma' \in 0..(Size - 1)
  <2>1. ring \in RingType(Size)
    BY DEF StreamTypeOK
  <2>2. CASE IrqFill
    BY <2>1, <2>2, InterruptKeepsRing DEF IrqFill
  <2>3. CASE IrqDrain
    BY <2>1, <2>3, InterruptKeepsRing DEF IrqDrain
  <2>4. QED
    BY <2>2, <2>3 DEF Irq
<1>3. underran' \in BOOLEAN
  BY DEF StreamTypeOK, Irq, IrqFill, IrqDrain
<1>4. short' \in BOOLEAN /\ overran' \in BOOLEAN
  BY DEF StreamTypeOK, Irq, FrameStarts
<1>5. QED
  BY <1>1, <1>2, <1>3, <1>4 DEF StreamTypeOK, Irq

LEMMA CardStopsTyped ==
  StreamTypeOK /\ (IrqStopped \/ Stall \/ BecomeLate) => StreamTypeOK'
BY DEF StreamTypeOK, IrqStopped, Stall, BecomeLate, driverVars, cardVars, slipVars

LEMMA StreamUnchanged == StreamTypeOK /\ UNCHANGED streamVars => StreamTypeOK'
BY DEF StreamTypeOK, streamVars, driverVars, cardVars, slipVars

(* A step of the program that moves the ring only.                         *)
LEMMA RingStepTyped ==
  ASSUME StreamTypeOK, ring' \in RingType(Size), contents' \in [Places -> Nat],
         UNCHANGED <<direction, irqFunc, late, cardVars, slipVars>>
  PROVE  StreamTypeOK'
BY DEF StreamTypeOK, cardVars, slipVars

LEMMA PadTyped ==
  ASSUME StreamTypeOK
  PROVE  Padded \in RingType(Size) /\ PadBytes \in [Places -> Nat]
<1>1. ring \in RingType(Size) /\ contents \in [Places -> Nat]
  BY DEF StreamTypeOK
<1>2. PadSize \in 0..Size
  BY <1>1, PadIsLessThanRing
<1>3. Padded \in RingType(Size)
  BY <1>1, <1>2, CopyKeepsRing DEF Padded
<1>4. PadBytes \in [Places -> Nat]
  BY <1>1 DEF PadBytes
<1>5. QED
  BY <1>3, <1>4

-----------------------------------------------------------------------------
(* The account of a call.                                                  *)
LEMMA InitInv == Init => DevInv
<1> SUFFICES ASSUME Init
             PROVE  DevInv
  OBVIOUS
<1>1. StreamTypeOK
  <2>1. /\ EmptyRing \in RingType(Size)
        /\ Blank \in [Places -> Nat]
    BY SizeOfRing DEF EmptyRing, RingType, Blank
  <2>2. 0 \in 0..MaxTape /\ 0 \in 0..(Size - 1) /\ 0 \in 0..Frame
    BY SizeOfRing, StreamAssumption
  <2>3. /\ ring \in RingType(Size) /\ contents \in [Places -> Nat]
        /\ direction \in Directions /\ tapeBytes \in 0..MaxTape /\ sent \in Nat
        /\ dma \in 0..(Size - 1) /\ moved \in 0..Frame
        /\ irqFunc \in {"first", "irq"} /\ hw \in {"off", "reading", "writing"}
    BY <2>1, <2>2 DEF Init, StreamInit, Directions
  <2>4. /\ short \in BOOLEAN /\ underran \in BOOLEAN /\ overran \in BOOLEAN
        /\ late \in BOOLEAN /\ stalled \in BOOLEAN
    BY DEF Init, StreamInit
  <2>5. QED
    BY <2>3, <2>4 DEF StreamTypeOK
<1>2. /\ pc = "closed" /\ fOp = "stopped" /\ got = <<>>
      /\ count = 0 /\ movedSoFar = 0 /\ chunkSize = 0 /\ written = 0 /\ reported = 0
  BY DEF Init
<1>3. /\ nonblock \in BOOLEAN /\ lastError \in BOOLEAN
      /\ abandoned \in BOOLEAN /\ polled \in BOOLEAN
  BY DEF Init
<1>4. prompt \in BOOLEAN
  BY DeviceAssumption DEF Init
<1>5. TypeOK
  BY <1>1, <1>2, <1>3, <1>4 DEF TypeOK, Pcs, Directions
<1>6. ChunkFits /\ SleepsEmpty /\ Accounted
  BY <1>2 DEF ChunkFits, SleepsEmpty, Accounted, Unreported
<1>7. QED
  BY <1>5, <1>6 DEF DevInv

(* Steps that move pc alone, if that, in the way sleepers are woken.       *)
WaitsOn ==
  \/ pc' = pc
  \/ pc = "idle" /\ pc' = "closing"
  \/ pc \in {"idle", "pollAgain"} /\ pc' \in {"idle", "polling"}
  \/ pc = "polling" /\ pc' \in {"idle", "pollAgain"}
  \/ pc = "falling" /\ pc' = "asleep"
  \/ pc = "asleep" /\ pc' = "look"
  \/ pc = "closeFalling" /\ pc' = "closeAsleep"
  \/ pc = "closeAsleep" /\ pc' = "closing"
  \/ pc = "closeAsleep" /\ pc' = "closed"
  \/ pc = "closing" /\ pc' = "closed"
  \/ pc = "closing" /\ pc' = "closeFalling"

LEMMA WaitingKeepsInv ==
  ASSUME DevInv, StreamTypeOK', UNCHANGED <<callVars, dataVars>>, WaitsOn,
         UNCHANGED <<fOp, nonblock, lastError, prompt>>,
         abandoned' \in BOOLEAN, polled' \in BOOLEAN
  PROVE  DevInv'
<1>1. pc' \in Pcs
  BY DEF DevInv, TypeOK, WaitsOn, Pcs
<1>2. TypeOK'
  BY <1>1 DEF DevInv, TypeOK, callVars, dataVars
<1>3. ChunkFits'
  BY DEF DevInv, ChunkFits, WaitsOn, callVars
<1>4. SleepsEmpty'
  BY DEF DevInv, SleepsEmpty, WaitsOn, callVars
<1>5. Accounted'
  <2>1. Unreported' = Unreported
    BY DEF DevInv, SleepsEmpty, Unreported, WaitsOn, callVars
  <2>2. QED
    BY <2>1 DEF DevInv, Accounted, dataVars
<1>6. QED
  BY <1>2, <1>3, <1>4, <1>5 DEF DevInv

-----------------------------------------------------------------------------
LEMMA OpenKeepsInv == DevInv /\ Open => DevInv'
<1> SUFFICES ASSUME DevInv, Open
             PROVE  DevInv'
  OBVIOUS
<1>1. StreamTypeOK'
  BY ReadyTyped DEF DevInv, TypeOK, Open
<1>2. /\ pc' = "idle" /\ fOp' = "stopped" /\ got' = <<>> /\ written' = 0 /\ reported' = 0
      /\ UNCHANGED <<prompt, count, movedSoFar, chunkSize>>
  BY DEF Open, callVars
<1>3. /\ nonblock' \in BOOLEAN /\ lastError' \in BOOLEAN
      /\ abandoned' \in BOOLEAN /\ polled' \in BOOLEAN
  BY DeviceAssumption DEF Open
<1>4. TypeOK'
  BY <1>1, <1>2, <1>3 DEF DevInv, TypeOK, Pcs, Directions
<1>5. ChunkFits' /\ SleepsEmpty' /\ Accounted'
  BY <1>2 DEF ChunkFits, SleepsEmpty, Accounted, Unreported
<1>6. QED
  BY <1>4, <1>5 DEF DevInv

LEMMA CallKeepsInv ==
  ASSUME DevInv, NEW dir \in Transferring, NEW n \in 0..MaxCall, Call(dir, n)
  PROVE  DevInv'
<1>1. dir \in {"reading", "writing"} /\ n \in Nat
  BY DeviceAssumption
<1>2. StreamTypeOK'
  <2>1. CASE fOp = dir
    BY <2>1, StreamUnchanged DEF DevInv, TypeOK, Call
  <2>2. CASE fOp # dir
    BY <1>1, <2>2, StartTyped DEF DevInv, TypeOK, Call
  <2>3. QED
    BY <2>1, <2>2
<1>3. /\ pc = "idle" /\ pc' \in {"idle", "look"} /\ fOp' = dir
      /\ count' = n /\ movedSoFar' = 0 /\ chunkSize' = 0
      /\ UNCHANGED <<nonblock, abandoned, prompt, written, got, reported>>
  BY DEF Call, dataVars
<1>4. lastError' \in BOOLEAN /\ polled' \in BOOLEAN
  BY DEF DevInv, TypeOK, Call
<1>5. TypeOK'
  BY <1>1, <1>2, <1>3, <1>4 DEF DevInv, TypeOK, Pcs, Directions
<1>6. ChunkFits' /\ SleepsEmpty' /\ Accounted'
  BY <1>3 DEF DevInv, ChunkFits, SleepsEmpty, Accounted, Unreported
<1>7. QED
  BY <1>5, <1>6 DEF DevInv

(* The call returns what it has moved. *)
LEMMA ReturnKeepsInv ==
  ASSUME DevInv, pc \in {"look", "asleep"},
         NEW n \in Nat, n = Unreported, Return(n),
         lastError' \in BOOLEAN, polled' \in BOOLEAN,
         UNCHANGED <<streamVars, fOp, nonblock, abandoned, prompt, callVars, written, got>>
  PROVE  DevInv'
<1>1. StreamTypeOK'
  BY StreamUnchanged DEF DevInv, TypeOK
<1>2. pc' = "idle" /\ reported' = reported + n
  BY DEF Return
<1>3. reported' \in Nat
  BY <1>2 DEF DevInv, TypeOK
<1>4. TypeOK'
  BY <1>1, <1>2, <1>3 DEF DevInv, TypeOK, Pcs, callVars
<1>5. ChunkFits' /\ SleepsEmpty'
  BY <1>2 DEF ChunkFits, SleepsEmpty
<1>6. Accounted'
  <2>1. Unreported' = 0
    BY <1>2 DEF Unreported
  <2>2. reported \in Nat /\ written' = written /\ got' = got
    BY DEF DevInv, TypeOK
  <2>3. reported + n = written + Len(got)
    BY DEF DevInv, Accounted
  <2>4. QED
    BY <1>2, <1>3, <2>1, <2>2, <2>3 DEF Accounted
<1>7. QED
  BY <1>4, <1>5, <1>6 DEF DevInv

LEMMA LookLateKeepsInv == DevInv /\ LookLate => DevInv'
<1> SUFFICES ASSUME DevInv, LookLate
             PROVE  DevInv'
  OBVIOUS
<1>1. movedSoFar \in Nat /\ Unreported = movedSoFar
  BY DEF DevInv, TypeOK, LookLate, Unreported
<1>2. lastError' \in BOOLEAN /\ polled' \in BOOLEAN
  <2>1. lastError' \in BOOLEAN
    BY DEF LookLate
  <2>2. polled' = FALSE
    BY DEF LookLate
  <2>3. QED
    BY <2>1, <2>2
<1>3. QED
  BY <1>1, <1>2, ReturnKeepsInv DEF LookLate

LEMMA LookReturnKeepsInv == DevInv /\ LookReturn => DevInv'
<1> SUFFICES ASSUME DevInv, LookReturn
             PROVE  DevInv'
  OBVIOUS
<1>1. movedSoFar \in Nat /\ Unreported = movedSoFar
  BY DEF DevInv, TypeOK, LookReturn, Unreported
<1>2. lastError' \in BOOLEAN /\ polled' \in BOOLEAN
  BY DEF DevInv, TypeOK, LookReturn, fileVars
<1>3. QED
  BY <1>1, <1>2, ReturnKeepsInv DEF LookReturn, fileVars

LEMMA SleepFailsKeepsInv == DevInv /\ SleepFails => DevInv'
<1> SUFFICES ASSUME DevInv, SleepFails
             PROVE  DevInv'
  OBVIOUS
<1>1. 0 \in Nat /\ Unreported = 0
  BY DEF SleepFails, Unreported
<1>2. lastError' \in BOOLEAN /\ polled' \in BOOLEAN
  BY DEF DevInv, TypeOK, SleepFails, fileVars
<1>3. QED
  BY <1>1, <1>2, ReturnKeepsInv DEF SleepFails, fileVars

LEMMA LookMovableKeepsInv == DevInv /\ LookMovable => DevInv'
<1> SUFFICES ASSUME DevInv, LookMovable
             PROVE  DevInv'
  OBVIOUS
<1>1. StreamTypeOK'
  BY StreamUnchanged DEF DevInv, TypeOK, LookMovable
<1>2. Movable \in 0..(Size - 1) /\ Size \in Nat /\ count \in Nat
  BY MovableIsLessThanRing, SizeOfRing DEF DevInv, TypeOK, StreamTypeOK
<1>3. chunkSize' \in Nat /\ chunkSize' <= count /\ chunkSize' < Size
  BY <1>2 DEF LookMovable
<1>4. /\ pc = "look" /\ pc' = "copy"
      /\ UNCHANGED <<fOp, nonblock, lastError, abandoned, prompt, count, movedSoFar,
                     written, got, reported>>
      /\ polled' = FALSE
  BY DEF LookMovable, dataVars
<1>5. TypeOK'
  BY <1>1, <1>3, <1>4 DEF DevInv, TypeOK, Pcs
<1>6. ChunkFits' /\ SleepsEmpty' /\ Accounted'
  <2>1. Size' = Size
    BY DEF Size
  <2>2. QED
    BY <1>3, <1>4, <2>1 DEF DevInv, ChunkFits, SleepsEmpty, Accounted, Unreported
<1>7. QED
  BY <1>5, <1>6 DEF DevInv

LEMMA LookBlockKeepsInv == DevInv /\ LookBlock => DevInv'
<1> SUFFICES ASSUME DevInv, LookBlock
             PROVE  DevInv'
  OBVIOUS
<1>1. StreamTypeOK'
  BY StreamUnchanged DEF DevInv, TypeOK, LookBlock
<1>2. /\ pc = "look" /\ pc' = "falling" /\ movedSoFar = 0
      /\ UNCHANGED <<fOp, nonblock, lastError, abandoned, prompt, count, movedSoFar,
                     chunkSize, written, got, reported, polled>>
  BY DEF LookBlock, fileVars, callVars, dataVars
<1>3. TypeOK'
  BY <1>1, <1>2 DEF DevInv, TypeOK, Pcs
<1>4. ChunkFits' /\ SleepsEmpty' /\ Accounted'
  BY <1>2 DEF DevInv, ChunkFits, SleepsEmpty, Accounted, Unreported
<1>5. QED
  BY <1>3, <1>4 DEF DevInv

-----------------------------------------------------------------------------
(* Both copies, given that the chunk is added to what was moved.           *)
LEMMA AfterCopyKeepsInv ==
  ASSUME DevInv, pc = "copy", AfterCopy, StreamTypeOK',
         written' \in Nat, got' \in Seq(Nat),
         written' + Len(got') = written + Len(got) + chunkSize
  PROVE  DevInv'
<1>1. /\ count \in Nat /\ movedSoFar \in Nat /\ chunkSize \in Nat /\ reported \in Nat
      /\ written \in Nat /\ Len(got) \in Nat /\ chunkSize <= count
  BY DEF DevInv, TypeOK, ChunkFits
<1>2. /\ movedSoFar' = movedSoFar + chunkSize
      /\ count' = count - chunkSize
      /\ UNCHANGED <<chunkSize, fOp, nonblock, lastError, abandoned, prompt, polled>>
  BY DEF AfterCopy, fileVars
<1>3. reported + movedSoFar = written + Len(got)
  BY DEF DevInv, Accounted, Unreported
<1>4. \/ pc' = "idle" /\ reported' = reported + movedSoFar + chunkSize
      \/ pc' = "look" /\ reported' = reported
  BY <1>1 DEF AfterCopy, Return
<1>5. reported' \in Nat /\ pc' \in Pcs /\ movedSoFar' \in Nat /\ count' \in Nat
  BY <1>1, <1>2, <1>4 DEF Pcs
<1>6. TypeOK'
  BY <1>2, <1>5 DEF DevInv, TypeOK
<1>7. ChunkFits' /\ SleepsEmpty'
  BY <1>4 DEF ChunkFits, SleepsEmpty
<1>8. Accounted'
  <2>1. reported' + Unreported' = reported + movedSoFar + chunkSize
    BY <1>1, <1>2, <1>4 DEF Unreported
  <2>2. QED
    BY <1>1, <1>3, <2>1 DEF Accounted
<1>9. QED
  BY <1>6, <1>7, <1>8 DEF DevInv

LEMMA CopyInKeepsInv == DevInv /\ CopyIn => DevInv'
<1> SUFFICES ASSUME DevInv, CopyIn
             PROVE  DevInv'
  OBVIOUS
<1>1. /\ pc = "copy" /\ AfterCopy /\ got' = got
      /\ written' = written + chunkSize
      /\ UNCHANGED <<direction, irqFunc, late, cardVars, slipVars>>
  BY DEF CopyIn, AfterCopy
<1>2. /\ chunkSize \in 0..Size /\ written \in Nat /\ got \in Seq(Nat)
      /\ ring \in RingType(Size) /\ contents \in [Places -> Nat]
  BY <1>1, SizeOfRing DEF DevInv, TypeOK, StreamTypeOK, ChunkFits
<1>3. ring' \in RingType(Size)
  BY <1>2, CopyKeepsRing DEF CopyIn
<1>4. contents' \in [Places -> Nat]
  <2> DEFINE is(place) == {i \in 1..chunkSize : CopyPlace(ring, ring.head, i) = place}
             byte(place) == IF is(place) = {} THEN contents[place]
                            ELSE written + CHOOSE i \in is(place) : TRUE
  <2>1. contents' = [place \in Places |-> byte(place)]
    BY DEF CopyIn
  <2>2. ASSUME NEW place \in Places
        PROVE  byte(place) \in Nat
    <3>1. CASE is(place) = {}
      BY <1>2, <3>1
    <3>2. CASE is(place) # {}
      <4>1. (CHOOSE i \in is(place) : TRUE) \in is(place)
        BY <3>2
      <4>2. (CHOOSE i \in is(place) : TRUE) \in Nat
        BY <4>1, <1>2
      <4> HIDE DEF is
      <4>3. byte(place) = written + CHOOSE i \in is(place) : TRUE
        BY <3>2
      <4>4. QED
        BY <1>2, <4>2, <4>3
    <3>3. QED
      BY <3>1, <3>2
  <2> HIDE DEF byte
  <2>3. QED
    BY <2>1, <2>2
<1>5. StreamTypeOK'
  BY <1>1, <1>3, <1>4, RingStepTyped DEF DevInv, TypeOK
<1>6. written' \in Nat /\ got' \in Seq(Nat)
  BY <1>1, <1>2
<1>7. written' + Len(got') = written + Len(got) + chunkSize
  <2>1. Len(got) \in Nat /\ chunkSize \in Nat
    BY <1>2
  <2>2. QED
    BY <1>1, <1>2, <2>1
<1>8. QED
  BY <1>1, <1>5, <1>6, <1>7, AfterCopyKeepsInv

LEMMA ConcatStamps ==
  ASSUME NEW s \in Seq(Nat), NEW t \in Seq(Nat)
  PROVE  s \o t \in Seq(Nat) /\ Len(s \o t) = Len(s) + Len(t)
OBVIOUS

LEMMA CopyOutKeepsInv == DevInv /\ CopyOut => DevInv'
<1> SUFFICES ASSUME DevInv, CopyOut
             PROVE  DevInv'
  OBVIOUS
<1> DEFINE chunk == [i \in 1..chunkSize |-> contents[CopyPlace(ring, ring.tail, i)]]
<1>1. /\ pc = "copy" /\ AfterCopy /\ got' = got \o chunk
      /\ written' = written /\ contents' = contents
      /\ UNCHANGED <<direction, irqFunc, late, cardVars, slipVars>>
  BY DEF CopyOut, AfterCopy
<1>2. /\ chunkSize \in 0..Size /\ chunkSize \in Nat /\ written \in Nat /\ got \in Seq(Nat)
      /\ ring \in RingType(Size) /\ contents \in [Places -> Nat]
      /\ ring.tail \in 0..(Size - 1)
  BY <1>1, SizeOfRing, OffsetsTyped DEF DevInv, TypeOK, StreamTypeOK, ChunkFits
<1>3. ring' \in RingType(Size)
  BY <1>2, CopyKeepsRing DEF CopyOut
<1>4. StreamTypeOK'
  BY <1>1, <1>2, <1>3, RingStepTyped DEF DevInv, TypeOK
<1>5. chunk \in Seq(Nat) /\ Len(chunk) = chunkSize
  <2>1. \A i \in 1..chunkSize : contents[CopyPlace(ring, ring.tail, i)] \in Nat
    BY <1>2, CopyPlaceInRing
  <2>2. chunk \in [1..chunkSize -> Nat]
    BY <2>1
  <2> HIDE DEF chunk
  <2>3. QED
    BY <1>2, <2>2
<1> HIDE DEF chunk
<1>6. got' \in Seq(Nat) /\ Len(got') = Len(got) + chunkSize
  <2>1. got \o chunk \in Seq(Nat) /\ Len(got \o chunk) = Len(got) + Len(chunk)
    BY <1>2, <1>5, ConcatStamps
  <2>2. QED
    BY <1>1, <1>5, <2>1
<1>7. written' \in Nat /\ written' + Len(got') = written + Len(got) + chunkSize
  <2>1. Len(got) \in Nat
    BY <1>2
  <2>2. QED
    BY <1>1, <1>2, <1>6, <2>1
<1>8. QED
  BY <1>1, <1>4, <1>6, <1>7, AfterCopyKeepsInv

-----------------------------------------------------------------------------
LEMMA CloseKeepsInv ==
  DevInv /\ (Close \/ CloseDone \/ CloseAgain \/ CloseAbandon) => DevInv'
<1> SUFFICES ASSUME DevInv, Close \/ CloseDone \/ CloseAgain \/ CloseAbandon
             PROVE  DevInv'
  OBVIOUS
<1>1. StreamTypeOK
  BY DEF DevInv, TypeOK
<1>2. /\ Padded \in RingType(Size) /\ PadBytes \in [Places -> Nat]
      /\ ring \in RingType(Size) /\ contents \in [Places -> Nat]
  BY <1>1, PadTyped DEF StreamTypeOK
<1>3. StreamTypeOK'
  <2>1. CASE Close
    BY <1>1, <2>1, StreamUnchanged DEF Close
  <2>2. CASE CloseDone
    <3>1. ring' \in RingType(Size) /\ contents' \in [Places -> Nat]
      BY <1>2, <2>2 DEF CloseDone
    <3>2. CASE direction = "stopped"
      BY <1>1, <2>2, <3>1, <3>2, RingStepTyped DEF CloseDone
    <3>3. CASE direction # "stopped"
      BY <1>1, <2>2, <3>1, <3>3, StopTyped DEF CloseDone
    <3>4. QED
      BY <3>2, <3>3
  <2>3. CASE CloseAgain
    BY <1>1, <1>2, <2>3, RingStepTyped DEF CloseAgain
  <2>4. CASE CloseAbandon
    BY <1>1, <2>4, StreamUnchanged DEF CloseAbandon
  <2>5. QED
    BY <2>1, <2>2, <2>3, <2>4
<1>4. WaitsOn
  BY DEF WaitsOn, Close, CloseDone, CloseAgain, CloseAbandon
<1>5. UNCHANGED <<callVars, dataVars>> /\ UNCHANGED <<fOp, nonblock, lastError, prompt>>
  BY DEF Close, CloseDone, CloseAgain, CloseAbandon, fileVars
<1>6. abandoned' \in BOOLEAN /\ polled' \in BOOLEAN
  BY DEF DevInv, TypeOK, Close, CloseDone, CloseAgain, CloseAbandon, fileVars
<1>7. QED
  BY <1>3, <1>4, <1>5, <1>6, WaitingKeepsInv

LEMMA PollKeepsInv == DevInv /\ (Poll \/ PollAgain \/ PollFails) => DevInv'
<1> SUFFICES ASSUME DevInv, Poll \/ PollAgain \/ PollFails
             PROVE  DevInv'
  OBVIOUS
<1>1. StreamTypeOK'
  BY StreamUnchanged DEF DevInv, TypeOK, Poll, PollAgain, PollLook, PollFails
<1>2. WaitsOn
  BY DEF WaitsOn, Poll, PollAgain, PollLook, PollFails
<1>3. abandoned' \in BOOLEAN /\ polled' \in BOOLEAN
  BY DEF DevInv, TypeOK, Poll, PollAgain, PollLook, PollFails, fileVars
<1>4. QED
  BY <1>1, <1>2, <1>3, WaitingKeepsInv
     DEF Poll, PollAgain, PollLook, PollFails, fileVars

LEMMA FallAsleepKeepsInv == DevInv /\ FallAsleep => DevInv'
<1> SUFFICES ASSUME DevInv, FallAsleep
             PROVE  DevInv'
  OBVIOUS
<1>1. StreamTypeOK'
  BY StreamUnchanged DEF DevInv, TypeOK, FallAsleep
<1>2. WaitsOn
  BY DEF WaitsOn, FallAsleep, Asleep
<1>3. abandoned' \in BOOLEAN /\ polled' \in BOOLEAN
  BY DEF DevInv, TypeOK, FallAsleep, fileVars
<1>4. QED
  BY <1>1, <1>2, <1>3, WaitingKeepsInv DEF FallAsleep, fileVars

LEMMA InterruptKeepsInv == DevInv /\ Interrupt => DevInv'
<1> SUFFICES ASSUME DevInv, Interrupt
             PROVE  DevInv'
  OBVIOUS
<1>1. StreamTypeOK'
  BY IrqTyped, FirstIrqTyped, CardStopsTyped DEF DevInv, TypeOK, Interrupt
<1>2. WaitsOn
  BY DEF WaitsOn, Interrupt, Wake
<1>3. abandoned' \in BOOLEAN /\ polled' \in BOOLEAN
  BY DEF DevInv, TypeOK, Interrupt, fileVars
<1>4. QED
  BY <1>1, <1>2, <1>3, WaitingKeepsInv DEF Interrupt, fileVars

LEMMA CardKeepsInv == DevInv /\ Card => DevInv'
<1> SUFFICES ASSUME DevInv, Card
             PROVE  DevInv'
  OBVIOUS
<1>1. StreamTypeOK'
  BY MoveByteTyped, CardStopsTyped DEF DevInv, TypeOK, Card
<1>2. WaitsOn
  BY DEF WaitsOn, Card
<1>3. abandoned' \in BOOLEAN /\ polled' \in BOOLEAN
  BY DEF DevInv, TypeOK, Card, fileVars
<1>4. QED
  BY <1>1, <1>2, <1>3, WaitingKeepsInv DEF Card, fileVars

LEMMA StutterKeepsInv == DevInv /\ UNCHANGED vars => DevInv'
<1> SUFFICES ASSUME DevInv, UNCHANGED vars
             PROVE  DevInv'
  OBVIOUS
<1>1. StreamTypeOK'
  BY StreamUnchanged DEF DevInv, TypeOK, vars
<1>2. WaitsOn
  BY DEF WaitsOn, vars
<1>3. abandoned' \in BOOLEAN /\ polled' \in BOOLEAN
  BY DEF DevInv, TypeOK, vars, fileVars
<1>4. QED
  BY <1>1, <1>2, <1>3, WaitingKeepsInv DEF vars, fileVars

(* The inductive invariant of the device, for every size of frame and ring *)
(* and every interleaving of the program with the interrupts.              *)
THEOREM DeviceInvariance == Spec => []DevInv
<1>1. Init => DevInv
  BY InitInv
<1>2. DevInv /\ [Next]_vars => DevInv'
  <2> SUFFICES ASSUME DevInv, [Next]_vars
               PROVE  DevInv'
    OBVIOUS
  <2>1. CASE Open
    BY <2>1, OpenKeepsInv
  <2>2. CASE \E dir \in Transferring, n \in 0..MaxCall : Call(dir, n)
    BY <2>2, CallKeepsInv
  <2>3. CASE Close \/ Poll
    BY <2>3, CloseKeepsInv, PollKeepsInv
  <2>4. CASE Program
    BY <2>4, PollKeepsInv, LookLateKeepsInv, LookMovableKeepsInv, LookReturnKeepsInv,
       LookBlockKeepsInv, CopyOutKeepsInv, CopyInKeepsInv, FallAsleepKeepsInv,
       CloseKeepsInv DEF Program
  <2>5. CASE SleepTimeout \/ Signal
    BY <2>5, SleepFailsKeepsInv, CloseKeepsInv, PollKeepsInv DEF SleepTimeout, Signal
  <2>6. CASE Interrupt
    BY <2>6, InterruptKeepsInv
  <2>7. CASE Card
    BY <2>7, CardKeepsInv
  <2>8. CASE UNCHANGED vars
    BY <2>8, StutterKeepsInv
  <2>9. QED
    BY <2>1, <2>2, <2>3, <2>4, <2>5, <2>6, <2>7, <2>8 DEF Next
<1>3. QED
  BY <1>1, <1>2, PTL DEF Spec

(* The offsets stay in the ring and all else in its type, even when        *)
(* interrupts overtake the program between its look and its copy.          *)
THEOREM TypeCorrect == Spec => []TypeOK
<1>1. DevInv => TypeOK
  BY DEF DevInv
<1>2. QED
  BY <1>1, DeviceInvariance, PTL

(* read() and write(): the counts returned add up to the bytes moved, with *)
(* timeouts, signals and errors put off to the next call in between.       *)
THEOREM MovedIsReportedAlways == Spec => []MovedIsReported
<1>1. DevInv => MovedIsReported
  <2> SUFFICES ASSUME DevInv, pc = "idle"
               PROVE  reported = written + Len(got)
    BY DEF MovedIsReported
  <2>1. Unreported = 0 /\ reported \in Nat
    BY DEF DevInv, TypeOK, Unreported
  <2>2. QED
    BY <2>1 DEF DevInv, Accounted
<1>2. QED
  BY <1>1, DeviceInvariance, PTL

-----------------------------------------------------------------------------
(* What poll() says.  A file transfers in the direction of the stream; the *)
(* frame that DMA reads into has room and the one it writes out is there,  *)
(* or the ghosts tell; so interrupts only add to what can be moved, and    *)
(* neither a chunk that was looked up nor the answer of poll() gets stale. *)
FileMatches == pc # "closed" => fOp = direction

FrameHasRoom == direction = "reading" /\ ~overran => SpaceInRing(ring) >= Frame
FrameIsThere == direction = "writing" /\ ~short => BytesInRing(ring) >= Frame

InTime == ~overran /\ ~underran

ChunkIsMovable == pc = "copy" /\ InTime => chunkSize <= Movable

Waiting == {"idle", "look", "falling", "asleep"}

AnswerHolds ==
  /\ pc \in {"copy", "polling", "pollAgain"} => ~polled
  /\ polled /\ InTime /\ pc \in Waiting => Movable > 0

PollInv ==
  /\ FileMatches
  /\ InTime => FrameHasRoom /\ FrameIsThere
  /\ ChunkIsMovable
  /\ AnswerHolds

(* The ring as numbers. *)
LEMMA CountsTyped ==
  ASSUME ring \in RingType(Size)
  PROVE  /\ SpaceInRing(ring) \in Nat /\ BytesInRing(ring) \in Nat
         /\ SpaceInRing(ring) + BytesInRing(ring) = Size - 1
         /\ Size \in Nat \ {0} /\ Frame \in Nat \ {0}
BY SizeOfRing, SpaceAndBytes

(* What the program and the interrupts do to the numbers.                  *)
LEMMA CopiesMove ==
  ASSUME ring \in RingType(Size), NEW n \in Nat
  PROVE  /\ n <= SpaceInRing(ring) =>
              /\ BytesInRing(CopiedIn(ring, n)) = BytesInRing(ring) + n
              /\ SpaceInRing(CopiedIn(ring, n)) = SpaceInRing(ring) - n
         /\ n <= BytesInRing(ring) =>
              /\ BytesInRing(CopiedOut(ring, n)) = BytesInRing(ring) - n
              /\ SpaceInRing(CopiedOut(ring, n)) = SpaceInRing(ring) + n
<1>1. Size \in Nat \ {0}
  BY SizeOfRing
<1>2. /\ SpaceInRing(ring) \in Nat /\ BytesInRing(ring) \in Nat
      /\ SpaceInRing(ring) + BytesInRing(ring) = Size - 1
  BY CountsTyped
<1>3. ASSUME n <= SpaceInRing(ring)
      PROVE  /\ BytesInRing(CopiedIn(ring, n)) = BytesInRing(ring) + n
             /\ SpaceInRing(CopiedIn(ring, n)) = SpaceInRing(ring) - n
  <2>1. /\ CopiedIn(ring, n) \in RingType(Size)
        /\ BytesInRing(CopiedIn(ring, n)) = BytesInRing(ring) + n
    BY <1>1, <1>3, CopiesCount
  <2>2. /\ SpaceInRing(CopiedIn(ring, n)) \in Int
        /\ SpaceInRing(CopiedIn(ring, n)) + BytesInRing(CopiedIn(ring, n)) = Size - 1
    BY <1>1, <2>1, SpaceAndBytes
  <2>3. QED
    BY <1>1, <1>2, <2>1, <2>2
<1>4. ASSUME n <= BytesInRing(ring)
      PROVE  /\ BytesInRing(CopiedOut(ring, n)) = BytesInRing(ring) - n
             /\ SpaceInRing(CopiedOut(ring, n)) = SpaceInRing(ring) + n
  <2>1. /\ CopiedOut(ring, n) \in RingType(Size)
        /\ BytesInRing(CopiedOut(ring, n)) = BytesInRing(ring) - n
    BY <1>1, <1>4, CopiesCount
  <2>2. /\ SpaceInRing(CopiedOut(ring, n)) \in Int
        /\ SpaceInRing(CopiedOut(ring, n)) + BytesInRing(CopiedOut(ring, n)) = Size - 1
    BY <1>1, <2>1, SpaceAndBytes
  <2>3. QED
    BY <1>1, <1>2, <2>1, <2>2
<1>5. QED
  BY <1>3, <1>4

LEMMA FramesMove ==
  ASSUME ring \in RingType(Size)
  PROVE  /\ Frame <= SpaceInRing(ring) =>
              /\ BytesInRing(RingFill(ring, Frame)) = BytesInRing(ring) + Frame
              /\ SpaceInRing(RingFill(ring, Frame)) = SpaceInRing(ring) - Frame
         /\ Frame <= BytesInRing(ring) =>
              /\ BytesInRing(RingDrain(ring, Frame)) = BytesInRing(ring) - Frame
              /\ SpaceInRing(RingDrain(ring, Frame)) = SpaceInRing(ring) + Frame
<1>1. Size \in Nat \ {0} /\ Frame \in 0..Size /\ Frame \in Nat
  BY SizeOfRing
<1>2. ring.head \in 0..(Size - 1) /\ ring.tail \in 0..(Size - 1)
  BY <1>1, OffsetsTyped
<1>3. /\ CopyOffset(ring, ring.head, Frame) = OffsetInc(ring, ring.head, Frame)
      /\ CopyOffset(ring, ring.tail, Frame) = OffsetInc(ring, ring.tail, Frame)
  BY <1>1, <1>2, OneWayRound
<1>4. /\ RingFill(ring, Frame) = CopiedIn(ring, Frame)
      /\ RingDrain(ring, Frame) = CopiedOut(ring, Frame)
  BY <1>3 DEF RingFill, RingDrain, CopiedIn, CopiedOut
<1>5. QED
  BY <1>1, <1>4, CopiesMove

-----------------------------------------------------------------------------
(* Steps that leave the ring and the answer alone.                         *)
LEMMA RestKeepsPoll ==
  ASSUME PollInv, UNCHANGED <<ring, direction, fOp, short, underran, overran>>,
         pc' # "closed" => pc # "closed",
         pc' = "copy" => pc = "copy" /\ chunkSize' = chunkSize,
         polled' => polled,
         pc' \in {"polling", "pollAgain"} => pc \in {"polling", "pollAgain"},
         polled' /\ pc' \in Waiting => pc \in Waiting
  PROVE  PollInv'
<1>1. Movable' = Movable /\ (InTime' <=> InTime)
  BY DEF Movable, InTime
<1>2. FileMatches'
  BY DEF PollInv, FileMatches
<1>3. InTime' => FrameHasRoom' /\ FrameIsThere'
  BY <1>1 DEF PollInv, FrameHasRoom, FrameIsThere
<1>4. ChunkIsMovable'
  BY <1>1 DEF PollInv, ChunkIsMovable
<1>5. AnswerHolds'
  BY <1>1 DEF PollInv, AnswerHolds, Waiting
<1>6. QED
  BY <1>2, <1>3, <1>4, <1>5 DEF PollInv

LEMMA LooksKeepPoll ==
  ASSUME DevInv, PollInv, LookLate \/ LookReturn \/ LookBlock \/ SleepFails \/ FallAsleep
  PROVE  PollInv'
<1>1. UNCHANGED <<ring, direction, fOp, short, underran, overran>>
  BY DEF LookLate, LookReturn, LookBlock, SleepFails, FallAsleep, streamVars, driverVars,
         slipVars, fileVars
<1>2. pc \in {"look", "asleep", "falling", "closeFalling"}
  BY DEF LookLate, LookReturn, LookBlock, SleepFails, FallAsleep
<1>3. pc' \in {"idle", "falling", "asleep", "closeAsleep"}
  BY DEF LookLate, LookReturn, LookBlock, SleepFails, FallAsleep, Asleep, Return
<1>4. polled' => polled
  BY DEF LookLate, LookReturn, LookBlock, SleepFails, FallAsleep, fileVars
<1>5. pc' \in Waiting => pc \in Waiting
  BY DEF LookLate, LookReturn, LookBlock, SleepFails, FallAsleep, Asleep, Waiting
<1>6. QED
  BY <1>1, <1>2, <1>3, <1>4, <1>5, RestKeepsPoll

LEMMA LookMovableKeepsPoll ==
  ASSUME DevInv, PollInv, LookMovable
  PROVE  PollInv'
<1>1. /\ UNCHANGED <<ring, direction, fOp, short, underran, overran>>
      /\ pc = "look" /\ pc' = "copy" /\ polled' = FALSE
  BY DEF LookMovable, streamVars, driverVars, slipVars
<1>2. Movable' = Movable /\ (InTime' <=> InTime)
  BY <1>1 DEF Movable, InTime
<1>3. Movable \in Nat /\ count \in Nat
  BY MovableIsLessThanRing, SizeOfRing DEF DevInv, TypeOK, StreamTypeOK
<1>4. chunkSize' <= Movable
  BY <1>3 DEF LookMovable
<1>5. FileMatches' /\ (InTime' => FrameHasRoom' /\ FrameIsThere')
  BY <1>1, <1>2 DEF PollInv, FileMatches, FrameHasRoom, FrameIsThere
<1>6. ChunkIsMovable' /\ AnswerHolds'
  BY <1>1, <1>2, <1>4 DEF ChunkIsMovable, AnswerHolds, Waiting
<1>7. QED
  BY <1>5, <1>6 DEF PollInv

LEMMA PollKeepsPoll ==
  ASSUME DevInv, PollInv, Poll \/ PollAgain \/ PollFails
  PROVE  PollInv'
<1>1. UNCHANGED <<ring, direction, fOp, short, underran, overran>>
  BY DEF Poll, PollAgain, PollLook, PollFails, streamVars, driverVars, slipVars, fileVars
<1>2. Movable' = Movable /\ (InTime' <=> InTime)
  BY <1>1 DEF Movable, InTime
<1>3. pc \in {"idle", "polling", "pollAgain"} /\ pc' \in {"idle", "polling"}
  BY DEF Poll, PollAgain, PollLook, PollFails
<1>4. FileMatches' /\ (InTime' => FrameHasRoom' /\ FrameIsThere')
  BY <1>1, <1>2, <1>3 DEF PollInv, FileMatches, FrameHasRoom, FrameIsThere
<1>5. ChunkIsMovable'
  BY <1>3 DEF ChunkIsMovable
<1>6. AnswerHolds'
  <2>1. CASE PollFails
    <3>1. ~polled' /\ pc' = "idle"
      BY <2>1 DEF PollInv, AnswerHolds, PollFails, fileVars
    <3>2. QED
      BY <3>1 DEF AnswerHolds
  <2>2. CASE PollLook
    <3>1. /\ polled' <=> Pollable /\ ~lastError
          /\ pc' = "polling" <=> ~(Pollable \/ lastError)
      BY <2>2 DEF PollLook
    <3>2. Pollable => Movable > 0
      <4>1. fOp = direction
        BY <1>3 DEF PollInv, FileMatches
      <4>2. QED
        BY <4>1 DEF Pollable, Movable
    <3>3. QED
      BY <1>2, <1>3, <3>1, <3>2 DEF AnswerHolds
  <2>3. QED
    BY <2>1, <2>2 DEF Poll, PollAgain
<1>7. QED
  BY <1>4, <1>5, <1>6 DEF PollInv

(* A chunk that is still there leaves the frames in flight theirs.         *)
LEMMA CopyKeepsPoll ==
  ASSUME DevInv, PollInv, CopyIn \/ CopyOut
  PROVE  PollInv'
<1>1. /\ UNCHANGED <<direction, fOp, short, underran, overran, polled>>
      /\ pc = "copy" /\ pc' \in {"idle", "look"}
  BY DEF CopyIn, CopyOut, AfterCopy, Return, slipVars, fileVars
<1>2. fOp = direction /\ ~polled /\ (InTime => chunkSize <= Movable)
  BY <1>1 DEF PollInv, FileMatches, AnswerHolds, ChunkIsMovable
<1>3. /\ SpaceInRing(ring) \in Nat /\ BytesInRing(ring) \in Nat
      /\ chunkSize \in Nat /\ Frame \in Nat
  BY CountsTyped DEF DevInv, TypeOK, StreamTypeOK
<1>4. ring \in RingType(Size)
  BY DEF DevInv, TypeOK, StreamTypeOK
<1>5. FileMatches' /\ ChunkIsMovable' /\ AnswerHolds'
  BY <1>1, <1>2 DEF FileMatches, ChunkIsMovable, AnswerHolds
<1>6. ASSUME InTime'
      PROVE  FrameHasRoom' /\ FrameIsThere'
  <2>1. InTime /\ FrameHasRoom /\ FrameIsThere /\ chunkSize <= Movable
    BY <1>1, <1>2, <1>6 DEF InTime, PollInv
  <2>2. CASE CopyIn
    <3>1. direction = "writing" /\ ring' = CopiedIn(ring, chunkSize)
      BY <1>2, <2>2 DEF CopyIn
    <3>2. BytesInRing(ring)' = BytesInRing(ring) + chunkSize
      BY <1>2, <1>3, <1>4, <2>1, <3>1, CopiesMove DEF Movable
    <3>3. QED
      BY <1>1, <1>3, <2>1, <3>1, <3>2 DEF FrameHasRoom, FrameIsThere
  <2>3. CASE CopyOut
    <3>1. direction = "reading" /\ ring' = CopiedOut(ring, chunkSize)
      BY <1>2, <2>3 DEF CopyOut
    <3>2. SpaceInRing(ring)' = SpaceInRing(ring) + chunkSize
      BY <1>2, <1>3, <1>4, <2>1, <3>1, CopiesMove DEF Movable
    <3>3. QED
      BY <1>1, <1>3, <2>1, <3>1, <3>2 DEF FrameHasRoom, FrameIsThere
  <2>4. QED
    BY <2>2, <2>3
<1>7. QED
  BY <1>5, <1>6 DEF PollInv

LEMMA OpenKeepsPoll ==
  ASSUME PollInv, Open
  PROVE  PollInv'
<1>1. direction' = "stopped" /\ fOp' = "stopped" /\ pc' = "idle" /\ polled' = FALSE
  BY DEF Open, Ready
<1>2. QED
  BY <1>1 DEF PollInv, FileMatches, FrameHasRoom, FrameIsThere, ChunkIsMovable, AnswerHolds

LEMMA CallKeepsPoll ==
  ASSUME DevInv, PollInv, NEW dir \in Transferring, NEW n \in 0..MaxCall, Call(dir, n)
  PROVE  PollInv'
<1>1. /\ pc = "idle" /\ pc' \in {"idle", "look"} /\ fOp' = dir
      /\ ring' = ring /\ underran' = underran
      /\ polled' <=> polled /\ fOp = dir
  BY DEF Call, Start, streamVars, driverVars, slipVars
<1>2. CASE fOp = dir
  <2>1. UNCHANGED <<ring, direction, fOp, short, underran, overran>>
    BY <1>1, <1>2 DEF Call, streamVars, driverVars, slipVars
  <2>2. pc \in Waiting
    BY <1>1 DEF Waiting
  <2>3. QED
    BY <1>1, <2>1, <2>2, RestKeepsPoll
<1>3. CASE fOp # dir
  <2>1. direction' = dir /\ ~polled' /\ FrameStarts(ring, dir)
    BY <1>1, <1>3 DEF Call, Start
  <2>2. FileMatches' /\ ChunkIsMovable' /\ AnswerHolds'
    BY <1>1, <2>1 DEF FileMatches, ChunkIsMovable, AnswerHolds
  <2>3. FrameHasRoom'
    <3>1. overran' <=> overran \/ (dir = "reading" /\ SpaceInRing(ring) < Frame)
      BY <2>1 DEF FrameStarts
    <3>2. SpaceInRing(ring) \in Nat /\ Frame \in Nat
      BY CountsTyped DEF DevInv, TypeOK, StreamTypeOK
    <3>3. QED
      BY <1>1, <2>1, <3>1, <3>2 DEF FrameHasRoom
  <2>4. FrameIsThere'
    <3>1. short' <=> dir = "writing" /\ BytesInRing(ring) < Frame
      BY <2>1 DEF FrameStarts
    <3>2. BytesInRing(ring) \in Nat /\ Frame \in Nat
      BY CountsTyped DEF DevInv, TypeOK, StreamTypeOK
    <3>3. QED
      BY <1>1, <2>1, <3>1, <3>2 DEF FrameIsThere
  <2>5. QED
    BY <2>2, <2>3, <2>4 DEF PollInv
<1>4. QED
  BY <1>2, <1>3

(* The padding of the last frame fits, or is left out.                     *)
LEMMA PadKeepsFrame ==
  ASSUME DevInv
  PROVE  BytesInRing(Padded) \in Nat /\ BytesInRing(Padded) >= BytesInRing(ring)
<1>1. ring \in RingType(Size) /\ Size \in Nat
  BY SizeOfRing DEF DevInv, TypeOK, StreamTypeOK
<1>2. /\ SpaceInRing(ring) \in Nat /\ BytesInRing(ring) \in Nat
      /\ PadSize \in Nat
  BY <1>1, CountsTyped, PadIsLessThanRing
<1>3. PadSize <= SpaceInRing(ring)
  BY <1>2 DEF PadSize, PadFits, FillFits
<1>4. BytesInRing(Padded) = BytesInRing(ring) + PadSize
  BY <1>1, <1>2, <1>3, CopiesMove DEF Padded
<1>5. QED
  BY <1>2, <1>4

LEMMA CloseKeepsPoll ==
  ASSUME DevInv, PollInv, Close \/ CloseDone \/ CloseAgain \/ CloseAbandon
  PROVE  PollInv'
<1>1. CASE Close \/ CloseAbandon
  <2>1. UNCHANGED <<ring, direction, fOp, short, underran, overran, polled>>
    BY <1>1 DEF Close, CloseAbandon, streamVars, driverVars, slipVars, fileVars
  <2>2. pc \in {"idle", "closeAsleep"} /\ pc' \in {"closing", "closed"}
    BY <1>1 DEF Close, CloseAbandon
  <2>3. pc' \notin Waiting
    BY <2>2 DEF Waiting
  <2>4. QED
    BY <2>1, <2>2, <2>3, RestKeepsPoll
<1>2. CASE CloseAgain
  <2>1. /\ UNCHANGED <<direction, fOp, short, underran, overran, polled>>
        /\ direction = "writing" /\ pc = "closing" /\ pc' = "closeFalling"
        /\ ring' = Padded
    BY <1>2 DEF CloseAgain, slipVars, fileVars
  <2>2. pc' \notin Waiting
    BY <2>1 DEF Waiting
  <2>3. FileMatches' /\ ChunkIsMovable' /\ AnswerHolds'
    BY <2>1, <2>2 DEF PollInv, FileMatches, ChunkIsMovable, AnswerHolds
  <2>4. /\ BytesInRing(ring) \in Nat /\ Frame \in Nat
        /\ BytesInRing(ring)' \in Nat /\ BytesInRing(ring)' >= BytesInRing(ring)
    BY <2>1, CountsTyped, PadKeepsFrame DEF DevInv, TypeOK, StreamTypeOK
  <2>5. InTime' => FrameHasRoom' /\ FrameIsThere'
    BY <2>1, <2>4 DEF PollInv, InTime, FrameHasRoom, FrameIsThere
  <2>6. QED
    BY <2>3, <2>5 DEF PollInv
<1>3. CASE CloseDone
  <2>1. direction' = "stopped" /\ pc' = "closed"
    BY <1>3 DEF CloseDone, Stop
  <2>2. pc' \notin Waiting
    BY <2>1 DEF Waiting
  <2>3. QED
    BY <2>1, <2>2 DEF PollInv, FileMatches, FrameHasRoom, FrameIsThere, ChunkIsMovable,
       AnswerHolds
<1>4. QED
  BY <1>1, <1>2, <1>3

(* An interrupt in time moves a whole frame, and only adds to what the     *)
(* program can move.                                                       *)
LEMMA IrqMoves ==
  ASSUME DevInv, PollInv, Irq, InTime'
  PROVE  /\ InTime /\ FrameHasRoom' /\ FrameIsThere'
         /\ fOp' = fOp /\ fOp = direction => Movable' \in Nat /\ Movable' >= Movable
<1>1. /\ UNCHANGED direction
      /\ short' <=> direction = "writing" /\ BytesInRing(ring') < Frame
      /\ overran' <=> overran \/ (direction = "reading" /\ SpaceInRing(ring') < Frame)
  BY DEF Irq, FrameStarts
<1>2. ring \in RingType(Size) /\ ring' \in RingType(Size)
  BY IrqTyped DEF DevInv, TypeOK, StreamTypeOK
<1>3. /\ SpaceInRing(ring) \in Nat /\ BytesInRing(ring) \in Nat /\ Frame \in Nat
      /\ SpaceInRing(ring') \in Nat /\ BytesInRing(ring') \in Nat
  BY <1>2, SizeOfRing, SpaceAndBytes
<1>4. InTime /\ (direction = "writing" => ~short)
  <2>1. ~overran' /\ ~underran'
    BY Zenon DEF InTime
  <2>2. ~overran
    BY <1>1, <2>1, Zenon
  <2>3. CASE IrqFill
    <3>1. direction = "reading" /\ underran' = underran
      BY <2>3 DEF IrqFill
    <3>2. QED
      BY <2>1, <2>2, <3>1, Zenon DEF InTime
  <2>4. CASE IrqDrain
    <3>1. underran' = (underran \/ short)
      BY <2>4, Zenon DEF IrqDrain
    <3>2. QED
      BY <2>1, <2>2, <3>1, Zenon DEF InTime
  <2>5. QED
    BY <2>3, <2>4 DEF Irq
<1>5. FrameHasRoom /\ FrameIsThere
  BY <1>4 DEF PollInv
<1>6. FrameHasRoom' /\ FrameIsThere'
  BY <1>1, <1>3 DEF InTime, FrameHasRoom, FrameIsThere
<1>7. ASSUME fOp' = fOp, fOp = direction
      PROVE  Movable' \in Nat /\ Movable' >= Movable
  <2>1. CASE IrqFill
    <3>1. direction = "reading" /\ ring' = RingFill(ring, Frame)
      BY <2>1 DEF IrqFill
    <3>2. BytesInRing(ring') = BytesInRing(ring) + Frame
      BY <1>2, <1>3, <1>4, <1>5, <3>1, FramesMove DEF FrameHasRoom, InTime
    <3>3. QED
      BY <1>3, <1>7, <3>1, <3>2 DEF Movable
  <2>2. CASE IrqDrain
    <3>1. direction = "writing" /\ ring' = RingDrain(ring, Frame)
      BY <2>2 DEF IrqDrain
    <3>2. SpaceInRing(ring') = SpaceInRing(ring) + Frame
      BY <1>2, <1>3, <1>4, <1>5, <3>1, FramesMove DEF FrameIsThere, InTime
    <3>3. QED
      BY <1>3, <1>7, <3>1, <3>2 DEF Movable
  <2>3. QED
    BY <2>1, <2>2 DEF Irq
<1>8. QED
  BY <1>4, <1>6, <1>7

LEMMA WakeMoves ==
  ASSUME Wake
  PROVE  /\ pc' = "closed" <=> pc = "closed"
         /\ pc' = "copy" <=> pc = "copy"
         /\ pc' \in {"polling", "pollAgain"} => pc \in {"polling", "pollAgain"}
         /\ pc' \in Waiting => pc \in Waiting
BY DEF Wake, Waiting

LEMMA InterruptKeepsPoll ==
  ASSUME DevInv, PollInv, Interrupt
  PROVE  PollInv'
<1>1. UNCHANGED <<fOp, chunkSize, polled>>
  BY DEF Interrupt, fileVars, callVars
<1>2. /\ pc' = "closed" <=> pc = "closed"
      /\ pc' = "copy" <=> pc = "copy"
      /\ pc' \in {"polling", "pollAgain"} => pc \in {"polling", "pollAgain"}
      /\ pc' \in Waiting => pc \in Waiting
  <2>1. CASE Wake
    BY <2>1, WakeMoves
  <2>2. CASE pc' = pc
    BY <2>2
  <2>3. QED
    BY <2>1, <2>2 DEF Interrupt
<1>3. CASE IrqStopped
  <2>1. UNCHANGED <<ring, direction, short, underran, overran>>
    BY <1>3 DEF IrqStopped, driverVars, slipVars
  <2>2. QED
    BY <1>1, <1>2, <2>1, RestKeepsPoll
<1>4. CASE FirstIrq \/ Irq
  <2>1. direction' = direction
    BY <1>4 DEF FirstIrq, Irq
  <2>2. FileMatches'
    BY <1>1, <1>2, <2>1 DEF PollInv, FileMatches
  <2>3. ASSUME InTime'
        PROVE  /\ InTime /\ FrameHasRoom' /\ FrameIsThere'
               /\ fOp = direction =>
                    Movable \in Nat /\ Movable' \in Nat /\ Movable' >= Movable
    <3>1. /\ SpaceInRing(ring) \in Nat /\ BytesInRing(ring) \in Nat /\ Frame \in Nat
          /\ Movable \in Nat
      BY CountsTyped DEF DevInv, TypeOK, StreamTypeOK, Movable
    <3>2. CASE FirstIrq
      <4>1. /\ ring' = ring /\ underran' = underran
            /\ short' <=> direction = "writing" /\ BytesInRing(ring) < Frame
            /\ overran' <=> overran \/ (direction = "reading" /\ SpaceInRing(ring) < Frame)
        BY <3>2 DEF FirstIrq, FrameStarts
      <4>2. FrameHasRoom' /\ FrameIsThere'
        BY <2>1, <2>3, <3>1, <4>1 DEF InTime, FrameHasRoom, FrameIsThere
      <4>3. InTime
        <5>1. ~overran' /\ ~underran'
          BY <2>3, Zenon DEF InTime
        <5>2. QED
          BY <4>1, <5>1, Zenon DEF InTime
      <4>4. Movable' = Movable
        BY <1>1, <4>1 DEF Movable
      <4>5. QED
        BY <3>1, <4>2, <4>3, <4>4
    <3>3. CASE Irq
      BY <1>1, <2>3, <3>1, <3>3, IrqMoves
    <3>4. QED
      BY <1>4, <3>2, <3>3
  <2>4. ChunkIsMovable'
    <3>1. SUFFICES ASSUME pc' = "copy", InTime'
                   PROVE  chunkSize' <= Movable'
      BY DEF ChunkIsMovable
    <3>2. pc = "copy" /\ fOp = direction /\ chunkSize \in Nat
      BY <1>2, <3>1 DEF PollInv, FileMatches, DevInv, TypeOK
    <3>3. chunkSize <= Movable
      BY <2>3, <3>1, <3>2 DEF PollInv, ChunkIsMovable
    <3>4. QED
      BY <1>1, <2>3, <3>1, <3>2, <3>3
  <2>5. AnswerHolds'
    <3>1. pc' \in {"copy", "polling", "pollAgain"} => ~polled'
      BY <1>1, <1>2 DEF PollInv, AnswerHolds
    <3>2. ASSUME polled', InTime', pc' \in Waiting
          PROVE  Movable' > 0
      <4>1. pc \in Waiting /\ fOp = direction
        BY <1>2, <3>2 DEF PollInv, FileMatches, Waiting
      <4>2. Movable > 0
        BY <1>1, <2>3, <3>2, <4>1 DEF PollInv, AnswerHolds
      <4>3. QED
        BY <2>3, <3>2, <4>1, <4>2
    <3>3. QED
      BY <3>1, <3>2 DEF AnswerHolds
  <2>6. QED
    BY <2>2, <2>3, <2>4, <2>5 DEF PollInv
<1>5. QED
  BY <1>3, <1>4 DEF Interrupt

LEMMA CardKeepsPoll ==
  ASSUME PollInv, Card \/ UNCHANGED vars
  PROVE  PollInv'
<1>1. UNCHANGED <<ring, direction, fOp, short, underran, overran, pc, chunkSize, polled>>
  BY DEF Card, MoveByte, Stall, BecomeLate, vars, streamVars, driverVars, slipVars,
     fileVars, callVars
<1>2. QED
  BY <1>1, RestKeepsPoll

(* The inductive invariant behind the answers of poll().                   *)
THEOREM PollInvariance == Spec => []PollInv
<1>1. Init => PollInv
  BY DEF Init, StreamInit, PollInv, FileMatches, FrameHasRoom, FrameIsThere,
     ChunkIsMovable, AnswerHolds, Waiting
<1>2. DevInv /\ PollInv /\ [Next]_vars => PollInv'
  <2> SUFFICES ASSUME DevInv, PollInv, [Next]_vars
               PROVE  PollInv'
    OBVIOUS
  <2>1. CASE Open
    BY <2>1, OpenKeepsPoll
  <2>2. CASE \E dir \in Transferring, n \in 0..MaxCall : Call(dir, n)
    BY <2>2, CallKeepsPoll
  <2>3. CASE Close \/ Poll
    BY <2>3, CloseKeepsPoll, PollKeepsPoll
  <2>4. CASE Program
    BY <2>4, LooksKeepPoll, LookMovableKeepsPoll, CopyKeepsPoll, PollKeepsPoll,
       CloseKeepsPoll DEF Program
  <2>5. CASE SleepTimeout \/ Signal
    BY <2>5, LooksKeepPoll, CloseKeepsPoll, PollKeepsPoll DEF SleepTimeout, Signal
  <2>6. CASE Interrupt
    BY <2>6, InterruptKeepsPoll
  <2>7. CASE Card \/ UNCHANGED vars
    BY <2>7, CardKeepsPoll
  <2>8. QED
    BY <2>1, <2>2, <2>3, <2>4, <2>5, <2>6, <2>7 DEF Next
<1>3. QED
  BY <1>1, <1>2, DeviceInvariance, PTL DEF Spec

(* A call that poll() announced does not wait, for every size of frame and *)
(* ring, whatever the interrupts do in between: unless they overtook the   *)
(* program there is something to move.                                     *)
THEOREM PolledCallsMoveAlways == Spec => []PolledCallsMove
<1>1. PollInv => PolledCallsMove
  BY DEF PollInv, AnswerHolds, InTime, Waiting, PolledCallsMove
<1>2. QED
  BY <1>1, PollInvariance, PTL

-----------------------------------------------------------------------------
(***************************************************************************)
(* The bytes that go through the device, for every size of frame and ring  *)
(* and every interleaving of the program with the interrupts: what read()  *)
(* returns is what came off the tape, and what write() took is on the tape *)
(* or still in the ring, as long as nobody was late.                       *)
(*                                                                         *)
(* A program that uses one open file in both directions leaves the ring    *)
(* where the other direction had it while DMA starts at its beginning, so  *)
(* that the theorems are about programs that do not (MayTurn).             *)
(***************************************************************************)

(* A file that has not transferred yet is as open() left it.               *)
Fresh ==
  direction = "stopped" /\ pc # "closed" =>
    /\ ring = EmptyRing /\ contents = Blank
    /\ got = <<>> /\ written = 0
    /\ InTime

(* The card works in the direction of the stream.  After a close() that    *)
(* gave up it may write on for a stream that is stopped.                   *)
CardFollows ==
  /\ direction # "stopped" => hw = direction
  /\ hw = "reading" => direction = "reading"
  /\ pc \in {"closeFalling", "closeAsleep"} => direction = "writing"
  /\ pc = "closed" /\ direction # "stopped" => direction = "writing" /\ abandoned

(* Only the other direction is ever late.                                  *)
OneIsLate ==
  /\ direction = "reading" => ~underran
  /\ direction = "writing" => ~overran

(* DMA works on a whole frame of the ring.                                 *)
OnFrame(offset) ==
  \E k \in 0..(Frames - 1) : offset = k * Frame

(* The bytes in the ring are the last ones that came off the tape before   *)
(* those of the frame in flight, and those copied out are the ones before. *)
Taken == tapeBytes - moved - BytesInRing(ring)

RingHoldsTape ==
  /\ dma = ring.head /\ OnFrame(ring.head)
  /\ Taken >= 0
  /\ \A j \in 0..(moved - 1) : contents[dma + j] = tapeBytes - moved + j + 1
  /\ \A i \in 1..BytesInRing(ring) :
       contents[CopyPlace(ring, ring.tail, i)] = Taken + i
  /\ got # <<>> => got[Len(got)] = Taken
  /\ irqFunc = "first" => BytesInRing(ring) = 0 /\ got = <<>>

ReadData == direction = "reading" /\ ~overran => RingHoldsTape

Consecutive(s) ==
  /\ \A i \in DOMAIN s : s[i] > 0
  /\ \A i \in 2..Len(s) : s[i] = s[i-1] + 1

ReadInv == ReadData /\ (~overran => Consecutive(got))

(* The file is open, and close() has not been called.                      *)
Working == {"idle", "look", "copy", "falling", "asleep", "polling", "pollAgain"}

(* The bytes in the ring are the last ones written, and the padding that   *)
(* close() put behind them; "first" of them are on the tape, and what the  *)
(* frame in flight has moved if it was there when the frame started.       *)
RingHoldsWritten(first) ==
  /\ written <= first + BytesInRing(ring)
  /\ pc \in Working => written = first + BytesInRing(ring)
  /\ \A i \in 1..BytesInRing(ring) :
       first + i <= written => contents[CopyPlace(ring, ring.tail, i)] = first + i
  /\ sent >= written \/ sent >= first
  /\ ~short => sent >= written \/ sent >= first + moved

WriteData ==
  direction = "writing" /\ ~underran =>
    /\ dma = ring.tail /\ OnFrame(ring.tail)
    /\ \E first \in Nat : RingHoldsWritten(first)

(* Nothing is sent but what was written, and all of it was when the stream *)
(* is not writing.                                                         *)
SentIsWritten ==
  /\ sent <= written
  /\ hw = "writing" => \A place \in Places : contents[place] <= written
  /\ direction # "writing" /\ ~underran => sent = written

WriteInv == WriteData /\ SentIsWritten

DataInv == Fresh /\ CardFollows /\ OneIsLate /\ ReadInv /\ WriteInv

-----------------------------------------------------------------------------
(* The places of a ring: those of different bytes differ, those behind the *)
(* head follow the bytes in it, and taking bytes out renumbers the rest.   *)
LEMMA PlacesDiffer ==
  ASSUME NEW r \in RingType(Size), NEW offset \in 0..(Size - 1),
         NEW i \in 1..Size, NEW j \in 1..Size, i # j
  PROVE  CopyPlace(r, offset, i) # CopyPlace(r, offset, j)
<1>1. r.size = Size /\ Size \in Nat
  BY SizeOfRing, OffsetsTyped
<1>2. QED
  BY <1>1 DEF CopyPlace

LEMMA PlacesBehind ==
  ASSUME NEW r \in RingType(Size), NEW i \in 1..(Size - BytesInRing(r))
  PROVE  CopyPlace(r, r.head, i) = CopyPlace(r, r.tail, BytesInRing(r) + i)
<1>1. /\ r.size = Size /\ Size \in Nat
      /\ r.head \in 0..(Size - 1) /\ r.tail \in 0..(Size - 1)
  BY SizeOfRing, OffsetsTyped
<1>2. QED
  BY <1>1 DEF CopyPlace, BytesInRing, OffsetSub

LEMMA PlacesAhead ==
  ASSUME NEW r \in RingType(Size), NEW n \in 0..BytesInRing(r),
         NEW i \in 1..(Size - n)
  PROVE  CopyPlace(CopiedOut(r, n), CopiedOut(r, n).tail, i) = CopyPlace(r, r.tail, n + i)
<1>1. /\ r.size = Size /\ Size \in Nat
      /\ r.head \in 0..(Size - 1) /\ r.tail \in 0..(Size - 1)
  BY SizeOfRing, OffsetsTyped
<1>2. BytesInRing(r) \in 0..(Size - 1)
  BY SizeOfRing, SpaceAndBytes
<1>3. /\ CopiedOut(r, n).size = Size
      /\ CopiedOut(r, n).tail = CopyOffset(r, r.tail, n)
  BY <1>1 DEF CopiedOut, RingType
<1>4. QED
  BY <1>1, <1>2, <1>3 DEF CopyPlace, CopyOffset

(* Bytes put in leave the places of the others.                            *)
LEMMA PlacesKept ==
  ASSUME NEW r \in RingType(Size), NEW n, NEW i
  PROVE  CopyPlace(CopiedIn(r, n), CopiedIn(r, n).tail, i) = CopyPlace(r, r.tail, i)
BY DEF CopyPlace, CopiedIn, RingType

(* A frame of the ring does not wrap, and the next one begins behind it or *)
(* at the beginning of the ring.                                           *)
LEMMA FramesOfRing ==
  ASSUME NEW r \in RingType(Size), NEW offset, OnFrame(offset)
  PROVE  /\ offset \in 0..(Size - 1) /\ offset + Frame <= Size
         /\ \A j \in 0..(Frame - 1) : CopyPlace(r, offset, j + 1) = offset + j
         /\ OnFrame(OffsetInc(r, offset, Frame))
<1>1. PICK k \in 0..(Frames - 1) : offset = k * Frame
  BY DEF OnFrame
<1>2. Frame \in Nat \ {0} /\ Frames \in Nat \ {0, 1} /\ k \in Nat
  BY StreamAssumption
<1>3. PICK m \in Nat : Frames = k + 1 + m
  <2>1. Frames - k - 1 \in Nat /\ Frames = k + 1 + (Frames - k - 1)
    BY <1>1, <1>2
  <2>2. QED
    BY <2>1
<1>4. k * Frame \in Nat /\ m * Frame \in Nat
  BY <1>2, <1>3
<1>5. Size = k * Frame + Frame + m * Frame
  BY <1>2, <1>3 DEF Size
<1>6. offset \in Nat /\ Size \in Nat /\ offset + Frame <= Size /\ offset < Size
  BY <1>1, <1>2, <1>4, <1>5
<1>7. r.size = Size
  BY SizeOfRing, OffsetsTyped
<1>8. \A j \in 0..(Frame - 1) : CopyPlace(r, offset, j + 1) = offset + j
  BY <1>2, <1>6, <1>7 DEF CopyPlace
<1>9. OnFrame(OffsetInc(r, offset, Frame))
  <2>1. CASE m = 0
    <3>1. OffsetInc(r, offset, Frame) = 0
      BY <1>1, <1>2, <1>4, <1>5, <1>7, <2>1 DEF OffsetInc
    <3>2. 0 = 0 * Frame /\ 0 \in 0..(Frames - 1)
      BY <1>2
    <3>3. QED
      BY <3>1, <3>2 DEF OnFrame
  <2>2. CASE m # 0
    <3>1. m * Frame >= Frame
      BY <1>2, <1>3, <2>2
    <3>2. PICK l \in Nat : m = l + 1
      <4>1. m - 1 \in Nat /\ m = (m - 1) + 1
        BY <1>3, <2>2
      <4>2. QED
        BY <4>1
    <3>3. m * Frame = l * Frame + Frame /\ l * Frame \in Nat
      BY <1>2, <3>2
    <3>4. OffsetInc(r, offset, Frame) = IF offset + Frame >= Size THEN offset + Frame - Size
                                                                 ELSE offset + Frame
      BY <1>7 DEF OffsetInc
    <3>5. offset + Frame < Size
      BY <1>1, <1>2, <1>4, <1>5, <3>3
    <3>6. OffsetInc(r, offset, Frame) = k * Frame + Frame
      BY <1>1, <1>2, <1>6, <3>4, <3>5
    <3>7. (k + 1) * Frame = k * Frame + Frame /\ k + 1 \in 0..(Frames - 1)
      BY <1>2, <1>3, <2>2
    <3>8. QED
      BY <3>6, <3>7 DEF OnFrame
  <2>3. QED
    BY <2>1, <2>2
<1>10. QED
  BY <1>2, <1>6, <1>8, <1>9

-----------------------------------------------------------------------------
(* The variables as numbers and sequences.                                 *)
LEMMA DataTyped ==
  ASSUME DevInv
  PROVE  /\ ring \in RingType(Size) /\ contents \in [Places -> Nat]
         /\ SpaceInRing(ring) \in Nat /\ BytesInRing(ring) \in Nat
         /\ SpaceInRing(ring) + BytesInRing(ring) = Size - 1
         /\ Size \in Nat \ {0} /\ Frame \in Nat \ {0} /\ 2 * Frame <= Size
         /\ tapeBytes \in Nat /\ moved \in 0..Frame /\ moved \in Nat
         /\ sent \in Nat /\ written \in Nat /\ got \in Seq(Nat) /\ chunkSize \in Nat
<1>1. ring \in RingType(Size) /\ contents \in [Places -> Nat]
  BY DEF DevInv, TypeOK, StreamTypeOK
<1>2. /\ tapeBytes \in 0..MaxTape /\ moved \in 0..Frame
      /\ sent \in Nat /\ written \in Nat /\ got \in Seq(Nat) /\ chunkSize \in Nat
  BY DEF DevInv, TypeOK, StreamTypeOK
<1>3. MaxTape \in Nat
  BY StreamAssumption
<1>4. QED
  BY <1>1, <1>2, <1>3, CountsTyped, SizeOfRing

(* Steps that leave the stream alone, and its ghosts.                      *)
LEMMA RestKeepsData ==
  ASSUME DataInv,
         UNCHANGED <<ring, contents, direction, irqFunc, hw, dma, moved, tapeBytes, sent,
                     short, underran, overran, written, got>>,
         pc' # "closed" => pc # "closed",
         pc' \in {"closeFalling", "closeAsleep"} => direction = "writing",
         pc' = "closed" /\ direction # "stopped" => direction = "writing" /\ abandoned',
         pc' \in Working => pc \in Working
  PROVE  DataInv'
<1>1. Fresh' /\ CardFollows' /\ OneIsLate'
  BY DEF DataInv, Fresh, CardFollows, OneIsLate, InTime
<1>2. BytesInRing(ring)' = BytesInRing(ring) /\ Taken' = Taken
  BY DEF Taken
<1>3. ReadInv'
  BY <1>2 DEF DataInv, ReadInv, ReadData, RingHoldsTape
<1>4. WriteInv'
  <2>1. ASSUME NEW first \in Nat, RingHoldsWritten(first)
        PROVE  RingHoldsWritten(first)'
    BY <1>2, <2>1 DEF RingHoldsWritten
  <2>2. WriteData'
    BY <2>1 DEF DataInv, WriteInv, WriteData
  <2>3. SentIsWritten'
    BY DEF DataInv, WriteInv, SentIsWritten
  <2>4. QED
    BY <2>2, <2>3 DEF WriteInv
<1>5. QED
  BY <1>1, <1>3, <1>4 DEF DataInv

LEMMA LooksKeepData ==
  ASSUME DataInv, \/ LookLate \/ LookReturn \/ LookBlock \/ LookMovable \/ SleepFails
                  \/ FallAsleep \/ Poll \/ PollAgain \/ PollFails
  PROVE  DataInv'
<1>1. UNCHANGED <<ring, contents, direction, irqFunc, hw, dma, moved, tapeBytes, sent,
                  short, underran, overran, written, got>>
  BY DEF LookLate, LookReturn, LookBlock, LookMovable, SleepFails, FallAsleep, Poll,
         PollAgain, PollLook, PollFails, streamVars, driverVars, cardVars, slipVars, dataVars
<1>2. \/ pc \in Working /\ pc' \in Working
      \/ pc = "closeFalling" /\ pc' = "closeAsleep"
  <2>1. CASE FallAsleep
    BY <2>1 DEF FallAsleep, Asleep, Working
  <2>2. CASE LookLate \/ LookReturn \/ LookBlock \/ LookMovable \/ SleepFails
    BY <2>2 DEF LookLate, LookReturn, LookBlock, LookMovable, SleepFails, Return, Working
  <2>3. CASE Poll \/ PollAgain \/ PollFails
    BY <2>3 DEF Poll, PollAgain, PollLook, PollFails, Working
  <2>4. QED
    BY <2>1, <2>2, <2>3
<1>3. pc = "closeFalling" => direction = "writing"
  BY DEF DataInv, CardFollows
<1>4. /\ pc' # "closed" /\ pc # "closed" /\ (pc' \in Working => pc \in Working)
      /\ pc' \in {"closeFalling", "closeAsleep"} => direction = "writing"
  BY <1>2, <1>3 DEF Working
<1>5. QED
  BY <1>1, <1>4, RestKeepsData

LEMMA OpenKeepsData ==
  ASSUME DataInv, Open
  PROVE  DataInv'
<1>1. /\ pc = "closed" /\ pc' = "idle" /\ direction' = "stopped" /\ hw' = hw
      /\ ring' = EmptyRing /\ contents' = Blank /\ sent' = 0 /\ written' = 0 /\ got' = <<>>
      /\ ~underran' /\ ~overran'
  BY DEF Open, Ready
<1>2. hw # "reading"
  BY <1>1 DEF DataInv, CardFollows
<1>3. Fresh' /\ CardFollows' /\ OneIsLate'
  BY <1>1, <1>2 DEF Fresh, CardFollows, OneIsLate, InTime
<1>4. ReadInv'
  BY <1>1 DEF ReadInv, ReadData, Consecutive
<1>5. WriteInv'
  <2>1. \A place \in Places : Blank[place] <= 0
    BY DEF Blank
  <2>2. QED
    BY <1>1, <2>1 DEF WriteInv, WriteData, SentIsWritten
<1>6. QED
  BY <1>3, <1>4, <1>5 DEF DataInv

(* The first call of an open file starts the stream on an empty ring.      *)
LEMMA CallKeepsData ==
  ASSUME ~MayTurn, DevInv, PollInv, DataInv,
         NEW dir \in Transferring, NEW n \in 0..MaxCall, Call(dir, n)
  PROVE  DataInv'
<1>1. /\ pc = "idle" /\ pc' \in {"idle", "look"}
      /\ fOp \in {"stopped", dir} /\ fOp = direction
      /\ UNCHANGED <<written, got>>
  BY DEF Call, PollInv, FileMatches, dataVars
<1>2. CASE fOp = dir
  <2>1. UNCHANGED <<ring, contents, direction, irqFunc, hw, dma, moved, tapeBytes, sent,
                    short, underran, overran>>
    BY <1>2 DEF Call, streamVars, driverVars, cardVars, slipVars
  <2>2. QED
    BY <1>1, <2>1, RestKeepsData DEF Working
<1>3. CASE fOp # dir
  <2>1. /\ direction = "stopped" /\ direction' = dir /\ hw' = dir /\ dma' = 0 /\ moved' = 0
        /\ UNCHANGED <<ring, contents, irqFunc, tapeBytes, sent, underran>>
        /\ FrameStarts(ring, dir)
    BY <1>1, <1>3 DEF Call, Start
  <2>2. dir \in {"reading", "writing"}
    BY DeviceAssumption
  <2>3. /\ ring = EmptyRing /\ contents = Blank /\ got = <<>> /\ written = 0
        /\ ~overran /\ ~underran
    BY <1>1, <2>1 DEF DataInv, Fresh, InTime
  <2>4. sent = 0
    BY <2>1, <2>3 DEF DataInv, WriteInv, SentIsWritten
  <2>5. dir = "writing" => ~overran'
    BY <2>1, <2>3 DEF FrameStarts
  <2>6. Fresh' /\ CardFollows' /\ OneIsLate'
    BY <1>1, <2>1, <2>2, <2>3, <2>5 DEF Fresh, CardFollows, OneIsLate
  <2>7. /\ BytesInRing(ring') = 0 /\ ring'.head = 0 /\ ring'.tail = 0
        /\ BytesInRing(ring)' = 0
    BY <2>1, <2>3 DEF BytesInRing, OffsetSub, EmptyRing
  <2>8. OnFrame(0)
    <3>1. 0 = 0 * Frame /\ 0 \in 0..(Frames - 1)
      BY StreamAssumption
    <3>2. QED
      BY <3>1 DEF OnFrame
  <2>9. ReadInv'
    <3>1. tapeBytes \in Nat
      BY DataTyped
    <3>2. RingHoldsTape'
      BY <1>1, <2>1, <2>3, <2>7, <2>8, <3>1 DEF RingHoldsTape, Taken
    <3>3. QED
      BY <1>1, <2>3, <3>2 DEF ReadInv, ReadData, Consecutive
  <2>10. WriteInv'
    <3>1. RingHoldsWritten(0)'
      BY <1>1, <2>1, <2>3, <2>4, <2>7 DEF RingHoldsWritten
    <3>2. \A place \in Places : Blank[place] <= 0
      BY DEF Blank
    <3>3. QED
      BY <1>1, <2>1, <2>3, <2>4, <2>7, <2>8, <3>1, <3>2
         DEF WriteInv, WriteData, SentIsWritten
  <2>11. QED
    BY <2>6, <2>9, <2>10 DEF DataInv
<1>4. QED
  BY <1>2, <1>3

-----------------------------------------------------------------------------
(* One list behind the other.                                              *)
LEMMA Joined ==
  ASSUME NEW s \in Seq(Nat), NEW t \in Seq(Nat)
  PROVE  /\ s \o t \in Seq(Nat) /\ Len(s \o t) = Len(s) + Len(t) /\ Len(s) \in Nat
         /\ \A i \in 1..Len(s) : (s \o t)[i] = s[i]
         /\ \A i \in 1..(Len(s) + Len(t)) : i > Len(s) => (s \o t)[i] = t[i - Len(s)]
OBVIOUS

(* Stamps that follow on from those that are there.                        *)
LEMMA AppendConsecutive ==
  ASSUME NEW s \in Seq(Nat), NEW c \in Nat, NEW t \in Seq(Nat), Len(t) = c,
         NEW base \in Nat, Consecutive(s), s # <<>> => s[Len(s)] = base,
         \A i \in 1..c : t[i] = base + i
  PROVE  /\ Consecutive(s \o t)
         /\ s \o t # <<>> => (s \o t)[Len(s \o t)] = base + c
<1> DEFINE st == s \o t
           n  == Len(s)
<1>1. /\ n \in Nat /\ st \in Seq(Nat) /\ Len(st) = n + c
      /\ \A i \in 1..n : st[i] = s[i]
      /\ \A i \in 1..(n + c) : i > n => st[i] = t[i - n]
  BY Joined, Zenon
<1>2. \A i \in 1..(n + c) : i > n => st[i] = base + (i - n)
  <2>1. SUFFICES ASSUME NEW i \in 1..(n + c), i > n
                 PROVE  st[i] = base + (i - n)
    OBVIOUS
  <2>2. i - n \in 1..c
    BY <1>1, <2>1
  <2>3. QED
    BY <1>1, <2>1, <2>2
<1>3. /\ \A i \in 1..n : s[i] > 0
      /\ \A i \in 2..n : s[i] = s[i-1] + 1
      /\ n > 0 => s[n] = base
  <2>1. DOMAIN s = 1..n /\ (n > 0 => s # <<>>)
    OBVIOUS
  <2>2. QED
    BY <2>1 DEF Consecutive
<1>4. DOMAIN st = 1..(n + c) /\ (st # <<>> => n + c > 0)
  BY <1>1
<1> HIDE DEF st, n
<1>5. \A i \in 1..(n + c) : st[i] > 0
  <2>1. SUFFICES ASSUME NEW i \in 1..(n + c)
                 PROVE  st[i] > 0
    OBVIOUS
  <2>2. CASE i > n
    BY <1>1, <1>2, <2>2
  <2>3. CASE i <= n
    <3>1. i \in 1..n
      BY <1>1, <2>3
    <3>2. QED
      BY <1>1, <1>3, <3>1
  <2>4. QED
    BY <1>1, <2>2, <2>3
<1>6. \A i \in 2..(n + c) : st[i] = st[i-1] + 1
  <2>1. SUFFICES ASSUME NEW i \in 2..(n + c)
                 PROVE  st[i] = st[i-1] + 1
    OBVIOUS
  <2>2. CASE i <= n
    <3>1. i \in 2..n /\ i \in 1..n /\ i - 1 \in 1..n
      BY <1>1, <2>2
    <3>2. st[i] = s[i] /\ st[i-1] = s[i-1] /\ s[i] = s[i-1] + 1
      BY <1>1, <1>3, <3>1
    <3>3. QED
      BY <3>2
  <2>3. CASE i = n + 1
    <3>1. n \in 1..n /\ i \in 1..(n + c) /\ i - 1 = n /\ i > n /\ n > 0
      BY <1>1, <2>3
    <3>2. st[i] = base + (i - n)
      BY <1>2, <3>1
    <3>3. st[n] = s[n] /\ s[n] = base
      BY <1>1, <1>3, <3>1
    <3>4. QED
      BY <1>1, <2>3, <3>1, <3>2, <3>3
  <2>4. CASE i > n + 1
    <3>1. i \in 1..(n + c) /\ i - 1 \in 1..(n + c) /\ i > n /\ i - 1 > n
      BY <1>1, <2>4
    <3>2. st[i] = base + (i - n) /\ st[i-1] = base + ((i - 1) - n)
      BY <1>2, <3>1
    <3>3. QED
      BY <1>1, <3>2
  <2>5. QED
    BY <1>1, <2>2, <2>3, <2>4
<1>7. Consecutive(st)
  BY <1>1, <1>4, <1>5, <1>6 DEF Consecutive
<1>8. n + c > 0 => st[n + c] = base + c
  <2>1. CASE c > 0
    <3>1. n + c \in 1..(n + c) /\ n + c > n
      BY <1>1, <2>1
    <3>2. st[n + c] = base + ((n + c) - n)
      BY <1>2, <3>1
    <3>3. QED
      BY <1>1, <3>2
  <2>2. CASE c = 0
    <3>1. ASSUME n + c > 0
          PROVE  st[n + c] = s[n] /\ s[n] = base
      BY <1>1, <1>3, <2>2, <3>1
    <3>2. QED
      BY <2>2, <3>1
  <2>3. QED
    BY <2>1, <2>2
<1>9. QED
  BY <1>1, <1>4, <1>7, <1>8 DEF st

(* copy_to_user_from_ring(): the bytes copied out follow those before.     *)
LEMMA CopyOutKeepsData ==
  ASSUME DevInv, PollInv, DataInv, CopyOut
  PROVE  DataInv'
<1> DEFINE chunk == [i \in 1..chunkSize |-> contents[CopyPlace(ring, ring.tail, i)]]
<1>1. /\ pc = "copy" /\ fOp = "reading" /\ direction = "reading" /\ hw = "reading"
      /\ ring' = CopiedOut(ring, chunkSize) /\ got' = got \o chunk
      /\ UNCHANGED <<contents, direction, irqFunc, hw, dma, moved, tapeBytes, sent,
                     short, underran, overran, written>>
      /\ pc' \in {"idle", "look"}
  BY DEF CopyOut, AfterCopy, Return, PollInv, FileMatches, DataInv, CardFollows,
         cardVars, slipVars
<1>2. Fresh' /\ CardFollows' /\ OneIsLate' /\ WriteInv'
  BY <1>1 DEF DataInv, Fresh, CardFollows, OneIsLate, WriteInv, WriteData, SentIsWritten
<1>3. ASSUME ~overran
      PROVE  RingHoldsTape' /\ Consecutive(got')
  <2> DEFINE b == BytesInRing(ring)
             n == chunkSize
             base == Taken
  <2>1. InTime /\ RingHoldsTape /\ Consecutive(got)
    BY <1>1, <1>3 DEF DataInv, OneIsLate, InTime, ReadInv, ReadData
  <2>2. n <= b
    BY <1>1, <2>1 DEF PollInv, ChunkIsMovable, Movable
  <2>3. /\ ring \in RingType(Size) /\ contents \in [Places -> Nat] /\ got \in Seq(Nat)
        /\ b \in Nat /\ n \in Nat /\ Size \in Nat \ {0} /\ b < Size
        /\ tapeBytes \in Nat /\ moved \in Nat
    BY DataTyped
  <2>4. base \in Nat /\ base = tapeBytes - moved - b
    BY <2>1, <2>3 DEF RingHoldsTape, Taken
  <2>5. BytesInRing(ring') = b - n
    BY <1>1, <2>2, <2>3, CopiesMove
  <2>6. Taken' = base + n
    BY <1>1, <2>3, <2>4, <2>5 DEF Taken
  <2>7. ring'.head = ring.head
    BY <1>1, <2>3 DEF CopiedOut, RingType
  <2>8. \A i \in 1..n : chunk[i] = base + i
    BY <2>1, <2>2, <2>3 DEF RingHoldsTape
  <2>9. chunk \in Seq(Nat) /\ Len(chunk) = n
    <3>1. \A i \in 1..n : contents[CopyPlace(ring, ring.tail, i)] \in Nat
      <4>1. \A i \in 1..n : chunk[i] = contents[CopyPlace(ring, ring.tail, i)]
        OBVIOUS
      <4>2. \A i \in 1..n : base + i \in Nat
        BY <2>4
      <4>3. QED
        BY <2>8, <4>1, <4>2
    <3>2. chunk \in [1..n -> Nat]
      BY <3>1
    <3> HIDE DEF chunk
    <3>3. QED
      BY <2>3, <3>2
  <2> HIDE DEF chunk, b, n, base
  <2>10. got # <<>> => got[Len(got)] = base
    BY <2>1 DEF RingHoldsTape, base
  <2>11. Consecutive(got') /\ (got' # <<>> => got'[Len(got')] = base + n)
    <3>1. Consecutive(got \o chunk)
          /\ (got \o chunk # <<>> => (got \o chunk)[Len(got \o chunk)] = base + n)
      <4>1. got \in Seq(Nat) /\ n \in Nat /\ chunk \in Seq(Nat) /\ Len(chunk) = n
            /\ base \in Nat /\ Consecutive(got) /\ (got # <<>> => got[Len(got)] = base)
        BY <2>1, <2>3, <2>4, <2>9, <2>10
      <4>2. QED
        BY <2>8, <4>1, AppendConsecutive, Zenon
    <3>2. QED
      BY <1>1, <3>1 DEF chunk
  <2>12. \A i \in 1..BytesInRing(ring') :
           contents[CopyPlace(ring', ring'.tail, i)] = Taken' + i
    <3>1. SUFFICES ASSUME NEW i \in 1..(b - n)
                   PROVE  contents[CopyPlace(ring', ring'.tail, i)] = Taken' + i
      BY <2>5
    <3>2. n \in 0..b /\ i \in 1..(Size - n) /\ n + i \in 1..b
      BY <2>2, <2>3
    <3>3. CopyPlace(ring', ring'.tail, i) = CopyPlace(ring, ring.tail, n + i)
      BY <1>1, <2>3, <3>2, PlacesAhead DEF b, n
    <3>4. contents[CopyPlace(ring, ring.tail, n + i)] = base + (n + i)
      BY <2>1, <3>2 DEF RingHoldsTape, b, base
    <3>5. QED
      BY <2>3, <2>4, <2>6, <3>3, <3>4
  <2>13. irqFunc = "first" => BytesInRing(ring') = 0 /\ got' = <<>>
    <3>1. SUFFICES ASSUME irqFunc = "first"
                   PROVE  BytesInRing(ring') = 0 /\ got' = <<>>
      OBVIOUS
    <3>2. b = 0 /\ got = <<>> /\ n = 0
      BY <2>1, <2>2, <2>3, <3>1 DEF RingHoldsTape, b
    <3>3. chunk = <<>>
      BY <2>9, <3>2
    <3>4. QED
      BY <1>1, <2>5, <3>2, <3>3
  <2>14. Taken' >= 0
    BY <2>3, <2>4, <2>6
  <2>15. QED
    BY <1>1, <2>1, <2>6, <2>7, <2>11, <2>12, <2>13, <2>14 DEF RingHoldsTape
<1>4. ReadInv'
  BY <1>1, <1>3 DEF ReadInv, ReadData
<1>5. QED
  BY <1>2, <1>4 DEF DataInv

(* copy_to_ring_from_user(): the bytes copied in follow those in the ring, *)
(* and overwrite none of them.                                             *)
LEMMA CopiedInContents ==
  ASSUME DevInv, CopyIn, chunkSize <= SpaceInRing(ring)
  PROVE  /\ \A i \in 1..BytesInRing(ring) :
              contents'[CopyPlace(ring, ring.tail, i)] =
                contents[CopyPlace(ring, ring.tail, i)]
         /\ \A i \in 1..chunkSize :
              contents'[CopyPlace(ring, ring.tail, BytesInRing(ring) + i)] = written + i
<1> DEFINE b == BytesInRing(ring)
           c == chunkSize
           At(i) == CopyPlace(ring, ring.tail, i)
           Is(place) == {i \in 1..c : CopyPlace(ring, ring.head, i) = place}
<1>1. /\ ring \in RingType(Size) /\ b \in Nat /\ c \in Nat /\ Size \in Nat \ {0}
      /\ b + c <= Size - 1 /\ SpaceInRing(ring) = Size - 1 - b
      /\ ring.tail \in 0..(Size - 1)
  <2>1. ring \in RingType(Size) /\ b \in Nat /\ c \in Nat /\ Size \in Nat \ {0}
        /\ SpaceInRing(ring) \in Nat /\ SpaceInRing(ring) + b = Size - 1
    BY DataTyped
  <2>2. ring.tail \in 0..(Size - 1)
    BY <2>1, OffsetsTyped
  <2>3. QED
    BY <2>1, <2>2
<1>2. \A i \in 1..c : CopyPlace(ring, ring.head, i) = At(b + i)
  <2>1. \A i \in 1..c : i \in 1..(Size - b)
    BY <1>1
  <2>2. QED
    BY <1>1, <2>1, PlacesBehind
<1>3. \A i \in 1..(b + c) : At(i) \in Places
  <2>1. b + c \in 0..Size
    BY <1>1
  <2>2. QED
    BY <1>1, <2>1, CopyPlaceInRing
<1>4. \A i, j \in 1..(b + c) : i # j => At(i) # At(j)
  <2>1. \A i \in 1..(b + c) : i \in 1..Size
    BY <1>1
  <2>2. QED
    BY <1>1, <2>1, PlacesDiffer
<1>5. \A place \in Places :
        contents'[place] = IF Is(place) = {} THEN contents[place]
                           ELSE written + CHOOSE i \in Is(place) : TRUE
  BY DEF CopyIn
<1>6. ASSUME NEW i \in 1..b
      PROVE  contents'[At(i)] = contents[At(i)]
  <2>1. \A j \in 1..c : CopyPlace(ring, ring.head, j) # At(i)
    <3>1. \A j \in 1..c : b + j \in 1..(b + c) /\ i \in 1..(b + c) /\ b + j # i
      BY <1>1
    <3>2. QED
      BY <1>2, <1>4, <3>1
  <2>2. Is(At(i)) = {} /\ At(i) \in Places
    <3>1. i \in 1..(b + c)
      BY <1>1
    <3>2. QED
      BY <1>3, <2>1, <3>1
  <2>3. QED
    BY <1>5, <2>2
<1>7. ASSUME NEW i \in 1..c
      PROVE  contents'[At(b + i)] = written + i
  <2>1. b + i \in 1..(b + c)
    BY <1>1
  <2>2. \A j \in 1..c : CopyPlace(ring, ring.head, j) = At(b + i) <=> j = i
    <3>1. \A j \in 1..c : b + j \in 1..(b + c) /\ (j # i => b + j # b + i)
      BY <1>1
    <3>2. QED
      BY <1>2, <1>4, <2>1, <3>1
  <2>3. Is(At(b + i)) = {i}
    BY <2>2
  <2>4. (CHOOSE j \in {i} : TRUE) = i
    OBVIOUS
  <2> HIDE DEF Is, At, b, c
  <2>5. contents'[At(b + i)] = written + CHOOSE j \in Is(At(b + i)) : TRUE
    BY <1>3, <1>5, <2>1, <2>3
  <2>6. QED
    BY <2>3, <2>4, <2>5
<1>8. QED
  BY <1>6, <1>7

LEMMA CopyInKeepsData ==
  ASSUME DevInv, PollInv, DataInv, CopyIn
  PROVE  DataInv'
<1>1. /\ pc = "copy" /\ fOp = "writing" /\ direction = "writing" /\ hw = "writing"
      /\ ring' = CopiedIn(ring, chunkSize) /\ written' = written + chunkSize
      /\ UNCHANGED <<direction, irqFunc, hw, dma, moved, tapeBytes, sent,
                     short, underran, overran, got>>
      /\ pc' \in {"idle", "look"}
  BY DEF CopyIn, AfterCopy, Return, PollInv, FileMatches, DataInv, CardFollows,
         cardVars, slipVars
<1>2. Fresh' /\ CardFollows' /\ OneIsLate' /\ ReadInv'
  BY <1>1 DEF DataInv, Fresh, CardFollows, OneIsLate, ReadInv, ReadData
<1>3. /\ chunkSize \in Nat /\ written \in Nat /\ sent \in Nat
      /\ moved \in 0..Frame /\ Frame \in Nat
      /\ ring \in RingType(Size) /\ contents \in [Places -> Nat]
      /\ BytesInRing(ring) \in Nat
  BY DataTyped
<1>4. SentIsWritten'
  <2>1. sent <= written /\ \A place \in Places : contents[place] <= written
    BY <1>1 DEF DataInv, WriteInv, SentIsWritten
  <2>2. ASSUME NEW place \in Places
        PROVE  contents'[place] <= written'
    <3> DEFINE is == {i \in 1..chunkSize : CopyPlace(ring, ring.head, i) = place}
    <3>1. contents'[place] = IF is = {} THEN contents[place]
                             ELSE written + CHOOSE i \in is : TRUE
      BY DEF CopyIn
    <3>2. CASE is = {}
      BY <1>1, <1>3, <2>1, <3>1, <3>2
    <3>3. CASE is # {}
      <4>1. (CHOOSE i \in is : TRUE) \in is
        BY <3>3
      <4>2. (CHOOSE i \in is : TRUE) \in 1..chunkSize
        BY <4>1
      <4> HIDE DEF is
      <4>3. QED
        BY <1>1, <1>3, <3>1, <3>3, <4>2
    <3>4. QED
      BY <3>2, <3>3
  <2>3. QED
    BY <1>1, <1>3, <2>1, <2>2 DEF SentIsWritten
<1>5. ASSUME ~underran
      PROVE  /\ dma' = ring'.tail /\ OnFrame(ring'.tail)
             /\ \E first \in Nat : RingHoldsWritten(first)'
  <2> DEFINE b == BytesInRing(ring)
             c == chunkSize
  <2>1. InTime
    BY <1>1, <1>5 DEF DataInv, OneIsLate, InTime
  <2>2. c <= SpaceInRing(ring)
    BY <1>1, <2>1 DEF PollInv, ChunkIsMovable, Movable
  <2>3. BytesInRing(ring') = b + c /\ ring'.tail = ring.tail
    BY <1>1, <1>3, <2>2, CopiesMove DEF CopiedIn, RingType
  <2>4. dma = ring.tail /\ OnFrame(ring.tail)
    BY <1>1, <1>5 DEF DataInv, WriteInv, WriteData
  <2>5. PICK first \in Nat : RingHoldsWritten(first)
    BY <1>1, <1>5 DEF DataInv, WriteInv, WriteData
  <2>6. written = first + b
    BY <1>1, <2>5 DEF RingHoldsWritten, Working
  <2>7. /\ \A i \in 1..b : contents'[CopyPlace(ring, ring.tail, i)] =
                             contents[CopyPlace(ring, ring.tail, i)]
        /\ \A i \in 1..c : contents'[CopyPlace(ring, ring.tail, b + i)] = written + i
    BY <2>2, CopiedInContents
  <2>8. \A i \in 1..BytesInRing(ring') :
          first + i <= written' => contents'[CopyPlace(ring', ring'.tail, i)] = first + i
    <3>1. SUFFICES ASSUME NEW i \in 1..(b + c)
                   PROVE  contents'[CopyPlace(ring', ring'.tail, i)] = first + i
      BY <2>3
    <3>2. CopyPlace(ring', ring'.tail, i) = CopyPlace(ring, ring.tail, i)
      BY <1>1, <1>3, PlacesKept
    <3>3. CASE i <= b
      <4>1. i \in 1..b /\ first + i <= written
        BY <1>3, <2>6, <3>3
      <4>2. contents[CopyPlace(ring, ring.tail, i)] = first + i
        BY <2>5, <4>1 DEF RingHoldsWritten
      <4>3. QED
        BY <2>7, <3>2, <4>1, <4>2
    <3>4. CASE i > b
      <4>1. i - b \in 1..c /\ i = b + (i - b)
        BY <1>3, <3>4
      <4>2. contents'[CopyPlace(ring, ring.tail, b + (i - b))] = written + (i - b)
        BY <2>7, <4>1
      <4>3. written + (i - b) = first + i
        BY <1>3, <2>6
      <4>4. QED
        BY <3>2, <4>1, <4>2, <4>3
    <3>5. QED
      BY <1>3, <3>3, <3>4
  <2>9. sent >= written \/ sent >= first
    BY <2>5 DEF RingHoldsWritten
  <2>10. sent >= first
    BY <1>3, <2>6, <2>9
  <2>11. ~short => sent >= first + moved
    <3>1. SUFFICES ASSUME ~short
                   PROVE  sent >= first + moved
      OBVIOUS
    <3>2. b >= Frame
      BY <1>1, <2>1, <3>1 DEF PollInv, FrameIsThere
    <3>3. sent >= written \/ sent >= first + moved
      BY <2>5, <3>1 DEF RingHoldsWritten
    <3>4. QED
      BY <1>3, <2>6, <3>2, <3>3
  <2>12. RingHoldsWritten(first)'
    <3>1. written' = first + BytesInRing(ring')
      BY <1>1, <1>3, <2>3, <2>6
    <3>2. sent' = sent /\ moved' = moved /\ short' = short
      BY <1>1
    <3>3. written' <= first + BytesInRing(ring')
      BY <1>1, <1>3, <3>1
    <3>4. QED
      BY <2>8, <2>10, <2>11, <3>1, <3>2, <3>3 DEF RingHoldsWritten
  <2>13. QED
    BY <1>1, <2>3, <2>4, <2>12
<1>6. WriteInv'
  BY <1>1, <1>4, <1>5 DEF WriteInv, WriteData
<1>7. QED
  BY <1>2, <1>6 DEF DataInv

-----------------------------------------------------------------------------
(* flush(): the padding overwrites nothing that is in the ring.            *)
LEMMA PadContents ==
  ASSUME DevInv
  PROVE  /\ \A i \in 1..BytesInRing(ring) :
              PadBytes[CopyPlace(ring, ring.tail, i)] = contents[CopyPlace(ring, ring.tail, i)]
         /\ Padded.tail = ring.tail
         /\ BytesInRing(Padded) = BytesInRing(ring) + PadSize
         /\ PadSize \in Nat
<1> DEFINE b == BytesInRing(ring)
           At(i) == CopyPlace(ring, ring.tail, i)
<1>1. /\ ring \in RingType(Size) /\ b \in Nat /\ Size \in Nat \ {0}
      /\ SpaceInRing(ring) = Size - 1 - b /\ SpaceInRing(ring) \in Nat
      /\ ring.tail \in 0..(Size - 1)
  <2>1. ring \in RingType(Size) /\ b \in Nat /\ Size \in Nat \ {0}
        /\ SpaceInRing(ring) \in Nat /\ SpaceInRing(ring) + b = Size - 1
    BY DataTyped
  <2>2. ring.tail \in 0..(Size - 1)
    BY <2>1, OffsetsTyped
  <2>3. QED
    BY <2>1, <2>2
<1>2. PadSize \in Nat /\ PadSize <= SpaceInRing(ring)
  BY <1>1, PadIsLessThanRing DEF PadSize, PadFits, FillFits
<1>3. BytesInRing(Padded) = b + PadSize /\ Padded.tail = ring.tail
  BY <1>1, <1>2, CopiesMove DEF Padded, CopiedIn, RingType
<1>4. ASSUME NEW i \in 1..b
      PROVE  PadBytes[At(i)] = contents[At(i)]
  <2>1. \A j \in 1..PadSize : CopyPlace(ring, ring.head, j) # At(i)
    <3>1. SUFFICES ASSUME NEW j \in 1..PadSize
                   PROVE  CopyPlace(ring, ring.head, j) # At(i)
      OBVIOUS
    <3>2. /\ j \in 1..(Size - b) /\ b + j \in 1..Size /\ i \in 1..Size /\ b + j # i
      BY <1>1, <1>2
    <3>3. CopyPlace(ring, ring.head, j) = At(b + j)
      BY <1>1, <3>2, PlacesBehind
    <3>4. At(b + j) # At(i)
      BY <1>1, <3>2, PlacesDiffer
    <3>5. QED
      BY <3>3, <3>4
  <2>2. At(i) \in Places
    <3>1. b \in 0..Size
      BY <1>1
    <3>2. QED
      BY <1>1, <3>1, CopyPlaceInRing
  <2>3. QED
    BY <2>1, <2>2 DEF PadBytes
<1>5. QED
  BY <1>2, <1>3, <1>4

(* The ring is flushed, or padded with zeros and waited for.               *)
LEMMA CloseDoneKeepsData ==
  ASSUME DevInv, DataInv, CloseDone
  PROVE  DataInv'
<1>1. pc' = "closed" /\ UNCHANGED <<written, got>>
  BY DEF CloseDone, dataVars
<1>2. CASE direction = "stopped"
  <2>1. UNCHANGED <<ring, contents, direction, irqFunc, hw, dma, moved, tapeBytes, sent,
                    short, underran, overran>>
    BY <1>2 DEF CloseDone, cardVars, slipVars
  <2>2. pc # "closed"
    BY DEF CloseDone
  <2>3. QED
    BY <1>1, <1>2, <2>1, <2>2, RestKeepsData DEF Working
<1>3. CASE direction # "stopped"
  <2>1. /\ direction' = "stopped" /\ hw' = "off"
        /\ UNCHANGED <<sent, underran, overran>>
    BY <1>3 DEF CloseDone, Stop, slipVars
  <2>2. Fresh' /\ CardFollows' /\ OneIsLate'
    BY <1>1, <2>1 DEF Fresh, CardFollows, OneIsLate
  <2>3. ReadInv'
    BY <1>1, <2>1 DEF DataInv, ReadInv, ReadData
  <2>4. ~underran => sent = written
    <3>1. SUFFICES ASSUME ~underran
                   PROVE  sent = written
      OBVIOUS
    <3>2. CASE direction = "writing"
      <4>1. PICK first \in Nat : RingHoldsWritten(first)
        BY <3>1, <3>2 DEF DataInv, WriteInv, WriteData
      <4>2. BytesInRing(Padded) = 0
        BY <3>2 DEF CloseDone, Flushed
      <4>3. BytesInRing(ring) = 0
        BY <4>2, DataTyped, PadContents
      <4>4. sent <= written /\ sent \in Nat /\ written \in Nat
        BY DataTyped DEF DataInv, WriteInv, SentIsWritten
      <4>5. QED
        BY <4>1, <4>3, <4>4 DEF RingHoldsWritten
    <3>3. CASE direction # "writing"
      BY <3>1, <3>3 DEF DataInv, WriteInv, SentIsWritten
    <3>4. QED
      BY <3>2, <3>3
  <2>5. sent <= written
    BY DEF DataInv, WriteInv, SentIsWritten
  <2>6. WriteInv'
    BY <1>1, <2>1, <2>4, <2>5 DEF WriteInv, WriteData, SentIsWritten
  <2>7. QED
    BY <2>2, <2>3, <2>6 DEF DataInv
<1>4. QED
  BY <1>2, <1>3

LEMMA CloseAgainKeepsData ==
  ASSUME DevInv, DataInv, CloseAgain
  PROVE  DataInv'
<1>1. /\ direction = "writing" /\ hw = "writing" /\ pc' = "closeFalling"
      /\ ring' = Padded /\ contents' = PadBytes
      /\ UNCHANGED <<direction, irqFunc, hw, dma, moved, tapeBytes, sent,
                     short, underran, overran, written, got>>
  BY DEF CloseAgain, cardVars, slipVars, dataVars, DataInv, CardFollows
<1>2. Fresh' /\ CardFollows' /\ OneIsLate' /\ ReadInv'
  BY <1>1 DEF DataInv, Fresh, CardFollows, OneIsLate, ReadInv, ReadData
<1>3. SentIsWritten'
  <2>1. sent <= written /\ \A place \in Places : contents[place] <= written
    BY <1>1 DEF DataInv, WriteInv, SentIsWritten
  <2>2. written \in Nat
    BY DataTyped
  <2>3. \A place \in Places : PadBytes[place] <= written
    BY <2>1, <2>2 DEF PadBytes
  <2>4. QED
    BY <1>1, <2>1, <2>3 DEF SentIsWritten
<1>4. ASSUME ~underran
      PROVE  /\ dma' = ring'.tail /\ OnFrame(ring'.tail)
             /\ \E first \in Nat : RingHoldsWritten(first)'
  <2> DEFINE b == BytesInRing(ring)
  <2>1. dma = ring.tail /\ OnFrame(ring.tail)
    BY <1>1, <1>4 DEF DataInv, WriteInv, WriteData
  <2>2. PICK first \in Nat : RingHoldsWritten(first)
    BY <1>1, <1>4 DEF DataInv, WriteInv, WriteData
  <2>3. ring \in RingType(Size) /\ b \in Nat /\ written \in Nat
    BY DataTyped
  <2>4. /\ ring'.tail = ring.tail /\ BytesInRing(ring') = b + PadSize /\ PadSize \in Nat
        /\ \A i \in 1..b : contents'[CopyPlace(ring, ring.tail, i)] =
                             contents[CopyPlace(ring, ring.tail, i)]
    BY <1>1, PadContents
  <2>5. written <= first + b
    BY <2>2 DEF RingHoldsWritten
  <2>6. \A i \in 1..BytesInRing(ring') :
          first + i <= written => contents'[CopyPlace(ring', ring'.tail, i)] = first + i
    <3>1. SUFFICES ASSUME NEW i \in 1..(b + PadSize), first + i <= written
                   PROVE  contents'[CopyPlace(ring', ring'.tail, i)] = first + i
      BY <2>4
    <3>2. i \in 1..b
      BY <2>3, <2>4, <2>5, <3>1
    <3>3. CopyPlace(ring', ring'.tail, i) = CopyPlace(ring, ring.tail, i)
      BY <1>1, <2>3, PlacesKept DEF Padded
    <3>4. contents[CopyPlace(ring, ring.tail, i)] = first + i
      BY <2>2, <3>1, <3>2 DEF RingHoldsWritten
    <3>5. QED
      BY <2>4, <3>2, <3>3, <3>4
  <2>7. RingHoldsWritten(first)'
    <3>1. written' <= first + BytesInRing(ring') /\ pc' \notin Working
      BY <1>1, <2>3, <2>4, <2>5 DEF Working
    <3>2. /\ sent >= written \/ sent >= first
          /\ ~short => sent >= written \/ sent >= first + moved
      BY <2>2 DEF RingHoldsWritten
    <3>3. QED
      BY <1>1, <2>6, <3>1, <3>2 DEF RingHoldsWritten
  <2>8. QED
    BY <1>1, <2>1, <2>4, <2>7
<1>5. WriteInv'
  BY <1>1, <1>3, <1>4 DEF WriteInv, WriteData
<1>6. QED
  BY <1>2, <1>5 DEF DataInv

LEMMA CloseKeepsData ==
  ASSUME DevInv, DataInv, Close \/ CloseDone \/ CloseAgain \/ CloseAbandon
  PROVE  DataInv'
<1>1. CASE Close \/ CloseAbandon
  <2>1. UNCHANGED <<ring, contents, direction, irqFunc, hw, dma, moved, tapeBytes, sent,
                    short, underran, overran, written, got>>
    BY <1>1 DEF Close, CloseAbandon, streamVars, driverVars, cardVars, slipVars, dataVars
  <2>2. \/ pc = "idle" /\ pc' = "closing"
        \/ pc = "closeAsleep" /\ pc' = "closed" /\ abandoned'
    BY <1>1 DEF Close, CloseAbandon
  <2>3. pc = "closeAsleep" => direction = "writing"
    BY DEF DataInv, CardFollows
  <2>4. QED
    BY <2>1, <2>2, <2>3, RestKeepsData DEF Working
<1>2. QED
  BY <1>1, CloseDoneKeepsData, CloseAgainKeepsData

-----------------------------------------------------------------------------
(* The interrupts move the offsets as copies of a frame would.             *)
LEMMA FramesAreCopies ==
  ASSUME ring \in RingType(Size)
  PROVE  /\ RingFill(ring, Frame) = CopiedIn(ring, Frame)
         /\ RingDrain(ring, Frame) = CopiedOut(ring, Frame)
         /\ RingFill(ring, Frame).head = OffsetInc(ring, ring.head, Frame)
         /\ RingDrain(ring, Frame).tail = OffsetInc(ring, ring.tail, Frame)
         /\ RingFill(ring, Frame).tail = ring.tail
<1>1. Size \in Nat \ {0} /\ Frame \in 0..Size
  BY SizeOfRing
<1>2. /\ ring.head \in 0..(Size - 1) /\ ring.tail \in 0..(Size - 1)
      /\ ring = [size |-> ring.size, head |-> ring.head, tail |-> ring.tail]
  BY <1>1, OffsetsTyped DEF RingType
<1>3. /\ CopyOffset(ring, ring.head, Frame) = OffsetInc(ring, ring.head, Frame)
      /\ CopyOffset(ring, ring.tail, Frame) = OffsetInc(ring, ring.tail, Frame)
  BY <1>1, <1>2, OneWayRound
<1>4. /\ RingFill(ring, Frame) = CopiedIn(ring, Frame)
      /\ RingDrain(ring, Frame) = CopiedOut(ring, Frame)
  BY <1>3 DEF RingFill, RingDrain, CopiedIn, CopiedOut
<1>5. /\ RingFill(ring, Frame).head = OffsetInc(ring, ring.head, Frame)
      /\ RingDrain(ring, Frame).tail = OffsetInc(ring, ring.tail, Frame)
      /\ RingFill(ring, Frame).tail = ring.tail
  BY <1>2 DEF RingFill, RingDrain
<1>6. QED
  BY <1>4, <1>5

(* bkr_parport_first_irq(): the frame that comes again is the first.       *)
LEMMA FirstIrqKeepsData ==
  ASSUME DevInv, DataInv, FirstIrq, UNCHANGED <<pc, fileVars, callVars, dataVars>>
  PROVE  DataInv'
<1>1. /\ irqFunc = "first" /\ irqFunc' = "irq" /\ moved' = 0
      /\ UNCHANGED <<ring, contents, direction, hw, dma, tapeBytes, sent, underran,
                     written, got, pc, abandoned>>
      /\ overran' <=> overran \/ (direction = "reading" /\ SpaceInRing(ring) < Frame)
  BY DEF FirstIrq, FrameStarts, dataVars, fileVars
<1>2. Fresh' /\ CardFollows' /\ OneIsLate'
  <2>1. direction # "reading" => (overran' <=> overran)
    BY <1>1
  <2>2. QED
    BY <1>1, <2>1, Zenon DEF DataInv, Fresh, CardFollows, OneIsLate, InTime
<1>3. /\ tapeBytes \in Nat /\ moved \in Nat /\ BytesInRing(ring) \in Nat
      /\ sent \in Nat /\ written \in Nat
  BY DataTyped
<1>4. ReadInv'
  <2>1. ~overran' => ~overran
    BY <1>1
  <2>2. ASSUME direction = "reading", ~overran
        PROVE  RingHoldsTape'
    <3>1. RingHoldsTape
      BY <2>2 DEF DataInv, ReadInv, ReadData
    <3>2. BytesInRing(ring) = 0 /\ got = <<>>
      BY <1>1, <3>1 DEF RingHoldsTape
    <3>3. BytesInRing(ring)' = 0 /\ BytesInRing(ring') = 0
      BY <1>1, <3>2
    <3>4. Taken' >= 0
      BY <1>1, <1>3, <3>3 DEF Taken
    <3>5. QED
      BY <1>1, <3>1, <3>2, <3>3, <3>4 DEF RingHoldsTape
  <2>3. QED
    BY <1>1, <2>1, <2>2 DEF DataInv, ReadInv, ReadData
<1>5. WriteInv'
  <2>1. ASSUME NEW first \in Nat, RingHoldsWritten(first)
        PROVE  RingHoldsWritten(first)'
    <3>1. BytesInRing(ring)' = BytesInRing(ring)
      BY <1>1
    <3>2. sent' >= written' \/ sent' >= first
      BY <1>1, <2>1 DEF RingHoldsWritten
    <3>3. sent' >= written' \/ sent' >= first + moved'
      BY <1>1, <3>2
    <3>4. QED
      BY <1>1, <2>1, <3>1, <3>2, <3>3 DEF RingHoldsWritten
  <2>2. WriteData'
    BY <1>1, <2>1 DEF DataInv, WriteInv, WriteData
  <2>3. SentIsWritten'
    BY <1>1 DEF DataInv, WriteInv, SentIsWritten
  <2>4. QED
    BY <2>2, <2>3 DEF WriteInv
<1>6. QED
  BY <1>2, <1>4, <1>5 DEF DataInv

(* A frame that was read joins those in the ring.                          *)
LEMMA FrameJoins ==
  ASSUME DevInv, RingHoldsTape, irqFunc = "irq", moved = Frame, SpaceInRing(ring) >= Frame,
         ring' = RingFill(ring, Frame), dma' = ring'.head, moved' = 0,
         UNCHANGED <<contents, irqFunc, tapeBytes, got>>
  PROVE  RingHoldsTape'
<1> DEFINE b == BytesInRing(ring)
<1>1. /\ ring \in RingType(Size) /\ b \in Nat /\ Size \in Nat /\ Frame \in Nat \ {0}
      /\ SpaceInRing(ring) = Size - 1 - b /\ SpaceInRing(ring) \in Nat
      /\ tapeBytes \in Nat
  <2>1. /\ ring \in RingType(Size) /\ b \in Nat /\ Size \in Nat /\ Frame \in Nat \ {0}
        /\ SpaceInRing(ring) \in Nat /\ SpaceInRing(ring) + b = Size - 1
        /\ tapeBytes \in Nat
    BY DataTyped
  <2>2. QED
    BY <2>1
<1>2. /\ ring' = CopiedIn(ring, Frame)
      /\ ring'.head = OffsetInc(ring, ring.head, Frame) /\ ring'.tail = ring.tail
  BY <1>1, FramesAreCopies
<1>3. BytesInRing(ring') = b + Frame
  BY <1>1, FramesMove
<1>4. /\ Taken = tapeBytes - Frame - b /\ Taken' = Taken
  BY <1>1, <1>3 DEF Taken
<1>5. OnFrame(ring.head) /\ dma = ring.head
  BY DEF RingHoldsTape
<1>6. /\ OnFrame(ring'.head)
      /\ \A j \in 0..(Frame - 1) : CopyPlace(ring, ring.head, j + 1) = ring.head + j
  BY <1>1, <1>2, <1>5, FramesOfRing
<1>7. \A i \in 1..BytesInRing(ring') :
        contents[CopyPlace(ring', ring'.tail, i)] = Taken' + i
  <2>1. SUFFICES ASSUME NEW i \in 1..(b + Frame)
                 PROVE  contents[CopyPlace(ring', ring'.tail, i)] = Taken + i
    BY <1>3, <1>4
  <2>2. CopyPlace(ring', ring'.tail, i) = CopyPlace(ring, ring.tail, i)
    BY <1>1, <1>2, PlacesKept
  <2>3. CASE i <= b
    <3>1. i \in 1..b
      BY <1>1, <2>3
    <3>2. QED
      BY <2>2, <3>1 DEF RingHoldsTape
  <2>4. CASE i > b
    <3> DEFINE j == i - b - 1
    <3>1. j \in 0..(Frame - 1) /\ j + 1 \in 1..(Size - b) /\ i = b + (j + 1)
      BY <1>1, <2>4
    <3>2. CopyPlace(ring, ring.tail, i) = CopyPlace(ring, ring.head, j + 1)
      BY <1>1, <3>1, PlacesBehind
    <3>3. CopyPlace(ring, ring.head, j + 1) = dma + j
      BY <1>5, <1>6, <3>1
    <3>4. contents[dma + j] = tapeBytes - Frame + j + 1
      BY <3>1 DEF RingHoldsTape
    <3>5. tapeBytes - Frame + j + 1 = Taken + i
      BY <1>1, <1>4
    <3>6. QED
      BY <2>2, <3>2, <3>3, <3>4, <3>5
  <2>5. QED
    BY <1>1, <2>3, <2>4
<1>8. /\ Taken' >= 0
      /\ got' # <<>> => got'[Len(got')] = Taken'
      /\ \A j \in 0..(moved' - 1) : contents'[dma' + j] = tapeBytes' - moved' + j + 1
  BY <1>4 DEF RingHoldsTape
<1>9. QED
  BY <1>6, <1>7, <1>8 DEF RingHoldsTape

(* A frame that was sent leaves them.                                      *)
LEMMA FrameLeaves ==
  ASSUME DevInv, NEW first \in Nat, RingHoldsWritten(first), OnFrame(ring.tail),
         ~short, moved = Frame, BytesInRing(ring) >= Frame,
         ring' = RingDrain(ring, Frame), moved' = 0,
         UNCHANGED <<contents, written, sent>>, pc' \in Working => pc \in Working
  PROVE  OnFrame(ring'.tail) /\ RingHoldsWritten(first + Frame)'
<1> DEFINE b == BytesInRing(ring)
<1>1. /\ ring \in RingType(Size) /\ b \in Nat /\ Size \in Nat /\ Frame \in Nat \ {0}
      /\ b < Size /\ written \in Nat /\ sent \in Nat
  <2>1. /\ ring \in RingType(Size) /\ b \in Nat /\ Size \in Nat /\ Frame \in Nat \ {0}
        /\ SpaceInRing(ring) \in Nat /\ SpaceInRing(ring) + b = Size - 1
        /\ written \in Nat /\ sent \in Nat
    BY DataTyped
  <2>2. QED
    BY <2>1
<1>2. /\ ring' = CopiedOut(ring, Frame)
      /\ ring'.tail = OffsetInc(ring, ring.tail, Frame)
  BY <1>1, FramesAreCopies
<1>3. BytesInRing(ring') = b - Frame
  BY <1>1, FramesMove
<1>4. OnFrame(ring'.tail)
  BY <1>1, <1>2, FramesOfRing
<1>5. \A i \in 1..BytesInRing(ring') :
        (first + Frame) + i <= written =>
          contents[CopyPlace(ring', ring'.tail, i)] = (first + Frame) + i
  <2>1. SUFFICES ASSUME NEW i \in 1..(b - Frame), (first + Frame) + i <= written
                 PROVE  contents[CopyPlace(ring', ring'.tail, i)] = (first + Frame) + i
    BY <1>3
  <2>2. Frame \in 0..b /\ i \in 1..(Size - Frame) /\ Frame + i \in 1..b
    BY <1>1
  <2>3. CopyPlace(ring', ring'.tail, i) = CopyPlace(ring, ring.tail, Frame + i)
    BY <1>1, <1>2, <2>2, PlacesAhead
  <2>4. first + (Frame + i) = (first + Frame) + i
    BY <1>1
  <2>5. contents[CopyPlace(ring, ring.tail, Frame + i)] = first + (Frame + i)
    BY <2>1, <2>2, <2>4 DEF RingHoldsWritten
  <2>6. QED
    BY <2>3, <2>4, <2>5
<1>6. sent >= written \/ sent >= first + Frame
  BY DEF RingHoldsWritten
<1>7. /\ written <= (first + Frame) + BytesInRing(ring')
      /\ pc' \in Working => written = (first + Frame) + BytesInRing(ring')
  <2>1. written <= first + b /\ (pc \in Working => written = first + b)
    BY DEF RingHoldsWritten
  <2>2. QED
    BY <1>1, <1>3, <2>1
<1>8. RingHoldsWritten(first + Frame)'
  BY <1>1, <1>5, <1>6, <1>7 DEF RingHoldsWritten
<1>9. QED
  BY <1>4, <1>8

LEMMA IrqKeepsData ==
  ASSUME DevInv, PollInv, DataInv, Irq, Wake, UNCHANGED <<fileVars, callVars, dataVars>>
  PROVE  DataInv'
<1>1. /\ irqFunc = "irq" /\ irqFunc' = "irq" /\ moved = Frame /\ moved' = 0
      /\ UNCHANGED <<contents, direction, hw, tapeBytes, sent, written, got, abandoned>>
      /\ overran' <=> overran \/ (direction = "reading" /\ SpaceInRing(ring') < Frame)
  BY DEF Irq, Interrupts, FrameStarts, dataVars, fileVars
<1>2. /\ pc' = "closed" <=> pc = "closed"
      /\ pc' \in Working => pc \in Working
      /\ pc' \in {"closeFalling", "closeAsleep"} => pc \in {"closeFalling", "closeAsleep"}
  BY DEF Wake, Working
<1>3. CardFollows'
  BY <1>1, <1>2 DEF DataInv, CardFollows
<1>4. SentIsWritten'
  <2>1. direction # "writing" => (~underran' => ~underran)
    BY DEF Irq, IrqFill, IrqDrain
  <2>2. QED
    BY <1>1, <2>1 DEF DataInv, WriteInv, SentIsWritten
<1>5. CASE IrqFill
  <2>1. /\ direction = "reading" /\ underran' = underran
        /\ ring' = RingFill(ring, Frame) /\ dma' = ring'.head
    BY <1>5 DEF IrqFill
  <2>2. Fresh' /\ OneIsLate'
    BY <1>1, <2>1 DEF DataInv, Fresh, OneIsLate
  <2>3. ~overran' => ~overran
    BY <1>1
  <2>4. ASSUME ~overran
        PROVE  RingHoldsTape'
    <3>1. ~underran /\ RingHoldsTape
      BY <2>1, <2>4 DEF DataInv, OneIsLate, ReadInv, ReadData
    <3>2. SpaceInRing(ring) >= Frame
      BY <2>1, <2>4, <3>1 DEF PollInv, InTime, FrameHasRoom
    <3>3. QED
      BY <1>1, <2>1, <3>1, <3>2, FrameJoins
  <2>5. ReadInv'
    BY <1>1, <2>3, <2>4 DEF DataInv, ReadInv, ReadData
  <2>6. WriteInv'
    BY <1>1, <1>4, <2>1 DEF WriteInv, WriteData
  <2>7. QED
    BY <1>3, <2>2, <2>5, <2>6 DEF DataInv
<1>6. CASE IrqDrain
  <2>1. /\ direction = "writing" /\ ring' = RingDrain(ring, Frame) /\ dma' = ring'.tail
        /\ underran' <=> underran \/ short
    BY <1>6 DEF IrqDrain
  <2>2. overran' <=> overran
    BY <1>1, <2>1
  <2>3. Fresh' /\ OneIsLate'
    BY <1>1, <2>1, <2>2 DEF DataInv, Fresh, OneIsLate
  <2>4. ReadInv'
    BY <1>1, <2>1, <2>2 DEF DataInv, ReadInv, ReadData
  <2>5. ASSUME ~underran'
        PROVE  OnFrame(ring'.tail) /\ \E first \in Nat : RingHoldsWritten(first)'
    <3>1. ~underran /\ ~short
      BY <2>1, <2>5
    <3>2. ~overran
      BY <2>1 DEF DataInv, OneIsLate
    <3>3. BytesInRing(ring) >= Frame
      BY <2>1, <3>1, <3>2 DEF PollInv, InTime, FrameIsThere
    <3>4. OnFrame(ring.tail)
      BY <2>1, <3>1 DEF DataInv, WriteInv, WriteData
    <3>5. PICK first \in Nat : RingHoldsWritten(first)
      BY <2>1, <3>1 DEF DataInv, WriteInv, WriteData
    <3>6. OnFrame(ring'.tail) /\ RingHoldsWritten(first + Frame)'
      BY <1>1, <1>2, <2>1, <3>1, <3>3, <3>4, <3>5, FrameLeaves
    <3>7. first + Frame \in Nat
      BY DataTyped
    <3>8. QED
      BY <3>6, <3>7
  <2>6. WriteInv'
    BY <1>1, <1>4, <2>1, <2>5 DEF WriteInv, WriteData
  <2>7. QED
    BY <1>3, <2>3, <2>4, <2>6 DEF DataInv
<1>7. QED
  BY <1>5, <1>6 DEF Irq

LEMMA InterruptKeepsData ==
  ASSUME DevInv, PollInv, DataInv, Interrupt
  PROVE  DataInv'
<1>1. CASE IrqStopped /\ UNCHANGED pc
  <2>1. UNCHANGED <<ring, contents, direction, irqFunc, hw, dma, moved, tapeBytes, sent,
                    short, underran, overran, written, got, pc, abandoned>>
    BY <1>1 DEF Interrupt, IrqStopped, driverVars, slipVars, dataVars, fileVars
  <2>2. QED
    BY <2>1, RestKeepsData DEF DataInv, CardFollows
<1>2. QED
  BY <1>1, FirstIrqKeepsData, IrqKeepsData DEF Interrupt

-----------------------------------------------------------------------------
(* A byte that comes off the tape is put behind those of its frame, where  *)
(* nothing else is.                                                        *)
LEMMA ByteJoins ==
  ASSUME DevInv, RingHoldsTape, SpaceInRing(ring) >= Frame, moved < Frame,
         moved' = moved + 1, tapeBytes' = tapeBytes + 1,
         contents' = [contents EXCEPT ![dma + moved] = tapeBytes + 1],
         UNCHANGED <<ring, dma, irqFunc, got>>
  PROVE  RingHoldsTape'
<1> DEFINE b == BytesInRing(ring)
<1>1. /\ ring \in RingType(Size) /\ b \in Nat /\ Size \in Nat \ {0} /\ Frame \in Nat \ {0}
      /\ SpaceInRing(ring) = Size - 1 - b /\ SpaceInRing(ring) \in Nat
      /\ tapeBytes \in Nat /\ moved \in Nat /\ contents \in [Places -> Nat]
      /\ ring.tail \in 0..(Size - 1)
  <2>1. /\ ring \in RingType(Size) /\ b \in Nat /\ Size \in Nat \ {0}
        /\ Frame \in Nat \ {0} /\ contents \in [Places -> Nat]
        /\ SpaceInRing(ring) \in Nat /\ SpaceInRing(ring) + b = Size - 1
        /\ tapeBytes \in Nat /\ moved \in Nat
    BY DataTyped
  <2>2. ring.tail \in 0..(Size - 1)
    BY <2>1, OffsetsTyped
  <2>3. QED
    BY <2>1, <2>2
<1>2. dma = ring.head /\ OnFrame(ring.head)
  BY DEF RingHoldsTape
<1>3. /\ ring.head \in 0..(Size - 1) /\ ring.head + Frame <= Size
      /\ \A j \in 0..(Frame - 1) : CopyPlace(ring, ring.head, j + 1) = ring.head + j
  BY <1>1, <1>2, FramesOfRing
<1>4. dma + moved = CopyPlace(ring, ring.tail, b + (moved + 1))
  <2>1. moved \in 0..(Frame - 1) /\ moved + 1 \in 1..(Size - b)
    BY <1>1
  <2>2. QED
    BY <1>1, <1>2, <1>3, <2>1, PlacesBehind
<1>5. /\ dma + moved \in Places
      /\ \A j \in 0..moved : dma + j \in Places
  <2>1. dma \in Nat /\ dma + Frame <= Size
    BY <1>1, <1>2, <1>3
  <2>2. QED
    BY <1>1, <2>1 DEF Places
<1>6. ASSUME NEW i \in 1..b
      PROVE  contents'[CopyPlace(ring, ring.tail, i)] = contents[CopyPlace(ring, ring.tail, i)]
  <2>1. /\ i \in 1..Size /\ b + (moved + 1) \in 1..Size /\ i # b + (moved + 1)
        /\ b \in 0..Size
    BY <1>1
  <2>2. CopyPlace(ring, ring.tail, i) # dma + moved
    BY <1>1, <1>4, <2>1, PlacesDiffer
  <2>3. CopyPlace(ring, ring.tail, i) \in Places
    BY <1>1, <2>1, CopyPlaceInRing
  <2>4. QED
    BY <1>1, <2>2, <2>3
<1>7. Taken' = Taken /\ BytesInRing(ring)' = b
  BY <1>1 DEF Taken
<1>8. \A j \in 0..(moved' - 1) : contents'[dma' + j] = tapeBytes' - moved' + j + 1
  <2>1. SUFFICES ASSUME NEW j \in 0..moved
                 PROVE  contents'[dma + j] = tapeBytes - moved + j + 1
    BY <1>1
  <2>2. CASE j = moved
    <3>1. contents'[dma + moved] = tapeBytes + 1
      BY <1>1, <1>5
    <3>2. QED
      BY <1>1, <2>2, <3>1
  <2>3. CASE j # moved
    <3>1. j \in 0..(moved - 1)
      BY <1>1, <2>3
    <3>2. dma + j # dma + moved /\ dma + j \in Places
      <4>1. dma \in Nat
        BY <1>1, <1>2, <1>3
      <4>2. QED
        BY <1>1, <1>5, <2>3, <4>1
    <3>3. contents'[dma + j] = contents[dma + j]
      BY <1>1, <3>2
    <3>4. QED
      BY <3>1, <3>3 DEF RingHoldsTape
  <2>4. QED
    BY <2>2, <2>3
<1>9. \A i \in 1..b : contents'[CopyPlace(ring, ring.tail, i)] = Taken + i
  BY <1>6 DEF RingHoldsTape
<1>10. QED
  BY <1>7, <1>8, <1>9 DEF RingHoldsTape

(* A byte that goes to the tape is the next one, if any is due.            *)
LEMMA ByteIsNext ==
  ASSUME DevInv, OnFrame(ring.tail), dma = ring.tail, NEW first \in Nat,
         RingHoldsWritten(first), ~short => BytesInRing(ring) >= Frame,
         moved < Frame, moved' = moved + 1, sent' = IF Byte = sent + 1 THEN Byte ELSE sent,
         UNCHANGED <<ring, contents, written, short, pc>>
  PROVE  RingHoldsWritten(first)'
<1> DEFINE b == BytesInRing(ring)
<1>1. /\ ring \in RingType(Size) /\ b \in Nat /\ Frame \in Nat \ {0}
      /\ moved \in Nat /\ sent \in Nat /\ written \in Nat
  BY DataTyped
<1>2. sent' >= sent /\ sent' \in Nat
  BY <1>1
<1>3. sent' >= written \/ sent' >= first
  <2>1. sent >= written \/ sent >= first
    BY DEF RingHoldsWritten
  <2>2. QED
    BY <1>1, <1>2, <2>1
<1>4. ASSUME ~short
      PROVE  sent' >= written \/ sent' >= first + (moved + 1)
  <2>1. b >= Frame
    BY <1>4
  <2>2. sent >= written \/ sent >= first + moved
    BY <1>4 DEF RingHoldsWritten
  <2>3. CASE sent < written /\ sent = first + moved
    <3>1. moved \in 0..(Frame - 1) /\ moved + 1 \in 1..b /\ first + (moved + 1) <= written
      BY <1>1, <2>1, <2>3
    <3>2. CopyPlace(ring, ring.tail, moved + 1) = ring.tail + moved
      BY <1>1, <3>1, FramesOfRing
    <3>3. contents[CopyPlace(ring, ring.tail, moved + 1)] = first + (moved + 1)
      BY <3>1 DEF RingHoldsWritten
    <3>4. Byte = first + (moved + 1)
      BY <3>2, <3>3 DEF Byte
    <3>5. QED
      BY <1>1, <2>3, <3>4
  <2>4. CASE ~(sent < written /\ sent = first + moved)
    BY <1>1, <1>2, <2>2, <2>4
  <2>5. QED
    BY <2>3, <2>4
<1>5. BytesInRing(ring)' = b
  OBVIOUS
<1>6. QED
  BY <1>3, <1>4, <1>5 DEF RingHoldsWritten

LEMMA MoveByteKeepsData ==
  ASSUME DevInv, PollInv, DataInv, MoveByte, UNCHANGED <<pc, fileVars, callVars, dataVars>>
  PROVE  DataInv'
<1>1. /\ moved < Frame /\ moved' = moved + 1
      /\ UNCHANGED <<ring, direction, irqFunc, hw, dma, short, underran, overran,
                     written, got, pc, abandoned>>
  BY DEF MoveByte, slipVars, dataVars, fileVars
<1>2. CASE hw = "reading"
  <2>1. /\ direction = "reading" /\ tapeBytes' = tapeBytes + 1 /\ sent' = sent
        /\ contents' = [contents EXCEPT ![dma + moved] = tapeBytes + 1]
    BY <1>2 DEF MoveByte, DataInv, CardFollows
  <2>2. Fresh' /\ CardFollows' /\ OneIsLate'
    BY <1>1, <2>1 DEF DataInv, Fresh, CardFollows, OneIsLate
  <2>3. ASSUME ~overran
        PROVE  RingHoldsTape'
    <3>1. ~underran /\ RingHoldsTape
      BY <2>1, <2>3 DEF DataInv, OneIsLate, ReadInv, ReadData
    <3>2. SpaceInRing(ring) >= Frame
      BY <2>1, <2>3, <3>1 DEF PollInv, InTime, FrameHasRoom
    <3>3. QED
      BY <1>1, <2>1, <3>1, <3>2, ByteJoins
  <2>4. ReadInv'
    BY <1>1, <2>3 DEF DataInv, ReadInv, ReadData
  <2>5. WriteInv'
    BY <1>1, <1>2, <2>1 DEF DataInv, WriteInv, WriteData, SentIsWritten
  <2>6. QED
    BY <2>2, <2>4, <2>5 DEF DataInv
<1>3. CASE hw = "writing"
  <2>1. /\ direction # "reading" /\ contents' = contents /\ tapeBytes' = tapeBytes
        /\ sent' = IF Byte = sent + 1 THEN Byte ELSE sent
    BY <1>3 DEF MoveByte, DataInv, CardFollows
  <2>2. Fresh' /\ CardFollows' /\ OneIsLate'
    BY <1>1, <2>1 DEF DataInv, Fresh, CardFollows, OneIsLate, InTime
  <2>3. ReadInv'
    BY <1>1, <2>1 DEF DataInv, ReadInv, ReadData
  <2>4. SentIsWritten'
    <3>1. dma + moved \in Places
      <4>1. dma \in 0..(Size - 1) /\ moved \in Nat /\ Size \in Nat /\ Frame \in Nat
        BY DataTyped DEF DevInv, TypeOK, StreamTypeOK
      <4>2. QED
        BY <1>1, <4>1 DEF Places
    <3>2. /\ Byte <= written /\ sent <= written
          /\ \A place \in Places : contents[place] <= written
      BY <1>3, <3>1 DEF DataInv, WriteInv, SentIsWritten, Byte
    <3>3. sent' <= written
      BY <2>1, <3>2
    <3>4. direction # "writing" /\ ~underran => sent' = written
      <4>1. sent \in Nat /\ written \in Nat
        BY DataTyped
      <4>2. sent = written => sent' = sent
        BY <2>1, <3>2, <4>1
      <4>3. QED
        BY <4>2 DEF DataInv, WriteInv, SentIsWritten
    <3>5. QED
      BY <1>1, <2>1, <3>2, <3>3, <3>4 DEF SentIsWritten
  <2>5. WriteData'
    <3>1. SUFFICES ASSUME direction = "writing", ~underran
                   PROVE  /\ dma = ring.tail /\ OnFrame(ring.tail)
                          /\ \E first \in Nat : RingHoldsWritten(first)'
      BY <1>1 DEF WriteData
    <3>2. dma = ring.tail /\ OnFrame(ring.tail)
      BY <3>1 DEF DataInv, WriteInv, WriteData
    <3>3. PICK first \in Nat : RingHoldsWritten(first)
      BY <3>1 DEF DataInv, WriteInv, WriteData
    <3>4. ~overran
      BY <3>1 DEF DataInv, OneIsLate
    <3>5. ~short => BytesInRing(ring) >= Frame
      BY <3>1, <3>4 DEF PollInv, InTime, FrameIsThere
    <3>6. RingHoldsWritten(first)'
      BY <1>1, <2>1, <3>2, <3>3, <3>5, ByteIsNext
    <3>7. QED
      BY <3>2, <3>6
  <2>6. QED
    BY <2>2, <2>3, <2>4, <2>5 DEF DataInv, WriteInv
<1>4. QED
  BY <1>2, <1>3 DEF MoveByte

LEMMA CardKeepsData ==
  ASSUME DevInv, PollInv, DataInv, Card \/ UNCHANGED vars
  PROVE  DataInv'
<1>1. CASE Card /\ MoveByte
  BY <1>1, MoveByteKeepsData DEF Card
<1>2. CASE \/ Card /\ (Stall \/ BecomeLate)
           \/ UNCHANGED vars
  <2>1. UNCHANGED <<ring, contents, direction, irqFunc, hw, dma, moved, tapeBytes, sent,
                    short, underran, overran, written, got, pc, abandoned>>
    BY <1>2 DEF Card, Stall, BecomeLate, vars, streamVars, driverVars, cardVars, slipVars,
       dataVars, fileVars
  <2>2. QED
    BY <2>1, RestKeepsData DEF DataInv, CardFollows
<1>3. QED
  BY <1>1, <1>2 DEF Card

-----------------------------------------------------------------------------
(* The inductive invariant behind the three properties of the data.        *)
THEOREM DataInvariance ==
  ASSUME ~MayTurn
  PROVE  Spec => []DataInv
<1>1. Init => DataInv
  <2> SUFFICES ASSUME Init
               PROVE  DataInv
    OBVIOUS
  <2>1. /\ direction = "stopped" /\ hw = "off" /\ pc = "closed"
        /\ sent = 0 /\ written = 0 /\ got = <<>>
    BY DEF Init, StreamInit
  <2>2. Consecutive(got)
    BY <2>1 DEF Consecutive
  <2>3. Fresh /\ CardFollows /\ OneIsLate
    BY <2>1 DEF Fresh, CardFollows, OneIsLate
  <2>4. ReadInv /\ WriteInv
    BY <2>1, <2>2 DEF ReadInv, ReadData, WriteInv, WriteData, SentIsWritten
  <2>5. QED
    BY <2>3, <2>4 DEF DataInv
<1>2. DevInv /\ PollInv /\ DataInv /\ [Next]_vars => DataInv'
  <2> SUFFICES ASSUME DevInv, PollInv, DataInv, [Next]_vars
               PROVE  DataInv'
    OBVIOUS
  <2>1. CASE Open
    BY <2>1, OpenKeepsData
  <2>2. CASE \E dir \in Transferring, n \in 0..MaxCall : Call(dir, n)
    BY <2>2, CallKeepsData
  <2>3. CASE Poll \/ Close
    BY <2>3, LooksKeepData, CloseKeepsData
  <2>4. CASE Program
    BY <2>4, LooksKeepData, CopyOutKeepsData, CopyInKeepsData, CloseKeepsData DEF Program
  <2>5. CASE SleepTimeout \/ Signal
    BY <2>5, LooksKeepData, CloseKeepsData DEF SleepTimeout, Signal
  <2>6. CASE Interrupt
    BY <2>6, InterruptKeepsData
  <2>7. CASE Card \/ UNCHANGED vars
    BY <2>7, CardKeepsData
  <2>8. QED
    BY <2>1, <2>2, <2>3, <2>4, <2>5, <2>6, <2>7 DEF Next
<1>3. QED
  BY <1>1, <1>2, DeviceInvariance, PollInvariance, PTL DEF Spec

(* read(): the bytes come in the order of the tape, each of them once and  *)
(* none left out, as long as no frame arrived over bytes not yet read.     *)
THEOREM ReadIsConsecutiveAlways ==
  ASSUME ~MayTurn
  PROVE  Spec => []ReadIsConsecutive
<1>1. DataInv => ReadIsConsecutive
  BY DEF DataInv, ReadInv, Consecutive, ReadIsConsecutive
<1>2. QED
  BY <1>1, DataInvariance, PTL

(* write(): a byte that was taken is on the tape behind those before it,   *)
(* or in the ring, as long as no frame was drained that was not there.     *)
THEOREM WrittenIsSentOrPendingAlways ==
  ASSUME ~MayTurn
  PROVE  Spec => []WrittenIsSentOrPending
<1>1. DevInv /\ DataInv => WrittenIsSentOrPending
  <2>1. SUFFICES ASSUME DevInv, DataInv, ~underran, NEW i \in (sent + 1)..written
                 PROVE  i \in Pending
    BY DEF WrittenIsSentOrPending
  <2>2. sent \in Nat /\ written \in Nat /\ BytesInRing(ring) \in Nat
    BY <2>1, DataTyped
  <2>3. direction = "writing"
    BY <2>1, <2>2 DEF DataInv, WriteInv, SentIsWritten
  <2>4. PICK first \in Nat : RingHoldsWritten(first)
    BY <2>1, <2>3 DEF DataInv, WriteInv, WriteData
  <2>5. i - first \in 1..BytesInRing(ring) /\ first + (i - first) = i /\ i <= written
    BY <2>1, <2>2, <2>4 DEF RingHoldsWritten
  <2>6. contents[CopyPlace(ring, ring.tail, i - first)] = i
    BY <2>4, <2>5 DEF RingHoldsWritten
  <2>7. QED
    BY <2>5, <2>6 DEF Pending
<1>2. QED
  BY <1>1, DeviceInvariance, DataInvariance, PTL

(* release(): a close that succeeds has put everything written on the      *)
(* tape, as long as no frame was drained that was not there.               *)
THEOREM CloseFlushesAlways ==
  ASSUME ~MayTurn
  PROVE  Spec => []CloseFlushes
<1>1. DataInv => CloseFlushes
  <2>1. SUFFICES ASSUME DataInv, pc = "closed", ~abandoned, ~underran
                 PROVE  sent = written
    BY DEF CloseFlushes
  <2>2. direction # "writing"
    BY <2>1 DEF DataInv, CardFollows
  <2>3. QED
    BY <2>1, <2>2 DEF DataInv, WriteInv, SentIsWritten
<1>2. QED
  BY <1>1, DataInvariance, PTL
=============================================================================

--------------------------------- MODULE Ring ---------------------------------
(***************************************************************************)
(* The ring buffer of the drivers (src/drivers/bkr_ring_buffer.[ch]): its  *)
(* offset arithmetic.  A ring is a record of its size and two offsets,     *)
(* bytes going in at the head and coming out at the tail; its contents are *)
(* kept by the modules that use it.                                        *)
(***************************************************************************)
EXTENDS Integers

RingType(size) == [size : {size}, head : 0..(size - 1), tail : 0..(size - 1)]

(* ring_offset_sub(): only one turn is ever taken off or put back. *)
OffsetSub(r, x, y) == IF x - y < 0 THEN x - y + r.size ELSE x - y

BytesInRing(r) == OffsetSub(r, r.head, r.tail)

\* Mutant: the ring may be filled until the head meets the tail.
WholeSpaceInRing(r) == r.size - BytesInRing(r)

SpaceInRing(r) == OffsetSub(r, r.tail - 1, r.head)

\* Mutant: the end of the ring is taken for a place in it.
LateOffsetInc(r, offset, n) ==
  IF offset + n > r.size THEN offset + n - r.size ELSE offset + n

(* ring_offset_inc(), behind ring_fill() and ring_drain(). *)
OffsetInc(r, offset, n) ==
  IF offset + n >= r.size THEN offset + n - r.size ELSE offset + n

RingFill(r, n)  == [r EXCEPT !.head = OffsetInc(r, r.head, n)]
RingDrain(r, n) == [r EXCEPT !.tail = OffsetInc(r, r.tail, n)]

(* Where an offset stands after n elements were copied from it in at most  *)
(* two pieces: memset_ring(), memcpy_to_ring(), memcpy_from_ring(),        *)
(* copy_to_user_from_ring(), copy_to_ring_from_user().                     *)
CopyOffset(r, offset, n) ==
  IF r.size - offset <= n THEN n - (r.size - offset) ELSE offset + n

(* The place in the buffer of the i-th of n elements so copied, i in 1..n. *)
CopyPlace(r, offset, i) ==
  IF i <= r.size - offset THEN offset + i - 1 ELSE i - (r.size - offset) - 1

CopiedIn(r, n)  == [r EXCEPT !.head = CopyOffset(r, r.head, n)]
CopiedOut(r, n) == [r EXCEPT !.tail = CopyOffset(r, r.tail, n)]

(* ring_fill_to(): the filler missing to the next boundary, and whether it *)
(* fits.  It is copied in if it does; the function returns 0 if no more of *)
(* it is missing.                                                          *)
FillMissing(r, interval) == (interval - (r.head % interval)) % interval
FillFits(r, interval)    == SpaceInRing(r) >= FillMissing(r, interval)
=============================================================================

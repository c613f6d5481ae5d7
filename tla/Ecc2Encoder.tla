----------------------------- MODULE Ecc2Encoder -----------------------------
(***************************************************************************)
(* bkr_ecc2enc (src/codecs/bkr_ecc2.c): collects the bytes of the file in  *)
(* an adapter and cuts them into sector groups.  There is no end mark: the *)
(* last group is a short one.                                              *)
(*                                                                         *)
(* File bytes are their numbers, counted from 1 in the order they were     *)
(* given to the encoder.                                                   *)
(***************************************************************************)
EXTENDS Ecc2Group

CONSTANTS
  MaxBytes,        \* bound: bytes given to the encoder
  DownstreamFails  \* whether the peer may refuse a buffer, or its allocation

ASSUME Ecc2EncoderAssumption ==
  /\ MaxBytes \in Nat
  /\ DownstreamFails \in BOOLEAN

VARIABLES
  adapter,  \* filter->adapter of the encoder
  phase,    \* external: what the source does with the encoder
  input,    \* external: bytes given to the encoder so far
  sent,     \* external: the groups the peer was given
  lost      \* external: groups taken from the adapter and refused

encVars == <<adapter, phase, input, sent, lost>>

EncInit ==
  /\ adapter = <<>>
  /\ phase = "running"
  /\ input = 0
  /\ sent = <<>>
  /\ lost = 0

-----------------------------------------------------------------------------
UpTo(bytes, n) == SubSeq(bytes, 1, Min({n * GroupCapacity, Len(bytes)}))
After(bytes, n) == SubSeq(bytes, n * GroupCapacity + 1, Len(bytes))

(* write_group(), n times: as much as fits into a group each time.         *)
Groups(bytes, n) ==
  [i \in 1..n |-> UpTo(After(bytes, i - 1), 1)]

WriteAll(bytes, n) ==
  /\ sent' = sent \o Groups(bytes, n)
  /\ adapter' = After(bytes, n)
  /\ UNCHANGED lost

\* Mutant: the bytes are taken before the buffer is allocated.
EagerFailToAllocate(bytes, n) ==
  /\ DownstreamFails
  /\ \E j \in 0..(n - 1) :
       /\ sent' = sent \o Groups(bytes, j)
       /\ adapter' = After(bytes, j + 1)
  /\ UNCHANGED lost

(* One of the groups finds no buffer: its bytes stay in the adapter.       *)
FailToAllocate(bytes, n) ==
  /\ DownstreamFails
  /\ \E j \in 0..(n - 1) :
       /\ sent' = sent \o Groups(bytes, j)
       /\ adapter' = After(bytes, j)
  /\ UNCHANGED lost

(* One of the groups is refused: its bytes have left the adapter.          *)
FailToPush(bytes, n) ==
  /\ DownstreamFails
  /\ \E j \in 0..(n - 1) :
       /\ sent' = sent \o Groups(bytes, j)
       /\ adapter' = After(bytes, j + 1)
  /\ lost' = lost + 1

-----------------------------------------------------------------------------
(* enc_chain(): every full group is written. *)
FullGroups(bytes) == Len(bytes) \div GroupCapacity

Bytes(n) == [i \in 1..n |-> input + i]

EncChain ==
  /\ phase = "running"
  /\ \E n \in 1..(MaxBytes - input) :
       LET bytes == adapter \o Bytes(n)
       IN  /\ input' = input + n
           /\ \/ WriteAll(bytes, FullGroups(bytes)) /\ phase' = "running"
              \/ /\ \/ FailToAllocate(bytes, FullGroups(bytes))
                    \/ FailToPush(bytes, FullGroups(bytes))
                 /\ phase' = "ending"

(* External: the input is at its end.  A source that was refused a buffer  *)
(* sends the event at once.                                                *)
EndOfInput ==
  /\ phase = "running"
  /\ phase' = "ending"
  /\ UNCHANGED <<adapter, input, sent, lost>>

\* Mutant: a short group is always written, with nothing in it if need be.
EmptyFlushGroups(bytes) == (Len(bytes) \div GroupCapacity) + 1

(* enc_event() and enc_flush(): the rest is written, the last group short. *)
(* The event goes no further when that fails.                              *)
FlushGroups(bytes) == (Len(bytes) + GroupCapacity - 1) \div GroupCapacity

EncEos ==
  /\ phase = "ending"
  /\ \/ WriteAll(adapter, FlushGroups(adapter)) /\ phase' = "done"
     \/ /\ \/ FailToAllocate(adapter, FlushGroups(adapter))
           \/ FailToPush(adapter, FlushGroups(adapter))
        /\ phase' = "broken"
  /\ UNCHANGED input

EncNext == EncChain \/ EndOfInput \/ EncEos

-----------------------------------------------------------------------------
EncTypeOK ==
  /\ adapter \in Seq(Nat \ {0})
  /\ phase \in {"running", "ending", "done", "broken"}
  /\ input \in 0..MaxBytes
  /\ sent \in Seq(Group)
  /\ lost \in Nat

(* The bytes in the groups, if all but the last of them are full.          *)
BytesSent == IF sent = <<>> THEN 0
             ELSE (Len(sent) - 1) * GroupCapacity + Len(sent[Len(sent)])

(* Unless a group was refused by the peer, the groups written so far and   *)
(* the adapter hold the input without a hole, and only the last group is   *)
(* short: a failed allocation costs nothing, since enc_flush() writes the  *)
(* group again at the end.                                                 *)
GroupsHoldTheInput ==
  lost = 0 =>
    /\ \A i \in DOMAIN sent :
         /\ i < Len(sent) => Len(sent[i]) = GroupCapacity
         /\ \A j \in DOMAIN sent[i] : sent[i][j] = (i - 1) * GroupCapacity + j
    /\ BytesSent + Len(adapter) = input
    /\ \A j \in DOMAIN adapter : adapter[j] = BytesSent + j
=============================================================================

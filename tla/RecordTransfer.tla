---------------------------- MODULE RecordTransfer ----------------------------
(***************************************************************************)
(* What a recording promises to the program that reads it back: the bytes  *)
(* come out in order from the first one, each at most once, and the end of *)
(* the stream is announced only after the last byte of the recording.      *)
(* Playback may stop at any point without an announcement.                 *)
(*                                                                         *)
(* What is read is kept as the list of the pieces it came in, each with    *)
(* the place in the recording its bytes are from.  A piece begins where    *)
(* the one before it ended.                                                *)
(***************************************************************************)
EXTENDS Naturals, Sequences

CONSTANT Total  \* set of possible lengths of the recording, numbers

VARIABLES
  length,  \* bytes given to be recorded so far
  playing, \* the recording is over and is being read
  pieces,  \* what was read: for each piece its first byte and its size
  got,     \* bytes read: where the next piece has to begin
  ended    \* the end was announced

transferVars == <<length, playing, pieces, got, ended>>

Init == length = 0 /\ ~playing /\ pieces = <<>> /\ got = 0 /\ ~ended

Record == ~playing /\ length' > length /\ length' \in Total
          /\ UNCHANGED <<playing, pieces, got, ended>>

StartPlaying == ~playing /\ playing' /\ UNCHANGED <<length, pieces, got, ended>>

Read == /\ playing /\ ~ended
        /\ \E size \in 1..(length - got) :
             /\ pieces' = Append(pieces, [first |-> got, size |-> size])
             /\ got' = got + size
        /\ UNCHANGED <<length, playing, ended>>

Announce == /\ playing /\ ~ended /\ got = length
            /\ ended'
            /\ UNCHANGED <<length, playing, pieces, got>>

Next == Record \/ StartPlaying \/ Read \/ Announce

Spec == Init /\ [][Next]_transferVars
=============================================================================

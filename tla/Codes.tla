-------------------------------- MODULE Codes --------------------------------
(***************************************************************************)
(* The pure algorithms of the codecs, side by side: a behaviour is a block *)
(* in the Reed-Solomon codec, a buffer in the run-length codec, or one     *)
(* mode of the format tables, and the others stay idle.                    *)
(***************************************************************************)
EXTENDS ReedSolomon, Rll

VARIABLE compared  \* the mode whose formats are compared, in the third case

vars == <<rsVars, rllVars, compared>>

(* The code is linear, so that one content of a block stands for all.      *)
Data(k) == [i \in 0..(k - 1) |-> (i + 3) % (NN + 1)]

Init ==
  \/ /\ \E nk \in CodeSizes : Acceptable(nk[1], nk[2]) /\ RsInit(nk, Data(nk[2]))
     /\ RllInit /\ compared = {}
  \/ RsIdle /\ RllInit /\ compared \in {{}} \union {{mode} : mode \in Modes}

RsStep  == RsNext /\ UNCHANGED <<rllVars, compared>>
RllStep == step = "idle" /\ compared = {} /\ RllNext /\ UNCHANGED <<rsVars, compared>>

Next == RsStep \/ RllStep

Spec == Init /\ [][Next]_vars

(* The numbers of the elements, of the driver and of the display fit       *)
(* together in every mode, and a byte of the sector key is found nowhere   *)
(* else in what the frame encoder adds to the data.                        *)
StackFits == \A mode \in compared : KeyIsDistinct /\ FitsIn(mode)
=============================================================================

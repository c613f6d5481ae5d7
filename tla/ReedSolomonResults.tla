-------------------------- MODULE ReedSolomonResults --------------------------
(***************************************************************************)
(* What the model of the sector group takes for granted of the             *)
(* Reed-Solomon codec, and the algorithm shown to come to nothing else.    *)
(***************************************************************************)
EXTENDS ReedSolomon

GroupCode(parity) == INSTANCE Ecc2Group
  WITH BlockSize <- NN, Parity <- parity, SectorBytes <- 2, HeaderSize <- 1

Altered    == {i \in DOMAIN block : block[i] # received[i]}
StillWrong == {i \in DOMAIN block : block[i] # sent[i]}

(* "If the codeword is illegal or uncorrectable, the data and parity       *)
(* arrays are unchanged" (rs.h:211-212).  The Forney algorithm corrects a  *)
(* symbol before it looks at the next root, and gives up at a root that is *)
(* no location of a shortened block: that it has corrected nothing by then *)
(* is because the root search goes down from the highest location.         *)
UncorrectableUnchanged == ret < 0 => block = received

(* The decoder comes to one of the results that the model of the group     *)
(* codec takes for granted (Ecc2Group!Decode): the number it returns, the  *)
(* locations it leaves, the symbols that are right afterwards and those it *)
(* changed, whatever was damaged and given as erasures, twice or wrongly;  *)
(* and a block it gives up is as it was received.                          *)
(* A shortened block is a full one of which the rest is known to be 0, so  *)
(* that the same holds of it.                                              *)
ImplementsGroupCode ==
  step = "returned" =>
    /\ UncorrectableUnchanged
    /\ \E result \in GroupCode(codec.parity)!Decode(Wrong, given) :
         /\ result.corrections = Max({ret, -1})
         /\ StillWrong \subseteq result.wrong
         /\ Altered \intersect StillWrong \subseteq result.altered
         /\ ret > 0 => Range(result.erasure) = Range(erasure)
=============================================================================

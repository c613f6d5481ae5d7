--------------------------------- MODULE Rll ---------------------------------
(***************************************************************************)
(* The run-length codec (src/codecs/bkr_rll.c).  Eight symbols of eight    *)
(* bits become eight words of nine bits, packed highest bit first into     *)
(* nine bytes: here one sequence of bits.  One buffer at a time goes from  *)
(* the encoder to the decoder.                                             *)
(***************************************************************************)
EXTENDS Integers, Sequences, SequencesExt, Formats

CONSTANTS
  RllTable,  \* compute_format(): the format of the caps an element supports
  RllCaps,   \* the caps that are tried
  Texts,     \* the buffers the encoder is given
  MaxFlips   \* bound: bits the tape damages in a buffer

ASSUME RllAssumption ==
  /\ \A caps \in DOMAIN RllTable : RllTable[caps].capacity % 8 = 0
  /\ Texts \subseteq Seq(0..255)

(* The table has the words in ascending order, and rll_decode[] the place  *)
(* of a word in it; a word it does not have reads as -1 in eight bits.     *)
RLL_MASK  == 511
NotUsed   == {161, 193, 254} \union (257..262) \union {321, 385, 386, 387, 449}

\* Mutant: the words that are left out of the table are in it.
EveryWord == {w \in 137..494 : w % 8 \in 1..6}

CodeWords == {w \in 137..494 : w % 8 \in 1..6} \ NotUsed

rll_decode == [w \in 0..RLL_MASK |->
                 IF w \in CodeWords THEN Cardinality({v \in CodeWords : v < w}) ELSE 255]
rll_encode == [s \in 0..255 |-> CHOOSE w \in CodeWords : rll_decode[w] = s]

Inverted(word, last) == IF last % 2 = 1 THEN RLL_MASK - word ELSE word
Weight               == <<256, 128, 64, 32, 16, 8, 4, 2, 1>>
BitsOf(word)         == [k \in 1..9 |-> (word \div Weight[k]) % 2]
WordAt(bits, i) ==
  LET bit(k) == bits[9 * i - 9 + k]
  IN  256 * bit(1) + 128 * bit(2) + 64 * bit(3) + 32 * bit(4) + 16 * bit(5)
      + 8 * bit(6) + 4 * bit(7) + 2 * bit(8) + bit(9)

(* rll_modulate(): a word is inverted if the last bit written was 1, so    *)
(* that a bit stands for a transition or the lack of one.                  *)
NextWord(before, symbol) ==
  LET word == Inverted(rll_encode[symbol], before.last)
  IN  [last |-> word % 2, bits |-> before.bits \o BitsOf(word)]

Modulate(text) ==
  LET words[i \in 0..Len(text)] ==
        IF i = 0 THEN [last |-> 0, bits |-> <<>>]
        ELSE NextWord(words[i - 1], text[i])
  IN  words[Len(text)].bits

\* Mutant: the decoder's state is the word it has decoded.
DecodedStateDemodulate(bits, n) ==
  LET words[i \in 0..n] ==
        IF i = 0 THEN [last |-> 0, text |-> <<>>]
        ELSE LET word == Inverted(WordAt(bits, i), words[i - 1].last)
             IN  [last |-> word, text |-> Append(words[i - 1].text, rll_decode[word])]
  IN  words[n].text

(* rll_demodulate() *)
Demodulate(bits, n) ==
  [i \in 1..n |-> rll_decode[Inverted(WordAt(bits, i),
                                      IF i = 1 THEN 0 ELSE WordAt(bits, i - 1))]]

-----------------------------------------------------------------------------
VARIABLES
  encCaps,   \* the caps of the encoder's sink pad, NoCaps before there are any
  decCaps,   \* the caps of the decoder's sink pad
  rllSent,   \* ghost: the buffer the encoder was given
  onTape,    \* the bits of the buffer it passed on, as the tape has them
  rllFlips,  \* ghost: the bits that were damaged
  rllOut     \* the buffer the decoder passes on

rllVars == <<encCaps, decCaps, rllSent, onTape, rllFlips, rllOut>>

NoCaps == "none"

RllInit ==
  /\ encCaps = NoCaps /\ decCaps = NoCaps
  /\ rllSent = <<>> /\ onTape = <<>> /\ rllFlips = {} /\ rllOut = <<>>

(* enc_setcaps() and dec_setcaps().  After caps that are not supported     *)
(* there is no format; the pad keeps the caps it had, and the buffers that *)
(* come with them would be refused by the pad.                             *)
EncSetcaps(caps) ==
  /\ rllSent = <<>> /\ encCaps = NoCaps
  /\ encCaps' = IF CapsToFormat(RllTable, caps) = {} THEN NoCaps ELSE caps
  /\ UNCHANGED <<decCaps, rllSent, onTape, rllFlips, rllOut>>

DecSetcaps ==
  /\ onTape # <<>> /\ decCaps # encCaps
  /\ decCaps' = encCaps
  /\ UNCHANGED <<encCaps, rllSent, onTape, rllFlips, rllOut>>

(* enc_chain().  A buffer without caps or with other caps, or of another   *)
(* size than the format's, or one there is no buffer for downstream, is    *)
(* freed and leaves nothing changed.                                       *)
EncChain ==
  /\ encCaps # NoCaps /\ rllSent = <<>>
  /\ \E text \in Texts :
       /\ Len(text) = RllTable[encCaps].capacity
       /\ rllSent' = text
       /\ onTape' = Modulate(text)
  /\ UNCHANGED <<encCaps, decCaps, rllFlips, rllOut>>

(* External: the tape.                                                     *)
Flip(i) ==
  /\ i \in DOMAIN onTape /\ rllOut = <<>>
  /\ Cardinality(rllFlips) < MaxFlips
  /\ \A j \in rllFlips : j < i
  /\ rllFlips' = rllFlips \union {i}
  /\ onTape' = [onTape EXCEPT ![i] = 1 - @]
  /\ UNCHANGED <<encCaps, decCaps, rllSent, rllOut>>

(* dec_chain(): the size of the buffer is not looked at; it is right       *)
(* because the caps are those of the encoder.                              *)
DecChain ==
  /\ onTape # <<>> /\ decCaps = encCaps /\ rllOut = <<>>
  /\ rllOut' = Demodulate(onTape, RllTable[decCaps].capacity)
  /\ UNCHANGED <<encCaps, decCaps, rllSent, onTape, rllFlips>>

RllNext ==
  \/ \E caps \in RllCaps : EncSetcaps(caps)
  \/ DecSetcaps
  \/ EncChain
  \/ \E i \in DOMAIN onTape : Flip(i)
  \/ DecChain

RllSpec == RllInit /\ [][RllNext]_rllVars

-----------------------------------------------------------------------------
(* What the encoder is given comes out of the decoder, and a bit the tape  *)
(* damages costs no more than two symbols, next to each other: the word it *)
(* is in, and the next one if it was the last bit.  The error correction   *)
(* of the sector is spread over the buffer on that account.                *)
BitErrorsStayLocal ==
  rllOut # <<>> =>
    /\ Len(rllOut) = Len(rllSent)
    /\ \A i \in DOMAIN rllOut :
         rllOut[i] # rllSent[i] =>
           \E bit \in rllFlips : bit \in (9 * i - 9)..(9 * i)

(* The signal is self-clocking (README.md): the encoder writes no run of   *)
(* more than MaxRun equal bits, across words, bytes and groups of nine.    *)
MaxRun == 6
RunsAreShort ==
  rllFlips = {} =>
    \A i \in 1..(Len(onTape) - MaxRun) :
      \E j \in (i + 1)..(i + MaxRun) : onTape[j] # onTape[i]
=============================================================================

----------------------------- MODULE FrameDecoder -----------------------------
(***************************************************************************)
(* bkr_framedec (src/codecs/bkr_frame.c): finds the fields in a stream of  *)
(* bytes that nothing else delimits, by the bytes of the sector key, and   *)
(* passes their data on.                                                   *)
(*                                                                         *)
(* One call of dec_chain() is the step that puts the buffer into the       *)
(* adapter and a step for every turn of its loop.  The bytes of the        *)
(* adapter keep the tags of the link; the code sees only "byte".           *)
(***************************************************************************)
EXTENDS FrameEncoder

CONSTANTS
  ThresholdA, ThresholdB,  \* the part of the key that has to be seen
  BufferSizes              \* sizes of the buffers the stream comes in

ASSUME FrameDecoderAssumption ==
  /\ ThresholdA \in Nat /\ ThresholdB \in Nat \ {0} /\ ThresholdA <= ThresholdB
  /\ BufferSizes \subseteq Nat \ {0}

VARIABLES
  decCaps,     \* caps of the sink pad: they are those of filter->format, if any
  decFormat,   \* filter->format: NULL or set; crashed when NULL was dereferenced
  adapter,     \* filter->adapter
  inChain,     \* dec_chain() is in its loop
  worstKey,    \* filter->worst_key
  bestNonkey,  \* filter->best_nonkey
  out,         \* external: the data passed on, with the field it came from
  refused,     \* ghost: fields that came in, or were found, and were refused
  stranded,    \* ghost: a field found was left to be looked for with other caps
  stream,      \* ghost: the bytes that were put into the adapter
  fate         \* ghost: of each byte flushed, the format it was flushed in, and
               \* whether it was taken for part of a field

decVars == <<decCaps, decFormat, adapter, inChain, worstKey, bestNonkey, out,
             refused, stranded, stream, fate>>

DecFormat == FormatOf(decCaps)
Threshold(f) == (f.key_length * ThresholdA) \div ThresholdB

(* correlate(): key bytes seen in a field that would start at byte p.      *)
Correlate(f, bytes, p) ==
  Cardinality({j \in 1..f.key_length :
                 bytes[p + (j - 1) * f.key_interval].byte = Key(j)})

(* decode_field(): the data between the key bytes of the field at byte p.  *)
DecodeField(f, bytes, p) ==
  LET chunk == f.key_interval - 1
  IN  [k \in 1..FieldData(f) |->
         bytes[p + ((k - 1) \div chunk) * f.key_interval + 1
               + ((k - 1) % chunk)].byte]

(* The places of the adapter a whole active region could start at, and the *)
(* first of them that find_field() takes for one.                          *)
Places(f) == 1..(Len(adapter) - f.active_size + 1)
Keyed(f)  == {p \in Places(f) : Correlate(f, adapter, p) >= Threshold(f)}
Passed(f) == LET keyed == Keyed(f) IN {p \in Places(f) : \A q \in keyed : p < q}

(* Ghost: the field a region that starts at p was taken for.               *)
FieldAt(p) ==
  adapter[p + (DecFormat.key_length \div 2) * DecFormat.key_interval].field

-----------------------------------------------------------------------------
DecInit ==
  /\ decCaps = OtherCaps
  /\ decFormat = "NULL"
  /\ adapter = <<>>
  /\ inChain = FALSE
  /\ worstKey = 0
  /\ bestNonkey = 0
  /\ out = <<>>
  /\ refused = {}
  /\ stranded = FALSE
  /\ stream = <<>>
  /\ fate = <<>>

(* The next buffer is some of the bytes on the link that have the same     *)
(* caps: as many as one of the sizes, or all of them.                      *)
SameCaps ==
  LET others == {i \in DOMAIN link : link[i].caps # link[1].caps}
  IN  IF others = {} THEN Len(link) ELSE Min(others) - 1
NextBuffers == LET most == SameCaps IN {n \in BufferSizes : n < most} \union {most}

(* dec_setcaps() and reset_statistics(): what is in the adapter stays.     *)
Negotiate(caps) ==
  IF caps = decCaps
  THEN /\ decFormat = "set"
       /\ UNCHANGED <<decCaps, decFormat, worstKey, bestNonkey>>
  ELSE /\ decFormat # "crashed"
       /\ decCaps' = caps
       /\ decFormat' = "set"
       /\ worstKey' = FormatOf(caps).key_length
       /\ bestNonkey' = 0

(* Ghost: a field left in the adapter for want of a buffer is not found    *)
(* with the format of other caps.                                          *)
Strands(caps) ==
  caps # decCaps /\ decCaps # OtherCaps /\ Keyed(DecFormat) # {}

(* dec_chain() is given a buffer.                                          *)
DecChain ==
  /\ ~inChain /\ link # <<>>
  /\ \E n \in NextBuffers :
       /\ Negotiate(link[1].caps)
       /\ adapter' = adapter \o SubSeq(link, 1, n)
       /\ stream' = stream \o SubSeq(link, 1, n)
       /\ link' = SubSeq(link, n + 1, Len(link))
       /\ stranded' = (stranded \/ Strands(link[1].caps))
  /\ inChain' = TRUE
  /\ UNCHANGED <<out, refused, fate>>

(* dec_setcaps() fails, for caps of something else no format is found for, *)
(* or for want of memory with a buffer of the stream: the buffer is        *)
(* refused, the old format is gone, and the pad keeps the old caps.        *)
DecSetcapsFails ==
  /\ ~inChain /\ decFormat # "crashed"
  /\ decFormat' = "NULL"
  /\ \/ /\ Trouble
        /\ UNCHANGED <<link, refused>>
     \/ /\ link # <<>> /\ link[1].caps # decCaps
        /\ \E n \in NextBuffers :
             /\ troubles + n <= MaxTroubles
             /\ troubles' = troubles + n
             /\ link' = SubSeq(link, n + 1, Len(link))
             /\ refused' = refused \union
                  {link[i].field : i \in {k \in 1..n : link[k].active}}
  /\ UNCHANGED <<decCaps, adapter, inChain, worstKey, bestNonkey, out, stranded,
                 stream, fate>>

(* The next buffer in the caps of the pad: find_field() dereferences the   *)
(* format.                                                                 *)
DecCrash ==
  /\ ~inChain /\ decFormat = "NULL"
  /\ link # <<>> /\ link[1].caps = decCaps
  /\ decFormat' = "crashed"
  /\ UNCHANGED <<decCaps, adapter, inChain, worstKey, bestNonkey, out, refused,
                 stranded, stream, fate, link, troubles>>

(* find_field() stops at p: the statistics of the places it passed and of  *)
(* the field.                                                              *)
FindField(p) ==
  /\ worstKey' = Min({worstKey, Correlate(DecFormat, adapter, p)})
  /\ bestNonkey' = Max({bestNonkey} \union
                       {Correlate(DecFormat, adapter, q) : q \in Passed(DecFormat)})

After(n) == SubSeq(adapter, n + 1, Len(adapter))

(* Ghost: n bytes are flushed one by one, or with a field.                 *)
Over(n)  == [i \in 1..n |-> [caps |-> decCaps, taken |-> FALSE]]
Taken(n) == [i \in 1..n |-> [caps |-> decCaps, taken |-> TRUE]]

(* Ghost: the field at p, and everything before it, is flushed.            *)
TakeField(p) == fate' = fate \o Over(p - 1) \o Taken(DecFormat.active_size)

(* What is passed on of the field at p.                                    *)
Output(p) ==
  [field |-> FieldAt(p), caps |-> decCaps, at |-> Len(fate) + p,
   data  |-> DecodeField(DecFormat, adapter, p)]

\* Mutant: the field is not flushed after it was decoded.
LingeringDecField ==
  /\ inChain
  /\ Keyed(DecFormat) # {}
  /\ LET p == Min(Keyed(DecFormat))
     IN  /\ FindField(p)
         /\ adapter' = After(p - 1)
         /\ fate' = fate \o Over(p - 1)
         /\ out' = Append(out, Output(p))
  /\ UNCHANGED <<decCaps, decFormat, inChain, link, refused, stranded, stream,
                 troubles>>

(* A turn of the loop in which a field is found and passed on.             *)
DecField ==
  /\ inChain
  /\ Keyed(DecFormat) # {}
  /\ LET p == Min(Keyed(DecFormat))
     IN  /\ FindField(p)
         /\ adapter' = After(p - 1 + DecFormat.active_size)
         /\ TakeField(p)
         /\ out' = Append(out, Output(p))
  /\ UNCHANGED <<decCaps, decFormat, inChain, link, refused, stranded, stream,
                 troubles>>

\* Mutant: the bytes are flushed before there is a buffer for the data.
FlushingDecAllocFails ==
  /\ inChain
  /\ Keyed(DecFormat) # {}
  /\ LET p == Min(Keyed(DecFormat))
     IN  /\ FindField(p)
         /\ adapter' = After(p - 1 + DecFormat.active_size)
         /\ TakeField(p)
  /\ Trouble
  /\ inChain' = FALSE
  /\ UNCHANGED <<decCaps, decFormat, link, out, refused, stranded, stream>>

(* No buffer for the data: the field stays where it was found.             *)
DecAllocFails ==
  /\ inChain
  /\ Keyed(DecFormat) # {}
  /\ LET p == Min(Keyed(DecFormat))
     IN  /\ FindField(p)
         /\ adapter' = After(p - 1)
         /\ fate' = fate \o Over(p - 1)
  /\ Trouble
  /\ inChain' = FALSE
  /\ UNCHANGED <<decCaps, decFormat, link, out, refused, stranded, stream>>

(* The peer refuses the data: the field is gone.                           *)
DecPushFails ==
  /\ inChain
  /\ Keyed(DecFormat) # {}
  /\ LET p == Min(Keyed(DecFormat))
     IN  /\ FindField(p)
         /\ adapter' = After(p - 1 + DecFormat.active_size)
         /\ TakeField(p)
         /\ refused' = refused \union {FieldAt(p)}
  /\ Trouble
  /\ inChain' = FALSE
  /\ UNCHANGED <<decCaps, decFormat, link, out, stranded, stream>>

\* Mutant: what is left of a buffer that ends within a field is dropped.
ForgetfulDecReturn ==
  /\ inChain
  /\ Keyed(DecFormat) = {}
  /\ bestNonkey' = Max({bestNonkey} \union
                       {Correlate(DecFormat, adapter, q) : q \in Places(DecFormat)})
  /\ adapter' = <<>>
  /\ fate' = fate \o Over(Len(adapter))
  /\ inChain' = FALSE
  /\ UNCHANGED <<decCaps, decFormat, link, worstKey, out, refused, stranded, stream,
                 troubles>>

(* The last turn: every place is passed, and less than a field is left.    *)
DecReturn ==
  /\ inChain
  /\ Keyed(DecFormat) = {}
  /\ bestNonkey' = Max({bestNonkey} \union
                       {Correlate(DecFormat, adapter, q) : q \in Places(DecFormat)})
  /\ adapter' = After(Cardinality(Places(DecFormat)))
  /\ fate' = fate \o Over(Cardinality(Places(DecFormat)))
  /\ inChain' = FALSE
  /\ UNCHANGED <<decCaps, decFormat, link, worstKey, out, refused, stranded, stream,
                 troubles>>

DecNext ==
  \/ DecChain /\ UNCHANGED troubles
  \/ DecSetcapsFails
  \/ DecCrash
  \/ DecField
  \/ DecAllocFails
  \/ DecPushFails
  \/ DecReturn

-----------------------------------------------------------------------------
DecTypeOK ==
  /\ decCaps \in DOMAIN FrameFormats \union {OtherCaps}
  /\ decFormat \in {"NULL", "set", "crashed"}
  /\ decFormat # "NULL" => decCaps # OtherCaps
  /\ inChain \in BOOLEAN
  /\ inChain => decFormat = "set"
  /\ worstKey \in Nat
  /\ bestNonkey \in Nat
  /\ \A i \in DOMAIN out : out[i].field \in DOMAIN sent
  /\ refused \subseteq DOMAIN sent
  /\ stranded \in BOOLEAN

(* The two statistics the operator adjusts the tape by are on their sides  *)
(* of the threshold: everything taken for a field had more of the key than *)
(* anything passed over, since the caps were last negotiated.              *)
StatisticsStraddleThreshold ==
  decCaps # OtherCaps =>
    bestNonkey < Threshold(DecFormat) /\ Threshold(DecFormat) <= worstKey

(* However the stream was cut into buffers, and whichever calls failed, it *)
(* was searched as one: what is passed on is the data of places of it that *)
(* follow one another and do not overlap, each with enough of the key, and *)
(* no byte was passed over at which a whole region with enough of the key  *)
(* began.  This takes nothing for granted of what is on the tape.          *)
SearchIsOfTheWholeStream ==
  /\ \A q \in DOMAIN fate :
       LET f == FormatOf(fate[q].caps)
       IN  ~fate[q].taken => /\ q + f.active_size - 1 <= Len(stream)
                             /\ Correlate(f, stream, q) < Threshold(f)
  /\ \A i \in DOMAIN out :
       LET f == FormatOf(out[i].caps)
           p == out[i].at
       IN  /\ p + f.active_size - 1 <= Len(fate)
           /\ Correlate(f, stream, p) >= Threshold(f)
           /\ out[i].data = DecodeField(f, stream, p)
           /\ \A j \in 1..(i - 1) :
                out[j].at + FormatOf(out[j].caps).active_size <= p
=============================================================================

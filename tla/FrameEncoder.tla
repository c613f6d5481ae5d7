----------------------------- MODULE FrameEncoder -----------------------------
(***************************************************************************)
(* bkr_frameenc (src/codecs/bkr_frame.c): puts every buffer of sector data *)
(* into one video field, with a leader, a trailer and the bytes of the     *)
(* sector key among the data.  Odd fields are longer by the interlace.     *)
(*                                                                         *)
(* A byte is a token: <<"data", n, i>> is byte i of the n-th field, and    *)
(* <<"key", j, 0>> byte j of the key; a data byte may happen to have the   *)
(* value of one of the key.  The bytes on the link carry, for the          *)
(* properties only, the field they were written for and whether they stand *)
(* in its active region.                                                   *)
(***************************************************************************)
EXTENDS Formats, FiniteSetsExt, SequencesExt

CONSTANTS
  FrameFormats,  \* the rows of the format table: a function of the caps
  OtherCaps,     \* caps no format is found for
  MaxFields,     \* bound: fields recorded
  MaxTroubles,   \* bound: refused calls, bytes the noise injector or the tape
                 \* damages or a call drops, and data bytes that look like the key
  MaxFalse,      \* bound: data or noise bytes with the value of a key byte
  NoiseLine,     \* bytes_per_line of inject_noise(): 4, as bitdensity is not set
  MaxGlitches,   \* glitches of the noise injector in a field: 4 at most
  MaxCut         \* lines it takes off the end of a field: 6 at most

ASSUME FrameAssumption ==
  /\ \A caps \in DOMAIN FrameFormats : /\ FrameFormats[caps] \in FrameRows
                                        /\ FrameFormatOK(FrameFormats[caps])
  /\ OtherCaps \notin DOMAIN FrameFormats
  /\ {MaxFields, MaxTroubles, MaxFalse, NoiseLine, MaxGlitches, MaxCut} \subseteq Nat

VARIABLES
  encCaps,   \* caps of the sink pad: they are those of filter->format, if any
  encFormat, \* filter->format: NULL or set; crashed when NULL was dereferenced
  oddField,  \* filter->odd_field
  injecting, \* filter->inject_noise
  link,      \* the bytes that left the encoder and were not yet consumed
  sent,      \* ghost: the caps and data of every field that left it
  damaged,   \* ghost: fields with a byte of the active region changed
  falseKeys, \* ghost: accidental key bytes so far
  troubles   \* ghost: troubles so far

encVars == <<encCaps, encFormat, oddField, injecting, link, sent, damaged>>
budgets == <<falseKeys, troubles>>

Key(j)      == <<"key", j, 0>>
Data(n, i)  == <<"data", n, i>>
LeaderByte  == <<"leader", 0, 0>>
TrailerByte == <<"trailer", 0, 0>>
Noise       == <<"noise", 0, 0>>

FormatOf(caps) == FrameFormats[caps]
\* Mutant: the fields are numbered.
NumberedParity(odd) == odd + 1

OtherParity(odd) == 1 - odd

FieldSize(f, odd) == f.field_size + (IF odd = 1 THEN f.interlace ELSE 0)

(* The active region: a key byte every key_interval bytes, data between.   *)
Active(f, data) ==
  [i \in 1..f.active_size |->
     IF (i - 1) % f.key_interval = 0
     THEN Key((i - 1) \div f.key_interval + 1)
     ELSE data[i - 1 - (i - 1) \div f.key_interval]]

TrailerLength(f, odd) == f.trailer + (IF odd = 1 THEN f.interlace ELSE 0)

(* encode_field().                                                         *)
EncodeField(f, data, odd) ==
  [i \in 1..f.leader |-> LeaderByte] \o Active(f, data)
    \o [i \in 1..TrailerLength(f, odd) |-> TrailerByte]

IsActive(f, i) == i - f.leader \in 1..f.active_size

(* A byte that took the place of another has any value: also one of the    *)
(* key, by accident.                                                       *)
NoiseBytes(f) == {Noise} \union {Key(j) : j \in 1..f.key_length}

(* The bytes a glitch may overwrite, which the first one never is among,   *)
(* and the sets of bytes that several of them, in one field, may change: a *)
(* random byte may also have the value it had before.                      *)
Glitches(size) == {(s + 1)..(s + 2 * NoiseLine) : s \in 1..(size - 2 * NoiseLine)}
Hit(size) ==
  UNION {SUBSET (UNION {g[k] : k \in 1..MaxGlitches}) :
           g \in [1..MaxGlitches -> Glitches(size)]}

(* inject_noise(): some bytes are changed, and lines taken off the end.    *)
InjectNoise(bytes, noise, lines) ==
  [i \in 1..(Len(bytes) - lines * NoiseLine) |->
     IF i \in DOMAIN noise THEN noise[i] ELSE bytes[i]]

(* The data of the n-th field: its own bytes, one of which may look like a *)
(* byte of the key.                                                        *)
Payloads(f, n) ==
  LET own == [i \in 1..FieldData(f) |-> Data(n, i)]
  IN  {own} \union
      {[own EXCEPT ![i] = Key(j)] : i \in 1..FieldData(f), j \in 1..f.key_length}

FalseIn(data) == Cardinality({i \in DOMAIN data : data[i][1] = "key"})

(* What noise did to the bytes of a field: those that were changed or cut  *)
(* off, and how many of them look like a byte of the key.                  *)
Harmed(field, noisy) ==
  {i \in DOMAIN field : i \notin DOMAIN noisy \/ noisy[i] # field[i]}
FalseNoise(field, noisy) ==
  Cardinality({i \in Harmed(field, noisy) : i \in DOMAIN noisy /\ noisy[i][1] = "key"})

-----------------------------------------------------------------------------
EncInit ==
  /\ encCaps = OtherCaps
  /\ encFormat = "NULL"
  /\ oddField = 1
  /\ injecting \in BOOLEAN
  /\ link = <<>>
  /\ sent = <<>>
  /\ damaged = {}
  /\ falseKeys = 0
  /\ troubles = 0

(* One more thing goes wrong; n bytes that happen to look like the key     *)
(* come into the stream.                                                   *)
Trouble == troubles < MaxTroubles /\ troubles' = troubles + 1
Accident(n) ==
  /\ falseKeys + n <= MaxFalse
  /\ falseKeys' = falseKeys + n

(* enc_setcaps(), called for a buffer whose caps are not those of the pad. *)
(* The parity of the fields is not touched.                                *)
EncSetcaps(caps) ==
  /\ caps # encCaps
  /\ CapsToFormat(FrameFormats, caps) # {}
  /\ encFormat # "crashed"
  /\ encCaps' = caps
  /\ encFormat' = "set"
  /\ UNCHANGED <<oddField, injecting, link, sent, damaged, budgets>>

(* enc_setcaps(), no format is found for the caps or there is no memory    *)
(* for it: the old format is gone, and the pad keeps the old caps.         *)
EncSetcapsFails ==
  /\ encFormat = "set"
  /\ encFormat' = "NULL"
  /\ Trouble
  /\ UNCHANGED <<encCaps, oddField, injecting, link, sent, damaged, falseKeys>>

(* The next buffer in the caps of the pad, in enc_chain(), or a request    *)
(* for one, in enc_bufferalloc(): the format is dereferenced.              *)
EncCrash ==
  /\ encCaps \in DOMAIN FrameFormats /\ encFormat = "NULL"
  /\ encFormat' = "crashed"
  /\ UNCHANGED <<encCaps, oddField, injecting, link, sent, damaged, budgets>>

(* enc_chain(), the peer takes the field: only then is the parity changed. *)
EncChain(data, noise, lines) ==
  LET f     == FormatOf(encCaps)
      n     == Len(sent) + 1
      field == EncodeField(f, data, oddField)
      noisy == InjectNoise(field, noise, lines)
  IN  /\ encFormat = "set"
      /\ n <= MaxFields
      /\ Accident(FalseIn(data) + FalseNoise(field, noisy))
      /\ troubles' = troubles + FalseIn(data) + Cardinality(Harmed(field, noisy))
      /\ troubles' <= MaxTroubles
      /\ link' = link \o [i \in DOMAIN noisy |->
                            [caps |-> encCaps, byte |-> noisy[i], field |-> n,
                             active |-> IsActive(f, i)]]
      /\ sent' = Append(sent, [caps |-> encCaps, data |-> data])
      /\ damaged' = IF \E i \in Harmed(field, noisy) : IsActive(f, i)
                    THEN damaged \union {n} ELSE damaged
      /\ oddField' = OtherParity(oddField)
      /\ UNCHANGED <<encCaps, encFormat, injecting>>

(* One field through enc_chain(), with the noise injector on or off.       *)
EncField ==
  /\ encFormat = "set"
  /\ LET f    == FormatOf(encCaps)
         hits == {hit \in Hit(FieldSize(f, oddField)) :
                    troubles + Cardinality(hit) <= MaxTroubles}
     IN  \E data \in Payloads(f, Len(sent) + 1) :
           LET room == MaxTroubles - troubles - FalseIn(data)
           IN  \/ EncChain(data, <<>>, 0)
               \/ /\ injecting
                  /\ \E hit \in hits, lines \in 0..MaxCut :
                       /\ Cardinality(hit) + lines * NoiseLine <= room
                       /\ \E noise \in [hit -> NoiseBytes(f)] : EncChain(data, noise, lines)

\* Mutant: the parity changes although the field was refused.
EagerEncChainFails ==
  /\ encFormat = "set"
  /\ Len(sent) < MaxFields
  /\ Trouble
  /\ oddField' = 1 - oddField
  /\ UNCHANGED <<encCaps, encFormat, injecting, link, sent, damaged, falseKeys>>

(* enc_chain(), no buffer for the field or the peer refuses it: the data   *)
(* is dropped.                                                             *)
EncChainFails ==
  /\ encFormat = "set"
  /\ Len(sent) < MaxFields
  /\ Trouble
  /\ UNCHANGED <<encVars, falseKeys>>

EncNext ==
  \/ \E caps \in DOMAIN FrameFormats \union {OtherCaps} : EncSetcaps(caps)
  \/ EncSetcapsFails
  \/ EncField
  \/ EncChainFails
  \/ EncCrash

-----------------------------------------------------------------------------
EncTypeOK ==
  /\ encCaps \in DOMAIN FrameFormats \union {OtherCaps}
  /\ encFormat \in {"NULL", "set", "crashed"}
  /\ encFormat # "NULL" => encCaps # OtherCaps
  /\ oddField \in {0, 1}
  /\ injecting \in BOOLEAN
  /\ \A i \in DOMAIN link : link[i].caps \in DOMAIN FrameFormats
                            /\ link[i].field \in 1..MaxFields
  /\ Len(sent) <= MaxFields
  /\ damaged \subseteq DOMAIN sent
  /\ falseKeys \in 0..MaxFalse
  /\ troubles \in 0..MaxTroubles
=============================================================================

------------------------------ MODULE VideoProofs ------------------------------
(***************************************************************************)
(* The screen and the statistics of the field decoder, for every format,   *)
(* every cut of the stream into buffers and every trouble on the way.      *)
(***************************************************************************)
EXTENDS VideoPath, ListLemmas

-----------------------------------------------------------------------------
(* The screen.                                                             *)
VideoInv ==
  /\ mode \in DOMAIN VideoFormats
  /\ IsList(screen)
  /\ fieldNumber \in Nat
  /\ inTransform \in BOOLEAN
  /\ announced \in BOOLEAN
  /\ changed \in BOOLEAN
  /\ OutputIsAnnounced

(* Two fields that follow each other are as long as an odd and an even one.*)
LEMMA FieldsOfAFrame ==
  ASSUME NEW h \in Nat, NEW l \in Nat, NEW b \in Nat
  PROVE  /\ h * b \in Nat /\ (h + l) * b \in Nat
         /\ h * b + (h + l) * b = (2 * h + l) * b
<1>1. h * b \in Nat /\ l * b \in Nat
  OBVIOUS
<1>2. (h + l) * b = h * b + l * b
  OBVIOUS
<1>3. (2 * h + l) * b = 2 * (h * b) + l * b
  OBVIOUS
<1>4. QED
  BY <1>1, <1>2, <1>3

(* The format in lines and bytes: the field that is due and the one behind *)
(* it make up a frame.                                                     *)
LEMMA NextFields ==
  ASSUME VideoInv
  PROVE  /\ NextFieldBytes \in Nat /\ TwoFieldsBytes \in Nat
         /\ NextFieldBytes <= TwoFieldsBytes
         /\ (fieldNumber' = fieldNumber + 1 /\ mode' = mode)
              => NextFieldBytes' = TwoFieldsBytes - NextFieldBytes
<1> DEFINE h == Video.height
           l == Video.interlace
           b == Video.bytes_per_line
<1>1. h \in Nat /\ l \in Nat /\ b \in Nat
  BY VideoAssumption DEF VideoInv, Video
<1>2. NextFieldBytes = IF fieldNumber % 2 = 1 THEN (h + l) * b ELSE h * b
  BY <1>1 DEF NextFieldBytes, LinesInNextField
<1>3. TwoFieldsBytes = (2 * h + l) * b
  BY DEF TwoFieldsBytes, LinesInTwoFields
<1>4. mode' = mode => NextFieldBytes' = IF (fieldNumber' % 2) = 1 THEN (h + l) * b ELSE h * b
  BY <1>1 DEF NextFieldBytes, LinesInNextField, Video
<1> HIDE DEF h, l, b
<1>5. /\ h * b \in Nat /\ (h + l) * b \in Nat
      /\ h * b + (h + l) * b = (2 * h + l) * b
  BY <1>1, FieldsOfAFrame
<1>6. fieldNumber \in Nat
  BY DEF VideoInv
<1>7. fieldNumber' = fieldNumber + 1 => ((fieldNumber' % 2) = 1 <=> (fieldNumber % 2) # 1)
  BY <1>6
<1> DEFINE even == h * b
           odd == (h + l) * b
           two == (2 * h + l) * b
<1>8. even \in Nat /\ odd \in Nat /\ even + odd = two
  BY <1>5
<1>9. /\ NextFieldBytes = IF fieldNumber % 2 = 1 THEN odd ELSE even
      /\ TwoFieldsBytes = two
      /\ mode' = mode => NextFieldBytes' = IF (fieldNumber' % 2) = 1 THEN odd ELSE even
  BY <1>2, <1>3, <1>4
<1> HIDE DEF even, odd, two
<1>10. NextFieldBytes \in Nat /\ TwoFieldsBytes \in Nat /\ NextFieldBytes <= TwoFieldsBytes
  BY <1>8, <1>9
<1>11. (fieldNumber' = fieldNumber + 1 /\ mode' = mode)
         => NextFieldBytes' = TwoFieldsBytes - NextFieldBytes
  BY <1>7, <1>8, <1>9
<1>12. QED
  BY <1>10, <1>11

(* A buffer is announced for by the bytes that will be on the screen.      *)
LEMMA TransformKeeps ==
  ASSUME VideoInv, Transform
  PROVE  VideoInv'
<1>1. PICK n \in 1..Len(link) :
        /\ announced' = (Len(screen) + n >= NextFieldBytes)
        /\ screen' = screen \o [i \in 1..n |-> link[i].byte]
  BY DEF Transform, TransformSize
<1>2. /\ inTransform' = TRUE
      /\ mode' = mode /\ fieldNumber' = fieldNumber /\ changed' = changed
  BY DEF Transform
<1>3. IsList(screen) /\ n \in Nat
  BY <1>1 DEF VideoInv
<1>4. IsList(screen') /\ Len(screen') = Len(screen) + n
  <2> DEFINE u == [i \in 1..n |-> link[i].byte]
             T == {link[i].byte : i \in 1..n}
  <2>1. u \in [1..n -> T]
    OBVIOUS
  <2>2. screen' = screen \o u
    BY <1>1
  <2> HIDE DEF u, T
  <2>3. u \in Seq(T) /\ Len(u) = n
    BY <1>3, <2>1
  <2>4. QED
    BY <1>3, <2>2, <2>3, JoinedList
<1>5. NextFieldBytes' = NextFieldBytes
  BY <1>2 DEF NextFieldBytes, LinesInNextField, Video
<1>6. OutputIsAnnounced'
  BY <1>1, <1>4, <1>5 DEF OutputIsAnnounced
<1>7. announced' \in BOOLEAN
  BY <1>1
<1>8. QED
  BY <1>2, <1>4, <1>6, <1>7 DEF VideoInv

(* An image is drawn: the one behind it is the shorter or the longer one.  *)
LEMMA BonusKeeps ==
  ASSUME VideoInv, BonusField
  PROVE  VideoInv'
<1>1. /\ inTransform /\ Len(screen) >= TwoFieldsBytes
      /\ screen' = SubSeq(screen, NextFieldBytes + 1, Len(screen))
      /\ fieldNumber' = fieldNumber + 1
      /\ UNCHANGED <<mode, inTransform, announced, changed>>
  BY DEF BonusField, Drawn
<1>2. /\ NextFieldBytes \in Nat /\ TwoFieldsBytes \in Nat
      /\ NextFieldBytes <= TwoFieldsBytes
      /\ NextFieldBytes' = TwoFieldsBytes - NextFieldBytes
  BY <1>1, NextFields
<1>3. IsList(screen) /\ Len(screen) \in Nat
  BY DEF VideoInv, IsList
<1>4. IsList(screen') /\ Len(screen') = Len(screen) - NextFieldBytes
  BY <1>1, <1>2, <1>3, RestOfList
<1>5. Len(screen') >= NextFieldBytes' /\ Len(screen) >= NextFieldBytes
  BY <1>1, <1>2, <1>3, <1>4
<1>6. ~changed => announced
  BY <1>1, <1>5 DEF VideoInv, OutputIsAnnounced
<1>7. OutputIsAnnounced'
  <2>1. CASE changed
    BY <1>1, <2>1 DEF OutputIsAnnounced
  <2>2. CASE ~changed
    <3>1. announced' = TRUE
      BY <1>1, <1>6, <2>2 DEF VideoInv
    <3>2. (Len(screen') >= NextFieldBytes') = TRUE
      BY <1>5
    <3>3. QED
      BY <3>1, <3>2 DEF OutputIsAnnounced
  <2>3. QED
    BY <2>1, <2>2
<1>8. QED
  BY <1>1, <1>4, <1>7 DEF VideoInv

(* Outside the loop nothing is announced.                                  *)
LEMMA LeavingKeeps ==
  ASSUME VideoInv, BonusFieldFails \/ DropOutput \/ LastField(TRUE) \/ LastField(FALSE)
  PROVE  VideoInv'
<1>1. inTransform' = FALSE /\ UNCHANGED <<mode, announced, changed>>
  BY DEF BonusFieldFails, DropOutput, LastField
<1>2. IsList(screen') /\ fieldNumber' \in Nat
  <2>1. CASE UNCHANGED <<screen, fieldNumber>>
    BY <2>1 DEF VideoInv
  <2>2. CASE /\ Len(screen) >= NextFieldBytes
             /\ screen' = SubSeq(screen, NextFieldBytes + 1, Len(screen))
             /\ fieldNumber' = fieldNumber + 1
    <3>1. IsList(screen) /\ Len(screen) \in Nat
      BY DEF VideoInv, IsList
    <3>2. NextFieldBytes \in 0..Len(screen)
      BY <2>2, <3>1, NextFields
    <3>3. QED
      BY <2>2, <3>1, <3>2, RestOfList DEF VideoInv
  <2>3. QED
    BY <2>1, <2>2 DEF BonusFieldFails, DropOutput, LastField, Drawn
<1>3. OutputIsAnnounced'
  BY <1>1 DEF OutputIsAnnounced
<1>4. QED
  BY <1>1, <1>2, <1>3 DEF VideoInv

(* A new mode is no longer the one that was announced for.                 *)
LEMMA ReconfigureKeeps ==
  ASSUME VideoInv, Reconfigure
  PROVE  VideoInv'
BY DEF Reconfigure, VideoInv, OutputIsAnnounced

LEMMA OthersKeepScreen ==
  ASSUME VideoInv, UNCHANGED voVars
  PROVE  VideoInv'
BY DEF voVars, VideoInv, OutputIsAnnounced, NextFieldBytes, LinesInNextField, Video

LEMMA VideoStep ==
  ASSUME VideoInv, [Next]_vars
  PROVE  VideoInv'
<1>1. CASE VoNext
  BY <1>1, TransformKeeps, BonusKeeps, LeavingKeeps, ReconfigureKeeps DEF VoNext
<1>2. CASE UNCHANGED voVars
  BY <1>2, OthersKeepScreen
<1>3. Record \/ Rewind \/ Damage \/ Play => UNCHANGED voVars
  BY DEF Record, Rewind, Damage, Wear, Play, voVars
<1>4. UNCHANGED vars => UNCHANGED voVars
  BY DEF vars
<1>5. QED
  BY <1>1, <1>2, <1>3, <1>4 DEF Next, Show

LEMMA VideoInitially ==
  ASSUME Init
  PROVE  VideoInv
<1>1. VoInit
  BY DEF Init
<1>2. IsList(screen)
  <2>1. screen = <<>> /\ <<>> \in Seq({})
    BY <1>1 DEF VoInit
  <2>2. QED
    BY <2>1, ListOf
<1>3. QED
  BY <1>1, <1>2 DEF VoInit, VideoInv, OutputIsAnnounced

(* The output is announced exactly when a field is left to draw, whatever  *)
(* the size of the buffers, the formats and the troubles before.           *)
THEOREM OutputIsAnnouncedAlways == Spec => []OutputIsAnnounced
<1>1. Init => VideoInv
  BY VideoInitially
<1>2. VideoInv /\ [Next]_vars => VideoInv'
  BY VideoStep
<1>3. VideoInv => OutputIsAnnounced
  BY DEF VideoInv
<1>4. QED
  BY <1>1, <1>2, <1>3, PTL DEF Spec

-----------------------------------------------------------------------------
(* Part of a number, in a ratio of no more than one.                       *)
LEMMA PartOf ==
  ASSUME NEW n \in Nat, NEW a \in Nat, NEW b \in Nat \ {0}, a <= b
  PROVE  (n * a) \div b \in 0..n
<1> DEFINE q == (n * a) \div b
<1>1. n * a \in Nat /\ n * b \in Nat /\ n * a <= n * b
  <2>1. b - a \in Nat /\ n * (b - a) \in Nat
    OBVIOUS
  <2>2. n * (b - a) = n * b - n * a
    OBVIOUS
  <2>3. QED
    BY <2>1, <2>2
<1>2. q \in Nat /\ b * q <= n * a
  <2> DEFINE c == n * a
  <2>1. c \in Nat /\ q = c \div b
    BY <1>1
  <2> HIDE DEF c, q
  <2>2. /\ c \div b \in Nat /\ c % b \in 0..(b - 1)
        /\ c = b * (c \div b) + (c % b)
    BY <2>1, Euclid, Zenon
  <2>3. QED
    BY <2>1, <2>2 DEF c
<1> HIDE DEF q
<1>3. q <= n
  <2>1. SUFFICES ASSUME q >= n + 1
                 PROVE  FALSE
    BY <1>2
  <2>2. b * q >= b * (n + 1)
    <3>1. q - (n + 1) \in Nat
      BY <1>2, <2>1
    <3>2. PICK d \in Nat : q = n + 1 + d
      BY <1>2, <3>1
    <3>3. b * d \in Nat /\ b * q = b * (n + 1) + b * d
      BY <3>2
    <3>4. QED
      BY <3>3
  <2>3. b * (n + 1) = n * b + b
    OBVIOUS
  <2>4. b * q \in Int
    BY <1>2
  <2>5. QED
    BY <1>1, <1>2, <2>2, <2>3, <2>4
<1>4. QED
  BY <1>2, <1>3 DEF q

(* A row: all its key bytes stand in the active region, with a byte at     *)
(* least behind the last one, and some of them make a field.               *)
LEMMA RowFacts ==
  ASSUME NEW caps \in DOMAIN FrameFormats, NEW f, f = FormatOf(caps)
  PROVE  /\ f \in FrameRows
         /\ f.field_size = f.leader + f.active_size + f.trailer
         /\ f.key_interval > 1
         /\ f.key_length >= 1
         /\ (f.key_length - 1) * f.key_interval < f.active_size
         /\ f.key_length <= f.active_size
         /\ FieldData(f) = f.active_size - f.key_length
         /\ Threshold(f) \in 1..f.key_length
<1>1. /\ f \in FrameRows
      /\ f.field_size = f.leader + f.active_size + f.trailer
      /\ f.key_interval > 1
      /\ f.active_size \div f.key_interval = f.key_length - 1
      /\ f.active_size % f.key_interval >= 1
  <2>1. f \in FrameRows /\ FrameFormatOK(f)
    BY FrameAssumption DEF FormatOf
  <2>2. f.active_size % f.key_interval \in Int
    BY <2>1, Euclid DEF FrameRows, FrameFormatOK
  <2>3. QED
    BY <2>1, <2>2 DEF FrameFormatOK, LastChunk
<1> DEFINE a == f.active_size
           m == f.key_interval
           k == f.key_length - 1
<1>2. a \in Nat /\ m \in Nat \ {0} /\ m > 1 /\ f.key_length \in Nat
  BY <1>1 DEF FrameRows
<1>3. k = a \div m /\ a % m >= 1
  BY <1>1
<1> HIDE DEF a, m
<1>4. k \in Nat /\ m * k < a
  <2>1. /\ a \div m \in Nat /\ a % m \in 0..(m - 1)
        /\ a = m * (a \div m) + (a % m)
    BY <1>2, Euclid
  <2>2. m * (a \div m) \in Nat
    BY <1>2, <2>1
  <2>3. QED
    BY <1>2, <1>3, <2>1, <2>2
<1> HIDE DEF k
<1>5. k * m < a /\ k < a
  <2>1. k * m = m * k /\ (m - 1) * k \in Nat /\ (m - 1) * k = m * k - k
    BY <1>2, <1>4
  <2>2. m * k \in Int
    BY <1>2, <1>4
  <2>3. QED
    BY <1>2, <1>4, <2>1, <2>2
<1>6. Threshold(f) \in 1..f.key_length
  <2>1. Threshold(f) \in 0..f.key_length
    BY <1>2, PartOf, FrameDecoderAssumption DEF Threshold
  <2>2. Threshold(f) > 0
    BY VideoPathAssumption DEF FormatOf
  <2>3. QED
    BY <1>2, <2>1, <2>2
<1>7. QED
  BY <1>1, <1>2, <1>4, <1>5, <1>6 DEF a, m, k, FieldData

(* The bytes between those of the key are the data, in order.              *)
LEMMA DataPlace ==
  ASSUME NEW caps \in DOMAIN FrameFormats, NEW f, f = FormatOf(caps),
         NEW i \in 1..f.active_size, (i - 1) % f.key_interval # 0
  PROVE  i - 1 - (i - 1) \div f.key_interval \in 1..FieldData(f)
<1> DEFINE a == f.active_size
           m == f.key_interval
           k == f.key_length - 1
           q == (i - 1) \div m
           r == (i - 1) % m
<1>1. /\ a \in Nat /\ m \in Nat \ {0} /\ m > 1 /\ k \in Nat /\ k * m < a
      /\ FieldData(f) = a - k - 1
  BY RowFacts DEF FrameRows
<1>2. i \in 1..a /\ r # 0
  OBVIOUS
<1> HIDE DEF a, m, k
<1>3. q \in Nat /\ r \in 1..(m - 1) /\ i - 1 = m * q + r
  <2>1. i - 1 \in Nat
    BY <1>1, <1>2
  <2>2. q \in Nat /\ r \in 0..(m - 1) /\ i - 1 = m * q + r
    BY <1>1, <2>1, Euclid, Zenon
  <2>3. QED
    BY <1>1, <1>2, <2>2
<1> HIDE DEF q, r
<1>4. /\ m * q \in Nat /\ k * m \in Nat /\ (m - 1) * q \in Nat
      /\ (m - 1) * q = m * q - q /\ k * m = m * k
  BY <1>1, <1>3
<1>5. i - 1 - q >= 1
  BY <1>1, <1>2, <1>3, <1>4
<1>6. i - 1 - q <= a - k - 1
  <2>1. CASE q >= k
    BY <1>1, <1>2, <1>3, <1>4, <2>1
  <2>2. CASE q < k
    <3>1. /\ (m - 1) * (k - 1 - q) \in Nat
          /\ (m - 1) * (k - 1 - q) = m * k - k - m + 1 - (m - 1) * q
      BY <1>1, <1>3, <2>2
    <3>2. QED
      BY <1>1, <1>2, <1>3, <1>4, <2>2, <3>1
  <2>3. QED
    BY <1>1, <1>3, <2>1, <2>2
<1>7. QED
  BY <1>1, <1>2, <1>3, <1>5, <1>6 DEF q, m

-----------------------------------------------------------------------------
(* The types.  What travels knows its field, and that field was sent.      *)
Tokens == {"data", "key", "leader", "trailer", "noise"} \X Nat \X Nat
Bytes(n) == [caps : DOMAIN FrameFormats, byte : Tokens, field : 1..n, active : BOOLEAN]
Fields == [caps : DOMAIN FrameFormats, data : Seq(Tokens)]

EncTypes ==
  /\ encCaps \in DOMAIN FrameFormats \union {OtherCaps}
  /\ encFormat \in {"NULL", "set", "crashed"}
  /\ encFormat # "NULL" => encCaps \in DOMAIN FrameFormats
  /\ oddField \in {0, 1}
  /\ injecting \in BOOLEAN
  /\ sent \in Seq(Fields) /\ Len(sent) <= MaxFields
  /\ damaged \subseteq 1..Len(sent)
  /\ falseKeys \in 0..MaxFalse
  /\ troubles \in 0..MaxTroubles

StreamTypes ==
  /\ link \in Seq(Bytes(Len(sent)))
  /\ adapter \in Seq(Bytes(Len(sent)))
  /\ screen \in Seq(Tokens)

DecTypes ==
  /\ decCaps \in DOMAIN FrameFormats \union {OtherCaps}
  /\ decFormat \in {"NULL", "set", "crashed"}
  /\ decFormat # "NULL" => decCaps # OtherCaps
  /\ inChain \in BOOLEAN
  /\ inChain => decFormat = "set"
  /\ IsList(out) /\ \A i \in DOMAIN out : out[i].field \in 1..Len(sent)
  /\ refused \subseteq 1..Len(sent)
  /\ stranded \in BOOLEAN

ScreenTypes ==
  /\ fieldNumber \in Nat \ {0}
  /\ IsList(images)
  /\ \A i \in DOMAIN images : images[i].number \in 1..(fieldNumber - 1)

PathTypes ==
  /\ sink \in {"tape", "screen"}
  /\ phase \in {"record", "play"}
  /\ worn \in 0..MaxWear

(* The statistics, with what they need to be numbers.                      *)
Statistics ==
  /\ worstKey \in Nat
  /\ bestNonkey \in Nat
  /\ StatisticsStraddleThreshold

TypesInv ==
  /\ VideoInv
  /\ EncTypes /\ StreamTypes /\ DecTypes /\ ScreenTypes /\ PathTypes
  /\ Statistics

(* What travels keeps its type when more was sent.                         *)
LEMMA BytesWiden ==
  ASSUME NEW m \in Nat, NEW n \in Nat, m <= n, NEW s \in Seq(Bytes(m))
  PROVE  s \in Seq(Bytes(n))
<1>1. Bytes(m) \subseteq Bytes(n)
  BY DEF Bytes
<1>2. QED
  BY <1>1, SeqWidens

LEMMA KeysAreTokens ==
  /\ \A j \in Nat : Key(j) \in Tokens
  /\ \A n \in Nat, i \in Nat : Data(n, i) \in Tokens
  /\ {LeaderByte, TrailerByte, Noise} \subseteq Tokens
BY DEF Key, Data, LeaderByte, TrailerByte, Noise, Tokens

(* A buffer of data is as long as the format has it.                       *)
LEMMA PayloadTyped ==
  ASSUME NEW caps \in DOMAIN FrameFormats, NEW f, f = FormatOf(caps),
         NEW n \in Nat, NEW data \in Payloads(f, n)
  PROVE  data \in Seq(Tokens) /\ Len(data) = FieldData(f) /\ FalseIn(data) \in Nat
<1> DEFINE k == FieldData(f)
           own == [i \in 1..k |-> Data(n, i)]
<1>1. k \in Nat /\ f.key_length \in Nat
  BY RowFacts DEF FrameRows
<1> HIDE DEF k
<1>2. own \in [1..k -> Tokens]
  BY <1>1, KeysAreTokens
<1>3. data = own \/ \E i \in 1..k, j \in 1..f.key_length : data = [own EXCEPT ![i] = Key(j)]
  BY DEF Payloads, k
<1>4. data \in [1..k -> Tokens]
  <2>1. CASE data = own
    BY <1>2, <2>1
  <2>2. CASE \E i \in 1..k, j \in 1..f.key_length : data = [own EXCEPT ![i] = Key(j)]
    <3>1. PICK i \in 1..k, j \in 1..f.key_length : data = [own EXCEPT ![i] = Key(j)]
      BY <2>2
    <3>2. Key(j) \in Tokens
      BY <1>1, KeysAreTokens
    <3> HIDE DEF own
    <3>3. QED
      BY <1>2, <3>1, <3>2
  <2>3. QED
    BY <1>3, <2>1, <2>2
<1>5. data \in Seq(Tokens) /\ Len(data) = k
  BY <1>1, <1>4
<1>6. FalseIn(data) \in Nat
  <2>1. DOMAIN data = 1..k
    BY <1>4
  <2>2. {i \in DOMAIN data : data[i][1] = "key"} \in SUBSET (1..k)
    BY <2>1
  <2>3. IsFiniteSet(1..k)
    BY <1>1, FS_Interval
  <2>4. IsFiniteSet({i \in DOMAIN data : data[i][1] = "key"})
    BY <2>2, <2>3, FS_Subset
  <2>5. QED
    BY <2>4, FS_CardinalityType DEF FalseIn
<1>7. QED
  BY <1>5, <1>6 DEF k

(* A field is as long as its format and its parity have it.                *)
LEMMA FieldTyped ==
  ASSUME NEW caps \in DOMAIN FrameFormats, NEW f, f = FormatOf(caps),
         NEW data \in Seq(Tokens), Len(data) = FieldData(f), NEW odd \in {0, 1}
  PROVE  /\ EncodeField(f, data, odd) \in Seq(Tokens)
         /\ Len(EncodeField(f, data, odd)) = FieldSize(f, odd)
         /\ FieldSize(f, odd) \in Nat
<1> DEFINE a == [i \in 1..f.leader |-> LeaderByte]
           b == Active(f, data)
           c == [i \in 1..TrailerLength(f, odd) |-> TrailerByte]
<1>1. /\ f.leader \in Nat /\ f.active_size \in Nat /\ f.trailer \in Nat
      /\ f.interlace \in Nat /\ f.key_interval \in Nat \ {0}
      /\ f.field_size = f.leader + f.active_size + f.trailer
  BY RowFacts DEF FrameRows
<1>2. TrailerLength(f, odd) \in Nat
      /\ FieldSize(f, odd) = f.leader + f.active_size + TrailerLength(f, odd)
  BY <1>1 DEF TrailerLength, FieldSize
<1>3. a \in Seq(Tokens) /\ Len(a) = f.leader
  <2>1. a \in [1..f.leader -> Tokens]
    BY KeysAreTokens
  <2> HIDE DEF a
  <2>2. PICK n \in Nat : n = f.leader
    BY <1>1
  <2>3. QED
    BY <2>1, <2>2, FunctionIsSeq
<1>4. c \in Seq(Tokens) /\ Len(c) = TrailerLength(f, odd)
  <2>1. c \in [1..TrailerLength(f, odd) -> Tokens]
    BY KeysAreTokens
  <2> HIDE DEF c
  <2>2. QED
    BY <1>2, <2>1
<1>5. b \in Seq(Tokens) /\ Len(b) = f.active_size
  <2>1. ASSUME NEW i \in 1..f.active_size
        PROVE  (IF (i - 1) % f.key_interval = 0
                THEN Key((i - 1) \div f.key_interval + 1)
                ELSE data[i - 1 - (i - 1) \div f.key_interval]) \in Tokens
    <3>1. CASE (i - 1) % f.key_interval = 0
      <4>1. i - 1 \in Nat
        BY <1>1
      <4>2. (i - 1) \div f.key_interval \in Nat
        BY <1>1, <4>1, Euclid
      <4>3. (i - 1) \div f.key_interval + 1 \in Nat
        BY <4>2
      <4>4. QED
        BY <3>1, <4>3, KeysAreTokens
    <3>2. CASE (i - 1) % f.key_interval # 0
      <4>1. i - 1 - (i - 1) \div f.key_interval \in 1..Len(data)
        BY <3>2, DataPlace
      <4>2. data[i - 1 - (i - 1) \div f.key_interval] \in Tokens
        BY <4>1, ElementOfSeq
      <4>3. QED
        BY <3>2, <4>2
    <3>3. QED
      BY <3>1, <3>2
  <2>2. b \in [1..f.active_size -> Tokens]
    BY <2>1 DEF Active
  <2> HIDE DEF b
  <2>3. PICK n \in Nat : n = f.active_size
    BY <1>1
  <2>4. QED
    BY <2>2, <2>3, FunctionIsSeq
<1>6. EncodeField(f, data, odd) = a \o b \o c
  BY DEF EncodeField
<1> HIDE DEF a, b, c
<1>7. a \o b \in Seq(Tokens) /\ Len(a \o b) = Len(a) + Len(b)
  BY <1>3, <1>5, ConcatProperties, Zenon
<1> DEFINE d == a \o b
<1>8. d \in Seq(Tokens)
  BY <1>7
<1> HIDE DEF d
<1>9. d \o c \in Seq(Tokens) /\ Len(d \o c) = Len(d) + Len(c)
  BY <1>4, <1>8, ConcatProperties, Zenon
<1>10. QED
  BY <1>1, <1>2, <1>3, <1>4, <1>5, <1>6, <1>7, <1>9 DEF d

(* Noise takes the place of bytes, and of only so many.                    *)
LEMMA NoiseTyped ==
  ASSUME NEW bytes \in Seq(Tokens), NEW noise, \A i \in DOMAIN noise : noise[i] \in Tokens,
         NEW lines \in Nat
  PROVE  InjectNoise(bytes, noise, lines) \in Seq(Tokens)
<1> DEFINE short == lines * NoiseLine
           n == IF Len(bytes) < short THEN 0 ELSE Len(bytes) - short
           noisy == InjectNoise(bytes, noise, lines)
<1>1. n \in Nat /\ n <= Len(bytes) /\ 1..(Len(bytes) - short) = 1..n
  <2>1. short \in Nat
    BY FrameAssumption
  <2> HIDE DEF short
  <2>2. QED
    BY <2>1
<1>2. noisy \in [1..n -> Tokens]
  <2>1. noisy = [i \in 1..n |-> IF i \in DOMAIN noise THEN noise[i] ELSE bytes[i]]
    BY <1>1, Zenon DEF InjectNoise
  <2> HIDE DEF noisy, n
  <2>2. \A i \in 1..n : bytes[i] \in Tokens
    BY <1>1
  <2>3. QED
    BY <2>1, <2>2
<1> HIDE DEF noisy, n
<1>3. noisy \in Seq(Tokens)
  BY <1>1, <1>2
<1>4. QED
  BY <1>3 DEF noisy

LEMMA HarmCounts ==
  ASSUME NEW field \in Seq(Tokens), NEW noisy
  PROVE  Cardinality(Harmed(field, noisy)) \in Nat /\ FalseNoise(field, noisy) \in Nat
<1> DEFINE H == Harmed(field, noisy)
           K == {i \in H : i \in DOMAIN noisy /\ noisy[i][1] = "key"}
<1>1. DOMAIN field = 1..Len(field) /\ Len(field) \in Nat
  OBVIOUS
<1>2. IsFiniteSet(1..Len(field))
  BY <1>1, FS_Interval
<1>3. H \in SUBSET (1..Len(field))
  BY <1>1 DEF Harmed
<1> HIDE DEF H
<1>4. K \in SUBSET (1..Len(field))
  BY <1>3
<1>5. FalseNoise(field, noisy) = Cardinality(K)
  BY DEF FalseNoise, H
<1> HIDE DEF K
<1>6. IsFiniteSet(H) /\ IsFiniteSet(K)
  BY <1>2, <1>3, <1>4, FS_Subset
<1>7. QED
  BY <1>5, <1>6, FS_CardinalityType DEF H

(* What the noise injector may put into a field.                           *)
NoiseOf(noise, lines) ==
  /\ lines \in Nat
  /\ \A i \in DOMAIN noise : noise[i] \in Tokens
  /\ injecting \/ (noise = <<>> /\ lines = 0)

LEMMA FieldIsRecorded ==
  ASSUME EncTypes, EncField
  PROVE  /\ encFormat = "set" /\ encCaps \in DOMAIN FrameFormats
         /\ \E data \in Payloads(FormatOf(encCaps), Len(sent) + 1) :
              \E noise, lines : NoiseOf(noise, lines) /\ EncChain(data, noise, lines)
<1> DEFINE f == FormatOf(encCaps)
<1>1. encFormat = "set" /\ encCaps \in DOMAIN FrameFormats
  BY DEF EncField, EncTypes
<1>2. PICK data \in Payloads(f, Len(sent) + 1) :
        \/ EncChain(data, <<>>, 0)
        \/ /\ injecting
           /\ \E hit \in Hit(FieldSize(f, oddField)), lines \in 0..MaxCut :
                \E noise \in [hit -> NoiseBytes(f)] : EncChain(data, noise, lines)
  BY DEF EncField
<1>3. CASE EncChain(data, <<>>, 0)
  <2>1. NoiseOf(<<>>, 0)
    BY DEF NoiseOf
  <2>2. QED
    BY <1>1, <1>3, <2>1, Zenon
<1>4. CASE /\ injecting
           /\ \E hit \in Hit(FieldSize(f, oddField)), lines \in 0..MaxCut :
                \E noise \in [hit -> NoiseBytes(f)] : EncChain(data, noise, lines)
  <2>1. PICK hit \in Hit(FieldSize(f, oddField)), lines \in 0..MaxCut :
          \E noise \in [hit -> NoiseBytes(f)] : EncChain(data, noise, lines)
    BY <1>4
  <2>2. PICK noise \in [hit -> NoiseBytes(f)] : EncChain(data, noise, lines)
    BY <2>1
  <2>3. NoiseBytes(f) \subseteq Tokens
    <3>1. \A j \in 1..f.key_length : j \in Nat
      OBVIOUS
    <3>2. \A j \in 1..f.key_length : Key(j) \in Tokens
      BY <3>1, KeysAreTokens
    <3>3. QED
      BY <3>2, KeysAreTokens DEF NoiseBytes
  <2>4. \A i \in DOMAIN noise : noise[i] \in Tokens
    BY <2>2, <2>3
  <2>5. NoiseOf(noise, lines)
    BY <1>4, <2>4 DEF NoiseOf
  <2>6. QED
    BY <1>1, <2>2, <2>5, Zenon
<1>5. QED
  BY <1>2, <1>3, <1>4

(* A field leaves the encoder.                                             *)
LEMMA ChainTypes ==
  ASSUME EncTypes, StreamTypes, encCaps \in DOMAIN FrameFormats,
         NEW data \in Payloads(FormatOf(encCaps), Len(sent) + 1),
         NEW noise, NEW lines, NoiseOf(noise, lines),
         EncChain(data, noise, lines)
  PROVE  EncTypes' /\ Len(sent') = Len(sent) + 1 /\ link' \in Seq(Bytes(Len(sent')))
<1> DEFINE f == FormatOf(encCaps)
           n == Len(sent) + 1
           field == EncodeField(f, data, oddField)
           noisy == InjectNoise(field, noise, lines)
           false == FalseIn(data) + FalseNoise(field, noisy)
           harm == Cardinality(Harmed(field, noisy))
           e == [caps |-> encCaps, data |-> data]
           more == [i \in DOMAIN noisy |->
                      [caps |-> encCaps, byte |-> noisy[i], field |-> n,
                       active |-> IsActive(f, i)]]
<1>1. /\ n <= MaxFields
      /\ link' = link \o more
      /\ sent' = Append(sent, e)
      /\ damaged' = damaged \/ damaged' = damaged \union {n}
      /\ oddField' = OtherParity(oddField)
      /\ falseKeys + false <= MaxFalse
      /\ falseKeys' = falseKeys + false
      /\ troubles' = troubles + FalseIn(data) + harm
      /\ troubles' <= MaxTroubles
      /\ UNCHANGED <<encCaps, encFormat, injecting>>
  BY DEF EncChain, Accident
<1>2. sent \in Seq(Fields) /\ Len(sent) \in Nat /\ oddField \in {0, 1}
  BY DEF EncTypes
<1>3. n \in Nat
  BY <1>2
<1> HIDE DEF n
<1>4. data \in Seq(Tokens) /\ Len(data) = FieldData(f) /\ FalseIn(data) \in Nat
  BY <1>3, PayloadTyped DEF n
<1>5. field \in Seq(Tokens)
  BY <1>2, <1>4, FieldTyped
<1> HIDE DEF field
<1>6. noisy \in Seq(Tokens)
  BY <1>5, NoiseTyped DEF NoiseOf
<1> HIDE DEF noisy, f
<1>16. false \in Nat /\ harm \in Nat
  <2>1. FalseNoise(field, noisy) \in Nat /\ harm \in Nat
    BY <1>5, HarmCounts
  <2>2. QED
    BY <1>4, <2>1
<1> HIDE DEF false, harm
<1>7. n \in 1..n
  BY <1>2, <1>3 DEF n
<1>8. more \in Seq(Bytes(n)) /\ Len(more) = Len(noisy)
  <2>1. DOMAIN noisy = 1..Len(noisy) /\ Len(noisy) \in Nat
    BY <1>6
  <2>2. ASSUME NEW i \in 1..Len(noisy)
        PROVE  [caps |-> encCaps, byte |-> noisy[i], field |-> n,
                active |-> IsActive(f, i)] \in Bytes(n)
    <3>1. noisy[i] \in Tokens
      BY <1>6
    <3>2. IsActive(f, i) \in BOOLEAN
      BY DEF IsActive
    <3>3. QED
      BY <1>7, <3>1, <3>2 DEF Bytes
  <2>3. more \in [1..Len(noisy) -> Bytes(n)]
    BY <2>1, <2>2, Zenon
  <2> HIDE DEF more
  <2>4. QED
    BY <2>1, <2>3
<1> HIDE DEF more
<1>9. e \in Fields
  BY <1>4 DEF Fields
<1> HIDE DEF e
<1>10. sent' \in Seq(Fields) /\ Len(sent') = n
  BY <1>1, <1>2, <1>9 DEF n
<1>11. link' \in Seq(Bytes(Len(sent')))
  <2>1. link \in Seq(Bytes(n))
    <3>1. link \in Seq(Bytes(Len(sent))) /\ Len(sent) <= n
      BY <1>2 DEF StreamTypes, n
    <3>2. QED
      BY <1>2, <1>3, <3>1, BytesWiden
  <2>2. link \o more \in Seq(Bytes(n))
    BY <1>8, <2>1, ConcatProperties, Zenon
  <2>3. QED
    BY <1>1, <1>10, <2>2
<1>12. damaged' \subseteq 1..n
  <2>1. 1..Len(sent) \subseteq 1..n
    BY <1>2 DEF n
  <2>2. damaged \subseteq 1..Len(sent)
    BY DEF EncTypes
  <2>3. QED
    BY <1>1, <1>7, <2>1, <2>2, Zenon
<1>13. /\ oddField' \in {0, 1}
       /\ falseKeys' \in 0..MaxFalse
       /\ troubles' \in 0..MaxTroubles
  <2>1. troubles' = troubles + FalseIn(data) + harm
    BY <1>1
  <2>2. falseKeys \in Nat /\ troubles \in Nat
    BY DEF EncTypes
  <2>3. oddField' \in {0, 1}
    BY <1>1, <1>2 DEF OtherParity
  <2>4. falseKeys' \in Nat /\ falseKeys' <= MaxFalse
    BY <1>1, <1>16, <2>2
  <2>5. troubles' \in Nat /\ troubles' <= MaxTroubles
    <3>1. troubles' \in Nat
      BY <1>4, <1>16, <2>1, <2>2
    <3>2. QED
      BY <1>1, <3>1
  <2>6. MaxFalse \in Nat /\ MaxTroubles \in Nat
    BY FrameAssumption
  <2>7. QED
    BY <2>3, <2>4, <2>5, <2>6
<1>14. EncTypes'
  BY <1>1, <1>10, <1>12, <1>13 DEF EncTypes
<1>15. QED
  BY <1>10, <1>11, <1>14 DEF n

(* What is in the readers stays in its type when more is sent.             *)
LEMMA ReadersKeep ==
  ASSUME TypesInv, sent' \in Seq(Fields), Len(sent') >= Len(sent),
         UNCHANGED <<decVars, voVars>>
  PROVE  /\ DecTypes' /\ ScreenTypes' /\ Statistics'
         /\ adapter' \in Seq(Bytes(Len(sent'))) /\ screen' \in Seq(Tokens)
<1>1. Len(sent) \in Nat /\ Len(sent') \in Nat
  BY DEF TypesInv, EncTypes
<1>2. UNCHANGED <<decCaps, decFormat, inChain, out, refused, stranded, worstKey, bestNonkey, adapter,
                  fieldNumber, images, screen>>
  BY DEF decVars, voVars
<1>3. adapter \in Seq(Bytes(Len(sent'))) /\ screen \in Seq(Tokens)
  BY <1>1, BytesWiden DEF TypesInv, StreamTypes
<1>4. DecTypes'
  <2>1. \A i \in DOMAIN out : out[i].field \in 1..Len(sent')
    BY <1>1 DEF TypesInv, DecTypes
  <2>2. refused \subseteq 1..Len(sent')
    BY <1>1 DEF TypesInv, DecTypes
  <2>3. QED
    BY <1>2, <2>1, <2>2 DEF TypesInv, DecTypes
<1>5. ScreenTypes' /\ Statistics'
  BY <1>2 DEF TypesInv, ScreenTypes, Statistics, StatisticsStraddleThreshold, DecFormat
<1>6. QED
  BY <1>2, <1>3, <1>4, <1>5

LEMMA RecordTypes ==
  ASSUME TypesInv, Record
  PROVE  /\ EncTypes' /\ StreamTypes' /\ DecTypes' /\ ScreenTypes' /\ PathTypes'
         /\ Statistics'
<1>1. EncNext /\ UNCHANGED <<decVars, voVars>> /\ UNCHANGED <<sink, phase, worn>>
  BY DEF Record, pathVars
<1>2. Len(sent) \in Nat /\ sent \in Seq(Fields)
  BY DEF TypesInv, EncTypes
<1>3. EncTypes' /\ Len(sent') >= Len(sent) /\ link' \in Seq(Bytes(Len(sent')))
  <2>1. ASSUME NEW caps \in DOMAIN FrameFormats \union {OtherCaps}, EncSetcaps(caps)
        PROVE  EncTypes' /\ Len(sent') >= Len(sent) /\ link' \in Seq(Bytes(Len(sent')))
    <3>1. /\ encCaps' = caps /\ encFormat' = "set" /\ caps \in DOMAIN FrameFormats
          /\ UNCHANGED <<oddField, injecting, link, sent, damaged, falseKeys, troubles>>
      BY <2>1 DEF EncSetcaps, CapsToFormat, budgets
    <3>2. QED
      BY <1>2, <3>1 DEF TypesInv, EncTypes, StreamTypes
  <2>2. CASE EncField
    <3>1. EncTypes /\ StreamTypes
      BY DEF TypesInv
    <3>2. encCaps \in DOMAIN FrameFormats
          /\ \E data \in Payloads(FormatOf(encCaps), Len(sent) + 1) :
               \E noise, lines : NoiseOf(noise, lines) /\ EncChain(data, noise, lines)
      BY <2>2, <3>1, FieldIsRecorded
    <3>3. EncTypes' /\ Len(sent') = Len(sent) + 1 /\ link' \in Seq(Bytes(Len(sent')))
      BY <3>1, <3>2, ChainTypes
    <3>4. QED
      BY <1>2, <3>3
  <2>3. CASE EncChainFails \/ EncSetcapsFails
    <3>1. /\ troubles < MaxTroubles /\ troubles' = troubles + 1
          /\ encFormat' \in {"NULL", "set"} /\ encFormat = "set"
          /\ UNCHANGED <<encCaps, oddField, injecting, link, sent, damaged, falseKeys>>
      BY <2>3 DEF EncChainFails, EncSetcapsFails, Trouble, encVars
    <3>2. troubles' \in 0..MaxTroubles
      BY <3>1, FrameAssumption DEF TypesInv, EncTypes
    <3>3. QED
      BY <1>2, <3>1, <3>2 DEF TypesInv, EncTypes, StreamTypes
  <2>4. CASE EncCrash
    BY <1>2, <2>4 DEF EncCrash, budgets, TypesInv, EncTypes, StreamTypes
  <2>5. QED
    BY <1>1, <2>1, <2>2, <2>3, <2>4 DEF EncNext
<1>4. sent' \in Seq(Fields)
  BY <1>3 DEF EncTypes
<1>5. /\ DecTypes' /\ ScreenTypes' /\ Statistics'
      /\ adapter' \in Seq(Bytes(Len(sent'))) /\ screen' \in Seq(Tokens)
  BY <1>1, <1>3, <1>4, ReadersKeep
<1>6. StreamTypes'
  BY <1>3, <1>5 DEF StreamTypes
<1>7. PathTypes'
  BY <1>1 DEF TypesInv, PathTypes
<1>8. QED
  BY <1>3, <1>5, <1>6, <1>7

(* The tape: what it damages are bytes of fields that were sent.           *)
LEMMA DamageTypes ==
  ASSUME TypesInv, Damage
  PROVE  /\ EncTypes' /\ StreamTypes' /\ DecTypes' /\ ScreenTypes' /\ PathTypes'
         /\ Statistics'
<1> DEFINE n == Len(sent)
<1>1. PICK i \in DOMAIN link : CorruptByte(i) \/ LoseByte(i) \/ InsertByte(i)
  BY DEF Damage
<1>2. /\ worn < MaxWear /\ worn' = worn + 1
      /\ troubles < MaxTroubles /\ troubles' = troubles + 1
      /\ UNCHANGED <<encCaps, encFormat, oddField, injecting, sent>>
      /\ UNCHANGED <<decVars, voVars>> /\ UNCHANGED <<sink, phase>>
  BY DEF Damage, Wear, Trouble
<1>3. link \in Seq(Bytes(n)) /\ n \in Nat /\ sent \in Seq(Fields)
  BY DEF TypesInv, EncTypes, StreamTypes
<1> HIDE DEF n
<1>4. i \in 1..Len(link) /\ Len(link) \in Nat /\ link[i] \in Bytes(n)
  BY <1>1, <1>3
<1>5. \A b \in NoiseBytes(FormatOf(link[i].caps)) : b \in Tokens
  <2>1. link[i].caps \in DOMAIN FrameFormats
    BY <1>4 DEF Bytes
  <2>2. FormatOf(link[i].caps).key_length \in Nat
    BY <2>1, RowFacts DEF FrameRows
  <2>3. \A j \in 1..FormatOf(link[i].caps).key_length : j \in Nat
    BY <2>2
  <2>4. QED
    BY <2>3, KeysAreTokens DEF NoiseBytes
<1>6. ASSUME NEW fields, Harm(fields), fields = {} \/ fields = {link[i].field}
      PROVE  damaged' \subseteq 1..n
  <2>1. link[i].field \in 1..n /\ damaged \subseteq 1..n
    BY <1>4 DEF Bytes, TypesInv, EncTypes, n
  <2>2. QED
    BY <1>6, <2>1 DEF Harm
<1>7. ASSUME NEW b, Accident(FalseByte(b))
      PROVE  falseKeys' \in 0..MaxFalse
  <2>1. FalseByte(b) \in {0, 1} /\ falseKeys \in Nat /\ MaxFalse \in Nat
    BY FrameAssumption DEF FalseByte, TypesInv, EncTypes
  <2>2. falseKeys' = falseKeys + FalseByte(b) /\ falseKeys' <= MaxFalse
    BY <1>7 DEF Accident
  <2>3. QED
    BY <2>1, <2>2
<1>8. link' \in Seq(Bytes(n)) /\ damaged' \subseteq 1..n /\ falseKeys' \in 0..MaxFalse
  <2>1. CASE CorruptByte(i)
    <3>1. PICK b \in NoiseBytes(FormatOf(link[i].caps)) :
            /\ Accident(FalseByte(b))
            /\ link' = [link EXCEPT ![i].byte = b]
      BY <2>1 DEF CorruptByte
    <3>2. [link[i] EXCEPT !.byte = b] \in Bytes(n)
      BY <1>4, <1>5 DEF Bytes
    <3>3. link' = [link EXCEPT ![i] = [link[i] EXCEPT !.byte = b]]
      BY <3>1
    <3>4. link' \in Seq(Bytes(n))
      BY <1>3, <1>4, <3>2, <3>3, ExceptSeq
    <3>5. damaged' \subseteq 1..n
      BY <2>1, <1>6 DEF CorruptByte
    <3>6. QED
      BY <1>7, <3>1, <3>4, <3>5
  <2>2. CASE LoseByte(i)
    <3>1. SubSeq(link, 1, i - 1) \in Seq(Bytes(n)) /\ SubSeq(link, i + 1, Len(link)) \in Seq(Bytes(n))
      <4>1. i - 1 \in Nat /\ i - 1 <= Len(link) /\ i \in Nat
        BY <1>4
      <4>2. QED
        BY <1>3, <4>1, PartsTyped, Zenon
    <3>2. link' \in Seq(Bytes(n))
      BY <2>2, <3>1, ConcatProperties, Zenon DEF LoseByte
    <3>3. damaged' \subseteq 1..n
      BY <2>2, <1>6 DEF LoseByte
    <3>4. falseKeys' \in 0..MaxFalse
      BY <2>2 DEF LoseByte, TypesInv, EncTypes
    <3>5. QED
      BY <3>2, <3>3, <3>4
  <2>3. CASE InsertByte(i)
    <3>1. PICK b \in NoiseBytes(FormatOf(link[i].caps)) :
            /\ Accident(FalseByte(b))
            /\ link' = SubSeq(link, 1, i)
                         \o <<[link[i] EXCEPT !.byte = b,
                                 !.active = @ /\ i < Len(link) /\ link[i + 1].active]>>
                         \o SubSeq(link, i + 1, Len(link))
      BY <2>3 DEF InsertByte
    <3> DEFINE more == [link[i] EXCEPT !.byte = b,
                          !.active = @ /\ i < Len(link) /\ link[i + 1].active]
    <3>2. more \in Bytes(n)
      <4>1. link[i].active \in BOOLEAN /\ b \in Tokens
        BY <1>4, <1>5 DEF Bytes
      <4>2. (link[i].active /\ i < Len(link) /\ link[i + 1].active) \in BOOLEAN
        OBVIOUS
      <4>3. QED
        BY <1>4, <4>1, <4>2 DEF Bytes
    <3> HIDE DEF more
    <3>3. SubSeq(link, 1, i) \in Seq(Bytes(n)) /\ SubSeq(link, i + 1, Len(link)) \in Seq(Bytes(n))
      <4>1. i \in Nat /\ i <= Len(link)
        BY <1>4
      <4>2. QED
        BY <1>3, <4>1, PartsTyped, Zenon
    <3>4. <<more>> \in Seq(Bytes(n))
      BY <3>2
    <3>5. SubSeq(link, 1, i) \o <<more>> \in Seq(Bytes(n))
      BY <3>3, <3>4, ConcatProperties, Zenon
    <3>6. (SubSeq(link, 1, i) \o <<more>>) \o SubSeq(link, i + 1, Len(link)) \in Seq(Bytes(n))
      BY <3>3, <3>5, ConcatProperties, Zenon
    <3>7. link' \in Seq(Bytes(n))
      BY <3>1, <3>6 DEF more
    <3>8. damaged' \subseteq 1..n
      BY <2>3, <1>6 DEF InsertByte
    <3>9. QED
      BY <1>7, <3>1, <3>7, <3>8
  <2>4. QED
    BY <1>1, <2>1, <2>2, <2>3
<1>9. troubles' \in 0..MaxTroubles /\ worn' \in 0..MaxWear
  BY <1>2, FrameAssumption, VideoPathAssumption DEF TypesInv, EncTypes, PathTypes
<1>10. EncTypes'
  <2>1. n' = n
    BY <1>2 DEF n
  <2>2. QED
    BY <1>2, <1>8, <1>9, <2>1 DEF TypesInv, EncTypes, n
<1>11. PathTypes'
  BY <1>2, <1>9 DEF TypesInv, PathTypes
<1>12. /\ DecTypes' /\ ScreenTypes' /\ Statistics'
       /\ adapter' \in Seq(Bytes(Len(sent'))) /\ screen' \in Seq(Tokens)
  BY <1>2, <1>3, ReadersKeep DEF n
<1>13. StreamTypes'
  BY <1>2, <1>8, <1>12 DEF StreamTypes, n
<1>14. QED
  BY <1>10, <1>11, <1>12, <1>13

-----------------------------------------------------------------------------
(* The search.  A count of key bytes is a number, what is taken for a      *)
(* field has enough of them, and everything passed on the way has not.     *)
LEMMA Counts ==
  ASSUME NEW caps \in DOMAIN FrameFormats, NEW bytes, NEW p
  PROVE  Correlate(FormatOf(caps), bytes, p) \in Nat
<1> DEFINE f == FormatOf(caps)
           S == {j \in 1..f.key_length : bytes[p + (j - 1) * f.key_interval].byte = Key(j)}
<1>1. f.key_length \in Nat
  BY RowFacts DEF FrameRows
<1>2. S \in SUBSET (1..f.key_length)
  OBVIOUS
<1>3. IsFiniteSet(1..f.key_length)
  BY <1>1, FS_Interval
<1> HIDE DEF S
<1>4. IsFiniteSet(S)
  BY <1>2, <1>3, FS_Subset
<1>5. Cardinality(S) \in Nat
  BY <1>4, FS_CardinalityType
<1>6. QED
  BY <1>5 DEF Correlate, S

LEMMA Found ==
  ASSUME TypesInv, inChain, Keyed(DecFormat) # {},
         NEW p, p = Min(Keyed(DecFormat))
  PROVE  /\ decCaps \in DOMAIN FrameFormats
         /\ p \in Nat /\ 1 <= p /\ p - 1 + DecFormat.active_size <= Len(adapter)
         /\ DecFormat.active_size \in Nat /\ Len(adapter) \in Nat
         /\ Correlate(DecFormat, adapter, p) >= Threshold(DecFormat)
         /\ \A q \in Passed(DecFormat) :
              Correlate(DecFormat, adapter, q) < Threshold(DecFormat)
<1>1. decCaps \in DOMAIN FrameFormats
  BY DEF TypesInv, DecTypes
<1>2. DecFormat.active_size \in Nat /\ Threshold(DecFormat) \in Nat
  BY <1>1, RowFacts DEF DecFormat, FrameRows
<1>3. Len(adapter) \in Nat
  BY DEF TypesInv, StreamTypes
<1>4. Places(DecFormat) \subseteq Nat
      /\ \A q \in Places(DecFormat) : 1 <= q /\ q - 1 + DecFormat.active_size <= Len(adapter)
  BY <1>2, <1>3 DEF Places
<1>5. Keyed(DecFormat) \in SUBSET Nat
  BY <1>4 DEF Keyed
<1>6. p \in Keyed(DecFormat)
  BY <1>5, MinExists
<1>7. p \in Places(DecFormat) /\ Correlate(DecFormat, adapter, p) >= Threshold(DecFormat)
  BY <1>6 DEF Keyed
<1>8. ASSUME NEW q \in Passed(DecFormat)
      PROVE  Correlate(DecFormat, adapter, q) < Threshold(DecFormat)
  <2>1. q \in Places(DecFormat) /\ ~(p < p) /\ \A k \in Keyed(DecFormat) : q < k
    BY <1>4, <1>7 DEF Passed
  <2>2. q \notin Keyed(DecFormat)
    BY <1>4, <2>1
  <2>3. Correlate(DecFormat, adapter, q) \in Nat
    BY <1>1, Counts DEF DecFormat
  <2>4. QED
    BY <1>2, <2>1, <2>2, <2>3 DEF Keyed
<1>9. QED
  BY <1>1, <1>2, <1>3, <1>4, <1>7, <1>8

(* The greatest of counts below the threshold is below it.                 *)
LEMMA BestBelow ==
  ASSUME NEW b \in Nat, NEW t \in Nat, b < t, NEW S, NEW best,
         \A q \in S : q \in Nat /\ q < t, best = Max({b} \union S)
  PROVE  best \in Nat /\ best < t
<1> DEFINE T == {b} \union S
<1>1. T \in SUBSET Nat /\ T # {} /\ \A x \in T : x < t
  OBVIOUS
<1>2. \A x \in T : x <= t
  BY <1>1
<1> HIDE DEF T
<1>3. Max(T) \in T
  BY <1>1, <1>2, MaxExists
<1>4. QED
  BY <1>1, <1>3 DEF T

LEMMA FindFieldKeeps ==
  ASSUME TypesInv, inChain, Keyed(DecFormat) # {},
         FindField(Min(Keyed(DecFormat))), decCaps' = decCaps
  PROVE  Statistics'
<1> DEFINE p == Min(Keyed(DecFormat))
           t == Threshold(DecFormat)
           c == Correlate(DecFormat, adapter, p)
           S == {Correlate(DecFormat, adapter, q) : q \in Passed(DecFormat)}
<1>1. /\ worstKey' = Min({worstKey, c})
      /\ bestNonkey' = Max({bestNonkey} \union S)
  BY DEF FindField
<1>2. decCaps \in DOMAIN FrameFormats /\ c >= t
  BY Found
<1>3. \A q \in Passed(DecFormat) : Correlate(DecFormat, adapter, q) < t
  BY Found, Zenon
<1>4. t \in Nat
  BY <1>2, RowFacts DEF DecFormat, FrameRows
<1>5. c \in Nat /\ \A q : Correlate(DecFormat, adapter, q) \in Nat
  BY <1>2, Counts DEF DecFormat
<1>6. \A k \in S : k \in Nat /\ k < t
  BY <1>3, <1>5
<1>7. /\ worstKey \in Nat /\ bestNonkey \in Nat
      /\ bestNonkey < t /\ t <= worstKey
  BY <1>2, FrameAssumption DEF TypesInv, Statistics, StatisticsStraddleThreshold
<1> HIDE DEF c, S, t
<1>8. worstKey' \in Nat /\ t <= worstKey'
  <2>1. {worstKey, c} \in SUBSET Nat /\ {worstKey, c} # {}
    BY <1>5, <1>7
  <2>2. Min({worstKey, c}) \in {worstKey, c}
    BY <2>1, MinExists
  <2>3. QED
    BY <1>1, <1>2, <1>4, <1>5, <1>7, <2>2
<1>9. bestNonkey' \in Nat /\ bestNonkey' < t
  BY <1>1, <1>4, <1>6, <1>7, BestBelow
<1>10. QED
  BY <1>8, <1>9 DEF Statistics, StatisticsStraddleThreshold, DecFormat, t

(* A region that starts at p was taken for a field that was sent.          *)
LEMMA FieldWasSent ==
  ASSUME TypesInv, inChain, Keyed(DecFormat) # {}
  PROVE  FieldAt(Min(Keyed(DecFormat))) \in 1..Len(sent)
<1> DEFINE p == Min(Keyed(DecFormat))
           h == DecFormat.key_length \div 2
           i == p + h * DecFormat.key_interval
<1>1. /\ decCaps \in DOMAIN FrameFormats
      /\ p \in Nat /\ 1 <= p /\ p - 1 + DecFormat.active_size <= Len(adapter)
      /\ DecFormat.active_size \in Nat /\ Len(adapter) \in Nat
  BY Found
<1> HIDE DEF p
<1>2. /\ DecFormat.key_length \in Nat /\ DecFormat.key_length >= 1
      /\ DecFormat.key_interval \in Nat
      /\ (DecFormat.key_length - 1) * DecFormat.key_interval < DecFormat.active_size
  BY <1>1, RowFacts DEF DecFormat, FrameRows
<1>3. h \in 0..(DecFormat.key_length - 1)
  BY <1>2
<1>4. /\ h * DecFormat.key_interval \in Nat
      /\ h * DecFormat.key_interval <= (DecFormat.key_length - 1) * DecFormat.key_interval
  <2> DEFINE k == DecFormat.key_length - 1
             m == DecFormat.key_interval
  <2>1. k \in Nat /\ m \in Nat /\ h \in 0..k
    BY <1>2, <1>3
  <2> HIDE DEF k, m, h
  <2>2. h * m \in Nat /\ (k - h) * m \in Nat /\ (k - h) * m = k * m - h * m /\ k * m \in Nat
    BY <2>1
  <2>3. h * m <= k * m
    BY <2>2
  <2>4. QED
    BY <2>2, <2>3 DEF k, m
<1>5. i \in 1..Len(adapter)
  <2> DEFINE a == h * DecFormat.key_interval
             b == (DecFormat.key_length - 1) * DecFormat.key_interval
  <2>1. a \in Nat /\ b \in Int /\ a <= b /\ b < DecFormat.active_size
    BY <1>2, <1>4
  <2> HIDE DEF a, b
  <2>2. p + a \in 1..Len(adapter)
    BY <1>1, <2>1
  <2>3. QED
    BY <2>2 DEF a
<1>6. adapter[i] \in Bytes(Len(sent))
  <2>1. adapter \in Seq(Bytes(Len(sent)))
    BY DEF TypesInv, StreamTypes
  <2>2. QED
    BY <1>5, <2>1, ElementOfSeq
<1>7. QED
  BY <1>6 DEF FieldAt, Bytes, p

(* A buffer is some of the bytes that are on the link.                     *)
LEMMA BufferFits ==
  ASSUME TypesInv, link # <<>>, NEW n \in NextBuffers
  PROVE  n \in 1..Len(link)
<1> DEFINE others == {i \in DOMAIN link : link[i].caps # link[1].caps}
<1>1. DOMAIN link = 1..Len(link) /\ Len(link) \in Nat \ {0}
  <2> DEFINE S == Bytes(Len(sent))
  <2>1. link \in Seq(S)
    BY DEF TypesInv, StreamTypes
  <2> HIDE DEF S
  <2>2. QED
    BY <2>1, EmptySeq
<1>2. SameCaps \in 1..Len(link)
  <2>1. CASE others = {}
    BY <1>1, <2>1 DEF SameCaps
  <2>2. CASE others # {}
    <3>1. others \in SUBSET Nat /\ \A i \in others : i \in 2..Len(link)
      <4>1. 1 \notin others
        OBVIOUS
      <4>2. others \subseteq 1..Len(link)
        BY <1>1
      <4>3. \A i \in 1..Len(link) : i \in Nat /\ (i # 1 => i \in 2..Len(link))
        BY <1>1
      <4> HIDE DEF others
      <4>4. ASSUME NEW i \in others
            PROVE  i \in Nat /\ i \in 2..Len(link)
        <5>1. i \in 1..Len(link) /\ i # 1
          BY <4>1, <4>2
        <5>2. QED
          BY <4>3, <5>1
      <4>5. others \in SUBSET Nat
        BY <4>4, Zenon
      <4>6. QED
        BY <4>4, <4>5, Zenon
    <3>2. Min(others) \in others
      BY <2>2, <3>1, MinExists
    <3>3. SameCaps = Min(others) - 1
      BY <2>2 DEF SameCaps
    <3> HIDE DEF others
    <3>4. Min(others) \in 2..Len(link)
      BY <3>1, <3>2, Zenon
    <3>5. QED
      BY <1>1, <3>3, <3>4
  <2>3. QED
    BY <2>1, <2>2
<1>3. n = SameCaps \/ n \in {k \in BufferSizes : k < SameCaps}
  BY DEF NextBuffers
<1>4. \A k \in BufferSizes : k \in Nat \ {0}
  BY FrameDecoderAssumption
<1>5. QED
  BY <1>1, <1>2, <1>3, <1>4

(* A buffer comes into the adapter, and with it perhaps other caps, from   *)
(* which the statistics start anew.                                        *)
LEMMA ChainKeeps ==
  ASSUME TypesInv, DecChain, UNCHANGED sent
  PROVE  /\ link' \in Seq(Bytes(Len(sent'))) /\ adapter' \in Seq(Bytes(Len(sent')))
         /\ DecTypes' /\ Statistics'
<1>1. PICK n \in NextBuffers :
        /\ Negotiate(link[1].caps)
        /\ adapter' = adapter \o SubSeq(link, 1, n)
        /\ link' = SubSeq(link, n + 1, Len(link))
        /\ stranded' = (stranded \/ Strands(link[1].caps))
  BY DEF DecChain
<1>2. /\ link # <<>> /\ inChain' = TRUE /\ UNCHANGED <<out, refused>>
  BY DEF DecChain
<1> DEFINE S == Bytes(Len(sent))
           caps == link[1].caps
<1>3. link \in Seq(S) /\ adapter \in Seq(S)
  BY DEF TypesInv, StreamTypes
<1>4. caps \in DOMAIN FrameFormats
  <2>1. link[1] \in S
    BY <1>2, <1>3, EmptySeq, ElementOfSeq
  <2>2. QED
    BY <2>1 DEF Bytes
<1>5. n \in 1..Len(link)
  BY <1>1, <1>2, BufferFits
<1> HIDE DEF S
<1>6. SubSeq(link, 1, n) \in Seq(S) /\ SubSeq(link, n + 1, Len(link)) \in Seq(S)
  <2>1. n \in Nat /\ n <= Len(link)
    BY <1>5
  <2>2. QED
    BY <1>3, <2>1, PartsTyped, Zenon
<1>7. link' \in Seq(S) /\ adapter' \in Seq(S)
  BY <1>1, <1>3, <1>6, ConcatProperties, Zenon
<1>8. /\ decCaps' = caps /\ decFormat' = "set"
      /\ caps = decCaps => UNCHANGED <<worstKey, bestNonkey>>
      /\ caps # decCaps => worstKey' = FormatOf(caps).key_length /\ bestNonkey' = 0
  BY <1>1 DEF Negotiate
<1>9. Statistics'
  <2>1. CASE caps = decCaps
    BY <1>8, <2>1 DEF TypesInv, Statistics, StatisticsStraddleThreshold, DecFormat
  <2>2. CASE caps # decCaps
    <3>1. Threshold(FormatOf(caps)) \in 1..FormatOf(caps).key_length
          /\ FormatOf(caps).key_length \in Nat
      BY <1>4, RowFacts DEF FrameRows
    <3>2. QED
      BY <1>8, <2>2, <3>1 DEF Statistics, StatisticsStraddleThreshold, DecFormat
  <2>3. QED
    BY <2>1, <2>2
<1>10. DecTypes'
  <2>1. stranded' \in BOOLEAN
    BY <1>1 DEF TypesInv, DecTypes, Strands
  <2>2. decCaps' \in DOMAIN FrameFormats
    BY <1>4, <1>8
  <2>3. decCaps' # OtherCaps
    BY <2>2, FrameAssumption
  <2>4. QED
    BY <1>2, <1>8, <2>1, <2>2, <2>3 DEF TypesInv, DecTypes
<1>11. QED
  BY <1>7, <1>9, <1>10 DEF S

(* Caps are refused, and perhaps the bytes that came with them.            *)
LEMMA RefusalKeeps ==
  ASSUME TypesInv, DecSetcapsFails \/ DecCrash, UNCHANGED sent
  PROVE  /\ link' \in Seq(Bytes(Len(sent'))) /\ adapter' \in Seq(Bytes(Len(sent')))
         /\ DecTypes' /\ Statistics' /\ troubles' \in 0..MaxTroubles
<1> DEFINE S == Bytes(Len(sent))
<1>1. /\ UNCHANGED <<decCaps, adapter, inChain, worstKey, bestNonkey, out, stranded>>
      /\ ~inChain /\ decFormat' \in {"NULL", "crashed"}
  BY DEF DecSetcapsFails, DecCrash
<1>2. link \in Seq(S) /\ adapter \in Seq(S) /\ troubles \in 0..MaxTroubles
  BY DEF TypesInv, StreamTypes, EncTypes
<1>3. Statistics'
  BY <1>1 DEF TypesInv, Statistics, StatisticsStraddleThreshold, DecFormat
<1>4. decFormat' # "NULL" => decCaps' # OtherCaps
  <2>1. CASE DecCrash
    <3>1. link[1] \in S /\ link[1].caps = decCaps
      BY <1>2, <2>1, EmptySeq, ElementOfSeq DEF DecCrash
    <3>2. decCaps \in DOMAIN FrameFormats
      BY <3>1 DEF Bytes
    <3>3. QED
      BY <1>1, <3>2, FrameAssumption
  <2>2. CASE DecSetcapsFails
    BY <2>2 DEF DecSetcapsFails
  <2>3. QED
    BY <2>1, <2>2
<1>5. /\ link' \in Seq(S) /\ refused' \subseteq 1..Len(sent)
      /\ troubles' \in 0..MaxTroubles
  <2>1. refused \subseteq 1..Len(sent) /\ MaxTroubles \in Nat
    BY FrameAssumption DEF TypesInv, DecTypes
  <2>2. CASE link' = link /\ refused' = refused /\ (Trouble \/ troubles' = troubles)
    BY <1>2, <2>1, <2>2 DEF Trouble
  <2>3. CASE /\ link # <<>>
             /\ \E n \in NextBuffers :
                  /\ troubles + n <= MaxTroubles
                  /\ troubles' = troubles + n
                  /\ link' = SubSeq(link, n + 1, Len(link))
                  /\ refused' = refused \union
                       {link[i].field : i \in {k \in 1..n : link[k].active}}
    <3>1. PICK n \in NextBuffers :
            /\ troubles + n <= MaxTroubles
            /\ troubles' = troubles + n
            /\ link' = SubSeq(link, n + 1, Len(link))
            /\ refused' = refused \union
                 {link[i].field : i \in {k \in 1..n : link[k].active}}
      BY <2>3
    <3>2. n \in 1..Len(link)
      BY <2>3, BufferFits
    <3>3. link' \in Seq(S)
      <4>1. n \in Nat /\ n <= Len(link)
        BY <3>2
      <4> HIDE DEF S
      <4>2. QED
        BY <1>2, <3>1, <4>1, PartsTyped, Zenon
    <3>4. \A i \in 1..n : link[i].field \in 1..Len(sent)
      <4>1. \A i \in 1..n : i \in 1..Len(link)
        BY <1>2, <3>2
      <4>2. \A i \in 1..n : link[i] \in S
        BY <1>2, <4>1, ElementOfSeq, Zenon
      <4>3. QED
        BY <4>2 DEF Bytes
    <3>5. refused' \subseteq 1..Len(sent)
      BY <2>1, <3>1, <3>4
    <3>6. troubles' \in 0..MaxTroubles
      <4>1. Len(link) \in Nat
        BY <1>2
      <4>2. QED
        BY <1>2, <2>1, <3>1, <3>2, <4>1
    <3>7. QED
      BY <3>3, <3>5, <3>6
  <2>4. CASE DecCrash
    BY <2>2, <2>4 DEF DecCrash
  <2>5. CASE DecSetcapsFails
    BY <2>2, <2>3, <2>5 DEF DecSetcapsFails
  <2>6. QED
    BY <2>4, <2>5
<1>6. DecTypes'
  BY <1>1, <1>4, <1>5 DEF TypesInv, DecTypes
<1>7. QED
  BY <1>1, <1>2, <1>3, <1>5, <1>6

(* A turn of the loop.                                                     *)
LEMMA TurnKeeps ==
  ASSUME TypesInv, UNCHANGED sent, DecField \/ DecAllocFails \/ DecPushFails \/ DecReturn
  PROVE  /\ link' \in Seq(Bytes(Len(sent'))) /\ adapter' \in Seq(Bytes(Len(sent')))
         /\ DecTypes' /\ Statistics'
<1> DEFINE S == Bytes(Len(sent))
           p == Min(Keyed(DecFormat))
<1>1. /\ link' = link /\ decCaps' = decCaps /\ decFormat' = decFormat
      /\ stranded' = stranded /\ inChain
      /\ inChain' \in {inChain, FALSE}
  BY DEF DecField, DecAllocFails, DecPushFails, DecReturn
<1>2. link \in Seq(S) /\ adapter \in Seq(S)
  BY DEF TypesInv, StreamTypes
<1>3. decCaps \in DOMAIN FrameFormats /\ DecFormat.active_size \in Nat
  <2>1. decCaps \in DOMAIN FrameFormats
    BY <1>1 DEF TypesInv, DecTypes
  <2>2. QED
    BY <2>1, RowFacts DEF DecFormat, FrameRows
<1>4. ASSUME NEW k \in Nat
      PROVE  After(k) \in Seq(S)
  <2> HIDE DEF S
  <2>1. QED
    BY <1>2, PartsTyped, Zenon DEF After
<1>5. adapter' \in Seq(S) /\ Statistics'
  <2>1. CASE DecField \/ DecAllocFails \/ DecPushFails
    <3>1. Keyed(DecFormat) # {} /\ FindField(p)
          /\ (adapter' = After(p - 1 + DecFormat.active_size) \/ adapter' = After(p - 1))
      BY <2>1 DEF DecField, DecAllocFails, DecPushFails
    <3>2. p - 1 \in Nat /\ p - 1 + DecFormat.active_size \in Nat
      <4>1. p \in Nat /\ 1 <= p
        BY <1>1, <3>1, Found
      <4>2. QED
        BY <1>3, <4>1
    <3>3. QED
      BY <1>1, <1>4, <3>1, <3>2, FindFieldKeeps
  <2>2. CASE DecReturn
    <3> DEFINE R == {Correlate(DecFormat, adapter, q) : q \in Places(DecFormat)}
    <3>1. /\ Keyed(DecFormat) = {}
          /\ bestNonkey' = Max({bestNonkey} \union R)
          /\ adapter' = After(Cardinality(Places(DecFormat)))
          /\ worstKey' = worstKey
      BY <2>2 DEF DecReturn
    <3>2. Cardinality(Places(DecFormat)) \in Nat
      <4>1. Len(adapter) \in Nat
        BY <1>2
      <4>2. IsFiniteSet(Places(DecFormat))
        <5>1. PICK l \in Int : l = Len(adapter) - DecFormat.active_size + 1
          BY <1>3, <4>1
        <5>2. IsFiniteSet(1..l)
          BY FS_Interval
        <5>3. QED
          BY <5>1, <5>2 DEF Places
      <4>3. QED
        BY <4>2, FS_CardinalityType
    <3>3. adapter' \in Seq(S)
      BY <1>4, <3>1, <3>2
    <3>4. Threshold(DecFormat) \in Nat
      BY <1>3, RowFacts DEF DecFormat, FrameRows
    <3>5. \A k \in R : k \in Nat /\ k < Threshold(DecFormat)
      <4>1. ASSUME NEW q \in Places(DecFormat)
            PROVE  /\ Correlate(DecFormat, adapter, q) \in Nat
                   /\ Correlate(DecFormat, adapter, q) < Threshold(DecFormat)
        <5>1. Correlate(DecFormat, adapter, q) \in Nat
          BY <1>3, Counts DEF DecFormat
        <5>2. ~(Correlate(DecFormat, adapter, q) >= Threshold(DecFormat))
          BY <3>1 DEF Keyed
        <5>3. QED
          BY <3>4, <5>1, <5>2
      <4>2. QED
        BY <4>1
    <3>6. /\ worstKey \in Nat /\ bestNonkey \in Nat
          /\ bestNonkey < Threshold(DecFormat) /\ Threshold(DecFormat) <= worstKey
      BY <1>3, FrameAssumption DEF TypesInv, Statistics, StatisticsStraddleThreshold
    <3> HIDE DEF R
    <3>7. bestNonkey' \in Nat /\ bestNonkey' < Threshold(DecFormat)
      BY <3>1, <3>4, <3>5, <3>6, BestBelow
    <3>8. Statistics'
      BY <1>1, <3>1, <3>6, <3>7 DEF Statistics, StatisticsStraddleThreshold, DecFormat
    <3>9. QED
      BY <3>3, <3>8
  <2>3. QED
    BY <2>1, <2>2
<1>6. IsList(out') /\ \A i \in DOMAIN out' : out'[i].field \in 1..Len(sent)
  <2>1. IsList(out) /\ \A i \in DOMAIN out : out[i].field \in 1..Len(sent)
    BY DEF TypesInv, DecTypes
  <2>2. CASE DecField
    <3> DEFINE e == Output(p)
    <3>1. out' = Append(out, e)
      BY <2>2 DEF DecField
    <3>2. e.field \in 1..Len(sent)
      BY <2>2, FieldWasSent DEF DecField, Output
    <3> HIDE DEF e
    <3>3. /\ IsList(out') /\ DOMAIN out = 1..Len(out) /\ Len(out) \in Nat
          /\ DOMAIN out' = 1..(Len(out) + 1)
          /\ \A i \in 1..Len(out) : out'[i] = out[i]
          /\ out'[Len(out) + 1] = e
      BY <2>1, <3>1, AppendToList
    <3>4. ASSUME NEW i \in DOMAIN out'
          PROVE  out'[i].field \in 1..Len(sent)
      <4>1. i \in DOMAIN out \/ i = Len(out) + 1
        BY <3>3
      <4>2. QED
        BY <2>1, <3>2, <3>3, <4>1
    <3>5. QED
      BY <3>3, <3>4
  <2>3. CASE DecAllocFails \/ DecPushFails \/ DecReturn
    BY <2>1, <2>3 DEF DecAllocFails, DecPushFails, DecReturn
  <2>4. QED
    BY <2>2, <2>3
<1>7. refused' \subseteq 1..Len(sent)
  <2>1. refused \subseteq 1..Len(sent)
    BY DEF TypesInv, DecTypes
  <2>2. CASE DecPushFails
    <3>1. FieldAt(p) \in 1..Len(sent) /\ refused' = refused \union {FieldAt(p)}
      BY <2>2, FieldWasSent DEF DecPushFails
    <3>2. QED
      BY <2>1, <3>1
  <2>3. CASE DecField \/ DecAllocFails \/ DecReturn
    BY <2>1, <2>3 DEF DecField, DecAllocFails, DecReturn
  <2>4. QED
    BY <2>2, <2>3
<1>8. DecTypes'
  BY <1>1, <1>6, <1>7 DEF TypesInv, DecTypes
<1>9. QED
  BY <1>1, <1>2, <1>5, <1>8

LEMMA PlayTypes ==
  ASSUME TypesInv, Play
  PROVE  /\ EncTypes' /\ StreamTypes' /\ DecTypes' /\ ScreenTypes' /\ PathTypes'
         /\ Statistics'
<1>1. /\ DecNext
      /\ UNCHANGED <<encCaps, encFormat, oddField, injecting, sent, damaged, falseKeys>>
      /\ UNCHANGED <<screen, fieldNumber, images>> /\ UNCHANGED <<sink, phase, worn>>
  BY DEF Play, voVars, pathVars
<1>2. /\ link' \in Seq(Bytes(Len(sent'))) /\ adapter' \in Seq(Bytes(Len(sent')))
      /\ DecTypes' /\ Statistics'
  BY <1>1, ChainKeeps, RefusalKeeps, TurnKeeps DEF DecNext
<1>4. troubles' \in 0..MaxTroubles
  <2>1. CASE DecSetcapsFails \/ DecCrash
    BY <1>1, <2>1, RefusalKeeps
  <2>2. CASE ~(DecSetcapsFails \/ DecCrash)
    <3>1. troubles' = troubles \/ (troubles < MaxTroubles /\ troubles' = troubles + 1)
      BY <1>1, <2>2 DEF DecNext, DecField, DecAllocFails, DecPushFails, DecReturn, Trouble
    <3>2. QED
      BY <3>1, FrameAssumption DEF TypesInv, EncTypes
  <2>3. QED
    BY <2>1, <2>2
<1>5. EncTypes' /\ PathTypes' /\ ScreenTypes' /\ screen' \in Seq(Tokens)
  BY <1>1, <1>4 DEF TypesInv, EncTypes, PathTypes, ScreenTypes, StreamTypes
<1>6. QED
  BY <1>2, <1>5 DEF StreamTypes

-----------------------------------------------------------------------------
(* What the screen draws keeps its type, and images their numbers.         *)
LEMMA ScreenKeeps ==
  ASSUME TypesInv, VoNext, UNCHANGED sent
  PROVE  screen' \in Seq(Tokens) /\ link' \in Seq(Bytes(Len(sent'))) /\ ScreenTypes'
<1> DEFINE S == Bytes(Len(sent))
<1>1. /\ link \in Seq(S) /\ screen \in Seq(Tokens)
      /\ fieldNumber \in Nat \ {0} /\ IsList(images)
      /\ \A i \in DOMAIN images : images[i].number \in 1..(fieldNumber - 1)
  BY DEF TypesInv, StreamTypes, ScreenTypes
<1>2. NextFieldBytes \in Nat
  BY NextFields DEF TypesInv
<1>3. Drawn \in Seq(Tokens)
  BY <1>1, <1>2, PartsTyped, Zenon DEF Drawn
<1>4. ASSUME UNCHANGED link, UNCHANGED <<fieldNumber, images>>, UNCHANGED screen
      PROVE  screen' \in Seq(Tokens) /\ link' \in Seq(S) /\ ScreenTypes'
  BY <1>1, <1>4 DEF ScreenTypes
<1>5. ASSUME UNCHANGED link, fieldNumber' = fieldNumber + 1, screen' = Drawn,
             images' = images \/ images' = Append(images, Image)
      PROVE  screen' \in Seq(Tokens) /\ link' \in Seq(S) /\ ScreenTypes'
  <2>1. IsList(images') /\ \A i \in DOMAIN images' : images'[i].number \in 1..fieldNumber
    <3>1. CASE images' = images
      <4>1. \A k \in 1..(fieldNumber - 1) : k \in 1..fieldNumber
        BY <1>1
      <4>2. QED
        BY <1>1, <3>1, <4>1
    <3>2. CASE images' = Append(images, Image)
      <4> DEFINE e == Image
      <4>1. e.number = fieldNumber
        BY DEF Image
      <4> HIDE DEF e
      <4>2. /\ IsList(images') /\ DOMAIN images = 1..Len(images) /\ Len(images) \in Nat
            /\ DOMAIN images' = 1..(Len(images) + 1)
            /\ \A i \in 1..Len(images) : images'[i] = images[i]
            /\ images'[Len(images) + 1] = e
        BY <1>1, <3>2, AppendToList DEF e
      <4>3. ASSUME NEW i \in DOMAIN images'
            PROVE  images'[i].number \in 1..fieldNumber
        <5>1. i \in DOMAIN images \/ i = Len(images) + 1
          BY <4>2
        <5>2. CASE i \in DOMAIN images
          <6>1. images'[i] = images[i] /\ images[i].number \in 1..(fieldNumber - 1)
            BY <1>1, <4>2, <5>2
          <6>2. QED
            BY <1>1, <6>1
        <5>3. CASE i = Len(images) + 1
          BY <1>1, <4>1, <4>2, <5>3
        <5>4. QED
          BY <5>1, <5>2, <5>3
      <4>4. QED
        BY <4>2, <4>3
    <3>3. QED
      BY <1>5, <3>1, <3>2
  <2>2. fieldNumber' \in Nat \ {0} /\ fieldNumber' - 1 = fieldNumber
    BY <1>1, <1>5
  <2>3. ScreenTypes'
    BY <2>1, <2>2 DEF ScreenTypes
  <2>4. QED
    BY <1>1, <1>3, <1>5, <2>3
<1>6. CASE Transform
  <2>1. PICK n \in 1..Len(link) :
          /\ screen' = screen \o [i \in 1..n |-> link[i].byte]
          /\ link' = SubSeq(link, n + 1, Len(link))
    BY <1>6 DEF Transform
  <2>2. UNCHANGED <<fieldNumber, images>>
    BY <1>6 DEF Transform
  <2> DEFINE u == [i \in 1..n |-> link[i].byte]
  <2>3. n \in Nat /\ \A i \in 1..n : i \in 1..Len(link)
    BY <1>1
  <2>4. u \in Seq(Tokens)
    <3>1. \A i \in 1..n : link[i].byte \in Tokens
      <4>1. \A i \in 1..Len(link) : link[i] \in S
        BY <1>1, Zenon, ElementOfSeq
      <4>2. QED
        BY <2>3, <4>1 DEF Bytes
    <3>2. u \in [1..n -> Tokens]
      BY <3>1
    <3> HIDE DEF u
    <3>3. QED
      BY <2>3, <3>2
  <2>5. screen' = screen \o u
    BY <2>1
  <2> HIDE DEF u, S
  <2>6. screen' \in Seq(Tokens)
    BY <1>1, <2>4, <2>5, ConcatProperties
  <2>7. SubSeq(link, n + 1, Len(link)) \in Seq(S)
    BY <1>1, <2>3, PartsTyped, Zenon
  <2>8. link' \in Seq(S)
    BY <2>1, <2>7
  <2>9. ScreenTypes'
    BY <1>1, <2>2 DEF ScreenTypes
  <2>10. QED
    BY <2>6, <2>8, <2>9 DEF S
<1>7. CASE BonusField
  BY <1>5, <1>7 DEF BonusField
<1>8. CASE BonusFieldFails \/ DropOutput \/ Reconfigure
  BY <1>4, <1>8 DEF BonusFieldFails, DropOutput, Reconfigure
<1>9. CASE LastField(TRUE) \/ LastField(FALSE)
  BY <1>5, <1>9 DEF LastField
<1>10. QED
  BY <1>6, <1>7, <1>8, <1>9 DEF VoNext

LEMMA ShowTypes ==
  ASSUME TypesInv, Show
  PROVE  /\ EncTypes' /\ StreamTypes' /\ DecTypes' /\ ScreenTypes' /\ PathTypes'
         /\ Statistics'
<1>1. /\ VoNext
      /\ UNCHANGED <<encCaps, encFormat, oddField, injecting, sent, damaged, falseKeys>>
      /\ UNCHANGED <<sink, phase, worn>>
      /\ UNCHANGED <<decCaps, decFormat, inChain, out, refused, stranded, worstKey, bestNonkey, adapter>>
  BY DEF Show, decVars, pathVars
<1>2. screen' \in Seq(Tokens) /\ link' \in Seq(Bytes(Len(sent'))) /\ ScreenTypes'
  BY <1>1, ScreenKeeps
<1>3. troubles' = troubles \/ (troubles < MaxTroubles /\ troubles' = troubles + 1)
  BY <1>1 DEF VoNext, Transform, BonusField, BonusFieldFails, DropOutput, LastField,
              Reconfigure, Trouble
<1>4. troubles' \in 0..MaxTroubles
  BY <1>3, FrameAssumption DEF TypesInv, EncTypes
<1>5. EncTypes' /\ PathTypes' /\ DecTypes'
  BY <1>1, <1>4 DEF TypesInv, EncTypes, PathTypes, DecTypes
<1>6. Statistics'
  BY <1>1 DEF TypesInv, Statistics, StatisticsStraddleThreshold, DecFormat
<1>7. StreamTypes'
  BY <1>1, <1>2 DEF TypesInv, StreamTypes
<1>8. QED
  BY <1>2, <1>5, <1>6, <1>7

LEMMA TypesStep ==
  ASSUME TypesInv, [Next]_vars
  PROVE  TypesInv'
<1>1. VideoInv'
  BY VideoStep DEF TypesInv
<1>2. CASE Record
  BY <1>1, <1>2, RecordTypes DEF TypesInv
<1>3. CASE Damage
  BY <1>1, <1>3, DamageTypes DEF TypesInv
<1>4. CASE Play
  BY <1>1, <1>4, PlayTypes DEF TypesInv
<1>5. CASE Show
  BY <1>1, <1>5, ShowTypes DEF TypesInv
<1>6. CASE Rewind \/ UNCHANGED vars
  <2>1. /\ UNCHANGED <<encCaps, encFormat, oddField, injecting, sent, damaged, falseKeys, troubles>>
        /\ UNCHANGED <<decCaps, decFormat, inChain, out, refused, stranded, worstKey, bestNonkey, adapter>>
        /\ UNCHANGED <<screen, fieldNumber, images, link>>
        /\ UNCHANGED <<sink, worn>>
        /\ phase' = phase \/ phase' = "play"
    BY <1>6 DEF Rewind, vars, encVars, budgets, decVars, voVars, pathVars
  <2>2. EncTypes' /\ StreamTypes' /\ DecTypes' /\ ScreenTypes'
    BY <2>1 DEF TypesInv, EncTypes, StreamTypes, DecTypes, ScreenTypes
  <2>3. PathTypes'
    BY <2>1 DEF TypesInv, PathTypes
  <2>4. Statistics'
    BY <2>1 DEF TypesInv, Statistics, StatisticsStraddleThreshold, DecFormat
  <2>5. QED
    BY <1>1, <2>2, <2>3, <2>4 DEF TypesInv
<1>7. QED
  BY <1>2, <1>3, <1>4, <1>5, <1>6 DEF Next

LEMMA TypesInitially ==
  ASSUME Init
  PROVE  TypesInv
<1>1. VideoInv
  BY VideoInitially
<1>2. \A S : <<>> \in Seq(S)
  BY EmptySeq
<1>3. Len(<<>>) = 0 /\ DOMAIN <<>> = {}
  OBVIOUS
<1>4. EncTypes
  <2>1. /\ encCaps = OtherCaps /\ encFormat = "NULL" /\ oddField = 1 /\ sent = <<>> /\ damaged = {}
        /\ falseKeys = 0 /\ troubles = 0
    BY DEF Init, EncInit
  <2>2. injecting \in BOOLEAN
    BY DEF Init, EncInit
  <2>3. 0 <= MaxFields /\ 0 \in 0..MaxFalse /\ 0 \in 0..MaxTroubles
    BY FrameAssumption
  <2>4. QED
    BY <1>2, <1>3, <2>1, <2>2, <2>3 DEF EncTypes
<1>5. StreamTypes
  BY <1>2 DEF Init, EncInit, DecInit, VoInit, StreamTypes
<1>6. IsList(<<>>)
  BY <1>2, ListOf
<1>7. DecTypes
  BY <1>3, <1>6 DEF Init, DecInit, DecTypes
<1>8. ScreenTypes
  BY <1>3, <1>6 DEF Init, VoInit, ScreenTypes
<1>9. PathTypes
  BY VideoPathAssumption DEF Init, PathTypes
<1>10. Statistics
  BY DEF Init, DecInit, Statistics, StatisticsStraddleThreshold
<1>11. QED
  BY <1>1, <1>4, <1>5, <1>7, <1>8, <1>9, <1>10 DEF TypesInv

(* The inductive invariant of the types: what travels knows a field that   *)
(* was sent, and the search stays within the bytes it has.                 *)
THEOREM TypesInvariance == Spec => []TypesInv
BY TypesInitially, TypesStep, PTL DEF Spec

(* Everything is of its type, for every format: no byte is looked for      *)
(* outside of the adapter, and nothing is taken for a field that was not   *)
(* recorded.                                                               *)
THEOREM TypeCorrect == Spec => []TypeOK
<1>1. TypesInv => TypeOK
  <2> SUFFICES ASSUME TypesInv
               PROVE  TypeOK
    OBVIOUS
  <2>1. DOMAIN sent = 1..Len(sent) /\ Len(sent) \in Nat /\ Len(sent) <= MaxFields /\ MaxFields \in Nat
    BY FrameAssumption DEF TypesInv, EncTypes
  <2>2. \A i \in DOMAIN link : link[i].caps \in DOMAIN FrameFormats /\ link[i].field \in 1..MaxFields
    <3>1. \A k \in 1..Len(sent) : k \in 1..MaxFields
      BY <2>1
    <3>2. \A i \in DOMAIN link : link[i] \in Bytes(Len(sent))
      BY DEF TypesInv, StreamTypes
    <3>3. QED
      BY <3>1, <3>2 DEF Bytes
  <2>3. EncTypeOK
    BY <2>1, <2>2, FrameAssumption DEF TypesInv, EncTypes, EncTypeOK
  <2>4. DecTypeOK
    BY <2>1 DEF TypesInv, DecTypes, Statistics, DecTypeOK
  <2>5. \A i \in DOMAIN screen : screen[i][1] \in {"data", "key", "leader", "trailer", "noise"}
    <3>1. \A i \in DOMAIN screen : screen[i] \in Tokens
      BY DEF TypesInv, StreamTypes
    <3>2. QED
      BY <3>1 DEF Tokens
  <2>6. VoTypeOK
    BY <2>5 DEF TypesInv, VideoInv, ScreenTypes, VoTypeOK
  <2>7. QED
    BY <2>3, <2>4, <2>6 DEF TypesInv, PathTypes, TypeOK
<1>2. QED
  BY <1>1, TypesInvariance, PTL

(* What the operator adjusts the tape by tells fields from what is not     *)
(* one, for every format and threshold, across every change of caps.       *)
THEOREM StatisticsStraddleAlways == Spec => []StatisticsStraddleThreshold
<1>1. TypesInv => StatisticsStraddleThreshold
  BY DEF TypesInv, Statistics
<1>2. QED
  BY <1>1, TypesInvariance, PTL

-----------------------------------------------------------------------------
(* The bytes in front of field n in a stream that nothing was done to: odd *)
(* fields are longer by the interlace.                                     *)
FieldStart(f, n) == (n - 1) * f.field_size + (n \div 2) * f.interlace

LEMMA FieldStartNext ==
  ASSUME NEW caps \in DOMAIN FrameFormats, NEW f, f = FormatOf(caps), NEW n \in Nat \ {0}
  PROVE  /\ FieldStart(f, n) \in Nat /\ FieldSize(f, n % 2) \in Nat \ {0}
         /\ n % 2 \in {0, 1}
         /\ FieldStart(f, n + 1) = FieldStart(f, n) + FieldSize(f, n % 2)
         /\ FieldSize(f, n % 2) >= f.field_size
<1> DEFINE s == f.field_size
           l == f.interlace
           h == n \div 2
           o == n % 2
<1>1. s \in Nat \ {0} /\ l \in Nat
  <2>1. /\ f \in FrameRows /\ f.key_length >= 1 /\ f.key_length <= f.active_size
        /\ f.field_size = f.leader + f.active_size + f.trailer
    BY RowFacts
  <2>2. QED
    BY <2>1 DEF FrameRows
<1>2. h \in Nat /\ o \in {0, 1} /\ (n + 1) \div 2 = h + o
  OBVIOUS
<1>3. /\ FieldStart(f, n) = (n - 1) * s + h * l
      /\ FieldStart(f, n + 1) = (n + 1 - 1) * s + ((n + 1) \div 2) * l
      /\ FieldSize(f, n % 2) = s + (IF o = 1 THEN l ELSE 0)
  BY DEF FieldStart, FieldSize
<1>4. n % 2 \in {0, 1}
  BY <1>2
<1> HIDE DEF s, l, h, o
<1>5. /\ (n - 1) * s \in Nat /\ h * l \in Nat
      /\ (n + 1 - 1) * s = (n - 1) * s + s
  BY <1>1, <1>2
<1>6. (h + o) * l = h * l + (IF o = 1 THEN l ELSE 0)
  BY <1>1, <1>2
<1>7. /\ FieldStart(f, n) \in Nat /\ FieldSize(f, n % 2) \in Nat \ {0}
      /\ FieldStart(f, n + 1) = FieldStart(f, n) + FieldSize(f, n % 2)
      /\ FieldSize(f, n % 2) >= s
  BY <1>1, <1>2, <1>3, <1>5, <1>6
<1>8. QED
  BY <1>4, <1>7 DEF s

LEMMA FieldStartGrows ==
  ASSUME NEW caps \in DOMAIN FrameFormats, NEW f, f = FormatOf(caps),
         NEW m \in Nat \ {0}, NEW n \in Nat, m <= n
  PROVE  FieldStart(f, m) <= FieldStart(f, n)
<1> DEFINE s == f.field_size
           l == f.interlace
           g == m \div 2
           h == n \div 2
<1>1. s \in Nat /\ l \in Nat
  BY RowFacts DEF FrameRows
<1>2. g \in Nat /\ h \in Nat /\ g <= h
  OBVIOUS
<1>3. /\ FieldStart(f, m) = (m - 1) * s + g * l
      /\ FieldStart(f, n) = (n - 1) * s + h * l
  BY DEF FieldStart
<1> HIDE DEF s, l, g, h
<1>4. /\ (n - m) * s \in Nat /\ (n - 1) * s = (m - 1) * s + (n - m) * s
      /\ (h - g) * l \in Nat /\ h * l = g * l + (h - g) * l
      /\ (m - 1) * s \in Nat /\ g * l \in Nat
  BY <1>1, <1>2
<1>5. QED
  BY <1>3, <1>4

-----------------------------------------------------------------------------
(* The picture.  Where field n starts in the stream follows from counting  *)
(* odd and even fields; the screen and the link together hold the stream   *)
(* from the start of the field that is due.                                *)
InStep ==
  /\ sink = "screen" /\ ~changed /\ ~injecting
  /\ \A n \in 1..Len(sent) : sent[n].caps = mode

Start(n) == FieldStart(FormatOf(mode), n)

SizeOfField(n) == FieldSize(FormatOf(mode), n % 2)

Written(n) == EncodeField(FormatOf(mode), sent[n].data, n % 2)

(* What is on the screen and on the way to it, end to end.                 *)
ByteAt(k) == IF k <= Len(screen) THEN screen[k] ELSE link[k - Len(screen)].byte
StreamLength == Len(screen) + Len(link)

StreamHolds ==
  /\ fieldNumber <= Len(sent) + 1
  /\ Start(fieldNumber) + StreamLength = Start(Len(sent) + 1)
  /\ \A n \in fieldNumber..Len(sent) : \A k \in 1..SizeOfField(n) :
       ByteAt(Start(n) - Start(fieldNumber) + k) = Written(n)[k]

ImagesHold ==
  \A i \in DOMAIN images :
    /\ images[i].number \in 1..Len(sent)
    /\ \A n \in 1..Len(sent) : images[i].number = n => images[i].bytes = Written(n)
    /\ i > 1 => images[i - 1].number < images[i].number

ImageInv ==
  /\ oddField = (Len(sent) + 1) % 2
  /\ \A n \in 1..Len(sent) : Len(sent[n].data) = FieldData(FormatOf(sent[n].caps))
  /\ sink = "tape" => images = <<>>
  /\ InStep => StreamHolds /\ ImagesHold

(* A field starts behind the one before it.                                *)
LEMMA StartNext ==
  ASSUME mode \in DOMAIN FrameFormats, NEW n \in Nat \ {0}
  PROVE  /\ Start(n) \in Nat /\ SizeOfField(n) \in Nat \ {0}
         /\ n % 2 \in {0, 1}
         /\ Start(n + 1) = Start(n) + SizeOfField(n)
  BY FieldStartNext DEF Start, SizeOfField

LEMMA StartGrows ==
  ASSUME mode \in DOMAIN FrameFormats, NEW m \in Nat \ {0}, NEW n \in Nat, m <= n
  PROVE  Start(m) <= Start(n)
  BY FieldStartGrows DEF Start

(* The bytes of every field that is due are in the stream.                 *)
LEMMA FieldInStream ==
  ASSUME TypesInv, StreamHolds, NEW n \in fieldNumber..Len(sent), NEW k \in 1..SizeOfField(n)
  PROVE  /\ n \in Nat \ {0} /\ k \in Nat \ {0}
         /\ Start(n) - Start(fieldNumber) + k \in 1..StreamLength
<1>1. /\ mode \in DOMAIN FrameFormats /\ fieldNumber \in Nat \ {0} /\ Len(sent) \in Nat
      /\ StreamLength \in Nat
  BY VideoAssumption DEF TypesInv, VideoInv, ScreenTypes, EncTypes, StreamTypes, StreamLength
<1>2. /\ n \in Nat \ {0} /\ n + 1 \in Nat \ {0} /\ fieldNumber <= n /\ n + 1 <= Len(sent) + 1
      /\ Len(sent) + 1 \in Nat \ {0}
  BY <1>1
<1>3. /\ Start(fieldNumber) \in Nat /\ Start(n) \in Nat /\ SizeOfField(n) \in Nat
      /\ Start(n + 1) = Start(n) + SizeOfField(n)
      /\ Start(Len(sent) + 1) \in Nat
  <2>1. \A m \in Nat \ {0} : /\ Start(m) \in Nat /\ SizeOfField(m) \in Nat
                           /\ Start(m + 1) = Start(m) + SizeOfField(m)
    BY <1>1, StartNext
  <2>2. QED
    BY <1>1, <1>2, <2>1, Zenon
<1>4. Start(fieldNumber) <= Start(n) /\ Start(n + 1) <= Start(Len(sent) + 1)
  BY <1>1, <1>2, StartGrows
<1>5. Start(fieldNumber) + StreamLength = Start(Len(sent) + 1)
  BY DEF StreamHolds
<1>6. QED
  BY <1>1, <1>2, <1>3, <1>4, <1>5

(* Images that were drawn stay what they are when more is sent.            *)
LEMMA ImagesStay ==
  ASSUME TypesInv, ImagesHold, UNCHANGED <<mode, images>>, Len(sent') \in Nat,
         Len(sent') >= Len(sent), \A n \in 1..Len(sent) : sent'[n] = sent[n]
  PROVE  ImagesHold'
<1>1. Len(sent) \in Nat
  BY DEF TypesInv, EncTypes
<1>2. ASSUME NEW n \in 1..Len(sent)
      PROVE  n \in 1..Len(sent') /\ Written(n)' = Written(n)
  BY <1>1 DEF Written
<1>3. ASSUME NEW i \in DOMAIN images
      PROVE  /\ images[i].number \in 1..Len(sent')
             /\ \A n \in 1..Len(sent') : images[i].number = n => images[i].bytes = Written(n)'
             /\ i > 1 => images[i - 1].number < images[i].number
  <2>1. /\ images[i].number \in 1..Len(sent)
        /\ \A n \in 1..Len(sent) : images[i].number = n => images[i].bytes = Written(n)
        /\ i > 1 => images[i - 1].number < images[i].number
    BY DEF ImagesHold
  <2>2. QED
    BY <1>2, <2>1, Zenon
<1>4. QED
  BY <1>3 DEF ImagesHold

(* A field that leaves the encoder goes to the end of the stream.          *)
LEMMA ChainImages ==
  ASSUME TypesInv, TypesInv', ImageInv, encCaps \in DOMAIN FrameFormats,
         NEW data \in Payloads(FormatOf(encCaps), Len(sent) + 1),
         NEW noise, NEW lines, NoiseOf(noise, lines), EncChain(data, noise, lines),
         UNCHANGED <<voVars, sink>>
  PROVE  ImageInv'
<1>1. PICK n : n = Len(sent) + 1
  OBVIOUS
<1> DEFINE f == FormatOf(encCaps)
           field == EncodeField(f, data, oddField)
           noisy == InjectNoise(field, noise, lines)
           e == [caps |-> encCaps, data |-> data]
           more == [i \in DOMAIN noisy |->
                      [caps |-> encCaps, byte |-> noisy[i], field |-> n,
                       active |-> IsActive(f, i)]]
<1>2. /\ link' = link \o more
      /\ sent' = Append(sent, e)
      /\ oddField' = 1 - oddField
      /\ UNCHANGED <<encCaps, injecting, sink, mode, screen, fieldNumber, images, changed>>
  BY <1>1 DEF EncChain, voVars, OtherParity
<1>3. /\ sent \in Seq(Fields) /\ Len(sent) \in Nat /\ oddField \in {0, 1}
      /\ sent' \in Seq(Fields) /\ Len(sent') \in Nat
      /\ link \in Seq(Bytes(Len(sent))) /\ Len(link) \in Nat
      /\ link' \in Seq(Bytes(Len(sent'))) /\ Len(link') \in Nat
      /\ screen \in Seq(Tokens) /\ Len(screen) \in Nat
      /\ fieldNumber \in Nat \ {0}
      /\ mode \in DOMAIN FrameFormats
  <2>1. sent \in Seq(Fields) /\ oddField \in {0, 1} /\ sent' \in Seq(Fields)
    BY Zenon DEF TypesInv, EncTypes
  <2>2. Len(sent) \in Nat /\ Len(sent') \in Nat
    BY <2>1
  <2>3. /\ link \in Seq(Bytes(Len(sent))) /\ link' \in Seq(Bytes(Len(sent')))
        /\ screen \in Seq(Tokens)
    BY Zenon DEF TypesInv, StreamTypes
  <2>4. Len(link) \in Nat /\ Len(link') \in Nat /\ Len(screen) \in Nat
    BY <2>3
  <2>5. fieldNumber \in Nat \ {0} /\ mode \in DOMAIN FrameFormats
    BY VideoAssumption, Zenon DEF TypesInv, ScreenTypes, VideoInv
  <2>6. QED
    BY <2>1, <2>2, <2>3, <2>4, <2>5
<1>4. oddField = n % 2
  BY <1>1 DEF ImageInv
<1>5. n \in Nat \ {0} /\ n - 1 = Len(sent)
  BY <1>1, <1>3
<1>6. data \in Seq(Tokens) /\ Len(data) = FieldData(f)
  BY <1>1, <1>5, PayloadTyped
<1>7. e \in Fields /\ e.caps = encCaps /\ e.data = data
  BY <1>6 DEF Fields
<1> HIDE DEF e
<1>8. Len(sent') = n /\ \A i \in 1..Len(sent) : sent'[i] = sent[i]
  BY <1>1, <1>2, <1>3, <1>7
<1>9. sent'[n] = e
  BY <1>1, <1>2, <1>3, <1>7
<1>10. oddField' = (Len(sent') + 1) % 2
  <2>1. (n + 1) % 2 = 1 - (n % 2)
    BY <1>5
  <2>2. Len(sent') = n /\ oddField' = 1 - oddField
    BY <1>2, <1>8
  <2> HIDE DEF e
  <2>3. QED
    BY <1>4, <2>1, <2>2
<1>11. \A i \in 1..Len(sent') : i \in 1..Len(sent) \/ i = n
  BY <1>3, <1>5, <1>8
<1>12. \A i \in 1..Len(sent') : Len(sent'[i].data) = FieldData(FormatOf(sent'[i].caps))
  BY <1>6, <1>7, <1>8, <1>9, <1>11 DEF ImageInv
<1>13. ASSUME InStep'
       PROVE  StreamHolds' /\ ImagesHold'
  <2>1. 1..Len(sent) \subseteq 1..Len(sent') /\ n \in 1..Len(sent')
    BY <1>3, <1>5, <1>8
  <2>2. InStep /\ encCaps = mode /\ ~injecting
    <3>1. \A i \in 1..Len(sent) : sent[i].caps = mode
      BY <1>2, <1>8, <1>13, <2>1 DEF InStep
    <3>2. encCaps = mode
      BY <1>2, <1>7, <1>9, <1>13, <2>1 DEF InStep
    <3>3. QED
      BY <1>2, <1>13, <3>1, <3>2 DEF InStep
  <2>3. StreamHolds /\ ImagesHold
    BY <2>2 DEF ImageInv
  <2>4. ImagesHold'
    BY <1>2, <1>3, <1>5, <1>8, <2>3, ImagesStay
  <2>5. field \in Seq(Tokens) /\ Len(field) = SizeOfField(n)
    <3>1. EncodeField(f, data, oddField) \in Seq(Tokens)
          /\ Len(EncodeField(f, data, oddField)) = FieldSize(f, oddField)
      BY <1>3, <1>6, FieldTyped
    <3>2. QED
      BY <1>4, <2>2, <3>1 DEF SizeOfField
  <2>6. field = EncodeField(FormatOf(mode), sent'[n].data, n % 2)
    BY <1>4, <1>7, <1>9, <2>2
  <2> HIDE DEF field
  <2>7. noisy = field
    <3>1. noise = <<>> /\ lines * NoiseLine = 0
      <4>1. noise = <<>> /\ lines = 0
        BY <2>2 DEF NoiseOf
      <4>2. 0 * NoiseLine = 0
        BY FrameAssumption
      <4>3. QED
        BY <4>1, <4>2
    <3>2. noisy = [i \in 1..(Len(field) - 0) |->
                     IF i \in DOMAIN <<>> THEN noise[i] ELSE field[i]]
      BY <3>1 DEF InjectNoise
    <3>3. Len(field) - 0 = Len(field) /\ \A i : i \notin DOMAIN <<>>
      BY <2>5
    <3>4. noisy = [i \in 1..Len(field) |-> field[i]]
      BY <3>2, <3>3
    <3>5. field = [i \in 1..Len(field) |-> field[i]]
      BY <2>5
    <3>6. QED
      BY <3>4, <3>5
  <2>8. DOMAIN noisy = 1..SizeOfField(n) /\ SizeOfField(n) \in Nat
    BY <2>5, <2>7
  <2>9. Len(more) = SizeOfField(n) /\ \A k \in 1..SizeOfField(n) : more[k].byte = field[k]
    <3>1. more = [i \in 1..SizeOfField(n) |->
                    [caps |-> encCaps, byte |-> field[i], field |-> n,
                     active |-> IsActive(f, i)]]
      BY <2>7, <2>8
    <3> HIDE DEF more
    <3>2. QED
      BY <2>8, <3>1
  <2>10. /\ Len(link') = Len(link) + SizeOfField(n)
         /\ \A k \in 1..Len(link) : link'[k] = link[k]
         /\ \A k \in 1..SizeOfField(n) : link'[Len(link) + k].byte = field[k]
    <3> DEFINE T == Range(link) \union Range(more)
    <3>1. IsList(link) /\ Range(link) \subseteq T /\ Range(more) \subseteq T
      BY <1>3, ListOf
    <3>2. link \in Seq(T)
      BY <3>1, SeqWidens DEF IsList
    <3>3. more \in Seq(T)
      <4>1. more \in [1..SizeOfField(n) -> Range(more)]
        BY <2>8 DEF Range
      <4> HIDE DEF more
      <4>2. more \in [1..SizeOfField(n) -> T]
        BY <4>1
      <4> HIDE DEF T
      <4>3. QED
        BY <2>8, <4>2
    <3> HIDE DEF T, more
    <3>4. /\ Len(link \o more) = Len(link) + Len(more)
          /\ \A i \in 1..(Len(link) + Len(more)) :
               (link \o more)[i] = IF i <= Len(link) THEN link[i] ELSE more[i - Len(link)]
      BY <3>2, <3>3, ConcatProperties, Zenon
    <3>5. \A k \in 1..Len(link) : link'[k] = link[k]
      BY <1>2, <1>3, <2>8, <2>9, <3>4
    <3>6. ASSUME NEW k \in 1..SizeOfField(n)
          PROVE  link'[Len(link) + k] = more[k]
      <4>1. Len(link) + k \in 1..(Len(link) + Len(more)) /\ ~(Len(link) + k <= Len(link))
            /\ Len(link) + k - Len(link) = k
        BY <1>3, <2>8, <2>9
      <4>2. QED
        BY <1>2, <3>4, <4>1
    <3>7. QED
      BY <1>2, <2>9, <3>4, <3>5, <3>6
  <2>11. /\ StreamLength \in Nat /\ StreamLength = Len(screen) + Len(link)
         /\ StreamLength' = StreamLength + SizeOfField(n)
         /\ \A k \in 1..StreamLength : ByteAt(k)' = ByteAt(k)
         /\ \A k \in 1..SizeOfField(n) : \A j \in Nat :
              j = StreamLength + k => ByteAt(j)' = field[k]
    <3>1. /\ StreamLength \in Nat /\ StreamLength = Len(screen) + Len(link)
          /\ StreamLength' = StreamLength + SizeOfField(n)
      BY <1>2, <1>3, <2>8, <2>10 DEF StreamLength
    <3>2. ASSUME NEW k \in 1..StreamLength
          PROVE  ByteAt(k)' = ByteAt(k)
      <4>1. CASE k <= Len(screen)
        BY <1>2, <4>1 DEF ByteAt
      <4>2. CASE ~(k <= Len(screen))
        <5>1. k - Len(screen) \in 1..Len(link)
          BY <1>3, <3>1, <4>2
        <5>2. QED
          BY <1>2, <2>10, <4>2, <5>1 DEF ByteAt
      <4>3. QED
        BY <4>1, <4>2
    <3>3. ASSUME NEW k \in 1..SizeOfField(n), NEW j \in Nat, j = StreamLength + k
          PROVE  ByteAt(j)' = field[k]
      <4>1. ~(j <= Len(screen)) /\ j - Len(screen) = Len(link) + k
        BY <1>3, <2>8, <3>1, <3>3
      <4>2. ByteAt(j)' = link'[j - Len(screen)].byte
        BY <1>2, <4>1 DEF ByteAt
      <4>3. QED
        BY <2>10, <4>1, <4>2
    <3>4. QED
      BY <3>1, <3>2, <3>3
  <2>12. /\ \A i \in Nat : Start(i)' = Start(i) /\ SizeOfField(i)' = SizeOfField(i)
         /\ Start(fieldNumber)' = Start(fieldNumber)
    BY <1>2, <1>8 DEF Start, SizeOfField
  <2>13. /\ Start(n) \in Nat /\ Start(fieldNumber) \in Nat
         /\ Start(n + 1) = Start(n) + SizeOfField(n)
    BY <1>3, <1>5, StartNext
  <2>14. Start(fieldNumber) + StreamLength = Start(n) /\ fieldNumber <= n
    BY <1>1, <2>3 DEF StreamHolds
  <2>15. Start(Len(sent) + 1)' = Start(n + 1)
    BY <1>2, <1>8 DEF Start
  <2>16. Start(fieldNumber)' + StreamLength' = Start(Len(sent) + 1)'
    BY <2>8, <2>11, <2>12, <2>13, <2>14, <2>15
  <2>17. ASSUME NEW i \in fieldNumber..n, NEW k \in 1..SizeOfField(i), NEW j \in Nat,
                j = Start(i) - Start(fieldNumber) + k
         PROVE  ByteAt(j)' = Written(i)'[k]
    <3>1. CASE i = n
      <4>1. k \in 1..SizeOfField(n) /\ j = StreamLength + k
        <5>1. k \in 1..SizeOfField(n) /\ j = Start(n) - Start(fieldNumber) + k
          BY <2>17, <3>1
        <5>2. PICK a \in Nat, b \in Nat, l \in Nat :
                a = Start(n) /\ b = Start(fieldNumber) /\ l = StreamLength
          BY <2>11, <2>13
        <5>3. b + l = a /\ j = a - b + k /\ k \in Nat
          BY <2>8, <2>14, <5>1, <5>2
        <5>4. j = l + k
          BY <5>3
        <5>5. QED
          BY <5>1, <5>2, <5>4
      <4>2. ByteAt(j)' = field[k]
        BY <2>11, <4>1
      <4>3. Written(n)' = field
        BY <1>2, <2>6 DEF Written
      <4>4. QED
        BY <3>1, <4>2, <4>3
    <3>2. CASE i # n
      <4>1. i \in fieldNumber..Len(sent) /\ i \in 1..Len(sent)
        BY <1>3, <1>5, <3>2
      <4>2. j \in 1..StreamLength /\ ByteAt(j) = Written(i)[k]
        BY <2>3, <2>17, <4>1, FieldInStream DEF StreamHolds
      <4>3. Written(i)' = Written(i)
        BY <1>2, <1>8, <4>1 DEF Written
      <4>4. QED
        BY <2>11, <4>2, <4>3
    <3>3. QED
      BY <3>1, <3>2
  <2>18. StreamHolds'
    <3>1. fieldNumber' <= Len(sent') + 1
      BY <1>2, <1>3, <1>5, <1>8, <2>14
    <3>2. ASSUME NEW i \in fieldNumber..n, NEW k \in 1..SizeOfField(i)
          PROVE  ByteAt(Start(i) - Start(fieldNumber) + k)' = Written(i)'[k]
      <4>1. i \in Nat \ {0} /\ fieldNumber <= i /\ k \in Nat
        BY <1>3, <1>5
      <4>2. Start(i) \in Nat /\ Start(fieldNumber) <= Start(i)
        BY <1>3, <4>1, StartNext, StartGrows
      <4>3. PICK j \in Nat : j = Start(i) - Start(fieldNumber) + k
        BY <2>13, <4>1, <4>2
      <4>4. (Start(i) - Start(fieldNumber) + k)' = j
        BY <2>12, <4>1, <4>3
      <4>5. ByteAt(Start(i) - Start(fieldNumber) + k)' = ByteAt(j)'
        BY <4>4 DEF ByteAt
      <4>6. QED
        BY <2>17, <4>3, <4>5
    <3>3. \A i \in fieldNumber'..Len(sent') : \A k \in 1..SizeOfField(i)' :
            ByteAt(Start(i) - Start(fieldNumber) + k)' = Written(i)'[k]
      <4>1. \A i \in fieldNumber..n : SizeOfField(i)' = SizeOfField(i)
        BY <1>2 DEF SizeOfField
      <4>2. fieldNumber'..Len(sent') = fieldNumber..n
        BY <1>2, <1>8
      <4>3. QED
        BY <3>2, <4>1, <4>2
    <3>4. QED
      BY <2>16, <3>1, <3>3 DEF StreamHolds
  <2>19. QED
    BY <2>4, <2>18
<1>14. ImageInv'
  BY <1>2, <1>10, <1>12, <1>13 DEF ImageInv
<1>15. QED
  BY <1>14

(* Nothing that the picture is made of changes.                            *)
LEMMA OthersKeepImages ==
  ASSUME ImageInv, UNCHANGED <<oddField, injecting, sent, link, sink>>,
         UNCHANGED <<mode, screen, fieldNumber, images, changed>>
  PROVE  ImageInv'
BY DEF ImageInv, InStep, StreamHolds, ImagesHold, Start, SizeOfField, Written, ByteAt, StreamLength

LEMMA RecordImages ==
  ASSUME TypesInv, TypesInv', ImageInv, Record
  PROVE  ImageInv'
<1>1. EncNext /\ UNCHANGED <<voVars, sink>>
  BY DEF Record, pathVars
<1>2. ASSUME NEW caps, EncSetcaps(caps)
      PROVE  ImageInv'
  BY <1>1, <1>2, OthersKeepImages DEF EncSetcaps, voVars
<1>3. CASE EncChainFails \/ EncSetcapsFails \/ EncCrash
  BY <1>1, <1>3, OthersKeepImages DEF EncChainFails, EncSetcapsFails, EncCrash, encVars, voVars
<1>4. CASE EncField
  <2>1. EncTypes
    BY DEF TypesInv
  <2>2. encCaps \in DOMAIN FrameFormats
        /\ \E data \in Payloads(FormatOf(encCaps), Len(sent) + 1) :
             \E noise, lines : NoiseOf(noise, lines) /\ EncChain(data, noise, lines)
    BY <1>4, <2>1, FieldIsRecorded
  <2>3. QED
    BY <1>1, <2>2, ChainImages
<1>5. QED
  BY <1>1, <1>2, <1>3, <1>4 DEF EncNext

(* A buffer moves from the link to the screen: the stream stays the same.  *)
LEMMA TransformImages ==
  ASSUME TypesInv, TypesInv', ImageInv, Transform, UNCHANGED <<oddField, injecting, sent, sink>>
  PROVE  ImageInv'
<1>1. PICK n \in 1..Len(link) :
        /\ screen' = screen \o [i \in 1..n |-> link[i].byte]
        /\ link' = SubSeq(link, n + 1, Len(link))
  BY DEF Transform
<1>2. UNCHANGED <<mode, fieldNumber, images, changed>>
  BY DEF Transform
<1> DEFINE S == Bytes(Len(sent))
           u == [i \in 1..n |-> link[i].byte]
<1>3. /\ link \in Seq(S) /\ Len(link) \in Nat
      /\ screen \in Seq(Tokens) /\ Len(screen) \in Nat
  BY DEF TypesInv, StreamTypes
<1>4. n \in Nat /\ n <= Len(link) /\ \A i \in 1..n : i \in 1..Len(link)
  BY <1>3
<1>5. u \in Seq(Tokens) /\ Len(u) = n /\ \A i \in 1..n : u[i] = link[i].byte
  <2>1. \A i \in 1..n : link[i].byte \in Tokens
    <3>1. \A i \in 1..Len(link) : link[i] \in S
      BY <1>3, Zenon, ElementOfSeq
    <3>2. QED
      BY <1>4, <3>1 DEF Bytes
  <2>2. u \in [1..n -> Tokens]
    BY <2>1
  <2>3. \A i \in 1..n : u[i] = link[i].byte
    OBVIOUS
  <2> HIDE DEF u
  <2>4. QED
    BY <1>4, <2>2, <2>3
<1>6. screen' = screen \o u
  BY <1>1
<1> HIDE DEF u, S
<1>7. /\ Len(screen') = Len(screen) + n
      /\ \A i \in 1..(Len(screen) + n) :
           screen'[i] = IF i <= Len(screen) THEN screen[i] ELSE u[i - Len(screen)]
  BY <1>3, <1>5, <1>6, ConcatProperties
<1>8. /\ Len(link') = Len(link) - n
      /\ \A i \in 1..(Len(link) - n) : link'[i] = link[n + i]
  BY <1>1, <1>3, <1>4, PartsTyped
<1>9. StreamLength' = StreamLength /\ StreamLength = Len(screen) + Len(link)
  BY <1>3, <1>4, <1>7, <1>8 DEF StreamLength
<1>10. ASSUME NEW k \in 1..StreamLength
       PROVE  ByteAt(k)' = ByteAt(k)
  <2>1. k \in Nat /\ k <= Len(screen) + Len(link) /\ 1 <= k
    BY <1>3, <1>9
  <2>2. CASE k <= Len(screen)
    <3>1. k <= Len(screen') /\ k \in 1..(Len(screen) + n)
      BY <1>3, <1>4, <1>7, <2>1, <2>2
    <3>2. screen'[k] = screen[k]
      BY <1>7, <2>2, <3>1
    <3>3. QED
      BY <2>2, <3>1, <3>2 DEF ByteAt
  <2>3. CASE Len(screen) < k /\ k <= Len(screen) + n
    <3>1. k <= Len(screen') /\ k \in 1..(Len(screen) + n) /\ k - Len(screen) \in 1..n
          /\ ~(k <= Len(screen))
      BY <1>3, <1>4, <1>7, <2>1, <2>3
    <3>2. screen'[k] = u[k - Len(screen)]
      BY <1>7, <3>1
    <3>3. u[k - Len(screen)] = link[k - Len(screen)].byte
      BY <1>5, <3>1
    <3>4. QED
      BY <3>1, <3>2, <3>3 DEF ByteAt
  <2>4. CASE Len(screen) + n < k
    <3>1. /\ ~(k <= Len(screen')) /\ ~(k <= Len(screen))
          /\ k - Len(screen') \in 1..(Len(link) - n)
          /\ n + (k - Len(screen')) = k - Len(screen)
      BY <1>3, <1>4, <1>7, <2>1, <2>4
    <3>2. link'[k - Len(screen')] = link[n + (k - Len(screen'))]
      BY <1>8, <3>1
    <3>3. link'[k - Len(screen')] = link[k - Len(screen)]
      BY <3>1, <3>2
    <3>4. QED
      BY <3>1, <3>3 DEF ByteAt
  <2>5. QED
    BY <1>3, <1>4, <2>1, <2>2, <2>3, <2>4
<1>11. InStep' => InStep
  BY <1>2 DEF InStep
<1>12. ImagesHold => ImagesHold'
  BY <1>2 DEF ImagesHold, Written
<1>13. ASSUME StreamHolds
       PROVE  StreamHolds'
  <2>1. \A i : Start(i)' = Start(i) /\ SizeOfField(i)' = SizeOfField(i) /\ Written(i)' = Written(i)
    BY <1>2 DEF Start, SizeOfField, Written
  <2>2. Start(fieldNumber)' = Start(fieldNumber) /\ Start(Len(sent) + 1)' = Start(Len(sent) + 1)
    BY <1>2 DEF Start
  <2>3. ASSUME NEW i \in fieldNumber..Len(sent), NEW k \in 1..SizeOfField(i)
        PROVE  ByteAt(Start(i) - Start(fieldNumber) + k)' = Written(i)'[k]
    <3>1. Start(i) - Start(fieldNumber) + k \in 1..StreamLength
      BY <1>13, FieldInStream
    <3>2. PICK j \in 1..StreamLength : j = Start(i) - Start(fieldNumber) + k
      BY <3>1
    <3>3. (Start(i) - Start(fieldNumber) + k)' = j
      BY <2>1, <2>2, <3>2
    <3>4. ByteAt(Start(i) - Start(fieldNumber) + k)' = ByteAt(j)'
      BY <3>3 DEF ByteAt
    <3>5. ByteAt(j) = Written(i)[k]
      BY <1>13, <3>2 DEF StreamHolds
    <3>6. QED
      BY <1>10, <2>1, <3>4, <3>5
  <2>4. fieldNumber' <= Len(sent') + 1 /\ Start(fieldNumber)' + StreamLength' = Start(Len(sent) + 1)'
    BY <1>2, <1>9, <1>13, <2>2 DEF StreamHolds
  <2>5. fieldNumber'..Len(sent') = fieldNumber..Len(sent)
    BY <1>2
  <2>6. \A i \in fieldNumber'..Len(sent') : \A k \in 1..SizeOfField(i)' :
          ByteAt(Start(i) - Start(fieldNumber) + k)' = Written(i)'[k]
    BY <2>1, <2>3, <2>5
  <2>7. QED
    BY <2>4, <2>6 DEF StreamHolds
<1>14. QED
  BY <1>2, <1>11, <1>12, <1>13 DEF ImageInv

(* The bytes drawn are as many as the encoder gives the field that is due. *)
LEMMA NextFieldSize ==
  ASSUME TypesInv
  PROVE  NextFieldBytes = SizeOfField(fieldNumber)
<1> DEFINE f == FormatOf(mode)
           h == Video.height
           l == Video.interlace
           b == Video.bytes_per_line
           s == f.field_size
           t == f.interlace
<1>1. mode \in DOMAIN FrameFormats
  BY VideoAssumption DEF TypesInv, VideoInv
<1>2. h \in Nat /\ l \in Nat /\ b \in Nat
  BY <1>1, VideoAssumption DEF Video
<1>3. h * b = s /\ l * b = t
  BY <1>1, VideoPathAssumption DEF Video, FormatOf
<1>4. s \in Nat /\ t \in Nat
  BY <1>1, RowFacts DEF FrameRows
<1>5. NextFieldBytes = (h + (IF fieldNumber % 2 = 1 THEN l ELSE 0)) * b
  BY DEF NextFieldBytes, LinesInNextField
<1>6. SizeOfField(fieldNumber) = s + (IF fieldNumber % 2 = 1 THEN t ELSE 0)
  BY DEF SizeOfField, FieldSize
<1> HIDE DEF f, h, l, b, s, t
<1>7. (h + l) * b = h * b + l * b /\ (h + 0) * b = h * b
  BY <1>2
<1>8. QED
  BY <1>3, <1>4, <1>5, <1>6, <1>7

(* A field is drawn, or refused after it was drawn: it leaves the screen,  *)
(* and what is left begins with the next one.                              *)
LEMMA DrawImages ==
  ASSUME TypesInv, ImageInv, sink = "screen", Len(screen) >= NextFieldBytes,
         screen' = Drawn, fieldNumber' = fieldNumber + 1,
         images' = images \/ images' = Append(images, Image),
         UNCHANGED <<mode, changed, link, oddField, injecting, sent, sink>>
  PROVE  ImageInv'
<1>1. PICK g : g = fieldNumber
  OBVIOUS
<1> DEFINE n == SizeOfField(g)
<1>2. /\ mode \in DOMAIN FrameFormats
      /\ g \in Nat \ {0} /\ Len(sent) \in Nat
      /\ screen \in Seq(Tokens) /\ Len(screen) \in Nat /\ Len(link) \in Nat
      /\ StreamLength = Len(screen) + Len(link)
      /\ IsList(images) /\ \A i \in DOMAIN images : images[i].number \in 1..(g - 1)
  BY <1>1, VideoAssumption
  DEF TypesInv, VideoInv, EncTypes, StreamTypes, ScreenTypes, StreamLength
<1>3. /\ n \in Nat \ {0} /\ g % 2 \in {0, 1} /\ Start(g) \in Nat
      /\ Start(g + 1) = Start(g) + n
  BY <1>2, StartNext
<1>4. NextFieldBytes = n
  BY <1>1, NextFieldSize
<1> HIDE DEF n
<1>5. n <= Len(screen) /\ Drawn = SubSeq(screen, n + 1, Len(screen))
  BY <1>4 DEF Drawn
<1>6. /\ Len(screen') = Len(screen) - n
      /\ \A k \in 1..(Len(screen) - n) : screen'[k] = screen[n + k]
      /\ \A k \in 1..n : SubSeq(screen, 1, n)[k] = screen[k]
      /\ SubSeq(screen, 1, n) \in Seq(Tokens) /\ Len(SubSeq(screen, 1, n)) = n
  <2>1. n \in Nat
    BY <1>3
  <2>2. QED
    BY <1>2, <1>5, <2>1, PartsTyped
<1>7. StreamLength' = StreamLength - n /\ n <= StreamLength /\ StreamLength \in Nat
  <2>1. StreamLength' = Len(screen') + Len(link)
    BY DEF StreamLength
  <2>2. n \in Nat
    BY <1>3
  <2>3. QED
    BY <1>2, <1>5, <1>6, <2>1, <2>2
<1>8. ASSUME NEW k \in 1..(StreamLength - n)
      PROVE  ByteAt(k)' = ByteAt(n + k)
  <2>1. k \in Nat /\ 1 <= k /\ n + k <= Len(screen) + Len(link)
    BY <1>2, <1>3, <1>7
  <2>2. CASE k <= Len(screen) - n
    <3>1. k \in 1..(Len(screen) - n) /\ k <= Len(screen') /\ n + k <= Len(screen)
      BY <1>2, <1>3, <1>6, <2>1, <2>2
    <3>2. screen'[k] = screen[n + k]
      BY <1>6, <3>1
    <3>3. ByteAt(k)' = screen'[k]
      BY <3>1 DEF ByteAt
    <3>4. ByteAt(n + k) = screen[n + k]
      BY <3>1 DEF ByteAt
    <3>5. QED
      BY <3>2, <3>3, <3>4
  <2>3. CASE ~(k <= Len(screen) - n)
    <3>1. /\ ~(k <= Len(screen')) /\ ~(n + k <= Len(screen))
          /\ k - Len(screen') = n + k - Len(screen)
      BY <1>2, <1>3, <1>6, <2>1, <2>3
    <3>2. ByteAt(k)' = link[k - Len(screen')].byte
      BY <3>1 DEF ByteAt
    <3>3. PICK j \in Nat : j = n + k
      BY <1>3, <2>1
    <3>4. ByteAt(j) = link[j - Len(screen)].byte
      BY <3>1, <3>3 DEF ByteAt
    <3>5. j - Len(screen) = k - Len(screen')
      BY <1>2, <1>3, <1>6, <2>1, <3>1, <3>3
    <3>6. ByteAt(j) = ByteAt(k)'
      BY <3>2, <3>4, <3>5
    <3>7. QED
      BY <3>3, <3>6
  <2>4. QED
    BY <2>2, <2>3
<1>9. ASSUME InStep
      PROVE  StreamHolds' /\ ImagesHold'
  <2>1. StreamHolds /\ ImagesHold
    BY <1>9 DEF ImageInv
  <2>2. /\ g <= Len(sent) + 1
        /\ Start(g) + StreamLength = Start(Len(sent) + 1)
        /\ \A i \in g..Len(sent) : \A k \in 1..SizeOfField(i) :
             ByteAt(Start(i) - Start(g) + k) = Written(i)[k]
    BY <1>1, <2>1 DEF StreamHolds
  <2>3. g <= Len(sent) /\ g \in 1..Len(sent) /\ g \in g..Len(sent)
    <3>1. g # Len(sent) + 1
      BY <1>2, <1>3, <1>7, <2>2
    <3>2. QED
      BY <1>2, <2>2, <3>1
  <2>4. \A i \in Nat : /\ Start(i)' = Start(i) /\ SizeOfField(i)' = SizeOfField(i)
                      /\ Written(i)' = Written(i)
    BY DEF Start, SizeOfField, Written
  <2>5. /\ Start(fieldNumber)' = Start(g + 1)
        /\ Start(Len(sent) + 1)' = Start(Len(sent) + 1)
    BY <1>1 DEF Start
  <2>6. ASSUME NEW i \in (g + 1)..Len(sent), NEW k \in 1..SizeOfField(i)
        PROVE  ByteAt(Start(i) - Start(fieldNumber) + k)' = Written(i)'[k]
    <3>1. i \in g..Len(sent) /\ i \in Nat /\ g + 1 <= i /\ i \in Nat \ {0}
      BY <1>2
    <3>2. Start(i) \in Nat /\ Start(g + 1) <= Start(i) /\ SizeOfField(i) \in Nat
      <4>1. g + 1 \in Nat \ {0}
        BY <1>2
      <4>2. QED
        BY <1>2, <3>1, <4>1, StartNext, StartGrows
    <3>3. Start(i) - Start(g) + k \in 1..StreamLength
      BY <1>1, <2>1, <3>1, FieldInStream
    <3>4. PICK j \in 1..(StreamLength - n) :
            j = Start(i) - Start(g + 1) + k /\ n + j = Start(i) - Start(g) + k
      <4>1. Start(i) - Start(g + 1) + k \in 1..(StreamLength - n)
        <5>1. PICK a \in Nat, b \in Nat, l \in Nat, z \in Nat :
                a = Start(i) /\ b = Start(g) /\ l = StreamLength /\ z = n
          BY <1>3, <1>7, <3>2
        <5>2. Start(g + 1) = b + z /\ b + z <= a
          BY <1>3, <3>2, <5>1
        <5>3. a - b + k \in 1..l /\ k \in Nat /\ k > 0
          BY <3>3, <5>1
        <5>4. a - (b + z) + k \in 1..(l - z)
          BY <5>2, <5>3
        <5>5. QED
          BY <5>1, <5>2, <5>4
      <4>2. n + (Start(i) - Start(g + 1) + k) = Start(i) - Start(g) + k
        BY <1>3, <3>2
      <4>3. QED
        BY <4>1, <4>2
    <3>5. (Start(i) - Start(fieldNumber) + k)' = j
      BY <2>4, <2>5, <3>1, <3>4
    <3>6. ByteAt(Start(i) - Start(fieldNumber) + k)' = ByteAt(j)'
      BY <3>5 DEF ByteAt
    <3>7. ByteAt(n + j) = Written(i)[k]
      BY <2>2, <3>1, <3>4
    <3>8. QED
      BY <1>8, <2>4, <3>1, <3>6, <3>7
  <2>7. StreamHolds'
    <3>1. fieldNumber' <= Len(sent') + 1
      BY <1>1, <1>2, <2>3
    <3>2. Start(fieldNumber)' + StreamLength' = Start(Len(sent) + 1)'
      BY <1>3, <1>7, <2>2, <2>5
    <3>3. fieldNumber'..Len(sent') = (g + 1)..Len(sent)
      BY <1>1
    <3>4. \A i \in (g + 1)..Len(sent) : i \in Nat
      BY <1>2
    <3>5. \A i \in fieldNumber'..Len(sent') : \A k \in 1..SizeOfField(i)' :
            ByteAt(Start(i) - Start(fieldNumber) + k)' = Written(i)'[k]
      BY <2>4, <2>6, <3>3, <3>4
    <3>6. QED
      BY <3>1, <3>2, <3>5 DEF StreamHolds
  <2>8. SubSeq(screen, 1, n) = Written(g)
    <3>1. Written(g) \in Seq(Tokens) /\ Len(Written(g)) = n
      <4>1. sent[g] \in Fields
        BY <2>3 DEF TypesInv, EncTypes
      <4>2. sent[g].data \in Seq(Tokens) /\ sent[g].caps = mode
        BY <1>9, <2>3, <4>1 DEF Fields, InStep
      <4>3. Len(sent[g].data) = FieldData(FormatOf(mode))
        BY <2>3, <4>2 DEF ImageInv
      <4>4. QED
        BY <1>2, <1>3, <4>2, <4>3, FieldTyped DEF Written, SizeOfField, n
    <3>2. ASSUME NEW k \in 1..n
          PROVE  SubSeq(screen, 1, n)[k] = Written(g)[k]
      <4>1. k \in Nat /\ k <= Len(screen) /\ Start(g) - Start(g) + k = k
        BY <1>2, <1>3, <1>5
      <4>2. ByteAt(k) = screen[k]
        BY <4>1 DEF ByteAt
      <4>3. ByteAt(Start(g) - Start(g) + k) = Written(g)[k]
        BY <2>2, <2>3 DEF n
      <4>4. QED
        BY <1>6, <4>1, <4>2, <4>3
    <3>3. QED
      <4> DEFINE a == SubSeq(screen, 1, n)
                 c == Written(g)
      <4>1. /\ a \in Seq(Tokens) /\ c \in Seq(Tokens) /\ Len(a) = Len(c)
            /\ \A k \in 1..Len(a) : a[k] = c[k]
        BY <1>6, <3>1, <3>2
      <4> HIDE DEF a, c
      <4>2. a = c
        BY <4>1, SeqEqual
      <4>3. QED
        BY <4>2 DEF a, c
  <2>9. ASSUME images' = Append(images, Image)
        PROVE  ImagesHold'
    <3> DEFINE e == Image
    <3>1. e.number = g /\ e.bytes = Written(g)
      BY <1>1, <1>4, <2>8 DEF Image
    <3> HIDE DEF e
    <3>2. /\ DOMAIN images = 1..Len(images) /\ Len(images) \in Nat
          /\ DOMAIN images' = 1..(Len(images) + 1)
          /\ \A i \in 1..Len(images) : images'[i] = images[i]
          /\ images'[Len(images) + 1] = e
      BY <1>2, <2>9, AppendToList DEF e
    <3>3. ASSUME NEW i \in DOMAIN images'
          PROVE  /\ images'[i].number \in 1..Len(sent)
                 /\ \A m \in 1..Len(sent) : images'[i].number = m => images'[i].bytes = Written(m)
                 /\ i > 1 => images'[i - 1].number < images'[i].number
      <4>1. CASE i \in 1..Len(images)
        <5>1. images'[i] = images[i] /\ (i > 1 => images'[i - 1] = images[i - 1])
          <6>1. i > 1 => i - 1 \in 1..Len(images)
            BY <3>2, <4>1
          <6>2. QED
            BY <3>2, <4>1, <6>1
        <5>2. QED
          BY <2>1, <3>2, <4>1, <5>1 DEF ImagesHold
      <4>2. CASE i = Len(images) + 1
        <5>1. images'[i] = e
          BY <3>2, <4>2
        <5>2. i > 1 => images'[i - 1].number < g
          <6>1. SUFFICES ASSUME i > 1
                         PROVE  images'[i - 1].number < g
            OBVIOUS
          <6>2. i - 1 \in 1..Len(images)
            BY <3>2, <4>2, <6>1
          <6>3. images'[i - 1] = images[i - 1] /\ images[i - 1].number \in 1..(g - 1)
            BY <1>2, <3>2, <6>2
          <6>4. QED
            BY <1>2, <6>3
        <5>3. QED
          BY <2>3, <3>1, <5>1, <5>2
      <4>3. QED
        BY <3>2, <3>3, <4>1, <4>2
    <3>4. \A m \in 1..Len(sent) : Written(m)' = Written(m)
      BY DEF Written
    <3>5. QED
      BY <3>3, <3>4 DEF ImagesHold
  <2>10. ASSUME images' = images
         PROVE  ImagesHold'
    <3>1. \A m \in 1..Len(sent) : Written(m)' = Written(m)
      BY DEF Written
    <3>2. QED
      BY <2>1, <2>10, <3>1 DEF ImagesHold
  <2>11. QED
    BY <2>7, <2>9, <2>10
<1>10. InStep' => InStep
  BY DEF InStep
<1>11. QED
  BY <1>9, <1>10 DEF ImageInv

(* Nothing is in step any more once the mode was set, nor was it ever when *)
(* the stream goes to the tape.                                            *)
LEMMA OutOfStep ==
  ASSUME ImageInv, ~InStep', UNCHANGED <<oddField, sent, images, sink>>
  PROVE  ImageInv'
BY DEF ImageInv

LEMMA ShowImages ==
  ASSUME TypesInv, TypesInv', ImageInv, Show
  PROVE  ImageInv'
<1>1. VoNext /\ sink = "screen" /\ UNCHANGED <<oddField, injecting, sent, sink>>
  BY DEF Show, pathVars
<1>2. CASE Transform
  BY <1>1, <1>2, TransformImages
<1>3. CASE BonusField
  <2>1. NextFieldBytes <= TwoFieldsBytes /\ NextFieldBytes \in Nat /\ TwoFieldsBytes \in Nat
    BY NextFields DEF TypesInv
  <2>2. Len(screen) \in Nat /\ Len(screen) >= TwoFieldsBytes
    BY <1>3 DEF TypesInv, StreamTypes, BonusField
  <2>3. Len(screen) >= NextFieldBytes
    BY <2>1, <2>2
  <2>4. /\ screen' = Drawn /\ fieldNumber' = fieldNumber + 1
        /\ images' = Append(images, Image)
        /\ UNCHANGED <<mode, changed, link>>
    BY <1>3 DEF BonusField
  <2>5. QED
    BY <1>1, <2>3, <2>4, DrawImages
<1>4. CASE LastField(TRUE) \/ LastField(FALSE)
  <2>1. /\ Len(screen) >= NextFieldBytes
        /\ screen' = Drawn /\ fieldNumber' = fieldNumber + 1
        /\ images' = images \/ images' = Append(images, Image)
        /\ UNCHANGED <<mode, changed, link>>
    BY <1>4 DEF LastField
  <2>2. QED
    BY <1>1, <2>1, DrawImages
<1>5. CASE BonusFieldFails \/ DropOutput
  BY <1>1, <1>5, OthersKeepImages DEF BonusFieldFails, DropOutput
<1>6. CASE Reconfigure
  <2>1. changed' = TRUE /\ UNCHANGED images
    BY <1>6 DEF Reconfigure
  <2>2. ~InStep'
    BY <2>1 DEF InStep
  <2>3. QED
    BY <1>1, <2>1, <2>2, OutOfStep
<1>7. QED
  BY <1>1, <1>2, <1>3, <1>4, <1>5, <1>6 DEF VoNext

LEMMA ImageStep ==
  ASSUME TypesInv, TypesInv', ImageInv, [Next]_vars
  PROVE  ImageInv'
<1>1. CASE Record
  BY <1>1, RecordImages
<1>2. CASE Show
  BY <1>2, ShowImages
<1>3. CASE Play \/ Damage
  <2>1. sink = "tape" /\ UNCHANGED <<oddField, sent, images, sink>>
    BY <1>3 DEF Play, Damage, Wear, voVars, pathVars
  <2>2. ~InStep'
    BY <2>1 DEF InStep
  <2>3. QED
    BY <2>1, <2>2, OutOfStep
<1>4. CASE Rewind \/ UNCHANGED vars
  <2>1. /\ UNCHANGED <<oddField, injecting, sent, link, sink>>
        /\ UNCHANGED <<mode, screen, fieldNumber, images, changed>>
    BY <1>4 DEF Rewind, vars, encVars, voVars, pathVars
  <2>2. QED
    BY <2>1, OthersKeepImages
<1>5. QED
  BY <1>1, <1>2, <1>3, <1>4 DEF Next

LEMMA ImageInitially ==
  ASSUME Init
  PROVE  ImageInv
<1>1. /\ oddField = 1 /\ sent = <<>> /\ link = <<>> /\ screen = <<>>
      /\ fieldNumber = 1 /\ images = <<>>
  BY DEF Init, EncInit, VoInit
<1>2. Len(<<>>) = 0 /\ DOMAIN <<>> = {}
  OBVIOUS
<1>3. StreamLength = 0 /\ Len(sent) + 1 = 1
  BY <1>1, <1>2 DEF StreamLength
<1>4. ASSUME InStep
      PROVE  StreamHolds /\ ImagesHold
  <2>1. mode \in DOMAIN FrameFormats
    BY TypesInitially, VideoAssumption DEF TypesInv, VideoInv
  <2>2. Start(1) \in Nat
    BY <2>1, StartNext
  <2>3. Start(fieldNumber) + StreamLength = Start(Len(sent) + 1)
    <3>1. Start(fieldNumber) = Start(1) /\ Start(Len(sent) + 1) = Start(1)
      BY <1>1, <1>3
    <3>2. QED
      BY <1>3, <2>2, <3>1
  <2>4. fieldNumber..Len(sent) = {}
    BY <1>1, <1>2
  <2>5. QED
    BY <1>1, <1>2, <1>3, <2>3, <2>4 DEF StreamHolds, ImagesHold
<1>5. QED
  BY <1>1, <1>2, <1>4 DEF ImageInv

(* The inductive invariant of the picture: the screen and the link hold    *)
(* the stream from the start of the field that is due.                     *)
THEOREM ImageInvariance == Spec => []ImageInv
<1>1. Init => TypesInv /\ ImageInv
  BY TypesInitially, ImageInitially
<1>2. (TypesInv /\ ImageInv) /\ [Next]_vars => (TypesInv /\ ImageInv)'
  BY TypesStep, ImageStep
<1>3. QED
  BY <1>1, <1>2, PTL DEF Spec

(* The image with number n is field n of the recording from its leader to  *)
(* its trailer, for every format with an interlace, every cut of the       *)
(* stream into buffers, and through every field that was refused on either *)
(* side: the two elements never come out of step by counting.              *)
THEOREM ImageIsOneFieldAlways == Spec => []ImageIsOneField
<1>1. TypesInv /\ ImageInv => ImageIsOneField
  <2> SUFFICES ASSUME TypesInv, ImageInv,
                      ~changed, ~injecting, \A n \in DOMAIN sent : sent[n].caps = mode,
                      NEW i \in DOMAIN images
               PROVE  /\ images[i].number \in DOMAIN sent
                      /\ images[i].bytes = EncodeField(FormatOf(mode), sent[images[i].number].data,
                                                       images[i].number % 2)
                      /\ i > 1 => images[i - 1].number < images[i].number
    BY DEF ImageIsOneField
  <2>1. DOMAIN sent = 1..Len(sent)
    BY DEF TypesInv, EncTypes
  <2>2. sink = "screen"
    <3>1. sink \in {"tape", "screen"}
      BY DEF TypesInv, PathTypes
    <3>2. images # <<>>
      OBVIOUS
    <3>3. QED
      BY <3>1, <3>2 DEF ImageInv
  <2>3. InStep
    BY <2>1, <2>2 DEF InStep
  <2>4. ImagesHold
    BY <2>3 DEF ImageInv
  <2>5. QED
    BY <2>1, <2>4 DEF ImagesHold, Written
<1>2. QED
  BY <1>1, TypesInvariance, ImageInvariance, PTL
=============================================================================

----------------------------- MODULE SearchProofs -----------------------------
(***************************************************************************)
(* The search for fields, for every format, every cut of the stream into   *)
(* buffers and every failure, and whatever is on the tape: nothing is      *)
(* assumed of the bytes, of how many of them are wrong, or of how often    *)
(* something fails.                                                        *)
(***************************************************************************)
EXTENDS VideoProofs

-----------------------------------------------------------------------------
(* The bytes of a region.  The data of a field stands within it.           *)
LEMMA DataInRegion ==
  ASSUME NEW caps \in DOMAIN FrameFormats, NEW f, f = FormatOf(caps),
         NEW k \in 1..FieldData(f)
  PROVE  ((k - 1) \div (f.key_interval - 1)) * f.key_interval + 1
            + ((k - 1) % (f.key_interval - 1)) \in 0..(f.active_size - 1)
<1> DEFINE m == f.key_interval
           c == m - 1
           a == f.active_size
           q == f.key_length - 1
           d == (k - 1) \div c
           r == (k - 1) % c
<1>1. /\ f \in FrameRows /\ m > 1 /\ a \div m = q
      /\ FieldData(f) = a - f.key_length /\ f.key_length >= 1
  <2>1. f \in FrameRows /\ FrameFormatOK(f)
    BY FrameAssumption DEF FormatOf
  <2>2. QED
    BY <2>1, RowFacts DEF FrameFormatOK
<1>2. m \in Nat \ {0} /\ c \in Nat \ {0} /\ m = c + 1 /\ a \in Nat /\ q \in Nat
  BY <1>1 DEF FrameRows
<1>3. FieldData(f) = a - q - 1
  BY <1>1, <1>2 DEF FrameRows
<1>4. k - 1 \in Nat /\ k <= a - q - 1
  BY <1>2, <1>3
<1>5. d \in Nat /\ r \in 0..(c - 1) /\ k - 1 = c * d + r
  BY <1>2, <1>4, Euclid
<1> HIDE DEF d, r, q, a, c, m
<1>6. a = m * q + (a % m) /\ a % m \in 0..(m - 1)
  <2>1. a \div m \in Nat /\ a % m \in 0..(m - 1) /\ a = m * (a \div m) + (a % m)
    BY <1>2, Euclid
  <2>2. a \div m = q
    BY <1>1 DEF a, m, q
  <2>3. QED
    BY <2>1, <2>2
<1>7. d <= q
  <2> SUFFICES ASSUME d >= q + 1
               PROVE  FALSE
    BY <1>2, <1>5
  <2>1. PICK e \in Nat : d = q + 1 + e
    <3>1. d - q - 1 \in Nat /\ d = q + 1 + (d - q - 1)
      BY <1>2, <1>5
    <3>2. QED
      BY <3>1
  <2>2. c * d = c * q + c + c * e /\ c * e \in Nat /\ c * q \in Nat
    BY <1>2, <2>1
  <2>3. m * q = c * q + q
    BY <1>2
  <2>4. PICK u \in 0..(m - 1) : a = c * q + q + u
    BY <1>6, <2>3
  <2>5. k - 1 <= c * q + u - 2 /\ u <= c
    BY <1>2, <1>4, <2>2, <2>4
  <2>6. k - 1 >= c * q + c
    <3>1. PICK x \in Nat, y \in Nat : x = c * q /\ y = c * e
      BY <2>2
    <3>2. k - 1 = x + c + y + r /\ r >= 0 /\ r \in Int
      BY <1>5, <2>2, <3>1
    <3>3. QED
      BY <1>2, <3>1, <3>2
  <2>7. PICK x \in Nat : x = c * q
    BY <2>2
  <2>8. QED
    BY <1>2, <1>4, <2>4, <2>5, <2>6, <2>7
<1>8. d * m + 1 + r = k + d
  <2>1. d * m = c * d + d
    BY <1>2, <1>5
  <2>2. PICK x \in Int : x = c * d
    BY <1>2, <1>5
  <2>3. QED
    BY <1>4, <1>5, <2>1, <2>2
<1>9. k + d \in 0..(a - 1)
  BY <1>2, <1>4, <1>5, <1>7
<1>10. QED
  BY <1>8, <1>9 DEF d, r, c, m, a

(* Its key bytes do, too.                                                  *)
LEMMA KeyInRegion ==
  ASSUME NEW caps \in DOMAIN FrameFormats, NEW f, f = FormatOf(caps),
         NEW j \in 1..f.key_length
  PROVE  (j - 1) * f.key_interval \in 0..(f.active_size - 1)
<1> DEFINE m == f.key_interval
           q == f.key_length - 1
<1>1. m \in Nat /\ q \in Nat /\ j - 1 \in 0..q /\ q * m < f.active_size /\ f.active_size \in Nat
  BY RowFacts DEF FrameRows
<1> HIDE DEF m, q
<1>2. PICK i \in 0..q : i = j - 1
  BY <1>1
<1>3. i * m \in Nat /\ (q - i) * m \in Nat /\ q * m = i * m + (q - i) * m /\ q * m \in Nat
  BY <1>1, <1>2
<1>4. PICK x \in Nat, y \in Nat, z \in Nat : x = i * m /\ y = (q - i) * m /\ z = q * m
  BY <1>3
<1>5. x \in 0..(f.active_size - 1)
  BY <1>1, <1>3, <1>4
<1>6. QED
  BY <1>2, <1>4, <1>5 DEF m

(* So two places with the same bytes behind them look the same.            *)
SameBytes(f, a, p, b, q) == \A i \in 0..(f.active_size - 1) : a[p + i] = b[q + i]

LEMMA SameRegion ==
  ASSUME NEW caps \in DOMAIN FrameFormats,
         NEW a, NEW b, NEW p \in Int, NEW q \in Int, SameBytes(FormatOf(caps), a, p, b, q)
  PROVE  /\ Correlate(FormatOf(caps), a, p) = Correlate(FormatOf(caps), b, q)
         /\ DecodeField(FormatOf(caps), a, p) = DecodeField(FormatOf(caps), b, q)
<1> DEFINE f == FormatOf(caps)
<1> f = FormatOf(caps)
  OBVIOUS
<1> HIDE DEF f
<1>0. \A i \in 0..(f.active_size - 1) : a[p + i] = b[q + i]
  BY DEF SameBytes
<1>1. \A j \in 1..f.key_length :
        a[p + (j - 1) * f.key_interval] = b[q + (j - 1) * f.key_interval]
  BY <1>0, KeyInRegion
<1>2. {j \in 1..f.key_length : a[p + (j - 1) * f.key_interval].byte = Key(j)}
        = {j \in 1..f.key_length : b[q + (j - 1) * f.key_interval].byte = Key(j)}
  BY <1>1
<1>3. Correlate(f, a, p) = Correlate(f, b, q)
  BY <1>2, Zenon DEF Correlate
<1> DEFINE chunk == f.key_interval - 1
           At(k) == ((k - 1) \div chunk) * f.key_interval
           In(k) == (k - 1) % chunk
<1>4. ASSUME NEW k \in 1..FieldData(f)
      PROVE  a[p + At(k) + 1 + In(k)] = b[q + At(k) + 1 + In(k)]
  <2>1. At(k) + 1 + In(k) \in 0..(f.active_size - 1)
    BY DataInRegion
  <2>2. At(k) \in Int /\ In(k) \in Int
    <3>1. f.key_interval \in Nat /\ chunk \in Nat \ {0} /\ k - 1 \in Nat
      BY RowFacts DEF FrameRows
    <3>2. PICK c \in Nat \ {0}, n \in Nat : c = chunk /\ n = k - 1
      BY <3>1
    <3>3. n \div c \in Nat /\ n % c \in 0..(c - 1)
      BY <3>2, Euclid, Zenon
    <3>4. QED
      BY <3>1, <3>2, <3>3
  <2> HIDE DEF At, In
  <2>3. PICK i \in 0..(f.active_size - 1) : i = At(k) + 1 + In(k)
    BY <2>1
  <2>4. p + At(k) + 1 + In(k) = p + i /\ q + At(k) + 1 + In(k) = q + i
    BY <2>2, <2>3
  <2>5. a[p + i] = b[q + i]
    BY <1>0, <2>3, Zenon
  <2>6. QED
    BY <2>4, <2>5, Zenon
<1>5. [k \in 1..FieldData(f) |-> a[p + At(k) + 1 + In(k)].byte]
        = [k \in 1..FieldData(f) |-> b[q + At(k) + 1 + In(k)].byte]
  <2> HIDE DEF At, In
  <2>1. QED
    BY <1>4
<1>6. DecodeField(f, a, p) = DecodeField(f, b, q)
  BY <1>5, Zenon DEF DecodeField
<1>7. QED
  BY <1>3, <1>6

-----------------------------------------------------------------------------
(* The invariant: the adapter holds the stream from the first byte on that *)
(* was not flushed.                                                        *)
Fates == [caps : DOMAIN FrameFormats, taken : BOOLEAN]

Joined ==
  /\ IsList(adapter)
  /\ Len(stream) = Len(fate) + Len(adapter)
  /\ \A i \in 1..Len(adapter) : adapter[i] = stream[Len(fate) + i]

NothingIsMissed ==
  \A q \in 1..Len(fate) :
    LET f == FormatOf(fate[q].caps)
    IN  ~fate[q].taken => /\ q + f.active_size - 1 <= Len(stream)
                          /\ Correlate(f, stream, q) < Threshold(f)

OutputsFollow ==
  \A i \in DOMAIN out :
    LET f == FormatOf(out[i].caps)
        p == out[i].at
    IN  /\ p + f.active_size - 1 <= Len(fate)
        /\ Correlate(f, stream, p) >= Threshold(f)
        /\ out[i].data = DecodeField(f, stream, p)
        /\ \A j \in 1..(i - 1) :
             out[j].at + FormatOf(out[j].caps).active_size <= p

SearchInv ==
  /\ IsList(stream)
  /\ fate \in Seq(Fates)
  /\ IsList(out)
  /\ \A i \in DOMAIN out : out[i].caps \in DOMAIN FrameFormats /\ out[i].at \in Nat \ {0}
  /\ Joined
  /\ NothingIsMissed
  /\ OutputsFollow

LEMMA ListLen ==
  ASSUME NEW s, IsList(s)
  PROVE  Len(s) \in Nat /\ DOMAIN s = 1..Len(s)
<1> DEFINE R == Range(s)
<1>1. s \in Seq(R)
  BY DEF IsList
<1> HIDE DEF R
<1>2. QED
  BY <1>1

(* A place of the adapter looks the same in the stream.                    *)
LEMMA PlaceInStream ==
  ASSUME SearchInv, NEW caps \in DOMAIN FrameFormats,
         NEW p \in Nat \ {0}, p - 1 + FormatOf(caps).active_size <= Len(adapter)
  PROVE  /\ Correlate(FormatOf(caps), stream, Len(fate) + p) = Correlate(FormatOf(caps), adapter, p)
         /\ DecodeField(FormatOf(caps), stream, Len(fate) + p)
              = DecodeField(FormatOf(caps), adapter, p)
         /\ Len(fate) + p + FormatOf(caps).active_size - 1 <= Len(stream)
<1> DEFINE n == FormatOf(caps).active_size
           r == Len(fate) + p
<1>1. /\ Len(fate) \in Nat /\ Len(adapter) \in Nat /\ n \in Nat
      /\ Len(stream) = Len(fate) + Len(adapter)
  BY ListLen, RowFacts DEF SearchInv, Joined, FrameRows
<1> HIDE DEF n
<1>2. ASSUME NEW i \in 0..(n - 1)
      PROVE  stream[r + i] = adapter[p + i]
  <2>1. p + i \in 1..Len(adapter) /\ Len(fate) + (p + i) = r + i
    BY <1>1 DEF n
  <2>2. QED
    BY <2>1 DEF SearchInv, Joined
<1>3. r \in Int /\ p \in Int
  BY <1>1
<1>4. r + n - 1 <= Len(stream)
  BY <1>1 DEF n
<1> HIDE DEF r
<1>5. SameBytes(FormatOf(caps), stream, r, adapter, p)
  BY <1>2 DEF SameBytes, n
<1>6. /\ Correlate(FormatOf(caps), stream, r) = Correlate(FormatOf(caps), adapter, p)
      /\ DecodeField(FormatOf(caps), stream, r) = DecodeField(FormatOf(caps), adapter, p)
  BY <1>3, <1>5, SameRegion
<1>7. QED
  BY <1>4, <1>6, Zenon DEF r, n

(* Nor does what was seen of the stream change with what comes behind it.  *)
LEMMA StreamGrows ==
  ASSUME NEW s, NEW t, Len(s) \in Nat, \A i \in 1..Len(s) : t[i] = s[i],
         NEW caps \in DOMAIN FrameFormats,
         NEW p \in Nat \ {0}, p + FormatOf(caps).active_size - 1 <= Len(s)
  PROVE  /\ Correlate(FormatOf(caps), t, p) = Correlate(FormatOf(caps), s, p)
         /\ DecodeField(FormatOf(caps), t, p) = DecodeField(FormatOf(caps), s, p)
<1> DEFINE n == FormatOf(caps).active_size
<1>1. n \in Nat
  BY RowFacts DEF FrameRows
<1>2. ASSUME NEW i \in 0..(n - 1)
      PROVE  t[p + i] = s[p + i]
  <2>1. p + i \in 1..Len(s)
    BY <1>1
  <2>2. QED
    BY <2>1
<1>3. p \in Int
  OBVIOUS
<1>4. SameBytes(FormatOf(caps), t, p, s, p)
  BY <1>2 DEF SameBytes
<1>5. QED
  BY <1>3, <1>4, SameRegion

-----------------------------------------------------------------------------
(* A buffer is put into the adapter.                                       *)
LEMMA BufferJoins ==
  ASSUME TypesInv, SearchInv, DecChain
  PROVE  SearchInv'
<1>1. PICK n \in NextBuffers :
        /\ adapter' = adapter \o SubSeq(link, 1, n)
        /\ stream' = stream \o SubSeq(link, 1, n)
  BY DEF DecChain
<1>2. link # <<>> /\ UNCHANGED <<out, fate>>
  BY DEF DecChain
<1> DEFINE S == Bytes(Len(sent))
           u == SubSeq(link, 1, n)
<1>3. link \in Seq(S)
  BY DEF TypesInv, StreamTypes
<1>4. n \in 1..Len(link)
  BY <1>2, BufferFits
<1>5. u \in Seq(S) /\ Len(u) \in Nat
  <2> HIDE DEF S
  <2>1. n \in Nat /\ n <= Len(link)
    BY <1>3, <1>4
  <2>2. u \in Seq(S)
    BY <1>3, <2>1, PartsTyped, Zenon
  <2> HIDE DEF u
  <2>3. QED
    BY <2>2
<1> HIDE DEF S, u
<1>6. /\ IsList(stream) /\ IsList(adapter) /\ Len(stream) \in Nat /\ Len(adapter) \in Nat
      /\ Len(fate) \in Nat /\ Len(stream) = Len(fate) + Len(adapter)
      /\ \A i \in 1..Len(adapter) : adapter[i] = stream[Len(fate) + i]
  BY ListLen DEF SearchInv, Joined
<1>7. /\ IsList(stream') /\ Len(stream') = Len(stream) + Len(u)
      /\ IsList(adapter') /\ Len(adapter') = Len(adapter) + Len(u)
  BY <1>1, <1>5, <1>6, JoinedList DEF u
<1>8. ASSUME NEW s, IsList(s)
      PROVE  \A i \in 1..(Len(s) + Len(u)) :
               (s \o u)[i] = IF i <= Len(s) THEN s[i] ELSE u[i - Len(s)]
  <2> DEFINE T == Range(s) \union S
  <2>1. s \in Seq(Range(s)) /\ Range(s) \subseteq T /\ S \subseteq T
    BY <1>8 DEF IsList
  <2> HIDE DEF T
  <2>2. s \in Seq(T) /\ u \in Seq(T)
    BY <1>5, <2>1, SeqWidens
  <2>3. QED
    BY <2>2, ConcatProperties, Zenon
<1>9. \A i \in 1..Len(stream) : stream'[i] = stream[i]
  BY <1>1, <1>5, <1>6, <1>8 DEF u
<1>10. ASSUME NEW c \in DOMAIN FrameFormats, NEW p \in Nat \ {0},
               p + FormatOf(c).active_size - 1 <= Len(stream)
      PROVE  /\ Correlate(FormatOf(c), stream', p) = Correlate(FormatOf(c), stream, p)
             /\ DecodeField(FormatOf(c), stream', p) = DecodeField(FormatOf(c), stream, p)
  <2>1. PICK a, b : a = stream /\ b = stream'
    OBVIOUS
  <2>2. Len(a) \in Nat /\ \A i \in 1..Len(a) : b[i] = a[i]
    BY <1>6, <1>9, <2>1
  <2>3. p + FormatOf(c).active_size - 1 <= Len(a)
    BY <1>10, <2>1
  <2>4. /\ Correlate(FormatOf(c), b, p) = Correlate(FormatOf(c), a, p)
        /\ DecodeField(FormatOf(c), b, p) = DecodeField(FormatOf(c), a, p)
    BY <2>2, <2>3, StreamGrows, Zenon
  <2>5. QED
    BY <2>1, <2>4
<1>11. Joined'
  <2>1. Len(stream') = Len(fate') + Len(adapter')
    BY <1>2, <1>5, <1>6, <1>7
  <2>2. ASSUME NEW i \in 1..Len(adapter')
        PROVE  adapter'[i] = stream'[Len(fate') + i]
    <3>1. i \in 1..(Len(adapter) + Len(u)) /\ Len(fate) + i \in 1..(Len(stream) + Len(u))
      BY <1>5, <1>6, <1>7
    <3>2. CASE i <= Len(adapter)
      <4>1. Len(fate) + i <= Len(stream) /\ i \in 1..Len(adapter)
        BY <1>6, <3>1, <3>2
      <4>2. adapter'[i] = adapter[i]
        BY <1>1, <1>6, <1>8, <3>1, <3>2 DEF u
      <4>3. stream'[Len(fate) + i] = stream[Len(fate) + i]
        BY <1>6, <1>9, <3>1, <4>1
      <4>4. QED
        BY <1>2, <1>6, <4>1, <4>2, <4>3
    <3>3. CASE ~(i <= Len(adapter))
      <4>1. ~(Len(fate) + i <= Len(stream)) /\ Len(fate) + i - Len(stream) = i - Len(adapter)
        BY <1>6, <3>1, <3>3
      <4>2. adapter'[i] = u[i - Len(adapter)]
        BY <1>1, <1>6, <1>8, <3>1, <3>3 DEF u
      <4>3. stream'[Len(fate) + i] = u[i - Len(adapter)]
        <5>1. (stream \o u)[Len(fate) + i]
                = IF Len(fate) + i <= Len(stream) THEN stream[Len(fate) + i]
                  ELSE u[Len(fate) + i - Len(stream)]
          <6>1. PICK k : k = Len(fate) + i
            OBVIOUS
          <6>2. k \in 1..(Len(stream) + Len(u))
            BY <3>1, <6>1
          <6>3. (stream \o u)[k] = IF k <= Len(stream) THEN stream[k] ELSE u[k - Len(stream)]
            BY <1>6, <1>8, <6>2
          <6>4. QED
            BY <6>1, <6>3
        <5>2. stream' = stream \o u
          BY <1>1 DEF u
        <5>3. QED
          BY <4>1, <5>1, <5>2
      <4>4. QED
        BY <1>2, <4>2, <4>3
    <3>4. QED
      BY <3>2, <3>3
  <2>3. QED
    BY <1>7, <2>1, <2>2 DEF Joined
<1>12. NothingIsMissed'
  <2> SUFFICES ASSUME NEW q \in 1..Len(fate), ~fate[q].taken
               PROVE  LET f == FormatOf(fate[q].caps)
                      IN  /\ q + f.active_size - 1 <= Len(stream')
                          /\ Correlate(f, stream', q) < Threshold(f)
    BY <1>2 DEF NothingIsMissed
  <2>1. PICK f : f = FormatOf(fate[q].caps)
    OBVIOUS
  <2>2. fate[q].caps \in DOMAIN FrameFormats /\ q \in Nat \ {0}
    <3>1. fate \in Seq(Fates)
      BY DEF SearchInv
    <3>2. fate[q] \in Fates
      BY <3>1, ElementOfSeq
    <3>3. QED
      BY <3>2 DEF Fates
  <2>3. q + f.active_size - 1 <= Len(stream) /\ Correlate(f, stream, q) < Threshold(f)
    BY <2>1 DEF SearchInv, NothingIsMissed
  <2>4. Correlate(f, stream', q) = Correlate(f, stream, q)
    BY <1>10, <2>1, <2>2, <2>3
  <2>5. q + f.active_size - 1 <= Len(stream')
    <3>1. f.active_size \in Nat
      BY <2>1, <2>2, RowFacts DEF FrameRows
    <3>2. QED
      BY <1>5, <1>6, <1>7, <2>3, <3>1
  <2>6. QED
    BY <2>1, <2>3, <2>4, <2>5
<1>13. OutputsFollow'
  <2> SUFFICES ASSUME NEW i \in DOMAIN out
               PROVE  LET f == FormatOf(out[i].caps)
                          p == out[i].at
                      IN  /\ p + f.active_size - 1 <= Len(fate)
                          /\ Correlate(f, stream', p) >= Threshold(f)
                          /\ out[i].data = DecodeField(f, stream', p)
                          /\ \A j \in 1..(i - 1) :
                               out[j].at + FormatOf(out[j].caps).active_size <= p
    BY <1>2 DEF OutputsFollow
  <2>1. PICK f, p : f = FormatOf(out[i].caps) /\ p = out[i].at
    OBVIOUS
  <2>2. out[i].caps \in DOMAIN FrameFormats /\ p \in Nat \ {0}
    BY <2>1 DEF SearchInv
  <2>3. /\ p + f.active_size - 1 <= Len(fate)
        /\ Correlate(f, stream, p) >= Threshold(f)
        /\ out[i].data = DecodeField(f, stream, p)
        /\ \A j \in 1..(i - 1) : out[j].at + FormatOf(out[j].caps).active_size <= p
    BY <2>1 DEF SearchInv, OutputsFollow
  <2>4. p + f.active_size - 1 <= Len(stream)
    <3>1. f.active_size \in Nat
      BY <2>1, <2>2, RowFacts DEF FrameRows
    <3>2. QED
      BY <1>6, <2>2, <2>3, <3>1
  <2>5. /\ Correlate(f, stream', p) = Correlate(f, stream, p)
        /\ DecodeField(f, stream', p) = DecodeField(f, stream, p)
    BY <1>10, <2>1, <2>2, <2>4
  <2>6. QED
    BY <2>1, <2>3, <2>5
<1>14. QED
  BY <1>2, <1>7, <1>11, <1>12, <1>13 DEF SearchInv

-----------------------------------------------------------------------------
(* Bytes are flushed: what becomes of each is noted behind the others.     *)
Marks(n, e) == [i \in 1..n |-> e]

LEMMA FateGrows ==
  ASSUME NEW s \in Seq(Fates), NEW n \in Nat, NEW e \in Fates
  PROVE  /\ s \o Marks(n, e) \in Seq(Fates) /\ Len(s) \in Nat
         /\ Len(s \o Marks(n, e)) = Len(s) + n
         /\ \A i \in 1..Len(s) : (s \o Marks(n, e))[i] = s[i]
         /\ \A i \in 1..n : (s \o Marks(n, e))[Len(s) + i] = e
<1> DEFINE w == Marks(n, e)
           g == s \o w
<1>1. w \in Seq(Fates) /\ Len(w) = n
  <2>1. w \in [1..n -> Fates]
    BY DEF Marks
  <2> HIDE DEF w
  <2>2. QED
    BY <2>1, FunctionIsSeq, Zenon
<1>2. \A i \in 1..n : w[i] = e
  BY DEF Marks
<1> HIDE DEF w
<1>3. /\ g \in Seq(Fates) /\ Len(g) = Len(s) + Len(w)
      /\ \A i \in 1..(Len(s) + Len(w)) : g[i] = IF i <= Len(s) THEN s[i] ELSE w[i - Len(s)]
  BY <1>1, ConcatProperties, Zenon
<1> HIDE DEF g
<1>4. Len(s) \in Nat
  OBVIOUS
<1>5. \A i \in 1..Len(s) : g[i] = s[i]
  BY <1>1, <1>3, <1>4
<1>6. ASSUME NEW i \in 1..n
      PROVE  g[Len(s) + i] = e
  <2>1. PICK k : k = Len(s) + i
    OBVIOUS
  <2>2. k \in 1..(Len(s) + Len(w)) /\ ~(k <= Len(s)) /\ k - Len(s) = i
    BY <1>1, <1>4, <2>1
  <2>3. g[k] = w[i]
    BY <1>3, <2>2
  <2>4. QED
    BY <1>2, <2>1, <2>3
<1>7. QED
  BY <1>1, <1>3, <1>4, <1>5, <1>6 DEF g, w

(* The first n bytes of the adapter are flushed, each of them as part of a *)
(* field or passed over at a place that has too little of the key.         *)
LEMMA Flushed ==
  ASSUME SearchInv, decCaps \in DOMAIN FrameFormats, NEW n \in 0..Len(adapter),
         stream' = stream, adapter' = After(n),
         fate' \in Seq(Fates), Len(fate') = Len(fate) + n,
         \A i \in 1..Len(fate) : fate'[i] = fate[i],
         \A i \in 1..n : \/ fate'[Len(fate) + i].taken
                         \/ /\ fate'[Len(fate) + i].caps = decCaps
                            /\ i - 1 + DecFormat.active_size <= Len(adapter)
                            /\ Correlate(DecFormat, adapter, i) < Threshold(DecFormat)
  PROVE  IsList(stream') /\ fate' \in Seq(Fates) /\ Joined' /\ NothingIsMissed'
<1>1. /\ IsList(adapter) /\ Len(adapter) \in Nat /\ Len(fate) \in Nat
      /\ Len(stream) = Len(fate) + Len(adapter)
      /\ \A i \in 1..Len(adapter) : adapter[i] = stream[Len(fate) + i]
  BY ListLen DEF SearchInv, Joined
<1>2. IsList(stream')
  BY DEF SearchInv
<1>3. Joined'
  <2>1. IsList(adapter') /\ Len(adapter') = Len(adapter) - n
    BY <1>1, RestOfList DEF After
  <2>2. \A i \in 1..(Len(adapter) - n) : adapter'[i] = adapter[n + i]
    <3> DEFINE R == Range(adapter)
    <3>1. adapter \in Seq(R) /\ n \in Nat
      BY <1>1 DEF IsList
    <3> HIDE DEF R
    <3>2. QED
      BY <3>1, PartsTyped DEF After
  <2>3. Len(stream') = Len(fate') + Len(adapter')
    BY <1>1, <2>1
  <2>4. ASSUME NEW i \in 1..Len(adapter')
        PROVE  adapter'[i] = stream'[Len(fate') + i]
    <3>1. i \in 1..(Len(adapter) - n) /\ n + i \in 1..Len(adapter)
          /\ Len(fate) + (n + i) = Len(fate') + i
      BY <1>1, <2>1
    <3>2. adapter'[i] = adapter[n + i]
      BY <2>2, <3>1
    <3>3. PICK k \in 1..Len(adapter) : k = n + i
      BY <3>1
    <3>4. adapter[k] = stream[Len(fate) + k]
      BY <1>1, <3>3
    <3>5. QED
      BY <3>1, <3>2, <3>3, <3>4
  <2>5. QED
    BY <2>1, <2>3, <2>4 DEF Joined
<1>4. ASSUME NEW q \in 1..Len(fate'), ~fate'[q].taken
      PROVE  /\ q + FormatOf(fate'[q].caps).active_size - 1 <= Len(stream)
             /\ Correlate(FormatOf(fate'[q].caps), stream, q) < Threshold(FormatOf(fate'[q].caps))
  <2>1. CASE q <= Len(fate)
    <3>1. q \in 1..Len(fate) /\ fate'[q] = fate[q]
      BY <1>1, <2>1
    <3>2. QED
      BY <1>4, <3>1 DEF SearchInv, NothingIsMissed
  <2>2. CASE q > Len(fate)
    <3>1. PICK i \in 1..n : q = Len(fate) + i
      <4>1. q - Len(fate) \in 1..n /\ q = Len(fate) + (q - Len(fate))
        BY <1>1, <2>2
      <4>2. QED
        BY <4>1
    <3>2. /\ fate'[q].caps = decCaps
          /\ i - 1 + DecFormat.active_size <= Len(adapter)
          /\ Correlate(DecFormat, adapter, i) < Threshold(DecFormat)
      BY <1>4, <3>1
    <3>3. i \in Nat \ {0}
      BY <3>1
    <3>4. /\ Correlate(DecFormat, stream, Len(fate) + i) = Correlate(DecFormat, adapter, i)
          /\ Len(fate) + i + DecFormat.active_size - 1 <= Len(stream)
      BY <3>2, <3>3, PlaceInStream, Zenon DEF DecFormat
    <3>5. QED
      BY <3>1, <3>2, <3>4 DEF DecFormat
  <2>3. QED
    BY <1>1, <2>1, <2>2
<1>5. NothingIsMissed'
  BY <1>4 DEF NothingIsMissed
<1>6. QED
  BY <1>2, <1>3, <1>5

(* What was passed on before stays where it is in the stream.              *)
LEMMA OutputsStay ==
  ASSUME SearchInv, UNCHANGED <<out, stream>>,
         Len(fate') \in Nat, Len(fate) <= Len(fate')
  PROVE  OutputsFollow'
<1>1. Len(fate) \in Nat
  BY DEF SearchInv
<1>2. ASSUME NEW i \in DOMAIN out
      PROVE  out[i].at + FormatOf(out[i].caps).active_size - 1 <= Len(fate')
  <2>1. out[i].caps \in DOMAIN FrameFormats /\ out[i].at \in Nat
    BY DEF SearchInv
  <2>2. FormatOf(out[i].caps).active_size \in Nat
    BY <2>1, RowFacts DEF FrameRows
  <2>3. out[i].at + FormatOf(out[i].caps).active_size - 1 <= Len(fate)
    BY DEF SearchInv, OutputsFollow
  <2>4. QED
    BY <1>1, <2>1, <2>2, <2>3
<1>3. QED
  BY <1>2 DEF SearchInv, OutputsFollow

(* No field begins before the first place with enough of the key.          *)
LEMMA PassedOver ==
  ASSUME TypesInv, inChain, NEW i \in Places(DecFormat), i \notin Keyed(DecFormat)
  PROVE  /\ i - 1 + DecFormat.active_size <= Len(adapter)
         /\ Correlate(DecFormat, adapter, i) < Threshold(DecFormat)
<1>1. decCaps \in DOMAIN FrameFormats
  BY DEF TypesInv, DecTypes
<1>2. DecFormat.active_size \in Nat /\ Threshold(DecFormat) \in Nat
  BY <1>1, RowFacts DEF DecFormat, FrameRows
<1>3. Len(adapter) \in Nat
  BY DEF TypesInv, StreamTypes
<1>4. i - 1 + DecFormat.active_size <= Len(adapter)
  BY <1>2, <1>3 DEF Places
<1>5. Correlate(DecFormat, adapter, i) \in Nat
  BY <1>1, Counts DEF DecFormat
<1>6. QED
  BY <1>2, <1>4, <1>5 DEF Keyed

LEMMA PassedBefore ==
  ASSUME TypesInv, inChain, Keyed(DecFormat) # {},
         NEW p, p = Min(Keyed(DecFormat)), NEW i \in 1..(p - 1)
  PROVE  /\ i - 1 + DecFormat.active_size <= Len(adapter)
         /\ Correlate(DecFormat, adapter, i) < Threshold(DecFormat)
<1>1. /\ decCaps \in DOMAIN FrameFormats
      /\ p \in Nat /\ 1 <= p /\ p - 1 + DecFormat.active_size <= Len(adapter)
      /\ DecFormat.active_size \in Nat /\ Len(adapter) \in Nat
  BY Found
<1>2. i \in Places(DecFormat)
  BY <1>1 DEF Places
<1>3. Keyed(DecFormat) \in SUBSET Nat
  BY <1>1 DEF Keyed, Places
<1>4. i \notin Keyed(DecFormat)
  <2>1. \A y \in Keyed(DecFormat) : p <= y
    BY <1>3, MinExists
  <2>2. QED
    BY <1>1, <2>1
<1>5. QED
  BY <1>2, <1>4, PassedOver

(* A field is found, and what is before it is flushed.                     *)
LEMMA FlushedBefore ==
  ASSUME TypesInv, SearchInv, inChain, Keyed(DecFormat) # {},
         NEW p, p = Min(Keyed(DecFormat)),
         adapter' = After(p - 1), fate' = fate \o Over(p - 1), UNCHANGED <<out, stream>>
  PROVE  SearchInv'
<1>1. /\ decCaps \in DOMAIN FrameFormats
      /\ p \in Nat /\ 1 <= p /\ p - 1 + DecFormat.active_size <= Len(adapter)
      /\ DecFormat.active_size \in Nat /\ Len(adapter) \in Nat
  BY Found
<1> DEFINE n == p - 1
<1>2. n \in Nat /\ n \in 0..Len(adapter)
  BY <1>1
<1>3. fate \in Seq(Fates)
  BY DEF SearchInv
<1>4. fate' = fate \o Marks(n, [caps |-> decCaps, taken |-> FALSE])
  BY DEF Over, Marks
<1>5. \A i \in 1..n : /\ i - 1 + DecFormat.active_size <= Len(adapter)
                      /\ Correlate(DecFormat, adapter, i) < Threshold(DecFormat)
  BY PassedBefore
<1>6. adapter' = After(n)
  OBVIOUS
<1> HIDE DEF n
<1>7. /\ fate' \in Seq(Fates) /\ Len(fate) \in Nat /\ Len(fate') = Len(fate) + n
      /\ \A i \in 1..Len(fate) : fate'[i] = fate[i]
      /\ \A i \in 1..n : fate'[Len(fate) + i].caps = decCaps
  <2>1. PICK e \in Fates : e = [caps |-> decCaps, taken |-> FALSE]
    BY <1>1 DEF Fates
  <2>2. e.caps = decCaps
    BY <2>1
  <2>3. fate' = fate \o Marks(n, e)
    BY <1>4, <2>1
  <2>4. /\ fate \o Marks(n, e) \in Seq(Fates) /\ Len(fate) \in Nat
        /\ Len(fate \o Marks(n, e)) = Len(fate) + n
        /\ \A i \in 1..Len(fate) : (fate \o Marks(n, e))[i] = fate[i]
        /\ \A i \in 1..n : (fate \o Marks(n, e))[Len(fate) + i] = e
    <3>1. fate \in Seq(Fates) /\ n \in Nat
      BY <1>2, <1>3
    <3>2. QED
      BY <2>1, <3>1, FateGrows, Zenon
  <2>5. QED
    BY <2>3, <2>4, <2>2, Zenon
<1>8. IsList(stream') /\ fate' \in Seq(Fates) /\ Joined' /\ NothingIsMissed'
  BY <1>1, <1>2, <1>5, <1>6, <1>7, Flushed
<1>9. OutputsFollow'
  <2>1. Len(fate') \in Nat /\ Len(fate) <= Len(fate')
    BY <1>2, <1>7
  <2>2. QED
    BY <2>1, OutputsStay
<1>10. QED
  BY <1>8, <1>9 DEF SearchInv

(* A field is found, and is flushed with what is before it.                *)
LEMMA FlushedWith ==
  ASSUME TypesInv, SearchInv, inChain, Keyed(DecFormat) # {},
         NEW p, p = Min(Keyed(DecFormat)),
         adapter' = After(p - 1 + DecFormat.active_size), TakeField(p), stream' = stream
  PROVE  /\ IsList(stream') /\ fate' \in Seq(Fates) /\ Joined' /\ NothingIsMissed'
         /\ Len(fate) \in Nat /\ Len(fate') = Len(fate) + (p - 1 + DecFormat.active_size)
<1>1. /\ decCaps \in DOMAIN FrameFormats
      /\ p \in Nat /\ 1 <= p /\ p - 1 + DecFormat.active_size <= Len(adapter)
      /\ DecFormat.active_size \in Nat /\ Len(adapter) \in Nat
  BY Found
<1> DEFINE k == p - 1
           t == DecFormat.active_size
           before == fate \o Marks(k, [caps |-> decCaps, taken |-> FALSE])
<1>2. k \in Nat /\ t \in Nat /\ k + t \in 0..Len(adapter)
  BY <1>1
<1>3. fate \in Seq(Fates)
  BY DEF SearchInv
<1>4. fate' = before \o Marks(t, [caps |-> decCaps, taken |-> TRUE])
  BY DEF TakeField, Over, Taken, Marks
<1>5. \A i \in 1..k : /\ i - 1 + DecFormat.active_size <= Len(adapter)
                      /\ Correlate(DecFormat, adapter, i) < Threshold(DecFormat)
  BY PassedBefore
<1>6. adapter' = After(k + t)
  OBVIOUS
<1>7. before = fate \o Marks(k, [caps |-> decCaps, taken |-> FALSE])
  OBVIOUS
<1> HIDE DEF k, t, before
<1>8. /\ before \in Seq(Fates) /\ Len(fate) \in Nat /\ Len(before) = Len(fate) + k
      /\ \A i \in 1..Len(fate) : before[i] = fate[i]
      /\ \A i \in 1..k : before[Len(fate) + i].caps = decCaps
  <2>1. PICK e \in Fates : e = [caps |-> decCaps, taken |-> FALSE]
    BY <1>1 DEF Fates
  <2>2. e.caps = decCaps
    BY <2>1
  <2>3. before = fate \o Marks(k, e)
    BY <1>7, <2>1
  <2>4. /\ fate \o Marks(k, e) \in Seq(Fates) /\ Len(fate) \in Nat
        /\ Len(fate \o Marks(k, e)) = Len(fate) + k
        /\ \A i \in 1..Len(fate) : (fate \o Marks(k, e))[i] = fate[i]
        /\ \A i \in 1..k : (fate \o Marks(k, e))[Len(fate) + i] = e
    <3>1. fate \in Seq(Fates) /\ k \in Nat
      BY <1>2, <1>3
    <3>2. QED
      BY <2>1, <3>1, FateGrows, Zenon
  <2>5. QED
    BY <2>3, <2>4, <2>2, Zenon
<1>9. /\ fate' \in Seq(Fates) /\ Len(fate') = Len(before) + t
      /\ \A i \in 1..Len(before) : fate'[i] = before[i]
      /\ \A i \in 1..t : fate'[Len(before) + i].taken
  <2>1. PICK e \in Fates : e = [caps |-> decCaps, taken |-> TRUE]
    BY <1>1 DEF Fates
  <2>2. e.taken
    BY <2>1
  <2>3. fate' = before \o Marks(t, e)
    BY <1>4, <2>1
  <2>4. /\ before \o Marks(t, e) \in Seq(Fates) /\ Len(before) \in Nat
        /\ Len(before \o Marks(t, e)) = Len(before) + t
        /\ \A i \in 1..Len(before) : (before \o Marks(t, e))[i] = before[i]
        /\ \A i \in 1..t : (before \o Marks(t, e))[Len(before) + i] = e
    <3>1. before \in Seq(Fates) /\ t \in Nat
      BY <1>2, <1>8
    <3>2. QED
      BY <2>1, <3>1, FateGrows, Zenon
  <2>5. QED
    BY <2>3, <2>4, <2>2, Zenon
<1>10. Len(fate') = Len(fate) + (k + t)
  BY <1>2, <1>8, <1>9
<1>11. \A i \in 1..Len(fate) : fate'[i] = fate[i]
  BY <1>2, <1>8, <1>9
<1>12. ASSUME NEW i \in 1..(k + t)
       PROVE  \/ fate'[Len(fate) + i].taken
              \/ /\ fate'[Len(fate) + i].caps = decCaps
                 /\ i - 1 + DecFormat.active_size <= Len(adapter)
                 /\ Correlate(DecFormat, adapter, i) < Threshold(DecFormat)
  <2>1. CASE i <= k
    <3>1. i \in 1..k
      BY <1>2, <2>1
    <3>2. PICK q \in 1..Len(before) : q = Len(fate) + i
      BY <1>2, <1>8, <3>1
    <3>3. fate'[q].caps = decCaps
      BY <1>8, <1>9, <3>1, <3>2
    <3>4. QED
      BY <1>5, <3>1, <3>2, <3>3
  <2>2. CASE i > k
    <3>1. PICK j \in 1..t : i = k + j
      <4>1. i - k \in 1..t /\ i = k + (i - k)
        BY <1>2, <2>2
      <4>2. QED
        BY <4>1
    <3>2. Len(fate) + i = Len(before) + j
      BY <1>2, <1>8, <3>1
    <3>3. QED
      BY <1>9, <3>2
  <2>3. QED
    BY <1>2, <2>1, <2>2
<1>13. /\ IsList(stream') /\ fate' \in Seq(Fates) /\ Joined' /\ NothingIsMissed'
  BY <1>1, <1>2, <1>6, <1>9, <1>10, <1>11, <1>12, Flushed
<1>14. QED
  BY <1>8, <1>10, <1>13 DEF k, t

-----------------------------------------------------------------------------
(* A field is found and passed on.                                         *)
LEMMA FieldFollows ==
  ASSUME TypesInv, SearchInv, DecField
  PROVE  SearchInv'
<1> DEFINE p == Min(Keyed(DecFormat))
           n == Len(out) + 1
           f == FormatOf(decCaps)
<1>1. /\ inChain /\ Keyed(DecFormat) # {}
      /\ adapter' = After(p - 1 + DecFormat.active_size) /\ TakeField(p)
      /\ out' = Append(out, Output(p)) /\ stream' = stream
  BY DEF DecField
<1>2. /\ IsList(stream') /\ fate' \in Seq(Fates) /\ Joined' /\ NothingIsMissed'
      /\ Len(fate) \in Nat /\ Len(fate') = Len(fate) + (p - 1 + DecFormat.active_size)
  BY <1>1, FlushedWith
<1>3. /\ decCaps \in DOMAIN FrameFormats
      /\ p \in Nat /\ 1 <= p /\ p - 1 + DecFormat.active_size <= Len(adapter)
      /\ DecFormat.active_size \in Nat /\ Len(adapter) \in Nat
      /\ Correlate(DecFormat, adapter, p) >= Threshold(DecFormat)
  BY <1>1, Found
<1>4. p \in Nat \ {0}
  BY <1>3
<1> HIDE DEF p
<1>5. /\ Correlate(f, stream, Len(fate) + p) = Correlate(f, adapter, p)
      /\ DecodeField(f, stream, Len(fate) + p) = DecodeField(f, adapter, p)
  BY <1>3, <1>4, PlaceInStream, Zenon DEF DecFormat
<1>6. /\ IsList(out') /\ DOMAIN out = 1..Len(out) /\ Len(out) \in Nat
      /\ DOMAIN out' = 1..n
      /\ \A i \in 1..Len(out) : out'[i] = out[i]
      /\ out'[n] = Output(p)
  BY <1>1, AppendToList DEF SearchInv
<1>7. /\ out'[n].caps = decCaps /\ out'[n].at = Len(fate) + p
      /\ out'[n].data = DecodeField(f, adapter, p)
  BY <1>6 DEF Output, DecFormat
<1>8. \A i \in DOMAIN out' : i = n \/ (i \in DOMAIN out /\ out'[i] = out[i])
  BY <1>6
<1>9. ASSUME NEW i \in DOMAIN out
      PROVE  /\ out[i].caps \in DOMAIN FrameFormats /\ out[i].at \in Nat \ {0}
             /\ FormatOf(out[i].caps).active_size \in Nat
             /\ out[i].at + FormatOf(out[i].caps).active_size - 1 <= Len(fate)
  <2>1. /\ out[i].caps \in DOMAIN FrameFormats /\ out[i].at \in Nat \ {0}
        /\ out[i].at + FormatOf(out[i].caps).active_size - 1 <= Len(fate)
    BY DEF SearchInv, OutputsFollow
  <2>2. QED
    BY <2>1, RowFacts DEF FrameRows
<1>10. \A i \in DOMAIN out' : out'[i].caps \in DOMAIN FrameFormats /\ out'[i].at \in Nat \ {0}
  BY <1>2, <1>3, <1>4, <1>7, <1>8, <1>9
<1>11. ASSUME NEW i \in DOMAIN out'
       PROVE  LET g == FormatOf(out'[i].caps)
                  q == out'[i].at
              IN  /\ q + g.active_size - 1 <= Len(fate')
                  /\ Correlate(g, stream, q) >= Threshold(g)
                  /\ out'[i].data = DecodeField(g, stream, q)
                  /\ \A j \in 1..(i - 1) :
                       out'[j].at + FormatOf(out'[j].caps).active_size <= q
  <2>1. CASE i = n
    <3>1. Len(fate) + p + DecFormat.active_size - 1 <= Len(fate')
      BY <1>2, <1>3
    <3>2. ASSUME NEW j \in 1..(i - 1)
          PROVE  out'[j].at + FormatOf(out'[j].caps).active_size <= Len(fate) + p
      <4>1. j \in DOMAIN out /\ out'[j] = out[j]
        BY <1>6, <2>1
      <4>2. QED
        BY <1>2, <1>4, <1>9, <4>1
    <3>3. QED
      BY <1>3, <1>5, <1>7, <2>1, <3>1, <3>2 DEF DecFormat
  <2>2. CASE i \in DOMAIN out /\ out'[i] = out[i]
    <3>1. /\ Correlate(FormatOf(out[i].caps), stream, out[i].at)
               >= Threshold(FormatOf(out[i].caps))
          /\ out[i].data = DecodeField(FormatOf(out[i].caps), stream, out[i].at)
          /\ \A j \in 1..(i - 1) :
               out[j].at + FormatOf(out[j].caps).active_size <= out[i].at
      BY <2>2 DEF SearchInv, OutputsFollow
    <3>2. \A j \in 1..(i - 1) : out'[j] = out[j]
      BY <1>6, <2>2
    <3>3. out[i].at + FormatOf(out[i].caps).active_size - 1 <= Len(fate')
      <4>1. Len(fate) <= Len(fate')
        BY <1>2, <1>3
      <4>2. QED
        BY <1>2, <1>3, <1>9, <2>2, <4>1
    <3>4. QED
      BY <2>2, <3>1, <3>2, <3>3
  <2>3. QED
    BY <1>8, <2>1, <2>2
<1>12. OutputsFollow'
  BY <1>1, <1>11 DEF OutputsFollow
<1>13. QED
  BY <1>2, <1>6, <1>10, <1>12 DEF SearchInv

(* A field is found and is not passed on.                                  *)
LEMMA FieldIsLost ==
  ASSUME TypesInv, SearchInv, DecAllocFails \/ DecPushFails
  PROVE  SearchInv'
<1> DEFINE p == Min(Keyed(DecFormat))
<1>1. CASE DecAllocFails
  <2>1. /\ inChain /\ Keyed(DecFormat) # {}
        /\ adapter' = After(p - 1) /\ fate' = fate \o Over(p - 1) /\ UNCHANGED <<out, stream>>
    BY <1>1 DEF DecAllocFails
  <2>2. QED
    BY <2>1, FlushedBefore
<1>2. CASE DecPushFails
  <2>1. /\ inChain /\ Keyed(DecFormat) # {}
        /\ adapter' = After(p - 1 + DecFormat.active_size) /\ TakeField(p)
        /\ UNCHANGED <<out, stream>>
    BY <1>2 DEF DecPushFails
  <2>2. /\ IsList(stream') /\ fate' \in Seq(Fates) /\ Joined' /\ NothingIsMissed'
        /\ Len(fate) \in Nat /\ Len(fate') = Len(fate) + (p - 1 + DecFormat.active_size)
    BY <2>1, FlushedWith
  <2>3. p \in Nat /\ 1 <= p /\ DecFormat.active_size \in Nat
    BY <2>1, Found
  <2> HIDE DEF p
  <2>4. OutputsFollow'
    <3>1. Len(fate') \in Nat /\ Len(fate) <= Len(fate')
      BY <2>2, <2>3
    <3>2. QED
      BY <2>1, <3>1, OutputsStay
  <2>5. QED
    BY <2>1, <2>2, <2>4 DEF SearchInv
<1>3. QED
  BY <1>1, <1>2

(* No field is left: the places are passed over.                           *)
LEMMA NoFieldIsLeft ==
  ASSUME TypesInv, SearchInv, DecReturn
  PROVE  SearchInv'
<1> DEFINE n == Cardinality(Places(DecFormat))
           a == DecFormat.active_size
<1>1. /\ inChain /\ Keyed(DecFormat) = {} /\ UNCHANGED <<out, stream>>
      /\ adapter' = After(n) /\ fate' = fate \o Over(n)
  BY DEF DecReturn
<1>2. decCaps \in DOMAIN FrameFormats
  BY <1>1 DEF TypesInv, DecTypes
<1>3. a \in Nat /\ a >= 1 /\ Len(adapter) \in Nat /\ fate \in Seq(Fates)
  <2>1. a \in Nat /\ DecFormat.key_length \in Nat /\ DecFormat.key_length >= 1
        /\ DecFormat.key_length <= a
    BY <1>2, RowFacts DEF DecFormat, FrameRows
  <2>2. adapter \in Seq(Bytes(Len(sent))) /\ fate \in Seq(Fates)
    BY DEF TypesInv, StreamTypes, SearchInv
  <2> HIDE DEF a
  <2>3. Len(adapter) \in Nat
    BY <2>2
  <2>4. QED
    BY <2>1, <2>2, <2>3
<1> HIDE DEF a
<1>4. n \in Nat /\ n \in 0..Len(adapter) /\ 1..n = Places(DecFormat)
  <2>1. CASE Len(adapter) - a + 1 >= 1
    <3>1. Places(DecFormat) = 1..(Len(adapter) - a + 1) /\ Len(adapter) - a + 1 \in Nat
      BY <1>3, <2>1 DEF Places, a
    <3>2. n = Len(adapter) - a + 1
      BY <1>3, <2>1, <3>1, FS_Interval
    <3>3. QED
      BY <1>3, <2>1, <3>1, <3>2
  <2>2. CASE ~(Len(adapter) - a + 1 >= 1)
    <3>1. Places(DecFormat) = {}
      BY <1>3, <2>2 DEF Places, a
    <3>2. n = 0
      BY <3>1, FS_EmptySet
    <3>3. QED
      BY <1>3, <3>1, <3>2
  <2>3. QED
    BY <2>1, <2>2
<1>5. \A i \in 1..n : /\ i - 1 + DecFormat.active_size <= Len(adapter)
                      /\ Correlate(DecFormat, adapter, i) < Threshold(DecFormat)
  <2>1. \A i \in Places(DecFormat) : i \notin Keyed(DecFormat)
    BY <1>1
  <2> HIDE DEF n
  <2>2. QED
    BY <1>1, <1>4, <2>1, PassedOver
<1>6. PICK e \in Fates : e = [caps |-> decCaps, taken |-> FALSE]
  BY <1>2 DEF Fates
<1>7. e.caps = decCaps
  BY <1>6
<1>8. fate' = fate \o Marks(n, e) /\ adapter' = After(n)
  BY <1>1, <1>6 DEF Over, Marks
<1> HIDE DEF n
<1>9. /\ fate \o Marks(n, e) \in Seq(Fates) /\ Len(fate) \in Nat
      /\ Len(fate \o Marks(n, e)) = Len(fate) + n
      /\ \A i \in 1..Len(fate) : (fate \o Marks(n, e))[i] = fate[i]
      /\ \A i \in 1..n : (fate \o Marks(n, e))[Len(fate) + i] = e
  <2>1. fate \in Seq(Fates) /\ n \in Nat
    BY <1>3, <1>4
  <2>2. QED
    BY <1>6, <2>1, FateGrows, Zenon
<1>10. /\ fate' \in Seq(Fates) /\ Len(fate') = Len(fate) + n
       /\ \A i \in 1..Len(fate) : fate'[i] = fate[i]
       /\ \A i \in 1..n : fate'[Len(fate) + i].caps = decCaps
  BY <1>7, <1>8, <1>9, Zenon
<1>11. IsList(stream') /\ fate' \in Seq(Fates) /\ Joined' /\ NothingIsMissed'
  BY <1>1, <1>2, <1>4, <1>5, <1>8, <1>10, Flushed
<1>12. OutputsFollow'
  <2>1. Len(fate') \in Nat /\ Len(fate) <= Len(fate')
    BY <1>4, <1>9, <1>10
  <2>2. QED
    BY <1>1, <2>1, OutputsStay
<1>13. QED
  BY <1>1, <1>11, <1>12 DEF SearchInv

-----------------------------------------------------------------------------
LEMMA SearchStep ==
  ASSUME TypesInv, SearchInv, [Next]_vars
  PROVE  SearchInv'
<1>1. CASE UNCHANGED <<adapter, out, stream, fate>>
  BY <1>1 DEF SearchInv, Joined, NothingIsMissed, OutputsFollow
<1>2. Record \/ Rewind \/ Damage \/ Show \/ UNCHANGED vars
        => UNCHANGED <<adapter, out, stream, fate>>
  BY DEF Record, Rewind, Damage, Wear, Show, decVars, vars
<1>3. DecSetcapsFails \/ DecCrash => UNCHANGED <<adapter, out, stream, fate>>
  BY DEF DecSetcapsFails, DecCrash
<1>4. QED
  BY <1>1, <1>2, <1>3, BufferJoins, FieldFollows, FieldIsLost, NoFieldIsLeft
     DEF Next, Play, DecNext

LEMMA SearchInitially ==
  ASSUME Init
  PROVE  SearchInv
<1>1. out = <<>> /\ stream = <<>> /\ fate = <<>> /\ adapter = <<>>
  BY DEF Init, DecInit
<1>2. IsList(<<>>)
  <2>1. <<>> \in Seq({})
    OBVIOUS
  <2>2. QED
    BY <2>1, ListOf
<1>3. fate \in Seq(Fates) /\ Len(fate) = 0 /\ Len(adapter) = 0 /\ Len(stream) = 0
      /\ DOMAIN out = {}
  BY <1>1
<1>4. QED
  BY <1>1, <1>2, <1>3 DEF SearchInv, Joined, NothingIsMissed, OutputsFollow

(* The invariant: what the adapter holds is the rest of the stream, so     *)
(* what is found in it, or not, is found in the stream, or not.            *)
THEOREM SearchInvariance == Spec => [](TypesInv /\ SearchInv)
<1>1. Init => SearchInv
  BY SearchInitially
<1>2. TypesInv /\ SearchInv /\ [Next]_vars => SearchInv'
  BY SearchStep
<1>3. QED
  BY <1>1, <1>2, TypesInvariance, PTL DEF Spec

(* bkr_framedec searches the stream as one, however it was cut into        *)
(* buffers and whichever allocations, pushes or negotiations failed: what  *)
(* it passes on are whole regions of the stream with enough of the key, in *)
(* order and without an overlap, and it passes over no byte at which one   *)
(* begins.  Nothing is assumed of what is on the tape.                     *)
THEOREM SearchIsOfTheWholeStreamAlways == Spec => []SearchIsOfTheWholeStream
<1>1. SearchInv => SearchIsOfTheWholeStream
  <2> SUFFICES ASSUME SearchInv
               PROVE  SearchIsOfTheWholeStream
    OBVIOUS
  <2>1. DOMAIN fate = 1..Len(fate)
    BY DEF SearchInv
  <2>2. QED
    BY <2>1, Zenon DEF SearchInv, NothingIsMissed, OutputsFollow, SearchIsOfTheWholeStream
<1>2. QED
  BY <1>1, SearchInvariance, PTL
=============================================================================

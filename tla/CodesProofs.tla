----------------------------- MODULE CodesProofs -----------------------------
(***************************************************************************)
(* The run-length codec for buffers of every length and content, and for   *)
(* any number of damaged bits: what the decoder delivers differs from what *)
(* the encoder was given only next to a damaged bit, and the signal never  *)
(* stays at one level for more than MaxRun bits.  First the table of code  *)
(* words: there are 256, and rll_decode[] undoes rll_encode[].  At the end *)
(* the format tables, mode by mode.                                        *)
(***************************************************************************)
EXTENDS Codes, ListLemmas

LEMMA CountedUpTo ==
  \A n \in Nat : IsFiniteSet(0..n) /\ Cardinality(0..n) = n + 1
<1>1. ASSUME NEW n \in Nat
      PROVE  IsFiniteSet(0..n) /\ Cardinality(0..n) = n + 1
  <2>1. PICK z \in Int : z = 0
    OBVIOUS
  <2>2. IsFiniteSet(z..n) /\ Cardinality(z..n) = IF z > n THEN 0 ELSE n - z + 1
    BY FS_Interval
  <2>3. QED
    BY <2>1, <2>2
<1>2. QED
  BY <1>1

(* The words between 137 and 494 whose last three bits are not all equal,  *)
(* counted, and those of them that the table leaves out.                   *)
LEMMA CountedWords == IsFiniteSet(EveryWord) /\ Cardinality(EveryWord) = 270
<1> DEFINE f == [j \in 0..269 |-> 8 * (17 + (j \div 6)) + 1 + (j % 6)]
           g(w) == 6 * ((w \div 8) - 17) + (w % 8) - 1
<1>1. \A j \in 0..269 : 8 * (17 + (j \div 6)) + 1 + (j % 6) \in EveryWord
  BY DEF EveryWord
<1>2. \A w \in EveryWord : g(w) \in 0..269
  BY DEF EveryWord
<1>3. \A w \in EveryWord : f[g(w)] = w
  <2>1. SUFFICES ASSUME NEW w \in EveryWord PROVE f[g(w)] = w
    OBVIOUS
  <2>2. PICK q \in 17..61, r \in 1..6 : w = 8 * q + r /\ q = w \div 8 /\ r = w % 8
    BY DEF EveryWord
  <2>3. g(w) = 6 * (q - 17) + (r - 1)
    BY <2>2
  <2>4. g(w) \div 6 = q - 17 /\ g(w) % 6 = r - 1
    BY <2>2, <2>3
  <2>5. QED
    BY <1>2, <2>2, <2>4
<1>4. \A i, j \in 0..269 : f[i] = f[j] => i = j
  <2>1. SUFFICES ASSUME NEW i \in 0..269, NEW j \in 0..269, f[i] = f[j]
                 PROVE  i = j
    OBVIOUS
  <2>2. PICK a \in 0..44, b \in 0..5 : i = 6 * a + b /\ a = i \div 6 /\ b = i % 6
    OBVIOUS
  <2>3. PICK c \in 0..44, d \in 0..5 : j = 6 * c + d /\ c = j \div 6 /\ d = j % 6
    OBVIOUS
  <2>4. 8 * (17 + a) + 1 + b = 8 * (17 + c) + 1 + d
    <3>1. f[i] = 8 * (17 + a) + 1 + b
      BY <2>2
    <3>2. f[j] = 8 * (17 + c) + 1 + d
      BY <2>3
    <3>3. QED
      BY <2>1, <3>1, <3>2
  <2>5. a = c /\ b = d
    BY <2>4
  <2>6. QED
    BY <2>2, <2>3, <2>5
<1> HIDE DEF f
<1>5. f \in [0..269 -> EveryWord]
  BY <1>1 DEF f
<1>6. f \in Bijection(0..269, EveryWord)
  <2>1. f \in Injection(0..269, EveryWord)
    <3>1. DOMAIN f = 0..269
      BY <1>5
    <3>2. IsInjective(f)
      BY <1>4, <3>1, Zenon DEF IsInjective
    <3>3. QED
      BY <1>5, <3>2, Zenon DEF Injection
  <2>2. \A w \in EveryWord : \E j \in 0..269 : f[j] = w
    BY <1>2, <1>3
  <2>3. f \in Surjection(0..269, EveryWord)
    BY <1>5, <2>2 DEF Surjection
  <2>4. QED
    BY <2>1, <2>3 DEF Bijection
<1>7. IsFiniteSet(0..269) /\ Cardinality(0..269) = 270
  <2>1. PICK n \in Nat : n = 269
    OBVIOUS
  <2>2. IsFiniteSet(0..n) /\ Cardinality(0..n) = n + 1
    BY CountedUpTo
  <2>3. QED
    BY <2>1, <2>2
<1>8. QED
  BY <1>6, <1>7, FS_Bijection DEF ExistsBijection

LEMMA CountedGaps == IsFiniteSet(NotUsed) /\ Cardinality(NotUsed) = 14 /\ NotUsed \subseteq EveryWord
<1> DEFINE A == 257..262
           B == A \union {161}
           C == B \union {193}
           D == C \union {254}
           E == D \union {321}
           F == E \union {385}
           G == F \union {386}
           H == G \union {387}
           I == H \union {449}
<1>1. IsFiniteSet(A) /\ Cardinality(A) = 6
  <2>1. PICK a \in Int, b \in Int : a = 257 /\ b = 262
    OBVIOUS
  <2>2. IsFiniteSet(a..b) /\ Cardinality(a..b) = IF a > b THEN 0 ELSE b - a + 1
    BY FS_Interval
  <2>3. QED
    BY <2>1, <2>2
<1>2. /\ 161 \notin A /\ 193 \notin B /\ 254 \notin C /\ 321 \notin D
      /\ 385 \notin E /\ 386 \notin F /\ 387 \notin G /\ 449 \notin H
  OBVIOUS
<1>3. I = NotUsed
  BY DEF NotUsed
<1> HIDE DEF A, B, C, D, E, F, G, H, I
<1>4. IsFiniteSet(B) /\ Cardinality(B) = 7
  BY <1>1, <1>2, FS_AddElement DEF B
<1>5. IsFiniteSet(C) /\ Cardinality(C) = 8
  BY <1>2, <1>4, FS_AddElement DEF C
<1>6. IsFiniteSet(D) /\ Cardinality(D) = 9
  BY <1>2, <1>5, FS_AddElement DEF D
<1>7. IsFiniteSet(E) /\ Cardinality(E) = 10
  BY <1>2, <1>6, FS_AddElement DEF E
<1>8. IsFiniteSet(F) /\ Cardinality(F) = 11
  BY <1>2, <1>7, FS_AddElement DEF F
<1>9. IsFiniteSet(G) /\ Cardinality(G) = 12
  BY <1>2, <1>8, FS_AddElement DEF G
<1>10. IsFiniteSet(H) /\ Cardinality(H) = 13
  BY <1>2, <1>9, FS_AddElement DEF H
<1>11. IsFiniteSet(I) /\ Cardinality(I) = 14
  BY <1>2, <1>10, FS_AddElement DEF I
<1>12. NotUsed \subseteq EveryWord
  BY DEF NotUsed, EveryWord
<1>13. QED
  BY <1>3, <1>11, <1>12

LEMMA CountedTable ==
  /\ IsFiniteSet(CodeWords) /\ Cardinality(CodeWords) = 256
  /\ CodeWords \subseteq 137..494
<1>1. CodeWords = EveryWord \ NotUsed
  BY DEF CodeWords, EveryWord
<1>2. EveryWord \intersect NotUsed = NotUsed
  BY CountedGaps
<1>3. IsFiniteSet(EveryWord \ NotUsed)
      /\ Cardinality(EveryWord \ NotUsed) =
           Cardinality(EveryWord) - Cardinality(EveryWord \intersect NotUsed)
  BY CountedWords, FS_Difference
<1>4. IsFiniteSet(CodeWords) /\ Cardinality(CodeWords) = 256
  BY <1>1, <1>2, <1>3, CountedWords, CountedGaps
<1>5. QED
  BY <1>4 DEF CodeWords

(* The place of a word in the table is the number of words before it, so   *)
(* that every place has one word.                                          *)
LEMMA PlacesInTable ==
  /\ \A w \in CodeWords : rll_decode[w] \in 0..255
  /\ \A s \in 0..255 : \E w \in CodeWords : rll_decode[w] = s
<1> DEFINE Before(w) == {v \in CodeWords : v < w}
           place == [w \in CodeWords |-> Cardinality(Before(w))]
<1>1. ASSUME NEW w \in CodeWords
      PROVE  /\ IsFiniteSet(Before(w)) /\ Cardinality(Before(w)) \in 0..255
             /\ rll_decode[w] = Cardinality(Before(w))
  <2>1. IsFiniteSet(CodeWords \ {w}) /\ Cardinality(CodeWords \ {w}) = 255
    BY CountedTable, FS_RemoveElement
  <2>2. Before(w) \in SUBSET (CodeWords \ {w})
    BY CountedTable
  <2>3. IsFiniteSet(Before(w)) /\ Cardinality(Before(w)) <= 255
    BY <2>1, <2>2, FS_Subset
  <2>4. Cardinality(Before(w)) \in Nat
    BY <2>3, FS_CardinalityType
  <2>5. w \in 0..RLL_MASK
    BY CountedTable DEF RLL_MASK
  <2>6. QED
    BY <2>3, <2>4, <2>5 DEF rll_decode
<1>2. ASSUME NEW v \in CodeWords, NEW w \in CodeWords, v < w
      PROVE  Cardinality(Before(v)) < Cardinality(Before(w))
  <2>1. \A u \in CodeWords : u \in Int
    BY CountedTable
  <2>2. v \in Before(w) /\ v \notin Before(v) /\ Before(v) \in SUBSET Before(w)
    BY <1>2, <2>1
  <2>3. Cardinality(Before(v)) <= Cardinality(Before(w))
        /\ Cardinality(Before(v)) # Cardinality(Before(w))
    <3> HIDE DEF Before
    <3> QED
      BY <1>1, <2>2, FS_Subset
  <2>4. Cardinality(Before(v)) \in Int /\ Cardinality(Before(w)) \in Int
    <3> HIDE DEF Before
    <3> QED
      BY <1>1
  <2>5. QED
    <3> HIDE DEF Before
    <3> QED
      BY <2>3, <2>4
<1> HIDE DEF Before
<1>3. place \in [CodeWords -> 0..255]
  BY <1>1
<1>4. \A v, w \in CodeWords : place[v] = place[w] => v = w
  <2>1. SUFFICES ASSUME NEW v \in CodeWords, NEW w \in CodeWords, place[v] = place[w]
                 PROVE  v = w
    OBVIOUS
  <2>2. v \in Nat /\ w \in Nat
    BY CountedTable
  <2>3. ~ (v < w) /\ ~ (w < v)
    BY <1>1, <1>2, <2>1
  <2>4. QED
    BY <2>2, <2>3
<1>5. place \in Injection(CodeWords, 0..255)
  BY <1>3, <1>4 DEF Injection, IsInjective
<1>6. IsFiniteSet(0..255) /\ Cardinality(0..255) = 256
  <2>1. PICK n \in Nat : n = 255
    OBVIOUS
  <2>2. IsFiniteSet(0..n) /\ Cardinality(0..n) = n + 1
    BY CountedUpTo
  <2>3. QED
    BY <2>1, <2>2
<1>7. place \in Surjection(CodeWords, 0..255)
  BY <1>5, <1>6, CountedTable, FS_Injection
<1>8. \A s \in 0..255 : \E w \in CodeWords : place[w] = s
  BY <1>7 DEF Surjection
<1>9. QED
  BY <1>1, <1>8

(* rll_decode[] undoes rll_encode[].                                       *)
THEOREM TableInverted ==
  \A s \in 0..255 : rll_encode[s] \in CodeWords /\ rll_decode[rll_encode[s]] = s
BY PlacesInTable DEF rll_encode

-----------------------------------------------------------------------------
(* A word and its nine bits.                                               *)
IsWord(w) == w \in 0..RLL_MASK

LEMMA BitsOfWord ==
  ASSUME NEW w, IsWord(w)
  PROVE  /\ BitsOf(w) \in Seq({0, 1}) /\ Len(BitsOf(w)) = 9
         /\ \A k \in 1..9 : BitsOf(w)[k] \in {0, 1}
         /\ BitsOf(w)[9] = w % 2
         /\ w = 256 * BitsOf(w)[1] + 128 * BitsOf(w)[2] + 64 * BitsOf(w)[3]
                + 32 * BitsOf(w)[4] + 16 * BitsOf(w)[5] + 8 * BitsOf(w)[6]
                + 4 * BitsOf(w)[7] + 2 * BitsOf(w)[8] + BitsOf(w)[9]
<1>1. w \in 0..511
  BY DEF IsWord, RLL_MASK
<1>2. \A k \in 1..9 : Weight[k] \in Nat \ {0}
  BY DEF Weight
<1>3. \A k \in 1..9 : (w \div Weight[k]) % 2 \in {0, 1}
  <2>1. \A d \in Nat \ {0} : (w \div d) % 2 \in {0, 1}
    BY <1>1
  <2>2. QED
    BY <1>2, <2>1
<1>4. BitsOf(w) \in [1..9 -> {0, 1}]
  BY <1>3 DEF BitsOf
<1>5. BitsOf(w) \in Seq({0, 1}) /\ Len(BitsOf(w)) = 9
  <2>1. PICK b : b = BitsOf(w)
    OBVIOUS
  <2>2. PICK n \in Nat : n = 9
    OBVIOUS
  <2>3. b \in [1..n -> {0, 1}]
    BY <1>4, <2>1, <2>2
  <2>4. b \in Seq({0, 1}) /\ Len(b) = n
    BY <2>3
  <2>5. QED
    BY <2>1, <2>2, <2>4
<1>6. /\ BitsOf(w)[1] = (w \div 256) % 2 /\ BitsOf(w)[2] = (w \div 128) % 2
      /\ BitsOf(w)[3] = (w \div 64) % 2  /\ BitsOf(w)[4] = (w \div 32) % 2
      /\ BitsOf(w)[5] = (w \div 16) % 2  /\ BitsOf(w)[6] = (w \div 8) % 2
      /\ BitsOf(w)[7] = (w \div 4) % 2   /\ BitsOf(w)[8] = (w \div 2) % 2
      /\ BitsOf(w)[9] = (w \div 1) % 2
  BY DEF BitsOf, Weight
<1>7. w \div 1 = w
  BY <1>1
<1>8. w = 256 * ((w \div 256) % 2) + 128 * ((w \div 128) % 2) + 64 * ((w \div 64) % 2)
          + 32 * ((w \div 32) % 2) + 16 * ((w \div 16) % 2) + 8 * ((w \div 8) % 2)
          + 4 * ((w \div 4) % 2) + 2 * ((w \div 2) % 2) + (w % 2)
  <2>1. /\ w = 2 * (w \div 2) + (w % 2)
        /\ w \div 2 = 2 * (w \div 4) + ((w \div 2) % 2)
        /\ w \div 4 = 2 * (w \div 8) + ((w \div 4) % 2)
    BY <1>1
  <2>2. /\ w \div 8 = 2 * (w \div 16) + ((w \div 8) % 2)
        /\ w \div 16 = 2 * (w \div 32) + ((w \div 16) % 2)
        /\ w \div 32 = 2 * (w \div 64) + ((w \div 32) % 2)
    BY <1>1
  <2>3. /\ w \div 64 = 2 * (w \div 128) + ((w \div 64) % 2)
        /\ w \div 128 = 2 * (w \div 256) + ((w \div 128) % 2)
        /\ w \div 256 = (w \div 256) % 2
    BY <1>1
  <2>4. \A d \in Nat \ {0} : w \div d \in Nat /\ (w \div d) % 2 \in Nat
    BY <1>1
  <2>5. QED
    BY <1>1, <2>1, <2>2, <2>3, <2>4
<1>9. QED
  BY <1>4, <1>5, <1>6, <1>7, <1>8

(* A code word, inverted or not, does not end on three equal bits, has no  *)
(* seven equal bits, and does not go on for five more bits at the level at *)
(* which the word before it ended.                                         *)
NoLongRun(b, last) ==
  /\ ~ (b[7] = b[8] /\ b[8] = b[9])
  /\ ~ (\A k \in 2..7 : b[k] = b[1])
  /\ ~ (\A k \in 3..8 : b[k] = b[2])
  /\ ~ (\A k \in 1..5 : b[k] = last)

LEMMA CodeWordRuns ==
  ASSUME NEW c \in CodeWords, NEW last \in 0..RLL_MASK
  PROVE  /\ IsWord(Inverted(c, last))
         /\ Inverted(Inverted(c, last), last) = c
         /\ NoLongRun(BitsOf(Inverted(c, last)), last % 2)
<1>1. c \in 137..494 /\ c # 254 /\ c # 257
      /\ \E q \in Nat, r \in 1..6 : c = 8 * q + r
  BY DEF CodeWords, NotUsed
<1>2. PICK w : w = Inverted(c, last)
  OBVIOUS
<1>3. last \in 0..511 /\ last % 2 \in {0, 1}
  BY DEF RLL_MASK
<1>4. IF last % 2 = 1 THEN w = 511 - c ELSE w = c
  BY <1>2 DEF Inverted, RLL_MASK
<1>5. IsWord(w) /\ w \in 0..511
  BY <1>1, <1>4 DEF IsWord, RLL_MASK
<1>6. Inverted(w, last) = c
  BY <1>1, <1>3, <1>4 DEF Inverted, RLL_MASK
<1>7. PICK b : b = BitsOf(w)
  OBVIOUS
<1>8. /\ \A k \in 1..9 : b[k] \in {0, 1}
      /\ w = 256 * b[1] + 128 * b[2] + 64 * b[3] + 32 * b[4] + 16 * b[5]
             + 8 * b[6] + 4 * b[7] + 2 * b[8] + b[9]
  BY <1>5, <1>7, BitsOfWord
<1>9a. PICK b1 \in {0, 1}, b2 \in {0, 1}, b3 \in {0, 1} :
        b[1] = b1 /\ b[2] = b2 /\ b[3] = b3
  BY <1>8
<1>9b. PICK b4 \in {0, 1}, b5 \in {0, 1}, b6 \in {0, 1} :
        b[4] = b4 /\ b[5] = b5 /\ b[6] = b6
  BY <1>8
<1>9c. PICK b7 \in {0, 1}, b8 \in {0, 1}, b9 \in {0, 1} :
        b[7] = b7 /\ b[8] = b8 /\ b[9] = b9
  BY <1>8
<1>10. w = 256 * b1 + 128 * b2 + 64 * b3 + 32 * b4 + 16 * b5 + 8 * b6 + 4 * b7 + 2 * b8 + b9
  BY <1>8, <1>9a, <1>9b, <1>9c
<1>11. PICK q \in Nat, r \in 1..6 : c = 8 * q + r
  BY <1>1
<1>12. ~ (b7 = b8 /\ b8 = b9)
  BY <1>1, <1>3, <1>4, <1>10, <1>11
<1>13. ~ (b2 = b1 /\ b3 = b1 /\ b4 = b1 /\ b5 = b1 /\ b6 = b1 /\ b7 = b1)
  BY <1>1, <1>3, <1>4, <1>10
<1>14. ~ (b3 = b2 /\ b4 = b2 /\ b5 = b2 /\ b6 = b2 /\ b7 = b2 /\ b8 = b2)
  BY <1>1, <1>3, <1>4, <1>10, <1>11
<1>15. ~ (b1 = last % 2 /\ b2 = last % 2 /\ b3 = last % 2 /\ b4 = last % 2 /\ b5 = last % 2)
  BY <1>1, <1>3, <1>4, <1>10
<1>16. NoLongRun(b, last % 2)
  <2>1. ~ (b[7] = b[8] /\ b[8] = b[9])
    BY <1>9a, <1>9b, <1>9c, <1>12
  <2>2. ~ (\A k \in 2..7 : b[k] = b[1])
    BY <1>9a, <1>9b, <1>9c, <1>13
  <2>3. ~ (\A k \in 3..8 : b[k] = b[2])
    BY <1>9a, <1>9b, <1>9c, <1>14
  <2>4. ~ (\A k \in 1..5 : b[k] = last % 2)
    BY <1>9a, <1>9b, <1>9c, <1>15
  <2>5. QED
    BY <2>1, <2>2, <2>3, <2>4 DEF NoLongRun
<1>17. QED
  BY <1>2, <1>5, <1>6, <1>7, <1>16

-----------------------------------------------------------------------------
(* rll_modulate(): the words it writes, each from the symbol and the last  *)
(* bit of the word before it, and where their bits are.                    *)
SentWords(text, w) ==
  /\ w[0] = 0 /\ \A i \in 0..Len(text) : IsWord(w[i])
  /\ \A i \in 1..Len(text) : w[i] = Inverted(rll_encode[text[i]], w[i - 1])

Written(w, n, bits) ==
  /\ bits \in Seq({0, 1}) /\ Len(bits) = 9 * n
  /\ \A i \in 1..n : \A k \in 1..9 : bits[9 * i - 9 + k] = BitsOf(w[i])[k]

NoWords == [last |-> 0, bits |-> <<>>]

AfterWords(n, f, text) ==
  f = [i \in 0..n |-> IF i = 0 THEN NoWords ELSE NextWord(f[i - 1], text[i])]

LEMMA AfterWordsExist ==
  ASSUME NEW text, NEW N \in Nat
  PROVE  \E f : AfterWords(N, f, text)
<1> DEFINE None == {n \in Nat : ~(\E f : AfterWords(n, f, text))}
<1>1. SUFFICES ASSUME None # {}
               PROVE  FALSE
  OBVIOUS
<1>2. PICK n \in None : \A m \in None : n <= m
  BY <1>1, MinExists
<1>3. n \in Nat /\ ~(\E f : AfterWords(n, f, text))
  BY <1>2
<1>4. CASE n = 0
  <2>1. PICK f : f = [i \in 0..0 |-> NoWords]
    OBVIOUS
  <2>2. AfterWords(0, f, text)
    BY <2>1 DEF AfterWords
  <2>3. QED
    BY <1>3, <1>4, <2>2
<1>5. CASE n # 0
  <2>1. n - 1 \in Nat /\ n - 1 < n /\ n - 1 \notin None
    BY <1>2, <1>3, <1>5
  <2>2. PICK f : AfterWords(n - 1, f, text)
    BY <2>1
  <2>3. PICK h : h = [i \in 0..n |-> IF i = n THEN NextWord(f[n - 1], text[n]) ELSE f[i]]
    OBVIOUS
  <2>4. ASSUME NEW i \in 0..n
        PROVE  h[i] = IF i = 0 THEN NoWords ELSE NextWord(h[i - 1], text[i])
    <3>1. CASE i = n
      <4>1. n - 1 \in 0..n /\ n - 1 # n
        BY <1>3, <1>5
      <4>2. h[n - 1] = f[n - 1] /\ h[n] = NextWord(f[n - 1], text[n])
        BY <2>3, <3>1, <4>1
      <4>3. QED
        BY <1>5, <3>1, <4>2
    <3>2. CASE i # n
      <4>1. i \in 0..(n - 1) /\ h[i] = f[i]
        BY <1>3, <2>3, <3>2
      <4>2. f[i] = IF i = 0 THEN NoWords ELSE NextWord(f[i - 1], text[i])
        BY <2>2, <4>1 DEF AfterWords
      <4>3. i # 0 => h[i - 1] = f[i - 1]
        <5>1. i # 0 => i - 1 \in 0..n /\ i - 1 # n
          BY <1>3, <3>2
        <5>2. QED
          BY <2>3, <5>1
      <4>4. QED
        BY <4>1, <4>2, <4>3
    <3>3. QED
      BY <3>1, <3>2
  <2>5. AfterWords(n, h, text)
    BY <2>3, <2>4 DEF AfterWords
  <2>6. QED
    BY <1>3, <2>5
<1>6. QED
  BY <1>4, <1>5

LEMMA ModulateIs ==
  ASSUME NEW text, Len(text) \in Nat
  PROVE  \E f : AfterWords(Len(text), f, text) /\ Modulate(text) = f[Len(text)].bits
<1> DEFINE F == CHOOSE f : AfterWords(Len(text), f, text)
<1>1. AfterWords(Len(text), F, text)
  BY AfterWordsExist
<1>2. Modulate(text) = F[Len(text)].bits
  BY DEF Modulate, AfterWords, NoWords
<1>3. QED
  BY <1>1, <1>2

(* One more word behind those written.                                     *)
LEMMA OneMoreWord ==
  ASSUME NEW w, NEW n \in Nat, NEW bits, Written(w, n, bits), IsWord(w[n + 1])
  PROVE  Written(w, n + 1, bits \o BitsOf(w[n + 1]))
<1>1. PICK b : b = BitsOf(w[n + 1])
  OBVIOUS
<1>2. b \in Seq({0, 1}) /\ Len(b) = 9
  BY <1>1, BitsOfWord
<1>3. bits \in Seq({0, 1}) /\ Len(bits) = 9 * n
      /\ \A i \in 1..n : \A k \in 1..9 : bits[9 * i - 9 + k] = BitsOf(w[i])[k]
  BY DEF Written
<1>4. PICK t : t = bits \o b
  OBVIOUS
<1>5. /\ t \in Seq({0, 1}) /\ Len(t) = 9 * n + 9
      /\ \A x \in 1..(9 * n + 9) : t[x] = IF x <= 9 * n THEN bits[x] ELSE b[x - 9 * n]
  <2>1. /\ bits \o b \in Seq({0, 1}) /\ Len(bits \o b) = Len(bits) + Len(b)
        /\ \A x \in 1..(Len(bits) + Len(b)) :
             (bits \o b)[x] = IF x <= Len(bits) THEN bits[x] ELSE b[x - Len(bits)]
    BY <1>2, <1>3, ConcatProperties
  <2>2. QED
    BY <1>2, <1>3, <1>4, <2>1
<1>6. ASSUME NEW i \in 1..(n + 1), NEW k \in 1..9
      PROVE  t[9 * i - 9 + k] = BitsOf(w[i])[k]
  <2>1. CASE i \in 1..n
    <3>1. 9 * i - 9 + k \in 1..(9 * n + 9) /\ 9 * i - 9 + k <= 9 * n
      BY <2>1
    <3>2. QED
      BY <1>3, <1>5, <2>1, <3>1
  <2>2. CASE i = n + 1
    <3>1. 9 * i - 9 + k \in 1..(9 * n + 9) /\ ~ (9 * i - 9 + k <= 9 * n)
          /\ (9 * i - 9 + k) - 9 * n = k
      BY <2>2
    <3>2. t[9 * i - 9 + k] = b[k]
      BY <1>5, <3>1
    <3>3. QED
      BY <1>1, <2>2, <3>2
  <2>3. QED
    BY <2>1, <2>2
<1>7. Len(t) = 9 * (n + 1)
  BY <1>5
<1>8. QED
  BY <1>1, <1>4, <1>5, <1>6, <1>7 DEF Written

LEMMA Modulated ==
  ASSUME NEW text \in Seq(0..255)
  PROVE  \E w : SentWords(text, w) /\ Written(w, Len(text), Modulate(text))
<1>1. PICK N \in Nat : N = Len(text)
  OBVIOUS
<1>2. PICK f : AfterWords(N, f, text) /\ Modulate(text) = f[N].bits
  BY <1>1, ModulateIs
<1>3. f[0] = NoWords /\ \A i \in 1..N : f[i] = NextWord(f[i - 1], text[i])
  BY <1>2 DEF AfterWords
<1>4. PICK w : w = [i \in 0..N |-> IF i = 0 THEN 0
                                   ELSE Inverted(rll_encode[text[i]], f[i - 1].last)]
  OBVIOUS
<1>5. w[0] = 0 /\ \A i \in 1..N : w[i] = Inverted(rll_encode[text[i]], f[i - 1].last)
  BY <1>4
<1>6. \A i \in 1..N : text[i] \in 0..255 /\ rll_encode[text[i]] \in CodeWords
  <2>1. \A i \in 1..N : text[i] \in 0..255
    BY <1>1
  <2>2. QED
    BY <2>1, TableInverted
<1>7. \A i \in 1..N : f[i].last = w[i] % 2 /\ f[i].bits = f[i - 1].bits \o BitsOf(w[i])
  <2>1. SUFFICES ASSUME NEW i \in 1..N
                 PROVE  f[i].last = w[i] % 2 /\ f[i].bits = f[i - 1].bits \o BitsOf(w[i])
    OBVIOUS
  <2>2. f[i] = NextWord(f[i - 1], text[i]) /\ w[i] = Inverted(rll_encode[text[i]], f[i - 1].last)
    BY <1>3, <1>5
  <2>3. f[i] = [last |-> w[i] % 2, bits |-> f[i - 1].bits \o BitsOf(w[i])]
    BY <2>2, Zenon DEF NextWord
  <2>4. PICK r, l, b : r = f[i] /\ l = w[i] % 2 /\ b = f[i - 1].bits \o BitsOf(w[i])
    OBVIOUS
  <2>5. r = [last |-> l, bits |-> b]
    BY <2>3, <2>4, Zenon
  <2>6. r.last = l /\ r.bits = b
    BY <2>5
  <2>7. QED
    BY <2>4, <2>6, Zenon
<1>8. f[0].last = 0 /\ f[0].bits = <<>>
  BY <1>3 DEF NoWords
<1> DEFINE Good(n) == /\ IsWord(w[n]) /\ f[n].last = w[n] % 2
                      /\ n # 0 => w[n] = Inverted(rll_encode[text[n]], w[n - 1])
                      /\ Written(w, n, f[n].bits)
           Off == {n \in 0..N : ~ Good(n)}
<1>9. Good(0)
  <2>1. IsWord(w[0]) /\ f[0].last = w[0] % 2
    BY <1>5, <1>8 DEF IsWord, RLL_MASK
  <2>2. <<>> \in Seq({0, 1}) /\ Len(<<>>) = 9 * 0
    OBVIOUS
  <2>3. Written(w, 0, <<>>)
    BY <2>2 DEF Written
  <2>4. QED
    BY <1>8, <2>1, <2>3
<1>10. ASSUME NEW n \in 0..N, n # 0, Good(n - 1)
       PROVE  Good(n)
  <2>1. n \in 1..N /\ n - 1 \in Nat /\ n - 1 + 1 = n
    BY <1>10
  <2>2. PICK v : v = w[n - 1]
    OBVIOUS
  <2>3. v \in 0..RLL_MASK /\ v \in 0..511 /\ f[n - 1].last = v % 2
    BY <1>10, <2>2 DEF IsWord, RLL_MASK
  <2>4. Inverted(rll_encode[text[n]], v % 2) = Inverted(rll_encode[text[n]], v)
    <3>1. (v % 2) % 2 = v % 2
      BY <2>3
    <3>2. QED
      BY <3>1 DEF Inverted
  <2>5. w[n] = Inverted(rll_encode[text[n]], v)
    BY <1>5, <2>1, <2>3, <2>4
  <2>6. IsWord(w[n])
    BY <1>6, <2>1, <2>3, <2>5, CodeWordRuns
  <2>7. f[n].last = w[n] % 2 /\ f[n].bits = f[n - 1].bits \o BitsOf(w[n])
    BY <1>7, <2>1
  <2>8. Written(w, n, f[n].bits)
    <3>1. Written(w, n - 1, f[n - 1].bits)
      BY <1>10
    <3>2. Written(w, n - 1 + 1, f[n - 1].bits \o BitsOf(w[n - 1 + 1]))
      <4> HIDE DEF Good
      <4> QED
        BY <2>1, <2>6, <3>1, OneMoreWord
    <3>3. QED
      BY <2>1, <2>7, <3>2
  <2>9. QED
    BY <2>2, <2>5, <2>6, <2>7, <2>8
<1> HIDE DEF Good
<1>11. Off = {}
  <2>1. SUFFICES ASSUME Off # {}
                 PROVE  FALSE
    OBVIOUS
  <2>2. PICK n \in Off : \A m \in Off : n <= m
    <3>1. Off \in SUBSET Nat
      OBVIOUS
    <3>2. QED
      BY <2>1, <3>1, MinExists
  <2>3. n \in 0..N /\ ~ Good(n) /\ n # 0
    BY <1>9, <2>2
  <2>4. n - 1 \in 0..N /\ n - 1 \notin Off
    BY <2>2, <2>3
  <2>5. Good(n - 1)
    BY <2>4
  <2>6. QED
    BY <1>10, <2>3, <2>5
<1>12. \A n \in 0..N : Good(n)
  BY <1>11
<1>13. SentWords(text, w)
  BY <1>1, <1>5, <1>12 DEF Good, SentWords
<1>14. Written(w, N, f[N].bits)
  BY <1>1, <1>12 DEF Good
<1>15. QED
  BY <1>1, <1>2, <1>13, <1>14

-----------------------------------------------------------------------------
(* rll_demodulate(): a word is read back if its nine bits and the last bit *)
(* of the word before it are as they were written.                         *)
LEMMA WordRead ==
  ASSUME NEW w, IsWord(w), NEW bits, NEW i \in Nat,
         \A k \in 1..9 : bits[9 * i - 9 + k] = BitsOf(w)[k]
  PROVE  WordAt(bits, i) = w
<1>1. PICK b : b = BitsOf(w)
  OBVIOUS
<1>2. w = 256 * b[1] + 128 * b[2] + 64 * b[3] + 32 * b[4] + 16 * b[5]
          + 8 * b[6] + 4 * b[7] + 2 * b[8] + b[9]
  BY <1>1, BitsOfWord
<1>3. /\ bits[9 * i - 9 + 1] = b[1] /\ bits[9 * i - 9 + 2] = b[2]
      /\ bits[9 * i - 9 + 3] = b[3] /\ bits[9 * i - 9 + 4] = b[4]
      /\ bits[9 * i - 9 + 5] = b[5] /\ bits[9 * i - 9 + 6] = b[6]
      /\ bits[9 * i - 9 + 7] = b[7] /\ bits[9 * i - 9 + 8] = b[8]
      /\ bits[9 * i - 9 + 9] = b[9]
  BY <1>1
<1>4. WordAt(bits, i) = 256 * b[1] + 128 * b[2] + 64 * b[3] + 32 * b[4] + 16 * b[5]
                        + 8 * b[6] + 4 * b[7] + 2 * b[8] + b[9]
  BY <1>3, Zenon DEF WordAt
<1>5. QED
  BY <1>2, <1>4

LEMMA LastBitRead ==
  ASSUME NEW n \in Nat, NEW bits \in Seq({0, 1}), Len(bits) = 9 * n, NEW i \in 1..n
  PROVE  WordAt(bits, i) % 2 = bits[9 * i]
<1>1. \A k \in 1..9 : 9 * i - 9 + k \in 1..Len(bits)
  OBVIOUS
<1>2. \A k \in 1..9 : bits[9 * i - 9 + k] \in {0, 1}
  BY <1>1
<1>3a. PICK b1 \in {0, 1}, b2 \in {0, 1}, b3 \in {0, 1} :
        bits[9 * i - 9 + 1] = b1 /\ bits[9 * i - 9 + 2] = b2 /\ bits[9 * i - 9 + 3] = b3
  BY <1>2
<1>3b. PICK b4 \in {0, 1}, b5 \in {0, 1}, b6 \in {0, 1} :
        bits[9 * i - 9 + 4] = b4 /\ bits[9 * i - 9 + 5] = b5 /\ bits[9 * i - 9 + 6] = b6
  BY <1>2
<1>3c. PICK b7 \in {0, 1}, b8 \in {0, 1}, b9 \in {0, 1} :
        bits[9 * i - 9 + 7] = b7 /\ bits[9 * i - 9 + 8] = b8 /\ bits[9 * i - 9 + 9] = b9
  BY <1>2
<1>4. WordAt(bits, i) =
        256 * b1 + 128 * b2 + 64 * b3 + 32 * b4 + 16 * b5 + 8 * b6 + 4 * b7 + 2 * b8 + b9
  <2>1. WordAt(bits, i) =
          256 * bits[9 * i - 9 + 1] + 128 * bits[9 * i - 9 + 2] + 64 * bits[9 * i - 9 + 3]
          + 32 * bits[9 * i - 9 + 4] + 16 * bits[9 * i - 9 + 5] + 8 * bits[9 * i - 9 + 6]
          + 4 * bits[9 * i - 9 + 7] + 2 * bits[9 * i - 9 + 8] + bits[9 * i - 9 + 9]
    BY Zenon DEF WordAt
  <2>2. QED
    BY <1>3a, <1>3b, <1>3c, <2>1, Zenon
<1>5. WordAt(bits, i) % 2 = b9
  <2>1. (256 * b1 + 128 * b2 + 64 * b3 + 32 * b4 + 16 * b5 + 8 * b6 + 4 * b7 + 2 * b8 + b9) % 2
        = b9
    OBVIOUS
  <2>2. QED
    BY <1>4, <2>1
<1>6. 9 * i - 9 + 9 = 9 * i
  OBVIOUS
<1>7. QED
  BY <1>3a, <1>3b, <1>3c, <1>5, <1>6

LEMMA SymbolRead ==
  ASSUME NEW text \in Seq(0..255), NEW w, SentWords(text, w),
         NEW written, Written(w, Len(text), written),
         NEW bits \in Seq({0, 1}), Len(bits) = 9 * Len(text), NEW i \in 1..Len(text),
         \A x \in 1..Len(bits) : x \in (9 * i - 9)..(9 * i) => bits[x] = written[x]
  PROVE  Demodulate(bits, Len(text))[i] = text[i]
<1>1. PICK n \in Nat : n = Len(text)
  OBVIOUS
<1>2. i \in 1..n /\ i - 1 \in 0..n /\ text[i] \in 0..255
  BY <1>1
<1>3. PICK c : c = rll_encode[text[i]]
  OBVIOUS
<1>4. c \in CodeWords /\ rll_decode[c] = text[i]
  BY <1>2, <1>3, TableInverted
<1>5. PICK v : v = w[i - 1]
  OBVIOUS
<1>6. /\ IsWord(v) /\ IsWord(w[i]) /\ w[i] = Inverted(c, v)
      /\ i = 1 => v = 0
  <2>1. \A j \in 0..n : IsWord(w[j])
    BY <1>1 DEF SentWords
  <2>2. w[i] = Inverted(rll_encode[text[i]], w[i - 1]) /\ w[0] = 0
    BY <1>1, <1>2 DEF SentWords
  <2>3. QED
    BY <1>2, <1>3, <1>5, <2>1, <2>2
<1>7. v \in 0..RLL_MASK /\ v \in 0..511
  BY <1>6 DEF IsWord, RLL_MASK
<1>8. \A k \in 1..9 : bits[9 * i - 9 + k] = BitsOf(w[i])[k]
  <2>1. SUFFICES ASSUME NEW k \in 1..9
                 PROVE  bits[9 * i - 9 + k] = BitsOf(w[i])[k]
    OBVIOUS
  <2>2. 9 * i - 9 + k \in 1..Len(bits) /\ 9 * i - 9 + k \in (9 * i - 9)..(9 * i)
    BY <1>1, <1>2
  <2>3. written[9 * i - 9 + k] = BitsOf(w[i])[k]
    BY <1>1, <1>2 DEF Written
  <2>4. QED
    BY <2>2, <2>3
<1>9. WordAt(bits, i) = w[i]
  <2>1. i \in Nat
    BY <1>2
  <2>2. QED
    BY <1>6, <1>8, <2>1, WordRead, Zenon
<1> DEFINE last == IF i = 1 THEN 0 ELSE WordAt(bits, i - 1)
<1>10. last % 2 = v % 2
  <2>1. CASE i = 1
    BY <1>6, <2>1
  <2>2. CASE i # 1
    <3>1. i - 1 \in 1..n /\ 9 * (i - 1) = 9 * i - 9 /\ 9 * (i - 1) - 9 + 9 = 9 * i - 9
          /\ 9 * i - 9 \in 1..Len(bits) /\ 9 * i - 9 \in (9 * i - 9)..(9 * i)
      BY <1>1, <1>2, <2>2
    <3>2. WordAt(bits, i - 1) % 2 = bits[9 * i - 9]
      BY <1>1, <3>1, LastBitRead
    <3>3. bits[9 * i - 9] = written[9 * i - 9]
      BY <3>1
    <3>4. written[9 * (i - 1) - 9 + 9] = BitsOf(w[i - 1])[9]
      <4>1. PICK j \in 1..n : j = i - 1
        BY <3>1
      <4>2. written[9 * j - 9 + 9] = BitsOf(w[j])[9]
        BY <1>1 DEF Written
      <4>3. QED
        BY <4>1, <4>2
    <3>5. BitsOf(v)[9] = v % 2
      BY <1>6, BitsOfWord
    <3>6. QED
      BY <1>5, <2>2, <3>1, <3>2, <3>3, <3>4, <3>5
  <2>3. QED
    BY <2>1, <2>2
<1>11. Inverted(w[i], last) = c
  <2>1. Inverted(w[i], last) = Inverted(w[i], v)
    <3> HIDE DEF last
    <3> QED
      BY <1>10 DEF Inverted
  <2>2. Inverted(Inverted(c, v), v) = c
    BY <1>4, <1>7, CodeWordRuns
  <2>3. QED
    BY <1>6, <2>1, <2>2
<1>12. Demodulate(bits, n)[i] = rll_decode[Inverted(WordAt(bits, i), last)]
  BY <1>2, Zenon DEF Demodulate
<1>13. QED
  BY <1>1, <1>4, <1>9, <1>11, <1>12

LEMMA DemodulatedLength ==
  ASSUME NEW n \in Nat, NEW bits
  PROVE  Len(Demodulate(bits, n)) = n /\ DOMAIN Demodulate(bits, n) = 1..n
<1>1. DOMAIN Demodulate(bits, n) = 1..n
  BY DEF Demodulate
<1>2. PICK d : d = Demodulate(bits, n)
  OBVIOUS
<1>3. d = [i \in 1..n |-> d[i]]
  BY <1>2 DEF Demodulate
<1>4. QED
  BY <1>1, <1>2, <1>3

(* Of any seven bits that are written one after the other, one differs     *)
(* from the first.                                                         *)
LEMMA WrittenRuns ==
  ASSUME NEW text \in Seq(0..255), NEW w, SentWords(text, w),
         NEW written, Written(w, Len(text), written),
         NEW p \in 1..(9 * Len(text) - MaxRun)
  PROVE  \E j \in (p + 1)..(p + MaxRun) : written[j] # written[p]
<1>1. PICK n \in Nat : n = Len(text)
  OBVIOUS
<1>2. PICK a \in 1..n, k \in 1..9 : p = 9 * a - 9 + k
  <2>1. p \in 1..(9 * n - 6)
    BY <1>1 DEF MaxRun
  <2>2. PICK q \in Nat, r \in 0..8 : p - 1 = 9 * q + r
    <3>1. p - 1 \in Nat /\ 9 \in Nat \ {0}
      BY <2>1
    <3>2. (p - 1) \div 9 \in Nat /\ (p - 1) % 9 \in 0..8 /\ p - 1 = 9 * ((p - 1) \div 9) + ((p - 1) % 9)
      BY <3>1
    <3>3. QED
      BY <3>2
  <2>3. q + 1 \in 1..n /\ r + 1 \in 1..9 /\ p = 9 * (q + 1) - 9 + (r + 1)
    BY <2>1, <2>2
  <2>4. QED
    BY <2>3
<1>3. SUFFICES ASSUME \A j \in (p + 1)..(p + 6) : written[j] = written[p]
               PROVE  FALSE
  BY DEF MaxRun
<1>4. p + 6 <= 9 * n
  BY <1>1 DEF MaxRun
<1>5. \A i \in 1..n : \A l \in 1..9 : written[9 * i - 9 + l] = BitsOf(w[i])[l]
  BY <1>1 DEF Written
<1>6. \A i \in 1..n : /\ IsWord(w[i - 1]) /\ IsWord(w[i])
                      /\ NoLongRun(BitsOf(w[i]), w[i - 1] % 2)
  <2>1. SUFFICES ASSUME NEW i \in 1..n
                 PROVE  /\ IsWord(w[i - 1]) /\ IsWord(w[i])
                        /\ NoLongRun(BitsOf(w[i]), w[i - 1] % 2)
    OBVIOUS
  <2>2. IsWord(w[i - 1]) /\ IsWord(w[i]) /\ w[i] = Inverted(rll_encode[text[i]], w[i - 1])
    <3>1. i \in 0..n /\ i - 1 \in 0..n
      OBVIOUS
    <3>2. QED
      BY <1>1, <3>1 DEF SentWords
  <2>3. rll_encode[text[i]] \in CodeWords
    <3>1. text[i] \in 0..255
      BY <1>1
    <3>2. QED
      BY <3>1, TableInverted
  <2>4. w[i - 1] \in 0..RLL_MASK
    BY <2>2 DEF IsWord
  <2>5. QED
    BY <2>2, <2>3, <2>4, CodeWordRuns
<1>7. PICK b : b = BitsOf(w[a])
  OBVIOUS
<1>8. NoLongRun(b, w[a - 1] % 2) /\ \A l \in 1..9 : written[9 * a - 9 + l] = b[l]
  BY <1>5, <1>6, <1>7
<1>9. ASSUME NEW l \in 1..9, l \in k..(k + 6)
      PROVE  b[l] = written[p]
  <2>1. written[9 * a - 9 + l] = b[l]
    BY <1>8
  <2>2. 9 * a - 9 + l = p \/ 9 * a - 9 + l \in (p + 1)..(p + 6)
    BY <1>2, <1>9
  <2>3. QED
    BY <1>3, <2>1, <2>2
<1>10. CASE k \in 3..7
  <2>1. b[7] = written[p] /\ b[8] = written[p] /\ b[9] = written[p]
    BY <1>9, <1>10
  <2>2. QED
    BY <1>8, <2>1 DEF NoLongRun
<1>11. CASE k = 1
  <2>1. \A l \in 1..7 : b[l] = written[p]
    BY <1>9, <1>11
  <2>2. QED
    BY <1>8, <2>1 DEF NoLongRun
<1>12. CASE k = 2
  <2>1. \A l \in 2..8 : b[l] = written[p]
    BY <1>9, <1>12
  <2>2. QED
    BY <1>8, <2>1 DEF NoLongRun
<1>13. CASE k \in {8, 9}
  <2>1. PICK d \in 1..n : d = a + 1 /\ d - 1 = a
    BY <1>2, <1>4, <1>13
  <2>2. PICK c : c = BitsOf(w[d])
    OBVIOUS
  <2>3. NoLongRun(c, w[a] % 2) /\ \A l \in 1..9 : written[9 * d - 9 + l] = c[l]
    <3>1. NoLongRun(BitsOf(w[d]), w[d - 1] % 2)
      BY <1>6
    <3>2. QED
      BY <1>5, <2>1, <2>2, <3>1
  <2>4. w[a] % 2 = written[p]
    <3>1. b[9] = written[p]
      BY <1>9, <1>13
    <3>2. QED
      BY <1>6, <1>7, <3>1, BitsOfWord
  <2>5. \A l \in 1..5 : c[l] = written[p]
    <3>1. SUFFICES ASSUME NEW l \in 1..5
                   PROVE  c[l] = written[p]
      OBVIOUS
    <3>2. 9 * d - 9 + l \in (p + 1)..(p + 6)
      BY <1>2, <1>13, <2>1
    <3>3. written[9 * d - 9 + l] = written[p]
      BY <1>3, <3>2
    <3>4. l \in 1..9
      OBVIOUS
    <3>5. QED
      BY <2>3, <3>3, <3>4
  <2>6. QED
    BY <2>3, <2>4, <2>5 DEF NoLongRun
<1>14. QED
  BY <1>10, <1>11, <1>12, <1>13

-----------------------------------------------------------------------------
(* The bits on the tape are those of the buffer that was sent except the   *)
(* damaged ones, and what came out is what they are demodulated to.        *)
RllInv ==
  /\ rllSent \in Seq(0..255)
  /\ rllSent # <<>> => encCaps # NoCaps /\ Len(rllSent) = RllTable[encCaps].capacity
  /\ onTape \in Seq({0, 1}) /\ Len(onTape) = 9 * Len(rllSent)
  /\ \A x \in 1..Len(onTape) : x \notin rllFlips => onTape[x] = Modulate(rllSent)[x]
  /\ rllOut # <<>> => rllSent # <<>> /\ rllOut = Demodulate(onTape, Len(rllSent))

LEMMA RllInvHoldsInitially == RllInit => RllInv
<1>1. SUFFICES ASSUME RllInit PROVE RllInv
  OBVIOUS
<1>2. rllSent = <<>> /\ onTape = <<>> /\ rllOut = <<>>
  BY <1>1 DEF RllInit
<1>3. rllSent \in Seq(0..255) /\ onTape \in Seq({0, 1})
      /\ Len(rllSent) = 0 /\ Len(onTape) = 0
  BY <1>2
<1>4. QED
  BY <1>2, <1>3 DEF RllInv

LEMMA EncChainKeeps == RllInv /\ EncChain => RllInv'
<1>1. SUFFICES ASSUME RllInv, EncChain PROVE RllInv'
  OBVIOUS
<1>2. PICK text \in Texts : /\ Len(text) = RllTable[encCaps].capacity
                            /\ rllSent' = text /\ onTape' = Modulate(text)
  BY <1>1 DEF EncChain
<1>3. encCaps # NoCaps /\ rllSent = <<>>
      /\ encCaps' = encCaps /\ rllFlips' = rllFlips /\ rllOut' = rllOut
  BY <1>1 DEF EncChain
<1>4. text \in Seq(0..255)
  BY RllAssumption
<1>5. Modulate(text) \in Seq({0, 1}) /\ Len(Modulate(text)) = 9 * Len(text)
  BY <1>4, Modulated DEF Written
<1>6. rllOut' = <<>>
  BY <1>1, <1>3 DEF RllInv
<1>7. QED
  BY <1>2, <1>3, <1>4, <1>5, <1>6 DEF RllInv, NoCaps

LEMMA FlipKeeps == ASSUME NEW i, RllInv, Flip(i) PROVE RllInv'
<1>1. /\ i \in DOMAIN onTape /\ rllOut = <<>> /\ rllFlips' = rllFlips \union {i}
      /\ onTape' = [onTape EXCEPT ![i] = 1 - @]
      /\ encCaps' = encCaps /\ rllSent' = rllSent /\ rllOut' = rllOut
  BY DEF Flip
<1>2. PICK t : t = onTape
  OBVIOUS
<1>3. t \in Seq({0, 1}) /\ i \in 1..Len(t) /\ t[i] \in {0, 1}
  BY <1>1, <1>2 DEF RllInv
<1>4. PICK u : u = [t EXCEPT ![i] = 1 - @]
  OBVIOUS
<1>5. u \in Seq({0, 1}) /\ Len(u) = Len(t)
      /\ \A x \in 1..Len(t) : x # i => u[x] = t[x]
  <2>1. 1 - t[i] \in {0, 1}
    BY <1>3
  <2>2. QED
    BY <1>3, <1>4, <2>1
<1>6. onTape' = u
  BY <1>1, <1>2, <1>4
<1>7. QED
  BY <1>1, <1>2, <1>5, <1>6 DEF RllInv, NoCaps

LEMMA DecChainKeeps == RllInv /\ DecChain => RllInv'
<1>1. SUFFICES ASSUME RllInv, DecChain PROVE RllInv'
  OBVIOUS
<1>2. /\ onTape # <<>> /\ decCaps = encCaps
      /\ rllOut' = Demodulate(onTape, RllTable[decCaps].capacity)
      /\ encCaps' = encCaps /\ rllSent' = rllSent /\ onTape' = onTape /\ rllFlips' = rllFlips
  BY <1>1 DEF DecChain
<1>3. rllSent # <<>>
  <2>1. SUFFICES ASSUME rllSent = <<>> PROVE FALSE
    OBVIOUS
  <2>2. onTape \in Seq({0, 1}) /\ Len(onTape) = 0
    BY <1>1, <2>1 DEF RllInv
  <2>3. QED
    BY <1>2, <2>2
<1>4. RllTable[decCaps].capacity = Len(rllSent)
  BY <1>1, <1>2, <1>3 DEF RllInv
<1>5. QED
  BY <1>1, <1>2, <1>3, <1>4 DEF RllInv, NoCaps

LEMMA RllStepKeeps == RllInv /\ [RllNext]_rllVars => RllInv'
<1>1. SUFFICES ASSUME RllInv, [RllNext]_rllVars PROVE RllInv'
  OBVIOUS
<1>2. ASSUME NEW caps \in RllCaps, EncSetcaps(caps)
      PROVE  RllInv'
  BY <1>1, <1>2 DEF RllInv, EncSetcaps, NoCaps
<1>3. CASE DecSetcaps
  BY <1>1, <1>3 DEF RllInv, DecSetcaps, NoCaps
<1>4. CASE EncChain
  BY <1>1, <1>4, EncChainKeeps
<1>5. ASSUME NEW i \in DOMAIN onTape, Flip(i)
      PROVE  RllInv'
  BY <1>1, <1>5, FlipKeeps
<1>6. CASE DecChain
  BY <1>1, <1>6, DecChainKeeps
<1>7. CASE UNCHANGED rllVars
  BY <1>1, <1>7 DEF RllInv, rllVars, NoCaps
<1>8. QED
  BY <1>1, <1>2, <1>3, <1>4, <1>5, <1>6, <1>7 DEF RllNext

(* The codec alone, and beside the other algorithms.                       *)
THEOREM RllInvariance == RllSpec => []RllInv
BY RllInvHoldsInitially, RllStepKeeps, PTL DEF RllSpec

(* The other algorithms leave the variables of the codec alone: its        *)
(* invariant holds beside them too.                                        *)
THEOREM RllInvarianceInCodes == Spec => []RllInv
<1>1. Init => RllInv
  BY RllInvHoldsInitially DEF Init
<1>2. RllInv /\ [Next]_vars => RllInv'
  BY RllStepKeeps DEF Next, RsStep, RllStep, vars
<1>3. QED
  BY <1>1, <1>2, PTL DEF Spec

(* A damaged bit costs no more than the symbol it is in and, if it is the  *)
(* last bit of it, the next one, whatever the buffer and however many bits *)
(* are damaged in it: enc_chain() and dec_chain() with the modulation.     *)
THEOREM BitErrorsStayLocalAlways == (RllSpec \/ Spec) => []BitErrorsStayLocal
<1>1. RllInv => BitErrorsStayLocal
  <2>1. SUFFICES ASSUME RllInv, rllOut # <<>>
                 PROVE  /\ Len(rllOut) = Len(rllSent)
                        /\ \A i \in DOMAIN rllOut :
                             rllOut[i] # rllSent[i] =>
                               \E bit \in rllFlips : bit \in (9 * i - 9)..(9 * i)
    BY DEF BitErrorsStayLocal
  <2>2. /\ rllSent \in Seq(0..255) /\ onTape \in Seq({0, 1}) /\ Len(onTape) = 9 * Len(rllSent)
        /\ \A x \in 1..Len(onTape) : x \notin rllFlips => onTape[x] = Modulate(rllSent)[x]
        /\ rllOut = Demodulate(onTape, Len(rllSent))
    BY <2>1 DEF RllInv
  <2>3. Len(rllSent) \in Nat
    BY <2>2
  <2>4. Len(rllOut) = Len(rllSent) /\ DOMAIN rllOut = 1..Len(rllSent)
    BY <2>2, <2>3, DemodulatedLength
  <2>5. PICK w : SentWords(rllSent, w) /\ Written(w, Len(rllSent), Modulate(rllSent))
    BY <2>2, Modulated
  <2>6. ASSUME NEW i \in 1..Len(rllSent),
               ~ \E bit \in rllFlips : bit \in (9 * i - 9)..(9 * i)
        PROVE  rllOut[i] = rllSent[i]
    <3>1. \A x \in 1..Len(onTape) :
            x \in (9 * i - 9)..(9 * i) => onTape[x] = Modulate(rllSent)[x]
      BY <2>2, <2>6
    <3>2. QED
      BY <2>2, <2>5, <3>1, SymbolRead
  <2>7. QED
    BY <2>4, <2>6
<1>2. QED
  BY <1>1, RllInvariance, RllInvarianceInCodes, PTL

(* What the encoder writes stays at one level for no more than MaxRun      *)
(* bits, in buffers of every length and content.                           *)
THEOREM RunsAreShortAlways == (RllSpec \/ Spec) => []RunsAreShort
<1>1. RllInv => RunsAreShort
  <2>1. SUFFICES ASSUME RllInv, rllFlips = {}, NEW i \in 1..(Len(onTape) - MaxRun)
                 PROVE  \E j \in (i + 1)..(i + MaxRun) : onTape[j] # onTape[i]
    BY DEF RunsAreShort
  <2>2. /\ rllSent \in Seq(0..255) /\ onTape \in Seq({0, 1}) /\ Len(onTape) = 9 * Len(rllSent)
        /\ \A x \in 1..Len(onTape) : onTape[x] = Modulate(rllSent)[x]
    BY <2>1 DEF RllInv
  <2>3. PICK w : SentWords(rllSent, w) /\ Written(w, Len(rllSent), Modulate(rllSent))
    BY <2>2, Modulated
  <2>4. PICK j \in (i + 1)..(i + MaxRun) : Modulate(rllSent)[j] # Modulate(rllSent)[i]
    BY <2>1, <2>2, <2>3, WrittenRuns
  <2>5. Len(onTape) \in Nat
    BY <2>2
  <2>6. i \in 1..Len(onTape) /\ j \in 1..Len(onTape)
    BY <2>4, <2>5 DEF MaxRun
  <2>7. QED
    BY <2>2, <2>4, <2>6
<1>2. QED
  BY <1>1, RllInvariance, RllInvarianceInCodes, PTL

-----------------------------------------------------------------------------
LEMMA KeyBytesDiffer == KeyIsDistinct
<1>1. ASSUME NEW i \in 1..32, NEW j \in 1..32, SectorKey[i] = SectorKey[j]
      PROVE  i = j
  BY <1>1 DEF SectorKey
<1>2. DOMAIN SectorKey = 1..32
  BY DEF SectorKey
<1>3. \A i \in 1..32 : SectorKey[i] \notin {Leader, Trailer}
  BY DEF SectorKey, Leader, Trailer
<1>4. QED
  BY <1>1, <1>2, <1>3 DEF KeyIsDistinct

(* A table has its four rows for the four pairs of a video mode and a      *)
(* density.                                                                *)
LEMMA FourRows ==
  ASSUME NEW mode \in Modes, NEW a, NEW b, NEW c, NEW d
  PROVE  Row(mode, <<a, b, c, d>>) =
           IF mode.density = "HIGH" THEN (IF mode.video = "PAL" THEN d ELSE c)
                                    ELSE (IF mode.video = "PAL" THEN b ELSE a)
BY DEF Row

LEMMA ModeParts ==
  ASSUME NEW mode \in Modes
  PROVE  /\ mode.video = "NTSC" \/ mode.video = "PAL"
         /\ mode.density = "LOW" \/ mode.density = "HIGH"
         /\ mode.sector = "EP" \/ mode.sector = "SP"
BY DEF Modes, VideoModes, Densities, SectorFormats

(* The rows as records, for the provers to compute with.                   *)
LEMMA FrameRowIs ==
  ASSUME NEW mode \in Modes
  PROVE  FrameFormat(mode) =
    IF mode.sector = "EP"
    THEN IF mode.density = "HIGH"
         THEN (IF mode.video = "PAL" THEN FrameRow(3050, 0, 120, 90, 2840, 91, 32)
                                     ELSE FrameRow(2530, 10, 100, 70, 2360, 84, 29))
         ELSE (IF mode.video = "PAL" THEN FrameRow(1220, 0, 48, 36, 1136, 40, 29)
                                     ELSE FrameRow(1012, 4, 40, 32, 940, 44, 22))
    ELSE IF mode.density = "HIGH"
         THEN (IF mode.video = "PAL" THEN FrameRow(3050, 0, 100, 90, 2860, 136, 22)
                                     ELSE FrameRow(2530, 10, 80, 70, 2380, 125, 20))
         ELSE (IF mode.video = "PAL" THEN FrameRow(1220, 0, 40, 36, 1144, 49, 24)
                                     ELSE FrameRow(1012, 4, 32, 28, 952, 45, 22))
BY FourRows DEF FrameFormat

LEMMA SplpRowIs ==
  ASSUME NEW mode \in Modes
  PROVE  SplpFormat(mode) =
    IF mode.sector = "EP"
    THEN IF mode.density = "HIGH"
         THEN (IF mode.video = "PAL" THEN SplpRow(2288, 208, 2284, 26)
                                     ELSE SplpRow(1848, 224, 1844, 28))
         ELSE (IF mode.video = "PAL" THEN SplpRow(888, 96, 884, 12)
                                     ELSE SplpRow(720, 96, 716, 12))
    ELSE IF mode.density = "HIGH"
         THEN (IF mode.video = "PAL" THEN SplpRow(2618, 220, 2614, 22)
                                     ELSE SplpRow(2160, 200, 2156, 20))
         ELSE (IF mode.video = "PAL" THEN SplpRow(980, 140, 976, 14)
                                     ELSE SplpRow(830, 100, 826, 10))
BY FourRows DEF SplpFormat

LEMMA FieldsHaveTheirParts ==
  ASSUME NEW mode \in Modes
  PROVE  /\ FrameFormatOK(FrameFormat(mode))
         /\ GapsAreShort(FrameFormat(mode))
         /\ FrameFormat(mode).key_length <= Len(SectorKey)
<1>1. FrameFormatOK(FrameFormat(mode))
  BY FrameRowIs DEF FrameRow, FrameFormatOK, LastChunk
<1>2. GapsAreShort(FrameFormat(mode))
  BY FrameRowIs DEF FrameRow, GapsAreShort
<1>3. Len(SectorKey) = 32
  BY DEF SectorKey
<1>4. FrameFormat(mode).key_length <= 32
  BY FrameRowIs DEF FrameRow
<1>5. QED
  BY <1>1, <1>2, <1>3, <1>4

LEMMA SectorsHaveTheirParts ==
  ASSUME NEW mode \in Modes
  PROVE  SplpFormatOK(SplpFormat(mode))
BY SplpRowIs DEF SplpRow, SplpFormatOK, SplpCode, CodecAccepts

LEMMA PictureHoldsTheField ==
  ASSUME NEW mode \in Modes
  PROVE  LET frame == FrameFormat(mode)
             video == VideoOutFormat(mode)
         IN  /\ ModeToFrameSize(mode) = 2 * frame.field_size + frame.interlace
             /\ video.height * video.bytes_per_line = frame.field_size
             /\ video.interlace * video.bytes_per_line = frame.interlace
             /\ TransformCaps(mode) \in TemplateCaps
             /\ DrawnBytes(mode, video.height + video.interlace) = BytesInImage(video)
<1> DEFINE frame == FrameFormat(mode)
           video == VideoOutFormat(mode)
<1>1. ModeToFrameSize(mode) = 2 * frame.field_size + frame.interlace
  BY FrameRowIs, FourRows DEF FrameRow, ModeToFrameSize
<1>2. video.height * video.bytes_per_line = frame.field_size
  BY FrameRowIs, ModeParts DEF FrameRow, VideoOutFormat
<1>3. video.interlace * video.bytes_per_line = frame.interlace
  BY FrameRowIs, ModeParts DEF FrameRow, VideoOutFormat
<1>4. TransformCaps(mode) \in TemplateCaps
  BY ModeParts DEF TransformCaps, VideoOutFormat, TemplateCaps
<1>5. DrawnBytes(mode, video.height + video.interlace) = BytesInImage(video)
  BY ModeParts DEF DrawnBytes, BytesInImage, VideoOutFormat
<1>6. QED
  BY <1>1, <1>2, <1>3, <1>4, <1>5

LEMMA BuffersFit ==
  ASSUME NEW mode \in Modes
  PROVE  LET splp  == SplpFormat(mode)
             coded == splp.data_size + splp.parity_size
         IN  IF mode.sector = "EP"
             THEN /\ RllBuffer(mode) = coded
                  /\ 8 * RllFormat(mode).modulation_pad = coded
                  /\ coded + RllFormat(mode).modulation_pad = FrameBuffer(mode)
                  /\ Ecc2Capacity(mode) = splp.capacity
                  /\ CodecAccepts(Ecc2Code(mode)[1], Ecc2Code(mode)[2])
             ELSE coded = FrameBuffer(mode)
<1> DEFINE splp  == SplpFormat(mode)
           coded == splp.data_size + splp.parity_size
<1>1. CASE mode.sector = "EP"
  <2>1. RllFormat(mode) =
          IF mode.density = "HIGH"
          THEN (IF mode.video = "PAL" THEN [capacity |-> 2496, modulation_pad |-> 312]
                                      ELSE [capacity |-> 2072, modulation_pad |-> 259])
          ELSE (IF mode.video = "PAL" THEN [capacity |->  984, modulation_pad |-> 123]
                                      ELSE [capacity |->  816, modulation_pad |-> 102])
    BY FourRows DEF RllFormat
  <2>2. RllBuffer(mode) = coded /\ 8 * RllFormat(mode).modulation_pad = coded
    BY <1>1, <2>1, SplpRowIs DEF SplpRow, RllBuffer
  <2>3. coded + RllFormat(mode).modulation_pad = FrameBuffer(mode)
    BY <1>1, <2>1, SplpRowIs, FrameRowIs DEF SplpRow, FrameRow, FrameBuffer, FieldData
  <2>4. Ecc2Capacity(mode) = splp.capacity
    BY <1>1, SplpRowIs, FourRows DEF SplpRow, Ecc2Capacity
  <2>5. Ecc2Capacity(mode) \in {716, 884, 1844, 2284}
    BY FourRows DEF Ecc2Capacity
  <2>6. CodecAccepts(Ecc2Code(mode)[1], Ecc2Code(mode)[2])
    BY <2>5 DEF CodecAccepts, Ecc2Code, Ecc2GroupSize, BlockSize, Parity
  <2>7. QED
    BY <1>1, <2>2, <2>3, <2>4, <2>6
<1>2. CASE mode.sector # "EP"
  BY <1>2, SplpRowIs, FrameRowIs DEF SplpRow, FrameRow, FrameBuffer, FieldData
<1>3. QED
  BY <1>1, <1>2

(* The numbers of the tables fit together in every mode: what a field of   *)
(* bkr_frame.c holds is what bkr_splp.c and bkr_ecc2.c fill, the driver's  *)
(* and the display's fields are as long, and no two bytes of the sector    *)
(* key are the same.                                                       *)
THEOREM TablesFit == KeyIsDistinct /\ \A mode \in Modes : FitsIn(mode)
<1>1. ASSUME NEW mode \in Modes PROVE FitsIn(mode)
  BY FieldsHaveTheirParts, SectorsHaveTheirParts, PictureHoldsTheField, BuffersFit
     DEF FitsIn
<1>2. QED
  BY <1>1, KeyBytesDiffer

(* In every mode the numbers of the six tables fit together, and the bytes *)
(* of the sector key differ: compute_format() of every element and         *)
(* bkr_mode_to_frame_size(), for all the modes the run may choose from.    *)
THEOREM StackFitsAlways == Spec => []StackFits
<1>1. Init => compared \subseteq Modes
  BY DEF Init
<1>2. compared \subseteq Modes /\ [Next]_vars => (compared \subseteq Modes)'
  BY DEF Next, RsStep, RllStep, vars
<1>3. compared \subseteq Modes => StackFits
  BY TablesFit DEF StackFits
<1>4. QED
  BY <1>1, <1>2, <1>3, PTL DEF Spec
=============================================================================

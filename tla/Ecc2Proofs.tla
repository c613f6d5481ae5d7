------------------------------ MODULE Ecc2Proofs ------------------------------
(***************************************************************************)
(* The sector groups of ECC2, for every size of a group and of its         *)
(* parity, and every pattern of refused buffers, failed allocations and    *)
(* sectors that are missing or bad: MaxFaults may be any number, and the   *)
(* only limit is that of the model, which leaves a decoder alone once it   *)
(* has more erasures before it decodes a group than its list can hold.     *)
(***************************************************************************)
EXTENDS Ecc2Stream, ListLemmas

-----------------------------------------------------------------------------
(* The encoder: until the last flush is done, every group is a full one.   *)
FileByte == Nat \ {0}

AllFull == \A i \in 1..Len(sent) : Len(sent[i]) = GroupCapacity

EncTypes ==
  /\ phase \in {"running", "ending", "done", "broken"}
  /\ input \in Nat
  /\ lost \in Nat
  /\ adapter \in Seq(FileByte)
  /\ sent \in Seq(Group)
  /\ \A i \in 1..Len(sent) : Len(sent[i]) \in 1..GroupCapacity

EncInv ==
  /\ EncTypes
  /\ phase # "done" => AllFull
  /\ GroupsHoldTheInput

-----------------------------------------------------------------------------
(* The decoder: the sectors it has collected are in their places, counted  *)
(* from the first sector of the stream.                                    *)
InPlace(s, p) ==
  \/ s = Padding /\ p \in missing
  \/ s = SectorAt(p, s.wrong)

(* The sectors of the groups passed on and those in the adapter are what   *)
(* has been played.  A group that is complete is only still there when the *)
(* last sector was missing, and nothing but such sectors is there beyond a *)
(* group.  Each of them is in the list of erasures, so that there are no   *)
(* more than Parity; a group that is decoded then is not all missing.      *)
Collecting ==
  /\ played = BlockSize * Len(delivered) + Len(collected)
  /\ \A k \in 1..Len(collected) :
       InPlace(collected[k], BlockSize * Len(delivered) + k - 1)
  /\ Len(collected) >= BlockSize => played - 1 \in missing
  /\ Len(collected) < BlockSize + Len(erasure)
  /\ \/ \E k \in 1..Len(collected) : k < BlockSize /\ collected[k].group # <<>>
     \/ Len(collected) <= Len(erasure)

LinkInv ==
  /\ played \in 0..(Len(sent) * BlockSize)
  /\ announced \in BOOLEAN
  /\ announced => SectorsLeft
  /\ phase \in {"running", "ending"} => played = 0 /\ ~announced
  /\ IsFiniteSet(missing) /\ IsFiniteSet(damaged)
  /\ Cardinality(missing) + Cardinality(damaged) <= MaxFaults

DecInv ==
  /\ IsList(collected) /\ IsList(delivered) /\ IsList(erasure)
  /\ stopped \in BOOLEAN /\ eosSeen \in BOOLEAN
  /\ phase \in {"running", "ending"} => collected = <<>> /\ delivered = <<>> /\ ~eosSeen
  /\ ~stopped => Collecting
  /\ eosSeen => ~stopped /\ ~SectorsLeft
  /\ BuffersAreGroups

StreamInv == EncInv /\ LinkInv /\ DecInv

-----------------------------------------------------------------------------
(* Sizes.                                                                  *)
LEMMA Capacity == GroupCapacity \in Nat \ {0}
<1> DEFINE d == DataSectors * SectorBytes
<1>1. DataSectors \in Nat /\ SectorBytes \in Nat /\ HeaderSize \in Nat
  BY GroupAssumption DEF DataSectors
<1>2. d \in Nat
  BY <1>1
<1>3. d > HeaderSize
  BY GroupAssumption DEF DataSectors
<1> HIDE DEF d
<1>4. d - HeaderSize \in Nat \ {0}
  BY <1>1, <1>2, <1>3
<1>5. QED
  BY <1>4 DEF GroupCapacity, d

LEMMA Times ==
  ASSUME NEW a \in Nat, NEW b \in Nat, NEW c \in Nat
  PROVE  /\ a * c \in Nat
         /\ a <= b => a * c <= b * c
         /\ (a + 1) * c = a * c + c
         /\ (a + b) * c = a * c + b * c
<1>1. a * c \in Nat /\ (a + 1) * c = a * c + c /\ (a + b) * c = a * c + b * c
  OBVIOUS
<1>2. ASSUME a <= b
      PROVE  a * c <= b * c
  <2>1. PICK d \in Nat : b = a + d
    <3>1. b - a \in Nat /\ b = a + (b - a)
      BY <1>2
    <3>2. QED
      BY <3>1
  <2>2. d * c \in Nat /\ b * c = a * c + d * c
    BY <2>1
  <2>3. QED
    BY <1>1, <2>2
<1>3. QED
  BY <1>1, <1>2

LEMMA MinOfTwo ==
  ASSUME NEW a \in Nat, NEW b \in Nat
  PROVE  Min({a, b}) = IF a <= b THEN a ELSE b
<1> DEFINE S == {a, b}
<1>1. S \in SUBSET Nat /\ S # {}
  OBVIOUS
<1> HIDE DEF S
<1>2. Min(S) \in S /\ \A y \in S : Min(S) <= y
  BY <1>1, MinExists
<1>3. QED
  BY <1>2 DEF S

(* The bytes behind n groups.                                              *)
LEMMA AfterGroups ==
  ASSUME NEW bytes \in Seq(FileByte), NEW n \in Nat
  PROVE  /\ After(bytes, n) \in Seq(FileByte)
         /\ n * GroupCapacity \in Nat
         /\ n * GroupCapacity <= Len(bytes)
              => Len(After(bytes, n)) = Len(bytes) - n * GroupCapacity
         /\ n * GroupCapacity >= Len(bytes) => Len(After(bytes, n)) = 0
         /\ \A j \in 1..(Len(bytes) - n * GroupCapacity) :
              After(bytes, n)[j] = bytes[n * GroupCapacity + j]
<1>1. PICK m \in Nat : m = n * GroupCapacity
  BY Capacity, Times
<1>2. After(bytes, n) = SubSeq(bytes, m + 1, Len(bytes))
  BY <1>1 DEF After
<1>3. m >= Len(bytes) => Len(SubSeq(bytes, m + 1, Len(bytes))) = 0
  BY <1>1
<1>4. QED
  BY <1>1, <1>2, <1>3, PartsTyped

(* A group that is cut off: as much as there is, and as fits.              *)
LEMMA OneGroup ==
  ASSUME NEW bytes \in Seq(FileByte), NEW n \in Nat, n * GroupCapacity < Len(bytes)
  PROVE  LET group == UpTo(After(bytes, n), 1)
             left  == Len(bytes) - n * GroupCapacity
         IN  /\ group \in Group
             /\ Len(group) = (IF GroupCapacity <= left THEN GroupCapacity ELSE left)
             /\ Len(group) \in 1..GroupCapacity
             /\ \A j \in 1..Len(group) : group[j] = bytes[n * GroupCapacity + j]
<1>1. PICK c \in Nat \ {0} : c = GroupCapacity
  BY Capacity
<1>2. PICK m \in Nat : m = n * GroupCapacity
  BY AfterGroups
<1>3. PICK rest : rest = After(bytes, n)
  OBVIOUS
<1>4. /\ rest \in Seq(FileByte) /\ Len(rest) = Len(bytes) - m /\ Len(bytes) \in Nat
      /\ m < Len(bytes)
      /\ \A j \in 1..(Len(bytes) - m) : rest[j] = bytes[m + j]
  <2>1. /\ After(bytes, n) \in Seq(FileByte)
        /\ n * GroupCapacity <= Len(bytes)
             => Len(After(bytes, n)) = Len(bytes) - n * GroupCapacity
        /\ \A j \in 1..(Len(bytes) - n * GroupCapacity) :
             After(bytes, n)[j] = bytes[n * GroupCapacity + j]
    BY AfterGroups
  <2>2. /\ rest \in Seq(FileByte)
        /\ m <= Len(bytes) => Len(rest) = Len(bytes) - m
        /\ \A j \in 1..(Len(bytes) - m) : rest[j] = bytes[m + j]
    BY <1>2, <1>3, <2>1
  <2>3. Len(bytes) \in Nat /\ m < Len(bytes)
    BY <1>2
  <2>4. QED
    BY <1>2, <2>2, <2>3
<1>5. PICK l \in Nat : l = (IF c <= Len(rest) THEN c ELSE Len(rest))
  <2>1. Len(rest) \in Nat
    BY <1>4
  <2>2. QED
    BY <2>1
<1>6. l \in 1..c /\ l <= Len(rest) /\ Len(rest) \in Nat
  BY <1>4, <1>5
<1>7. UpTo(rest, 1) = SubSeq(rest, 1, l)
  <2>1. 1 * c = c
    OBVIOUS
  <2>2. Min({1 * GroupCapacity, Len(rest)}) = l
    BY <1>1, <1>5, <1>6, <2>1, MinOfTwo
  <2>3. QED
    BY <2>2 DEF UpTo
<1>8. /\ SubSeq(rest, 1, l) \in Seq(FileByte) /\ Len(SubSeq(rest, 1, l)) = l
      /\ \A j \in 1..l : SubSeq(rest, 1, l)[j] = rest[j]
  BY <1>4, <1>6, PartsTyped
<1>9. PICK group : group = UpTo(After(bytes, n), 1)
  OBVIOUS
<1>10. /\ group \in Seq(FileByte) /\ Len(group) = l
       /\ \A j \in 1..l : group[j] = rest[j]
  BY <1>3, <1>7, <1>8, <1>9
<1>11. group \in Group
  <2>1. group # <<>>
    BY <1>6, <1>10
  <2>2. QED
    BY <1>10, <2>1 DEF Group, FileByte
<1>12. \A j \in 1..l : group[j] = bytes[m + j]
  <2>1. \A j \in 1..l : j \in 1..(Len(bytes) - m)
    BY <1>4, <1>6
  <2>2. QED
    BY <1>4, <1>10, <2>1
<1>13. QED
  BY <1>1, <1>2, <1>4, <1>5, <1>6, <1>9, <1>10, <1>11, <1>12

(* write_group(), n times: each group takes the bytes behind the one       *)
(* before it, and only the last one may be short.                          *)
CutInto(gs, bytes, n, c) ==
  /\ gs \in Seq(Group) /\ Len(gs) = n
  /\ \A i \in 1..n :
       /\ Len(gs[i]) = (IF c <= Len(bytes) - (i - 1) * c THEN c
                        ELSE Len(bytes) - (i - 1) * c)
       /\ Len(gs[i]) \in 1..c
       /\ i < n \/ n * c <= Len(bytes) => Len(gs[i]) = c
       /\ \A j \in 1..Len(gs[i]) : gs[i][j] = bytes[(i - 1) * c + j]

LEMMA GroupsOf ==
  ASSUME NEW bytes \in Seq(FileByte), NEW n \in Nat,
         NEW c \in Nat \ {0}, c = GroupCapacity,
         n = 0 \/ (n - 1) * c < Len(bytes),
         NEW gs, gs = Groups(bytes, n)
  PROVE  CutInto(gs, bytes, n, c)
<1>1. /\ DOMAIN gs = 1..n
      /\ gs = [i \in 1..n |-> gs[i]]
      /\ \A i \in 1..n : gs[i] = UpTo(After(bytes, i - 1), 1)
  BY DEF Groups
<1>2. ASSUME NEW i \in 1..n
      PROVE  /\ gs[i] \in Group
             /\ Len(gs[i]) = (IF c <= Len(bytes) - (i - 1) * c THEN c
                              ELSE Len(bytes) - (i - 1) * c)
             /\ Len(gs[i]) \in 1..c
             /\ i < n \/ n * c <= Len(bytes) => Len(gs[i]) = c
             /\ \A j \in 1..Len(gs[i]) : gs[i][j] = bytes[(i - 1) * c + j]
  <2>1. i - 1 \in Nat /\ n - 1 \in Nat /\ i - 1 <= n - 1 /\ i \in Nat
        /\ (i - 1) + 1 = i
    OBVIOUS
  <2>2. PICK m \in Nat : m = (i - 1) * c
    BY <2>1, Times
  <2>3. PICK p \in Nat : p = (n - 1) * c
    BY <2>1, Times
  <2>4. m <= p /\ p < Len(bytes) /\ Len(bytes) \in Nat
    <3>1. m <= p
      BY <2>1, <2>2, <2>3, Times
    <3>2. p < Len(bytes)
      BY <2>3
    <3>3. QED
      BY <3>1, <3>2
  <2>5. (i - 1) * GroupCapacity < Len(bytes)
    BY <2>2, <2>4
  <2>6. PICK group : group = UpTo(After(bytes, i - 1), 1)
    OBVIOUS
  <2>7. /\ group \in Group
        /\ Len(group) = (IF c <= Len(bytes) - m THEN c ELSE Len(bytes) - m)
        /\ Len(group) \in 1..c
        /\ \A j \in 1..Len(group) : group[j] = bytes[m + j]
    BY <2>1, <2>2, <2>5, <2>6, OneGroup
  <2>8. i < n \/ n * c <= Len(bytes) => c <= Len(bytes) - m
    <3>1. i * c = m + c /\ i * c \in Nat
      BY <2>1, <2>2, Times
    <3>2. i < n => i * c <= p
      <4>1. i < n => i <= n - 1
        OBVIOUS
      <4>2. QED
        BY <2>1, <2>3, <4>1, Times
    <3>3. i * c <= n * c /\ n * c \in Nat
      BY <2>1, Times
    <3>4. QED
      BY <2>2, <2>4, <3>1, <3>2, <3>3
  <2>9. gs[i] = group
    BY <1>1, <2>6
  <2>10. i < n \/ n * c <= Len(bytes) => Len(group) = c
    BY <2>7, <2>8
  <2>11. QED
    BY <2>2, <2>7, <2>9, <2>10
<1>3. gs \in Seq(Group) /\ Len(gs) = n
  <2>1. gs \in [1..n -> Group]
    BY <1>1, <1>2
  <2>2. QED
    BY <1>1, <2>1
<1>4. QED
  BY <1>2, <1>3, Zenon DEF CutInto

(* Full groups hold a multiple of what fits into one.                      *)
LEMMA FullBytes ==
  ASSUME EncTypes, AllFull
  PROVE  BytesSent = Len(sent) * GroupCapacity
<1>1. PICK c \in Nat \ {0} : c = GroupCapacity
  BY Capacity
<1>2. sent \in Seq(Group) /\ Len(sent) \in Nat
  BY DEF EncTypes
<1>3. CASE sent = <<>>
  <2>1. Len(sent) = 0 /\ 0 * c = 0
    BY <1>3
  <2>2. QED
    BY <1>1, <1>3, <2>1 DEF BytesSent
<1>4. CASE sent # <<>>
  <2>1. Len(sent) \in 1..Len(sent) /\ Len(sent) - 1 \in Nat /\ (Len(sent) - 1) + 1 = Len(sent)
    BY <1>2, <1>4
  <2>2. Len(sent[Len(sent)]) = c
    BY <1>1, <2>1 DEF AllFull
  <2>3. PICK n \in Nat : n = Len(sent) - 1
    BY <2>1
  <2>4. (n + 1) * c = n * c + c
    BY <1>1, Times
  <2>5. BytesSent = n * c + c
    BY <1>1, <1>4, <2>2, <2>3 DEF BytesSent
  <2>6. QED
    BY <1>1, <2>1, <2>3, <2>4, <2>5
<1>5. QED
  BY <1>3, <1>4

(* Groups are written behind full ones, from bytes that continue theirs.   *)
LEMMA WriteGroups ==
  ASSUME EncTypes, AllFull, GroupsHoldTheInput,
         NEW bytes \in Seq(FileByte),
         lost = 0 => \A k \in 1..Len(bytes) : bytes[k] = BytesSent + k,
         NEW n \in Nat, n = 0 \/ (n - 1) * GroupCapacity < Len(bytes),
         sent' = sent \o Groups(bytes, n)
  PROVE  /\ sent' \in Seq(Group)
         /\ \A i \in 1..Len(sent') : Len(sent'[i]) \in 1..GroupCapacity
         /\ n * GroupCapacity <= Len(bytes) => AllFull'
         /\ lost = 0 => \A i \in DOMAIN sent' :
              /\ i < Len(sent') => Len(sent'[i]) = GroupCapacity
              /\ \A j \in DOMAIN sent'[i] : sent'[i][j] = (i - 1) * GroupCapacity + j
         /\ BytesSent' + Len(After(bytes, n)) = BytesSent + Len(bytes)
         /\ lost = 0 => \A k \in DOMAIN After(bytes, n) : After(bytes, n)[k] = BytesSent' + k
<1>1. PICK c \in Nat \ {0} : c = GroupCapacity
  BY Capacity
<1>2. PICK gs : gs = Groups(bytes, n)
  OBVIOUS
<1>3. PICK N \in Nat : N = Len(sent)
  BY DEF EncTypes
<1>4. PICK L \in Nat : L = Len(bytes)
  OBVIOUS
<1>5. PICK b \in Nat : b = N * c
  BY <1>1, Times
<1>6. PICK p \in Nat : p = n * c
  BY <1>1, Times
<1>7. BytesSent = b
  BY <1>1, <1>3, <1>5, FullBytes
<1>8. /\ gs \in Seq(Group) /\ Len(gs) = n
      /\ \A i \in 1..n :
           /\ Len(gs[i]) = (IF c <= L - (i - 1) * c THEN c ELSE L - (i - 1) * c)
           /\ Len(gs[i]) \in 1..c
           /\ i < n \/ p <= L => Len(gs[i]) = c
           /\ \A j \in 1..Len(gs[i]) : gs[i][j] = bytes[(i - 1) * c + j]
  <2>1. n = 0 \/ (n - 1) * c < Len(bytes)
    BY <1>1
  <2>2. CutInto(gs, bytes, n, c)
    BY <1>1, <1>2, <2>1, GroupsOf, Zenon
  <2>3. QED
    BY <1>4, <1>6, <2>2, Zenon DEF CutInto
<1>9. sent \in Seq(Group)
  BY DEF EncTypes
<1>10. /\ sent' \in Seq(Group) /\ Len(sent') = N + n
       /\ \A i \in 1..(N + n) : sent'[i] = IF i <= N THEN sent[i] ELSE gs[i - N]
  <2>1. sent' = sent \o gs
    BY <1>2
  <2>2. gs \in Seq(Group) /\ Len(gs) = n
    BY <1>8
  <2>3. /\ sent \o gs \in Seq(Group) /\ Len(sent \o gs) = Len(sent) + Len(gs)
        /\ \A i \in 1..(Len(sent) + Len(gs)) :
             (sent \o gs)[i] = IF i <= Len(sent) THEN sent[i] ELSE gs[i - Len(sent)]
    BY <1>9, <2>2, ConcatProperties
  <2>4. QED
    BY <1>3, <2>1, <2>2, <2>3
<1>11. ASSUME NEW i \in 1..(N + n)
       PROVE  /\ Len(sent'[i]) \in 1..c
              /\ i < N + n \/ p <= L => Len(sent'[i]) = c
              /\ lost = 0 => \A j \in 1..Len(sent'[i]) : sent'[i][j] = (i - 1) * c + j
  <2>1. CASE i <= N
    <3>1. i \in 1..Len(sent) /\ sent'[i] = sent[i]
      BY <1>3, <1>10, <2>1
    <3>2. Len(sent[i]) = c /\ c \in 1..c
      BY <1>1, <3>1 DEF AllFull
    <3>3. lost = 0 => \A j \in 1..Len(sent[i]) : sent[i][j] = (i - 1) * c + j
      <4>1. sent[i] \in Group
        BY <1>9, <3>1
      <4>2. DOMAIN sent[i] = 1..Len(sent[i]) /\ DOMAIN sent = 1..Len(sent)
        BY <1>9, <4>1 DEF Group
      <4>3. QED
        BY <1>1, <3>1, <4>2 DEF GroupsHoldTheInput
    <3>4. QED
      BY <3>1, <3>2, <3>3
  <2>2. CASE ~(i <= N)
    <3>1. PICK m \in 1..n : m = i - N
      BY <1>3, <2>2
    <3>2. sent'[i] = gs[m] /\ i = N + m /\ i - 1 = N + (m - 1) /\ m - 1 \in Nat
      <4>1. sent'[i] = gs[m]
        BY <1>10, <2>2, <3>1
      <4>2. QED
        BY <3>1, <4>1
    <3>3. (i - 1) * c = b + (m - 1) * c /\ (m - 1) * c \in Nat
      BY <1>1, <1>5, <3>2, Times
    <3>4. PICK q \in Nat : q = (m - 1) * c
      BY <3>3
    <3>5. Len(gs[m]) \in 1..c /\ (m < n \/ p <= L => Len(gs[m]) = c)
          /\ \A j \in 1..Len(gs[m]) : gs[m][j] = bytes[q + j]
      BY <1>8, <3>1, <3>4
    <3>6. Len(gs[m]) <= L - q
      <4>1. Len(gs[m]) = (IF c <= L - q THEN c ELSE L - q)
        BY <1>8, <3>1, <3>4
      <4>2. PICK l : l = Len(gs[m])
        OBVIOUS
      <4>3. l = (IF c <= L - q THEN c ELSE L - q)
        BY <4>1, <4>2
      <4>4. l <= L - q
        BY <4>3
      <4>5. QED
        BY <4>2, <4>4
    <3>7. ASSUME lost = 0, NEW j \in 1..Len(gs[m])
          PROVE  gs[m][j] = (i - 1) * c + j
      <4>1. PICK k \in 1..L : k = q + j
        <5>1. PICK l \in 1..c : l = Len(gs[m])
          BY <3>5
        <5>2. l <= L - q /\ j \in 1..l
          BY <3>6, <3>7, <5>1
        <5>3. q + j \in 1..L
          BY <5>1, <5>2
        <5>4. QED
          BY <5>3
      <4>2. bytes[k] = b + k
        BY <1>4, <1>7, <3>7, <4>1
      <4>3. gs[m][j] = bytes[k]
        BY <3>5, <4>1
      <4>4. (i - 1) * c = b + q
        BY <3>3, <3>4
      <4>5. j \in Nat
        <5>1. Len(gs[m]) \in 1..c
          BY <3>5
        <5>2. QED
          BY <3>7, <5>1
      <4>6. b + k = b + q + j
        BY <4>1, <4>5
      <4>7. QED
        BY <4>2, <4>3, <4>4, <4>6
    <3>8. i < N + n => m < n
      BY <1>3, <3>1, <3>2
    <3>9. QED
      BY <3>2, <3>5, <3>7, <3>8
  <2>3. QED
    BY <2>1, <2>2
<1>12. /\ \A i \in 1..Len(sent') : Len(sent'[i]) \in 1..GroupCapacity
       /\ n * GroupCapacity <= Len(bytes) => AllFull'
  <2>1. \A i \in 1..Len(sent') : Len(sent'[i]) \in 1..GroupCapacity
    BY <1>1, <1>10, <1>11
  <2>2. ASSUME n * GroupCapacity <= Len(bytes)
        PROVE  \A i \in 1..Len(sent') : Len(sent'[i]) = GroupCapacity
    <3>1. p <= L
      BY <1>1, <1>4, <1>6, <2>2
    <3>2. \A i \in 1..(N + n) : Len(sent'[i]) = c
      BY <1>11, <3>1
    <3>3. QED
      BY <1>1, <1>10, <3>2
  <2>3. QED
    BY <2>1, <2>2 DEF AllFull
<1>13. lost = 0 => \A i \in DOMAIN sent' :
              /\ i < Len(sent') => Len(sent'[i]) = GroupCapacity
              /\ \A j \in DOMAIN sent'[i] : sent'[i][j] = (i - 1) * GroupCapacity + j
  <2>1. DOMAIN sent' = 1..(N + n)
    BY <1>10
  <2>2. \A i \in 1..(N + n) : DOMAIN sent'[i] = 1..Len(sent'[i])
    <3>1. \A i \in 1..(N + n) : sent'[i] \in Group
      BY <1>10
    <3>2. \A g \in Group : DOMAIN g = 1..Len(g)
      BY DEF Group
    <3>3. QED
      BY <3>1, <3>2, Zenon
  <2>3. ASSUME lost = 0, NEW i \in 1..(N + n)
        PROVE  /\ i < N + n => Len(sent'[i]) = c
               /\ \A j \in 1..Len(sent'[i]) : sent'[i][j] = (i - 1) * c + j
    BY <1>11, <2>3
  <2>4. Len(sent') = N + n
    BY <1>10
  <2>5. QED
    BY <1>1, <2>1, <2>2, <2>3, <2>4
<1>14. PICK a : a = After(bytes, n)
  OBVIOUS
<1>15. /\ a \in Seq(FileByte)
       /\ p <= L => Len(a) = L - p
       /\ p >= L => Len(a) = 0
       /\ \A k \in 1..(L - p) : a[k] = bytes[p + k]
  <2>1. p = n * GroupCapacity
    BY <1>1, <1>6
  <2>2. /\ a \in Seq(FileByte)
        /\ p <= Len(bytes) => Len(a) = Len(bytes) - p
        /\ p >= Len(bytes) => Len(a) = 0
        /\ \A k \in 1..(Len(bytes) - p) : a[k] = bytes[p + k]
    BY <1>14, <2>1, AfterGroups, Zenon
  <2>3. QED
    BY <1>4, <2>2, Zenon
<1>16. BytesSent' = IF p <= L THEN b + p ELSE b + L
  <2>1. CASE n = 0
    <3>1. p = 0 /\ Len(sent') = N
      BY <1>1, <1>6, <1>10, <2>1
    <3>2. AllFull' /\ EncTypes
      BY <1>1, <1>4, <1>6, <1>12, <3>1
    <3>3. BytesSent' = BytesSent
      <4>1. sent' = sent
        BY <1>3, <1>9, <1>10, <3>1
      <4>2. QED
        BY <4>1 DEF BytesSent
    <3>4. QED
      BY <1>4, <1>5, <1>7, <3>1, <3>3
  <2>2. CASE n # 0
    <3>1. n \in 1..n /\ n - 1 \in Nat /\ (n - 1) + 1 = n /\ ~(N + n <= N)
          /\ N + n \in 1..(N + n) /\ (N + n) - N = n /\ (N + n) - 1 = N + (n - 1)
      BY <1>3, <2>2
    <3>2. sent'[N + n] = gs[n]
      BY <1>10, <3>1
    <3>3. PICK q \in Nat : q = (n - 1) * c
      BY <1>1, <3>1, Times
    <3>4. p = q + c
      BY <1>1, <1>6, <3>1, <3>3, Times
    <3>5. (N + (n - 1)) * c = b + q
      BY <1>1, <1>5, <3>1, <3>3, Times
    <3>6. sent' # <<>>
      BY <1>10, <3>1
    <3>7. BytesSent' = (N + (n - 1)) * c + Len(gs[n])
      BY <1>1, <1>10, <3>1, <3>2, <3>6 DEF BytesSent
    <3>8. Len(gs[n]) = (IF c <= L - q THEN c ELSE L - q)
      BY <1>8, <3>1, <3>3
    <3>9. BytesSent' = b + q + Len(gs[n])
      BY <3>5, <3>7
    <3>10. PICK l : l = Len(gs[n])
      OBVIOUS
    <3>11. l = (IF c <= L - q THEN c ELSE L - q)
      BY <3>8, <3>10
    <3>12. b + q + l = IF p <= L THEN b + p ELSE b + L
      BY <3>4, <3>11
    <3>13. QED
      BY <3>9, <3>10, <3>12
  <2>3. QED
    BY <2>1, <2>2
<1>17. BytesSent' + Len(a) = b + L
  <2>1. CASE p <= L
    <3>1. BytesSent' = b + p /\ Len(a) = L - p
      BY <1>15, <1>16, <2>1
    <3>2. QED
      BY <3>1
  <2>2. CASE ~(p <= L)
    <3>1. BytesSent' = b + L /\ Len(a) = 0
      BY <1>15, <1>16, <2>2
    <3>2. QED
      BY <3>1
  <2>3. QED
    BY <2>1, <2>2
<1>18. ASSUME lost = 0, NEW k \in DOMAIN a
       PROVE  a[k] = BytesSent' + k
  <2>1. k \in 1..Len(a)
    BY <1>15
  <2>2. p <= L /\ k \in 1..(L - p)
    BY <1>4, <1>6, <1>15, <2>1
  <2>3. PICK j \in 1..L : j = p + k
    BY <1>4, <1>6, <2>2
  <2>4. a[k] = bytes[j] /\ bytes[j] = b + j
    BY <1>4, <1>7, <1>15, <1>18, <2>2, <2>3
  <2>5. QED
    BY <1>4, <1>5, <1>6, <1>16, <2>2, <2>3, <2>4
<1>19. QED
  BY <1>4, <1>7, <1>10, <1>12, <1>13, <1>14, <1>17, <1>18

(* enc_chain() writes groups that are full, enc_flush() one more if any    *)
(* byte is left; what is written before a failure is full in both.         *)
LEMMA HowManyGroups ==
  ASSUME NEW bytes \in Seq(FileByte)
  PROVE  /\ FullGroups(bytes) \in Nat /\ FlushGroups(bytes) \in Nat
         /\ \A j \in 0..FullGroups(bytes) : j * GroupCapacity <= Len(bytes)
         /\ \A j \in 0..(FlushGroups(bytes) - 1) : j * GroupCapacity <= Len(bytes)
         /\ FlushGroups(bytes) = 0 \/ (FlushGroups(bytes) - 1) * GroupCapacity < Len(bytes)
         /\ \A j \in Nat : j * GroupCapacity <= Len(bytes)
                             => j = 0 \/ (j - 1) * GroupCapacity < Len(bytes)
<1>1. PICK c \in Nat \ {0} : c = GroupCapacity
  BY Capacity
<1>2. PICK L \in Nat : L = Len(bytes)
  OBVIOUS
<1>3. PICK q \in Nat : q = L \div c /\ L = c * q + (L % c) /\ L % c \in 0..(c - 1)
  BY <1>1, <1>2, Euclid
<1>4. PICK f \in Nat : /\ f = (L + c - 1) \div c
                       /\ L + c - 1 = c * f + ((L + c - 1) % c)
                       /\ (L + c - 1) % c \in 0..(c - 1)
  <2>1. PICK a \in Nat : a = L + c - 1
    BY <1>1, <1>2
  <2>2. a \div c \in Nat /\ a = c * (a \div c) + (a % c) /\ a % c \in 0..(c - 1)
    BY <1>1, Euclid
  <2>3. QED
    BY <2>1, <2>2
<1>5. FullGroups(bytes) = q /\ FlushGroups(bytes) = f
  BY <1>1, <1>2, <1>3, <1>4 DEF FullGroups, FlushGroups
<1>6. q * c <= L
  <2>1. PICK m \in Nat : m = q * c
    BY <1>1, Times
  <2>2. c * q = m
    BY <1>1, <2>1
  <2>3. QED
    BY <1>3, <2>1, <2>2
<1>7. \A j \in 0..q : j * c <= L
  <2>1. ASSUME NEW j \in 0..q
        PROVE  j * c <= L
    <3>1. j * c <= q * c /\ j * c \in Nat /\ q * c \in Nat
      BY <1>1, Times
    <3>2. QED
      BY <1>2, <1>6, <3>1
  <2>2. QED
    BY <2>1
<1>8. f # 0 => f - 1 \in Nat /\ (f - 1) * c < L
  <2>1. SUFFICES ASSUME f # 0
                 PROVE  f - 1 \in Nat /\ (f - 1) * c < L
    OBVIOUS
  <2>2. PICK g \in Nat : g = f - 1 /\ g + 1 = f
    BY <2>1
  <2>3. PICK m \in Nat : m = g * c
    BY <1>1, Times
  <2>4. f * c = m + c
    BY <1>1, <2>2, <2>3, Times
  <2>5. c * f = m + c
    BY <1>1, <2>4
  <2>6. m < L
    BY <1>1, <1>2, <1>4, <2>3, <2>5
  <2>7. QED
    BY <2>2, <2>3, <2>6
<1>9. \A j \in 0..(f - 1) : j * c <= L
  <2>1. ASSUME NEW j \in 0..(f - 1)
        PROVE  j * c <= L
    <3>1. PICK g \in Nat : g = f - 1 /\ g * c < L /\ j <= g /\ j \in Nat
      BY <1>8
    <3>2. j * c <= g * c /\ j * c \in Nat /\ g * c \in Nat
      BY <1>1, <3>1, Times
    <3>3. QED
      BY <1>2, <3>1, <3>2
  <2>2. QED
    BY <2>1
<1>10. ASSUME NEW j \in Nat, j * c <= L
       PROVE  j = 0 \/ (j - 1) * c < L
  <2>1. SUFFICES ASSUME j # 0
                 PROVE  (j - 1) * c < L
    OBVIOUS
  <2>2. PICK g \in Nat : g = j - 1 /\ g + 1 = j
    BY <2>1
  <2>3. j * c = g * c + c /\ g * c \in Nat
    BY <1>1, <2>2, Times
  <2>4. g * c < L
    BY <1>1, <1>2, <1>10, <2>3
  <2>5. QED
    BY <2>2, <2>4
<1>11. QED
  BY <1>1, <1>2, <1>5, <1>7, <1>8, <1>9, <1>10

(* The encoder has bytes that continue its groups, and writes some of them.*)
LEMMA WritingKeeps ==
  ASSUME EncTypes, AllFull, GroupsHoldTheInput,
         NEW bytes \in Seq(FileByte),
         lost = 0 => \A k \in 1..Len(bytes) : bytes[k] = BytesSent + k,
         lost = 0 => BytesSent + Len(bytes) = input',
         input' \in Nat, phase' \in {"running", "ending", "done", "broken"},
         NEW n \in Nat, n = 0 \/ (n - 1) * GroupCapacity < Len(bytes),
         phase' # "done" => n * GroupCapacity <= Len(bytes),
         sent' = sent \o Groups(bytes, n),
         \/ adapter' = After(bytes, n) /\ lost' = lost
         \/ adapter' \in Seq(FileByte) /\ lost' = lost + 1
  PROVE  EncInv'
<1>1. /\ sent' \in Seq(Group)
      /\ \A i \in 1..Len(sent') : Len(sent'[i]) \in 1..GroupCapacity
      /\ n * GroupCapacity <= Len(bytes) => AllFull'
      /\ lost = 0 => \A i \in DOMAIN sent' :
           /\ i < Len(sent') => Len(sent'[i]) = GroupCapacity
           /\ \A j \in DOMAIN sent'[i] : sent'[i][j] = (i - 1) * GroupCapacity + j
      /\ BytesSent' + Len(After(bytes, n)) = BytesSent + Len(bytes)
      /\ lost = 0 => \A k \in DOMAIN After(bytes, n) : After(bytes, n)[k] = BytesSent' + k
  BY WriteGroups
<1>2. lost \in Nat /\ adapter' \in Seq(FileByte) /\ lost' \in Nat /\ (lost' = 0 => lost = 0)
  <2>1. After(bytes, n) \in Seq(FileByte)
    BY AfterGroups
  <2>2. adapter' \in Seq(FileByte)
    BY <2>1
  <2>3. lost \in Nat /\ (lost' = lost \/ lost' = lost + 1)
    BY DEF EncTypes
  <2>4. QED
    BY <2>2, <2>3
<1>3. EncTypes'
  BY <1>1, <1>2 DEF EncTypes
<1>4. phase' # "done" => AllFull'
  BY <1>1
<1>5. ASSUME lost' = 0
      PROVE  /\ \A i \in DOMAIN sent' :
                  /\ i < Len(sent') => Len(sent'[i]) = GroupCapacity
                  /\ \A j \in DOMAIN sent'[i] : sent'[i][j] = (i - 1) * GroupCapacity + j
             /\ BytesSent' + Len(adapter') = input'
             /\ \A k \in DOMAIN adapter' : adapter'[k] = BytesSent' + k
  <2>1. lost = 0 /\ adapter' = After(bytes, n)
    BY <1>2, <1>5
  <2>2. QED
    BY <1>1, <2>1
<1>6. GroupsHoldTheInput'
  BY <1>5 DEF GroupsHoldTheInput
<1>7. QED
  BY <1>3, <1>4, <1>6 DEF EncInv

(* The three ways of writing what was looked at.                           *)
LEMMA WriteOrFail ==
  ASSUME EncTypes, AllFull, GroupsHoldTheInput,
         NEW bytes \in Seq(FileByte),
         lost = 0 => \A k \in 1..Len(bytes) : bytes[k] = BytesSent + k,
         lost = 0 => BytesSent + Len(bytes) = input',
         input' \in Nat,
         NEW n \in {FullGroups(bytes), FlushGroups(bytes)},
         \/ /\ WriteAll(bytes, n)
            /\ \/ phase' = "running" /\ n = FullGroups(bytes)
               \/ phase' = "done"
         \/ /\ FailToAllocate(bytes, n) \/ FailToPush(bytes, n)
            /\ phase' \in {"ending", "broken"}
  PROVE  EncInv'
<1>1. /\ n \in Nat
      /\ n = FullGroups(bytes) => n * GroupCapacity <= Len(bytes)
      /\ n = 0 \/ (n - 1) * GroupCapacity < Len(bytes)
      /\ \A j \in 0..(n - 1) : j * GroupCapacity <= Len(bytes)
      /\ \A j \in Nat : j * GroupCapacity <= Len(bytes)
                          => j = 0 \/ (j - 1) * GroupCapacity < Len(bytes)
  <2>1. CASE n = FullGroups(bytes)
    <3>1. n \in Nat /\ \A j \in 0..n : j * GroupCapacity <= Len(bytes)
      BY <2>1, HowManyGroups
    <3>2. n * GroupCapacity <= Len(bytes) /\ \A j \in 0..(n - 1) : j * GroupCapacity <= Len(bytes)
      <4>1. n \in 0..n /\ \A j \in 0..(n - 1) : j \in 0..n
        BY <3>1
      <4>2. QED
        BY <3>1, <4>1, Zenon
    <3>3. \A j \in Nat : j * GroupCapacity <= Len(bytes)
                           => j = 0 \/ (j - 1) * GroupCapacity < Len(bytes)
      BY HowManyGroups
    <3>4. QED
      BY <3>1, <3>2, <3>3
  <2>2. CASE n = FlushGroups(bytes) /\ n # FullGroups(bytes)
    BY <2>2, HowManyGroups
  <2>3. QED
    BY <2>1, <2>2
<1>2. CASE /\ WriteAll(bytes, n)
           /\ \/ phase' = "running" /\ n = FullGroups(bytes)
              \/ phase' = "done"
  <2>1. sent' = sent \o Groups(bytes, n) /\ adapter' = After(bytes, n) /\ lost' = lost
    BY <1>2 DEF WriteAll
  <2>2. phase' # "done" => n * GroupCapacity <= Len(bytes)
    BY <1>1, <1>2
  <2>3. phase' \in {"running", "ending", "done", "broken"}
    BY <1>2
  <2>4. QED
    BY <1>1, <2>1, <2>2, <2>3, WritingKeeps
<1>3. CASE /\ FailToAllocate(bytes, n) \/ FailToPush(bytes, n)
           /\ phase' \in {"ending", "broken"}
  <2>1. PICK j \in 0..(n - 1) :
          /\ sent' = sent \o Groups(bytes, j)
          /\ \/ adapter' = After(bytes, j) /\ lost' = lost
             \/ adapter' = After(bytes, j + 1) /\ lost' = lost + 1
    BY <1>3 DEF FailToAllocate, FailToPush
  <2>2. j \in Nat /\ j + 1 \in Nat
    BY <1>1
  <2>3. j * GroupCapacity <= Len(bytes) /\ (j = 0 \/ (j - 1) * GroupCapacity < Len(bytes))
    BY <1>1, <2>2
  <2>4. After(bytes, j + 1) \in Seq(FileByte)
    BY <2>2, AfterGroups
  <2>5. \/ adapter' = After(bytes, j) /\ lost' = lost
        \/ adapter' \in Seq(FileByte) /\ lost' = lost + 1
    BY <2>1, <2>4
  <2>6. phase' \in {"running", "ending", "done", "broken"}
    BY <1>3
  <2>7. QED
    BY <2>1, <2>2, <2>3, <2>5, <2>6, WritingKeeps
<1>4. QED
  BY <1>2, <1>3

LEMMA EncStep ==
  ASSUME EncInv, EncNext
  PROVE  EncInv'
<1>1. EncTypes /\ GroupsHoldTheInput
  BY DEF EncInv
<1>2. adapter \in Seq(FileByte) /\ DOMAIN adapter = 1..Len(adapter) /\ Len(adapter) \in Nat
      /\ input \in Nat
  BY <1>1 DEF EncTypes
<1>3. lost = 0 => /\ BytesSent + Len(adapter) = input
                  /\ \A k \in 1..Len(adapter) : adapter[k] = BytesSent + k
  BY <1>1, <1>2 DEF GroupsHoldTheInput
<1>4. CASE EncChain
  <2>1. phase = "running" /\ AllFull
    BY <1>4 DEF EncChain, EncInv
  <2>2. PICK n \in 1..(MaxBytes - input) :
          LET bytes == adapter \o Bytes(n)
          IN  /\ input' = input + n
              /\ \/ WriteAll(bytes, FullGroups(bytes)) /\ phase' = "running"
                 \/ /\ \/ FailToAllocate(bytes, FullGroups(bytes))
                       \/ FailToPush(bytes, FullGroups(bytes))
                    /\ phase' = "ending"
    BY <1>4 DEF EncChain
  <2>3. n \in Nat \ {0}
    BY <1>2, Ecc2EncoderAssumption
  <2>4. PICK new : new = Bytes(n)
    OBVIOUS
  <2>5. new \in Seq(FileByte) /\ Len(new) = n /\ \A k \in 1..n : new[k] = input + k
    <3>1. new = [i \in 1..n |-> input + i]
      BY <2>4 DEF Bytes
    <3>2. \A i \in 1..n : input + i \in FileByte
      BY <1>2, <2>3 DEF FileByte
    <3>3. new \in [1..n -> FileByte]
      BY <3>1, <3>2
    <3>4. QED
      BY <2>3, <3>1, <3>3
  <2>6. PICK bytes : bytes = adapter \o new
    OBVIOUS
  <2>7. /\ bytes \in Seq(FileByte) /\ Len(bytes) = Len(adapter) + n
        /\ \A k \in 1..(Len(adapter) + n) :
             bytes[k] = IF k <= Len(adapter) THEN adapter[k] ELSE new[k - Len(adapter)]
    <3>1. /\ adapter \o new \in Seq(FileByte)
          /\ Len(adapter \o new) = Len(adapter) + Len(new)
          /\ \A k \in 1..(Len(adapter) + Len(new)) :
               (adapter \o new)[k] = IF k <= Len(adapter) THEN adapter[k]
                                     ELSE new[k - Len(adapter)]
      BY <1>2, <2>5, ConcatProperties
    <3>2. QED
      BY <2>5, <2>6, <3>1
  <2>8. ASSUME lost = 0
        PROVE  /\ BytesSent + Len(bytes) = input'
               /\ \A k \in 1..Len(bytes) : bytes[k] = BytesSent + k
    <3>1. PICK b : b = BytesSent
      OBVIOUS
    <3>2. BytesSent = Len(sent) * GroupCapacity /\ Len(sent) \in Nat
      BY <1>1, <2>1, FullBytes DEF EncTypes
    <3>3. b \in Nat
      BY <3>1, <3>2, Capacity, Times
    <3>4. b + Len(adapter) = input /\ input' = input + n
      BY <1>3, <2>2, <2>8, <3>1
    <3>5. ASSUME NEW k \in 1..Len(bytes)
          PROVE  bytes[k] = b + k
      <4>1. k \in 1..(Len(adapter) + n) /\ k \in Nat
        BY <1>2, <2>3, <2>7
      <4>2. CASE k <= Len(adapter)
        <5>1. k \in 1..Len(adapter) /\ bytes[k] = adapter[k]
          BY <1>2, <2>7, <4>1, <4>2
        <5>2. QED
          BY <1>3, <2>8, <3>1, <5>1
      <4>3. CASE ~(k <= Len(adapter))
        <5>1. PICK m \in 1..n : m = k - Len(adapter)
          <6>1. PICK l \in Nat : l = Len(adapter)
            BY <1>2
          <6>2. k - l \in 1..n
            BY <2>3, <4>1, <4>3, <6>1
          <6>3. QED
            BY <6>1, <6>2
        <5>2. bytes[k] = input + m
          BY <2>5, <2>7, <4>1, <4>3, <5>1
        <5>3. QED
          BY <1>2, <3>3, <3>4, <4>1, <5>1, <5>2
      <4>4. QED
        BY <4>2, <4>3
    <3>6. QED
      BY <1>2, <2>3, <2>7, <3>1, <3>3, <3>4, <3>5
  <2>9. input' \in Nat
    BY <1>2, <2>2, <2>3
  <2>10. \/ /\ WriteAll(bytes, FullGroups(bytes))
            /\ phase' = "running"
         \/ /\ FailToAllocate(bytes, FullGroups(bytes)) \/ FailToPush(bytes, FullGroups(bytes))
            /\ phase' \in {"ending", "broken"}
    BY <2>2, <2>4, <2>6
  <2>11. QED
    BY <1>1, <2>1, <2>7, <2>8, <2>9, <2>10, WriteOrFail
<1>5. CASE EndOfInput
  <2>1. phase = "running" /\ phase' = "ending" /\ UNCHANGED <<adapter, input, sent, lost>>
    BY <1>5 DEF EndOfInput
  <2>2. QED
    BY <1>1, <2>1 DEF EncInv, EncTypes, AllFull, GroupsHoldTheInput, BytesSent
<1>6. CASE EncEos
  <2>1. phase = "ending" /\ AllFull /\ input' = input
    BY <1>6 DEF EncEos, EncInv
  <2>2. \/ /\ WriteAll(adapter, FlushGroups(adapter))
           /\ phase' = "done"
        \/ /\ FailToAllocate(adapter, FlushGroups(adapter))
                \/ FailToPush(adapter, FlushGroups(adapter))
           /\ phase' \in {"ending", "broken"}
    BY <1>6 DEF EncEos
  <2>3. lost = 0 => BytesSent + Len(adapter) = input'
    BY <1>3, <2>1
  <2>4. QED
    BY <1>1, <1>2, <1>3, <2>1, <2>2, <2>3, WriteOrFail
<1>7. QED
  BY <1>4, <1>5, <1>6 DEF EncNext

LEMMA EncInitially ==
  ASSUME EncInit
  PROVE  EncInv
<1>1. \A S : <<>> \in Seq(S)
  BY EmptySeq
<1>2. Len(<<>>) = 0 /\ DOMAIN <<>> = {}
  OBVIOUS
<1>3. EncTypes /\ AllFull
  BY <1>1, <1>2 DEF EncInit, EncTypes, AllFull
<1>4. GroupsHoldTheInput
  BY <1>2 DEF EncInit, GroupsHoldTheInput, BytesSent
<1>5. QED
  BY <1>3, <1>4 DEF EncInv

LEMMA EncInvariant ==
  /\ Init => EncInv
  /\ EncInv /\ [Next]_vars => EncInv'
<1>1. Init => EncInv
  BY EncInitially DEF Init
<1>2. ASSUME EncInv, [Next]_vars
      PROVE  EncInv'
  <2>1. CASE Recording
    BY <1>2, <2>1, EncStep DEF Recording
  <2>2. CASE UNCHANGED encVars
    BY <1>2, <2>2 DEF encVars, EncInv, EncTypes, AllFull, GroupsHoldTheInput, BytesSent
  <2>3. Next => Recording \/ UNCHANGED encVars
    BY DEF Next, PlayGood, Miss, Announce, PlayAnnounced, PlayUnnoticed, End
  <2>4. UNCHANGED vars => UNCHANGED encVars
    BY DEF vars
  <2>5. QED
    BY <1>2, <2>1, <2>2, <2>3, <2>4
<1>3. QED
  BY <1>1, <1>2

(* The inductive invariant of the encoder, for every size of a group.      *)
THEOREM EncoderInvariance == Spec => []EncInv
BY EncInvariant, PTL DEF Spec

(* Unless a group was refused, the groups and the adapter hold the input   *)
(* without a hole, whatever allocations failed and whenever: enc_flush()   *)
(* finds in the adapter what follows the last group.                       *)
THEOREM GroupsHoldTheInputAlways == Spec => []GroupsHoldTheInput
<1>1. EncInv => GroupsHoldTheInput
  BY DEF EncInv
<1>2. QED
  BY <1>1, EncoderInvariance, PTL

-----------------------------------------------------------------------------
(* A sector of a group that was decoded.                                   *)
LEMMA DivisionIsUnique ==
  ASSUME NEW m \in Nat \ {0}, NEW a \in Nat, NEW d \in Nat,
         NEW q \in 0..(m - 1), NEW r \in 0..(m - 1), a * m + q = d * m + r
  PROVE  a = d /\ q = r
<1>1. PICK x \in Nat : x = a * m
  BY Times
<1>2. PICK y \in Nat : y = d * m
  BY Times
<1>3. ASSUME NEW e \in Nat, NEW f \in Nat, e < f
      PROVE  e * m + m <= f * m /\ e * m \in Nat /\ f * m \in Nat
  <2>1. e + 1 <= f /\ e + 1 \in Nat
    BY <1>3
  <2>2. (e + 1) * m <= f * m /\ (e + 1) * m = e * m + m /\ e * m \in Nat /\ f * m \in Nat
    BY <2>1, Times
  <2>3. QED
    BY <2>2
<1>4. ~(a < d)
  <2>1. a < d => x + m <= y
    BY <1>1, <1>2, <1>3
  <2>2. QED
    BY <1>1, <1>2, <2>1
<1>5. ~(d < a)
  <2>1. d < a => y + m <= x
    BY <1>1, <1>2, <1>3
  <2>2. QED
    BY <1>1, <1>2, <2>1
<1>6. a = d
  BY <1>4, <1>5
<1>7. QED
  BY <1>1, <1>2, <1>6

LEMMA SizesOfAGroup ==
  /\ BlockSize \in Nat \ {0} /\ Parity \in 1..(BlockSize - 1) /\ SectorBytes \in Nat \ {0}
  /\ DataSectors \in 1..(BlockSize - 1) /\ GroupCapacity \in Nat \ {0}
  /\ GroupCapacity < DataSectors * SectorBytes
<1>1. /\ BlockSize \in Nat \ {0} /\ SectorBytes \in Nat \ {0}
      /\ HeaderSize \in Nat \ {0} /\ DataSectors \in 1..(BlockSize - 1)
      /\ Parity \in 1..(BlockSize - 1)
  BY GroupAssumption DEF DataSectors
<1>2. PICK d \in Nat : d = DataSectors * SectorBytes
  BY <1>1, Times
<1>3. GroupCapacity = d - HeaderSize
  BY <1>2 DEF GroupCapacity
<1>4. QED
  BY <1>1, <1>2, <1>3, Capacity

(* The sector in place p belongs to the group and stands where p says.     *)
LEMMA PlaceOfSector ==
  ASSUME NEW a \in Nat, NEW q \in Sectors, NEW wrong
  PROVE  LET s == SectorAt(BlockSize * a + q, wrong)
         IN  s.group = sent[a + 1] /\ s.index = q /\ s.wrong = wrong
<1>1. PICK m \in Nat \ {0} : m = BlockSize
  BY SizesOfAGroup
<1>2. q \in 0..(m - 1)
  BY <1>1 DEF Sectors
<1>3. PICK x \in Nat : x = a * m
  BY Times
<1>4. PICK p \in Nat : p = BlockSize * a + q /\ p = x + q
  <2>1. m * a = x
    BY <1>3
  <2>2. QED
    BY <1>1, <1>2, <1>3, <2>1
<1>5. p \div m \in Nat /\ p % m \in 0..(m - 1) /\ p = m * (p \div m) + (p % m)
  BY Euclid
<1>6. PICK d \in Nat : d = p \div m
  BY <1>5
<1>7. PICK r \in 0..(m - 1) : r = p % m
  BY <1>5
<1>8. a * m + q = d * m + r
  <2>1. PICK y \in Nat : y = d * m
    BY Times
  <2>2. m * d = y
    BY <2>1
  <2>3. p = y + r
    BY <1>5, <1>6, <1>7, <2>2
  <2>4. QED
    BY <1>3, <1>4, <2>1, <2>3
<1>9. a = d /\ q = r
  BY <1>2, <1>8, DivisionIsUnique
<1>10. p \div BlockSize = a /\ p % BlockSize = q
  BY <1>1, <1>6, <1>7, <1>9
<1>11. QED
  BY <1>4, <1>10 DEF SectorAt

(* A sector that is played is of a group.                                  *)
LEMMA PlayedIsOfAGroup ==
  ASSUME EncTypes, SectorsLeft, NEW p \in Nat, p = played, NEW wrong
  PROVE  SectorAt(p, wrong).group # <<>>
<1>1. PICK B \in Nat \ {0} : B = BlockSize
  BY SizesOfAGroup
<1>2. PICK l \in Nat : l = Len(sent)
  BY DEF EncTypes
<1>3. PICK a \in Nat : a = p \div B
  BY Euclid
<1>4. PICK q \in 0..(B - 1) : q = p % B
  BY Euclid
<1>5. p = B * a + q
  BY <1>3, <1>4, Euclid
<1>6. a < l
  <2>1. SUFFICES ASSUME l <= a
                 PROVE  FALSE
    BY <1>2, <1>3
  <2>2. l * B <= a * B /\ l * B \in Nat /\ a * B \in Nat
    BY <2>1, Times
  <2>3. p < l * B
    BY <1>1, <1>2 DEF SectorsLeft
  <2>4. a * B = B * a
    OBVIOUS
  <2>5. QED
    BY <1>5, <2>2, <2>3, <2>4
<1>7. sent[a + 1] \in Group
  BY <1>2, <1>6 DEF EncTypes
<1>8. SectorAt(p, wrong).group = sent[a + 1]
  BY <1>1, <1>3 DEF SectorAt
<1>9. QED
  BY <1>7, <1>8 DEF Group

(* A group that is decoded is a group that was sent: not all of its        *)
(* sectors are missing.                                                    *)
LEMMA GroupOfSectors ==
  ASSUME sent \in Seq(Group), NEW a \in Nat, a + 1 \in 1..Len(sent),
         NEW sectors, DOMAIN sectors = 1..BlockSize,
         \A q \in Sectors : InPlace(sectors[q + 1], BlockSize * a + q),
         \E q \in Sectors : sectors[q + 1].group # <<>>
  PROVE  GroupsAmong(sectors) = {sent[a + 1]}
<1>1. PICK m \in Nat \ {0} : m = BlockSize
  BY SizesOfAGroup
<1>2. Sectors = 0..(m - 1)
  BY <1>1 DEF Sectors
<1>3. sent[a + 1] # <<>>
  <2>1. sent[a + 1] \in Group
    OBVIOUS
  <2>2. QED
    BY <2>1 DEF Group
<1>4. \A q \in Sectors :
        \/ sectors[q + 1] = Padding /\ BlockSize * a + q \in missing
        \/ sectors[q + 1].group = sent[a + 1]
  <2>1. ASSUME NEW q \in Sectors, sectors[q + 1] = SectorAt(BlockSize * a + q, sectors[q + 1].wrong)
        PROVE  sectors[q + 1].group = sent[a + 1]
    <3>1. PICK s : s = sectors[q + 1]
      OBVIOUS
    <3>2. PICK wrong : wrong = s.wrong
      OBVIOUS
    <3>3. s = SectorAt(BlockSize * a + q, wrong)
      BY <2>1, <3>1, <3>2
    <3>4. SectorAt(BlockSize * a + q, wrong).group = sent[a + 1]
      BY PlaceOfSector
    <3>5. QED
      BY <3>1, <3>3, <3>4
  <2>2. QED
    BY <2>1 DEF InPlace
<1>5. \E q \in Sectors : sectors[q + 1].group = sent[a + 1]
  BY <1>4 DEF Padding
<1>6. Padding.group = <<>>
  BY DEF Padding
<1>7. {sectors[i].group : i \in DOMAIN sectors} \ {<<>>} = {sent[a + 1]}
  <2>1. \A i \in DOMAIN sectors : sectors[i].group \in {<<>>, sent[a + 1]}
    <3>1. ASSUME NEW i \in 1..m
          PROVE  sectors[i].group \in {<<>>, sent[a + 1]}
      <4>1. PICK q \in 0..(m - 1) : q + 1 = i
        <5>1. i - 1 \in 0..(m - 1) /\ (i - 1) + 1 = i
          OBVIOUS
        <5>2. QED
          BY <5>1
      <4>2. QED
        BY <1>2, <1>4, <1>6, <4>1
    <3>2. QED
      BY <1>1, <3>1
  <2>2. \E i \in DOMAIN sectors : sectors[i].group = sent[a + 1]
    <3>1. PICK q \in 0..(m - 1) : sectors[q + 1].group = sent[a + 1]
      BY <1>2, <1>5
    <3>2. q + 1 \in 1..m
      OBVIOUS
    <3>3. QED
      BY <1>1, <3>1, <3>2
  <2>3. QED
    BY <1>3, <2>1, <2>2
<1>8. QED
  BY <1>7 DEF GroupsAmong

(* Whatever the code made of the blocks, a byte is the one that was        *)
(* recorded in its place, or is known to be none.                          *)
LEMMA ByteInPlace ==
  ASSUME NEW a \in Nat,
         NEW sectors,
         \A q \in Sectors : InPlace(sectors[q + 1], BlockSize * a + q),
         NEW r, NEW i \in Nat \ {0}
  PROVE  ByteDecoded(sectors, sent[a + 1], r, i) \in {Bad, ByteOf(sent[a + 1], i)}
<1>1. PICK m \in Nat \ {0} : m = SectorBytes
  BY SizesOfAGroup
<1>2. PICK c \in Nat \ {0} : c = GroupCapacity
  BY SizesOfAGroup
<1>3. PICK d \in Nat : d = DataSectors /\ d \in 1..(BlockSize - 1) /\ c < d * m
  BY <1>1, <1>2, SizesOfAGroup
<1> SUFFICES ASSUME ~(i > c)
             PROVE  ByteDecoded(sectors, sent[a + 1], r, i) \in {Bad, ByteOf(sent[a + 1], i)}
  BY <1>2 DEF ByteDecoded
<1>4. i \in Nat /\ i - 1 \in Nat /\ i <= c
  BY <1>2
<1>5. PICK q \in Nat : q = (i - 1) \div m
  BY <1>4, Euclid
<1>6. PICK b \in 0..(m - 1) : b = (i - 1) % m
  BY <1>4, Euclid
<1>7. q * m + b + 1 = i
  <2>1. i - 1 = m * q + b
    BY <1>4, <1>5, <1>6, Euclid
  <2>2. PICK x \in Nat : x = q * m
    BY Times
  <2>3. m * q = x
    BY <2>2
  <2>4. QED
    BY <1>4, <2>1, <2>2, <2>3
<1>8. q \in Sectors
  <2>1. q < d
    <3>1. SUFFICES ASSUME d <= q
                   PROVE  FALSE
      BY <1>3
    <3>2. d * m <= q * m /\ d * m \in Nat /\ q * m \in Nat
      BY <1>3, <3>1, Times
    <3>3. QED
      BY <1>2, <1>3, <1>4, <1>7, <3>2
  <2>2. BlockSize \in Nat
    BY SizesOfAGroup
  <2>3. q \in 0..(BlockSize - 1)
    BY <1>3, <2>1, <2>2
  <2>4. QED
    BY <2>3 DEF Sectors
<1>9. SectorOfByte(i) = q /\ BlockOfByte(i) = b /\ b \in Blocks
  BY <1>1, <1>5, <1>6 DEF SectorOfByte, BlockOfByte, Blocks
<1>10. PICK s : s = sectors[q + 1]
  OBVIOUS
<1>11. ByteReceived(s, b) \in {Bad, ByteOf(sent[a + 1], i)}
  <2>1. CASE s = Padding
    <3>1. b \in s.wrong
      BY <1>9, <2>1 DEF Padding
    <3>2. QED
      BY <3>1 DEF ByteReceived
  <2>2. CASE s = SectorAt(BlockSize * a + q, s.wrong)
    <3>1. PICK wrong : wrong = s.wrong
      OBVIOUS
    <3>2. s = SectorAt(BlockSize * a + q, wrong)
      BY <2>2, <3>1
    <3>3. s.group = sent[a + 1] /\ s.index = q
      BY <1>8, <3>2, PlaceOfSector
    <3>4. s.index * SectorBytes + b + 1 = i
      BY <1>1, <1>7, <3>3
    <3>5. QED
      BY <3>3, <3>4 DEF ByteReceived
  <2>3. QED
    BY <1>8, <1>10, <2>1, <2>2 DEF InPlace
<1>12. QED
  BY <1>9, <1>10, <1>11 DEF ByteDecoded

(* What decode_group() passes on.                                          *)
LEMMA DecodedGroup ==
  ASSUME sent \in Seq(Group), NEW a \in Nat, a + 1 \in 1..Len(sent),
         Len(sent[a + 1]) \in 1..GroupCapacity,
         NEW sectors, DOMAIN sectors = 1..BlockSize,
         \A q \in Sectors : InPlace(sectors[q + 1], BlockSize * a + q),
         \E q \in Sectors : sectors[q + 1].group # <<>>,
         DecodeGroup(sectors, TRUE)
  PROVE  \E buffer : /\ delivered' = Append(delivered, buffer)
                     /\ buffer \in Seq(Nat \union {Bad})
                     /\ \A j \in DOMAIN buffer :
                          buffer[j] \in {Bad, ByteOf(sent[a + 1], j)}
<1>1. PICK g : g = sent[a + 1]
  OBVIOUS
<1>2. GroupsAmong(sectors) = {g}
  BY <1>1, GroupOfSectors
<1>3. PICK r \in Corrections(sectors, g) : \E length \in LengthsRead(g, r.wrong) :
        delivered' = Append(delivered, Buffer(sectors, g, r, length))
  BY <1>2 DEF DecodeGroup
<1>4. PICK length \in LengthsRead(g, r.wrong) :
        delivered' = Append(delivered, Buffer(sectors, g, r, length))
  BY <1>3
<1>5. length \in Nat
  <2>1. length \in Lengths \/ length = Len(g)
    BY <1>4 DEF LengthsRead
  <2>2. Len(g) \in Nat /\ Lengths \subseteq Nat
    BY <1>1, SizesOfAGroup, Ecc2DecoderAssumption
  <2>3. QED
    BY <2>1, <2>2
<1>6. PICK buffer : buffer = Buffer(sectors, g, r, length)
  OBVIOUS
<1>7. ASSUME NEW j \in DOMAIN buffer
      PROVE  buffer[j] \in {Bad, ByteOf(sent[a + 1], j)}
  <2>1. buffer = [i \in 1..length |-> ByteDecoded(sectors, g, r, i)]
    BY <1>6 DEF Buffer
  <2>2. j \in 1..length
    BY <2>1
  <2>3. j \in Nat \ {0}
    BY <1>5, <2>2
  <2>4. buffer[j] = ByteDecoded(sectors, g, r, j)
    BY <2>1, <2>2
  <2>5. ByteDecoded(sectors, sent[a + 1], r, j) \in {Bad, ByteOf(sent[a + 1], j)}
    BY <2>3, ByteInPlace
  <2>6. QED
    BY <1>1, <2>4, <2>5
<1>8. buffer \in Seq(Nat \union {Bad})
  <2>1. length \in Nat /\ buffer = [i \in 1..length |-> ByteDecoded(sectors, g, r, i)]
    BY <1>5, <1>6, SizesOfAGroup DEF Buffer
  <2>2. DOMAIN buffer = 1..length
    BY <2>1
  <2>3. ASSUME NEW j \in 1..length
        PROVE  buffer[j] \in Nat \union {Bad}
    <3>1. sent[a + 1] \in Seq(Nat \ {0})
      BY DEF Group
    <3>2. ByteOf(sent[a + 1], j) \in Nat
      BY <2>1, <3>1 DEF ByteOf
    <3>3. QED
      BY <1>7, <2>2, <3>2
  <2>4. buffer \in [1..length -> Nat \union {Bad}]
    BY <2>1, <2>3
  <2>5. QED
    BY <2>1, <2>4
<1>9. QED
  BY <1>4, <1>6, <1>7, <1>8

-----------------------------------------------------------------------------
(* The link: it plays what was sent, and only so much of it goes wrong.    *)
LEMMA OneMore ==
  ASSUME NEW S, IsFiniteSet(S), NEW x
  PROVE  /\ IsFiniteSet(S \union {x})
         /\ Cardinality(S) \in Nat
         /\ Cardinality(S \union {x}) \in {Cardinality(S), Cardinality(S) + 1}
BY FS_AddElement, FS_CardinalityType

LEMMA RoomOnTheLink ==
  ASSUME EncTypes, LinkInv
  PROVE  /\ Len(sent) \in Nat /\ Len(sent) * BlockSize \in Nat /\ played \in Nat
         /\ SectorsLeft => played + 1 \in 0..(Len(sent) * BlockSize)
<1>1. PICK x \in Nat : x = Len(sent) * BlockSize /\ Len(sent) \in Nat
  BY SizesOfAGroup, Times DEF EncTypes
<1>2. played \in 0..x
  BY <1>1 DEF LinkInv
<1>3. SectorsLeft => played < x
  BY <1>1 DEF SectorsLeft
<1>4. SectorsLeft => played + 1 \in 0..x
  BY <1>2, <1>3
<1>5. QED
  BY <1>1, <1>2, <1>4

LEMMA LinkStep ==
  ASSUME EncInv, EncInv', LinkInv, [Next]_vars
  PROVE  LinkInv'
<1>1. EncTypes /\ EncTypes'
  BY DEF EncInv
<1>2. /\ Len(sent) * BlockSize \in Nat /\ played \in Nat
      /\ SectorsLeft => played + 1 \in 0..(Len(sent) * BlockSize)
  BY <1>1, RoomOnTheLink
<1>3. /\ IsFiniteSet(missing) /\ Cardinality(missing) \in Nat
      /\ IsFiniteSet(damaged) /\ Cardinality(damaged) \in Nat
      /\ MaxFaults \in Nat
      /\ Cardinality(missing) + Cardinality(damaged) <= MaxFaults
  BY FS_CardinalityType, Ecc2FaultAssumption DEF LinkInv
<1>4. CASE Recording
  <2>1. phase \in {"running", "ending"} /\ UNCHANGED <<played, announced, missing, damaged>>
    BY <1>4 DEF Recording, EncNext, EncChain, EndOfInput, EncEos, linkVars
  <2>2. played' = 0 /\ announced' = FALSE
    BY <2>1 DEF LinkInv
  <2>3. Len(sent') * BlockSize \in Nat
    BY <1>1, SizesOfAGroup, Times DEF EncTypes
  <2>4. QED
    BY <1>3, <2>1, <2>2, <2>3 DEF LinkInv
<1>5. CASE PlayGood \/ PlayAnnounced
  <2>1. /\ UNCHANGED <<sent, phase, missing, damaged>> /\ played' = played + 1
        /\ announced' = FALSE
        /\ SectorsLeft /\ phase \in {"done", "broken"}
    BY <1>5 DEF PlayGood, PlayAnnounced, Playing, encVars, LinkInv
  <2>2. QED
    BY <1>2, <1>3, <2>1 DEF LinkInv
<1>6. ASSUME SectorsLeft, MayFail, phase \in {"done", "broken"}, UNCHANGED <<sent, phase>>,
             played' \in {played, played + 1}, announced' \in BOOLEAN,
             announced' => SectorsLeft',
             NEW x,
             \/ missing' = missing \union {x} /\ damaged' = damaged
             \/ damaged' = damaged \union {x} /\ missing' = missing
      PROVE  LinkInv'
  <2>1. /\ IsFiniteSet(missing') /\ IsFiniteSet(damaged')
        /\ Cardinality(missing') + Cardinality(damaged') <= MaxFaults
    <3>1. Cardinality(missing) + Cardinality(damaged) < MaxFaults
      BY <1>6 DEF MayFail
    <3>2. CASE missing' = missing \union {x} /\ damaged' = damaged
      <4>1. IsFiniteSet(missing') /\ Cardinality(missing') \in {Cardinality(missing), Cardinality(missing) + 1}
        BY <1>3, <3>2, OneMore
      <4>2. QED
        BY <1>3, <3>1, <3>2, <4>1
    <3>3. CASE damaged' = damaged \union {x} /\ missing' = missing
      <4>1. IsFiniteSet(damaged') /\ Cardinality(damaged') \in {Cardinality(damaged), Cardinality(damaged) + 1}
        BY <1>3, <3>3, OneMore
      <4>2. QED
        BY <1>3, <3>1, <3>3, <4>1
    <3>4. QED
      BY <1>6, <3>2, <3>3
  <2>2. played' \in 0..(Len(sent') * BlockSize)
    BY <1>2, <1>6 DEF LinkInv
  <2>3. phase' \notin {"running", "ending"}
    BY <1>6
  <2>4. QED
    BY <1>6, <2>1, <2>2, <2>3 DEF LinkInv
<1>7. CASE Miss
  <2>1. /\ SectorsLeft /\ MayFail /\ phase \in {"done", "broken"} /\ UNCHANGED <<sent, phase>>
        /\ played' = played + 1 /\ announced' = FALSE
        /\ missing' = missing \union {played} /\ damaged' = damaged
    BY <1>7 DEF Miss, Playing, encVars, LinkInv
  <2>2. QED
    BY <1>6, <2>1
<1>8. CASE Announce
  <2>1. /\ SectorsLeft /\ MayFail /\ phase \in {"done", "broken"} /\ UNCHANGED <<sent, phase>>
        /\ played' = played /\ announced' = TRUE
        /\ damaged' = damaged \union {played} /\ missing' = missing
    BY <1>8 DEF Announce, Playing, encVars
  <2>2. SectorsLeft'
    BY <2>1 DEF SectorsLeft
  <2>3. QED
    BY <1>6, <2>1, <2>2
<1>9. CASE PlayUnnoticed
  <2>1. /\ SectorsLeft /\ MayFail /\ phase \in {"done", "broken"} /\ UNCHANGED <<sent, phase>>
        /\ played' = played + 1 /\ announced' = FALSE
        /\ damaged' = damaged \union {played} /\ missing' = missing
    BY <1>9 DEF PlayUnnoticed, Playing, encVars, LinkInv
  <2>2. QED
    BY <1>6, <2>1
<1>10. CASE End \/ UNCHANGED vars
  BY <1>10 DEF End, vars, encVars, linkVars, LinkInv, SectorsLeft
<1>11. QED
  BY <1>4, <1>5, <1>7, <1>8, <1>9, <1>10 DEF Next

-----------------------------------------------------------------------------
(* The decoder: what is collected stays in its place.                      *)
LEMMA StillInPlace ==
  ASSUME NEW s, NEW p, InPlace(s, p), sent' = sent, missing \subseteq missing'
  PROVE  InPlace(s, p)'
BY DEF InPlace, SectorAt

(* One more sector, or what stands for it.                                 *)
LEMMA CollectOne ==
  ASSUME EncTypes, LinkInv, IsList(collected), IsList(delivered), Collecting, SectorsLeft,
         sent' = sent, delivered' = delivered, missing \subseteq missing',
         played' = played + 1,
         NEW p, p = played, NEW e, InPlace(e, p)', collected' = Append(collected, e),
         IsList(erasure), Len(erasure') \in Nat,
         \/ p \in missing' /\ Len(erasure') = Len(erasure) + 1
         \/ /\ ~(Len(collected) + 1 >= BlockSize) /\ e.group # <<>>
            /\ Len(erasure') = Len(erasure)
  PROVE  Collecting' /\ IsList(collected')
<1>1. PICK n \in Nat : n = Len(collected)
  BY DEF IsList
<1>2. PICK B \in Nat \ {0} : B = BlockSize
  BY SizesOfAGroup
<1>3. PICK x \in Nat : x = BlockSize * Len(delivered)
  <2>1. Len(delivered) \in Nat
    BY DEF IsList
  <2>2. B * Len(delivered) \in Nat
    BY <2>1, Times
  <2>3. QED
    BY <1>2, <2>2
<1>4. /\ played = x + n
      /\ \A k \in 1..n : InPlace(collected[k], x + k - 1)
      /\ n < B + Len(erasure)
      /\ \/ \E k \in 1..n : k < B /\ collected[k].group # <<>>
         \/ n <= Len(erasure)
  BY <1>1, <1>2, <1>3 DEF Collecting
<1>5. /\ IsList(collected') /\ Len(collected') = n + 1
      /\ \A k \in 1..n : collected'[k] = collected[k]
      /\ collected'[n + 1] = e
  <2>1. /\ IsList(Append(collected, e))
        /\ DOMAIN Append(collected, e) = 1..(Len(collected) + 1)
        /\ \A i \in 1..Len(collected) : Append(collected, e)[i] = collected[i]
        /\ Append(collected, e)[Len(collected) + 1] = e
    BY AppendToList
  <2>2. Len(Append(collected, e)) = Len(collected) + 1
    BY DEF IsList
  <2>3. QED
    BY <1>1, <2>1, <2>2
<1>6. (BlockSize * Len(delivered))' = x
  BY <1>3
<1>7. ASSUME NEW k \in 1..(n + 1)
      PROVE  InPlace(collected[k], BlockSize * Len(delivered) + k - 1)'
  <2>1. PICK y : y = x + k - 1
    OBVIOUS
  <2>2. (BlockSize * Len(delivered) + k - 1)' = y
    BY <1>6, <2>1
  <2>3. PICK s : s = collected'[k]
    OBVIOUS
  <2>4. InPlace(s, y)'
    <3>1. CASE k \in 1..n
      <4>1. s = collected[k] /\ InPlace(collected[k], y)
        BY <1>4, <1>5, <2>1, <2>3, <3>1
      <4>2. InPlace(s, y)
        BY <4>1
      <4>3. QED
        BY <4>2, StillInPlace
    <3>2. CASE k = n + 1
      <4>1. s = e /\ y = p
        <5>1. y = x + n
          BY <2>1, <3>2
        <5>2. QED
          BY <1>4, <1>5, <2>3, <3>2, <5>1
      <4>2. QED
        BY <4>1
    <3>3. QED
      BY <3>1, <3>2
  <2>5. QED
    BY <2>2, <2>3, <2>4
<1>8. PICK z \in Nat : z = Len(erasure)
  BY DEF IsList
<1>9. /\ Len(collected') >= BlockSize => played' - 1 \in missing'
      /\ Len(collected') < BlockSize + Len(erasure')
      /\ \/ \E k \in 1..Len(collected') : k < BlockSize /\ collected'[k].group # <<>>
         \/ Len(collected') <= Len(erasure')
  <2>1. played' - 1 = p
    BY <1>4
  <2>2. CASE p \in missing' /\ Len(erasure') = z + 1
    <3>1. n + 1 < B + (z + 1)
      BY <1>4, <1>8
    <3>2. ASSUME NEW k \in 1..n, k < B, collected[k].group # <<>>
          PROVE  k \in 1..(n + 1) /\ k < B /\ collected'[k].group # <<>>
      BY <1>5, <3>2
    <3>3. n <= z => n + 1 <= z + 1
      OBVIOUS
    <3>4. QED
      BY <1>2, <1>4, <1>5, <1>8, <2>1, <2>2, <3>1, <3>2, <3>3
  <2>3. CASE ~(n + 1 >= B) /\ e.group # <<>> /\ Len(erasure') = z
    <3>1. n + 1 \in 1..(n + 1) /\ n + 1 < B /\ n + 1 < B + z
      BY <2>3
    <3>2. collected'[n + 1].group # <<>>
      BY <1>5, <2>3
    <3>3. QED
      BY <1>2, <1>5, <2>3, <3>1, <3>2
  <2>4. QED
    BY <1>1, <1>2, <1>8, <2>2, <2>3
<1>10. \A k \in 1..Len(collected') :
         InPlace(collected[k], BlockSize * Len(delivered) + k - 1)'
  BY <1>5, <1>7
<1>11. played' = BlockSize * Len(delivered') + Len(collected')
  BY <1>3, <1>4, <1>5
<1>12. QED
  BY <1>5, <1>9, <1>10, <1>11 DEF Collecting

LEMMA SkippedKeeps ==
  ASSUME EncTypes, LinkInv, DecInv, Miss
  PROVE  DecInv'
<1>1. /\ ~stopped /\ ~eosSeen /\ SectorsLeft
      /\ phase \in {"done", "broken"} /\ phase' = phase /\ sent' = sent
      /\ UNCHANGED <<delivered, stopped, eosSeen>>
      /\ played' = played + 1 /\ missing' = missing \union {played}
      /\ collected' = Append(collected, Padding)
      /\ erasure' = Append(erasure, sectorNumber)
  BY DEF Miss, Playing, Skipped, Listening, encVars
<1>2. PICK p : p = played
  OBVIOUS
<1>3. InPlace(Padding, p)'
  <2>1. p \in missing'
    BY <1>1, <1>2
  <2>2. Padding' = Padding
    BY DEF Padding, Blocks
  <2>3. QED
    BY <2>1, <2>2 DEF InPlace
<1>4. IsList(collected) /\ IsList(delivered) /\ Collecting
  BY <1>1 DEF DecInv
<1>5. IsList(erasure) /\ IsList(erasure') /\ Len(erasure') = Len(erasure) + 1
      /\ Len(erasure') \in Nat
  <2>1. IsList(erasure)
    BY DEF DecInv
  <2>2. IsList(Append(erasure, sectorNumber))
    BY <2>1, AppendToList
  <2>3. Len(Append(erasure, sectorNumber)) = Len(erasure) + 1 /\ Len(erasure) \in Nat
    BY <2>1 DEF IsList
  <2>4. QED
    BY <1>1, <2>1, <2>2, <2>3
<1>6. p \in missing'
  BY <1>1, <1>2
<1>7. Collecting' /\ IsList(collected')
  BY <1>1, <1>2, <1>3, <1>4, <1>5, <1>6, CollectOne
<1>8. BuffersAreGroups'
  BY <1>1 DEF DecInv, BuffersAreGroups
<1>9. QED
  BY <1>1, <1>4, <1>5, <1>7, <1>8 DEF DecInv

(* A sector that completes a group: the first sectors of the adapter are   *)
(* the group that is due, in their places.                                 *)
LEMMA GroupComplete ==
  ASSUME EncTypes, LinkInv, DecInv, ~stopped, SectorsLeft,
         ListFits, NEW e, NEW push, InPlace(e, played), e.group # <<>>,
         CompleteGroup(e, push)
  PROVE  LET all     == Append(collected, e)
             sectors == SubSeq(all, 1, BlockSize)
         IN  /\ Len(delivered) \in Nat /\ Len(delivered) + 1 \in 1..Len(sent)
             /\ DOMAIN sectors = 1..BlockSize
             /\ \E q \in Sectors : sectors[q + 1].group # <<>>
             /\ Len(collected) + 1 - BlockSize \in 0..Len(erasure)
             /\ \A k \in 1..BlockSize : sectors[k] = all[k]
             /\ \A q \in Sectors : InPlace(sectors[q + 1], BlockSize * Len(delivered) + q)
             /\ Len(collected) + 1 >= BlockSize /\ Len(all) = Len(collected) + 1
             /\ collected' = SubSeq(all, BlockSize + 1, Len(all))
             /\ DecodeGroup(sectors, push)
             /\ stopped' = ~push /\ sectorNumber' = 0
<1>1. IsList(collected) /\ IsList(delivered) /\ Collecting
  BY DEF DecInv
<1>2. PICK p : p = played
  OBVIOUS
<1>3. PICK all : all = Append(collected, e)
  OBVIOUS
<1>4. PICK n \in Nat : n = Len(collected)
  BY <1>1 DEF IsList
<1>5. PICK B \in Nat \ {0} : B = BlockSize
  BY SizesOfAGroup
<1>6. PICK d \in Nat : d = Len(delivered)
  BY <1>1 DEF IsList
<1>7. PICK x \in Nat : x = B * d
  BY Times
<1>8. p = x + n /\ \A k \in 1..n : InPlace(collected[k], x + k - 1)
  BY <1>1, <1>2, <1>4, <1>5, <1>6, <1>7 DEF Collecting
<1>9. /\ IsList(all) /\ Len(all) = n + 1
      /\ \A k \in 1..n : all[k] = collected[k]
      /\ all[n + 1] = e
  <2>1. /\ IsList(Append(collected, e))
        /\ DOMAIN Append(collected, e) = 1..(Len(collected) + 1)
        /\ \A i \in 1..Len(collected) : Append(collected, e)[i] = collected[i]
        /\ Append(collected, e)[Len(collected) + 1] = e
    BY <1>1, AppendToList
  <2>2. Len(Append(collected, e)) = Len(collected) + 1
    BY <1>1 DEF IsList
  <2>3. QED
    BY <1>3, <1>4, <2>1, <2>2
<1>10. \A k \in 1..(n + 1) : InPlace(all[k], x + k - 1)
  <2>1. ASSUME NEW k \in 1..(n + 1)
        PROVE  InPlace(all[k], x + k - 1)
    <3>1. CASE k \in 1..n
      BY <1>8, <1>9, <3>1
    <3>2. CASE k = n + 1
      <4>1. x + k - 1 = p
        BY <1>8, <3>2
      <4>2. QED
        BY <1>2, <1>9, <3>2, <4>1
    <3>3. QED
      BY <3>1, <3>2
  <2>2. QED
    BY <2>1
<1>11. /\ n + 1 >= B
       /\ DecodeGroup(SubSeq(all, 1, B), push)
       /\ collected' = SubSeq(all, B + 1, Len(all))
       /\ stopped' = ~push /\ sectorNumber' = 0
  BY <1>3, <1>5, <1>9 DEF CompleteGroup, IsGroup
<1>12. PICK sectors : sectors = SubSeq(all, 1, B)
  OBVIOUS
<1>13. Len(sectors) = B /\ DOMAIN sectors = 1..B /\ \A k \in 1..B : sectors[k] = all[k]
  <2>1. PICK S : S = Range(all)
    OBVIOUS
  <2>2. all \in Seq(S)
    BY <1>9, <2>1 DEF IsList
  <2>3. B <= Len(all)
    BY <1>9, <1>11
  <2>4. /\ SubSeq(all, 1, B) \in Seq(S) /\ Len(SubSeq(all, 1, B)) = B
        /\ \A k \in 1..B : SubSeq(all, 1, B)[k] = all[k]
    BY <2>2, <2>3, PartsTyped
  <2>5. QED
    BY <1>12, <2>4
<1>14. ASSUME NEW q \in 0..(B - 1)
       PROVE  InPlace(sectors[q + 1], x + q)
  <2>1. q + 1 \in 1..B /\ q + 1 \in 1..(n + 1) /\ x + (q + 1) - 1 = x + q
    BY <1>11
  <2>2. InPlace(all[q + 1], x + (q + 1) - 1)
    BY <1>10, <2>1
  <2>3. QED
    BY <1>13, <2>1, <2>2
<1>15. Sectors = 0..(B - 1)
  BY <1>5 DEF Sectors
<1>16. d + 1 \in 1..Len(sent)
  <2>1. PICK l \in Nat : l = Len(sent)
    BY DEF EncTypes
  <2>2. SUFFICES ASSUME l <= d
                 PROVE  FALSE
    BY <2>1
  <2>3. PICK y \in Nat : y = d * B
    BY Times
  <2>4. l * B <= y /\ l * B \in Nat
    BY <2>2, <2>3, Times
  <2>5. y = x
    BY <1>7, <2>3
  <2>6. p < l * B
    BY <1>2, <1>5, <2>1 DEF SectorsLeft
  <2>7. QED
    BY <1>8, <2>4, <2>5, <2>6
<1>17. \A q \in Sectors : InPlace(sectors[q + 1], BlockSize * d + q)
  BY <1>5, <1>7, <1>14, <1>15
<1>18. PICK z \in 0..(B - 1) : z = Len(erasure)
  <2>1. Len(erasure) \in Nat
    BY DEF DecInv, IsList
  <2>2. Len(erasure) <= Parity /\ Parity \in 1..(B - 1)
    BY <1>5, SizesOfAGroup DEF ListFits
  <2>3. QED
    BY <2>1, <2>2
<1>19. /\ n < B + z
       /\ \/ \E k \in 1..n : k < B /\ collected[k].group # <<>>
          \/ n <= z
  BY <1>1, <1>4, <1>5, <1>18 DEF Collecting
<1>20. \E q \in Sectors : sectors[q + 1].group # <<>>
  <2>1. ASSUME NEW k \in 1..n, k < B, collected[k].group # <<>>
        PROVE  \E q \in 0..(B - 1) : sectors[q + 1].group # <<>>
    <3>1. k - 1 \in 0..(B - 1) /\ (k - 1) + 1 = k /\ k \in 1..B
      BY <2>1
    <3>2. sectors[k] = collected[k]
      BY <1>9, <1>13, <2>1, <3>1
    <3>3. sectors[(k - 1) + 1].group # <<>>
      BY <2>1, <3>1, <3>2
    <3>4. QED
      BY <3>1, <3>3
  <2>2. ASSUME n <= z
        PROVE  \E q \in 0..(B - 1) : sectors[q + 1].group # <<>>
    <3>1. n \in 0..(B - 1) /\ n + 1 = B /\ n + 1 \in 1..B
      BY <1>11, <1>18, <2>2
    <3>2. sectors[n + 1] = e
      BY <1>9, <1>13, <3>1
    <3>3. QED
      BY <3>1, <3>2
  <2>3. QED
    BY <1>15, <1>19, <2>1, <2>2
<1>21. n + 1 - B \in 0..z
  BY <1>11, <1>18, <1>19
<1>22. QED
  BY <1>3, <1>4, <1>5, <1>6, <1>9, <1>11, <1>12, <1>13, <1>16, <1>17, <1>18, <1>20, <1>21

(* dec_chain(): a sector that is played completes a group or does not.     *)
LEMMA PlayedKeeps ==
  ASSUME EncTypes, LinkInv, DecInv, phase \in {"done", "broken"}, SectorsLeft,
         NEW wrong, DecChain(SectorAt(played, wrong)),
         played' = played + 1, UNCHANGED <<phase, sent, missing>>
  PROVE  DecInv'
<1>1. ~stopped /\ ~eosSeen /\ ListFits /\ eosSeen' = eosSeen
  BY DEF DecChain, Listening
<1>2. IsList(collected) /\ IsList(delivered) /\ IsList(erasure) /\ Len(erasure) \in Nat
      /\ Collecting /\ BuffersAreGroups
  BY <1>1 DEF DecInv, IsList
<1>3. PICK p : p = played
  OBVIOUS
<1>4. PICK e : e = SectorAt(p, wrong)
  OBVIOUS
<1>5. InPlace(e, p)
  BY <1>4 DEF InPlace, SectorAt
<1>6. InPlace(e, p)' /\ e.group # <<>>
  <2>1. e.group # <<>>
    <3>1. p \in Nat
      BY <1>3, RoomOnTheLink
    <3>2. QED
      BY <1>3, <1>4, <3>1, PlayedIsOfAGroup
  <2>2. QED
    BY <1>5, <2>1, StillInPlace
<1>7. CASE CollectSector(e)
  <2>1. /\ collected' = Append(collected, e) /\ UNCHANGED <<delivered, stopped, erasure>>
        /\ ~(Len(Append(collected, e)) >= BlockSize)
    BY <1>7 DEF CollectSector, IsGroup
  <2>2. ~(Len(collected) + 1 >= BlockSize)
    <3>1. Len(Append(collected, e)) = Len(collected) + 1
      BY <1>2 DEF IsList
    <3>2. QED
      BY <2>1, <3>1
  <2>3. Collecting' /\ IsList(collected')
    BY <1>2, <1>3, <1>6, <2>1, <2>2, CollectOne
  <2>4. BuffersAreGroups'
    BY <1>2, <2>1 DEF BuffersAreGroups
  <2>5. QED
    BY <1>1, <1>2, <2>1, <2>3, <2>4 DEF DecInv
<1>8. ASSUME NEW push \in PushResults, CompleteGroup(e, push)
      PROVE  DecInv'
  <2>1. PICK all : all = Append(collected, e)
    OBVIOUS
  <2>2. PICK n \in Nat : n = Len(collected)
    BY <1>2 DEF IsList
  <2>3. PICK B \in Nat \ {0} : B = BlockSize
    BY SizesOfAGroup
  <2>4. PICK d \in Nat : d = Len(delivered)
    BY <1>2 DEF IsList
  <2>5. PICK x \in Nat : x = B * d
    BY Times
  <2>6. /\ p = x + n
        /\ \A k \in 1..n : InPlace(collected[k], x + k - 1)
    BY <1>2, <1>3, <2>2, <2>3, <2>4, <2>5 DEF Collecting
  <2>7. /\ IsList(all) /\ Len(all) = n + 1
        /\ \A k \in 1..n : all[k] = collected[k]
        /\ all[n + 1] = e
    <3>1. /\ IsList(Append(collected, e))
          /\ DOMAIN Append(collected, e) = 1..(Len(collected) + 1)
          /\ \A i \in 1..Len(collected) : Append(collected, e)[i] = collected[i]
          /\ Append(collected, e)[Len(collected) + 1] = e
      BY <1>2, AppendToList
    <3>2. Len(Append(collected, e)) = Len(collected) + 1
      BY <1>2 DEF IsList
    <3>3. QED
      BY <2>1, <2>2, <3>1, <3>2
  <2>8. \A k \in 1..(n + 1) : InPlace(all[k], x + k - 1)
    <3>1. ASSUME NEW k \in 1..(n + 1)
          PROVE  InPlace(all[k], x + k - 1)
      <4>1. CASE k \in 1..n
        BY <2>6, <2>7, <4>1
      <4>2. CASE k = n + 1
        <5>1. x + k - 1 = p
          BY <2>6, <4>2
        <5>2. QED
          BY <1>5, <2>7, <4>2, <5>1
      <4>3. QED
        BY <4>1, <4>2
    <3>2. QED
      BY <3>1
  <2>9. /\ n + 1 >= B
        /\ DecodeGroup(SubSeq(all, 1, B), push)
        /\ collected' = SubSeq(all, B + 1, Len(all))
        /\ stopped' = ~push /\ erasure' = <<>> /\ IsList(erasure') /\ Len(erasure') = 0
    BY <1>8, <2>1, <2>3, <2>7 DEF CompleteGroup, IsGroup, IsList
  <2>10. PICK S : S = Range(all)
    OBVIOUS
  <2>11. all \in Seq(S)
    BY <2>7, <2>10 DEF IsList
  <2>12. /\ SubSeq(all, 1, B) \in Seq(S) /\ Len(SubSeq(all, 1, B)) = B
         /\ SubSeq(all, B + 1, Len(all)) \in Seq(S)
         /\ Len(SubSeq(all, B + 1, Len(all))) = n + 1 - B
         /\ \A k \in 1..B : SubSeq(all, 1, B)[k] = all[k]
         /\ \A k \in 1..(n + 1 - B) : SubSeq(all, B + 1, Len(all))[k] = all[B + k]
    <3>1. /\ SubSeq(all, 1, B) \in Seq(S) /\ Len(SubSeq(all, 1, B)) = B
          /\ SubSeq(all, B + 1, Len(all)) \in Seq(S)
          /\ Len(SubSeq(all, B + 1, Len(all))) = Len(all) - B
          /\ \A k \in 1..B : SubSeq(all, 1, B)[k] = all[k]
          /\ \A k \in 1..(Len(all) - B) : SubSeq(all, B + 1, Len(all))[k] = all[B + k]
      <4>1. B \in 0..Len(all)
        BY <2>7, <2>9
      <4>2. QED
        BY <2>11, <4>1, PartsTyped
    <3>2. PICK u, v : u = SubSeq(all, 1, B) /\ v = SubSeq(all, B + 1, Len(all))
      OBVIOUS
    <3>3. /\ u \in Seq(S) /\ Len(u) = B /\ v \in Seq(S) /\ Len(v) = Len(all) - B
          /\ \A k \in 1..B : u[k] = all[k]
          /\ \A k \in 1..(Len(all) - B) : v[k] = all[B + k]
      BY <3>1, <3>2, Zenon
    <3>4. Len(all) = n + 1
      BY <2>7
    <3>5. /\ u \in Seq(S) /\ Len(u) = B /\ v \in Seq(S) /\ Len(v) = n + 1 - B
          /\ \A k \in 1..B : u[k] = all[k]
          /\ \A k \in 1..(n + 1 - B) : v[k] = all[B + k]
      BY <3>3, <3>4
    <3>6. QED
      BY <3>2, <3>5, Zenon
  <2>13. IsList(collected') /\ Len(collected') = n + 1 - B
         /\ \A k \in 1..(n + 1 - B) : collected'[k] = all[B + k]
    BY <2>9, <2>12, ListOf
  <2>14. push \in BOOLEAN
    BY <1>8, Ecc2DecoderAssumption
  <2>15. CASE ~push
    <3>1. stopped' = TRUE /\ delivered' = delivered
      BY <2>9, <2>15 DEF DecodeGroup
    <3>2. BuffersAreGroups'
      BY <1>2, <3>1 DEF BuffersAreGroups
    <3>3. QED
      BY <1>1, <1>2, <2>9, <2>13, <3>1, <3>2 DEF DecInv
  <2>16. CASE push
    <3>1. stopped' = FALSE /\ DecodeGroup(SubSeq(all, 1, B), TRUE)
      BY <2>9, <2>14, <2>16
    <3>2. PICK sectors : sectors = SubSeq(all, 1, B)
      OBVIOUS
    <3>3. /\ d + 1 \in 1..Len(sent)
          /\ DOMAIN sectors = 1..BlockSize
          /\ \A q \in Sectors : InPlace(sectors[q + 1], BlockSize * d + q)
          /\ \E q \in Sectors : sectors[q + 1].group # <<>>
          /\ n + 1 - B \in 0..Len(erasure)
      <4>1. InPlace(e, played)
        BY <1>3, <1>5
      <4>2. QED
        BY <1>1, <1>6, <1>8, <2>1, <2>2, <2>3, <2>4, <3>2, <4>1, GroupComplete
    <3>4. sent \in Seq(Group) /\ Len(sent[d + 1]) \in 1..GroupCapacity
      BY <3>3 DEF EncTypes
    <3>5. PICK l \in 0..(B - 1) : l = n + 1 - B
      <4>1. Len(erasure) <= Parity /\ Parity \in 1..(B - 1) /\ Len(erasure) \in Nat
        BY <1>1, <1>2, <2>3, SizesOfAGroup DEF ListFits
      <4>2. QED
        BY <3>3, <4>1
    <3>6. PICK buffer : /\ delivered' = Append(delivered, buffer)
                        /\ \A j \in DOMAIN buffer :
                             buffer[j] \in {Bad, ByteOf(sent[d + 1], j)}
      <4>1. DecodeGroup(sectors, TRUE)
        BY <3>1, <3>2
      <4>2. QED
        BY <3>3, <3>4, <4>1, DecodedGroup
    <3>7. /\ IsList(delivered') /\ DOMAIN delivered' = 1..(d + 1)
           /\ \A i \in 1..d : delivered'[i] = delivered[i]
           /\ delivered'[d + 1] = buffer
           /\ DOMAIN delivered = 1..d
      BY <1>2, <2>4, <3>6, AppendToList
    <3>8. BuffersAreGroups'
      <4>1. ASSUME NEW i \in 1..(d + 1), NEW j \in DOMAIN delivered'[i]
            PROVE  delivered'[i][j] \in {Bad, ByteOf(sent[i], j)}
        <5>1. CASE i \in 1..d
          BY <1>2, <3>7, <4>1, <5>1 DEF BuffersAreGroups
        <5>2. CASE i = d + 1
          BY <3>6, <3>7, <4>1, <5>2
        <5>3. QED
          BY <5>1, <5>2
      <4>2. QED
        BY <3>7, <4>1 DEF BuffersAreGroups, ByteOf
    <3>9. Len(delivered') = d + 1
      <4>1. Len(delivered') \in Nat /\ DOMAIN delivered' = 1..Len(delivered')
        BY <3>7 DEF IsList
      <4>2. QED
        BY <3>7, <4>1
    <3>10. BlockSize * Len(delivered') = x + B
      <4>1. B * (d + 1) = B * d + B
        OBVIOUS
      <4>2. QED
        BY <2>3, <2>5, <3>9, <4>1
    <3>11. Collecting'
      <4>1. played' = BlockSize * Len(delivered') + Len(collected')
        <5>1. played' = p + 1
          BY <1>3
        <5>2. p + 1 = (x + B) + (n + 1 - B)
          BY <2>6
        <5>3. QED
          BY <2>13, <3>10, <5>1, <5>2
      <4>2. ASSUME NEW k \in 1..(n + 1 - B)
            PROVE  InPlace(collected[k], BlockSize * Len(delivered) + k - 1)'
        <5>1. PICK y : y = x + B + k - 1
          OBVIOUS
        <5>2. (BlockSize * Len(delivered) + k - 1)' = y
          BY <3>10, <5>1
        <5>3. PICK s : s = collected'[k]
          OBVIOUS
        <5>4. InPlace(s, y)
          <6>1. B + k \in 1..(n + 1) /\ x + (B + k) - 1 = x + B + k - 1
            BY <2>9
          <6>2. InPlace(all[B + k], x + (B + k) - 1)
            BY <2>8, <6>1
          <6>3. s = all[B + k]
            BY <2>13, <5>3
          <6>4. QED
            BY <5>1, <6>1, <6>2, <6>3
        <5>5. InPlace(s, y)'
          BY <5>4, StillInPlace
        <5>6. QED
          BY <5>2, <5>3, <5>5
      <4>3. /\ Len(collected') < BlockSize + Len(erasure')
            /\ Len(collected') < BlockSize
            /\ \/ \E k \in 1..Len(collected') : k < BlockSize /\ collected'[k].group # <<>>
               \/ Len(collected') <= Len(erasure')
        <5>1. CASE l = 0
          BY <2>3, <2>9, <2>13, <3>5, <5>1
        <5>2. CASE l # 0
          <6>1. l \in 1..(n + 1 - B) /\ B + l = n + 1 /\ l < B
            BY <3>5, <5>2
          <6>2. collected'[l] = e
            BY <2>7, <2>13, <6>1
          <6>3. l \in 1..l /\ Len(collected') = l /\ l \in Nat
            BY <2>13, <3>5, <6>1
          <6>4. Len(collected') < B + Len(erasure') /\ Len(collected') < B
            BY <2>9, <6>1, <6>3
          <6>5. l \in 1..Len(collected') /\ collected'[l].group # <<>>
            BY <1>6, <6>2, <6>3
          <6>6. QED
            BY <2>3, <6>1, <6>4, <6>5
        <5>3. QED
          BY <5>1, <5>2
      <4>4. \A k \in 1..Len(collected') :
              InPlace(collected[k], BlockSize * Len(delivered) + k - 1)'
        BY <2>13, <4>2
      <4>5. ~(Len(collected') >= BlockSize)
        BY <2>3, <2>13, <3>5
      <4>6. QED
        BY <4>1, <4>3, <4>4, <4>5 DEF Collecting
    <3>12. QED
      BY <1>1, <2>9, <2>13, <3>1, <3>7, <3>8, <3>11 DEF DecInv
  <2>17. QED
    BY <2>14, <2>15, <2>16
<1>9. QED
  BY <1>3, <1>4, <1>7, <1>8 DEF DecChain

LEMMA DecStep ==
  ASSUME EncInv, LinkInv, LinkInv', DecInv, [Next]_vars
  PROVE  DecInv'
<1>1. EncTypes
  BY DEF EncInv
<1>2. CASE Recording
  <2>1. phase \in {"running", "ending"} /\ UNCHANGED <<decVars, linkVars>>
    BY <1>2 DEF Recording, EncNext, EncChain, EndOfInput, EncEos
  <2>2. /\ collected' = <<>> /\ delivered' = <<>> /\ ~eosSeen' /\ stopped' = stopped
        /\ played' = 0
        /\ IsList(collected') /\ IsList(delivered') /\ IsList(erasure')
        /\ Len(erasure') \in Nat
        /\ stopped' \in BOOLEAN /\ eosSeen' \in BOOLEAN
    BY <2>1 DEF DecInv, LinkInv, decVars, linkVars, IsList
  <2>3. Len(<<>>) = 0 /\ DOMAIN <<>> = {} /\ BlockSize \in Nat \ {0}
    BY SizesOfAGroup
  <2>4. BlockSize * 0 = 0
    BY <2>3
  <2>5. Collecting'
    <3>1. /\ Len(collected') = 0 /\ Len(delivered') = 0 /\ 1..Len(collected') = {}
          /\ ~(Len(collected') >= BlockSize) /\ Len(collected') < BlockSize + Len(erasure')
      BY <2>2, <2>3
    <3>2. QED
      BY <2>2, <2>4, <3>1 DEF Collecting
  <2>6. QED
    BY <2>2, <2>3, <2>5 DEF DecInv, BuffersAreGroups
<1>3. CASE PlayGood \/ PlayAnnounced \/ PlayUnnoticed
  <2>1. PICK wrong : DecChain(SectorAt(played, wrong))
    BY <1>3 DEF PlayGood, PlayAnnounced, PlayUnnoticed
  <2>2. /\ phase \in {"done", "broken"} /\ SectorsLeft
        /\ played' = played + 1 /\ UNCHANGED <<phase, sent, missing>>
    BY <1>3 DEF PlayGood, PlayAnnounced, PlayUnnoticed, Playing, encVars, LinkInv
  <2>3. QED
    BY <1>1, <2>1, <2>2, PlayedKeeps
<1>4. CASE Miss
  BY <1>1, <1>4, SkippedKeeps
<1>5. CASE Announce \/ UNCHANGED vars
  <2>1. UNCHANGED <<phase, sent, played, missing, collected, delivered, stopped, eosSeen>>
    BY <1>5 DEF Announce, NextInvalid, vars, encVars, decVars, linkVars
  <2>2. IsList(erasure') /\ Len(erasure') \in Nat /\ Len(erasure') >= Len(erasure)
        /\ Len(erasure) \in Nat
    <3>1. IsList(erasure) /\ Len(erasure) \in Nat
      BY DEF DecInv, IsList
    <3>2. CASE erasure' = Append(erasure, sectorNumber)
      <4>1. IsList(Append(erasure, sectorNumber))
        BY <3>1, AppendToList
      <4>2. Len(Append(erasure, sectorNumber)) = Len(erasure) + 1
        BY <3>1 DEF IsList
      <4>3. QED
        BY <3>1, <3>2, <4>1, <4>2
    <3>3. CASE erasure' = erasure
      BY <3>1, <3>3
    <3>4. QED
      BY <1>5, <3>2, <3>3 DEF Announce, NextInvalid, vars, decVars
  <2>3. ASSUME Collecting, IsList(collected)
        PROVE  Collecting'
    <3>1. PICK n \in Nat : n = Len(collected)
      BY <2>3 DEF IsList
    <3>2. PICK B \in Nat \ {0} : B = BlockSize
      BY SizesOfAGroup
    <3>3. n < B + Len(erasure) => n < B + Len(erasure')
      BY <2>2
    <3>4. n <= Len(erasure) => n <= Len(erasure')
      BY <2>2
    <3>5. QED
      BY <2>1, <2>3, <3>1, <3>2, <3>3, <3>4 DEF Collecting, InPlace, SectorAt
  <2>4. QED
    BY <2>1, <2>2, <2>3 DEF DecInv, SectorsLeft, BuffersAreGroups
<1>6. CASE End
  <2>1. /\ UNCHANGED <<phase, sent, played, missing, collected, delivered, stopped, erasure>>
        /\ ~stopped /\ ~SectorsLeft /\ phase \in {"done", "broken"}
        /\ eosSeen' \in BOOLEAN
    BY <1>6 DEF End, Playing, DecEos, Listening, encVars, linkVars
  <2>2. Collecting'
    BY <2>1 DEF DecInv, Collecting, InPlace, SectorAt
  <2>3. QED
    BY <2>1, <2>2 DEF DecInv, SectorsLeft, BuffersAreGroups
<1>7. QED
  BY <1>2, <1>3, <1>4, <1>5, <1>6 DEF Next

LEMMA DecInitially ==
  ASSUME Init
  PROVE  LinkInv /\ DecInv
<1>1. /\ phase = "running" /\ sent = <<>> /\ collected = <<>> /\ delivered = <<>>
      /\ erasure = <<>>
      /\ stopped = FALSE /\ eosSeen = FALSE
      /\ played = 0 /\ announced = FALSE /\ missing = {} /\ damaged = {}
  BY DEF Init, EncInit, DecInit
<1>2. Len(<<>>) = 0 /\ DOMAIN <<>> = {} /\ IsList(<<>>)
  BY DEF IsList
<1>3. BlockSize * 0 = 0 /\ 0 * BlockSize = 0
  BY SizesOfAGroup
<1>4. LinkInv
  <2>1. IsFiniteSet({}) /\ Cardinality({}) = 0
    BY FS_EmptySet
  <2>2. MaxFaults \in Nat
    BY Ecc2FaultAssumption
  <2>3. Cardinality(missing) + Cardinality(damaged) <= MaxFaults
    BY <1>1, <2>1, <2>2
  <2>4. played \in 0..(Len(sent) * BlockSize)
    BY <1>1, <1>2, <1>3
  <2>5. QED
    BY <1>1, <2>1, <2>3, <2>4 DEF LinkInv
<1>5. Collecting
  <2>1. ~(Len(collected) >= BlockSize)
    BY <1>1, <1>2, SizesOfAGroup
  <2>2. played = BlockSize * Len(delivered) + Len(collected)
    BY <1>1, <1>2, <1>3
  <2>3. 1..Len(collected) = {}
    BY <1>1, <1>2
  <2>4. Len(collected) < BlockSize + Len(erasure) /\ Len(collected) <= Len(erasure)
    BY <1>1, <1>2, SizesOfAGroup
  <2>5. QED
    BY <2>1, <2>2, <2>3, <2>4 DEF Collecting
<1>6. BuffersAreGroups
  BY <1>1, <1>2 DEF BuffersAreGroups
<1>7. QED
  BY <1>1, <1>2, <1>4, <1>5, <1>6 DEF DecInv

(* The inductive invariant of encoder, link and decoder.                   *)
THEOREM StreamInvariance == Spec => []StreamInv
<1>1. Init => StreamInv
  BY EncInvariant, DecInitially DEF StreamInv
<1>2. StreamInv /\ [Next]_vars => StreamInv'
  <2>1. SUFFICES ASSUME StreamInv, [Next]_vars
                 PROVE  StreamInv'
    OBVIOUS
  <2>2. EncInv /\ LinkInv /\ DecInv
    BY <2>1 DEF StreamInv
  <2>3. EncInv'
    BY <2>1, <2>2, EncInvariant
  <2>4. LinkInv'
    BY <2>1, <2>2, <2>3, LinkStep
  <2>5. DecInv'
    BY <2>1, <2>2, <2>4, DecStep
  <2>6. QED
    BY <2>3, <2>4, <2>5 DEF StreamInv
<1>3. QED
  BY <1>1, <1>2, PTL DEF Spec

(* dec_event() pads for every sector it is told has been skipped: whatever *)
(* was lost or damaged, and whatever the block decoder took it for, byte j *)
(* of buffer i is the one that stands there in group i, or one that was    *)
(* left uncorrected.                                                       *)
THEOREM BuffersAreGroupsAlways == Spec => []BuffersAreGroups
<1>1. StreamInv => BuffersAreGroups
  BY DEF StreamInv, DecInv
<1>2. QED
  BY <1>1, StreamInvariance, PTL

(* dec_chain() looks for a complete group before it returns: at the end    *)
(* mark no whole group is left in the adapter, unless the last sector of   *)
(* the recording was skipped, so that nothing came after it.               *)
THEOREM EveryGroupIsDeliveredAlways == Spec => []EveryGroupIsDelivered
<1>1. ASSUME StreamInv
      PROVE  EveryGroupIsDelivered
  <2>1. SUFFICES ASSUME eosSeen, LastSectorOf(Len(sent)) \notin missing
                 PROVE  Len(delivered) = Len(sent)
    BY DEF EveryGroupIsDelivered
  <2>2. EncTypes /\ LinkInv /\ ~stopped /\ ~SectorsLeft /\ Collecting
        /\ IsList(collected) /\ IsList(delivered)
    BY <1>1, <2>1 DEF StreamInv, EncInv, DecInv
  <2>3. played - 1 \notin missing
    <3>1. played = Len(sent) * BlockSize
      <4>1. Len(sent) * BlockSize \in Nat
        BY <2>2, RoomOnTheLink
      <4>2. QED
        BY <2>2, <4>1 DEF LinkInv, SectorsLeft
    <3>2. QED
      BY <2>1, <3>1 DEF LastSectorOf
  <2>4. PICK B \in Nat \ {0} : B = BlockSize
    BY SizesOfAGroup
  <2>5. PICK d \in Nat : d = Len(delivered)
    BY <2>2 DEF IsList
  <2>6. PICK n \in 0..(B - 1) : n = Len(collected)
    <3>1. Len(collected) \in Nat
      BY <2>2 DEF IsList
    <3>2. ~(Len(collected) >= B)
      BY <2>2, <2>3, <2>4 DEF Collecting
    <3>3. Len(collected) \in 0..(B - 1)
      BY <3>1, <3>2
    <3>4. QED
      BY <3>3
  <2>7. PICK l \in Nat : l = Len(sent)
    BY <2>2 DEF EncTypes
  <2>8. PICK x \in Nat : x = l * B
    BY Times
  <2>9. played = x
    <3>1. played \in 0..x
      BY <2>2, <2>4, <2>7, <2>8 DEF LinkInv
    <3>2. ~(played < x)
      BY <2>2, <2>4, <2>7, <2>8 DEF SectorsLeft
    <3>3. QED
      BY <3>1, <3>2
  <2>10. d * B + n = l * B + 0
    <3>1. played = B * d + n
      BY <2>2, <2>4, <2>5, <2>6 DEF Collecting
    <3>2. B * d = d * B
      OBVIOUS
    <3>3. QED
      BY <2>8, <2>9, <3>1, <3>2
  <2>11. d = l
    <3>1. 0 \in 0..(B - 1)
      OBVIOUS
    <3>2. QED
      BY <2>10, <3>1, DivisionIsUnique
  <2>12. QED
    BY <2>5, <2>7, <2>11
<1>2. QED
  BY <1>1, StreamInvariance, PTL

-----------------------------------------------------------------------------
(* What the first blocks of a group come to.                               *)
BeforeBlocks(sectors, g) ==
  {[erasure |-> erasure, extra |-> extraErrors, worst |-> worstGroup,
    wrong   |-> [c \in Blocks |-> WrongSymbols(sectors, g, c)],
    altered |-> [c \in Blocks |-> {}]]}

AfterBlocks(before, b) ==
  UNION {{AfterBlock(r, b - 1, result) : result \in Decode(r.wrong[b - 1], r.erasure)} : r \in before}

CorrectedUpTo(n, f, sectors, g) ==
  f = [b \in 0..n |-> IF b = 0 THEN BeforeBlocks(sectors, g) ELSE AfterBlocks(f[b - 1], b)]

LEMMA CorrectedExists ==
  ASSUME NEW sectors, NEW g, NEW N \in Nat
  PROVE  \E f : CorrectedUpTo(N, f, sectors, g)
<1> DEFINE None == {n \in Nat : ~(\E f : CorrectedUpTo(n, f, sectors, g))}
<1>1. SUFFICES ASSUME None # {}
               PROVE  FALSE
  OBVIOUS
<1>2. PICK n \in None : \A m \in None : n <= m
  BY <1>1, MinExists
<1>3. n \in Nat /\ ~(\E f : CorrectedUpTo(n, f, sectors, g))
  BY <1>2
<1>4. CASE n = 0
  <2>1. PICK f : f = [b \in 0..0 |-> BeforeBlocks(sectors, g)]
    OBVIOUS
  <2>2. CorrectedUpTo(0, f, sectors, g)
    BY <2>1 DEF CorrectedUpTo
  <2>3. QED
    BY <1>3, <1>4, <2>2
<1>5. CASE n # 0
  <2>1. n - 1 \in Nat /\ n - 1 < n /\ n - 1 \notin None
    BY <1>2, <1>3, <1>5
  <2>2. PICK f : CorrectedUpTo(n - 1, f, sectors, g)
    BY <2>1
  <2>3. PICK h : h = [b \in 0..n |-> IF b = n THEN AfterBlocks(f[n - 1], n) ELSE f[b]]
    OBVIOUS
  <2>4. ASSUME NEW b \in 0..n
        PROVE  h[b] = IF b = 0 THEN BeforeBlocks(sectors, g) ELSE AfterBlocks(h[b - 1], b)
    <3>1. CASE b = n
      <4>1. n - 1 \in 0..n /\ n - 1 # n
        BY <1>3, <1>5
      <4>2. h[n - 1] = f[n - 1] /\ h[n] = AfterBlocks(f[n - 1], n)
        BY <2>3, <3>1, <4>1
      <4>3. QED
        BY <1>5, <3>1, <4>2
    <3>2. CASE b # n
      <4>1. b \in 0..(n - 1) /\ h[b] = f[b]
        BY <1>3, <2>3, <3>2
      <4>2. f[b] = IF b = 0 THEN BeforeBlocks(sectors, g) ELSE AfterBlocks(f[b - 1], b)
        BY <2>2, <4>1 DEF CorrectedUpTo
      <4>3. b # 0 => b - 1 \in 0..n /\ b - 1 # n /\ h[b - 1] = f[b - 1]
        <5>1. b # 0 => b - 1 \in 0..n /\ b - 1 # n
          BY <1>3, <3>2
        <5>2. QED
          BY <2>3, <5>1
      <4>4. QED
        BY <4>1, <4>2, <4>3
    <3>3. QED
      BY <3>1, <3>2
  <2>5. CorrectedUpTo(n, h, sectors, g)
    BY <2>3, <2>4 DEF CorrectedUpTo
  <2>6. QED
    BY <1>3, <2>5
<1>6. QED
  BY <1>4, <1>5

LEMMA CorrectionsAre ==
  ASSUME NEW sectors, NEW g, SectorBytes \in Nat
  PROVE  \E f : CorrectedUpTo(SectorBytes, f, sectors, g) /\ Corrections(sectors, g) = f[SectorBytes]
<1> DEFINE F == CHOOSE f : CorrectedUpTo(SectorBytes, f, sectors, g)
<1>1. CorrectedUpTo(SectorBytes, F, sectors, g)
  BY CorrectedExists
<1>2. Corrections(sectors, g) = F[SectorBytes]
  BY DEF Corrections, CorrectedUpTo, BeforeBlocks, AfterBlocks
<1>3. QED
  BY <1>1, <1>2

(* Sets of results that each block leads from one into the next.           *)
LEMMA ThroughTheBlocks ==
  ASSUME NEW sectors, NEW g, NEW Good, SectorBytes \in Nat,
         BeforeBlocks(sectors, g) \subseteq Good[0],
         \A b \in Blocks : \A r \in Good[b] : \A result \in Decode(r.wrong[b], r.erasure) :
           AfterBlock(r, b, result) \in Good[b + 1]
  PROVE  Corrections(sectors, g) \subseteq Good[SectorBytes]
<1>1. PICK f : /\ CorrectedUpTo(SectorBytes, f, sectors, g)
               /\ Corrections(sectors, g) = f[SectorBytes]
  BY CorrectionsAre
<1>2. \A b \in 0..SectorBytes :
        f[b] = IF b = 0 THEN BeforeBlocks(sectors, g) ELSE AfterBlocks(f[b - 1], b)
  BY <1>1 DEF CorrectedUpTo
<1> DEFINE Off == {b \in 0..SectorBytes : ~(f[b] \subseteq Good[b])}
<1>3. Off = {}
  <2>1. SUFFICES ASSUME Off # {}
                 PROVE  FALSE
    OBVIOUS
  <2>2. PICK b \in Off : \A c \in Off : b <= c
    <3>1. Off \in SUBSET Nat
      OBVIOUS
    <3>2. QED
      BY <2>1, <3>1, MinExists
  <2>3. b \in 0..SectorBytes /\ ~(f[b] \subseteq Good[b])
    BY <2>2
  <2>4. b # 0
    BY <1>2, <2>3
  <2>5. b - 1 \in Blocks /\ b - 1 \in 0..SectorBytes /\ (b - 1) + 1 = b
    BY <2>3, <2>4 DEF Blocks
  <2>6. f[b - 1] \subseteq Good[b - 1]
    <3>1. b - 1 \notin Off
      BY <2>2, <2>3, <2>4
    <3>2. QED
      BY <2>5, <3>1
  <2>7. ASSUME NEW r \in f[b - 1], NEW result \in Decode(r.wrong[b - 1], r.erasure)
        PROVE  AfterBlock(r, b - 1, result) \in Good[b]
    BY <2>5, <2>6
  <2>8. f[b] \subseteq Good[b]
    <3>1. f[b] = AfterBlocks(f[b - 1], b)
      BY <1>2, <2>3, <2>4
    <3>2. QED
      BY <2>7, <3>1 DEF AfterBlocks
  <2>9. QED
    BY <2>3, <2>8
<1>4. QED
  BY <1>1, <1>3

-----------------------------------------------------------------------------
(* SetToSeq() lists a finite set.                                          *)
LEMMA ListOfSet ==
  ASSUME NEW S, IsFiniteSet(S)
  PROVE  /\ SetToSeq(S) \in Seq(S) /\ Len(SetToSeq(S)) = Cardinality(S)
         /\ Cardinality(S) \in Nat
         /\ Range(SetToSeq(S)) = S
<1>1. PICK n \in Nat : n = Cardinality(S)
  BY FS_CardinalityType
<1>2. PICK h \in Bijection(1..n, S) : TRUE
  BY <1>1, FS_CardinalityType DEF ExistsBijection
<1>3. h \in [1..Cardinality(S) -> S] /\ IsInjective(h)
  BY <1>1, <1>2 DEF Bijection, Injection
<1>4. SetToSeq(S) \in [1..Cardinality(S) -> S] /\ IsInjective(SetToSeq(S))
  BY <1>3 DEF SetToSeq
<1>5. PICK s : s = SetToSeq(S)
  OBVIOUS
<1>6. s \in [1..n -> S] /\ s \in Injection(1..n, S)
  BY <1>1, <1>4, <1>5 DEF Injection
<1>7. s \in Seq(S) /\ Len(s) = n
  BY <1>6
<1>8. s \in Surjection(1..n, S)
  <2>1. IsFiniteSet(1..n) /\ Cardinality(1..n) = n
    BY FS_Interval
  <2>2. QED
    BY <1>1, <1>6, <2>1, FS_Injection
<1>9. Range(s) = S
  BY <1>6, <1>8 DEF Surjection, Range
<1>10. QED
  BY <1>1, <1>5, <1>7, <1>9

LEMMA LocationsAreSymbols ==
  ASSUME NEW er \in Seq(Nat)
  PROVE  /\ LocationsIn(er) \subseteq Sectors /\ IsFiniteSet(LocationsIn(er))
         /\ IsFiniteSet(Sectors)
<1>1. PICK B \in Nat \ {0} : B = BlockSize
  BY SizesOfAGroup
<1>2. IsFiniteSet(Sectors) /\ Sectors = 0..(B - 1)
  BY <1>1, FS_Interval DEF Sectors
<1>3. ASSUME NEW i \in DOMAIN er
      PROVE  er[i] % BlockSize \in Sectors
  <2>1. er[i] \in Nat
    OBVIOUS
  <2>2. er[i] % B \in 0..(B - 1)
    BY <2>1
  <2>3. QED
    BY <1>1, <1>2, <2>2
<1>4. LocationsIn(er) \in SUBSET Sectors
  BY <1>3 DEF LocationsIn
<1>5. QED
  BY <1>2, <1>4, FS_Subset

(* What is found in a block within reach: erasures and errors.             *)
LEMMA FoundWithinReach ==
  ASSUME NEW wrong \in SUBSET Sectors, NEW er \in Seq(Nat), WithinReach(wrong, er)
  PROVE  LET found == wrong \union LocationsIn(er)
         IN  /\ found \in SUBSET Sectors /\ IsFiniteSet(found)
             /\ Cardinality(found) = Len(er) + Cardinality(wrong \ LocationsIn(er))
             /\ Cardinality(found) \in 0..Parity
<1> DEFINE locations == LocationsIn(er)
<1>1. locations \subseteq Sectors /\ IsFiniteSet(locations) /\ IsFiniteSet(Sectors)
  BY LocationsAreSymbols
<1>2. Cardinality(locations) = Len(er)
      /\ Len(er) + 2 * Cardinality(wrong \ locations) <= Parity
  BY DEF WithinReach, AllDistinct
<1> HIDE DEF locations
<1> DEFINE more == wrong \ locations
<1>3. IsFiniteSet(more) /\ more \subseteq Sectors
  <2>1. more \in SUBSET Sectors
    OBVIOUS
  <2>2. QED
    BY <1>1, <2>1, FS_Subset
<1>4. wrong \union locations = locations \union more /\ locations \intersect more = {}
  OBVIOUS
<1>5. IsFiniteSet(locations \union more)
      /\ Cardinality(locations \union more) =
           Cardinality(locations) + Cardinality(more) - Cardinality(locations \intersect more)
  BY <1>1, <1>3, FS_Union
<1>6. Cardinality(locations \intersect more) = 0
  BY <1>4, FS_EmptySet
<1>7. PICK c \in Nat : c = Cardinality(more)
  BY <1>3, FS_CardinalityType
<1>8. Len(er) \in Nat /\ Parity \in Nat
  BY SizesOfAGroup
<1>9. Cardinality(locations \union more) = Len(er) + c /\ Len(er) + c \in 0..Parity
  BY <1>2, <1>5, <1>6, <1>7, <1>8
<1>10. wrong \union locations \in SUBSET Sectors
  BY <1>1
<1>11. QED
  BY <1>4, <1>5, <1>7, <1>9, <1>10 DEF locations

(* Whatever the block decoder makes of a block, it reports no more than    *)
(* Parity corrections, and lists as many places when they are more than    *)
(* the erasures it was given.                                              *)
LEMMA DecodeTyped ==
  ASSUME NEW wrong \in SUBSET Sectors, NEW er \in Seq(Nat),
         NEW result \in Decode(wrong, er)
  PROVE  /\ result.corrections \in -1..Parity
         /\ result.wrong \in SUBSET Sectors /\ result.altered \in SUBSET Sectors
         /\ result.corrections > Len(er) =>
              result.erasure \in Seq(Nat) /\ Len(result.erasure) <= Parity
<1>1. Parity \in Nat /\ Len(er) \in Nat
  BY SizesOfAGroup
<1>2. Sectors \subseteq Nat
  BY SizesOfAGroup DEF Sectors
<1>3. ASSUME NEW c \in {0, -1}, result = Unchanged(wrong, er, c)
      PROVE  /\ result.corrections \in -1..Parity /\ ~(result.corrections > Len(er))
             /\ result.wrong \in SUBSET Sectors /\ result.altered \in SUBSET Sectors
  BY <1>1, <1>3 DEF Unchanged
<1>4. ASSUME NEW S \in SUBSET Sectors, IsFiniteSet(S)
      PROVE  SetToSeq(S) \in Seq(Nat) /\ Len(SetToSeq(S)) = Cardinality(S)
  <2>1. SetToSeq(S) \in Seq(S) /\ Len(SetToSeq(S)) = Cardinality(S)
    BY <1>4, ListOfSet
  <2>2. S \subseteq Nat
    BY <1>2
  <2>3. PICK s : s = SetToSeq(S)
    OBVIOUS
  <2>4. s \in Seq(Nat)
    <3>1. s \in Seq(S)
      BY <2>1, <2>3
    <3>2. s \in [1..Len(s) -> S] /\ Len(s) \in Nat
      BY <3>1
    <3>3. s \in [1..Len(s) -> Nat]
      BY <2>2, <3>2
    <3>4. QED
      BY <3>2, <3>3
  <2>5. QED
    BY <2>1, <2>3, <2>4
<1>5. CASE WithinReach(wrong, er) /\ result = Corrected(wrong, er)
  <2>1. PICK found \in SUBSET Sectors :
          /\ found = wrong \union LocationsIn(er)
          /\ IsFiniteSet(found) /\ Cardinality(found) \in 0..Parity
    BY <1>5, FoundWithinReach
  <2>2. result = [corrections |-> Cardinality(found), erasure |-> SetToSeq(found),
                  wrong |-> {}, altered |-> {}]
    BY <1>5, <2>1 DEF Corrected
  <2>3. QED
    BY <1>1, <1>4, <2>1, <2>2
<1>6. ASSUME NEW r \in SUBSET Sectors, Cardinality(r) \in 0..Parity,
             result = [corrections |-> Cardinality(r), erasure |-> SetToSeq(r),
                       wrong |-> wrong \union r, altered |-> r]
      PROVE  /\ result.corrections \in -1..Parity
             /\ result.wrong \in SUBSET Sectors /\ result.altered \in SUBSET Sectors
             /\ result.erasure \in Seq(Nat) /\ Len(result.erasure) <= Parity
  <2>1. IsFiniteSet(r)
    BY LocationsAreSymbols, FS_Subset
  <2>2. QED
    BY <1>1, <1>4, <1>6, <2>1
<1>7. \/ result = Unchanged(wrong, er, 0) \/ result = Unchanged(wrong, er, -1)
      \/ WithinReach(wrong, er) /\ result = Corrected(wrong, er)
      \/ \E r \in SUBSET Sectors :
           /\ Cardinality(r) \in 0..Parity
           /\ result = [corrections |-> Cardinality(r), erasure |-> SetToSeq(r),
                        wrong |-> wrong \union r, altered |-> r]
  BY DEF Decode, Miscorrected
<1>8. QED
  BY <1>3, <1>5, <1>6, <1>7

(* The state of decode_group() between two blocks.                         *)
BlockState == [erasure : Seq(Nat), extra : Nat, worst : 0..Parity,
               wrong : [Blocks -> SUBSET Sectors], altered : [Blocks -> SUBSET Sectors]]

LEMMA AfterBlockTyped ==
  ASSUME NEW r \in BlockState, Len(r.erasure) <= Parity, NEW b \in Blocks,
         NEW result \in Decode(r.wrong[b], r.erasure)
  PROVE  AfterBlock(r, b, result) \in BlockState /\ Len(AfterBlock(r, b, result).erasure) <= Parity
<1>1. r.erasure \in Seq(Nat) /\ r.extra \in Nat /\ r.worst \in 0..Parity
      /\ r.wrong \in [Blocks -> SUBSET Sectors] /\ r.altered \in [Blocks -> SUBSET Sectors]
      /\ r.wrong[b] \in SUBSET Sectors
  BY DEF BlockState
<1>2. /\ result.corrections \in -1..Parity
      /\ result.wrong \in SUBSET Sectors /\ result.altered \in SUBSET Sectors
      /\ result.corrections > Len(r.erasure) =>
           result.erasure \in Seq(Nat) /\ Len(result.erasure) <= Parity
  BY <1>1, DecodeTyped
<1>3. Parity \in Nat /\ Len(r.erasure) \in Nat
  BY <1>1, SizesOfAGroup
<1> DEFINE more == result.corrections > Len(r.erasure)
           list == IF more THEN result.erasure ELSE r.erasure
           extra == r.extra + (IF more THEN result.corrections - Len(r.erasure) ELSE 0)
           worst == Max({r.worst, result.corrections})
           wrong == [r.wrong EXCEPT ![b] = result.wrong]
           altered == [r.altered EXCEPT ![b] = result.altered]
<1>4. list \in Seq(Nat) /\ Len(list) <= Parity
  BY <1>1, <1>2
<1>5. extra \in Nat
  BY <1>1, <1>2, <1>3
<1>6. worst \in 0..Parity
  <2>1. PICK x \in 0..Parity : x = r.worst
    BY <1>1
  <2>2. PICK y \in -1..Parity : y = result.corrections
    BY <1>2
  <2>3. x \in Int /\ y \in Int
    BY <1>3
  <2>4. Max({x, y}) \in {x, y} /\ Max({x, y}) >= x
    <3>1. \E z \in {x, y} : \A w \in {x, y} : z >= w
      BY <2>3
    <3>2. QED
      BY <3>1 DEF Max
  <2>5. Max({x, y}) \in 0..Parity
    BY <1>3, <2>3, <2>4
  <2>6. QED
    BY <2>1, <2>2, <2>5
<1>7. wrong \in [Blocks -> SUBSET Sectors] /\ altered \in [Blocks -> SUBSET Sectors]
  BY <1>1, <1>2
<1>8. AfterBlock(r, b, result) =
        [erasure |-> list, extra |-> extra, worst |-> worst, wrong |-> wrong, altered |-> altered]
  BY DEF AfterBlock
<1> HIDE DEF more, list, extra, worst, wrong, altered
<1>9. QED
  BY <1>4, <1>5, <1>6, <1>7, <1>8 DEF BlockState

(* The lists and the statistics that decode_group() comes to.              *)
LEMMA CorrectionsTyped ==
  ASSUME NEW sectors, NEW g, erasure \in Seq(Nat), Len(erasure) <= Parity,
         extraErrors \in Nat, worstGroup \in 0..Parity
  PROVE  Corrections(sectors, g) \subseteq BlockState
<1> DEFINE T == {r \in BlockState : Len(r.erasure) <= Parity}
           Good == [b \in Nat |-> T]
<1>1. SectorBytes \in Nat /\ \A b \in Blocks : b \in Nat /\ b + 1 \in Nat
  BY SizesOfAGroup DEF Blocks
<1>2. BeforeBlocks(sectors, g) \subseteq T
  <2>1. ASSUME NEW c \in Blocks
        PROVE  WrongSymbols(sectors, g, c) \in SUBSET Sectors
    <3>1. ASSUME NEW q \in Sectors
          PROVE  SymbolOf(q) \in Sectors
      BY SizesOfAGroup DEF Sectors, SymbolOf, DataSectors
    <3>2. QED
      BY <3>1 DEF WrongSymbols
  <2>2. [c \in Blocks |-> WrongSymbols(sectors, g, c)] \in [Blocks -> SUBSET Sectors]
    BY <2>1
  <2>3. [c \in Blocks |-> {}] \in [Blocks -> SUBSET Sectors]
    OBVIOUS
  <2>4. QED
    BY <2>2, <2>3 DEF BeforeBlocks, BlockState
<1>3. ASSUME NEW b \in Blocks, NEW r \in T, NEW result \in Decode(r.wrong[b], r.erasure)
      PROVE  AfterBlock(r, b, result) \in T
  BY AfterBlockTyped
<1>4. Good[0] = T /\ Good[SectorBytes] = T /\ \A b \in Blocks : Good[b] = T /\ Good[b + 1] = T
  BY <1>1
<1> HIDE DEF Good, T
<1>5. Corrections(sectors, g) \subseteq Good[SectorBytes]
  BY <1>1, <1>2, <1>3, <1>4, ThroughTheBlocks
<1>6. QED
  BY <1>4, <1>5 DEF T

LEMMA SymbolIsItsLocation ==
  ASSUME NEW q \in Sectors
  PROVE  q % BlockSize = q
<1>1. PICK B \in Nat \ {0} : B = BlockSize
  BY SizesOfAGroup
<1>2. q \in 0..(B - 1)
  BY <1>1 DEF Sectors
<1>3. /\ q \div B \in Nat /\ q % B \in 0..(B - 1)
      /\ q = B * (q \div B) + (q % B)
  <2>1. q \in Nat
    BY <1>2
  <2>2. QED
    BY <2>1, Euclid
<1>4. (q \div B) * B + (q % B) = 0 * B + q
  BY <1>2, <1>3
<1>5. QED
  BY <1>1, <1>2, <1>3, <1>4, DivisionIsUnique

(* The reach of the code.  "faulty" are the symbols of the group that may  *)
(* be wrong.  Erasures cost one parity symbol each and errors two; those   *)
(* that a block finds become erasures of the next, which costs no more.    *)
Reaches(r, faulty) ==
  /\ AllDistinct(r.erasure)
  /\ Len(r.erasure) + 2 * Cardinality(faulty \ LocationsIn(r.erasure)) <= Parity

ReachedState(b, faulty) ==
  {r \in BlockState : /\ \A c \in Blocks : r.wrong[c] \subseteq faulty
                      /\ \A c \in Blocks : c < b => r.wrong[c] = {}
                      /\ Reaches(r, faulty)}

LEMMA ReachGrows ==
  ASSUME NEW faulty \in SUBSET Sectors, NEW wrong \in SUBSET faulty, NEW er \in Seq(Nat),
         Reaches([erasure |-> er], faulty)
  PROVE  /\ WithinReach(wrong, er)
         /\ Reaches([erasure |-> SetToSeq(wrong \union LocationsIn(er))], faulty)
<1> DEFINE locations == LocationsIn(er)
           found == wrong \union locations
           list == SetToSeq(found)
<1>1. locations \in SUBSET Sectors /\ IsFiniteSet(locations) /\ IsFiniteSet(Sectors)
  BY LocationsAreSymbols
<1>2. Cardinality(locations) = Len(er)
      /\ Len(er) + 2 * Cardinality(faulty \ locations) <= Parity
  BY DEF Reaches, AllDistinct
<1>3. Len(er) \in Nat /\ Parity \in Nat
  BY SizesOfAGroup
<1> HIDE DEF locations
<1>4. IsFiniteSet(faulty \ locations) /\ IsFiniteSet(wrong \ locations)
      /\ Cardinality(faulty \ locations) \in Nat /\ Cardinality(wrong \ locations) \in Nat
      /\ Cardinality(wrong \ locations) <= Cardinality(faulty \ locations)
  <2>1. faulty \ locations \in SUBSET Sectors /\ wrong \ locations \in SUBSET (faulty \ locations)
    OBVIOUS
  <2>2. IsFiniteSet(faulty \ locations)
    BY <1>1, <2>1, FS_Subset
  <2>3. IsFiniteSet(wrong \ locations)
        /\ Cardinality(wrong \ locations) <= Cardinality(faulty \ locations)
    BY <2>1, <2>2, FS_Subset
  <2>4. QED
    BY <2>2, <2>3, FS_CardinalityType
<1>5. WithinReach(wrong, er)
  <2>1. Len(er) + 2 * Cardinality(wrong \ locations) <= Parity
    BY <1>2, <1>3, <1>4
  <2>2. QED
    BY <2>1 DEF WithinReach, Reaches, locations
<1>6. found \in SUBSET Sectors /\ IsFiniteSet(found)
      /\ Cardinality(found) = Len(er) + Cardinality(wrong \ locations)
  BY <1>5, FoundWithinReach DEF locations
<1> HIDE DEF found
<1>7. list \in Seq(found) /\ Len(list) = Cardinality(found) /\ Range(list) = found
  BY <1>6, ListOfSet
<1> HIDE DEF list
<1>8. LocationsIn(list) = found
  <2>1. ASSUME NEW i \in DOMAIN list
        PROVE  list[i] % BlockSize = list[i]
    <3>1. list[i] \in Sectors
      BY <1>6, <1>7
    <3>2. QED
      BY <3>1, SymbolIsItsLocation
  <2>2. LocationsIn(list) = {list[i] : i \in DOMAIN list}
    BY <2>1 DEF LocationsIn
  <2>3. QED
    BY <1>7, <2>2 DEF Range
<1>9. Cardinality(faulty \ found) = Cardinality(faulty \ locations) - Cardinality(wrong \ locations)
  <2>1. faulty \ found = (faulty \ locations) \ (wrong \ locations)
    BY DEF found
  <2>2. (faulty \ locations) \intersect (wrong \ locations) = wrong \ locations
    OBVIOUS
  <2>3. PICK S : S = faulty \ locations
    OBVIOUS
  <2>4. PICK T : T = wrong \ locations
    OBVIOUS
  <2>5. Cardinality(S \ T) = Cardinality(S) - Cardinality(S \intersect T)
    BY <1>4, <2>3, FS_Difference
  <2>6. QED
    BY <2>1, <2>2, <2>3, <2>4, <2>5
<1>10. Reaches([erasure |-> list], faulty)
  <2>1. AllDistinct(list)
    BY <1>7, <1>8 DEF AllDistinct
  <2>2. Len(list) + 2 * Cardinality(faulty \ found) <= Parity
    <3>1. PICK x \in Nat : x = Cardinality(faulty \ locations)
      BY <1>4
    <3>2. PICK y \in Nat : y = Cardinality(wrong \ locations)
      BY <1>4
    <3>3. Len(list) = Len(er) + y /\ Cardinality(faulty \ found) = x - y /\ y <= x
          /\ Len(er) + 2 * x <= Parity
      BY <1>2, <1>4, <1>6, <1>7, <1>9, <3>1, <3>2
    <3>4. PICK n \in Nat : n = Len(er)
      BY <1>3
    <3>5. n + y + 2 * (x - y) <= Parity
      BY <1>3, <3>3, <3>4
    <3>6. QED
      BY <3>3, <3>4, <3>5
  <2>3. QED
    BY <1>8, <2>1, <2>2 DEF Reaches
<1>11. QED
  BY <1>5, <1>10 DEF list, found, locations

LEMMA AfterBlockReaches ==
  ASSUME NEW faulty \in SUBSET Sectors, NEW b \in Blocks, NEW r \in ReachedState(b, faulty),
         NEW result \in Decode(r.wrong[b], r.erasure), AfterBlock(r, b, result) \in BlockState
  PROVE  AfterBlock(r, b, result) \in ReachedState(b + 1, faulty)
<1>1. /\ r.erasure \in Seq(Nat) /\ r.wrong \in [Blocks -> SUBSET Sectors]
      /\ r.wrong[b] \in SUBSET faulty
      /\ \A c \in Blocks : r.wrong[c] \subseteq faulty
      /\ \A c \in Blocks : c < b => r.wrong[c] = {}
      /\ Reaches([erasure |-> r.erasure], faulty)
  BY DEF ReachedState, BlockState, Reaches
<1> DEFINE found == r.wrong[b] \union LocationsIn(r.erasure)
<1>2. WithinReach(r.wrong[b], r.erasure)
      /\ Reaches([erasure |-> SetToSeq(found)], faulty)
  BY <1>1, ReachGrows
<1>3. \/ result = Unchanged(r.wrong[b], r.erasure, 0) /\ r.wrong[b] = {}
      \/ result = Corrected(r.wrong[b], r.erasure)
  BY <1>2 DEF Decode
<1>4. Len(r.erasure) \in Nat
  BY <1>1
<1>5. /\ result.wrong = {}
      /\ result.corrections > Len(r.erasure) => result.erasure = SetToSeq(found)
  BY <1>3, <1>4 DEF Unchanged, Corrected
<1>6. PICK s : s = AfterBlock(r, b, result)
  OBVIOUS
<1>7. /\ s.wrong = [r.wrong EXCEPT ![b] = {}]
      /\ s.erasure = r.erasure \/ s.erasure = SetToSeq(found)
  BY <1>5, <1>6 DEF AfterBlock
<1>8. Reaches(s, faulty)
  BY <1>1, <1>2, <1>7 DEF Reaches
<1>9. \A c \in Blocks : s.wrong[c] = IF c = b THEN {} ELSE r.wrong[c]
  BY <1>1, <1>7
<1>10. ASSUME NEW c \in Blocks, c < b + 1
       PROVE  s.wrong[c] = {}
  <2>1. c = b \/ c < b
    BY <1>10, SizesOfAGroup DEF Blocks
  <2>2. QED
    BY <1>1, <1>9, <2>1
<1>11. QED
  BY <1>1, <1>6, <1>8, <1>9, <1>10 DEF ReachedState

(* A group within reach: no symbol is wrong when all blocks are done.      *)
LEMMA AllCorrected ==
  ASSUME NEW sectors, NEW g, erasure \in Seq(Nat), Len(erasure) <= Parity,
         extraErrors \in Nat, worstGroup \in 0..Parity,
         NEW faulty \in SUBSET Sectors,
         \A b \in Blocks : WrongSymbols(sectors, g, b) \subseteq faulty,
         Reaches([erasure |-> erasure], faulty)
  PROVE  \A r \in Corrections(sectors, g) : \A b \in Blocks : r.wrong[b] = {}
<1> DEFINE T(b) == {r \in ReachedState(b, faulty) : Len(r.erasure) <= Parity}
           Good == [b \in Nat |-> T(b)]
<1>1. SectorBytes \in Nat /\ 0 \in Nat
      /\ \A b \in Blocks : b \in Nat /\ b + 1 \in Nat /\ b < SectorBytes /\ ~(b < 0)
  BY SizesOfAGroup DEF Blocks
<1>2. BeforeBlocks(sectors, g) \subseteq T(0)
  <2>1. PICK r : r = [erasure |-> erasure, extra |-> extraErrors, worst |-> worstGroup,
                      wrong   |-> [c \in Blocks |-> WrongSymbols(sectors, g, c)],
                      altered |-> [c \in Blocks |-> {}]]
    OBVIOUS
  <2>2. [c \in Blocks |-> WrongSymbols(sectors, g, c)] \in [Blocks -> SUBSET Sectors]
    OBVIOUS
  <2>3. [c \in Blocks |-> {}] \in [Blocks -> SUBSET Sectors]
    OBVIOUS
  <2>4. r \in BlockState /\ r.erasure = erasure
    BY <2>1, <2>2, <2>3 DEF BlockState
  <2>5. \A c \in Blocks : r.wrong[c] \subseteq faulty /\ ~(c < 0)
    BY <1>1, <2>1
  <2>6. Reaches(r, faulty)
    BY <2>4 DEF Reaches
  <2>7. r \in T(0)
    BY <2>4, <2>5, <2>6 DEF ReachedState
  <2>8. BeforeBlocks(sectors, g) = {r}
    BY <2>1 DEF BeforeBlocks
  <2>9. QED
    BY <2>7, <2>8
<1>3. ASSUME NEW b \in Blocks, NEW r \in T(b), NEW result \in Decode(r.wrong[b], r.erasure)
      PROVE  AfterBlock(r, b, result) \in T(b + 1)
  <2>1. r \in ReachedState(b, faulty) /\ r \in BlockState /\ Len(r.erasure) <= Parity
    BY DEF ReachedState
  <2>2. AfterBlock(r, b, result) \in BlockState /\ Len(AfterBlock(r, b, result).erasure) <= Parity
    BY <2>1, AfterBlockTyped
  <2>3. QED
    BY <2>1, <2>2, AfterBlockReaches
<1>4. \A b \in Nat : Good[b] = T(b)
  OBVIOUS
<1> HIDE DEF Good, T
<1>5. BeforeBlocks(sectors, g) \subseteq Good[0]
  BY <1>1, <1>2, <1>4
<1>6. ASSUME NEW b \in Blocks, NEW r \in Good[b], NEW result \in Decode(r.wrong[b], r.erasure)
      PROVE  AfterBlock(r, b, result) \in Good[b + 1]
  BY <1>1, <1>3, <1>4
<1>7. Corrections(sectors, g) \subseteq Good[SectorBytes]
  BY <1>1, <1>5, <1>6, ThroughTheBlocks
<1>8. Corrections(sectors, g) \subseteq ReachedState(SectorBytes, faulty)
  BY <1>1, <1>4, <1>7 DEF T
<1>9. QED
  BY <1>1, <1>8 DEF ReachedState

-----------------------------------------------------------------------------
(* The list of erasures: numbers of missing and bad sectors, counted from  *)
(* one that is "sectorNumber" behind what was played, in their order.      *)
ErasureInv ==
  /\ erasure \in Seq(Nat) /\ sectorNumber \in 0..played
  /\ \A k \in 1..Len(erasure) :
       /\ (played - sectorNumber) + erasure[k] \in missing \union damaged
       /\ IF announced THEN erasure[k] <= sectorNumber ELSE erasure[k] < sectorNumber
  /\ \A k, l \in 1..Len(erasure) : k < l => erasure[k] < erasure[l]
  /\ missing \subseteq 0..(played - 1) /\ damaged \subseteq 0..played
  /\ announced => played \in damaged

LEMMA ErasureAdded ==
  ASSUME LinkInv, ErasureInv, played \in Nat, ~announced,
         erasure' = Append(erasure, sectorNumber),
         \/ sectorNumber' = sectorNumber + 1 /\ played' = played + 1
         \/ sectorNumber' = sectorNumber /\ played' = played /\ announced' = TRUE,
         missing \subseteq missing', damaged \subseteq damaged',
         played \in missing' \union damaged',
         missing' \subseteq 0..(played' - 1), damaged' \subseteq 0..played',
         announced' \in BOOLEAN, announced' => played' \in damaged'
  PROVE  ErasureInv'
<1>1. PICK p \in Nat : p = played
  OBVIOUS
<1>2. PICK n \in 0..p : n = sectorNumber
  BY <1>1 DEF ErasureInv
<1>3. PICK er \in Seq(Nat) : er = erasure
  BY DEF ErasureInv
<1>4. /\ \A k \in 1..Len(er) : (p - n) + er[k] \in missing \union damaged /\ er[k] < n
      /\ \A k, l \in 1..Len(er) : k < l => er[k] < er[l]
  BY <1>1, <1>2, <1>3 DEF ErasureInv
<1>5. PICK more \in Seq(Nat) : more = Append(er, n)
  <2>1. n \in Nat
    BY <1>2
  <2>2. Append(er, n) \in Seq(Nat)
    BY <2>1
  <2>3. QED
    BY <2>2
<1>6. PICK m \in Nat : m = Len(er)
  OBVIOUS
<1>7. Len(more) = m + 1 /\ more[m + 1] = n /\ \A k \in 1..m : more[k] = er[k]
  BY <1>5, <1>6
<1>8. erasure' = more
  BY <1>2, <1>3, <1>5
<1>9. played' - sectorNumber' = p - n /\ sectorNumber' \in 0..played' /\ sectorNumber' >= n
      /\ (~announced' => n < sectorNumber') /\ sectorNumber' \in Nat
  <2>1. CASE sectorNumber' = n + 1 /\ played' = p + 1
    BY <1>2, <2>1
  <2>2. CASE sectorNumber' = n /\ played' = p /\ announced'
    BY <1>2, <2>2
  <2>3. QED
    BY <1>1, <1>2, <2>1, <2>2
<1>10. ASSUME NEW k \in 1..(m + 1)
       PROVE  (p - n) + more[k] \in missing' \union damaged' /\ more[k] <= n
              /\ more[k] \in Nat
  <2>1. CASE k \in 1..m
    <3>1. more[k] = er[k] /\ er[k] \in Nat
      BY <1>6, <1>7, <2>1
    <3>2. QED
      BY <1>2, <1>4, <1>6, <2>1, <3>1
  <2>2. CASE k = m + 1
    <3>1. more[k] = n /\ (p - n) + n = p
      BY <1>2, <1>7, <2>2
    <3>2. QED
      BY <1>1, <1>2, <3>1
  <2>3. QED
    BY <2>1, <2>2
<1>11. ASSUME NEW k \in 1..(m + 1), NEW l \in 1..(m + 1), k < l
       PROVE  more[k] < more[l]
  <2>1. k \in 1..m /\ more[k] = er[k]
    BY <1>7, <1>11
  <2>2. CASE l \in 1..m
    BY <1>4, <1>6, <1>7, <1>11, <2>1, <2>2
  <2>3. CASE l = m + 1
    BY <1>4, <1>6, <1>7, <2>1, <2>3
  <2>4. QED
    BY <2>2, <2>3
<1>12. ASSUME NEW k \in 1..(m + 1)
       PROVE  IF announced' THEN more[k] <= sectorNumber' ELSE more[k] < sectorNumber'
  <2>1. more[k] <= n /\ more[k] \in Nat /\ n \in Nat
    BY <1>2, <1>10
  <2>2. QED
    BY <1>9, <2>1
<1>13. \A k \in 1..Len(erasure') :
         /\ (played' - sectorNumber') + erasure'[k] \in missing' \union damaged'
         /\ IF announced' THEN erasure'[k] <= sectorNumber' ELSE erasure'[k] < sectorNumber'
  BY <1>7, <1>8, <1>9, <1>10, <1>12
<1>14. \A k, l \in 1..Len(erasure') : k < l => erasure'[k] < erasure'[l]
  BY <1>7, <1>8, <1>11
<1>15. QED
  BY <1>8, <1>9, <1>13, <1>14 DEF ErasureInv

LEMMA ErasurePlayed ==
  ASSUME LinkInv, ErasureInv, played \in Nat, NEW s, DecChain(s),
         played' = played + 1, missing' = missing, announced' = FALSE,
         damaged \subseteq damaged', damaged' \subseteq damaged \union {played}
  PROVE  ErasureInv'
<1>1. PICK p \in Nat : p = played
  OBVIOUS
<1>2. missing' \subseteq 0..(played' - 1) /\ damaged' \subseteq 0..played'
  BY <1>1 DEF ErasureInv
<1>3. CASE CollectSector(s)
  <2>1. erasure' = erasure /\ sectorNumber' = sectorNumber + 1
    BY <1>3 DEF CollectSector
  <2>2. PICK n \in 0..p : n = sectorNumber
    BY <1>1 DEF ErasureInv
  <2>3. played' - sectorNumber' = p - n /\ sectorNumber' = n + 1 /\ sectorNumber' \in 0..played'
    BY <1>1, <2>1, <2>2
  <2>4. erasure \in Seq(Nat)
    BY DEF ErasureInv
  <2>5. ASSUME NEW k \in 1..Len(erasure)
        PROVE  (p - n) + erasure[k] \in missing' \union damaged' /\ erasure[k] < n + 1
    <3>1. erasure[k] \in Nat /\ n \in Nat
      BY <2>4
    <3>2. (p - n) + erasure[k] \in missing \union damaged /\ erasure[k] <= n
      BY <1>1, <2>2, <3>1 DEF ErasureInv
    <3>3. QED
      BY <3>1, <3>2
  <2>6. QED
    BY <1>2, <2>1, <2>3, <2>4, <2>5 DEF ErasureInv
<1>4. ASSUME NEW push, CompleteGroup(s, push)
      PROVE  ErasureInv'
  <2>1. erasure' = <<>> /\ sectorNumber' = 0
    BY <1>4 DEF CompleteGroup
  <2>2. Len(<<>>) = 0 /\ <<>> \in Seq(Nat)
    OBVIOUS
  <2>3. QED
    BY <1>1, <1>2, <2>1, <2>2 DEF ErasureInv
<1>5. QED
  BY <1>3, <1>4 DEF DecChain

LEMMA ErasureStep ==
  ASSUME EncTypes, LinkInv, ErasureInv, [Next]_vars
  PROVE  ErasureInv'
<1>1. PICK p \in Nat : p = played
  BY RoomOnTheLink
<1>2. missing \subseteq 0..(p - 1) /\ damaged \subseteq 0..p /\ (announced => p \in damaged)
  BY <1>1 DEF ErasureInv
<1>3. CASE PlayGood \/ PlayAnnounced \/ PlayUnnoticed
  <2>1. PICK wrong : DecChain(SectorAt(played, wrong))
    BY <1>3 DEF PlayGood, PlayAnnounced, PlayUnnoticed
  <2>2. /\ played' = played + 1 /\ missing' = missing /\ announced' = FALSE
        /\ damaged \subseteq damaged' /\ damaged' \subseteq damaged \union {played}
    BY <1>3 DEF PlayGood, PlayAnnounced, PlayUnnoticed, LinkInv
  <2>3. QED
    BY <1>1, <2>1, <2>2, ErasurePlayed
<1>4. CASE Miss
  <2>1. /\ ~announced /\ erasure' = Append(erasure, sectorNumber)
        /\ sectorNumber' = sectorNumber + 1 /\ played' = p + 1
        /\ missing' = missing \union {p} /\ damaged' = damaged /\ announced' = announced
    BY <1>1, <1>4 DEF Miss, Skipped
  <2>2. missing' \subseteq 0..(played' - 1) /\ damaged' \subseteq 0..played'
    BY <1>2, <2>1
  <2>3. QED
    BY <1>1, <2>1, <2>2, ErasureAdded DEF LinkInv
<1>5. CASE Announce
  <2>1. /\ ~announced /\ erasure' = Append(erasure, sectorNumber)
        /\ sectorNumber' = sectorNumber /\ played' = p
        /\ missing' = missing /\ damaged' = damaged \union {p} /\ announced' = TRUE
    BY <1>1, <1>5 DEF Announce, NextInvalid
  <2>2. missing' \subseteq 0..(played' - 1) /\ damaged' \subseteq 0..played'
    BY <1>2, <2>1
  <2>3. QED
    BY <1>1, <2>1, <2>2, ErasureAdded
<1>6. CASE UNCHANGED <<played, announced, missing, damaged, erasure, sectorNumber>>
  BY <1>6 DEF ErasureInv
<1>7. QED
  BY <1>3, <1>4, <1>5, <1>6
  DEF Next, vars, Recording, End, DecEos, decVars, linkVars

(* The numbers in the list are those of as many faults.                    *)
LEMMA ErasuresAreFaults ==
  ASSUME NEW er \in Seq(Nat), NEW o \in Nat, NEW S, IsFiniteSet(S),
         \A k \in 1..Len(er) : o + er[k] \in S,
         \A k, l \in 1..Len(er) : k < l => er[k] < er[l]
  PROVE  /\ Len(er) <= Cardinality(S)
         /\ (\A k \in 1..Len(er) : er[k] \in Sectors) => AllDistinct(er)
<1>1. PICK m \in Nat : m = Len(er) /\ DOMAIN er = 1..m
  OBVIOUS
<1>2. \A k \in 1..m : er[k] \in Nat
  BY <1>1
<1>3. ASSUME NEW k \in 1..m, NEW l \in 1..m, er[k] = er[l]
      PROVE  k = l
  <2>1. ~(k < l) /\ ~(l < k)
    BY <1>1, <1>2, <1>3
  <2>2. QED
    BY <2>1
<1>4. IsFiniteSet(1..m) /\ Cardinality(1..m) = m
  BY FS_Interval
<1>5. m <= Cardinality(S)
  <2>1. PICK f : f = [k \in 1..m |-> o + er[k]]
    OBVIOUS
  <2>2. \A k, l \in 1..m : o + er[k] = o + er[l] => k = l
    BY <1>2, <1>3
  <2>3. f \in [1..m -> S] /\ IsInjective(f)
    BY <1>1, <2>1, <2>2 DEF IsInjective
  <2>4. f \in Injection(1..m, S)
    BY <2>3 DEF Injection
  <2>5. QED
    BY <1>4, <2>4, FS_Injection
<1>6. ASSUME \A k \in 1..m : er[k] \in Sectors
      PROVE  AllDistinct(er)
  <2>1. \A k \in 1..m : er[k] % BlockSize = er[k]
    BY <1>6, SymbolIsItsLocation
  <2>2. LocationsIn(er) = {er[k] : k \in 1..m}
    BY <1>1, <2>1 DEF LocationsIn
  <2>3. PICK f : f = [k \in 1..m |-> er[k]]
    OBVIOUS
  <2>4. f \in [1..m -> LocationsIn(er)] /\ IsInjective(f)
    BY <1>3, <2>2, <2>3 DEF IsInjective
  <2>5. \A t \in LocationsIn(er) : \E k \in 1..m : f[k] = t
    BY <2>2, <2>3
  <2>6. f \in Injection(1..m, LocationsIn(er)) /\ f \in Surjection(1..m, LocationsIn(er))
    BY <2>4, <2>5 DEF Injection, Surjection
  <2>7. Cardinality(LocationsIn(er)) = m
    BY <1>4, <2>6, FS_Surjection
  <2>8. QED
    BY <1>1, <2>7 DEF AllDistinct
<1>7. QED
  BY <1>1, <1>5, <1>6

-----------------------------------------------------------------------------
(* The adapter: the list of erasures reaches no further back than it does; *)
(* a sector in it with anything wrong is a fault; and those that stand     *)
(* where a group should have been completed are missing.                   *)
CollectInv ==
  /\ collected \in Seq(SectorType)
  /\ ~stopped =>
       /\ sectorNumber <= Len(collected)
       /\ \A k \in 1..Len(collected) :
            collected[k].wrong # {} =>
              BlockSize * Len(delivered) + k - 1 \in missing \union damaged
       /\ \A k \in BlockSize..Len(collected) :
            BlockSize * Len(delivered) + k - 1 \in missing

LEMMA SectorTyped ==
  ASSUME EncTypes, SectorsLeft, NEW p \in Nat, p = played, NEW wrong \in SUBSET Blocks
  PROVE  SectorAt(p, wrong) \in SectorType
<1>1. PICK B \in Nat \ {0} : B = BlockSize
  BY SizesOfAGroup
<1>2. PICK l \in Nat : l = Len(sent)
  BY DEF EncTypes
<1>3. PICK a \in Nat : a = p \div B
  BY Euclid
<1>4. PICK q \in 0..(B - 1) : q = p % B
  BY Euclid
<1>5. p = B * a + q
  BY <1>3, <1>4, Euclid
<1>6. a < l
  <2>1. SUFFICES ASSUME l <= a
                 PROVE  FALSE
    BY <1>2, <1>3
  <2>2. l * B <= a * B /\ l * B \in Nat /\ a * B \in Nat
    BY <2>1, Times
  <2>3. p < l * B
    BY <1>1, <1>2 DEF SectorsLeft
  <2>4. a * B = B * a
    OBVIOUS
  <2>5. QED
    BY <1>5, <2>2, <2>3, <2>4
<1>7. sent[a + 1] \in Seq(Nat)
  <2>1. a + 1 \in 1..Len(sent) /\ sent \in Seq(Group)
    BY <1>2, <1>6 DEF EncTypes
  <2>2. sent[a + 1] \in Group
    BY <2>1
  <2>3. PICK s : s = sent[a + 1]
    OBVIOUS
  <2>4. s \in [1..Len(s) -> Nat \ {0}] /\ Len(s) \in Nat
    BY <2>2, <2>3 DEF Group
  <2>5. s \in [1..Len(s) -> Nat]
    BY <2>4
  <2>6. QED
    BY <2>3, <2>4, <2>5
<1>8. QED
  BY <1>1, <1>3, <1>4, <1>7 DEF SectorAt, SectorType

(* One more in the adapter.                                                *)
LEMMA CollectGrows ==
  ASSUME EncTypes, IsList(collected), IsList(delivered), Collecting, CollectInv, ~stopped,
         NEW p \in Nat, p = played, sectorNumber \in Nat,
         NEW e \in SectorType, e.wrong # {} => p \in missing' \union damaged',
         collected' = Append(collected, e), delivered' = delivered,
         sectorNumber' = sectorNumber + 1,
         missing \subseteq missing', damaged \subseteq damaged',
         ~(Len(collected) + 1 >= BlockSize) \/ p \in missing'
  PROVE  CollectInv'
<1>1. PICK n \in Nat : n = Len(collected)
  BY DEF IsList
<1>2. PICK B \in Nat \ {0} : B = BlockSize
  BY SizesOfAGroup
<1>3. PICK x \in Nat : x = BlockSize * Len(delivered)
  <2>1. Len(delivered) \in Nat
    BY DEF IsList
  <2>2. B * Len(delivered) \in Nat
    BY <2>1, Times
  <2>3. QED
    BY <1>2, <2>2
<1>4. /\ p = x + n /\ collected \in Seq(SectorType) /\ sectorNumber <= n
      /\ \A k \in 1..n : collected[k].wrong # {} => x + k - 1 \in missing \union damaged
      /\ \A k \in B..n : x + k - 1 \in missing
  BY <1>1, <1>2, <1>3 DEF Collecting, CollectInv
<1>5. PICK all \in Seq(SectorType) : all = Append(collected, e)
  <2>1. Append(collected, e) \in Seq(SectorType)
    BY <1>4
  <2>2. QED
    BY <2>1
<1>6. Len(all) = n + 1 /\ all[n + 1] = e /\ \A k \in 1..n : all[k] = collected[k]
  BY <1>1, <1>4, <1>5
<1>7. (BlockSize * Len(delivered))' = x /\ collected' = all
  BY <1>3, <1>5
<1>8. ASSUME NEW k \in 1..(n + 1), all[k].wrong # {}
      PROVE  x + k - 1 \in missing' \union damaged'
  <2>1. CASE k \in 1..n
    BY <1>4, <1>6, <1>8, <2>1
  <2>2. CASE k = n + 1
    <3>1. x + k - 1 = p
      BY <1>4, <2>2
    <3>2. QED
      BY <1>6, <1>8, <2>2, <3>1
  <2>3. QED
    BY <2>1, <2>2
<1>9. ASSUME NEW k \in B..(n + 1)
      PROVE  x + k - 1 \in missing'
  <2>1. CASE k \in B..n
    BY <1>4, <2>1
  <2>2. CASE k = n + 1
    <3>1. x + k - 1 = p /\ n + 1 >= B
      BY <1>4, <1>9, <2>2
    <3>2. QED
      BY <1>1, <1>2, <3>1
  <2>3. QED
    BY <2>1, <2>2
<1>10. sectorNumber' <= n + 1
  BY <1>4
<1>11. QED
  BY <1>2, <1>5, <1>6, <1>7, <1>8, <1>9, <1>10 DEF CollectInv

(* The adapter after a group was taken off it.  What is left is missing    *)
(* sectors, which were all listed, and one that is not: less than a group. *)
LEMMA CollectCut ==
  ASSUME EncTypes, LinkInv, IsList(collected), IsList(delivered), Collecting, CollectInv,
         ~stopped, NEW p \in Nat, p = played,
         NEW e \in SectorType, e.wrong # {} => p \in missing' \union damaged',
         Len(collected) + 1 >= BlockSize, Len(erasure) \in 0..Parity,
         collected' = SubSeq(Append(collected, e), BlockSize + 1, Len(Append(collected, e))),
         stopped' \/ Len(delivered') = Len(delivered) + 1,
         sectorNumber' = 0, missing' = missing, damaged \subseteq damaged'
  PROVE  CollectInv'
<1>1. PICK n \in Nat : n = Len(collected)
  BY DEF IsList
<1>2. PICK B \in Nat \ {0} : B = BlockSize /\ Parity \in 1..(B - 1)
  BY SizesOfAGroup
<1>3. PICK d \in Nat : d = Len(delivered)
  BY DEF IsList
<1>4. PICK x \in Nat : x = B * d
  BY Times
<1>5. /\ p = x + n /\ collected \in Seq(SectorType)
      /\ \A k \in 1..n : collected[k].wrong # {} => x + k - 1 \in missing \union damaged
      /\ \A k \in B..n : x + k - 1 \in missing
  BY <1>1, <1>2, <1>3, <1>4 DEF Collecting, CollectInv
<1>6. PICK all \in Seq(SectorType) : all = Append(collected, e)
  <2>1. Append(collected, e) \in Seq(SectorType)
    BY <1>5
  <2>2. QED
    BY <2>1
<1>7. Len(all) = n + 1 /\ all[n + 1] = e /\ \A k \in 1..n : all[k] = collected[k]
  BY <1>1, <1>5, <1>6
<1>8. PICK m \in Nat : m = n + 1 - B
  <2>1. n + 1 >= B
    BY <1>1, <1>2
  <2>2. n + 1 - B \in Nat
    BY <2>1
  <2>3. QED
    BY <2>2
<1>9. /\ SubSeq(all, B + 1, Len(all)) \in Seq(SectorType)
      /\ Len(SubSeq(all, B + 1, Len(all))) = m
      /\ \A k \in 1..m : SubSeq(all, B + 1, Len(all))[k] = all[B + k]
  <2>1. B <= Len(all) /\ Len(all) - B = m
    BY <1>7, <1>8
  <2>2. QED
    BY <2>1, PartsTyped
<1>10. PICK left \in Seq(SectorType) :
         left = SubSeq(all, B + 1, Len(all)) /\ left = collected'
  BY <1>2, <1>6, <1>9
<1>11. Len(left) = m /\ \A k \in 1..m : left[k] = all[B + k]
  BY <1>9, <1>10
<1>12. m < B
  <2>1. n < B + Len(erasure)
    BY <1>1, <1>2 DEF Collecting
  <2>2. QED
    BY <1>2, <1>8, <2>1
<1>13. CASE stopped'
  BY <1>10, <1>13 DEF CollectInv
<1>14. CASE Len(delivered') = d + 1
  <2>1. (BlockSize * Len(delivered))' = x + B
    <3>1. B * (d + 1) = B * d + B
      OBVIOUS
    <3>2. QED
      BY <1>2, <1>4, <1>14, <3>1
  <2>2. ASSUME NEW k \in 1..m, left[k].wrong # {}
        PROVE  x + B + k - 1 \in missing' \union damaged'
    <3>1. left[k] = all[B + k] /\ B + k \in 1..(n + 1) /\ x + (B + k) - 1 = x + B + k - 1
      <4>1. left[k] = all[B + k]
        BY <1>11
      <4>2. k \in 1..m /\ k \in Nat /\ B + m = n + 1
        BY <1>8
      <4>3. B + k \in 1..(n + 1) /\ x + (B + k) - 1 = x + B + k - 1
        BY <4>2
      <4>4. QED
        BY <4>1, <4>3
    <3>2. CASE B + k \in 1..n
      BY <1>5, <1>7, <2>2, <3>1, <3>2
    <3>3. CASE B + k = n + 1
      <4>1. p = x + n /\ k \in Int
        BY <1>5
      <4>2. x + B + k - 1 = p
        BY <3>3, <4>1
      <4>3. QED
        BY <1>7, <2>2, <3>1, <3>3, <4>2
    <3>4. B + k \in 1..n \/ B + k = n + 1
      <4>1. k \in Int
        OBVIOUS
      <4>2. QED
        BY <3>1, <4>1
    <3>5. QED
      BY <3>2, <3>3, <3>4
  <2>3. B..m = {} /\ 0 <= m
    BY <1>8, <1>12
  <2>4. QED
    BY <1>2, <1>10, <1>11, <2>1, <2>2, <2>3 DEF CollectInv
<1>15. QED
  BY <1>3, <1>13, <1>14

-----------------------------------------------------------------------------
(* decode_group().                                                         *)
LEMMA StatisticsTyped ==
  ASSUME NEW sectors, NEW push, DecodeGroup(sectors, push),
         erasure \in Seq(Nat), Len(erasure) <= Parity,
         extraErrors \in Nat, worstGroup \in 0..Parity
  PROVE  extraErrors' \in Nat /\ worstGroup' \in 0..Parity
<1>1. PICK g : \E r \in Corrections(sectors, g) : worstGroup' = r.worst /\ extraErrors' = r.extra
  BY DEF DecodeGroup
<1>2. PICK r \in Corrections(sectors, g) : worstGroup' = r.worst /\ extraErrors' = r.extra
  BY <1>1
<1>3. r \in BlockState
  BY CorrectionsTyped
<1>4. QED
  BY <1>2, <1>3 DEF BlockState

(* A group whose faults are within reach comes out as it went in.          *)
LEMMA DecodedWithinReach ==
  ASSUME sent \in Seq(Group), NEW a \in Nat, a + 1 \in 1..Len(sent),
         Len(sent[a + 1]) \in 1..GroupCapacity,
         NEW sectors, DOMAIN sectors = 1..BlockSize,
         \A q \in Sectors : InPlace(sectors[q + 1], BlockSize * a + q),
         \E q \in Sectors : sectors[q + 1].group # <<>>,
         DecodeGroup(sectors, TRUE),
         erasure \in Seq(Nat), Len(erasure) <= Parity,
         extraErrors \in Nat, worstGroup \in 0..Parity,
         NEW faulty \in SUBSET Sectors,
         \A q \in Sectors : sectors[q + 1].wrong # {} => SymbolOf(q) \in faulty,
         Reaches([erasure |-> erasure], faulty)
  PROVE  delivered' = Append(delivered, sent[a + 1])
<1>1. PICK g : g = sent[a + 1]
  OBVIOUS
<1>2. GroupsAmong(sectors) = {g}
  BY <1>1, GroupOfSectors
<1>3. PICK r \in Corrections(sectors, g) : \E length \in LengthsRead(g, r.wrong) :
        delivered' = Append(delivered, Buffer(sectors, g, r, length))
  BY <1>2 DEF DecodeGroup
<1>4. PICK length \in LengthsRead(g, r.wrong) :
        delivered' = Append(delivered, Buffer(sectors, g, r, length))
  BY <1>3
<1>5. ASSUME NEW b \in Blocks
      PROVE  WrongSymbols(sectors, g, b) \subseteq faulty
  <2>1. ASSUME NEW q \in Sectors,
               \/ sectors[q + 1].group # g \/ sectors[q + 1].index # q
               \/ b \in sectors[q + 1].wrong
        PROVE  SymbolOf(q) \in faulty
    <3>1. CASE sectors[q + 1] = Padding
      BY <3>1 DEF Padding
    <3>2. CASE sectors[q + 1] = SectorAt(BlockSize * a + q, sectors[q + 1].wrong)
      <4>1. PICK wrong : wrong = sectors[q + 1].wrong
        OBVIOUS
      <4>2. PICK s : s = SectorAt(BlockSize * a + q, wrong)
        OBVIOUS
      <4>3. s.group = sent[a + 1] /\ s.index = q
        BY <4>2, PlaceOfSector
      <4>4. sectors[q + 1] = s
        BY <3>2, <4>1, <4>2, Zenon
      <4>5. QED
        BY <1>1, <2>1, <4>3, <4>4
    <3>3. QED
      BY <3>1, <3>2 DEF InPlace
  <2>2. QED
    BY <2>1 DEF WrongSymbols
<1>6. \A b \in Blocks : r.wrong[b] = {}
  BY <1>5, AllCorrected
<1>7. length = Len(g)
  <2>1. HeaderBlocks \subseteq Blocks
    BY GroupAssumption DEF HeaderBlocks, Blocks
  <2>2. QED
    BY <1>4, <1>6, <2>1 DEF LengthsRead
<1>8. PICK l \in 1..GroupCapacity : l = Len(g)
  BY <1>1
<1>9. ASSUME NEW i \in 1..l
      PROVE  ByteDecoded(sectors, g, r, i) = g[i]
  <2>1. BlockOfByte(i) \in Blocks
    <3>1. i - 1 \in Nat /\ SectorBytes \in Nat \ {0}
      BY SizesOfAGroup
    <3>2. (i - 1) % SectorBytes \in 0..(SectorBytes - 1)
      BY <3>1, Euclid
    <3>3. QED
      BY <3>2 DEF BlockOfByte, Blocks
  <2>2. ByteOf(g, i) = g[i]
    BY <1>8 DEF ByteOf
  <2>3. ~(i > GroupCapacity)
    BY SizesOfAGroup
  <2>4. QED
    BY <1>6, <2>1, <2>2, <2>3 DEF ByteDecoded
<1>10. Buffer(sectors, g, r, length) = [i \in 1..l |-> g[i]]
  BY <1>7, <1>8, <1>9 DEF Buffer
<1>11. [i \in 1..l |-> g[i]] = g
  <2>1. g \in Seq(Nat \ {0})
    BY <1>1 DEF Group
  <2>2. g \in [1..l -> Nat \ {0}]
    BY <1>8, <2>1
  <2>3. QED
    BY <2>2
<1>12. QED
  BY <1>1, <1>4, <1>10, <1>11

(* What has been passed on.                                                *)
Restored(i) ==
  \/ LastSectorOf(i) \in missing /\ LastSectorOf(i) + 1 \in missing \union damaged
  \/ 3 * Cardinality((missing \union damaged) \cap SectorsOf(i)) > Parity
  \/ delivered[i] = sent[i]

ResultsInv ==
  /\ worstGroup \in 0..Parity /\ extraErrors \in Nat
  /\ delivered \in Seq(Seq(Nat \union {Bad}))
  /\ \A i \in 1..Len(delivered) : Restored(i)

LEMMA RestoredStays ==
  ASSUME NEW i, Restored(i), sent' = sent, delivered'[i] = delivered[i],
         missing \subseteq missing', damaged \subseteq damaged',
         IsFiniteSet(missing'), IsFiniteSet(damaged')
  PROVE  Restored(i)'
<1>1. PICK S : S = (missing \union damaged) \cap SectorsOf(i)
  OBVIOUS
<1>2. PICK T : T = (missing' \union damaged') \cap SectorsOf(i)
  OBVIOUS
<1>3. IsFiniteSet(T)
  <2>1. IsFiniteSet(missing' \union damaged')
    BY FS_Union
  <2>2. QED
    BY <1>2, <2>1, FS_Intersection
<1>4. S \in SUBSET T
  BY <1>1, <1>2
<1>5. Cardinality(S) \in Nat /\ Cardinality(T) \in Nat /\ Cardinality(S) <= Cardinality(T)
  <2>1. IsFiniteSet(S) /\ Cardinality(S) <= Cardinality(T)
    BY <1>3, <1>4, FS_Subset
  <2>2. QED
    BY <1>3, <2>1, FS_CardinalityType
<1>6. ASSUME 3 * Cardinality(S) > Parity
      PROVE  3 * Cardinality(T) > Parity
  BY <1>5, <1>6, SizesOfAGroup
<1>7. T = ((missing \union damaged) \cap SectorsOf(i))'
  BY <1>2 DEF SectorsOf
<1>8. QED
  BY <1>1, <1>6, <1>7 DEF Restored, LastSectorOf

(* The group that is completed: as many errors and erasures as there are   *)
(* faults in it.                                                           *)
LEMMA GroupRestored ==
  ASSUME EncTypes, LinkInv, IsFiniteSet(damaged'), ErasureInv, DecInv, CollectInv, ResultsInv,
         ~stopped, SectorsLeft, ListFits, NEW p \in Nat, p = played,
         NEW e \in SectorType, InPlace(e, p), e.group # <<>>, e.wrong # {} => p \in missing' \union damaged',
         CompleteGroup(e, TRUE), UNCHANGED <<sent, missing>>, damaged \subseteq damaged',
         NEW d \in Nat, d = Len(delivered)
  PROVE  Restored(d + 1)'
<1>1. d = Len(delivered)
  OBVIOUS
<1>2. PICK all : all = Append(collected, e)
  OBVIOUS
<1>3. PICK sectors : sectors = SubSeq(all, 1, BlockSize)
  OBVIOUS
<1>4. /\ d + 1 \in 1..Len(sent)
      /\ DOMAIN sectors = 1..BlockSize
      /\ \A k \in 1..BlockSize : sectors[k] = all[k]
      /\ \A q \in Sectors : InPlace(sectors[q + 1], BlockSize * d + q)
      /\ \E q \in Sectors : sectors[q + 1].group # <<>>
      /\ Len(collected) + 1 >= BlockSize /\ Len(all) = Len(collected) + 1
      /\ DecodeGroup(sectors, TRUE)
  BY <1>1, <1>2, <1>3, GroupComplete
<1>5. PICK B \in Nat \ {0} : B = BlockSize
  BY SizesOfAGroup
<1>6. PICK x \in Nat : x = B * d
  BY Times
<1>7. PICK F : F = (missing' \union damaged') \cap SectorsOf(d + 1)
  OBVIOUS
<1>8. SectorsOf(d + 1) = x..(x + B - 1) /\ LastSectorOf(d + 1) = x + B - 1
  <2>1. (d + 1 - 1) * B = x /\ (d + 1) * B = x + B
    BY <1>6, Times
  <2>2. QED
    BY <1>5, <2>1 DEF SectorsOf, LastSectorOf
<1>9. IsFiniteSet(F) /\ Cardinality(F) \in Nat
  <2>1. IsFiniteSet(missing' \union damaged')
    BY FS_Union DEF LinkInv
  <2>2. IsFiniteSet(F)
    BY <1>7, <2>1, FS_Intersection
  <2>3. QED
    BY <2>2, FS_CardinalityType
<1>10. SUFFICES ASSUME ~(x + B - 1 \in missing /\ x + B \in missing \union damaged'),
                       3 * Cardinality(F) <= Parity
                PROVE  delivered' = Append(delivered, sent[d + 1])
  <2>1. ASSUME delivered' = Append(delivered, sent[d + 1])
        PROVE  (delivered[d + 1] = sent[d + 1])'
    <3>1. IsList(delivered)
      BY DEF DecInv
    <3>2. Append(delivered, sent[d + 1])[Len(delivered) + 1] = sent[d + 1]
      BY <3>1, AppendToList
    <3>3. QED
      BY <1>1, <2>1, <3>2
  <2>2. F = ((missing \union damaged) \cap SectorsOf(d + 1))'
    BY <1>7 DEF SectorsOf
  <2>3. 3 * Cardinality(F) <= Parity \/ 3 * Cardinality(F) > Parity
    BY <1>9, SizesOfAGroup
  <2>4. LastSectorOf(d + 1)' = x + B - 1 /\ (x + B - 1) + 1 = x + B
    BY <1>8 DEF LastSectorOf
  <2>5. QED
    BY <1>10, <2>1, <2>2, <2>3, <2>4 DEF Restored
<1>11. PICK n \in Nat : n = Len(collected)
  BY DEF DecInv, IsList
<1>12. /\ p = x + n /\ sectorNumber <= n
       /\ \A k \in 1..n : collected[k].wrong # {} => x + k - 1 \in missing \union damaged
       /\ \A k \in B..n : x + k - 1 \in missing
  BY <1>1, <1>5, <1>6, <1>11 DEF DecInv, Collecting, CollectInv
<1>13. /\ n \in {B - 1, B}
       /\ n = B => ~announced
  <2>1. n + 1 >= B
    BY <1>4, <1>5, <1>11
  <2>2. n >= B => x + B - 1 \in missing
    <3>1. n >= B => B \in B..n
      OBVIOUS
    <3>2. QED
      BY <1>12, <3>1
  <2>3. ~(n >= B + 1)
    <3>1. SUFFICES ASSUME n >= B + 1
                   PROVE  FALSE
      OBVIOUS
    <3>2. B + 1 \in B..n /\ x + (B + 1) - 1 = x + B /\ n >= B
      BY <3>1
    <3>3. QED
      BY <1>10, <1>12, <2>2, <3>2
  <2>4. n = B => ~announced
    <3>1. SUFFICES ASSUME n = B, announced
                   PROVE  FALSE
      BY DEF LinkInv
    <3>2. p \in damaged /\ p = x + B
      BY <1>12, <3>1 DEF ErasureInv
    <3>3. QED
      BY <1>10, <2>2, <3>1, <3>2
  <2>5. QED
    BY <2>1, <2>3, <2>4
<1>14. /\ \A k \in 1..n : all[k] = collected[k]
       /\ all[n + 1] = e
  BY <1>2, <1>11, AppendToList DEF DecInv
<1>15. ASSUME NEW q \in Sectors, sectors[q + 1].wrong # {}
       PROVE  x + q \in F
  <2>1. q \in 0..(B - 1) /\ q + 1 \in 1..B
    BY <1>5 DEF Sectors
  <2>2. sectors[q + 1] = all[q + 1]
    BY <1>4, <1>5, <2>1
  <2>3. x + q \in missing' \union damaged'
    <3>1. CASE q + 1 \in 1..n
      <4>1. x + (q + 1) - 1 = x + q
        BY <2>1
      <4>2. x + (q + 1) - 1 \in missing \union damaged
        BY <1>12, <1>14, <1>15, <2>2, <3>1
      <4>3. QED
        BY <4>1, <4>2
    <3>2. CASE q + 1 = n + 1
      <4>1. x + q = p
        BY <1>12, <2>1, <3>2
      <4>2. QED
        BY <1>14, <1>15, <2>2, <3>2, <4>1
    <3>3. q + 1 \in 1..n \/ q + 1 = n + 1
      BY <1>13, <2>1
    <3>4. QED
      BY <3>1, <3>2, <3>3
  <2>4. QED
    BY <1>7, <1>8, <2>1, <2>3
<1>16. PICK faulty : faulty = {SymbolOf(f - x) : f \in F}
  OBVIOUS
<1>17. faulty \in SUBSET Sectors
  <2>1. ASSUME NEW f \in F
        PROVE  SymbolOf(f - x) \in Sectors
    <3>1. f - x \in Sectors
      BY <1>5, <1>7, <1>8 DEF Sectors
    <3>2. QED
      BY <3>1, SizesOfAGroup DEF Sectors, SymbolOf, DataSectors
  <2>2. QED
    BY <1>16, <2>1
<1>18. \A q \in Sectors : sectors[q + 1].wrong # {} => SymbolOf(q) \in faulty
  <2>1. ASSUME NEW q \in Sectors, sectors[q + 1].wrong # {}
        PROVE  SymbolOf(q) \in faulty
    <3>1. x + q \in F
      BY <1>15, <2>1
    <3>2. (x + q) - x = q
      BY <1>5 DEF Sectors
    <3>3. QED
      BY <1>16, <3>1, <3>2
  <2>2. QED
    BY <2>1
<1>19. IsFiniteSet(faulty) /\ Cardinality(faulty) <= Cardinality(F) /\ Cardinality(faulty) \in Nat
  <2>1. PICK h : h = [f \in F |-> SymbolOf(f - x)]
    OBVIOUS
  <2>2. h \in [F -> faulty] /\ \A t \in faulty : \E f \in F : h[f] = t
    BY <1>16, <2>1
  <2>3. h \in Surjection(F, faulty)
    BY <2>2 DEF Surjection
  <2>4. IsFiniteSet(faulty) /\ Cardinality(faulty) <= Cardinality(F)
    BY <1>9, <2>3, FS_Surjection
  <2>5. QED
    BY <2>4, FS_CardinalityType
<1>20. PICK er \in Seq(Nat) : er = erasure
  BY DEF ErasureInv
<1>21. PICK o \in Nat : o = p - sectorNumber
  BY DEF ErasureInv
<1>22. Len(er) <= Cardinality(F) /\ AllDistinct(er)
  <2>1. ASSUME NEW k \in 1..Len(er)
        PROVE  o + er[k] \in F /\ er[k] \in Sectors
    <3>1. er[k] \in Nat /\ sectorNumber \in Nat /\ n \in Nat
      BY DEF ErasureInv
    <3>2. /\ o + er[k] \in missing \union damaged /\ er[k] <= sectorNumber
          /\ ~announced => er[k] < sectorNumber
      <4>1. (played - sectorNumber) + erasure[k] \in missing \union damaged
            /\ IF announced THEN erasure[k] <= sectorNumber ELSE erasure[k] < sectorNumber
        BY <1>20 DEF ErasureInv
      <4>2. QED
        BY <1>20, <1>21, <3>1, <4>1
    <3>3. o + er[k] \in x..(x + B - 1) /\ er[k] \in 0..(B - 1)
      BY <1>12, <1>13, <1>21, <3>1, <3>2
    <3>4. QED
      BY <1>5, <1>7, <1>8, <3>2, <3>3 DEF Sectors
  <2>2. \A k, l \in 1..Len(er) : k < l => er[k] < er[l]
    BY <1>20 DEF ErasureInv
  <2>3. QED
    BY <1>9, <2>1, <2>2, ErasuresAreFaults
<1>23. Reaches([erasure |-> er], faulty)
  <2>1. PICK more : more = faulty \ LocationsIn(er)
    OBVIOUS
  <2>2. Cardinality(more) \in Nat /\ Cardinality(more) <= Cardinality(faulty)
    <3>1. more \in SUBSET faulty
      BY <2>1
    <3>2. IsFiniteSet(more) /\ Cardinality(more) <= Cardinality(faulty)
      BY <1>19, <3>1, FS_Subset
    <3>3. QED
      BY <3>2, FS_CardinalityType
  <2>3. Len(er) + 2 * Cardinality(more) <= Parity
    <3>1. Len(er) \in Nat /\ Parity \in Nat
      BY SizesOfAGroup
    <3>2. Cardinality(more) <= Cardinality(F)
      BY <1>9, <1>19, <2>2
    <3>3. QED
      BY <1>9, <1>10, <1>22, <2>2, <3>1, <3>2
  <2>4. QED
    BY <1>22, <2>1, <2>3 DEF Reaches
<1>24. Len(erasure) <= Parity
  BY DEF ListFits
<1>25. extraErrors \in Nat /\ worstGroup \in 0..Parity
  BY DEF ResultsInv
<1>26. sent \in Seq(Group) /\ Len(sent[d + 1]) \in 1..GroupCapacity
  BY <1>4 DEF EncTypes
<1>27. QED
  BY <1>4, <1>17, <1>18, <1>20, <1>23, <1>24, <1>25, <1>26, DecodedWithinReach

LEMMA PlayedReaches ==
  ASSUME EncTypes, LinkInv, LinkInv', DecInv, ErasureInv, CollectInv, ResultsInv,
         SectorsLeft, NEW wrong \in SUBSET Blocks, DecChain(SectorAt(played, wrong)),
         UNCHANGED <<sent, missing>>, damaged \subseteq damaged',
         wrong # {} => played \in missing' \union damaged'
  PROVE  CollectInv' /\ ResultsInv'
<1>1. PICK p \in Nat : p = played
  BY RoomOnTheLink
<1>2. PICK e : e = SectorAt(p, wrong)
  OBVIOUS
<1>3. /\ e \in SectorType /\ InPlace(e, p) /\ InPlace(e, played)
      /\ e.wrong # {} => p \in missing' \union damaged'
      /\ e.group # <<>>
  <2>1. e \in SectorType /\ e.group # <<>>
    BY <1>1, <1>2, SectorTyped, PlayedIsOfAGroup
  <2>2. e.wrong = wrong
    BY <1>2 DEF SectorAt
  <2>3. QED
    BY <1>1, <1>2, <2>1, <2>2 DEF InPlace
<1>4. ~stopped /\ ListFits /\ Len(erasure) \in 0..Parity
  <2>1. ~stopped /\ ListFits
    BY DEF DecChain, Listening
  <2>2. Len(erasure) \in Nat /\ Parity \in Nat
    BY SizesOfAGroup DEF DecInv, IsList
  <2>3. QED
    BY <2>1, <2>2 DEF ListFits
<1>5. IsList(collected) /\ IsList(delivered) /\ Collecting
  BY <1>4 DEF DecInv
<1>6. sectorNumber \in Nat /\ IsFiniteSet(missing') /\ IsFiniteSet(damaged')
  BY <1>1 DEF ErasureInv, LinkInv
<1>7. PICK d \in Nat : d = Len(delivered)
  BY <1>5 DEF IsList
<1>8. ASSUME NEW i \in 1..d, delivered'[i] = delivered[i]
      PROVE  Restored(i)'
  <2>1. Restored(i)
    BY <1>7 DEF ResultsInv
  <2>2. QED
    BY <1>6, <1>8, <2>1, RestoredStays
<1>9. CASE CollectSector(e)
  <2>1. /\ collected' = Append(collected, e) /\ sectorNumber' = sectorNumber + 1
        /\ UNCHANGED <<worstGroup, extraErrors, delivered, stopped>>
        /\ ~(Len(Append(collected, e)) >= BlockSize)
    BY <1>9 DEF CollectSector, IsGroup
  <2>2. ~(Len(collected) + 1 >= BlockSize)
    <3>1. Len(Append(collected, e)) = Len(collected) + 1
      BY <1>5 DEF IsList
    <3>2. QED
      BY <2>1, <3>1
  <2>3. CollectInv'
    BY <1>1, <1>3, <1>4, <1>5, <1>6, <2>1, <2>2, CollectGrows
  <2>4. Len(delivered') = d
    BY <1>7, <2>1
  <2>5. \A i \in 1..d : Restored(i)'
    BY <1>8, <2>1
  <2>6. QED
    BY <2>1, <2>3, <2>4, <2>5 DEF ResultsInv
<1>10. ASSUME NEW push \in PushResults, CompleteGroup(e, push)
       PROVE  CollectInv' /\ ResultsInv'
  <2>1. PICK sectors :
          /\ d + 1 \in 1..Len(sent)
          /\ DOMAIN sectors = 1..BlockSize
          /\ \A q \in Sectors : InPlace(sectors[q + 1], BlockSize * d + q)
          /\ \E q \in Sectors : sectors[q + 1].group # <<>>
          /\ DecodeGroup(sectors, push)
    BY <1>3, <1>4, <1>7, <1>10, GroupComplete
  <2>2. /\ Len(collected) + 1 >= BlockSize
        /\ collected' = SubSeq(Append(collected, e), BlockSize + 1, Len(Append(collected, e)))
        /\ stopped' = ~push /\ sectorNumber' = 0
    <3>1. /\ collected' = SubSeq(Append(collected, e), BlockSize + 1, Len(Append(collected, e)))
          /\ stopped' = ~push /\ sectorNumber' = 0
      BY <1>10 DEF CompleteGroup
    <3>2. Len(Append(collected, e)) >= BlockSize
      BY <1>10 DEF CompleteGroup, IsGroup
    <3>3. Len(Append(collected, e)) = Len(collected) + 1
      BY <1>5 DEF IsList
    <3>4. QED
      BY <3>1, <3>2, <3>3
  <2>3. extraErrors' \in Nat /\ worstGroup' \in 0..Parity
    <3>1. erasure \in Seq(Nat) /\ Len(erasure) <= Parity
      BY <1>4 DEF ErasureInv, ListFits
    <3>2. QED
      BY <2>1, <3>1, StatisticsTyped DEF ResultsInv
  <2>4. delivered \in Seq(Seq(Nat \union {Bad}))
    BY DEF ResultsInv
  <2>5. push \in BOOLEAN
    BY <1>10, Ecc2DecoderAssumption
  <2>6. CASE ~push
    <3>1. stopped' = TRUE /\ delivered' = delivered
      BY <2>1, <2>2, <2>6 DEF DecodeGroup
    <3>2. CollectInv'
      BY <1>1, <1>3, <1>4, <1>5, <2>2, <3>1, CollectCut
    <3>3. \A i \in 1..d : Restored(i)'
      BY <1>8, <3>1
    <3>4. QED
      BY <1>7, <2>3, <2>4, <3>1, <3>2, <3>3 DEF ResultsInv
  <2>7. CASE push
    <3>1. DecodeGroup(sectors, TRUE) /\ CompleteGroup(e, TRUE)
      <4>1. push = TRUE
        BY <2>5, <2>7
      <4>2. QED
        BY <1>10, <2>1, <4>1
    <3>2. PICK buffer \in Seq(Nat \union {Bad}) : delivered' = Append(delivered, buffer)
      <4>1. sent \in Seq(Group) /\ Len(sent[d + 1]) \in 1..GroupCapacity
        BY <2>1 DEF EncTypes
      <4>2. QED
        BY <2>1, <3>1, <4>1, DecodedGroup
    <3>3. /\ delivered' \in Seq(Seq(Nat \union {Bad})) /\ Len(delivered') = d + 1
          /\ \A i \in 1..d : delivered'[i] = delivered[i]
      <4>1. PICK S : S = Seq(Nat \union {Bad})
        OBVIOUS
      <4>2. buffer \in S /\ delivered \in Seq(S)
        BY <2>4, <4>1
      <4>3. Append(delivered, buffer) \in Seq(S) /\ Len(Append(delivered, buffer)) = d + 1
            /\ \A i \in 1..d : Append(delivered, buffer)[i] = delivered[i]
        BY <1>7, <4>2
      <4>4. QED
        BY <3>2, <4>1, <4>3
    <3>4. CollectInv'
      BY <1>1, <1>3, <1>4, <1>5, <1>7, <2>2, <3>3, CollectCut
    <3>5. Restored(d + 1)'
      BY <1>1, <1>3, <1>4, <1>6, <1>7, <3>1, GroupRestored
    <3>6. \A i \in 1..(d + 1) : Restored(i)'
      <4>1. ASSUME NEW i \in 1..(d + 1)
            PROVE  Restored(i)'
        <5>1. i \in 1..d \/ i = d + 1
          OBVIOUS
        <5>2. QED
          BY <1>8, <3>3, <3>5, <5>1
      <4>2. QED
        BY <4>1
    <3>7. QED
      BY <2>3, <3>3, <3>4, <3>6 DEF ResultsInv
  <2>8. QED
    BY <2>5, <2>6, <2>7
<1>11. QED
  BY <1>1, <1>2, <1>9, <1>10 DEF DecChain

LEMMA SkippedReaches ==
  ASSUME EncTypes, LinkInv, LinkInv', DecInv, ErasureInv, CollectInv, ResultsInv, Miss
  PROVE  CollectInv' /\ ResultsInv'
<1>1. PICK p \in Nat : p = played
  BY RoomOnTheLink
<1>2. /\ ~stopped /\ collected' = Append(collected, Padding)
      /\ sectorNumber' = sectorNumber + 1
      /\ missing' = missing \union {p} /\ sent' = sent /\ damaged' = damaged
      /\ UNCHANGED <<worstGroup, extraErrors, delivered, stopped>>
  BY <1>1 DEF Miss, Skipped, Listening, encVars
<1>3. IsList(collected) /\ IsList(delivered) /\ Collecting
  BY <1>2 DEF DecInv
<1>4. Padding \in SectorType
  <2>1. <<>> \in Seq(Nat)
    OBVIOUS
  <2>2. QED
    BY <2>1 DEF Padding, SectorType
<1>5. CollectInv'
  <2>1. sectorNumber \in Nat
    BY <1>1 DEF ErasureInv
  <2>2. QED
    BY <1>1, <1>2, <1>3, <1>4, <2>1, CollectGrows
<1>6. ASSUME NEW i \in 1..Len(delivered)
      PROVE  Restored(i)'
  <2>1. Restored(i)
    BY DEF ResultsInv
  <2>2. QED
    BY <1>2, <2>1, RestoredStays DEF LinkInv
<1>7. QED
  BY <1>2, <1>5, <1>6 DEF ResultsInv

LEMMA ReachStep ==
  ASSUME EncInv, LinkInv, LinkInv', DecInv, ErasureInv, CollectInv, ResultsInv, [Next]_vars
  PROVE  CollectInv' /\ ResultsInv'
<1>1. EncTypes
  BY DEF EncInv
<1>2. CASE PlayGood \/ PlayAnnounced \/ PlayUnnoticed
  <2>1. PICK wrong \in SUBSET Blocks :
          /\ DecChain(SectorAt(played, wrong))
          /\ wrong # {} => played \in missing' \union damaged'
    BY <1>2 DEF PlayGood, PlayAnnounced, PlayUnnoticed, ErasureInv
  <2>2. SectorsLeft /\ UNCHANGED <<sent, missing>> /\ damaged \subseteq damaged'
    BY <1>2 DEF PlayGood, PlayAnnounced, PlayUnnoticed, encVars, LinkInv
  <2>3. QED
    BY <1>1, <2>1, <2>2, PlayedReaches
<1>3. CASE Miss
  BY <1>1, <1>3, SkippedReaches
<1>4. CASE Announce
  <2>1. /\ UNCHANGED <<sent, missing, collected, sectorNumber, worstGroup, extraErrors,
                       delivered, stopped>>
        /\ damaged \subseteq damaged'
    BY <1>4 DEF Announce, NextInvalid, encVars
  <2>2. CollectInv'
    BY <2>1 DEF CollectInv
  <2>3. ASSUME NEW i \in 1..Len(delivered)
        PROVE  Restored(i)'
    <3>1. Restored(i)
      BY DEF ResultsInv
    <3>2. QED
      BY <2>1, <3>1, RestoredStays DEF LinkInv
  <2>4. QED
    BY <2>1, <2>2, <2>3 DEF ResultsInv
<1>5. CASE Recording
  <2>1. UNCHANGED <<missing, damaged, collected, sectorNumber, worstGroup, extraErrors,
                    delivered, stopped>>
    BY <1>5 DEF Recording, decVars, linkVars
  <2>2. delivered = <<>>
    BY <1>5 DEF Recording, EncNext, EncChain, EndOfInput, EncEos, DecInv
  <2>3. CollectInv'
    BY <2>1 DEF CollectInv
  <2>4. 1..Len(delivered') = {}
    BY <2>1, <2>2
  <2>5. QED
    BY <2>1, <2>3, <2>4 DEF ResultsInv
<1>6. CASE End \/ UNCHANGED vars
  <2>1. UNCHANGED <<sent, missing, damaged, collected, sectorNumber, worstGroup, extraErrors,
                    delivered, stopped>>
    BY <1>6 DEF End, DecEos, vars, encVars, decVars, linkVars
  <2>2. QED
    BY <2>1 DEF CollectInv, ResultsInv, Restored, LastSectorOf, SectorsOf
<1>7. QED
  BY <1>2, <1>3, <1>4, <1>5, <1>6 DEF Next

(* The inductive invariant of what lies within reach of the code.          *)
ReachInv == ErasureInv /\ CollectInv /\ ResultsInv

LEMMA ReachInitially ==
  ASSUME Init
  PROVE  ReachInv
<1>1. /\ collected = <<>> /\ erasure = <<>> /\ sectorNumber = 0 /\ worstGroup = 0
      /\ extraErrors = 0 /\ delivered = <<>> /\ played = 0 /\ announced = FALSE
      /\ missing = {} /\ damaged = {}
  BY DEF Init, DecInit
<1>2. /\ Len(<<>>) = 0 /\ 1..0 = {} /\ <<>> \in Seq(Nat) /\ <<>> \in Seq(SectorType)
      /\ <<>> \in Seq(Seq(Nat \union {Bad}))
  <2>1. \A S : <<>> \in Seq(S)
    BY EmptySeq
  <2>2. QED
    BY <2>1
<1>3. ErasureInv
  BY <1>1, <1>2 DEF ErasureInv
<1>4. CollectInv
  <2>1. BlockSize..0 = {}
    BY SizesOfAGroup
  <2>2. QED
    BY <1>1, <1>2, <2>1 DEF CollectInv
<1>5. ResultsInv
  BY <1>1, <1>2, SizesOfAGroup DEF ResultsInv
<1>6. QED
  BY <1>3, <1>4, <1>5 DEF ReachInv

(* The list of erasures, the adapter and what was passed on keep to the    *)
(* invariant, for every group and whatever sectors were missing or bad.    *)
THEOREM ReachInvariance == Spec => []ReachInv
<1>1. Init => ReachInv
  BY ReachInitially
<1>2. StreamInv /\ StreamInv' /\ ReachInv /\ [Next]_vars => ReachInv'
  <2>1. SUFFICES ASSUME StreamInv, StreamInv', ReachInv, [Next]_vars
                 PROVE  ReachInv'
    OBVIOUS
  <2>2. EncInv /\ EncTypes /\ LinkInv /\ LinkInv' /\ DecInv
    BY <2>1 DEF StreamInv, EncInv
  <2>3. ErasureInv /\ CollectInv /\ ResultsInv
    BY <2>1 DEF ReachInv
  <2>4. ErasureInv'
    BY <2>1, <2>2, <2>3, ErasureStep
  <2>5. CollectInv' /\ ResultsInv'
    BY <2>1, <2>2, <2>3, ReachStep
  <2>6. QED
    BY <2>4, <2>5 DEF ReachInv
<1>3. QED
  BY <1>1, <1>2, StreamInvariance, PTL DEF Spec

(* decode_group() hands the places a block has found on to the next one as *)
(* erasures, and dec_event() lists each missing sector once, at a number   *)
(* that differs from all others of the group: three symbols of parity are  *)
(* enough for each fault, and a block that uses them up leaves no less to  *)
(* those that come after it.                                               *)
THEOREM WithinReachIsDeliveredAlways == Spec => []WithinReachIsDelivered
<1>1. ReachInv => WithinReachIsDelivered
  <2>1. SUFFICES ASSUME ReachInv
                 PROVE  WithinReachIsDelivered
    OBVIOUS
  <2>2. delivered \in Seq(Seq(Nat \union {Bad})) /\ \A i \in 1..Len(delivered) : Restored(i)
    BY <2>1 DEF ReachInv, ResultsInv
  <2>3. DOMAIN delivered = 1..Len(delivered)
    BY <2>2
  <2>4. QED
    BY <2>2, <2>3 DEF WithinReachIsDelivered, Restored
<1>2. QED
  BY <1>1, ReachInvariance, PTL

(* dec_event() lists a sector when it is told of it and dec_chain() clears *)
(* the list with each group: whatever was missing or bad, the list holds   *)
(* no more than the faults of what is collected and of the next sector.    *)
THEOREM ErasuresAreOfTheCollectedAlways == Spec => []ErasuresAreOfTheCollected
<1>1. StreamInv /\ ReachInv => ErasuresAreOfTheCollected
  <2>1. SUFFICES ASSUME StreamInv, ReachInv, ~stopped
                 PROVE  Len(erasure) <= Cardinality((missing \union damaged)
                                          \cap ((played - Len(collected))..played))
    BY DEF ErasuresAreOfTheCollected
  <2>2. EncTypes /\ LinkInv /\ DecInv /\ ErasureInv /\ CollectInv
    BY <2>1 DEF StreamInv, EncInv, ReachInv
  <2>3. PICK p \in Nat : p = played
    BY <2>2, RoomOnTheLink
  <2>4. PICK n \in Nat : n = Len(collected)
    BY <2>2 DEF DecInv, IsList
  <2>5. PICK m \in Nat : m = sectorNumber /\ m <= n /\ m <= p
    BY <2>1, <2>2, <2>3, <2>4 DEF ErasureInv, CollectInv
  <2>6. PICK o \in Nat : o = p - m
    BY <2>5
  <2>7. PICK S : S = (missing \union damaged) \cap ((p - n)..p)
    OBVIOUS
  <2>8. IsFiniteSet(S)
    BY <2>2, <2>7, FS_Union, FS_Intersection DEF LinkInv
  <2>9. ASSUME NEW k \in 1..Len(erasure)
        PROVE  o + erasure[k] \in S
    <3>1. erasure[k] \in Nat
      BY <2>2 DEF ErasureInv
    <3>2. o + erasure[k] \in missing \union damaged /\ erasure[k] <= m
      <4>1. /\ (played - sectorNumber) + erasure[k] \in missing \union damaged
            /\ IF announced THEN erasure[k] <= sectorNumber ELSE erasure[k] < sectorNumber
        BY <2>2 DEF ErasureInv
      <4>2. QED
        BY <2>3, <2>5, <2>6, <3>1, <4>1
    <3>3. o + erasure[k] \in (p - n)..p
      BY <2>5, <2>6, <3>1, <3>2
    <3>4. QED
      BY <2>7, <3>2, <3>3
  <2>10. erasure \in Seq(Nat) /\ \A k, l \in 1..Len(erasure) : k < l => erasure[k] < erasure[l]
    BY <2>2 DEF ErasureInv
  <2>11. Len(erasure) <= Cardinality(S)
    BY <2>8, <2>9, <2>10, ErasuresAreFaults
  <2>12. QED
    BY <2>3, <2>4, <2>7, <2>11
<1>2. QED
  BY <1>1, StreamInvariance, ReachInvariance, PTL

(* No block is taken to have needed more corrections than it can have,     *)
(* whatever decode_group() has made of it, and nothing is passed on but    *)
(* bytes; the numbers in the list of erasures are those of sectors, and    *)
(* how many there are is no matter of types.                               *)
THEOREM TypeCorrect == Spec => []TypeOK
<1>1. StreamInv /\ ReachInv /\ input <= MaxBytes => TypeOK
  <2>1. SUFFICES ASSUME StreamInv, ReachInv, input <= MaxBytes
                 PROVE  TypeOK
    OBVIOUS
  <2>2. EncTypes /\ LinkInv /\ DecInv /\ ErasureInv /\ CollectInv /\ ResultsInv
    BY <2>1 DEF StreamInv, EncInv, ReachInv
  <2>3. EncTypeOK
    BY <2>1, <2>2, Ecc2EncoderAssumption DEF EncTypeOK, EncTypes, FileByte
  <2>5. sectorNumber \in Nat
    BY <2>2, RoomOnTheLink DEF ErasureInv
  <2>6. eosSeen \in BOOLEAN /\ stopped \in BOOLEAN
    BY <2>2 DEF DecInv
  <2>7. DecTypeOK
    BY <2>2, <2>5, <2>6 DEF DecTypeOK, ErasureInv, CollectInv, ResultsInv
  <2>8. QED
    BY <2>2, <2>3, <2>7 DEF TypeOK, LinkInv, ErasureInv
<1>2. Init => input <= MaxBytes
  BY Ecc2EncoderAssumption DEF Init, EncInit
<1>3. StreamInv /\ input <= MaxBytes /\ [Next]_vars => (input <= MaxBytes)'
  <2>1. SUFFICES ASSUME StreamInv, input <= MaxBytes, [Next]_vars
                 PROVE  input' <= MaxBytes
    OBVIOUS
  <2>2. input \in Nat /\ MaxBytes \in Nat
    BY <2>1, Ecc2EncoderAssumption DEF StreamInv, EncInv, EncTypes
  <2>3. CASE EncChain
    <3>1. PICK n \in 1..(MaxBytes - input) : input' = input + n
      BY <2>3 DEF EncChain
    <3>2. QED
      BY <2>2, <3>1
  <2>4. CASE UNCHANGED input
    BY <2>1, <2>4
  <2>5. Next => EncChain \/ UNCHANGED input
    BY DEF Next, Recording, EncNext, EndOfInput, EncEos, PlayGood, Miss, Announce,
           PlayAnnounced, PlayUnnoticed, End, encVars
  <2>6. UNCHANGED vars => UNCHANGED input
    BY DEF vars, encVars
  <2>7. QED
    BY <2>1, <2>3, <2>4, <2>5, <2>6
<1>4. QED
  BY <1>1, <1>2, <1>3, StreamInvariance, ReachInvariance, PTL DEF Spec
=============================================================================

---------------------------- MODULE BkrUnitsProofs ----------------------------
(***************************************************************************)
(* The units of a driver with any number of ports and programs: what is    *)
(* kept however ports come and go, allocations fail, and the driver is     *)
(* loaded and unloaded under the programs.                                 *)
(***************************************************************************)
EXTENDS BkrUnits, ListLemmas

Units == 1..Len(units)
Labels == {"closed", "found", "claimed", "open", "stopped"}
Removing == {"detaching", "detached", "flushing"}

(* The list is in the order of the numbers, and so without repetitions;    *)
(* work is queued once, for units in the list.                             *)
ListInv ==
  /\ units \in Seq([port : Ports, number : Nat])
  /\ list \in Seq(Units)
  /\ NumbersAscend
  /\ work \in Seq(Units)
  /\ IsInjective(work)
  /\ Range(work) \subseteq Range(list)
  /\ HeldByListedUnits

FileTypes ==
  /\ pc \in [Files -> Labels]
  /\ filp \in [Files -> Nat]
  /\ asked \in [Files -> Int]
  /\ stale \subseteq Files
  /\ locked \union moving \union driving \union abandoned \subseteq Units
  /\ \A f \in Files : pc[f] # "closed" => filp[f] \in Units

(* A port that runs is one some program has open, or was given up.         *)
DrivenIsOpen ==
  \A u \in driving :
    u \in abandoned \/ (u \in moving /\ \E f \in Files : pc[f] = "open" /\ filp[f] = u)

(* Who holds a unit, and what a unit that is driven has to do with it.     *)
FileInv == FileTypes /\ ClaimsAreExclusive /\ DrivenIsOpen

(* A listed unit is queued unless its port is there or is about to be      *)
(* detached; one that is queued lost its port, unless the driver is going, *)
(* which it does only when no unit is held.                                *)
CoreInv ==
  /\ core \in {"idle", "attaching", "oopsed"} \union Removing
  /\ driver \in {"out", "in", "going"}
  /\ pending \subseteq Ports /\ plugged \subseteq Ports
  /\ core = "idle" => pending = {}
  /\ core \in {"attaching", "oopsed"} => driver = "in" /\ pending \subseteq plugged
  /\ driver = "out" => core = "idle" /\ list = <<>> /\ work = <<>>
  /\ driver = "going" => core \in Removing /\ Holding = {}
  /\ driver = "in" /\ core \in Removing => pending \intersect plugged = {}
  /\ \A u \in Range(list) \ Range(work) :
       PortOf(u) \in (IF driver = "going" THEN pending ELSE plugged \union pending)
  /\ \A u \in Range(work) : PortOf(u) \in plugged => driver = "going"

UnitsInv == ListInv /\ FileInv /\ CoreInv

-----------------------------------------------------------------------------
(* Lists.                                                                  *)
LEMMA ListFacts ==
  ASSUME ListInv
  PROVE  /\ Len(units) \in Nat /\ Len(list) \in Nat
         /\ DOMAIN units = Units /\ DOMAIN list = 1..Len(list)
         /\ \A u \in Units : PortOf(u) \in Ports /\ Number(u) \in Nat
         /\ Range(list) \subseteq Units
         /\ IsInjective(list)
         /\ IsFiniteSet(Range(list))
<1>1. /\ Len(units) \in Nat /\ Len(list) \in Nat
      /\ DOMAIN units = Units /\ DOMAIN list = 1..Len(list)
  BY DEF ListInv, Units
<1>2. \A u \in Units : PortOf(u) \in Ports /\ Number(u) \in Nat
  <2> DEFINE R == [port : Ports, number : Nat]
  <2>1. units \in Seq(R)
    BY DEF ListInv
  <2>2. \A r \in R : r.port \in Ports /\ r.number \in Nat
    OBVIOUS
  <2> HIDE DEF R
  <2>3. \A u \in 1..Len(units) : units[u] \in R
    BY <2>1
  <2>4. QED
    BY <2>2, <2>3 DEF Units, PortOf, Number
<1>3. \A i \in DOMAIN list : list[i] \in Units
  BY DEF ListInv
<1>4. Range(list) \subseteq Units
  BY <1>3 DEF Range
<1>5. IsInjective(list)
  <2>1. \A i \in DOMAIN list : Number(list[i]) \in Nat
    BY <1>2, <1>3
  <2>2. \A i, j \in DOMAIN list : i < j => Number(list[i]) < Number(list[j])
    BY DEF ListInv, NumbersAscend
  <2>3. ASSUME NEW i \in DOMAIN list, NEW j \in DOMAIN list, list[i] = list[j]
        PROVE  i = j
    <3>1. i \in Nat /\ j \in Nat
      BY <1>1
    <3>2. Number(list[i]) = Number(list[j])
      BY <2>3
    <3>3. ~(i < j) /\ ~(j < i)
      BY <2>1, <2>2, <3>2
    <3>4. QED
      BY <3>1, <3>3
  <2>4. QED
    BY <2>3 DEF IsInjective
<1>6. IsFiniteSet(Range(list))
  <2>1. IsFiniteSet(Units)
    BY <1>1, FS_Interval DEF Units
  <2>2. QED
    BY <1>4, <2>1, FS_Subset
<1>7. QED
  BY <1>1, <1>2, <1>4, <1>5, <1>6

(* The search of bkr_unit_register(): every unit in front of the gap has   *)
(* the number of its place, and the one behind it, if any, a greater one.  *)
LEMMA GapProperties ==
  ASSUME ListInv
  PROVE  /\ FirstGap \in 1..(Len(list) + 1)
         /\ \A i \in 1..(FirstGap - 1) : i <= Len(list) /\ Number(list[i]) = i - 1
         /\ FirstGap <= Len(list) => Number(list[FirstGap]) # FirstGap - 1
<1> DEFINE gaps == {n \in 1..(Len(list) + 1) : n <= Len(list) => Number(list[n]) # n - 1}
<1>1. Len(list) \in Nat
  BY ListFacts
<1>2. gaps \in SUBSET Nat
  BY <1>1
<1>3. Len(list) + 1 \in gaps
  BY <1>1
<1>4. Min(gaps) \in gaps /\ \A y \in gaps : Min(gaps) <= y
  BY <1>2, <1>3, MinExists, Zenon
<1>5. FirstGap = Min(gaps)
  BY DEF FirstGap
<1>6. ASSUME NEW i \in 1..(FirstGap - 1)
      PROVE  i <= Len(list) /\ Number(list[i]) = i - 1
  <2>1. FirstGap \in 1..(Len(list) + 1)
    BY <1>4, <1>5
  <2>2. i \in 1..(Len(list) + 1) /\ i < FirstGap /\ i <= Len(list)
    BY <1>1, <2>1
  <2>3. i \notin gaps
    BY <1>4, <1>5, <2>1, <2>2
  <2>4. QED
    BY <2>2, <2>3
<1>7. QED
  BY <1>4, <1>5, <1>6

-----------------------------------------------------------------------------
(* The lists.                                                              *)

(* A new unit is linked where its number belongs.                          *)
LEMMA AttachKeepsLists ==
  ASSUME UnitsInv, NEW p \in Ports, Attach(p)
  PROVE  /\ ListInv'
         /\ Len(units') = Len(units) + 1
         /\ units'[Len(units) + 1].port = p
         /\ \A v \in Units : units'[v] = units[v]
         /\ Range(list') = Range(list) \union {Len(units) + 1}
<1> DEFINE u == Len(units) + 1
           k == FirstGap
           r == [port |-> p, number |-> k - 1]
           R == [port : Ports, number : Nat]
           t == InsertAt(list, k, u)
<1>1. ListInv
  BY DEF UnitsInv
<1>2. /\ Len(units) \in Nat /\ Len(list) \in Nat
      /\ DOMAIN units = Units /\ DOMAIN list = 1..Len(list)
      /\ \A v \in Units : PortOf(v) \in Ports /\ Number(v) \in Nat
      /\ Range(list) \subseteq Units
  BY <1>1, ListFacts
<1>3. /\ k \in 1..(Len(list) + 1)
      /\ \A i \in 1..(k - 1) : i <= Len(list) /\ Number(list[i]) = i - 1
      /\ k <= Len(list) => Number(list[k]) # k - 1
  BY <1>1, GapProperties
<1>4. /\ units' = Append(units, r) /\ list' = t
      /\ held' = held \union ({u} \X Resources) /\ work' = work
  BY DEF Attach, AddTail
<1>5. r \in R /\ r.port = p /\ r.number = k - 1
  BY <1>2, <1>3
<1> HIDE DEF k, r, R
<1>6. units \in Seq(R)
  BY <1>1 DEF ListInv, R
<1>7. /\ units' \in Seq(R) /\ Len(units') = u
      /\ \A v \in 1..Len(units) : units'[v] = units[v]
      /\ units'[u] = r
  BY <1>4, <1>5, <1>6
<1>8. \A v \in Units : units'[v] = units[v]
  BY <1>7 DEF Units
<1>9. Units \subseteq 1..u /\ u \in 1..u /\ u \notin Units
  BY <1>2 DEF Units
<1>10. \A i \in 1..Len(list) : list[i] \in Units
  BY <1>2 DEF Range
<1> DEFINE New == 1..u
<1>11. list \in Seq(New) /\ u \in New /\ work \in Seq(New)
  <2>1. list \in Seq(Units) /\ work \in Seq(Units)
    BY <1>1 DEF ListInv
  <2> HIDE DEF New
  <2>2. Units \subseteq New /\ u \in New
    BY <1>9 DEF New
  <2>3. QED
    BY <2>1, <2>2, SeqWidens
<1>12. /\ t \in Seq(New) /\ Len(t) = Len(list) + 1
       /\ \A i \in 1..(Len(list) + 1) :
            t[i] = IF i < k THEN list[i] ELSE IF i = k THEN u ELSE list[i - 1]
       /\ Range(t) = Range(list) \union {u}
  <2> HIDE DEF New, u
  <2>1. QED
    BY <1>3, <1>11, InsertAtProperties
<1> HIDE DEF u, t
<1>13. NumbersAscend'
  <2> DEFINE old(i) == units[list[i]].number
             new(i) == units'[t[i]].number
  <2>1. \A i \in 1..Len(list) : old(i) \in Nat
    BY <1>2, <1>10 DEF Number
  <2>2. \A i, j \in 1..Len(list) : i < j => old(i) < old(j)
    BY <1>1, <1>2 DEF ListInv, NumbersAscend, Number
  <2>3. \A i \in 1..(k - 1) : i <= Len(list) /\ old(i) = i - 1
    BY <1>3 DEF Number
  <2>4. k <= Len(list) => old(k) # k - 1
    BY <1>3 DEF Number
  <2>5. \A i \in 1..Len(list) : units'[list[i]].number = old(i)
    BY <1>8, <1>10
  <2>6. \A i \in 1..(Len(list) + 1) :
          new(i) = IF i < k THEN old(i) ELSE IF i = k THEN k - 1 ELSE old(i - 1)
    <3>1. TAKE i \in 1..(Len(list) + 1)
    <3>2. CASE i < k
      BY <1>2, <1>3, <1>12, <2>5, <3>2
    <3>3. CASE i = k
      BY <1>2, <1>3, <1>5, <1>7, <1>12, <3>3
    <3>4. CASE i > k
      <4>1. t[i] = list[i - 1] /\ i - 1 \in 1..Len(list)
        BY <1>2, <1>3, <1>12, <3>4
      <4>2. QED
        BY <1>2, <1>3, <2>5, <3>4, <4>1
    <3>5. QED
      BY <1>2, <1>3, <3>2, <3>3, <3>4
  <2> HIDE DEF old, new
  <2>7. k <= Len(list) => old(k) > k - 1
    <3>1. SUFFICES ASSUME k <= Len(list) PROVE old(k) > k - 1
      OBVIOUS
    <3>2. CASE k = 1
      BY <1>2, <1>3, <2>1, <2>4, <3>1, <3>2
    <3>3. CASE k > 1
      <4>1. old(k - 1) = k - 2 /\ old(k - 1) < old(k)
        BY <1>2, <1>3, <2>2, <2>3, <3>1, <3>3
      <4>2. QED
        BY <1>2, <1>3, <2>1, <2>4, <3>1, <4>1
    <3>4. QED
      BY <1>3, <3>2, <3>3
  <2>8. \A j \in 1..Len(list) : j >= k => old(j) > k - 1
    <3>1. TAKE j \in 1..Len(list)
    <3>2. CASE j = k
      BY <2>7, <3>2
    <3>3. CASE j > k
      BY <1>2, <1>3, <2>1, <2>2, <2>7, <3>3
    <3>4. QED
      BY <1>2, <1>3, <3>2, <3>3
  <2>9. ASSUME NEW i \in 1..(Len(list) + 1), NEW j \in 1..(Len(list) + 1), i < j
        PROVE  new(i) < new(j)
    <3>1. CASE j < k
      BY <1>2, <1>3, <2>2, <2>6, <2>9, <3>1
    <3>2. CASE j = k
      BY <1>2, <1>3, <2>3, <2>6, <2>9, <3>2
    <3>3. CASE j > k /\ i < k
      <4>1. new(i) = i - 1 /\ new(j) = old(j - 1) /\ old(j - 1) > k - 1
        BY <1>2, <1>3, <2>3, <2>6, <2>8, <3>3
      <4>2. old(j - 1) \in Nat
        BY <1>2, <1>3, <2>1, <3>3
      <4>3. QED
        BY <1>2, <1>3, <3>3, <4>1, <4>2
    <3>4. CASE j > k /\ i = k
      BY <1>2, <1>3, <2>6, <2>8, <3>4
    <3>5. CASE j > k /\ i > k
      BY <1>2, <1>3, <2>2, <2>6, <2>9, <3>5
    <3>6. QED
      BY <1>2, <1>3, <3>1, <3>2, <3>3, <3>4, <3>5
  <2>10. DOMAIN t = 1..(Len(list) + 1)
    BY <1>12
  <2>11. QED
    BY <1>4, <2>9, <2>10 DEF NumbersAscend, Number, new
<1>14. HeldByListedUnits'
  <2>1. core # "oopsed"
    BY DEF Attach
  <2>2. QED
    BY <1>1, <1>4, <1>12, <2>1 DEF ListInv, HeldByListedUnits
<1>15. work' \in Seq(New)
  BY <1>4, <1>11
<1>16. IsInjective(work') /\ Range(work') \subseteq Range(list')
  BY <1>1, <1>4, <1>12 DEF ListInv
<1>17. ListInv'
  BY <1>4, <1>7, <1>12, <1>13, <1>14, <1>15, <1>16 DEF ListInv, Units, R
<1>18. QED
  BY <1>4, <1>5, <1>7, <1>8, <1>12, <1>17 DEF u

(* The units of a port are queued, if they were not.                       *)
LEMMA DetachKeepsLists ==
  ASSUME UnitsInv, NEW p \in Ports, Detach(p)
  PROVE  /\ ListInv'
         /\ Range(work') = Range(work) \union UnitsOf(p)
<1> DEFINE S == UnitsOf(p) \ Range(work)
<1>1. ListInv /\ Range(list) \subseteq Units /\ IsFiniteSet(Range(list))
  BY ListFacts DEF UnitsInv
<1>2. PICK q \in SetToSeqs(S) : work' = work \o q
  BY DEF Detach, Queue
<1>3. IsFiniteSet(S) /\ S \subseteq Units
  BY <1>1, FS_Subset DEF UnitsOf
<1>4. S \intersect Range(work) = {} /\ S \subseteq Range(list)
  BY DEF UnitsOf
<1>5. Range(work) \union S = Range(work) \union UnitsOf(p)
  OBVIOUS
<1>6. units' = units /\ list' = list /\ held' = held
  BY DEF Detach
<1> HIDE DEF S
<1>7. q \in Seq(S) /\ IsInjective(q) /\ Range(q) = S
  BY <1>2, <1>3, SetToSeqsProperties
<1>8. q \in Seq(Units)
  BY <1>3, <1>7, SeqWidens
<1>9. work \in Seq(Units) /\ IsInjective(work) /\ Range(work) \subseteq Range(list)
  BY <1>1 DEF ListInv
<1> HIDE DEF Units
<1>10. Range(work') = Range(work) \union S
  BY <1>2, <1>7, <1>8, <1>9, RangeConcatenation
<1>11. IsInjective(work')
  BY <1>2, <1>4, <1>7, <1>8, <1>9, JoinDistinct
<1>12. work' \in Seq(Units)
  BY <1>2, <1>8, <1>9
<1>13. Range(work') \subseteq Range(list')
  BY <1>4, <1>6, <1>9, <1>10
<1>14. Units' = Units
  BY <1>6 DEF Units
<1>15. NumbersAscend' /\ HeldByListedUnits'
  <2>1. core # "oopsed"
    BY DEF Detach
  <2>2. QED
    BY <1>1, <1>6, <2>1 DEF ListInv, NumbersAscend, HeldByListedUnits, Number
<1>16. units' \in Seq([port : Ports, number : Nat]) /\ list' \in Seq(Units)
  BY <1>1, <1>6 DEF ListInv
<1>17. QED
  BY <1>5, <1>10, <1>11, <1>12, <1>13, <1>14, <1>15, <1>16 DEF ListInv

(* The worker takes the first unit queued out of the list.                 *)
LEMMA DoDetachKeepsLists ==
  ASSUME UnitsInv, DoDetach
  PROVE  /\ ListInv'
         /\ Head(work) \in Range(list)
         /\ Range(list') = Range(list) \ {Head(work)}
         /\ Range(work') = Range(work) \ {Head(work)}
<1> DEFINE u == Head(work)
           k == PlaceOf(u)
           t == RemoveAt(list, k)
<1>1. /\ ListInv
      /\ Len(list) \in Nat /\ DOMAIN list = 1..Len(list)
      /\ Range(list) \subseteq Units /\ IsInjective(list)
  BY ListFacts DEF UnitsInv
<1>2. /\ work # <<>> /\ list' = t /\ work' = Tail(work)
      /\ held' = held \ ({u} \X Resources) /\ units' = units
  BY DEF DoDetach
<1>3. /\ work \in Seq(Units) /\ IsInjective(work) /\ Range(work) \subseteq Range(list)
      /\ list \in Seq(Units)
  BY <1>1 DEF ListInv
<1>4. /\ u \in Range(work) /\ work' \in Seq(Units)
      /\ IsInjective(work') /\ Range(work') = Range(work) \ {u}
  <2> HIDE DEF Units
  <2>1. QED
    BY <1>2, <1>3, TailDistinct
<1> HIDE DEF u
<1>5. u \in Range(list)
  BY <1>3, <1>4
<1>6. \E i \in DOMAIN list : list[i] = u
  BY <1>5 DEF Range
<1>7. k \in DOMAIN list /\ list[k] = u
  BY <1>6 DEF PlaceOf
<1> HIDE DEF k
<1>8. k \in 1..Len(list)
  BY <1>1, <1>7
<1>9. /\ t \in Seq(Units) /\ Len(t) = Len(list) - 1
      /\ \A i \in 1..(Len(list) - 1) : t[i] = IF i < k THEN list[i] ELSE list[i + 1]
  <2> HIDE DEF Units, t
  <2>1. QED
    BY <1>3, <1>8, RemoveAtProperties DEF t
<1>10. Range(t) = Range(list) \ {u}
  BY <1>1, <1>3, <1>7, <1>8, RemoveAtRange
<1> HIDE DEF t
<1>11. NumbersAscend'
  <2> DEFINE old(i) == units[list[i]].number
             new(i) == units[t[i]].number
  <2>1. \A i \in 1..Len(list) : old(i) \in Nat
    BY <1>1, ListFacts DEF Number, Range
  <2>2. \A i, j \in 1..Len(list) : i < j => old(i) < old(j)
    BY <1>1 DEF ListInv, NumbersAscend, Number
  <2>3. \A i \in 1..(Len(list) - 1) : new(i) = IF i < k THEN old(i) ELSE old(i + 1)
    BY <1>9
  <2>4. DOMAIN t = 1..(Len(list) - 1)
    BY <1>1, <1>9
  <2> HIDE DEF old
  <2>5. \A i, j \in 1..(Len(list) - 1) : i < j => new(i) < new(j)
    <3> HIDE DEF new
    <3>1. TAKE i, j \in 1..(Len(list) - 1)
    <3>2. HAVE i < j
    <3>3. CASE j < k
      BY <1>1, <1>8, <2>2, <2>3, <3>2, <3>3
    <3>4. CASE j >= k /\ i < k
      BY <1>1, <1>8, <2>2, <2>3, <3>2, <3>4
    <3>5. CASE i >= k
      BY <1>1, <1>8, <2>2, <2>3, <3>2, <3>5
    <3>6. QED
      BY <1>1, <1>8, <3>2, <3>3, <3>4, <3>5
  <2>6. QED
    BY <1>2, <2>4, <2>5 DEF NumbersAscend, Number, new
<1>12. HeldByListedUnits'
  <2>1. core' = core
    BY DEF DoDetach, coreVars
  <2>2. QED
    BY <1>1, <1>2, <1>10, <2>1 DEF ListInv, HeldByListedUnits
<1>13. Range(work') \subseteq Range(list')
  BY <1>2, <1>3, <1>4, <1>10
<1>14. Units' = Units /\ units' \in Seq([port : Ports, number : Nat])
  BY <1>1, <1>2 DEF Units, ListInv
<1>15. ListInv'
  BY <1>2, <1>4, <1>9, <1>11, <1>12, <1>13, <1>14 DEF ListInv
<1>16. QED
  BY <1>2, <1>4, <1>5, <1>10, <1>15 DEF u

(* No other step touches the lists.  An attach() that fails leaves nothing *)
(* behind, whatever step failed and whatever it had acquired, and one that *)
(* was killed is the last thing the core does.                             *)
LEMMA OthersKeepLists ==
  ASSUME ListInv, UNCHANGED <<list, units, work>>,
         core' # "oopsed" => core # "oopsed" /\ held' = held
  PROVE  ListInv'
BY DEF ListInv, NumbersAscend, HeldByListedUnits, Number, Units

LEMMA FailureReleasesAll ==
  ASSUME NEW step \in Steps, NEW acquired \in Acquired(step)
  PROVE  LeftBy(step, acquired) = {}
<1>1. /\ AtLabel[1] = {"device"} /\ AtLabel[2] = {"buffer"} /\ AtLabel[3] = {"ring"}
      /\ AtLabel[4] = {"private", "stream"} /\ ExitLabels = {1, 2, 3, 4}
  BY DEF AtLabel, ExitLabels
<1>2. CASE step = "stream"
  <2>1. {i \in ExitLabels : i >= Label(step)} = {4}
    BY <1>1, <1>2 DEF Label
  <2>2. Released(step) = {"private", "stream"}
    BY <1>1, <2>1 DEF Released
  <2>3. acquired \subseteq {"private", "stream"}
    BY <1>2 DEF Acquired
  <2>4. QED
    BY <2>2, <2>3 DEF LeftBy
<1>3. CASE step = "buffer"
  <2>1. {i \in ExitLabels : i >= Label(step)} = {3, 4}
    BY <1>1, <1>3 DEF Label
  <2>2. Released(step) = {"ring", "private", "stream"}
    BY <1>1, <2>1 DEF Released
  <2>3. acquired = {"private", "stream", "ring"}
    BY <1>3 DEF Acquired
  <2>4. QED
    BY <2>2, <2>3 DEF LeftBy
<1>4. CASE step = "device"
  <2>1. {i \in ExitLabels : i >= Label(step)} = {2, 3, 4}
    BY <1>1, <1>4 DEF Label
  <2>2. Released(step) = {"buffer", "ring", "private", "stream"}
    BY <1>1, <2>1 DEF Released
  <2>3. acquired = {"private", "stream", "ring", "buffer"}
    BY <1>4 DEF Acquired
  <2>4. QED
    BY <2>2, <2>3 DEF LeftBy
<1>5. CASE step = "unit"
  <2>1. {i \in ExitLabels : i >= Label(step)} = {1, 2, 3, 4}
    BY <1>1, <1>5 DEF Label
  <2>2. Released(step) = {"device", "buffer", "ring", "private", "stream"}
    BY <1>1, <2>1 DEF Released
  <2>3. acquired = {"private", "stream", "ring", "buffer", "device"}
    BY <1>5 DEF Acquired
  <2>4. QED
    BY <2>2, <2>3 DEF LeftBy
<1>6. QED
  BY <1>2, <1>3, <1>4, <1>5 DEF Steps

LEMMA ListStep ==
  ASSUME UnitsInv, [Next]_vars
  PROVE  ListInv'
<1>1. ListInv
  BY DEF UnitsInv
<1>2. ASSUME NEW p \in Ports, Attach(p) PROVE ListInv'
  BY <1>2, AttachKeepsLists
<1>3. ASSUME NEW p \in Ports, NEW step \in Steps, AttachFails(p, step) PROVE ListInv'
  <2>1. PICK acquired \in Acquired(step) :
          held' = held \union ({NoUnit} \X LeftBy(step, acquired))
    BY <1>3 DEF AttachFails
  <2>2. LeftBy(step, acquired) = {}
    BY FailureReleasesAll
  <2>3. held' = held
    BY <2>1, <2>2
  <2>4. UNCHANGED <<list, units, work>> /\ core # "oopsed"
    BY <1>3 DEF AttachFails
  <2>5. QED
    BY <1>1, <2>3, <2>4, OthersKeepLists
<1>12. ASSUME NEW p \in Ports, AttachOopses(p) PROVE ListInv'
  <2>1. UNCHANGED <<list, units, work>> /\ core' = "oopsed"
    BY <1>12 DEF AttachOopses
  <2>2. QED
    BY <1>1, <2>1, OthersKeepLists
<1>4. ASSUME NEW p \in Ports, Detach(p) PROVE ListInv'
  BY <1>4, DetachKeepsLists
<1>5. CASE DoDetach
  BY <1>5, DoDetachKeepsLists
<1>6. CASE UNCHANGED unitVars /\ (core = "oopsed" => core' = "oopsed")
  BY <1>1, <1>6, OthersKeepLists DEF unitVars
<1>7. ASSUME NEW p \in Ports, AttachNot(p) \/ Plug(p) \/ Unplug(p)
      PROVE  UNCHANGED unitVars /\ (core = "oopsed" => core' = "oopsed")
  BY <1>7 DEF AttachNot, Plug, Unplug
<1>8. ASSUME DetachWaits \/ DetachReturns \/ Unloaded \/ Load \/ Unload
      PROVE  UNCHANGED unitVars /\ (core = "oopsed" => core' = "oopsed")
  <2>1. core = "oopsed" => Load
    BY <1>8 DEF DetachWaits, DetachReturns, Unloaded, Load, Unload
  <2>2. Load => driver = "out"
    BY DEF Load
  <2>3. core # "oopsed"
    BY <2>1, <2>2 DEF UnitsInv, CoreInv
  <2>4. QED
    BY <1>8, <2>3 DEF DetachWaits, DetachReturns, Unloaded, Load, Unload
<1>9. ASSUME NEW f \in Files, File(f)
      PROVE  UNCHANGED unitVars /\ (core = "oopsed" => core' = "oopsed")
  BY <1>9 DEF File, Lookup, OpenFails, Claim, Ready, Start, Stop, GiveUp, Release, StaleUse,
              coreVars
<1>10. ASSUME UNCHANGED vars
       PROVE  UNCHANGED unitVars /\ (core = "oopsed" => core' = "oopsed")
  BY <1>10 DEF vars, coreVars
<1>11. QED
  BY <1>2, <1>3, <1>4, <1>5, <1>6, <1>7, <1>8, <1>9, <1>10, <1>12 DEF Next, CoreStep

-----------------------------------------------------------------------------
(* Programs and the units they hold.                                       *)
LEMMA FileFacts ==
  ASSUME UnitsInv
  PROVE  /\ FileTypes /\ ClaimsAreExclusive /\ DrivenIsOpen
         /\ Range(list) \subseteq Units
         /\ Units \subseteq Nat
         /\ Holding \subseteq Files /\ IsFiniteSet(Holding)
         /\ \A f \in Holding : filp[f] \in Units
         /\ Cardinality(Holding) \in Nat
<1>1. /\ FileTypes /\ ClaimsAreExclusive /\ DrivenIsOpen
      /\ Range(list) \subseteq Units
  BY ListFacts DEF UnitsInv, FileInv
<1>2. Units \subseteq Nat
  BY ListFacts DEF Units, UnitsInv
<1>3. Holding \subseteq Files
  BY DEF Holding
<1>4. IsFiniteSet(Holding)
  BY <1>3, FS_Subset, UnitsAssumption
<1>5. Cardinality(Holding) \in Nat
  BY <1>4, FS_CardinalityType
<1>6. \A f \in Holding : filp[f] \in Units
  BY <1>1 DEF Holding, FileTypes
<1>7. QED
  BY <1>1, <1>2, <1>3, <1>4, <1>5, <1>6

(* New units, and lists that keep the old ones, are no concern of theirs.  *)
LEMMA FilesUntouched ==
  ASSUME UnitsInv, UNCHANGED <<refs, locked, moving, driving, abandoned, pc, filp, asked, stale>>,
         Units \subseteq Units', \A v \in Units : units'[v] = units[v],
         Range(list') \intersect Units = Range(list)
  PROVE  FileInv'
<1>1. /\ FileTypes /\ ClaimsAreExclusive /\ DrivenIsOpen
      /\ \A f \in Holding : filp[f] \in Units
  BY FileFacts
<1>2. Holding' = Holding
  BY DEF Holding
<1>3. FileTypes'
  BY <1>1 DEF FileTypes
<1>4. DrivenIsOpen'
  BY <1>1 DEF DrivenIsOpen
<1>5. \A f \in Holding : units'[filp[f]].number = asked[f]
  BY <1>1 DEF ClaimsAreExclusive, Number
<1>6. locked = {filp[f] : f \in Holding} \intersect Range(list')
  BY <1>1 DEF ClaimsAreExclusive
<1>7. /\ \A f, g \in Holding : filp[f] = filp[g] => f = g
      /\ refs = Cardinality(Holding)
  BY <1>1 DEF ClaimsAreExclusive
<1>8. ClaimsAreExclusive'
  BY <1>2, <1>5, <1>6, <1>7 DEF ClaimsAreExclusive, Number
<1>9. QED
  BY <1>3, <1>4, <1>8 DEF FileInv

(* The worker takes the unit's locks with it, and leaves its program.      *)
LEMMA DoDetachKeepsFiles ==
  ASSUME UnitsInv, DoDetach
  PROVE  FileInv'
<1> DEFINE u == Head(work)
<1>1. /\ FileTypes /\ ClaimsAreExclusive /\ DrivenIsOpen
  BY FileFacts
<1>2. /\ Range(list') = Range(list) \ {u}
      /\ units' = units /\ locked' = locked \ {u} /\ moving' = moving \ {u}
      /\ driving' = driving \ {u} /\ abandoned' = abandoned \ {u}
      /\ UNCHANGED <<refs, pc, filp, asked, stale>>
  BY DoDetachKeepsLists DEF DoDetach, fileVars
<1> HIDE DEF u
<1>3. Holding' = Holding /\ Units' = Units
  BY <1>2 DEF Holding, Units
<1>4. FileTypes'
  BY <1>1, <1>2, <1>3 DEF FileTypes
<1>5. DrivenIsOpen'
  BY <1>1, <1>2 DEF DrivenIsOpen
<1>6. locked' = {filp[f] : f \in Holding} \intersect Range(list')
  BY <1>1, <1>2 DEF ClaimsAreExclusive
<1>7. ClaimsAreExclusive'
  BY <1>1, <1>2, <1>3, <1>6 DEF ClaimsAreExclusive, Number
<1>8. QED
  BY <1>4, <1>5, <1>7 DEF FileInv

(* A program that finds a unit, or fails to open it, holds none.           *)
LEMMA SearchKeepsFiles ==
  ASSUME UnitsInv, NEW f \in Files,
         (\E n \in Minors[f] : Lookup(f, n)) \/ OpenFails(f)
  PROVE  FileInv'
<1>1. /\ FileTypes /\ ClaimsAreExclusive /\ DrivenIsOpen
      /\ Range(list) \subseteq Units /\ Units \subseteq Nat
      /\ Holding \subseteq Files
  BY FileFacts
<1>2. /\ UNCHANGED <<unitVars, lockVars, ioVars, stale>>
      /\ pc[f] \in {"closed", "found"}
      /\ pc' = [pc EXCEPT ![f] = pc'[f]] /\ pc'[f] \in {"closed", "found"}
      /\ filp' = [filp EXCEPT ![f] = filp'[f]]
      /\ asked' = [asked EXCEPT ![f] = asked'[f]]
      /\ filp'[f] \in Nat /\ (pc'[f] = "found" => filp'[f] \in Units)
      /\ asked'[f] \in Int
  <2>1. CASE OpenFails(f)
    BY <1>1, <2>1 DEF OpenFails, Close, At, FileTypes, NoUnit, NoNumber, Labels
  <2>2. ASSUME NEW n \in Minors[f], Lookup(f, n)
        PROVE  Found(n) \in Units
    <3>1. CASE \E u \in Range(list) : Number(u) = n
      BY <1>1, <3>1 DEF Found
    <3>2. CASE ~\E u \in Range(list) : Number(u) = n
      <4>1. Found(n) = IF list = <<>> THEN NoUnit ELSE Last(list)
        BY <3>2 DEF Found
      <4>2. list # <<>> /\ Found(n) = list[Len(list)]
        BY <2>2, <4>1 DEF Lookup, Last
      <4>3. list \in Seq(Units)
        BY DEF UnitsInv, ListInv
      <4> HIDE DEF Units
      <4>4. list[Len(list)] \in Units
        BY <4>2, <4>3
      <4>5. QED
        BY <4>2, <4>4
    <3>3. QED
      BY <3>1, <3>2
  <2>3. CASE \E n \in Minors[f] : Lookup(f, n)
    <3>1. PICK n \in Minors[f] : Lookup(f, n)
      BY <2>3
    <3>2. Found(n) \in Units /\ n \in Int
      BY <2>2, <3>1, UnitsAssumption
    <3>3. UNCHANGED <<unitVars, lockVars, ioVars, stale>> /\ pc[f] = "closed"
      BY <3>1 DEF Lookup, At
    <3>4. /\ pc' = [pc EXCEPT ![f] = "found"] /\ pc'[f] = "found"
          /\ filp' = [filp EXCEPT ![f] = Found(n)] /\ filp'[f] = Found(n)
          /\ asked' = [asked EXCEPT ![f] = n] /\ asked'[f] = n
      BY <1>1, <3>1 DEF Lookup, FileTypes
    <3>5. QED
      BY <1>1, <3>2, <3>3, <3>4
  <2>4. QED
    BY <2>1, <2>3
<1>3. Holding' = Holding
  BY <1>1, <1>2 DEF Holding, FileTypes
<1>4. /\ units' = units /\ list' = list /\ Units' = Units
      /\ refs' = refs /\ locked' = locked
      /\ UNCHANGED <<moving, driving, abandoned>>
      /\ \A g \in Files \ {f} : filp'[g] = filp[g] /\ asked'[g] = asked[g] /\ pc'[g] = pc[g]
      /\ f \notin Holding
  BY <1>1, <1>2 DEF unitVars, lockVars, ioVars, Units, FileTypes, Holding
<1>5. FileTypes'
  BY <1>1, <1>2, <1>4 DEF FileTypes, Labels
<1>6. DrivenIsOpen'
  BY <1>1, <1>2, <1>4 DEF DrivenIsOpen
<1>7. \A g \in Holding : filp'[g] = filp[g] /\ asked'[g] = asked[g]
  BY <1>1, <1>4
<1>8. {filp'[g] : g \in Holding} = {filp[g] : g \in Holding}
  BY <1>7
<1>9. ClaimsAreExclusive'
  BY <1>1, <1>3, <1>4, <1>7, <1>8 DEF ClaimsAreExclusive, Number
<1>10. QED
  BY <1>5, <1>6, <1>9 DEF FileInv

LEMMA ClaimKeepsFiles ==
  ASSUME UnitsInv, NEW f \in Files, Claim(f)
  PROVE  FileInv'
<1> DEFINE u == filp[f]
<1>1. /\ FileTypes /\ ClaimsAreExclusive /\ DrivenIsOpen
      /\ Holding \subseteq Files /\ IsFiniteSet(Holding)
  BY FileFacts
<1>2. /\ UNCHANGED <<units, list, moving, driving, abandoned, filp, asked, stale>>
      /\ pc[f] = "found" /\ pc' = [pc EXCEPT ![f] = "claimed"]
      /\ u \in Range(list) /\ Number(u) = asked[f] /\ u \notin locked
      /\ refs' = refs + 1 /\ locked' = locked \union {u}
  BY DEF Claim, At, Live, Go, OtherNumber, unitVars, ioVars
<1>3. Holding' = Holding \union {f} /\ f \notin Holding /\ Units' = Units
  BY <1>1, <1>2 DEF Holding, FileTypes, Units
<1>4. Cardinality(Holding') = Cardinality(Holding) + 1
  BY <1>1, <1>3, FS_AddElement
<1>5. \A g \in Holding : filp[g] # u
  BY <1>1, <1>2 DEF ClaimsAreExclusive
<1>6. u \in Units
  BY <1>1, <1>2 DEF FileTypes
<1>7. FileTypes'
  BY <1>1, <1>2, <1>3, <1>6 DEF FileTypes, Labels
<1>8. DrivenIsOpen'
  BY <1>1, <1>2 DEF DrivenIsOpen, FileTypes
<1>9. locked' = {filp[g] : g \in Holding \union {f}} \intersect Range(list)
  BY <1>1, <1>2 DEF ClaimsAreExclusive
<1>10. ClaimsAreExclusive'
  BY <1>1, <1>2, <1>3, <1>4, <1>5, <1>9 DEF ClaimsAreExclusive, Number
<1>11. QED
  BY <1>7, <1>8, <1>10 DEF FileInv

LEMMA ReleaseKeepsFiles ==
  ASSUME UnitsInv, NEW f \in Files, Release(f)
  PROVE  FileInv'
<1> DEFINE u == filp[f]
<1>1. /\ FileTypes /\ ClaimsAreExclusive /\ DrivenIsOpen
      /\ Holding \subseteq Files /\ IsFiniteSet(Holding)
      /\ Cardinality(Holding) \in Nat
  BY FileFacts
<1>2. /\ UNCHANGED <<units, list, moving, driving, abandoned, stale>>
      /\ pc[f] = "stopped" /\ pc' = [pc EXCEPT ![f] = "closed"]
      /\ filp' = [filp EXCEPT ![f] = 0] /\ asked' = [asked EXCEPT ![f] = -1]
      /\ refs' = refs - 1 /\ locked' = locked \ {u}
  BY DEF Release, At, Close, unitVars, ioVars, NoUnit, NoNumber
<1>3. Holding' = Holding \ {f} /\ f \in Holding /\ Units' = Units
  BY <1>1, <1>2 DEF Holding, FileTypes, Units
<1>4. Cardinality(Holding') = Cardinality(Holding) - 1
  BY <1>1, <1>3, FS_RemoveElement
<1>5. \A g \in Holding \ {f} : filp[g] # u /\ filp'[g] = filp[g] /\ asked'[g] = asked[g]
  BY <1>1, <1>2, <1>3 DEF ClaimsAreExclusive, FileTypes
<1>6. FileTypes'
  BY <1>1, <1>2, <1>3 DEF FileTypes, Labels
<1>7. DrivenIsOpen'
  BY <1>1, <1>2 DEF DrivenIsOpen, FileTypes
<1>8. locked' = {filp'[g] : g \in Holding \ {f}} \intersect Range(list)
  BY <1>1, <1>2, <1>3, <1>5 DEF ClaimsAreExclusive
<1>9. ClaimsAreExclusive'
  BY <1>1, <1>2, <1>3, <1>4, <1>5, <1>8 DEF ClaimsAreExclusive, Number
<1>10. QED
  BY <1>6, <1>7, <1>9 DEF FileInv

(* A program that goes on with the unit it holds.                          *)
LEMMA UseKeepsFiles ==
  ASSUME UnitsInv, NEW f \in Files, Ready(f) \/ Start(f) \/ Stop(f) \/ GiveUp(f)
  PROVE  FileInv'
<1> DEFINE u == filp[f]
<1>1. /\ FileTypes /\ ClaimsAreExclusive /\ DrivenIsOpen
      /\ Holding \subseteq Files
  BY FileFacts
<1>2. /\ UNCHANGED <<units, list, refs, locked, filp, asked, stale>>
      /\ pc[f] \in {"claimed", "open"}
      /\ \E label \in {"open", "stopped"} : pc' = [pc EXCEPT ![f] = label]
  <2>1. CASE Start(f)
    BY <1>1, <2>1 DEF Start, At, unitVars, lockVars, fileVars, FileTypes
  <2>2. CASE Ready(f) \/ Stop(f) \/ GiveUp(f)
    BY <2>2 DEF Ready, Stop, GiveUp, At, Go, unitVars, lockVars
  <2>3. QED
    BY <2>1, <2>2
<1>3. Holding' = Holding /\ f \in Holding /\ Units' = Units
  BY <1>1, <1>2 DEF Holding, FileTypes, Units
<1>4. ClaimsAreExclusive'
  BY <1>1, <1>2, <1>3 DEF ClaimsAreExclusive, Number
<1>5. u \in Units
  BY <1>1, <1>2 DEF FileTypes
<1>6. moving' \union driving' \union abandoned' \subseteq Units
  BY <1>1, <1>5 DEF Ready, Start, Stop, GiveUp, FileTypes, ioVars
<1>7. FileTypes'
  BY <1>1, <1>2, <1>3, <1>6 DEF FileTypes, Labels
<1>8. \A g \in Files : pc[g] = "open" /\ filp[g] = u => g = f
  BY <1>1, <1>3 DEF ClaimsAreExclusive, Holding
<1>9. DrivenIsOpen'
  <2>1. CASE Ready(f)
    <3>1. /\ pc[f] = "claimed" /\ pc' = [pc EXCEPT ![f] = "open"] /\ filp' = filp
          /\ moving' = moving \ {u} /\ driving' = driving /\ abandoned' = abandoned
      BY <2>1 DEF Ready, At, Go
    <3>2. QED
      BY <1>1, <1>8, <3>1 DEF DrivenIsOpen, FileTypes
  <2>2. CASE Start(f)
    <3>1. /\ pc[f] = "open" /\ pc' = pc /\ filp' = filp
          /\ moving' = moving \union {u} /\ driving' = driving \union {u}
          /\ abandoned' = abandoned \ {u}
      BY <2>2 DEF Start, At, fileVars
    <3>2. QED
      BY <1>1, <3>1 DEF DrivenIsOpen, FileTypes
  <2>3. CASE Stop(f)
    <3>1. /\ pc[f] = "open" /\ pc' = [pc EXCEPT ![f] = "stopped"] /\ filp' = filp
          /\ abandoned' = abandoned /\ moving' = moving \ {u}
          /\ driving' = IF u \in moving THEN driving \ {u} ELSE driving
      BY <2>3 DEF Stop, At, Go
    <3>2. QED
      BY <1>1, <1>8, <3>1 DEF DrivenIsOpen, FileTypes
  <2>4. CASE GiveUp(f)
    <3>1. /\ pc[f] = "open" /\ pc' = [pc EXCEPT ![f] = "stopped"] /\ filp' = filp
          /\ abandoned' = abandoned \union {u} /\ moving' = moving /\ driving' = driving
      BY <2>4 DEF GiveUp, At, Go
    <3>2. QED
      BY <1>1, <1>8, <3>1 DEF DrivenIsOpen, FileTypes
  <2>5. QED
    BY <2>1, <2>2, <2>3, <2>4
<1>10. QED
  BY <1>4, <1>7, <1>9 DEF FileInv

LEMMA FileStep ==
  ASSUME UnitsInv, [Next]_vars
  PROVE  FileInv'
<1>1. ASSUME NEW p \in Ports, Attach(p) PROVE FileInv'
  <2>1. /\ Len(units) \in Nat /\ Range(list) \subseteq Units
    BY ListFacts DEF UnitsInv
  <2>2. /\ Len(units') = Len(units) + 1
        /\ \A v \in Units : units'[v] = units[v]
        /\ Range(list') = Range(list) \union {Len(units) + 1}
    BY <1>1, AttachKeepsLists
  <2>3. Units \subseteq Units' /\ Len(units) + 1 \notin Units
    BY <2>1, <2>2 DEF Units
  <2>4. Range(list') \intersect Units = Range(list)
    BY <2>1, <2>2, <2>3
  <2>5. UNCHANGED <<refs, locked, moving, driving, abandoned, pc, filp, asked, stale>>
    BY <1>1 DEF Attach, lockVars, ioVars, fileVars
  <2>6. QED
    BY <2>2, <2>3, <2>4, <2>5, FilesUntouched
<1>2. ASSUME UNCHANGED <<units, list, lockVars, ioVars, fileVars>> PROVE FileInv'
  <2>1. Units' = Units /\ Range(list') \intersect Units = Range(list)
    BY <1>2, FileFacts DEF Units
  <2>2. UNCHANGED <<refs, locked, moving, driving, abandoned, pc, filp, asked, stale>>
    BY <1>2 DEF lockVars, ioVars, fileVars
  <2>3. \A v \in Units : units'[v] = units[v]
    BY <1>2
  <2>4. QED
    BY <2>1, <2>2, <2>3, FilesUntouched
<1>3. ASSUME NEW p \in Ports, NEW step \in Steps, AttachFails(p, step)
      PROVE  UNCHANGED <<units, list, lockVars, ioVars, fileVars>>
  BY <1>3 DEF AttachFails
<1>4. ASSUME NEW p \in Ports,
             AttachNot(p) \/ AttachOopses(p) \/ Detach(p) \/ Plug(p) \/ Unplug(p)
      PROVE  UNCHANGED <<units, list, lockVars, ioVars, fileVars>>
  BY <1>4 DEF AttachNot, AttachOopses, Detach, Plug, Unplug, unitVars
<1>5. ASSUME DetachWaits \/ DetachReturns \/ Unloaded \/ Load \/ Unload
      PROVE  UNCHANGED <<units, list, lockVars, ioVars, fileVars>>
  BY <1>5 DEF DetachWaits, DetachReturns, Unloaded, Load, Unload, unitVars
<1>6. ASSUME UNCHANGED vars
      PROVE  UNCHANGED <<units, list, lockVars, ioVars, fileVars>>
  BY <1>6 DEF vars, unitVars
<1>7. CASE DoDetach
  BY <1>7, DoDetachKeepsFiles
<1>8. ASSUME NEW f \in Files, File(f) PROVE FileInv'
  <2>1. CASE StaleUse(f)
    <3>1. /\ UNCHANGED <<units, list, locked, refs, moving, driving, abandoned, pc, filp, asked>>
          /\ stale' \subseteq Files
      BY <2>1, FileFacts DEF StaleUse, unitVars, lockVars, ioVars, FileTypes
    <3>2. Units' = Units /\ Holding' = Holding
      BY <3>1 DEF Units, Holding
    <3>3. FileTypes' /\ DrivenIsOpen'
      BY <3>1, <3>2, FileFacts DEF FileTypes, DrivenIsOpen
    <3>4. ClaimsAreExclusive'
      BY <3>1, <3>2, FileFacts DEF ClaimsAreExclusive, Number
    <3>5. QED
      BY <3>3, <3>4 DEF FileInv
  <2>2. QED
    BY <1>8, <2>1, SearchKeepsFiles, ClaimKeepsFiles, UseKeepsFiles, ReleaseKeepsFiles DEF File
<1>9. QED
  BY <1>1, <1>2, <1>3, <1>4, <1>5, <1>6, <1>7, <1>8 DEF Next, CoreStep

-----------------------------------------------------------------------------
(* Ports, their units and the work that is queued.                         *)
LEMMA CoreFacts ==
  ASSUME UnitsInv
  PROVE  /\ CoreInv /\ ListInv
         /\ Range(work) \subseteq Range(list) /\ Range(list) \subseteq Units
         /\ Range(list) = {} => list = <<>>
         /\ list = <<>> => Range(list) = {}
         /\ work = <<>> => Range(work) = {}
<1>1. CoreInv /\ ListInv /\ Range(work) \subseteq Range(list) /\ Range(list) \subseteq Units
  BY ListFacts DEF UnitsInv, ListInv
<1>2. /\ list = <<>> => Range(list) = {}
      /\ work = <<>> => Range(work) = {}
  BY DEF Range
<1>3. Range(list) = {} => list = <<>>
  <2>1. SUFFICES ASSUME list # <<>> PROVE Range(list) # {}
    OBVIOUS
  <2>2. list \in Seq(Units)
    BY <1>1 DEF ListInv
  <2>3. 1 \in DOMAIN list
    <3> HIDE DEF Units
    <3>1. QED
      BY <2>1, <2>2
  <2>4. QED
    BY <2>3 DEF Range
<1>4. QED
  BY <1>1, <1>2, <1>3

LEMMA AttachKeepsCore ==
  ASSUME UnitsInv, NEW p \in Ports,
         Attach(p) \/ AttachNot(p) \/ (\E step \in Steps : AttachFails(p, step))
  PROVE  CoreInv'
<1>1. /\ CoreInv /\ Range(work) \subseteq Range(list) /\ Range(list) \subseteq Units
  BY CoreFacts
<1>2. /\ core = "attaching" /\ p \in pending /\ pending' = pending \ {p}
      /\ core' = (IF pending = {p} THEN "idle" ELSE core)
      /\ work' = work /\ plugged' = plugged /\ driver' = driver /\ pc' = pc
  BY DEF Attach, AttachNot, AttachFails, Done, unitVars, fileVars
<1>3. driver = "in" /\ pending \subseteq plugged
  BY <1>1, <1>2 DEF CoreInv, Removing
<1>4. /\ \A u \in Units : units'[u] = units[u]
      /\ \A u \in Range(list') \ Range(list) : units'[u].port = p
  <2>1. CASE Attach(p)
    BY <2>1, AttachKeepsLists
  <2>2. CASE ~Attach(p)
    BY <2>2 DEF AttachNot, AttachFails, unitVars
  <2>3. QED
    BY <2>1, <2>2
<1>5. \A u \in Range(list') \ Range(work) : units'[u].port \in plugged
  BY <1>1, <1>2, <1>3, <1>4 DEF CoreInv, PortOf
<1>6. \A u \in Range(work) : units'[u].port \in plugged => driver = "going"
  BY <1>1, <1>4 DEF CoreInv, PortOf
<1>7. Holding' = Holding
  BY <1>2 DEF Holding
<1>8. QED
  BY <1>1, <1>2, <1>3, <1>5, <1>6, <1>7 DEF CoreInv, PortOf, Removing

LEMMA OopsKeepsCore ==
  ASSUME UnitsInv, NEW p \in Ports, AttachOopses(p)
  PROVE  CoreInv'
<1>1. CoreInv
  BY CoreFacts
<1>2. /\ core = "attaching" /\ core' = "oopsed"
      /\ UNCHANGED <<list, units, work, pending, plugged, driver, pc>>
  BY DEF AttachOopses, fileVars
<1>3. Holding' = Holding
  BY <1>2 DEF Holding
<1>4. QED
  BY <1>1, <1>2, <1>3 DEF CoreInv, PortOf, Removing

LEMMA DetachKeepsCore ==
  ASSUME UnitsInv, NEW p \in Ports, Detach(p)
  PROVE  CoreInv'
<1>1. CoreInv
  BY CoreFacts
<1>2. /\ core = "detaching" /\ p \in pending /\ pending' = pending \ {p}
      /\ core' = "detached" /\ list' = list /\ units' = units
      /\ plugged' = plugged /\ driver' = driver /\ pc' = pc
      /\ Range(work') = Range(work) \union UnitsOf(p)
  BY DetachKeepsLists DEF Detach, fileVars
<1>3. driver # "out"
  BY <1>1, <1>2 DEF CoreInv
<1>4. \A u \in Range(list) \ Range(work') :
        PortOf(u) \in (IF driver = "going" THEN pending' ELSE plugged \union pending')
  BY <1>1, <1>2 DEF CoreInv, UnitsOf
<1>5. \A u \in Range(work') : PortOf(u) \in plugged => driver = "going"
  BY <1>1, <1>2, <1>3 DEF CoreInv, UnitsOf, Removing
<1>6. Holding' = Holding
  BY <1>2 DEF Holding
<1>7. QED
  BY <1>1, <1>2, <1>3, <1>4, <1>5, <1>6 DEF CoreInv, PortOf, Removing

LEMMA DoDetachKeepsCore ==
  ASSUME UnitsInv, DoDetach
  PROVE  CoreInv'
<1> DEFINE u == Head(work)
<1>1. CoreInv
  BY CoreFacts
<1>2. /\ Range(list') = Range(list) \ {u} /\ Range(work') = Range(work) \ {u}
      /\ work # <<>> /\ units' = units
      /\ UNCHANGED <<core, pending, plugged, driver, pc>>
  BY DoDetachKeepsLists DEF DoDetach, coreVars, fileVars
<1> HIDE DEF u
<1>3. driver # "out" /\ Holding' = Holding
  BY <1>1, <1>2 DEF CoreInv, Holding
<1>4. QED
  BY <1>1, <1>2, <1>3 DEF CoreInv, PortOf

(* Programs leave the core alone, and none takes hold of a unit of a       *)
(* driver that is going.                                                   *)
LEMMA FilesKeepCore ==
  ASSUME UnitsInv, NEW f \in Files, File(f)
  PROVE  CoreInv'
<1>1. CoreInv /\ FileTypes
  BY CoreFacts, FileFacts
<1>2. UNCHANGED <<units, list, work, core, pending, plugged, driver>>
  BY DEF File, Lookup, OpenFails, Claim, Ready, Start, Stop, GiveUp, Release, StaleUse,
         unitVars, coreVars
<1>3. ASSUME driver = "going" PROVE Holding' = {}
  <2>1. Holding = {}
    BY <1>1, <1>3 DEF CoreInv
  <2>2. pc[f] \in {"closed", "found"}
    BY <1>1, <2>1 DEF Holding, FileTypes, Labels
  <2>3. pc' = pc \/ \E label \in {"closed", "found"} : pc' = [pc EXCEPT ![f] = label]
    BY <1>3, <2>2 DEF File, Lookup, OpenFails, Claim, Ready, Start, Stop, GiveUp, Release,
                      StaleUse, At, Go, Close
  <2>4. QED
    BY <1>1, <2>1, <2>3 DEF Holding, FileTypes
<1>4. QED
  BY <1>1, <1>2, <1>3 DEF CoreInv, PortOf

LEMMA CoreStepKeeps ==
  ASSUME UnitsInv,
         DetachWaits \/ DetachReturns \/ Unloaded \/ Load \/ Unload
           \/ \E p \in Ports : Plug(p) \/ Unplug(p)
  PROVE  CoreInv'
<1>1. /\ CoreInv /\ Range(work) \subseteq Range(list)
      /\ Range(list) = {} => list = <<>>
      /\ list = <<>> => Range(list) = {}
      /\ work = <<>> => Range(work) = {}
  BY CoreFacts
<1>2. UNCHANGED <<units, list, work, refs, pc>>
  BY DEF DetachWaits, DetachReturns, Unloaded, Load, Unload, Plug, Unplug,
         unitVars, lockVars, fileVars
<1>3. Holding' = Holding /\ Range(list') = Range(list) /\ Range(work') = Range(work)
  BY <1>2 DEF Holding
<1>4. CASE DetachWaits
  BY <1>1, <1>2, <1>3, <1>4 DEF DetachWaits, CoreInv, PortOf, Removing
<1>5. CASE DetachReturns
  BY <1>1, <1>2, <1>3, <1>5 DEF DetachReturns, CoreInv, PortOf, Removing
<1>6. CASE Unloaded
  <2>1. list = <<>> /\ work = <<>>
    BY <1>1, <1>6 DEF Unloaded, CoreInv
  <2>2. QED
    BY <1>1, <1>2, <1>3, <1>6, <2>1 DEF Unloaded, CoreInv, PortOf, Removing
<1>7. CASE Load
  BY <1>1, <1>2, <1>3, <1>7 DEF Load, CoreInv, PortOf, Removing
<1>8. CASE Unload
  <2>1. Holding = {}
    <3>1. refs = 0 /\ refs = Cardinality(Holding) /\ IsFiniteSet(Holding)
      BY <1>8, FileFacts DEF Unload, ClaimsAreExclusive
    <3>2. QED
      BY <3>1, FS_EmptySet
  <2>2. /\ driver = "in" /\ core = "idle" /\ pending = {}
        /\ driver' = "going" /\ core' = "detaching" /\ pending' = plugged /\ plugged' = plugged
    BY <1>1, <1>8 DEF Unload, CoreInv
  <2>3. QED
    BY <1>1, <1>2, <1>3, <2>1, <2>2 DEF CoreInv, PortOf, Removing
<1>9. ASSUME NEW p \in Ports, Plug(p) PROVE CoreInv'
  <2>1. /\ core = "idle" /\ pending = {} /\ driver # "going"
        /\ plugged' = plugged \union {p} /\ driver' = driver
        /\ \A u \in Range(list) : PortOf(u) # p
        /\ driver = "in" => core' = "attaching" /\ pending' = {p}
        /\ driver # "in" => core' = core /\ pending' = pending
    BY <1>1, <1>9 DEF Plug, CoreInv, UnitsOf, Removing
  <2>2. QED
    BY <1>1, <1>2, <1>3, <2>1 DEF CoreInv, PortOf, Removing
<1>10. ASSUME NEW p \in Ports, Unplug(p) PROVE CoreInv'
  <2>1. /\ core = "idle" /\ pending = {} /\ driver # "going"
        /\ plugged' = plugged \ {p} /\ driver' = driver
        /\ driver = "in" => core' = "detaching" /\ pending' = {p}
        /\ driver # "in" => core' = core /\ pending' = pending
    BY <1>1, <1>10 DEF Unplug, CoreInv, Removing
  <2>2. QED
    BY <1>1, <1>2, <1>3, <2>1 DEF CoreInv, PortOf, Removing
<1>11. QED
  BY <1>4, <1>5, <1>6, <1>7, <1>8, <1>9, <1>10

LEMMA CoreInvStep ==
  ASSUME UnitsInv, [Next]_vars
  PROVE  CoreInv'
<1>1. CASE UNCHANGED vars
  <2>1. UNCHANGED <<units, list, work, core, pending, plugged, driver, pc>>
    BY <1>1 DEF vars, unitVars, coreVars, fileVars
  <2>2. QED
    BY <2>1, CoreFacts DEF CoreInv, PortOf, Holding
<1>2. CASE Next
  BY <1>2, AttachKeepsCore, OopsKeepsCore, DetachKeepsCore, DoDetachKeepsCore, FilesKeepCore, CoreStepKeeps
     DEF Next, CoreStep
<1>3. QED
  BY <1>1, <1>2

-----------------------------------------------------------------------------
(* What holds always.                                                      *)
LEMMA UnitsInitially ==
  ASSUME Init
  PROVE  UnitsInv
<1>1. /\ list = <<>> /\ units = <<>> /\ work = <<>> /\ held = {}
      /\ core = "idle" /\ pending = {} /\ driver = "out" /\ plugged = {}
      /\ refs = 0 /\ locked = {} /\ moving = {} /\ driving = {} /\ abandoned = {}
      /\ pc = [f \in Files |-> "closed"] /\ filp = [f \in Files |-> 0]
      /\ asked = [f \in Files |-> -1] /\ stale = {}
  BY DEF Init, NoUnit, NoNumber
<1>2. Holding = {} /\ Cardinality(Holding) = 0
  BY <1>1, FS_EmptySet DEF Holding
<1>3. Range(list) = {} /\ Range(work) = {}
  BY <1>1 DEF Range
<1>4. ListInv
  BY <1>1, <1>3 DEF ListInv, NumbersAscend, HeldByListedUnits, IsInjective
<1>5. FileInv
  BY <1>1, <1>2, <1>3 DEF FileInv, FileTypes, ClaimsAreExclusive, DrivenIsOpen, Labels
<1>6. CoreInv
  BY <1>1, <1>2, <1>3 DEF CoreInv
<1>7. QED
  BY <1>4, <1>5, <1>6 DEF UnitsInv

(* The inductive invariant: the lists, the programs and the core agree on  *)
(* every unit, whatever any of them does next.                             *)
THEOREM UnitsInvariance == Spec => []UnitsInv
<1>1. Init => UnitsInv
  BY UnitsInitially
<1>2. UnitsInv /\ [Next]_vars => UnitsInv'
  BY ListStep, FileStep, CoreInvStep DEF UnitsInv
<1>3. QED
  BY <1>1, <1>2, PTL DEF Spec

(* Every variable has its type: no list names a unit that was never        *)
(* registered, and the count of references never falls below zero.         *)
THEOREM UnitsTypes == Spec => []TypeOK
<1>1. UnitsInv => TypeOK
  <2>1. SUFFICES ASSUME UnitsInv PROVE TypeOK
    OBVIOUS
  <2>2. /\ DOMAIN units = Units /\ Range(list) \subseteq Units
        /\ Range(work) \subseteq Range(list) /\ CoreInv
        /\ \A u \in Units : PortOf(u) \in Ports /\ Number(u) \in Nat
    BY <2>1, ListFacts, CoreFacts DEF UnitsInv
  <2>3. FileTypes /\ refs \in Nat
    BY <2>1, FileFacts DEF ClaimsAreExclusive
  <2>4. QED
    BY <2>2, <2>3 DEF TypeOK, FileTypes, CoreInv, Removing, Labels
<1>2. QED
  BY <1>1, UnitsInvariance, PTL

(* The list stays in the order of the numbers.                             *)
THEOREM UnitsAscend == Spec => []NumbersAscend
<1>1. UnitsInv => NumbersAscend
  BY DEF UnitsInv, ListInv
<1>2. QED
  BY <1>1, UnitsInvariance, PTL

(* Nothing attach() acquired is lost, and nothing is released too early or *)
(* without having been acquired, unless attach() was killed.               *)
THEOREM UnitsHoldTheirOwn == Spec => []HeldByListedUnits
<1>1. UnitsInv => HeldByListedUnits
  BY DEF UnitsInv, ListInv
<1>2. QED
  BY <1>1, UnitsInvariance, PTL

(* Two programs never have the same unit, and the driver is held for each. *)
THEOREM UnitsAreExclusive == Spec => []ClaimsAreExclusive
<1>1. UnitsInv => ClaimsAreExclusive
  BY DEF UnitsInv, FileInv
<1>2. QED
  BY <1>1, UnitsInvariance, PTL

(* A driver that is out has no unit and no work left.                      *)
THEOREM UnitsUnloadClean == Spec => []UnloadIsClean
<1>1. UnitsInv => UnloadIsClean
  BY DEF UnitsInv, CoreInv, UnloadIsClean
<1>2. QED
  BY <1>1, UnitsInvariance, PTL

(* A unit on a port that is there is freed only by unloading the driver,   *)
(* and then no program holds it, and its port runs only if close() had     *)
(* given up on it.                                                         *)
THEOREM UnitsSpared == Spec => UnloadSparesOpenUnits
<1>1. ASSUME UnitsInv, [Next]_vars, NEW u \in Freed' \ Freed, PortOf(u) \in plugged
      PROVE  /\ \A f \in Holding : filp[f] # u
             /\ u \in driving => u \in abandoned
  <2>1. /\ ListInv /\ ListInv' /\ CoreInv /\ DrivenIsOpen
        /\ DOMAIN units = Units /\ Range(list) \subseteq Units
    BY <1>1, ListStep, CoreFacts, FileFacts, ListFacts
  <2>2. ASSUME NEW p \in Ports, Attach(p) PROVE Freed' = Freed
    <3>1. /\ Len(units) \in Nat /\ Len(units') = Len(units) + 1
          /\ Range(list') = Range(list) \union {Len(units) + 1}
      BY <1>1, <2>1, <2>2, ListFacts, AttachKeepsLists
    <3>2. DOMAIN units' = 1..(Len(units) + 1) /\ DOMAIN units = 1..Len(units)
      BY <2>1, <3>1 DEF ListInv, Units
    <3>3. QED
      BY <2>1, <3>1, <3>2 DEF Freed, Units
  <2>3. ASSUME UNCHANGED <<list, units>> PROVE Freed' = Freed
    BY <2>3 DEF Freed
  <2>4. ASSUME NEW f \in Files, File(f) PROVE UNCHANGED <<list, units>>
    BY <2>4 DEF File, Lookup, OpenFails, Claim, Ready, Start, Stop, GiveUp, Release, StaleUse,
                unitVars
  <2>5. ASSUME NEW p \in Ports,
               AttachNot(p) \/ AttachOopses(p) \/ Detach(p) \/ Plug(p) \/ Unplug(p)
        PROVE  UNCHANGED <<list, units>>
    BY <2>5 DEF AttachNot, AttachOopses, Detach, Plug, Unplug, unitVars
  <2>6. ASSUME DetachWaits \/ DetachReturns \/ Unloaded \/ Load \/ Unload
                 \/ (\E p \in Ports, step \in Steps : AttachFails(p, step))
        PROVE  UNCHANGED <<list, units>>
    BY <2>6 DEF DetachWaits, DetachReturns, Unloaded, Load, Unload, AttachFails, unitVars
  <2>7. UNCHANGED vars => UNCHANGED <<list, units>>
    BY DEF vars, unitVars
  <2>8. DoDetach
    BY <1>1, <2>2, <2>3, <2>4, <2>5, <2>6, <2>7 DEF Next, CoreStep
  <2>9. u = Head(work) /\ u \in Range(work)
    <3>1. /\ Range(list') = Range(list) \ {Head(work)} /\ units' = units
          /\ Head(work) \in Range(list)
      BY <1>1, <2>8, DoDetachKeepsLists DEF DoDetach
    <3>2. u = Head(work)
      BY <1>1, <3>1 DEF Freed
    <3>3. Head(work) \in Range(work)
      <4>1. work \in Seq(Units) /\ work # <<>> /\ IsInjective(work)
        BY <2>1, <2>8 DEF ListInv, DoDetach
      <4> HIDE DEF Units
      <4>2. QED
        BY <4>1, TailDistinct
    <3>4. QED
      BY <3>2, <3>3
  <2>10. driver = "going" /\ Holding = {}
    BY <1>1, <2>1, <2>9 DEF CoreInv
  <2>11. QED
    BY <2>1, <2>10 DEF DrivenIsOpen, Holding
<1>2. UnitsInv /\ [Next]_vars => [\A u \in Freed' \ Freed : Freeing(u)]_vars
  BY <1>1 DEF Freeing
<1>3. QED
  BY <1>2, UnitsInvariance, PTL DEF Spec, UnloadSparesOpenUnits
=============================================================================

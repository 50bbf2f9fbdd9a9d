---------------------------- MODULE Timeline_proofs ----------------------------
(***************************************************************************)
(* Proofs about the timeline, for every set of events, period and bound of *)
(* the time: the list stays sorted, the tick is listed at most once and    *)
(* never later than a period from now, and nothing but a running tick      *)
(* lists a tick that was taken off.                                        *)
(***************************************************************************)
EXTENDS Timeline, SequenceTheorems, FiniteSetTheorems, TLAPS

USE EventAssumption, TimeAssumption DEF EventAssumption, TimeAssumption

-------------------------------------------------------------------------------
(* Sequences                                                                 *)

LEMMA LeastExists ==
    ASSUME NEW S \in SUBSET Nat, S # {}
    PROVE  \E x \in S : \A y \in S : x <= y
<1>1. \E x \in S : \A y \in S : ~(<<y, x>> \in OpToRel(<, Nat))
  BY WFMin, NatLessThanWellFounded
<1>2. \A x, y \in Nat : y < x => <<y, x>> \in OpToRel(<, Nat)
  BY DEF OpToRel
<1>3. \A x, y \in S : ~(y < x) => x <= y
  OBVIOUS
<1>4. QED
  BY <1>1, <1>2, <1>3

LEMMA InsertAtIs ==
    ASSUME NEW S, NEW s \in Seq(S), NEW x \in S, NEW i \in 1 .. Len(s) + 1
    PROVE  LET r == InsertAt(s, i, x)
           IN  /\ r \in Seq(S)
               /\ Len(r) = Len(s) + 1
               /\ \A j \in 1 .. Len(r) :
                      r[j] = IF j < i THEN s[j] ELSE IF j = i THEN x ELSE s[j - 1]
<1> DEFINE a == SubSeq(s, 1, i - 1)
           b == SubSeq(s, i, Len(s))
<1>1. Len(s) \in Nat /\ \A j \in 1 .. Len(s) : s[j] \in S
  BY ElementOfSeq, LenProperties
<1>2. /\ a \in Seq(S) /\ Len(a) = i - 1
      /\ \A j \in 1 .. i - 1 : a[j] = s[j]
  BY <1>1, SubSeqProperties
<1>3. /\ b \in Seq(S) /\ Len(b) = Len(s) - i + 1
      /\ \A j \in 1 .. Len(s) - i + 1 : b[j] = s[i + j - 1]
  BY <1>1, SubSeqProperties
<1> HIDE DEF a, b
<1>4. <<x>> \in Seq(S) /\ Len(<<x>>) = 1 /\ <<x>>[1] = x
  OBVIOUS
<1> DEFINE c == a \o <<x>>
<1>5. /\ c \in Seq(S) /\ Len(c) = i
      /\ \A j \in 1 .. i : c[j] = IF j < i THEN s[j] ELSE x
  BY <1>1, <1>2, <1>4
<1> HIDE DEF c
<1>6. /\ c \o b \in Seq(S) /\ Len(c \o b) = Len(s) + 1
      /\ \A j \in 1 .. Len(s) + 1 : (c \o b)[j] = IF j <= i THEN c[j] ELSE b[j - i]
  <2>1. /\ c \o b \in Seq(S) /\ Len(c \o b) = Len(c) + Len(b)
        /\ \A j \in 1 .. Len(c) + Len(b) :
               (c \o b)[j] = IF j <= Len(c) THEN c[j] ELSE b[j - Len(c)]
    BY <1>3, <1>5, ConcatProperties
  <2>2. Len(c) = i /\ Len(b) = Len(s) - i + 1 /\ Len(c) + Len(b) = Len(s) + 1
    BY <1>1, <1>3, <1>5
  <2>3. QED
    BY <2>1, <2>2
<1>7. \A j \in 1 .. Len(s) + 1 : i < j => b[j - i] = s[j - 1]
  BY <1>1, <1>3
<1>8. \A j \in 1 .. Len(s) + 1 :
          (c \o b)[j] = IF j < i THEN s[j] ELSE IF j = i THEN x ELSE s[j - 1]
  <2>1. TAKE j \in 1 .. Len(s) + 1
  <2>2. CASE j < i
    BY <1>5, <1>6, <2>2
  <2>3. CASE j = i
    BY <1>5, <1>6, <2>3
  <2>4. CASE i < j
    BY <1>6, <1>7, <2>4
  <2>5. j < i \/ j = i \/ i < j
    BY <1>1
  <2>6. QED
    BY <2>2, <2>3, <2>4, <2>5, Zenon
<1>9. InsertAt(s, i, x) = c \o b
  BY DEF InsertAt, a, b, c
<1>10. QED
  BY <1>6, <1>8, <1>9

LEMMA RemoveAtIs ==
    ASSUME NEW S, NEW s \in Seq(S), NEW i \in 1 .. Len(s)
    PROVE  LET r == RemoveAt(s, i)
           IN  /\ r \in Seq(S)
               /\ Len(r) = Len(s) - 1
               /\ \A j \in 1 .. Len(r) : r[j] = IF j < i THEN s[j] ELSE s[j + 1]
<1> DEFINE a == SubSeq(s, 1, i - 1)
           b == SubSeq(s, i + 1, Len(s))
<1>1. Len(s) \in Nat /\ \A j \in 1 .. Len(s) : s[j] \in S
  BY ElementOfSeq, LenProperties
<1>2. /\ a \in Seq(S) /\ Len(a) = i - 1
      /\ \A j \in 1 .. i - 1 : a[j] = s[j]
  BY <1>1, SubSeqProperties
<1>3. /\ b \in Seq(S) /\ Len(b) = Len(s) - i
      /\ \A j \in 1 .. Len(s) - i : b[j] = s[i + j]
  BY <1>1, SubSeqProperties
<1> HIDE DEF a, b
<1>4. /\ a \o b \in Seq(S) /\ Len(a \o b) = Len(s) - 1
      /\ \A j \in 1 .. Len(s) - 1 : (a \o b)[j] = IF j <= i - 1 THEN a[j] ELSE b[j - (i - 1)]
  BY ONLY <1>1, <1>2, <1>3, i \in 1 .. Len(s), ConcatProperties, SMTT(30)
<1>5. \A j \in 1 .. Len(s) - 1 : ~(j < i) => b[j - (i - 1)] = s[j + 1]
  BY <1>1, <1>3
<1>6. \A j \in 1 .. Len(s) - 1 : j < i => a[j] = s[j]
  BY <1>1, <1>2
<1>7. \A j \in 1 .. Len(s) - 1 : (a \o b)[j] = IF j < i THEN s[j] ELSE s[j + 1]
  BY <1>1, <1>4, <1>5, <1>6
<1>8. RemoveAt(s, i) = a \o b
  BY DEF RemoveAt, a, b
<1>9. QED
  BY <1>4, <1>7, <1>8

-------------------------------------------------------------------------------
(* The operations on the list                                                *)

InOrder(line) == \A i \in 1 .. Len(line) - 1 : ~Before(line[i + 1], line[i])
AtMostOnce(line, e) ==
    \A i, j \in 1 .. Len(line) : line[i][2] = e /\ line[j][2] = e => i = j
Within(line, e, limit) == \A i \in 1 .. Len(line) : line[i][2] = e => line[i][1] <= limit

LEMMA ItemIs ==
    ASSUME NEW item \in Items
    PROVE  item[1] \in Times /\ item[1] \in Nat /\ item[2] \in Events /\ item[2] \in Nat
<1>1. item[1] \in Times /\ item[2] \in Events
  BY DEF Items
<1>2. item[1] \in Nat
  BY <1>1 DEF Times
<1>3. item[2] \in Nat
  BY <1>1
<1>4. QED
  BY <1>1, <1>2, <1>3

LEMMA BeforeIsTotalOrder ==
    ASSUME NEW a \in Items, NEW b \in Items, NEW c \in Items
    PROVE  /\ Before(a, b) => ~Before(b, a)
           /\ ~Before(b, a) /\ ~Before(c, b) => ~Before(c, a)
  BY ItemIs DEF Before

(* There is always a first member that is not before an item, or the end. *)
LEMMA PlaceIs ==
    ASSUME NEW line \in Seq(Items), NEW item
    PROVE  LET i == PlaceFor(line, item)
           IN  /\ i \in 1 .. Len(line) + 1
               /\ \A j \in 1 .. i - 1 : Before(line[j], item)
               /\ i <= Len(line) => ~Before(line[i], item)
<1> DEFINE S == {i \in 1 .. Len(line) + 1 : i <= Len(line) => ~Before(line[i], item)}
<1>1. Len(line) \in Nat
  BY LenProperties
<1>2. Len(line) + 1 \in S /\ S \in SUBSET Nat
  BY <1>1
<1> HIDE DEF S
<1>3. PICK i \in S : \A k \in S : i <= k
  BY <1>2, LeastExists
<1>4. i \in 1 .. Len(line) + 1 /\ (i <= Len(line) => ~Before(line[i], item))
  BY <1>3 DEF S
<1>5. \A j \in 1 .. i - 1 : Before(line[j], item)
  <2>1. SUFFICES ASSUME NEW j \in 1 .. i - 1, ~Before(line[j], item) PROVE FALSE
    OBVIOUS
  <2>2. j \in S
    BY <1>1, <1>4, <2>1 DEF S
  <2>3. QED
    BY <1>3, <1>4, <2>2
<1>6. QED
  BY <1>4, <1>5 DEF PlaceFor

(* An insertion adds the item, and leaves the list in order. *)
LEMMA InsertedIs ==
    ASSUME NEW line \in Seq(Items), NEW time, NEW e, NEW current,
           <<Later(time, current), e>> \in Items
    PROVE  LET item == <<Later(time, current), e>>
               p == PlaceFor(line, item)
               r == Inserted(line, time, e, current)
           IN  /\ r \in Seq(Items)
               /\ Len(r) = Len(line) + 1
               /\ p \in 1 .. Len(r)
               /\ \A j \in 1 .. Len(r) :
                      r[j] = IF j < p THEN line[j] ELSE IF j = p THEN item ELSE line[j - 1]
               /\ InOrder(line) => InOrder(r)
<1> DEFINE item == <<Later(time, current), e>>
           p == PlaceFor(line, item)
           r == Inserted(line, time, e, current)
<1>1. /\ p \in 1 .. Len(line) + 1
      /\ \A j \in 1 .. p - 1 : Before(line[j], item)
      /\ p <= Len(line) => ~Before(line[p], item)
  BY PlaceIs
<1>2. item \in Items /\ r = InsertAt(line, p, item)
  BY DEF Inserted
<1>3. /\ Len(line) \in Nat
      /\ \A j \in 1 .. Len(line) : line[j] \in Items
  BY LenProperties, ElementOfSeq
<1> HIDE DEF item, p, r
<1>4. /\ r \in Seq(Items) /\ Len(r) = Len(line) + 1
      /\ \A j \in 1 .. Len(r) :
             r[j] = IF j < p THEN line[j] ELSE IF j = p THEN item ELSE line[j - 1]
  BY <1>1, <1>2, InsertAtIs
<1>5. ASSUME InOrder(line) PROVE InOrder(r)
  <2>1. SUFFICES ASSUME NEW j \in 1 .. Len(line) PROVE ~Before(r[j + 1], r[j])
    BY <1>3, <1>4 DEF InOrder
  <2>2. CASE j + 1 < p
    <3>1. r[j + 1] = line[j + 1] /\ r[j] = line[j] /\ j \in 1 .. Len(line) - 1
      BY <1>1, <1>3, <1>4, <2>2
    <3>2. QED
      BY <1>5, <3>1 DEF InOrder
  <2>3. CASE j + 1 = p
    <3>1. r[j + 1] = item /\ r[j] = line[j] /\ line[j] \in Items /\ Before(line[j], item)
      BY <1>1, <1>3, <1>4, <2>3
    <3>2. QED
      BY <1>2, <3>1, BeforeIsTotalOrder
  <2>4. CASE j = p
    <3>1. /\ j \in 1 .. Len(r) /\ j + 1 \in 1 .. Len(r) /\ p <= Len(line)
          /\ ~(j + 1 < p) /\ j + 1 # p /\ (j + 1) - 1 = p /\ ~(j < p)
      BY <1>1, <1>3, <1>4, <2>4
    <3>2. r[j + 1] = line[(j + 1) - 1] /\ r[j] = item
      BY <1>4, <2>4, <3>1
    <3>3. QED
      BY <1>1, <3>1, <3>2
  <2>5. CASE j > p
    <3>1. r[j + 1] = line[(j - 1) + 1] /\ r[j] = line[j - 1] /\ j - 1 \in 1 .. Len(line) - 1
      BY <1>1, <1>3, <1>4, <2>5
    <3>2. QED
      BY <1>5, <3>1 DEF InOrder
  <2>6. QED
    BY <1>1, <1>3, <2>2, <2>3, <2>4, <2>5
<1>6. QED
  BY <1>1, <1>3, <1>4, <1>5 DEF item, p, r

(* A removal takes off one member with that event, if there is one, and leaves the
   others and their order. *)
LEMMA RemovedIs ==
    ASSUME NEW line \in Seq(Items), NEW e
    PROVE  LET r == Removed(line, e)
           IN  /\ r \in Seq(Items)
               /\ InOrder(line) => InOrder(r)
               /\ AtMostOnce(line, e) => ~Listed(r, e)
               /\ \A f : AtMostOnce(line, f) => AtMostOnce(r, f)
               /\ \A f : ~Listed(line, f) => ~Listed(r, f)
               /\ \A f, limit : Within(line, f, limit) => Within(r, f, limit)
<1> DEFINE r == Removed(line, e)
<1>1. Len(line) \in Nat /\ \A j \in 1 .. Len(line) : line[j] \in Items
  BY LenProperties, ElementOfSeq
<1>2. CASE ~Listed(line, e)
  <2>1. r = line
    BY <1>2 DEF Listed, Removed, RemoveFirstMatch
  <2>2. QED
    BY <1>2, <2>1
<1>3. CASE Listed(line, e)
  <2> DEFINE S == {i \in 1 .. Len(line) : line[i][2] = e}
             k == Min(S)
  <2>1. r = RemoveAt(line, k)
    BY <1>3 DEF Listed, Removed, RemoveFirstMatch, SelectInSeq
  <2>2. S # {} /\ S \in SUBSET Nat
    BY <1>1, <1>3 DEF Listed
  <2>3. k \in S
    <3> HIDE DEF S
    <3>1. QED
      BY <2>2, LeastExists DEF Min
  <2>4. k \in 1 .. Len(line) /\ line[k][2] = e
    BY <2>3
  <2> HIDE DEF r, k, S
  <2>5. /\ r \in Seq(Items) /\ Len(r) = Len(line) - 1
        /\ \A j \in 1 .. Len(r) : r[j] = IF j < k THEN line[j] ELSE line[j + 1]
    BY <2>1, <2>4, RemoveAtIs
  <2>6. \A j \in 1 .. Len(r) : \E i \in 1 .. Len(line) : i # k /\ r[j] = line[i]
    <3>1. TAKE j \in 1 .. Len(r)
    <3>2. CASE j < k
      BY <1>1, <2>4, <2>5, <3>2
    <3>3. CASE ~(j < k)
      BY <1>1, <2>4, <2>5, <3>3
    <3>4. QED
      BY <3>2, <3>3
  <2>7. ASSUME InOrder(line) PROVE InOrder(r)
    <3> SUFFICES ASSUME NEW j \in 1 .. Len(r) - 1 PROVE ~Before(r[j + 1], r[j])
      BY DEF InOrder
    <3>1. j \in 1 .. Len(line) - 2
      BY <1>1, <2>5
    <3>2. CASE j + 1 < k
      <4>1. r[j] = line[j] /\ r[j + 1] = line[j + 1]
        <5>1. j \in 1 .. Len(r) /\ j + 1 \in 1 .. Len(r) /\ j < k
          BY <1>1, <2>4, <2>5, <3>1, <3>2
        <5>2. QED
          BY <2>5, <3>2, <5>1
      <4>2. ~Before(line[j + 1], line[j])
        BY <1>1, <2>7, <3>1 DEF InOrder
      <4>3. QED
        BY <4>1, <4>2
    <3>3. CASE j + 1 = k
      <4>1. r[j] = line[j] /\ r[j + 1] = line[j + 2]
        BY <1>1, <3>1, <2>4, <2>5, <3>3
      <4>2. line[j] \in Items /\ line[j + 1] \in Items /\ line[j + 2] \in Items
        BY <1>1, <3>1
      <4>3. ~Before(line[j + 1], line[j]) /\ ~Before(line[(j + 1) + 1], line[j + 1])
        BY <1>1, <3>1, <2>7 DEF InOrder
      <4>4. (j + 1) + 1 = j + 2
        OBVIOUS
      <4>5. QED
        BY <4>1, <4>2, <4>3, <4>4, BeforeIsTotalOrder
    <3>4. CASE k <= j
      <4>1. r[j] = line[j + 1] /\ r[j + 1] = line[(j + 1) + 1]
        BY <1>1, <3>1, <2>4, <2>5, <3>4
      <4>2. ~Before(line[(j + 1) + 1], line[j + 1])
        BY <1>1, <3>1, <2>7 DEF InOrder
      <4>3. QED
        BY <4>1, <4>2
    <3>5. QED
      BY <1>1, <3>1, <2>4, <3>2, <3>3, <3>4
  <2>8. AtMostOnce(line, e) => ~Listed(r, e)
    BY <2>4, <2>6 DEF AtMostOnce, Listed
  <2>9. ASSUME NEW f, AtMostOnce(line, f) PROVE AtMostOnce(r, f)
    <3>1. SUFFICES ASSUME NEW i \in 1 .. Len(r), NEW j \in 1 .. Len(r),
                          r[i][2] = f, r[j][2] = f
                   PROVE  i = j
      BY DEF AtMostOnce
    <3> DEFINE At(n) == IF n < k THEN n ELSE n + 1
    <3>2. At(i) \in 1 .. Len(line) /\ At(j) \in 1 .. Len(line)
      BY <1>1, <2>4, <2>5
    <3>3. line[At(i)] = r[i] /\ line[At(j)] = r[j]
      BY <2>5
    <3>4. At(i) = At(j)
      BY <2>9, <3>1, <3>2, <3>3 DEF AtMostOnce
    <3>5. QED
      BY <1>1, <2>4, <2>5, <3>4
  <2>10. \A f : ~Listed(line, f) => ~Listed(r, f)
    BY <2>6 DEF Listed
  <2>11. \A f, limit : Within(line, f, limit) => Within(r, f, limit)
    BY <2>6 DEF Within
  <2>12. QED
    BY <2>5, <2>7, <2>8, <2>9, <2>10, <2>11 DEF r
<1>4. QED
  BY <1>2, <1>3

(* What an insertion does to the members with an event *)
LEMMA InsertedLists ==
    ASSUME NEW line \in Seq(Items), NEW time, NEW e, NEW current,
           <<Later(time, current), e>> \in Items
    PROVE  LET r == Inserted(line, time, e, current)
           IN  /\ \A f : f # e /\ AtMostOnce(line, f) => AtMostOnce(r, f)
               /\ \A f : f # e /\ ~Listed(line, f) => ~Listed(r, f)
               /\ \A f, limit : f # e /\ Within(line, f, limit) => Within(r, f, limit)
               /\ ~Listed(line, e) => AtMostOnce(r, e)
               /\ \A limit : ~Listed(line, e) /\ Later(time, current) <= limit
                                 => Within(r, e, limit)
<1> DEFINE item == <<Later(time, current), e>>
           p == PlaceFor(line, item)
           r == Inserted(line, time, e, current)
<1>1. /\ Len(r) = Len(line) + 1 /\ p \in 1 .. Len(r)
      /\ \A j \in 1 .. Len(r) :
             r[j] = IF j < p THEN line[j] ELSE IF j = p THEN item ELSE line[j - 1]
  BY ONLY InsertedIs, line \in Seq(Items), <<Later(time, current), e>> \in Items
<1>2. Len(line) \in Nat
  BY LenProperties
<1>3. item[1] = Later(time, current) /\ item[2] = e
  OBVIOUS
<1> HIDE DEF item, p, r
<1> DEFINE At(n) == IF n < p THEN n ELSE n - 1
<1>4. \A j \in 1 .. Len(r) : j # p => At(j) \in 1 .. Len(line) /\ r[j] = line[At(j)]
  BY <1>1, <1>2
<1>5. \A i, j \in 1 .. Len(r) : i # p /\ j # p /\ At(i) = At(j) => i = j
  BY <1>1, <1>2
<1>6. r[p] = item
  BY <1>1, <1>2
<1> HIDE DEF At
<1>7. \A f : f # e /\ AtMostOnce(line, f) => AtMostOnce(r, f)
  <2>1. SUFFICES ASSUME NEW f, f # e, AtMostOnce(line, f),
                        NEW i \in 1 .. Len(r), NEW j \in 1 .. Len(r),
                        r[i][2] = f, r[j][2] = f
                 PROVE  i = j
    BY DEF AtMostOnce
  <2>2. i # p /\ j # p
    BY <1>3, <1>6, <2>1
  <2>3. At(i) = At(j)
    BY <1>4, <2>1, <2>2 DEF AtMostOnce
  <2>4. QED
    BY <1>5, <2>2, <2>3
<1>8. \A f : f # e /\ ~Listed(line, f) => ~Listed(r, f)
  BY <1>3, <1>4, <1>6 DEF Listed
<1>9. \A f, limit : f # e /\ Within(line, f, limit) => Within(r, f, limit)
  BY <1>3, <1>4, <1>6 DEF Within
<1>10. ~Listed(line, e) => \A j \in 1 .. Len(r) : r[j][2] = e => j = p
  BY <1>4 DEF Listed
<1>11. ~Listed(line, e) => AtMostOnce(r, e)
  BY <1>10 DEF AtMostOnce
<1>12. \A limit : ~Listed(line, e) /\ Later(time, current) <= limit => Within(r, e, limit)
  BY <1>3, <1>6, <1>10 DEF Within
<1>13. QED
  BY <1>7, <1>8, <1>9, <1>11, <1>12 DEF r

-------------------------------------------------------------------------------
(* The inductive invariant                                                   *)

(* The event that runs was due before its pass began, which bounds the time of the
   next tick when it is computed from the time the last one was due at. *)
RunsWhatWasDue == lineTime <= until /\ until <= now

IInv == TypeOK /\ RunsWhatWasDue /\ Sorted /\ TickIsUnique /\ TickWithinPeriod

(* What the invariant says of the list, for any list and current time *)
Good(line, current) ==
    /\ line \in Seq(Items)
    /\ InOrder(line) /\ AtMostOnce(line, Tick) /\ Within(line, Tick, current + Period)

LEMMA InvIsGood ==
    /\ IInv <=> /\ now \in 0 .. MaxTime /\ lineTime \in Times /\ until \in 0 .. MaxTime
                /\ pc \in {"out", "loop", "tick", "event"}
                /\ RunsWhatWasDue
                /\ Good(timeLine, now)
    /\ IInv' <=> /\ now' \in 0 .. MaxTime /\ lineTime' \in Times /\ until' \in 0 .. MaxTime
                 /\ pc' \in {"out", "loop", "tick", "event"}
                 /\ RunsWhatWasDue'
                 /\ Good(timeLine', now')
  BY DEF IInv, TypeOK, Sorted, TickIsUnique, TickWithinPeriod, Good, InOrder, AtMostOnce,
         Within

LEMMA GoodLater ==
    ASSUME NEW line, NEW current \in Nat, NEW later \in Nat, current <= later,
           Good(line, current)
    PROVE  Good(line, later)
<1>1. \A i \in 1 .. Len(line) : line[i] \in Items
  BY ElementOfSeq DEF Good
<1>2. \A i \in 1 .. Len(line) : line[i][1] \in Nat
  BY <1>1, ItemIs
<1>3. QED
  BY <1>2 DEF Good, Within

LEMMA EmptyIsGood ==
    ASSUME NEW current PROVE Good(<<>>, current)
  BY DEF Good, InOrder, AtMostOnce, Within

LEMMA TailIsGood ==
    ASSUME NEW line, line # <<>>, NEW current, Good(line, current)
    PROVE  /\ Head(line) \in Items
           /\ Good(Tail(line), current)
           /\ \A f : ~Listed(line, f) => ~Listed(Tail(line), f)
<1>1. /\ line \in Seq(Items) /\ Len(line) \in Nat
      /\ Head(line) \in Items
      /\ Tail(line) \in Seq(Items)
      /\ Len(Tail(line)) = Len(line) - 1
      /\ \A i \in 1 .. Len(Tail(line)) : Tail(line)[i] = line[i + 1]
  BY HeadTailProperties, LenProperties DEF Good
<1>2. InOrder(Tail(line))
  <2> SUFFICES ASSUME NEW i \in 1 .. Len(Tail(line)) - 1
               PROVE  ~Before(Tail(line)[i + 1], Tail(line)[i])
    BY DEF InOrder
  <2>1. Tail(line)[i + 1] = line[(i + 1) + 1] /\ Tail(line)[i] = line[i + 1]
    BY <1>1
  <2>2. i + 1 \in 1 .. Len(line) - 1
    BY <1>1
  <2>3. QED
    BY <2>1, <2>2 DEF Good, InOrder
<1>3. \A i \in 1 .. Len(Tail(line)) : i + 1 \in 1 .. Len(line)
  BY <1>1
<1>4. AtMostOnce(Tail(line), Tick)
  BY <1>1, <1>3 DEF Good, AtMostOnce
<1>5. Within(Tail(line), Tick, current + Period)
  BY <1>1, <1>3 DEF Good, Within
<1>6. \A f : ~Listed(line, f) => ~Listed(Tail(line), f)
  BY <1>1, <1>3 DEF Listed
<1>7. QED
  BY <1>1, <1>2, <1>4, <1>5, <1>6 DEF Good

(* Insertions of another event than the tick, or of the tick where it is not listed
   and at most a period from now *)
LEMMA InsertedIsGood ==
    ASSUME NEW line, NEW current \in 0 .. MaxTime, Good(line, current),
           NEW time \in 0 .. current + Period, NEW e \in Events,
           e = Tick => ~Listed(line, Tick)
    PROVE  /\ Good(Inserted(line, time, e, current), current)
           /\ e # Tick /\ ~Listed(line, Tick)
                  => ~Listed(Inserted(line, time, e, current), Tick)
<1> DEFINE r == Inserted(line, time, e, current)
<1>1. /\ Later(time, current) \in Times
      /\ Later(time, current) <= current + Period
  BY DEF Later, Times
<1>2. line \in Seq(Items) /\ <<Later(time, current), e>> \in Items
  BY <1>1 DEF Good, Items
<1>3. r \in Seq(Items) /\ (InOrder(line) => InOrder(r))
  BY ONLY <1>2, InsertedIs
<1>4. /\ \A f : f # e /\ AtMostOnce(line, f) => AtMostOnce(r, f)
      /\ \A f : f # e /\ ~Listed(line, f) => ~Listed(r, f)
      /\ \A f, limit : f # e /\ Within(line, f, limit) => Within(r, f, limit)
      /\ ~Listed(line, e) => AtMostOnce(r, e)
      /\ \A limit : ~Listed(line, e) /\ Later(time, current) <= limit
                        => Within(r, e, limit)
  BY ONLY <1>2, InsertedLists
<1> HIDE DEF r
<1>5. CASE e = Tick
  BY <1>1, <1>3, <1>4, <1>5 DEF Good, r
<1>6. CASE e # Tick
  BY <1>3, <1>4, <1>6 DEF Good, r
<1>7. QED
  BY <1>5, <1>6

LEMMA RescheduledIsGood ==
    ASSUME NEW line, NEW current \in 0 .. MaxTime, Good(line, current),
           NEW time \in 0 .. current + Period, NEW e \in Events
    PROVE  /\ Good(Rescheduled(line, time, e, current), current)
           /\ e # Tick /\ ~Listed(line, Tick)
                  => ~Listed(Rescheduled(line, time, e, current), Tick)
<1> DEFINE r == Removed(line, e)
<1>1. line \in Seq(Items)
  BY DEF Good
<1>2. /\ r \in Seq(Items)
      /\ InOrder(line) => InOrder(r)
      /\ AtMostOnce(line, e) => ~Listed(r, e)
      /\ \A f : AtMostOnce(line, f) => AtMostOnce(r, f)
      /\ \A f : ~Listed(line, f) => ~Listed(r, f)
      /\ \A f, limit : Within(line, f, limit) => Within(r, f, limit)
  BY ONLY <1>1, RemovedIs
<1> HIDE DEF r
<1>3. Good(r, current) /\ (e = Tick => ~Listed(r, Tick))
  BY <1>2 DEF Good
<1>4. /\ Good(Inserted(r, time, e, current), current)
      /\ e # Tick /\ ~Listed(r, Tick) => ~Listed(Inserted(r, time, e, current), Tick)
  BY <1>3, InsertedIsGood
<1>5. QED
  BY <1>2, <1>4 DEF Rescheduled, r

LEMMA InitInv == Init => IInv
<1> SUFFICES ASSUME Init PROVE IInv
  OBVIOUS
<1>1. PICK times \in [Events -> 1 .. Period] :
          timeLine \in SetToSeqs({<<times[e], e>> : e \in Events})
  BY DEF Init
<1> DEFINE S == {<<times[e], e>> : e \in Events}
           at == [e \in Events |-> <<times[e], e>>]
<1>2. Cardinality(S) \in Nat
  <2>1. at \in Surjection(Events, S)
    BY Zenon DEF Surjection
  <2>2. IsFiniteSet(S)
    BY <2>1, FS_Surjection
  <2>3. QED
    BY <2>2, FS_CardinalityType
<1>3. \A s \in S : s \in Items /\ s = <<times[s[2]], s[2]>> /\ s[1] <= Period
  BY DEF Items, Times
<1> HIDE DEF S
<1>4. /\ timeLine \in [1 .. Cardinality(S) -> S]
      /\ \A i, j \in 1 .. Cardinality(S) : i # j => timeLine[i] # timeLine[j]
  BY <1>1 DEF SetToSeqs, S
<1>5. /\ timeLine \in Seq(Items) /\ Len(timeLine) = Cardinality(S)
      /\ \A i \in 1 .. Len(timeLine) : timeLine[i] \in S
  <2>1. timeLine \in Seq(S)
    BY ONLY <1>2, <1>4, SeqDef
  <2>2. S \subseteq Items
    BY <1>3
  <2>3. Len(timeLine) = Cardinality(S)
    BY ONLY <1>2, <1>4, <2>1, LenProperties
  <2>4. QED
    BY <1>4, <2>1, <2>2, <2>3, SeqMonotonic
<1>6. \A i, j \in 1 .. Len(timeLine) : i < j => Before(timeLine[i], timeLine[j])
  BY DEF Init, IsSorted
<1>7. InOrder(timeLine)
  <2> SUFFICES ASSUME NEW i \in 1 .. Len(timeLine) - 1
               PROVE  ~Before(timeLine[i + 1], timeLine[i])
    BY DEF InOrder
  <2>1. i \in 1 .. Len(timeLine) /\ i + 1 \in 1 .. Len(timeLine) /\ i < i + 1
    BY <1>2, <1>5
  <2>2. Before(timeLine[i], timeLine[i + 1])
    BY <1>6, <2>1
  <2>3. QED
    BY <1>3, <1>5, <2>1, <2>2, BeforeIsTotalOrder
<1>8. AtMostOnce(timeLine, Tick)
  <2> SUFFICES ASSUME NEW i \in 1 .. Len(timeLine), NEW j \in 1 .. Len(timeLine),
                      timeLine[i][2] = Tick, timeLine[j][2] = Tick
               PROVE  i = j
    BY DEF AtMostOnce
  <2>1. timeLine[i] = timeLine[j]
    BY <1>3, <1>5
  <2>2. QED
    BY <1>4, <1>5, <2>1
<1>9. Within(timeLine, Tick, 0 + Period)
  BY <1>3, <1>5 DEF Within
<1>10. Good(timeLine, now)
  BY <1>5, <1>7, <1>8, <1>9 DEF Good, Init
<1>11. QED
  BY <1>10, InvIsGood DEF Init, RunsWhatWasDue, Times

(* A callback or handler leaves the list good, and does not list an unlisted tick. *)
LEMMA CallbackIsGood ==
    ASSUME IInv, Callback
    PROVE  /\ UNCHANGED <<now, lineTime, until, pc>>
           /\ Good(timeLine', now)
           /\ ~Listed(timeLine, Tick) => ~Listed(timeLine', Tick)
<1>1. Good(timeLine, now) /\ now \in 0 .. MaxTime
  BY InvIsGood
<1>2. CASE RemoveAllEvents
  BY <1>2, EmptyIsGood DEF RemoveAllEvents, Changes, Listed
<1>3. ASSUME NEW time \in (now - 1 .. now + Period) \cap Nat, NEW e \in Events,
             e # Tick,
             \/ timeLine' = Inserted(timeLine, time, e, now)
             \/ timeLine' = InsertedIfNotYet(timeLine, time, e, now)
             \/ timeLine' = Rescheduled(timeLine, time, e, now)
      PROVE  Good(timeLine', now) /\ (~Listed(timeLine, Tick) => ~Listed(timeLine', Tick))
  <2>1. time \in 0 .. now + Period
    BY <1>1, <1>3
  <2>2. /\ Good(Inserted(timeLine, time, e, now), now)
        /\ ~Listed(timeLine, Tick) => ~Listed(Inserted(timeLine, time, e, now), Tick)
    BY <1>1, <1>3, <2>1, InsertedIsGood
  <2>3. /\ Good(Rescheduled(timeLine, time, e, now), now)
        /\ ~Listed(timeLine, Tick) => ~Listed(Rescheduled(timeLine, time, e, now), Tick)
    BY <1>1, <1>3, <2>1, RescheduledIsGood
  <2>4. QED
    BY <1>1, <1>3, <2>2, <2>3, Zenon DEF InsertedIfNotYet
<1>4. ASSUME NEW time \in (now - 1 .. now + Period) \cap Nat,
             timeLine' = RescheduledIfExisted(timeLine, time, Tick, now)
      PROVE  Good(timeLine', now) /\ (~Listed(timeLine, Tick) => ~Listed(timeLine', Tick))
  <2>1. time \in 0 .. now + Period
    BY <1>1, <1>4
  <2>2. Good(Rescheduled(timeLine, time, Tick, now), now)
    BY <1>1, <2>1, RescheduledIsGood
  <2>3. QED
    BY <1>1, <1>4, <2>2, Zenon DEF RescheduledIfExisted
<1>5. UNCHANGED <<now, lineTime, until, pc>>
  BY DEF Callback, Insert, InsertUnlessListed, RescheduleUnique, TickToSoon,
         RemoveAllEvents, Changes
<1>6. CASE \E time \in (now - 1 .. now + Period) \cap Nat, e \in Events :
               Insert(time, e) \/ InsertUnlessListed(time, e) \/ RescheduleUnique(time, e)
  BY <1>3, <1>5, <1>6 DEF Insert, InsertUnlessListed, RescheduleUnique, Changes
<1>7. CASE \E time \in (now - 1 .. now + Period) \cap Nat : TickToSoon(time)
  BY <1>4, <1>5, <1>7 DEF TickToSoon, Changes
<1>8. QED
  BY <1>2, <1>5, <1>6, <1>7 DEF Callback

(* The next tick is at most a period from now, however late this one was. *)
LEMMA NextTickIs ==
    ASSUME NEW current \in Nat, lineTime \in Nat, lineTime <= current
    PROVE  NextTick(current) \in 0 .. current + Period
  BY DEF NextTick

LEMMA StepInv == IInv /\ [Next]_vars => IInv'
<1> SUFFICES ASSUME IInv, [Next]_vars PROVE IInv'
  OBVIOUS
<1>1. /\ now \in 0 .. MaxTime /\ lineTime \in Times /\ until \in 0 .. MaxTime
      /\ pc \in {"out", "loop", "tick", "event"}
      /\ RunsWhatWasDue
      /\ Good(timeLine, now)
  BY InvIsGood
<1>2. SUFFICES /\ now' \in 0 .. MaxTime /\ lineTime' \in Times /\ until' \in 0 .. MaxTime
               /\ pc' \in {"out", "loop", "tick", "event"}
               /\ RunsWhatWasDue'
               /\ Good(timeLine', now')
  BY InvIsGood
<1>3. \A t \in Time : t \in 0 .. MaxTime /\ now <= t /\ Good(timeLine, t)
  BY <1>1, GoodLater DEF Time
<1>4. CASE Poll
  BY <1>1, <1>3, <1>4 DEF Poll, RunsWhatWasDue
<1>5. CASE BeginPass
  <2>1. lineTime <= now
    BY <1>1 DEF RunsWhatWasDue, Times
  <2>2. QED
    BY <1>1, <1>5, <2>1 DEF BeginPass, RunsWhatWasDue
<1>6. CASE Execute
  <2>1. timeLine # <<>> /\ Head(timeLine)[1] <= until
    BY <1>6 DEF Execute, IsDue
  <2>2. Head(timeLine) \in Items /\ Good(Tail(timeLine), now)
    BY <1>1, <2>1, TailIsGood
  <2>3. Head(timeLine)[1] \in Times
    BY <2>2, ItemIs
  <2>4. QED
    BY <1>1, <1>6, <2>1, <2>2, <2>3 DEF Execute, RunsWhatWasDue
<1>7. CASE EndPass
  BY <1>1, <1>7 DEF EndPass, RunsWhatWasDue
<1>8. CASE ScheduleNextTick
  <2>1. now' \in 0 .. MaxTime /\ now <= now' /\ Good(timeLine, now')
    BY <1>3, <1>8 DEF ScheduleNextTick
  <2>2. NextTick(now') \in 0 .. now' + Period
    <3>1. now' \in Nat /\ lineTime \in Nat /\ lineTime <= now'
      BY <1>1, <2>1 DEF RunsWhatWasDue, Times
    <3>2. QED
      BY <3>1, NextTickIs
  <2>3. Good(Rescheduled(timeLine, NextTick(now'), Tick, now'), now')
    BY <2>1, <2>2, RescheduledIsGood
  <2>4. RunsWhatWasDue'
    BY <1>1, <1>8, <2>1 DEF ScheduleNextTick, RunsWhatWasDue, Times
  <2>5. QED
    BY <1>1, <1>8, <2>1, <2>3, <2>4 DEF ScheduleNextTick
<1>9. CASE Return
  BY <1>1, <1>9 DEF Return, RunsWhatWasDue
<1>10. CASE Callback
  BY <1>1, <1>10, CallbackIsGood DEF RunsWhatWasDue
<1>11. CASE UNCHANGED vars
  BY <1>1, <1>11 DEF vars, RunsWhatWasDue
<1>12. QED
  BY <1>4, <1>5, <1>6, <1>7, <1>8, <1>9, <1>10, <1>11 DEF Next

-------------------------------------------------------------------------------
(* The theorems                                                              *)

(* The list is sorted, and the tick is listed at most once and at most a period from
   now, whatever the callbacks, the handlers and the passes do to it. *)
THEOREM Invariant == Spec => []IInv
  BY InitInv, StepInv, PTL DEF Spec

(* Every time and event stays in range. *)
THEOREM TypeCorrect == Spec => []TypeOK
<1>1. IInv => TypeOK
  BY DEF IInv
<1>2. QED
  BY <1>1, Invariant, PTL

(* SGLIB_SORTED_LIST_ADD keeps the order on which timeLineExecuteScheduledEvents
   relies when it stops at the first event that is not due. *)
THEOREM StaysSorted == Spec => []Sorted
<1>1. IInv => Sorted
  BY DEF IInv
<1>2. QED
  BY <1>1, Invariant, PTL

(* timeLineRescheduleUniqueEvent and its variants never list the tick twice. *)
THEOREM OneTick == Spec => []TickIsUnique
<1>1. IInv => TickIsUnique
  BY DEF IInv
<1>2. QED
  BY <1>1, Invariant, PTL

(* pilotScheduleNextTick never puts the tick off by more than a period. *)
THEOREM TickIsNear == Spec => []TickWithinPeriod
<1>1. IInv => TickWithinPeriod
  BY DEF IInv
<1>2. QED
  BY <1>1, Invariant, PTL

(* A tick that timeLineRemoveAllEvents took off the list is brought back by no sensor
   measurement, only by a tick that was running. *)
THEOREM TickStaysOff == Spec => TickNotRevived
<1>1. IInv /\ [Next]_vars
          => [~Listed(timeLine, Tick) /\ pc # "tick" => ~Listed(timeLine', Tick)]_vars
  <2> SUFFICES ASSUME IInv, [Next]_vars, ~Listed(timeLine, Tick), pc # "tick"
               PROVE  ~Listed(timeLine', Tick)
    BY Zenon
  <2>1. Good(timeLine, now)
    BY InvIsGood
  <2>2. CASE timeLine' = timeLine
    BY <2>2
  <2>3. CASE Execute
    <3>1. timeLine # <<>> /\ timeLine' = Tail(timeLine)
      BY <2>3 DEF Execute, IsDue
    <3>2. QED
      BY <2>1, <3>1, TailIsGood
  <2>4. CASE Callback
    BY <2>4, CallbackIsGood
  <2>5. QED
    BY <2>2, <2>3, <2>4 DEF Next, vars, Poll, BeginPass, EndPass, ScheduleNextTick, Return
<1>2. QED
  BY <1>1, Invariant, PTL DEF Spec, TickNotRevived
================================================================================

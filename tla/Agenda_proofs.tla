----------------------------- MODULE Agenda_proofs -----------------------------
(***************************************************************************)
(* Proof that the timeline implements the agenda: what the operations on   *)
(* the sorted list do to the bag of its members, and that each step of the *)
(* timeline is a step of the agenda or none.                               *)
(***************************************************************************)
EXTENDS Timeline_proofs

USE EventAssumption, TimeAssumption DEF EventAssumption, TimeAssumption

-------------------------------------------------------------------------------
(* Bags of the members of a list                                             *)

Positions(line, item) == {i \in 1 .. Len(line) : line[i] = item}
Count(line, item) == Cardinality(Positions(line, item))

LEMMA CountIs ==
    ASSUME NEW line \in Seq(Items), NEW item
    PROVE  /\ IsFiniteSet(Positions(line, item)) /\ Count(line, item) \in Nat
           /\ item \in Range(line) <=> Count(line, item) # 0
<1>1. Len(line) \in Nat /\ DOMAIN line = 1 .. Len(line)
  BY LenProperties
<1>2. IsFiniteSet(1 .. Len(line))
  BY <1>1, FS_Interval
<1>3. IsFiniteSet(Positions(line, item))
  BY <1>2, FS_Subset DEF Positions
<1>4. Count(line, item) \in Nat /\ (Count(line, item) = 0 <=> Positions(line, item) = {})
  BY <1>3, FS_CardinalityType, FS_EmptySet DEF Count
<1>5. item \in Range(line) <=> Positions(line, item) # {}
  BY <1>1 DEF Range, Positions
<1>6. QED
  BY <1>3, <1>4, <1>5

LEMMA ToBagIs ==
    ASSUME NEW line \in Seq(Items)
    PROVE  ToBag(line) = [item \in Range(line) |-> Count(line, item)]
<1>1. DOMAIN line = 1 .. Len(line)
  BY LenProperties
<1>2. QED
  BY <1>1 DEF ToBag, Count, Positions

(* The list is another one without its k-th member. *)
Without(line, k, rest) ==
    /\ k \in 1 .. Len(line) /\ Len(line) = Len(rest) + 1
    /\ \A i \in 1 .. Len(rest) : rest[i] = IF i < k THEN line[i] ELSE line[i + 1]

LEMMA CountWithout ==
    ASSUME NEW line \in Seq(Items), NEW rest \in Seq(Items), NEW k,
           Without(line, k, rest), NEW item
    PROVE  Count(line, item) = Count(rest, item) + IF line[k] = item THEN 1 ELSE 0
<1> DEFINE P == Positions(line, item)
           Q == Positions(rest, item)
           At == [i \in Q |-> IF i < k THEN i ELSE i + 1]
<1>1. Len(line) \in Nat /\ Len(rest) \in Nat
  BY LenProperties
<1>2. /\ k \in 1 .. Len(line) /\ Len(line) = Len(rest) + 1
      /\ \A i \in 1 .. Len(rest) : rest[i] = IF i < k THEN line[i] ELSE line[i + 1]
  BY DEF Without
<1>3. At \in [Q -> P \ {k}]
  BY <1>1, <1>2 DEF Positions
<1>4. \A i, j \in Q : At[i] = At[j] => i = j
  BY <1>1, <1>2 DEF Positions
<1>5. ASSUME NEW j \in P \ {k} PROVE \E i \in Q : At[i] = j
  <2>1. j \in 1 .. Len(line) /\ line[j] = item /\ j # k
    BY <1>5 DEF Positions
  <2>2. CASE j < k
    <3>1. j \in Q
      BY <1>1, <1>2, <2>1, <2>2 DEF Positions
    <3>2. QED
      BY <2>2, <3>1
  <2>3. CASE k < j
    <3>1. j - 1 \in 1 .. Len(rest) /\ ~(j - 1 < k) /\ (j - 1) + 1 = j
      BY <1>1, <1>2, <2>1, <2>3
    <3>2. j - 1 \in Q
      BY <1>2, <2>1, <3>1 DEF Positions
    <3>3. QED
      BY <3>1, <3>2
  <2>4. QED
    BY <1>1, <1>2, <2>1, <2>2, <2>3
<1>6. IsFiniteSet(P) /\ IsFiniteSet(Q)
  BY CountIs
<1> HIDE DEF P, Q, At
<1>7. At \in Bijection(Q, P \ {k})
  BY <1>3, <1>4, <1>5 DEF Bijection, Injection, IsInjective, Surjection
<1>8. Cardinality(P \ {k}) = Cardinality(Q)
  BY <1>6, <1>7, FS_Bijection DEF ExistsBijection
<1>9. Cardinality(P) \in Nat /\ Cardinality(Q) \in Nat
  BY <1>6, FS_CardinalityType
<1>10. CASE line[k] = item
  <2>1. k \in P
    BY <1>2, <1>10 DEF P, Positions
  <2>2. Cardinality(P \ {k}) = Cardinality(P) - 1
    BY <1>6, <2>1, FS_RemoveElement
  <2>3. QED
    BY <1>8, <1>9, <1>10, <2>2 DEF Count, P, Q
<1>11. CASE line[k] # item
  <2>1. P \ {k} = P
    BY <1>11 DEF P, Positions
  <2>2. Cardinality(P) = Cardinality(Q)
    BY <1>8, <2>1, Zenon
  <2>3. QED
    BY <1>9, <1>11, <2>2 DEF Count, P, Q
<1>12. QED
  BY <1>10, <1>11

(* One member more or less in the list is one more or less in the bag. *)
LEMMA BagWithout ==
    ASSUME NEW line \in Seq(Items), NEW rest \in Seq(Items), NEW k,
           Without(line, k, rest)
    PROVE  /\ line[k] \in DOMAIN ToBag(line)
           /\ ToBag(rest) = A!BagRemove(ToBag(line), line[k])
           /\ ToBag(line) = A!BagAdd(ToBag(rest), line[k])
<1> DEFINE x == line[k]
<1>1. /\ ToBag(line) = [item \in Range(line) |-> Count(line, item)]
      /\ ToBag(rest) = [item \in Range(rest) |-> Count(rest, item)]
  BY ToBagIs
<1>2. \A item : Count(line, item) = Count(rest, item) + IF x = item THEN 1 ELSE 0
  BY CountWithout
<1>3. \A item : /\ Count(line, item) \in Nat /\ Count(rest, item) \in Nat
                /\ item \in Range(line) <=> Count(line, item) # 0
                /\ item \in Range(rest) <=> Count(rest, item) # 0
  BY CountIs
<1> HIDE DEF x
<1>4. x \in Range(line) /\ Count(line, x) = Count(rest, x) + 1
  BY <1>2, <1>3
<1>5. \A item : item # x => /\ Count(line, item) = Count(rest, item)
                            /\ item \in Range(line) <=> item \in Range(rest)
  BY <1>2, <1>3
<1>6. ToBag(rest) = A!BagRemove(ToBag(line), x)
  <2>1. CASE Count(line, x) = 1
    <3>1. Range(rest) = Range(line) \ {x}
      BY <1>3, <1>4, <1>5, <2>1
    <3>2. A!BagRemove(ToBag(line), x) = [item \in Range(line) \ {x} |-> ToBag(line)[item]]
      BY <1>1, <1>4, <2>1 DEF A!BagRemove
    <3>3. \A item \in Range(rest) : ToBag(line)[item] = Count(rest, item)
      BY <1>1, <1>5, <3>1
    <3>4. QED
      BY <1>1, <3>1, <3>2, <3>3
  <2>2. CASE Count(line, x) # 1
    <3>1. Range(rest) = Range(line)
      <4>1. x \in Range(rest)
        BY <1>3, <1>4, <2>2
      <4>2. \A item : item \in Range(rest) <=> item \in Range(line)
        BY <1>4, <1>5, <4>1, Zenon
      <4>3. QED
        BY <4>2, Zenon
    <3>2. A!BagRemove(ToBag(line), x)
              = [item \in Range(line) |->
                     IF item = x THEN ToBag(line)[item] - 1 ELSE ToBag(line)[item]]
      BY <1>1, <1>4, <2>2 DEF A!BagRemove
    <3>3. \A item \in Range(rest) :
              Count(rest, item)
                  = IF item = x THEN ToBag(line)[item] - 1 ELSE ToBag(line)[item]
      BY <1>1, <1>3, <1>4, <1>5, <3>1
    <3>4. QED
      BY <1>1, <3>1, <3>2, <3>3
  <2>3. QED
    BY <2>1, <2>2
<1>7. ToBag(line) = A!BagAdd(ToBag(rest), x)
  <2>1. CASE x \in Range(rest)
    <3>1. Range(rest) = Range(line)
      <4>1. \A item : item \in Range(rest) <=> item \in Range(line)
        BY <1>4, <1>5, <2>1, Zenon
      <4>2. QED
        BY <4>1, Zenon
    <3>2. A!BagAdd(ToBag(rest), x)
              = [item \in Range(rest) |->
                     IF item = x THEN ToBag(rest)[item] + 1 ELSE ToBag(rest)[item]]
      BY <1>1, <2>1 DEF A!BagAdd
    <3>3. \A item \in Range(line) :
              Count(line, item)
                  = IF item = x THEN ToBag(rest)[item] + 1 ELSE ToBag(rest)[item]
      BY <1>1, <1>4, <1>5, <3>1
    <3>4. QED
      BY <1>1, <3>1, <3>2, <3>3
  <2>2. CASE x \notin Range(rest)
    <3>1. Range(line) = Range(rest) \cup {x}
      BY <1>4, <1>5
    <3>2. A!BagAdd(ToBag(rest), x)
              = [item \in Range(rest) \cup {x} |->
                     IF item = x THEN 1 ELSE ToBag(rest)[item]]
      BY <1>1, <2>2 DEF A!BagAdd
    <3>3. \A item \in Range(line) :
              Count(line, item) = IF item = x THEN 1 ELSE ToBag(rest)[item]
      BY <1>1, <1>3, <1>4, <1>5, <2>2, <3>1
    <3>4. QED
      BY <1>1, <3>1, <3>2, <3>3
  <2>3. QED
    BY <2>1, <2>2
<1>8. QED
  BY <1>1, <1>4, <1>6, <1>7 DEF x

LEMMA DueByRemoves ==
    ASSUME NEW bag, NEW x, NEW time
    PROVE  DueBy(A!BagRemove(bag, x), time) = A!BagRemove(DueBy(bag, time), x)
<1> DEFINE D == {i \in DOMAIN bag : i[1] <= time}
           due == DueBy(bag, time)
<1>1. DOMAIN due = D /\ \A item \in D : due[item] = bag[item]
  BY DEF DueBy
<1>2. CASE x \notin DOMAIN bag
  BY <1>1, <1>2 DEF A!BagRemove
<1>3. CASE x \in DOMAIN bag /\ bag[x] = 1
  <2> DEFINE less == A!BagRemove(bag, x)
  <2>1. less = [item \in DOMAIN bag \ {x} |-> bag[item]]
    BY <1>3 DEF A!BagRemove
  <2>2. DueBy(less, time) = [item \in D \ {x} |-> bag[item]]
    BY <2>1 DEF DueBy
  <2>3. A!BagRemove(due, x) = [item \in D \ {x} |-> bag[item]]
    BY <1>1, <1>3 DEF A!BagRemove, DueBy
  <2>4. QED
    BY <2>2, <2>3
<1>4. CASE x \in DOMAIN bag /\ bag[x] # 1
  <2> DEFINE less == A!BagRemove(bag, x)
  <2>1. less = [item \in DOMAIN bag |-> IF item = x THEN bag[item] - 1 ELSE bag[item]]
    BY <1>4 DEF A!BagRemove
  <2>2. DueBy(less, time) = [item \in D |-> IF item = x THEN bag[item] - 1 ELSE bag[item]]
    BY <2>1 DEF DueBy
  <2>3. A!BagRemove(due, x) = [item \in D |-> IF item = x THEN bag[item] - 1 ELSE bag[item]]
    BY <1>1, <1>4 DEF A!BagRemove, DueBy
  <2>4. QED
    BY <2>2, <2>3
<1>5. QED
  BY <1>2, <1>3, <1>4

LEMMA DueByIgnores ==
    ASSUME NEW bag, NEW x, NEW time, ~(x[1] <= time)
    PROVE  DueBy(A!BagAdd(bag, x), time) = DueBy(bag, time)
  BY DEF DueBy, A!BagAdd

-------------------------------------------------------------------------------
(* The operations on the list and its bag                                    *)

(* What a member is followed by is due no earlier. *)
LEMMA LaterMembers ==
    ASSUME NEW line \in Seq(Items), InOrder(line),
           NEW i \in 1 .. Len(line), NEW j \in i .. Len(line)
    PROVE  line[i][1] <= line[j][1]
<1> DEFINE S == {n \in i .. Len(line) : Before(line[n], line[i])}
<1>1. Len(line) \in Nat /\ \A n \in 1 .. Len(line) : line[n] \in Items
  BY LenProperties, ElementOfSeq
<1>2. S = {}
  <2> SUFFICES ASSUME S # {} PROVE FALSE
    OBVIOUS
  <2>1. S \in SUBSET Nat
    OBVIOUS
  <2>2. PICK n \in S : \A m \in S : n <= m
    <3> HIDE DEF S
    <3>1. QED
      BY <2>1, LeastExists
  <2>3. n \in i .. Len(line) /\ Before(line[n], line[i])
    BY <2>2
  <2>4. line[i] \in Items /\ line[n] \in Items /\ ~Before(line[i], line[i])
    BY <1>1, <2>3, BeforeIsTotalOrder
  <2>5. n # i
    BY <2>3, <2>4
  <2>6. n - 1 \in i .. Len(line) /\ n - 1 \in 1 .. Len(line) - 1 /\ (n - 1) + 1 = n
    BY <1>1, <2>3, <2>5
  <2>7. ~Before(line[n], line[n - 1])
    BY <2>6 DEF InOrder
  <2>8. ~Before(line[n - 1], line[i])
    BY <2>2, <2>6
  <2>9. line[n - 1] \in Items
    BY <1>1, <2>6
  <2>10. QED
    BY <2>3, <2>4, <2>7, <2>8, <2>9, BeforeIsTotalOrder
<1>3. ~Before(line[j], line[i]) /\ line[i] \in Items /\ line[j] \in Items
  BY <1>1, <1>2
<1>4. QED
  BY <1>3, ItemIs DEF Before

LEMMA TailWithout ==
    ASSUME NEW line \in Seq(Items), line # <<>>
    PROVE  Head(line) = line[1] /\ Tail(line) \in Seq(Items) /\ Without(line, 1, Tail(line))
<1>1. /\ Len(line) \in Nat /\ Len(line) # 0
      /\ Head(line) = line[1] /\ Tail(line) \in Seq(Items)
      /\ Len(Tail(line)) = Len(line) - 1
      /\ \A i \in 1 .. Len(Tail(line)) : Tail(line)[i] = line[i + 1]
  BY HeadTailProperties, LenProperties, EmptySeq
<1>2. QED
  BY <1>1 DEF Without

(* An insertion adds an entry for a time to come. *)
LEMMA Inserting ==
    ASSUME NEW line \in Seq(Items), NEW time \in Nat, NEW e, NEW current \in Nat,
           <<Later(time, current), e>> \in Items
    PROVE  LET new == <<Later(time, current), e>>
               r == Inserted(line, time, e, current)
           IN  /\ new \in DOMAIN ToBag(r)
               /\ ToBag(r) = A!BagAdd(ToBag(line), new)
               /\ new[1] > current /\ new[2] = e
<1> DEFINE new == <<Later(time, current), e>>
           p == PlaceFor(line, new)
           r == Inserted(line, time, e, current)
<1>1. /\ r \in Seq(Items) /\ Len(r) = Len(line) + 1 /\ p \in 1 .. Len(r)
      /\ \A j \in 1 .. Len(r) :
             r[j] = IF j < p THEN line[j] ELSE IF j = p THEN new ELSE line[j - 1]
  BY ONLY InsertedIs, line \in Seq(Items), <<Later(time, current), e>> \in Items
<1>2. new[1] > current /\ new[2] = e
  BY DEF Later
<1> HIDE DEF new, p, r
<1>3. Len(line) \in Nat
  BY LenProperties
<1>4. r[p] = new
  BY <1>1, <1>3
<1>5. \A j \in 1 .. Len(line) : line[j] = IF j < p THEN r[j] ELSE r[j + 1]
  <2>1. TAKE j \in 1 .. Len(line)
  <2>2. j \in 1 .. Len(r) /\ j + 1 \in 1 .. Len(r) /\ (j + 1) - 1 = j
    BY <1>1, <1>3
  <2>3. CASE j < p
    BY <1>1, <2>2, <2>3
  <2>4. CASE ~(j < p)
    <3>1. ~(j + 1 < p) /\ j + 1 # p
      BY <1>1, <1>3, <2>4
    <3>2. r[j + 1] = line[(j + 1) - 1]
      BY <1>1, <2>2, <3>1
    <3>3. QED
      BY <2>2, <2>4, <3>2
  <2>5. QED
    BY <2>3, <2>4
<1>6. Without(r, p, line)
  BY <1>1, <1>5 DEF Without
<1>7. new \in DOMAIN ToBag(r) /\ ToBag(r) = A!BagAdd(ToBag(line), new)
  BY <1>1, <1>4, <1>6, BagWithout
<1>8. QED
  BY <1>2, <1>7 DEF new, r

(* A removal takes off the earliest entry of the event. *)
LEMMA Removing ==
    ASSUME NEW line \in Seq(Items), InOrder(line), NEW e, Listed(line, e)
    PROVE  \E old \in A!Earliest({item \in DOMAIN ToBag(line) : item[2] = e}) :
               ToBag(Removed(line, e)) = A!BagRemove(ToBag(line), old)
<1> DEFINE S == {i \in 1 .. Len(line) : line[i][2] = e}
           k == Min(S)
           r == Removed(line, e)
<1>1. Len(line) \in Nat /\ DOMAIN line = 1 .. Len(line)
  BY LenProperties
<1>2. r = RemoveAt(line, k)
  BY DEF Listed, Removed, RemoveFirstMatch, SelectInSeq
<1>3. S # {} /\ S \in SUBSET Nat
  BY <1>1 DEF Listed
<1>4. k \in S /\ \A i \in S : k <= i
  <2> HIDE DEF S
  <2>1. QED
    BY <1>3, LeastExists DEF Min
<1>5. /\ k \in 1 .. Len(line) /\ line[k][2] = e
      /\ \A i \in 1 .. Len(line) : line[i][2] = e => k <= i
  BY <1>4
<1> HIDE DEF S, k, r
<1>6. r \in Seq(Items) /\ Without(line, k, r)
  <2>1. /\ r \in Seq(Items) /\ Len(r) = Len(line) - 1
        /\ \A j \in 1 .. Len(r) : r[j] = IF j < k THEN line[j] ELSE line[j + 1]
    BY <1>2, <1>5, RemoveAtIs
  <2>2. QED
    BY <1>1, <1>5, <2>1 DEF Without
<1>7. line[k] \in DOMAIN ToBag(line) /\ ToBag(r) = A!BagRemove(ToBag(line), line[k])
  BY <1>6, BagWithout
<1>8. ASSUME NEW other \in DOMAIN ToBag(line), other[2] = e PROVE line[k][1] <= other[1]
  <2>1. PICK i \in 1 .. Len(line) : line[i] = other
    BY <1>1, <1>8 DEF ToBag, Range
  <2>2. i \in k .. Len(line)
    BY <1>1, <1>5, <1>8, <2>1
  <2>3. QED
    BY <1>5, <2>1, <2>2, LaterMembers
<1>9. line[k] \in A!Earliest({item \in DOMAIN ToBag(line) : item[2] = e})
  BY <1>5, <1>7, <1>8 DEF A!Earliest
<1>10. QED
  BY <1>7, <1>9 DEF r

-------------------------------------------------------------------------------
(* The steps                                                                 *)

LEMMA LaterIs ==
    ASSUME NEW time \in Nat, NEW current \in 0 .. MaxTime, time <= current + Period
    PROVE  Later(time, current) \in Times
  BY DEF Later, Times

(* A member that is put on the list, moved or not, at a time that may be later than
   the one known before *)
LEMMA Rescheduling ==
    ASSUME IInv, NEW e \in Events, NEW time \in Nat,
           now' \in 0 .. MaxTime, now <= now', time <= now' + Period,
           \/ timeLine' = Inserted(timeLine, time, e, now')
           \/ timeLine' = Rescheduled(timeLine, time, e, now'),
           until' = until, pc = "out" <=> pc' = "out", InCallback' = InCallback
    PROVE  A!Reschedule(e)
<1> DEFINE new == <<Later(time, now'), e>>
<1>1. /\ Good(timeLine, now) /\ until \in Nat /\ now \in Nat /\ now' \in Nat
      /\ until <= now'
  BY InvIsGood DEF RunsWhatWasDue
<1>2. timeLine \in Seq(Items) /\ InOrder(timeLine)
  BY <1>1 DEF Good
<1>3. new \in Items
  <2>1. Later(time, now') \in Times
    BY LaterIs
  <2>2. QED
    BY <2>1 DEF Items
<1>4. ASSUME NEW line \in Seq(Items), timeLine' = Inserted(line, time, e, now')
      PROVE  /\ new \in DOMAIN Entries' /\ new[1] > now' /\ new[2] = e
             /\ Entries' = A!BagAdd(ToBag(line), new)
             /\ DueEntries' = IF pc = "out" THEN EmptyBag ELSE DueBy(ToBag(line), until)
  <2>1. /\ new \in DOMAIN Entries' /\ new[1] > now' /\ new[2] = e
        /\ Entries' = A!BagAdd(ToBag(line), new)
    BY <1>1, <1>3, <1>4, Inserting DEF Entries
  <2>2. ~(new[1] <= until)
    <3> HIDE DEF new
    <3>1. new[1] \in Nat
      BY <1>3, ItemIs
    <3>2. QED
      BY <1>1, <2>1, <3>1
  <2>3. DueBy(Entries', until) = DueBy(ToBag(line), until)
    BY <2>1, <2>2, DueByIgnores
  <2>4. DueEntries' = IF pc' = "out" THEN EmptyBag ELSE DueBy(Entries', until')
    BY DEF DueEntries
  <2>5. QED
    BY <2>1, <2>3, <2>4, Zenon
<1> HIDE DEF new
<1>5. CASE timeLine' = Inserted(timeLine, time, e, now')
  <2>1. /\ new \in DOMAIN Entries' /\ new[1] > now' /\ new[2] = e
        /\ Entries' = A!BagAdd(Entries, new)
        /\ DueEntries' = DueEntries
    BY <1>2, <1>4, <1>5, Zenon DEF Entries, DueEntries
  <2>2. now' >= now
    BY <1>1
  <2>3. \E n \in DOMAIN Entries' :
            /\ n[2] = e /\ n[1] > now' /\ Entries' = A!BagAdd(Entries, n)
            /\ DueEntries' = DueEntries
    BY <2>1, Zenon
  <2>4. QED
    BY <2>2, <2>3 DEF A!Reschedule
<1>6. CASE timeLine' = Rescheduled(timeLine, time, e, now') /\ Listed(timeLine, e)
  <2> DEFINE less == Removed(timeLine, e)
  <2>1. less \in Seq(Items)
    BY ONLY <1>2, RemovedIs
  <2>2. PICK old \in A!Earliest({item \in DOMAIN Entries : item[2] = e}) :
            ToBag(less) = A!BagRemove(Entries, old)
    BY <1>2, <1>6, Removing DEF Entries
  <2>3. /\ new \in DOMAIN Entries' /\ new[1] > now' /\ new[2] = e
        /\ Entries' = A!BagAdd(ToBag(less), new)
        /\ DueEntries' = IF pc = "out" THEN EmptyBag ELSE DueBy(ToBag(less), until)
    BY <1>4, <1>6, <2>1, Zenon DEF Rescheduled
  <2>4. DueEntries' = A!BagRemove(DueEntries, old)
    <3>1. A!BagRemove(EmptyBag, old) = EmptyBag
      BY DEF A!BagRemove, EmptyBag, SetToBag
    <3>2. DueBy(ToBag(less), until) = A!BagRemove(DueBy(Entries, until), old)
      BY <2>2, DueByRemoves
    <3>3. QED
      BY <2>3, <3>1, <3>2, Zenon DEF DueEntries
  <2>5. Entries' = A!BagAdd(A!BagRemove(Entries, old), new)
    BY <2>2, <2>3, Zenon
  <2>6. now' >= now
    BY <1>1
  <2>7. QED
    BY <2>2, <2>3, <2>4, <2>5, <2>6, Zenon DEF A!Reschedule
<1>7. CASE timeLine' = Rescheduled(timeLine, time, e, now') /\ ~Listed(timeLine, e)
  <2>1. Removed(timeLine, e) = timeLine
    BY <1>7 DEF Listed, Removed, RemoveFirstMatch
  <2>2. QED
    BY <1>5, <1>7, <2>1, Zenon DEF Rescheduled
<1>8. QED
  BY <1>5, <1>6, <1>7

LEMMA NothingIs == A!Nothing = EmptyBag
  BY DEF A!Nothing, EmptyBag, SetToBag

(* The bag of an empty list *)
LEMMA NoEntries == ToBag(<<>>) = EmptyBag /\ \A time : DueBy(ToBag(<<>>), time) = EmptyBag
<1>1. ToBag(<<>>) = EmptyBag
  BY DEF ToBag, Range, EmptyBag, SetToBag
<1>2. QED
  BY <1>1 DEF DueBy, EmptyBag, SetToBag

(* The head of the list is the earliest of the entries that are due, and when it is
   not due nothing is. *)
LEMMA HeadIsEarliest ==
    ASSUME IInv
    PROVE  /\ IsDue => /\ Head(timeLine) \in A!Earliest(DOMAIN DueBy(Entries, until))
                       /\ Tail(timeLine) \in Seq(Items)
                       /\ ToBag(Tail(timeLine)) = A!BagRemove(Entries, Head(timeLine))
           /\ ~IsDue => DueBy(Entries, until) = EmptyBag
<1>1. timeLine \in Seq(Items) /\ InOrder(timeLine) /\ until \in Nat
  BY InvIsGood DEF Good
<1>2. Len(timeLine) \in Nat /\ DOMAIN timeLine = 1 .. Len(timeLine)
  BY <1>1, LenProperties
<1>3. DOMAIN Entries = Range(timeLine)
  BY DEF Entries, ToBag
<1>4. ASSUME timeLine # <<>>, NEW other \in DOMAIN Entries
      PROVE  Head(timeLine)[1] <= other[1]
  <2>1. PICK i \in 1 .. Len(timeLine) : timeLine[i] = other
    BY <1>2, <1>3, <1>4 DEF Range
  <2>2. 1 \in 1 .. Len(timeLine) /\ i \in 1 .. Len(timeLine)
    BY <1>2, <2>1
  <2>3. timeLine[1][1] <= timeLine[i][1]
    BY <1>1, <2>2, LaterMembers
  <2>4. Head(timeLine) = timeLine[1]
    BY <1>1, <1>4, TailWithout
  <2>5. QED
    BY <2>1, <2>3, <2>4
<1>5. CASE IsDue
  <2>1. timeLine # <<>> /\ Head(timeLine)[1] <= until
    BY <1>5 DEF IsDue
  <2>2. /\ Head(timeLine) = timeLine[1] /\ Tail(timeLine) \in Seq(Items)
        /\ Without(timeLine, 1, Tail(timeLine))
    BY <1>1, <2>1, TailWithout
  <2>3. /\ Head(timeLine) \in DOMAIN Entries
        /\ ToBag(Tail(timeLine)) = A!BagRemove(Entries, Head(timeLine))
    <3> DEFINE rest == Tail(timeLine)
    <3>1. rest \in Seq(Items) /\ Without(timeLine, 1, rest)
      BY <2>2
    <3> HIDE DEF rest
    <3>2. /\ timeLine[1] \in DOMAIN ToBag(timeLine)
          /\ ToBag(rest) = A!BagRemove(ToBag(timeLine), timeLine[1])
      BY <1>1, <3>1, BagWithout
    <3>3. QED
      BY <2>2, <3>2, Zenon DEF Entries, rest
  <2>4. Head(timeLine) \in A!Earliest(DOMAIN DueBy(Entries, until))
    <3>1. DOMAIN DueBy(Entries, until) = {i \in DOMAIN Entries : i[1] <= until}
      BY DEF DueBy
    <3>2. Head(timeLine) \in DOMAIN DueBy(Entries, until)
      BY <2>1, <2>3, <3>1
    <3>3. \A other \in DOMAIN DueBy(Entries, until) : Head(timeLine)[1] <= other[1]
      BY <1>4, <2>1, <3>1
    <3>4. QED
      BY <3>2, <3>3 DEF A!Earliest
  <2>5. QED
    BY <1>5, <2>2, <2>3, <2>4
<1>6. CASE ~IsDue
  <2>1. CASE timeLine = <<>>
    BY <1>6, <2>1, NoEntries DEF Entries
  <2>2. CASE timeLine # <<>>
    <3>1. ~(Head(timeLine)[1] <= until)
      BY <1>6, <2>2 DEF IsDue
    <3>2. Head(timeLine)[1] \in Nat
      <4>1. Head(timeLine) \in Items
        BY <1>1, <2>2, HeadTailProperties
      <4>2. QED
        BY <4>1, ItemIs
    <3>3. \A other \in DOMAIN Entries : other[1] \in Nat
      <4>1. \A i \in 1 .. Len(timeLine) : timeLine[i] \in Items
        BY <1>1, ElementOfSeq
      <4>2. QED
        BY <1>2, <1>3, <4>1, ItemIs DEF Range
    <3>4. \A other \in DOMAIN Entries : ~(other[1] <= until)
      BY <1>1, <1>4, <2>2, <3>1, <3>2, <3>3
    <3>5. QED
      BY <1>6, <3>4 DEF DueBy, EmptyBag, SetToBag
  <2>3. QED
    BY <2>1, <2>2
<1>7. QED
  BY <1>5, <1>6

(* Each step of the timeline is a step of the agenda, or none. *)
LEMMA StepsOfAgenda ==
    IInv /\ [Next]_vars => [A!Next]_<<now, Entries, DueEntries, InCallback>>
<1> SUFFICES ASSUME IInv, [Next]_vars
             PROVE  A!Next \/ UNCHANGED <<now, Entries, DueEntries, InCallback>>
  OBVIOUS
<1>1. /\ Good(timeLine, now) /\ timeLine \in Seq(Items)
      /\ now \in 0 .. MaxTime /\ until \in 0 .. MaxTime /\ lineTime \in Times
      /\ lineTime <= until /\ until <= now
  BY InvIsGood DEF Good, RunsWhatWasDue
<1>2. timeLine' = timeLine => Entries' = Entries
  BY DEF Entries
<1>3. CASE Poll
  <2>1. /\ now' >= now /\ Entries' = Entries /\ pc' = "out" /\ DueEntries' = EmptyBag
        /\ InCallback' = FALSE
    BY <1>1, <1>2, <1>3 DEF Poll, Time, DueEntries, InCallback
  <2>2. CASE pc = "out"
    <3>1. DueEntries = EmptyBag /\ InCallback = FALSE
      BY <2>2 DEF DueEntries, InCallback
    <3>2. QED
      BY <2>1, <3>1 DEF A!Next, A!TimePasses
  <2>3. CASE pc = "event"
    <3>1. InCallback
      BY <2>3 DEF InCallback
    <3>2. QED
      BY <2>1, <3>1, NothingIs DEF A!Next, A!Abandon
  <2>4. QED
    BY <1>3, <2>2, <2>3 DEF Poll
<1>4. CASE BeginPass
  <2>1. /\ DueEntries = EmptyBag /\ ~InCallback /\ InCallback' = FALSE
        /\ now' = now /\ Entries' = Entries
    BY <1>2, <1>4 DEF BeginPass, DueEntries, InCallback
  <2>2. InCallback = FALSE
    BY <1>4 DEF BeginPass, InCallback
  <2>3. DueEntries' = DueBy(Entries, now)
    <3>1. pc' # "out" /\ until' = now
      BY <1>4 DEF BeginPass
    <3>2. DueEntries' = DueBy(Entries', until')
      BY <3>1, Zenon DEF DueEntries
    <3>3. QED
      BY <2>1, <3>1, <3>2, Zenon
  <2>4. DueEntries' = A!Due(now)
    BY <2>3 DEF DueBy, A!Due
  <2>5. QED
    BY <2>1, <2>2, <2>4, NothingIs DEF A!Next, A!BeginPass
<1>5. CASE Execute
  <2>1. /\ IsDue /\ timeLine' = Tail(timeLine) /\ now' = now /\ until' = until
        /\ pc = "loop" /\ pc' \in {"tick", "event"}
    BY <1>5 DEF Execute
  <2>2. InCallback' = TRUE /\ InCallback = FALSE /\ DueEntries = DueBy(Entries, until)
    BY <2>1 DEF InCallback, DueEntries
  <2>3. /\ Head(timeLine) \in A!Earliest(DOMAIN DueEntries)
        /\ Entries' = A!BagRemove(Entries, Head(timeLine))
    BY <2>1, <2>2, HeadIsEarliest DEF Entries
  <2>4. DueEntries' = A!BagRemove(DueEntries, Head(timeLine))
    <3>1. DueEntries' = DueBy(Entries', until)
      <4>1. pc' # "out"
        BY <2>1
      <4>2. DueEntries' = DueBy(Entries', until')
        BY <4>1, Zenon DEF DueEntries
      <4>3. QED
        BY <2>1, <4>2, Zenon
    <3>2. QED
      BY <2>2, <2>3, <3>1, DueByRemoves
  <2>5. QED
    BY <2>1, <2>2, <2>3, <2>4 DEF A!Next, A!Run
<1>6. CASE EndPass
  <2>1. /\ pc = "loop" /\ ~IsDue /\ pc' = "out" /\ now' = now /\ Entries' = Entries
    BY <1>2, <1>6 DEF EndPass
  <2>2. DueEntries = EmptyBag /\ DueEntries' = EmptyBag
    BY <2>1, HeadIsEarliest DEF DueEntries
  <2>3. InCallback = FALSE /\ InCallback' = FALSE
    BY <2>1 DEF InCallback
  <2>4. QED
    BY <2>1, <2>2, <2>3
<1>7. CASE ScheduleNextTick
  <2>1. /\ now' \in 0 .. MaxTime /\ now <= now' /\ until' = until
        /\ timeLine' = Rescheduled(timeLine, NextTick(now'), Tick, now')
        /\ pc = "tick" /\ pc' = "event"
    BY <1>1, <1>7 DEF ScheduleNextTick, Time
  <2>2. NextTick(now') \in Nat /\ NextTick(now') <= now' + Period
    <3>1. now' \in Nat /\ lineTime \in Nat /\ lineTime <= now'
      BY <1>1, <2>1 DEF Times
    <3>2. NextTick(now') \in 0 .. now' + Period
      BY <3>1, NextTickIs
    <3>3. QED
      BY <3>1, <3>2
  <2>3. InCallback' = InCallback /\ (pc = "out" <=> pc' = "out")
    BY <2>1 DEF InCallback
  <2>4. A!Reschedule(Tick)
    BY <2>1, <2>2, <2>3, Rescheduling
  <2>5. QED
    BY <2>4 DEF A!Next
<1>8. CASE Return
  <2>1. InCallback = TRUE /\ InCallback' = FALSE /\ now' = now /\ Entries' = Entries
    BY <1>2, <1>8 DEF Return, InCallback
  <2>2. pc # "out" /\ pc' # "out" /\ until' = until
    BY <1>8 DEF Return
  <2>3. DueEntries' = DueEntries
    BY <2>1, <2>2, Zenon DEF DueEntries
  <2>4. QED
    BY <2>1, <2>3 DEF A!Next, A!Return
<1>9. CASE Callback
  <2>1. UNCHANGED <<now, lineTime, until, pc>>
    BY <1>9, CallbackIsGood
  <2>2. InCallback' = InCallback /\ (pc = "out" <=> pc' = "out")
    BY <2>1, Zenon DEF InCallback
  <2>3. ASSUME NEW e \in Events, NEW time \in (now - 1 .. now + Period) \cap Nat,
               \/ timeLine' = Inserted(timeLine, time, e, now)
               \/ timeLine' = Rescheduled(timeLine, time, e, now)
        PROVE  A!Next
    <3>1. /\ time \in Nat /\ now' \in 0 .. MaxTime /\ now <= now' /\ time <= now' + Period
          /\ until' = until
      BY <1>1, <2>1, <2>3
    <3>2. \/ timeLine' = Inserted(timeLine, time, e, now')
          \/ timeLine' = Rescheduled(timeLine, time, e, now')
      BY <2>1, <2>3, Zenon
    <3>3. A!Reschedule(e)
      BY <2>2, <3>1, <3>2, Rescheduling
    <3>4. QED
      BY <3>3 DEF A!Next
  <2>4. ASSUME timeLine' = timeLine
        PROVE  UNCHANGED <<now, Entries, DueEntries, InCallback>>
    BY <1>2, <2>1, <2>2, <2>4, Zenon DEF DueEntries
  <2>5. CASE RemoveAllEvents
    <3>1. timeLine' = <<>>
      BY <2>5 DEF RemoveAllEvents, Changes
    <3>2. Entries' = ToBag(<<>>)
      BY <3>1, Zenon DEF Entries
    <3>3. Entries' = EmptyBag /\ DueEntries' = EmptyBag
      BY <3>2, NoEntries, Zenon DEF DueEntries
    <3>4. QED
      BY <2>1, <2>2, <3>3, NothingIs DEF A!Next, A!Clear
  <2>6. ASSUME NEW time \in (now - 1 .. now + Period) \cap Nat, NEW e \in Events,
               Insert(time, e) \/ InsertUnlessListed(time, e) \/ RescheduleUnique(time, e)
        PROVE  A!Next \/ UNCHANGED <<now, Entries, DueEntries, InCallback>>
    <3>1. \/ timeLine' = Inserted(timeLine, time, e, now)
          \/ timeLine' = Rescheduled(timeLine, time, e, now)
          \/ timeLine' = timeLine
      BY <2>6, Zenon DEF Insert, InsertUnlessListed, RescheduleUnique, Changes,
                         InsertedIfNotYet
    <3>2. QED
      BY <2>3, <2>4, <3>1
  <2>7. ASSUME NEW time \in (now - 1 .. now + Period) \cap Nat, TickToSoon(time)
        PROVE  A!Next \/ UNCHANGED <<now, Entries, DueEntries, InCallback>>
    <3>1. \/ timeLine' = Rescheduled(timeLine, time, Tick, now)
          \/ timeLine' = timeLine
      BY <2>7, Zenon DEF TickToSoon, Changes, RescheduledIfExisted
    <3>2. QED
      BY <2>3, <2>4, <3>1
  <2>8. QED
    BY <1>9, <2>5, <2>6, <2>7 DEF Callback
<1>10. CASE UNCHANGED vars
  BY <1>10 DEF vars, Entries, DueEntries, InCallback
<1>11. QED
  BY <1>3, <1>4, <1>5, <1>6, <1>7, <1>8, <1>9, <1>10 DEF Next

(* raspilotInit and main put every event on the list for a time to come. *)
LEMMA StartOfAgenda == Init => A!Init
<1> SUFFICES ASSUME Init PROVE A!Init
  OBVIOUS
<1>1. now = 0 /\ DueEntries = EmptyBag /\ InCallback = FALSE
  BY DEF Init, DueEntries, InCallback
<1>2. PICK times \in [Events -> 1 .. Period] :
          timeLine \in SetToSeqs({<<times[e], e>> : e \in Events})
  BY DEF Init
<1>3. ASSUME NEW item \in DOMAIN Entries PROVE item[1] > now /\ item[2] \in Events
  <2>1. PICK i \in DOMAIN timeLine : timeLine[i] = item
    BY <1>3 DEF Entries, ToBag, Range
  <2>2. item \in {<<times[e], e>> : e \in Events}
    BY <1>2, <2>1 DEF SetToSeqs
  <2>3. QED
    BY <1>1, <2>2
<1>4. QED
  BY <1>1, <1>3, NothingIs DEF A!Init

(* timeLineExecuteScheduledEvents executes all the events that were due when it began,
   the earliest first, each once, and none that a callback inserted since, however the
   callbacks reschedule and remove them, unless one of them does not return. *)
THEOREM KeepsAgenda == Spec => ImplementsAgenda
  BY Invariant, StartOfAgenda, StepsOfAgenda, PTL DEF Spec, ImplementsAgenda, A!Spec, A!vars
===============================================================================

----------------------------- MODULE Stream_proofs -----------------------------
(***************************************************************************)
(* Proofs about the stream of a sensor, for rings of every size: nobody    *)
(* meets in a ring in use, what the pilot copies with the mutex was        *)
(* written whole, what it has copied had the launch pose in force taken    *)
(* off, and the ring implements the feed.                                  *)
(***************************************************************************)
EXTENDS Stream, TLAPS, SequenceTheorems

USE SizeAssumption DEF SizeAssumption

(* A sensor on its way to its first push: the stream is not read, and nothing was
   taken from it. *)
Apart == spc \in Connecting => status # "ok" /\ done = 0

(* What the memset cleared stays clear until the sensor announces itself. *)
Cleared == spc \in {"sizing", "announce"} => n = 0 /\ mutex = "free"

(* The ring has no size only while the sensor initialises it. *)
Sized == spc # "sizing" => size = Size

(* A push that began has a measurement left to make, and one that is counted was
   made. *)
Pushable ==
    /\ spc \in {"locking", "writing", "filling", "counting"} => n < MaxN
    /\ spc = "indexing" => n > 0

(* Whenever the pilot may read with the mutex *)
Readable == status = "ok" \/ ppc \in {"lock", "copy"}

(* Never more is taken than was pushed since the sensor connected. *)
Counted ==
    /\ done <= n
    /\ Readable => done <= Arrived
    /\ ppc = "copy" => left <= n /\ left <= Size

(* A tick past its first test found a sensor that had connected. *)
Tested == ppc = "test" => status # "initialize"

(* A tick without the mutex stays in the two rounds of the ring. *)
Around ==
    /\ ppc \in {"from", "upto"} => left <= Size
    /\ ppc = "upto" => at < 2 * Size
    /\ ppc \in {"mark", "time", "vector"} => at + left < 2 * Size
    /\ ppc = "vector" => left > 0

(* Between the statements of a push the slot has its new time, then its vector. *)
Torn ==
    /\ spc = "filling" => slots[ai].time = Measurement(n)
    /\ spc \in {"counting", "indexing"} => slots[ai] \in Elements

(* The slot written k pushes ago *)
Slot(k) == (ai + Size - k) % Size

(* Whenever the pilot may read with the mutex, the last elements are whole, but for
   the oldest one while it is written over. *)
Whole ==
    Readable =>
        \A k \in 1 .. Size :
            k <= Arrived /\ (spc \in {"filling", "counting", "indexing"} => k < Size)
                => slots[Slot(k)] \in Elements

RingInv ==
    /\ RingTypeOK /\ Excluded
    /\ Apart /\ Cleared /\ Sized /\ Pushable /\ Counted /\ Tested /\ Around
    /\ Torn /\ Whole

IInv == TypeOK /\ Corrected /\ RingInv

-------------------------------------------------------------------------------
(* Arithmetic of the ring                                                    *)

LEMMA MeasurementName == RingTypeOK => n \in Nat /\ Measurement(n) \in 1 .. Names
<1>1. RingTypeOK => n \in Nat
  BY DEF RingTypeOK
<1>2. QED
  BY <1>1 DEF Measurement

(* Where nothing moves and no reader comes in, the elements stay whole. *)
LEMMA WholeKept ==
    ASSUME Whole, Readable' => Readable, UNCHANGED <<ai, n, slots, spc>>
    PROVE  Whole'
  BY DEF Whole, Slot, Arrived

LEMMA WholeElements == Elements \subseteq Scraps
  BY DEF Elements, Scraps

-------------------------------------------------------------------------------
(* Each step of the sensor and of the pilot keeps the invariant of the ring. *)
LEMMA InitRingInv == RingInit => RingInv
  BY DEF RingInit, RingInv, RingTypeOK, Excluded, Apart, Cleared, Sized, Pushable,
         Counted, Arrived, Tested, Around, Torn, Whole, Readable, Statuses, Blank, Scraps,
         Connecting, Pushing, Bare, SensorPCs, PilotPCs

(* The second statement of a push completes the element. *)
LEMMA Completes ==
    ASSUME RingTypeOK, Torn, PushVector
    PROVE  /\ slots' = [slots EXCEPT ![ai] = [time |-> Measurement(n), vector |-> Measurement(n)]]
           /\ slots'[ai] \in Elements
           /\ slots' \in [0 .. Size - 1 -> Scraps]
           /\ ai \in 0 .. Size - 1
<1> DEFINE e == [time |-> Measurement(n), vector |-> Measurement(n)]
<1>1. ai \in 0 .. Size - 1 /\ Measurement(n) \in 1 .. Names
  BY MeasurementName DEF RingTypeOK
<1>2. slots[ai] \in [time : 0 .. Names, vector : 0 .. Names]
  BY <1>1 DEF RingTypeOK, Scraps
<1>3. [slots[ai] EXCEPT !.vector = Measurement(n)]
          = [time |-> slots[ai].time, vector |-> Measurement(n)]
  BY <1>2
<1>4. slots' = [slots EXCEPT ![ai] = [slots[ai] EXCEPT !.vector = Measurement(n)]]
  BY DEF PushVector
<1>5. slots[ai].time = Measurement(n)
  BY DEF PushVector, Steps, Torn
<1>6. slots' = [slots EXCEPT ![ai] = e]
  BY <1>3, <1>4, <1>5, Zenon
<1>7. e \in Elements /\ e \in Scraps
  BY <1>1 DEF Elements, Scraps
<1> HIDE DEF e
<1>8. slots'[ai] \in Elements
  BY <1>1, <1>6, <1>7 DEF RingTypeOK
<1>9. slots' \in [0 .. Size - 1 -> Scraps]
  BY <1>6, <1>7 DEF RingTypeOK
<1>10. QED
  BY <1>1, <1>6, <1>8, <1>9 DEF e

(* The slot written next is none of the last Size - 1. *)
LEMMA SlotElsewhere ==
    ASSUME NEW k \in 1 .. Size - 1, ai \in 0 .. Size - 1
    PROVE  Slot(k) # ai /\ Slot(k) \in 0 .. Size - 1
  BY DEF Slot

LEMMA SensorKeepsRing ==
    ASSUME RingInv, Connects \/ Pushes \/ Kill
    PROVE  RingInv'
<1> USE DEF RingInv, Excluded, Apart, Cleared, Sized, Pushable, Counted, Arrived, Tested,
            Around, Readable, Connecting, Pushing, Bare, Steps, reader
<1>1. CASE Connect
  <2>1. Whole'
    BY <1>1, WholeKept DEF Connect, memory, Whole, Slot
  <2>2. QED
    BY <1>1, <2>1 DEF Connect, memory, RingTypeOK, Torn, SensorPCs
<1>2. CASE InitHeader
  <2>1. RingTypeOK'
    BY <1>2 DEF InitHeader, RingTypeOK, SensorPCs
  <2>2. Torn' /\ Whole'
    BY <1>2 DEF InitHeader, Torn, Whole
  <2>3. QED
    BY <1>2, <2>1, <2>2 DEF InitHeader
<1>3. CASE InitRing
  <2>1. RingTypeOK'
    BY <1>3 DEF InitRing, RingTypeOK, SensorPCs, Blank, Scraps
  <2>2. Torn' /\ Whole'
    BY <1>3 DEF InitRing, Torn, Whole
  <2>3. QED
    BY <1>3, <2>1, <2>2 DEF InitRing, RingTypeOK
<1>4. CASE Announce
  <2>1. RingTypeOK'
    BY <1>4 DEF Announce, RingTypeOK, SensorPCs, Statuses
  <2>2. Torn' /\ Whole'
    BY <1>4 DEF Announce, Torn, Whole
  <2>3. QED
    BY <1>4, <2>1, <2>2 DEF Announce
<1>5. CASE PushRefused
  <2>1. Whole'
    BY <1>5, WholeKept DEF PushRefused, Whole, memory, Slot
  <2>2. QED
    BY <1>5, <2>1 DEF PushRefused, memory, RingTypeOK, Torn, SensorPCs
<1>6. CASE PushBegin
  <2>1. Whole'
    BY <1>6, WholeKept DEF PushBegin, Whole, memory, Slot
  <2>2. QED
    BY <1>6, <2>1 DEF PushBegin, memory, RingTypeOK, Torn, SensorPCs
<1>7. CASE PushLock
  <2>1. Whole'
    BY <1>7, WholeKept DEF PushLock, Whole, memory, Slot
  <2>2. QED
    BY <1>7, <2>1 DEF PushLock, RingTypeOK, Torn, SensorPCs
<1>8. CASE PushTime
  <2>1. Measurement(n) \in 1 .. Names
    BY MeasurementName
  <2>2. RingTypeOK'
    <3>1. slots[ai] \in Scraps /\ slots \in [0 .. Size - 1 -> Scraps]
      BY DEF RingTypeOK
    <3>2. [slots[ai] EXCEPT !.time = Measurement(n)] \in Scraps
      BY <2>1, <3>1 DEF Scraps
    <3>3. slots' = [slots EXCEPT ![ai] = [slots[ai] EXCEPT !.time = Measurement(n)]]
      BY <1>8 DEF PushTime
    <3>4. slots' \in [0 .. Size - 1 -> Scraps]
      BY <3>1, <3>2, <3>3
    <3>5. QED
      BY <1>8, <3>4 DEF PushTime, RingTypeOK, SensorPCs
  <2>3. Torn'
    BY <1>8 DEF PushTime, Torn, RingTypeOK, Measurement
  <2>4. Whole'
    <3> SUFFICES ASSUME Readable', NEW k \in 1 .. Size, k <= n', k < Size
                 PROVE  slots'[Slot(k)'] \in Elements
      BY <1>8 DEF PushTime, Whole, Slot
    <3>1. Slot(k)' = Slot(k) /\ slots[Slot(k)] \in Elements
      BY <1>8 DEF PushTime, Whole, Slot
    <3>2. Slot(k) # ai /\ Slot(k) \in 0 .. Size - 1
      BY SlotElsewhere DEF RingTypeOK
    <3>3. QED
      BY <1>8, <3>1, <3>2 DEF PushTime, RingTypeOK
  <2>5. QED
    BY <1>8, <2>2, <2>3, <2>4 DEF PushTime
<1>9. CASE PushVector
  <2>1. /\ slots' = [slots EXCEPT ![ai] = [time |-> Measurement(n), vector |-> Measurement(n)]]
        /\ slots' \in [0 .. Size - 1 -> Scraps]
        /\ slots'[ai] \in Elements /\ ai \in 0 .. Size - 1
    BY <1>9, Completes
  <2>2. RingTypeOK'
    BY <1>9, <2>1 DEF PushVector, RingTypeOK, SensorPCs
  <2>3. Whole'
    <3> SUFFICES ASSUME Readable', NEW k \in 1 .. Size, k <= n', k < Size
                 PROVE  slots'[Slot(k)'] \in Elements
      BY <1>9 DEF PushVector, Whole, Slot
    <3>1. Slot(k)' = Slot(k) /\ slots[Slot(k)] \in Elements
      BY <1>9 DEF PushVector, Whole, Slot
    <3>2. Slot(k) # ai /\ Slot(k) \in 0 .. Size - 1
      BY SlotElsewhere DEF RingTypeOK
    <3>3. QED
      BY <2>1, <3>1, <3>2 DEF RingTypeOK
  <2>4. Torn'
    BY <1>9, <2>1 DEF PushVector, Torn
  <2>5. QED
    BY <1>9, <2>2, <2>3, <2>4 DEF PushVector
<1>10. CASE PushCount
  <2>1. n' = n + 1 /\ n' \in 0 .. MaxN /\ n \in Nat /\ done \in Nat
    BY <1>10 DEF PushCount, RingTypeOK
  <2>2. RingTypeOK'
    BY <1>10, <2>1 DEF PushCount, RingTypeOK, SensorPCs
  <2>3. Whole'
    BY <1>10, <2>1 DEF PushCount, Whole, Slot
  <2>4. Torn'
    BY <1>10 DEF PushCount, Torn
  <2>5. Counted'
    BY <1>10, <2>1 DEF PushCount, RingTypeOK
  <2>6. QED
    BY <1>10, <2>1, <2>2, <2>3, <2>4, <2>5 DEF PushCount
<1>11. CASE PushIndex
  <2>1. /\ ai \in 0 .. Size - 1 /\ ai' = (ai + 1) % Size
        /\ n \in Nat /\ n > 0 /\ n' = n /\ slots' = slots
        /\ slots[ai] \in Elements
    BY <1>11 DEF PushIndex, RingTypeOK, Torn
  <2>2. ai \in 0 .. Size - 1 /\ ai' = IF ai + 1 < Size THEN ai + 1 ELSE 0
    BY <2>1
  <2>3. RingTypeOK'
    <3>1. ai' \in 0 .. Size - 1
      BY <2>2
    <3>2. QED
      BY <1>11, <3>1 DEF PushIndex, RingTypeOK, SensorPCs
  <2>4. Whole'
    <3> SUFFICES ASSUME Readable', NEW k \in 1 .. Size, k <= n
                 PROVE  slots[Slot(k)'] \in Elements
      BY <1>11, <2>1 DEF PushIndex, Whole, Slot
    <3>1. CASE k = 1
      <4>1. Slot(k)' = ai
        BY <2>2, <3>1 DEF Slot
      <4>2. QED
        BY <2>1, <4>1
    <3>2. CASE k > 1
      <4>1. Slot(k)' = Slot(k - 1)
        BY <2>2, <3>2 DEF Slot
      <4>2. k - 1 \in 1 .. Size /\ k - 1 <= n - 1 /\ k - 1 < Size
        BY <2>1, <3>2
      <4>3. slots[Slot(k - 1)] \in Elements
        BY <1>11, <4>2 DEF PushIndex, Whole
      <4>4. QED
        BY <4>1, <4>3
    <3>3. QED
      BY <3>1, <3>2
  <2>5. Torn'
    BY <1>11 DEF PushIndex, Torn
  <2>6. QED
    BY <1>11, <2>1, <2>3, <2>4, <2>5 DEF PushIndex, RingTypeOK
<1>12. CASE PushUnlock
  <2>1. Whole'
    BY <1>12 DEF PushUnlock, Whole, Slot
  <2>2. QED
    BY <1>12, <2>1 DEF PushUnlock, MutexAfterPush, RingTypeOK, Torn, SensorPCs
<1>13. CASE Kill
  <2>1. Whole'
    BY <1>13, WholeKept DEF Kill, memory
  <2>2. QED
    BY <1>13, <2>1 DEF Kill, memory, RingTypeOK, Torn
<1>14. QED
  BY <1>1, <1>2, <1>3, <1>4, <1>5, <1>6, <1>7, <1>8, <1>9, <1>10, <1>11, <1>12, <1>13
     DEF Connects, Pushes

(* Without the mutex the pilot changes nothing but its own counts. *)
LEMMA PeeksKeepRing ==
    ASSUME RingInv,
           PeekCount \/ PeekFrom \/ PeekUpto \/ PeekMark \/ PeekTime \/ PeekVector
    PROVE  RingInv'
<1> USE DEF Peeks
<1>1. UNCHANGED <<memory, sensor>> /\ ppc \in Bare /\ ppc' \in Bare
  BY DEF PeekCount, PeekFrom, PeekUpto, PeekMark, PeekTime, PeekVector, Bare
<1>2. status = "finalize" /\ spc \notin Connecting
  BY <1>1 DEF RingInv, Excluded
<1>3. /\ size = Size /\ ai \in 0 .. Size - 1 /\ n \in 0 .. MaxN /\ done \in Nat /\ done <= n
      /\ left \in 0 .. 2 * Size /\ at \in 0 .. 2 * Size /\ seen \in 0 .. Names
  BY <1>2 DEF RingInv, RingTypeOK, Sized, Counted, Connecting
<1>4. ~Readable'
  BY <1>1, <1>2 DEF Readable, Bare, memory
<1>5. done' \in 0 .. MaxN /\ done' <= n
  BY <1>3 DEF PeekCount, PeekFrom, PeekUpto, PeekMark, PeekTime, PeekVector, RingInv, RingTypeOK
<1>6. left' \in 0 .. 2 * Size /\ at' \in 0 .. 2 * Size /\ Around'
  <2>1. CASE PeekCount
    BY <1>3, <2>1 DEF PeekCount, Count, Around
  <2>2. CASE PeekFrom
    BY <1>3, <2>2 DEF PeekFrom, RingInv, Around
  <2>3. CASE PeekUpto
    <3>1. left <= Size
      BY <2>3 DEF PeekUpto, RingInv, Around
    <3>2. CASE at < ai + Size
      BY <1>3, <2>3, <3>1, <3>2 DEF PeekUpto, Around
    <3>3. CASE ~(at < ai + Size)
      BY <1>3, <2>3, <3>1, <3>3 DEF PeekUpto, RingInv, Around
    <3>4. QED
      BY <3>2, <3>3
  <2>4. CASE PeekMark \/ PeekTime
    BY <1>3, <2>4 DEF PeekMark, PeekTime, RingInv, Around
  <2>5. CASE PeekVector
    BY <1>3, <2>5 DEF PeekVector, RingInv, Around
  <2>6. QED
    BY <2>1, <2>2, <2>3, <2>4, <2>5
<1>7. seen' \in 0 .. Names
  <2>1. CASE PeekTime
    <3>1. at % Size \in 0 .. Size - 1
      BY <1>3
    <3>2. slots[at % Size] \in Scraps
      BY <3>1 DEF RingInv, RingTypeOK
    <3>3. QED
      BY <1>3, <2>1, <3>2 DEF PeekTime, Scraps
  <2>2. CASE ~PeekTime
    BY <1>3, <2>2 DEF PeekCount, PeekFrom, PeekUpto, PeekMark, PeekVector
  <2>3. QED
    BY <2>1, <2>2
<1>8. RingTypeOK'
  BY <1>1, <1>5, <1>6, <1>7 DEF RingInv, RingTypeOK, memory, sensor, PilotPCs, Bare
<1>9. Whole'
  BY <1>4 DEF Whole
<1>10. QED
  BY <1>1, <1>2, <1>4, <1>5, <1>6, <1>8, <1>9
     DEF RingInv, Excluded, Apart, Cleared, Sized, Pushable, Counted, Tested, Torn, Readable,
         Bare, memory, sensor

LEMMA PilotKeepsRing ==
    ASSUME RingInv,
           \/ TranslateBegin \/ TranslateTest
           \/ TranslateLock \/ TranslateNext \/ TranslateUnlock
           \/ /\ ppc' = "gone" \/ (ppc = "fuse" /\ ppc' = "idle")
              /\ UNCHANGED <<memory, sensor, done, left, at, seen>>
           \/ /\ ppc' = ppc \/ (ppc = "fuse" /\ ppc' = "idle")
              /\ Finalize /\ UNCHANGED <<sensor, done, left, at, seen>>
           \/ Recreate
    PROVE  RingInv'
<1> USE DEF RingInv, Excluded, Apart, Cleared, Sized, Pushable, Counted, Arrived, Tested,
            Around, Readable, Connecting, Pushing, Bare, sensor
<1>1. CASE TranslateBegin
  <2>1. Whole'
    BY <1>1, WholeKept DEF TranslateBegin, memory
  <2>2. QED
    BY <1>1, <2>1 DEF TranslateBegin, memory, RingTypeOK, Torn, PilotPCs
<1>2. CASE TranslateTest
  <2>1. Whole'
    BY <1>2, WholeKept DEF TranslateTest, memory
  <2>2. status \in {"ok", "finalize"}
    BY <1>2 DEF TranslateTest, RingTypeOK, Statuses
  <2>3. QED
    BY <1>2, <2>1, <2>2 DEF TranslateTest, memory, RingTypeOK, Torn, PilotPCs
<1>3. CASE TranslateLock
  <2>1. Whole'
    BY <1>3, WholeKept DEF TranslateLock
  <2>2. /\ left' \in 0 .. 2 * Size /\ left' <= n /\ left' <= Size
        /\ done' = n /\ n' = n /\ n \in Nat
    BY <1>3 DEF TranslateLock, Count, RingTypeOK
  <2>3. spc' # "indexing"
    BY <1>3 DEF TranslateLock
  <2>4. QED
    BY <1>3, <2>1, <2>2, <2>3 DEF TranslateLock, RingTypeOK, Torn, PilotPCs
<1>4. CASE TranslateNext
  <2>1. Whole'
    BY <1>4, WholeKept DEF TranslateNext, memory
  <2>2. left' \in 0 .. 2 * Size /\ left' <= left /\ n \in Nat
    BY <1>4 DEF TranslateNext, RingTypeOK
  <2>3. QED
    BY <1>4, <2>1, <2>2 DEF TranslateNext, memory, RingTypeOK, Torn
<1>5. CASE TranslateUnlock
  <2>1. Whole'
    BY <1>5, WholeKept DEF TranslateUnlock
  <2>2. QED
    BY <1>5, <2>1 DEF TranslateUnlock, RingTypeOK, Torn, PilotPCs
<1>6. CASE /\ ppc' = "gone" \/ (ppc = "fuse" /\ ppc' = "idle")
           /\ UNCHANGED <<memory, sensor, done, left, at, seen>>
  <2>1. Whole'
    BY <1>6, WholeKept DEF memory
  <2>2. QED
    BY <1>6, <2>1 DEF memory, RingTypeOK, Torn, PilotPCs
<1>7. CASE /\ ppc' = ppc \/ (ppc = "fuse" /\ ppc' = "idle")
           /\ Finalize /\ UNCHANGED <<sensor, done, left, at, seen>>
  <2>1. Whole'
    BY <1>7, WholeKept DEF Finalize
  <2>2. QED
    BY <1>7, <2>1 DEF Finalize, RingTypeOK, Torn, PilotPCs, Statuses
<1>8. CASE Recreate
  <2>1. Whole'
    BY <1>8 DEF Recreate, Whole
  <2>2. RingTypeOK'
    BY <1>8 DEF Recreate, RingTypeOK, Statuses, PilotPCs, SensorPCs
  <2>3. QED
    BY <1>8, <2>1, <2>2 DEF Recreate, RingTypeOK, Torn
<1>9. QED
  BY <1>1, <1>2, <1>3, <1>4, <1>5, <1>6, <1>7, <1>8

-------------------------------------------------------------------------------
(* The output buffer                                                         *)

(* The element the pilot copies was written whole. *)
LEMMA SourceWhole ==
    ASSUME RingInv, ppc = "copy", left > 0
    PROVE  Source = slots[Slot(left)] /\ Source \in Elements
<1>1. spc \notin {"sizing", "filling", "counting", "indexing"} /\ size = Size
  BY DEF RingInv, Excluded, Sized, Connecting, Pushing
<1>2. left \in 1 .. Size /\ left <= Arrived
  BY <1>1 DEF RingInv, RingTypeOK, Counted, Arrived
<1>3. Source = slots[Slot(left)]
  BY <1>1 DEF Source, Slot
<1>4. QED
  BY <1>1, <1>2, <1>3 DEF RingInv, Whole, Readable

(* What it copies without the mutex is some content of a slot. *)
LEMMA GlimpseScrap == ASSUME RingInv, ppc = "vector", NEW v \in Glimpses PROVE v \in Scraps
<1>1. size = Size /\ at \in 0 .. 2 * Size /\ seen \in 0 .. Names
  BY DEF RingInv, RingTypeOK, Excluded, Sized, Connecting, Bare
<1>2. at % size \in 0 .. Size - 1
  BY <1>1
<1>3. slots[at % size] \in Scraps
  BY <1>2 DEF RingInv, RingTypeOK
<1>4. v.time = seen /\ v.vector \in 0 .. Names /\ v = [time |-> v.time, vector |-> v.vector]
  BY <1>3 DEF Glimpses, Scraps
<1>5. QED
  BY <1>1, <1>4 DEF Scraps

LEMMA AddedOutput ==
    ASSUME TypeOK, Corrected, NEW v \in Scraps
    PROVE  /\ Added(v) \in Seq(Outputs) /\ Len(Added(v)) <= Size
           /\ \A i \in DOMAIN Added(v) : Added(v)[i].posed = pose
<1> DEFINE e == [value |-> v, posed |-> pose]
<1>1. e \in Outputs /\ e.posed = pose
  BY DEF TypeOK, Outputs
<1>2. out \in Seq(Outputs) /\ Len(out) <= Size /\ \A i \in 1 .. Len(out) : out[i].posed = pose
  BY DEF TypeOK, Corrected
<1> HIDE DEF e
<1>3. CASE Len(out) < Size
  <2>1. Added(v) = Append(out, e)
    BY <1>3 DEF Added, e
  <2>2. QED
    BY <1>1, <1>2, <1>3, <2>1
<1>4. CASE ~(Len(out) < Size)
  <2>1. Added(v) = Append(Tail(out), e)
    BY <1>4 DEF Added, e
  <2>2. out # <<>> /\ Len(out) = Size
    BY <1>2, <1>4
  <2>3. QED
    BY <1>1, <1>2, <2>1, <2>2
<1>5. QED
  BY <1>3, <1>4

-------------------------------------------------------------------------------
(* The strengthened invariant holds in the initial states, and every step keeps it. *)
LEMMA InitInv == Init => IInv
<1> SUFFICES ASSUME Init PROVE IInv
  OBVIOUS
<1>1. RingInv
  BY InitRingInv DEF Init
<1>2. out = <<>> /\ pose = FALSE /\ stage = "standby" /\ shutDown = FALSE
  BY DEF Init
<1>3. Corrected
  BY <1>2 DEF Corrected
<1>4. out \in Seq(Outputs) /\ Len(out) <= Size
  BY <1>2
<1>5. QED
  BY <1>1, <1>2, <1>3, <1>4 DEF IInv, TypeOK, RingInv, StreamStages

LEMMA StepInv == IInv /\ [Next]_vars => IInv'
<1> SUFFICES ASSUME IInv, [Next]_vars PROVE IInv'
  OBVIOUS
<1>1. TypeOK /\ Corrected /\ RingInv
  BY DEF IInv
<1>2. ASSUME RingInv', UNCHANGED <<output, control>> PROVE IInv'
  BY <1>1, <1>2 DEF IInv, TypeOK, Corrected, RingInv, output, control
<1>3. ASSUME UNCHANGED ring PROVE RingInv'
  BY <1>1, <1>3 DEF ring, memory, sensor, reader, RingInv, RingTypeOK, Excluded, Apart, Cleared,
                    Sized, Pushable, Counted, Arrived, Tested, Around, Torn, Whole, Readable, Slot
<1>4. ASSUME RingInv', out' \in {out, <<>>}, pose' = pose \/ (pose' \in BOOLEAN /\ out' = <<>>),
             stage' \in StreamStages, shutDown' \in BOOLEAN
      PROVE  IInv'
  <2>1. CASE out' = out /\ pose' = pose
    BY <1>1, <1>4, <2>1 DEF IInv, TypeOK, Corrected, RingInv
  <2>2. CASE out' = <<>>
    <3>1. Corrected'
      BY <2>2 DEF Corrected
    <3>2. out' \in Seq(Outputs) /\ Len(out') <= Size
      BY <2>2
    <3>3. pose' \in BOOLEAN
      BY <1>1, <1>4 DEF TypeOK
    <3>4. QED
      BY <1>4, <3>1, <3>2, <3>3 DEF IInv, TypeOK, RingInv
  <2>3. QED
    BY <1>4, <2>1, <2>2
<1>5. stage \in StreamStages /\ shutDown \in BOOLEAN
  BY <1>1 DEF TypeOK
<1>6. CASE Sensor \/ SensorKilled
  BY <1>1, <1>2, <1>6, SensorKeepsRing DEF Sensor, SensorKilled
<1>7. CASE TickBegin \/ TickTest
  BY <1>1, <1>2, <1>7, PilotKeepsRing DEF TickBegin, TickTest
<1>8. CASE TickLock
  BY <1>1, <1>2, <1>8, PilotKeepsRing DEF TickLock
<1>9. CASE TickCopy \/ TickPeekCopy
  <2>1. RingInv'
    BY <1>1, <1>9, PilotKeepsRing, PeeksKeepRing DEF TickCopy, TickPeekCopy
  <2>2. PICK v \in Scraps : out' = Added(v)
    <3>1. CASE TickCopy
      <4>1. Source \in Scraps
        BY <1>1, <3>1, SourceWhole, WholeElements DEF TickCopy, TranslateNext
      <4>2. QED
        BY <3>1, <4>1 DEF TickCopy
    <3>2. CASE TickPeekCopy
      <4>1. Glimpses \subseteq Scraps
        BY <1>1, <3>2, GlimpseScrap DEF TickPeekCopy, PeekVector, Peeks
      <4>2. QED
        BY <3>2, <4>1 DEF TickPeekCopy
    <3>3. QED
      BY <1>9, <3>1, <3>2
  <2>3. /\ out' \in Seq(Outputs) /\ Len(out') <= Size
        /\ \A i \in DOMAIN out' : out'[i].posed = pose
    BY <1>1, <2>2, AddedOutput
  <2>4. UNCHANGED <<pose, stage, shutDown>>
    BY <1>9 DEF TickCopy, TickPeekCopy, control
  <2>5. QED
    BY <1>1, <2>1, <2>3, <2>4 DEF IInv, TypeOK, Corrected, RingInv
<1>10. CASE TickPeek \/ TickUnlock
  BY <1>1, <1>2, <1>10, PilotKeepsRing, PeeksKeepRing DEF TickPeek, TickUnlock
<1>11. CASE TickFuse
  BY <1>1, <1>2, <1>11, PilotKeepsRing DEF TickFuse
<1>12. CASE TickSensorLost
  <2>1. RingInv'
    BY <1>1, <1>12, PilotKeepsRing DEF TickSensorLost
  <2>2. out' = out /\ pose' = pose /\ stage' = stage /\ shutDown' = TRUE
    BY <1>12 DEF TickSensorLost, output
  <2>3. QED
    BY <1>4, <1>5, <2>1, <2>2
<1>13. CASE Main
  <2>1. UNCHANGED ring
    BY <1>13 DEF Main, Countdown, FirstWaitOver, LaunchPoseSet, SecondWaitOver, Launch,
                 Standby, MainStep
  <2>2. ASSUME Countdown \/ FirstWaitOver \/ SecondWaitOver \/ Launch PROVE IInv'
    <3>1. out' = out /\ pose' = pose /\ shutDown' = shutDown /\ stage' \in StreamStages
      BY <2>2 DEF Countdown, FirstWaitOver, SecondWaitOver, Launch, MainStep, output,
                  StreamStages
    <3>2. QED
      BY <1>3, <1>4, <1>5, <2>1, <3>1
  <2>3. ASSUME LaunchPoseSet \/ Standby PROVE IInv'
    <3>1. /\ out' = <<>> /\ pose' \in BOOLEAN
          /\ shutDown' = shutDown /\ stage' \in StreamStages
      BY <2>3 DEF LaunchPoseSet, Standby, MainStep, OutputAfterPose, StreamStages
    <3>2. QED
      BY <1>3, <1>4, <1>5, <2>1, <3>1
  <2>4. QED
    BY <1>13, <2>2, <2>3 DEF Main
<1>14. CASE Interrupt
  <2>1. RingInv'
    <3>1. ppc' = ppc /\ Finalize /\ UNCHANGED <<sensor, done, left, at, seen>>
      BY <1>14 DEF Interrupt, reader
    <3>2. QED
      BY <1>1, <3>1, PilotKeepsRing
  <2>2. out' = out /\ pose' = pose /\ stage' = stage /\ shutDown' = TRUE
    BY <1>14 DEF Interrupt, output
  <2>3. QED
    BY <1>4, <1>5, <2>1, <2>2
<1>15. CASE Exit \/ Crash
  <2>1. ppc' = "gone" /\ UNCHANGED <<memory, sensor, done, left, at, seen, output, control>>
    BY <1>15 DEF Exit, Crash, Gone
  <2>2. RingInv'
    BY <1>1, <2>1, PilotKeepsRing
  <2>3. QED
    BY <1>2, <2>1, <2>2
<1>16. CASE Restart
  <2>1. RingInv'
    BY <1>1, <1>16, PilotKeepsRing DEF Restart
  <2>2. QED
    BY <1>4, <1>16, <2>1 DEF Restart, StreamStages
<1>17. CASE UNCHANGED vars
  BY <1>2, <1>3, <1>17 DEF vars
<1>18. QED
  BY <1>6, <1>7, <1>8, <1>9, <1>10, <1>11, <1>12, <1>13, <1>14, <1>15, <1>16, <1>17
     DEF Next, Tick

-------------------------------------------------------------------------------
(* Runs of slots as sequences                                                *)

(* The c slots of the ring s that lie before the index a *)
Run(s, a, c) == [i \in 1 .. c |-> s[(a + Size - c + i - 1) % Size]]

LEMMA RunSeq ==
    ASSUME NEW s \in [0 .. Size - 1 -> Scraps], NEW a \in 0 .. Size - 1,
           NEW c \in 0 .. Size
    PROVE  Run(s, a, c) \in Seq(Scraps) /\ Len(Run(s, a, c)) = c
<1>1. \A i \in 1 .. c : (a + Size - c + i - 1) % Size \in 0 .. Size - 1
  OBVIOUS
<1>2. Run(s, a, c) \in [1 .. c -> Scraps]
  BY <1>1 DEF Run
<1>3. QED
  BY <1>2

(* The first slot of a run, and the run behind it *)
LEMMA RunTail ==
    ASSUME NEW s \in [0 .. Size - 1 -> Scraps], NEW a \in 0 .. Size - 1,
           NEW c \in 1 .. Size
    PROVE  /\ Run(s, a, c) # <<>>
           /\ Head(Run(s, a, c)) = s[(a + Size - c) % Size]
           /\ Tail(Run(s, a, c)) = Run(s, a, c - 1)
<1> DEFINE r == Run(s, a, c)
           q == Run(s, a, c - 1)
<1>1. c \in 0 .. Size /\ c - 1 \in 0 .. Size /\ 1 \in 1 .. c
  OBVIOUS
<1>2. r \in Seq(Scraps) /\ Len(r) = c
  BY <1>1, RunSeq
<1>3. q \in Seq(Scraps) /\ Len(q) = c - 1
  BY <1>1, RunSeq
<1>4. r[1] = s[(a + Size - c) % Size]
  BY <1>1 DEF Run
<1>5. \A i \in 1 .. c - 1 : r[i + 1] = q[i]
  BY DEF Run
<1> HIDE DEF r, q
<1>6. r # <<>> /\ Head(r) = r[1]
  BY <1>2
<1>7. /\ Tail(r) \in Seq(Scraps) /\ Len(Tail(r)) = c - 1
      /\ \A i \in 1 .. c - 1 : Tail(r)[i] = r[i + 1]
  BY <1>2, <1>6
<1>8. \A i \in 1 .. Len(Tail(r)) : Tail(r)[i] = q[i]
  BY <1>5, <1>7
<1>9. Tail(r) = q
  BY <1>3, <1>7, <1>8, SeqEqual
<1>10. QED
  BY <1>4, <1>6, <1>9 DEF r, q

(* The slot written next is in no run that is shorter than the ring. *)
LEMMA RunElsewhere ==
    ASSUME NEW s \in [0 .. Size - 1 -> Scraps], NEW t \in [0 .. Size - 1 -> Scraps],
           NEW a \in 0 .. Size - 1, NEW c \in 0 .. Size - 1,
           \A i \in 0 .. Size - 1 : i # a => s[i] = t[i]
    PROVE  Run(s, a, c) = Run(t, a, c)
<1>1. \A i \in 1 .. c : /\ (a + Size - c + i - 1) % Size \in 0 .. Size - 1
                       /\ (a + Size - c + i - 1) % Size # a
  OBVIOUS
<1>2. \A i \in 1 .. c : s[(a + Size - c + i - 1) % Size] = t[(a + Size - c + i - 1) % Size]
  BY <1>1
<1>3. QED
  BY <1>2 DEF Run

(* A push makes the run longer by its slot. *)
LEMMA RunAppend ==
    ASSUME NEW s \in [0 .. Size - 1 -> Scraps], NEW a \in 0 .. Size - 1,
           NEW c \in 0 .. Size - 1
    PROVE  Run(s, (a + 1) % Size, c + 1) = Append(Run(s, a, c), s[a])
<1> DEFINE b == (a + 1) % Size
           r == Run(s, a, c)
           q == Run(s, b, c + 1)
<1>1. b \in 0 .. Size - 1 /\ b = IF a + 1 < Size THEN a + 1 ELSE 0
  OBVIOUS
<1>2. c \in 0 .. Size /\ c + 1 \in 0 .. Size /\ s[a] \in Scraps
  OBVIOUS
<1>3. r \in Seq(Scraps) /\ Len(r) = c
  BY <1>2, RunSeq
<1>4. q \in Seq(Scraps) /\ Len(q) = c + 1
  BY <1>1, <1>2, RunSeq
<1>5. \A i \in 1 .. c : q[i] = r[i]
  <2> SUFFICES ASSUME NEW i \in 1 .. c PROVE q[i] = r[i]
    OBVIOUS
  <2>1. q[i] = s[(b + Size - (c + 1) + i - 1) % Size]
    BY DEF Run
  <2>2. r[i] = s[(a + Size - c + i - 1) % Size]
    BY DEF Run
  <2> HIDE DEF b
  <2>3. (b + Size - (c + 1) + i - 1) % Size = (a + Size - c + i - 1) % Size
    BY <1>1
  <2>4. QED
    BY <2>1, <2>2, <2>3
<1>6. q[c + 1] = s[a]
  <2>1. q[c + 1] = s[(b + Size - (c + 1) + (c + 1) - 1) % Size]
    BY DEF Run
  <2> HIDE DEF b
  <2>2. (b + Size - (c + 1) + (c + 1) - 1) % Size = a
    BY <1>1
  <2>3. QED
    BY <2>1, <2>2
<1> HIDE DEF r, q
<1>7. /\ Append(r, s[a]) \in Seq(Scraps) /\ Len(Append(r, s[a])) = c + 1
      /\ \A i \in 1 .. c : Append(r, s[a])[i] = r[i]
      /\ Append(r, s[a])[c + 1] = s[a]
  BY <1>2, <1>3
<1>8. \A i \in 1 .. Len(q) : q[i] = Append(r, s[a])[i]
  BY <1>4, <1>5, <1>6, <1>7
<1>9. q = Append(r, s[a])
  BY <1>4, <1>7, <1>8, SeqEqual
<1>10. QED
  BY <1>9 DEF r, q

-------------------------------------------------------------------------------
(* The steps of the feed                                                     *)

Fresh == Pending(Window)
Batch == IF ppc = "copy" THEN Pending(left) ELSE <<>>
Given == IF ppc = "gone" THEN <<>> ELSE [i \in DOMAIN out |-> out[i].value]

LEMMA WindowRange ==
    ASSUME RingInv
    PROVE  /\ Window \in 0 .. Size
           /\ spc \in {"filling", "counting", "indexing"} => Window <= Size - 1
           /\ Window # 0 => Gate = "open"
  BY DEF RingInv, RingTypeOK, Counted, Pushable, Readable, Arrived, Window, Gate

LEMMA FreshKept == ASSUME UNCHANGED <<slots, ai>>, Window' = Window PROVE Fresh' = Fresh
  BY DEF Fresh, Pending

LEMMA NothingFresh ==
    /\ Window = 0 => Fresh = <<>>
    /\ Window' = 0 => Fresh' = <<>>
<1>1. Window = 0 => Fresh = <<>>
  BY DEF Fresh, Pending
<1>2. Window' = 0 => Fresh' = <<>>
  BY DEF Fresh, Pending
<1>3. QED
  BY <1>1, <1>2

(* What a step of the sensor is to the feed *)
LEMMA SensorFeeds ==
    ASSUME RingInv, Connects \/ Pushes \/ Kill
    PROVE  /\ Batch' = Batch
           /\ \/ /\ Gate' = Gate
                 /\ \/ Fresh' = Fresh
                    \/ Gate = "open" /\ Len(Fresh) = Size /\ Fresh' = Tail(Fresh)
                    \/ /\ Gate = "open" /\ Len(Fresh) < Size
                       /\ \E v \in Elements : Fresh' = Append(Fresh, v)
              \/ Gate = "shut" /\ Gate' = "open" /\ Fresh' = Fresh
<1>1. /\ slots \in [0 .. Size - 1 -> Scraps] /\ ai \in 0 .. Size - 1
      /\ n \in Nat /\ done \in Nat /\ done <= n
  BY DEF RingInv, RingTypeOK, Counted
<1>2. /\ Window \in 0 .. Size
      /\ spc \in {"filling", "counting", "indexing"} => Window <= Size - 1
      /\ Window # 0 => Gate = "open"
  BY WindowRange
<1>3. UNCHANGED <<ppc, left, done>>
  BY DEF Connects, Connect, InitHeader, InitRing, Announce, Pushes, PushRefused, PushBegin,
         PushLock, PushTime, PushVector, PushCount, PushIndex, PushUnlock, Kill, Steps, reader
<1>4. Batch' = Batch
  <2>1. CASE ppc = "copy"
    <3>1. spc \notin {"init", "sizing", "writing", "filling", "counting", "indexing"}
      BY <2>1 DEF RingInv, Excluded, Connecting, Pushing
    <3>2. UNCHANGED <<slots, ai>>
      BY <3>1 DEF Connects, Connect, InitHeader, InitRing, Announce, Pushes, PushRefused, PushBegin,
         PushLock, PushTime, PushVector, PushCount, PushIndex, PushUnlock, Kill, Steps, memory
    <3>3. QED
      BY <1>3, <2>1, <3>2 DEF Batch, Pending
  <2>2. CASE ppc # "copy"
    BY <1>3, <2>2 DEF Batch
  <2>3. QED
    BY <2>1, <2>2
<1>5. CASE Connects
  <2>1. /\ Window = 0 /\ Window' = 0
        /\ status' = status \/ (status' = "ok" /\ status # "ok")
        /\ ppc \notin {"test", "lock", "copy"} \cup Bare
    BY <1>1, <1>5 DEF RingInv, Excluded, Apart, Cleared, Connecting, Window, Arrived, Connects,
       Connect, InitHeader, InitRing, Announce, Steps, memory, reader
  <2>2. Gate' = Gate \/ (Gate = "shut" /\ Gate' = "open")
    BY <1>3, <2>1 DEF Gate
  <2>3. QED
    BY <1>4, <2>1, <2>2, NothingFresh
<1>6. CASE Pushes \/ Kill
  <2>1. UNCHANGED status
    BY <1>6 DEF Pushes, PushRefused, PushBegin, PushLock, PushTime, PushVector, PushCount,
                PushIndex, PushUnlock, Kill, Steps, memory
  <2>2. Gate' = Gate
    BY <1>3, <2>1 DEF Gate
  <2>3. CASE PushTime
    <3>1. slots' \in [0 .. Size - 1 -> Scraps] /\ ai' = ai
      BY <2>3, SensorKeepsRing DEF PushTime, Pushes, RingInv, RingTypeOK
    <3>2. \A i \in 0 .. Size - 1 : i # ai => slots[i] = slots'[i]
      BY <1>1, <2>3 DEF PushTime
    <3>3. CASE Window' = Window
      <4>1. Window \in 0 .. Size - 1
        BY <1>1, <1>2, <2>3, <3>3 DEF PushTime, Steps, Window, Arrived
      <4>2. Run(slots, ai, Window) = Run(slots', ai, Window)
        BY <1>1, <3>1, <3>2, <4>1, RunElsewhere
      <4>3. Fresh' = Fresh
        BY <3>1, <3>3, <4>2 DEF Fresh, Pending, Run
      <4>4. QED
        BY <1>4, <2>2, <4>3
    <3>4. CASE Window' # Window
      <4>1. Window = Size /\ Window' = Size - 1
        BY <1>1, <2>3, <3>4 DEF PushTime, Steps, Window, Arrived, reader
      <4>2. Size - 1 \in 0 .. Size - 1 /\ Size \in 1 .. Size /\ Size \in 0 .. Size
        OBVIOUS
      <4>3. Run(slots, ai, Size - 1) = Run(slots', ai, Size - 1)
        BY <1>1, <3>1, <3>2, <4>2, RunElsewhere
      <4>4. Tail(Run(slots, ai, Size)) = Run(slots, ai, Size - 1) /\ Len(Run(slots, ai, Size)) = Size
        BY <1>1, <4>2, RunTail, RunSeq
      <4>5. Fresh = Run(slots, ai, Size) /\ Fresh' = Run(slots', ai, Size - 1)
        BY <3>1, <4>1 DEF Fresh, Pending, Run
      <4>6. Gate = "open"
        BY <1>2, <4>1
      <4>7. QED
        BY <1>4, <2>2, <4>3, <4>4, <4>5, <4>6
    <3>5. QED
      BY <3>3, <3>4
  <2>4. CASE PushVector
    <3>1. /\ slots' \in [0 .. Size - 1 -> Scraps] /\ ai' = ai
          /\ \A i \in 0 .. Size - 1 : i # ai => slots[i] = slots'[i]
      BY <1>1, <2>4, Completes DEF RingInv, PushVector
    <3>2. Window' = Window /\ Window \in 0 .. Size - 1
      BY <1>1, <1>2, <1>3, <2>1, <2>4 DEF PushVector, Steps, Window, Arrived
    <3>3. Run(slots, ai, Window) = Run(slots', ai, Window)
      BY <1>1, <3>1, <3>2, RunElsewhere
    <3>4. Fresh' = Fresh
      BY <3>1, <3>2, <3>3 DEF Fresh, Pending, Run
    <3>5. QED
      BY <1>4, <2>2, <3>4
  <2>5. CASE PushIndex
    <3>1. /\ ai' = (ai + 1) % Size /\ slots' = slots /\ slots[ai] \in Elements /\ n > 0
          /\ spc = "indexing" /\ spc' = "unlocking" /\ n' = n
      BY <2>5 DEF PushIndex, Steps, RingInv, Sized, Torn, Pushable
    <3>2. Readable => done <= n - 1
      BY <3>1 DEF RingInv, Counted, Arrived
    <3>3. CASE Gate = "open"
      <4>1. Readable
        BY <3>3 DEF Gate, Readable
      <4>2. Window' = Window + 1 /\ Window \in 0 .. Size - 1 /\ Window \in 0 .. Size
        BY <1>1, <1>2, <1>3, <2>1, <3>1, <3>2, <3>3, <4>1 DEF Window, Arrived, Gate
      <4>3. Run(slots, (ai + 1) % Size, Window + 1) = Append(Run(slots, ai, Window), slots[ai])
        BY <1>1, <4>2, RunAppend
      <4>4. Fresh = Run(slots, ai, Window) /\ Fresh' = Run(slots, ai', Window + 1)
        BY <3>1, <4>2 DEF Fresh, Pending, Run
      <4>5. Len(Fresh) = Window
        BY <1>1, <4>2, <4>4, RunSeq
      <4>6. Fresh' = Append(Fresh, slots[ai])
        BY <3>1, <4>3, <4>4
      <4>7. QED
        BY <1>4, <2>2, <3>1, <3>3, <4>2, <4>5, <4>6
    <3>4. CASE Gate # "open"
      <4>1. Window = 0 /\ Window' = 0
        BY <1>3, <2>1, <3>4 DEF Window, Gate
      <4>2. QED
        BY <1>4, <2>2, <4>1, NothingFresh
    <3>5. QED
      BY <3>3, <3>4
  <2>6. CASE PushCount
    <3>1. /\ UNCHANGED <<slots, ai>> /\ n' = n + 1
          /\ spc = "counting" /\ spc' = "indexing"
      BY <2>6 DEF PushCount, Steps
    <3>2. Window' = Window
      BY <1>1, <1>3, <2>1, <3>1 DEF Window, Arrived
    <3>3. QED
      BY <1>4, <2>2, <3>1, <3>2, FreshKept
  <2>7. CASE PushRefused \/ PushBegin \/ PushLock \/ PushUnlock \/ Kill
    <3>1. /\ UNCHANGED <<slots, ai, n>>
          /\ spc' = spc \/ {spc, spc'} \cap {"filling", "counting", "indexing"} = {}
      BY <2>7 DEF PushRefused, PushBegin, PushLock, PushUnlock, Kill, Steps, memory
    <3>2. Window' = Window
      BY <1>3, <2>1, <3>1 DEF Window, Arrived
    <3>3. QED
      BY <1>4, <2>2, <3>1, <3>2, FreshKept
  <2>8. QED
    BY <1>6, <2>3, <2>4, <2>5, <2>6, <2>7 DEF Pushes
<1>7. QED
  BY <1>5, <1>6

(* What is delivered of the output buffer *)
LEMMA GivenAdds ==
    ASSUME TypeOK, NEW v \in Scraps, out' = Added(v), ppc # "gone", ppc' # "gone"
    PROVE  Given' = StreamFeed!Kept(Given, v)
<1> DEFINE e == [value |-> v, posed |-> pose]
<1>1. out \in Seq(Outputs) /\ Len(out) <= Size /\ e \in Outputs /\ e.value = v
  BY DEF TypeOK, Outputs
<1>2. Given = [i \in DOMAIN out |-> out[i].value] /\ Given' = [i \in DOMAIN out' |-> out'[i].value]
  BY DEF Given
<1>3. \A i \in 1 .. Len(out) : out[i].value \in Scraps
  <2>1. \A i \in 1 .. Len(out) : out[i] \in Outputs
    BY <1>1, ElementOfSeq
  <2>2. \A o \in Outputs : o.value \in Scraps
    BY DEF Outputs
  <2>3. QED
    BY <2>1, <2>2
<1>4. /\ Given \in Seq(Scraps) /\ Len(Given) = Len(out)
      /\ \A i \in 1 .. Len(out) : Given[i] = out[i].value
  <2>1. DOMAIN out = 1 .. Len(out) /\ Len(out) \in Nat
    BY <1>1
  <2>2. Given \in [1 .. Len(out) -> Scraps]
    BY <1>2, <1>3, <2>1
  <2>3. QED
    BY <1>2, <2>1, <2>2
<1> HIDE DEF e
<1>5. CASE Len(out) < Size
  <2>1. out' = Append(out, e)
    BY <1>5 DEF Added, e
  <2>2. /\ DOMAIN out' = 1 .. Len(out) + 1
        /\ out'[Len(out) + 1] = e /\ \A i \in 1 .. Len(out) : out'[i] = out[i]
    BY <1>1, <2>1
  <2>3. Given' = Append(Given, v)
    BY <1>1, <1>2, <1>4, <2>2
  <2>4. QED
    BY <1>4, <1>5, <2>3 DEF StreamFeed!Kept
<1>6. CASE ~(Len(out) < Size)
  <2>1. out' = Append(Tail(out), e) /\ Len(out) = Size
    BY <1>1, <1>6 DEF Added, e
  <2>2. /\ DOMAIN out' = 1 .. Size
        /\ out'[Size] = e /\ \A i \in 1 .. Size - 1 : out'[i] = out[i + 1]
    BY <1>1, <2>1
  <2>3. Given' = Append(Tail(Given), v)
    BY <1>1, <1>2, <1>4, <2>1, <2>2
  <2>4. QED
    BY <1>4, <1>6, <2>3 DEF StreamFeed!Kept
<1>7. QED
  BY <1>5, <1>6

(* Each step of the stream is a step of the feed or leaves the feed alone. *)
LEMMA StepsOfFeed ==
    ASSUME IInv, [Next]_vars
    PROVE  \/ StreamFeed!FeedNext
           \/ UNCHANGED <<Gate, Fresh, Batch, Given>>
<1>1. TypeOK /\ RingInv
  BY DEF IInv
<1>2. ASSUME UNCHANGED output, ppc # "gone", ppc' # "gone" PROVE Given' = Given
  BY <1>2 DEF Given, output
<1>3. ASSUME UNCHANGED <<slots, ai, n, done, spc, status>>,
             ppc # "gone", ppc' # "gone", ppc = "lock" <=> ppc' = "lock"
      PROVE  Window' = Window /\ Fresh' = Fresh /\ (Gate = "open" <=> Gate' = "open")
  <2>1. Window' = Window /\ (Gate = "open" <=> Gate' = "open")
    BY <1>3 DEF Window, Arrived, Gate
  <2>2. QED
    BY <1>3, <2>1, FreshKept
<1>4. CASE Sensor \/ SensorKilled
  <2>1. Given' = Given
    BY <1>4 DEF Sensor, SensorKilled, Connects, Connect, InitHeader, InitRing, Announce, Pushes,
         PushRefused, PushBegin, PushLock, PushTime, PushVector, PushCount, PushIndex, PushUnlock,
         Kill, Steps, reader, Given, output
  <2>2. Connects \/ Pushes \/ Kill
    BY <1>4 DEF Sensor, SensorKilled
  <2>3. /\ Batch' = Batch
        /\ \/ /\ Gate' = Gate
              /\ \/ Fresh' = Fresh
                 \/ Gate = "open" /\ Len(Fresh) = Size /\ Fresh' = Tail(Fresh)
                 \/ /\ Gate = "open" /\ Len(Fresh) < Size
                    /\ \E v \in Elements : Fresh' = Append(Fresh, v)
           \/ Gate = "shut" /\ Gate' = "open" /\ Fresh' = Fresh
    BY <1>1, <2>2, SensorFeeds
  <2>4. QED
    BY <2>1, <2>3 DEF StreamFeed!FeedNext, StreamFeed!Push, StreamFeed!Lose, StreamFeed!Open,
                      Fresh, Batch, Given
<1>5. CASE TickBegin \/ TickTest
  <2>1. /\ UNCHANGED <<slots, ai, n, done, spc, status, output>>
        /\ ppc \in {"idle", "test"} /\ ppc' \in {"test", "fuse", "lock", "count"}
        /\ ppc' \in {"test", "lock"} => status = "ok"
        /\ ppc' = "fuse" => ppc = "idle" /\ status # "ok"
        /\ ppc' = "count" => ppc = "test" /\ status # "ok"
    BY <1>5 DEF TickBegin, TickTest, TranslateBegin, TranslateTest, memory, sensor
  <2>2. Window' = Window
    BY <2>1 DEF Window, Arrived
  <2>3. Fresh' = Fresh
    BY <2>1, <2>2, FreshKept
  <2>4. Batch' = Batch /\ Gate' = Gate
    BY <2>1 DEF Batch, Gate, Bare
  <2>5. QED
    BY <1>2, <2>1, <2>3, <2>4
<1>6. CASE TickLock
  <2>1. /\ UNCHANGED <<slots, ai, output, spc, n, status>> /\ left' = Count /\ done' = n
        /\ ppc = "lock" /\ ppc' = "copy" /\ mutex = "free"
    BY <1>6 DEF TickLock, TranslateLock, sensor
  <2>2. spc \notin {"filling", "counting", "indexing"} /\ n \in Nat /\ done \in Nat
    BY <1>1, <2>1 DEF RingInv, Excluded, Pushing, RingTypeOK
  <2>3. Window = Count /\ Window' = 0
    BY <2>1, <2>2 DEF Window, Arrived, Count
  <2>4. Batch = <<>> /\ Batch' = Fresh
    BY <2>1, <2>3 DEF Batch, Fresh, Pending
  <2>5. Fresh' = <<>> /\ Given' = Given
    BY <1>2, <2>1, <2>3, NothingFresh
  <2>6. Gate = "open" /\ Gate' \in {"open", "shut"}
    BY <2>1 DEF Gate, Bare
  <2>7. StreamFeed!Take
    BY <2>4, <2>5, <2>6 DEF StreamFeed!Take, Fresh, Batch, Given
  <2>8. QED
    BY <2>7 DEF StreamFeed!FeedNext
<1>7. CASE TickCopy
  <2>1. /\ ppc = "copy" /\ left > 0 /\ left' = left - 1 /\ out' = Added(Source)
        /\ UNCHANGED <<slots, ai, n, done, spc, status, ppc>>
    BY <1>7 DEF TickCopy, TranslateNext, memory, sensor
  <2>2. Source = slots[Slot(left)] /\ Source \in Scraps
    BY <1>1, <2>1, SourceWhole, WholeElements
  <2>3. /\ slots \in [0 .. Size - 1 -> Scraps] /\ ai \in 0 .. Size - 1
        /\ left \in 1 .. Size
    BY <1>1, <2>1 DEF RingInv, RingTypeOK, Counted
  <2>4. /\ Run(slots, ai, left) # <<>> /\ Head(Run(slots, ai, left)) = Source
        /\ Tail(Run(slots, ai, left)) = Run(slots, ai, left - 1)
    BY <2>2, <2>3, RunTail DEF Slot
  <2>5. Batch # <<>> /\ Head(Batch) = Source /\ Batch' = Tail(Batch)
    BY <2>1, <2>4 DEF Batch, Pending, Run
  <2>6. Given' = StreamFeed!Kept(Given, Head(Batch))
    BY <1>1, <2>1, <2>2, <2>5, GivenAdds
  <2>7. Fresh' = Fresh /\ Gate' = Gate
    BY <1>3, <2>1 DEF Gate
  <2>8. StreamFeed!Deliver
    BY <2>5, <2>6, <2>7 DEF StreamFeed!Deliver, Fresh, Batch, Given
  <2>9. QED
    BY <2>8 DEF StreamFeed!FeedNext
<1>8. CASE TickPeek
  <2>1. /\ ppc \in Bare /\ ppc' \in Bare
        /\ UNCHANGED <<slots, ai, n, spc, status, output>>
    BY <1>8 DEF TickPeek, PeekCount, PeekFrom, PeekUpto, PeekMark, PeekTime, Peeks, Bare, memory,
                sensor
  <2>2. status = "finalize"
    BY <1>1, <2>1 DEF RingInv, Excluded
  <2>3. Window = 0 /\ Window' = 0 /\ Gate' = Gate /\ Batch' = Batch
    BY <2>1, <2>2 DEF Window, Gate, Batch, Bare
  <2>4. Given' = Given
    BY <1>2, <2>1 DEF Bare
  <2>5. QED
    BY <2>3, <2>4, NothingFresh
<1>9. CASE TickPeekCopy
  <2>1. /\ ppc = "vector" /\ ppc' = "time" /\ UNCHANGED <<slots, ai, n, spc, status>>
        /\ \E v \in Glimpses : out' = Added(v)
    BY <1>9 DEF TickPeekCopy, PeekVector, Peeks, memory, sensor
  <2>2. status = "finalize"
    BY <1>1, <2>1 DEF RingInv, Excluded, Bare
  <2>3. Window = 0 /\ Window' = 0 /\ Gate = "caught" /\ Gate' = "caught" /\ Batch' = Batch
    BY <2>1, <2>2 DEF Window, Gate, Batch, Bare
  <2>4. PICK v \in Scraps : out' = Added(v)
    BY <1>1, <2>1, GlimpseScrap
  <2>5. Given' = StreamFeed!Kept(Given, v)
    BY <1>1, <2>1, <2>4, GivenAdds
  <2>6. StreamFeed!Spill
    BY <2>3, <2>5, NothingFresh DEF StreamFeed!Spill, Fresh, Batch, Given
  <2>7. QED
    BY <2>6 DEF StreamFeed!FeedNext
<1>10. CASE TickUnlock
  <2>1. /\ ppc \in {"copy", "time"} /\ ppc' = "fuse" /\ left = 0
        /\ UNCHANGED <<slots, ai, n, done, spc, status, output>>
    BY <1>10 DEF TickUnlock, TranslateUnlock, sensor
  <2>2. Fresh' = Fresh /\ Given' = Given /\ Batch' = Batch
    BY <1>2, <1>3, <2>1 DEF Batch, Pending
  <2>3. Gate' = Gate \/ (Gate = "caught" /\ Gate' = "shut")
    BY <2>1 DEF Gate, Bare
  <2>4. QED
    BY <2>2, <2>3 DEF StreamFeed!FeedNext, StreamFeed!Shut, Fresh, Batch, Given
<1>11. CASE TickFuse
  <2>1. /\ ppc = "fuse" /\ ppc' = "idle"
        /\ UNCHANGED <<slots, ai, n, done, spc, status, output>>
    BY <1>11 DEF TickFuse, memory, sensor
  <2>2. Fresh' = Fresh /\ Given' = Given /\ Batch' = Batch /\ Gate' = Gate
    BY <1>2, <1>3, <2>1 DEF Batch, Gate, Bare
  <2>3. QED
    BY <2>2
<1>12. CASE TickSensorLost
  <2>1. ppc = "fuse" /\ ppc' = "idle" /\ status' = "finalize" /\ UNCHANGED output
    BY <1>12 DEF TickSensorLost, Finalize
  <2>2. Window' = 0 /\ (Gate # "open" => Window = 0)
    BY <2>1 DEF Window, Gate
  <2>3. Fresh' = <<>> /\ Batch' = Batch /\ Given' = Given
    BY <1>2, <2>1, <2>2, NothingFresh DEF Batch
  <2>4. Gate \in {"open", "shut"} /\ Gate' = "shut" /\ (Gate = "shut" => Fresh = <<>>)
    BY <2>1, <2>2, NothingFresh DEF Gate, Bare
  <2>5. QED
    BY <2>3, <2>4 DEF StreamFeed!FeedNext, StreamFeed!Close, Fresh, Batch, Given
<1>13. CASE Main
  <2>1. /\ ppc = "idle" /\ UNCHANGED <<slots, ai, n, done, left, spc, status, ppc>>
        /\ out' \in {out, <<>>}
    BY <1>13 DEF Main, Countdown, FirstWaitOver, LaunchPoseSet, SecondWaitOver, Launch,
                 Standby, MainStep, ring, memory, sensor, reader, output, OutputAfterPose
  <2>2. Fresh' = Fresh /\ Batch' = Batch /\ Gate' = Gate
    BY <1>3, <2>1 DEF Batch, Gate
  <2>3. Given' = Given \/ Given' = <<>>
    BY <2>1 DEF Given
  <2>4. QED
    BY <2>2, <2>3 DEF StreamFeed!FeedNext, StreamFeed!Clear, Fresh, Batch, Given
<1>14. CASE Interrupt
  <2>1. /\ ppc # "gone" /\ status' = "finalize"
        /\ UNCHANGED <<slots, ai, n, done, left, spc, ppc, output>>
    BY <1>14 DEF Interrupt, Finalize, sensor, reader
  <2>2. Batch' = Batch /\ Given' = Given
    BY <1>2, <2>1 DEF Batch, Pending
  <2>3. CASE ppc = "lock"
    <3>1. Window' = Window /\ Gate' = Gate
      BY <2>1, <2>3 DEF Window, Arrived, Gate
    <3>2. Fresh' = Fresh
      BY <2>1, <3>1, FreshKept
    <3>3. QED
      BY <2>2, <3>1, <3>2
  <2>4. CASE ppc # "lock"
    <3>1. Window' = 0 /\ (Gate # "open" => Window = 0)
      BY <2>1, <2>4 DEF Window, Gate
    <3>2. Fresh' = <<>> /\ (Gate # "open" => Fresh = <<>>)
      BY <3>1, NothingFresh
    <3>3. CASE Gate = "open"
      <4>1. status = "ok"
        BY <2>4, <3>3 DEF Gate
      <4>2. ppc \notin Bare
        BY <1>1, <4>1 DEF RingInv, Excluded
      <4>3. CASE ppc = "test"
        <5>1. Gate' = "caught" /\ Batch = <<>>
          BY <2>1, <4>3 DEF Gate, Batch
        <5>2. QED
          BY <2>2, <3>2, <3>3, <5>1
             DEF StreamFeed!FeedNext, StreamFeed!Catch, Fresh, Batch, Given
      <4>4. CASE ppc # "test"
        <5>1. Gate' = "shut"
          BY <2>1, <2>4, <4>2, <4>4 DEF Gate
        <5>2. QED
          BY <2>2, <3>2, <3>3, <5>1
             DEF StreamFeed!FeedNext, StreamFeed!Close, Fresh, Batch, Given
      <4>5. QED
        BY <4>3, <4>4
    <3>4. CASE Gate # "open"
      <4>1. Gate' = Gate
        BY <2>1, <2>4, <3>4 DEF Gate
      <4>2. QED
        BY <2>2, <3>2, <3>4, <4>1
    <3>5. QED
      BY <3>3, <3>4
  <2>5. QED
    BY <2>3, <2>4
<1>15. CASE Exit \/ Crash
  <2>1. ppc' = "gone"
    BY <1>15 DEF Exit, Crash, Gone
  <2>2. Window' = 0 /\ Gate' = "shut"
    BY <2>1 DEF Window, Gate, Bare
  <2>3. Fresh' = <<>> /\ Batch' = <<>> /\ Given' = <<>>
    BY <2>1, <2>2, NothingFresh DEF Batch, Given
  <2>4. QED
    BY <2>2, <2>3 DEF StreamFeed!FeedNext, StreamFeed!End, Fresh, Batch, Given
<1>16. CASE Restart
  <2>1. ppc = "gone" /\ ppc' = "idle" /\ status' = "initialize" /\ out' = <<>>
    BY <1>16 DEF Restart, Recreate
  <2>2. Window = 0 /\ Window' = 0 /\ Gate = "shut" /\ Gate' = "shut"
    BY <2>1 DEF Window, Gate, Bare
  <2>3. Fresh' = Fresh
    BY <2>2, NothingFresh
  <2>4. Batch' = Batch /\ Given' = Given
    BY <2>1 DEF Batch, Given
  <2>5. QED
    BY <2>2, <2>3, <2>4
<1>17. CASE UNCHANGED vars
  BY <1>17 DEF vars, ring, memory, sensor, reader, output, Fresh, Batch, Given, Window, Arrived,
               Pending, Gate
<1>18. QED
  BY <1>4, <1>5, <1>6, <1>7, <1>8, <1>9, <1>10, <1>11, <1>12, <1>13, <1>14, <1>15, <1>16, <1>17
     DEF Next, Tick

LEMMA StartOfFeed == Init => StreamFeed!FeedInit
<1> SUFFICES ASSUME Init PROVE StreamFeed!FeedInit
  OBVIOUS
<1>1. ppc = "idle" /\ status = "initialize" /\ out = <<>>
  BY DEF Init, RingInit
<1>2. Window = 0 /\ Gate = "shut"
  BY <1>1 DEF Window, Gate, Bare
<1>3. Fresh = <<>> /\ Batch = <<>> /\ Given = <<>>
  BY <1>1, <1>2, NothingFresh DEF Batch, Given
<1>4. QED
  BY <1>2, <1>3 DEF StreamFeed!FeedInit, Fresh, Batch, Given

-------------------------------------------------------------------------------
(* The strengthened invariant holds in every state. *)
THEOREM Invariant == Spec => []IInv
<1>1. Init => IInv
  BY InitInv
<1>2. IInv /\ [Next]_vars => IInv'
  BY StepInv
<1>3. QED
  BY <1>1, <1>2, PTL DEF Spec

(* The indices of the ring and the counts of the pilot stay in their ranges, and the
   output buffer holds no more elements than the configured size. *)
THEOREM TypeCorrect == Spec => []TypeOK
<1>1. IInv => TypeOK
  BY DEF IInv
<1>2. QED
  BY <1>1, Invariant, PTL

(* The sensor never pushes without the mutex, and the pilot is in the ring without it
   only in the tick a shutdown catches between its tests of the status, through every
   kill, crash, shutdown and restart. *)
THEOREM NobodyMeets == Spec => []Excluded
<1>1. IInv => Excluded
  BY DEF IInv, RingInv
<1>2. QED
  BY <1>1, Invariant, PTL

(* The values the pilot flies by all had the launch pose in force taken off. *)
THEOREM PoseTakenOff == Spec => []Corrected
<1>1. IInv => Corrected
  BY DEF IInv
<1>2. QED
  BY <1>1, Invariant, PTL

(* What the sensor pushes arrives whole, once and in order, but in the tick a shutdown
   catches between its tests: the stream is a feed. *)
THEOREM KeepsFeed == Spec => ImplementsFeed
<1>1. Init => StreamFeed!FeedInit
  BY StartOfFeed
<1>2. IInv /\ [Next]_vars => [StreamFeed!FeedNext]_(StreamFeed!feed)
  BY StepsOfFeed DEF StreamFeed!feed, Fresh, Batch, Given
<1>3. QED
  BY <1>1, <1>2, Invariant, PTL DEF Spec, ImplementsFeed, StreamFeed!FeedSpec
=================================================================================

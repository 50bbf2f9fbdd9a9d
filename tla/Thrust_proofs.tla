----------------------------- MODULE Thrust_proofs -----------------------------
(***************************************************************************)
(* Proofs about the thrust of one tick, for every full thrust, gain and    *)
(* limit: the thrusts and the integral stay in range, roll and pitch get   *)
(* what they demanded, and yaw is given up first and no more than needed.  *)
(***************************************************************************)
EXTENDS Thrust, TLAPS

USE ThrustAssumption DEF ThrustAssumption

-------------------------------------------------------------------------------
(* The four motors                                                           *)

LEMMA MotorsAre == \A m : m \in Motors <=> m = 1 \/ m = 2 \/ m = 3 \/ m = 4
  BY DEF Motors

LEMMA Forces ==
    /\ YawForce[1] = -1 /\ YawForce[2] = 1 /\ YawForce[3] = -1 /\ YawForce[4] = 1
    /\ PitchForce[1] = 1 /\ PitchForce[2] = -1 /\ PitchForce[3] = -1 /\ PitchForce[4] = 1
    /\ RollForce[1] = -1 /\ RollForce[2] = -1 /\ RollForce[3] = 1 /\ RollForce[4] = 1
  BY DEF YawForce, PitchForce, RollForce

(* Thrusts before they are in range *)
Raw == [Motors -> Int]

LEMMA WantedIs ==
    ASSUME altitude \in Int, NEW rpy \in Rpys
    PROVE  LET t == Wanted(rpy)
           IN  /\ t \in Raw
               /\ t[1] = altitude - rpy.yaw + rpy.pitch - rpy.roll
               /\ t[2] = altitude + rpy.yaw - rpy.pitch - rpy.roll
               /\ t[3] = altitude - rpy.yaw - rpy.pitch + rpy.roll
               /\ t[4] = altitude + rpy.yaw + rpy.pitch + rpy.roll
<1> DEFINE t == Wanted(rpy)
<1>1. rpy.yaw \in Int /\ rpy.pitch \in Int /\ rpy.roll \in Int
  BY DEF Rpys, Demands
<1>2. /\ t[1] = altitude - rpy.yaw + rpy.pitch - rpy.roll
      /\ t[2] = altitude + rpy.yaw - rpy.pitch - rpy.roll
      /\ t[3] = altitude - rpy.yaw - rpy.pitch + rpy.roll
      /\ t[4] = altitude + rpy.yaw + rpy.pitch + rpy.roll
  BY <1>1, Forces, MotorsAre DEF Wanted
<1>3. t \in Raw
  <2>1. t = [m \in Motors |-> t[m]]
    BY DEF Wanted
  <2>2. \A m \in Motors : t[m] \in Int
    BY <1>1, <1>2, MotorsAre
  <2>3. QED
    BY <2>1, <2>2 DEF Raw
<1>4. QED
  BY <1>2, <1>3

LEMMA YawedIs ==
    ASSUME NEW t \in Raw, NEW f \in Int
    PROVE  LET y == Yawed(t, f)
           IN  /\ y \in Raw
               /\ y[1] = t[1] - f /\ y[2] = t[2] + f /\ y[3] = t[3] - f /\ y[4] = t[4] + f
<1> DEFINE y == Yawed(t, f)
<1>1. \A m \in Motors : t[m] \in Int
  BY DEF Raw
<1>2. y[1] = t[1] - f /\ y[2] = t[2] + f /\ y[3] = t[3] - f /\ y[4] = t[4] + f
  BY <1>1, Forces, MotorsAre DEF Yawed
<1>3. y \in Raw
  <2>1. y = [m \in Motors |-> y[m]]
    BY DEF Yawed
  <2>2. \A m \in Motors : y[m] \in Int
    BY <1>1, <1>2, MotorsAre
  <2>3. QED
    BY <2>1, <2>2 DEF Raw
<1>4. QED
  BY <1>2, <1>3

LEMMA OffsetIs ==
    ASSUME NEW x \in Int
    PROVE  /\ Offset(x) = IF x < 0 THEN -x ELSE IF x > Unit THEN Unit - x ELSE 0
           /\ Offset(x) \in Int
           /\ Truncated(x) \in 0 .. Unit
  BY DEF Offset, Truncated

(* The set of the yaw thrusts asked for, spelled out *)
LEMMA FactorsAre ==
    ASSUME NEW t \in Raw
    PROVE  Factors(t) = {-Offset(t[1]), Offset(t[2]), -Offset(t[3]), Offset(t[4])}
<1>1. \A m \in Motors : t[m] \in Int /\ Offset(t[m]) \in Int
  BY OffsetIs DEF Raw
<1>2. /\ Offset(t[1]) * YawForce[1] = -Offset(t[1]) /\ Offset(t[2]) * YawForce[2] = Offset(t[2])
      /\ Offset(t[3]) * YawForce[3] = -Offset(t[3]) /\ Offset(t[4]) * YawForce[4] = Offset(t[4])
  BY <1>1, Forces, MotorsAre
<1>3. Factors(t) = {Offset(t[1]) * YawForce[1], Offset(t[2]) * YawForce[2],
                    Offset(t[3]) * YawForce[3], Offset(t[4]) * YawForce[4]}
  BY MotorsAre, Zenon DEF Factors
<1>4. QED
  BY <1>2, <1>3, Zenon

LEMMA LargestIs ==
    ASSUME NEW a \in Int, NEW b \in Int, NEW c \in Int, NEW d \in Int
    PROVE  LET S == {a, b, c, d}
           IN  Largest(S) \in S /\ \A g \in S : Abs(g) <= Abs(Largest(S))
<1> DEFINE S == {a, b, c, d}
<1>1. \E f \in S : \A g \in S : Abs(g) <= Abs(f)
  BY DEF Abs
<1>2. QED
  BY <1>1, Zenon DEF Largest

LEMMA InRangeIs ==
    ASSUME NEW t \in Raw
    PROVE  InRange(t) <=> /\ t[1] \in 0 .. Unit /\ t[2] \in 0 .. Unit
                          /\ t[3] \in 0 .. Unit /\ t[4] \in 0 .. Unit
<1>1. t[1] \in Int /\ t[2] \in Int /\ t[3] \in Int /\ t[4] \in Int
  BY MotorsAre DEF Raw
<1>2. QED
  BY <1>1, MotorsAre DEF InRange

-------------------------------------------------------------------------------
(* Relaxing yaw                                                              *)

(* The first of the two yaw thrusts, and the second that takes it back *)
LEMMA FactorBounds ==
    ASSUME NEW t \in Raw
    PROVE  LET f == Largest(Factors(t))
               o == [m \in Motors |-> Offset(t[m])]
           IN  /\ f \in Int
               /\ f = -o[1] \/ f = o[2] \/ f = -o[3] \/ f = o[4]
               /\ Abs(o[1]) <= Abs(f) /\ Abs(o[2]) <= Abs(f)
               /\ Abs(o[3]) <= Abs(f) /\ Abs(o[4]) <= Abs(f)
<1> DEFINE f == Largest(Factors(t))
           o == [m \in Motors |-> Offset(t[m])]
<1>1. /\ o[1] = Offset(t[1]) /\ o[2] = Offset(t[2]) /\ o[3] = Offset(t[3]) /\ o[4] = Offset(t[4])
  BY MotorsAre
<1>2. o[1] \in Int /\ o[2] \in Int /\ o[3] \in Int /\ o[4] \in Int
  BY <1>1, MotorsAre, OffsetIs DEF Raw
<1>3. Factors(t) = {-o[1], o[2], -o[3], o[4]}
  BY <1>1, FactorsAre
<1> HIDE DEF o
<1>4. /\ f \in {-o[1], o[2], -o[3], o[4]}
      /\ \A g \in {-o[1], o[2], -o[3], o[4]} : Abs(g) <= Abs(f)
  <2>1. -o[1] \in Int /\ -o[3] \in Int
    BY <1>2
  <2>2. LET S == {-o[1], o[2], -o[3], o[4]}
        IN  Largest(S) \in S /\ \A g \in S : Abs(g) <= Abs(Largest(S))
    BY ONLY <1>2, <2>1, LargestIs, Zenon
  <2>3. f = Largest({-o[1], o[2], -o[3], o[4]})
    BY <1>3
  <2>4. QED
    BY <2>2, <2>3, Zenon
<1>5. /\ Abs(-o[1]) <= Abs(f) /\ Abs(o[2]) <= Abs(f)
      /\ Abs(-o[3]) <= Abs(f) /\ Abs(o[4]) <= Abs(f)
  BY <1>4, Zenon
<1>6. f \in Int
  BY <1>2, <1>4
<1> HIDE DEF f
<1>7. Abs(-o[1]) = Abs(o[1]) /\ Abs(-o[3]) = Abs(o[3])
  BY <1>2 DEF Abs
<1>8. QED
  BY <1>4, <1>5, <1>6, <1>7 DEF f, o

LEMMA ConflictIs ==
    ASSUME NEW t \in Raw
    PROVE  LET o == [m \in Motors |-> Offset(t[m])]
           IN  Conflict(t) <=> /\ -o[1] < 0 \/ o[2] < 0 \/ -o[3] < 0 \/ o[4] < 0
                               /\ -o[1] > 0 \/ o[2] > 0 \/ -o[3] > 0 \/ o[4] > 0
<1> DEFINE o == [m \in Motors |-> Offset(t[m])]
<1>1. /\ o[1] = Offset(t[1]) /\ o[2] = Offset(t[2]) /\ o[3] = Offset(t[3]) /\ o[4] = Offset(t[4])
  BY MotorsAre
<1>2. Factors(t) = {-o[1], o[2], -o[3], o[4]}
  BY <1>1, FactorsAre
<1> HIDE DEF o
<1>3. QED
  BY <1>2, Zenon DEF Conflict, o

(* Where some yaw thrust brings all motors into range, the first one does, no
   other is smaller, and nothing is taken back. *)
LEMMA SmallestYaw ==
    ASSUME NEW t \in Raw, NEW g \in Int, InRange(Yawed(t, g))
    PROVE  /\ ~Conflict(t)
           /\ YawFactor(t) \in Int /\ Abs(YawFactor(t)) <= Abs(g)
           /\ InRange(Yawed(t, YawFactor(t)))
<1> DEFINE f == Largest(Factors(t))
           o == [m \in Motors |-> Offset(t[m])]
           y == Yawed(t, f)
           h == Largest(Factors(y))
           p == [m \in Motors |-> Offset(y[m])]
<1>1. t[1] \in Int /\ t[2] \in Int /\ t[3] \in Int /\ t[4] \in Int
  BY MotorsAre DEF Raw
<1>2. /\ t[1] - g \in 0 .. Unit /\ t[2] + g \in 0 .. Unit
      /\ t[3] - g \in 0 .. Unit /\ t[4] + g \in 0 .. Unit
  BY YawedIs, InRangeIs
<1>3. /\ o[1] = IF t[1] < 0 THEN -t[1] ELSE IF t[1] > Unit THEN Unit - t[1] ELSE 0
      /\ o[2] = IF t[2] < 0 THEN -t[2] ELSE IF t[2] > Unit THEN Unit - t[2] ELSE 0
      /\ o[3] = IF t[3] < 0 THEN -t[3] ELSE IF t[3] > Unit THEN Unit - t[3] ELSE 0
      /\ o[4] = IF t[4] < 0 THEN -t[4] ELSE IF t[4] > Unit THEN Unit - t[4] ELSE 0
  BY <1>1, MotorsAre, OffsetIs
<1>4. /\ f \in Int
      /\ f = -o[1] \/ f = o[2] \/ f = -o[3] \/ f = o[4]
      /\ Abs(o[1]) <= Abs(f) /\ Abs(o[2]) <= Abs(f) /\ Abs(o[3]) <= Abs(f) /\ Abs(o[4]) <= Abs(f)
  BY FactorBounds
<1>5. Conflict(t) <=> /\ -o[1] < 0 \/ o[2] < 0 \/ -o[3] < 0 \/ o[4] < 0
                      /\ -o[1] > 0 \/ o[2] > 0 \/ -o[3] > 0 \/ o[4] > 0
  BY ConflictIs
<1>6. y \in Raw /\ y[1] = t[1] - f /\ y[2] = t[2] + f /\ y[3] = t[3] - f /\ y[4] = t[4] + f
  BY <1>4, YawedIs
<1> HIDE DEF f, o
<1>7. ~Conflict(t)
  BY <1>1, <1>2, <1>3, <1>5
<1>8. Abs(f) <= Abs(g)
  BY <1>1, <1>2, <1>3, <1>4 DEF Abs
<1>9. /\ t[1] - f \in 0 .. Unit /\ t[2] + f \in 0 .. Unit
      /\ t[3] - f \in 0 .. Unit /\ t[4] + f \in 0 .. Unit
  BY <1>1, <1>2, <1>3, <1>4 DEF Abs
<1>10. InRange(y)
  BY <1>6, <1>9, InRangeIs
<1>11. h = 0
  <2>1. /\ h \in Int
        /\ h = -p[1] \/ h = p[2] \/ h = -p[3] \/ h = p[4]
    BY <1>6, FactorBounds
  <2>2. p[1] = 0 /\ p[2] = 0 /\ p[3] = 0 /\ p[4] = 0
    BY <1>6, <1>9, MotorsAre, OffsetIs
  <2>3. QED
    BY <2>1, <2>2
<1>12. YawFactor(t) = f + h
  BY DEF YawFactor, f
<1> HIDE DEF h, y
<1>13. YawFactor(t) = f
  BY <1>4, <1>11, <1>12
<1>14. QED
  BY <1>4, <1>7, <1>8, <1>10, <1>13 DEF y

(* What yaw is relaxed by drives no motor out of range that was in it. *)
LEMMA NoneDrivenOut ==
    ASSUME NEW t \in Raw
    PROVE  /\ YawFactor(t) \in Int
           /\ RelaxedYaw(t) \in Raw
           /\ \A m \in Motors : Offset(t[m]) = 0 => Offset(RelaxedYaw(t)[m]) = 0
<1> DEFINE f == Largest(Factors(t))
           o == [m \in Motors |-> Offset(t[m])]
           y == Yawed(t, f)
           h == Largest(Factors(y))
           p == [m \in Motors |-> Offset(y[m])]
           z == Yawed(t, f + h)
<1>1. t[1] \in Int /\ t[2] \in Int /\ t[3] \in Int /\ t[4] \in Int
  BY MotorsAre DEF Raw
<1>2. /\ o[1] = Offset(t[1]) /\ o[2] = Offset(t[2]) /\ o[3] = Offset(t[3]) /\ o[4] = Offset(t[4])
      /\ p[1] = Offset(y[1]) /\ p[2] = Offset(y[2]) /\ p[3] = Offset(y[3]) /\ p[4] = Offset(y[4])
  BY MotorsAre
<1>3. /\ o[1] = IF t[1] < 0 THEN -t[1] ELSE IF t[1] > Unit THEN Unit - t[1] ELSE 0
      /\ o[2] = IF t[2] < 0 THEN -t[2] ELSE IF t[2] > Unit THEN Unit - t[2] ELSE 0
      /\ o[3] = IF t[3] < 0 THEN -t[3] ELSE IF t[3] > Unit THEN Unit - t[3] ELSE 0
      /\ o[4] = IF t[4] < 0 THEN -t[4] ELSE IF t[4] > Unit THEN Unit - t[4] ELSE 0
  BY <1>1, <1>2, OffsetIs
<1>4. /\ f \in Int
      /\ f = -o[1] \/ f = o[2] \/ f = -o[3] \/ f = o[4]
      /\ Abs(o[1]) <= Abs(f) /\ Abs(o[2]) <= Abs(f) /\ Abs(o[3]) <= Abs(f) /\ Abs(o[4]) <= Abs(f)
  BY FactorBounds
<1>5. Conflict(t) <=> /\ -o[1] < 0 \/ o[2] < 0 \/ -o[3] < 0 \/ o[4] < 0
                      /\ -o[1] > 0 \/ o[2] > 0 \/ -o[3] > 0 \/ o[4] > 0
  BY ConflictIs
<1>6. y \in Raw /\ y[1] = t[1] - f /\ y[2] = t[2] + f /\ y[3] = t[3] - f /\ y[4] = t[4] + f
  BY <1>4, YawedIs
<1>7. /\ h \in Int
      /\ h = -p[1] \/ h = p[2] \/ h = -p[3] \/ h = p[4]
      /\ Abs(p[1]) <= Abs(h) /\ Abs(p[2]) <= Abs(h) /\ Abs(p[3]) <= Abs(h) /\ Abs(p[4]) <= Abs(h)
  BY <1>6, FactorBounds
<1>8. y[1] \in Int /\ y[2] \in Int /\ y[3] \in Int /\ y[4] \in Int
  BY <1>1, <1>4, <1>6
<1>9. /\ p[1] = IF y[1] < 0 THEN -y[1] ELSE IF y[1] > Unit THEN Unit - y[1] ELSE 0
      /\ p[2] = IF y[2] < 0 THEN -y[2] ELSE IF y[2] > Unit THEN Unit - y[2] ELSE 0
      /\ p[3] = IF y[3] < 0 THEN -y[3] ELSE IF y[3] > Unit THEN Unit - y[3] ELSE 0
      /\ p[4] = IF y[4] < 0 THEN -y[4] ELSE IF y[4] > Unit THEN Unit - y[4] ELSE 0
  BY <1>2, <1>8, OffsetIs
<1>10. f + h \in Int /\ YawFactor(t) = f + h
  BY <1>4, <1>7 DEF YawFactor
<1>11. /\ z \in Raw
       /\ z[1] = t[1] - (f + h) /\ z[2] = t[2] + (f + h) /\ z[3] = t[3] - (f + h)
       /\ z[4] = t[4] + (f + h)
  BY <1>10, YawedIs
<1>12. CASE Conflict(t)
  BY <1>10, <1>12 DEF RelaxedYaw
<1>13. CASE ~Conflict(t)
  <2>1. RelaxedYaw(t) = z
    BY <1>10, <1>13 DEF RelaxedYaw
  <2> HIDE DEF f, h, o, p, y, z
  <2>2. /\ o[1] = 0 => z[1] \in 0 .. Unit
        /\ o[2] = 0 => z[2] \in 0 .. Unit
        /\ o[3] = 0 => z[3] \in 0 .. Unit
        /\ o[4] = 0 => z[4] \in 0 .. Unit
    <3>1. Unit \in Nat
      OBVIOUS
    <3>2. CASE o[1] <= 0 /\ o[2] >= 0 /\ o[3] <= 0 /\ o[4] >= 0
      BY ONLY <1>1, <1>3, <1>4, <1>6, <1>7, <1>8, <1>9, <1>11, <3>1, <3>2 DEF Abs
    <3>3. CASE o[1] >= 0 /\ o[2] <= 0 /\ o[3] >= 0 /\ o[4] <= 0
      BY ONLY <1>1, <1>3, <1>4, <1>6, <1>7, <1>8, <1>9, <1>11, <3>1, <3>3 DEF Abs
    <3>4. o[1] \in Int /\ o[2] \in Int /\ o[3] \in Int /\ o[4] \in Int
      BY <1>1, <1>3
    <3>5. QED
      BY <1>5, <1>13, <3>2, <3>3, <3>4
  <2>3. \A m \in Motors : Offset(t[m]) = 0 => Offset(z[m]) = 0
    BY <1>2, <2>2, MotorsAre, OffsetIs
  <2>4. QED
    BY <1>10, <1>11, <2>1, <2>3
<1>14. QED
  BY <1>12, <1>13

-------------------------------------------------------------------------------
(* Relaxing the altitude, and the whole normalisation                        *)

LEMMA Spread ==
    ASSUME NEW t \in Raw
    PROVE  /\ Highest(t) \in Int /\ Lowest(t) \in Int
           /\ \A m \in Motors : Lowest(t) <= t[m] /\ t[m] <= Highest(t)
<1>1. t[1] \in Int /\ t[2] \in Int /\ t[3] \in Int /\ t[4] \in Int
  BY MotorsAre DEF Raw
<1>2. {t[m] : m \in Motors} = {t[1], t[2], t[3], t[4]}
  BY MotorsAre
<1>3. \E x \in {t[1], t[2], t[3], t[4]} : t[1] <= x /\ t[2] <= x /\ t[3] <= x /\ t[4] <= x
  BY <1>1
<1>4. \E x \in {t[1], t[2], t[3], t[4]} : t[1] >= x /\ t[2] >= x /\ t[3] >= x /\ t[4] >= x
  BY <1>1
<1>5. \E x \in {t[m] : m \in Motors} : \A m \in Motors : t[m] <= x
  BY <1>2, <1>3, MotorsAre, Zenon
<1>6. \E x \in {t[m] : m \in Motors} : \A m \in Motors : t[m] >= x
  BY <1>2, <1>4, MotorsAre, Zenon
<1>7. Highest(t) \in {t[m] : m \in Motors} /\ \A m \in Motors : t[m] <= Highest(t)
  BY <1>5, Zenon DEF Highest
<1>8. Lowest(t) \in {t[m] : m \in Motors} /\ \A m \in Motors : t[m] >= Lowest(t)
  BY <1>6, Zenon DEF Lowest
<1>9. Highest(t) \in Int /\ Lowest(t) \in Int
  BY <1>1, <1>2, <1>7, <1>8
<1>10. \A m \in Motors : t[m] \in Int
  BY DEF Raw
<1>11. QED
  BY <1>7, <1>8, <1>9, <1>10

(* A shift of thrusts that are close enough to each other cuts none of them off. *)
LEMMA ShiftKeeps ==
    ASSUME NEW t \in Raw, MayShift(t)
    PROVE  /\ Shift(t) \in Int
           /\ Shifted(t) \in [Motors -> 0 .. Unit]
           /\ \A m \in Motors : Shifted(t)[m] = t[m] + Shift(t)
<1>1. /\ Highest(t) \in Int /\ Lowest(t) \in Int
      /\ \A m \in Motors : Lowest(t) <= t[m] /\ t[m] <= Highest(t)
  BY Spread
<1>2. \A m \in Motors : t[m] \in Int
  BY DEF Raw
<1>3. Shift(t) \in Int /\ \A m \in Motors : t[m] + Shift(t) \in 0 .. Unit
  BY <1>1, <1>2 DEF MayShift, Shift
<1>4. \A m \in Motors : Truncated(t[m] + Shift(t)) = t[m] + Shift(t)
  BY <1>3 DEF Truncated
<1>5. QED
  BY <1>3, <1>4 DEF Shifted

LEMMA NormalizedInRange ==
    ASSUME NEW t \in Raw
    PROVE  /\ Normalized(t).thrust \in [Motors -> 0 .. Unit]
           /\ Normalized(t).outcome \in {"fits", "yaw", "altitude", "truncated"}
<1> DEFINE y == RelaxedYaw(t)
<1>1. y \in Raw
  BY NoneDrivenOut
<1>2. \A r \in Raw : InRange(r) => r \in [Motors -> 0 .. Unit]
  BY DEF Raw, InRange
<1>3. [m \in Motors |-> Truncated(y[m])] \in [Motors -> 0 .. Unit]
  BY <1>1, OffsetIs DEF Raw
<1>4. MayShift(y) => Shifted(y) \in [Motors -> 0 .. Unit]
  BY <1>1, ShiftKeeps
<1> HIDE DEF y
<1>5. CASE InRange(t)
  <2>1. Normalized(t) = [thrust |-> t, outcome |-> "fits"]
    BY <1>5, Zenon DEF Normalized
  <2>2. QED
    BY <1>2, <1>5, <2>1
<1>6. CASE ~InRange(t) /\ InRange(y)
  <2>1. Normalized(t) = [thrust |-> y, outcome |-> "yaw"]
    BY <1>6 DEF Normalized, y
  <2>2. QED
    BY <1>1, <1>2, <1>6, <2>1
<1>7. CASE ~InRange(t) /\ ~InRange(y) /\ MayShift(y)
  <2>1. Normalized(t) = [thrust |-> Shifted(y), outcome |-> "altitude"]
    BY <1>7 DEF Normalized, y
  <2>2. QED
    BY <1>4, <1>7, <2>1
<1>8. CASE ~InRange(t) /\ ~InRange(y) /\ ~MayShift(y)
  <2>1. Normalized(t) = [thrust |-> [m \in Motors |-> Truncated(y[m])], outcome |-> "truncated"]
    BY <1>8 DEF Normalized, y
  <2>2. QED
    BY <1>3, <2>1
<1>9. QED
  BY <1>5, <1>6, <1>7, <1>8

(* Yaw and altitude are orthogonal to roll and pitch, so that what is given up of
   them costs the others nothing. *)
LEMMA NormalizedKeeps ==
    ASSUME altitude \in Int, NEW rpy \in Rpys,
           Normalized(Wanted(rpy)).outcome \in {"fits", "yaw", "altitude"}
    PROVE  LET n == Normalized(Wanted(rpy))
           IN  /\ Torque(n.thrust, RollForce) = 4 * rpy.roll
               /\ Torque(n.thrust, PitchForce) = 4 * rpy.pitch
               /\ n.outcome # "altitude" => Torque(n.thrust, Equal(1)) = 4 * altitude
<1> DEFINE t == Wanted(rpy)
           y == RelaxedYaw(t)
           n == Normalized(t)
<1>1. rpy.yaw \in Int /\ rpy.pitch \in Int /\ rpy.roll \in Int
  BY DEF Rpys, Demands
<1>2. /\ t \in Raw
      /\ t[1] = altitude - rpy.yaw + rpy.pitch - rpy.roll
      /\ t[2] = altitude + rpy.yaw - rpy.pitch - rpy.roll
      /\ t[3] = altitude - rpy.yaw - rpy.pitch + rpy.roll
      /\ t[4] = altitude + rpy.yaw + rpy.pitch + rpy.roll
  BY WantedIs
<1> HIDE DEF t
<1>3. y \in Raw /\ YawFactor(t) \in Int
  BY <1>2, NoneDrivenOut
<1>4. \E f \in Int :
          y[1] = t[1] - f /\ y[2] = t[2] + f /\ y[3] = t[3] - f /\ y[4] = t[4] + f
  <2>1. CASE Conflict(t)
    <3>1. y = t
      BY <2>1 DEF RelaxedYaw
    <3>2. t[1] \in Int /\ t[2] \in Int /\ t[3] \in Int /\ t[4] \in Int
      BY <1>2, MotorsAre DEF Raw
    <3>3. y[1] = t[1] - 0 /\ y[2] = t[2] + 0 /\ y[3] = t[3] - 0 /\ y[4] = t[4] + 0
      BY <3>1, <3>2
    <3>4. QED
      BY <3>3
  <2>2. CASE ~Conflict(t)
    <3>1. y = Yawed(t, YawFactor(t))
      BY <2>2 DEF RelaxedYaw
    <3> DEFINE f == YawFactor(t)
    <3>2. f \in Int /\ y = Yawed(t, f)
      BY <1>3, <3>1
    <3> HIDE DEF f
    <3>3. /\ Yawed(t, f)[1] = t[1] - f /\ Yawed(t, f)[2] = t[2] + f
          /\ Yawed(t, f)[3] = t[3] - f /\ Yawed(t, f)[4] = t[4] + f
      BY <1>2, <3>2, YawedIs
    <3>4. QED
      BY <3>2, <3>3
  <2>3. QED
    BY <2>1, <2>2
<1> HIDE DEF y
<1>5. \E f, s \in Int :
          /\ n.thrust[1] = t[1] - f + s /\ n.thrust[2] = t[2] + f + s
          /\ n.thrust[3] = t[3] - f + s /\ n.thrust[4] = t[4] + f + s
          /\ n.outcome # "altitude" => s = 0
  <2>1. /\ t[1] \in Int /\ t[2] \in Int /\ t[3] \in Int /\ t[4] \in Int
        /\ y[1] \in Int /\ y[2] \in Int /\ y[3] \in Int /\ y[4] \in Int
    BY <1>2, <1>3, MotorsAre DEF Raw
  <2>2. CASE InRange(t)
    <3>1. n = [thrust |-> t, outcome |-> "fits"]
      BY <2>2, Zenon DEF Normalized
    <3>2. /\ n.thrust[1] = t[1] - 0 + 0 /\ n.thrust[2] = t[2] + 0 + 0
          /\ n.thrust[3] = t[3] - 0 + 0 /\ n.thrust[4] = t[4] + 0 + 0
      BY <2>1, <3>1
    <3>3. QED
      BY <3>2
  <2>3. CASE ~InRange(t) /\ InRange(y)
    <3>1. n = [thrust |-> y, outcome |-> "yaw"]
      BY <2>3 DEF Normalized, y
    <3>2. /\ n.thrust[1] = y[1] + 0 /\ n.thrust[2] = y[2] + 0
          /\ n.thrust[3] = y[3] + 0 /\ n.thrust[4] = y[4] + 0
      BY <2>1, <3>1
    <3>3. QED
      BY <1>4, <3>2
  <2>4. CASE ~InRange(t) /\ ~InRange(y) /\ MayShift(y)
    <3>1. n = [thrust |-> Shifted(y), outcome |-> "altitude"]
      BY <2>4 DEF Normalized, y
    <3>2. Shift(y) \in Int /\ \A m \in Motors : n.thrust[m] = y[m] + Shift(y)
      BY <1>3, <2>4, <3>1, ShiftKeeps
    <3>3. QED
      BY <1>4, <3>1, <3>2, MotorsAre
  <2>5. CASE ~InRange(t) /\ ~InRange(y) /\ ~MayShift(y)
    <3>1. n = [thrust |-> [m \in Motors |-> Truncated(y[m])], outcome |-> "truncated"]
      BY <2>5 DEF Normalized, y
    <3>2. QED
      BY <3>1 DEF t
  <2>6. QED
    BY <2>2, <2>3, <2>4, <2>5
<1> HIDE DEF n
<1>6. /\ Torque(n.thrust, RollForce) = 4 * rpy.roll
      /\ Torque(n.thrust, PitchForce) = 4 * rpy.pitch
  BY <1>1, <1>2, <1>5, Forces DEF Torque
<1>7. n.outcome # "altitude" => Torque(n.thrust, Equal(1)) = 4 * altitude
  <2>1. Equal(1)[1] = 1 /\ Equal(1)[2] = 1 /\ Equal(1)[3] = 1 /\ Equal(1)[4] = 1
    BY DEF Equal, Motors
  <2>2. QED
    BY <1>1, <1>2, <1>5, <2>1 DEF Torque
<1>8. QED
  BY <1>6, <1>7 DEF n, t

(* The first two ways are the thrusts with some yaw thrust added, and the smallest. *)
LEMMA NormalizedYawsLeast ==
    ASSUME NEW t \in Raw,
           NEW g \in -2 * Unit .. 2 * Unit, InRange(Yawed(t, g))
    PROVE  /\ Normalized(t).outcome \in {"fits", "yaw"}
           /\ \E f \in {e \in -2 * Unit .. 2 * Unit : InRange(Yawed(t, e))} :
                  /\ Normalized(t).thrust = Yawed(t, f)
                  /\ \A e \in {e \in -2 * Unit .. 2 * Unit : InRange(Yawed(t, e))} :
                         Abs(f) <= Abs(e)
<1> DEFINE fit == {e \in -2 * Unit .. 2 * Unit : InRange(Yawed(t, e))}
<1>1. CASE InRange(t)
  <2>1. Normalized(t) = [thrust |-> t, outcome |-> "fits"]
    BY <1>1, Zenon DEF Normalized
  <2>2. Yawed(t, 0) = t
    <3>1. \A m \in Motors : t[m] \in Int /\ YawForce[m] \in Int
      BY Forces, MotorsAre DEF Raw
    <3>2. \A m \in Motors : t[m] + 0 * YawForce[m] = t[m]
      BY <3>1
    <3>3. t = [m \in Motors |-> t[m]]
      BY DEF Raw
    <3>4. QED
      BY <3>2, <3>3, Zenon DEF Yawed
  <2>3. 0 \in fit
    BY <1>1, <2>2
  <2>4. \A e \in fit : Abs(0) <= Abs(e)
    BY DEF Abs
  <2>5. QED
    BY <2>1, <2>2, <2>3, <2>4
<1>2. CASE ~InRange(t)
  <2> DEFINE f == YawFactor(t)
  <2>1. /\ ~Conflict(t)
        /\ f \in Int /\ Abs(f) <= Abs(g)
        /\ InRange(Yawed(t, f))
    BY SmallestYaw
  <2>2. RelaxedYaw(t) = Yawed(t, f)
    BY <2>1 DEF RelaxedYaw
  <2>3. Normalized(t) = [thrust |-> Yawed(t, f), outcome |-> "yaw"]
    BY <1>2, <2>1, <2>2 DEF Normalized
  <2>4. \A e \in fit : Abs(f) <= Abs(e)
    BY SmallestYaw
  <2> HIDE DEF f
  <2>5. f \in fit
    BY <2>1 DEF Abs
  <2>6. QED
    BY <2>3, <2>4, <2>5
<1>3. QED
  BY <1>1, <1>2

-------------------------------------------------------------------------------
(* The inductive invariant                                                   *)

(* The thrusts at the end of a tick that got so far are the normalised ones. *)
Computed ==
    outcome \in {"fits", "yaw", "altitude", "truncated"} =>
        /\ phase = "end" /\ demand \in Rpys
        /\ thrust = Normalized(Wanted(demand)).thrust
        /\ outcome = Normalized(Wanted(demand)).outcome

IInv == TypeOK /\ Computed

LEMMA IntegralIs ==
    ASSUME NEW old \in Int, Abs(I * old) < IMax, NEW e \in Int
    PROVE  Integral(old, e) \in Int /\ Abs(I * Integral(old, e)) < IMax
<1>1. I * (old + e) \in Int /\ Abs(I * (old + e)) \in Int
  BY DEF Abs
<1>2. CASE Abs(I * (old + e)) >= IMax
  BY <1>2, Zenon DEF Integral
<1>3. CASE ~(Abs(I * (old + e)) >= IMax)
  <2>1. Integral(old, e) = old + e
    BY <1>3, Zenon DEF Integral
  <2>2. QED
    BY <1>1, <1>3, <2>1
<1>4. QED
  BY <1>2, <1>3

LEMMA ErrorIs ==
    ASSUME NEW setpoint \in Speeds, NEW measured \in Speeds
    PROVE  Error(setpoint, measured) \in Int
  BY DEF Error, Speeds

LEMMA OutputIs ==
    ASSUME integral \in Int, Abs(I * integral) < IMax, previous \in Speeds,
           NEW setpoint \in Speeds, NEW measured \in Speeds
    PROVE  PidOutput(setpoint, measured) \in Int
<1> DEFINE e == Error(setpoint, measured)
           i == Integral(integral, e)
           d == Derivative(measured)
<1>1. e \in Int
  BY ErrorIs
<1>2. i \in Int
  BY <1>1, IntegralIs
<1>3. d \in Int
  BY DEF Derivative, Sign, Speeds
<1> HIDE DEF e, i, d
<1>4. P * e \in Int /\ I * i \in Int /\ D * d \in Int
  BY <1>1, <1>2, <1>3
<1>5. P * e + I * i + D * d + CI \in Int
  BY <1>4
<1>6. QED
  BY <1>5 DEF PidOutput, e, i, d

LEMMA PidStepIs ==
    ASSUME integral \in Int, Abs(I * integral) < IMax,
           NEW setpoint \in Speeds, NEW measured \in Speeds, PidStep(setpoint, measured)
    PROVE  integral' \in Int /\ Abs(I * integral') < IMax /\ previous' \in Speeds
<1> DEFINE e == Error(setpoint, measured)
<1>1. e \in Int
  BY ErrorIs
<1>2. Integral(integral, e) \in Int /\ Abs(I * Integral(integral, e)) < IMax
  BY <1>1, IntegralIs
<1>3. integral' = Integral(integral, e) /\ previous' = measured
  BY DEF PidStep
<1>4. QED
  BY <1>2, <1>3

LEMMA StoppedIs == Equal(0) \in [Motors -> 0 .. Unit]
  BY DEF Equal

LEMMA ClimbIs ==
    ASSUME TypeOK, Computed, phase = "altitude", NEW x \in Int, Climb(x)
    PROVE  /\ phase' \in {"altitude", "combine", "end"}
           /\ altitude' \in Nat
           /\ demand' \in Rpys \cup {Level}
           /\ thrust' \in [Motors -> 0 .. Unit]
           /\ outcome' \in {"none", "stopped", "failed"}
<1>1. outcome \in {"none", "stopped", "failed"}
  BY DEF TypeOK, Computed
<1>2. CASE x < 0
  BY <1>2, StoppedIs DEF Climb, TypeOK
<1>3. CASE ~(x < 0)
  <2>1. PICK q \in Tilts : altitude' = q * (x + Hold)
    BY <1>3 DEF Climb
  <2>2. q = 1 \/ q = 2 \/ q = 3 \/ q = 4
    OBVIOUS
  <2>3. altitude' \in Nat
    BY <1>3, <2>1, <2>2
  <2>4. QED
    BY <1>1, <1>3, <2>3 DEF Climb, TypeOK
<1>4. QED
  BY <1>2, <1>3

LEMMA InitInv == Init => IInv
<1> SUFFICES ASSUME Init PROVE IInv
  OBVIOUS
<1>1. integral \in Int /\ Abs(I * integral) < IMax /\ previous \in Speeds
  <2>1. PICK setpoint, measured \in Speeds :
            integral = Integral(0, Error(setpoint, measured)) /\ previous = measured
    BY DEF Init
  <2>2. Abs(I * 0) < IMax
    BY DEF Abs
  <2>3. QED
    BY <2>1, <2>2, ErrorIs, IntegralIs
<1>2. thrust \in [Motors -> 0 .. Unit]
  BY DEF Init, Equal
<1>3. QED
  BY <1>1, <1>2 DEF Init, IInv, TypeOK, Computed

LEMMA StepInv == IInv /\ [Next]_vars => IInv'
<1> SUFFICES ASSUME IInv, [Next]_vars PROVE IInv'
  OBVIOUS
<1> USE DEF IInv
<1>1. CASE Passthrough
  <2>1. PICK rc \in RcValues : Climb(IF emergency THEN MinSpin ELSE rc)
    BY <1>1 DEF Passthrough
  <2>2. (IF emergency THEN MinSpin ELSE rc) \in Int
    BY DEF TypeOK
  <2>3. QED
    BY <1>1, <2>1, <2>2, ClimbIs DEF Passthrough, TypeOK, Computed, setup, pid
<1>2. CASE Assisted
  <2>1. PICK rc \in RcValues, a \in Assists : Climb(IF emergency THEN MinSpin ELSE rc + a)
    BY <1>2 DEF Assisted
  <2>2. (IF emergency THEN MinSpin ELSE rc + a) \in Int
    BY DEF TypeOK, Assists
  <2>3. QED
    BY <1>2, <2>1, <2>2, ClimbIs DEF Assisted, TypeOK, Computed, setup, pid
<1>3. CASE AltitudeHold
  <2>1. PICK setpoint \in Speeds, measured \in Speeds, a \in Assists :
            PidStep(setpoint, measured) /\ Climb(PidOutput(setpoint, measured) + a)
    BY <1>3 DEF AltitudeHold
  <2>2. PidOutput(setpoint, measured) + a \in Int
    BY OutputIs DEF TypeOK, Assists
  <2>3. integral' \in Int /\ Abs(I * integral') < IMax /\ previous' \in Speeds
    BY <2>1, PidStepIs DEF TypeOK
  <2>4. QED
    BY <1>3, <2>1, <2>2, <2>3, ClimbIs DEF AltitudeHold, TypeOK, Computed, setup
<1>4. CASE NoData
  <2>1. integral' \in Int /\ Abs(I * integral') < IMax /\ previous' \in Speeds
    <3>1. CASE UNCHANGED pid
      BY <3>1 DEF TypeOK, pid
    <3>2. CASE \E setpoint, measured \in Speeds : PidStep(setpoint, measured)
      BY <3>2, PidStepIs DEF TypeOK
    <3>3. QED
      BY <1>4, <3>1, <3>2 DEF NoData
  <2>2. QED
    BY <1>4, <2>1, StoppedIs DEF NoData, TypeOK, Computed, setup
<1>5. CASE Combine
  <2>1. PICK rpy \in Rpys :
            /\ demand' = rpy
            /\ thrust' = Normalized(Wanted(rpy)).thrust
            /\ outcome' = Normalized(Wanted(rpy)).outcome
    BY <1>5 DEF Combine
  <2>2. Wanted(rpy) \in Raw
    BY WantedIs DEF TypeOK
  <2>3. /\ Normalized(Wanted(rpy)).thrust \in [Motors -> 0 .. Unit]
        /\ Normalized(Wanted(rpy)).outcome \in {"fits", "yaw", "altitude", "truncated"}
    BY <2>2, NormalizedInRange
  <2>4. TypeOK'
    BY <1>5, <2>1, <2>3 DEF Combine, TypeOK, setup, pid
  <2>5. Wanted(demand)' = Wanted(rpy)
    BY <1>5, <2>1 DEF Combine, Wanted
  <2>6. Computed'
    BY <1>5, <2>1, <2>5 DEF Combine, Computed
  <2>7. QED
    BY <2>4, <2>6
<1>6. CASE Sent
  BY <1>6, StoppedIs DEF Sent, Rest, TypeOK, Computed, pid
<1>7. CASE UNCHANGED vars
  <2>1. Wanted(demand)' = Wanted(demand)
    BY <1>7 DEF vars, Wanted
  <2>2. QED
    BY <1>7, <2>1 DEF vars, setup, pid, TypeOK, Computed
<1>8. QED
  BY <1>1, <1>2, <1>3, <1>4, <1>5, <1>6, <1>7 DEF Next

-------------------------------------------------------------------------------
(* The theorems                                                              *)

(* The thrusts, the integral of the altitude controller and the state of the tick
   keep their types and limits, and the thrusts are the normalised ones. *)
THEOREM Invariant == Spec => []IInv
  BY InitInv, StepInv, PTL DEF Spec

(* Every thrust is in the range of the motors, and the integral term in its limit,
   at every point of a tick of pilotSetMotorThrust. *)
THEOREM TypeCorrect == Spec => []TypeOK
<1>1. IInv => TypeOK
  BY DEF IInv
<1>2. QED
  BY <1>1, Invariant, PTL

(* Unless pilotNormalizeMotorThrust fails, the motors turn the drone by exactly the
   roll and pitch that were demanded. *)
THEOREM KeepsAttitude == Spec => []AttitudeKept
<1>1. IInv => AttitudeKept
  <2> SUFFICES ASSUME IInv, outcome \in {"fits", "yaw", "altitude"} PROVE AttitudeKept
    BY DEF AttitudeKept
  <2>1. /\ demand \in Rpys
        /\ thrust = Normalized(Wanted(demand)).thrust
        /\ outcome = Normalized(Wanted(demand)).outcome
    BY DEF IInv, Computed
  <2>2. altitude \in Int
    BY DEF IInv, TypeOK
  <2>3. QED
    BY <2>1, <2>2, NormalizedKeeps DEF AttitudeKept
<1>2. QED
  BY <1>1, Invariant, PTL

(* pilotNormalizeMotorThrustByRelaxingYaw gives up yaw alone and as little of it as
   possible where that is enough, and harms no motor where it is not. *)
THEOREM GivesUpYawFirst == Spec => []YawFirst
<1>1. IInv => YawFirst
  <2> DEFINE t == Wanted(demand)
             y == RelaxedYaw(t)
             fit == {f \in -2 * Unit .. 2 * Unit : InRange(Yawed(t, f))}
  <2> SUFFICES ASSUME IInv, outcome \in {"fits", "yaw", "altitude", "truncated"}
               PROVE  IF fit # {}
                      THEN /\ \E f \in fit : /\ thrust = Yawed(t, f)
                                             /\ \A g \in fit : Abs(f) <= Abs(g)
                           /\ Torque(thrust, Equal(1)) = 4 * altitude
                      ELSE \A m \in Motors : Offset(t[m]) = 0 => Offset(y[m]) = 0
    BY Zenon DEF YawFirst
  <2>1. /\ demand \in Rpys
        /\ thrust = Normalized(t).thrust
        /\ outcome = Normalized(t).outcome
    BY DEF IInv, Computed
  <2>2. altitude \in Int
    BY DEF IInv, TypeOK
  <2>3. t \in Raw
    BY <2>1, <2>2, WantedIs
  <2>4. ASSUME fit # {}
        PROVE  /\ \E f \in fit : /\ thrust = Yawed(t, f)
                                 /\ \A g \in fit : Abs(f) <= Abs(g)
               /\ Torque(thrust, Equal(1)) = 4 * altitude
    <3>1. PICK g \in -2 * Unit .. 2 * Unit : InRange(Yawed(t, g))
      BY <2>4
    <3>2. /\ Normalized(t).outcome \in {"fits", "yaw"}
          /\ \E f \in fit : /\ Normalized(t).thrust = Yawed(t, f)
                            /\ \A e \in fit : Abs(f) <= Abs(e)
      BY <2>3, <3>1, NormalizedYawsLeast
    <3>3. Torque(thrust, Equal(1)) = 4 * altitude
      BY <2>1, <2>2, <3>2, NormalizedKeeps
    <3>4. QED
      BY <2>1, <3>2, <3>3
  <2>5. \A m \in Motors : Offset(t[m]) = 0 => Offset(y[m]) = 0
    BY <2>3, NoneDrivenOut
  <2>6. QED
    BY <2>4, <2>5
<1>2. QED
  BY <1>1, Invariant, PTL
================================================================================

------------------------------ MODULE Motor_proofs ------------------------------
(***************************************************************************)
(* Proofs about the link to the motors, for all thrusts and any room in    *)
(* the write buffer and the pipe: no thrust is parsed before the factor,   *)
(* and none follows the "stan" of a pilot that sleeps.                     *)
(*                                                                         *)
(* Both follow from what can be said of the lines under way as one         *)
(* sequence, from the one parsed next to the one written last: a batch is  *)
(* read and the buffer is flushed without changing it.                     *)
(***************************************************************************)
EXTENDS Motor, SequenceTheorems, WellFoundedInduction, TLAPS

USE ThrustAssumption, RoomAssumption DEF ThrustAssumption, RoomAssumption

LEMMA Associative ==
    \A s, t, u \in Seq(Lines) : (s \o t) \o u = s \o (t \o u)
  BY ConcatAssociative

-------------------------------------------------------------------------------
(* Lines and the write buffer                                                *)

LEMMA LinesAre ==
    /\ \A t \in Thrusts : Mt(t) \in Lines /\ Mt(t).word = "mt"
    /\ Word("mfac") \in Lines /\ Word("stan") \in Lines /\ Word("exit") \in Lines
    /\ Word("land") \in Lines
    /\ Word("mfac").word = "mfac" /\ Word("stan").word = "stan"
    /\ Word("exit").word = "exit" /\ Word("land").word = "land"
    /\ \A l \in Lines : l.thrust \in Thrusts
  BY DEF Lines, Mt, Word, Line

Bounded(b) == b \in Seq(Lines) /\ Len(b) <= Room + 2

(* The lines of b followed by others *)
Extends(b, c) == \E x \in Seq(Lines) : c = b \o x

LEMMA ExtendsIs ==
    ASSUME NEW b \in Seq(Lines)
    PROVE  /\ Extends(b, b)
           /\ \A l \in Lines : Extends(b, b \o <<l>>)
           /\ \A c, d \in Seq(Lines) : Extends(b, c) /\ Extends(c, d) => Extends(b, d)
<1>1. Extends(b, b)
  <2>1. <<>> \in Seq(Lines) /\ b = b \o <<>>
    BY ConcatEmptySeq
  <2>2. QED
    BY <2>1, Zenon DEF Extends
<1>2. \A l \in Lines : Extends(b, b \o <<l>>)
  <2>1. \A l \in Lines : <<l>> \in Seq(Lines)
    OBVIOUS
  <2>2. QED
    BY <2>1, Zenon DEF Extends
<1>3. ASSUME NEW c \in Seq(Lines), NEW d \in Seq(Lines), Extends(b, c), Extends(c, d)
      PROVE  Extends(b, d)
  <2>1. PICK x \in Seq(Lines), y \in Seq(Lines) : c = b \o x /\ d = c \o y
    BY <1>3 DEF Extends
  <2>2. d = b \o (x \o y) /\ x \o y \in Seq(Lines)
    BY <2>1, ConcatAssociative, ConcatProperties
  <2>3. QED
    BY <2>2, Zenon DEF Extends
<1>4. QED
  BY <1>1, <1>2, <1>3

(* A write appends the line or drops it. *)
LEMMA QueueIs ==
    ASSUME NEW b, Bounded(b), NEW line \in Lines
    PROVE  /\ Bounded(Queue(b, line))
           /\ Queue(b, line) = b \/ Queue(b, line) = b \o <<line>>
           /\ Extends(b, Queue(b, line))
<1>1. /\ Bounded(Queue(b, line))
      /\ Queue(b, line) = b \/ Queue(b, line) = b \o <<line>>
  BY DEF Queue, Fits, Bounded
<1>2. QED
  BY <1>1, ExtendsIs DEF Bounded

(* When a "stan" was put into the buffer it is the last line in it. *)
LEMMA StandbyIs ==
    ASSUME NEW b, Bounded(b)
    PROVE  LET e == WithStandby(b)
           IN  /\ Bounded(e) /\ Extends(b, e)
               /\ Contains(SubSeq(e, Len(b) + 1, Len(e)), Word("stan"))
                      => e # <<>> /\ e[Len(e)] = Word("stan")
<1> DEFINE c == Queue(b, Mt(0))
           d == Queue(c, Mt(0))
           e == Queue(d, Word("stan"))
<1>1. Bounded(c) /\ Extends(b, c) /\ (c = b \/ c = b \o <<Mt(0)>>)
  BY LinesAre, QueueIs
<1>2. Bounded(d) /\ Extends(c, d) /\ (d = c \/ d = c \o <<Mt(0)>>)
  BY <1>1, LinesAre, QueueIs
<1>3. Bounded(e) /\ Extends(d, e) /\ (e = d \/ e = d \o <<Word("stan")>>)
  BY <1>2, LinesAre, QueueIs
<1>4. WithStandby(b) = e
  BY DEF WithStandby, WithZeros
<1> HIDE DEF c, d, e
<1>5. b \in Seq(Lines) /\ c \in Seq(Lines) /\ d \in Seq(Lines) /\ e \in Seq(Lines)
  BY <1>1, <1>2, <1>3 DEF Bounded
<1>6. Extends(b, e)
  BY <1>1, <1>2, <1>3, <1>5, ExtendsIs
<1>7. ASSUME e = d
      PROVE  ~Contains(SubSeq(e, Len(b) + 1, Len(e)), Word("stan"))
  <2>1. Mt(0) \in Lines /\ Mt(0) # Word("stan")
    BY LinesAre
  <2>2. \A i \in Len(b) + 1 .. Len(c) : c[i] = Mt(0)
    BY <1>1, <1>5, <2>1
  <2>3. \A i \in Len(b) + 1 .. Len(d) : d[i] = Mt(0)
    BY <1>1, <1>2, <1>5, <2>1, <2>2
  <2>4. Len(b) \in Nat /\ Len(d) \in Nat
    BY <1>5
  <2>5. \A i \in 1 .. Len(SubSeq(d, Len(b) + 1, Len(d))) :
            SubSeq(d, Len(b) + 1, Len(d))[i] = Mt(0)
    <3>1. \A i \in Len(b) + 1 .. Len(d) : d[i] \in Lines
      BY <2>1, <2>3
    <3>2. /\ Len(SubSeq(d, Len(b) + 1, Len(d)))
                 = IF Len(b) + 1 <= Len(d) THEN Len(d) - (Len(b) + 1) + 1 ELSE 0
          /\ \A i \in 1 .. Len(d) - (Len(b) + 1) + 1 :
                 SubSeq(d, Len(b) + 1, Len(d))[i] = d[Len(b) + 1 + i - 1]
      BY <2>4, <3>1, SubSeqProperties
    <3>3. QED
      BY <2>3, <2>4, <3>2
  <2>6. QED
    BY <1>7, <2>1, <2>5 DEF Contains
<1>8. ASSUME e = d \o <<Word("stan")>> PROVE e # <<>> /\ e[Len(e)] = Word("stan")
  BY <1>5, <1>8, LinesAre
<1>9. QED
  BY <1>3, <1>4, <1>6, <1>7, <1>8

LEMMA ShutdownIs ==
    ASSUME NEW b, Bounded(b)
    PROVE  Bounded(WithShutdown(b)) /\ Extends(b, WithShutdown(b))
<1>1. Bounded(WithStandby(b)) /\ Extends(b, WithStandby(b))
  BY StandbyIs
<1>2. /\ Bounded(Queue(WithStandby(b), Word("exit")))
      /\ Extends(WithStandby(b), Queue(WithStandby(b), Word("exit")))
  BY <1>1, LinesAre, QueueIs
<1>3. QED
  BY <1>1, <1>2, ExtendsIs DEF WithShutdown, Bounded

-------------------------------------------------------------------------------
(* The lines under way                                                       *)

UnderWay(a, p, b) == a \o (p \o b)

LEMMA UnderWayIs ==
    ASSUME NEW a \in Seq(Lines), NEW p \in Seq(Lines), NEW b \in Seq(Lines)
    PROVE  /\ UnderWay(a, p, b) \in Seq(Lines)
           /\ UnderWay(a, p, b) = a \o p \o b
           /\ UnderWay(<<>>, p, b) = p \o b
  BY Associative, ConcatProperties, ConcatEmptySeq DEF UnderWay

LEMMA WrittenBehind ==
    ASSUME NEW a \in Seq(Lines), NEW p \in Seq(Lines), NEW b \in Seq(Lines), NEW c,
           Extends(b, c)
    PROVE  Extends(UnderWay(a, p, b), UnderWay(a, p, c))
<1>1. PICK x \in Seq(Lines) : c = b \o x
  BY DEF Extends
<1>2. p \o b \in Seq(Lines)
  BY ConcatProperties
<1>3. p \o (b \o x) = (p \o b) \o x
  BY Associative, ZenonT(60)
<1>4. a \o ((p \o b) \o x) = (a \o (p \o b)) \o x
  BY ONLY <1>2, a \in Seq(Lines), x \in Seq(Lines), Associative, ZenonT(60)
<1>5. UnderWay(a, p, c) = UnderWay(a, p, b) \o x
  BY <1>1, <1>3, <1>4, Zenon DEF UnderWay
<1>6. QED
  BY <1>5, Zenon DEF Extends

LEMMA Split ==
    ASSUME NEW s \in Seq(Lines), NEW n \in 1 .. Len(s)
    PROVE  /\ SubSeq(s, 1, n) \in Seq(Lines) /\ SubSeq(s, n + 1, Len(s)) \in Seq(Lines)
           /\ SubSeq(s, 1, n) # <<>>
           /\ Len(SubSeq(s, n + 1, Len(s))) = Len(s) - n
           /\ SubSeq(s, 1, n) \o SubSeq(s, n + 1, Len(s)) = s
<1>1. Len(s) \in Nat /\ \A i \in 1 .. Len(s) : s[i] \in Lines
  BY LenProperties, ElementOfSeq
<1>2. /\ SubSeq(s, 1, n) \in Seq(Lines) /\ Len(SubSeq(s, 1, n)) = n
      /\ SubSeq(s, n + 1, Len(s)) \in Seq(Lines)
      /\ Len(SubSeq(s, n + 1, Len(s))) = Len(s) - n
  BY <1>1, SubSeqProperties
<1>3. SubSeq(s, 1, n) \o SubSeq(s, n + 1, Len(s)) = SubSeq(s, 1, Len(s))
  BY <1>1, ConcatAdjacentSubSeq
<1>4. SubSeq(s, 1, Len(s)) = s
  BY SubSeqFull
<1>5. SubSeq(s, 1, n) # <<>>
  BY <1>2
<1>6. QED
  BY <1>2, <1>3, <1>4, <1>5, Zenon

(* Neither writing to the pipe nor reading from it changes them. *)
LEMMA FlushedUnchanged ==
    ASSUME NEW a \in Seq(Lines), NEW p \in Seq(Lines), NEW b \in Seq(Lines),
           NEW n \in 1 .. Len(b)
    PROVE  UnderWay(a, p \o SubSeq(b, 1, n), SubSeq(b, n + 1, Len(b))) = UnderWay(a, p, b)
<1> DEFINE x == SubSeq(b, 1, n)
           y == SubSeq(b, n + 1, Len(b))
<1>1. x \in Seq(Lines) /\ y \in Seq(Lines) /\ x \o y = b
  BY Split
<1> HIDE DEF x, y
<1>2. (p \o x) \o y = p \o (x \o y)
  BY <1>1, Associative, ZenonT(60)
<1>3. QED
  BY <1>1, <1>2, Zenon DEF UnderWay, x, y

LEMMA ReadUnchanged ==
    ASSUME NEW p \in Seq(Lines), NEW b \in Seq(Lines), NEW n \in 1 .. Len(p)
    PROVE  UnderWay(SubSeq(p, 1, n), SubSeq(p, n + 1, Len(p)), b) = UnderWay(<<>>, p, b)
<1> DEFINE x == SubSeq(p, 1, n)
           y == SubSeq(p, n + 1, Len(p))
<1>1. x \in Seq(Lines) /\ y \in Seq(Lines) /\ x \o y = p
  BY Split
<1> HIDE DEF x, y
<1>2. (x \o y) \o b = x \o (y \o b)
  BY <1>1, Associative, ZenonT(60)
<1>3. UnderWay(<<>>, p, b) = p \o b
  BY UnderWayIs
<1>4. QED
  BY <1>1, <1>2, <1>3, Zenon DEF UnderWay, x, y

(* A parsed line is taken off in front. *)
LEMMA ParsedInFront ==
    ASSUME NEW a \in Seq(Lines), a # <<>>, NEW p \in Seq(Lines), NEW b \in Seq(Lines)
    PROVE  LET u == UnderWay(a, p, b)
               v == UnderWay(Tail(a), p, b)
           IN  /\ u \in Seq(Lines) /\ u # <<>> /\ u[1] = Head(a)
               /\ v \in Seq(Lines) /\ Len(v) = Len(u) - 1
               /\ \A i \in 1 .. Len(v) : v[i] = u[i + 1]
<1> DEFINE r == p \o b
           u == a \o r
           v == Tail(a) \o r
<1>1. r \in Seq(Lines)
  BY ConcatProperties
<1>2. /\ Tail(a) \in Seq(Lines) /\ Len(Tail(a)) = Len(a) - 1
      /\ \A i \in 1 .. Len(Tail(a)) : Tail(a)[i] = a[i + 1]
      /\ Len(a) \in Nat \ {0} /\ Head(a) = a[1]
  BY HeadTailProperties, LenProperties, EmptySeq
<1> HIDE DEF r
<1>3. /\ u \in Seq(Lines) /\ Len(u) = Len(a) + Len(r)
      /\ \A i \in 1 .. Len(a) + Len(r) : u[i] = IF i <= Len(a) THEN a[i] ELSE r[i - Len(a)]
  BY <1>1, ConcatProperties
<1>4. /\ v \in Seq(Lines) /\ Len(v) = Len(Tail(a)) + Len(r)
      /\ \A i \in 1 .. Len(Tail(a)) + Len(r) :
             v[i] = IF i <= Len(Tail(a)) THEN Tail(a)[i] ELSE r[i - Len(Tail(a))]
  BY <1>1, <1>2, ConcatProperties
<1>5. Len(r) \in Nat
  BY <1>1, LenProperties
<1> HIDE DEF u, v
<1>6. Len(v) = Len(u) - 1
  BY <1>2, <1>3, <1>4, <1>5
<1>7. ASSUME NEW i \in 1 .. Len(v) PROVE v[i] = u[i + 1]
  <2>1. CASE i <= Len(Tail(a))
    <3>1. v[i] = a[i + 1]
      BY <1>2, <1>4, <1>5, <2>1
    <3>2. u[i + 1] = a[i + 1]
      BY <1>2, <1>3, <1>5, <2>1
    <3>3. QED
      BY <3>1, <3>2
  <2>2. CASE ~(i <= Len(Tail(a)))
    <3>1. i - Len(Tail(a)) = (i + 1) - Len(a)
      BY <1>2
    <3>2. v[i] = r[i - Len(Tail(a))]
      BY <1>2, <1>4, <1>5, <2>2
    <3>3. u[i + 1] = r[(i + 1) - Len(a)]
      BY <1>2, <1>3, <1>4, <1>5, <2>2
    <3>4. QED
      BY <3>1, <3>2, <3>3
  <2>3. QED
    BY <2>1, <2>2
<1>8. u # <<>> /\ u[1] = Head(a)
  BY <1>2, <1>3, <1>5
<1>9. QED
  BY <1>3, <1>4, <1>6, <1>7, <1>8 DEF UnderWay, u, v, r

(* What is lost with the connection is lost from the end, and what is written to the
   pipe behind it, past the buffer, comes after all that is left. *)
LEMMA LostFromTheEnd ==
    ASSUME NEW a \in Seq(Lines), NEW p \in Seq(Lines), NEW b \in Seq(Lines)
    PROVE  /\ UnderWay(a, p, <<>>) \in Seq(Lines)
           /\ Extends(UnderWay(a, p, <<>>), UnderWay(a, p, b))
           /\ UnderWay(a, p \o b, <<>>) = UnderWay(a, p, <<>>) \o b
<1>1. <<>> \in Seq(Lines) /\ Extends(<<>>, b)
  BY ConcatEmptySeq DEF Extends
<1>2. UnderWay(a, p \o b, <<>>) = UnderWay(a, p, <<>>) \o b
  <2>1. p \o b \in Seq(Lines) /\ (p \o b) \o <<>> = p \o b /\ p \o <<>> = p
    BY ConcatProperties, ConcatEmptySeq
  <2>2. a \o (p \o b) = (a \o p) \o b
    BY Associative, Zenon
  <2>3. QED
    BY <2>1, <2>2, Zenon DEF UnderWay
<1>3. QED
  BY <1>1, <1>2, UnderWayIs, WrittenBehind

LEMMA LastIs ==
    ASSUME NEW a \in Seq(Lines), NEW p \in Seq(Lines), NEW b \in Seq(Lines), b # <<>>
    PROVE  LET u == UnderWay(a, p, b)
           IN  Len(u) \in 1 .. Len(u) /\ u[Len(u)] = b[Len(b)]
<1> DEFINE r == p \o b
           u == a \o r
<1>1. /\ r \in Seq(Lines) /\ Len(r) = Len(p) + Len(b)
      /\ \A i \in 1 .. Len(p) + Len(b) : r[i] = IF i <= Len(p) THEN p[i] ELSE b[i - Len(p)]
  BY ConcatProperties
<1>2. Len(a) \in Nat /\ Len(p) \in Nat /\ Len(b) \in Nat \ {0}
  BY LenProperties, EmptySeq
<1>3. r[Len(r)] = b[Len(b)] /\ Len(r) \in Nat \ {0}
  BY <1>1, <1>2
<1> HIDE DEF r
<1>4. r \in Seq(Lines)
  BY <1>1
<1>5. /\ u \in Seq(Lines) /\ Len(u) = Len(a) + Len(r)
      /\ \A i \in 1 .. Len(a) + Len(r) : u[i] = IF i <= Len(a) THEN a[i] ELSE r[i - Len(a)]
  BY <1>4, ConcatProperties
<1>6. u[Len(u)] = r[Len(r)] /\ Len(u) \in 1 .. Len(u)
  BY <1>2, <1>3, <1>5
<1>7. QED
  BY <1>3, <1>6 DEF UnderWay, r

-------------------------------------------------------------------------------
(* What can be said of the lines under way                                   *)

FactorAhead(u) == u # <<>> /\ u[1].word = "mfac"
NoThrust(u) == \A i \in 1 .. Len(u) : u[i].word # "mt"
StanBehind(u) ==
    \E i \in 1 .. Len(u) : u[i].word = "stan" /\ \A j \in i .. Len(u) : u[j].word # "mt"

LEMMA ExtendedAre ==
    ASSUME NEW u \in Seq(Lines), NEW v \in Seq(Lines), Extends(u, v)
    PROVE  /\ FactorAhead(u) => FactorAhead(v)
           /\ FactorAhead(v) => FactorAhead(u) \/ u = <<>>
           /\ NoThrust(v) => NoThrust(u)
<1>1. PICK x \in Seq(Lines) : v = u \o x
  BY DEF Extends
<1>2. /\ Len(v) = Len(u) + Len(x)
      /\ \A i \in 1 .. Len(u) + Len(x) : v[i] = IF i <= Len(u) THEN u[i] ELSE x[i - Len(u)]
  BY <1>1, ConcatProperties
<1>3. /\ Len(u) \in Nat /\ Len(x) \in Nat
      /\ u # <<>> => 1 <= Len(u) /\ Len(u) # 0
      /\ v # <<>> => 1 <= Len(v)
      /\ Len(u) # 0 => u # <<>>
      /\ Len(v) # 0 => v # <<>>
  BY LenProperties, EmptySeq
<1>4. \A i \in 1 .. Len(u) : i \in 1 .. Len(v) /\ v[i] = u[i]
  BY <1>2, <1>3
<1>5. u # <<>> => v # <<>> /\ v[1] = u[1]
  BY <1>2, <1>3, <1>4
<1>6. QED
  BY <1>4, <1>5 DEF FactorAhead, NoThrust

LEMMA ParsedAre ==
    ASSUME NEW u \in Seq(Lines), u # <<>>, NEW v \in Seq(Lines), Len(v) = Len(u) - 1,
           \A i \in 1 .. Len(v) : v[i] = u[i + 1]
    PROVE  /\ NoThrust(u) => u[1].word # "mt" /\ NoThrust(v)
           /\ StanBehind(u) => StanBehind(v) \/ (u[1].word = "stan" /\ NoThrust(v))
<1>1. Len(u) \in Nat \ {0}
  BY EmptySeq
<1>2. \A i \in 1 .. Len(v) : i + 1 \in 1 .. Len(u)
  BY <1>1
<1>3. NoThrust(u) => u[1].word # "mt" /\ NoThrust(v)
  BY <1>1, <1>2 DEF NoThrust
<1>4. ASSUME StanBehind(u) PROVE StanBehind(v) \/ (u[1].word = "stan" /\ NoThrust(v))
  <2>1. PICK i \in 1 .. Len(u) :
            u[i].word = "stan" /\ \A j \in i .. Len(u) : u[j].word # "mt"
    BY <1>4 DEF StanBehind
  <2>2. CASE i = 1
    <3>1. \A j \in 1 .. Len(v) : u[j + 1].word # "mt"
      BY <1>1, <2>1, <2>2
    <3>2. QED
      BY <2>1, <2>2, <3>1 DEF NoThrust
  <2>3. CASE i # 1
    <3>1. i - 1 \in 1 .. Len(v) /\ (i - 1) + 1 = i
      BY <1>1, <2>3
    <3>2. v[i - 1] = u[i]
      BY <3>1
    <3>3. \A j \in i - 1 .. Len(v) : j \in 1 .. Len(v) /\ j + 1 \in i .. Len(u)
      BY <1>1, <2>3
    <3>4. \A j \in i - 1 .. Len(v) : v[j].word # "mt"
      BY <2>1, <3>3
    <3>5. QED
      BY <2>1, <3>1, <3>2, <3>4 DEF StanBehind
  <2>4. QED
    BY <2>2, <2>3
<1>5. QED
  BY <1>3, <1>4

LEMMA StanLastIs ==
    ASSUME NEW u \in Seq(Lines), Len(u) \in 1 .. Len(u), u[Len(u)].word = "stan"
    PROVE  StanBehind(u)
<1>1. Len(u) \in Nat
  BY LenProperties
<1>2. \A j \in Len(u) .. Len(u) : j = Len(u)
  BY <1>1
<1>3. QED
  BY <1>2 DEF StanBehind

-------------------------------------------------------------------------------
(* The inductive invariant                                                   *)

(* While the factor is missing, it is the first line under way, or no thrust is and
   none will be. *)
FactorDue(f, m, l, u) ==
    ~f /\ m \in {"select", "parse"} =>
        FactorAhead(u) \/ (l \in {"closed", "crashed"} /\ NoThrust(u))

(* While the pilot sleeps and its "stan" fitted, it is behind all thrusts, or parsed
   after them. *)
StandbyDue(a, t, l, m, s, u) ==
    ~a /\ t /\ l = "open" /\ m \in {"select", "parse"} =>
        StanBehind(u) \/ (NoThrust(u) /\ s)

(* A select finds no line of the last batch left, and an interrupted tick writes to
   no open connection. *)
Between == mpc = "select" => bbb = <<>>
LateIsClosing == late => link # "open"

(* Only a shutdown leaves lines to a connection that closes, so a crash does not. *)
UpIsNotClosing == life = "up" => link \in {"open", "closed"}

IInv ==
    /\ TypeOK /\ Between /\ LateIsClosing /\ UpIsNotClosing
    /\ FactorDue(factor, mpc, link, UnderWay(bbb, pipe, buffer))
    /\ StandbyDue(awake, told, link, mpc, standby, UnderWay(bbb, pipe, buffer))

LEMMA InitInv == Init => IInv
<1> SUFFICES ASSUME Init PROVE IInv
  OBVIOUS
<1>1. <<Word("mfac")>> \in Seq(Lines) /\ Len(<<Word("mfac")>>) = 1
  BY LinesAre
<1>2. <<>> \in Seq(Lines)
  OBVIOUS
<1>3. TypeOK
  <2>1. bbb \in Seq(Lines) /\ pipe \in Seq(Lines)
    BY <1>2 DEF Init
  <2>2. buffer \in Seq(Lines) /\ Len(buffer) <= Room + 2
    BY <1>1 DEF Init, FirstLines
  <2>3. QED
    BY <2>1, <2>2 DEF Init, Commanding!Init, TypeOK, PilotTypeOK, LinesTypeOK, MotorTypeOK
<1>4. UnderWay(bbb, pipe, buffer) = <<Word("mfac")>>
  <2>1. bbb = <<>> /\ pipe = <<>> /\ buffer = <<Word("mfac")>>
    BY DEF Init, FirstLines
  <2>2. <<>> \o <<Word("mfac")>> = <<Word("mfac")>>
    BY <1>1, ConcatEmptySeq
  <2>3. QED
    BY <2>1, <2>2, Zenon DEF UnderWay
<1>5. FactorAhead(<<Word("mfac")>>) /\ NoThrust(<<Word("mfac")>>)
  BY LinesAre DEF FactorAhead, NoThrust
<1>6. QED
  BY <1>3, <1>4, <1>5
     DEF Init, Commanding!Init, IInv, Between, LateIsClosing, UpIsNotClosing, FactorDue,
         StandbyDue

(* The next line to be parsed is the first one under way. *)
LEMMA NextLine ==
    ASSUME TypeOK, NEW word, Parses(word)
    PROVE  LET u == UnderWay(bbb, pipe, buffer)
               v == UnderWay(bbb', pipe', buffer')
           IN  /\ bbb' \in Seq(Lines)
               /\ Head(bbb) \in Lines
               /\ u # <<>> /\ u[1].word = word
               /\ NoThrust(u) => word # "mt" /\ NoThrust(v)
               /\ StanBehind(u) => StanBehind(v) \/ (word = "stan" /\ NoThrust(v))
<1> DEFINE u == UnderWay(bbb, pipe, buffer)
           v == UnderWay(Tail(bbb), pipe, buffer)
<1>1. /\ bbb # <<>> /\ Head(bbb).word = word
      /\ bbb' = Tail(bbb) /\ pipe' = pipe /\ buffer' = buffer
  BY DEF Parses
<1>2. bbb \in Seq(Lines) /\ pipe \in Seq(Lines) /\ buffer \in Seq(Lines)
  BY DEF TypeOK, LinesTypeOK
<1>3. /\ u \in Seq(Lines) /\ u # <<>> /\ u[1] = Head(bbb)
      /\ v \in Seq(Lines) /\ Len(v) = Len(u) - 1
      /\ \A i \in 1 .. Len(v) : v[i] = u[i + 1]
  BY ONLY <1>1, <1>2, ParsedInFront
<1> HIDE DEF u, v
<1>4. /\ NoThrust(u) => u[1].word # "mt" /\ NoThrust(v)
      /\ StanBehind(u) => StanBehind(v) \/ (u[1].word = "stan" /\ NoThrust(v))
  BY <1>3, ParsedAre
<1>5. Head(bbb) \in Lines /\ Tail(bbb) \in Seq(Lines)
  BY <1>1, <1>2, HeadTailProperties
<1>6. QED
  BY <1>1, <1>3, <1>4, <1>5 DEF u, v

(* Writes, to an open connection or a closing one *)
LEMMA WritesAre ==
    ASSUME TypeOK, NEW b, Bounded(b), Extends(buffer, b)
    PROVE  LET u == UnderWay(bbb, pipe, buffer)
               v == UnderWay(bbb, pipe, b)
           IN  FactorAhead(u) => FactorAhead(v)
<1>1. bbb \in Seq(Lines) /\ pipe \in Seq(Lines) /\ buffer \in Seq(Lines) /\ b \in Seq(Lines)
  BY DEF TypeOK, LinesTypeOK, Bounded
<1>2. QED
  BY <1>1, UnderWayIs, WrittenBehind, ExtendedAre

LEMMA PilotStep ==
    ASSUME IInv, Pilot
    PROVE  IInv'
<1> DEFINE u == UnderWay(bbb, pipe, buffer)
<1>1. /\ TypeOK /\ Between /\ LateIsClosing /\ UpIsNotClosing
      /\ FactorDue(factor, mpc, link, u)
      /\ StandbyDue(awake, told, link, mpc, standby, u)
  BY DEF IInv
<1>2. /\ bbb \in Seq(Lines) /\ pipe \in Seq(Lines) /\ buffer \in Seq(Lines)
      /\ Bounded(buffer) /\ <<>> \in Seq(Lines) /\ Bounded(<<>>)
  BY <1>1 DEF TypeOK, LinesTypeOK, Bounded
<1>3. u \in Seq(Lines)
  BY <1>2, UnderWayIs
<1> HIDE DEF u
<1>4. CASE Wake
  BY <1>1, <1>4
     DEF Wake, Commanding!Wake, connection, motor, IInv, TypeOK, PilotTypeOK,
         LinesTypeOK, MotorTypeOK, Between, LateIsClosing,
         UpIsNotClosing, FactorDue, StandbyDue, u
<1>5. ASSUME NEW t \in Thrusts, SendThrusts(t) PROVE IInv'
  <2>1. /\ awake /\ said' = "mt"
        /\ buffer' = IF link = "open" THEN Queue(buffer, Mt(t)) ELSE buffer
        /\ UNCHANGED <<awake, life, late, link, told, pipe, mpc, bbb, res, shutdown,
                       standby, factor, throttle, sent>>
    BY <1>5 DEF SendThrusts, Commanding!SendThrusts, connection, motor
  <2>2. Bounded(buffer') /\ Extends(buffer, buffer')
    BY <1>2, <2>1, LinesAre, QueueIs, ExtendsIs
  <2>3. FactorAhead(u) => FactorAhead(UnderWay(bbb, pipe, buffer'))
    BY <1>1, <2>2, WritesAre DEF u
  <2>4. link \in {"closed", "crashed"} => UnderWay(bbb, pipe, buffer') = u
    BY <2>1 DEF u
  <2>5. TypeOK'
    <3>1. PilotTypeOK'
      BY <1>1, <2>1, <2>2 DEF TypeOK, PilotTypeOK
    <3>2. LinesTypeOK'
      BY <1>1, <2>1, <2>2 DEF TypeOK, LinesTypeOK, Bounded
    <3>3. MotorTypeOK'
      BY <1>1, <2>1, <2>2 DEF TypeOK, MotorTypeOK
    <3>4. QED
      BY <3>1, <3>2, <3>3 DEF TypeOK
  <2>6. QED
    BY <1>1, <2>1, <2>3, <2>4, <2>5
       DEF IInv, Between, LateIsClosing, UpIsNotClosing, FactorDue, StandbyDue
<1>6. CASE GotoStandby
  <2>1. /\ awake' = FALSE /\ said' = "stan"
        /\ UNCHANGED <<life, link, late, pipe, mpc, bbb, res, shutdown, standby,
                       factor, throttle, sent>>
    BY <1>6 DEF GotoStandby, Commanding!GotoStandby, motor
  <2>2. CASE link = "open"
    <3>1. /\ buffer' = WithStandby(buffer)
          /\ told' = Contains(SubSeq(buffer', Len(buffer) + 1, Len(buffer')), Word("stan"))
      BY <1>6, <2>2 DEF GotoStandby
    <3>2. /\ Bounded(buffer') /\ Extends(buffer, buffer')
          /\ told' => buffer' # <<>> /\ buffer'[Len(buffer')] = Word("stan")
      BY <1>2, <3>1, StandbyIs
    <3>3. FactorAhead(u) => FactorAhead(UnderWay(bbb, pipe, buffer'))
      BY <1>1, <3>2, WritesAre DEF u
    <3>4. told' => StanBehind(UnderWay(bbb, pipe, buffer'))
      <4>1. buffer' \in Seq(Lines)
        BY <3>2 DEF Bounded
      <4>2. UnderWay(bbb, pipe, buffer') \in Seq(Lines)
        BY <1>2, <4>1, UnderWayIs
      <4>3. QED
        BY <1>2, <3>2, <4>1, <4>2, LastIs, LinesAre, StanLastIs, ZenonT(60)
    <3>5. told' \in BOOLEAN
      BY <3>1 DEF Contains
    <3>6. TypeOK'
      <4>1. PilotTypeOK'
        BY <1>1, <2>1, <3>2, <3>5 DEF TypeOK, PilotTypeOK
      <4>2. LinesTypeOK'
        BY <1>1, <2>1, <3>2, <3>5 DEF TypeOK, LinesTypeOK, Bounded
      <4>3. MotorTypeOK'
        BY <1>1, <2>1, <3>2, <3>5 DEF TypeOK, MotorTypeOK
      <4>4. QED
        BY <4>1, <4>2, <4>3 DEF TypeOK
    <3>7. QED
      BY <1>1, <2>1, <2>2, <3>3, <3>4, <3>6
         DEF IInv, Between, LateIsClosing, UpIsNotClosing, FactorDue, StandbyDue
  <2>3. CASE link # "open"
    <3>1. /\ buffer' = buffer
          /\ told' = Contains(SubSeq(buffer', Len(buffer) + 1, Len(buffer')), Word("stan"))
      BY <1>6, <2>3 DEF GotoStandby
    <3>2. told' \in BOOLEAN
      BY <3>1 DEF Contains
    <3>3. TypeOK'
      <4>1. PilotTypeOK'
        BY <1>1, <2>1, <3>1, <3>2 DEF TypeOK, PilotTypeOK
      <4>2. LinesTypeOK'
        BY <1>1, <2>1, <3>1, <3>2 DEF TypeOK, LinesTypeOK
      <4>3. MotorTypeOK'
        BY <1>1, <2>1, <3>1, <3>2 DEF TypeOK, MotorTypeOK
      <4>4. QED
        BY <4>1, <4>2, <4>3 DEF TypeOK
    <3>4. QED
      BY <1>1, <2>1, <2>3, <3>1, <3>3
         DEF IInv, Between, LateIsClosing, UpIsNotClosing, FactorDue, StandbyDue, u
  <2>4. QED
    BY <2>2, <2>3
<1>7. CASE Shutdown
  <2>1. /\ link' = IF link = "open" THEN "closing" ELSE link
        /\ buffer' = IF link = "open" THEN WithShutdown(buffer) ELSE buffer
        /\ awake' = FALSE /\ told' = FALSE /\ late' \in BOOLEAN
        /\ life' = "down" /\ said' \in {"exit", "stan"}
        /\ UNCHANGED <<pipe, mpc, bbb, res, shutdown, standby, factor, throttle, sent>>
    BY <1>7 DEF Shutdown, Commanding!Shutdown, motor
  <2>2. Bounded(buffer') /\ Extends(buffer, buffer')
    BY <1>2, <2>1, ShutdownIs, ExtendsIs
  <2>3. FactorAhead(u) => FactorAhead(UnderWay(bbb, pipe, buffer'))
    BY <1>1, <2>2, WritesAre DEF u
  <2>4. link # "open" => UnderWay(bbb, pipe, buffer') = u
    BY <2>1 DEF u
  <2>5. TypeOK'
    <3>1. PilotTypeOK'
      BY <1>1, <2>1, <2>2 DEF TypeOK, PilotTypeOK
    <3>2. LinesTypeOK'
      BY <1>1, <2>1, <2>2 DEF TypeOK, LinesTypeOK, Bounded
    <3>3. MotorTypeOK'
      BY <1>1, <2>1, <2>2 DEF TypeOK, MotorTypeOK
    <3>4. QED
      BY <3>1, <3>2, <3>3 DEF TypeOK
  <2>6. QED
    BY <1>1, <2>1, <2>3, <2>4, <2>5
       DEF IInv, Between, LateIsClosing, UpIsNotClosing, FactorDue, StandbyDue
<1>8. ASSUME NEW t \in Thrusts, LateThrusts(t) PROVE IInv'
  <2>1. /\ late /\ late' = FALSE /\ said' = "mt"
        /\ buffer' = IF link = "closing" THEN Queue(buffer, Mt(t)) ELSE buffer
        /\ UNCHANGED <<awake, life, link, told, pipe, mpc, bbb, res, shutdown, standby,
                       factor, throttle, sent>>
    BY <1>8 DEF LateThrusts, Commanding!LateThrusts, connection, motor
  <2>2. link # "open"
    BY <1>1, <2>1 DEF LateIsClosing
  <2>3. CASE link = "closing"
    <3>1. Bounded(buffer') /\ Extends(buffer, buffer')
      BY <1>2, <2>1, <2>3, LinesAre, QueueIs
    <3>2. FactorAhead(u) => FactorAhead(UnderWay(bbb, pipe, buffer'))
      BY <1>1, <3>1, WritesAre DEF u
    <3>3. TypeOK'
      <4>1. PilotTypeOK'
        BY <1>1, <2>1, <3>1 DEF TypeOK, PilotTypeOK
      <4>2. LinesTypeOK'
        BY <1>1, <2>1, <3>1 DEF TypeOK, LinesTypeOK, Bounded
      <4>3. MotorTypeOK'
        BY <1>1, <2>1, <3>1 DEF TypeOK, MotorTypeOK
      <4>4. QED
        BY <4>1, <4>2, <4>3 DEF TypeOK
    <3>4. QED
      BY <1>1, <2>1, <2>3, <3>2, <3>3
         DEF IInv, Between, LateIsClosing, UpIsNotClosing, FactorDue, StandbyDue
  <2>4. CASE link # "closing"
    <3>1. buffer' = buffer
      BY <2>1, <2>4
    <3>2. TypeOK'
      <4>1. PilotTypeOK'
        BY <1>1, <2>1, <3>1 DEF TypeOK, PilotTypeOK
      <4>2. LinesTypeOK'
        BY <1>1, <2>1, <3>1 DEF TypeOK, LinesTypeOK
      <4>3. MotorTypeOK'
        BY <1>1, <2>1, <3>1 DEF TypeOK, MotorTypeOK
      <4>4. QED
        BY <4>1, <4>2, <4>3 DEF TypeOK
    <3>3. QED
      BY <1>1, <2>1, <2>2, <3>1, <3>2
         DEF IInv, Between, LateIsClosing, UpIsNotClosing, FactorDue, StandbyDue, u
  <2>5. QED
    BY <2>3, <2>4
<1>9. ASSUME link' = "closed", buffer' = <<>>,
             late' \in {late, FALSE}, told' \in {told, FALSE}, awake' = awake,
             said' = said, life' = life \/ (life' = "gone" /\ life = "down"),
             UNCHANGED <<pipe, mpc, bbb, res, shutdown, standby, factor, throttle, sent>>
      PROVE  IInv'
  <2>1. TypeOK'
    <3>1. /\ told' \in BOOLEAN /\ late' \in BOOLEAN
          /\ life' \in {"up", "down", "gone", "crashed"}
      BY <1>1, <1>9 DEF TypeOK, PilotTypeOK, LinesTypeOK, MotorTypeOK
    <3>2. PilotTypeOK'
      BY <1>1, <1>2, <1>9, <3>1 DEF TypeOK, PilotTypeOK
    <3>3. LinesTypeOK'
      BY <1>1, <1>2, <1>9, <3>1 DEF TypeOK, LinesTypeOK, Bounded
    <3>4. MotorTypeOK'
      BY <1>1, <1>2, <1>9, <3>1 DEF TypeOK, MotorTypeOK
    <3>5. QED
      BY <3>2, <3>3, <3>4 DEF TypeOK
  <2>2. LET w == UnderWay(bbb, pipe, <<>>)
        IN  /\ FactorAhead(u) => FactorAhead(w) \/ NoThrust(w)
            /\ NoThrust(u) => NoThrust(w)
    <3>1. UnderWay(bbb, pipe, <<>>) \in Seq(Lines) /\ Extends(UnderWay(bbb, pipe, <<>>), u)
      BY <1>2, LostFromTheEnd DEF u
    <3>2. NoThrust(<<>>)
      BY DEF NoThrust
    <3>3. QED
      BY <1>3, <3>1, <3>2, ExtendedAre
  <2>3. QED
    BY <1>1, <1>9, <2>1, <2>2
       DEF IInv, Between, LateIsClosing, UpIsNotClosing, FactorDue, StandbyDue
<1>10. CASE LinkError
  BY <1>9, <1>10 DEF LinkError, pilot, motor
<1>11. CASE Exit
  BY <1>9, <1>11 DEF Exit, Commanding!Exit, motor
<1>12. CASE Crash
  <2>1. /\ life = "up" /\ life' = "crashed" /\ said' = "land"
        /\ awake' = FALSE /\ told' = FALSE
        /\ buffer' = <<>>
        /\ \/ link = "open" /\ link' = "crashed" /\ pipe' = pipe \o LandLines
           \/ link' = "closed" /\ pipe' = pipe
        /\ UNCHANGED <<late, mpc, bbb, res, shutdown, standby, factor, throttle, sent>>
    BY <1>12 DEF Crash, LandWritten, LandLost, Commanding!Crash, motor
  <2>2. LandLines \in Seq(Lines)
    BY LinesAre DEF LandLines
  <2>3. TypeOK'
    <3>1. pipe' \in Seq(Lines)
      BY <1>2, <2>1, <2>2, ConcatProperties
    <3>2. PilotTypeOK'
      BY <1>1, <1>2, <2>1, <3>1 DEF TypeOK, PilotTypeOK
    <3>3. LinesTypeOK'
      BY <1>1, <1>2, <2>1, <3>1 DEF TypeOK, LinesTypeOK, Bounded
    <3>4. MotorTypeOK'
      BY <1>1, <1>2, <2>1, <3>1 DEF TypeOK, MotorTypeOK
    <3>5. QED
      BY <3>2, <3>3, <3>4 DEF TypeOK
  <2>4. LET w == UnderWay(bbb, pipe \o LandLines, <<>>)
        IN  FactorAhead(u) => FactorAhead(w) \/ NoThrust(w)
    <3> DEFINE x == UnderWay(bbb, pipe, <<>>)
               w == UnderWay(bbb, pipe \o LandLines, <<>>)
    <3>1. x \in Seq(Lines) /\ Extends(x, u)
      BY <1>2, LostFromTheEnd DEF u
    <3>2. w = x \o LandLines
      BY <1>2, <2>2, LostFromTheEnd
    <3>3. w \in Seq(Lines) /\ Extends(x, w)
      BY <2>2, <3>1, <3>2, ConcatProperties DEF Extends
    <3> HIDE DEF x, w
    <3>4. FactorAhead(u) => FactorAhead(x) \/ x = <<>>
      BY <1>3, <3>1, ExtendedAre
    <3>5. FactorAhead(x) => FactorAhead(w)
      BY <3>1, <3>3, ExtendedAre
    <3>6. x = <<>> => NoThrust(w)
      <4>1. x = <<>> => w = LandLines
        BY <2>2, <3>2, ConcatEmptySeq
      <4>2. NoThrust(LandLines)
        BY LinesAre DEF LandLines, NoThrust
      <4>3. QED
        BY <4>1, <4>2
    <3>7. QED
      BY <3>4, <3>5, <3>6 DEF w
  <2>5. CASE link = "open" /\ link' = "crashed" /\ pipe' = pipe \o LandLines
    BY <1>1, <2>1, <2>3, <2>4, <2>5
       DEF IInv, Between, LateIsClosing, UpIsNotClosing, FactorDue, StandbyDue
  <2>6. CASE link' = "closed" /\ pipe' = pipe
    <3>1. NoThrust(u) => NoThrust(UnderWay(bbb, pipe, <<>>))
      BY <1>2, <1>3, LostFromTheEnd, ExtendedAre DEF u
    <3>2. FactorAhead(u) => \/ FactorAhead(UnderWay(bbb, pipe, <<>>))
                            \/ NoThrust(UnderWay(bbb, pipe, <<>>))
      BY <1>2, <1>3, LostFromTheEnd, ExtendedAre DEF u, NoThrust
    <3>3. QED
      BY <1>1, <2>1, <2>3, <2>6, <3>1, <3>2
         DEF IInv, Between, LateIsClosing, UpIsNotClosing, FactorDue, StandbyDue
  <2>7. QED
    BY <2>1, <2>5, <2>6
<1>13. QED
  BY <1>4, <1>5, <1>6, <1>7, <1>8, <1>10, <1>11, <1>12 DEF Pilot

LEMMA FlushStep ==
    ASSUME IInv, NEW n \in 1 .. Len(buffer), Flush(n)
    PROVE  IInv'
<1> DEFINE u == UnderWay(bbb, pipe, buffer)
<1>1. /\ TypeOK /\ Between /\ LateIsClosing /\ UpIsNotClosing
      /\ FactorDue(factor, mpc, link, u)
      /\ StandbyDue(awake, told, link, mpc, standby, u)
  BY DEF IInv
<1>2. /\ link \in {"open", "closing"}
      /\ pipe' = pipe \o SubSeq(buffer, 1, n)
      /\ buffer' = SubSeq(buffer, n + 1, Len(buffer))
      /\ link' = IF link = "closing" /\ n = Len(buffer) THEN "closed" ELSE link
      /\ UNCHANGED <<awake, life, late, said, told, mpc, bbb, res, shutdown, standby,
                     factor, throttle, sent>>
  BY DEF Flush, pilot, motor
<1>3. bbb \in Seq(Lines) /\ pipe \in Seq(Lines) /\ buffer \in Seq(Lines)
  BY <1>1 DEF TypeOK, LinesTypeOK
<1>4. UnderWay(bbb, pipe', buffer') = u
  BY <1>2, <1>3, FlushedUnchanged
<1>5. TypeOK'
  <2>1. pipe' \in Seq(Lines) /\ buffer' \in Seq(Lines) /\ Len(buffer') = Len(buffer) - n
    BY <1>2, <1>3, Split, ConcatProperties
  <2>2. Len(buffer') <= Room + 2
    BY <1>1, <1>3, <2>1 DEF TypeOK, LinesTypeOK
  <2>3. PilotTypeOK'
    BY <1>1, <1>2, <2>1, <2>2 DEF TypeOK, PilotTypeOK
  <2>4. LinesTypeOK'
    BY <1>1, <1>2, <2>1, <2>2 DEF TypeOK, LinesTypeOK
  <2>5. MotorTypeOK'
    BY <1>1, <1>2, <2>1, <2>2 DEF TypeOK, MotorTypeOK
  <2>6. QED
    BY <2>3, <2>4, <2>5 DEF TypeOK
<1> HIDE DEF u
<1>6. QED
  BY <1>1, <1>2, <1>4, <1>5
     DEF IInv, Between, LateIsClosing, UpIsNotClosing, FactorDue, StandbyDue

LEMMA MotorProcessStep ==
    ASSUME IInv, MotorStep \/ MotorInterrupt
    PROVE  IInv'
<1> DEFINE u == UnderWay(bbb, pipe, buffer)
           v == UnderWay(bbb', pipe', buffer')
<1>1. /\ TypeOK /\ Between /\ LateIsClosing /\ UpIsNotClosing
      /\ FactorDue(factor, mpc, link, u)
      /\ StandbyDue(awake, told, link, mpc, standby, u)
  BY DEF IInv
<1>2. bbb \in Seq(Lines) /\ pipe \in Seq(Lines) /\ buffer \in Seq(Lines)
  BY <1>1 DEF TypeOK, LinesTypeOK
<1>3. \A word : Parses(word) =>
          /\ bbb' \in Seq(Lines) /\ Head(bbb) \in Lines
          /\ u # <<>> /\ u[1].word = word
          /\ NoThrust(u) => word # "mt" /\ NoThrust(v)
          /\ StanBehind(u) => StanBehind(v) \/ (word = "stan" /\ NoThrust(v))
  BY <1>1, NextLine
<1> HIDE DEF u, v
<1> USE DEF Between, LateIsClosing, UpIsNotClosing, FactorDue, StandbyDue, pilot, connection
<1>4. ASSUME TypeOK', Between', LateIsClosing', UpIsNotClosing',
             FactorDue(factor', mpc', link', v),
             StandbyDue(awake', told', link', mpc', standby', v)
      PROVE  IInv'
  BY <1>4 DEF IInv, v
<1>5. ASSUME NEW n \in 1 .. Len(pipe), Read(n) PROVE IInv'
  <2>1. /\ mpc = "select" /\ bbb = <<>>
        /\ bbb' = SubSeq(pipe, 1, n) /\ pipe' = SubSeq(pipe, n + 1, Len(pipe))
        /\ mpc' = "parse" /\ res' = FALSE
        /\ UNCHANGED <<pilot, connection, buffer, shutdown, standby, factor, throttle,
                       sent>>
    BY <1>1, <1>5 DEF Read
  <2>2. v = u
    <3>1. UnderWay(SubSeq(pipe, 1, n), SubSeq(pipe, n + 1, Len(pipe)), buffer)
              = UnderWay(<<>>, pipe, buffer)
      BY <1>2, ReadUnchanged
    <3>2. QED
      BY <2>1, <3>1 DEF u, v
  <2>3. TypeOK'
    <3>1. bbb' \in Seq(Lines) /\ pipe' \in Seq(Lines)
      BY <1>2, <2>1, Split
    <3>2. PilotTypeOK'
      BY <1>1, <2>1, <3>1 DEF TypeOK, PilotTypeOK
    <3>3. LinesTypeOK'
      BY <1>1, <2>1, <3>1 DEF TypeOK, LinesTypeOK
    <3>4. MotorTypeOK'
      BY <1>1, <2>1, <3>1 DEF TypeOK, MotorTypeOK
    <3>5. QED
      BY <3>2, <3>3, <3>4 DEF TypeOK
  <2>4. QED
    BY <1>1, <1>4, <2>1, <2>2, <2>3
<1>6. CASE Silence
  <2>1. /\ mpc = "select" /\ mpc' \in {"select", "stopping"}
        /\ throttle' \in {throttle, 0} /\ sent' \in {sent, 0}
        /\ UNCHANGED <<pilot, connection, buffer, pipe, bbb, res, shutdown, standby,
                       factor>>
    BY <1>6 DEF Silence, EmergencyLanding
  <2>2. v = u
    BY <2>1 DEF u, v
  <2>3. TypeOK'
    <3>1. PilotTypeOK'
      BY <1>1, <2>1 DEF TypeOK, PilotTypeOK
    <3>2. LinesTypeOK'
      BY <1>1, <2>1 DEF TypeOK, LinesTypeOK
    <3>3. MotorTypeOK'
      BY <1>1, <2>1 DEF TypeOK, MotorTypeOK
    <3>4. QED
      BY <3>1, <3>2, <3>3 DEF TypeOK
  <2>4. QED
    BY <1>1, <1>4, <2>1, <2>2, <2>3
<1>7. ASSUME NEW word, Parses(word) PROVE UNCHANGED <<pilot, connection, buffer, pipe>>
  BY <1>7 DEF Parses
<1>8. CASE ParseMt
  <2>1. /\ Parses("mt") /\ mpc = "parse"
        /\ throttle' = IF factor THEN Head(bbb).thrust ELSE 0
        /\ standby' = FALSE /\ res' = TRUE
        /\ UNCHANGED <<pilot, connection, buffer, pipe, mpc, shutdown, factor, sent>>
    BY <1>7, <1>8 DEF ParseMt, Parses
  <2>2. factor
    BY <1>1, <1>3, <2>1 DEF FactorAhead
  <2>3. TypeOK'
    <3>1. bbb' \in Seq(Lines) /\ Head(bbb).thrust \in Thrusts
      BY <1>3, <2>1, LinesAre
    <3>2. PilotTypeOK'
      BY <1>1, <2>1, <3>1 DEF TypeOK, PilotTypeOK
    <3>3. LinesTypeOK'
      BY <1>1, <2>1, <3>1 DEF TypeOK, LinesTypeOK
    <3>4. MotorTypeOK'
      BY <1>1, <2>1, <3>1 DEF TypeOK, MotorTypeOK
    <3>5. QED
      BY <3>2, <3>3, <3>4 DEF TypeOK
  <2>4. QED
    BY <1>1, <1>3, <1>4, <2>1, <2>2, <2>3
<1>9. CASE ParseStan
  <2>1. /\ Parses("stan") /\ mpc = "parse"
        /\ standby' = TRUE /\ throttle' = 0 /\ res' = TRUE
        /\ UNCHANGED <<pilot, connection, buffer, pipe, mpc, shutdown, factor, sent>>
    BY <1>7, <1>9 DEF ParseStan, Parses
  <2>2. TypeOK'
    <3>1. bbb' \in Seq(Lines)
      BY <1>3, <2>1
    <3>2. PilotTypeOK'
      BY <1>1, <2>1, <3>1 DEF TypeOK, PilotTypeOK
    <3>3. LinesTypeOK'
      BY <1>1, <2>1, <3>1 DEF TypeOK, LinesTypeOK
    <3>4. MotorTypeOK'
      BY <1>1, <2>1, <3>1 DEF TypeOK, MotorTypeOK
    <3>5. QED
      BY <3>2, <3>3, <3>4 DEF TypeOK
  <2>3. QED
    BY <1>1, <1>3, <1>4, <2>1, <2>2 DEF FactorAhead
<1>10. CASE ParseExit
  <2>1. /\ Parses("exit") /\ mpc = "parse"
        /\ shutdown' = TRUE /\ throttle' = 0 /\ res' = TRUE
        /\ UNCHANGED <<pilot, connection, buffer, pipe, mpc, standby, factor, sent>>
    BY <1>7, <1>10 DEF ParseExit, Parses
  <2>2. TypeOK'
    <3>1. bbb' \in Seq(Lines)
      BY <1>3, <2>1
    <3>2. PilotTypeOK'
      BY <1>1, <2>1, <3>1 DEF TypeOK, PilotTypeOK
    <3>3. LinesTypeOK'
      BY <1>1, <2>1, <3>1 DEF TypeOK, LinesTypeOK
    <3>4. MotorTypeOK'
      BY <1>1, <2>1, <3>1 DEF TypeOK, MotorTypeOK
    <3>5. QED
      BY <3>2, <3>3, <3>4 DEF TypeOK
  <2>3. QED
    BY <1>1, <1>3, <1>4, <2>1, <2>2 DEF FactorAhead
<1>11. CASE ParseMfac
  <2>1. /\ Parses("mfac") /\ mpc = "parse"
        /\ factor' = TRUE
        /\ UNCHANGED <<pilot, connection, buffer, pipe, mpc, res, shutdown, standby,
                       throttle, sent>>
    BY <1>7, <1>11 DEF ParseMfac, Parses
  <2>2. TypeOK'
    <3>1. bbb' \in Seq(Lines)
      BY <1>3, <2>1
    <3>2. PilotTypeOK'
      BY <1>1, <2>1, <3>1 DEF TypeOK, PilotTypeOK
    <3>3. LinesTypeOK'
      BY <1>1, <2>1, <3>1 DEF TypeOK, LinesTypeOK
    <3>4. MotorTypeOK'
      BY <1>1, <2>1, <3>1 DEF TypeOK, MotorTypeOK
    <3>5. QED
      BY <3>2, <3>3, <3>4 DEF TypeOK
  <2>3. QED
    BY <1>1, <1>3, <1>4, <2>1, <2>2
<1>12. CASE ParseLand
  <2>1. /\ Parses("land") /\ mpc' = "stopping"
        /\ throttle' = 0 /\ sent' = 0 /\ res' = FALSE
        /\ UNCHANGED <<pilot, connection, buffer, pipe, shutdown, standby, factor>>
    BY <1>7, <1>12 DEF ParseLand, EmergencyLanding
  <2>2. TypeOK'
    <3>1. bbb' \in Seq(Lines)
      BY <1>3, <2>1
    <3>2. PilotTypeOK'
      BY <1>1, <2>1, <3>1 DEF TypeOK, PilotTypeOK
    <3>3. LinesTypeOK'
      BY <1>1, <2>1, <3>1 DEF TypeOK, LinesTypeOK
    <3>4. MotorTypeOK'
      BY <1>1, <2>1, <3>1 DEF TypeOK, MotorTypeOK
    <3>5. QED
      BY <3>2, <3>3, <3>4 DEF TypeOK
  <2>3. QED
    BY <1>1, <1>4, <2>1, <2>2
<1>13. CASE EndBatch
  <2>1. /\ mpc = "parse" /\ bbb = <<>> /\ res' = FALSE
        /\ sent' \in {throttle, sent} /\ mpc' \in {"select", "stopping"}
        /\ UNCHANGED <<pilot, connection, buffer, pipe, bbb, shutdown, standby, factor,
                       throttle>>
    BY <1>13 DEF EndBatch
  <2>2. v = u
    BY <2>1 DEF u, v
  <2>3. TypeOK'
    <3>1. sent' \in Thrusts /\ mpc' \in {"select", "parse", "stopping", "ended"}
      BY <1>1, <2>1 DEF TypeOK, MotorTypeOK
    <3>2. PilotTypeOK'
      BY <1>1, <2>1, <3>1 DEF TypeOK, PilotTypeOK
    <3>3. LinesTypeOK'
      BY <1>1, <2>1, <3>1 DEF TypeOK, LinesTypeOK
    <3>4. MotorTypeOK'
      BY <1>1, <2>1, <3>1 DEF TypeOK, MotorTypeOK
    <3>5. QED
      BY <3>2, <3>3, <3>4 DEF TypeOK
  <2>4. QED
    BY <1>1, <1>4, <2>1, <2>2, <2>3
<1>14. CASE Finish
  <2>1. /\ mpc' = "ended" /\ throttle' = 0 /\ sent' = 0
        /\ bbb' = <<>> /\ pipe' = <<>>
        /\ UNCHANGED <<pilot, connection, buffer, res, shutdown, standby, factor>>
    BY <1>14 DEF Finish, FinalThrottle
  <2>2. TypeOK'
    <3>1. PilotTypeOK'
      BY <1>1, <2>1 DEF TypeOK, PilotTypeOK
    <3>2. LinesTypeOK'
      BY <1>1, <2>1 DEF TypeOK, LinesTypeOK
    <3>3. MotorTypeOK'
      BY <1>1, <2>1 DEF TypeOK, MotorTypeOK
    <3>4. QED
      BY <3>1, <3>2, <3>3 DEF TypeOK
  <2>3. QED
    BY <1>1, <1>4, <2>1, <2>2
<1>15. CASE MotorInterrupt
  <2>1. /\ mpc \in {"select", "parse"} /\ shutdown' = TRUE
        /\ mpc' \in {mpc, "stopping"}
        /\ UNCHANGED <<pilot, connection, buffer, pipe, bbb, res, standby, factor,
                       throttle, sent>>
    BY <1>15 DEF MotorInterrupt
  <2>2. v = u
    BY <2>1 DEF u, v
  <2>3. TypeOK'
    <3>1. PilotTypeOK'
      BY <1>1, <2>1 DEF TypeOK, PilotTypeOK
    <3>2. LinesTypeOK'
      BY <1>1, <2>1 DEF TypeOK, LinesTypeOK
    <3>3. MotorTypeOK'
      BY <1>1, <2>1 DEF TypeOK, MotorTypeOK
    <3>4. QED
      BY <3>1, <3>2, <3>3 DEF TypeOK
  <2>4. QED
    BY <1>1, <1>4, <2>1, <2>2, <2>3
<1>16. QED
  BY <1>5, <1>6, <1>8, <1>9, <1>10, <1>11, <1>12, <1>13, <1>14, <1>15
     DEF MotorStep, Parse

LEMMA StepInv == IInv /\ [Next]_vars => IInv'
<1> SUFFICES ASSUME IInv, [Next]_vars PROVE IInv'
  OBVIOUS
<1>1. CASE Pilot
  BY <1>1, PilotStep
<1>2. CASE \E n \in 1 .. Len(buffer) : Flush(n)
  BY <1>2, FlushStep
<1>3. CASE MotorStep \/ MotorInterrupt
  BY <1>3, MotorProcessStep
<1>4. CASE UNCHANGED vars
  BY <1>4 DEF vars, pilot, connection, motor, IInv, TypeOK, PilotTypeOK,
         LinesTypeOK, MotorTypeOK, Between, LateIsClosing,
              UpIsNotClosing
<1>5. QED
  BY <1>1, <1>2, <1>3, <1>4 DEF Next, Terminated

-------------------------------------------------------------------------------
(* The theorems                                                              *)

(* The types, and what can be said of the lines under way *)
THEOREM Invariant == Spec => []IInv
  BY InitInv, StepInv, PTL DEF Spec

(* The write buffer never holds more than it has room for, and the ESCs get nothing but
   thrusts that were demanded, or zero. *)
THEOREM TypeCorrect == Spec => []TypeOK
<1>1. IInv => TypeOK
  BY DEF IInv
<1>2. QED
  BY <1>1, Invariant, PTL

(* The factor that initConfiguredPilot writes first is parsed before any thrust,
   whatever the buffer drops, the pipe splits and the connection loses. *)
THEOREM FactorFirst == Spec => []FactorComesFirst
<1>1. IInv => FactorComesFirst
  <2> SUFFICES ASSUME IInv, mpc = "parse", bbb # <<>>, Head(bbb).word = "mt" PROVE factor
    BY DEF FactorComesFirst
  <2> DEFINE u == UnderWay(bbb, pipe, buffer)
  <2>1. bbb \in Seq(Lines) /\ pipe \in Seq(Lines) /\ buffer \in Seq(Lines)
    BY DEF IInv, TypeOK, LinesTypeOK
  <2>2. u \in Seq(Lines) /\ u # <<>> /\ u[1] = Head(bbb)
    BY ONLY <2>1, bbb # <<>>, ParsedInFront
  <2>3. FactorDue(factor, mpc, link, u) /\ factor \in BOOLEAN
    BY DEF IInv, TypeOK, PilotTypeOK, LinesTypeOK, MotorTypeOK
  <2> HIDE DEF u
  <2>4. ~NoThrust(u)
    <3>1. 1 \in 1 .. Len(u)
      BY <2>2
    <3>2. QED
      BY <2>2, <3>1 DEF NoThrust
  <2>5. QED
    BY <2>2, <2>3, <2>4 DEF FactorDue, FactorAhead
<1>2. QED
  BY <1>1, Invariant, PTL

LEMMA GreatestExists ==
    ASSUME NEW n \in Nat, NEW S \in SUBSET (1 .. n), S # {}
    PROVE  \E x \in S : \A y \in S : x >= y
<1> DEFINE T == {i \in 0 .. n : n - i \in S}
<1>1. T \in SUBSET Nat
  OBVIOUS
<1>2. T # {}
  <2>1. PICK x \in S : TRUE
    OBVIOUS
  <2>2. n - x \in 0 .. n /\ n - (n - x) = x
    BY <2>1
  <2>3. n - x \in T
    BY <2>1, <2>2
  <2>4. QED
    BY <2>3
<1> HIDE DEF T
<1>3. \E i \in T : \A k \in T : ~(<<k, i>> \in OpToRel(<, Nat))
  BY <1>1, <1>2, WFMin, NatLessThanWellFounded
<1>4. \A i, k \in Nat : k < i => <<k, i>> \in OpToRel(<, Nat)
  BY DEF OpToRel
<1>5. PICK i \in T : \A k \in T : ~(k < i)
  BY <1>1, <1>3, <1>4
<1>6. n - i \in S
  BY <1>5 DEF T
<1>7. \A y \in S : n - y \in T
  <2>1. \A y \in S : n - y \in 0 .. n /\ n - (n - y) = y
    OBVIOUS
  <2>2. QED
    BY <2>1 DEF T
<1>8. \A y \in S : n - i >= y
  BY <1>1, <1>5, <1>7
<1>9. QED
  BY <1>6, <1>8

(* Of a pilot that sleeps, no thrust reaches the motors behind its "stan". *)
THEOREM StandbyIsNotOvertaken == Spec => []StandbyFollows
<1>1. ASSUME NEW s \in Seq(Lines)
      PROVE  LET mts == {i \in 1 .. Len(s) : s[i].word = "mt"}
                 stans == {i \in 1 .. Len(s) : s[i].word = "stan"}
             IN  /\ StanBehind(s) => (IF mts # {} THEN Max(mts) ELSE 0)
                                       < (IF stans # {} THEN Max(stans) ELSE 0)
                 /\ NoThrust(s) => (IF mts # {} THEN Max(mts) ELSE 0) = 0
  <2> DEFINE mts == {i \in 1 .. Len(s) : s[i].word = "mt"}
             stans == {i \in 1 .. Len(s) : s[i].word = "stan"}
  <2>1. Len(s) \in Nat /\ mts \in SUBSET (1 .. Len(s)) /\ stans \in SUBSET (1 .. Len(s))
    BY LenProperties
  <2>2. NoThrust(s) => mts = {}
    BY DEF NoThrust
  <2>3. \A i \in mts, j \in stans : i # j
    OBVIOUS
  <2>4. ASSUME StanBehind(s)
        PROVE  \E j \in stans : \A i \in mts : i < j
    <3>1. PICK j \in 1 .. Len(s) :
              s[j].word = "stan" /\ \A i \in j .. Len(s) : s[i].word # "mt"
      BY <2>4 DEF StanBehind
    <3>2. \A i \in 1 .. Len(s) : ~(i < j) => i \in j .. Len(s)
      BY <2>1
    <3>3. QED
      BY <3>1, <3>2
  <2> HIDE DEF mts, stans
  <2>5. mts # {} => Max(mts) \in mts /\ \A i \in mts : Max(mts) >= i
    BY <2>1, GreatestExists, Zenon DEF Max
  <2>6. stans # {} => Max(stans) \in stans /\ \A i \in stans : Max(stans) >= i
    BY <2>1, GreatestExists, Zenon DEF Max
  <2>7. ASSUME StanBehind(s)
        PROVE  (IF mts # {} THEN Max(mts) ELSE 0) < (IF stans # {} THEN Max(stans) ELSE 0)
    <3>1. PICK j \in stans : \A i \in mts : i < j
      BY <2>4, <2>7
    <3>2. Max(stans) >= j /\ Max(stans) \in 1 .. Len(s) /\ j \in 1 .. Len(s) /\ stans # {}
      BY <2>1, <2>6, <3>1
    <3>3. mts # {} => Max(mts) < j /\ Max(mts) \in 1 .. Len(s)
      BY <2>1, <2>5, <3>1
    <3>4. QED
      BY <2>1, <3>2, <3>3
  <2>8. QED
    BY <2>2, <2>7 DEF mts, stans
<1>2. IInv => StandbyFollows
  <2> SUFFICES ASSUME IInv, ~awake, told, link = "open", mpc \in {"select", "parse"}
               PROVE  LET LastOf(w) == SelectLastInSeq(Unparsed, LAMBDA l : l.word = w)
                      IN  \/ LastOf("mt") < LastOf("stan")
                          \/ LastOf("mt") = 0 /\ standby
    BY DEF StandbyFollows
  <2>1. bbb \in Seq(Lines) /\ pipe \in Seq(Lines) /\ buffer \in Seq(Lines)
    BY DEF IInv, TypeOK, LinesTypeOK
  <2>2. Unparsed \in Seq(Lines) /\ Unparsed = UnderWay(bbb, pipe, buffer)
    <3>1. /\ UnderWay(bbb, pipe, buffer) \in Seq(Lines)
          /\ UnderWay(bbb, pipe, buffer) = bbb \o pipe \o buffer
      BY <2>1, UnderWayIs
    <3>2. QED
      BY <3>1, Zenon DEF Unparsed
  <2>3. StanBehind(Unparsed) \/ (NoThrust(Unparsed) /\ standby)
    BY <2>2 DEF IInv, StandbyDue
  <2>4. QED
    BY <1>1, <2>2, <2>3 DEF SelectLastInSeq
<1>3. QED
  BY <1>2, Invariant, PTL
================================================================================

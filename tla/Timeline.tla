------------------------------- MODULE Timeline -------------------------------
(***************************************************************************)
(* The timeline of the pilot: the sorted list of events that the callbacks *)
(* and the main routines fill, and the pass over it that every poll makes. *)
(* One event is the stabilisation tick, which reschedules itself from the  *)
(* time it was due at, and which a fresh sensor measurement pulls forward. *)
(***************************************************************************)
EXTENDS Integers, SequencesExt

CONSTANTS
    Events,     \* pairs of a function and its argument, by their addresses
    Tick,       \* the event that is the stabilisation tick
    Period,     \* the time between two ticks
    MaxTime,    \* bound on the current time
    MaxEvents   \* bound on the length of the list

ASSUME EventAssumption == Events \subseteq Nat /\ IsFiniteSet(Events) /\ Tick \in Events
ASSUME TimeAssumption == Period \in Nat \ {0} /\ MaxTime \in Nat /\ MaxEvents \in Nat

VARIABLES
    now,        \* currentTime.usec
    timeLine,   \* timeLine: pairs of a time and an event
    lineTime,   \* currentTimeLineTimeUsec, the time the running event was due at
    until,      \* untilUsec of the pass
    pc          \* between passes, at the head of the loop, in the tick's callback
                \* before it rescheduled, in a callback

vars == <<now, timeLine, lineTime, until, pc>>

Times == 0 .. MaxTime + Period
Items == Times \X Events

TypeOK ==
    /\ now \in 0 .. MaxTime
    /\ timeLine \in Seq(Items)
    /\ lineTime \in Times /\ until \in 0 .. MaxTime
    /\ pc \in {"out", "loop", "tick", "event"}

-------------------------------------------------------------------------------
(* The list                                                                  *)

(* timeLineEventComparator *)
Before(item, other) ==
    \/ item[1] < other[1]
    \/ item[1] = other[1] /\ item[2] < other[2]

(* SGLIB_SORTED_LIST_ADD: in front of the first member that is not before it. *)
PlaceFor_if_prepended(line, item) == 1
PlaceFor(line, item) ==
    CHOOSE i \in 1 .. Len(line) + 1 :
        /\ \A j \in 1 .. i - 1 : Before(line[j], item)
        /\ i <= Len(line) => ~Before(line[i], item)

(* timeLineInsertEvent never inserts an event at the current time. *)
Later_if_unchanged(time, current) == time
Later(time, current) == IF time <= current THEN current + 1 ELSE time

Inserted(line, time, e, current) ==
    LET item == <<Later(time, current), e>>
    IN  InsertAt(line, PlaceFor(line, item), item)

(* timeLineRemoveEventAtUnknownTime: the first member with that event goes. *)
Listed(line, e) == \E i \in 1 .. Len(line) : line[i][2] = e
Removed_if_only_looked_up(line, e) == line
Removed(line, e) == RemoveFirstMatch(line, LAMBDA item : item[2] = e)

(* timeLineRescheduleUniqueEvent *)
Rescheduled(line, time, e, current) == Inserted(Removed(line, e), time, e, current)

(* timeLineRescheduleUniqueEventIfExisted *)
RescheduledIfExisted_if_always(line, time, e, current) == Rescheduled(line, time, e, current)
RescheduledIfExisted(line, time, e, current) ==
    IF Listed(line, e) THEN Rescheduled(line, time, e, current) ELSE line

(* timeLineInsertUniqEventIfNotYetInserted *)
InsertedIfNotYet(line, time, e, current) ==
    IF Listed(line, e) THEN line ELSE Inserted(line, time, e, current)

-------------------------------------------------------------------------------
(* raspilotInit and main insert each event once. *)
Init ==
    /\ now = 0
    /\ \E times \in [Events -> 1 .. Period] :
           timeLine \in SetToSeqs({<<times[e], e>> : e \in Events})
    /\ IsSorted(timeLine, Before)
    /\ lineTime = 0 /\ until = 0
    /\ pc = "out"

(* setCurrentTime never sets the time back. *)
Time == now .. MaxTime

(* raspilotPoll, from the main routine or from a callback that never returns:
   input is handled at the time of the first setCurrentTime, then the pass
   begins at the second. *)
Poll ==
    /\ pc \in {"out", "event"}
    /\ now' \in Time
    /\ pc' = "out"
    /\ UNCHANGED <<timeLine, lineTime, until>>

BeginPass ==
    /\ pc = "out"
    /\ until' = now
    /\ pc' = "loop"
    /\ UNCHANGED <<now, timeLine, lineTime>>

IsDue == timeLine # <<>> /\ Head(timeLine)[1] <= until

(* One turn of the loop of timeLineExecuteScheduledEvents *)
Execute ==
    /\ pc = "loop" /\ IsDue
    /\ lineTime' = Head(timeLine)[1]
    /\ timeLine' = Tail(timeLine)
    /\ pc' = IF Head(timeLine)[2] = Tick THEN "tick" ELSE "event"
    /\ UNCHANGED <<now, until>>

EndPass ==
    /\ pc = "loop" /\ ~IsDue
    /\ pc' = "out"
    /\ UNCHANGED <<now, timeLine, lineTime, until>>

(* pilotScheduleNextTick: one period after the time this tick was due at, or,
   when that is over, after the current time. *)
NextTick_if_twice_late(current) ==
    IF lineTime + Period <= current THEN current + 2 * Period ELSE lineTime + Period
NextTick(current) ==
    IF lineTime + Period <= current THEN current + Period ELSE lineTime + Period

ScheduleNextTick ==
    /\ pc = "tick"
    /\ now' \in Time
    /\ timeLine' = Rescheduled(timeLine, NextTick(now'), Tick, now')
    /\ pc' = "event"
    /\ UNCHANGED <<lineTime, until>>

Return ==
    /\ pc = "event"
    /\ pc' = "loop"
    /\ UNCHANGED <<now, timeLine, lineTime, until>>

(* A callback, an input handler or the main routine changes the list. *)
Changes(line) ==
    /\ pc \in {"out", "event"}
    /\ timeLine' = line /\ Len(line) <= MaxEvents
    /\ UNCHANGED <<now, lineTime, until, pc>>

(* Regular functions insert themselves after the current time, or after the time
   they were due at, which may be over; the tick is not among them. *)
Insert(time, e) == e # Tick /\ Changes(Inserted(timeLine, time, e, now))

InsertUnlessListed(time, e) == e # Tick /\ Changes(InsertedIfNotYet(timeLine, time, e, now))

RescheduleUnique(time, e) == e # Tick /\ Changes(Rescheduled(timeLine, time, e, now))

(* pilotRegularStabilizationLoopRescheduleToSoon, which asks for a time after the
   current one, and only for a tick that is due later. *)
TickToSoon(time) ==
    /\ time > now
    /\ \A i \in 1 .. Len(timeLine) : timeLine[i][2] = Tick => timeLine[i][1] > time
    /\ Changes(RescheduledIfExisted(timeLine, time, Tick, now))

RemoveAllEvents == Changes(<<>>)

Callback ==
    \/ \E time \in (now - 1 .. now + Period) \cap Nat :
           \/ \E e \in Events :
                  Insert(time, e) \/ InsertUnlessListed(time, e) \/ RescheduleUnique(time, e)
           \/ TickToSoon(time)
    \/ RemoveAllEvents

Next == Poll \/ BeginPass \/ Execute \/ EndPass \/ ScheduleNextTick \/ Return \/ Callback

(* A pass goes on, and no callback runs forever. *)
Spec == Init /\ [][Next]_vars /\ WF_vars(Execute \/ EndPass \/ ScheduleNextTick \/ Return)

-------------------------------------------------------------------------------
(* Properties                                                                *)

(* The list is sorted by time, the order on which a pass relies to stop at the
   first event that is not due. *)
Sorted == \A i \in 1 .. Len(timeLine) - 1 : ~Before(timeLine[i + 1], timeLine[i])

(* The tick is listed at most once, though it is moved from callbacks and input
   handlers while it is listed and while it runs. *)
TickIsUnique ==
    \A i, j \in 1 .. Len(timeLine) : timeLine[i][2] = Tick /\ timeLine[j][2] = Tick => i = j

(* However late a pass was, the next tick is never further away than a period. *)
TickWithinPeriod ==
    \A i \in 1 .. Len(timeLine) : timeLine[i][2] = Tick => timeLine[i][1] <= now + Period

(* A tick that was taken off the list, by the shutdown for one, is never brought
   back by a sensor measurement: only a tick that is running lists it again. *)
TickNotRevived ==
    [][~Listed(timeLine, Tick) /\ pc # "tick" => ~Listed(timeLine', Tick)]_vars

(* "actions can add immediate actions which are executed in this loop and can
   potentially loop forever": they cannot, each pass ends. *)
PassEnds == pc # "out" ~> pc = "out"

(* The timeline implements the agenda: a pass is over exactly the events due when
   it began. *)
Entries == ToBag(timeLine)
DueBy(bag, time) == [item \in {i \in DOMAIN bag : i[1] <= time} |-> bag[item]]
DueEntries == IF pc = "out" THEN EmptyBag ELSE DueBy(Entries, until)
InCallback == pc \in {"tick", "event"}
A == INSTANCE Agenda WITH agenda <- Entries, due <- DueEntries, running <- InCallback
ImplementsAgenda == A!Spec
===============================================================================

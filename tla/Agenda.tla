-------------------------------- MODULE Agenda --------------------------------
(***************************************************************************)
(* What the timeline promises, without its list: a bag of events, each     *)
(* with the time it was inserted for.  A pass runs, in order of their      *)
(* times, all the events that were due when it began and have not been     *)
(* cancelled since, and no other, unless one of them never returns: what   *)
(* is inserted during a pass waits for the next one.                       *)
(***************************************************************************)
EXTENDS Integers, BagsExt

CONSTANT Events

VARIABLES
    now,      \* the current time, as the process knows it
    agenda,   \* the events to be run: a bag of pairs of a time and an event
    due,      \* those the pass still has to run, none between passes
    running    \* whether one of them runs

vars == <<now, agenda, due, running>>

Nothing == [item \in {} |-> 0]

Init ==
    /\ now = 0
    /\ \A item \in DOMAIN agenda : item[1] > now /\ item[2] \in Events
    /\ due = Nothing /\ running = FALSE

Earliest(items) == {item \in items : \A other \in items : item[1] <= other[1]}

Due(time) == [item \in {i \in DOMAIN agenda : i[1] <= time} |-> agenda[item]]

TimePasses == now' >= now /\ UNCHANGED <<agenda, due, running>>

BeginPass == due = Nothing /\ ~running /\ due' = Due(now) /\ UNCHANGED <<now, agenda, running>>

Run ==
    /\ ~running /\ running' = TRUE
    /\ \E item \in Earliest(DOMAIN due) :
           /\ due' = BagRemove(due, item)
           /\ agenda' = BagRemove(agenda, item)
    /\ UNCHANGED now

Return == running /\ running' = FALSE /\ UNCHANGED <<now, agenda, due>>

(* An event that polls and never returns leaves its pass unfinished. *)
Abandon == running /\ running' = FALSE /\ now' >= now /\ due' = Nothing /\ UNCHANGED agenda

(* The event is put on the agenda for a time to come; one that is rescheduled first
   loses its earliest entry. *)
Reschedule(e) ==
    /\ now' >= now /\ UNCHANGED running
    /\ \E new \in DOMAIN agenda' :
           /\ new[2] = e /\ new[1] > now'
           /\ \/ agenda' = BagAdd(agenda, new) /\ UNCHANGED due
              \/ \E old \in Earliest({item \in DOMAIN agenda : item[2] = e}) :
                     /\ agenda' = BagAdd(BagRemove(agenda, old), new)
                     /\ due' = BagRemove(due, old)

Clear == agenda' = Nothing /\ due' = Nothing /\ UNCHANGED <<now, running>>

Next ==
    \/ TimePasses \/ BeginPass \/ Run \/ Return \/ Abandon \/ Clear
    \/ \E e \in Events : Reschedule(e)

Spec == Init /\ [][Next]_vars
===============================================================================

-------------------------------- MODULE Outbox --------------------------------
(***************************************************************************)
(* What a connection promises to its writer: bytes that were accepted are  *)
(* delivered in full before a close takes effect, unless the connection    *)
(* breaks; and nothing but a failure breaks it.                            *)
(***************************************************************************)
EXTENDS Naturals

VARIABLES
    state,    \* open, closing with bytes to deliver, done, broken
    queued    \* bytes accepted and not delivered

Init == state = "open" /\ queued = 0

Usable == state \in {"open", "closing"}

Accept == Usable /\ queued' > queued /\ UNCHANGED state

(* A close with nothing to deliver is done at once. *)
Close ==
    /\ state = "open"
    /\ state' = IF queued = 0 THEN "done" ELSE "closing"
    /\ UNCHANGED queued

(* The last delivery completes the close. *)
Deliver ==
    /\ Usable
    /\ queued' < queued
    /\ state' = IF state = "closing" /\ queued' = 0 THEN "done" ELSE state

Break == Usable /\ state' = "broken" /\ UNCHANGED queued

Next == Accept \/ Close \/ Deliver \/ Break

Spec == Init /\ [][Next]_<<state, queued>>
===============================================================================

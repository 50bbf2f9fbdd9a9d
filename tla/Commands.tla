-------------------------------- MODULE Commands --------------------------------
(***************************************************************************)
(* What the motor process may count on from the pilot: thrusts come only   *)
(* from one that is awake, every way to sleep is announced, a shutdown is  *)
(* final, and only a tick that was being sent when it began is still sent. *)
(*                                                                         *)
(* Raspilot implements this specification, and the pilot of Motor takes    *)
(* its steps: it is where the two models meet.                             *)
(***************************************************************************)
CONSTANT ShutdownExit   \* whether a shutdown also tells the motor process to end

VARIABLES
    awake,   \* the pilot is in a stage that sends thrusts
    life,    \* up, down after its shutdown, gone, or crashed
    late,    \* a tick had passed its tests when the pilot shut down
    said     \* the word of its last command

commands == <<awake, life, late, said>>

Init == awake = FALSE /\ life = "up" /\ late = FALSE /\ said = "mfac"

Wake ==
    /\ life = "up" /\ ~awake
    /\ awake' = TRUE
    /\ UNCHANGED <<life, late, said>>

SendThrusts ==
    /\ life = "up" /\ awake
    /\ said' = "mt"
    /\ UNCHANGED <<awake, life, late>>

GotoStandby ==
    /\ life = "up"
    /\ awake' = FALSE /\ said' = "stan"
    /\ UNCHANGED <<life, late>>

(* A shutdown, which a signal may start inside a tick *)
Shutdown ==
    /\ life = "up"
    /\ life' = "down" /\ awake' = FALSE
    /\ late' \in IF awake THEN BOOLEAN ELSE {FALSE}
    /\ said' = IF ShutdownExit THEN "exit" ELSE "stan"

LateThrusts ==
    /\ late /\ late' = FALSE
    /\ said' = "mt"
    /\ UNCHANGED <<awake, life>>

Exit ==
    /\ life = "down"
    /\ life' = "gone" /\ late' = FALSE
    /\ UNCHANGED <<awake, said>>

Crash ==
    /\ life = "up"
    /\ life' = "crashed" /\ awake' = FALSE /\ said' = "land"
    /\ UNCHANGED late

Next ==
    \/ Wake \/ SendThrusts \/ GotoStandby
    \/ Shutdown \/ LateThrusts \/ Exit \/ Crash

Spec == Init /\ [][Next]_commands
=================================================================================

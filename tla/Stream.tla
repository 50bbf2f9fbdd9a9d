--------------------------------- MODULE Stream ---------------------------------
(***************************************************************************)
(* One mandatory sensor stream from the sensor process to the values the   *)
(* pilot flies by: the shared ring, the output buffer with the launch pose *)
(* taken off, the two waits of the prefly sequence for all devices, and    *)
(* what the shutdown and the crash of either process leave behind.         *)
(*                                                                         *)
(* The pilot has one thread: main looks at the stream between two ticks    *)
(* only, and a signal may come at any point of a tick, between the two     *)
(* tests of the status as well.                                            *)
(***************************************************************************)
EXTENDS SharedRing, Sequences

VARIABLES
    out,       \* outputBuffer: elements, and whether the pose was taken off
    pose,      \* launchPoseSetFlag
    stage,     \* how far main is on its way to the flight
    shutDown   \* shutDownInProgress

output == <<out, pose>>
control == <<stage, shutDown>>
vars == <<ring, output, control>>

(* Standby, the first wait, the prefly sequence before the pose is set, the
   second wait, the rest of the sequence, and flight *)
StreamStages == {"standby", "sensors", "prefly", "posed", "warned", "fly"}

Outputs == [value : Scraps, posed : BOOLEAN]

TypeOK ==
    /\ RingTypeOK
    /\ out \in Seq(Outputs) /\ Len(out) <= Size
    /\ pose \in BOOLEAN
    /\ stage \in StreamStages
    /\ shutDown \in BOOLEAN

Init ==
    /\ RingInit
    /\ out = <<>> /\ pose = FALSE
    /\ stage = "standby" /\ shutDown = FALSE

-------------------------------------------------------------------------------
(* The tick                                                                  *)

(* regressionBufferAddElem: the newest element replaces the oldest.  What its
   smoothing writes over the vector of an older one is data left out. *)
Added(v) ==
    LET e == [value |-> v, posed |-> pose]
    IN  IF Len(out) < Size THEN Append(out, e) ELSE Append(Tail(out), e)

TickBegin == TranslateBegin /\ UNCHANGED <<output, control>>

TickLock == TranslateLock /\ UNCHANGED <<output, control>>

TickCopy ==
    /\ TranslateNext
    /\ out' = Added(Source)
    /\ UNCHANGED <<pose, control>>

TickTest == TranslateTest /\ UNCHANGED <<output, control>>

(* The copy without the mutex *)
TickPeek ==
    /\ PeekCount \/ PeekFrom \/ PeekUpto \/ PeekMark \/ PeekTime
    /\ UNCHANGED <<output, control>>

TickPeekCopy ==
    /\ PeekVector
    /\ \E v \in Glimpses : out' = Added(v)
    /\ UNCHANGED <<pose, control>>

TickUnlock == TranslateUnlock /\ UNCHANGED <<output, control>>

(* pilotCheckDeviceForTimeout finds data in the output buffer, and recent ones. *)
TickFuse ==
    /\ ppc = "fuse"
    /\ out # <<>> \/ stage # "fly"
    /\ ppc' = "idle"
    /\ UNCHANGED <<memory, sensor, done, left, at, seen, output, control>>

(* It finds none, or old ones: in flight the pilot shuts down. *)
TickSensorLost ==
    /\ ppc = "fuse" /\ stage = "fly"
    /\ Finalize
    /\ shutDown' = TRUE
    /\ ppc' = "idle"
    /\ UNCHANGED <<sensor, done, left, at, seen, output, stage>>

-------------------------------------------------------------------------------
(* Main, between two ticks                                                   *)

(* pilotAreAllDevicesReady, without the mutex *)
Ready == n >= size

MainStep(from, to) ==
    /\ ppc = "idle" /\ ~shutDown /\ stage = from
    /\ stage' = to
    /\ UNCHANGED <<ring, shutDown>>

Countdown == MainStep("standby", "sensors") /\ UNCHANGED output
FirstWaitOver == Ready /\ MainStep("sensors", "prefly") /\ UNCHANGED output

OutputAfterPose_if_kept == out
OutputAfterPose == <<>>

(* pilotLaunchPoseSet *)
LaunchPoseSet ==
    /\ MainStep("prefly", "posed")
    /\ pose' = TRUE
    /\ out' = OutputAfterPose

SecondWaitOver == Ready /\ MainStep("posed", "warned") /\ UNCHANGED output
Launch == MainStep("warned", "fly") /\ UNCHANGED output

(* The way back to standby, from the sequence or from flight: the standby loop
   calls pilotLaunchPoseClear. *)
Standby ==
    \E s \in StreamStages \ {"standby"} :
        /\ MainStep(s, "standby")
        /\ pose' = FALSE
        /\ out' = <<>>

-------------------------------------------------------------------------------
(* The end of the pilot, and the next session                                *)

(* mainStandardShutdown by the signal handler, which then returns into the code
   it interrupted. *)
Interrupt ==
    /\ ppc # "gone" /\ ~shutDown
    /\ Finalize
    /\ shutDown' = TRUE
    /\ UNCHANGED <<sensor, reader, output, stage>>

Gone == ppc' = "gone" /\ UNCHANGED <<memory, sensor, done, left, at, seen, output, control>>

(* mainExit *)
Exit == shutDown /\ ppc = "idle" /\ Gone

(* A crash, or a second signal: nothing is told to the sensors. *)
Crash == ppc # "gone" /\ Gone

Restart ==
    /\ Recreate
    /\ out' = <<>> /\ pose' = FALSE
    /\ stage' = "standby" /\ shutDown' = FALSE

-------------------------------------------------------------------------------
Sensor == (Connects \/ Pushes) /\ UNCHANGED <<output, control>>
SensorKilled == Kill /\ UNCHANGED <<output, control>>
Tick ==
    \/ TickBegin \/ TickTest
    \/ TickLock \/ TickCopy \/ TickPeek \/ TickPeekCopy \/ TickUnlock
    \/ TickFuse \/ TickSensorLost
Main ==
    \/ Countdown \/ FirstWaitOver \/ LaunchPoseSet \/ SecondWaitOver \/ Launch
    \/ Standby

Next ==
    \/ Sensor \/ SensorKilled
    \/ Tick \/ Main
    \/ Interrupt \/ Exit \/ Crash \/ Restart

(* Both processes run.  A sensor sleeps between two pushes, so a pilot that waits
   for the mutex gets it in the end, and so does the sensor. *)
Fairness ==
    /\ WF_vars(Sensor)
    /\ SF_vars(PushLock /\ UNCHANGED <<output, control>>)
    /\ WF_vars(TickTest \/ TickCopy \/ TickPeek \/ TickPeekCopy \/ TickUnlock
                \/ TickFuse \/ TickSensorLost)
    /\ SF_vars(TickLock)

Spec == Init /\ [][Next]_vars /\ Fairness

-------------------------------------------------------------------------------
(* Properties                                                                *)

(* The values the pilot estimates from were all corrected by the launch pose in
   force: none is left from before it was set, or from an earlier flight. *)
Corrected == \A i \in DOMAIN out : out[i].posed = pose

(* A tick that waits for the mutex gets it, unless the sensor was killed with it. *)
PilotNotBlocked ==
    ppc = "lock" ~> ppc # "lock" \/ (~alive /\ mutex = "sensor")


(* The comment of the second wait (main.c 623), "wait until all regression buffers
   are full with launch pose corrected values", for a sensor that has connected. *)
FullAfterSecondWait ==
    [][stage = "posed" /\ stage' = "warned" /\ status = "ok" => Len(out) = Size]_vars

(* The measurements whose push is complete, and those the pilot may still take, of
   which the oldest is given up when its slot is written over *)
Arrived == IF spc = "indexing" THEN n - 1 ELSE n
Window ==
    LET kept == IF spc \in {"filling", "counting", "indexing"} THEN Size - 1 ELSE Size
        count == IF Arrived - done < kept THEN Arrived - done ELSE kept
    IN  IF ppc = "lock" \/ (status = "ok" /\ ppc # "gone") THEN count ELSE 0

Pending(count) == [i \in 1 .. count |-> slots[(ai + Size - count + i - 1) % Size]]

Gate ==
    IF ppc = "lock" \/ (status = "ok" /\ ppc # "gone") THEN "open"
    ELSE IF ppc \in {"test"} \cup Bare THEN "caught" ELSE "shut"

StreamFeed ==
    INSTANCE Feed WITH
        gate <- Gate,
        fresh <- Pending(Window),
        batch <- IF ppc = "copy" THEN Pending(left) ELSE <<>>,
        out <- IF ppc = "gone" THEN <<>> ELSE [i \in DOMAIN out |-> out[i].value]

(* The ring with its mutex implements the feed, whose elements arrive whole, once and
   in order but in the tick a shutdown catches between its tests. *)
ImplementsFeed == StreamFeed!FeedSpec
=================================================================================

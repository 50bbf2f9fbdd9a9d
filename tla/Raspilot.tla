------------------------------- MODULE Raspilot -------------------------------
(***************************************************************************)
(* The flight control of the pilot process: the fly stage, the main        *)
(* routines that wait for it (manual RC mode and the single mission), and  *)
(* everything the poll loop calls back while they wait.                    *)
(*                                                                         *)
(* The process has one thread.  Every wait of main is a loop around        *)
(* raspilotPoll, which first delivers input (phase "io"), then runs the    *)
(* timeline events that fell due (phase "events"), and then returns to the *)
(* loop, which looks at the fly stage again (phase "main").  A signal      *)
(* handler may run between any two steps.  The stabilisation tick is cut   *)
(* into its four parts because a signal between them matters.              *)
(*                                                                         *)
(* A landing or a shutdown that starts inside a callback polls on in there *)
(* and never returns, so it replaces the main routine: pc says where the   *)
(* innermost loop is.                                                      *)
(***************************************************************************)
EXTENDS Integers

CONSTANTS
    Modes,         \* of "manual" (MODE_MANUAL_RC) and "mission" (MODE_SINGLE_MISSION)
    Joysticks,     \* the choices for a jstest joystick beside the RC link
    PingHost,      \* whether the option -p asks for the ping check
    ShutdownExit,  \* the option shutdownExit of the motor device
    MaxSignals,    \* bound on the signals the process receives
    MaxFlights     \* bound on the flights counted in the total fly time

ASSUME ModeAssumption == Modes \subseteq {"manual", "mission"}
ASSUME FlagAssumption ==
    Joysticks \subseteq BOOLEAN /\ PingHost \in BOOLEAN /\ ShutdownExit \in BOOLEAN
ASSUME BoundAssumption == MaxSignals \in Nat /\ MaxFlights \in Nat

(* enum flyStage: the code compares stages by their order. *)
FS_START               == 1
FS_STANDBY             == 2
FS_COUNTDOWN           == 3
FS_WAITING_FOR_SENSORS == 4
FS_PRE_FLY             == 5
FS_FLY                 == 6
FS_EMERGENCY_LANDING   == 7
FS_SHUTDOWN            == 8

VARIABLES
    mode,      \* uu->pilotMainMode, read from the configuration
    joystick,  \* whether a jstest joystick is configured
    stage,     \* uu->flyStage
    pc,        \* the loop the main routine is in
    phase,     \* the part of raspilotPoll being run, or "main" after it
    cb,        \* how far the stabilisation tick has run
    events,    \* the timeline: which of the regular functions are scheduled
    due,       \* the events the running pass over the timeline will execute
    shutDown,  \* shutDownInProgress
    motors,    \* the last command queued for the motor process
    thrust,    \* uu->motor[].thrust: stopped, warning spin, or flying
    ready,     \* what pilotAreAllDevicesReady answers
    pose,      \* whether the launch pose is stored
    altSet,    \* uu->rc.altitude.value > -9999
    rc,        \* the RC link: open, closing with one read left, reading it, closed
    panic,     \* panicButtonPressedTime # 0
    signals,   \* number of signals received
    timing,    \* uu->flyStartTime # 0
    total,     \* uu->previousTotalFlyTime: the history it holds, flights added
    file       \* the content of totalFlyTime.txt, in the same terms

setup == <<mode, joystick>>
polling == <<pc, phase, cb>>
timeline == <<events, due>>
command == <<motors, thrust>>
sensors == <<ready, pose, altSet>>
link == <<rc, panic>>
flyTime == <<timing, total, file>>
state == <<stage, polling, timeline, shutDown, command, sensors, link, signals, flyTime>>
vars == <<setup, state>>

Stages == FS_START .. FS_SHUTDOWN
Prelaunch == {"arm", "first", "delay", "warn", "settle", "spin"}
Landing == {"descend", "blind"}
PCs == {"start", "standby", "sensors", "launch", "fly", "emergency", "loiter", "exit",
        "terminated"} \cup Prelaunch \cup Landing
EventNames == {"tick", "stdin", "control", "ping", "exit"}
FlyTimes == [history : BOOLEAN, flights : 0 .. MaxFlights]
Asleep == {"mfac", "stan", "exit", "land"}

TypeOK ==
    /\ mode \in Modes /\ joystick \in Joysticks
    /\ stage \in Stages
    /\ pc \in PCs
    /\ phase \in {"io", "events", "main"}
    /\ cb \in {"idle", "tick", "fuse", "send"}
    /\ events \subseteq EventNames
    /\ due \subseteq EventNames
    /\ shutDown \in BOOLEAN
    /\ motors \in Asleep \cup {"zero", "spin", "fly"}
    /\ thrust \in {"zero", "spin", "fly"}
    /\ ready \in BOOLEAN /\ pose \in BOOLEAN /\ altSet \in BOOLEAN
    /\ rc \in {"open", "draining", "reading", "closed"}
    /\ panic \in BOOLEAN
    /\ signals \in 0 .. MaxSignals
    /\ timing \in BOOLEAN
    /\ total \in FlyTimes
    /\ file \in FlyTimes

(* raspilotInit: devices initiated, the stream factor sent, the first events
   inserted.  The file holds the history of earlier sessions. *)
Init ==
    /\ mode \in Modes /\ joystick \in Joysticks
    /\ stage = FS_START
    /\ pc = "start" /\ phase = "main" /\ cb = "idle"
    /\ events = {"stdin"} \cup (IF PingHost THEN {"ping"} ELSE {})
    /\ due = {}
    /\ shutDown = FALSE
    /\ motors = "mfac" /\ thrust = "zero"
    /\ ready = FALSE /\ pose = FALSE /\ altSet = FALSE
    /\ rc = "open" /\ panic = FALSE
    /\ signals = 0
    /\ timing = FALSE
    /\ total = [history |-> FALSE, flights |-> 0]
    /\ file = [history |-> TRUE, flights |-> 0]

-------------------------------------------------------------------------------
(* Shutdown and standby, called from main, from callbacks and by the signal  *)
(* handler.                                                                  *)

(* The operators with a suffix _if_... are deliberate faults: each stands for a
   plausible slip in the code, and a property of a run fails with it in the
   place of the operator it is named after. *)

(* The command left behind by motorsStop and motorsStandby: once the shutdown
   is in progress nothing is sent. *)
Standby_if_message_forgotten == IF shutDown THEN motors ELSE "zero"
Standby == IF shutDown THEN motors ELSE "stan"

(* mainStandardShutdown also sends "exit" when so configured. *)
Parked_if_word_unknown == "stop"
Parked == IF shutDown \/ ~ShutdownExit THEN Standby ELSE "exit"

(* mainStatistics(STATISTIC_PRINT) adds the time since the last launch. *)
Updated ==
    IF timing /\ total.flights < MaxFlights
    THEN [total EXCEPT !.flights = @ + 1] ELSE total

(* mainSavePreviousFlyTime, called in stage s. *)
Saved(s) == IF s < FS_FLY THEN file ELSE Updated

(* A connection closed with lines to write keeps the read it was waiting for. *)
ClosedLinks == IF rc = "open" THEN {"draining", "closed"} ELSE {rc}

(* timeLineRemoveAllEvents, then mainExit is inserted. *)
LastEvents_if_swapped == {}
LastEvents == {"exit"}

(* mainStandardShutdown, called in stage s. *)
StandardShutdown(s) ==
    /\ motors' = Parked
    /\ thrust' = "zero"
    /\ total' = Updated
    /\ file' = Saved(s)
    /\ stage' = FS_SHUTDOWN
    /\ shutDown' = TRUE
    /\ rc' \in ClosedLinks
    /\ events' = LastEvents
    /\ due' = {}

(* raspilotShutDownAndExit: shut down, then poll until mainExit is run. *)
ShutDownAndExit(s) ==
    /\ StandardShutdown(s)
    /\ pc' = "exit" /\ phase' = "io" /\ cb' = "idle"
    /\ UNCHANGED timing

(* raspilotGotoStandby *)
GotoStandby ==
    /\ motors' = Standby
    /\ thrust' = "zero"
    /\ stage' = FS_STANDBY

(* The head of the outer loop of pilotModeManualRc: in standby it forgets the
   altitude and the launch pose, in any other stage the program ends. *)
WaitInStandby ==
    /\ pc' = "standby" /\ phase' = "io"
    /\ altSet' = FALSE /\ pose' = FALSE
    /\ UNCHANGED <<cb, timeline, shutDown, rc, flyTime>>

LeaveManualRc ==
    /\ ShutDownAndExit(stage)
    /\ UNCHANGED <<altSet, pose>>

-------------------------------------------------------------------------------
(* Input delivered by baioPoll.                                              *)

(* manualPilotSetControl for the altitude *)
SetAltitude_if_ignored == UNCHANGED altSet
SetAltitude == altSet' = TRUE

(* mavlinkOnRcChannelsOverride: the sticks set the altitude, then the three
   buttons are looked at, in the order of the code.  held: the panic button is
   down for more than five seconds. *)
RcMessage(launch, standby, panicButton, held) ==
    LET launched == IF launch /\ stage = FS_STANDBY THEN FS_COUNTDOWN ELSE stage
        down == (standby \/ panicButton) /\ launched > FS_STANDBY
        reached == IF down THEN FS_STANDBY ELSE launched
    IN  /\ phase = "io" /\ rc # "closed"
        /\ held => panicButton /\ panic
        /\ SetAltitude
        /\ panic' = panicButton
        /\ IF held
           THEN ShutDownAndExit(reached)
           ELSE /\ IF down
                   THEN GotoStandby
                   ELSE stage' = reached /\ UNCHANGED command
                /\ rc' = IF rc = "draining" THEN "reading" ELSE rc
                /\ UNCHANGED <<polling, timeline, shutDown, flyTime>>
        /\ UNCHANGED <<ready, pose, signals>>

(* parseJstestJoystickFlighControl: any button declares an emergency. *)
JoystickButton ==
    /\ phase = "io" /\ joystick /\ ~shutDown
    /\ stage' = FS_EMERGENCY_LANDING
    /\ UNCHANGED <<polling, timeline, shutDown, command, sensors, link, signals, flyTime>>

(* The last mandatory sensor buffer is full and the warming times are over;
   neither is ever taken back. *)
BecomeReady ==
    /\ phase = "io" /\ ~ready
    /\ ready' = TRUE
    /\ UNCHANGED <<stage, polling, timeline, shutDown, command, pose, altSet, link,
                   signals, flyTime>>

(* The end of baioPoll: a closing connection may have written its lines or read
   for the last time, and the timeline fixes which events are due in this pass. *)
EndIo ==
    /\ phase = "io"
    /\ phase' = "events"
    /\ due' \in SUBSET events
    /\ rc' \in CASE rc = "draining" -> {"draining", "closed"}
                 [] rc = "reading"  -> {"closed"}
                 [] OTHER           -> {rc}
    /\ UNCHANGED <<stage, pc, cb, events, shutDown, command, sensors, panic, signals, flyTime>>

-------------------------------------------------------------------------------
(* Timeline events.  A regular function puts itself back on the timeline.    *)

Pops(e) == phase = "events" /\ cb = "idle" /\ e \in due /\ due' = due \ {e}

(* pilotInteractiveInputRegularCheck: nothing typed, a landing asked for by 'l',
   or any other key. *)
StdinCheck ==
    /\ Pops("stdin")
    /\ UNCHANGED <<stage, polling, events, shutDown, command, sensors, link, signals, flyTime>>

StdinShutdown ==
    /\ phase = "events" /\ cb = "idle" /\ "stdin" \in due
    /\ ShutDownAndExit(stage)
    /\ UNCHANGED <<sensors, panic, signals>>

StdinLand ==
    /\ phase = "events" /\ cb = "idle" /\ "stdin" \in due
    /\ stage >= FS_FLY
    /\ pc' = "descend" /\ phase' = "io" /\ due' = {}
    /\ UNCHANGED <<stage, cb, events, shutDown, command, sensors, link, signals, flyTime>>

(* manualControlRegularCheck *)
ControlCheck ==
    /\ Pops("control")
    /\ SetAltitude
    /\ UNCHANGED <<stage, polling, events, shutDown, command, ready, pose, link, signals,
                   flyTime>>

(* pingToHostRegularCheck; lost: no answer came in time. *)
PingCheck(lost) ==
    /\ Pops("ping")
    /\ stage' = IF lost /\ stage = FS_FLY THEN FS_EMERGENCY_LANDING ELSE stage
    /\ UNCHANGED <<polling, events, shutDown, command, sensors, link, signals, flyTime>>

(* The end of the process: no callback and no loop is left. *)
Terminate == pc' = "terminated" /\ phase' = "main" /\ cb' = "idle"

(* mainExit *)
Exit ==
    /\ Pops("exit")
    /\ Terminate
    /\ UNCHANGED <<stage, events, shutDown, command, sensors, link, signals, flyTime>>

(* timeLineExecuteScheduledEvents takes the stabilisation tick off the list. *)
TickStart ==
    /\ Pops("tick")
    /\ events' = events \ {"tick"}
    /\ cb' = "tick"
    /\ UNCHANGED <<stage, pc, phase, shutDown, command, sensors, link, signals, flyTime>>

(* pilotScheduleNextTick, which reschedules whether or not the tick is listed. *)
Rescheduled_if_only_existing == events
Rescheduled == events \cup {"tick"}

TickSchedule ==
    /\ cb = "tick"
    /\ events' = Rescheduled
    /\ cb' = "fuse"
    /\ UNCHANGED <<stage, pc, phase, due, shutDown, command, sensors, link, signals, flyTime>>

(* The test at the head of pilotSendThrusts, in the stages that send at all. *)
MaySend_if_untested(s) == s >= FS_PRE_FLY
MaySend(s) == s >= FS_PRE_FLY /\ ~shutDown

(* pilotSetMotorThrust is only called in flight. *)
Thrusts_if_one_stage_early == IF stage >= FS_PRE_FLY THEN {"zero", "fly"} ELSE {thrust}
Thrusts == IF stage >= FS_FLY THEN {"zero", "fly"} ELSE {thrust}

(* Position and orientation, and the thrust computed from them.  In flight a
   failed computation stops the motors, and a thrust that is constantly too high
   is taken for a weak battery and declares the emergency. *)
TickFuse ==
    /\ cb = "fuse"
    /\ thrust' \in Thrusts
    /\ stage' \in (IF stage = FS_FLY THEN {FS_FLY, FS_EMERGENCY_LANDING} ELSE {stage})
    /\ cb' = IF MaySend(stage) THEN "send" ELSE "idle"
    /\ UNCHANGED <<pc, phase, timeline, shutDown, motors, sensors, link, signals, flyTime>>

(* No sensor provides the position or the orientation. *)
TickSensorLost ==
    /\ cb = "fuse"
    /\ stage > FS_PRE_FLY
    /\ ShutDownAndExit(stage)
    /\ UNCHANGED <<sensors, panic, signals>>

(* motorSendThrustsToStream past its tests: the line is written to the buffer
   of the motor connection, even one that was closed meanwhile. *)
TickSend ==
    /\ cb = "send"
    /\ motors' = thrust
    /\ cb' = "idle"
    /\ UNCHANGED <<stage, pc, phase, timeline, shutDown, thrust, sensors, link, signals, flyTime>>

EndPass ==
    /\ phase = "events" /\ cb = "idle" /\ due = {}
    /\ phase' = "main"
    /\ UNCHANGED <<stage, pc, cb, timeline, shutDown, command, sensors, link, signals, flyTime>>

-------------------------------------------------------------------------------
(* The main routine, after a poll has returned.                              *)

At(loops) == phase = "main" /\ pc \in loops

(* The condition of the flight loop *)
Flying_if_any_later_stage == stage >= FS_FLY
Flying == stage = FS_FLY

(* Every loop but these three is left when the stage becomes standby; the
   flight and the emergency go on only in their own stage. *)
KeepPolling ==
    /\ \/ At({"standby"}) /\ stage = FS_STANDBY
       \/ At({"sensors"}) /\ stage # FS_STANDBY /\ ~ready
       \/ At(Prelaunch \cup {"loiter", "blind"}) /\ stage # FS_STANDBY
       \/ At({"fly"}) /\ Flying
       \/ At({"emergency"}) /\ stage = FS_EMERGENCY_LANDING
       \/ At({"descend", "exit"})
    /\ phase' = "io"
    /\ UNCHANGED <<stage, pc, cb, timeline, shutDown, command, sensors, link, signals, flyTime>>

(* main: the regular functions of the mode are inserted and its routine entered. *)
EnterManualRc ==
    /\ At({"start"}) /\ mode = "manual"
    /\ events' = events \cup {"tick", "control"}
    /\ stage' = FS_STANDBY
    /\ pc' = "standby" /\ phase' = "io"
    /\ UNCHANGED <<cb, due, shutDown, command, sensors, link, signals, flyTime>>

(* raspilotPreLaunchSequence up to its first wait *)
BeginPrelaunch ==
    /\ stage' = FS_WAITING_FOR_SENSORS
    /\ pc' = "sensors"

EnterMission ==
    /\ At({"start"}) /\ mode = "mission"
    /\ events' = events \cup {"tick"}
    /\ BeginPrelaunch
    /\ UNCHANGED <<phase, cb, due, shutDown, command, sensors, link, signals, flyTime>>

(* The inner loop of pilotModeManualRc is left by the countdown, or by a stage
   that ends the program. *)
Countdown ==
    /\ At({"standby"}) /\ stage = FS_COUNTDOWN
    /\ BeginPrelaunch
    /\ UNCHANGED <<phase, cb, timeline, shutDown, command, sensors, link, signals, flyTime>>

StandbyEnds ==
    /\ At({"standby"}) /\ stage \notin {FS_STANDBY, FS_COUNTDOWN}
    /\ LeaveManualRc
    /\ UNCHANGED <<ready, panic, signals>>

SensorsReady ==
    /\ At({"sensors"}) /\ stage # FS_STANDBY /\ ready
    /\ stage' = FS_PRE_FLY
    /\ thrust' = "zero"
    /\ pc' = "arm" /\ phase' = "io"
    /\ UNCHANGED <<cb, timeline, shutDown, motors, sensors, link, signals, flyTime>>

(* The label launchCanceled, and what the caller does with the stage STANDBY:
   the manual mode goes back to its standby loop, the mission goes on to
   missionLoiter, which launches. *)
LaunchCancelled ==
    /\ At({"sensors"} \cup Prelaunch) /\ stage = FS_STANDBY
    /\ thrust' = "zero"
    /\ IF mode = "manual"
       THEN WaitInStandby /\ UNCHANGED stage
       ELSE /\ pc' = "launch"
            /\ UNCHANGED <<stage, phase, cb, timeline, shutDown, altSet, pose, rc, flyTime>>
    /\ UNCHANGED <<motors, ready, panic, signals>>

(* The waits of raspilotPreLaunchSequence, the thrust set for each, and the
   wait that follows.  The first warning rotation is only for missions. *)
After_if_pose_skipped(wait) ==
    CASE wait = "arm"    -> "settle"
      [] wait = "settle" -> "spin"
      [] OTHER           -> "delay"
After_if_restarted(wait) == IF wait = "spin" THEN "arm" ELSE "warn"
After(wait) ==
    CASE wait = "arm"    -> IF mode = "manual" THEN "warn" ELSE "first"
      [] wait = "first"  -> "delay"
      [] wait = "delay"  -> "warn"
      [] wait = "warn"   -> "settle"
      [] wait = "settle" -> "spin"

ThrustOf(wait) == IF wait \in {"first", "warn", "spin"} THEN "spin" ELSE "zero"

(* One wait is over and the next begins.  Before the second warning rotation
   pilotLaunchPoseSet stores the pose and pilotAreAllDevicesReady is asked once
   more, which by then has nothing to wait for. *)
WaitOver ==
    /\ At(Prelaunch \ {"spin"}) /\ stage # FS_STANDBY
    /\ After(pc) = "warn" => ready
    /\ pc' = After(pc) /\ phase' = "io"
    /\ thrust' = ThrustOf(After(pc))
    /\ pose' = (pose \/ After(pc) = "warn")
    /\ UNCHANGED <<stage, cb, timeline, shutDown, motors, ready, altSet, link, signals, flyTime>>

(* The end of the sequence: mainLoadPreviousFlyTime and the statistics start.  What
   follows polls no more, but for a signal it is another step. *)
PrelaunchOver ==
    /\ At({"spin"}) /\ stage # FS_STANDBY
    /\ timing' = TRUE
    /\ total' = file
    /\ pc' = "launch"
    /\ UNCHANGED <<stage, phase, cb, timeline, shutDown, command, sensors, link, signals, file>>

(* The caller in manual mode goes to FS_FLY only with a known altitude. *)
Launch ==
    /\ At({"launch"}) /\ mode = "manual"
    /\ IF altSet THEN stage' = FS_FLY /\ pc' = "fly" /\ UNCHANGED pose
                 ELSE stage' = FS_STANDBY /\ pc' = "standby" /\ pose' = FALSE
    /\ phase' = "io"
    /\ UNCHANGED <<cb, timeline, shutDown, command, ready, altSet, link, signals, flyTime>>

(* The mission calls raspilotLaunch, which sets FS_FLY and computes the controllers
   once more: the battery may be found weak in there. *)
MissionLaunch ==
    /\ At({"launch"}) /\ mode = "mission"
    /\ stage' \in {FS_FLY, FS_EMERGENCY_LANDING}
    /\ pc' = "loiter" /\ phase' = "io"
    /\ UNCHANGED <<cb, timeline, shutDown, command, sensors, link, signals, flyTime>>

(* pilotInitiatePids finds no position or orientation: at the end of the sequence it
   asks for one in the stages of flight only, in raspilotLaunch always. *)
LaunchSensorLost ==
    /\ At({"launch"})
    /\ mode = "mission" \/ stage > FS_PRE_FLY
    /\ ShutDownAndExit(FS_FLY)
    /\ UNCHANGED <<sensors, panic, signals>>

(* The flight loop is left: by the emergency, by standby, or by a shutdown. *)
EmergencyBegins ==
    /\ At({"fly"}) /\ ~Flying /\ stage = FS_EMERGENCY_LANDING
    /\ pc' = "emergency" /\ phase' = "io"
    /\ UNCHANGED <<stage, cb, timeline, shutDown, command, sensors, link, signals, flyTime>>

FlightEnds ==
    /\ At({"fly"}) /\ ~Flying /\ stage # FS_EMERGENCY_LANDING
    /\ IF stage = FS_STANDBY THEN WaitInStandby /\ UNCHANGED <<stage, command>>
                             ELSE LeaveManualRc
    /\ UNCHANGED <<ready, panic, signals>>

(* mainEmergencyLanding has seen the drone landed, or its time is over. *)
EmergencyOver ==
    /\ At({"emergency"}) /\ stage = FS_EMERGENCY_LANDING
    /\ GotoStandby
    /\ WaitInStandby
    /\ UNCHANGED <<ready, panic, signals>>

(* mainEmergencyLanding is left because the stage was changed. *)
EmergencyEnds ==
    /\ At({"emergency"}) /\ stage # FS_EMERGENCY_LANDING
    /\ IF stage = FS_STANDBY THEN WaitInStandby /\ UNCHANGED <<stage, command>>
                             ELSE LeaveManualRc
    /\ UNCHANGED <<ready, panic, signals>>

(* missionLoiter: the loiter time is over or standby was asked for, and
   raspilotLand begins; its descent is only ended by the altitude. *)
LoiterOver_if_only_cancelled ==
    /\ At({"loiter"}) /\ stage = FS_STANDBY
    /\ pc' = "descend" /\ phase' = "io"
    /\ UNCHANGED <<stage, cb, timeline, shutDown, command, sensors, link, signals, flyTime>>
LoiterOver ==
    /\ At({"loiter"})
    /\ pc' = "descend" /\ phase' = "io"
    /\ UNCHANGED <<stage, cb, timeline, shutDown, command, sensors, link, signals, flyTime>>

DescendOver ==
    /\ At({"descend"})
    /\ pc' = "blind"
    /\ phase' = IF stage = FS_STANDBY THEN "main" ELSE "io"
    /\ UNCHANGED <<stage, cb, timeline, shutDown, command, sensors, link, signals, flyTime>>

(* The blind descent is over: the motors are put to sleep and the program ends. *)
Landed ==
    /\ At({"blind"})
    /\ ShutDownAndExit(stage)
    /\ UNCHANGED <<sensors, panic, signals>>

-------------------------------------------------------------------------------
(* pilotInterruptHandler, at any point.  SIGINT and SIGTERM shut the pilot down
   in place and return; any other signal is a crash, where the landing command
   is written directly to the motors; a second signal ends the process. *)
Signalled(first) ==
    /\ pc # "terminated"
    /\ signals < MaxSignals
    /\ signals' = signals + 1
    /\ first <=> signals = 0

Interrupt ==
    /\ Signalled(TRUE)
    /\ StandardShutdown(stage)
    /\ UNCHANGED <<polling, sensors, panic, timing>>

Crash ==
    /\ Signalled(TRUE)
    /\ motors' = IF shutDown THEN motors ELSE "land"
    /\ Terminate
    /\ UNCHANGED <<stage, timeline, shutDown, thrust, sensors, link, flyTime>>

SecondSignal ==
    /\ Signalled(FALSE)
    /\ Terminate
    /\ UNCHANGED <<stage, timeline, shutDown, command, sensors, link, flyTime>>

-------------------------------------------------------------------------------
Input ==
    \/ \E launch, standby, panicButton, held \in BOOLEAN :
           RcMessage(launch, standby, panicButton, held)
    \/ JoystickButton
    \/ BecomeReady

Event ==
    \/ StdinCheck \/ StdinShutdown \/ StdinLand
    \/ ControlCheck
    \/ \E lost \in BOOLEAN : PingCheck(lost)
    \/ Exit
    \/ TickStart \/ TickSchedule \/ TickFuse \/ TickSensorLost \/ TickSend
    \/ EndPass

Main ==
    \/ KeepPolling
    \/ EnterManualRc \/ EnterMission
    \/ Countdown \/ StandbyEnds
    \/ SensorsReady \/ LaunchCancelled \/ WaitOver \/ PrelaunchOver
    \/ Launch \/ MissionLaunch \/ LaunchSensorLost
    \/ EmergencyBegins \/ FlightEnds \/ EmergencyOver \/ EmergencyEnds
    \/ LoiterOver \/ DescendOver \/ Landed

Signal == Interrupt \/ Crash \/ SecondSignal

Terminated == pc = "terminated" /\ UNCHANGED vars

Next ==
    /\ UNCHANGED setup
    /\ Input \/ EndIo \/ Event \/ Main \/ Signal \/ Terminated

(* The process is never suspended: a poll ends its input, and callbacks and main
   take their next step.  An event on the timeline falls due within finite time,
   and so does the end of a wait with a timeout. *)
Fairness ==
    /\ WF_state(EndIo)
    /\ WF_state(Event \/ Main)
    /\ SF_state(EndIo /\ "exit" \in due')
    /\ SF_state(WaitOver \/ PrelaunchOver)
    /\ SF_state(EmergencyOver)
    /\ SF_state(LoiterOver)

Spec == Init /\ [][Next]_vars /\ Fairness

-------------------------------------------------------------------------------
(* Properties                                                                *)

(* In standby, in the countdown and while waiting for sensors the motors sleep:
   whatever the loops and callbacks did before, the last command sent to them
   left them in standby. *)
StandbyAsleep == ~shutDown /\ stage < FS_PRE_FLY => motors \in Asleep

(* Under manual control without a joystick the thrust computed for flight is
   neither set nor sent while the prefly sequence runs, however the previous
   flight ended. *)
PreFlyNeverFlies ==
    mode = "manual" /\ ~joystick /\ ~shutDown /\ stage = FS_PRE_FLY
        => thrust # "fly" /\ motors # "fly"

(* Under manual control without a joystick the motors fly only with the launch
   pose stored, which every return to standby erases. *)
FliesFromLaunchPose ==
    mode = "manual" /\ ~joystick /\ ~shutDown /\ motors = "fly" => pose

(* The prefly sequence knows the target altitude that the standby loop erased:
   the message that starts the countdown has set it, so the test at the end of
   the sequence, which would leave the motors spinning in standby, never fails. *)
AltitudeKnownInPrefly == mode = "manual" /\ pc \in Prelaunch \cup {"launch"} => altSet

(* Until the shutdown the stabilisation tick never drops off the timeline,
   whichever callback it nests in. *)
TickGoesOn ==
    pc \notin {"start", "terminated"} /\ ~shutDown => "tick" \in events \/ cb = "tick"

(* After the shutdown, mainExit is scheduled until it is run: no later shutdown,
   tick or signal loses it. *)
ExitScheduled == shutDown /\ pc # "terminated" => "exit" \in events

(* Once the shutdown is in progress no tick passes the test of shutDownInProgress
   any more, and the motors get no command except from a tick that had passed it
   when the signal came. *)
SilentAfterShutdown ==
    [][shutDown => /\ cb' = "send" => cb = "send"
                   /\ motors' = motors \/ cb = "send"]_vars

(* The comment of pilotSendThrusts, "do not send anything in shutdown sequence
   (otherwise motors are awaken)", without that exception. *)
NothingSentInShutdown == [][shutDown => motors' = motors]_vars

(* The comment of mainSavePreviousFlyTime, "do not touch if did not fly at all":
   the file changes only when a flight was timed. *)
FileTouchedOnlyByFlight == [][file' # file => timing]_vars

(* A launch that was cancelled (the label launchCanceled of main.c 582), or that an
   emergency landing was declared in (device.c 330), is not followed by flight. *)
CancelledIsNotLaunched ==
    [][At({"sensors", "launch"} \cup Prelaunch) /\ stage \in {FS_STANDBY, FS_EMERGENCY_LANDING}
           => stage' \notin {FS_PRE_FLY, FS_FLY}]_vars

(* What the motor process relies on.  A sleeping pilot is one whose stage does not
   send; its last command is a thrust or one of the words of Asleep. *)
Commanding ==
    INSTANCE Commands WITH
        awake <- pc # "terminated" /\ ~shutDown /\ stage >= FS_PRE_FLY,
        life <- IF pc = "terminated" THEN (IF shutDown THEN "gone" ELSE "crashed")
                                     ELSE (IF shutDown THEN "down" ELSE "up"),
        late <- shutDown /\ cb = "send",
        said <- IF motors \in Asleep THEN motors ELSE "mt"

(* The stages, callbacks and signals of the pilot command the motors as Commands
   promises: no stage is left for sleep unannounced, none sends that should not. *)
ImplementsCommands == Commanding!Spec

(* Every shutdown ends the process. *)
ShutdownTerminates == shutDown ~> pc = "terminated"

(* The prefly sequence is never stuck: it launches, is cancelled, or ends. *)
PrelaunchEnds == pc \in Prelaunch ~> pc \notin Prelaunch \cup {"launch"}

(* An emergency declared in manual flight ends with the motors in standby, in
   a shutdown, or in a landing the operator started from the keyboard. *)
EmergencyIsBounded ==
    pc = "fly" /\ stage = FS_EMERGENCY_LANDING
        ~> pc \in {"standby", "exit", "terminated"} \cup Landing

(* A mission that loiters comes down or is ended. *)
LoiterEnds == pc = "loiter" ~> pc \in {"exit", "terminated"} \cup Landing
===============================================================================

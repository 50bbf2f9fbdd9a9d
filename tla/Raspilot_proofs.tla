---------------------------- MODULE Raspilot_proofs ----------------------------
(***************************************************************************)
(* The safety of the flight control for every mode and every bound: one    *)
(* inductive invariant, that every action keeps it, and the properties     *)
(* that follow.                                                            *)
(***************************************************************************)
EXTENDS Raspilot, TLAPS

(* Callbacks run only while the pass over the timeline lasts, so neither input
   nor main can change the stage behind a tick; nothing but the start is done
   before the main routine is entered, or after the process has ended. *)
OneThread ==
    /\ cb # "idle" => phase = "events"
    /\ pc \in {"start", "terminated"} => phase = "main"
    /\ pc = "start" => shutDown \/ stage = FS_START
    /\ stage = FS_SHUTDOWN => shutDown

(* A tick about to send was let through in a stage that sends. *)
SendsInStage == cb = "send" /\ ~shutDown => stage >= FS_PRE_FLY

(* Below PRE_FLY the motors sleep, and up to PRE_FLY no thrust for flight is
   left over from the flight before. *)
Rested ==
    ~shutDown => /\ stage < FS_PRE_FLY => motors \in Asleep
                 /\ stage <= FS_PRE_FLY => thrust # "fly"

(* The altitude is known from the countdown to the launch. *)
AltitudeKept ==
    mode = "manual" /\ (stage = FS_COUNTDOWN \/ pc \in Prelaunch \cup {"sensors", "launch"})
        => altSet

(* Without a joystick nothing flies between the countdown and the take-off, and
   the pose is stored from the second warning rotation to the end of flight. *)
PoseKept ==
    mode = "manual" /\ ~joystick /\ ~shutDown =>
        /\ pc = "sensors" => stage < FS_PRE_FLY
        /\ stage = FS_PRE_FLY => motors # "fly"
        /\ pc \in {"warn", "settle", "spin", "launch"} => pose
        /\ stage >= FS_FLY => pose
        /\ thrust = "fly" \/ motors = "fly" => pose

(* The process ends by a crash or after its shutdown: mainExit is listed by nothing
   else, and a second signal comes after a first one that shut the pilot down. *)
OnlyShutdownEnds ==
    /\ "exit" \in events \cup due => shutDown
    /\ signals > 0 /\ pc # "terminated" => shutDown

IInv ==
    TypeOK /\ OneThread /\ SendsInStage /\ Rested /\ AltitudeKept /\ PoseKept
        /\ TickGoesOn /\ ExitScheduled /\ OnlyShutdownEnds

USE DEF FS_START, FS_STANDBY, FS_COUNTDOWN, FS_WAITING_FOR_SENSORS, FS_PRE_FLY,
        FS_FLY, FS_EMERGENCY_LANDING, FS_SHUTDOWN,
        Stages, Prelaunch, Landing, PCs, EventNames, FlyTimes, Asleep,
        setup, state, polling, timeline, command, sensors, link, flyTime

-------------------------------------------------------------------------------
(* The initial state satisfies the invariant. *)
LEMMA InitIInv == Init => IInv
<1> SUFFICES ASSUME Init
             PROVE  IInv
  OBVIOUS
<1>1. ready \in BOOLEAN /\ pose \in BOOLEAN /\ altSet \in BOOLEAN /\ shutDown \in BOOLEAN
          /\ panic \in BOOLEAN /\ timing \in BOOLEAN
  BY Zenon DEF Init
<1>2. total \in FlyTimes /\ file \in FlyTimes
  BY BoundAssumption DEF Init
<1>3. TypeOK
  BY <1>1, <1>2, BoundAssumption DEF Init, TypeOK
<1>4. QED
  BY <1>3 DEF Init, IInv, OneThread, SendsInStage, Rested, AltitudeKept, PoseKept,
              TickGoesOn, ExitScheduled, OnlyShutdownEnds

(* The return to standby keeps the flags about the sensors typed. *)
LEMMA StandbySensors ==
    ASSUME IInv, WaitInStandby, UNCHANGED ready
    PROVE  (ready \in BOOLEAN /\ pose \in BOOLEAN /\ altSet \in BOOLEAN)'
BY Zenon DEF IInv, TypeOK, WaitInStandby

(* Input delivered in a poll keeps the invariant. *)
LEMMA InputStep ==
    ASSUME IInv, Input, UNCHANGED setup
    PROVE  IInv'
<1> USE BoundAssumption DEF IInv, TypeOK, OneThread, SendsInStage, Rested, AltitudeKept,
                            PoseKept, TickGoesOn, ExitScheduled, OnlyShutdownEnds
<1>1. ASSUME NEW launch \in BOOLEAN, NEW standby \in BOOLEAN,
             NEW panicButton \in BOOLEAN, NEW held \in BOOLEAN,
             RcMessage(launch, standby, panicButton, held)
      PROVE  IInv'
  <2>1. CASE held
    BY <2>1, <1>1 DEF RcMessage, SetAltitude, GotoStandby, ShutDownAndExit,
           StandardShutdown, Parked, Standby, LastEvents, Updated, Saved, ClosedLinks
  <2>2. CASE ~held
    BY <2>2, <1>1 DEF RcMessage, SetAltitude, GotoStandby, ShutDownAndExit,
           StandardShutdown, Parked, Standby, LastEvents, Updated, Saved, ClosedLinks
  <2>3. QED
    BY <2>1, <2>2
<1>2. CASE JoystickButton
  <2>1. /\ phase = "io" /\ ~shutDown /\ stage' = FS_EMERGENCY_LANDING
        /\ UNCHANGED <<polling, timeline, shutDown, command, sensors, link, signals, flyTime>>
    BY <1>2, Zenon DEF JoystickButton
  <2>2. joystick'
    BY <1>2, Zenon DEF JoystickButton
  <2>3. TypeOK'
    BY <2>1
  <2>4. (OneThread /\ SendsInStage /\ Rested /\ AltitudeKept
         /\ TickGoesOn /\ ExitScheduled /\ OnlyShutdownEnds)'
    BY <2>1
  <2>5. PoseKept'
    BY <2>2, ZenonT(30)
  <2>6. QED
    BY <2>3, <2>4, <2>5, Zenon
<1>3. CASE BecomeReady
  BY <1>3 DEF BecomeReady
<1>4. QED
  BY <1>1, <1>2, <1>3 DEF Input

(* Callbacks keep the invariant. *)
LEMMA EventStep ==
    ASSUME IInv, Event, UNCHANGED setup
    PROVE  IInv'
<1> USE BoundAssumption DEF IInv, TypeOK, OneThread, SendsInStage, Rested, AltitudeKept,
                            PoseKept, TickGoesOn, ExitScheduled, OnlyShutdownEnds
<1>1. CASE StdinCheck
  BY <1>1 DEF StdinCheck, Pops
<1>2. CASE StdinShutdown
  BY <1>2 DEF StdinShutdown, ShutDownAndExit, StandardShutdown, Parked, Standby,
         LastEvents, Updated, Saved, ClosedLinks
<1>3. CASE StdinLand
  BY <1>3 DEF StdinLand
<1>4. CASE ControlCheck
  BY <1>4 DEF ControlCheck, Pops, SetAltitude
<1>5. ASSUME NEW lost \in BOOLEAN, PingCheck(lost)
      PROVE  IInv'
  BY <1>5 DEF PingCheck, Pops
<1>6. CASE Exit
  BY <1>6 DEF Exit, Pops, Terminate
<1>7. CASE TickStart
  BY <1>7 DEF TickStart, Pops
<1>8. CASE TickSchedule
  BY <1>8 DEF TickSchedule, Rescheduled
<1>9. CASE TickFuse
  BY <1>9 DEF TickFuse, Thrusts, MaySend
<1>10. CASE TickSensorLost
  BY <1>10 DEF TickSensorLost, ShutDownAndExit, StandardShutdown, Parked, Standby,
         LastEvents, Updated, Saved, ClosedLinks
<1>11. CASE TickSend
  BY <1>11 DEF TickSend
<1>12. CASE EndPass
  BY <1>12 DEF EndPass
<1>13. QED
  BY <1>1, <1>2, <1>3, <1>4, <1>5, <1>6, <1>7, <1>8, <1>9, <1>10, <1>11, <1>12 DEF Event

(* The main routine keeps the invariant. *)
LEMMA MainStep ==
    ASSUME IInv, Main, UNCHANGED setup
    PROVE  IInv'
<1> USE BoundAssumption DEF IInv, TypeOK, OneThread, SendsInStage, Rested, AltitudeKept,
                            PoseKept, TickGoesOn, ExitScheduled, OnlyShutdownEnds
<1>1. CASE KeepPolling
  BY <1>1 DEF KeepPolling, At, Flying
<1>2. CASE EnterManualRc
  BY <1>2 DEF EnterManualRc, At
<1>3. CASE EnterMission
  BY <1>3 DEF EnterMission, At, BeginPrelaunch
<1>4. CASE Countdown
  BY <1>4 DEF Countdown, At, BeginPrelaunch
<1>5. CASE StandbyEnds
  BY <1>5 DEF StandbyEnds, At, LeaveManualRc, ShutDownAndExit, StandardShutdown,
         Parked, Standby, LastEvents, Updated, Saved, ClosedLinks
<1>6. CASE SensorsReady
  BY <1>6 DEF SensorsReady, At
<1>7. CASE LaunchCancelled
  <2>1. CASE mode = "manual"
    <3>1. (ready \in BOOLEAN /\ pose \in BOOLEAN /\ altSet \in BOOLEAN)'
      BY <1>7, <2>1, StandbySensors DEF LaunchCancelled
    <3>2. TypeOK'
      BY <1>7, <2>1, <3>1 DEF LaunchCancelled, At, WaitInStandby
    <3>3. (OneThread /\ SendsInStage /\ Rested /\ AltitudeKept /\ PoseKept
         /\ TickGoesOn /\ ExitScheduled /\ OnlyShutdownEnds)'
      BY <1>7, <2>1 DEF LaunchCancelled, At, WaitInStandby
    <3>4. QED
      BY <3>2, <3>3
  <2>2. CASE mode # "manual"
    <3>1. UNCHANGED <<stage, phase, cb, timeline, shutDown, motors, sensors, link, signals,
                      flyTime>>
      BY <1>7, <2>2 DEF LaunchCancelled, At
    <3>2. TypeOK'
      BY <1>7, <2>2, <3>1 DEF LaunchCancelled, At
    <3>3. (OneThread /\ SendsInStage /\ Rested /\ AltitudeKept /\ PoseKept
         /\ TickGoesOn /\ ExitScheduled /\ OnlyShutdownEnds)'
      BY <1>7, <2>2 DEF LaunchCancelled, At
    <3>4. QED
      BY <3>2, <3>3
  <2>3. QED
    BY <2>1, <2>2
<1>8. CASE WaitOver
  BY <1>8 DEF WaitOver, At, After, ThrustOf
<1>9. CASE PrelaunchOver
  BY <1>9 DEF PrelaunchOver, At
<1>10. CASE EmergencyBegins
  BY <1>10 DEF EmergencyBegins, At, Flying
<1>11. CASE FlightEnds
  <2>1. CASE stage = FS_STANDBY
    <3>1. (ready \in BOOLEAN /\ pose \in BOOLEAN /\ altSet \in BOOLEAN)'
      BY <1>11, <2>1, StandbySensors DEF FlightEnds
    <3>2. TypeOK'
      BY <1>11, <2>1, <3>1, ZenonT(60) DEF FlightEnds, At, Flying, WaitInStandby
    <3>3. (OneThread /\ SendsInStage /\ Rested /\ AltitudeKept /\ PoseKept
         /\ TickGoesOn /\ ExitScheduled /\ OnlyShutdownEnds)'
      BY <1>11, <2>1 DEF FlightEnds, At, Flying, WaitInStandby
    <3>4. QED
      BY <3>2, <3>3
  <2>2. CASE stage # FS_STANDBY
    BY <1>11, <2>2 DEF FlightEnds, At, Flying, LeaveManualRc, ShutDownAndExit,
           StandardShutdown, Parked, Standby, LastEvents, Updated, Saved, ClosedLinks
  <2>3. QED
    BY <2>1, <2>2
<1>12. CASE EmergencyOver
  <2>1. (ready \in BOOLEAN /\ pose \in BOOLEAN /\ altSet \in BOOLEAN)'
    BY <1>12, StandbySensors DEF EmergencyOver
  <2>2. QED
    BY <1>12, <2>1 DEF EmergencyOver, At, GotoStandby, Standby, WaitInStandby
<1>13. CASE EmergencyEnds
  <2>1. CASE stage = FS_STANDBY
    <3>1. (ready \in BOOLEAN /\ pose \in BOOLEAN /\ altSet \in BOOLEAN)'
      BY <1>13, <2>1, StandbySensors DEF EmergencyEnds
    <3>2. TypeOK'
      BY <1>13, <2>1, <3>1, ZenonT(60) DEF EmergencyEnds, At, WaitInStandby
    <3>3. (OneThread /\ SendsInStage /\ Rested /\ AltitudeKept /\ PoseKept
         /\ TickGoesOn /\ ExitScheduled /\ OnlyShutdownEnds)'
      BY <1>13, <2>1 DEF EmergencyEnds, At, WaitInStandby
    <3>4. QED
      BY <3>2, <3>3
  <2>2. CASE stage # FS_STANDBY
    BY <1>13, <2>2 DEF EmergencyEnds, At, LeaveManualRc, ShutDownAndExit,
           StandardShutdown, Parked, Standby, LastEvents, Updated, Saved, ClosedLinks
  <2>3. QED
    BY <2>1, <2>2
<1>14. CASE LoiterOver
  BY <1>14 DEF LoiterOver, At
<1>15. CASE DescendOver
  BY <1>15 DEF DescendOver, At
<1>16. CASE Landed
  BY <1>16 DEF Landed, At, ShutDownAndExit, StandardShutdown, Parked, Standby,
         LastEvents, Updated, Saved, ClosedLinks
<1>17. CASE Launch
  <2>1. altSet
    BY <1>17 DEF Launch, At
  <2>2. QED
    BY <1>17, <2>1 DEF Launch, At
<1>18. CASE MissionLaunch
  BY <1>18 DEF MissionLaunch, At
<1>19. CASE LaunchSensorLost
  BY <1>19 DEF LaunchSensorLost, At, ShutDownAndExit, StandardShutdown, Parked, Standby,
         LastEvents, Updated, Saved, ClosedLinks
<1>20. QED
  BY <1>1, <1>2, <1>3, <1>4, <1>5, <1>6, <1>7, <1>8, <1>9, <1>10, <1>11, <1>12, <1>13,
         <1>14, <1>15, <1>16, <1>17, <1>18, <1>19 DEF Main

(* Signals keep the invariant. *)
LEMMA SignalStep ==
    ASSUME IInv, Signal, UNCHANGED setup
    PROVE  IInv'
<1> USE BoundAssumption DEF IInv, TypeOK, OneThread, SendsInStage, Rested, AltitudeKept,
                            PoseKept, TickGoesOn, ExitScheduled, OnlyShutdownEnds
<1>1. CASE Interrupt
  BY <1>1 DEF Interrupt, Signalled, StandardShutdown, Parked, Standby, LastEvents,
         Updated, Saved, ClosedLinks
<1>2. CASE Crash
  BY <1>2 DEF Crash, Signalled, Terminate
<1>3. CASE SecondSignal
  BY <1>3 DEF SecondSignal, Signalled, Terminate
<1>4. QED
  BY <1>1, <1>2, <1>3 DEF Signal

(* The invariant is inductive. *)
LEMMA NextIInv == IInv /\ [Next]_vars => IInv'
<1> SUFFICES ASSUME IInv, [Next]_vars
             PROVE  IInv'
  OBVIOUS
<1>1. CASE EndIo /\ UNCHANGED setup
  BY <1>1 DEF EndIo, IInv, TypeOK, OneThread, SendsInStage, Rested, AltitudeKept, PoseKept,
              TickGoesOn, ExitScheduled, OnlyShutdownEnds
<1>2. CASE Terminated \/ UNCHANGED vars
  <2>1. UNCHANGED vars
    BY <1>2 DEF Terminated
  <2>2. QED
    BY <2>1 DEF vars, IInv, TypeOK, OneThread, SendsInStage, Rested, AltitudeKept,
                PoseKept, TickGoesOn, ExitScheduled, OnlyShutdownEnds
<1>3. QED
  BY <1>1, <1>2, InputStep, EventStep, MainStep, SignalStep DEF Next

(* Every reachable state satisfies the invariant. *)
THEOREM Invariant == Spec => []IInv
<1>1. Init => IInv
  BY InitIInv
<1>2. IInv /\ [Next]_vars => IInv'
  BY NextIInv
<1>3. QED
  BY <1>1, <1>2, PTL DEF Spec

-------------------------------------------------------------------------------
(* The variables keep their types. *)
THEOREM TypeCorrect == Spec => []TypeOK
<1>1. IInv => TypeOK
  BY DEF IInv
<1>2. QED
  BY <1>1, Invariant, PTL

(* The motors sleep in every stage before PRE_FLY. *)
THEOREM SleepsInStandby == Spec => []StandbyAsleep
<1>1. IInv => StandbyAsleep
  BY DEF IInv, Rested, StandbyAsleep
<1>2. QED
  BY <1>1, Invariant, PTL

(* No thrust for flight is set or sent in the prefly sequence. *)
THEOREM NoFlightInPrefly == Spec => []PreFlyNeverFlies
<1>1. IInv => PreFlyNeverFlies
  BY DEF IInv, Rested, PoseKept, PreFlyNeverFlies
<1>2. QED
  BY <1>1, Invariant, PTL

(* Manual flight has a launch pose. *)
THEOREM PoseBeforeFlight == Spec => []FliesFromLaunchPose
<1>1. IInv => FliesFromLaunchPose
  BY DEF IInv, PoseKept, FliesFromLaunchPose
<1>2. QED
  BY <1>1, Invariant, PTL

(* The prefly sequence of the manual mode knows the altitude. *)
THEOREM AltitudeBeforeFlight == Spec => []AltitudeKnownInPrefly
<1>1. IInv => AltitudeKnownInPrefly
  BY DEF IInv, AltitudeKept, AltitudeKnownInPrefly
<1>2. QED
  BY <1>1, Invariant, PTL

(* The stabilisation tick is never lost before the shutdown. *)
THEOREM TickNeverLost == Spec => []TickGoesOn
<1>1. IInv => TickGoesOn
  BY DEF IInv
<1>2. QED
  BY <1>1, Invariant, PTL

(* mainExit is never lost after the shutdown. *)
THEOREM ExitNeverLost == Spec => []ExitScheduled
<1>1. IInv => ExitScheduled
  BY DEF IInv
<1>2. QED
  BY <1>1, Invariant, PTL

(* After the shutdown no step sends, except the end of a tick already let through. *)
LEMMA SilentStep ==
    ASSUME shutDown, Next
    PROVE  (cb' = "send" => cb = "send") /\ (motors' = motors \/ cb = "send")
<1>1. CASE Input
  <2>1. ASSUME NEW launch \in BOOLEAN, NEW standby \in BOOLEAN,
               NEW panicButton \in BOOLEAN, NEW held \in BOOLEAN,
               RcMessage(launch, standby, panicButton, held)
        PROVE  (cb' = "send" => cb = "send") /\ (motors' = motors \/ cb = "send")
    BY <2>1 DEF RcMessage, SetAltitude, GotoStandby, ShutDownAndExit,
           StandardShutdown, Parked, Standby, LastEvents, Updated, Saved, ClosedLinks
  <2>2. CASE JoystickButton
    BY <2>2 DEF JoystickButton
  <2>3. CASE BecomeReady
    BY <2>3 DEF BecomeReady
  <2>4. QED
    BY <1>1, <2>1, <2>2, <2>3 DEF Input
<1>2. CASE EndIo
  BY <1>2 DEF EndIo
<1>3. CASE Event
  <2>1. CASE StdinCheck
    BY <2>1 DEF StdinCheck, Pops
  <2>2. CASE StdinShutdown
    BY <2>2 DEF StdinShutdown, ShutDownAndExit, StandardShutdown, Parked, Standby,
           LastEvents, Updated, Saved, ClosedLinks
  <2>3. CASE StdinLand
    BY <2>3 DEF StdinLand
  <2>4. CASE ControlCheck
    BY <2>4 DEF ControlCheck, Pops, SetAltitude
  <2>5. ASSUME NEW lost \in BOOLEAN, PingCheck(lost)
        PROVE  (cb' = "send" => cb = "send") /\ (motors' = motors \/ cb = "send")
    BY <2>5 DEF PingCheck, Pops
  <2>6. CASE Exit
    BY <2>6 DEF Exit, Pops, Terminate
  <2>7. CASE TickStart
    BY <2>7 DEF TickStart, Pops
  <2>8. CASE TickSchedule
    BY <2>8 DEF TickSchedule, Rescheduled
  <2>9. CASE TickFuse
    BY <2>9 DEF TickFuse, Thrusts, MaySend
  <2>10. CASE TickSensorLost
    BY <2>10 DEF TickSensorLost, ShutDownAndExit, StandardShutdown, Parked, Standby,
           LastEvents, Updated, Saved, ClosedLinks
  <2>11. CASE TickSend
    BY <2>11 DEF TickSend
  <2>12. CASE EndPass
    BY <2>12 DEF EndPass
  <2>13. QED
    BY <1>3, <2>1, <2>2, <2>3, <2>4, <2>5, <2>6, <2>7, <2>8, <2>9, <2>10, <2>11, <2>12 DEF Event
<1>4. CASE Main
  <2>1. CASE KeepPolling
    BY <2>1 DEF KeepPolling, At, Flying
  <2>2. CASE EnterManualRc
    BY <2>2 DEF EnterManualRc, At
  <2>3. CASE EnterMission
    BY <2>3 DEF EnterMission, At, BeginPrelaunch
  <2>4. CASE Countdown
    BY <2>4 DEF Countdown, At, BeginPrelaunch
  <2>5. CASE StandbyEnds
    BY <2>5 DEF StandbyEnds, At, LeaveManualRc, ShutDownAndExit, StandardShutdown,
           Parked, Standby, LastEvents, Updated, Saved, ClosedLinks
  <2>6. CASE SensorsReady
    BY <2>6 DEF SensorsReady, At
  <2>7. CASE LaunchCancelled
    BY <2>7 DEF LaunchCancelled, At, WaitInStandby
  <2>8. CASE WaitOver
    BY <2>8 DEF WaitOver, At, After, ThrustOf
  <2>9. CASE PrelaunchOver
    BY <2>9 DEF PrelaunchOver, At
  <2>10. CASE EmergencyBegins
    BY <2>10 DEF EmergencyBegins, At, Flying
  <2>11. CASE FlightEnds
    BY <2>11 DEF FlightEnds, At, Flying, WaitInStandby, LeaveManualRc,
           ShutDownAndExit, StandardShutdown, Parked, Standby, LastEvents, Updated,
           Saved, ClosedLinks
  <2>12. CASE EmergencyOver
    BY <2>12 DEF EmergencyOver, At, GotoStandby, Standby, WaitInStandby
  <2>13. CASE EmergencyEnds
    BY <2>13 DEF EmergencyEnds, At, WaitInStandby, LeaveManualRc, ShutDownAndExit,
           StandardShutdown, Parked, Standby, LastEvents, Updated, Saved, ClosedLinks
  <2>14. CASE LoiterOver
    BY <2>14 DEF LoiterOver, At
  <2>15. CASE DescendOver
    BY <2>15 DEF DescendOver, At
  <2>16. CASE Landed
    BY <2>16 DEF Landed, At, ShutDownAndExit, StandardShutdown, Parked, Standby,
           LastEvents, Updated, Saved, ClosedLinks
  <2>17. CASE Launch \/ MissionLaunch
    BY <2>17 DEF Launch, MissionLaunch, At
  <2>18. CASE LaunchSensorLost
    BY <2>18 DEF LaunchSensorLost, At, ShutDownAndExit, StandardShutdown, Parked, Standby,
           LastEvents, Updated, Saved, ClosedLinks
  <2>19. QED
    BY <1>4, <2>1, <2>2, <2>3, <2>4, <2>5, <2>6, <2>7, <2>8, <2>9, <2>10, <2>11,
           <2>12, <2>13, <2>14, <2>15, <2>16, <2>17, <2>18 DEF Main
<1>5. CASE Signal
  <2>1. CASE Interrupt
    BY <2>1 DEF Interrupt, Signalled, StandardShutdown, Parked, Standby, LastEvents,
           Updated, Saved, ClosedLinks
  <2>2. CASE Crash
    BY <2>2 DEF Crash, Signalled, Terminate
  <2>3. CASE SecondSignal
    BY <2>3 DEF SecondSignal, Signalled, Terminate
  <2>4. QED
    BY <1>5, <2>1, <2>2, <2>3 DEF Signal
<1>6. CASE Terminated
  BY <1>6 DEF Terminated, vars
<1>7. QED
  BY <1>1, <1>2, <1>3, <1>4, <1>5, <1>6 DEF Next

(* Once the shutdown is in progress the motors hear nothing more but that tick. *)
THEOREM SilenceAfterShutdown == Spec => SilentAfterShutdown
<1>1. [Next]_vars => [shutDown => /\ (cb' = "send" => cb = "send")
                                 /\ (motors' = motors \/ cb = "send")]_vars
  BY SilentStep
<1>2. QED
  BY <1>1, PTL DEF Spec, SilentAfterShutdown

-------------------------------------------------------------------------------
(* The commands to the motor process                                         *)

CommandStep == [Commanding!Next]_(Commanding!commands)

Running == pc # "terminated" /\ pc' # "terminated"

(* A step that says nothing and leaves no stage that sends for one that does not is
   no command, or wakes the pilot. *)
LEMMA QuietStep ==
    ASSUME UNCHANGED <<shutDown, motors>>, pc' = "terminated" <=> pc = "terminated",
           shutDown => (cb' = "send" <=> cb = "send"),
           ~shutDown => stage \in Stages /\ stage' \in Stages
                            /\ (stage >= FS_PRE_FLY => stage' >= FS_PRE_FLY)
    PROVE  CommandStep
<1>1. CASE ~shutDown /\ pc # "terminated" /\ stage < FS_PRE_FLY /\ stage' >= FS_PRE_FLY
  <2>1. Commanding!Wake
    BY <1>1 DEF Commanding!Wake
  <2>2. QED
    BY <2>1 DEF CommandStep, Commanding!Next
<1>2. CASE ~(~shutDown /\ pc # "terminated" /\ stage < FS_PRE_FLY /\ stage' >= FS_PRE_FLY)
  <2>1. UNCHANGED Commanding!commands
    BY <1>2 DEF Commanding!commands
  <2>2. QED
    BY <2>1 DEF CommandStep
<1>3. QED
  BY <1>1, <1>2

(* Every way to standby is announced. *)
LEMMA StandbyStep ==
    ASSUME GotoStandby, UNCHANGED <<shutDown, cb>>, Running
    PROVE  CommandStep
<1>1. CASE shutDown
  <2>1. UNCHANGED Commanding!commands
    BY <1>1 DEF Commanding!commands, GotoStandby, Standby, Running
  <2>2. QED
    BY <2>1 DEF CommandStep
<1>2. CASE ~shutDown
  <2>1. Commanding!GotoStandby
    BY <1>2 DEF Commanding!GotoStandby, GotoStandby, Standby, Running
  <2>2. QED
    BY <2>1 DEF CommandStep, Commanding!Next
<1>3. QED
  BY <1>1, <1>2

(* So is a shutdown, which may come between the tests of a tick and its send. *)
LEMMA ShutdownStep ==
    ASSUME IInv, NEW s, StandardShutdown(s), Running,
           cb' = cb \/ (cb' = "idle" /\ cb # "send")
    PROVE  CommandStep
<1>1. CASE shutDown
  <2>1. UNCHANGED Commanding!commands
    BY <1>1 DEF Commanding!commands, StandardShutdown, Parked, Standby, Running
  <2>2. QED
    BY <2>1 DEF CommandStep
<1>2. CASE ~shutDown
  <2>1. cb' = "send" => stage >= FS_PRE_FLY
    BY <1>2 DEF IInv, SendsInStage
  <2>2. Commanding!Shutdown
    BY <1>2, <2>1 DEF Commanding!Shutdown, StandardShutdown, Parked, Standby, Running
  <2>3. QED
    BY <2>2 DEF CommandStep, Commanding!Next
<1>3. QED
  BY <1>1, <1>2

(* A thrust is sent by a pilot that is awake, or by the tick of before the shutdown. *)
LEMMA SendStep ==
    ASSUME IInv, TickSend
    PROVE  CommandStep
<1>1. /\ cb = "send" /\ cb' = "idle" /\ motors' \notin Asleep
      /\ UNCHANGED <<pc, shutDown, stage>>
  BY DEF TickSend, IInv, TypeOK
<1>2. pc # "terminated"
  BY <1>1 DEF IInv, OneThread
<1>3. CASE shutDown
  <2>1. Commanding!LateThrusts
    BY <1>1, <1>2, <1>3 DEF Commanding!LateThrusts
  <2>2. QED
    BY <2>1 DEF CommandStep, Commanding!Next
<1>4. CASE ~shutDown
  <2>1. Commanding!SendThrusts
    BY <1>1, <1>2, <1>4 DEF Commanding!SendThrusts, IInv, SendsInStage
  <2>2. QED
    BY <2>1 DEF CommandStep, Commanding!Next
<1>5. QED
  BY <1>3, <1>4

(* A process that ends has shut down, or crashes. *)
LEMMA EndStep ==
    ASSUME IInv, Exit \/ Crash \/ SecondSignal
    PROVE  CommandStep
<1>1. pc # "terminated" /\ pc' = "terminated" /\ cb' = "idle" /\ shutDown' = shutDown
  BY DEF Exit, Crash, SecondSignal, Pops, Signalled, Terminate, IInv, OneThread
<1>2. CASE shutDown
  <2>1. motors' = motors
    BY <1>2 DEF Exit, Crash, SecondSignal
  <2>2. Commanding!Exit
    BY <1>1, <1>2, <2>1 DEF Commanding!Exit
  <2>3. QED
    BY <2>2 DEF CommandStep, Commanding!Next
<1>3. CASE ~shutDown
  <2>1. ~Exit
    BY <1>3 DEF Exit, Pops, IInv, OnlyShutdownEnds
  <2>2. ~SecondSignal
    BY <1>3 DEF SecondSignal, Signalled, IInv, TypeOK, OnlyShutdownEnds
  <2>3. Crash /\ motors' = "land"
    BY <1>3, <2>1, <2>2 DEF Crash
  <2>4. Commanding!Crash
    BY <1>1, <1>3, <2>3 DEF Commanding!Crash
  <2>5. QED
    BY <2>4 DEF CommandStep, Commanding!Next
<1>4. QED
  BY <1>2, <1>3

LEMMA InputCommands ==
    ASSUME IInv, IInv', Input
    PROVE  CommandStep
<1> USE DEF IInv, TypeOK, OneThread
<1>1. ASSUME NEW launch \in BOOLEAN, NEW standby \in BOOLEAN,
             NEW panicButton \in BOOLEAN, NEW held \in BOOLEAN,
             RcMessage(launch, standby, panicButton, held)
      PROVE  CommandStep
  <2> DEFINE launched == IF launch /\ stage = FS_STANDBY THEN FS_COUNTDOWN ELSE stage
             down == (standby \/ panicButton) /\ launched > FS_STANDBY
             reached == IF down THEN FS_STANDBY ELSE launched
  <2>1. Running
    BY <1>1 DEF RcMessage, ShutDownAndExit, Running
  <2>2. CASE held
    <3>1. StandardShutdown(reached) /\ cb' = "idle" /\ cb = "idle"
      BY <1>1, <2>2 DEF RcMessage, ShutDownAndExit
    <3>2. QED
      BY <2>1, <3>1, ShutdownStep
  <2>3. CASE ~held /\ down
    BY <1>1, <2>1, <2>3, StandbyStep DEF RcMessage
  <2>4. CASE ~held /\ ~down
    BY <1>1, <2>1, <2>4, QuietStep DEF RcMessage, Running
  <2>5. QED
    BY <2>2, <2>3, <2>4
<1>2. CASE JoystickButton
  BY <1>2, QuietStep DEF JoystickButton
<1>3. CASE BecomeReady
  BY <1>3, QuietStep DEF BecomeReady
<1>4. QED
  BY <1>1, <1>2, <1>3 DEF Input

LEMMA EventCommands ==
    ASSUME IInv, IInv', Event
    PROVE  CommandStep
<1> USE DEF IInv, TypeOK, OneThread
<1>1. CASE StdinCheck \/ StdinLand \/ ControlCheck \/ EndPass
  BY <1>1, QuietStep DEF StdinCheck, StdinLand, ControlCheck, EndPass, Pops
<1>2. ASSUME NEW lost \in BOOLEAN, PingCheck(lost) PROVE CommandStep
  BY <1>2, QuietStep DEF PingCheck, Pops
<1>3. CASE StdinShutdown \/ TickSensorLost
  <2>1. StandardShutdown(stage) /\ Running /\ cb' = "idle" /\ cb # "send"
    BY <1>3 DEF StdinShutdown, TickSensorLost, ShutDownAndExit, Running
  <2>2. QED
    BY <2>1, ShutdownStep
<1>4. CASE Exit
  BY <1>4, EndStep
<1>5. CASE TickStart \/ TickSchedule
  BY <1>5, QuietStep DEF TickStart, TickSchedule, Pops
<1>6. CASE TickFuse
  BY <1>6, QuietStep DEF TickFuse, MaySend
<1>7. CASE TickSend
  BY <1>7, SendStep
<1>8. QED
  BY <1>1, <1>2, <1>3, <1>4, <1>5, <1>6, <1>7 DEF Event

LEMMA MainCommands ==
    ASSUME IInv, IInv', Main
    PROVE  CommandStep
<1> USE DEF IInv, TypeOK, OneThread, At
<1>1. CASE KeepPolling \/ EnterManualRc \/ EnterMission
  BY <1>1, QuietStep DEF KeepPolling, EnterManualRc, EnterMission, BeginPrelaunch
<1>2. CASE Countdown
  BY <1>2, QuietStep DEF Countdown, BeginPrelaunch
<1>3. CASE SensorsReady \/ WaitOver
  BY <1>3, QuietStep DEF SensorsReady, WaitOver, After
<1>4. CASE LaunchCancelled
  BY <1>4, QuietStep DEF LaunchCancelled, WaitInStandby
<1>5. CASE PrelaunchOver \/ Launch \/ MissionLaunch
  <2>1. pc = "launch" /\ mode = "manual" => altSet
    BY DEF AltitudeKept
  <2>2. QED
    BY <1>5, <2>1, QuietStep DEF PrelaunchOver, Launch, MissionLaunch
<1>6. CASE EmergencyBegins \/ LoiterOver \/ DescendOver
  BY <1>6, QuietStep DEF EmergencyBegins, LoiterOver, DescendOver
<1>7. CASE EmergencyOver
  BY <1>7, StandbyStep DEF EmergencyOver, WaitInStandby, Running
<1>8. CASE (FlightEnds \/ EmergencyEnds) /\ stage = FS_STANDBY
  BY <1>8, QuietStep DEF FlightEnds, EmergencyEnds, WaitInStandby, Flying
<1>9. CASE StandbyEnds \/ Landed \/ ((FlightEnds \/ EmergencyEnds) /\ stage # FS_STANDBY)
  <2>1. StandardShutdown(stage) /\ Running /\ cb' = "idle" /\ cb = "idle"
    BY <1>9 DEF StandbyEnds, Landed, FlightEnds, EmergencyEnds, Flying, LeaveManualRc,
                ShutDownAndExit, Running
  <2>2. QED
    BY <2>1, ShutdownStep
<1>10. CASE LaunchSensorLost
  <2>1. StandardShutdown(FS_FLY) /\ Running /\ cb' = "idle" /\ cb = "idle"
    BY <1>10 DEF LaunchSensorLost, ShutDownAndExit, Running
  <2>2. QED
    BY <2>1, ShutdownStep
<1>11. QED
  BY <1>1, <1>2, <1>3, <1>4, <1>5, <1>6, <1>7, <1>8, <1>9, <1>10 DEF Main

LEMMA SignalCommands ==
    ASSUME IInv, IInv', Signal
    PROVE  CommandStep
<1>1. CASE Interrupt
  <2>1. StandardShutdown(stage) /\ Running /\ cb' = cb
    BY <1>1 DEF Interrupt, Signalled, Running
  <2>2. QED
    BY <2>1, ShutdownStep
<1>2. CASE Crash \/ SecondSignal
  BY <1>2, EndStep
<1>3. QED
  BY <1>1, <1>2 DEF Signal

(* The motor process hears from the pilot what Commands promises, whatever messages,
   callbacks and signals come in between. *)
THEOREM KeepsCommands == Spec => ImplementsCommands
<1>1. Init => Commanding!Init
  BY DEF Init, Commanding!Init
<1>2. IInv /\ IInv' /\ [Next]_vars => CommandStep
  <2> SUFFICES ASSUME IInv, IInv', [Next]_vars PROVE CommandStep
    OBVIOUS
  <2>1. CASE EndIo \/ Terminated \/ UNCHANGED vars
    BY <2>1, QuietStep DEF EndIo, Terminated, vars, IInv, TypeOK
  <2>2. QED
    BY <2>1, InputCommands, EventCommands, MainCommands, SignalCommands DEF Next
<1>3. QED
  BY <1>1, <1>2, Invariant, PTL DEF Spec, ImplementsCommands, Commanding!Spec, CommandStep
===============================================================================

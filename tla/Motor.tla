--------------------------------- MODULE Motor ---------------------------------
(***************************************************************************)
(* The link from the pilot to the motors: the lines the pilot writes to    *)
(* the write buffer of the connection, the pipe, and the motor process     *)
(* that reads them in batches and drives the ESCs.                         *)
(*                                                                         *)
(* The pilot is reduced to its commands, in the order that Commands allows *)
(* and Raspilot, which models its stages, keeps.  An ESC holds the last    *)
(* thrust it was sent.                                                     *)
(***************************************************************************)
EXTENDS Integers, SequencesExt

CONSTANTS
    Thrusts,       \* the thrusts of a motor, 0 among them
    Room,          \* thrust lines that fit in the write buffer
    PipeRoom,      \* bound on the lines in the pipe
    ShutdownExit   \* the option shutdownExit of the motor device

ASSUME ThrustAssumption == Thrusts \subseteq Nat /\ 0 \in Thrusts
ASSUME RoomAssumption == Room \in Nat /\ PipeRoom \in Nat /\ ShutdownExit \in BOOLEAN

VARIABLES
    awake, life, late, said,   \* what the pilot does and said last, as in Commands
    link,      \* its connection: open, closed with lines pending, closed, or left by
               \* a crash with the landing command written
    told,      \* the last "stan" fitted into the buffer of the open connection,
               \* a result that the code ignores
    buffer,    \* the write buffer of the connection
    pipe,      \* the lines written and not read
    mpc,       \* what the motor process does
    bbb,       \* the lines read and not parsed
    res,       \* whether this batch asks for the throttles to be sent
    shutdown,  \* motorShutdownInProgress
    standby,   \* motorStandBy
    factor,    \* motorThrottleFactor # 0
    throttle,  \* motorThrottle
    sent       \* what the ESCs were sent last

pilot == <<awake, life, late, said>>
connection == <<link, told>>
motor == <<mpc, bbb, res, shutdown, standby, factor, throttle, sent>>
vars == <<pilot, connection, buffer, pipe, motor>>

Line(w, t) == [word |-> w, thrust |-> t]
Mt(t) == Line("mt", t)
Word(w) == Line(w, 0)
Lines == {Mt(t) : t \in Thrusts} \cup {Word(w) : w \in {"mfac", "stan", "exit", "land"}}

PilotTypeOK ==
    /\ awake \in BOOLEAN /\ late \in BOOLEAN
    /\ life \in {"up", "down", "gone", "crashed"}
    /\ said \in {"mt", "mfac", "stan", "exit", "land"}

LinesTypeOK ==
    /\ link \in {"open", "closing", "closed", "crashed"} /\ told \in BOOLEAN
    /\ buffer \in Seq(Lines) /\ Len(buffer) <= Room + 2
    /\ pipe \in Seq(Lines)
    /\ bbb \in Seq(Lines)

MotorTypeOK ==
    /\ mpc \in {"select", "parse", "stopping", "ended"}
    /\ res \in BOOLEAN /\ shutdown \in BOOLEAN /\ standby \in BOOLEAN /\ factor \in BOOLEAN
    /\ throttle \in Thrusts /\ sent \in Thrusts

TypeOK == PilotTypeOK /\ LinesTypeOK /\ MotorTypeOK

Commanding == INSTANCE Commands

(* A definition with a suffix _if_... is a deliberate fault, a plausible slip in
   the definition it is named after. *)

(* initConfiguredPilot sends the thrust factor; the motor process has sent its
   zero throttles. *)
FirstLines_if_factor_forgotten == <<>>
FirstLines == <<Word("mfac")>>

Init ==
    /\ Commanding!Init
    /\ link = "open" /\ told = TRUE
    /\ buffer = FirstLines
    /\ pipe = <<>>
    /\ mpc = "select" /\ bbb = <<>> /\ res = FALSE
    /\ shutdown = FALSE /\ standby = TRUE /\ factor = FALSE
    /\ throttle = 0 /\ sent = 0

-------------------------------------------------------------------------------
(* The pilot                                                                 *)

(* baioWriteToBuffer drops a line that does not fit.  A command word is much shorter
   than a line of thrusts and still fits where that does not. *)
Fits_if_unbounded(b, line) == TRUE
Fits(b, line) == Len(b) < IF line.word = "mt" THEN Room ELSE Room + 2
Queue(b, line) == IF Fits(b, line) THEN Append(b, line) ELSE b

(* motorsStop sends the zeros twice, motorsStandby follows. *)
WithZeros(b) == Queue(Queue(b, Mt(0)), Mt(0))
WithStandby_if_swapped(b) == WithZeros(Queue(b, Word("stan")))
WithStandby(b) == Queue(WithZeros(b), Word("stan"))

(* mainStandardShutdown *)
WithShutdown(b) ==
    IF ShutdownExit THEN Queue(WithStandby(b), Word("exit")) ELSE WithStandby(b)

(* The prefly stage is reached. *)
Wake == Commanding!Wake /\ UNCHANGED <<connection, buffer, pipe, motor>>

(* pilotSendThrusts; without its connection it sends nothing. *)
SendThrusts(t) ==
    /\ Commanding!SendThrusts
    /\ buffer' = IF link = "open" THEN Queue(buffer, Mt(t)) ELSE buffer
    /\ UNCHANGED <<connection, pipe, motor>>

(* raspilotGotoStandby *)
GotoStandby ==
    /\ Commanding!GotoStandby
    /\ buffer' = IF link = "open" THEN WithStandby(buffer) ELSE buffer
    /\ told' = Contains(SubSeq(buffer', Len(buffer) + 1, Len(buffer')), Word("stan"))
    /\ UNCHANGED <<link, pipe, motor>>

(* mainStandardShutdown, from the signal handler or not, closes the connection
   behind its lines. *)
Shutdown ==
    /\ Commanding!Shutdown
    /\ IF link = "open"
       THEN link' = "closing" /\ buffer' = WithShutdown(buffer)
       ELSE UNCHANGED <<link, buffer>>
    /\ told' = FALSE
    /\ UNCHANGED <<pipe, motor>>

(* The interrupted tick is resumed: it had looked its connection up before the
   signal, and writes to it while it is active. *)
LateThrusts(t) ==
    /\ Commanding!LateThrusts
    /\ buffer' = IF link = "closing" THEN Queue(buffer, Mt(t)) ELSE buffer
    /\ UNCHANGED <<connection, pipe, motor>>

(* baioOnCanWrite writes what the pipe takes; a connection that is closing is
   closed with its last line. *)
Flush(n) ==
    /\ link \in {"open", "closing"} /\ mpc # "ended"
    /\ n \in 1 .. Len(buffer) /\ Len(pipe) + n <= PipeRoom
    /\ pipe' = pipe \o SubSeq(buffer, 1, n)
    /\ buffer' = SubSeq(buffer, n + 1, Len(buffer))
    /\ link' = IF link = "closing" /\ n = Len(buffer) THEN "closed" ELSE link
    /\ UNCHANGED <<pilot, told, motor>>

(* baioCloseOnError: a read or write error, among them the broken pipe after the
   motor process ended.  What was not written is lost. *)
LinkError ==
    /\ link \in {"open", "closing"}
    /\ link' = "closed" /\ buffer' = <<>> /\ told' = FALSE
    /\ UNCHANGED <<pilot, pipe, motor>>

(* mainExit, or a second signal: the process ends with what it had not written. *)
Exit ==
    /\ Commanding!Exit
    /\ link' = "closed" /\ buffer' = <<>>
    /\ UNCHANGED <<told, pipe, motor>>

(* The landing command of motorsEmmergencyLand is written to the descriptor,
   past the lines that wait in the buffer, which die with the pilot. *)
LandLines_if_buffered == <<>>
LandLines == <<Word("land")>>

LandWritten ==
    /\ link = "open" /\ mpc # "ended"
    /\ link' = "crashed"
    /\ pipe' = pipe \o LandLines

(* writeToFd gives up when the descriptor takes nothing: the pilot is gone without a
   word.  A pipe without room for a line of thrusts may have it for the command. *)
LandLost ==
    /\ link = "closed" \/ mpc = "ended" \/ Len(pipe) >= PipeRoom
    /\ link' = "closed"
    /\ UNCHANGED pipe

Crash ==
    /\ Commanding!Crash
    /\ buffer' = <<>> /\ told' = FALSE
    /\ LandWritten \/ LandLost
    /\ UNCHANGED motor

-------------------------------------------------------------------------------
(* The motor process                                                         *)

(* readThrustFromInputPipe reads what there is, up to its buffer. *)
Read(n) ==
    /\ mpc = "select" /\ n \in 1 .. Len(pipe)
    /\ bbb' = SubSeq(pipe, 1, n)
    /\ pipe' = SubSeq(pipe, n + 1, Len(pipe))
    /\ mpc' = "parse" /\ res' = FALSE
    /\ UNCHANGED <<pilot, connection, buffer, shutdown, standby, factor, throttle, sent>>

(* motorStartEmergencyLanding sends the landing throttles, zero, ten times. *)
EmergencyLanding ==
    /\ throttle' = 0 /\ sent' = 0
    /\ mpc' = "stopping"

(* Which silence of the pilot is no error *)
Idle_if_always == TRUE
Idle == standby

(* No line within 200 ms, or the pipe has no writer any more. *)
Silence ==
    /\ mpc = "select" /\ pipe = <<>>
    /\ IF Idle
       THEN mpc' = (IF shutdown THEN "stopping" ELSE "select") /\ UNCHANGED <<throttle, sent>>
       ELSE EmergencyLanding
    /\ UNCHANGED <<pilot, connection, buffer, pipe, bbb, res, shutdown, standby, factor>>

Parses(word) ==
    /\ mpc = "parse" /\ bbb # <<>> /\ Head(bbb).word = word
    /\ bbb' = Tail(bbb)
    /\ UNCHANGED <<pilot, connection, buffer, pipe>>

(* A thrust received before the factor counts as zero. *)
ParseMt ==
    /\ Parses("mt")
    /\ throttle' = IF factor THEN Head(bbb).thrust ELSE 0
    /\ standby' = FALSE /\ res' = TRUE
    /\ UNCHANGED <<mpc, shutdown, factor, sent>>

ParseStan ==
    /\ Parses("stan")
    /\ standby' = TRUE /\ throttle' = 0 /\ res' = TRUE
    /\ UNCHANGED <<mpc, shutdown, factor, sent>>

ParseExit ==
    /\ Parses("exit")
    /\ shutdown' = TRUE /\ throttle' = 0 /\ res' = TRUE
    /\ UNCHANGED <<mpc, standby, factor, sent>>

ParseMfac ==
    /\ Parses("mfac")
    /\ factor' = TRUE
    /\ UNCHANGED <<mpc, res, shutdown, standby, throttle, sent>>

(* The rest of the batch is not looked at any more. *)
ParseLand ==
    /\ Parses("land")
    /\ EmergencyLanding
    /\ res' = FALSE
    /\ UNCHANGED <<shutdown, standby, factor>>

(* The batch is parsed: the main loop sends the throttles, except in standby. *)
EndBatch ==
    /\ mpc = "parse" /\ bbb = <<>>
    /\ res' = FALSE
    /\ sent' = IF res /\ ~standby THEN throttle ELSE sent
    /\ mpc' = IF shutdown THEN "stopping" ELSE "select"
    /\ UNCHANGED <<pilot, connection, buffer, pipe, bbb, shutdown, standby, factor, throttle>>

(* motorStopInterrupt: a select that runs is interrupted, one about to begin
   is not. *)
MotorInterrupt ==
    /\ mpc \in {"select", "parse"} /\ ~shutdown
    /\ shutdown' = TRUE
    /\ mpc' \in IF mpc = "select" THEN {"select", "stopping"} ELSE {mpc}
    /\ UNCHANGED <<pilot, connection, buffer, pipe, bbb, res, standby, factor, throttle, sent>>

(* The end of main: a pause after an emergency landing, then zeros.  What was not
   parsed ends with the process. *)
FinalThrottle_if_kept == sent
FinalThrottle == 0

Finish ==
    /\ mpc = "stopping"
    /\ mpc' = "ended"
    /\ throttle' = FinalThrottle /\ sent' = FinalThrottle
    /\ bbb' = <<>> /\ pipe' = <<>>
    /\ UNCHANGED <<pilot, connection, buffer, res, shutdown, standby, factor>>

-------------------------------------------------------------------------------
Pilot ==
    \/ Wake \/ GotoStandby \/ Shutdown \/ LinkError \/ Exit \/ Crash
    \/ \E t \in Thrusts : SendThrusts(t) \/ LateThrusts(t)

Parse == ParseMt \/ ParseStan \/ ParseExit \/ ParseMfac \/ ParseLand

MotorStep == (\E n \in 1 .. Len(pipe) : Read(n)) \/ Silence \/ Parse \/ EndBatch \/ Finish

Terminated == mpc = "ended" /\ UNCHANGED vars

Next ==
    \/ Pilot
    \/ \E n \in 1 .. Len(buffer) : Flush(n)
    \/ MotorStep \/ MotorInterrupt
    \/ Terminated

(* The select of each process returns when it can write or read, and that of the
   motor process after 200 ms at the latest; a shutdown closes the connection
   or exits within half a second. *)
Fairness ==
    /\ WF_vars(\E n \in 1 .. Len(buffer) : Flush(n))
    /\ WF_vars(MotorStep)
    /\ WF_vars(Exit)

Spec == Init /\ [][Next]_vars /\ Fairness

-------------------------------------------------------------------------------
(* Properties                                                                *)

Unparsed == bbb \o pipe \o buffer

(* A thrust line is never parsed before the factor that gives it its value,
   however the lines are batched, dropped or overtaken. *)
FactorComesFirst == mpc = "parse" /\ bbb # <<>> /\ Head(bbb).word = "mt" => factor

(* When the pilot sleeps and its "stan" fitted into the buffer, no thrust is under
   way behind that "stan"; and once it has been parsed the motor process is in
   standby, whatever was parsed in the same batch. *)
StandbyFollows ==
    ~awake /\ told /\ link = "open" /\ mpc \in {"select", "parse"} =>
        LET LastOf(w) == SelectLastInSeq(Unparsed, LAMBDA l : l.word = w)
        IN  \/ LastOf("mt") < LastOf("stan")
            \/ LastOf("mt") = 0 /\ standby

(* The comment on the command "stan", "goto stanby mode (i.e. send minimal
   throttle pwn to hold motors stopped": between two batches, a motor process
   in standby has its motors stopped. *)
StandbyStops == mpc = "select" /\ standby => sent = 0

(* Whatever the connection lost or closed in the middle of, the motors do not
   stay under command of a pilot that is gone, one whose landing command found no
   room in the pipe among them. *)
NotLeftToDeadPilot == link = "closed" ~> [](standby \/ mpc = "ended")

(* After a crash of the pilot that could write its landing command the motor process
   stops the motors and ends. *)
CrashStopsMotors == link = "crashed" ~> mpc = "ended" /\ sent = 0

(* A pilot that stays asleep finds the motors in standby or ended in the end,
   even if the buffer had no room for "stan". *)
SleepReachesMotors == ~awake ~> awake \/ standby \/ mpc = "ended"
===============================================================================

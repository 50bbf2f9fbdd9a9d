--------------------------------- MODULE Thrust ---------------------------------
(***************************************************************************)
(* The thrust of the motors in one stabilisation tick of a flight: the     *)
(* altitude thrust from the altitude control, the combination with the     *)
(* demands for roll, pitch and yaw, and the normalisation that brings the  *)
(* thrust of each motor into its range.                                    *)
(*                                                                         *)
(* Numbers are integers: Unit is the full thrust 1.0, a tick has length 1. *)
(* The drone has four motors, and the forces of every configuration file   *)
(* are 1 or -1, so that dividing by a force is multiplying with it.        *)
(***************************************************************************)
EXTENDS Integers, FiniteSets

CONSTANTS
    Unit,      \* thrust 1.0
    Excess,    \* thrust 0.3, how far the altitude may be relaxed
    Hold,      \* motor_altitude_thrust_hold
    MinSpin,   \* motor_thrust_min_spin
    P, I, D,   \* the gains of pidAltitude
    CI,        \* its constant
    IMax,      \* its integralMax, in units of thrust
    DMax,      \* its derivativeMax, in units of thrust
    DCap,      \* the same number taken as a derivative
    MaxSpeed,  \* bound on the vertical speeds, set or measured
    MaxDemand, \* bound on the thrusts demanded for roll, pitch and yaw
    MaxAssist, \* bound on the output of pidAccAltitude
    RcValues,  \* values of the altitude stick
    Tilts      \* corrections for roll and pitch, 1 / rpFactor

ASSUME ThrustAssumption ==
    /\ Unit \in Nat \ {0} /\ Excess \in Nat /\ Hold \in Nat /\ MinSpin \in 0 .. Unit
    /\ P \in Nat /\ I \in Nat /\ D \in Nat /\ CI \in Nat
    /\ IMax \in Nat \ {0} /\ DMax \in Nat /\ DCap \in Nat
    /\ MaxSpeed \in Nat /\ MaxDemand \in Nat /\ MaxAssist \in Nat
    /\ RcValues \subseteq Nat
    /\ Tilts \subseteq 1 .. 4 /\ Tilts # {}

VARIABLES
    control,    \* the mode of the altitude control
    emergency,  \* uu->flyStage is FS_EMERGENCY_LANDING instead of FS_FLY
    integral,   \* pidAltitude.d.integral
    previous,   \* pidAltitude.d.previous_measured_value
    phase,      \* the tick: altitude thrust next, or combination, or the end
    altitude,   \* the altitude thrust
    demand,     \* roll, pitch and yaw thrust, and the data that sufficed
    thrust,     \* uu->motor[].thrust
    outcome     \* what the tick did to the thrusts

pid == <<integral, previous>>
setup == <<control, emergency>>
vars == <<setup, pid, phase, altitude, demand, thrust, outcome>>

Motors == 1 .. 4
YawForce == <<-1, 1, -1, 1>>
PitchForce == <<1, -1, -1, 1>>
RollForce == <<-1, -1, 1, 1>>

Speeds == -MaxSpeed .. MaxSpeed
Demands == -MaxDemand .. MaxDemand
Assists == -MaxAssist .. MaxAssist
Controls == {"passthrough", "acro", "target"}
Rpys == [roll : Demands, pitch : Demands, yaw : Demands]
Level == [roll |-> 0, pitch |-> 0, yaw |-> 0]
Equal(t) == [m \in Motors |-> t]
InRange(t) == \A m \in Motors : 0 <= t[m] /\ t[m] <= Unit
Abs(x) == IF x < 0 THEN -x ELSE x
Sign(x) == IF x < 0 THEN -1 ELSE IF x > 0 THEN 1 ELSE 0

(* The thrust at the end of a tick is in the range of the motors, and the terms
   of the controller keep their limits. *)
TypeOK ==
    /\ control \in Controls /\ emergency \in BOOLEAN
    /\ integral \in Int /\ Abs(I * integral) < IMax
    /\ previous \in Speeds
    /\ phase \in {"altitude", "combine", "end"}
    /\ altitude \in Nat
    /\ demand \in Rpys \cup {Level}
    /\ thrust \in [Motors -> 0 .. Unit]
    /\ outcome \in {"none", "fits", "yaw", "altitude", "truncated", "stopped", "failed"}

Rest == phase' = "altitude" /\ altitude' = 0 /\ demand' = Level

-------------------------------------------------------------------------------
(* pidControllerStep                                                         *)

(* An error out of range is ignored. *)
Error(setpoint, measured) ==
    LET e == setpoint - measured IN IF Abs(P * e) > 2 * IMax THEN 0 ELSE e

(* The integral stays where it is rather than leave its range. *)
Integral_if_unrestricted(old, e) == old + e
Integral(old, e) == IF Abs(I * (old + e)) >= IMax THEN old ELSE old + e

(* The derivative is that of the measured value. *)
Derivative(measured) ==
    LET d == previous - measured IN IF Abs(D * d) >= DMax THEN Sign(d) * DCap ELSE d

PidOutput(setpoint, measured) ==
    LET e == Error(setpoint, measured)
    IN  P * e + I * Integral(integral, e) + D * Derivative(measured) + CI

PidStep(setpoint, measured) ==
    /\ integral' = Integral(integral, Error(setpoint, measured))
    /\ previous' = measured

-------------------------------------------------------------------------------
(* pilotComputeTargetAltitudeThrust: the thrust is added to the one that holds
   the altitude, and a negative one fails. *)

Climb(t) ==
    IF t < 0
    THEN /\ phase' = "end" /\ outcome' = "stopped"
         /\ thrust' = Equal(0)
         /\ UNCHANGED <<altitude, demand>>
    ELSE /\ phase' = "combine"
         /\ \E q \in Tilts : altitude' = q * (t + Hold)
         /\ UNCHANGED <<demand, thrust, outcome>>

Passthrough ==
    /\ phase = "altitude" /\ control = "passthrough"
    /\ \E rc \in RcValues : Climb(IF emergency THEN MinSpin ELSE rc)
    /\ UNCHANGED <<setup, pid>>

Assisted ==
    /\ phase = "altitude" /\ control = "acro"
    /\ \E rc \in RcValues, a \in Assists : Climb(IF emergency THEN MinSpin ELSE rc + a)
    /\ UNCHANGED <<setup, pid>>

(* pilotComputeAutoThrustForAltitudeHold: in an emergency the target is 0.1 below
   the ground, otherwise what was asked for. *)
AltitudeHold ==
    /\ phase = "altitude" /\ control = "target"
    /\ \E setpoint, measured \in Speeds, a \in Assists :
           /\ PidStep(setpoint, measured)
           /\ Climb(PidOutput(setpoint, measured) + a)
    /\ UNCHANGED setup

(* Too few positions or orientations yet, for the altitude thrust as well or for
   the others only *)
NoData ==
    /\ phase = "altitude"
    /\ phase' = "end" /\ outcome' = "failed"
    /\ thrust' = Equal(0)
    /\ \/ UNCHANGED pid
       \/ control = "target" /\ \E setpoint, measured \in Speeds : PidStep(setpoint, measured)
    /\ UNCHANGED <<setup, altitude, demand>>

-------------------------------------------------------------------------------
(* pilotCombineAllMotorThrusts and the normalisation                         *)

Wanted(rpy) ==
    [m \in Motors |-> altitude + YawForce[m] * rpy.yaw + PitchForce[m] * rpy.pitch
                               + RollForce[m] * rpy.roll]

Truncated(x) == IF x < 0 THEN 0 ELSE IF x > Unit THEN Unit ELSE x

(* How far the thrust x is out of range, towards the range *)
Offset(x) == Truncated(x) - x

(* The yaw thrusts that would bring each motor back, and the largest of them *)
Factors(t) == {Offset(t[m]) * YawForce[m] : m \in Motors}
Conflict(t) == \E f, g \in Factors(t) : f < 0 /\ g > 0
Largest(S) == CHOOSE f \in S : \A g \in S : Abs(g) <= Abs(f)

Yawed(t, f) == [m \in Motors |-> t[m] + f * YawForce[m]]

(* The yaw thrust to add.  Where it drives another motor out of range, it is taken
   back by as much: all these have one sign, the other than the thrust has. *)
YawFactor_if_not_reduced(t) == Largest(Factors(t))
YawFactor(t) ==
    LET f == Largest(Factors(t)) IN f + Largest(Factors(Yawed(t, f)))

(* pilotNormalizeMotorThrustByRelaxingYaw: when two motors need opposite yaw it
   leaves the thrusts as they are. *)
RelaxedYaw(t) == IF Conflict(t) THEN t ELSE Yawed(t, YawFactor(t))

(* pilotNormalizeMotorThrustByRelaxingAltitude *)
Highest(t) == CHOOSE x \in {t[m] : m \in Motors} : \A m \in Motors : t[m] <= x
Lowest(t) == CHOOSE x \in {t[m] : m \in Motors} : \A m \in Motors : t[m] >= x

MayShift_if_any_spread(t) == Highest(t) <= Unit + Excess /\ Lowest(t) >= -Excess
MayShift(t) ==
    /\ Highest(t) - Lowest(t) <= Unit
    /\ Highest(t) <= Unit + Excess /\ Lowest(t) >= -Excess

Shift(t) ==
    IF Highest(t) > Unit THEN Unit - Highest(t)
    ELSE IF Lowest(t) < 0 THEN -Lowest(t) ELSE 0

Shifted(t) == [m \in Motors |-> Truncated(t[m] + Shift(t))]

(* pilotNormalizeMotorThrust: the first of the three ways that succeeds *)
Normalized(t) ==
    LET y == RelaxedYaw(t)
    IN  CASE InRange(t)  -> [thrust |-> t, outcome |-> "fits"]
          [] ~InRange(t) /\ InRange(y) -> [thrust |-> y, outcome |-> "yaw"]
          [] ~InRange(t) /\ ~InRange(y) /\ MayShift(y)
                -> [thrust |-> Shifted(y), outcome |-> "altitude"]
          [] OTHER -> [thrust |-> [m \in Motors |-> Truncated(y[m])],
                       outcome |-> "truncated"]

Combine ==
    /\ phase = "combine"
    /\ \E rpy \in Rpys :
           LET n == Normalized(Wanted(rpy))
           IN  /\ demand' = rpy
               /\ thrust' = n.thrust /\ outcome' = n.outcome
    /\ phase' = "end"
    /\ UNCHANGED <<setup, pid, altitude>>

(* The thrusts are sent, and the next tick writes them all again; before, an
   emergency may be declared. *)
Sent ==
    /\ phase = "end"
    /\ Rest
    /\ thrust' = Equal(0) /\ outcome' = "none"
    /\ emergency' \in {emergency, TRUE}
    /\ UNCHANGED <<control, pid>>

(* The end of the prefly sequence: pilotInitiatePids after pidControllerReset *)
Init ==
    /\ control \in Controls /\ emergency = FALSE
    /\ \E setpoint, measured \in Speeds :
           /\ integral = Integral(0, Error(setpoint, measured))
           /\ previous = measured
    /\ phase = "altitude" /\ altitude = 0 /\ demand = Level
    /\ thrust = Equal(MinSpin) /\ outcome = "none"

Next == Passthrough \/ Assisted \/ AltitudeHold \/ NoData \/ Combine \/ Sent

Spec == Init /\ [][Next]_vars

-------------------------------------------------------------------------------
(* Properties                                                                *)

(* The torque of the thrusts t for the given forces *)
Torque(t, force) ==
    force[1] * t[1] + force[2] * t[2] + force[3] * t[3] + force[4] * t[4]

(* As long as the normalisation does not fail, roll and pitch get exactly what they
   demanded, whatever is taken from yaw and altitude. *)
AttitudeKept ==
    outcome \in {"fits", "yaw", "altitude"} =>
        /\ Torque(thrust, RollForce) = 4 * demand.roll
        /\ Torque(thrust, PitchForce) = 4 * demand.pitch

(* Yaw is given up first, and alone: whenever some yaw thrust brings all motors
   into range, the one added does so with the smallest change, and the altitude
   gets all of its thrust.  Where none does, what is given up of yaw drives no
   motor out of range that was in it. *)
YawFirst ==
    LET t == Wanted(demand)
        y == RelaxedYaw(t)
        fit == {f \in -2 * Unit .. 2 * Unit : InRange(Yawed(t, f))}
    IN  outcome \in {"fits", "yaw", "altitude", "truncated"} =>
            IF fit # {}
            THEN /\ \E f \in fit : thrust = Yawed(t, f) /\ \A g \in fit : Abs(f) <= Abs(g)
                 /\ Torque(thrust, Equal(1)) = 4 * altitude
            ELSE \A m \in Motors : Offset(t[m]) = 0 => Offset(y[m]) = 0

(* The comment on motor_altitude_thrust_max (cfg/pifly.json 86), "the drone gently
   lands when the battery is empty": the emergency landing declared when the thrust
   reaches that value is flown with the motors on. *)
LandsGently == emergency => outcome # "stopped"
=================================================================================

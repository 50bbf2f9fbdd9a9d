------------------------------- MODULE SharedRing -------------------------------
(***************************************************************************)
(* The shared memory of one sensor stream: the header, the mutex and the   *)
(* ring of raspilotInputBuffer, which a pilot creates, a sensor process    *)
(* connects to and writes, and the pilot reads in its stabilisation tick.  *)
(* The memory outlives both.  Each statement the other process can observe *)
(* is a step; a process may be killed between any two.  What the pilot     *)
(* does under the mutex nobody observes; a shutdown that changes the       *)
(* status between its two tests makes it read without the mutex, and there *)
(* every load is a step.                                                   *)
(***************************************************************************)
EXTENDS Integers

CONSTANTS
    Size,   \* regression_size of the stream, for the ring and the output buffer
    Names,  \* measurements are named by their number modulo Names
    MaxN    \* bound on the measurements a sensor makes

ASSUME SizeAssumption ==
    Size \in Nat \ {0} /\ Names \in Nat \ {0} /\ MaxN \in Nat /\ MaxN >= Size

VARIABLES
    status,   \* input->status, a RIBS_SHARED_ constant
    mutex,    \* who holds input->mutex
    size,     \* buffer.size: 0 while the ring is initialised
    slots,    \* buffer.a: time and vector of each slot
    ai, n,    \* buffer.ai, the slot written next, and buffer.n
    spc,      \* where the sensor is
    alive,    \* the sensor has not been killed
    ppc,      \* where the pilot is
    done,     \* inputToOutputN
    left,     \* elements the pilot has still to copy
    at,       \* ii, where it is in the ring, when it reads without the mutex
    seen      \* and the time it has read there, 0 before it has

memory == <<status, mutex, size, slots, ai, n>>
sensor == <<spc, alive>>
reader == <<ppc, done, left, at, seen>>
ring == <<memory, sensor, reader>>

Statuses == {"initialize", "ok", "finalize"}
Blank == [time |-> 0, vector |-> 0]
Connecting == {"start", "init", "sizing", "announce"}
Pushing == {"writing", "filling", "counting", "indexing", "unlocking"}
SensorPCs == Connecting \cup Pushing \cup {"ready", "locking", "exited"}

(* Where the pilot reads the ring without the mutex *)
Bare == {"count", "from", "upto", "mark", "time", "vector"}
PilotPCs == {"idle", "test", "lock", "copy", "fuse", "gone"} \cup Bare

(* The name of the measurement number k, the elements whole, and what the two
   halves of a slot may be: 0 is no measurement, or a mix of two. *)
Measurement(k) == 1 + (k % Names)
Elements == {[time |-> v, vector |-> v] : v \in 1 .. Names}
Scraps == [time : 0 .. Names, vector : 0 .. Names]

RingTypeOK ==
    /\ status \in Statuses
    /\ mutex \in {"free", "sensor", "pilot"}
    /\ size \in {0, Size}
    /\ slots \in [0 .. Size - 1 -> Scraps]
    /\ ai \in 0 .. Size - 1
    /\ n \in 0 .. MaxN
    /\ spc \in SensorPCs /\ alive \in BOOLEAN
    /\ ppc \in PilotPCs
    /\ done \in 0 .. MaxN
    /\ left \in 0 .. 2 * Size
    /\ at \in 0 .. 2 * Size
    /\ seen \in 0 .. Names

(* raspilotCreateSharedMemory of the first session: ftruncate gives zeros. *)
RingInit ==
    /\ status = "initialize" /\ mutex = "free"
    /\ size = Size
    /\ slots = [i \in 0 .. Size - 1 |-> Blank]
    /\ ai = 0 /\ n = 0
    /\ spc = "start" /\ alive = TRUE
    /\ ppc = "idle" /\ done = 0 /\ left = 0 /\ at = 0 /\ seen = 0

-------------------------------------------------------------------------------
(* The sensor.  Steps(from, to) is a step of the living process.             *)
Steps(from, to) ==
    /\ alive /\ spc = from
    /\ spc' = to
    /\ UNCHANGED <<alive, reader>>

(* raspilotShmConnect fails in any status but RIBS_SHARED_INITIALIZE, and the
   program exits. *)
Connect ==
    /\ Steps("start", IF status = "initialize" THEN "init" ELSE "exited")
    /\ UNCHANGED memory

(* pthread_mutex_init, and the memset of raspilotRingBufferInit *)
InitHeader_if_announced ==
    /\ Steps("init", "sizing")
    /\ mutex' = "free" /\ size' = 0 /\ ai' = 0 /\ n' = 0
    /\ status' = "ok" /\ UNCHANGED slots
InitHeader ==
    /\ Steps("init", "sizing")
    /\ mutex' = "free" /\ size' = 0 /\ ai' = 0 /\ n' = 0
    /\ UNCHANGED <<status, slots>>

InitRing ==
    /\ Steps("sizing", "announce")
    /\ size' = Size
    /\ slots' = [i \in 0 .. Size - 1 |-> Blank]
    /\ UNCHANGED <<status, mutex, ai, n>>

Announce ==
    /\ Steps("announce", "ready")
    /\ status' = "ok"
    /\ UNCHANGED <<mutex, size, slots, ai, n>>

PushRefused ==
    /\ Steps("ready", "exited")
    /\ status = "finalize"
    /\ UNCHANGED memory

PushBegin ==
    /\ Steps("ready", "locking")
    /\ status # "finalize" /\ n < MaxN
    /\ UNCHANGED memory

PushLock ==
    /\ Steps("locking", "writing")
    /\ mutex = "free"
    /\ mutex' = "sensor"
    /\ UNCHANGED <<status, size, slots, ai, n>>

(* raspilotRingBufferAddElem: the time, the vector, the count and the index *)
PushTime ==
    /\ Steps("writing", "filling")
    /\ slots' = [slots EXCEPT ![ai].time = Measurement(n)]
    /\ UNCHANGED <<status, mutex, size, ai, n>>

PushVector ==
    /\ Steps("filling", "counting")
    /\ slots' = [slots EXCEPT ![ai].vector = Measurement(n)]
    /\ UNCHANGED <<status, mutex, size, ai, n>>

PushCount ==
    /\ Steps("counting", "indexing")
    /\ n' = n + 1
    /\ UNCHANGED <<status, mutex, size, slots, ai>>

PushIndex ==
    /\ Steps("indexing", "unlocking")
    /\ ai' = (ai + 1) % size
    /\ UNCHANGED <<status, mutex, size, slots, n>>

MutexAfterPush_if_kept == mutex
MutexAfterPush == "free"

PushUnlock ==
    /\ Steps("unlocking", "ready")
    /\ mutex' = MutexAfterPush
    /\ UNCHANGED <<status, size, slots, ai, n>>

Connects == Connect \/ InitHeader \/ InitRing \/ Announce
Pushes ==
    \/ PushRefused \/ PushBegin \/ PushLock
    \/ PushTime \/ PushVector \/ PushCount \/ PushIndex
    \/ PushUnlock

(* A signal, for one the SIGINT the terminal sends to the pilot as well, ends the
   sensor wherever it is. *)
Kill ==
    /\ alive /\ spc # "exited"
    /\ alive' = FALSE
    /\ UNCHANGED <<spc, memory, reader>>

SensorLeft == spc = "exited" \/ ~alive

-------------------------------------------------------------------------------
(* The pilot: deviceTranslateInputToOutput, called in the tick.  What becomes of
   an element copied is left to the module that extends this one.            *)

(* Only a stream whose sensor has connected is read. *)
TranslateBegin ==
    /\ ppc = "idle"
    /\ ppc' = IF status = "ok" THEN "test" ELSE "fuse"
    /\ UNCHANGED <<memory, sensor, done, left, at, seen>>

(* The status is loaded again: the mutex is taken only if it is still the same. *)
TranslateTest ==
    /\ ppc = "test"
    /\ ppc' = IF status = "ok" THEN "lock" ELSE "count"
    /\ UNCHANGED <<memory, sensor, done, left, at, seen>>

(* The last elements not translated yet, as many as the output buffer keeps *)
Count_if_uncapped == n - done
Count == IF n - done < Size THEN n - done ELSE Size

TranslateLock ==
    /\ ppc = "lock" /\ mutex = "free"
    /\ mutex' = "pilot"
    /\ left' = Count
    /\ done' = n
    /\ ppc' = "copy"
    /\ UNCHANGED <<status, size, slots, ai, n, sensor, at, seen>>

(* The element copied next *)
Source_if_from_the_oldest == slots[(ai + left) % size]
Source == slots[(ai + size - left) % size]

TranslateNext ==
    /\ ppc = "copy" /\ left > 0
    /\ left' = left - 1
    /\ UNCHANGED <<memory, sensor, ppc, done, at, seen>>

(* The same without the mutex, one load after the other: n, ai for the first
   element, ai for the end, n again, then the time and the vector of each slot. *)
Peeks(from, to) ==
    /\ ppc = from
    /\ ppc' = to
    /\ UNCHANGED <<memory, sensor>>

PeekCount ==
    /\ Peeks("count", "from")
    /\ left' = Count
    /\ UNCHANGED <<done, at, seen>>

PeekFrom ==
    /\ Peeks("from", "upto")
    /\ at' = ai + size - left
    /\ UNCHANGED <<done, left, seen>>

PeekUpto ==
    /\ Peeks("upto", "mark")
    /\ left' = IF at < ai + size THEN ai + size - at ELSE 0
    /\ UNCHANGED <<done, at, seen>>

PeekMark ==
    /\ Peeks("mark", "time")
    /\ done' = n
    /\ UNCHANGED <<left, at, seen>>

PeekTime ==
    /\ Peeks("time", "vector")
    /\ left > 0
    /\ seen' = slots[at % size].time
    /\ UNCHANGED <<done, left, at>>

PeekVector ==
    /\ Peeks("vector", "time")
    /\ left' = left - 1 /\ at' = at + 1
    /\ seen' = 0
    /\ UNCHANGED done

(* What was read there: a vector the sensor is filling in may be a mix. *)
Glimpses ==
    LET i == at % size
    IN  {[time |-> seen, vector |-> v] :
            v \in {slots[i].vector} \cup (IF spc = "filling" /\ i = ai THEN {0} ELSE {})}

(* The mutex is given back only if the status has not changed meanwhile. *)
TranslateUnlock ==
    /\ ppc \in {"copy", "time"} /\ left = 0
    /\ mutex' = IF status = "ok" THEN "free" ELSE mutex
    /\ ppc' = "fuse"
    /\ at' = 0
    /\ UNCHANGED <<status, size, slots, ai, n, sensor, done, left, seen>>

(* deviceFinalize writes the status without the mutex. *)
Finalize == status' = "finalize" /\ UNCHANGED <<mutex, size, slots, ai, n>>

(* raspilotCreateSharedMemory in a new session, and the sensor it starts: the
   memory of the session before is mapped again and not cleared.  Nothing in the
   code waits for the sensor of the session before.  SensorLeft is an assumption on
   the configuration: the commands by which the shipped ones start a sensor in shared
   memory begin with a killall -9 of the program, and half a second of sleep. *)
Recreate ==
    /\ ppc = "gone" /\ SensorLeft
    /\ status' = "initialize" /\ size' = Size
    /\ spc' = "start" /\ alive' = TRUE
    /\ ppc' = "idle" /\ done' = 0 /\ left' = 0 /\ at' = 0 /\ seen' = 0
    /\ UNCHANGED <<mutex, slots, ai, n>>

-------------------------------------------------------------------------------
(* While the stream is in use a process is in its section with the mutex only, and
   nobody else holds it but a process that ended in there.  What an earlier session
   left locked is undone by the sensor that connects, which meets no reader.  The
   sensor always writes with the mutex.  The pilot reads without it (Bare) in one
   case, when the stream was finalized after its first test of the status, and only
   a finalized stream stays locked by a pilot that went on. *)
Excluded ==
    /\ spc \in Pushing => mutex = "sensor"
    /\ ppc = "copy" => mutex = "pilot"
    /\ ppc \in Bare => status = "finalize"
    /\ spc \in Connecting => ppc \notin {"test", "lock", "copy"} \cup Bare
    /\ status = "ok" /\ mutex = "pilot" => ppc \in {"copy", "gone"}
    /\ status = "ok" /\ mutex = "sensor" => spc \in Pushing
=================================================================================

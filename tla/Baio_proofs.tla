------------------------------ MODULE Baio_proofs ------------------------------
(***************************************************************************)
(* Proofs about a connection, for buffers of every size: the indices stay  *)
(* in the buffers, no read is issued without room, a closing connection    *)
(* asks for no new read, only a line that falls just short of the end of   *)
(* the buffer can stall, and the connection implements the outbox.         *)
(***************************************************************************)
EXTENDS Baio, TLAPS

USE SizeAssumption, FreeAssumption, KindAssumption
    DEF SizeAssumption, FreeAssumption, KindAssumption

(* The bytes that are owed are those in the write buffer. *)
Owed == Active => unsent = wj - wi

(* A zombie has lost all its bits. *)
Zombie == ~Active => status = {}

(* A read that is asked for had room when it was, and no byte came in since. *)
RoomKept == "IN_READ" \in status => HasSpaceForRead

(* The read that is about to be issued has cleared its bit. *)
ReadCleared == pc = "read" => "IN_READ" \notin status

(* What a read leaves in the buffer is nothing, or an unfinished line of which the
   buffer is not full. *)
Unfinished == ri = rj \/ (Lines /\ ReadSize - (rj - ri) >= AtEnd + 2)

(* A close that waits has something to wait for. *)
Backlog == Closing => wi < wj

IInv ==
    /\ TypeOK /\ Owed /\ Zombie /\ RoomKept /\ ReadCleared /\ ReadHasRoom /\ Backlog
    /\ Unfinished

-------------------------------------------------------------------------------
LEMMA InitInv == Init => IInv
<1> SUFFICES ASSUME Init PROVE IInv
  OBVIOUS
<1>1. TypeOK
  <2>1. Flags
    BY Zenon DEF Init, Flags
  <2>2. QED
    BY <2>1 DEF Init, TypeOK, Indices, Bits
<1>2. Owed /\ Zombie /\ RoomKept
  BY DEF Init, Owed, Zombie, RoomKept, Active
<1>3. ReadCleared /\ ReadHasRoom /\ Backlog /\ Unfinished
  BY DEF Init, ReadCleared, ReadHasRoom, Backlog, Unfinished, Closing
<1>4. QED
  BY <1>1, <1>2, <1>3 DEF IInv

(* What a write to the buffer leaves: indices in the buffer, and the bytes taken
   added to the bytes owed. *)
LEMMA AppendKeeps ==
    ASSUME TypeOK, Owed, NEW n \in Nat, NEW space \in Nat, n <= space, Append(n, space)
    PROVE  /\ wi' \in 0 .. wj' /\ wj' \in 0 .. WriteSize
           /\ unsent' = wj' - wi' /\ unsent' \in 0 .. WriteSize /\ unsent' >= unsent
           /\ wi < wj => wi' < wj'
<1>1. unsent = wj - wi /\ wi \in 0 .. wj /\ wj \in 0 .. WriteSize
  BY DEF Append, Owed, TypeOK, Indices
<1>2. CASE WriteSize - wj >= space
  BY <1>1, <1>2 DEF Append, Fits
<1>3. CASE ~(WriteSize - wj >= space) /\ Fits(space)
  BY <1>1, <1>3 DEF Append, Fits
<1>4. CASE ~(WriteSize - wj >= space) /\ ~Fits(space)
  BY <1>1, <1>4 DEF Append, Fits
<1>5. QED
  BY <1>2, <1>3, <1>4

LEMMA StepInv == IInv /\ [Next]_vars => IInv'
<1> SUFFICES ASSUME IInv, [Next]_vars PROVE IInv'
  OBVIOUS
<1> USE DEF IInv, TypeOK, Owed, Zombie, RoomKept, ReadCleared, ReadHasRoom,
            Backlog, Unfinished, Active, Closing, HasSpaceForRead, ReadLength
<1>1. ASSUME NEW n \in 1 .. MaxLine, Put(n) PROVE IInv'
  <2>1. PICK space \in Nat : n <= space /\ Append(n, space)
    BY <1>1 DEF Put
  <2>2. /\ wi' \in 0 .. wj' /\ wj' \in 0 .. WriteSize
        /\ unsent' = wj' - wi' /\ unsent' \in 0 .. WriteSize
        /\ wi < wj => wi' < wj'
    BY <2>1, AppendKeeps
  <2>3. UNCHANGED <<status, ri, rj, rsize, pc>>
    BY <1>1 DEF Put, readBuffer, poll
  <2>4. Flags'
    BY <1>1, Zenon DEF Put, Flags, poll
  <2>5. Backlog'
    BY ONLY <2>2, <2>3, Backlog DEF Backlog, Closing
  <2>6. QED
    BY <2>2, <2>3, <2>4, <2>5 DEF Indices
<1>2. ASSUME NEW n \in 1 .. MaxLine, LatePut(n) PROVE IInv'
  <2>1. Append(n, n) /\ n \in Nat
    BY <1>2 DEF LatePut
  <2>2. /\ wi' \in 0 .. wj' /\ wj' \in 0 .. WriteSize
        /\ unsent' = wj' - wi' /\ unsent' \in 0 .. WriteSize
        /\ wi < wj => wi' < wj'
    BY <2>1, AppendKeeps
  <2>3. UNCHANGED <<status, ri, rj, rsize, pc>>
    BY <1>2 DEF LatePut, readBuffer, poll
  <2>4. Flags'
    BY <1>2, Zenon DEF LatePut, Flags, poll
  <2>5. Backlog'
    BY ONLY <2>2, <2>3, Backlog DEF Backlog, Closing
  <2>6. QED
    BY <2>2, <2>3, <2>4, <2>5 DEF Indices
<1>3. CASE Close
  <2>1. CASE wi = wj
    <3>1. Flags'
      BY <1>3, <2>1, Zenon DEF Close, Deactivate, Flags, poll
    <3>2. QED
      BY <1>3, <2>1, <3>1 DEF Close, Deactivate, Indices, poll
  <2>2. CASE wi # wj
    <3>1. late' \in BOOLEAN
      BY <1>3, <2>2 DEF Close, Flags
    <3>2. Flags'
      BY <1>3, <2>2, <3>1, Zenon DEF Close, Flags, poll
    <3>3. /\ status' = status \cup {"PENDING_CLOSE"}
          /\ ri' = 0 /\ rj' = 0 /\ rsize' = 0
          /\ UNCHANGED <<wi, wj, pc, unsent>>
      BY <1>3, <2>2, Zenon DEF Close, poll, writeBuffer
    <3>4. Indices'
      BY <3>3 DEF Indices
    <3>5. Active
      BY <1>3 DEF Close
    <3>6. Backlog'
      BY <2>2, <3>3 DEF Indices
    <3>7. QED
      BY <3>2, <3>3, <3>4, <3>5, <3>6 DEF Bits, Indices
  <2>3. QED
    BY <2>1, <2>2
<1>4. CASE SetSelectParams
  <2>1. used' \in BOOLEAN
    <3>1. used' = Active
      BY <1>4, Zenon DEF SetSelectParams
    <3>2. QED
      BY <3>1
  <2>2. Flags'
    BY <1>4, <2>1, Zenon DEF SetSelectParams, Flags, history
  <2>3. QED
    BY <1>4, <2>2 DEF SetSelectParams, WantsRead, WantsWrite, Bits, Indices, readBuffer,
                      writeBuffer, history
<1>5. ASSUME NEW readable \in BOOLEAN, NEW writable \in BOOLEAN, Select(readable, writable)
      PROVE IInv'
  <2>1. Flags'
    BY <1>5, Zenon DEF Select, Flags, history
  <2>2. QED
    BY <1>5, <2>1 DEF Select, Indices, readBuffer, writeBuffer, history
<1>6. CASE Normalize
  <2>1. Flags'
    BY <1>6, Zenon DEF Normalize, Flags, history
  <2>2. QED
    BY <1>6, <2>1 DEF Normalize, NeedsShift, ClearedPerTick, Indices, writeBuffer,
       history
<1>7. CASE NoRead
  <2>1. Flags'
    BY <1>7, Zenon DEF NoRead, Flags, history
  <2>2. QED
    BY <1>7, <2>1 DEF NoRead, Indices, readBuffer, writeBuffer, history
<1>8. ASSUME NEW n \in 1 .. ReadLength, NEW k \in 0 .. n, Read(n, k) PROVE IInv'
  <2>1. Flags'
    BY <1>8, Zenon DEF Read, Flags, history
  <2>2. rj' \in 0 .. ReadSize /\ ri' \in 0 .. rj'
    BY <1>8 DEF Read, Consumed, Indices
  <2>3. rsize = ReadSize /\ rj + n <= ReadSize - AtEnd - 1
    BY <1>8 DEF Read, Indices
  <2>4. Unfinished'
    BY <1>8, <2>3 DEF Read, Consumed, Indices
  <2>5. QED
    BY <1>8, <2>1, <2>2, <2>4 DEF Read, Indices, writeBuffer, history
<1>9. CASE ReadEof
  <2>1. Flags'
    BY <1>9, Zenon DEF ReadEof, Flags, history
  <2>2. QED
    BY <1>9, <2>1 DEF ReadEof, Bits, Indices, readBuffer, writeBuffer, history
<1>10. CASE ReadError
  <2>1. Flags'
    BY <1>10, Zenon DEF ReadError, Flags, Deactivate
  <2>2. QED
    BY <1>10, <2>1 DEF ReadError, Deactivate, Indices
<1>11. CASE ReadZombie
  <2>1. Flags'
    BY <1>11, Zenon DEF ReadZombie, Flags, history
  <2>2. QED
    BY <1>11, <2>1 DEF ReadZombie, Indices, readBuffer, writeBuffer, history
<1>12. ASSUME NEW m \in 0 .. wj - wi, Write(m) PROVE IInv'
  <2>1. Flags'
    BY <1>12, Zenon DEF Write, Deactivate, Flags
  <2>2. unsent = wj - wi /\ unsent' = unsent - m
    BY <1>12 DEF Write, MayWrite
  <2>3. CASE CloseCompleted(m)
    BY <1>12, <2>1, <2>2, <2>3 DEF Write, Deactivate, Indices
  <2>4. CASE ~CloseCompleted(m)
    <3>1. /\ status' = status \ ClearedPerTick /\ wi' = wi + m
          /\ UNCHANGED <<ri, rj, rsize, wj>> /\ pc' = "out"
      BY <1>12, <2>4, Zenon DEF Write, readBuffer
    <3>2. Backlog'
      BY <2>4, <3>1 DEF CloseCompleted, ClearedPerTick, Indices
    <3>3. QED
      BY <2>1, <2>2, <3>1, <3>2 DEF ClearedPerTick, Indices
  <2>5. QED
    BY <2>3, <2>4
<1>13. CASE WriteError
  <2>1. Flags'
    BY <1>13, Zenon DEF WriteError, Flags, Deactivate
  <2>2. QED
    BY <1>13, <2>1 DEF WriteError, Deactivate, Indices
<1>14. CASE NoWrite
  <2>1. Flags'
    BY <1>14, Zenon DEF NoWrite, Flags, history
  <2>2. QED
    BY <1>14, <2>1 DEF NoWrite, ClearedPerTick, Indices, readBuffer, writeBuffer,
       history
<1>15. CASE UNCHANGED vars
  <2>1. Flags'
    BY <1>15, Zenon DEF vars, Flags, poll, history
  <2>2. QED
    BY <1>15, <2>1 DEF vars, Indices, readBuffer, writeBuffer, poll, history
<1>16. QED
  BY <1>1, <1>2, <1>3, <1>4, <1>5, <1>6, <1>7, <1>8, <1>9, <1>10, <1>11, <1>12, <1>13,
     <1>14, <1>15 DEF Next, Poll

-------------------------------------------------------------------------------
(* A step of the connection is a step of the outbox, or none of its business. *)
LEMMA StepsOfOutbox ==
    IInv /\ [Next]_vars => [O!Next]_<<OutboxState, unsent>>
<1> SUFFICES ASSUME IInv, [Next]_vars PROVE [O!Next]_<<OutboxState, unsent>>
  OBVIOUS
<1> DEFINE Quiet == UNCHANGED <<OutboxState, unsent>>
<1>1. ASSUME NEW n \in Nat, NEW space \in Nat, n <= space, Append(n, space),
             UNCHANGED <<status, failed>>
      PROVE  O!Accept \/ Quiet
  <2>1. unsent' \in Nat /\ unsent' >= unsent /\ unsent \in Nat
    BY <1>1, AppendKeeps DEF IInv, TypeOK, Indices
  <2>2. OutboxState' = OutboxState
    BY <1>1, Zenon DEF OutboxState, Active, Closing
  <2>3. OutboxState \in {"open", "closing"}
    BY <1>1 DEF Append, OutboxState
  <2>4. CASE unsent' = unsent
    BY <2>2, <2>4
  <2>5. CASE unsent' # unsent
    BY <2>1, <2>2, <2>3, <2>5 DEF O!Accept, O!Usable
  <2>6. QED
    BY <2>4, <2>5
<1>2. ASSUME NEW n \in 1 .. MaxLine, Put(n) \/ LatePut(n) PROVE O!Accept \/ Quiet
  <2>1. PICK space \in Nat : n <= space /\ Append(n, space)
    BY <1>2 DEF Put, LatePut
  <2>2. UNCHANGED <<status, failed>>
    BY <1>2, Zenon DEF Put, LatePut
  <2>3. QED
    BY <1>1, <2>1, <2>2
<1>3. CASE Close
  <2>1. OutboxState = "open" /\ unsent = wj - wi /\ wi \in Nat /\ wj \in Nat
    BY <1>3 DEF Close, OutboxState, IInv, Owed, TypeOK, Indices
  <2>2. CASE wi = wj
    <3>1. status' = {} /\ failed' = FALSE /\ unsent' = unsent
      BY <1>3, <2>2, Zenon DEF Close, Deactivate
    <3>2. OutboxState' = "done"
      BY <3>1, Zenon DEF OutboxState, Active
    <3>3. unsent = 0
      BY <2>1, <2>2
    <3>4. OutboxState' = IF unsent = 0 THEN "done" ELSE "closing"
      BY <3>2, <3>3, Zenon
    <3>5. O!Close
      BY <2>1, <3>1, <3>4, Zenon DEF O!Close
    <3>6. QED
      BY <3>5 DEF O!Next
  <2>3. CASE wi # wj
    <3>1. status' = status \cup {"PENDING_CLOSE"} /\ unsent' = unsent /\ Active
      BY <1>3, <2>3, Zenon DEF Close
    <3>2. OutboxState' = "closing"
      BY <3>1 DEF OutboxState, Active, Closing
    <3>3. unsent # 0
      BY <2>1, <2>3
    <3>4. OutboxState' = IF unsent = 0 THEN "done" ELSE "closing"
      BY <3>2, <3>3, Zenon
    <3>5. O!Close
      BY <2>1, <3>1, <3>4, Zenon DEF O!Close
    <3>6. QED
      BY <3>5 DEF O!Next
  <2>4. QED
    BY <2>2, <2>3 DEF O!Next
<1>4. ASSUME status' \ (ClearedPerTick \cup {"EOF_READ"})
                 = status \ (ClearedPerTick \cup {"EOF_READ"}),
             UNCHANGED <<failed, unsent>>
      PROVE  Quiet
  <2>1. Active' = Active /\ Closing' = Closing
    BY <1>4 DEF Active, Closing, ClearedPerTick
  <2>2. QED
    BY <1>4, <2>1, Zenon DEF OutboxState
<1>5. ASSUME Active, Deactivate(TRUE), UNCHANGED unsent PROVE O!Break
  <2>1. OutboxState \in {"open", "closing"}
    BY <1>5 DEF OutboxState
  <2>2. OutboxState' = "broken"
    BY <1>5, Zenon DEF Deactivate, OutboxState, Active
  <2>3. QED
    BY <1>5, <2>1, <2>2 DEF O!Break, O!Usable
<1>6. ASSUME NEW m \in 0 .. wj - wi, Write(m) PROVE O!Deliver \/ Quiet
  <2>1. /\ Active /\ unsent = wj - wi /\ unsent' = unsent - m /\ m \in Nat
        /\ wi \in Nat /\ wj \in Nat /\ (Closing => wi < wj)
    BY <1>6 DEF Write, MayWrite, IInv, Zombie, Owed, Backlog, TypeOK, Indices
  <2>2. OutboxState \in {"open", "closing"} /\ (Closing <=> OutboxState = "closing")
    BY <2>1 DEF OutboxState
  <2>3. CASE CloseCompleted(m)
    <3>1. unsent' < unsent /\ unsent' = 0 /\ OutboxState = "closing"
      BY <2>1, <2>2, <2>3 DEF CloseCompleted
    <3>2. status' = {} /\ failed' = FALSE
      BY <1>6, <2>3, Zenon DEF Write, Deactivate
    <3>3. OutboxState' = "done"
      BY <3>2, Zenon DEF OutboxState, Active
    <3>4. QED
      BY <3>1, <3>3, Zenon DEF O!Deliver, O!Usable
  <2>4. CASE ~CloseCompleted(m)
    <3>1. status' = status \ ClearedPerTick /\ failed' = failed
      BY <1>6, <2>4, Zenon DEF Write
    <3>2. Active' = Active /\ Closing' = Closing
      BY <3>1 DEF Active, Closing, ClearedPerTick
    <3>3. OutboxState' = OutboxState
      BY <3>1, <3>2, Zenon DEF OutboxState
    <3>4. Closing => unsent' # 0
      BY <2>1, <2>4 DEF CloseCompleted
    <3>5. m = 0 => unsent' = unsent
      BY <2>1
    <3>6. m # 0 => unsent' < unsent
      BY <2>1
    <3>7. QED
      BY <2>2, <3>3, <3>4, <3>5, <3>6, Zenon DEF O!Deliver, O!Usable
  <2>5. QED
    BY <2>3, <2>4
<1>7. CASE Poll
  <2>1. CASE SetSelectParams
    BY <1>4, <2>1 DEF SetSelectParams, ClearedPerTick, history
  <2>2. ASSUME NEW readable \in BOOLEAN, NEW writable \in BOOLEAN,
               Select(readable, writable)
        PROVE  Quiet
    BY <1>4, <2>2 DEF Select, history
  <2>3. CASE Normalize
    BY <1>4, <2>3 DEF Normalize, ClearedPerTick, history
  <2>4. CASE NoRead \/ ReadZombie
    BY <1>4, <2>4 DEF NoRead, ReadZombie, history
  <2>5. ASSUME NEW n \in 1 .. ReadLength, NEW k \in 0 .. n, Read(n, k) PROVE Quiet
    BY <1>4, <2>5 DEF Read, history
  <2>6. CASE ReadEof
    BY <1>4, <2>6 DEF ReadEof, history
  <2>7. CASE ReadError
    BY <1>5, <2>7 DEF ReadError, O!Next
  <2>8. CASE WriteError
    BY <1>5, <2>8 DEF WriteError, MayWrite, IInv, Zombie, O!Next
  <2>9. CASE NoWrite
    BY <1>4, <2>9 DEF NoWrite, ClearedPerTick, history
  <2>10. QED
    BY <1>6, <1>7, <2>1, <2>2, <2>3, <2>4, <2>5, <2>6, <2>7, <2>8, <2>9 DEF Poll, O!Next
<1>8. CASE UNCHANGED vars
  BY <1>4, <1>8 DEF vars, history
<1>9. QED
  BY <1>2, <1>3, <1>7, <1>8 DEF Next, O!Next

LEMMA StartOfOutbox == Init => O!Init
  BY DEF Init, O!Init, OutboxState, Active, Closing

(* The strengthened invariant holds in every state. *)
THEOREM Invariant == Spec => []IInv
<1>1. Init => IInv
  BY InitInv
<1>2. IInv /\ [Next]_vars => IInv'
  BY StepInv
<1>3. QED
  BY <1>1, <1>2, PTL DEF Spec

(* The indices stay in the buffers, whatever is written, read and shifted. *)
THEOREM TypeCorrect == Spec => []TypeOK
<1>1. IInv => TypeOK
  BY DEF IInv
<1>2. QED
  BY <1>1, Invariant, PTL

(* No read is issued with the length 0, for any sizes with MinFree > AtEnd. *)
THEOREM RoomForEveryRead == Spec => []ReadHasRoom
<1>1. IInv => ReadHasRoom
  BY DEF IInv
<1>2. QED
  BY <1>1, Invariant, PTL

(* Only an unfinished line that fell short of the end of the buffer by less than
   the room a read needs stops a connection from reading. *)
THEOREM StallsOnlyNarrowly == Spec => []StallIsNarrow
<1>1. IInv => StallIsNarrow
  BY DEF IInv, Unfinished, StallIsNarrow, HasSpaceForRead, TypeOK, Indices
<1>2. QED
  BY <1>1, Invariant, PTL

(* A closing connection asks for no new read. *)
THEOREM NoReadAfterClose == Spec => NoNewReadAfterClose
<1>1. [Next]_vars => [Closing /\ "IN_READ" \notin status => "IN_READ" \notin status']_vars
  <2> SUFFICES ASSUME Next, Closing, "IN_READ" \notin status
               PROVE  "IN_READ" \notin status'
    BY DEF Closing
  <2>1. CASE Close \/ \E n \in 1 .. MaxLine : Put(n) \/ LatePut(n)
    BY <2>1 DEF Close, Put, LatePut
  <2>2. CASE SetSelectParams
    BY <2>2 DEF SetSelectParams, WantsRead, Closing
  <2>3. CASE Poll /\ ~SetSelectParams
    BY <2>3 DEF Poll, Select, Normalize, NoRead, Read, ReadEof, ReadError, ReadZombie, Write,
                WriteError, NoWrite, Deactivate
  <2>4. QED
    BY <2>1, <2>2, <2>3 DEF Next
<1>2. QED
  BY <1>1, PTL DEF Spec, NoNewReadAfterClose

(* Whatever is written, read and closed, the connection is an outbox. *)
THEOREM KeepsOutbox == Spec => ImplementsOutbox
<1>1. Init => O!Init
  BY StartOfOutbox
<1>2. IInv /\ [Next]_vars => [O!Next]_<<OutboxState, unsent>>
  BY StepsOfOutbox
<1>3. QED
  BY <1>1, <1>2, Invariant, PTL DEF Spec, ImplementsOutbox, O!Spec
===============================================================================

--------------------------------- MODULE Baio ---------------------------------
(***************************************************************************)
(* One connection of the library baio and the poll that serves it: the     *)
(* status bits, the read and the write buffer with their indices, the two  *)
(* sections of baioOnSelectEvent, and the close that waits for the write   *)
(* buffer.  A buffer is its indices; of its bytes only the line ends       *)
(* matter.  A signal handler may close the connection between any two      *)
(* steps.                                                                  *)
(***************************************************************************)
EXTENDS Integers

CONSTANTS
    ReadSize,    \* initialReadBufferSize
    WriteSize,   \* initialWriteBufferSize
    MinFree,     \* minFreeSizeBeforeRead
    AtEnd,       \* minFreeSizeAtEndOfReadBuffer
    MaxLine,     \* bound on the length of what is written at once
    Lines        \* whether the input is split into lines, or parsed as it comes

ASSUME SizeAssumption == ReadSize \in Nat \ {0} /\ WriteSize \in Nat \ {0} /\ MaxLine \in Nat
(* 8 and 1 or 2 in the code, with buffers of 2 ^ 10 or 2 ^ 16 bytes *)
ASSUME FreeAssumption ==
    MinFree \in Nat /\ AtEnd \in Nat /\ MinFree > AtEnd /\ MinFree > 1 /\ MinFree < ReadSize
ASSUME KindAssumption == Lines \in BOOLEAN

VARIABLES
    status,     \* the bits of bb->status, none for BAIO_STATUS_ZOMBIE
    used,       \* whether the entry of baioTab still holds the connection
    ri, rj,     \* readBuffer.i and .j
    rsize,      \* readBuffer.size, 0 after its buffer was freed
    wi, wj,     \* writeBuffer.i and .j
    pc,         \* where the poll is
    canRead,    \* the descriptor is in the set of readable ones
    canWrite,   \* and in the set of writable ones
    late,       \* the close interrupted code that had looked the connection up
    failed,     \* history: whether the connection ended by an error
    unsent      \* history: bytes accepted from the writer and not written

readBuffer == <<ri, rj, rsize>>
writeBuffer == <<wi, wj>>
poll == <<pc, canRead, canWrite>>
history == <<failed, unsent>>
vars == <<status, used, readBuffer, writeBuffer, poll, late, history>>

Bits == {"ACTIVE", "EOF_READ", "PENDING_CLOSE", "IN_READ", "IN_WRITE"}
ClearedPerTick == {"IN_READ", "IN_WRITE"}

Active == "ACTIVE" \in status
Closing == "PENDING_CLOSE" \in status

Flags ==
    /\ used \in BOOLEAN /\ late \in BOOLEAN /\ failed \in BOOLEAN
    /\ canRead \in BOOLEAN /\ canWrite \in BOOLEAN

Indices ==
    /\ rsize \in {0, ReadSize}
    /\ ri \in 0 .. rj /\ rj \in 0 .. ReadSize
    /\ wi \in 0 .. wj /\ wj \in 0 .. WriteSize
    /\ unsent \in 0 .. WriteSize

TypeOK ==
    /\ status \in SUBSET Bits /\ pc \in {"out", "select", "event", "read", "write"}
    /\ Flags /\ Indices

(* A definition with a suffix _if_... is a deliberate fault in the one it is named
   after. *)

(* baioInitBasicStructure; the buffers are created by their first use. *)
Init ==
    /\ status = {"ACTIVE"} /\ used = TRUE
    /\ ri = 0 /\ rj = 0 /\ rsize = 0
    /\ wi = 0 /\ wj = 0
    /\ pc = "out" /\ canRead = FALSE /\ canWrite = FALSE
    /\ late = FALSE
    /\ failed = FALSE /\ unsent = 0

-------------------------------------------------------------------------------
(* Writing and closing                                                       *)

(* baioImmediateDeactivate; the zombie is freed by the next poll. *)
Deactivate(error) ==
    /\ status' = {} /\ failed' = error
    /\ ri' = 0 /\ rj' = 0 /\ wi' = 0 /\ wj' = 0
    /\ UNCHANGED rsize

(* baioGetSpaceForWrite: the buffer is shifted when the rest of it is too short,
   and the bytes are refused when that is not enough. *)
Fits_if_unchecked(n) == TRUE
Fits(n) == WriteSize - (wj - wi) >= n
Append(n, space) ==
    LET taken == IF Fits(space) THEN n ELSE 0
    IN  /\ Active
        /\ IF WriteSize - wj >= space
           THEN wi' = wi /\ wj' = wj + n
           ELSE wi' = 0 /\ wj' = wj - wi + taken
        /\ unsent' = unsent + taken

(* baioVprintfToBuffer also needs room for the terminating zero, and
   baioWriteToBuffer does not.  baioFromMagic finds no closing connection. *)
Put(n) ==
    /\ pc = "out" /\ ~Closing
    /\ (Append(n, n) \/ Append(n, n + 1))
    /\ UNCHANGED <<status, used, readBuffer, poll, late, failed>>

(* Code interrupted by the signal handler that closed the connection goes on. *)
LatePut(n) ==
    /\ late /\ late' = FALSE
    /\ Append(n, n)
    /\ UNCHANGED <<status, used, readBuffer, poll, failed>>

(* baioClose, at any point; with bytes to write the connection stays until they
   are written, but has lost its read buffer. *)
Close ==
    /\ Active /\ ~Closing
    /\ IF wi = wj
       THEN Deactivate(FALSE) /\ UNCHANGED late
       ELSE /\ status' = status \cup {"PENDING_CLOSE"}
            /\ ri' = 0 /\ rj' = 0 /\ rsize' = 0
            /\ late' \in (IF pc = "out" THEN BOOLEAN ELSE {late})
            /\ UNCHANGED <<writeBuffer, failed>>
    /\ UNCHANGED <<used, poll, unsent>>

-------------------------------------------------------------------------------
(* The poll                                                                  *)

(* BAIO_READ_BUFFER_HAS_SPACE_FOR_READ *)
HasSpaceForRead == ReadSize - (rj - ri) > MinFree

(* A read asked for and not yet done is asked for again, even when closing. *)
WantsRead_if_closing == Active /\ "EOF_READ" \notin status /\ HasSpaceForRead
WantsRead ==
    \/ "IN_READ" \in status
    \/ Active /\ status \cap {"EOF_READ", "PENDING_CLOSE"} = {} /\ HasSpaceForRead

WantsWrite == "IN_WRITE" \in status \/ (Active /\ wi < wj)

(* baioSetSelectParams frees a zombie and sets what the connection waits for. *)
SetSelectParams ==
    /\ pc = "out" /\ ~late
    /\ used' = Active
    /\ status' = status \cup (IF WantsRead THEN {"IN_READ"} ELSE {})
                        \cup (IF WantsWrite THEN {"IN_WRITE"} ELSE {})
    /\ pc' = "select"
    /\ UNCHANGED <<readBuffer, writeBuffer, canRead, canWrite, late, history>>

(* select; interrupted, it finds nothing. *)
Select(readable, writable) ==
    /\ pc = "select"
    /\ readable => "IN_READ" \in status
    /\ writable => "IN_WRITE" \in status
    /\ canRead' = readable /\ canWrite' = writable
    /\ pc' = "event"
    /\ UNCHANGED <<status, used, readBuffer, writeBuffer, late, history>>

(* The section of baioOnSelectEvent for the read descriptor, which clears both
   bits, and baioNormalizeBufferBeforeRead. *)
NeedsShift_if_at_end == ReadSize - rj < AtEnd
NeedsShift == ReadSize - rj < MinFree + AtEnd
Normalize ==
    /\ pc = "event" /\ canRead /\ "IN_READ" \in status
    /\ status' = status \ ClearedPerTick
    /\ IF ri = rj THEN ri' = 0 /\ rj' = 0
       ELSE IF NeedsShift THEN ri' = 0 /\ rj' = rj - ri
       ELSE UNCHANGED <<ri, rj>>
    /\ rsize' = ReadSize
    /\ pc' = "read"
    /\ UNCHANGED <<used, writeBuffer, canRead, canWrite, late, history>>

NoRead ==
    /\ pc = "event" /\ ~(canRead /\ "IN_READ" \in status)
    /\ pc' = "write"
    /\ UNCHANGED <<status, used, readBuffer, writeBuffer, canRead, canWrite, late, history>>

(* The length baioOnCanRead asks for; not positive when a close freed the buffer,
   and read fails. *)
ReadLength == rsize - rj - 1 - AtEnd

(* baioLineInputDevCallBackOnRead for n bytes of which the last line ends with the
   k-th, 0 if none does: a line stays until it is complete, and a buffer that is
   full with one line is emptied. *)
Consumed_if_flushed_late(n, k) ==
    IF ~Lines \/ (k = 0 /\ ri = 0 /\ rj + n > rsize - AtEnd - 1) THEN rj + n
    ELSE IF k > 0 THEN rj + k ELSE ri
Consumed(n, k) ==
    CASE ~Lines                                                   -> rj + n
      [] Lines /\ k > 0                                           -> rj + k
      [] Lines /\ k = 0 /\ ri = 0 /\ rj + n >= rsize - AtEnd - 1  -> rj + n
      [] OTHER                                                    -> ri

Read(n, k) ==
    /\ pc = "read" /\ Active /\ n \in 1 .. ReadLength /\ k \in 0 .. n
    /\ rj' = rj + n
    /\ ri' = Consumed(n, k)
    /\ pc' = "write"
    /\ UNCHANGED <<status, used, rsize, writeBuffer, canRead, canWrite, late, history>>

ReadEof ==
    /\ pc = "read" /\ Active /\ ReadLength > 0
    /\ status' = status \cup {"EOF_READ"}
    /\ pc' = "write"
    /\ UNCHANGED <<used, readBuffer, writeBuffer, canRead, canWrite, late, history>>

(* baioCloseOnError for any error, EAGAIN and EINTR included. *)
ReadError ==
    /\ pc = "read" /\ Active
    /\ Deactivate(TRUE)
    /\ pc' = "write"
    /\ UNCHANGED <<used, canRead, canWrite, late, unsent>>

(* Closed by the signal handler before the read: the descriptor is -1. *)
ReadZombie ==
    /\ pc = "read" /\ ~Active
    /\ pc' = "write"
    /\ UNCHANGED <<status, used, readBuffer, writeBuffer, canRead, canWrite, late, history>>

(* The section for the write descriptor: baioOnCanWrite makes one write, of m
   bytes, and completes the close. *)
CloseCompleted_if_any_write(m) == Closing
CloseCompleted_if_tested_before(m) == Closing /\ wi = wj
CloseCompleted(m) == Closing /\ wi + m = wj

MayWrite == canWrite /\ "IN_WRITE" \in status

Write(m) ==
    /\ pc = "write" /\ MayWrite
    /\ m \in 0 .. wj - wi
    /\ IF CloseCompleted(m)
       THEN Deactivate(FALSE)
       ELSE /\ wi' = wi + m
            /\ status' = status \ ClearedPerTick
            /\ UNCHANGED <<wj, readBuffer, failed>>
    /\ unsent' = unsent - m
    /\ pc' = "out"
    /\ UNCHANGED <<used, canRead, canWrite, late>>

WriteError ==
    /\ pc = "write" /\ MayWrite
    /\ Deactivate(TRUE)
    /\ pc' = "out"
    /\ UNCHANGED <<used, canRead, canWrite, late, unsent>>

NoWrite ==
    /\ pc = "write" /\ ~MayWrite
    /\ status' = IF canWrite THEN status \ ClearedPerTick ELSE status
    /\ pc' = "out"
    /\ UNCHANGED <<used, readBuffer, writeBuffer, canRead, canWrite, late, history>>

-------------------------------------------------------------------------------
Poll ==
    \/ SetSelectParams
    \/ \E readable, writable \in BOOLEAN : Select(readable, writable)
    \/ Normalize \/ NoRead
    \/ \E n \in 1 .. ReadLength : \E k \in 0 .. n : Read(n, k)
    \/ ReadEof \/ ReadError \/ ReadZombie
    \/ (\E m \in 0 .. wj - wi : Write(m)) \/ WriteError \/ NoWrite

Next == Poll \/ Close \/ \E n \in 1 .. MaxLine : Put(n) \/ LatePut(n)

(* The process polls on; the peer reads what it is sent now and then, in a poll
   without input. *)
Fairness ==
    /\ WF_vars(Poll)
    /\ SF_vars(Select(FALSE, TRUE))
    /\ SF_vars(\E m \in 1 .. wj - wi : Write(m))
    /\ WF_vars(\E n \in 1 .. MaxLine : LatePut(n))

Spec == Init /\ [][Next]_vars /\ Fairness

-------------------------------------------------------------------------------
(* Properties                                                                *)

(* A read is never issued with the length 0, whose result would be taken for the
   end of the file, whatever part of the buffer holds an unfinished line. *)
ReadHasRoom == pc = "read" /\ Active /\ ~Closing => ReadLength > 0

(* A line that fills the buffer is flushed by the reader of lines, wherever in the
   buffer it began: a connection is left without room for the next read only by an
   unfinished line that fell short of the end, with AtEnd + 2 to MinFree bytes
   free, and then it waits for ever.  Parameters with MinFree < AtEnd + 2 exclude
   that case, and so does input that is parsed as it comes. *)
StallIsNarrow ==
    pc = "out" /\ Active /\ ~Closing /\ ~HasSpaceForRead =>
        /\ Lines
        /\ ReadSize - (rj - ri) >= AtEnd + 2

(* A closing connection asks for no new read: it has at most the one it was
   waiting for when it was closed. *)
NoNewReadAfterClose ==
    [][Closing /\ "IN_READ" \notin status => "IN_READ" \notin status']_vars

(* A connection that is closed is written empty and its entry freed, or it
   breaks, in which case it is freed too. *)
ClosingEnds == Closing ~> ~used

OutboxState ==
    IF Active THEN (IF Closing THEN "closing" ELSE "open")
    ELSE IF failed THEN "broken" ELSE "done"

O == INSTANCE Outbox WITH state <- OutboxState, queued <- unsent

(* The connection keeps the promise of the outbox: what baioWriteToBuffer accepted
   is written before a close takes effect, or the connection breaks. *)
ImplementsOutbox == O!Spec
===============================================================================

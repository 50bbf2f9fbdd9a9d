---------------------------------- MODULE Feed ----------------------------------
(***************************************************************************)
(* What a shared memory stream promises.  While it is open the elements a  *)
(* sensor pushes arrive whole, once and in order, and only the oldest are  *)
(* lost when the pilot does not take them in time.  What was taken is      *)
(* delivered though the stream is closed meanwhile.  A reader that the     *)
(* closing catches on its way to take them gets no promise: what it        *)
(* delivers may be torn, out of order or delivered before.                 *)
(***************************************************************************)
EXTENDS Sequences, Naturals

CONSTANTS
    Elements,  \* what a sensor may push
    Scraps,    \* what a caught reader may find
    Size       \* the number of elements a stream keeps

VARIABLES
    gate,      \* "open", "shut", or closed with the reader caught
    fresh,     \* pushed and not yet taken
    batch,     \* taken and not yet delivered
    out        \* the last elements delivered

feed == <<gate, fresh, batch, out>>

(* The sequence with v behind it, kept to the last Size elements *)
Kept(s, v) == IF Len(s) < Size THEN Append(s, v) ELSE Append(Tail(s), v)

FeedInit == gate = "shut" /\ fresh = <<>> /\ batch = <<>> /\ out = <<>>

Open ==
    /\ gate = "shut"
    /\ gate' = "open"
    /\ UNCHANGED <<fresh, batch, out>>

Push ==
    /\ gate = "open" /\ Len(fresh) < Size
    /\ \E v \in Elements : fresh' = Append(fresh, v)
    /\ UNCHANGED <<gate, batch, out>>

Lose ==
    /\ gate = "open" /\ Len(fresh) = Size
    /\ fresh' = Tail(fresh)
    /\ UNCHANGED <<gate, batch, out>>

(* A reader that is already at it takes them from a stream being closed. *)
Take ==
    /\ gate = "open" /\ batch = <<>>
    /\ gate' \in {"open", "shut"}
    /\ batch' = fresh
    /\ fresh' = <<>>
    /\ UNCHANGED out

Deliver ==
    /\ batch # <<>>
    /\ out' = Kept(out, Head(batch))
    /\ batch' = Tail(batch)
    /\ UNCHANGED <<gate, fresh>>

(* The pilot forgets what was delivered: a launch pose was set or cleared. *)
Clear ==
    /\ out' = <<>>
    /\ UNCHANGED <<gate, fresh, batch>>

Close ==
    /\ gate = "open"
    /\ gate' = "shut"
    /\ fresh' = <<>>
    /\ UNCHANGED <<batch, out>>

(* Closed with the reader caught, who delivers what it finds and is through. *)
Catch ==
    /\ gate = "open" /\ batch = <<>>
    /\ gate' = "caught"
    /\ fresh' = <<>>
    /\ UNCHANGED <<batch, out>>

Spill ==
    /\ gate = "caught"
    /\ \E v \in Scraps : out' = Kept(out, v)
    /\ UNCHANGED <<gate, fresh, batch>>

Shut ==
    /\ gate = "caught"
    /\ gate' = "shut"
    /\ UNCHANGED <<fresh, batch, out>>

(* The pilot has gone. *)
End == gate' = "shut" /\ fresh' = <<>> /\ batch' = <<>> /\ out' = <<>>

FeedNext ==
    \/ Open \/ Push \/ Lose \/ Take \/ Deliver
    \/ Clear \/ Close \/ Catch \/ Spill \/ Shut \/ End

FeedSpec == FeedInit /\ [][FeedNext]_feed
=================================================================================

----------------------------- MODULE ByteQueue -----------------------------
(***************************************************************************)
(* What the callers of a serial device count on, with no word about        *)
(* buffers: while the device is open every byte that arrived is handed     *)
(* out once, in the order of arrival.  Opening starts from nothing;        *)
(* closing gives up what has not been read.                                *)
(***************************************************************************)
EXTENDS Integers, Sequences

CONSTANT Byte

VARIABLES
    open,       \* whether the device is open
    pending,    \* bytes that arrived and were not handed out
    taken       \* bytes handed out since the device was opened
vars == <<open, pending, taken>>

Init == ~open /\ pending = <<>> /\ taken = <<>>

Open  == ~open /\ open' /\ pending' = <<>> /\ taken' = <<>>
Close == open /\ ~open' /\ pending' = <<>> /\ taken' = <<>>

Arrive == open /\ (\E b \in Byte : pending' = Append(pending, b))
               /\ UNCHANGED <<open, taken>>

Take == \E n \in 1 .. Len(pending) :
    /\ open
    /\ taken' = taken \o SubSeq(pending, 1, n)
    /\ pending' = SubSeq(pending, n + 1, Len(pending))
    /\ UNCHANGED open

Next == Open \/ Close \/ Arrive \/ Take

Spec == Init /\ [][Next]_vars
=============================================================================

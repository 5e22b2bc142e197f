------------------------------ MODULE XYModem ------------------------------
(***************************************************************************)
(* An XMODEM or YMODEM transfer: the sender of xymodem_send.c and the      *)
(* receiver of xymodem_recv.c at the two ends of a serial line.            *)
(*                                                                         *)
(* The waits are timed (2 s for a header, 500 ms for a reply and for the   *)
(* rest of a packet), but how long an application takes between two calls  *)
(* is not bounded, and an acknowledgement leaves with the next call only.  *)
(* With Late a timeout may therefore strike whenever nothing has arrived;  *)
(* without it the applications are prompt and a timeout strikes only when  *)
(* neither end has anything left to read or do.                            *)
(***************************************************************************)
EXTENDS XModemSend, XModemRecv

CONSTANT Late

ASSUME LateAssumption == Late \in BOOLEAN

vars == <<lineVars, sendVars, recvVars>>

Init == LineInit /\ SendOpen /\ RecvInit

SenderIdle == sres # "run" \/ (bwd = <<>> /\ spc \in {"sync", "reply"})
ReceiverIdle == rres # "run" \/ (fwd = <<>> /\ rpc \in {"hunt", "body"})

Sender ==
    /\ SendCall \/ SendPkt
    /\ UNCHANGED recvVars
SenderTimeout ==
    /\ Late \/ ReceiverIdle
    /\ SendTimeout
    /\ UNCHANGED recvVars
Receiver ==
    /\ RecvLoop \/ RecvPkt
    /\ UNCHANGED sendVars
ReceiverTimeout ==
    /\ Late \/ SenderIdle
    /\ RecvTimeout
    /\ UNCHANGED sendVars

\* What need not happen: a cancelled session, an error of the device.
Abort ==
    \/ (SendCancel \/ SendIoError) /\ UNCHANGED recvVars
    \/ (RecvCancel \/ RecvIoError) /\ UNCHANGED sendVars

\* Both sessions have ended.
Ended ==
    /\ sres # "run" /\ spc = "app" /\ rres # "run" /\ rpc = "app"
    /\ UNCHANGED vars

Next ==
    \/ Sender \/ SenderTimeout \/ Receiver \/ ReceiverTimeout \/ Abort \/ Ended

Spec == Init /\ [][Next]_vars

\* An application goes on calling until its session ends, and a wait ends
\* with a byte or with a timeout.
Fairness ==
    /\ WF_vars(Sender) /\ WF_vars(SenderTimeout)
    /\ WF_vars(Receiver) /\ WF_vars(ReceiverTimeout)
FairSpec == Spec /\ Fairness

-----------------------------------------------------------------------------

TypeOK == LineTypeOK /\ SendTypeOK /\ RecvTypeOK

Got(i) == \E n \in 1 .. Len(got) : got[n] = i

\* The receiving application gets the items in the order in which the
\* sending one handed them over, and none twice, whatever retransmissions
\* and stray bytes do (recv.c:193-210).
InOrder ==
    \A m, n \in 1 .. Len(got) : m < n => Before(got[m], got[n])

\* What the application got of a file is an initial piece of it, header
\* first: nothing is skipped although an acknowledgement may answer a packet
\* it was not meant for (recv.c:193-210, send.c:184-187).
NoGap ==
    \A n \in 1 .. Len(got) :
        LET f == got[n][1]  b == got[n][2]
        IN b > (IF Y THEN 0 ELSE 1) => n > 1 /\ got[n - 1] = <<f, b - 1>>

Damaged == rres \in {"failed", "cancelled"} \/ rpc = "flush"

\* A block the sender counts as acknowledged and has discarded has been
\* delivered, is still on its way, or the receiver has found the transfer
\* damaged and will say so (send.c:184-187, 317).
AckedIsSafe ==
    \A f \in 1 .. NFiles, b \in 1 .. NBlocks :
        Before(<<f, b>>, Item) =>
            \/ Got(<<f, b>>)
            \/ \E n \in 1 .. Len(fwd) :
                 fwd[n].kind = "PKT" /\ fwd[n].item = <<f, b>>
            \/ Damaged

\* A block the sender counts as acknowledged has been delivered.
AckedIsDelivered ==
    \A f \in 1 .. NFiles, b \in 1 .. NBlocks :
        Before(<<f, b>>, Item) => Got(<<f, b>>)

\* The receiver goes on to the next header, the null header that ends the
\* batch included, only after every block of the file before it: noise never
\* makes it report a truncated file as complete (recv.c:111-123, 212-215).
HeaderAfterWholeFile ==
    \A n \in 1 .. Len(got) :
        LET f == got[n][1]
        IN got[n][2] = 0 /\ f > 1 => n > 1 /\ got[n - 1] = <<f - 1, NBlocks>>

\* What an XMODEM receiver delivers: the blocks from the second one on,
\* because the sender numbers from 0 and the receiver from 1 (send.c:235,
\* recv.c:336).  With prompt applications and fewer retries than numbers: each
\* time-out of the receiver repeats the last acknowledgement (recv.c:237).
AllButFirst == \A n \in 1 .. Len(got) : got[n] = <<1, n + 1>>

\* The application never gets more than the header declared (recv.c:219-221).
WithinDeclared == pktno > 0 => count <= fsize

\* A packet taken for a retransmission is one the application already has
\* (recv.c:193-197).
DuplicateWasGot == [][RecvDuplicate => Got(Head(fwd).item)]_vars

\* Both sessions end, whatever the line does: no end waits for ever.
Terminates == <>(sres # "run" /\ rres # "run" /\ spc = "app" /\ rpc = "app")

\* Between prompt applications over a line without faults a transfer that
\* nobody cancels succeeds at both ends.
Succeeds ==
    [](sres # "cancelled" /\ rres # "cancelled")
        => <>(sres = "done" /\ rres \in {"done", "eof"})

Transfer == INSTANCE FileTransfer WITH
    offered <- Item,
    open <- (rres = "run"),
    Named <- Y
Refines == Transfer!Spec
=============================================================================

---------------------------- MODULE XModemSend ----------------------------
(***************************************************************************)
(* The sending side, xymodem_send.c.  The application opens a session and  *)
(* then, for each file, calls xmodem_send_start (YMODEM), xmodem_send_loop *)
(* and xmodem_send_eot, and xmodem_send_close after the last one.  Every   *)
(* call hands one packet to xmodem_send_pkt, whose waits on the line are   *)
(* the steps of this module.  After a call has failed the application      *)
(* cancels the transfer or just stops.                                     *)
(***************************************************************************)
EXTENDS XModemLine

CONSTANTS
    SyncMax,    \* 20: timeouts while waiting for the receiver's first byte
    PktMax,     \* 10: the retry count at which a packet is given up
    FlushMax    \* 10: chunks read by the flush of the error path

ASSUME SendAssumption ==
    /\ SyncMax \in Nat \ {0} /\ PktMax \in Nat \ {0} /\ FlushMax \in Nat \ {0}

\* Beyond the two limits the code tells no retry count from the next, so
\* counting stops here.
RetryCap == SyncMax + PktMax
Bumped_Not(n) == n
Bumped(n) == IF n < RetryCap THEN n + 1 ELSE n

VARIABLES
    sfile, sblk,    \* the item the application sends now or next
    seq,            \* sx->seq
    sstate,         \* sx->state: XMODEM_SEND_IDLE, _CRC or _CKS
    spc,            \* where xmodem_send_pkt waits; "app" outside of it
    sretry,         \* retry, a local of xmodem_send_pkt
    sres            \* how the session stands for the application
sendVars == <<sfile, sblk, seq, sstate, spc, sretry, sres>>

SendTypeOK ==
    /\ sfile \in 1 .. NFiles + 1
    /\ sblk \in 0 .. EotBlk
    /\ seq \in 0 .. SeqMod - 1
    /\ sstate \in {"IDLE", "CRC", "CKS"}
    /\ spc \in {"app", "sync", "tx", "reply", "flush"}
    /\ sretry \in Nat
    /\ sres \in {"run", "done", "failed", "cancelled"}

FirstSeq == IF Y THEN 1 ELSE 0

\* xmodem_send_open; the drain waits for the transmitter, it discards nothing.
SendOpen ==
    /\ sfile = 1
    /\ sblk = IF Y THEN 0 ELSE 1
    /\ seq = FirstSeq
    /\ sstate = "IDLE"
    /\ spc = "app" /\ sretry = 0 /\ sres = "run"

Item == <<sfile, sblk>>

-----------------------------------------------------------------------------
(* The calls of the application, each up to the first wait.                *)

EnterPkt(s) ==
    /\ spc = "app" /\ sres = "run"
    /\ seq' = s
    /\ sretry' = 0
    /\ spc' = IF sstate = "IDLE" THEN "sync" ELSE "tx"
    /\ UNCHANGED <<sfile, sblk, sstate, sres, lineVars>>

SendStart == sblk = 0 /\ sfile <= NFiles /\ EnterPkt(0)
SendLoop  == sblk \in 1 .. NBlocks /\ EnterPkt(seq)
SendEot   == sblk = EotBlk /\ EnterPkt(seq)
SendClose == sblk = 0 /\ sfile = NFiles + 1 /\ EnterPkt(0)

\* xmodem_send_cancel: two CAN bytes and a reset of the session.
SendCancel ==
    /\ spc = "app" /\ sres \in {"run", "failed"}
    /\ fwd' = fwd \o <<[kind |-> "CAN"], [kind |-> "CAN"]>>
    /\ seq' = 0 /\ sstate' = "IDLE"
    /\ sres' = "cancelled"
    /\ UNCHANGED <<sfile, sblk, spc, sretry, bwd>>

-----------------------------------------------------------------------------
(* xmodem_send_pkt.                                                        *)

\* An error return: xmodem_send_eot and xmodem_send_close reset the session
\* whatever the packet's fate, the other calls leave it as it is.
Fail ==
    /\ spc' = "app" /\ sres' = "failed"
    /\ IF sblk = EotBlk
         THEN seq' = FirstSeq /\ sstate' = "IDLE"
         ELSE IF sfile = NFiles + 1
                THEN seq' = 0 /\ sstate' = "IDLE"
                ELSE UNCHANGED <<seq, sstate>>
    /\ UNCHANGED <<sfile, sblk>>

Reads(c) == bwd # <<>> /\ Head(bwd) = c /\ bwd' = Tail(bwd) /\ UNCHANGED fwd

SyncByte ==
    /\ spc = "sync"
    /\ \/ Reads("C") /\ sstate' = "CRC"
       \/ Reads("NAK") /\ sstate' = "CKS"
    /\ spc' = "tx"
    /\ UNCHANGED <<sfile, sblk, seq, sretry, sres>>

SyncIgnore ==
    /\ spc = "sync"
    /\ \E c \in Bytes \ {"C", "NAK", "CAN"} : Reads(c)
    /\ UNCHANGED sendVars

SyncCan == spc = "sync" /\ Reads("CAN") /\ Fail /\ UNCHANGED sretry

SyncTimeout ==
    /\ spc = "sync" /\ bwd = <<>>
    /\ sretry' = Bumped(sretry)
    /\ IF sretry + 1 < SyncMax
         THEN UNCHANGED <<sfile, sblk, seq, sstate, spc, sres>>
         ELSE Fail
    /\ UNCHANGED lineVars

Transmit ==
    /\ spc = "tx"
    /\ LET f == [kind |-> "PKT", seq |-> seq, item |-> Item, cond |-> "good"]
       IN IF sblk = EotBlk THEN PutEot([f EXCEPT !.kind = "EOT"])
                           ELSE PutFrame(f)
    /\ spc' = "reply"
    /\ UNCHANGED <<sfile, sblk, seq, sstate, sretry, sres, bwd>>

\* The packet was acknowledged: what the call that sent it does next.
ReplyAck ==
    /\ spc = "reply" /\ Reads("ACK")
    /\ spc' = "app" /\ UNCHANGED sretry
    /\ \/ /\ sblk = 0 /\ sfile <= NFiles
          /\ sblk' = 1 /\ seq' = (seq + 1) % SeqMod /\ sstate' = "IDLE"
          /\ UNCHANGED <<sfile, sres>>
       \/ /\ sblk \in 1 .. NBlocks
          /\ sblk' = sblk + 1 /\ seq' = (seq + 1) % SeqMod
          /\ UNCHANGED <<sfile, sstate, sres>>
       \/ /\ sblk = EotBlk
          /\ seq' = FirstSeq /\ sstate' = "IDLE"
          /\ IF Y THEN sfile' = sfile + 1 /\ sblk' = 0 /\ UNCHANGED sres
                  ELSE sres' = "done" /\ UNCHANGED <<sfile, sblk>>
       \/ /\ sblk = 0 /\ sfile = NFiles + 1
          /\ seq' = 0 /\ sstate' = "IDLE" /\ sres' = "done"
          /\ UNCHANGED <<sfile, sblk>>

ReplyNak ==
    /\ spc = "reply" /\ Reads("NAK")
    /\ IF sretry + 1 = PktMax
         THEN spc' = "flush" /\ sretry' = 0
         ELSE spc' = "tx" /\ sretry' = Bumped(sretry)
    /\ UNCHANGED <<sfile, sblk, seq, sstate, sres>>

\* CAN, or a byte that is no answer.
ReplyRefused ==
    /\ spc = "reply"
    /\ \E c \in Bytes \ {"ACK", "NAK"} : Reads(c)
    /\ spc' = "flush" /\ sretry' = 0
    /\ UNCHANGED <<sfile, sblk, seq, sstate, sres>>

\* The code tries again only when the count reaches its limit.
ReplyTimeout ==
    /\ spc = "reply" /\ bwd = <<>>
    /\ IF sretry + 1 = PktMax
         THEN spc' = "tx" /\ sretry' = Bumped(sretry)
         ELSE spc' = "flush" /\ sretry' = 0
    /\ UNCHANGED <<sfile, sblk, seq, sstate, sres, lineVars>>

\* One read of the flush takes whatever has arrived.
Flush ==
    /\ spc = "flush" /\ bwd # <<>>
    /\ bwd' = <<>> /\ UNCHANGED fwd
    /\ IF sretry + 1 = FlushMax
         THEN Fail /\ sretry' = 0
         ELSE /\ sretry' = sretry + 1
              /\ UNCHANGED <<sfile, sblk, seq, sstate, spc, sres>>

FlushEnd ==
    /\ spc = "flush" /\ bwd = <<>>
    /\ Fail /\ UNCHANGED <<sretry, lineVars>>

\* serial_send or serial_recv returned an error.
SendIoError ==
    /\ "io" \in Faults
    /\ \/ spc \in {"sync", "tx"} /\ Fail
       \/ /\ spc = "reply"
          /\ spc' = "flush" /\ UNCHANGED <<sfile, sblk, seq, sstate, sres>>
    /\ sretry' = 0
    /\ UNCHANGED lineVars

SendCall == SendStart \/ SendLoop \/ SendEot \/ SendClose
SendPkt ==
    \/ SyncByte \/ SyncIgnore \/ SyncCan
    \/ Transmit \/ ReplyAck \/ ReplyNak \/ ReplyRefused
    \/ Flush \/ FlushEnd
SendTimeout == SyncTimeout \/ ReplyTimeout
=============================================================================

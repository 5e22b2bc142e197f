---------------------------- MODULE XModemRecv ----------------------------
(***************************************************************************)
(* The receiving side, xymodem_recv.c.  The application calls              *)
(* xmodem_recv_loop again and again; each call runs xmodem_recv_pkt until  *)
(* a header or a block is there to return.  The acknowledgement of a block *)
(* is the byte rx->sync, which only the next call puts on the line.        *)
(***************************************************************************)
EXTENDS XModemLine

CONSTANTS
    InitRetry,  \* 30: timeouts allowed until the first data block
    DataRetry,  \* 10: timeouts allowed after each data block
    DeclSize,   \* blocks the header of a file declares
    FileMax     \* XMODEM_FILE_SIZE_MAX, in blocks

ASSUME RecvAssumption ==
    /\ InitRetry \in Nat \ {0} /\ DataRetry \in Nat \ {0}
    /\ DeclSize \in Nat /\ FileMax \in Nat

VARIABLES
    rpc,            \* "app" outside of xmodem_recv_pkt, else where it is
    rmode,          \* rx->xfr_mode, which the fallback changes
    rsync,          \* rx->sync
    rretry,         \* rx->retry
    pktno,          \* rx->pktno
    fsize, count,   \* rx->fsize, rx->count, in blocks
    got,            \* every header and block returned to the application
    rres            \* how the session stands for the application
recvVars == <<rpc, rmode, rsync, rretry, pktno, fsize, count, got, rres>>

RecvTypeOK ==
    /\ rpc \in {"app", "sync", "hunt", "body", "flush"}
    /\ rmode \in {"XMODEM", "YMODEM"}
    /\ rsync \in {"C", "NAK", "ACK"}
    /\ rretry \in Nat
    /\ pktno \in Nat
    /\ fsize \in Nat /\ count \in Nat
    /\ got \in Seq(Items)
    /\ rres \in {"run", "eof", "done", "failed", "cancelled"}

FirstPktno_One(m) == 1
FirstPktno(m) == IF m = "YMODEM" THEN 0 ELSE 1
FirstSync == IF FcsMode = "CRC" THEN "C" ELSE "NAK"

RecvInit ==
    /\ rpc = "app" /\ rres = "run"
    /\ rmode = Mode
    /\ pktno = FirstPktno(Mode)
    /\ rsync = FirstSync
    /\ rretry = InitRetry
    /\ fsize = IF Y THEN 0 ELSE FileMax
    /\ count = 0
    /\ got = <<>>

-----------------------------------------------------------------------------
(* The calls of the application.                                           *)

RecvLoop ==
    /\ rpc = "app" /\ rres = "run"
    /\ rpc' = "sync"
    /\ UNCHANGED <<rmode, rsync, rretry, pktno, fsize, count, got, rres,
                   lineVars>>

RecvCancel ==
    /\ rpc = "app" /\ rres = "run"
    /\ bwd' = bwd \o <<"CAN", "CAN", "CAN">>
    /\ rres' = "cancelled"
    /\ UNCHANGED <<rpc, rmode, rsync, rretry, pktno, fsize, count, got, fwd>>

-----------------------------------------------------------------------------
(* xmodem_recv_pkt.                                                        *)

SendSync ==
    /\ rpc = "sync"
    /\ PutByte(rsync)
    /\ rpc' = "hunt"
    /\ UNCHANGED <<rmode, rsync, rretry, pktno, fsize, count, got, rres, fwd>>

Return(res) == rpc' = "app" /\ rres' = res

\* Too many timeouts or a bad packet: two CAN bytes and an error return.
GiveUp ==
    /\ bwd' = bwd \o <<"CAN", "CAN">>
    /\ Return("failed")

Pop == fwd # <<>> /\ fwd' = Tail(fwd)
Hunts(k) == rpc = "hunt" /\ Pop /\ Head(fwd).kind = k

\* End of a file.  In XMODEM it ends the session; in YMODEM the loop goes on
\* to the next header without returning.
TakeEot ==
    /\ pktno' = FirstPktno(rmode)
    /\ rsync' = FirstSync
    /\ PutByte("ACK")
    /\ IF rmode = "YMODEM" THEN rpc' = "sync" /\ UNCHANGED rres
                           ELSE Return("eof")
    /\ UNCHANGED <<rmode, rretry, fsize, count, got>>

RecvEot == Hunts("EOT") /\ TakeEot

RecvCan ==
    /\ Hunts("CAN") /\ Return("failed")
    /\ UNCHANGED <<rmode, rsync, rretry, pktno, fsize, count, got, bwd>>

Moves(pc) ==
    /\ rpc' = pc
    /\ UNCHANGED <<rmode, rsync, rretry, pktno, fsize, count, got, rres, bwd>>

\* A body without its first byte: bytes of the payload are taken for a
\* header byte, for EOT or CAN, or skipped.
RecvStray ==
    /\ Hunts("STRAY")
    /\ \/ Moves("hunt") \/ Moves("body")
       \/ TakeEot
       \/ /\ Return("failed")
          /\ UNCHANGED <<rmode, rsync, rretry, pktno, fsize, count, got, bwd>>

\* A frame that lost bytes is completed with those of whatever follows it;
\* the result never passes the checks.
RecvShort == Hunts("PKT") /\ Head(fwd).cond = "short" /\ Moves("body")
RecvMore == rpc = "body" /\ Pop /\ (Moves("body") \/ Moves("flush"))
RecvBad_Again == Hunts("PKT") /\ Head(fwd).cond = "bad" /\ Moves("sync")
RecvBad == Hunts("PKT") /\ Head(fwd).cond = "bad" /\ Moves("flush")

HuntsGood == Hunts("PKT") /\ Head(fwd).cond = "good"
IsDuplicate_Unmasked(s) == s < pktno
IsDuplicate(s) == s = (pktno - 1) % SeqMod
IsFallback(s) == pktno = 0 /\ s = 1
IsNext_Later(s) == s >= pktno % SeqMod
IsNext(s) == s = pktno % SeqMod

RecvDuplicate_Returns ==
    /\ HuntsGood /\ IsDuplicate(Head(fwd).seq)
    /\ rsync' = "ACK" /\ got' = Append(got, Head(fwd).item)
    /\ rpc' = "app"
    /\ UNCHANGED <<rmode, rretry, pktno, fsize, count, rres, bwd>>
RecvDuplicate ==
    /\ HuntsGood /\ IsDuplicate(Head(fwd).seq)
    /\ rsync' = "ACK"
    /\ rpc' = "sync"
    /\ UNCHANGED <<rmode, rretry, pktno, fsize, count, got, rres, bwd>>

RecvWrong ==
    /\ HuntsGood
    /\ LET s == Head(fwd).seq
       IN ~IsDuplicate(s) /\ ~IsNext(s) /\ ~IsFallback(s)
    /\ Moves("flush")

\* The YMODEM header is acknowledged at once and rsync stays as it was; the
\* null header tells the application that the batch is over.
RecvHeader ==
    /\ HuntsGood
    /\ LET f == Head(fwd)
       IN /\ ~IsDuplicate(f.seq) /\ IsNext(f.seq) /\ pktno = 0
          /\ got' = Append(got, f.item)
          /\ fsize' = IF f.item = NullHeader THEN 0 ELSE DeclSize
          /\ Return(IF f.item = NullHeader THEN "done" ELSE "run")
    /\ PutByte("ACK")
    /\ pktno' = 1 /\ count' = 0
    /\ UNCHANGED <<rmode, rsync, rretry>>

\* Whether anything of a block is within the size of the file.
Room_Off(size) == count <= size
Room(size) == count < size

\* A data block; what exceeds the declared size is cut off, and a block of
\* which nothing is left returns as an end of file.
RecvData ==
    /\ HuntsGood
    /\ LET f == Head(fwd)
           falls == IsFallback(f.seq)
           size == IF falls THEN FileMax ELSE fsize
           mode == IF falls THEN "XMODEM" ELSE rmode
       IN /\ ~IsDuplicate(f.seq)
          /\ falls \/ (IsNext(f.seq) /\ pktno > 0)
          /\ pktno' = pktno + (IF falls THEN 2 ELSE 1)
          /\ fsize' = size /\ rmode' = mode
          /\ IF Room(size)
               THEN /\ count' = count + 1
                    /\ got' = Append(got, f.item)
                    /\ Return("run")
               ELSE /\ UNCHANGED <<count, got>>
                    /\ IF mode = "YMODEM" THEN rpc' = "sync" /\ UNCHANGED rres
                                          ELSE Return("eof")
    /\ rretry' = DataRetry
    /\ rsync' = "ACK"
    /\ UNCHANGED bwd

\* The timeout of the header or of the rest of a packet.
RecvTimeout_PostDecrement ==
    /\ rpc \in {"hunt", "body"} /\ fwd = <<>>
    /\ rretry' = rretry - 1
    /\ IF rretry = 0
         THEN GiveUp
         ELSE rpc' = "sync" /\ UNCHANGED <<rres, bwd>>
    /\ UNCHANGED <<rmode, rsync, pktno, fsize, count, got, fwd>>
RecvTimeout ==
    /\ rpc \in {"hunt", "body"} /\ fwd = <<>>
    /\ rretry' = rretry - 1
    /\ IF rretry' = 0
         THEN GiveUp
         ELSE rpc' = "sync" /\ UNCHANGED <<rres, bwd>>
    /\ UNCHANGED <<rmode, rsync, pktno, fsize, count, got, fwd>>

RecvFlush == rpc = "flush" /\ Pop /\ Moves("flush")
RecvFlushEnd ==
    /\ rpc = "flush" /\ fwd = <<>> /\ GiveUp
    /\ UNCHANGED <<rmode, rsync, rretry, pktno, fsize, count, got, fwd>>

\* serial_send or serial_recv returned an error.
RecvIoError ==
    /\ "io" \in Faults
    /\ \/ rpc \in {"sync", "hunt", "body"} /\ Return("failed") /\ UNCHANGED bwd
       \/ rpc = "flush" /\ GiveUp
    /\ UNCHANGED <<rmode, rsync, rretry, pktno, fsize, count, got, fwd>>

RecvPkt ==
    \/ SendSync \/ RecvEot \/ RecvCan \/ RecvStray
    \/ RecvShort \/ RecvMore \/ RecvBad
    \/ RecvDuplicate \/ RecvWrong \/ RecvHeader \/ RecvData
    \/ RecvFlush \/ RecvFlushEnd
=============================================================================

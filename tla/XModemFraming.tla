--------------------------- MODULE XModemFraming ---------------------------
(***************************************************************************)
(* How bytes become packets and bytes again.  xmodem_send_loop and         *)
(* xmodem_send_eot (xymodem_send.c) collect what the application hands     *)
(* over in sx->pkt.data and pad it; xmodem_recv_loop (xymodem_recv.c) cuts *)
(* the data at the declared size and hands it out in pieces.  Here a       *)
(* packet has its bytes, and the application calls again after a failure,  *)
(* which XYModem leaves out.  Packets may be late or lost, and an ACK has  *)
(* no number: one that answers an earlier transmission is taken for the    *)
(* answer to the current one.  Of the 'C' that ends the sender's first     *)
(* wait only the moment is kept, which is any.                             *)
(***************************************************************************)
EXTENDS Integers, Sequences

CONSTANTS
    Modes,      \* of "XMODEM", "XMODEM_1K", "YMODEM"
    Small, Big, \* 128 and 1024
    NFiles,     \* files of a YMODEM batch
    Lens,       \* lengths of the files
    Chunks,     \* bytes per call of xmodem_send_loop
    Reads,      \* bytes asked for per call of xmodem_recv_loop
    MaxFlush,   \* bytes the flush of the error path may find, up to 1024
    MaxFails,   \* bound: calls that fail
    MaxAhead,   \* bound: packets under way, and answers not yet read
    FileMax     \* XMODEM_FILE_SIZE_MAX

ASSUME FramingAssumption ==
    /\ Modes \subseteq {"XMODEM", "XMODEM_1K", "YMODEM"}
    /\ Small \in Nat \ {0} /\ Big \in Nat /\ Big > 2 * Small
    /\ NFiles \in Nat \ {0} /\ Lens \subseteq Nat /\ FileMax \in Nat
    /\ Chunks \subseteq Nat /\ Reads \subseteq Nat \ {0}
    /\ MaxFlush \in 0 .. Big /\ MaxFails \in Nat /\ MaxAhead \in Nat

VARIABLES
    mode, lens,     \* sx->mode and the lengths of the files
    sbuf,           \* sx->pkt.data
    dlen, seq,      \* sx->data_len, sx->seq
    spc,            \* "app", "loop", "tail" or, within xmodem_send_pkt, "pkt",
                    \*   then "reply"
    idle,           \* sx->state is XMODEM_SEND_IDLE
    job,            \* the packet being sent
    file, next,     \* the application's file and its next byte
    rest,           \* len, a local of xmodem_send_loop
    left, off,      \* data_len and data - pkt.data, locals of xmodem_send_eot
    phase,          \* what the application does next with the file
    fails,          \* history: calls that failed
    blk,            \* history: the number within its file of the next packet to
                    \*   be acknowledged, 0 for a header
    dirty,          \* history: a flush overwrote a packet that will be sent again
    sent,           \* history: payload of the packets acknowledged, per file
    line,           \* the packets under way
    acks,           \* the ACKs that the sender has not read
    rbuf, rlen, rpos,   \* rx->pkt.data, data_len, data_pos
    pktno, fsize, count,
    sync,           \* rx->sync
    calling,        \* whether xmodem_recv_pkt has written sync and reads
    rres,           \* how the session stands for the receiving application
    out,            \* history: the bytes it got, per file
    spoilt,         \* history: what happened to overwritten packets: "sent" if
                    \*   one was acknowledged, "got" if one was received as new
    missed          \* history: whether a packet was lost that had been
                    \*   acknowledged unreceived
sendVars == <<sbuf, dlen, seq, spc, idle, job, file, next, rest, left, off,
              phase, fails, blk, dirty, sent>>
recvVars == <<rbuf, rlen, rpos, pktno, fsize, count, sync, calling, rres, out>>
vars == <<mode, lens, sendVars, line, acks, recvVars, spoilt, missed>>

Y == mode = "YMODEM"
Lesser(a, b) == IF a < b THEN a ELSE b

(***************************************************************************)
(* Byte i of file f is <<f, i>>.  Pad is the zero byte; Text stands for    *)
(* the text of a header, for what malloc left and for flushed bytes.       *)
(***************************************************************************)
Pad == <<0, 0>>
Text == <<0, 1>>
Bytes == {Pad, Text} \cup ((1 .. NFiles) \X Nat)
File(f) == [i \in 1 .. lens[f] |-> <<f, i>>]

DataMax == IF mode = "XMODEM" THEN Small ELSE Big
FirstSeq == IF Y THEN 1 ELSE 0

TypeOK ==
    /\ sbuf \in [1 .. Big -> Bytes]
    /\ dlen \in 0 .. DataMax /\ seq \in 0 .. 255
    /\ spc \in {"app", "loop", "tail", "pkt", "reply", "stop"}
    /\ file \in 1 .. NFiles + 1 /\ next \in Nat /\ rest \in Nat
    /\ left \in 0 .. Big /\ off \in 0 .. Big
    /\ rlen \in 0 .. Len(rbuf) /\ rpos \in 0 .. rlen
    /\ count <= fsize
    /\ fails \in 0 .. MaxFails /\ acks \in Nat

Init ==
    /\ mode \in Modes /\ lens \in [1 .. NFiles -> Lens]
    /\ sbuf = [i \in 1 .. Big |-> Text]
    /\ dlen = 0 /\ seq = FirstSeq
    /\ spc = "app" /\ idle = TRUE
    /\ job = [kind |-> "EOT", seq |-> 0, data |-> <<>>, size |-> 0,
              file |-> 1, blk |-> 0, dirty |-> FALSE]
    /\ file = 1 /\ next = 1 /\ rest = 0 /\ left = 0 /\ off = 0
    /\ phase = IF Y THEN "start" ELSE "data"
    /\ fails = 0 /\ blk = (IF Y THEN 0 ELSE 1) /\ dirty = FALSE
    /\ sent = [f \in 1 .. NFiles |-> <<>>]
    /\ line = <<>> /\ acks = 0
    /\ rbuf = <<>> /\ rlen = 0 /\ rpos = 0
    /\ pktno = IF Y THEN 0 ELSE 1
    /\ fsize = IF Y THEN 0 ELSE FileMax
    /\ count = 0 /\ sync = "C" /\ calling = FALSE /\ rres = "run"
    /\ out = IF Y THEN <<>> ELSE << <<>> >>
    /\ spoilt = {} /\ missed = FALSE

(***************************************************************************)
(* The packet that the receiver waits for: in XMODEM mode the one behind   *)
(* the first, which it takes for a repetition (see XModemRecv).  It is     *)
(* lost for good when the sender is past it and it is not under way.       *)
(***************************************************************************)
Due == IF ~Y THEN <<1, pktno + 1>>
       ELSE IF pktno = 0 THEN <<Len(out) + 1, 0>> ELSE <<Len(out), pktno>>
Missing ==
    /\ rres = "run"
    /\ file > Due[1] \/ (file = Due[1] /\ blk > Due[2])
    /\ \A i \in 1 .. Len(line) : <<line[i].file, line[i].blk>> # Due
Mark == missed' = (missed \/ Missing')

-----------------------------------------------------------------------------
(* The sender.                                                             *)

Payload(buf, n) == SubSeq([i \in 1 .. Big |-> buf[i]], 1, n)

\* xmodem_send_pkt is called.
Send(kind, s, data, size) ==
    /\ job' = [kind |-> kind, seq |-> s, data |-> data, size |-> size,
               file |-> file, blk |-> blk,
               dirty |-> dirty /\ kind \in {"DATA", "TAIL"}]
    /\ spc' = "pkt"
Unsent == UNCHANGED <<mode, lens, idle, file, phase, fails, blk, dirty, sent,
                      line, acks, recvVars, spoilt, missed>>

\* The name, the size and zeros, in a packet of 1024; then nothing is left of
\* the data of the file before.
SendStart ==
    /\ spc = "app" /\ phase = "start" /\ file <= NFiles
    /\ sbuf' = [i \in 1 .. Big |-> IF i = 1 THEN Text ELSE Pad]
    /\ seq' = 0
    /\ Send("HEADER", 0, <<>>, lens[file])
    /\ UNCHANGED <<dlen, next, rest, left, off>> /\ Unsent

\* A call with n more bytes of the file.  After a failure the buffer is full
\* and keeps the bytes taken so far: the application goes on behind them, with
\* an empty call if it likes.
SendLoop ==
    /\ spc = "app" /\ phase = "data"
    /\ \E n \in Chunks :
         /\ next + n - 1 <= lens[file]
         /\ n = 0 => dlen = DataMax
         /\ rest' = n
    /\ spc' = "loop"
    /\ UNCHANGED <<sbuf, dlen, seq, job, next, left, off>> /\ Unsent

\* One turn of its loop: a full buffer is sent.
Fill ==
    /\ spc = "loop"
    /\ LET n == Lesser(rest, DataMax - dlen)
       IN /\ sbuf' = [i \in 1 .. Big |-> IF i \in dlen + 1 .. dlen + n
                                           THEN <<file, next + i - dlen - 1>>
                                           ELSE sbuf[i]]
          /\ dlen' = dlen + n /\ next' = next + n /\ rest' = rest - n
    /\ IF dlen' = DataMax
         THEN Send("DATA", seq, Payload(sbuf', DataMax), 0)
         ELSE spc' = "app" /\ UNCHANGED job
    /\ UNCHANGED <<seq, left, off>> /\ Unsent

\* data_max of xmodem_send_eot.
TailMax(n) == IF ~Y /\ n <= Big - Small THEN Small ELSE DataMax

SendEot ==
    /\ spc = "app" /\ phase = "data" /\ next = lens[file] + 1
    /\ left' = dlen /\ off' = 0
    /\ spc' = "tail"
    /\ UNCHANGED <<sbuf, dlen, seq, job, next, rest>> /\ Unsent

\* The padding follows data, which moves on, but the packet is sent from the
\* beginning of the buffer.
Padded_None(n, max) == sbuf
Padded(n, max) ==
    [i \in 1 .. Big |-> IF i \in off + n + 1 .. off + max THEN Pad ELSE sbuf[i]]

SendTail ==
    /\ spc = "tail"
    /\ IF left = 0
         THEN Send("EOT", 0, <<>>, 0) /\ UNCHANGED <<sbuf, left, off>>
         ELSE LET max == TailMax(dlen)
                  n == Lesser(left, max)
              IN /\ sbuf' = Padded(n, max)
                 /\ Send("TAIL", seq, Payload(sbuf', max), 0)
                 /\ left' = left - n /\ off' = off + n
    /\ UNCHANGED <<dlen, seq, next, rest>> /\ Unsent

SendClose ==
    /\ spc = "app" /\ phase = "start" /\ file = NFiles + 1
    /\ sbuf' = [i \in 1 .. Big |-> Pad]
    /\ seq' = 0
    /\ Send("NULL", 0, <<>>, 0)
    /\ UNCHANGED <<dlen, next, rest, left, off>> /\ Unsent

\* xmodem_send_pkt puts the packet on the line.  In state IDLE it waits for
\* the 'C' before, and drops whatever comes ahead of it.
Transmit ==
    /\ spc = "pkt" /\ Len(line) < MaxAhead
    /\ acks' \in IF idle THEN 0 .. acks ELSE {acks}
    /\ line' = Append(line, job)
    /\ idle' = FALSE /\ spc' = "reply"
    /\ UNCHANGED <<mode, lens, sbuf, dlen, seq, job, file, next, rest, left, off,
                   phase, fails, blk, dirty, sent, recvVars, spoilt, missed>>

\* It does so again on a NAK and at the limit of the time-outs.
TransmitAgain ==
    /\ spc = "reply" /\ Len(line) < MaxAhead
    /\ line' = Append(line, job)
    /\ UNCHANGED <<mode, lens, sendVars, acks, recvVars, spoilt, missed>>

\* What xmodem_send_eot resets, whether its EOT was acknowledged or not.
EotReset == dlen' = 0 /\ seq' = FirstSeq /\ idle' = TRUE /\ dirty' = FALSE
LocalsEnd == left' = 0 /\ off' = 0

\* Any ACK ends the wait; the calling function goes on.
Acked ==
    /\ spc = "reply" /\ acks > 0 /\ acks' = acks - 1
    /\ spoilt' = IF job.dirty THEN spoilt \cup {"sent"} ELSE spoilt
    /\ UNCHANGED <<mode, lens, sbuf, job, rest, fails, line, recvVars>>
    /\ Mark

AckedData_KeepsNumber ==
    /\ job.kind \in {"DATA", "TAIL"}
    /\ sent' = [sent EXCEPT ![file] = @ \o job.data]
    /\ blk' = blk + 1
    /\ seq' = (IF fails = 0 THEN seq + 1 ELSE seq + 2) % 256
    /\ IF job.kind = "DATA"
         THEN /\ dlen' = 0 /\ dirty' = FALSE
              /\ spc' = IF rest > 0 THEN "loop" ELSE "app"
         ELSE UNCHANGED <<dlen, dirty>> /\ spc' = "tail"
    /\ UNCHANGED <<idle, file, next, left, off, phase>>
    /\ Acked
AckedData ==
    /\ job.kind \in {"DATA", "TAIL"}
    /\ sent' = [sent EXCEPT ![file] = @ \o job.data]
    /\ blk' = blk + 1
    /\ seq' = (seq + 1) % 256
    /\ IF job.kind = "DATA"
         THEN /\ dlen' = 0 /\ dirty' = FALSE
              /\ spc' = IF rest > 0 THEN "loop" ELSE "app"
         ELSE UNCHANGED <<dlen, dirty>> /\ spc' = "tail"
    /\ UNCHANGED <<idle, file, next, left, off, phase>>
    /\ Acked

AckedOther_KeepsLength ==
    /\ \/ /\ job.kind = "HEADER"
          /\ seq' = 1 /\ idle' = TRUE /\ blk' = 1
          /\ phase' = "data" /\ spc' = "app"
          /\ UNCHANGED <<dlen, dirty, file, next>>
       \/ /\ job.kind = "EOT"
          /\ seq' = FirstSeq /\ idle' = TRUE /\ UNCHANGED <<dlen, dirty>>
          /\ file' = (IF Y THEN file + 1 ELSE file)
          /\ blk' = IF Y THEN 0 ELSE blk + 1
          /\ next' = 1
          /\ phase' = "start"
          /\ spc' = IF Y THEN "app" ELSE "stop"
    /\ LocalsEnd /\ UNCHANGED sent
    /\ Acked
AckedOther ==
    /\ \/ /\ job.kind = "HEADER"
          /\ seq' = 1 /\ dlen' = 0 /\ idle' = TRUE /\ dirty' = FALSE /\ blk' = 1
          /\ phase' = "data" /\ spc' = "app"
          /\ UNCHANGED <<file, next>>
       \/ /\ job.kind = "EOT"
          /\ EotReset
          /\ file' = (IF Y THEN file + 1 ELSE file)
          /\ blk' = IF Y THEN 0 ELSE blk + 1
          /\ next' = 1
          /\ phase' = "start"
          /\ spc' = IF Y THEN "app" ELSE "stop"
       \/ /\ job.kind = "NULL"
          /\ seq' = 0 /\ dlen' = 0 /\ idle' = TRUE /\ dirty' = FALSE /\ blk' = 1
          /\ spc' = "stop"
          /\ UNCHANGED <<phase, file, next>>
    /\ LocalsEnd /\ UNCHANGED sent
    /\ Acked

\* xmodem_send_pkt fails before it has sent anything, or while it waits for the
\* answer: then the flush reads what arrives into the packet buffer, ACKs
\* among it.  The packet may be lost, still under way, or have been taken.
PktFails ==
    /\ spc \in {"pkt", "reply"} /\ fails < MaxFails
    /\ fails' = fails + 1
    /\ \E n \in IF spc = "pkt" THEN {0} ELSE 0 .. MaxFlush :
         /\ sbuf' = [i \in 1 .. Big |-> IF i <= n THEN Text ELSE sbuf[i]]
         /\ acks' \in IF n = 0 THEN {acks} ELSE 0 .. acks
         /\ IF job.kind = "EOT" THEN EotReset
            ELSE /\ dirty' = (dirty \/ (n > 0 /\ job.kind \in {"DATA", "TAIL"}))
                 /\ UNCHANGED <<dlen, seq, idle>>
    /\ rest' = 0 /\ LocalsEnd
    /\ spc' = "app"
    /\ UNCHANGED <<mode, lens, job, file, next, phase, blk, sent, line, recvVars,
                   spoilt, missed>>

Sender == \/ SendStart \/ SendLoop \/ Fill \/ SendEot \/ SendTail \/ SendClose
          \/ Transmit \/ TransmitAgain \/ AckedData \/ AckedOther

\* A packet is lost, or damaged such that the receiver drops it.
Lose ==
    /\ line # <<>> /\ line' = Tail(line)
    /\ UNCHANGED <<mode, lens, sendVars, acks, recvVars, spoilt>>
    /\ Mark

-----------------------------------------------------------------------------
(* The receiver: the loop of xmodem_recv_loop.                             *)

\* What is left of the last packet is handed out first.
RecvHand ==
    /\ rres = "run" /\ rpos < rlen
    /\ \E max \in Reads :
         LET n == Lesser(rlen - rpos, max)
         IN /\ out' = [out EXCEPT ![Len(out)] = @ \o SubSeq(rbuf, rpos + 1, rpos + n)]
            /\ rpos' = rpos + n
    /\ UNCHANGED <<mode, lens, sendVars, line, acks, rbuf, rlen, pktno, fsize,
                   count, sync, calling, rres, spoilt, missed>>

\* Only then is the next packet received, into the same buffer.  First sync is
\* written, which acknowledges the last packet of data.
Answered(n) == acks' = acks + n /\ acks' <= MaxAhead
RecvCall ==
    /\ rres = "run" /\ rpos = rlen /\ ~calling
    /\ Answered(IF sync = "ACK" THEN 1 ELSE 0)
    /\ calling' = TRUE
    /\ UNCHANGED <<mode, lens, sendVars, line, rbuf, rlen, rpos, pktno, fsize,
                   count, sync, rres, out, spoilt, missed>>

\* It is written again after a time-out.
RecvTimeout ==
    /\ rres = "run" /\ calling /\ sync = "ACK" /\ Answered(1)
    /\ UNCHANGED <<mode, lens, sendVars, line, recvVars, spoilt, missed>>

Takes(kinds) ==
    /\ rres = "run" /\ calling
    /\ line # <<>> /\ Head(line).kind \in kinds
    /\ line' = Tail(line)
    /\ UNCHANGED <<mode, lens, sendVars>>

Numbered == {"HEADER", "NULL", "DATA", "TAIL"}
IsDuplicate(s) == s = (pktno - 1) % 256
IsNext(s) == s = pktno % 256

RecvDuplicate ==
    /\ Takes(Numbered) /\ IsDuplicate(Head(line).seq)
    /\ sync' = "ACK" /\ Answered(1)
    /\ UNCHANGED <<rbuf, rlen, rpos, pktno, fsize, count, calling, rres, out, spoilt>>
    /\ Mark

\* The header names the size; the null header has none.
RecvHeader ==
    /\ Takes({"HEADER", "NULL"}) /\ pktno = 0
    /\ ~IsDuplicate(Head(line).seq) /\ IsNext(Head(line).seq)
    /\ Answered(1) /\ calling' = FALSE
    /\ pktno' = 1 /\ count' = 0 /\ fsize' = Head(line).size
    /\ IF Head(line).kind = "NULL" THEN rres' = "done" /\ UNCHANGED out
                                   ELSE out' = Append(out, <<>>) /\ UNCHANGED rres
    /\ UNCHANGED <<rbuf, rlen, rpos, sync, spoilt>>
    /\ Mark

\* How much of a packet of n bytes belongs to the file.
Cut_Not(n) == n
Cut(n) == IF count + n > fsize THEN fsize - count ELSE n

RecvData ==
    /\ Takes({"DATA", "TAIL"}) /\ pktno # 0
    /\ ~IsDuplicate(Head(line).seq) /\ IsNext(Head(line).seq)
    /\ LET n == Cut(Len(Head(line).data))
       IN /\ rbuf' = Head(line).data
          /\ rlen' = n /\ rpos' = 0
          /\ count' = count + n
          /\ rres' = IF n = 0 /\ ~Y THEN "eof" ELSE rres
    /\ pktno' = pktno + 1
    /\ sync' = "ACK" /\ calling' = FALSE
    /\ spoilt' = IF Head(line).dirty THEN spoilt \cup {"got"} ELSE spoilt
    /\ UNCHANGED <<acks, fsize, out>>
    /\ Mark

\* Data taken for a header, a header taken for data, or the fallback from
\* YMODEM to XMODEM: the session is not followed further.
RecvAstray ==
    /\ Takes(Numbered) /\ ~IsDuplicate(Head(line).seq)
    /\ \/ IsNext(Head(line).seq) /\ (pktno = 0) # (Head(line).kind \in {"HEADER", "NULL"})
       \/ ~IsNext(Head(line).seq) /\ pktno = 0 /\ Head(line).seq = 1
    /\ rres' = "astray"
    /\ UNCHANGED <<acks, rbuf, rlen, rpos, pktno, fsize, count, sync, calling, out,
                   spoilt>>
    /\ Mark

\* "wrong sequence": the packet is dropped, the call fails, and the application
\* calls again if it likes.
RecvWrong ==
    /\ Takes(Numbered)
    /\ ~IsDuplicate(Head(line).seq) /\ ~IsNext(Head(line).seq)
    /\ ~(pktno = 0 /\ Head(line).seq = 1)
    /\ calling' = FALSE
    /\ UNCHANGED <<acks, rbuf, rlen, rpos, pktno, fsize, count, sync, rres, out, spoilt>>
    /\ Mark

RecvEot ==
    /\ Takes({"EOT"})
    /\ pktno' = IF Y THEN 0 ELSE 1
    /\ rres' = IF Y THEN rres ELSE "eof"
    /\ sync' = "C" /\ Answered(1) /\ calling' = FALSE
    /\ UNCHANGED <<rbuf, rlen, rpos, fsize, count, out, spoilt>>
    /\ Mark

Receiver == \/ RecvHand \/ RecvCall \/ RecvTimeout \/ RecvDuplicate \/ RecvHeader
            \/ RecvData \/ RecvAstray \/ RecvWrong \/ RecvEot

Next == Sender \/ PktFails \/ Lose \/ Receiver

Spec == Init /\ [][Next]_vars

-----------------------------------------------------------------------------

\* XMODEM carries one file.
Files == IF Y THEN 1 .. NFiles ELSE {1}

\* XMODEM-1K, and the last bytes of the file are more than a short packet
\* holds and too few for a long one.
LongTail(f) ==
    /\ mode = "XMODEM_1K"
    /\ lens[f] % Big > Small /\ lens[f] % Big <= Big - Small

\* The packets of a file carry its bytes in order, whole, and zeros behind
\* them, however the application cuts the file into calls, and also when it
\* calls again after a failure (xmodem_send_loop, xmodem_send_eot).  Exceptions:
\* a flush of the error path that overwrote a packet before its repetition;
\* and the tail of XMODEM-1K, of which only the beginning is sent.
Framed == "sent" \notin spoilt =>
    \A f \in Files : ~LongTail(f) =>
        /\ \A i \in 1 .. Len(sent[f]) :
               sent[f][i] = IF i <= lens[f] THEN <<f, i>> ELSE Pad
        /\ f < file \/ spc = "stop" => Len(sent[f]) >= lens[f]

\* The bytes an application gets of a file are its first ones, and all of them
\* once the next file begins or the batch is over, whatever size its reads
\* have, and though late ACKs answer for packets that are still under way:
\* padding is cut off, nothing of an earlier packet shows through
\* (xmodem_recv_loop).  Exceptions: an overwritten packet that is received as
\* new, and a packet that is lost once a late ACK has answered for it.
Delivered == Y /\ ~missed /\ "got" \notin spoilt =>
    \A f \in 1 .. Len(out) :
        /\ Len(out[f]) <= lens[f] /\ out[f] = SubSeq(File(f), 1, Len(out[f]))
        /\ f < Len(out) \/ rres = "done" => out[f] = File(f)

\* Late packets, late ACKs and calls made again do not confuse the numbering:
\* as long as no packet is lost that a late ACK has answered for, the receiver
\* meets a repetition or the packet it expects, data for data and a header for
\* a header (the branches for a wrong number and for the fallback to XMODEM,
\* xmodem_recv_pkt, are not taken).
NeverWrong == ~missed =>
    /\ rres # "astray"
    /\ rres = "run" /\ line # <<>> /\ Head(line).kind \in Numbered =>
         IsDuplicate(Head(line).seq) \/ IsNext(Head(line).seq)
=============================================================================

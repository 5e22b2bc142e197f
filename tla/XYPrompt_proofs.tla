-------------------------- MODULE XYPrompt_proofs --------------------------
(***************************************************************************)
(* Transfers between prompt applications, whose timeouts strike only when  *)
(* neither end has anything left to read or do.                            *)
(***************************************************************************)
EXTENDS YModem_proofs

USE DEF Y, EotBlk, NullHeader
USE LineAssumption, SendAssumption, RecvAssumption, LateAssumption

(***************************************************************************)
(* XMODEM.  Every timeout of the receiver repeats its last                 *)
(* acknowledgement, and the sender may take each for the one of a packet   *)
(* that is lost.  The limits of the retries (30 and 10 in the code) keep   *)
(* it from getting a whole round of the numbers (256) ahead.               *)
(***************************************************************************)

LimitsFit ==
    /\ Mode = "XMODEM" /\ ~Late
    /\ InitRetry < SeqMod /\ DataRetry < SeqMod

Running == sres = "run" /\ rres = "run"
Number(b) == (b - 1) % SeqMod

\* Timeouts since the last block, and the greatest block that may have been sent.
Budget == IF pktno = 1 THEN InitRetry ELSE DataRetry
Reach == pktno + 1 + (Budget - rretry)

\* Which end has the turn, unless something is on the line.
SenderHolds == spc = "tx" \/ (spc = "app" /\ sres = "run" /\ sstate # "IDLE")
ReceiverHolds == rpc \in {"app", "sync"}
Count(p) == IF p THEN 1 ELSE 0
OneTurn == Count(SenderHolds) + Count(ReceiverHolds) + Len(fwd) + Len(bwd) <= 1

\* An acknowledgement that the sender has not taken yet.
Answered ==
    \/ \E n \in 1 .. Len(bwd) : bwd[n] = "ACK"
    \/ ReceiverHolds /\ rsync = "ACK"

XNumbers ==
    /\ rmode = "XMODEM" /\ pktno >= 1
    /\ \A n \in 1 .. Len(fwd) :
         IsPkt(fwd[n]) => /\ fwd[n].item[1] = 1 /\ fwd[n].item[2] \in 1 .. NBlocks
                          /\ fwd[n].seq = Number(fwd[n].item[2])
    /\ sfile = 1 /\ sblk >= 1
    /\ spc # "app" \/ sres = "run" => (sblk <= NBlocks => seq = Number(sblk))
    /\ AllButFirst
XLine == rres = "run" =>
    /\ Len(got) = pktno - 1 /\ rretry <= Budget
    /\ \A m, n \in 1 .. Len(fwd) : IsPkt(fwd[m]) /\ IsPkt(fwd[n]) => m = n
    /\ \A n \in 1 .. Len(fwd) :
         IsPkt(fwd[n]) => fwd[n].item[2] \in pktno .. Reach
XTurns == Running =>
    /\ OneTurn
    /\ pktno <= sblk /\ sblk + Count(Answered) <= Reach
    /\ \A n \in 1 .. Len(fwd) :
         IsPkt(fwd[n]) => fwd[n].item[2] = sblk /\ spc \in {"reply", "flush"}
XInv == XNumbers /\ XLine /\ XTurns

LEMMA ModClose ==
    ASSUME NEW a \in Nat, NEW d \in 0 .. SeqMod - 1, (a + d) % SeqMod = a % SeqMod
    PROVE  d = 0
<1> DEFINE q == a \div SeqMod
           r == a % SeqMod
<1>1. q \in Int /\ r \in 0 .. SeqMod - 1 /\ a = SeqMod * q + r /\ SeqMod \in Nat /\ SeqMod > 0
  OBVIOUS
<1> HIDE DEF q
<1>2. CASE r + d < SeqMod
  <2>1. a + d = SeqMod * q + (r + d) /\ r + d \in 0 .. SeqMod - 1
    BY <1>1, <1>2
  <2> HIDE DEF r
  <2>2. (SeqMod * q + (r + d)) % SeqMod = r + d
    BY <1>1, <2>1, ModUnique
  <2>3. r + d = r
    BY <2>1, <2>2 DEF r
  <2>4. QED
    BY <1>1, <2>3
<1>3. CASE ~(r + d < SeqMod)
  <2>1. a + d = SeqMod * (q + 1) + (r + d - SeqMod) /\ r + d - SeqMod \in 0 .. SeqMod - 1
        /\ q + 1 \in Int
    BY <1>1, <1>3
  <2> HIDE DEF r
  <2>2. (SeqMod * (q + 1) + (r + d - SeqMod)) % SeqMod = r + d - SeqMod
    BY <1>1, <2>1, ModUnique
  <2>3. r + d - SeqMod = r
    BY <2>1, <2>2 DEF r
  <2>4. QED
    BY <1>1, <2>3
<1>4. QED
  BY <1>2, <1>3

\* Which of the blocks that may be on their way the receiver takes.
LEMMA WhichBlock ==
    ASSUME TypeInv, LimitsFit, XNumbers, XLine, rres = "run",
           NEW n \in 1 .. Len(fwd), IsPkt(fwd[n])
    PROVE  /\ IsDuplicate(fwd[n].seq) => fwd[n].item[2] = pktno
           /\ IsNext(fwd[n].seq) => fwd[n].item[2] = pktno + 1
           /\ ~IsFallback(fwd[n].seq)
<1> DEFINE b == fwd[n].item[2]
           d == b - pktno
<1>1. /\ pktno \in Nat /\ pktno >= 1 /\ rretry \in Nat /\ rretry >= 1
      /\ b \in pktno .. Reach /\ fwd[n].seq = Number(b) /\ SeqMod \in Nat
  BY DEF TypeInv, TypeOK, RecvTypeOK, Live, XNumbers, XLine
<1>2. Budget \in Nat /\ Budget < SeqMod
  BY DEF Budget, LimitsFit
<1>3. b \in Nat /\ d \in 0 .. SeqMod - 1 /\ b = pktno + d
  BY SMTT(30), <1>1, <1>2 DEF Reach
<1> HIDE DEF b, d
<1>4. ASSUME (b - 1) % SeqMod = (pktno - 1) % SeqMod PROVE b = pktno
  <2>1. pktno - 1 \in Nat /\ (pktno - 1) + d = b - 1
    BY <1>1, <1>3
  <2>2. d = 0
    BY <1>3, <1>4, <2>1, ModClose
  <2>3. QED
    BY <1>1, <1>3, <2>2
<1>5. ASSUME (b - 1) % SeqMod = pktno % SeqMod PROVE b = pktno + 1
  <2>1. CASE d = 0
    <3>1. pktno - 1 \in Nat /\ (pktno - 1) + 1 = pktno /\ b - 1 = pktno - 1
          /\ 1 \in 0 .. SeqMod - 1
      BY <1>1, <1>3, <2>1
    <3>2. 1 = 0
      BY <1>5, <3>1, ModClose
    <3>3. QED
      BY <3>2
  <2>2. CASE d # 0
    <3>1. d - 1 \in 0 .. SeqMod - 1 /\ pktno + (d - 1) = b - 1
      BY <1>1, <1>3, <2>2
    <3>2. d - 1 = 0
      BY <1>1, <1>5, <3>1, ModClose
    <3>3. QED
      BY <1>1, <1>3, <3>1, <3>2
  <2>3. QED
    BY <2>1, <2>2
<1>6. QED
  BY <1>1, <1>4, <1>5 DEF IsDuplicate, IsNext, IsFallback, Number, b

LEMMA ByteLeaves ==
    ASSUME bwd \in Seq(Bytes), NEW c, PutByte(c)
    PROVE  /\ Len(bwd') \in Nat /\ Len(bwd') <= Len(bwd) + 1
           /\ \A n \in 1 .. Len(bwd') :
                \/ n \in 1 .. Len(bwd) /\ bwd'[n] = bwd[n]
                \/ bwd'[n] \in {c, "JUNK"}
<1>1. PICK o \in ByteOutcomes(c) : bwd' = bwd \o o
  BY DEF PutByte
<1>2. o \in {<<>>, <<c>>, <<"JUNK">>}
  BY <1>1, Zenon DEF ByteOutcomes
<1>3. CASE o = <<>>
  BY <1>1, <1>3
<1>4. ASSUME NEW x, o = <<x>>
      PROVE  /\ Len(bwd') = Len(bwd) + 1
             /\ \A n \in 1 .. Len(bwd') : IF n <= Len(bwd) THEN bwd'[n] = bwd[n]
                                                           ELSE bwd'[n] = x
  BY <1>1, <1>4
<1>5. CASE o = <<c>>
  BY <1>4, <1>5
<1>6. CASE o = <<"JUNK">>
  BY <1>4, <1>6
<1>7. QED
  BY <1>2, <1>3, <1>5, <1>6

\* A byte read from the line.
LEMMA ByteRead ==
    ASSUME TypeInv, NEW c, Reads(c)
    PROVE  /\ Len(bwd) >= 1 /\ bwd[1] = c /\ fwd' = fwd /\ Len(bwd') = Len(bwd) - 1
           /\ bwd' \in Seq(Bytes)
           /\ \A n \in 1 .. Len(bwd') : n + 1 \in 1 .. Len(bwd) /\ bwd'[n] = bwd[n + 1]
<1>1. bwd \in Seq(Bytes) /\ bwd # <<>> /\ Head(bwd) = c /\ bwd' = Tail(bwd) /\ fwd' = fwd
  BY DEF Reads, TypeInv, TypeOK, LineTypeOK
<1>2. QED
  BY <1>1

\* A frame taken off the line.
LEMMA FramePopped ==
    ASSUME TypeInv, Pop
    PROVE  /\ Len(fwd) >= 1 /\ fwd[1] = Head(fwd) /\ 1 \in 1 .. Len(fwd)
           /\ fwd' \in Seq(Frames) /\ Len(fwd') = Len(fwd) - 1
           /\ \A n \in 1 .. Len(fwd') : n + 1 \in 1 .. Len(fwd) /\ fwd'[n] = fwd[n + 1]
<1>1. fwd \in Seq(Frames) /\ fwd # <<>> /\ fwd' = Tail(fwd)
  BY DEF Pop, TypeInv, TypeOK, LineTypeOK
<1>2. QED
  BY <1>1

(***************************************************************************)
(* The sender.                                                             *)
(***************************************************************************)

LEMMA XInit == ASSUME LimitsFit PROVE Init => XInv
<1> SUFFICES ASSUME Init PROVE XInv
  OBVIOUS
<1> USE DEF Init, LineInit, SendOpen, RecvInit, LimitsFit
<1>1. /\ fwd = <<>> /\ bwd = <<>> /\ got = <<>> /\ sblk = 1 /\ sfile = 1 /\ seq = 0
      /\ pktno = 1 /\ rmode = "XMODEM" /\ rretry = InitRetry /\ rsync # "ACK"
      /\ ~SenderHolds
  BY DEF FirstSeq, FirstPktno, FirstSync, SenderHolds
<1>2. XNumbers
  BY <1>1 DEF XNumbers, Number, AllButFirst
<1>3. XLine
  BY <1>1 DEF XLine, Budget
<1>4. XTurns
  BY <1>1 DEF XTurns, OneTurn, Count, Answered, Reach, Budget
<1>5. QED
  BY <1>2, <1>3, <1>4 DEF XInv

NoPkt == \A n \in 1 .. Len(fwd) : ~IsPkt(fwd[n])

\* Steps of the sender that stay at the block and put nothing on the line.
LEMMA XSenderStays ==
    ASSUME TypeInv, XInv, UNCHANGED <<fwd, sfile, sblk, recvVars>>,
           spc' # "app" \/ sres' = "run" => seq' = seq /\ (spc # "app" \/ sres = "run"),
           Running' => /\ Running /\ OneTurn' /\ (Answered' => Answered)
                       /\ spc' \in {"reply", "flush"} \/ NoPkt
    PROVE  XInv'
<1> USE DEF XInv, recvVars
<1>1. Budget' = Budget /\ Reach' = Reach
  BY DEF Budget, Reach
<1>2. XNumbers'
  BY DEF XNumbers, AllButFirst
<1>3. XLine'
  BY <1>1 DEF XLine
<1>4. XTurns'
  <2> SUFFICES ASSUME Running' PROVE XTurns'
    BY DEF XTurns
  <2>1. pktno' <= sblk' /\ OneTurn'
    BY DEF XTurns
  <2>2. sblk' + Count(Answered') <= Reach'
    <3>1. sblk + Count(Answered) <= Reach
      BY DEF XTurns
    <3>2. sblk \in Nat /\ Reach \in Int
      <4>1. pktno \in Nat /\ rretry \in Nat /\ sblk \in Nat
        BY DEF TypeInv, TypeOK, RecvTypeOK, SendTypeOK
      <4>2. Budget \in Nat
        BY DEF Budget
      <4>3. QED
        BY <4>1, <4>2 DEF Reach
    <3>3. Answered' => Answered
      OBVIOUS
    <3>4. QED
      BY <1>1, <3>1, <3>2, <3>3 DEF Count
  <2>3. \A n \in 1 .. Len(fwd') :
          IsPkt(fwd'[n]) => fwd'[n].item[2] = sblk' /\ spc' \in {"reply", "flush"}
    BY DEF XTurns, NoPkt
  <2>4. QED
    BY <2>1, <2>2, <2>3 DEF XTurns
<1>5. QED
  BY <1>2, <1>3, <1>4

LEMMA CountIs ==
    ASSUME NEW p \in BOOLEAN PROVE Count(p) \in {0, 1} /\ (Count(p) = 1 <=> p)
  BY DEF Count

\* Whose turn it is when something is on the line, and when nobody holds it.
LEMMA XTurn ==
    ASSUME TypeInv, XInv, Running
    PROVE  /\ Len(fwd) >= 1 => ~SenderHolds /\ ~ReceiverHolds /\ bwd = <<>> /\ Len(fwd) = 1
           /\ Len(bwd) >= 1 => ~SenderHolds /\ ~ReceiverHolds /\ fwd = <<>> /\ Len(bwd) = 1
           /\ SenderHolds => ~ReceiverHolds /\ fwd = <<>> /\ bwd = <<>>
           /\ ReceiverHolds => ~SenderHolds /\ fwd = <<>> /\ bwd = <<>>
           /\ fwd = <<>> => NoPkt
<1>1. fwd \in Seq(Frames) /\ bwd \in Seq(Bytes) /\ Len(fwd) \in Nat /\ Len(bwd) \in Nat
  BY DEF TypeInv, TypeOK, LineTypeOK
<1>2. Count(SenderHolds) + Count(ReceiverHolds) + Len(fwd) + Len(bwd) <= 1
  BY DEF XInv, XTurns, OneTurn
<1>3. (Len(fwd) = 0 => fwd = <<>>) /\ (Len(bwd) = 0 => bwd = <<>>)
  BY <1>1
<1>4. fwd = <<>> => NoPkt
  BY DEF NoPkt
<1>5. /\ Count(SenderHolds) \in {0, 1} /\ (Count(SenderHolds) = 1 <=> SenderHolds)
      /\ Count(ReceiverHolds) \in {0, 1} /\ (Count(ReceiverHolds) = 1 <=> ReceiverHolds)
  <2>1. SenderHolds \in BOOLEAN /\ ReceiverHolds \in BOOLEAN
    BY DEF SenderHolds, ReceiverHolds
  <2>2. QED
    BY <2>1, CountIs
<1>6. ASSUME NEW s \in {0, 1}, NEW r \in {0, 1}, NEW f \in Nat, NEW b \in Nat,
             s + r + f + b <= 1
      PROVE  /\ f >= 1 => s = 0 /\ r = 0 /\ b = 0 /\ f = 1
             /\ b >= 1 => s = 0 /\ r = 0 /\ f = 0 /\ b = 1
             /\ s = 1 => r = 0 /\ f = 0 /\ b = 0
             /\ r = 1 => s = 0 /\ f = 0 /\ b = 0
  BY <1>6
<1>7. /\ Len(fwd) >= 1 => ~SenderHolds /\ ~ReceiverHolds /\ Len(bwd) = 0 /\ Len(fwd) = 1
      /\ Len(bwd) >= 1 => ~SenderHolds /\ ~ReceiverHolds /\ Len(fwd) = 0 /\ Len(bwd) = 1
      /\ SenderHolds => ~ReceiverHolds /\ Len(fwd) = 0 /\ Len(bwd) = 0
      /\ ReceiverHolds => ~SenderHolds /\ Len(fwd) = 0 /\ Len(bwd) = 0
  <2>1. /\ Len(fwd) >= 1 => /\ Count(SenderHolds) = 0 /\ Count(ReceiverHolds) = 0
                             /\ Len(bwd) = 0 /\ Len(fwd) = 1
        /\ Len(bwd) >= 1 => /\ Count(SenderHolds) = 0 /\ Count(ReceiverHolds) = 0
                             /\ Len(fwd) = 0 /\ Len(bwd) = 1
        /\ Count(SenderHolds) = 1 => Count(ReceiverHolds) = 0 /\ Len(fwd) = 0 /\ Len(bwd) = 0
        /\ Count(ReceiverHolds) = 1 => Count(SenderHolds) = 0 /\ Len(fwd) = 0 /\ Len(bwd) = 0
    BY <1>1, <1>2, <1>5, <1>6
  <2>2. /\ Count(SenderHolds) = 0 => ~SenderHolds
        /\ Count(ReceiverHolds) = 0 => ~ReceiverHolds
    BY <1>5
  <2>3. /\ SenderHolds => Count(SenderHolds) = 1
        /\ ReceiverHolds => Count(ReceiverHolds) = 1
    BY <1>5
  <2>4. QED
    BY <2>1, <2>2, <2>3, Zenon
<1>8. QED
  BY <1>3, <1>4, <1>7

LEMMA XCall ==
    ASSUME TypeInv, XInv, LimitsFit, SendCall, UNCHANGED recvVars
    PROVE  XInv'
<1>1. sblk >= 1 /\ sblk \in Nat
  BY DEF XInv, XNumbers, TypeInv, TypeOK, SendTypeOK
<1>2. EnterPkt(seq)
  BY <1>1 DEF SendCall, SendStart, SendLoop, SendEot, SendClose
<1>3. /\ spc = "app" /\ sres = "run" /\ seq' = seq /\ UNCHANGED <<sfile, sblk, sstate, sres, fwd, bwd>>
      /\ spc' = IF sstate = "IDLE" THEN "sync" ELSE "tx"
  BY <1>2 DEF EnterPkt, lineVars
<1>4. ASSUME Running'
      PROVE  Running /\ OneTurn' /\ (Answered' => Answered) /\ NoPkt
  <2>1. Running
    BY <1>3, <1>4 DEF Running, recvVars
  <2>2. SenderHolds' = SenderHolds /\ ReceiverHolds' = ReceiverHolds /\ Answered' = Answered
    BY <1>3 DEF SenderHolds, ReceiverHolds, Answered, recvVars
  <2>3. OneTurn'
    BY <1>3, <2>1, <2>2 DEF XInv, XTurns, OneTurn
  <2>4. NoPkt
    BY <1>3, <2>1 DEF NoPkt, XInv, XTurns
  <2>5. QED
    BY <2>1, <2>2, <2>3, <2>4
<1>5. QED
  BY <1>3, <1>4, XSenderStays

\* A turn that begins when neither end has it and nothing is on the line.
LEMMA XTurnBegins ==
    ASSUME TypeInv, Len(fwd') + Len(bwd') <= 1, Len(fwd') \in Nat, Len(bwd') \in Nat,
           ~ReceiverHolds',
           SenderHolds' => Len(fwd') = 0 /\ Len(bwd') = 0
    PROVE  OneTurn'
<1>1. CASE SenderHolds'
  BY <1>1 DEF OneTurn, Count
<1>2. CASE ~SenderHolds'
  BY <1>2 DEF OneTurn, Count
<1>3. QED
  BY <1>1, <1>2

\* The sender reads a byte and stays at the block.
LEMMA XReads ==
    ASSUME TypeInv, XInv, NEW c, Reads(c), UNCHANGED <<sfile, sblk, recvVars>>,
           spc # "app", spc' # "app" \/ sres' = "run" => seq' = seq,
           Running' => spc' # "app" /\ Running
    PROVE  XInv'
<1>1. /\ Len(bwd) >= 1 /\ bwd[1] = c /\ fwd' = fwd /\ Len(bwd') = Len(bwd) - 1
      /\ bwd' \in Seq(Bytes)
      /\ \A n \in 1 .. Len(bwd') : n + 1 \in 1 .. Len(bwd) /\ bwd'[n] = bwd[n + 1]
  BY ByteRead
<1>2. ASSUME Running'
      PROVE  OneTurn' /\ (Answered' => Answered) /\ NoPkt
  <2>1. /\ ~ReceiverHolds /\ fwd = <<>> /\ Len(bwd) = 1 /\ NoPkt
    BY <1>1, <1>2, XTurn
  <2>2. ~ReceiverHolds' /\ Len(fwd') = 0 /\ Len(bwd') = 0
    BY <1>1, <2>1 DEF ReceiverHolds, recvVars
  <2>3. OneTurn'
    BY <2>2, XTurnBegins
  <2>4. ~Answered'
    BY <2>2 DEF Answered
  <2>5. QED
    BY <2>1, <2>3, <2>4
<1>3. QED
  BY <1>1, <1>2, XSenderStays

LEMMA XSync ==
    ASSUME TypeInv, XInv, LimitsFit, SyncByte \/ SyncIgnore \/ SyncCan, UNCHANGED recvVars
    PROVE  XInv'
<1>1. CASE SyncByte
  <2>1. PICK c : Reads(c)
    BY <1>1 DEF SyncByte
  <2>2. spc # "app" /\ spc' # "app" /\ seq' = seq /\ UNCHANGED <<sfile, sblk, sres>>
    BY <1>1 DEF SyncByte
  <2>3. QED
    BY <2>1, <2>2, XReads DEF Running, recvVars
<1>2. CASE SyncIgnore
  <2>1. PICK c : Reads(c)
    BY <1>2 DEF SyncIgnore
  <2>2. spc # "app" /\ spc' # "app" /\ seq' = seq /\ UNCHANGED <<sfile, sblk, sres>>
    BY <1>2 DEF SyncIgnore, sendVars
  <2>3. QED
    BY <2>1, <2>2, XReads DEF Running, recvVars
<1>3. CASE SyncCan
  <2>1. Reads("CAN") /\ spc # "app" /\ UNCHANGED <<sfile, sblk>> /\ spc' = "app" /\ sres' = "failed"
    BY <1>3 DEF SyncCan, Fail
  <2>2. QED
    BY <2>1, XReads DEF Running
<1>4. QED
  BY <1>1, <1>2, <1>3

LEMMA XReplies ==
    ASSUME TypeInv, XInv, LimitsFit, ReplyNak \/ ReplyRefused, UNCHANGED recvVars
    PROVE  XInv'
<1>1. PICK c : Reads(c)
  BY DEF ReplyNak, ReplyRefused
<1>2. /\ spc # "app" /\ spc' # "app" /\ UNCHANGED <<sfile, sblk, seq, sres>>
  BY DEF ReplyNak, ReplyRefused
<1>3. QED
  BY <1>1, <1>2, XReads DEF Running, recvVars

LEMMA XFlush ==
    ASSUME TypeInv, XInv, LimitsFit, Flush \/ FlushEnd, UNCHANGED recvVars
    PROVE  XInv'
<1>1. /\ spc = "flush" /\ fwd' = fwd /\ bwd' = <<>> /\ UNCHANGED <<sfile, sblk>>
      /\ \/ spc' = "app" /\ sres' = "failed"
         \/ spc' = "flush" /\ UNCHANGED <<seq, sres>>
  BY DEF Flush, FlushEnd, Fail, lineVars
<1>2. ASSUME Running'
      PROVE  /\ Running /\ OneTurn' /\ (Answered' => Answered)
             /\ spc' \in {"reply", "flush"}
  <2>1. Running /\ spc' = "flush" /\ ~SenderHolds' /\ ReceiverHolds' = ReceiverHolds /\ ~SenderHolds
        /\ rsync' = rsync
    BY <1>1, <1>2 DEF Running, SenderHolds, ReceiverHolds, recvVars
  <2>2. Len(fwd') \in Nat /\ Len(bwd') = 0 /\ Len(bwd) \in Nat /\ Len(fwd') = Len(fwd)
    BY <1>1 DEF TypeInv, TypeOK, LineTypeOK
  <2>3. OneTurn'
    BY <2>1, <2>2 DEF XInv, XTurns, OneTurn, Count
  <2>4. Answered' => Answered
    BY <2>1, <2>2 DEF Answered
  <2>5. QED
    BY <1>1, <2>1, <2>3, <2>4
<1>3. QED
  BY <1>1, <1>2, XSenderStays

\* A timeout finds nothing that could be read, if the receiver has no turn.
LEMMA XSenderTimeout ==
    ASSUME TypeInv, XInv, LimitsFit, SenderTimeout
    PROVE  XInv'
<1>1. /\ UNCHANGED recvVars /\ bwd = <<>> /\ UNCHANGED <<fwd, bwd, sfile, sblk>>
      /\ spc \in {"sync", "reply"}
      /\ \/ spc' = "app" /\ sres' = "failed"
         \/ spc' # "app" /\ UNCHANGED <<seq, sres>>
  BY DEF SenderTimeout, SendTimeout, SyncTimeout, ReplyTimeout, Fail, lineVars
<1>2. ASSUME Running'
      PROVE  Running /\ OneTurn' /\ (Answered' => Answered) /\ NoPkt
  <2>1. Running
    BY <1>1, <1>2 DEF Running, recvVars
  <2>2. fwd = <<>> /\ ~ReceiverHolds'
    BY <1>1, <2>1 DEF SenderTimeout, ReceiverIdle, LimitsFit, Running, ReceiverHolds, recvVars
  <2>3. OneTurn'
    BY <1>1, <2>2, XTurnBegins
  <2>4. ~Answered'
    BY <1>1, <2>2 DEF Answered
  <2>5. NoPkt
    BY <2>2 DEF NoPkt
  <2>6. QED
    BY <2>1, <2>3, <2>4, <2>5
<1>3. QED
  BY <1>1, <1>2, XSenderStays

LEMMA XSendIoError ==
    ASSUME TypeInv, XInv, LimitsFit, SendIoError, UNCHANGED recvVars
    PROVE  XInv'
<1>1. /\ spc # "app" /\ UNCHANGED <<fwd, bwd, sfile, sblk>>
      /\ \/ spc' = "app" /\ sres' = "failed"
         \/ spc = "reply" /\ spc' = "flush" /\ UNCHANGED <<seq, sres>>
  BY DEF SendIoError, Fail, lineVars
<1>2. ASSUME Running'
      PROVE  /\ Running /\ OneTurn' /\ (Answered' => Answered)
             /\ spc' \in {"reply", "flush"}
  <2>1. Running /\ ~SenderHolds' /\ ~SenderHolds /\ ReceiverHolds' = ReceiverHolds
        /\ Answered' = Answered /\ spc' = "flush"
    BY <1>1, <1>2 DEF Running, SenderHolds, ReceiverHolds, Answered, recvVars
  <2>2. OneTurn'
    BY <1>1, <2>1 DEF XInv, XTurns, OneTurn, Count
  <2>3. QED
    BY <2>1, <2>2
<1>3. QED
  BY <1>1, <1>2, XSenderStays

\* An acknowledgement takes the sender to the next block, or ends the file.
LEMMA XAcknowledged ==
    ASSUME TypeInv, XInv, LimitsFit, ReplyAck, UNCHANGED recvVars
    PROVE  XInv'
<1> USE DEF recvVars
<1>1. /\ Len(bwd) >= 1 /\ bwd[1] = "ACK" /\ fwd' = fwd /\ Len(bwd') = Len(bwd) - 1
      /\ bwd' \in Seq(Bytes) /\ Reads("ACK") /\ spc = "reply" /\ spc' = "app"
  BY ByteRead DEF ReplyAck
<1>2. sblk \in Nat /\ sblk >= 1 /\ sfile = 1 /\ ~Y /\ SeqMod \in Nat
  BY DEF XInv, XNumbers, TypeInv, TypeOK, SendTypeOK, LimitsFit
<1>3. CASE sblk = EotBlk
  <2>1. sres' = "done" /\ UNCHANGED <<sfile, sblk>>
    BY <1>2, <1>3 DEF ReplyAck
  <2>2. QED
    BY <1>1, <2>1, XReads DEF Running
<1>4. CASE sblk \in 1 .. NBlocks
  <2>1. /\ sblk' = sblk + 1 /\ seq' = (seq + 1) % SeqMod /\ UNCHANGED <<sfile, sstate, sres>>
    BY <1>2, <1>4 DEF ReplyAck
  <2>2. seq' = Number(sblk')
    <3>1. seq = Number(sblk) /\ sblk - 1 \in Nat
      BY <1>1, <1>2, <1>4 DEF XInv, XNumbers
    <3>2. (((sblk - 1) % SeqMod) + 1) % SeqMod = ((sblk - 1) + 1) % SeqMod
      BY <3>1, NextSeq
    <3>3. (sblk - 1) + 1 = sblk /\ (sblk + 1) - 1 = sblk
      BY <1>2
    <3>4. QED
      BY <2>1, <3>1, <3>2, <3>3 DEF Number
  <2>3. Budget' = Budget /\ Reach' = Reach
    BY DEF Budget, Reach
  <2>4. XNumbers'
    BY <1>1, <1>2, <2>1, <2>2 DEF XInv, XNumbers, AllButFirst
  <2>5. XLine'
    BY <1>1, <2>3 DEF XInv, XLine
  <2>6. XTurns'
    <3> SUFFICES ASSUME Running' PROVE XTurns'
      BY DEF XTurns
    <3>1. Running
      BY <2>1 DEF Running
    <3>2. ~ReceiverHolds /\ fwd = <<>> /\ Len(bwd) = 1 /\ NoPkt
      BY <1>1, <3>1, XTurn
    <3>3. ~ReceiverHolds' /\ Len(fwd') = 0 /\ Len(bwd') = 0
      BY <1>1, <3>2 DEF ReceiverHolds
    <3>4. OneTurn'
      BY <3>3, XTurnBegins
    <3>5. Answered /\ ~Answered'
      BY <1>1, <3>2, <3>3 DEF Answered
    <3>6. pktno <= sblk /\ sblk + Count(Answered) <= Reach /\ pktno \in Nat
      BY <3>1 DEF XInv, XTurns, TypeInv, TypeOK, RecvTypeOK
    <3>7. Count(Answered) = 1 /\ Count(Answered') = 0
      BY <3>5 DEF Count
    <3>8. pktno' <= sblk' /\ sblk' + Count(Answered') <= Reach'
      BY <1>2, <2>1, <2>3, <3>6, <3>7
    <3>9. QED
      BY <3>3, <3>4, <3>8 DEF XTurns
  <2>7. QED
    BY <2>4, <2>5, <2>6 DEF XInv
<1>5. QED
  BY <1>2, <1>3, <1>4 DEF TypeInv, TypeOK, SendTypeOK

\* A frame more on the line.
LEMMA FramePut ==
    ASSUME TypeInv, NEW g, fwd' = fwd \o <<g>>
    PROVE  /\ Len(fwd') = Len(fwd) + 1 /\ Len(fwd) \in Nat
           /\ \A n \in 1 .. Len(fwd') :
                \/ n \in 1 .. Len(fwd) /\ fwd'[n] = fwd[n]
                \/ n = Len(fwd) + 1 /\ fwd'[n] = g
BY DEF TypeInv, TypeOK, LineTypeOK

LEMMA XTransmit ==
    ASSUME TypeInv, XInv, LimitsFit, Transmit, UNCHANGED recvVars
    PROVE  XInv'
<1> USE DEF recvVars
<1> DEFINE f == [kind |-> "PKT", seq |-> seq, item |-> Item, cond |-> "good"]
           e == [f EXCEPT !.kind = "EOT"]
           h == IF sblk = EotBlk THEN e ELSE f
<1>1. spc = "tx" /\ spc' = "reply" /\ UNCHANGED <<sfile, sblk, seq, sstate, sres, bwd>>
      /\ (PutFrame(h) \/ PutEot(h))
  BY DEF Transmit
<1>2. h \in PktFrames /\ h.item = Item /\ h.seq = seq
      /\ h.kind = (IF sblk = EotBlk THEN "EOT" ELSE "PKT")
  BY DEF PktFrames, Item, Items, Conditions, TypeInv, TypeOK, SendTypeOK
<1> HIDE DEF h
<1>3. fwd' = fwd \o <<>> \/ \E g : Arrives(h, g) /\ fwd' = fwd \o <<g>>
  BY <1>1, <1>2, FrameArrives
<1>4. CASE fwd' = fwd \o <<>>
  <2>1. fwd' = fwd
    BY <1>4 DEF TypeInv, TypeOK, LineTypeOK
  <2>2. ASSUME Running' PROVE Running /\ OneTurn' /\ (Answered' => Answered)
    <3>1. Running
      BY <1>1, <2>2 DEF Running
    <3>2. SenderHolds /\ ~ReceiverHolds /\ fwd = <<>> /\ bwd = <<>>
      BY <1>1, <3>1, XTurn DEF SenderHolds
    <3>3. ~ReceiverHolds' /\ Len(fwd') = 0 /\ Len(bwd') = 0
      BY <1>1, <2>1, <3>2 DEF ReceiverHolds
    <3>4. QED
      BY <1>1, <3>1, <3>3, XTurnBegins DEF Answered
  <2>3. QED
    BY <1>1, <2>1, <2>2, XSenderStays
<1>5. ASSUME NEW g, Arrives(h, g), fwd' = fwd \o <<g>> PROVE XInv'
  <2>1. g.item = Item /\ g.seq = seq /\ (IsPkt(g) => sblk # EotBlk)
    BY <1>2, <1>5 DEF Arrives, IsPkt
  <2>2. /\ sres = "run" /\ sblk \in Nat /\ sblk >= 1 /\ sfile = 1 /\ sblk <= EotBlk
        /\ pktno \in Nat
    BY <1>1 DEF TypeInv, Live, TypeOK, SendTypeOK, RecvTypeOK, XInv, XNumbers
  <2>3. /\ Len(fwd') = Len(fwd) + 1 /\ Len(fwd) \in Nat
        /\ \A n \in 1 .. Len(fwd') :
             \/ n \in 1 .. Len(fwd) /\ fwd'[n] = fwd[n]
             \/ n = Len(fwd) + 1 /\ fwd'[n] = g
    BY <1>5, FramePut
  <2>4. IsPkt(g) => g.item[1] = 1 /\ g.item[2] = sblk /\ sblk \in 1 .. NBlocks
                    /\ g.seq = Number(sblk)
    BY <1>1, <2>1, <2>2 DEF Item, XInv, XNumbers
  <2>5. XNumbers'
    BY <1>1, <2>3, <2>4 DEF XInv, XNumbers, AllButFirst
  <2>6. Budget' = Budget /\ Reach' = Reach
    BY DEF Budget, Reach
  <2>7. ASSUME rres = "run"
        PROVE  /\ Running /\ fwd = <<>> /\ bwd = <<>> /\ ~ReceiverHolds /\ Len(fwd') = 1
               /\ pktno <= sblk /\ sblk + Count(Answered) <= Reach
    <3>1. Running
      BY <2>2, <2>7 DEF Running
    <3>2. QED
      BY <1>1, <2>3, <3>1, XTurn DEF SenderHolds, XInv, XTurns
  <2>8. rres = "run" => sblk <= Reach
    <3> SUFFICES ASSUME rres = "run" PROVE sblk <= Reach
      OBVIOUS
    <3>1. Reach \in Int /\ Count(Answered) \in {0, 1}
      BY <2>2 DEF Reach, Budget, Count, TypeInv, TypeOK, RecvTypeOK
    <3>2. QED
      BY <2>2, <2>7, <3>1
  <2>9. XLine'
    <3> SUFFICES ASSUME rres = "run" PROVE XLine'
      BY DEF XLine
    <3>1. \A n \in 1 .. Len(fwd') : n = 1 /\ fwd'[n] = g
      BY <2>3, <2>7
    <3>2. Reach \in Int
      BY <2>2 DEF Reach, Budget, Count, TypeInv, TypeOK, RecvTypeOK
    <3>3. IsPkt(g) => g.item[2] \in pktno .. Reach
      BY <2>2, <2>4, <2>7, <2>8, <3>2
    <3>4. QED
      BY <2>6, <3>1, <3>3 DEF XInv, XLine
  <2>10. XTurns'
    <3> SUFFICES ASSUME Running' PROVE XTurns'
      BY DEF XTurns
    <3>1. rres = "run"
      BY DEF Running
    <3>2. ~ReceiverHolds' /\ ~SenderHolds' /\ Len(fwd') = 1 /\ Len(bwd') = 0
      BY <1>1, <2>7, <3>1 DEF ReceiverHolds, SenderHolds
    <3>3. OneTurn'
      BY <3>2, XTurnBegins
    <3>4. Answered' = Answered
      BY <1>1, <2>7, <3>1, <3>2 DEF Answered
    <3>5. \A n \in 1 .. Len(fwd') : n = 1 /\ fwd'[n] = g
      BY <2>3, <2>7, <3>1
    <3>6. QED
      BY <1>1, <2>4, <2>6, <2>7, <3>1, <3>3, <3>4, <3>5 DEF XTurns
  <2>11. QED
    BY <2>5, <2>9, <2>10 DEF XInv
<1>6. QED
  BY <1>3, <1>4, <1>5

LEMMA XCancel ==
    ASSUME TypeInv, XInv, LimitsFit, SendCancel, UNCHANGED recvVars
    PROVE  XInv'
<1> USE DEF recvVars
<1>1. /\ sres' = "cancelled" /\ spc' = "app" /\ UNCHANGED <<sfile, sblk>>
      /\ fwd' = fwd \o <<[kind |-> "CAN"], [kind |-> "CAN"]>>
  BY DEF SendCancel
<1>2. /\ Len(fwd) \in Nat
      /\ \A n \in 1 .. Len(fwd') :
           \/ n \in 1 .. Len(fwd) /\ fwd'[n] = fwd[n]
           \/ fwd'[n] = [kind |-> "CAN"]
  BY <1>1 DEF TypeInv, TypeOK, LineTypeOK
<1>3. \A n \in 1 .. Len(fwd') : IsPkt(fwd'[n]) => n \in 1 .. Len(fwd) /\ fwd'[n] = fwd[n]
  BY <1>2 DEF IsPkt
<1>4. Budget' = Budget /\ Reach' = Reach
  BY DEF Budget, Reach
<1>5. XNumbers'
  BY <1>1, <1>3 DEF XInv, XNumbers, AllButFirst
<1>6. XLine'
  BY <1>3, <1>4 DEF XInv, XLine
<1>7. QED
  BY <1>1, <1>5, <1>6 DEF XInv, XTurns, Running

LEMMA XSender ==
    ASSUME TypeInv, XInv, LimitsFit,
           \/ Sender \/ SenderTimeout
           \/ (SendCancel \/ SendIoError) /\ UNCHANGED recvVars
    PROVE  XInv'
BY XCall, XSync, XReplies, XFlush, XSenderTimeout, XSendIoError, XAcknowledged, XTransmit,
   XCancel DEF Sender, SendPkt

(***************************************************************************)
(* The receiver.                                                           *)
(***************************************************************************)

\* What is left on the line was there before, in the same order.
LEMMA Remaining ==
    ASSUME TypeInv, fwd' = fwd \/ Pop
    PROVE  \E k \in {0, 1} : \A n \in 1 .. Len(fwd') :
             n + k \in 1 .. Len(fwd) /\ fwd'[n] = fwd[n + k]
<1>1. CASE fwd' = fwd
  <2>1. Len(fwd) \in Nat
    BY DEF TypeInv, TypeOK, LineTypeOK
  <2>2. \A n \in 1 .. Len(fwd') : n + 0 \in 1 .. Len(fwd) /\ fwd'[n] = fwd[n + 0]
    BY <1>1, <2>1
  <2>3. QED
    BY <2>2
<1>2. CASE Pop
  BY <1>2, FramePopped
<1>3. QED
  BY <1>1, <1>2

\* Steps that end the session.
LEMMA XRecvEnds ==
    ASSUME TypeInv, XInv, UNCHANGED <<sendVars, got, rmode>>, pktno' >= 1,
           fwd' = fwd \/ Pop, rres' # "run"
    PROVE  XInv'
<1> USE DEF sendVars
<1>1. PICK k \in {0, 1} : \A n \in 1 .. Len(fwd') :
        n + k \in 1 .. Len(fwd) /\ fwd'[n] = fwd[n + k]
  BY Remaining
<1>2. \A n \in 1 .. Len(fwd') :
        IsPkt(fwd'[n]) => /\ fwd'[n].item[1] = 1 /\ fwd'[n].item[2] \in 1 .. NBlocks
                          /\ fwd'[n].seq = Number(fwd'[n].item[2])
  BY <1>1 DEF XInv, XNumbers
<1>3. XNumbers'
  BY <1>2 DEF XInv, XNumbers, AllButFirst
<1>4. QED
  BY <1>3 DEF XInv, XLine, XTurns, Running

LEMMA ReachInt == ASSUME TypeInv PROVE Reach \in Int /\ pktno \in Nat /\ sblk \in Nat
                                       /\ Budget \in Nat /\ rretry \in Nat
BY DEF TypeInv, TypeOK, RecvTypeOK, SendTypeOK, Reach, Budget

\* Steps that deliver nothing and go on.
LEMMA XRecvGoes ==
    ASSUME TypeInv, XInv, UNCHANGED <<sendVars, got, rmode, pktno, rres>>,
           fwd' = fwd \/ Pop, rretry' \in Nat, rretry' <= rretry,
           Running' => OneTurn' /\ sblk + Count(Answered') <= Reach'
    PROVE  XInv'
<1> USE DEF sendVars
<1>1. PICK k \in {0, 1} : \A n \in 1 .. Len(fwd') :
        n + k \in 1 .. Len(fwd) /\ fwd'[n] = fwd[n + k]
  BY Remaining
<1>2. XNumbers'
  BY <1>1 DEF XInv, XNumbers, AllButFirst
<1>3. /\ Budget' = Budget /\ Reach' = Reach + (rretry - rretry') /\ rretry \in Nat
      /\ Reach \in Int /\ Budget \in Nat /\ pktno \in Nat /\ Reach' \in Int
  <2>1. Budget' = Budget
    BY DEF Budget
  <2>2. QED
    BY <2>1, ReachInt DEF Reach
<1>4. XLine'
  <2> SUFFICES ASSUME rres = "run" PROVE XLine'
    BY DEF XLine
  <2>1. Len(got') = pktno' - 1 /\ rretry' <= Budget'
    BY <1>3 DEF XInv, XLine
  <2>2. \A m, n \in 1 .. Len(fwd') : IsPkt(fwd'[m]) /\ IsPkt(fwd'[n]) => m = n
    <3> SUFFICES ASSUME NEW m \in 1 .. Len(fwd'), NEW n \in 1 .. Len(fwd'),
                        IsPkt(fwd'[m]), IsPkt(fwd'[n])
                 PROVE  m = n
      OBVIOUS
    <3>1. m + k = n + k
      BY <1>1 DEF XInv, XLine
    <3>2. QED
      BY <3>1
  <2>3. \A n \in 1 .. Len(fwd') : IsPkt(fwd'[n]) => fwd'[n].item[2] \in pktno' .. Reach'
    <3> SUFFICES ASSUME NEW n \in 1 .. Len(fwd'), IsPkt(fwd'[n])
                 PROVE  fwd'[n].item[2] \in pktno' .. Reach'
      OBVIOUS
    <3>1. fwd'[n].item[2] \in pktno .. Reach
      BY <1>1 DEF XInv, XLine
    <3>2. QED
      BY <1>3, <3>1
  <2>4. QED
    BY <2>1, <2>2, <2>3 DEF XLine
<1>5. XTurns'
  <2> SUFFICES ASSUME Running' PROVE XTurns'
    BY DEF XTurns
  <2>1. Running
    BY DEF Running
  <2>2. QED
    BY SMTT(30), <1>1, <2>1 DEF XInv, XTurns
<1>6. QED
  BY <1>2, <1>4, <1>5 DEF XInv

LEMMA CountLess ==
    ASSUME TypeInv, XInv, Running, NEW p, p => Answered
    PROVE  sblk + Count(p) <= Reach
<1>1. sblk + Count(Answered) <= Reach
  BY DEF XInv, XTurns
<1>2. QED
  BY <1>1, ReachInt DEF Count

\* The calls and the acknowledgement they send.
LEMMA XRecvCalls ==
    ASSUME TypeInv, XInv, LimitsFit, RecvLoop \/ SendSync, UNCHANGED sendVars
    PROVE  XInv'
<1>1. rretry \in Nat /\ Budget' = Budget /\ (rretry' = rretry /\ pktno' = pktno => Reach' = Reach)
  BY ReachInt DEF RecvLoop, SendSync, Budget, Reach
<1>2. CASE RecvLoop
  <2>1. /\ UNCHANGED <<got, rmode, pktno, rres, rretry, rsync, fwd, bwd>>
        /\ rpc = "app" /\ rpc' = "sync"
    BY <1>2 DEF RecvLoop, lineVars
  <2>2. ASSUME Running' PROVE OneTurn' /\ sblk + Count(Answered') <= Reach'
    <3>1. Running /\ ReceiverHolds /\ ReceiverHolds' /\ SenderHolds' = SenderHolds
      BY <2>1, <2>2 DEF Running, sendVars, ReceiverHolds, SenderHolds
    <3>2. Answered' => Answered
      BY <2>1, <3>1 DEF Answered
    <3>3. sblk + Count(Answered') <= Reach
      BY <3>1, <3>2, CountLess
    <3>4. OneTurn'
      BY <2>1, <3>1 DEF XInv, XTurns, OneTurn, Count
    <3>5. QED
      BY <1>1, <2>1, <3>3, <3>4
  <2>3. QED
    BY <1>1, <2>1, <2>2, XRecvGoes
<1>3. CASE SendSync
  <2>1. /\ UNCHANGED <<got, rmode, pktno, rres, rretry, rsync, fwd>> /\ PutByte(rsync)
        /\ rpc = "sync" /\ rpc' = "hunt"
    BY <1>3 DEF SendSync
  <2>2. ASSUME Running' PROVE OneTurn' /\ sblk + Count(Answered') <= Reach'
    <3>1. Running /\ ReceiverHolds /\ ~ReceiverHolds' /\ SenderHolds' = SenderHolds
      BY <2>1, <2>2 DEF Running, sendVars, ReceiverHolds, SenderHolds
    <3>2. ~SenderHolds' /\ fwd = <<>> /\ bwd = <<>>
      BY <3>1, XTurn
    <3>3. bwd \in Seq(Bytes)
      BY DEF TypeInv, TypeOK, LineTypeOK
    <3>4. /\ Len(bwd') \in Nat /\ Len(bwd') <= Len(bwd) + 1
          /\ \A n \in 1 .. Len(bwd') :
                \/ n \in 1 .. Len(bwd) /\ bwd'[n] = bwd[n]
                \/ bwd'[n] \in {rsync, "JUNK"}
      BY <2>1, <3>3, ByteLeaves
    <3>5. Len(bwd) = 0 /\ Len(fwd') = 0
      BY <2>1, <3>2
    <3>6. Answered' => Answered
      <4> SUFFICES ASSUME NEW n \in 1 .. Len(bwd'), bwd'[n] = "ACK" PROVE Answered
        BY <3>1 DEF Answered
      <4>1. ~(n \in 1 .. Len(bwd))
        BY <3>5
      <4>2. rsync = "ACK"
        BY <3>4, <4>1
      <4>3. QED
        BY <3>1, <4>2 DEF Answered
    <3>7. OneTurn'
      BY <3>1, <3>2, <3>4, <3>5, XTurnBegins
    <3>8. sblk + Count(Answered') <= Reach
      BY <3>1, <3>6, CountLess
    <3>9. QED
      BY <1>1, <2>1, <3>7, <3>8
  <2>3. QED
    BY <1>1, <2>1, <2>2, XRecvGoes
<1>4. QED
  BY <1>2, <1>3

\* A frame is taken and nothing of it returned.
LEMMA XRecvTakes ==
    ASSUME TypeInv, XInv, LimitsFit, UNCHANGED sendVars, Pop,
           UNCHANGED <<got, rmode, pktno, rres, rretry, bwd>>,
           rpc' \notin {"app", "sync"} \/ (Running => sblk = pktno)
    PROVE  XInv'
<1>1. /\ rretry \in Nat /\ Budget' = Budget /\ Reach' = Reach /\ sblk \in Nat
      /\ pktno \in Nat /\ Budget \in Nat
  BY ReachInt DEF Budget, Reach
<1>2. ASSUME Running' PROVE OneTurn' /\ sblk + Count(Answered') <= Reach'
  <2>1. Running
    BY <1>2 DEF Running, sendVars
  <2>2. /\ Len(fwd) >= 1 /\ Len(fwd') = Len(fwd) - 1
    BY FramePopped
  <2>3. ~SenderHolds /\ bwd = <<>> /\ Len(fwd) = 1
    BY <2>1, <2>2, XTurn
  <2>4. ~SenderHolds' /\ Len(bwd') = 0 /\ Len(fwd') = 0
    BY <2>2, <2>3 DEF SenderHolds, sendVars
  <2>5. OneTurn'
    BY <2>4 DEF OneTurn, Count
  <2>6. CASE rpc' \notin {"app", "sync"}
    <3>1. ~Answered'
      BY <2>4, <2>6 DEF Answered, ReceiverHolds
    <3>2. sblk + Count(Answered') <= Reach
      BY <2>1, <3>1, CountLess
    <3>3. QED
      BY <1>1, <2>5, <3>2
  <2>7. CASE sblk = pktno
    <3>1. rretry <= Budget
      BY <2>1 DEF XInv, XLine, Running
    <3>2. Count(Answered') \in {0, 1}
      BY DEF Count
    <3>3. sblk + Count(Answered') <= pktno + 1 + (Budget - rretry)
      BY <1>1, <2>7, <3>1, <3>2
    <3>4. QED
      BY <1>1, <2>5, <3>3 DEF Reach
  <2>8. QED
    BY <2>1, <2>6, <2>7
<1>3. QED
  BY <1>1, <1>2, XRecvGoes

\* The frames that are not a packet, and those that do not pass the checks.
LEMMA XRecvFrame ==
    ASSUME TypeInv, XInv, LimitsFit, UNCHANGED sendVars,
           \/ RecvEot \/ RecvCan \/ RecvStray \/ RecvShort \/ RecvMore \/ RecvBad
           \/ RecvWrong \/ RecvFlush
    PROVE  XInv'
<1>1. pktno >= 1 /\ rmode = "XMODEM"
  BY DEF XInv, XNumbers
<1>2. Pop
  BY DEF RecvEot, RecvCan, RecvStray, RecvShort, RecvMore, RecvBad, RecvWrong, RecvFlush,
         HuntsGood, Hunts
<1>3. ASSUME TakeEot PROVE XInv'
  <2>1. UNCHANGED <<got, rmode>> /\ pktno' = 1 /\ rres' = "eof"
    BY <1>1, <1>3 DEF TakeEot, FirstPktno, Return
  <2>2. QED
    BY <1>2, <2>1, XRecvEnds
<1>4. ASSUME Return("failed"), UNCHANGED <<got, rmode, pktno>> PROVE XInv'
  BY <1>1, <1>2, <1>4, XRecvEnds DEF Return
<1>5. ASSUME NEW pc \in {"hunt", "body", "flush"}, Moves(pc) PROVE XInv'
  BY <1>2, <1>5, XRecvTakes DEF Moves
<1>6. CASE RecvEot
  BY <1>3, <1>6 DEF RecvEot
<1>7. CASE RecvCan
  BY <1>4, <1>7 DEF RecvCan
<1>8. CASE RecvStray
  BY <1>3, <1>4, <1>5, <1>8 DEF RecvStray
<1>9. CASE RecvShort \/ RecvMore \/ RecvBad \/ RecvWrong \/ RecvFlush
  BY <1>5, <1>9 DEF RecvShort, RecvMore, RecvBad, RecvWrong, RecvFlush
<1>10. QED
  BY <1>6, <1>7, <1>8, <1>9

\* A good packet and the number that decides what becomes of it.
LEMMA GoodPacket ==
    ASSUME TypeInv, XInv, HuntsGood
    PROVE  /\ Pop /\ Len(fwd) >= 1 /\ fwd[1] = Head(fwd) /\ 1 \in 1 .. Len(fwd)
           /\ IsPkt(fwd[1]) /\ rres = "run"
<1>1. Pop /\ Head(fwd).kind = "PKT" /\ rpc = "hunt"
  BY DEF HuntsGood, Hunts
<1>2. QED
  BY <1>1, FramePopped DEF IsPkt, TypeInv, Live

LEMMA XRecvDuplicate ==
    ASSUME TypeInv, XInv, LimitsFit, RecvDuplicate, UNCHANGED sendVars
    PROVE  XInv'
<1>1. /\ Pop /\ fwd[1] = Head(fwd) /\ 1 \in 1 .. Len(fwd) /\ IsPkt(fwd[1]) /\ rres = "run"
  BY GoodPacket DEF RecvDuplicate
<1>2. fwd[1].item[2] = pktno
  BY <1>1, WhichBlock DEF RecvDuplicate, XInv
<1>3. Running => sblk = pktno
  BY <1>1, <1>2 DEF XInv, XTurns
<1>4. UNCHANGED <<got, rmode, pktno, rres, rretry, bwd>>
  BY DEF RecvDuplicate
<1>5. QED
  BY <1>1, <1>3, <1>4, XRecvTakes

LEMMA XRecvHeader == ASSUME XInv PROVE ~RecvHeader
BY DEF XInv, XNumbers, RecvHeader

\* A block within the size is the one that was due.
LEMMA XRecvData ==
    ASSUME TypeInv, XInv, LimitsFit, RecvData, UNCHANGED sendVars
    PROVE  XInv'
<1> DEFINE b == fwd[1].item[2]
<1>1. /\ Pop /\ Len(fwd) >= 1 /\ fwd[1] = Head(fwd) /\ 1 \in 1 .. Len(fwd)
      /\ IsPkt(fwd[1]) /\ rres = "run"
  BY GoodPacket DEF RecvData
<1>2. pktno >= 1 /\ rmode = "XMODEM" /\ ~IsFallback(fwd[1].seq)
  BY <1>1, WhichBlock DEF XInv, XNumbers
<1>3. IsNext(fwd[1].seq) /\ b = pktno + 1
  BY <1>1, <1>2, WhichBlock DEF RecvData, XInv
<1>4. rmode' = rmode /\ pktno' = pktno + 1 /\ rretry' = DataRetry
  BY <1>1, <1>2 DEF RecvData
<1>5. CASE ~Room(fsize)
  <2>1. got' = got /\ rres' = "eof"
    BY <1>1, <1>2, <1>5 DEF RecvData, Return
  <2>2. pktno' >= 1
    BY <1>2, <1>4, ReachInt
  <2>3. QED
    BY <1>1, <1>4, <2>1, <2>2, XRecvEnds
<1>6. CASE Room(fsize)
  <2>1. got' = Append(got, fwd[1].item) /\ rres' = "run" /\ bwd' = bwd
    BY <1>1, <1>2, <1>6 DEF RecvData, Return
  <2>2. fwd[1].item = <<1, b>> /\ pktno \in Nat
    <3>1. fwd[1].item \in Items /\ fwd[1].item[1] = 1
      BY <1>1, ItemTypes DEF XInv, XNumbers, Ordered, IsPkt
    <3>2. QED
      BY <3>1, ReachInt DEF Items
  <2>3. Len(got) = pktno - 1 /\ got \in Seq(Items)
    BY <1>1 DEF XInv, XLine, TypeInv, TypeOK, RecvTypeOK
  <2>4. /\ Len(got') = pktno
        /\ \A n \in 1 .. Len(got') :
             \/ n \in 1 .. Len(got) /\ got'[n] = got[n]
             \/ n = pktno /\ got'[n] = <<1, b>>
    BY <2>1, <2>2, <2>3
  <2>5. AllButFirst'
    <3> SUFFICES ASSUME NEW n \in 1 .. Len(got') PROVE got'[n] = <<1, n + 1>>
      BY DEF AllButFirst
    <3>1. CASE n \in 1 .. Len(got) /\ got'[n] = got[n]
      BY <3>1 DEF XInv, XNumbers, AllButFirst
    <3>2. CASE n = pktno /\ got'[n] = <<1, b>>
      BY <1>3, <3>2
    <3>3. QED
      BY <2>4, <3>1, <3>2
  <2>6. /\ Len(fwd') = Len(fwd) - 1 /\ Len(fwd) \in Nat
        /\ \A n \in 1 .. Len(fwd') : n + 1 \in 1 .. Len(fwd) /\ fwd'[n] = fwd[n + 1]
    BY <1>1, FramePopped DEF TypeInv, TypeOK, LineTypeOK
  <2>7. \A n \in 1 .. Len(fwd') : ~IsPkt(fwd'[n])
    <3> SUFFICES ASSUME NEW n \in 1 .. Len(fwd'), IsPkt(fwd'[n]) PROVE FALSE
      OBVIOUS
    <3>1. n + 1 = 1
      BY <1>1, <2>6 DEF XInv, XLine
    <3>2. QED
      BY <3>1
  <2>8. XNumbers'
    <3>1. pktno' >= 1
      BY <1>2, <1>4, <2>2
    <3>2. QED
      BY <1>4, <2>5, <2>7, <3>1 DEF XInv, XNumbers, sendVars
  <2>9. XLine'
    <3>1. Len(got') = pktno' - 1
      BY <1>4, <2>2, <2>4
    <3>2. pktno' # 1
      BY <1>2, <1>4, <2>2
    <3>3. rretry' <= Budget'
      BY <1>4, <3>2 DEF Budget
    <3>4. QED
      BY <2>7, <3>1, <3>3 DEF XLine
  <2>10. XTurns'
    <3> SUFFICES ASSUME Running' PROVE XTurns'
      BY DEF XTurns
    <3>1. Running /\ sblk = b
      BY <1>1 DEF Running, XInv, XTurns, sendVars
    <3>2. ~SenderHolds' /\ Len(bwd') = 0 /\ Len(fwd') = 0
      <4>1. ~SenderHolds /\ bwd = <<>> /\ Len(fwd) = 1
        BY <1>1, <3>1, XTurn
      <4>2. QED
        BY <2>1, <2>6, <4>1 DEF SenderHolds, sendVars
    <3>3. OneTurn'
      BY <3>2 DEF OneTurn, Count
    <3>4. sblk' = pktno'
      BY <1>3, <1>4, <3>1 DEF sendVars
    <3>5. Reach' = pktno' + 1
      <4>1. pktno' # 1
        BY <1>2, <1>4, <2>2
      <4>2. Budget' = DataRetry /\ pktno' \in Nat
        BY <1>4, <2>2, <4>1 DEF Budget
      <4>3. QED
        BY <1>4, <4>2 DEF Reach
    <3>6. pktno' <= sblk' /\ sblk' + Count(Answered') <= Reach'
      <4>1. pktno' \in Nat /\ Count(Answered') \in {0, 1}
        BY <1>4, <2>2 DEF Count
      <4>2. QED
        BY <3>4, <3>5, <4>1
    <3>7. QED
      BY <2>7, <3>3, <3>6 DEF XTurns
  <2>11. QED
    BY <2>8, <2>9, <2>10 DEF XInv
<1>7. QED
  BY <1>5, <1>6

\* A timeout costs a retry, and with it goes at most one block more.
LEMMA XRecvTimeout ==
    ASSUME TypeInv, XInv, LimitsFit, ReceiverTimeout
    PROVE  XInv'
<1>1. /\ UNCHANGED <<sendVars, got, rmode, pktno, rsync, fwd>> /\ fwd = <<>>
      /\ rpc \in {"hunt", "body"} /\ rretry' = rretry - 1
      /\ \/ rres' = "failed"
         \/ rretry' # 0 /\ rpc' = "sync" /\ UNCHANGED <<rres, bwd>>
  BY DEF ReceiverTimeout, RecvTimeout, GiveUp, Return
<1>2. CASE rres' = "failed"
  BY <1>1, <1>2, XRecvEnds DEF XInv, XNumbers
<1>3. CASE rretry' # 0 /\ rpc' = "sync" /\ UNCHANGED <<rres, bwd>>
  <2>1. rretry \in Nat /\ rretry >= 1 /\ rretry' \in Nat /\ rretry' <= rretry
    BY <1>1 DEF TypeInv, TypeOK, RecvTypeOK, Live
  <2>2. Reach' = Reach + 1 /\ Reach \in Int /\ sblk \in Nat
    <3>1. Budget' = Budget
      BY <1>1 DEF Budget
    <3>2. QED
      BY <1>1, <3>1, ReachInt DEF Reach
  <2>3. ASSUME Running' PROVE OneTurn' /\ sblk + Count(Answered') <= Reach'
    <3>1. Running
      BY <1>1, <1>3, <2>3 DEF Running, sendVars
    <3>2. ~SenderHolds' /\ Len(fwd') = 0 /\ Len(bwd') = 0
      BY <1>1, <1>3, <3>1 DEF ReceiverTimeout, SenderIdle, LimitsFit, Running, SenderHolds,
                              sendVars
    <3>3. OneTurn'
      BY <3>2 DEF OneTurn, Count
    <3>4. sblk + Count(FALSE) <= Reach
      BY <3>1, CountLess
    <3>5. QED
      BY <2>2, <3>3, <3>4 DEF Count
  <2>4. QED
    BY <1>1, <1>3, <2>1, <2>3, XRecvGoes
<1>4. QED
  BY <1>1, <1>2, <1>3

LEMMA XRecvAborts ==
    ASSUME TypeInv, XInv, LimitsFit, RecvFlushEnd \/ RecvCancel \/ RecvIoError,
           UNCHANGED sendVars
    PROVE  XInv'
<1>1. UNCHANGED <<got, rmode, pktno, fwd>> /\ rres' \in {"failed", "cancelled"}
  BY DEF RecvFlushEnd, RecvCancel, RecvIoError, GiveUp, Return
<1>2. QED
  BY <1>1, XRecvEnds DEF XInv, XNumbers

LEMMA XReceiver ==
    ASSUME TypeInv, XInv, LimitsFit,
           \/ Receiver \/ ReceiverTimeout
           \/ (RecvCancel \/ RecvIoError) /\ UNCHANGED sendVars
    PROVE  XInv'
BY XRecvCalls, XRecvFrame, XRecvDuplicate, XRecvHeader, XRecvData, XRecvTimeout, XRecvAborts
   DEF Receiver, RecvPkt

LEMMA XStep == ASSUME LimitsFit PROVE TypeInv /\ XInv /\ [Next]_vars => XInv'
<1> SUFFICES ASSUME TypeInv, XInv, [Next]_vars PROVE XInv'
  OBVIOUS
<1>1. CASE UNCHANGED vars
  <2>1. UNCHANGED <<fwd, bwd, sendVars, recvVars>>
    BY <1>1 DEF vars, lineVars
  <2> USE DEF sendVars, recvVars
  <2>2. /\ Budget' = Budget /\ Reach' = Reach /\ Answered' = Answered
        /\ SenderHolds' = SenderHolds /\ ReceiverHolds' = ReceiverHolds
    BY <2>1 DEF Budget, Reach, Answered, SenderHolds, ReceiverHolds
  <2>3. XNumbers' /\ XLine'
    BY <2>1, <2>2 DEF XInv, XNumbers, XLine, AllButFirst
  <2>4. XTurns'
    BY <2>1, <2>2 DEF XInv, XTurns, OneTurn, Running
  <2>5. QED
    BY <2>3, <2>4 DEF XInv
<1>2. CASE Sender \/ SenderTimeout \/ ((SendCancel \/ SendIoError) /\ UNCHANGED recvVars)
  BY <1>2, XSender
<1>3. CASE Receiver \/ ReceiverTimeout \/ ((RecvCancel \/ RecvIoError) /\ UNCHANGED sendVars)
  BY <1>3, XReceiver
<1>4. QED
  BY <1>1, <1>2, <1>3 DEF Next, Abort, Ended

\* What the XMODEM receiver delivers are the blocks from the second one on,
\* each once and in order, whatever the line loses or garbles and whatever
\* number of blocks the file has (send.c:235, recv.c:193-210): between prompt
\* applications and with fewer retries than sequence numbers, as in the code.
THEOREM AllButTheFirst == ASSUME LimitsFit PROVE Spec => []AllButFirst
<1>1. Init => TypeInv /\ XInv
  BY TypeInit, XInit
<1>2. TypeInv /\ XInv /\ [Next]_vars => TypeInv' /\ XInv'
  BY TypeStep, XStep
<1>3. XInv => AllButFirst
  BY DEF XInv, XNumbers
<1>4. QED
  BY <1>1, <1>2, <1>3, PTL DEF Spec

(***************************************************************************)
(* YMODEM over a line without faults.                                      *)
(***************************************************************************)

NoFaults ==
    /\ Y /\ ~Late /\ Faults \subseteq {"io"} /\ NBlocks <= DeclSize

AtBlock == sblk \in 1 .. NBlocks
\* Both ends work and neither is on its way out.
Working == Running /\ spc # "flush" /\ rpc # "flush"
TheFrame ==
    [kind |-> IF sblk = EotBlk THEN "EOT" ELSE "PKT", seq |-> seq, item |-> Item,
     cond |-> "good"]

\* The sender is to wait for the receiver's first byte.
AwaitsSync ==
    /\ spc \in {"app", "sync"} /\ sstate = "IDLE" /\ sblk \in {0, 1}
    /\ rsync = FirstSync /\ pktno = sblk /\ fwd = <<>>
    /\ \/ rpc \in {"app", "sync"} /\ bwd = <<>>
       \/ rpc = "hunt" /\ bwd = <<FirstSync>>
\* It sends its packet.
Sends ==
    /\ sstate # "IDLE" /\ (spc = "tx" \/ (spc = "app" /\ sblk > 0))
    /\ rpc = "hunt" /\ pktno = sblk /\ (sblk = 0 => rsync = FirstSync)
    /\ fwd = <<>> /\ bwd = <<>>
\* The packet is under way.
UnderWay ==
    /\ sstate # "IDLE" /\ spc = "reply"
    /\ rpc = "hunt" /\ pktno = sblk /\ (sblk = 0 => rsync = FirstSync)
    /\ fwd = <<TheFrame>> /\ bwd = <<>>
\* It has been taken; its answer, and a byte that asks for what follows.
BlockTaken ==
    /\ sstate # "IDLE" /\ AtBlock /\ Got(Item) /\ spc = "reply"
    /\ fwd = <<>> /\ rsync = "ACK" /\ pktno = sblk + 1
    /\ \/ rpc \in {"app", "sync"} /\ bwd = <<>>
       \/ rpc = "hunt" /\ bwd = <<"ACK">>
OtherTaken ==
    /\ ~AtBlock /\ spc = "reply" /\ fwd = <<>> /\ rsync = FirstSync
    /\ sblk = 0 => sfile <= NFiles
    /\ pktno = IF sblk = 0 THEN 1 ELSE 0
    /\ \/ rpc \in {"app", "sync"} /\ bwd = <<"ACK">>
       \/ rpc = "hunt" /\ bwd = <<"ACK", FirstSync>>
YPhase == Working => AwaitsSync \/ Sends \/ UnderWay \/ BlockTaken \/ OtherTaken

\* An acknowledgement that the sender may still take for its block's is that.
HasAck == \E n \in 1 .. Len(bwd) : bwd[n] = "ACK"
YAnswer == sres = "run" /\ spc # "flush" =>
    /\ \A m, n \in 1 .. Len(bwd) : bwd[m] = "ACK" /\ bwd[n] = "ACK" => m = n
    /\ AtBlock /\ HasAck => Got(Item)
YInv == YPhase /\ YAnswer /\ AckedIsDelivered

LEMMA ShortSeqs ==
    ASSUME NEW x, NEW y
    PROVE  /\ Head(<<x>>) = x /\ Tail(<<x>>) = <<>> /\ <<x>> # <<>>
           /\ Head(<<x, y>>) = x /\ Tail(<<x, y>>) = <<y>> /\ <<x, y>> # <<>>
           /\ <<>> \o <<x>> = <<x>> /\ <<x>> \o <<y>> = <<x, y>>
<1>1. <<>> \in Seq({x, y}) /\ <<x>> \in Seq({x, y}) /\ <<y>> \in Seq({x, y})
  OBVIOUS
<1>2. <<>> \o <<x>> = <<x>>
  BY <1>1
<1>3. <<x>> \o <<y>> = <<x, y>>
  <2> DEFINE s == <<x>> \o <<y>>
             t == <<x, y>>
  <2>1. s \in Seq({x, y}) /\ Len(s) = 2 /\ s[1] = x /\ s[2] = y
    BY <1>1
  <2>2. t \in Seq({x, y}) /\ Len(t) = 2 /\ t[1] = x /\ t[2] = y
    OBVIOUS
  <2> HIDE DEF s, t
  <2>3. s = t
    BY <2>1, <2>2
  <2>4. QED
    BY <2>3 DEF s, t
<1>4. Head(<<x>>) = x /\ Tail(<<x>>) = <<>> /\ <<x>> # <<>>
  OBVIOUS
<1>5. Head(<<x, y>>) = x /\ Tail(<<x, y>>) = <<y>> /\ <<x, y>> # <<>>
  OBVIOUS
<1>6. QED
  BY <1>2, <1>3, <1>4, <1>5

\* Whatever is put on the line arrives.
LEMMA NothingLost ==
    ASSUME NoFaults, NEW x
    PROVE  /\ PutFrame(x) => fwd' = fwd \o <<x>>
           /\ PutEot(x) => fwd' = fwd \o <<x>>
           /\ PutByte(x) => bwd' = bwd \o <<x>>
<1>1. /\ Faults \cap {"corrupt"} = {} /\ Faults \cap {"truncate"} = {}
      /\ Faults \cap {"behead"} = {} /\ Faults \cap {"lose"} = {}
      /\ Faults \cap {"lose", "corrupt"} = {}
      /\ Faults \cap {"loseByte"} = {} /\ Faults \cap {"garble"} = {}
  BY DEF NoFaults
<1>2. FrameOutcomes(x) = {<<x>>}
  BY <1>1 DEF FrameOutcomes
<1>3. EotOutcomes(x) = {<<x>>}
  BY <1>1 DEF EotOutcomes
<1>4. ByteOutcomes(x) = {<<x>>}
  BY <1>1 DEF ByteOutcomes
<1>5. QED
  BY <1>2, <1>3, <1>4 DEF PutFrame, PutEot, PutByte

LEMMA YInit == ASSUME NoFaults PROVE Init => YInv
<1> SUFFICES ASSUME Init PROVE YInv
  OBVIOUS
<1> USE DEF Init, LineInit, SendOpen, RecvInit, NoFaults
<1>1. AwaitsSync
  BY DEF AwaitsSync, FirstPktno
<1>2. YPhase
  BY <1>1 DEF YPhase
<1>3. YAnswer
  BY DEF YAnswer, HasAck
<1>4. AckedIsDelivered
  BY DEF AckedIsDelivered, Before, Item
<1>5. QED
  BY <1>2, <1>3, <1>4 DEF YInv

\* The sender reads the first byte, sends its packet and reads the answer; a
\* timeout finds it waiting for a receiver that has not finished.
LEMMA YSenderPhase ==
    ASSUME NoFaults, TypeInv, YPhase,
           \/ Sender \/ SenderTimeout
           \/ (SendCancel \/ SendIoError) /\ UNCHANGED recvVars
    PROVE  YPhase'
<1> USE DEF recvVars
<1> SUFFICES ASSUME Working' PROVE (AwaitsSync \/ Sends \/ UnderWay \/ BlockTaken \/ OtherTaken)'
  BY DEF YPhase
<1>1. UNCHANGED recvVars /\ rres = "run" /\ rpc # "flush" /\ sres' = "run" /\ spc' # "flush"
  BY DEF Sender, SenderTimeout, Working, Running
<1>2. (rsync' = rsync /\ pktno' = pktno /\ rpc' = rpc) /\ (\A i : Got(i)' <=> Got(i))
  BY <1>1 DEF Got
<1>3. ASSUME SendCall \/ Transmit \/ SyncByte \/ SyncIgnore \/ SyncCan
      PROVE  /\ spc \in {"app", "sync", "tx"} /\ sres = "run"
             /\ AwaitsSync \/ Sends
  <2>1. spc \in {"app", "sync", "tx"} /\ sres = "run"
    BY <1>3 DEF SendCall, SendStart, SendLoop, SendEot, SendClose, EnterPkt, Transmit,
                SyncByte, SyncIgnore, SyncCan, TypeInv, Live
  <2>2. QED
    BY <1>1, <2>1 DEF YPhase, Working, Running, UnderWay, BlockTaken, OtherTaken
<1>4. CASE SendCall
  <2>1. /\ sblk' = sblk /\ sstate' = sstate /\ fwd' = fwd /\ bwd' = bwd
        /\ spc' = IF sstate = "IDLE" THEN "sync" ELSE "tx"
    BY <1>4 DEF SendCall, SendStart, SendLoop, SendEot, SendClose, EnterPkt, lineVars
  <2>2. QED
    BY <1>2, <1>3, <1>4, <2>1 DEF AwaitsSync, Sends
<1>5. CASE SyncByte
  <2>1. /\ AwaitsSync /\ spc' = "tx" /\ sstate' # "IDLE" /\ sblk' = sblk
        /\ fwd' = fwd /\ bwd # <<>> /\ bwd' = Tail(bwd)
    BY <1>3, <1>5 DEF SyncByte, Reads, Sends
  <2>2. rpc = "hunt" /\ bwd' = <<>>
    BY <2>1, ShortSeqs DEF AwaitsSync
  <2>3. QED
    BY <1>2, <2>1, <2>2 DEF AwaitsSync, Sends
<1>6. ~SyncIgnore /\ ~SyncCan
  <2> SUFFICES ASSUME SyncIgnore \/ SyncCan PROVE FALSE
    OBVIOUS
  <2>1. /\ AwaitsSync /\ bwd # <<>> /\ Head(bwd) \notin {"C", "NAK"}
    BY <1>3 DEF SyncIgnore, SyncCan, Reads, Sends
  <2>2. Head(bwd) = FirstSync
    BY <2>1, ShortSeqs DEF AwaitsSync
  <2>3. QED
    BY <2>1, <2>2 DEF FirstSync
<1>7. CASE Transmit
  <2>1. /\ Sends /\ spc' = "reply" /\ bwd' = bwd /\ UNCHANGED <<sfile, sblk, seq, sstate>>
    BY <1>3, <1>7 DEF Transmit, AwaitsSync
  <2>2. fwd' = fwd \o <<TheFrame>>
    <3> DEFINE f == [kind |-> "PKT", seq |-> seq, item |-> Item, cond |-> "good"]
               e == [f EXCEPT !.kind = "EOT"]
    <3>1. TheFrame = IF sblk = EotBlk THEN e ELSE f
      BY DEF TheFrame
    <3>2. IF sblk = EotBlk THEN PutEot(e) ELSE PutFrame(f)
      BY <1>7 DEF Transmit
    <3> HIDE DEF f, e
    <3>3. QED
      BY <3>1, <3>2, NothingLost
  <2>3. TheFrame' = TheFrame
    BY <2>1 DEF TheFrame, Item
  <2>4. fwd' = <<TheFrame'>>
    BY <2>1, <2>2, <2>3, ShortSeqs DEF Sends
  <2>5. QED
    BY <1>2, <2>1, <2>4 DEF Sends, UnderWay
<1>8. ASSUME ReplyAck \/ ReplyNak \/ ReplyRefused
      PROVE  /\ bwd # <<>> /\ bwd' = Tail(bwd) /\ fwd' = fwd /\ Head(bwd) = "ACK"
             /\ BlockTaken \/ OtherTaken
  <2>1. spc = "reply" /\ sres = "run" /\ bwd # <<>> /\ bwd' = Tail(bwd) /\ fwd' = fwd
    BY <1>8 DEF ReplyAck, ReplyNak, ReplyRefused, Reads, TypeInv, Live
  <2>2. BlockTaken \/ OtherTaken
    BY <1>1, <2>1 DEF YPhase, Working, Running, AwaitsSync, Sends, UnderWay
  <2>3. Head(bwd) = "ACK"
    BY <2>1, <2>2, ShortSeqs DEF BlockTaken, OtherTaken
  <2>4. QED
    BY <2>1, <2>2, <2>3
<1>9. ~ReplyNak /\ ~ReplyRefused
  BY <1>8 DEF ReplyNak, ReplyRefused, Reads
<1>10. CASE ReplyAck
  <2>1. CASE BlockTaken
    <3>1. AtBlock /\ sblk \in Nat /\ sblk # 0 /\ sblk # EotBlk
      BY <2>1 DEF BlockTaken, AtBlock
    <3>2. /\ spc' = "app" /\ sblk' = sblk + 1 /\ sstate' = sstate
      BY <1>10, <3>1 DEF ReplyAck
    <3>3. rpc = "hunt" /\ bwd' = <<>> /\ fwd' = <<>>
      <4>1. bwd # <<>> /\ bwd' = Tail(bwd) /\ fwd' = fwd
        BY <1>8, <1>10
      <4>2. rpc = "hunt" /\ bwd = <<"ACK">> /\ fwd = <<>>
        BY <2>1, <4>1 DEF BlockTaken
      <4>3. QED
        BY <4>1, <4>2, ShortSeqs
    <3>4. sblk' > 0 /\ sblk' # 0
      BY <3>1, <3>2
    <3>5. QED
      BY <1>2, <2>1, <3>2, <3>3, <3>4 DEF BlockTaken, Sends
  <2>2. CASE OtherTaken
    <3>1. sblk \in {0, EotBlk} /\ (sblk = 0 => sfile <= NFiles) /\ sfile \in Nat
      BY <2>2 DEF OtherTaken, AtBlock, TypeInv, TypeOK, SendTypeOK
    <3>2. /\ spc' = "app" /\ sstate' = "IDLE"
          /\ sblk' = IF sblk = 0 THEN 1 ELSE 0
      BY <1>10, <3>1 DEF ReplyAck, NoFaults
    <3>3. /\ fwd' = <<>>
          /\ \/ rpc \in {"app", "sync"} /\ bwd' = <<>>
             \/ rpc = "hunt" /\ bwd' = <<FirstSync>>
      <4>1. bwd' = Tail(bwd) /\ fwd' = fwd
        BY <1>8, <1>10
      <4>2. /\ fwd = <<>>
            /\ \/ rpc \in {"app", "sync"} /\ bwd = <<"ACK">>
               \/ rpc = "hunt" /\ bwd = <<"ACK", FirstSync>>
        BY <2>2 DEF OtherTaken
      <4>3. CASE rpc \in {"app", "sync"} /\ bwd = <<"ACK">>
        BY <4>1, <4>2, <4>3, ShortSeqs
      <4>4. CASE rpc = "hunt" /\ bwd = <<"ACK", FirstSync>>
        BY <4>1, <4>2, <4>4, ShortSeqs
      <4>5. QED
        BY <4>2, <4>3, <4>4
    <3>4. FirstSync' = FirstSync
      BY DEF FirstSync
    <3>5. QED
      BY <1>2, <2>2, <3>2, <3>3, <3>4 DEF OtherTaken, AwaitsSync
  <2>3. QED
    BY <1>8, <1>10, <2>1, <2>2
<1>11. ~SenderTimeout
  <2> SUFFICES ASSUME SenderTimeout PROVE FALSE
    OBVIOUS
  <2>1. /\ sres = "run" /\ bwd = <<>> /\ spc \in {"sync", "reply"}
        /\ fwd = <<>> /\ rpc \in {"hunt", "body"}
    BY <1>1 DEF SenderTimeout, SendTimeout, SyncTimeout, ReplyTimeout, ReceiverIdle, NoFaults,
                TypeInv, Live
  <2>2. AwaitsSync \/ BlockTaken \/ OtherTaken
    BY <1>1, <2>1, ShortSeqs DEF YPhase, Working, Running, Sends, UnderWay
  <2>3. bwd # <<>>
    BY <2>1, <2>2, ShortSeqs DEF AwaitsSync, BlockTaken, OtherTaken
  <2>4. QED
    BY <2>1, <2>3
<1>12. ~(Flush \/ FlushEnd \/ SendCancel \/ SendIoError)
  BY <1>1 DEF Flush, FlushEnd, SendCancel, SendIoError, Fail
<1>13. QED
  BY <1>4, <1>5, <1>6, <1>7, <1>9, <1>10, <1>11, <1>12 DEF Sender, SendPkt

\* The packet on the line is the one the receiver expects.
LEMMA Expected ==
    ASSUME NoFaults, TypeInv, Numbered, Expects, UnderWay, Working
    PROVE  /\ Head(fwd) = TheFrame /\ fwd # <<>> /\ Tail(fwd) = <<>>
           /\ TheFrame.kind = "PKT" => /\ ~IsDuplicate(TheFrame.seq)
                                       /\ IsNext(TheFrame.seq)
                                       /\ ~IsFallback(TheFrame.seq)
                                       /\ sblk \in 0 .. NBlocks
           /\ pktno > 0 /\ TheFrame.kind = "PKT" => Room(fsize) /\ AtBlock
<1>1. Head(fwd) = TheFrame /\ fwd # <<>> /\ Tail(fwd) = <<>>
  BY ShortSeqs DEF UnderWay
<1>2. pktno = sblk /\ sblk \in Nat /\ spc = "reply" /\ rmode = "YMODEM"
  BY DEF UnderWay, TypeInv, TypeOK, SendTypeOK, Expects
<1>3. ASSUME TheFrame.kind = "PKT" PROVE sblk \in 0 .. NBlocks /\ TheFrame.seq = seq
  BY <1>2, <1>3 DEF TheFrame, TypeInv, TypeOK, SendTypeOK
<1>4. sblk \in 0 .. NBlocks => seq = pktno % SeqMod
  <2>1. CASE sblk = 0
    BY <1>2, <2>1, NextSeq DEF Numbered
  <2>2. CASE sblk # 0
    BY <1>2, <2>2 DEF Numbered
  <2>3. QED
    BY <2>1, <2>2
<1>5. ASSUME TheFrame.kind = "PKT"
      PROVE  ~IsDuplicate(seq) /\ IsNext(seq) /\ ~IsFallback(seq)
  <2>1. seq = pktno % SeqMod
    BY <1>3, <1>4, <1>5
  <2>2. pktno % SeqMod # (pktno - 1) % SeqMod
    <3>1. CASE pktno = 0
      <4>1. pktno % SeqMod = 0 /\ (pktno - 1) % SeqMod = SeqMod - 1
        BY <3>1, NextSeq
      <4>2. QED
        BY <4>1
    <3>2. CASE pktno # 0
      <4>1. pktno - 1 \in Nat /\ (pktno - 1) + 1 = pktno
        BY <1>2, <3>2
      <4>2. QED
        BY <4>1, NextSeq
    <3>3. QED
      BY <3>1, <3>2
  <2>3. ~(pktno = 0 /\ seq = 1)
    BY <2>1, NextSeq
  <2>4. QED
    BY <2>1, <2>2, <2>3 DEF IsDuplicate, IsNext, IsFallback
<1>6. ASSUME pktno > 0, TheFrame.kind = "PKT" PROVE Room(fsize) /\ AtBlock
  <2>1. sblk \in 1 .. NBlocks
    BY <1>2, <1>3, <1>6
  <2>2. count = pktno - 1 /\ fsize = DeclSize
    BY <1>6 DEF Expects, Working, Running
  <2>3. QED
    BY <1>2, <2>1, <2>2 DEF Room, AtBlock, NoFaults
<1>7. QED
  BY <1>1, <1>3, <1>5, <1>6

\* The receiver is open for a packet only while one is under way.
LEMMA YHunts ==
    ASSUME YPhase, Working, rpc \in {"hunt", "body"}, fwd # <<>>
    PROVE  UnderWay
BY DEF YPhase, AwaitsSync, Sends, BlockTaken, OtherTaken

LEMMA YCalls ==
    ASSUME NoFaults, TypeInv, YPhase, Working, RecvLoop \/ SendSync, UNCHANGED sendVars
    PROVE  (AwaitsSync \/ BlockTaken \/ OtherTaken)'
<1> USE DEF sendVars
<1>1. /\ rpc \in {"app", "sync"} /\ UNCHANGED <<rsync, pktno, got, fwd>>
      /\ FirstSync' = FirstSync /\ (Got(Item)' <=> Got(Item)) /\ (AtBlock' <=> AtBlock)
  BY DEF RecvLoop, SendSync, lineVars, FirstSync, Got, Item, AtBlock
<1>2. AwaitsSync \/ BlockTaken \/ OtherTaken
  BY <1>1 DEF YPhase, Sends, UnderWay
<1>3. CASE RecvLoop
  <2>1. rpc' = "sync" /\ bwd' = bwd
    BY <1>3 DEF RecvLoop, lineVars
  <2>2. CASE AwaitsSync
    BY <1>1, <2>1, <2>2 DEF AwaitsSync
  <2>3. CASE BlockTaken
    BY <1>1, <2>1, <2>3 DEF BlockTaken
  <2>4. CASE OtherTaken
    BY <1>1, <2>1, <2>4 DEF OtherTaken
  <2>5. QED
    BY <1>2, <2>2, <2>3, <2>4
<1>4. CASE SendSync
  <2>1. rpc' = "hunt" /\ bwd' = bwd \o <<rsync>>
    BY <1>4, NothingLost DEF SendSync
  <2>2. CASE AwaitsSync
    <3>1. bwd = <<>> /\ rsync = FirstSync
      BY <1>1, <2>2 DEF AwaitsSync
    <3>2. bwd' = <<FirstSync>>
      BY <2>1, <3>1, ShortSeqs
    <3>3. QED
      BY <1>1, <2>1, <2>2, <3>2 DEF AwaitsSync
  <2>3. CASE BlockTaken
    <3>1. bwd = <<>> /\ rsync = "ACK"
      BY <1>1, <2>3 DEF BlockTaken
    <3>2. bwd' = <<"ACK">>
      BY <2>1, <3>1, ShortSeqs
    <3>3. QED
      BY <1>1, <2>1, <2>3, <3>2 DEF BlockTaken
  <2>4. CASE OtherTaken
    <3>1. bwd = <<"ACK">> /\ rsync = FirstSync
      BY <1>1, <2>4 DEF OtherTaken
    <3>2. bwd' = <<"ACK", FirstSync>>
      BY <2>1, <3>1, ShortSeqs
    <3>3. QED
      BY <1>1, <2>1, <2>4, <3>2 DEF OtherTaken
  <2>5. QED
    BY <1>2, <2>2, <2>3, <2>4
<1>5. QED
  BY <1>3, <1>4

\* The packet is taken: the end of a file, a header or a block.
LEMMA YTakes ==
    ASSUME NoFaults, TypeInv, Numbered, Expects, YPhase, Working, UNCHANGED sendVars,
           \/ RecvEot \/ RecvCan \/ RecvStray \/ RecvShort \/ RecvBad
           \/ RecvDuplicate \/ RecvWrong \/ RecvHeader \/ RecvData
    PROVE  /\ Running' => (BlockTaken \/ OtherTaken)'
           /\ ~Running' => ~AtBlock /\ bwd' = <<"ACK">>
<1> USE DEF sendVars
<1>1. rpc = "hunt" /\ Pop /\ UnderWay
  <2>1. rpc = "hunt" /\ Pop
    BY DEF RecvEot, RecvCan, RecvStray, RecvShort, RecvBad, RecvDuplicate, RecvWrong,
           RecvHeader, RecvData, HuntsGood, Hunts
  <2>2. QED
    BY <2>1, YHunts DEF Pop
<1>2. /\ Head(fwd) = TheFrame /\ fwd' = <<>>
      /\ spc = "reply" /\ sstate # "IDLE" /\ pktno = sblk /\ bwd = <<>>
      /\ sblk = 0 => rsync = FirstSync
  BY <1>1, Expected DEF Pop, UnderWay
<1>3. /\ TheFrame.kind \in {"PKT", "EOT"} /\ TheFrame.cond = "good" /\ TheFrame.item = Item
      /\ (TheFrame.kind = "EOT" <=> sblk = EotBlk)
      /\ sblk \in 0 .. EotBlk /\ sres = "run" /\ FirstSync' = FirstSync
      /\ sfile \in 1 .. NFiles + 1
  BY DEF TheFrame, TypeInv, TypeOK, SendTypeOK, Working, Running, FirstSync
<1>4. ~RecvCan /\ ~RecvStray /\ ~RecvShort /\ ~RecvBad
  BY <1>2, <1>3 DEF RecvCan, RecvStray, RecvShort, RecvBad, Hunts
<1>5. ~RecvDuplicate /\ ~RecvWrong
  BY <1>1, <1>2, <1>3, Expected DEF RecvDuplicate, RecvWrong, HuntsGood, Hunts
<1>6. bwd \o <<"ACK">> = <<"ACK">>
  BY <1>2, ShortSeqs
<1>7. CASE RecvEot
  <2>1. /\ sblk = EotBlk /\ pktno' = 0 /\ rsync' = FirstSync /\ bwd' = <<"ACK">>
        /\ rpc' = "sync" /\ rres' = rres
    BY <1>2, <1>3, <1>6, <1>7, NothingLost DEF RecvEot, Hunts, TakeEot, FirstPktno, Expects
  <2>2. ~AtBlock' /\ sblk # 0
    BY <2>1 DEF AtBlock
  <2>3. OtherTaken'
    BY <1>2, <1>3, <2>1, <2>2 DEF OtherTaken
  <2>4. QED
    BY <2>1, <2>3 DEF Running, Working
<1>8. CASE RecvHeader
  <2>1. /\ pktno = 0 /\ bwd' = <<"ACK">> /\ pktno' = 1 /\ rsync' = rsync /\ rpc' = "app"
        /\ rres' = IF Item = NullHeader THEN "done" ELSE "run"
    BY <1>2, <1>3, <1>6, <1>8, NothingLost DEF RecvHeader, Return
  <2>2. ~AtBlock /\ ~AtBlock' /\ sblk = 0
    BY <1>2, <2>1 DEF AtBlock
  <2>3. ASSUME Running' PROVE OtherTaken'
    <3>1. sfile <= NFiles
      BY <1>3, <2>1, <2>2, <2>3 DEF Running, Item
    <3>2. QED
      BY <1>2, <1>3, <2>1, <2>2, <3>1 DEF OtherTaken
  <2>4. QED
    BY <2>1, <2>2, <2>3
<1>9. CASE RecvData
  <2>1. /\ TheFrame.kind = "PKT" /\ ~IsFallback(TheFrame.seq) /\ pktno > 0
    BY <1>1, <1>2, <1>9, Expected DEF RecvData, HuntsGood, Hunts
  <2>2. AtBlock /\ Room(fsize)
    BY <1>1, <2>1, Expected
  <2>3. /\ pktno' = pktno + 1 /\ got' = Append(got, Item) /\ rres' = "run" /\ rpc' = "app"
        /\ rsync' = "ACK" /\ bwd' = bwd
    BY <1>2, <1>3, <1>9, <2>1, <2>2 DEF RecvData, Return
  <2>4. Got(Item)'
    <3>1. got \in Seq(Items)
      BY DEF TypeInv, TypeOK, RecvTypeOK
    <3>2. Len(got') \in 1 .. Len(got') /\ got'[Len(got')] = Item
      BY <2>3, <3>1
    <3>3. Item' = Item
      BY DEF Item
    <3>4. QED
      BY <3>2, <3>3 DEF Got
  <2>5. AtBlock'
    BY <2>2 DEF AtBlock
  <2>6. BlockTaken'
    BY <1>2, <2>3, <2>4, <2>5 DEF BlockTaken
  <2>7. QED
    BY <1>3, <2>3, <2>6 DEF Running
<1>10. QED
  BY <1>4, <1>5, <1>7, <1>8, <1>9

\* In every phase the acknowledgement on its way is the one of the block.
LEMMA PhaseAnswers ==
    ASSUME YPhase', Working' PROVE YAnswer'
<1>1. (AwaitsSync \/ Sends \/ UnderWay \/ BlockTaken \/ OtherTaken)'
  BY DEF YPhase
<1>2. FirstSync' # "ACK"
  BY DEF FirstSync
<1>3. CASE (AwaitsSync \/ Sends \/ UnderWay)'
  <2>1. bwd' = <<>> \/ bwd' = <<FirstSync'>>
    BY <1>3 DEF AwaitsSync, Sends, UnderWay
  <2>2. \A n \in 1 .. Len(bwd') : bwd'[n] # "ACK"
    BY <1>2, <2>1
  <2>3. QED
    BY <2>2 DEF YAnswer, HasAck
<1>4. CASE (BlockTaken \/ OtherTaken)'
  <2>1. bwd' = <<>> \/ bwd' = <<"ACK">> \/ bwd' = <<"ACK", FirstSync'>>
    BY <1>4 DEF BlockTaken, OtherTaken
  <2>2. \A n \in 1 .. Len(bwd') : bwd'[n] = "ACK" => n = 1
    BY <1>2, <2>1
  <2>3. AtBlock' => Got(Item)'
    BY <1>4 DEF BlockTaken, OtherTaken
  <2>4. QED
    BY <2>2, <2>3 DEF YAnswer
<1>5. QED
  BY <1>1, <1>3, <1>4

LEMMA CansAnswer ==
    ASSUME TypeInv, YAnswer, UNCHANGED <<sendVars, got>>,
           \/ bwd' = bwd \/ bwd' = bwd \o <<"CAN", "CAN">>
           \/ bwd' = bwd \o <<"CAN", "CAN", "CAN">>
    PROVE  YAnswer'
<1>1. \A n \in 1 .. Len(bwd') : bwd'[n] = "ACK" => n \in 1 .. Len(bwd) /\ bwd[n] = "ACK"
  BY SMTT(30) DEF TypeInv, TypeOK, LineTypeOK
<1>2. (AtBlock' <=> AtBlock) /\ (Got(Item)' <=> Got(Item)) /\ (HasAck' => HasAck)
  BY <1>1 DEF AtBlock, Got, Item, sendVars, HasAck
<1>3. QED
  BY <1>1, <1>2 DEF YAnswer, sendVars

LEMMA YReceiver ==
    ASSUME NoFaults, TypeInv, Numbered, Sound => Expects, YPhase, YAnswer,
           \/ Receiver \/ ReceiverTimeout
           \/ (RecvCancel \/ RecvIoError) /\ UNCHANGED sendVars
    PROVE  YPhase' /\ YAnswer'
<1>0. UNCHANGED sendVars
  BY DEF Receiver, ReceiverTimeout
<1>1. SUFFICES ASSUME sres = "run", spc # "flush" PROVE YPhase' /\ YAnswer'
  BY <1>0 DEF YPhase, YAnswer, Working, Running, sendVars
<1>2. CASE ~Working
  <2>1. rres # "run" \/ rpc = "flush"
    BY <1>1, <1>2 DEF Working, Running
  <2>2. rres # "run" => rpc = "app"
    BY DEF TypeInv, Live
  <2>3. RecvFlush \/ RecvFlushEnd \/ (RecvIoError /\ rpc = "flush")
    BY <2>1, <2>2 DEF Receiver, ReceiverTimeout, RecvPkt, RecvLoop, RecvCancel, SendSync,
          RecvEot, RecvCan, RecvStray, RecvShort, RecvMore, RecvBad, RecvDuplicate, RecvWrong,
          RecvHeader, RecvData, HuntsGood, Hunts, RecvTimeout, RecvFlush, RecvFlushEnd,
          RecvIoError
  <2>4. /\ got' = got /\ (bwd' = bwd \/ bwd' = bwd \o <<"CAN", "CAN">>)
        /\ rpc' = "flush" \/ rres' = "failed"
    BY <2>3 DEF RecvFlush, RecvFlushEnd, RecvIoError, GiveUp, Return, Moves
  <2>5. QED
    BY <1>0, <2>4, CansAnswer DEF YPhase, Working, Running
<1>3. CASE Working
  <2>0. Expects /\ rpc # "flush" /\ rres = "run"
    BY <1>3 DEF Sound, Damaged, Working, Running
  <2>1. CASE RecvLoop \/ SendSync
    <3>1. (AwaitsSync \/ BlockTaken \/ OtherTaken)'
      BY <1>0, <1>3, <2>1, YCalls
    <3>2. Working'
      BY <1>0, <1>3, <2>1 DEF Working, Running, sendVars, RecvLoop, SendSync
    <3>3. YPhase'
      BY <3>1 DEF YPhase
    <3>4. QED
      BY <3>2, <3>3, PhaseAnswers
  <2>2. CASE \/ RecvEot \/ RecvCan \/ RecvStray \/ RecvShort \/ RecvBad
             \/ RecvDuplicate \/ RecvWrong \/ RecvHeader \/ RecvData
    <3>1. /\ Running' => (BlockTaken \/ OtherTaken)'
          /\ ~Running' => ~AtBlock /\ bwd' = <<"ACK">>
      BY <1>0, <1>3, <2>0, <2>2, YTakes
    <3>2. YPhase'
      BY <3>1 DEF YPhase, Working
    <3>3. CASE Running'
      <4>1. Working'
        BY <1>0, <1>1, <3>1, <3>3 DEF Working, BlockTaken, OtherTaken, sendVars
      <4>2. QED
        BY <3>2, <4>1, PhaseAnswers
    <3>4. CASE ~Running'
      <4>1. ~AtBlock' /\ bwd' = <<"ACK">>
        BY <1>0, <3>1, <3>4 DEF AtBlock, sendVars
      <4>2. \A n \in 1 .. Len(bwd') : n = 1
        BY <4>1
      <4>3. QED
        BY <3>2, <4>1, <4>2 DEF YAnswer
    <3>5. QED
      BY <3>3, <3>4
  <2>3. ~RecvMore /\ ~RecvFlush /\ ~RecvFlushEnd
    BY <1>3, <2>0, YHunts DEF RecvMore, Pop, RecvFlush, RecvFlushEnd, UnderWay
  <2>4. ~ReceiverTimeout
    <3> SUFFICES ASSUME ReceiverTimeout PROVE FALSE
      OBVIOUS
    <3>1. rpc \in {"hunt", "body"} /\ fwd = <<>> /\ bwd = <<>> /\ spc \in {"sync", "reply"}
      BY <1>1 DEF ReceiverTimeout, RecvTimeout, SenderIdle, NoFaults
    <3>2. ~Sends /\ ~UnderWay
      BY <3>1, ShortSeqs DEF Sends, UnderWay
    <3>3. ~AwaitsSync /\ ~BlockTaken /\ ~OtherTaken
      BY <3>1, ShortSeqs DEF AwaitsSync, BlockTaken, OtherTaken
    <3>4. QED
      BY <1>3, <3>2, <3>3 DEF YPhase
  <2>5. CASE RecvCancel \/ RecvIoError
    <3>1. /\ got' = got /\ rres' # "run"
          /\ \/ bwd' = bwd \/ bwd' = bwd \o <<"CAN", "CAN">>
             \/ bwd' = bwd \o <<"CAN", "CAN", "CAN">>
      BY <2>5 DEF RecvCancel, RecvIoError, GiveUp, Return
    <3>2. QED
      BY <1>0, <3>1, CansAnswer DEF YPhase, Working, Running
  <2>6. QED
    BY <2>1, <2>2, <2>3, <2>4, <2>5 DEF Receiver, RecvPkt
<1>4. QED
  BY <1>2, <1>3

LEMMA GotStays ==
    ASSUME TypeInv, NEW i, got' = got \/ \E x : got' = Append(got, x)
    PROVE  Got(i) => Got(i)'
<1>1. got \in Seq(Items)
  BY DEF TypeInv, TypeOK, RecvTypeOK
<1>2. \A n \in 1 .. Len(got) : n \in 1 .. Len(got') /\ got'[n] = got[n]
  BY <1>1
<1>3. QED
  BY <1>2 DEF Got

LEMMA YReceiverDelivers ==
    ASSUME TypeInv, AckedIsDelivered,
           \/ Receiver \/ ReceiverTimeout
           \/ (RecvCancel \/ RecvIoError) /\ UNCHANGED sendVars
    PROVE  AckedIsDelivered'
<1>1. UNCHANGED sendVars
  BY DEF Receiver, ReceiverTimeout
<1>2. got' = got \/ \E x : got' = Append(got, x)
  BY DEF Receiver, ReceiverTimeout, RecvPkt, RecvLoop, RecvCancel, SendSync, TakeEot,
         RecvEot, RecvCan, RecvStray, RecvShort, RecvMore, RecvBad, RecvDuplicate, RecvWrong,
         RecvHeader, RecvData, RecvTimeout, RecvFlush, RecvFlushEnd, RecvIoError, Moves
<1>3. \A i : Got(i) => Got(i)'
  BY <1>2, GotStays
<1>4. Item' = Item
  BY <1>1 DEF Item, sendVars
<1>5. QED
  BY <1>3, <1>4 DEF AckedIsDelivered

\* The sender leaves a block behind with an acknowledgement of it.
LEMMA YSender ==
    ASSUME NoFaults, TypeInv, YPhase, YAnswer, AckedIsDelivered,
           \/ Sender \/ SenderTimeout
           \/ (SendCancel \/ SendIoError) /\ UNCHANGED recvVars
    PROVE  YAnswer' /\ AckedIsDelivered'
<1>1. got' = got
  BY DEF Sender, SenderTimeout, recvVars
<1>2. \A i : Got(i)' <=> Got(i)
  BY <1>1 DEF Got
<1>3. CASE ReplyAck
  <2>1. /\ spc = "reply" /\ sres = "run" /\ Len(bwd) >= 1 /\ bwd[1] = "ACK"
        /\ Len(bwd') = Len(bwd) - 1 /\ Len(bwd) \in Nat
        /\ \A n \in 1 .. Len(bwd') : n + 1 \in 1 .. Len(bwd) /\ bwd'[n] = bwd[n + 1]
    BY <1>3, ByteRead DEF ReplyAck, TypeInv, TypeOK, LineTypeOK, Live
  <2>2. \A n \in 1 .. Len(bwd') : bwd'[n] # "ACK"
    <3> SUFFICES ASSUME NEW n \in 1 .. Len(bwd'), bwd'[n] = "ACK" PROVE FALSE
      OBVIOUS
    <3>1. n + 1 \in 1 .. Len(bwd) /\ bwd[n + 1] = "ACK" /\ 1 \in 1 .. Len(bwd)
      BY <2>1
    <3>2. n + 1 = 1
      BY <2>1, <3>1 DEF YAnswer
    <3>3. QED
      BY <3>2
  <2>3. YAnswer'
    BY <2>2 DEF YAnswer, HasAck
  <2>4. AtBlock => Got(Item)
    BY <2>1 DEF YAnswer, HasAck
  <2>5. ASSUME NEW f \in 1 .. NFiles, NEW b \in 1 .. NBlocks, Before(<<f, b>>, Item')
        PROVE  Before(<<f, b>>, Item) \/ (AtBlock /\ <<f, b>> = Item)
    <3>1. sfile \in Nat /\ sblk \in 0 .. EotBlk
      BY DEF TypeInv, TypeOK, SendTypeOK
    <3>2. CASE AtBlock
      <4>1. sfile' = sfile /\ sblk' = sblk + 1
        BY <1>3, <3>2 DEF ReplyAck, AtBlock
      <4>2. QED
        BY <2>5, <3>1, <3>2, <4>1 DEF Before, Item
    <3>3. CASE sblk = 0
      <4>1. sfile' = sfile /\ sblk' \in {0, 1}
        BY <1>3, <3>3 DEF ReplyAck
      <4>2. QED
        BY <2>5, <3>1, <3>3, <4>1 DEF Before, Item
    <3>4. CASE sblk = EotBlk
      <4>1. sfile' = sfile + 1 /\ sblk' = 0
        BY <1>3, <3>4 DEF ReplyAck, NoFaults
      <4>2. QED
        BY <2>5, <3>1, <3>4, <4>1 DEF Before, Item
    <3>5. QED
      BY <3>1, <3>2, <3>3, <3>4 DEF AtBlock
  <2>6. AckedIsDelivered'
    <3> SUFFICES ASSUME NEW f \in 1 .. NFiles, NEW b \in 1 .. NBlocks,
                        Before(<<f, b>>, Item')
                 PROVE  Got(<<f, b>>)'
      BY DEF AckedIsDelivered
    <3>1. Got(<<f, b>>)
      BY <2>4, <2>5 DEF AckedIsDelivered
    <3>2. QED
      BY <1>2, <3>1
  <2>7. QED
    BY <2>3, <2>6
<1>4. CASE ~ReplyAck
  <2>1. UNCHANGED <<sfile, sblk>>
    BY <1>4 DEF Sender, SenderTimeout, SendCall, SendStart, SendLoop, SendEot, SendClose,
          EnterPkt, SendPkt, SyncByte, SyncIgnore, SyncCan, Transmit, ReplyNak, ReplyRefused,
          Flush, FlushEnd, SendTimeout, SyncTimeout, ReplyTimeout, SendCancel, SendIoError,
          Fail, sendVars
  <2>2. Item' = Item /\ (AtBlock' <=> AtBlock)
    BY <2>1 DEF Item, AtBlock
  <2>3. AckedIsDelivered'
    BY <1>2, <2>2 DEF AckedIsDelivered
  <2>4. ASSUME sres' = "run", spc' # "flush" PROVE sres = "run" /\ spc # "flush"
    BY <2>4 DEF Sender, SenderTimeout, SendCall, SendStart, SendLoop, SendEot, SendClose,
          EnterPkt, SendPkt, SyncByte, SyncIgnore, SyncCan, Transmit, ReplyAck, ReplyNak,
          ReplyRefused, Flush, FlushEnd, SendTimeout, SyncTimeout, ReplyTimeout, SendCancel,
          SendIoError, Fail, sendVars, TypeInv, Live
  <2>5. \/ \E c : Reads(c)
        \/ bwd' = bwd
        \/ bwd' = <<>>
    BY <1>4 DEF Sender, SenderTimeout, SendCall, SendStart, SendLoop, SendEot, SendClose,
          EnterPkt, SendPkt, SyncByte, SyncIgnore, SyncCan, Transmit, ReplyNak, ReplyRefused,
          Flush, FlushEnd, SendTimeout, SyncTimeout, ReplyTimeout, SendCancel, SendIoError,
          lineVars
  <2>6. \E k \in {0, 1} : \A n \in 1 .. Len(bwd') :
          n + k \in 1 .. Len(bwd) /\ bwd'[n] = bwd[n + k]
    <3>1. Len(bwd) \in Nat
      BY DEF TypeInv, TypeOK, LineTypeOK
    <3>2. CASE \E c : Reads(c)
      BY <3>2, ByteRead
    <3>3. CASE bwd' = bwd
      <4>1. \A n \in 1 .. Len(bwd') : n + 0 \in 1 .. Len(bwd) /\ bwd'[n] = bwd[n + 0]
        BY <3>1, <3>3
      <4>2. QED
        BY <4>1
    <3>4. CASE bwd' = <<>>
      BY <3>4
    <3>5. QED
      BY <2>5, <3>2, <3>3, <3>4
  <2>7. PICK k \in {0, 1} : \A n \in 1 .. Len(bwd') :
          n + k \in 1 .. Len(bwd) /\ bwd'[n] = bwd[n + k]
    BY <2>6
  <2>8. YAnswer'
    <3> SUFFICES ASSUME sres' = "run", spc' # "flush" PROVE YAnswer'
      BY DEF YAnswer
    <3>1. sres = "run" /\ spc # "flush"
      BY <2>4
    <3>2. ASSUME NEW m \in 1 .. Len(bwd'), NEW n \in 1 .. Len(bwd'),
                 bwd'[m] = "ACK", bwd'[n] = "ACK"
          PROVE  m = n
      <4>1. m + k = n + k
        BY <2>7, <3>1, <3>2 DEF YAnswer
      <4>2. QED
        BY <4>1
    <3>3. HasAck' => HasAck
      BY <2>7 DEF HasAck
    <3>4. AtBlock' /\ HasAck' => Got(Item)'
      BY <1>2, <2>2, <3>1, <3>3 DEF YAnswer
    <3>5. QED
      BY <3>2, <3>4 DEF YAnswer
  <2>9. QED
    BY <2>3, <2>8
<1>5. QED
  BY <1>3, <1>4

LEMMA YStep ==
    ASSUME NoFaults PROVE IInv /\ YInv /\ [Next]_vars => YInv'
<1> SUFFICES ASSUME IInv, YInv, [Next]_vars PROVE YInv'
  OBVIOUS
<1>1. TypeInv /\ Numbered /\ (Sound => Expects) /\ YPhase /\ YAnswer /\ AckedIsDelivered
  BY DEF IInv, NoiseInv, YInv
<1>2. CASE UNCHANGED vars
  <2>1. UNCHANGED <<fwd, bwd, sendVars, recvVars>>
    BY <1>2 DEF vars, lineVars
  <2> USE DEF sendVars, recvVars
  <2>2. /\ \A i : Got(i)' <=> Got(i)
        /\ Item' = Item /\ (AtBlock' <=> AtBlock) /\ (HasAck' <=> HasAck)
        /\ FirstSync' = FirstSync /\ TheFrame' = TheFrame
    BY <2>1 DEF Got, Item, AtBlock, HasAck, FirstSync, TheFrame
  <2>3. /\ (AwaitsSync' <=> AwaitsSync) /\ (Sends' <=> Sends) /\ (UnderWay' <=> UnderWay)
        /\ (BlockTaken' <=> BlockTaken) /\ (OtherTaken' <=> OtherTaken)
    BY <2>1, <2>2 DEF AwaitsSync, Sends, UnderWay, BlockTaken, OtherTaken
  <2>4. YPhase'
    BY <1>1, <2>1, <2>3 DEF YPhase, Working, Running
  <2>5. YAnswer'
    BY <1>1, <2>1, <2>2 DEF YAnswer
  <2>6. AckedIsDelivered'
    BY <1>1, <2>2 DEF AckedIsDelivered
  <2>7. QED
    BY <2>4, <2>5, <2>6 DEF YInv
<1>3. CASE Sender \/ SenderTimeout \/ ((SendCancel \/ SendIoError) /\ UNCHANGED recvVars)
  BY <1>1, <1>3, YSenderPhase, YSender DEF YInv
<1>4. CASE Receiver \/ ReceiverTimeout \/ ((RecvCancel \/ RecvIoError) /\ UNCHANGED sendVars)
  BY <1>1, <1>4, YReceiver, YReceiverDelivers DEF YInv
<1>5. QED
  BY <1>2, <1>3, <1>4 DEF Next, Abort, Ended

\* Between prompt applications over a line without faults a block that the
\* sender counts as acknowledged has been delivered, whatever the numbers of
\* files and blocks and whichever end is cancelled or fails (send.c:184-187,
\* recv.c:193-210).
THEOREM AcknowledgedIsDelivered == ASSUME NoFaults PROVE Spec => []AckedIsDelivered
<1>1. NoiseOnly
  BY DEF NoFaults, NoiseOnly
<1>2. Spec => []IInv
  BY <1>1, IInvHolds
<1>3. Init => YInv
  BY YInit
<1>4. IInv /\ YInv /\ [Next]_vars => YInv'
  BY YStep
<1>5. YInv => AckedIsDelivered
  BY DEF YInv
<1>6. QED
  BY <1>2, <1>3, <1>4, <1>5, PTL DEF Spec

=============================================================================

-------------------------- MODULE XYModem_proofs --------------------------
(***************************************************************************)
(* Proofs about XYModem, for every number of files and blocks, every       *)
(* sequence modulus, every retry limit and every set of line faults that a *)
(* theorem does not exclude.                                               *)
(***************************************************************************)
EXTENDS XYModem, SequenceTheorems, TLAPS

USE DEF Y, EotBlk, NullHeader

(***************************************************************************)
(* Lemmas about the line.                                                  *)
(***************************************************************************)

LEMMA ShortSeq ==
    ASSUME NEW S, NEW q \in Seq(S)
    PROVE  /\ q \o <<>> \in Seq(S)
           /\ \A x \in S : q \o <<x>> \in Seq(S)
           /\ \A x, y \in S : q \o <<x, y>> \in Seq(S)
           /\ \A x, y, z \in S : q \o <<x, y, z>> \in Seq(S)
OBVIOUS

PktFrames == [kind : {"PKT", "EOT", "STRAY"}, seq : 0 .. SeqMod - 1,
              item : Items, cond : Conditions]

\* g is what a frame f may look like when it arrives.
Arrives(f, g) ==
    /\ g \in PktFrames
    /\ g.item = f.item /\ g.seq = f.seq
    /\ g.kind \in {f.kind, "STRAY"}
    /\ "behead" \notin Faults => g.kind = f.kind

LEMMA FrameArrives ==
    ASSUME NEW f \in PktFrames, PutFrame(f) \/ PutEot(f)
    PROVE  fwd' = fwd \o <<>> \/ \E g : Arrives(f, g) /\ fwd' = fwd \o <<g>>
<1> DEFINE bad == [f EXCEPT !.cond = "bad"]
           short == [f EXCEPT !.cond = "short"]
           stray == [f EXCEPT !.kind = "STRAY"]
<1>1. Arrives(f, f) /\ Arrives(f, bad) /\ Arrives(f, short)
  BY DEF Arrives, PktFrames, Conditions
<1>2. "behead" \in Faults => Arrives(f, stray)
  BY DEF Arrives, PktFrames, Conditions
<1>3. PICK o : o \in FrameOutcomes(f) \cup EotOutcomes(f) /\ fwd' = fwd \o o
  BY DEF PutFrame, PutEot
<1>4. \/ o \in {<<>>, <<f>>, <<bad>>, <<short>>}
      \/ "behead" \in Faults /\ o = <<stray>>
  BY <1>3, Zenon DEF FrameOutcomes, EotOutcomes
<1> HIDE DEF bad, short, stray
<1>5. QED
  BY <1>1, <1>2, <1>3, <1>4

LEMMA ByteArrives ==
    ASSUME bwd \in Seq(Bytes), NEW c \in Bytes, PutByte(c)
    PROVE  bwd' \in Seq(Bytes)
<1>1. PICK o \in ByteOutcomes(c) : bwd' = bwd \o o
  BY DEF PutByte
<1>2. o \in {<<>>, <<c>>, <<"JUNK">>}
  BY <1>1, Zenon DEF ByteOutcomes
<1>3. "JUNK" \in Bytes
  BY DEF Bytes
<1>4. QED
  BY <1>1, <1>2, <1>3, ShortSeq

LEMMA CanArrives == ASSUME bwd \in Seq(Bytes), GiveUp PROVE bwd' \in Seq(Bytes)
BY ShortSeq DEF GiveUp, Bytes

LEMMA ReadsByte ==
    ASSUME bwd \in Seq(Bytes), NEW c, Reads(c)
    PROVE  bwd' \in Seq(Bytes) /\ fwd' = fwd
BY DEF Reads

(***************************************************************************)
(* Type correctness.  A retry count that the receiver still decrements is  *)
(* positive, and an EOT or a block belongs to a file of the batch.         *)
(***************************************************************************)

Live ==
    /\ rres = "run" => rretry > 0
    /\ rpc # "app" => rres = "run"
    /\ spc # "app" => sres = "run"
    /\ sblk > 0 => sfile <= NFiles

TypeInv == TypeOK /\ Live

USE LineAssumption, SendAssumption, RecvAssumption, LateAssumption

LEMMA TypeInit == Init => TypeInv
BY DEF Init, LineInit, SendOpen, RecvInit, TypeInv, TypeOK, Live, LineTypeOK,
       SendTypeOK, RecvTypeOK, FirstSeq, FirstPktno, FirstSync

LEMMA TypeSender ==
    ASSUME TypeInv, SendCall \/ SendPkt \/ SendTimeout, UNCHANGED recvVars
    PROVE  TypeInv'
<1> USE DEF TypeInv, TypeOK, Live, LineTypeOK, SendTypeOK, recvVars, lineVars
<1>1. RecvTypeOK'
  BY DEF RecvTypeOK
<1>2. CASE SendCall
  BY <1>1, <1>2 DEF SendCall, SendStart, SendLoop, SendEot, SendClose, EnterPkt
<1>3. CASE SyncByte
  <2>1. bwd' \in Seq(Bytes) /\ fwd' = fwd
    BY <1>3, ReadsByte DEF SyncByte
  <2>2. sstate' \in {"CRC", "CKS"}
    BY <1>3 DEF SyncByte
  <2>3. QED
    BY <1>1, <1>3, <2>1, <2>2 DEF SyncByte
<1>4. CASE SyncIgnore
  BY <1>1, <1>4, ReadsByte DEF SyncIgnore, sendVars
<1>5. CASE SyncCan
  BY <1>1, <1>5, ReadsByte DEF SyncCan, Fail, FirstSeq
<1>6. CASE Transmit
  <2> DEFINE f == [kind |-> "PKT", seq |-> seq, item |-> Item, cond |-> "good"]
             e == [f EXCEPT !.kind = "EOT"]
  <2>1. f \in PktFrames /\ e \in PktFrames
    BY DEF PktFrames, Item, Items, Conditions
  <2>2. PutFrame(f) \/ PutEot(e)
    BY <1>6 DEF Transmit
  <2> HIDE DEF f, e
  <2>3. fwd' = fwd \o <<>> \/ \E g \in PktFrames : fwd' = fwd \o <<g>>
    BY <2>1, <2>2, FrameArrives DEF Arrives
  <2>4. PktFrames \subseteq Frames
    BY DEF PktFrames, Frames
  <2>5. fwd' \in Seq(Frames)
    <3>1. fwd \in Seq(Frames)
      OBVIOUS
    <3>2. CASE fwd' = fwd \o <<>>
      BY <3>1, <3>2, ShortSeq
    <3>3. CASE \E g \in PktFrames : fwd' = fwd \o <<g>>
      <4>1. PICK g \in Frames : fwd' = fwd \o <<g>>
        BY <2>4, <3>3
      <4>2. QED
        BY <3>1, <4>1, ShortSeq
    <3>4. QED
      BY <2>3, <3>2, <3>3
  <2>6. QED
    BY <1>1, <1>6, <2>5 DEF Transmit
<1>7. CASE ReplyAck
  BY <1>1, <1>7, ReadsByte DEF ReplyAck, FirstSeq
<1>8. CASE ReplyNak
  BY <1>1, <1>8, ReadsByte DEF ReplyNak, Bumped
<1>9. CASE ReplyRefused
  BY <1>1, <1>9, ReadsByte DEF ReplyRefused
<1>10. CASE Flush
  BY <1>1, <1>10 DEF Flush, Fail, FirstSeq
<1>11. CASE FlushEnd
  BY <1>1, <1>11 DEF FlushEnd, Fail, FirstSeq
<1>12. CASE SyncTimeout
  BY <1>1, <1>12 DEF SyncTimeout, Fail, FirstSeq, Bumped
<1>13. CASE ReplyTimeout
  BY <1>1, <1>13 DEF ReplyTimeout, Bumped
<1>14. QED
  BY <1>2, <1>3, <1>4, <1>5, <1>6, <1>7, <1>8, <1>9, <1>10, <1>11, <1>12, <1>13
     DEF SendPkt, SendTimeout

LEMMA TypeReceiver ==
    ASSUME TypeInv, RecvLoop \/ RecvPkt \/ RecvTimeout, UNCHANGED sendVars
    PROVE  TypeInv'
<1> USE DEF TypeInv, TypeOK, Live, LineTypeOK, RecvTypeOK, sendVars, lineVars
<1>1. SendTypeOK' /\ (sblk' > 0 => sfile' <= NFiles)
      /\ (spc' # "app" => sres' = "run")
  BY DEF SendTypeOK
<1>2. ASSUME Pop PROVE fwd' \in Seq(Frames) /\ Head(fwd) \in Frames
  BY <1>2, HeadTailProperties DEF Pop
<1>3. ASSUME HuntsGood PROVE Head(fwd).item \in Items
  BY <1>2, <1>3 DEF HuntsGood, Hunts, Frames
<1>4. ASSUME TakeEot, fwd' \in Seq(Frames), rpc = "hunt" PROVE TypeInv'
  BY <1>1, <1>4, ByteArrives DEF TakeEot, Return, FirstPktno, FirstSync, Bytes
<1>6. CASE RecvLoop
  BY <1>1, <1>6 DEF RecvLoop
<1>7. CASE SendSync
  BY <1>1, <1>7, ByteArrives DEF SendSync, Bytes
<1>8. CASE RecvEot
  BY <1>2, <1>4, <1>8 DEF RecvEot, Hunts
<1>9. CASE RecvCan
  BY <1>1, <1>2, <1>9 DEF RecvCan, Hunts, Return
<1>10. CASE RecvStray
  BY <1>1, <1>2, <1>4, <1>10 DEF RecvStray, Hunts, Return, Moves
<1>11. CASE RecvShort \/ RecvMore \/ RecvBad \/ RecvWrong \/ RecvFlush
  BY <1>1, <1>2, <1>11
     DEF RecvShort, RecvMore, RecvBad, RecvWrong, RecvFlush, HuntsGood, Hunts,
         Moves
<1>12. CASE RecvDuplicate
  BY <1>1, <1>2, <1>12 DEF RecvDuplicate, HuntsGood, Hunts
<1>13. CASE RecvHeader
  BY <1>1, <1>2, <1>3, <1>13, ByteArrives
     DEF Bytes, RecvHeader, HuntsGood, Hunts, Return
<1>14. CASE RecvData
  <2>1. Head(fwd).item \in Items /\ fwd' \in Seq(Frames)
    BY <1>2, <1>3, <1>14 DEF RecvData, HuntsGood, Hunts
  <2>2. got' \in Seq(Items)
    <3>1. got' = got \/ got' = Append(got, Head(fwd).item)
      BY <1>14 DEF RecvData
    <3>2. got \in Seq(Items)
      OBVIOUS
    <3>3. Append(got, Head(fwd).item) \in Seq(Items)
      BY <2>1, <3>2, AppendProperties, Zenon
    <3>4. QED
      BY <3>1, <3>2, <3>3, Zenon
  <2>3. fsize' \in Nat /\ count' \in Nat /\ pktno' \in Nat
    BY <1>14 DEF RecvData
  <2>4. rmode' \in {"XMODEM", "YMODEM"} /\ rpc' \in {"app", "sync"}
    BY <1>14 DEF RecvData, Return
  <2>5. rres' \in {"run", "eof"} /\ (rpc' = "sync" => rres' = "run")
    BY <1>14 DEF RecvData, Return, HuntsGood, Hunts
  <2>6. QED
    BY <1>1, <1>14, <2>1, <2>2, <2>3, <2>4, <2>5 DEF RecvData
<1>15. CASE RecvFlushEnd
  BY <1>1, <1>15, CanArrives DEF RecvFlushEnd, GiveUp, Return
<1>16. CASE RecvTimeout
  BY <1>1, <1>16, CanArrives DEF RecvTimeout, GiveUp, Return
<1>17. QED
  BY <1>6, <1>7, <1>8, <1>9, <1>10, <1>11, <1>12, <1>13, <1>14, <1>15, <1>16
     DEF RecvPkt

LEMMA TypeStep == TypeInv /\ [Next]_vars => TypeInv'
<1> SUFFICES ASSUME TypeInv, [Next]_vars PROVE TypeInv'
  OBVIOUS
<1>1. CASE Sender \/ SenderTimeout
  BY <1>1, TypeSender DEF Sender, SenderTimeout
<1>2. CASE Receiver \/ ReceiverTimeout
  BY <1>2, TypeReceiver DEF Receiver, ReceiverTimeout
<1>3. CASE Abort
  <2> USE DEF TypeInv, TypeOK, Live, LineTypeOK, SendTypeOK, RecvTypeOK,
              sendVars, recvVars, lineVars
  <2>1. CASE SendCancel /\ UNCHANGED recvVars
    <3>1. [kind |-> "CAN"] \in Frames
      BY DEF Frames
    <3>2. fwd' \in Seq(Frames)
      BY <2>1, <3>1, ShortSeq DEF SendCancel
    <3>3. QED
      BY <2>1, <3>2 DEF SendCancel
  <2>2. CASE SendIoError /\ UNCHANGED recvVars
    BY <2>2 DEF SendIoError, Fail, FirstSeq
  <2>3. CASE RecvCancel /\ UNCHANGED sendVars
    <3>1. bwd' \in Seq(Bytes)
      BY <2>3, ShortSeq DEF RecvCancel, Bytes
    <3>2. QED
      BY <2>3, <3>1 DEF RecvCancel
  <2>4. CASE RecvIoError /\ UNCHANGED sendVars
    <3>1. bwd' \in Seq(Bytes)
      BY <2>4, CanArrives DEF RecvIoError
    <3>2. QED
      BY <2>4, <3>1 DEF RecvIoError, GiveUp, Return
  <2>5. QED
    BY <1>3, <2>1, <2>2, <2>3, <2>4 DEF Abort
<1>4. CASE UNCHANGED vars
  BY <1>4 DEF vars, lineVars, sendVars, recvVars, TypeInv, TypeOK, Live,
              LineTypeOK, SendTypeOK, RecvTypeOK
<1>5. QED
  BY <1>1, <1>2, <1>3, <1>4 DEF Next, Ended

\* Every variable keeps its type: the receiver's retry count in particular is
\* never decremented below zero (recv.c:237).
THEOREM TypeCorrect == Spec => []TypeOK
<1>1. TypeInv => TypeOK
  BY DEF TypeInv
<1>2. QED
  BY TypeInit, TypeStep, <1>1, PTL DEF Spec

(***************************************************************************)
(* Order of delivery.  Without frames that lost their first byte, every    *)
(* frame on the line is an EOT or a packet of the sender, in the order of  *)
(* the items; a frame never lies behind what the application got, and a    *)
(* frame that repeats the last item got carries the number the receiver    *)
(* takes for a retransmission.                                             *)
(***************************************************************************)

IsPkt(f) == f.kind = "PKT"
Ordered(f) == f.kind \in {"PKT", "EOT"}
Last == got[Len(got)]

\* The item of the sender has not been on the line yet, or may go out now.
Fresh == spc = "sync" \/ (spc = "app" /\ sres = "run")
Sending == spc \in {"tx", "reply"}

Kinds ==
    \A n \in 1 .. Len(fwd) :
        /\ fwd[n].kind \in {"PKT", "EOT", "CAN"}
        /\ IsPkt(fwd[n]) => fwd[n].item[2] # EotBlk
        /\ fwd[n].kind = "EOT" => fwd[n].item[2] = EotBlk

FwdSorted ==
    \A m, n \in 1 .. Len(fwd) :
        m < n /\ Ordered(fwd[m]) /\ Ordered(fwd[n])
            => ~Before(fwd[n].item, fwd[m].item)

NotAhead ==
    \A n \in 1 .. Len(fwd) :
        Ordered(fwd[n]) =>
            /\ ~Before(Item, fwd[n].item)
            /\ Fresh => Before(fwd[n].item, Item)

SameSeq ==
    /\ \A m, n \in 1 .. Len(fwd) :
        IsPkt(fwd[m]) /\ IsPkt(fwd[n]) /\ fwd[m].item = fwd[n].item
            => fwd[m].seq = fwd[n].seq
    /\ Sending => \A n \in 1 .. Len(fwd) :
        IsPkt(fwd[n]) /\ fwd[n].item = Item => fwd[n].seq = seq

GotBlocks == \A n \in 1 .. Len(got) : got[n][2] # EotBlk

NotBelow ==
    got # <<>> =>
        /\ \A n \in 1 .. Len(fwd) :
            Ordered(fwd[n]) => ~Before(fwd[n].item, Last)
        /\ ~Before(Item, Last)
        /\ Fresh => Before(Last, Item)

IsLastSeq(s) == pktno > 0 /\ s = (pktno - 1) % SeqMod
LastSeq ==
    got # <<>> /\ rres = "run" =>
        /\ \A n \in 1 .. Len(fwd) :
            IsPkt(fwd[n]) /\ fwd[n].item = Last => IsLastSeq(fwd[n].seq)
        /\ Sending /\ Item = Last => IsLastSeq(seq)

OrderInv ==
    /\ Kinds /\ FwdSorted /\ NotAhead /\ SameSeq
    /\ GotBlocks /\ NotBelow /\ LastSeq /\ InOrder

(***************************************************************************)
(* Before is a strict total order on items.                                *)
(***************************************************************************)
LEMMA BeforeOrder ==
    ASSUME NEW i \in Items, NEW j \in Items
    PROVE  /\ ~Before(i, i)
           /\ Before(i, j) => ~Before(j, i)
           /\ ~Before(i, j) /\ ~Before(j, i) => i = j
BY DEF Before, Items

LEMMA BeforeTrans ==
    ASSUME NEW i \in Items, NEW j \in Items, NEW k \in Items
    PROVE  /\ Before(i, j) /\ ~Before(k, j) => Before(i, k)
           /\ ~Before(j, i) /\ Before(j, k) => Before(i, k)
           /\ ~Before(j, i) /\ ~Before(k, j) => ~Before(k, i)
BY DEF Before, Items

\* The items that the invariant compares.
LEMMA ItemTypes ==
    ASSUME TypeInv
    PROVE  /\ Item \in Items
           /\ \A n \in 1 .. Len(fwd) :
                Ordered(fwd[n]) => /\ fwd[n].item \in Items
                                   /\ fwd[n].seq \in 0 .. SeqMod - 1
           /\ \A n \in 1 .. Len(got) : got[n] \in Items
           /\ got # <<>> => Last \in Items
<1> USE DEF TypeInv, TypeOK
<1>1. Item \in Items
  BY DEF Item, Items, SendTypeOK
<1>2. ASSUME NEW n \in 1 .. Len(fwd), Ordered(fwd[n])
      PROVE  fwd[n].item \in Items /\ fwd[n].seq \in 0 .. SeqMod - 1
  <2>1. fwd[n] \in Frames
    BY DEF LineTypeOK
  <2>2. QED
    BY <1>2, <2>1 DEF Frames, Ordered
<1>3. \A n \in 1 .. Len(got) : got[n] \in Items
  BY DEF RecvTypeOK
<1>4. got # <<>> => Last \in Items
  BY DEF RecvTypeOK, Last
<1>5. QED
  BY <1>1, <1>2, <1>3, <1>4

LEMMA OrderInit == Init => OrderInv
BY DEF Init, LineInit, SendOpen, RecvInit, OrderInv, Kinds, FwdSorted, NotAhead,
       SameSeq, GotBlocks, NotBelow, LastSeq, InOrder

\* Steps of the sender that put nothing on the line and stay at the item.
LEMMA SenderStays ==
    ASSUME TypeInv, OrderInv, UNCHANGED <<fwd, sfile, sblk, recvVars>>,
           Fresh' => Fresh,
           Sending' => Fresh \/ (Sending /\ seq' = seq)
    PROVE  OrderInv'
<1> USE DEF OrderInv, recvVars
<1>1. Item' = Item /\ Last' = Last
  BY DEF Item, Last
<1>2. Kinds' /\ FwdSorted' /\ GotBlocks' /\ InOrder'
  BY DEF Kinds, FwdSorted, GotBlocks, InOrder
<1>3. NotAhead' /\ NotBelow'
  BY <1>1 DEF NotAhead, NotBelow
<1>4. SameSeq'
  BY <1>1, ItemTypes, BeforeOrder DEF SameSeq, NotAhead, Ordered, IsPkt
<1>5. LastSeq'
  BY <1>1, ItemTypes, BeforeOrder DEF LastSeq, NotBelow, IsLastSeq
<1>6. QED
  BY <1>2, <1>3, <1>4, <1>5

\* An acknowledged sender goes on to a later item.
LEMMA SenderAdvances ==
    ASSUME TypeInv, OrderInv, UNCHANGED <<fwd, recvVars>>,
           Before(Item, Item'), Item' \in Items, ~Sending'
    PROVE  OrderInv'
<1> USE DEF OrderInv, recvVars
<1>1. Last' = Last
  BY DEF Last
<1>2. Kinds' /\ FwdSorted' /\ GotBlocks' /\ InOrder'
  BY DEF Kinds, FwdSorted, GotBlocks, InOrder
<1>3. NotAhead'
  BY ItemTypes, BeforeOrder, BeforeTrans DEF NotAhead
<1>4. NotBelow'
  BY <1>1, ItemTypes, BeforeOrder, BeforeTrans DEF NotBelow
<1>5. SameSeq'
  BY DEF SameSeq
<1>6. LastSeq'
  BY <1>1 DEF LastSeq, IsLastSeq
<1>7. QED
  BY <1>2, <1>3, <1>4, <1>5, <1>6

\* The sender puts its packet, or its EOT, on the line.
LEMMA SenderTransmits ==
    ASSUME TypeInv, OrderInv, UNCHANGED <<sfile, sblk, seq, recvVars>>,
           Sending, ~Fresh',
           NEW g, fwd' = fwd \o <<g>>, g.item = Item, g.seq = seq,
           g.kind = IF sblk = EotBlk THEN "EOT" ELSE "PKT"
    PROVE  OrderInv'
<1> USE DEF OrderInv, recvVars
<1>1. Item' = Item /\ Last' = Last /\ Item[2] = sblk
  BY DEF Item, Last
<1>2. /\ Len(fwd') = Len(fwd) + 1
      /\ \A n \in 1 .. Len(fwd) : fwd'[n] = fwd[n]
      /\ fwd'[Len(fwd) + 1] = g
      /\ Len(fwd) \in Nat
  BY DEF TypeInv, TypeOK, LineTypeOK
<1> HIDE DEF EotBlk
<1>3. \A n \in 1 .. Len(fwd') :
        n = Len(fwd) + 1 \/ (n \in 1 .. Len(fwd) /\ fwd'[n] = fwd[n])
  BY <1>2
<1>4. Kinds'
  BY <1>1, <1>2, <1>3 DEF Kinds, IsPkt
<1>5. GotBlocks' /\ InOrder'
  BY DEF GotBlocks, InOrder
<1>6. FwdSorted'
  BY <1>2, <1>3 DEF FwdSorted, NotAhead, Ordered
<1>7. NotAhead'
  BY <1>1, <1>2, <1>3, ItemTypes, BeforeOrder DEF NotAhead
<1>8. SameSeq'
  BY <1>1, <1>2, <1>3 DEF SameSeq, IsPkt
<1>9. NotBelow'
  BY <1>1, <1>2, <1>3, ItemTypes, BeforeOrder DEF NotBelow, Fresh, Sending
<1>10. LastSeq'
  BY <1>1, <1>2, <1>3 DEF LastSeq, IsLastSeq, IsPkt
<1>11. QED
  BY <1>4, <1>5, <1>6, <1>7, <1>8, <1>9, <1>10

\* No frame that the receiver may still see, and no packet that the sender
\* may still repeat, is the last item got.
NoRepeat ==
    /\ \A n \in 1 .. Len(fwd) : IsPkt(fwd[n]) => fwd[n].item # Last
    /\ Sending => Item # Last

\* Steps of the receiver that return nothing to the application.
LEMMA ReceiverSkips ==
    ASSUME TypeInv, OrderInv, UNCHANGED <<sendVars, got>>,
           fwd' = fwd \/ (fwd # <<>> /\ fwd' = Tail(fwd)),
           rres' = "run" => rres = "run",
           pktno' = pktno \/ (got # <<>> => NoRepeat')
    PROVE  OrderInv'
<1> USE DEF OrderInv, sendVars
<1>1. Item' = Item /\ Last' = Last /\ (Fresh' <=> Fresh) /\ (Sending' <=> Sending)
  BY DEF Item, Last, Fresh, Sending
<1>2. PICK d \in {0, 1} :
        /\ Len(fwd') + d = Len(fwd) /\ Len(fwd') \in Nat
        /\ \A n \in 1 .. Len(fwd') :
             n + d \in 1 .. Len(fwd) /\ fwd'[n] = fwd[n + d]
  <2>1. fwd \in Seq(Frames)
    BY DEF TypeInv, TypeOK, LineTypeOK
  <2>2. CASE fwd' = fwd
    BY <2>1, <2>2
  <2>3. CASE fwd # <<>> /\ fwd' = Tail(fwd)
    BY <2>1, <2>3
  <2>4. QED
    BY <2>2, <2>3
<1>3. Len(fwd) \in Nat
  BY <1>2
<1>4. Kinds' /\ GotBlocks' /\ InOrder'
  BY <1>2 DEF Kinds, GotBlocks, InOrder
<1>5. FwdSorted'
  <2>1. SUFFICES ASSUME NEW m \in 1 .. Len(fwd'), NEW n \in 1 .. Len(fwd'),
                        m < n, Ordered(fwd'[m]), Ordered(fwd'[n])
                 PROVE  ~Before(fwd'[n].item, fwd'[m].item)
    BY DEF FwdSorted
  <2>2. /\ m + d \in 1 .. Len(fwd) /\ fwd'[m] = fwd[m + d]
        /\ n + d \in 1 .. Len(fwd) /\ fwd'[n] = fwd[n + d]
        /\ m + d < n + d
    BY <1>2, <2>1
  <2>3. QED
    BY <2>1, <2>2 DEF FwdSorted
<1>6. NotAhead'
  BY <1>1, <1>2 DEF NotAhead
<1>7. SameSeq'
  <2>1. ASSUME NEW m \in 1 .. Len(fwd'), NEW n \in 1 .. Len(fwd'),
               IsPkt(fwd'[m]), IsPkt(fwd'[n]), fwd'[m].item = fwd'[n].item
        PROVE  fwd'[m].seq = fwd'[n].seq
    <3>1. /\ m + d \in 1 .. Len(fwd) /\ fwd'[m] = fwd[m + d]
          /\ n + d \in 1 .. Len(fwd) /\ fwd'[n] = fwd[n + d]
      BY <1>2
    <3>2. QED
      BY <2>1, <3>1 DEF SameSeq
  <2>2. ASSUME Sending, NEW n \in 1 .. Len(fwd'),
               IsPkt(fwd'[n]), fwd'[n].item = Item
        PROVE  fwd'[n].seq = seq
    BY <1>2, <2>2 DEF SameSeq
  <2>3. seq' = seq
    OBVIOUS
  <2>4. QED
    BY <1>1, <2>1, <2>2, <2>3 DEF SameSeq
<1>8. NotBelow'
  BY <1>1, <1>2 DEF NotBelow
<1>9. LastSeq'
  <2>1. CASE pktno' = pktno
    BY <1>1, <1>2, <2>1 DEF LastSeq, IsLastSeq
  <2>2. CASE got # <<>> => NoRepeat'
    BY <1>1, <2>2 DEF LastSeq, NoRepeat
  <2>3. QED
    BY <2>1, <2>2
<1>10. QED
  BY <1>4, <1>5, <1>6, <1>7, <1>8, <1>9

\* The receiver returns a header or a block, which is no retransmission and
\* therefore lies beyond everything got so far.
LEMMA ReceiverReturns ==
    ASSUME TypeInv, OrderInv, UNCHANGED sendVars, rres = "run",
           fwd # <<>>, fwd' = Tail(fwd), IsPkt(Head(fwd)),
           ~IsDuplicate(Head(fwd).seq),
           got' = Append(got, Head(fwd).item),
           pktno' > 0, Head(fwd).seq = (pktno' - 1) % SeqMod
    PROVE  OrderInv'
<1> USE DEF OrderInv, sendVars
<1> DEFINE h == Head(fwd)
<1>1. /\ Item' = Item /\ (Fresh' <=> Fresh) /\ (Sending' <=> Sending)
      /\ seq' = seq
  BY DEF Item, Fresh, Sending
<1>2. /\ Len(fwd') + 1 = Len(fwd) /\ Len(fwd') \in Nat
      /\ h = fwd[1] /\ 1 \in 1 .. Len(fwd)
      /\ \A n \in 1 .. Len(fwd') :
           n + 1 \in 1 .. Len(fwd) /\ 1 < n + 1 /\ fwd'[n] = fwd[n + 1]
  BY DEF TypeInv, TypeOK, LineTypeOK
<1>3. /\ Len(got) \in Nat /\ Len(got') = Len(got) + 1
      /\ got'[Len(got')] = h.item /\ got' # <<>>
      /\ \A n \in 1 .. Len(got) : got'[n] = got[n]
      /\ got # <<>> <=> Len(got) > 0
  BY DEF TypeInv, TypeOK, RecvTypeOK
<1>4. Last' = h.item
  BY <1>3 DEF Last
<1>5. Ordered(h) /\ h.item \in Items /\ h.item[2] # EotBlk
  BY <1>2, ItemTypes DEF Ordered, IsPkt, Kinds
<1> HIDE DEF h
<1>6. got # <<>> => Before(Last, h.item)
  <2>1. SUFFICES ASSUME got # <<>> PROVE Before(Last, h.item)
    OBVIOUS
  <2>2. ~Before(h.item, Last)
    BY <1>2, <1>5, <2>1 DEF NotBelow
  <2>3. h.item # Last
    BY <1>2, <2>1 DEF LastSeq, IsLastSeq, IsDuplicate, h
  <2>4. QED
    BY <1>5, <2>1, <2>2, <2>3, ItemTypes, BeforeOrder
<1>7. InOrder'
  <2>1. \A n \in 1 .. Len(got) : Before(got[n], h.item)
    <3>1. SUFFICES ASSUME NEW n \in 1 .. Len(got)
                   PROVE  Before(got[n], h.item)
      OBVIOUS
    <3>2. Len(got) > 0 /\ Before(Last, h.item)
      BY <1>3, <1>6, <3>1
    <3>3. n = Len(got) \/ Before(got[n], got[Len(got)])
      BY <1>3, <3>1 DEF InOrder
    <3>4. CASE n = Len(got)
      BY <3>2, <3>4 DEF Last
    <3>5. CASE Before(got[n], got[Len(got)])
      <4>1. Last \in Items /\ got[n] \in Items
        BY <1>3, <3>1, <3>2, ItemTypes
      <4>2. ~Before(h.item, Last)
        BY <1>5, <3>2, <4>1, BeforeOrder
      <4>3. QED
        BY <1>5, <3>5, <4>1, <4>2, BeforeTrans DEF Last
    <3>6. QED
      BY <3>3, <3>4, <3>5
  <2>2. SUFFICES ASSUME NEW m \in 1 .. Len(got'), NEW n \in 1 .. Len(got'), m < n
                 PROVE  Before(got'[m], got'[n])
    BY DEF InOrder
  <2>3. m \in 1 .. Len(got) /\ got'[m] = got[m]
    BY <1>3, <2>2
  <2>4. CASE n \in 1 .. Len(got)
    BY <1>3, <2>2, <2>3, <2>4 DEF InOrder
  <2>5. CASE n = Len(got')
    BY <1>3, <2>1, <2>3, <2>5
  <2>6. QED
    BY <1>3, <2>4, <2>5
<1>8. GotBlocks'
  BY <1>3, <1>5 DEF GotBlocks
<1>9. Kinds' /\ NotAhead'
  BY <1>1, <1>2 DEF Kinds, NotAhead
<1>10. FwdSorted'
  <2>1. SUFFICES ASSUME NEW m \in 1 .. Len(fwd'), NEW n \in 1 .. Len(fwd'),
                        m < n, Ordered(fwd'[m]), Ordered(fwd'[n])
                 PROVE  ~Before(fwd'[n].item, fwd'[m].item)
    BY DEF FwdSorted
  <2>2. /\ m + 1 \in 1 .. Len(fwd) /\ fwd'[m] = fwd[m + 1]
        /\ n + 1 \in 1 .. Len(fwd) /\ fwd'[n] = fwd[n + 1]
        /\ m + 1 < n + 1
    BY <1>2, <2>1
  <2>3. QED
    BY <2>1, <2>2 DEF FwdSorted
<1>11. SameSeq'
  <2>1. ASSUME NEW m \in 1 .. Len(fwd'), NEW n \in 1 .. Len(fwd'),
               IsPkt(fwd'[m]), IsPkt(fwd'[n]), fwd'[m].item = fwd'[n].item
        PROVE  fwd'[m].seq = fwd'[n].seq
    <3>1. /\ m + 1 \in 1 .. Len(fwd) /\ fwd'[m] = fwd[m + 1]
          /\ n + 1 \in 1 .. Len(fwd) /\ fwd'[n] = fwd[n + 1]
      BY <1>2
    <3>2. QED
      BY <2>1, <3>1 DEF SameSeq
  <2>2. Sending => \A n \in 1 .. Len(fwd') :
            IsPkt(fwd'[n]) /\ fwd'[n].item = Item => fwd'[n].seq = seq
    BY <1>2 DEF SameSeq
  <2>3. QED
    BY <1>1, <2>1, <2>2 DEF SameSeq
<1>12. NotBelow'
  <2>1. \A n \in 1 .. Len(fwd') :
          Ordered(fwd'[n]) => ~Before(fwd'[n].item, h.item)
    BY <1>2, <1>5 DEF FwdSorted
  <2>2. ~Before(Item, h.item) /\ (Fresh => Before(h.item, Item))
    BY <1>2, <1>5 DEF NotAhead
  <2>3. QED
    BY <1>1, <1>4, <2>1, <2>2 DEF NotBelow
<1>13. LastSeq'
  <2>1. ASSUME NEW n \in 1 .. Len(fwd'), IsPkt(fwd'[n]), fwd'[n].item = h.item
        PROVE  fwd'[n].seq = h.seq
    BY <1>2, <2>1 DEF SameSeq, h
  <2>2. Sending /\ Item = h.item => seq = h.seq
    BY <1>2 DEF SameSeq, h
  <2>3. QED
    BY <1>1, <1>4, <2>1, <2>2 DEF LastSeq, IsLastSeq, h
<1>14. QED
  BY <1>7, <1>8, <1>9, <1>10, <1>11, <1>12, <1>13

\* The CAN bytes of a cancelled session are no ordered frames.
LEMMA SenderCancels ==
    ASSUME TypeInv, OrderInv, SendCancel, UNCHANGED recvVars
    PROVE  OrderInv'
<1> USE DEF OrderInv, recvVars
<1>1. /\ Item' = Item /\ Last' = Last /\ seq' \in 0 .. SeqMod - 1
      /\ ~Fresh' /\ ~Sending'
  BY DEF SendCancel, Item, Last, Fresh, Sending
<1>2. /\ Len(fwd) \in Nat /\ Len(fwd') = Len(fwd) + 2
      /\ \A n \in 1 .. Len(fwd') :
           \/ n \in 1 .. Len(fwd) /\ fwd'[n] = fwd[n]
           \/ fwd'[n].kind = "CAN"
  BY DEF SendCancel, TypeInv, TypeOK, LineTypeOK
<1>3. Kinds' /\ GotBlocks' /\ InOrder'
  BY <1>2 DEF Kinds, GotBlocks, InOrder, IsPkt
<1>4. FwdSorted' /\ NotAhead'
  BY <1>1, <1>2 DEF FwdSorted, NotAhead, Ordered
<1>5. SameSeq' /\ NotBelow'
  BY <1>1, <1>2 DEF SameSeq, NotBelow, IsPkt, Ordered
<1>6. LastSeq'
  BY <1>1, <1>2 DEF LastSeq, IsPkt, IsLastSeq
<1>7. QED
  BY <1>3, <1>4, <1>5, <1>6

LEMMA OrderSender ==
    ASSUME TypeInv, OrderInv, "behead" \notin Faults,
           SendCall \/ SendPkt \/ SendTimeout, UNCHANGED recvVars
    PROVE  OrderInv'
<1> USE DEF Fresh, Sending, lineVars
<1>1. CASE SendCall
  BY <1>1, SenderStays
     DEF SendCall, SendStart, SendLoop, SendEot, SendClose, EnterPkt
<1>2. CASE SyncByte
  BY <1>2, SenderStays DEF SyncByte, Reads
<1>3. CASE SyncIgnore
  BY <1>3, SenderStays DEF SyncIgnore, Reads, sendVars
<1>4. CASE SyncCan
  BY <1>4, SenderStays DEF SyncCan, Reads, Fail
<1>5. CASE Transmit
  <2> DEFINE f == [kind |-> "PKT", seq |-> seq, item |-> Item, cond |-> "good"]
             e == [f EXCEPT !.kind = "EOT"]
             p == IF sblk = EotBlk THEN e ELSE f
  <2>1. p \in PktFrames /\ p.item = Item /\ p.seq = seq
    BY DEF PktFrames, Item, Items, Conditions, TypeInv, TypeOK, SendTypeOK
  <2>2. p.kind = IF sblk = EotBlk THEN "EOT" ELSE "PKT"
    OBVIOUS
  <2>3. PutFrame(p) \/ PutEot(p)
    BY <1>5 DEF Transmit
  <2> HIDE DEF p
  <2>4. CASE fwd' = fwd \o <<>>
    <3>1. fwd' = fwd
      BY <2>4 DEF TypeInv, TypeOK, LineTypeOK
    <3>2. QED
      BY <1>5, <3>1, SenderStays DEF Transmit
  <2>5. CASE \E g : Arrives(p, g) /\ fwd' = fwd \o <<g>>
    BY <1>5, <2>1, <2>2, <2>5, SenderTransmits DEF Transmit, Arrives
  <2>6. QED
    BY <2>1, <2>3, <2>4, <2>5, FrameArrives
<1>6. CASE ReplyAck
  <2>1. CASE sres' = "done"
    BY <1>6, <2>1, SenderStays DEF ReplyAck, Reads, TypeInv, Live
  <2>2. CASE sres' # "done"
    <3>1. Before(Item, Item') /\ Item' \in Items
      BY <1>6, <2>2
         DEF ReplyAck, Item, Items, Before, TypeInv, TypeOK, SendTypeOK, Live
    <3>2. QED
      BY <1>6, <3>1, SenderAdvances DEF ReplyAck, Reads
  <2>3. QED
    BY <2>1, <2>2
<1>7. CASE ReplyNak
  BY <1>7, SenderStays DEF ReplyNak, Reads
<1>8. CASE ReplyRefused
  BY <1>8, SenderStays DEF ReplyRefused, Reads
<1>9. CASE Flush
  BY <1>9, SenderStays DEF Flush, Fail
<1>10. CASE FlushEnd
  BY <1>10, SenderStays DEF FlushEnd, Fail
<1>11. CASE SyncTimeout
  BY <1>11, SenderStays DEF SyncTimeout, Fail
<1>12. CASE ReplyTimeout
  BY <1>12, SenderStays DEF ReplyTimeout
<1>13. QED
  BY <1>1, <1>2, <1>3, <1>4, <1>5, <1>6, <1>7, <1>8, <1>9, <1>10, <1>11, <1>12
     DEF SendPkt, SendTimeout

LEMMA OrderReceiver ==
    ASSUME TypeInv, OrderInv, "behead" \notin Faults,
           RecvLoop \/ RecvPkt \/ RecvTimeout, UNCHANGED sendVars
    PROVE  OrderInv'
<1> USE DEF lineVars
<1>1. rpc # "app" => rres = "run"
  BY DEF TypeInv, Live
<1>2. ASSUME Hunts("STRAY") PROVE FALSE
  <2>1. Head(fwd) = fwd[1] /\ 1 \in 1 .. Len(fwd)
    BY <1>2 DEF Hunts, Pop, TypeInv, TypeOK, LineTypeOK
  <2>2. QED
    BY <1>2, <2>1 DEF Hunts, OrderInv, Kinds
<1>3. CASE RecvLoop
  BY <1>3, ReceiverSkips DEF RecvLoop
<1>4. CASE SendSync
  BY <1>4, ReceiverSkips DEF SendSync
<1>5. CASE RecvCan
  BY <1>5, ReceiverSkips DEF RecvCan, Hunts, Pop, Return
<1>6. CASE RecvStray
  BY <1>2, <1>6 DEF RecvStray
<1>7. CASE RecvShort \/ RecvMore \/ RecvBad \/ RecvWrong \/ RecvFlush
  BY <1>7, ReceiverSkips
     DEF RecvShort, RecvMore, RecvBad, RecvWrong, RecvFlush, HuntsGood, Hunts,
         Pop, Moves
<1>8. CASE RecvDuplicate
  BY <1>8, ReceiverSkips DEF RecvDuplicate, HuntsGood, Hunts, Pop
<1>9. CASE RecvFlushEnd
  BY <1>9, ReceiverSkips DEF RecvFlushEnd, GiveUp, Return
<1>10. CASE RecvTimeout
  BY <1>1, <1>10, ReceiverSkips DEF RecvTimeout, GiveUp, Return
\* Nothing the receiver still sees precedes the head of the line.
<1>11. ASSUME Pop, Ordered(Head(fwd)), got # <<>>, Before(Last, Head(fwd).item),
              UNCHANGED <<sendVars, got>>
       PROVE  NoRepeat'
  <2>1. /\ Head(fwd) = fwd[1] /\ 1 \in 1 .. Len(fwd)
        /\ \A n \in 1 .. Len(fwd') :
             n + 1 \in 1 .. Len(fwd) /\ 1 < n + 1 /\ fwd'[n] = fwd[n + 1]
    BY <1>11 DEF Pop, TypeInv, TypeOK, LineTypeOK
  <2>2. /\ Item' = Item /\ Last' = Last /\ Sending' = Sending
        /\ Last \in Items /\ Head(fwd).item \in Items
    BY <1>11, <2>1, ItemTypes DEF Item, Last, Sending, sendVars
  <2>3. ASSUME NEW n \in 1 .. Len(fwd'), IsPkt(fwd'[n]) PROVE fwd'[n].item # Last
    <3>1. ~Before(fwd'[n].item, Head(fwd).item)
      BY <1>11, <2>1, <2>3 DEF OrderInv, FwdSorted, Ordered, IsPkt
    <3>2. QED
      BY <1>11, <3>1
  <2>4. ~Before(Item, Head(fwd).item)
    BY <1>11, <2>1 DEF OrderInv, NotAhead
  <2>5. QED
    BY <1>11, <2>2, <2>3, <2>4 DEF NoRepeat
<1>12. ASSUME Pop, Ordered(Head(fwd))
       PROVE  /\ got # <<>> => ~Before(Head(fwd).item, Last)
              /\ got # <<>> => Last \in Items /\ Last[2] # EotBlk
              /\ Head(fwd).item \in Items
              /\ Head(fwd).kind = "EOT" => Head(fwd).item[2] = EotBlk
  <2>1. Head(fwd) = fwd[1] /\ 1 \in 1 .. Len(fwd)
    BY <1>12 DEF Pop, TypeInv, TypeOK, LineTypeOK
  <2>2. got # <<>> => Last[2] # EotBlk
    BY DEF OrderInv, GotBlocks, Last, TypeInv, TypeOK, RecvTypeOK
  <2>3. QED
    BY <1>12, <2>1, <2>2, ItemTypes DEF OrderInv, NotBelow, Kinds
<1>13. CASE RecvEot
  <2>1. Pop /\ Ordered(Head(fwd)) /\ Head(fwd).kind = "EOT" /\ UNCHANGED got
    BY <1>13 DEF RecvEot, Hunts, Ordered, TakeEot
  <2>2. got # <<>> => Before(Last, Head(fwd).item)
    BY <1>12, <2>1, BeforeOrder
  <2>3. got # <<>> => NoRepeat'
    BY <1>11, <2>1, <2>2
  <2>4. QED
    BY <1>1, <1>13, <2>1, <2>3, ReceiverSkips
       DEF RecvEot, Hunts, Pop, TakeEot, Return
<1>14. CASE RecvHeader
  <2>1. got' = Append(got, Head(fwd).item) /\ pktno = 0 /\ pktno' = 1
    BY <1>14 DEF RecvHeader
  <2>2. Head(fwd).seq = (pktno' - 1) % SeqMod
    BY <1>14, <2>1 DEF RecvHeader, IsNext
  <2>3. QED
    BY <1>1, <1>14, <2>1, <2>2, ReceiverReturns
       DEF RecvHeader, HuntsGood, Hunts, Pop, IsPkt
<1>15. CASE RecvData
  <2> DEFINE h == Head(fwd)
  <2>1. /\ Pop /\ IsPkt(h) /\ Ordered(h) /\ ~IsDuplicate(h.seq) /\ rres = "run"
        /\ IsFallback(h.seq) \/ (IsNext(h.seq) /\ pktno > 0)
        /\ pktno' = pktno + (IF IsFallback(h.seq) THEN 2 ELSE 1)
        /\ got' \in {got, Append(got, h.item)}
    BY <1>1, <1>15 DEF RecvData, HuntsGood, Hunts, IsPkt, Ordered
  <2>2. h.seq = (pktno' - 1) % SeqMod /\ pktno' > 0
    <3>1. pktno \in Nat /\ 1 % SeqMod = 1
      BY DEF TypeInv, TypeOK, RecvTypeOK
    <3>2. CASE IsFallback(h.seq)
      BY <2>1, <3>1, <3>2 DEF IsFallback
    <3>3. CASE ~IsFallback(h.seq)
      BY <2>1, <3>1, <3>3 DEF IsNext
    <3>4. QED
      BY <3>2, <3>3
  <2>3. CASE got' = Append(got, h.item)
    BY <2>1, <2>2, <2>3, ReceiverReturns DEF Pop
  <2>4. CASE got' = got
    <3>1. ASSUME got # <<>> PROVE h.item # Last
      <4>1. h = fwd[1] /\ 1 \in 1 .. Len(fwd)
        BY <2>1 DEF Pop, TypeInv, TypeOK, LineTypeOK
      <4>2. QED
        BY <2>1, <3>1, <4>1 DEF OrderInv, LastSeq, IsLastSeq, IsDuplicate
    <3>2. got # <<>> => Before(Last, h.item)
      BY <1>12, <2>1, <3>1, BeforeOrder
    <3>3. got # <<>> => NoRepeat'
      BY <1>11, <2>1, <2>4, <3>2
    <3>4. QED
      BY <2>1, <2>4, <3>3, ReceiverSkips DEF Pop
  <2>5. QED
    BY <2>1, <2>3, <2>4
<1>16. QED
  BY <1>3, <1>4, <1>5, <1>6, <1>7, <1>8, <1>9, <1>10, <1>13, <1>14, <1>15
     DEF RecvPkt

LEMMA OrderStep ==
    ASSUME TypeInv, OrderInv, "behead" \notin Faults, [Next]_vars
    PROVE  OrderInv'
<1> USE DEF lineVars, recvVars, sendVars
<1>1. CASE Sender \/ SenderTimeout
  BY <1>1, OrderSender DEF Sender, SenderTimeout
<1>2. CASE Receiver \/ ReceiverTimeout
  BY <1>2, OrderReceiver DEF Receiver, ReceiverTimeout
<1>3. CASE SendCancel /\ UNCHANGED recvVars
  BY <1>3, SenderCancels
<1>4. CASE SendIoError /\ UNCHANGED recvVars
  BY <1>4, SenderStays DEF SendIoError, Fail, Fresh, Sending
<1>5. CASE (RecvCancel \/ RecvIoError) /\ UNCHANGED sendVars
  BY <1>5, ReceiverSkips DEF RecvCancel, RecvIoError, GiveUp, Return
<1>6. CASE UNCHANGED vars
  BY <1>6, ReceiverSkips DEF vars
<1>7. QED
  BY <1>1, <1>2, <1>3, <1>4, <1>5, <1>6 DEF Next, Abort, Ended

\* The application gets the blocks in order and none twice, for every number
\* of files and blocks, although sequence numbers wrap, acknowledgements answer
\* the wrong packet and packets are lost, damaged or sent again: all that is
\* excluded is a frame that loses its first byte (recv.c:193-210).
THEOREM DeliveryInOrder ==
    ASSUME "behead" \notin Faults PROVE Spec => []InOrder
<1>1. Init => TypeInv /\ OrderInv
  BY TypeInit, OrderInit
<1>2. TypeInv /\ OrderInv /\ [Next]_vars => (TypeInv /\ OrderInv)'
  BY TypeStep, OrderStep
<1>3. OrderInv => InOrder
  BY DEF OrderInv
<1>4. QED
  BY <1>1, <1>2, <1>3, PTL DEF Spec

(***************************************************************************)
(* The size of a file.  The count survives the end of a file and meets a   *)
(* new limit when the receiver falls back to XMODEM, so that both count    *)
(* and size must stay below the limit of XMODEM.                           *)
(***************************************************************************)

SizeInv ==
    /\ rmode = "XMODEM" => pktno > 0
    /\ Mode = "XMODEM" => rmode = "XMODEM"
    /\ fsize <= FileMax /\ count <= FileMax
    /\ WithinDeclared

LEMMA SizeReceiver ==
    ASSUME Y => DeclSize <= FileMax, TypeInv, SizeInv,
           RecvLoop \/ RecvPkt \/ RecvTimeout \/ RecvCancel \/ RecvIoError
    PROVE  SizeInv'
<1> USE DEF SizeInv, WithinDeclared
<1>1. fsize \in Nat /\ count \in Nat /\ pktno \in Nat /\ rmode \in {"XMODEM", "YMODEM"}
  BY DEF TypeInv, TypeOK, RecvTypeOK
<1>2. ASSUME UNCHANGED <<rmode, pktno, fsize, count>> PROVE SizeInv'
  BY <1>2
<1>3. ASSUME TakeEot PROVE SizeInv'
  BY <1>1, <1>3 DEF TakeEot, FirstPktno
<1>4. CASE RecvHeader
  BY <1>1, <1>4 DEF RecvHeader
<1>5. CASE RecvData
  <2> DEFINE s == Head(fwd).seq
  <2>1. /\ pktno' = pktno + (IF IsFallback(s) THEN 2 ELSE 1)
        /\ fsize' = (IF IsFallback(s) THEN FileMax ELSE fsize)
        /\ rmode' = (IF IsFallback(s) THEN "XMODEM" ELSE rmode)
        /\ IsFallback(s) \/ pktno > 0
        /\ \/ count < fsize' /\ count' = count + 1
           \/ count' = count
    BY <1>5 DEF RecvData, Room
  <2>2. QED
    BY <1>1, <2>1
<1>6. CASE ~RecvHeader /\ ~RecvData
  BY <1>2, <1>3, <1>6
     DEF RecvLoop, RecvPkt, RecvTimeout, RecvCancel, RecvIoError, SendSync,
         RecvEot, RecvCan, RecvStray, RecvShort, RecvMore, RecvBad,
         RecvDuplicate, RecvWrong, RecvFlush, RecvFlushEnd, Moves
<1>7. QED
  BY <1>4, <1>5, <1>6

\* The application never gets more of a file than the header declared, nor,
\* in XMODEM and after the fallback to it, more than the limit, whatever the
\* line does (recv.c:200-206, 219-221).
THEOREM SizeRespected ==
    ASSUME Y => DeclSize <= FileMax PROVE Spec => []WithinDeclared
<1>1. Init => SizeInv
  BY DEF Init, RecvInit, SizeInv, WithinDeclared, FirstPktno
<1>2. TypeInv /\ SizeInv /\ [Next]_vars => SizeInv'
  <2>1. SUFFICES ASSUME TypeInv, SizeInv, [Next]_vars PROVE SizeInv'
    OBVIOUS
  <2>2. CASE UNCHANGED recvVars
    BY <2>1, <2>2 DEF recvVars, SizeInv, WithinDeclared
  <2>3. CASE RecvLoop \/ RecvPkt \/ RecvTimeout \/ RecvCancel \/ RecvIoError
    BY <2>1, <2>3, SizeReceiver
  <2>4. QED
    BY <2>1, <2>2, <2>3
       DEF Next, Sender, SenderTimeout, Receiver, ReceiverTimeout, Abort, Ended,
           vars
<1>3. SizeInv => WithinDeclared
  BY DEF SizeInv
<1>4. QED
  BY TypeInit, TypeStep, <1>1, <1>2, <1>3, PTL DEF Spec
=============================================================================

--------------------------- MODULE YModem_proofs ---------------------------
(***************************************************************************)
(* A YMODEM batch over a line that alters packets and loses or alters      *)
(* replies, between applications that are as late as they like and devices *)
(* that fail: nothing is skipped, for every number of files and blocks,    *)
(* every sequence modulus and every retry limit.                           *)
(***************************************************************************)
EXTENDS XYModem_proofs

USE DEF Y, EotBlk, NullHeader
USE LineAssumption, SendAssumption, RecvAssumption, LateAssumption

\* The faults of the theorems.  Packets may be altered but are not lost, and
\* an altered EOT goes unseen.  Should the sender take a stale acknowledgement
\* for that EOT's, the number 0 of the next header must be told from those of
\* the last block and of the one after it.
NoiseOnly ==
    /\ Y
    /\ Faults \subseteq {"corrupt", "loseByte", "garble", "io"}
    /\ NBlocks =< DeclSize
    /\ "corrupt" \in Faults =>
         NBlocks % SeqMod # 0 /\ (NBlocks + 1) % SeqMod # 0

(***************************************************************************)
(* The invariant.  Sound is the receiver that has not found any damage.    *)
(***************************************************************************)

Sound == ~Damaged

\* The last item the receiver took off the line.
Taken == IF pktno > 0 THEN Last ELSE <<Last[1], EotBlk>>
Reached(i) == got # <<>> /\ ~Before(Taken, i)
OnLine(i) == \E n \in 1 .. Len(fwd) : Ordered(fwd[n]) /\ fwd[n].item = i

\* The line never loses the rest of a packet, and numbers are those of blocks.
Numbered ==
    /\ \A n \in 1 .. Len(fwd) :
         IsPkt(fwd[n]) =>
            fwd[n].cond # "short" /\ fwd[n].seq = fwd[n].item[2] % SeqMod
    /\ spc # "app" \/ sres = "run" =>
         (sblk \in 1 .. NBlocks => seq = sblk % SeqMod)
    /\ spc # "app" /\ sblk = 0 => seq = 0
    /\ rpc # "body"

\* The number the receiver expects is that of the item after Taken.
Expects ==
    /\ rmode = "YMODEM" /\ rres # "eof"
    /\ got = <<>> => pktno = 0
    /\ got # <<>> => \/ pktno = Last[2] + 1
                     \/ pktno = 0 /\ Last[2] = NBlocks
    /\ rres = "run" /\ pktno > 0 => count = pktno - 1 /\ fsize = DeclSize

NotUnder ==
    got # <<>> =>
        /\ \A n \in 1 .. Len(fwd) :
             Ordered(fwd[n]) => ~Before(fwd[n].item, Taken)
        /\ ~Before(Item, Taken)

\* An EOT may be missing from the line.
Kept(i) == i[2] = EotBlk => "corrupt" \notin Faults

\* What the sender has put on the line is still there or was taken.
Covered ==
    \A i \in Items :
        Kept(i) /\ (Before(i, Item) \/ (spc = "reply" /\ i = Item))
            => Reached(i) \/ OnLine(i)

\* What was taken was returned to the application.
Whole == \A i \in Items : i[2] # EotBlk /\ Reached(i) => Got(i)

NoiseInv ==
    /\ Numbered
    /\ Sound => Expects /\ NotUnder /\ Covered /\ Whole
    /\ NoGap /\ HeaderAfterWholeFile

(***************************************************************************)
(* Arithmetic of the sequence numbers.                                     *)
(***************************************************************************)

LEMMA ModUnique ==
    ASSUME NEW M \in Nat, M > 0, NEW q \in Int, NEW r \in 0 .. M - 1
    PROVE  (M * q + r) % M = r
<1> DEFINE a == M * q + r
           p == a \div M
           s == a % M
<1>1. a \in Int /\ p \in Int /\ s \in 0 .. M - 1 /\ a = M * p + s
  OBVIOUS
<1> HIDE DEF p, s
<1>2. M * (q - p) = s - r
  BY <1>1
<1>3. q - p \in Int /\ (q - p >= 1 => M * (q - p) >= M)
  BY <1>1
<1>4. q - p <= -1 => M * (q - p) <= -M
  BY <1>1
<1>5. q - p = 0
  BY <1>1, <1>2, <1>3, <1>4
<1>6. QED
  BY <1>1, <1>2, <1>5 DEF s

\* The number after that of block n, and that it differs.
LEMMA NextSeq ==
    ASSUME NEW n \in Nat
    PROVE  /\ n % SeqMod \in 0 .. SeqMod - 1
           /\ ((n % SeqMod) + 1) % SeqMod = (n + 1) % SeqMod
           /\ (n + 1) % SeqMod # n % SeqMod
           /\ 0 % SeqMod = 0 /\ 1 % SeqMod = 1 /\ (0 - 1) % SeqMod = SeqMod - 1
<1> DEFINE q == n \div SeqMod
           r == n % SeqMod
<1>1. q \in Int /\ r \in 0 .. SeqMod - 1 /\ n = SeqMod * q + r
  OBVIOUS
<1> HIDE DEF q, r
<1>2. CASE r < SeqMod - 1
  <2>1. r + 1 \in 0 .. SeqMod - 1 /\ n + 1 = SeqMod * q + (r + 1)
    BY <1>1, <1>2
  <2>2. (n + 1) % SeqMod = r + 1
    BY <1>1, <2>1, ModUnique
  <2>3. (r + 1) % SeqMod = r + 1
    BY <2>1
  <2>4. ((n % SeqMod) + 1) % SeqMod = (n + 1) % SeqMod /\ (n + 1) % SeqMod # r
    BY <1>1, <2>2, <2>3 DEF r
  <2>5. QED
    BY <1>1, <2>4 DEF r
<1>3. CASE r = SeqMod - 1
  <2>1. n + 1 = SeqMod * (q + 1) + 0 /\ q + 1 \in Int
    BY <1>1, <1>3
  <2>2. (n + 1) % SeqMod = 0
    BY <2>1, ModUnique
  <2>3. (r + 1) % SeqMod = 0
    BY <1>3
  <2>4. QED
    BY <1>1, <1>3, <2>2, <2>3 DEF r
<1>4. QED
  BY <1>1, <1>2, <1>3

(***************************************************************************)
(* Steps of the sender.                                                    *)
(***************************************************************************)

LEMMA NoiseInit == ASSUME NoiseOnly PROVE Init => NoiseInv
<1> SUFFICES ASSUME Init PROVE NoiseInv
  OBVIOUS
<1> USE DEF Init, LineInit, SendOpen, RecvInit, NoiseOnly
<1>1. Numbered
  BY DEF Numbered, FirstSeq
<1>2. Expects /\ NotUnder /\ Whole
  BY DEF Expects, NotUnder, Whole, Reached, FirstPktno
<1>3. Covered
  BY DEF Covered, Before, Item, Items
<1>4. NoGap /\ HeaderAfterWholeFile
  BY DEF NoGap, HeaderAfterWholeFile
<1>5. QED
  BY <1>1, <1>2, <1>3, <1>4 DEF NoiseInv

\* What the sender is known to have put on the line.
Sent(i) == Kept(i) /\ (Before(i, Item) \/ (spc = "reply" /\ i = Item))

LEMMA CoveredSent ==
    Covered <=> \A i \in Items : Sent(i) => Reached(i) \/ OnLine(i)
BY DEF Covered, Sent

\* Steps that leave the line alone and do not go back.
LEMMA SenderGoesOn ==
    ASSUME NoiseInv, UNCHANGED <<fwd, recvVars>>, Numbered',
           \A i \in Items : Sent(i)' => Sent(i),
           Item' \in Items, Item \in Items, got # <<>> => Taken \in Items,
           Item' = Item \/ Before(Item, Item')
    PROVE  NoiseInv'
<1> USE DEF recvVars
<1>1. Taken' = Taken /\ (Sound' <=> Sound) /\ Last' = Last
  BY DEF Taken, Last, Sound, Damaged
<1>2. \A i \in Items : (Reached(i)' <=> Reached(i)) /\ (OnLine(i)' <=> OnLine(i))
                       /\ (Got(i)' <=> Got(i))
  BY <1>1 DEF Reached, OnLine, Got
<1>3. Sound => Covered'
  BY <1>2, CoveredSent DEF NoiseInv, Covered, Sent
<1>4. Sound => Expects' /\ Whole'
  BY <1>1, <1>2 DEF NoiseInv, Expects, Whole
<1>5. Sound => NotUnder'
  <2>1. SUFFICES ASSUME Sound, got # <<>>, NotUnder PROVE NotUnder'
    BY DEF NoiseInv, NotUnder
  <2>2. ~Before(Item', Taken)
    BY <2>1, BeforeOrder, BeforeTrans DEF NotUnder
  <2>3. QED
    BY <1>1, <2>1, <2>2 DEF NotUnder
<1>6. NoGap' /\ HeaderAfterWholeFile'
  BY DEF NoiseInv, NoGap, HeaderAfterWholeFile
<1>7. QED
  BY <1>1, <1>3, <1>4, <1>5, <1>6 DEF NoiseInv

LEMMA TakenType ==
    ASSUME TypeInv, got # <<>>
    PROVE  Taken \in Items /\ Last \in Items
<1>1. Last \in Items
  BY ItemTypes
<1>2. QED
  BY <1>1 DEF Taken, Items

\* The sender puts its item on the line, where only an EOT can vanish.
LEMMA SenderPuts ==
    ASSUME NoiseOnly, TypeInv, OrderInv, NoiseInv, Transmit, UNCHANGED recvVars
    PROVE  NoiseInv'
<1> USE DEF recvVars
<1> DEFINE f == [kind |-> "PKT", seq |-> seq, item |-> Item, cond |-> "good"]
           e == [f EXCEPT !.kind = "EOT"]
           p == IF sblk = EotBlk THEN e ELSE f
<1>1. /\ p.item = Item /\ p.seq = seq /\ p.cond = "good"
      /\ p.kind = (IF sblk = EotBlk THEN "EOT" ELSE "PKT")
      /\ spc = "tx" /\ spc' = "reply" /\ sres = "run"
      /\ UNCHANGED <<sfile, sblk, seq, sres>>
      /\ fwd \in Seq(Frames)
  BY DEF Transmit, TypeInv, TypeOK, LineTypeOK, Live
<1>2. \/ \E g : /\ fwd' = fwd \o <<g>>
                /\ g.item = Item /\ g.seq = seq /\ g.kind = p.kind
                /\ g.cond \in {"good", "bad"}
      \/ fwd' = fwd /\ sblk = EotBlk /\ "corrupt" \in Faults
  <2>1. CASE sblk = EotBlk
    <3>1. PICK o \in EotOutcomes(e) : fwd' = fwd \o o
      BY <2>1 DEF Transmit, PutEot
    <3>2. o = <<e>> \/ (o = <<>> /\ "corrupt" \in Faults)
      BY <3>1 DEF EotOutcomes, NoiseOnly
    <3>3. fwd \o <<>> = fwd
      BY <1>1
    <3>4. QED
      BY <1>1, <2>1, <3>1, <3>2, <3>3
  <2>2. CASE sblk # EotBlk
    <3> DEFINE bad == [f EXCEPT !.cond = "bad"]
    <3>1. PICK o \in FrameOutcomes(f) : fwd' = fwd \o o
      BY <2>2 DEF Transmit, PutFrame
    <3>2. o \in {<<f>>, <<bad>>}
      BY <3>1, Zenon DEF FrameOutcomes, NoiseOnly
    <3>3. /\ f.item = Item /\ f.seq = seq /\ f.kind = "PKT" /\ f.cond = "good"
          /\ bad.item = Item /\ bad.seq = seq /\ bad.kind = "PKT"
          /\ bad.cond = "bad"
      OBVIOUS
    <3> HIDE DEF f, bad
    <3>4. CASE o = <<f>>
      BY <1>1, <2>2, <3>1, <3>3, <3>4
    <3>5. CASE o = <<bad>>
      BY <1>1, <2>2, <3>1, <3>3, <3>5
    <3>6. QED
      BY <3>2, <3>4, <3>5
  <2>3. QED
    BY <2>1, <2>2
<1>3. /\ \A n \in 1 .. Len(fwd) : n \in 1 .. Len(fwd') /\ fwd'[n] = fwd[n]
      /\ \A n \in 1 .. Len(fwd') :
           \/ n \in 1 .. Len(fwd)
           \/ /\ fwd'[n].item = Item /\ fwd'[n].seq = seq
              /\ fwd'[n].kind = p.kind /\ fwd'[n].cond \in {"good", "bad"}
      /\ \/ \E n \in 1 .. Len(fwd') :
              fwd'[n].item = Item /\ fwd'[n].kind = p.kind
         \/ sblk = EotBlk /\ "corrupt" \in Faults
  <2>1. CASE fwd' = fwd /\ sblk = EotBlk /\ "corrupt" \in Faults
    BY <2>1
  <2>2. CASE \E g : /\ fwd' = fwd \o <<g>>
                    /\ g.item = Item /\ g.seq = seq /\ g.kind = p.kind
                    /\ g.cond \in {"good", "bad"}
    <3>1. PICK g : /\ fwd' = fwd \o <<g>>
                   /\ g.item = Item /\ g.seq = seq /\ g.kind = p.kind
                   /\ g.cond \in {"good", "bad"}
      BY <2>2
    <3>2. /\ Len(fwd) \in Nat /\ Len(fwd') = Len(fwd) + 1
          /\ fwd'[Len(fwd')] = g
          /\ \A n \in 1 .. Len(fwd) : fwd'[n] = fwd[n]
      BY <1>1, <3>1
    <3> HIDE DEF p
    <3>3. QED
      BY <3>1, <3>2
  <2>3. QED
    BY <1>2, <2>1, <2>2
<1>4. Item' = Item /\ Taken' = Taken /\ (Sound' <=> Sound) /\ Last' = Last
  BY <1>1 DEF Item, Taken, Last, Sound, Damaged
<1>5. Item \in Items /\ Item[2] = sblk /\ Item = <<sfile, sblk>>
  BY ItemTypes DEF Item
<1> HIDE DEF p
<1>6. Numbered'
  <2>1. ASSUME NEW n \in 1 .. Len(fwd'), IsPkt(fwd'[n])
        PROVE  fwd'[n].cond # "short" /\ fwd'[n].seq = fwd'[n].item[2] % SeqMod
    <3>1. CASE n \in 1 .. Len(fwd)
      BY <1>3, <2>1, <3>1 DEF NoiseInv, Numbered
    <3>2. CASE n \notin 1 .. Len(fwd)
      <4>1. /\ fwd'[n].item = Item /\ fwd'[n].seq = seq /\ p.kind = "PKT"
            /\ fwd'[n].cond \in {"good", "bad"}
        BY <1>3, <2>1, <3>2 DEF IsPkt
      <4>2. sblk \in 0 .. NBlocks
        BY <1>1, <4>1 DEF TypeInv, TypeOK, SendTypeOK
      <4>3. seq = sblk % SeqMod
        BY <1>1, <4>2, NextSeq DEF NoiseInv, Numbered
      <4>4. QED
        BY <1>5, <4>1, <4>3
    <3>3. QED
      BY <3>1, <3>2
  <2>2. QED
    BY <1>1, <2>1 DEF NoiseInv, Numbered
<1>7. ASSUME Sound PROVE NotUnder'
  <2>1. ASSUME got # <<>>, NEW n \in 1 .. Len(fwd'), Ordered(fwd'[n])
        PROVE  ~Before(fwd'[n].item, Taken)
    BY <1>3, <1>7, <2>1 DEF NoiseInv, NotUnder
  <2>2. QED
    BY <1>4, <1>7, <2>1 DEF NoiseInv, NotUnder
<1>8. ASSUME Sound PROVE Covered'
  <2>1. SUFFICES ASSUME NEW i \in Items, Kept(i), Before(i, Item) \/ i = Item
                 PROVE  Reached(i)' \/ OnLine(i)'
    BY <1>4 DEF Covered
  <2>2. CASE Before(i, Item)
    <3>1. Reached(i) \/ OnLine(i)
      BY <1>8, <2>1, <2>2 DEF NoiseInv, Covered
    <3>2. OnLine(i) => OnLine(i)'
      BY <1>3 DEF OnLine
    <3>3. QED
      BY <1>4, <3>1, <3>2 DEF Reached
  <2>3. CASE i = Item
    <3>1. p.kind \in {"PKT", "EOT"}
      BY <1>1
    <3>2. ~(sblk = EotBlk /\ "corrupt" \in Faults)
      BY <1>5, <2>1, <2>3 DEF Kept
    <3>3. QED
      BY <1>3, <2>3, <3>1, <3>2 DEF OnLine, Ordered
  <2>4. QED
    BY <2>1, <2>2, <2>3
<1>9. ASSUME Sound PROVE Expects' /\ Whole'
  BY <1>4, <1>9 DEF NoiseInv, Expects, Whole, Reached, Got
<1>10. NoGap' /\ HeaderAfterWholeFile'
  BY DEF NoiseInv, NoGap, HeaderAfterWholeFile
<1>11. QED
  BY <1>4, <1>6, <1>7, <1>8, <1>9, <1>10 DEF NoiseInv

LEMMA NoiseCancel ==
    ASSUME TypeInv, NoiseInv, SendCancel, UNCHANGED recvVars
    PROVE  NoiseInv'
<1> USE DEF recvVars
<1>1. /\ Len(fwd) \in Nat /\ Len(fwd') = Len(fwd) + 2
      /\ \A n \in 1 .. Len(fwd) : fwd'[n] = fwd[n]
      /\ \A n \in 1 .. Len(fwd') :
           n \in 1 .. Len(fwd) \/ fwd'[n].kind = "CAN"
  BY DEF SendCancel, TypeInv, TypeOK, LineTypeOK
<1>2. /\ Item' = Item /\ Taken' = Taken /\ (Sound' <=> Sound) /\ Last' = Last
      /\ spc = "app" /\ spc' = "app" /\ sres' = "cancelled"
  BY DEF SendCancel, Item, Taken, Last, Sound, Damaged
<1>3. Numbered'
  BY <1>1, <1>2 DEF NoiseInv, Numbered, IsPkt
<1>4. Sound => NotUnder'
  BY <1>1, <1>2 DEF NoiseInv, NotUnder, Ordered
<1>5. ASSUME Sound PROVE Covered'
  <2>1. SUFFICES ASSUME NEW i \in Items, Kept(i), Before(i, Item)
                 PROVE  Reached(i)' \/ OnLine(i)'
    BY <1>2 DEF Covered
  <2>2. Reached(i) \/ OnLine(i)
    BY <1>5, <2>1 DEF NoiseInv, Covered
  <2>3. OnLine(i) => OnLine(i)'
    BY <1>1 DEF OnLine
  <2>4. QED
    BY <1>2, <2>2, <2>3 DEF Reached
<1>6. Sound => Expects' /\ Whole'
  BY <1>2 DEF NoiseInv, Expects, Whole, Reached, Got
<1>7. NoGap' /\ HeaderAfterWholeFile'
  BY DEF NoiseInv, NoGap, HeaderAfterWholeFile
<1>8. QED
  BY <1>2, <1>3, <1>4, <1>5, <1>6, <1>7 DEF NoiseInv

LEMMA NoiseSender ==
    ASSUME NoiseOnly, TypeInv, OrderInv, NoiseInv,
           SendCall \/ SendPkt \/ SendTimeout \/ SendIoError,
           UNCHANGED recvVars
    PROVE  NoiseInv'
<1>1. Item \in Items /\ (got # <<>> => Taken \in Items)
  BY ItemTypes, TakenType
\* Steps that stay at the item.
<1>2. ASSUME UNCHANGED <<fwd, sfile, sblk>>, Numbered',
             spc' = "reply" => spc = "reply"
      PROVE  NoiseInv'
  <2>1. Item' = Item
    BY <1>2 DEF Item
  <2>2. \A i \in Items : Sent(i)' => Sent(i)
    BY <1>2, <2>1 DEF Sent, Kept
  <2>3. QED
    BY <1>1, <1>2, <2>1, <2>2, SenderGoesOn
<1>3. Numbered
  BY DEF NoiseInv
<1> USE DEF lineVars, recvVars
<1>4. CASE SendCall
  <2>1. Numbered'
    BY <1>3, <1>4
       DEF Numbered, SendCall, SendStart, SendLoop, SendEot, SendClose, EnterPkt
  <2>2. QED
    BY <1>2, <1>4, <2>1
       DEF SendCall, SendStart, SendLoop, SendEot, SendClose, EnterPkt
<1>5. CASE SyncByte \/ SyncIgnore
  <2>1. /\ UNCHANGED <<fwd, sfile, sblk, seq, sres>>
        /\ spc = "sync" /\ spc' \in {"sync", "tx"}
    BY <1>5 DEF SyncByte, SyncIgnore, Reads, sendVars
  <2>2. Numbered'
    BY <1>3, <2>1 DEF Numbered
  <2>3. QED
    BY <1>2, <2>1, <2>2
<1>6. ASSUME UNCHANGED fwd, Fail PROVE NoiseInv'
  <2>1. Numbered'
    BY <1>3, <1>6 DEF Numbered, Fail
  <2>2. QED
    BY <1>2, <1>6, <2>1 DEF Fail
<1>7. ASSUME UNCHANGED <<fwd, sfile, sblk, seq, sres>>,
             spc # "app", spc' \in {"sync", "tx", "flush"}
      PROVE  NoiseInv'
  <2>1. Numbered'
    BY <1>3, <1>7 DEF Numbered
  <2>2. QED
    BY <1>2, <1>7, <2>1
<1>8. CASE SyncCan \/ FlushEnd
  BY <1>6, <1>8 DEF SyncCan, FlushEnd, Reads
<1>9. CASE Transmit
  BY <1>9, SenderPuts
<1>10. CASE ReplyAck
  <2>1. CASE sres' = "done"
    <3>1. Numbered'
      BY <1>3, <1>10, <2>1 DEF Numbered, ReplyAck, Reads, TypeInv, Live
    <3>2. QED
      BY <1>2, <1>10, <2>1, <3>1 DEF ReplyAck, Reads, TypeInv, Live
  <2>2. CASE sres' # "done"
    <3> USE DEF TypeInv, TypeOK, SendTypeOK, Live
    <3>1. /\ UNCHANGED fwd /\ spc = "reply" /\ spc' = "app" /\ sres = "run"
          /\ sfile \in Nat /\ sblk \in Nat
          /\ \/ /\ sblk = 0 /\ sblk' = 1 /\ sfile' = sfile /\ sfile <= NFiles
                /\ seq' = (seq + 1) % SeqMod
             \/ /\ sblk \in 1 .. NBlocks /\ sblk' = sblk + 1 /\ sfile' = sfile
                /\ sfile <= NFiles /\ seq' = (seq + 1) % SeqMod
             \/ /\ sblk = EotBlk /\ sblk' = 0 /\ sfile' = sfile + 1
                /\ sfile <= NFiles
      BY <1>10, <2>2 DEF ReplyAck, Reads, NoiseOnly
    <3>2. Item' \in Items /\ Before(Item, Item')
      BY <3>1 DEF Item, Items, Before
    <3>3. \A i \in Items : Sent(i)' => Sent(i)
      <4>1. SUFFICES ASSUME NEW i \in Items, Kept(i), Before(i, Item')
                     PROVE  Before(i, Item) \/ i = Item
        BY <3>1 DEF Sent, Kept
      <4>2. i[1] \in Nat /\ i[2] \in Nat /\ i[2] <= EotBlk /\ i = <<i[1], i[2]>>
        BY DEF Items
      <4>3. QED
        BY <3>1, <4>1, <4>2 DEF Before, Item
    <3>4. Numbered'
      <4>1. sblk' \in 1 .. NBlocks => seq' = sblk' % SeqMod
        <5>1. CASE sblk = 0
          <6>1. seq = 0
            BY <1>3, <3>1, <5>1 DEF Numbered
          <6>2. QED
            BY <3>1, <5>1, <6>1, NextSeq
        <5>2. CASE sblk \in 1 .. NBlocks
          <6>1. seq = sblk % SeqMod
            BY <1>3, <3>1, <5>2 DEF Numbered
          <6>2. ((sblk % SeqMod) + 1) % SeqMod = (sblk + 1) % SeqMod
            BY <3>1, NextSeq
          <6>3. QED
            BY <3>1, <5>2, <6>1, <6>2
        <5>3. CASE sblk = EotBlk
          BY <3>1, <5>3
        <5>4. QED
          BY <3>1, <5>1, <5>2, <5>3
      <4>2. QED
        BY <1>3, <3>1, <4>1 DEF Numbered
    <3>5. QED
      BY <1>1, <3>1, <3>2, <3>3, <3>4, SenderGoesOn
  <2>3. QED
    BY <2>1, <2>2
<1>11. CASE ReplyNak \/ ReplyRefused \/ ReplyTimeout
  BY <1>7, <1>11 DEF ReplyNak, ReplyRefused, ReplyTimeout, Reads
<1>12. CASE Flush
  BY <1>6, <1>7, <1>12 DEF Flush
<1>13. CASE SyncTimeout
  BY <1>6, <1>7, <1>13 DEF SyncTimeout
<1>14. CASE SendIoError
  BY <1>6, <1>7, <1>14 DEF SendIoError
<1>15. QED
  BY <1>4, <1>5, <1>8, <1>9, <1>10, <1>11, <1>12, <1>13, <1>14
     DEF SendPkt, SendTimeout

(***************************************************************************)
(* Steps of the receiver.                                                  *)
(***************************************************************************)

\* Nothing is taken off the line.
LEMMA ReceiverWaits ==
    ASSUME NoiseInv,
           UNCHANGED <<sendVars, fwd, got, pktno, fsize, count, rmode>>,
           Sound' => Sound, rpc' # "body", rres' \in {rres, "failed", "cancelled"}
    PROVE  NoiseInv'
<1> USE DEF sendVars
<1>1. Taken' = Taken /\ Last' = Last /\ Item' = Item
  BY DEF Taken, Last, Item
<1>2. Numbered'
  BY DEF NoiseInv, Numbered
<1>3. Sound' => NotUnder' /\ Covered' /\ Whole'
  BY <1>1 DEF NoiseInv, NotUnder, Covered, Whole, Reached, OnLine, Got, Kept
<1>4. Sound' => Expects'
  BY <1>1 DEF NoiseInv, Expects, Sound, Damaged
<1>5. NoGap' /\ HeaderAfterWholeFile'
  BY DEF NoiseInv, NoGap, HeaderAfterWholeFile
<1>6. QED
  BY <1>2, <1>3, <1>4, <1>5 DEF NoiseInv

\* The receiver finds the transfer damaged and returns nothing.
LEMMA ReceiverObjects ==
    ASSUME TypeInv, NoiseInv, UNCHANGED <<sendVars, got>>, ~Sound', rpc' # "body",
           fwd' = fwd \/ Pop
    PROVE  NoiseInv'
<1> USE DEF sendVars
<1>1. \A n \in 1 .. Len(fwd') : \E m \in 1 .. Len(fwd) : fwd'[n] = fwd[m]
  <2>1. CASE fwd' = fwd
    BY <2>1
  <2>2. CASE Pop
    BY <2>2 DEF Pop, TypeInv, TypeOK, LineTypeOK
  <2>3. QED
    BY <2>1, <2>2
<1>2. Numbered'
  <2>1. ASSUME NEW n \in 1 .. Len(fwd'), IsPkt(fwd'[n])
        PROVE  fwd'[n].cond # "short" /\ fwd'[n].seq = fwd'[n].item[2] % SeqMod
    <3>1. PICK m \in 1 .. Len(fwd) : fwd'[n] = fwd[m]
      BY <1>1
    <3>2. IsPkt(fwd[m])
      BY <2>1, <3>1 DEF IsPkt
    <3>3. QED
      BY <3>1, <3>2 DEF NoiseInv, Numbered
  <2>2. QED
    BY <2>1 DEF NoiseInv, Numbered
<1>3. NoGap' /\ HeaderAfterWholeFile'
  BY DEF NoiseInv, NoGap, HeaderAfterWholeFile
<1>4. QED
  BY <1>2, <1>3 DEF NoiseInv

\* What follows an item, an EOT that nobody saw aside.
Follows(i, j) ==
    \/ j = <<i[1], i[2] + 1>>
    \/ i[2] = EotBlk /\ j = <<i[1] + 1, 0>>
    \/ "corrupt" \in Faults /\ i[2] = NBlocks /\ j = <<i[1] + 1, 0>>

\* What lies at the head of the line follows what was taken or repeats it.
LEMMA HeadFollows ==
    ASSUME NoiseOnly, TypeInv, OrderInv, NoiseInv, Sound,
           Pop, Ordered(Head(fwd))
    PROVE  /\ Head(fwd) = fwd[1] /\ 1 \in 1 .. Len(fwd)
           /\ Head(fwd).item \in Items
           /\ got = <<>> => Head(fwd).item = <<1, 0>>
           /\ got # <<>> => \/ Head(fwd).item = Taken
                            \/ Follows(Taken, Head(fwd).item)
<1> DEFINE h == Head(fwd).item
<1>1. Head(fwd) = fwd[1] /\ 1 \in 1 .. Len(fwd)
  BY DEF Pop, TypeInv, TypeOK, LineTypeOK
<1>2. h \in Items /\ Item \in Items /\ Ordered(fwd[1]) /\ h = fwd[1].item
  BY <1>1, ItemTypes
<1>3. ~Before(Item, h)
  BY <1>1, <1>2 DEF OrderInv, NotAhead
\* What was sent and not taken is not before the head.
<1>4. ASSUME NEW s \in Items, Kept(s), Before(s, h) PROVE Reached(s)
  <2>1. Before(s, Item)
    BY <1>2, <1>3, <1>4, BeforeTrans
  <2>2. Reached(s) \/ OnLine(s)
    BY <1>4, <2>1 DEF NoiseInv, Covered
  <2>3. ASSUME NEW n \in 1 .. Len(fwd), Ordered(fwd[n]), fwd[n].item = s
        PROVE  FALSE
    <3>1. CASE n = 1
      BY <1>2, <1>4, <2>3, <3>1, BeforeOrder
    <3>2. CASE 1 < n
      BY <1>1, <1>2, <1>4, <2>3, <3>2 DEF OrderInv, FwdSorted
    <3>3. QED
      BY <3>1, <3>2
  <2>4. QED
    BY <2>2, <2>3 DEF OnLine
<1> HIDE DEF h
<1>5. ASSUME got = <<>> PROVE h = <<1, 0>>
  <2>1. <<1, 0>> \in Items /\ Kept(<<1, 0>>)
    BY DEF Items, Kept
  <2>2. ~Before(<<1, 0>>, h)
    BY <1>4, <1>5, <2>1 DEF Reached
  <2>3. QED
    BY <1>2, <2>2 DEF Before, Items
<1>6. ASSUME got # <<>> PROVE h = Taken \/ Follows(Taken, h)
  <2>1. Taken \in Items
    BY <1>6, TakenType
  <2>2. ~Before(h, Taken)
    BY <1>1, <1>2, <1>6 DEF NoiseInv, NotUnder
  <2>3. ASSUME NEW s \in Items, Kept(s), Before(Taken, s) PROVE ~Before(s, h)
    BY <1>4, <1>6, <2>3 DEF Reached
  <2> DEFINE f == Taken[1]
             b == Taken[2]
  <2>4. /\ Taken = <<f, b>> /\ f \in 1 .. NFiles + 1 /\ b \in 0 .. EotBlk
        /\ h = <<h[1], h[2]>> /\ h[1] \in 1 .. NFiles + 1 /\ h[2] \in 0 .. EotBlk
    BY <1>2, <2>1 DEF Items
  <2>5. SUFFICES ASSUME Before(Taken, h) PROVE Follows(Taken, h)
    BY <1>2, <2>1, <2>2, BeforeOrder
  <2> HIDE DEF f, b
  <2>6. CASE b < NBlocks \/ (b = NBlocks /\ "corrupt" \notin Faults)
    <3>1. <<f, b + 1>> \in Items /\ Kept(<<f, b + 1>>)
          /\ Before(Taken, <<f, b + 1>>)
      BY <2>4, <2>6 DEF Items, Kept, Before
    <3>2. ~Before(<<f, b + 1>>, h)
      BY <2>3, <3>1
    <3>3. h = <<f, b + 1>>
      BY <2>4, <2>5, <3>2 DEF Before
    <3>4. QED
      BY <2>4, <3>3 DEF Follows
  <2>7. CASE b = EotBlk \/ (b = NBlocks /\ "corrupt" \in Faults)
    <3>1. CASE h[1] = f
      BY <2>4, <2>5, <2>7, <3>1 DEF Follows, Before
    <3>2. CASE h[1] # f
      <4>1. h[1] > f
        BY <2>4, <2>5, <3>2 DEF Before
      <4>2. <<f + 1, 0>> \in Items /\ Kept(<<f + 1, 0>>)
            /\ Before(Taken, <<f + 1, 0>>)
        BY <2>4, <4>1 DEF Items, Kept, Before
      <4>3. ~Before(<<f + 1, 0>>, h)
        BY <2>3, <4>2
      <4>4. h = <<f + 1, 0>>
        BY <2>4, <4>1, <4>3 DEF Before
      <4>5. QED
        BY <2>4, <2>7, <4>4 DEF Follows
    <3>3. QED
      BY <3>1, <3>2
  <2>8. QED
    BY <2>4, <2>6, <2>7
<1>7. QED
  BY <1>1, <1>2, <1>5, <1>6 DEF h

\* The receiver takes the head of the line and knows it.
LEMMA ReceiverTakes ==
    ASSUME TypeInv, OrderInv, NoiseInv, Sound, UNCHANGED sendVars,
           Pop, Ordered(Head(fwd)), Head(fwd) = fwd[1], 1 \in 1 .. Len(fwd),
           Head(fwd).item \in Items,
           got # <<>> => ~Before(Head(fwd).item, Taken),
           got' # <<>>, Taken' = Head(fwd).item, rpc' # "body"
    PROVE  Numbered' /\ NotUnder' /\ Covered'
<1> DEFINE h == Head(fwd).item
<1> USE DEF sendVars
<1>1. /\ Len(fwd') + 1 = Len(fwd) /\ Len(fwd') \in Nat
      /\ \A n \in 1 .. Len(fwd') :
           n + 1 \in 1 .. Len(fwd) /\ 1 < n + 1 /\ fwd'[n] = fwd[n + 1]
      /\ \A n \in 1 .. Len(fwd) :
           n = 1 \/ (n - 1 \in 1 .. Len(fwd') /\ fwd'[n - 1] = fwd[n])
  BY DEF Pop, TypeInv, TypeOK, LineTypeOK
<1>2. Item' = Item /\ Item \in Items /\ (got # <<>> => Taken \in Items)
  BY ItemTypes, TakenType DEF Item
<1> HIDE DEF h
<1>3. h \in Items /\ h = fwd[1].item /\ Ordered(fwd[1]) /\ Taken' = h
  BY DEF h
<1>4. Numbered'
  <2>1. ASSUME NEW n \in 1 .. Len(fwd'), IsPkt(fwd'[n])
        PROVE  fwd'[n].cond # "short" /\ fwd'[n].seq = fwd'[n].item[2] % SeqMod
    <3>1. n + 1 \in 1 .. Len(fwd) /\ fwd'[n] = fwd[n + 1] /\ IsPkt(fwd[n + 1])
      BY <1>1, <2>1
    <3>2. QED
      BY <3>1 DEF NoiseInv, Numbered
  <2>2. QED
    BY <2>1 DEF NoiseInv, Numbered
<1>5. NotUnder'
  <2>1. \A n \in 1 .. Len(fwd') :
          Ordered(fwd'[n]) => ~Before(fwd'[n].item, h)
    BY <1>1, <1>3 DEF OrderInv, FwdSorted
  <2>2. ~Before(Item, h)
    BY <1>3 DEF OrderInv, NotAhead
  <2>3. QED
    BY <1>2, <1>3, <2>1, <2>2 DEF NotUnder
<1>6. Covered'
  <2>1. SUFFICES ASSUME NEW i \in Items, Kept(i),
                        Before(i, Item) \/ (spc = "reply" /\ i = Item)
                 PROVE  Reached(i)' \/ OnLine(i)'
    BY <1>2 DEF Covered
  <2>2. Reached(i) \/ OnLine(i)
    BY <2>1 DEF NoiseInv, Covered
  <2>3. Reached(i) => Reached(i)'
    <3>1. SUFFICES ASSUME got # <<>>, ~Before(Taken, i) PROVE ~Before(h, i)
      BY <1>3 DEF Reached
    <3>2. ~Before(h, Taken)
      BY <3>1 DEF h
    <3>3. QED
      BY <1>2, <1>3, <3>1, <3>2, BeforeTrans
  <2>4. OnLine(i) => OnLine(i)' \/ i = h
    BY <1>1, <1>3 DEF OnLine
  <2>5. i = h => Reached(i)'
    BY <1>3, BeforeOrder DEF Reached
  <2>6. QED
    BY <2>2, <2>3, <2>4, <2>5
<1>7. QED
  BY <1>4, <1>5, <1>6

\* A packet or EOT that is at the head of the line and repeats what was taken.
LEMMA ReceiverRepeats ==
    ASSUME NoiseOnly, TypeInv, OrderInv, NoiseInv, Sound, UNCHANGED sendVars,
           Pop, Ordered(Head(fwd)), got # <<>>, Head(fwd).item = Taken,
           UNCHANGED <<got, pktno, fsize, count, rmode, rres>>,
           rpc' # "body"
    PROVE  NoiseInv'
<1>1. Head(fwd) = fwd[1] /\ 1 \in 1 .. Len(fwd) /\ Head(fwd).item \in Items
  BY HeadFollows
<1>2. Taken' = Taken /\ Last' = Last
  BY DEF Taken, Last
<1>3. ~Before(Head(fwd).item, Taken)
  BY <1>1, BeforeOrder
<1>4. Numbered' /\ NotUnder' /\ Covered'
  BY <1>1, <1>2, <1>3, ReceiverTakes
<1>5. Expects' /\ Whole'
  BY <1>2 DEF NoiseInv, Expects, Whole, Reached, Got
<1>6. NoGap' /\ HeaderAfterWholeFile'
  BY DEF NoiseInv, NoGap, HeaderAfterWholeFile
<1>7. QED
  BY <1>4, <1>5, <1>6 DEF NoiseInv

\* The receiver returns the item that follows.
LEMMA ReceiverDelivers ==
    ASSUME NoiseOnly, TypeInv, OrderInv, NoiseInv, Sound, UNCHANGED sendVars,
           Pop, IsPkt(Head(fwd)), got' = Append(got, Head(fwd).item),
           \/ got = <<>> /\ Head(fwd).item = <<1, 0>>
           \/ /\ got # <<>> /\ pktno > 0
              /\ Head(fwd).item = <<Last[1], Last[2] + 1>>
           \/ /\ got # <<>> /\ pktno = 0 /\ Last[2] = NBlocks
              /\ Head(fwd).item = <<Last[1] + 1, 0>>,
           pktno' = Head(fwd).item[2] + 1, rpc' # "body", rres' # "eof",
           rmode' = "YMODEM",
           rres' = "run" => count' = pktno' - 1 /\ fsize' = DeclSize
    PROVE  NoiseInv'
<1> DEFINE h == Head(fwd).item
<1>1. /\ Head(fwd) = fwd[1] /\ 1 \in 1 .. Len(fwd) /\ h \in Items
      /\ Ordered(Head(fwd))
  BY HeadFollows DEF Ordered, IsPkt
<1>2. /\ got \in Seq(Items) /\ Len(got) \in Nat /\ Len(got') = Len(got) + 1
      /\ got'[Len(got')] = h /\ got' # <<>>
      /\ \A n \in 1 .. Len(got) : got'[n] = got[n]
      /\ got # <<>> <=> Len(got) > 0
  BY <1>1 DEF TypeInv, TypeOK, RecvTypeOK
<1>3. h = <<h[1], h[2]>> /\ h[1] \in Nat /\ h[2] \in 0 .. NBlocks
  BY <1>1 DEF Items, OrderInv, Kinds
<1>4. Last' = h /\ Taken' = h
  BY <1>2, <1>3 DEF Last, Taken
<1>5. got # <<>> => Taken \in Items /\ Last \in Items /\ Last = got[Len(got)]
  BY TakenType DEF Last
<1>6. ASSUME got # <<>>
       PROVE  /\ Last = <<Last[1], Last[2]>> /\ Last[1] \in Nat
              /\ Last[2] \in Nat /\ Taken[1] = Last[1]
              /\ \/ h[1] = Last[1] /\ h[2] = Last[2] + 1 /\ Taken[2] = Last[2]
                 \/ /\ h[1] = Last[1] + 1 /\ h[2] = 0 /\ Last[2] = NBlocks
                    /\ Taken[2] = EotBlk
  <2>1. Last = <<Last[1], Last[2]>> /\ Last[1] \in Nat /\ Last[2] \in Nat
    BY SMTT(30), <1>5, <1>6 DEF Items
  <2>2. CASE pktno > 0 /\ h = <<Last[1], Last[2] + 1>>
    BY SMTT(30), <2>1, <2>2 DEF Taken
  <2>3. CASE pktno = 0 /\ Last[2] = NBlocks /\ h = <<Last[1] + 1, 0>>
    BY <2>1, <2>3 DEF Taken
  <2>4. QED
    BY <1>6, <2>2, <2>3
<1> HIDE DEF h
<1>7. ASSUME got # <<>>
       PROVE  /\ Last[1] \in Nat /\ Last[2] \in Nat /\ Taken[1] = Last[1]
              /\ \/ h[1] = Last[1] /\ h[2] = Last[2] + 1 /\ Taken[2] = Last[2]
                 \/ /\ h[1] = Last[1] + 1 /\ h[2] = 0 /\ Last[2] = NBlocks
                    /\ Taken[2] = EotBlk
  BY <1>6, <1>7
<1>8. got # <<>> => ~Before(h, Taken)
  BY <1>7 DEF Before
<1>9. Numbered' /\ NotUnder' /\ Covered'
  BY <1>1, <1>2, <1>4, <1>8, ReceiverTakes DEF h
<1>10. Expects'
  BY <1>2, <1>3, <1>4 DEF Expects, h
<1>11. Whole'
  <2>1. SUFFICES ASSUME NEW i \in Items, i[2] # EotBlk, ~Before(h, i)
                 PROVE  \E n \in 1 .. Len(got') : got'[n] = i
    BY <1>4 DEF Whole, Reached, Got
  <2>2. i = <<i[1], i[2]>> /\ i[1] \in Nat \ {0} /\ i[2] \in 0 .. NBlocks
    BY <2>1 DEF Items
  <2>3. i = h \/ (got # <<>> /\ ~Before(Taken, i))
    <3>1. i[1] = h[1] /\ i[2] = h[2] => i = h
      BY <1>3, <2>2
    <3>2. CASE got = <<>>
      <4>1. h[1] = 1 /\ h[2] = 0
        BY <3>2 DEF h
      <4>2. QED
        BY <2>1, <2>2, <3>1, <4>1 DEF Before
    <3>3. CASE got # <<>>
      <4>1. h[1] \in Nat /\ h[2] \in 0 .. NBlocks
        BY <1>3
      <4>2. i[1] \in Nat /\ i[2] \in Nat
        BY <2>2
      <4>3. i[1] < h[1] \/ (i[1] = h[1] /\ i[2] <= h[2])
        BY <2>1, <4>1, <4>2 DEF Before
      <4>4. CASE h[1] = Last[1] /\ h[2] = Last[2] + 1 /\ Taken[2] = Last[2]
        <5>1. Taken[1] = Last[1] /\ Last[1] \in Nat /\ Last[2] \in Nat
          BY <1>7, <3>3
        <5>2. (i[1] = h[1] /\ i[2] = h[2])
              \/ ~(Taken[1] < i[1] \/ (Taken[1] = i[1] /\ Taken[2] < i[2]))
          BY <4>3, <4>4, <4>2, <5>1
        <5>3. QED
          BY <3>3, <3>1, <5>2 DEF Before
      <4>5. CASE h[1] = Last[1] + 1 /\ h[2] = 0 /\ Taken[2] = EotBlk
        <5>1. Taken[1] = Last[1] /\ Last[1] \in Nat
          BY <1>7, <3>3
        <5>2. i[2] <= EotBlk
          BY <2>2
        <5>3. QED
          BY <3>3, <3>1, <4>3, <4>5, <4>2, <5>1, <5>2 DEF Before
      <4>6. QED
        BY <1>7, <3>3, <4>4, <4>5
    <3>4. QED
      BY <3>2, <3>3
  <2>4. ASSUME got # <<>>, ~Before(Taken, i) PROVE Got(i)
    BY <2>1, <2>4 DEF NoiseInv, Whole, Reached
  <2>5. CASE i = h
    BY <1>2, <2>5
  <2>6. CASE Got(i)
    BY <1>2, <2>6 DEF Got
  <2>7. QED
    BY <2>3, <2>4, <2>5, <2>6
<1>12. NoGap'
  <2>1. SUFFICES ASSUME NEW n \in 1 .. Len(got'), got'[n][2] > 0
                 PROVE  n > 1 /\ got'[n - 1] = <<got'[n][1], got'[n][2] - 1>>
    BY DEF NoGap, NoiseOnly
  <2>2. CASE n \in 1 .. Len(got)
    BY <1>2, <2>1, <2>2 DEF NoiseInv, NoGap, NoiseOnly
  <2>3. CASE n = Len(got')
    <3>1. h[2] > 0
      BY <1>2, <2>1, <2>3
    <3>2. got # <<>>
      BY <3>1 DEF h
    <3>3. Last = <<Last[1], Last[2]>>
      BY <1>6, <3>2
    <3>4. h[1] = Last[1] /\ h[2] - 1 = Last[2]
      BY <1>7, <3>1, <3>2
    <3>5. n > 1 /\ n - 1 = Len(got) /\ got'[n - 1] = Last /\ got'[n] = h
      BY <1>2, <1>5, <2>3, <3>2
    <3>6. QED
      BY <3>4, <3>5, <3>3
  <2>4. QED
    BY <1>2, <2>2, <2>3
<1>13. HeaderAfterWholeFile'
  <2>1. SUFFICES ASSUME NEW n \in 1 .. Len(got'), got'[n][2] = 0, got'[n][1] > 1
                 PROVE  n > 1 /\ got'[n - 1] = <<got'[n][1] - 1, NBlocks>>
    BY DEF HeaderAfterWholeFile
  <2>2. CASE n \in 1 .. Len(got)
    BY <1>2, <2>1, <2>2 DEF NoiseInv, HeaderAfterWholeFile
  <2>3. CASE n = Len(got')
    <3>1. h[1] > 1 /\ h[2] = 0
      BY <1>2, <2>1, <2>3
    <3>2. got # <<>>
      BY <3>1 DEF h
    <3>3. Last = <<Last[1], Last[2]>>
      BY <1>6, <3>2
    <3>4. h[1] - 1 = Last[1] /\ NBlocks = Last[2]
      BY <1>7, <3>1, <3>2
    <3>5. n > 1 /\ n - 1 = Len(got) /\ got'[n - 1] = Last /\ got'[n] = h
      BY <1>2, <1>5, <2>3, <3>2
    <3>6. QED
      BY <3>4, <3>5, <3>3
  <2>4. QED
    BY <1>2, <2>2, <2>3
<1>14. QED
  BY <1>9, <1>10, <1>11, <1>12, <1>13 DEF NoiseInv

\* The receiver takes an EOT, for the first time or again.
LEMMA ReceiverEnds ==
    ASSUME NoiseOnly, TypeInv, OrderInv, NoiseInv, Sound, UNCHANGED sendVars,
           RecvEot
    PROVE  NoiseInv'
<1> DEFINE h == Head(fwd).item
<1>1. /\ Pop /\ Ordered(Head(fwd)) /\ Head(fwd).kind = "EOT"
      /\ UNCHANGED <<rmode, fsize, count, got>> /\ rmode = "YMODEM"
      /\ pktno' = 0 /\ rpc' = "sync" /\ rres' = rres
  BY DEF RecvEot, Hunts, TakeEot, Ordered, FirstPktno, Return, NoiseInv, Expects
<1>2. /\ Head(fwd) = fwd[1] /\ 1 \in 1 .. Len(fwd) /\ h \in Items
      /\ got = <<>> => h = <<1, 0>>
      /\ got # <<>> => h = Taken \/ Follows(Taken, h)
  BY <1>1, HeadFollows
<1>3. h[2] = EotBlk /\ got # <<>>
  BY <1>1, <1>2 DEF OrderInv, Kinds
<1>4. /\ Taken \in Items /\ Last \in Items /\ Last[2] # EotBlk /\ Last' = Last
  <2>1. Taken \in Items /\ Last \in Items
    BY <1>3, TakenType
  <2>2. Len(got) \in 1 .. Len(got)
    BY <1>3 DEF TypeInv, TypeOK, RecvTypeOK
  <2>3. Last[2] # EotBlk /\ Last' = Last
    BY <1>1, <2>2 DEF OrderInv, GotBlocks, Last
  <2>4. QED
    BY <2>1, <2>3
<1> HIDE DEF h
<1>5. CASE pktno = 0
  <2>1. Taken = <<Last[1], EotBlk>> /\ Last[2] = NBlocks
    BY <1>3, <1>4, <1>5 DEF Taken, NoiseInv, Expects, Items
  <2>2. h = Taken
    BY <1>2, <1>3, <2>1 DEF Follows
  <2>3. QED
    BY <1>1, <1>3, <1>5, <2>2, ReceiverRepeats DEF h
<1>6. CASE pktno # 0
  <2>1. Taken = Last /\ Last = <<Last[1], Last[2]>> /\ Last[2] \in Nat
    BY <1>4, <1>6 DEF Taken, TypeInv, TypeOK, RecvTypeOK, Items
  <2>2. Follows(Last, h)
    BY <1>2, <1>3, <1>4, <2>1
  <2>3. Last[2] = NBlocks /\ h = <<Last[1], EotBlk>>
    BY <1>3, <1>4, <2>1, <2>2 DEF Follows
  <2>4. Taken' = h
    BY <1>1, <1>4, <2>3 DEF Taken
  <2>5. ~Before(h, Taken)
    BY <2>1, <2>3, <1>4 DEF Before, Items
  <2>6. Numbered' /\ NotUnder' /\ Covered'
    BY <1>1, <1>2, <1>3, <2>4, <2>5, ReceiverTakes DEF h
  <2>7. Expects'
    BY <1>1, <1>3, <1>4, <2>3 DEF NoiseInv, Expects
  <2>8. Whole'
    <3>1. SUFFICES ASSUME NEW i \in Items, i[2] # EotBlk, ~Before(h, i)
                   PROVE  Got(i)
      BY <1>1, <2>4 DEF Whole, Reached, Got
    <3>2. ~Before(Taken, i)
      BY <1>4, <2>1, <2>3, <3>1 DEF Before, Items
    <3>3. QED
      BY <1>3, <3>1, <3>2 DEF NoiseInv, Whole, Reached
  <2>9. NoGap' /\ HeaderAfterWholeFile'
    BY <1>1 DEF NoiseInv, NoGap, HeaderAfterWholeFile
  <2>10. QED
    BY <2>6, <2>7, <2>8, <2>9 DEF NoiseInv
<1>7. QED
  BY <1>5, <1>6

\* Where a packet stands to what was taken, and what its number shows.
First(p) == got = <<>> /\ pktno = 0 /\ p.item = <<1, 0>> /\ p.seq = 0
Again(p) == got # <<>> /\ pktno > 0 /\ p.item = Last /\ p.item = Taken
            /\ p.seq = (pktno - 1) % SeqMod
NextBlock(p) ==
    /\ got # <<>> /\ pktno > 0 /\ pktno <= NBlocks
    /\ p.item = <<Last[1], Last[2] + 1>> /\ Last[2] + 1 = pktno
    /\ p.seq = pktno % SeqMod /\ p.seq # (pktno - 1) % SeqMod
NextFile(p) ==
    /\ got # <<>> /\ pktno = 0 /\ Last[2] = NBlocks
    /\ p.item = <<Last[1] + 1, 0>> /\ p.seq = 0
MissedEot(p) ==
    /\ pktno > 0 /\ p.seq = 0
    /\ p.seq # pktno % SeqMod /\ p.seq # (pktno - 1) % SeqMod

LEMMA HeadPacket ==
    ASSUME NoiseOnly, TypeInv, OrderInv, NoiseInv, Sound, Pop, IsPkt(Head(fwd)),
           NEW p, p = Head(fwd)
    PROVE  First(p) \/ Again(p) \/ NextBlock(p) \/ NextFile(p) \/ MissedEot(p)
<1> DEFINE h == p.item
<1>1. /\ p = fwd[1] /\ 1 \in 1 .. Len(fwd) /\ h \in Items
      /\ got = <<>> => h = <<1, 0>>
      /\ got # <<>> => h = Taken \/ Follows(Taken, h)
  BY HeadFollows DEF Ordered, IsPkt
<1>2. p.seq = h[2] % SeqMod /\ h[2] # EotBlk
  BY <1>1 DEF NoiseInv, Numbered, OrderInv, Kinds
<1>3. p.item = h /\ 0 % SeqMod = 0
  BY NextSeq
<1>4. Expects /\ pktno \in Nat
  BY DEF NoiseInv, TypeInv, TypeOK, RecvTypeOK
<1> HIDE DEF h
<1>5. CASE got = <<>>
  BY <1>1, <1>2, <1>4, <1>5, <1>3 DEF First, Expects
<1>6. CASE got # <<>> /\ pktno = 0
  <2>1. Last \in Items /\ Last[2] = NBlocks /\ Taken = <<Last[1], EotBlk>>
    BY SMTT(30), <1>4, <1>6, TakenType DEF Taken, Expects, Items
  <2>2. h = <<Last[1] + 1, 0>>
    BY <1>1, <1>2, <1>6, <2>1 DEF Follows, Items
  <2>3. p.seq = 0
    BY <1>2, <1>3, <2>2
  <2>4. QED
    BY <1>6, <1>3, <2>1, <2>2, <2>3 DEF NextFile
<1>7. CASE got # <<>> /\ pktno > 0
  <2>1. /\ Last \in Items /\ Taken = Last /\ Last[2] = pktno - 1
        /\ Last[2] \in 0 .. EotBlk /\ pktno - 1 \in Nat
    <3>1. Last \in Items /\ Taken = Last
      BY <1>7, TakenType DEF Taken
    <3>2. Last[2] \in 0 .. EotBlk
      BY <3>1 DEF Items
    <3>3. pktno = Last[2] + 1
      BY <1>4, <1>7 DEF Expects
    <3>4. QED
      BY <1>4, <3>1, <3>2, <3>3
  <2>2. CASE h = Last
    BY <1>2, <1>7, <1>3, <2>1, <2>2 DEF Again
  <2>3. CASE h = <<Last[1], Last[2] + 1>>
    <3>1. h[2] = pktno /\ pktno <= NBlocks
      <4>1. h[2] \in 0 .. EotBlk
        BY <1>1 DEF Items
      <4>2. h[2] = Last[2] + 1
        BY <2>3
      <4>3. QED
        BY <1>2, <1>4, <2>1, <4>1, <4>2
    <3>2. pktno % SeqMod # (pktno - 1) % SeqMod
      <4>1. ((pktno - 1) + 1) % SeqMod # (pktno - 1) % SeqMod
        BY <2>1, NextSeq
      <4>2. QED
        BY <1>4, <4>1
    <3>3. QED
      BY <1>2, <1>7, <1>3, <2>1, <2>3, <3>1, <3>2 DEF NextBlock
  <2>4. CASE /\ "corrupt" \in Faults /\ Last[2] = NBlocks
             /\ h = <<Last[1] + 1, 0>>
    <3>1. pktno = NBlocks + 1 /\ pktno - 1 = NBlocks /\ p.seq = 0
      BY <1>2, <1>4, <1>3, <2>1, <2>4
    <3>2. QED
      BY <1>7, <2>4, <3>1 DEF MissedEot, NoiseOnly
  <2>5. Last[2] # EotBlk
    BY <1>7 DEF OrderInv, GotBlocks, Last, TypeInv, TypeOK, RecvTypeOK
  <2>6. QED
    BY <1>1, <1>7, <2>1, <2>2, <2>3, <2>4, <2>5 DEF Follows
<1>8. QED
  BY <1>4, <1>5, <1>6, <1>7 DEF h

LEMMA DuplicateIsAgain ==
    ASSUME NoiseOnly, TypeInv, OrderInv, NoiseInv, RecvDuplicate
    PROVE  Again(Head(fwd))
<1> DEFINE p == Head(fwd)
<1>1. Pop /\ IsPkt(p) /\ IsDuplicate(p.seq) /\ Sound
  BY DEF RecvDuplicate, HuntsGood, Hunts, IsPkt, TypeInv, Live, Sound, Damaged
<1>2. First(p) \/ Again(p) \/ NextBlock(p) \/ NextFile(p) \/ MissedEot(p)
  BY <1>1, HeadPacket
<1>3. (0 - 1) % SeqMod # 0
  BY NextSeq
<1>4. QED
  BY <1>1, <1>2, <1>3 DEF First, NextBlock, NextFile, MissedEot, IsDuplicate

LEMMA HeaderIsNext ==
    ASSUME NoiseOnly, TypeInv, OrderInv, NoiseInv, RecvHeader
    PROVE  First(Head(fwd)) \/ NextFile(Head(fwd))
<1> DEFINE p == Head(fwd)
<1>1. Pop /\ IsPkt(p) /\ Sound /\ pktno = 0
  BY DEF RecvHeader, HuntsGood, Hunts, IsPkt, TypeInv, Live, Sound, Damaged
<1>2. First(p) \/ Again(p) \/ NextBlock(p) \/ NextFile(p) \/ MissedEot(p)
  BY <1>1, HeadPacket
<1>3. QED
  BY <1>1, <1>2 DEF Again, NextBlock, MissedEot

LEMMA DataIsNext ==
    ASSUME NoiseOnly, TypeInv, OrderInv, NoiseInv, RecvData
    PROVE  /\ NextBlock(Head(fwd)) /\ ~IsFallback(Head(fwd).seq)
           /\ count = pktno - 1 /\ fsize = DeclSize /\ Room(fsize)
<1> DEFINE p == Head(fwd)
<1>1. /\ Pop /\ IsPkt(p) /\ Sound /\ rres = "run" /\ ~IsDuplicate(p.seq)
      /\ IsFallback(p.seq) \/ (IsNext(p.seq) /\ pktno > 0)
  BY DEF RecvData, HuntsGood, Hunts, IsPkt, TypeInv, Live, Sound, Damaged
<1>2. First(p) \/ Again(p) \/ NextBlock(p) \/ NextFile(p) \/ MissedEot(p)
  BY <1>1, HeadPacket
<1> HIDE DEF p
<1>3. NextBlock(p) /\ ~IsFallback(p.seq)
  BY <1>1, <1>2
     DEF First, Again, NextBlock, NextFile, MissedEot, IsDuplicate, IsFallback,
         IsNext
<1>4. count = pktno - 1 /\ fsize = DeclSize /\ pktno <= NBlocks /\ pktno \in Nat
  BY <1>1, <1>3
     DEF NextBlock, NoiseInv, Expects, TypeInv, TypeOK, RecvTypeOK
<1>5. Room(fsize)
  BY <1>4 DEF Room, NoiseOnly
<1>6. QED
  BY <1>3, <1>4, <1>5 DEF p

LEMMA NoiseReceiver ==
    ASSUME NoiseOnly, TypeInv, OrderInv, NoiseInv,
           RecvLoop \/ RecvPkt \/ RecvTimeout \/ RecvCancel \/ RecvIoError,
           UNCHANGED sendVars
    PROVE  NoiseInv'
<1> DEFINE p == Head(fwd)
<1> USE DEF lineVars
<1>1. (rpc # "app" => rres = "run") /\ rpc # "body" /\ pktno \in Nat
  BY DEF TypeInv, Live, NoiseInv, Numbered, TypeOK, RecvTypeOK
<1>2. rpc = "hunt" => Sound
  BY <1>1 DEF Sound, Damaged
\* Every frame on the line is whole, has its first byte and is a packet's,
\* an EOT or a CAN.
<1>3. ASSUME Pop
      PROVE  p.kind # "STRAY" /\ (IsPkt(p) => p.cond # "short")
  <2>1. p = fwd[1] /\ 1 \in 1 .. Len(fwd)
    BY <1>3 DEF Pop, TypeInv, TypeOK, LineTypeOK
  <2>2. QED
    BY <2>1 DEF OrderInv, Kinds, NoiseInv, Numbered
<1>4. CASE RecvLoop \/ SendSync \/ RecvTimeout \/ RecvCancel \/ RecvIoError
  BY <1>1, <1>4, ReceiverWaits
     DEF RecvLoop, SendSync, RecvTimeout, RecvCancel, RecvIoError, GiveUp,
         Return, Sound, Damaged
<1>5. CASE RecvCan \/ RecvBad \/ RecvWrong \/ RecvFlush \/ RecvFlushEnd
  BY <1>5, ReceiverObjects
     DEF RecvCan, RecvBad, RecvWrong, RecvFlush, RecvFlushEnd, HuntsGood, Hunts,
         Moves, GiveUp, Return, Sound, Damaged
<1>6. CASE RecvStray \/ RecvShort \/ RecvMore
  BY <1>1, <1>3, <1>6 DEF RecvStray, RecvShort, RecvMore, Hunts, IsPkt
<1>7. CASE RecvEot
  <2>1. Sound
    BY <1>2, <1>7 DEF RecvEot, Hunts
  <2>2. QED
    BY <1>7, <2>1, ReceiverEnds
<1>8. ASSUME HuntsGood
      PROVE  Sound /\ Pop /\ IsPkt(p) /\ Ordered(p) /\ rres = "run"
  BY <1>1, <1>2, <1>8 DEF HuntsGood, Hunts, IsPkt, Ordered
<1>9. Sound => Expects /\ rmode = "YMODEM"
  BY DEF NoiseInv, Expects
<1> HIDE DEF p
<1>10. CASE RecvDuplicate
  <2>1. HuntsGood /\ Again(p)
    BY <1>10, DuplicateIsAgain DEF RecvDuplicate, p
  <2>2. QED
    BY <1>8, <1>10, <2>1, ReceiverRepeats DEF RecvDuplicate, Again, p
<1>11. CASE RecvHeader
  <2>1. HuntsGood /\ (First(p) \/ NextFile(p))
    BY <1>11, HeaderIsNext DEF RecvHeader, p
  <2>2. p.item[2] = 0
    BY <2>1 DEF First, NextFile
  <2>3. /\ got' = Append(got, p.item) /\ pktno' = p.item[2] + 1
        /\ rpc' = "app" /\ rres' \in {"run", "done"} /\ rmode' = "YMODEM"
        /\ rres' = "run" => count' = pktno' - 1 /\ fsize' = DeclSize
    BY <1>8, <1>9, <1>11, <2>1, <2>2 DEF RecvHeader, Return, p
  <2>4. QED
    BY <1>8, <2>1, <2>3, ReceiverDelivers DEF First, NextFile, p
<1>12. CASE RecvData
  <2>1. /\ HuntsGood /\ NextBlock(p) /\ ~IsFallback(p.seq)
        /\ count = pktno - 1 /\ fsize = DeclSize /\ Room(fsize)
    BY <1>12, DataIsNext DEF RecvData, p
  <2>2. p.item[2] = pktno /\ pktno > 0
    BY <2>1 DEF NextBlock
  <2>3. /\ got' = Append(got, p.item) /\ pktno' = p.item[2] + 1
        /\ rpc' = "app" /\ rres' = "run" /\ rmode' = "YMODEM"
        /\ count' = pktno' - 1 /\ fsize' = DeclSize
    BY <1>1, <1>8, <1>9, <1>12, <2>1, <2>2 DEF RecvData, Return, p
  <2>4. QED
    BY <1>8, <2>1, <2>3, ReceiverDelivers DEF NextBlock, p
<1>13. QED
  BY <1>4, <1>5, <1>6, <1>7, <1>10, <1>11, <1>12 DEF RecvPkt

(***************************************************************************)
(* The theorems.                                                           *)
(***************************************************************************)

IInv == TypeInv /\ OrderInv /\ NoiseInv

LEMMA IInvHolds == ASSUME NoiseOnly PROVE Spec => []IInv
<1>1. "behead" \notin Faults
  BY DEF NoiseOnly
<1>2. Init => IInv
  BY TypeInit, OrderInit, NoiseInit DEF IInv
<1>3. IInv /\ [Next]_vars => IInv'
  <2> SUFFICES ASSUME IInv, [Next]_vars PROVE IInv'
    OBVIOUS
  <2>1. TypeInv' /\ OrderInv'
    BY <1>1, TypeStep, OrderStep DEF IInv
  <2>2. CASE Sender \/ SenderTimeout \/ (SendIoError /\ UNCHANGED recvVars)
    BY <2>1, <2>2, NoiseSender DEF Sender, SenderTimeout, IInv
  <2>3. CASE Receiver \/ ReceiverTimeout
             \/ ((RecvCancel \/ RecvIoError) /\ UNCHANGED sendVars)
    BY <2>1, <2>3, NoiseReceiver DEF Receiver, ReceiverTimeout, IInv
  <2>4. CASE SendCancel /\ UNCHANGED recvVars
    BY <2>1, <2>4, NoiseCancel DEF IInv
  <2>5. CASE UNCHANGED vars
    <3>1. NoiseInv'
      BY <2>5, ReceiverWaits
         DEF vars, lineVars, recvVars, IInv, NoiseInv, Numbered, Sound, Damaged
    <3>2. QED
      BY <2>1, <3>1 DEF IInv
  <2>6. NoiseInv'
    BY <2>2, <2>3, <2>4, <2>5 DEF Next, Abort, Ended, IInv
  <2>7. QED
    BY <2>1, <2>6 DEF IInv
<1>4. QED
  BY <1>2, <1>3, PTL DEF Spec

\* What the application got of a file is an initial piece of it, although
\* acknowledgements are lost, altered or answer the wrong packet and packets
\* are altered (recv.c:193-210, send.c:184-187).
THEOREM NothingSkipped == ASSUME NoiseOnly PROVE Spec => []NoGap
<1>1. IInv => NoGap
  BY DEF IInv, NoiseInv
<1>2. QED
  BY IInvHolds, <1>1, PTL

\* A truncated file is never followed by the next header or the end of the
\* batch (recv.c:111-123, 212-215).
THEOREM WholeFiles == ASSUME NoiseOnly PROVE Spec => []HeaderAfterWholeFile
<1>1. IInv => HeaderAfterWholeFile
  BY DEF IInv, NoiseInv
<1>2. QED
  BY IInvHolds, <1>1, PTL

\* A block that the sender discarded because it was acknowledged was
\* delivered, is on its way, or the receiver has found the damage
\* (send.c:184-187).
THEOREM AcknowledgedIsSafe == ASSUME NoiseOnly PROVE Spec => []AckedIsSafe
<1>1. IInv => AckedIsSafe
  <2>1. SUFFICES ASSUME IInv, Sound, NEW f \in 1 .. NFiles, NEW b \in 1 .. NBlocks,
                        Before(<<f, b>>, Item)
                 PROVE  \/ Got(<<f, b>>)
                        \/ \E n \in 1 .. Len(fwd) :
                             fwd[n].kind = "PKT" /\ fwd[n].item = <<f, b>>
    BY DEF AckedIsSafe, Sound
  <2>2. <<f, b>> \in Items /\ Kept(<<f, b>>) /\ <<f, b>>[2] # EotBlk
    BY DEF Items, Kept
  <2>3. Reached(<<f, b>>) \/ OnLine(<<f, b>>)
    BY <2>1, <2>2 DEF IInv, NoiseInv, Covered
  <2>4. CASE Reached(<<f, b>>)
    BY <2>1, <2>2, <2>4 DEF IInv, NoiseInv, Whole
  <2>5. CASE OnLine(<<f, b>>)
    <3>1. PICK n \in 1 .. Len(fwd) : Ordered(fwd[n]) /\ fwd[n].item = <<f, b>>
      BY <2>5 DEF OnLine
    <3>2. fwd[n].kind = "PKT"
      BY <2>1, <2>2, <3>1 DEF IInv, OrderInv, Kinds, Ordered
    <3>3. QED
      BY <3>1, <3>2
  <2>6. QED
    BY <2>3, <2>4, <2>5
<1>2. QED
  BY IInvHolds, <1>1, PTL

\* What the receiver takes for a retransmission is one (recv.c:193-197).
THEOREM DuplicatesAreKnown == ASSUME NoiseOnly PROVE Spec => DuplicateWasGot
<1>1. IInv => [RecvDuplicate => Got(Head(fwd).item)]_vars
  <2>1. SUFFICES ASSUME IInv, RecvDuplicate PROVE Got(Head(fwd).item)
    OBVIOUS
  <2>2. Again(Head(fwd))
    BY <2>1, DuplicateIsAgain DEF IInv
  <2>3. Len(got) \in 1 .. Len(got)
    BY <2>1, <2>2 DEF Again, IInv, TypeInv, TypeOK, RecvTypeOK
  <2>4. QED
    BY <2>2, <2>3 DEF Again, Got, Last
<1>2. QED
  BY IInvHolds, <1>1, PTL DEF DuplicateWasGot

(***************************************************************************)
(* The batch implements FileTransfer.                                      *)
(***************************************************************************)

LEMMA SenderOffers ==
    ASSUME NoiseOnly, IInv,
           SendCall \/ SendPkt \/ SendTimeout \/ SendIoError \/ SendCancel,
           UNCHANGED recvVars
    PROVE  Transfer!Next \/ UNCHANGED Transfer!vars
<1>1. CASE UNCHANGED <<sfile, sblk>>
  BY <1>1 DEF Transfer!vars, recvVars, Item
<1>2. CASE ReplyAck /\ ~UNCHANGED <<sfile, sblk>>
  <2>1. /\ sfile \in 1 .. NFiles /\ sblk \in 0 .. EotBlk
        /\ \/ sblk <= NBlocks /\ sfile' = sfile /\ sblk' = sblk + 1
           \/ sblk = EotBlk /\ sfile' = sfile + 1 /\ sblk' = 0
    BY <1>2 DEF ReplyAck, NoiseOnly, IInv, TypeInv, TypeOK, SendTypeOK, Live
  <2>2. /\ Item' = <<sfile', sblk'>>
        /\ sfile' \in 1 .. NFiles + 1 /\ sblk' \in 0 .. NBlocks + 1
        /\ Before(Item, Item')
    BY <2>1 DEF Item, Before
  <2>3. Transfer!Offer
    BY <2>2 DEF Transfer!Offer, Transfer!Before, Before, recvVars
  <2>4. QED
    BY <2>3 DEF Transfer!Next
<1>3. QED
  BY <1>1, <1>2
     DEF SendCall, SendStart, SendLoop, SendEot, SendClose, EnterPkt, SendPkt,
         SyncByte, SyncIgnore, SyncCan, Transmit, ReplyNak, ReplyRefused, Flush,
         FlushEnd, SendTimeout, SyncTimeout, ReplyTimeout, SendIoError,
         SendCancel, Fail, sendVars

LEMMA ReceiverRefines ==
    ASSUME NoiseOnly, IInv,
           RecvLoop \/ RecvPkt \/ RecvTimeout \/ RecvCancel \/ RecvIoError,
           UNCHANGED sendVars
    PROVE  Transfer!Next \/ UNCHANGED Transfer!vars
<1>1. Item' = Item
  BY DEF Item, sendVars
<1>2. rpc # "app" => rres = "run"
  BY DEF IInv, TypeInv, Live
\* Steps that return nothing go on or end the session.
<1>3. ASSUME UNCHANGED got, rres = "run" \/ rres' = rres
      PROVE  Transfer!Next \/ UNCHANGED Transfer!vars
  BY <1>1, <1>3 DEF Transfer!vars, Transfer!Next, Transfer!Close
<1>4. ASSUME HuntsGood, got' = Append(got, Head(fwd).item),
             \/ First(Head(fwd)) \/ NextFile(Head(fwd)) \/ NextBlock(Head(fwd))
      PROVE  Transfer!Next
  <2> DEFINE i == Head(fwd).item
  <2>1. Head(fwd) = fwd[1] /\ 1 \in 1 .. Len(fwd)
        /\ Ordered(Head(fwd)) /\ IsPkt(Head(fwd)) /\ rres = "run"
    BY <1>2, <1>4
       DEF HuntsGood, Hunts, Pop, Ordered, IsPkt, IInv, TypeInv, TypeOK,
           LineTypeOK
  <2>2. i \in Items /\ i[2] # EotBlk /\ ~Before(Item, i)
    BY <2>1, ItemTypes DEF IInv, OrderInv, Kinds, NotAhead
  <2>3. i = <<i[1], i[2]>> /\ i[1] \in 1 .. NFiles + 1 /\ i[2] \in 0 .. NBlocks
    BY <2>2 DEF Items
  <2>4. ~Transfer!Before(Item, i)
    BY <2>2 DEF Before, Transfer!Before
  <2>5. Transfer!Continues(got, i)
    <3>1. Last = got[Len(got)] /\ (got # <<>> => Last \in Items)
      BY ItemTypes DEF Last, IInv
    <3>2. CASE First(Head(fwd))
      BY <3>2 DEF First, Transfer!Continues, Transfer!FirstBlk, NoiseOnly
    <3>3. CASE NextFile(Head(fwd))
      BY <3>1, <3>3
         DEF NextFile, Transfer!Continues, Transfer!FirstBlk, NoiseOnly, Items
    <3>4. CASE NextBlock(Head(fwd))
      <4>1. /\ got # <<>> /\ i = <<Last[1], Last[2] + 1>> /\ Last[2] + 1 > 0
            /\ Last = <<Last[1], Last[2]>> /\ Last[2] \in Nat
        BY <3>1, <3>4 DEF NextBlock, Items
      <4>2. i[1] = Last[1] /\ i[2] - 1 = Last[2] /\ i[2] > 0
        BY <4>1
      <4> HIDE DEF i
      <4>3. got[Len(got)] = <<i[1], i[2] - 1>>
        BY <3>1, <4>1, <4>2
      <4>4. QED
        BY <4>1, <4>2, <4>3
           DEF Transfer!Continues, Transfer!FirstBlk, NoiseOnly
    <3>5. QED
      BY <1>4, <3>2, <3>3, <3>4
  <2> HIDE DEF i
  <2>6. Transfer!Deliver
    <3>1. got' = Append(got, i)
      BY <1>4 DEF i
    <3>2. QED
      BY <1>1, <2>1, <2>3, <2>4, <2>5, <3>1 DEF Transfer!Deliver
  <2>7. QED
    BY <2>6 DEF Transfer!Next
<1>5. CASE RecvHeader
  <2>1. First(Head(fwd)) \/ NextFile(Head(fwd))
    BY <1>5, HeaderIsNext DEF IInv
  <2>2. QED
    BY <1>4, <1>5, <2>1 DEF RecvHeader
<1>6. CASE RecvData
  <2>1. /\ NextBlock(Head(fwd)) /\ ~IsFallback(Head(fwd).seq) /\ Room(fsize)
    BY <1>6, DataIsNext DEF IInv
  <2>2. QED
    BY <1>4, <1>6, <2>1 DEF RecvData
<1>7. CASE ~RecvHeader /\ ~RecvData
  <2>1. UNCHANGED got /\ (rres = "run" \/ rres' = rres)
    BY <1>2, <1>7
       DEF RecvLoop, RecvPkt, RecvTimeout, RecvCancel, RecvIoError, SendSync,
           RecvEot, RecvCan, RecvStray, RecvShort, RecvMore, RecvBad,
           RecvDuplicate, RecvWrong, RecvFlush, RecvFlushEnd, HuntsGood, Hunts,
           TakeEot, Moves, GiveUp, Return
  <2>2. QED
    BY <1>3, <2>1
<1>8. QED
  BY <1>5, <1>6, <1>7

\* A YMODEM batch over such a line is a file transfer: the application gets
\* what was offered, in order, without gap or repetition within a file, and
\* nothing after its session ended (recv.c:193-221, send.c:184-187).
THEOREM BatchIsATransfer == ASSUME NoiseOnly PROVE Spec => Refines
<1>1. Init => Transfer!Init
  BY DEF Init, LineInit, SendOpen, RecvInit, NoiseOnly, Item, Transfer!Init,
         Transfer!FirstBlk
<1>2. IInv /\ [Next]_vars => [Transfer!Next]_(Transfer!vars)
  <2>1. SUFFICES ASSUME IInv, [Next]_vars
                 PROVE  Transfer!Next \/ UNCHANGED Transfer!vars
    OBVIOUS
  <2>2. CASE Sender \/ SenderTimeout
             \/ ((SendCancel \/ SendIoError) /\ UNCHANGED recvVars)
    BY <2>1, <2>2, SenderOffers DEF Sender, SenderTimeout
  <2>3. CASE Receiver \/ ReceiverTimeout
             \/ ((RecvCancel \/ RecvIoError) /\ UNCHANGED sendVars)
    BY <2>1, <2>3, ReceiverRefines DEF Receiver, ReceiverTimeout
  <2>4. CASE UNCHANGED vars
    BY <2>4 DEF vars, sendVars, recvVars, Transfer!vars, Item
  <2>5. QED
    BY <2>1, <2>2, <2>3, <2>4 DEF Next, Abort, Ended
<1>3. QED
  BY <1>1, <1>2, IInvHolds, PTL DEF Spec, Refines, Transfer!Spec
=============================================================================

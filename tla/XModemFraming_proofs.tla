------------------------ MODULE XModemFraming_proofs ------------------------
(***************************************************************************)
(* Theorems about XModemFraming, for every number and length of files,     *)
(* every size of packets and every way to cut the files into calls.        *)
(***************************************************************************)
EXTENDS XModemFraming, SequenceTheorems, TLAPS

Kinds == {"HEADER", "NULL", "DATA", "TAIL", "EOT"}
Packets == [kind : Kinds, seq : 0 .. 255, data : Seq(Bytes), size : Nat,
            file : 1 .. NFiles + 1, blk : Nat, dirty : BOOLEAN]

TypeInv ==
    /\ mode \in {"XMODEM", "XMODEM_1K", "YMODEM"}
    /\ lens \in [1 .. NFiles -> Nat]
    /\ sbuf \in [1 .. Big -> Bytes]
    /\ dlen \in 0 .. DataMax /\ seq \in 0 .. 255
    /\ spc \in {"app", "loop", "tail", "pkt", "reply", "stop"}
    /\ job \in Packets
    /\ file \in 1 .. NFiles + 1 /\ next \in Nat /\ rest \in Nat
    /\ left \in 0 .. dlen /\ off \in 0 .. dlen
    /\ phase \in {"start", "data"}
    /\ fails \in 0 .. MaxFails /\ blk \in Nat /\ dirty \in BOOLEAN
    /\ sent \in [1 .. NFiles -> Seq(Bytes)]
    /\ line \in Seq(Packets) /\ acks \in Nat
    /\ rbuf \in Seq(Bytes) /\ rlen \in 0 .. Len(rbuf) /\ rpos \in 0 .. rlen
    /\ pktno \in Nat /\ fsize \in Nat /\ count \in 0 .. fsize
    /\ rres \in {"run", "eof", "done", "astray"}
    /\ out \in Seq(Seq(Bytes))
    /\ missed \in BOOLEAN

\* Within xmodem_send_pkt.
InPkt == spc \in {"pkt", "reply"}

\* Where the application is in its files, and what its calls may be about.
FileInv ==
    /\ phase = "data" => file <= NFiles /\ next >= 1 /\ next <= lens[file] + 1
    /\ phase = "start" => /\ spc \in {"app", "pkt", "reply", "stop"} /\ next = 1
                          /\ spc # "stop" => Y
    /\ spc = "stop" => phase = "start" /\ (Y => file = NFiles + 1)
    /\ ~Y => file = 1
CallInv ==
    /\ spc = "loop" => /\ next + rest <= lens[file] + 1
                       /\ rest = 0 => dlen = DataMax
    /\ spc = "tail" => next = lens[file] + 1 /\ left + off = dlen
    /\ spc = "app" => left = 0 /\ off = 0
    /\ spc = "loop" => left = 0 /\ off = 0
JobInv == InPkt =>
    /\ job.kind = "HEADER" => /\ phase = "start" /\ file <= NFiles
    /\ job.kind = "NULL" => phase = "start" /\ file = NFiles + 1
    /\ job.kind \in {"DATA", "TAIL", "EOT"} => phase = "data"
    /\ job.kind = "DATA" => /\ dlen = DataMax /\ next + rest <= lens[file] + 1
                            /\ left = 0 /\ off = 0
    /\ job.kind = "TAIL" => /\ dlen > 0 /\ next = lens[file] + 1
                            /\ left + off = dlen
    /\ job.kind = "EOT" => next = lens[file] + 1
FlowInv == FileInv /\ CallInv /\ JobInv

\* Nothing of the file is left but the EOT.
AtEnd ==
    /\ phase = "data" /\ next = lens[file] + 1
    /\ dlen = 0 \/ (spc = "tail" /\ left = 0) \/ (InPkt /\ job.kind = "EOT")
Middle == phase = "data" /\ ~AtEnd

\* The bytes of the file before those of the buffer.
Base == next - 1 - dlen

\* Those went out in whole packets, so that the tail fits in one packet.
TailInv == Middle =>
    /\ Base \in Nat /\ Base % DataMax = 0
    /\ ~LongTail(file) =>
         /\ spc = "tail" => left = dlen /\ off = 0
         /\ InPkt /\ job.kind = "TAIL" => left = 0

\* data begins behind the first n bytes of file f.
Follows(data, f, n) ==
    \A i \in 1 .. Len(data) :
        data[i] = IF n + i <= lens[f] THEN <<f, n + i>> ELSE Pad
BufGood == \A i \in 1 .. dlen : sbuf[i] = <<file, Base + i>>

SentInv == \A f \in 1 .. NFiles :
    /\ ~LongTail(f) /\ "sent" \notin spoilt => Follows(sent[f], f, 0)
    /\ ~LongTail(f) /\ f < file => Len(sent[f]) >= lens[f]
    /\ f > file \/ (f = file /\ phase = "start" /\ spc # "stop") => sent[f] = <<>>
    /\ ~LongTail(f) /\ f = file /\ (spc = "stop" \/ AtEnd) => Len(sent[f]) >= lens[f]
BufInv == Middle /\ ~dirty => BufGood
JobData == Middle /\ ~LongTail(file) =>
    /\ Len(sent[file]) = Base
    /\ InPkt => /\ ~job.dirty => Follows(job.data, file, Base)
                /\ job.kind = "DATA" => Len(job.data) = DataMax
                /\ job.kind = "TAIL" => Len(job.data) >= dlen /\ (Y => Len(job.data) = Big)
FrameInv == SentInv /\ BufInv /\ JobData

\* The bytes of a YMODEM file before its packet b, and the number of a packet.
Off(b) == (b - 1) * Big
Num(b) == (IF Y THEN b ELSE b - 1) % 256

\* The place of a packet in its transfer tells what it is and what it carries.
StartOk(p) ==
    /\ p.seq = 0
    /\ p.kind = IF p.file <= NFiles THEN "HEADER" ELSE "NULL"
    /\ p.file <= NFiles => p.size = lens[p.file]
DataOk(p) ==
    /\ p.kind \in {"DATA", "TAIL"} /\ Off(p.blk) < lens[p.file]
    /\ p.seq = Num(p.blk) /\ Len(p.data) = Big
    /\ ~p.dirty => Follows(p.data, p.file, Off(p.blk))
EotOk(p) == p.kind = "EOT" /\ Off(p.blk) >= lens[p.file]
PacketOk(p) ==
    IF Y THEN IF p.blk = 0 THEN StartOk(p)
                           ELSE p.file <= NFiles /\ (EotOk(p) \/ DataOk(p))
    ELSE /\ p.file = 1 /\ p.blk >= 1 /\ p.kind \in {"DATA", "TAIL", "EOT"}
         /\ p.kind # "EOT" => p.seq = Num(p.blk)

\* Where the sender is.
BlkInv ==
    /\ InPkt => /\ job.file = file /\ job.blk = blk
                /\ job.kind \in {"HEADER", "NULL"} => job.seq = 0
                /\ job.kind = "HEADER" => job.size = lens[file]
                /\ job.kind \in {"DATA", "TAIL"} => job.seq = seq
    /\ phase = "start" /\ spc # "stop" => blk = 0
    /\ phase = "data" => blk >= 1
    /\ Middle => seq = Num(blk)
    /\ Y /\ Middle => Base = Off(blk)
    /\ Y /\ AtEnd => Off(blk) >= lens[file]

\* The packets under way are in the order of their places, none ahead of the
\* sender.
UpTo(f, b, g, c) == f < g \/ (f = g /\ b <= c)
LineInv ==
    /\ \A i \in 1 .. Len(line) : /\ PacketOk(line[i])
                                 /\ UpTo(line[i].file, line[i].blk, file, blk)
    /\ \A i, j \in 1 .. Len(line) :
           i <= j => UpTo(line[i].file, line[i].blk, line[j].file, line[j].blk)

\* A place that is not before the last packet the receiver has taken.
Past(f, b) ==
    IF Y THEN \/ f > Len(out)
              \/ /\ f = Len(out) /\ b >= pktno - 1
                 /\ pktno = 0 => b >= 1 /\ Off(b) >= lens[f]
    ELSE b >= pktno
RecvInv ==
    /\ Past(file, blk) /\ \A i \in 1 .. Len(line) : Past(line[i].file, line[i].blk)
    /\ IF Y THEN /\ Len(out) <= NFiles
                 /\ pktno > 0 => Len(out) > 0
                 /\ pktno > 1 => Off(pktno - 1) < lens[Len(out)]
       ELSE pktno > 0
OrderInv == ~missed => /\ ~Missing /\ rres # "astray"
                       /\ rres = "run" => RecvInv

\* What the receiver has of file f, handed out or still in its buffer.
Has(f) ==
    /\ Len(out) = f /\ fsize = lens[f] /\ count = Lesser(lens[f], Off(pktno))
    /\ Len(out[f]) + (rlen - rpos) = count
    /\ \A i \in 1 .. Len(out[f]) : out[f][i] = <<f, i>>
    /\ \A i \in rpos + 1 .. rlen : rbuf[i] = <<f, Len(out[f]) + i - rpos>>
HandInv == (calling => rpos = rlen) /\ (Y /\ rres = "run" /\ pktno = 0 => rpos = rlen)
Whole(f) == f <= NFiles /\ out[f] = File(f)
DataInv == Y /\ ~missed /\ "got" \notin spoilt =>
    /\ rres \in {"run", "done"}
    /\ \A f \in 1 .. Len(out) :
           f < Len(out) \/ pktno = 0 \/ rres = "done" => Whole(f)
    /\ rres = "run" /\ pktno > 0 => Has(Len(out))

-----------------------------------------------------------------------------
(* The constants and the helpers.                                          *)

LEMMA Sizes ==
    /\ Small \in Nat \ {0} /\ Big \in Nat \ {0} /\ Big > 2 * Small
    /\ NFiles \in Nat \ {0} /\ FileMax \in Nat /\ MaxFails \in Nat
    /\ MaxFlush \in 0 .. Big
  BY FramingAssumption

LEMMA Maxes ==
    /\ DataMax \in Nat \ {0} /\ DataMax <= Big
    /\ Y => DataMax = Big
    /\ \A n \in 0 .. Big : TailMax(n) \in Nat \ {0} /\ TailMax(n) <= DataMax
  BY Sizes DEF DataMax, TailMax, Y

LEMMA LesserOf ==
    ASSUME NEW a \in Nat, NEW b \in Nat
    PROVE  /\ Lesser(a, b) \in Nat /\ Lesser(a, b) <= a /\ Lesser(a, b) <= b
           /\ Lesser(a, b) = a \/ Lesser(a, b) = b
  BY DEF Lesser

LEMMA ByteSorts ==
    /\ Pad \in Bytes /\ Text \in Bytes
    /\ \A f \in 1 .. NFiles, i \in Nat : <<f, i>> \in Bytes
  BY DEF Bytes

LEMMA PayloadIs ==
    ASSUME NEW buf \in [1 .. Big -> Bytes], NEW n \in Nat, n <= Big
    PROVE  /\ Payload(buf, n) \in Seq(Bytes) /\ Len(Payload(buf, n)) = n
           /\ \A i \in 1 .. n : Payload(buf, n)[i] = buf[i]
<1> DEFINE w == [i \in 1 .. Big |-> buf[i]]
<1>1. w \in Seq(Bytes) /\ Len(w) = Big /\ \A i \in 1 .. Big : w[i] = buf[i]
  BY Sizes, IsASeq
<1> HIDE DEF w
<1>2. SubSeq(w, 1, n) \in Seq(Bytes) /\ Len(SubSeq(w, 1, n)) = n
      /\ \A i \in 1 .. n : SubSeq(w, 1, n)[i] = w[i]
  BY <1>1, Sizes, SubSeqProperties
<1>3. Payload(buf, n) = SubSeq(w, 1, n)
  BY DEF Payload, w
<1>4. \A i \in 1 .. n : i \in 1 .. Big
  BY Sizes
<1>5. QED
  BY <1>1, <1>2, <1>3, <1>4

\* A packet to be sent.
LEMMA SendIs ==
    ASSUME TypeInv, NEW kind \in Kinds, NEW s \in 0 .. 255, NEW data \in Seq(Bytes),
           NEW size \in Nat, Send(kind, s, data, size)
    PROVE  /\ job' \in Packets /\ job'.kind = kind /\ job'.seq = s
           /\ job'.data = data /\ job'.size = size
           /\ job'.file = file /\ job'.blk = blk
           /\ kind \in {"DATA", "TAIL"} => job'.dirty = dirty
           /\ spc' = "pkt"
<1>1. /\ job' = [kind |-> kind, seq |-> s, data |-> data, size |-> size, file |-> file,
                 blk |-> blk, dirty |-> dirty /\ kind \in {"DATA", "TAIL"}]
      /\ spc' = "pkt"
  BY DEF Send
<1> DEFINE d == dirty /\ kind \in {"DATA", "TAIL"}
<1>2. d \in BOOLEAN /\ file \in 1 .. NFiles + 1 /\ blk \in Nat
      /\ (kind \in {"DATA", "TAIL"} => d = dirty)
  BY Zenon DEF TypeInv
<1>3. job' = [kind |-> kind, seq |-> s, data |-> data, size |-> size, file |-> file,
              blk |-> blk, dirty |-> d]
  BY <1>1
<1> HIDE DEF d
<1>4. job' \in Packets
  BY <1>2, <1>3 DEF Packets
<1>5. /\ job'.kind = kind /\ job'.seq = s /\ job'.data = data /\ job'.size = size
      /\ job'.file = file /\ job'.blk = blk /\ job'.dirty = d
  BY <1>3
<1>6. QED
  BY Zenon, <1>1, <1>2, <1>4, <1>5

\* A packet taken from the line.
LEMMA TakesIs ==
    ASSUME TypeInv, NEW kinds, Takes(kinds)
    PROVE  /\ line # <<>> /\ Len(line) >= 1 /\ Head(line) = line[1]
           /\ Head(line) \in Packets /\ Head(line).kind \in kinds
           /\ line' \in Seq(Packets) /\ Len(line') = Len(line) - 1
           /\ \A k \in 1 .. Len(line') : k + 1 \in 1 .. Len(line) /\ line'[k] = line[k + 1]
<1>1. line \in Seq(Packets) /\ line # <<>> /\ line' = Tail(line)
      /\ Head(line).kind \in kinds
  BY DEF TypeInv, Takes
<1>2. Head(line) \in Packets /\ Tail(line) \in Seq(Packets)
      /\ Len(Tail(line)) = Len(line) - 1
      /\ \A k \in 1 .. Len(Tail(line)) : Tail(line)[k] = line[k + 1]
  BY <1>1, HeadTailProperties
<1>3. Len(line) \in Nat /\ Len(line) # 0
  BY <1>1, EmptySeq, LenProperties
<1>4. Head(line) = line[1]
  BY <1>1
<1>5. QED
  BY <1>1, <1>2, <1>3, <1>4

-----------------------------------------------------------------------------
(* Type correctness and the flow of the calls.                             *)

FlowStep == TypeInv' /\ FlowInv'

LEMMA FlowInit == Init => TypeInv /\ FlowInv
<1> SUFFICES ASSUME Init PROVE TypeInv /\ FlowInv
  OBVIOUS
<1>1. /\ <<>> \in Seq(Bytes) /\ Len(<<>>) = 0 /\ <<>> \in Seq(Packets)
      /\ <<>> \in Seq(Seq(Bytes)) /\ << <<>> >> \in Seq(Seq(Bytes))
  BY EmptySeq
<1>2. job \in Packets
  BY <1>1, Sizes DEF Init, Packets, Kinds
<1>3. /\ mode \in {"XMODEM", "XMODEM_1K", "YMODEM"} /\ lens \in [1 .. NFiles -> Nat]
      /\ sbuf \in [1 .. Big -> Bytes] /\ seq \in 0 .. 255
      /\ dlen \in 0 .. DataMax /\ sent \in [1 .. NFiles -> Seq(Bytes)]
  <2>1. mode \in {"XMODEM", "XMODEM_1K", "YMODEM"} /\ lens \in [1 .. NFiles -> Nat]
    BY FramingAssumption DEF Init
  <2>2. sbuf \in [1 .. Big -> Bytes] /\ sent \in [1 .. NFiles -> Seq(Bytes)]
    BY <1>1, ByteSorts DEF Init
  <2>3. seq \in 0 .. 255 /\ dlen \in 0 .. DataMax
    BY Maxes DEF Init, FirstSeq
  <2>4. QED
    BY <2>1, <2>2, <2>3
<1>4. TypeInv
  <2>1. blk \in Nat /\ dirty \in BOOLEAN /\ missed \in BOOLEAN /\ acks \in Nat
    BY DEF Init
  <2>2. /\ rbuf \in Seq(Bytes) /\ rlen \in 0 .. Len(rbuf) /\ rpos \in 0 .. rlen
        /\ pktno \in Nat /\ fsize \in Nat /\ count \in 0 .. fsize
        /\ out \in Seq(Seq(Bytes)) /\ rres = "run"
    BY <1>1, Sizes DEF Init
  <2>3. /\ spc = "app" /\ file \in 1 .. NFiles + 1 /\ next \in Nat /\ rest \in Nat
        /\ left = 0 /\ off = 0 /\ dlen = 0 /\ phase \in {"start", "data"}
        /\ fails \in 0 .. MaxFails /\ line = <<>>
    BY Sizes DEF Init
  <2>4. QED
    BY <1>1, <1>2, <1>3, <2>1, <2>2, <2>3 DEF TypeInv
<1>5. FlowInv
  BY <1>4, Sizes DEF Init, TypeInv, FlowInv, FileInv, CallInv, JobInv, InPkt
<1>6. QED
  BY <1>4, <1>5

LEMMA FlowStart == ASSUME TypeInv, FlowInv, SendStart PROVE FlowStep
<1>1. lens[file] \in Nat /\ <<>> \in Seq(Bytes) /\ DataMax' = DataMax
  <2>1. file \in 1 .. NFiles
    BY Sizes DEF TypeInv, SendStart
  <2>2. QED
    BY <2>1, EmptySeq DEF TypeInv, SendStart, DataMax, Unsent
<1>2. Send("HEADER", 0, <<>>, lens[file])
  BY DEF SendStart, Unsent
<1>3. job' \in Packets /\ job'.kind = "HEADER" /\ spc' = "pkt"
  <2>1. "HEADER" \in Kinds /\ 0 \in 0 .. 255 /\ 0 \in Nat
    BY DEF Kinds
  <2>2. QED
    BY <1>1, <1>2, <2>1, SendIs
<1>4. TypeInv'
  BY <1>1, <1>3, ByteSorts DEF TypeInv, SendStart, recvVars, Unsent
<1>5. FlowInv'
  BY <1>1, <1>3 DEF TypeInv, SendStart, recvVars, FlowInv, FileInv, CallInv, JobInv, Y, InPkt, Unsent
<1>6. QED
  BY <1>4, <1>5 DEF FlowStep

LEMMA FlowClose == ASSUME TypeInv, FlowInv, SendClose PROVE FlowStep
<1>1. <<>> \in Seq(Bytes) /\ DataMax' = DataMax
  BY EmptySeq DEF TypeInv, SendClose, DataMax, Unsent
<1>2. Send("NULL", 0, <<>>, 0)
  BY DEF SendClose, Unsent
<1>3. job' \in Packets /\ job'.kind = "NULL" /\ spc' = "pkt"
  <2>1. "NULL" \in Kinds /\ 0 \in 0 .. 255 /\ 0 \in Nat
    BY DEF Kinds
  <2>2. QED
    BY <1>1, <1>2, <2>1, SendIs
<1>4. TypeInv'
  BY <1>1, <1>3, ByteSorts DEF TypeInv, SendClose, recvVars, Unsent
<1>5. FlowInv'
  BY <1>1, <1>3 DEF TypeInv, SendClose, recvVars, FlowInv, FileInv, CallInv, JobInv, Y, InPkt, Unsent
<1>6. QED
  BY <1>4, <1>5 DEF FlowStep

LEMMA FlowLoop == ASSUME TypeInv, FlowInv, SendLoop PROVE FlowStep
<1>1. PICK n \in Chunks : next + n - 1 <= lens[file] /\ (n = 0 => dlen = DataMax) /\ rest' = n
  BY DEF SendLoop, Unsent
<1>2. n \in Nat /\ DataMax' = DataMax /\ file \in 1 .. NFiles /\ lens[file] \in Nat
  BY Sizes, FramingAssumption DEF SendLoop, DataMax, TypeInv, FlowInv, FileInv, Unsent
<1>3. TypeInv'
  BY <1>1, <1>2 DEF TypeInv, SendLoop, recvVars, Unsent
<1>4. FlowInv'
  BY <1>1, <1>2 DEF TypeInv, SendLoop, recvVars, FlowInv, FileInv, CallInv, JobInv, Y, InPkt, Unsent
<1>5. QED
  BY <1>3, <1>4 DEF FlowStep

\* What a turn of the loop does to the buffer.
LEMMA FillIs ==
    ASSUME TypeInv, FlowInv, Fill
    PROVE  \E n \in Nat :
             /\ n <= rest /\ dlen + n <= DataMax
             /\ sbuf' \in [1 .. Big -> Bytes]
             /\ \A i \in 1 .. dlen : sbuf'[i] = sbuf[i]
             /\ \A i \in dlen + 1 .. dlen + n : sbuf'[i] = <<file, next + i - dlen - 1>>
             /\ dlen' = dlen + n /\ next' = next + n /\ rest' = rest - n
             /\ dlen' # DataMax => n = rest
<1> DEFINE n == Lesser(rest, DataMax - dlen)
<1>1. dlen \in Nat /\ DataMax - dlen \in Nat /\ rest \in Nat /\ next \in Nat
      /\ file \in 1 .. NFiles /\ next >= 1 /\ sbuf \in [1 .. Big -> Bytes]
  BY Maxes, Sizes DEF TypeInv, FlowInv, FileInv, CallInv, Fill, Unsent
<1>2. n \in Nat /\ n <= rest /\ n <= DataMax - dlen /\ (n = rest \/ n = DataMax - dlen)
  BY <1>1, LesserOf
<1>3. /\ sbuf' = [i \in 1 .. Big |-> IF i \in dlen + 1 .. dlen + n
                                       THEN <<file, next + i - dlen - 1>> ELSE sbuf[i]]
      /\ dlen' = dlen + n /\ next' = next + n /\ rest' = rest - n
  BY DEF Fill, Unsent
<1> HIDE DEF n
<1>4. \A i \in dlen + 1 .. dlen + n : <<file, next + i - dlen - 1>> \in Bytes
  BY <1>1, <1>2, ByteSorts
<1>5. sbuf' \in [1 .. Big -> Bytes]
  BY <1>1, <1>3, <1>4
<1>6. \A i \in 1 .. dlen + n : i \in 1 .. Big
  BY <1>1, <1>2, Maxes, Sizes
<1>7. /\ \A i \in 1 .. dlen : sbuf'[i] = sbuf[i]
      /\ \A i \in dlen + 1 .. dlen + n : sbuf'[i] = <<file, next + i - dlen - 1>>
  BY <1>1, <1>2, <1>3, <1>6
<1>8. dlen' # DataMax => n = rest
  BY <1>1, <1>2, <1>3, Maxes
<1>9. QED
  BY <1>1, <1>2, <1>3, <1>5, <1>7, <1>8, Maxes

\* A full buffer is sent, from the beginning.
LEMMA FillSends ==
    ASSUME TypeInv, FlowInv, Fill
    PROVE  \/ /\ dlen' = DataMax
              /\ job' \in Packets /\ job'.kind = "DATA" /\ job'.seq = seq
              /\ job'.file = file /\ job'.blk = blk /\ job'.dirty = dirty
              /\ Len(job'.data) = DataMax
              /\ \A i \in 1 .. DataMax : job'.data[i] = sbuf'[i]
              /\ spc' = "pkt"
           \/ dlen' # DataMax /\ spc' = "app" /\ job' = job
<1>1. sbuf' \in [1 .. Big -> Bytes] /\ DataMax \in Nat /\ DataMax <= Big
  BY FillIs, Maxes
<1>2. CASE dlen' = DataMax
  <2>1. Send("DATA", seq, Payload(sbuf', DataMax), 0)
    BY <1>2 DEF Fill, Unsent
  <2>2. /\ Payload(sbuf', DataMax) \in Seq(Bytes) /\ Len(Payload(sbuf', DataMax)) = DataMax
        /\ \A i \in 1 .. DataMax : Payload(sbuf', DataMax)[i] = sbuf'[i]
    BY <1>1, PayloadIs
  <2>3. seq \in 0 .. 255 /\ "DATA" \in Kinds
    BY DEF TypeInv, Kinds
  <2> DEFINE w == Payload(sbuf', DataMax)
  <2> HIDE DEF w
  <2>4. Send("DATA", seq, w, 0) /\ w \in Seq(Bytes)
    BY <2>1, <2>2 DEF w
  <2>5. /\ job' \in Packets /\ job'.kind = "DATA" /\ job'.seq = seq
        /\ job'.data = w
        /\ job'.file = file /\ job'.blk = blk /\ job'.dirty = dirty
        /\ spc' = "pkt"
    BY ZenonT(60), <2>3, <2>4, SendIs
  <2>6. QED
    BY <1>2, <2>2, <2>5 DEF w
<1>3. CASE dlen' # DataMax
  BY <1>3 DEF Fill, Unsent
<1>4. QED
  BY <1>2, <1>3

LEMMA FlowFill == ASSUME TypeInv, FlowInv, Fill PROVE FlowStep
<1>1. PICK n \in Nat :
             /\ n <= rest /\ dlen + n <= DataMax
             /\ sbuf' \in [1 .. Big -> Bytes]
             /\ dlen' = dlen + n /\ next' = next + n /\ rest' = rest - n
  BY FillIs
<1>2. /\ job' \in Packets
      /\ \/ dlen' = DataMax /\ job'.kind = "DATA" /\ spc' = "pkt"
         \/ spc' = "app" /\ job' = job
  BY FillSends DEF TypeInv
<1>3. DataMax' = DataMax /\ file \in 1 .. NFiles /\ lens[file] \in Nat
  BY Sizes DEF Fill, DataMax, TypeInv, FlowInv, FileInv, CallInv, Unsent
<1>4. /\ dlen \in Nat /\ rest \in Nat /\ next \in Nat /\ next >= 1 /\ left = 0 /\ off = 0
      /\ next + rest <= lens[file] + 1 /\ phase = "data" /\ (~Y => file = 1)
  BY Maxes DEF TypeInv, Fill, FlowInv, FileInv, CallInv, Unsent
<1>5. TypeInv'
  <2>1. dlen' \in 0 .. DataMax' /\ next' \in Nat /\ rest' \in Nat
    BY <1>1, <1>3, <1>4, Maxes
  <2>2. left' \in 0 .. dlen' /\ off' \in 0 .. dlen'
    BY <1>4, <2>1, <1>3, Maxes DEF Fill, Unsent
  <2>3. spc' \in {"app", "loop", "tail", "pkt", "reply", "stop"}
    BY <1>2
  <2>4. QED
    BY <1>1, <1>2, <2>1, <2>2, <2>3 DEF TypeInv, Fill, recvVars, Unsent
<1>6. FileInv'
  BY <1>1, <1>2, <1>3, <1>4 DEF Fill, recvVars, FileInv, Y, Unsent
<1>7. CallInv' /\ JobInv'
  BY SMTT(30), <1>1, <1>2, <1>3, <1>4 DEF Fill, recvVars, CallInv, JobInv, InPkt, Unsent
<1>8. FlowStep
  BY <1>5, <1>6, <1>7 DEF FlowStep, FlowInv
<1>9. QED
  BY <1>8

LEMMA FlowEot == ASSUME TypeInv, FlowInv, SendEot PROVE FlowStep
<1>1. DataMax' = DataMax /\ lens[file] \in Nat
  BY Sizes DEF SendEot, DataMax, TypeInv, FlowInv, FileInv, Unsent
<1>2. TypeInv'
  BY <1>1 DEF TypeInv, SendEot, recvVars, Unsent
<1>3. FlowInv'
  BY <1>1 DEF TypeInv, SendEot, recvVars, FlowInv, FileInv, CallInv, JobInv, Y, InPkt, Unsent
<1>4. QED
  BY <1>2, <1>3 DEF FlowStep

\* The packets of xmodem_send_eot: the tail in one or more packets, or the EOT.
LEMMA TailIs ==
    ASSUME TypeInv, FlowInv, SendTail
    PROVE  /\ job' \in Packets /\ job'.file = file /\ job'.blk = blk
           /\ spc' = "pkt"
           /\ sbuf' \in [1 .. Big -> Bytes]
           /\ \/ /\ left = 0 /\ job'.kind = "EOT"
                 /\ sbuf' = sbuf /\ left' = left /\ off' = off
              \/ /\ left > 0 /\ dlen > 0 /\ job'.kind = "TAIL" /\ job'.seq = seq
                 /\ job'.dirty = dirty
                 /\ Len(job'.data) = TailMax(dlen)
                 /\ \A i \in 1 .. TailMax(dlen) : job'.data[i] = sbuf'[i]
                 /\ sbuf' = Padded(Lesser(left, TailMax(dlen)), TailMax(dlen))
                 /\ left' = left - Lesser(left, TailMax(dlen))
                 /\ off' = off + Lesser(left, TailMax(dlen))
                 /\ Lesser(left, TailMax(dlen)) \in Nat
                 /\ Lesser(left, TailMax(dlen)) <= left
<1>1. /\ left \in Nat /\ dlen \in Nat /\ dlen <= DataMax /\ left <= dlen /\ seq \in 0 .. 255
      /\ sbuf \in [1 .. Big -> Bytes]
  BY Maxes DEF TypeInv
<1>2. CASE left = 0
  <2>1. Send("EOT", 0, <<>>, 0) /\ sbuf' = sbuf /\ left' = left /\ off' = off
    BY <1>2 DEF SendTail, Unsent
  <2>2. <<>> \in Seq(Bytes) /\ "EOT" \in Kinds /\ 0 \in 0 .. 255 /\ 0 \in Nat
    BY EmptySeq DEF Kinds
  <2>3. QED
    BY <1>1, <1>2, <2>1, <2>2, SendIs
<1>3. CASE left # 0
  <2> DEFINE max == TailMax(dlen)
             n == Lesser(left, max)
             w == Payload(sbuf', max)
  <2>1. dlen \in 0 .. Big
    BY <1>1, Maxes, Sizes
  <2>2. max \in Nat \ {0} /\ max <= DataMax /\ max <= Big
    BY <2>1, Maxes, Sizes
  <2>3. n \in Nat /\ n <= left
    BY <1>1, <2>2, LesserOf
  <2>4. /\ sbuf' = Padded(n, max) /\ Send("TAIL", seq, w, 0)
        /\ left' = left - n /\ off' = off + n
    BY <1>3 DEF SendTail, Unsent
  <2> HIDE DEF max, n, w
  <2>5. sbuf' \in [1 .. Big -> Bytes]
    BY <1>1, <2>4, ByteSorts DEF Padded
  <2>6. w \in Seq(Bytes) /\ Len(w) = max /\ \A i \in 1 .. max : w[i] = sbuf'[i]
    BY <2>2, <2>5, PayloadIs DEF w
  <2>7. "TAIL" \in Kinds
    BY DEF Kinds
  <2>8. /\ job' \in Packets /\ job'.kind = "TAIL" /\ job'.seq = seq
        /\ job'.data = w
        /\ job'.file = file /\ job'.blk = blk /\ job'.dirty = dirty
        /\ spc' = "pkt"
    BY ZenonT(60), <1>1, <2>4, <2>6, <2>7, SendIs
  <2>9. QED
    BY <1>1, <1>3, <2>3, <2>4, <2>5, <2>6, <2>8 DEF max, n
<1>4. QED
  BY <1>2, <1>3

LEMMA FlowTail == ASSUME TypeInv, FlowInv, SendTail PROVE FlowStep
<1>1. /\ job' \in Packets /\ sbuf' \in [1 .. Big -> Bytes]
      /\ spc' = "pkt"
      /\ \/ left = 0 /\ job'.kind = "EOT" /\ left' = left /\ off' = off
         \/ /\ dlen > 0 /\ job'.kind = "TAIL"
            /\ \E n \in Nat : n <= left /\ left' = left - n /\ off' = off + n
  BY TailIs
<1>2. DataMax' = DataMax /\ lens[file] \in Nat
  BY Sizes DEF SendTail, DataMax, TypeInv, FlowInv, FileInv, CallInv, Unsent
<1>3. /\ left + off = dlen /\ next = lens[file] + 1 /\ dlen \in Nat /\ left \in Nat
      /\ off \in Nat /\ phase = "data"
  BY Maxes DEF TypeInv, SendTail, FlowInv, FileInv, CallInv, Unsent
<1>4. left' \in Nat /\ off' \in Nat /\ left' + off' = dlen
  BY <1>1, <1>3
<1>5. TypeInv'
  BY SMTT(60), <1>1, <1>2, <1>3, <1>4 DEF TypeInv, SendTail, recvVars, Unsent
<1>6. FileInv'
  BY <1>1, <1>2, <1>3 DEF SendTail, recvVars, FlowInv, FileInv, Y, Unsent
<1>7. CallInv'
  BY <1>1 DEF CallInv
<1>8. JobInv'
  BY <1>1, <1>2, <1>3, <1>4 DEF SendTail, recvVars, JobInv, InPkt, Unsent
<1>9. QED
  BY <1>5, <1>6, <1>7, <1>8 DEF FlowStep, FlowInv

LEMMA AckedType ==
    ASSUME TypeInv, Acked PROVE acks' \in Nat /\ missed' \in BOOLEAN
<1>1. acks' \in Nat
  BY DEF Acked, TypeInv
<1>2. missed' \in BOOLEAN
  BY Zenon DEF Acked, Mark
<1>3. QED
  BY <1>1, <1>2

LEMMA FlowAckedData == ASSUME TypeInv, FlowInv, AckedData PROVE FlowStep
<1>1. DataMax' = DataMax /\ file \in 1 .. NFiles /\ lens[file] \in Nat
  BY Sizes DEF AckedData, DataMax, TypeInv, FlowInv, FileInv, JobInv, InPkt, Acked
<1>2. sent[file] \o job.data \in Seq(Bytes)
  BY <1>1, ConcatProperties DEF TypeInv, Packets
<1>3. sent' \in [1 .. NFiles -> Seq(Bytes)]
  BY <1>2 DEF TypeInv, AckedData, Acked
<1>4. dlen \in Nat /\ left \in Nat /\ off \in Nat /\ rest \in Nat /\ next \in Nat
  BY Maxes DEF TypeInv
<1>5. job.kind = "DATA" => left = 0 /\ off = 0 /\ next + rest <= lens[file] + 1
  BY DEF AckedData, FlowInv, JobInv, InPkt, Acked
<1>6. TypeInv'
  <2>1. acks' \in Nat /\ missed' \in BOOLEAN
    BY AckedType DEF AckedData, Acked
  <2>2. blk' \in Nat
    BY DEF TypeInv, AckedData
  <2>3. dirty' \in BOOLEAN
    BY Zenon DEF TypeInv, AckedData
  <2>4. QED
    BY SMTT(60), <1>1, <1>3, <1>4, <1>5, <2>1, <2>2, <2>3, Maxes DEF TypeInv, AckedData, recvVars, Acked
<1>7. FileInv'
  BY <1>1 DEF TypeInv, AckedData, recvVars, FlowInv, FileInv, JobInv, Y, InPkt, Acked
<1>8. CallInv'
  BY <1>1, <1>4, <1>5 DEF TypeInv, AckedData, recvVars, FlowInv, JobInv, CallInv, DataMax, InPkt, Acked
<1>9. JobInv'
  BY <1>1 DEF TypeInv, AckedData, recvVars, JobInv, InPkt, Acked
<1>10. QED
  BY <1>6, <1>7, <1>8, <1>9 DEF FlowStep, FlowInv

LEMMA FlowAckedOther == ASSUME TypeInv, FlowInv, AckedOther PROVE FlowStep
<1>1. DataMax' = DataMax /\ lens' = lens /\ FirstSeq \in 0 .. 255
  BY DEF AckedOther, DataMax, FirstSeq, Acked
<1>2. job.kind \in {"HEADER", "EOT"} => file \in 1 .. NFiles /\ lens[file] \in Nat
  BY Sizes DEF AckedOther, TypeInv, FlowInv, FileInv, JobInv, InPkt, Acked
<1>3. NFiles \in Nat /\ DataMax \in Nat /\ acks' \in Nat /\ missed' \in BOOLEAN
      /\ blk' \in Nat /\ dirty' \in BOOLEAN
  <2>1. acks' \in Nat /\ missed' \in BOOLEAN
    BY AckedType DEF AckedOther, Acked
  <2>2. blk' \in Nat
    BY DEF AckedOther, TypeInv
  <2>3. dirty' \in BOOLEAN
    BY Zenon DEF AckedOther, EotReset, TypeInv
  <2>4. QED
    BY <2>1, <2>2, <2>3, Sizes, Maxes
<1>4. CASE job.kind = "HEADER"
  <2>1. /\ spc = "reply" /\ spc' = "app" /\ seq' = 1 /\ dlen' = 0 /\ phase' = "data"
        /\ left' = 0 /\ off' = 0
        /\ UNCHANGED <<mode, lens, sbuf, job, file, next, rest, fails, sent, line, recvVars>>
    BY <1>4 DEF AckedOther, LocalsEnd, Acked
  <2>2. phase = "start" /\ file <= NFiles /\ next = 1
    BY <1>4, <2>1 DEF FlowInv, FileInv, JobInv, InPkt
  <2>3. TypeInv'
    BY SMTT(60), <1>1, <1>3, <2>1 DEF TypeInv, recvVars
  <2>4. FlowInv'
    BY <1>1, <1>2, <1>3, <1>4, <2>1, <2>2 DEF FlowInv, FileInv, CallInv, JobInv, Y, InPkt
  <2>5. QED
    BY <2>3, <2>4 DEF FlowStep
<1>5. CASE job.kind = "EOT"
  <2>1. /\ spc = "reply" /\ spc' = (IF Y THEN "app" ELSE "stop") /\ seq' = FirstSeq
        /\ dlen' = 0 /\ phase' = "start" /\ file' = (IF Y THEN file + 1 ELSE file)
        /\ next' = 1 /\ left' = 0 /\ off' = 0
        /\ UNCHANGED <<mode, lens, sbuf, job, rest, fails, sent, line, recvVars>>
    BY <1>5 DEF AckedOther, LocalsEnd, EotReset, Acked
  <2>2. file' \in 1 .. NFiles + 1
    BY <1>2, <1>3, <1>5, <2>1
  <2>3. TypeInv'
    BY SMTT(60), <1>1, <1>3, <2>1, <2>2 DEF TypeInv, recvVars
  <2>4. FlowInv'
    BY <1>1, <2>1 DEF FlowInv, FileInv, CallInv, JobInv, Y, InPkt
  <2>5. QED
    BY <2>3, <2>4 DEF FlowStep
<1>6. CASE job.kind = "NULL"
  <2>1. /\ spc = "reply" /\ spc' = "stop" /\ seq' = 0 /\ dlen' = 0
        /\ left' = 0 /\ off' = 0
        /\ UNCHANGED <<mode, lens, sbuf, job, phase, file, next, rest, fails, sent, line, recvVars>>
    BY <1>6 DEF AckedOther, LocalsEnd, Acked
  <2>2. TypeInv'
    BY SMTT(60), <1>1, <1>3, <2>1 DEF TypeInv, recvVars
  <2>3. FlowInv'
    BY <1>1, <1>6, <2>1 DEF FlowInv, FileInv, CallInv, JobInv, Y, InPkt
  <2>4. QED
    BY <2>2, <2>3 DEF FlowStep
<1>7. QED
  BY <1>4, <1>5, <1>6 DEF AckedOther, Acked

LEMMA FlowFails == ASSUME TypeInv, FlowInv, PktFails PROVE FlowStep
<1>1. DataMax' = DataMax /\ FirstSeq \in 0 .. 255
  BY DEF PktFails, DataMax, FirstSeq
<1>2. sbuf' \in [1 .. Big -> Bytes]
  BY ByteSorts DEF PktFails, TypeInv
<1>3. acks' \in Nat /\ dirty' \in BOOLEAN
  <2>1. acks' \in Nat
    BY DEF PktFails, TypeInv
  <2>2. dirty' \in BOOLEAN
    BY Zenon DEF PktFails, EotReset, TypeInv
  <2>3. QED
    BY <2>1, <2>2
<1>4. TypeInv'
  <2>1. fails' \in 0 .. MaxFails /\ rest' = 0 /\ left' = 0 /\ off' = 0 /\ spc' = "app"
    BY Sizes DEF TypeInv, PktFails, LocalsEnd
  <2>2. dlen' \in 0 .. DataMax' /\ seq' \in 0 .. 255
    <3>1. CASE job.kind = "EOT"
      BY <1>1, <3>1, Maxes DEF PktFails, EotReset
    <3>2. CASE job.kind # "EOT"
      BY <1>1, <3>2 DEF TypeInv, PktFails
    <3>3. QED
      BY <3>1, <3>2
  <2>3. left' \in 0 .. dlen' /\ off' \in 0 .. dlen'
    BY <1>1, <2>1, <2>2, Maxes
  <2>4. QED
    BY <1>2, <1>3, <2>1, <2>2, <2>3 DEF TypeInv, PktFails, recvVars
<1>5. FlowInv'
  BY <1>1 DEF TypeInv, PktFails, recvVars, EotReset, LocalsEnd, FlowInv, FileInv,
                   CallInv, JobInv, Y, InPkt
<1>6. QED
  BY <1>4, <1>5 DEF FlowStep

LEMMA FlowTransmit == ASSUME TypeInv, FlowInv, Transmit PROVE FlowStep
<1>1. /\ UNCHANGED <<mode, lens, sbuf, dlen, seq, job, file, next, rest, left, off,
                     phase, fails, blk, dirty, sent, recvVars, spoilt, missed>>
      /\ spc = "pkt" /\ spc' = "reply"
  BY DEF Transmit
<1>2. line' \in Seq(Packets)
  BY AppendProperties DEF Transmit, TypeInv
<1>3. acks' \in Nat
  BY DEF Transmit, TypeInv
<1>4. TypeInv'
  BY <1>1, <1>2, <1>3 DEF TypeInv, recvVars, DataMax
<1>5. FlowInv'
  BY <1>1 DEF FlowInv, FileInv, CallInv, JobInv, Y, DataMax, InPkt
<1>6. QED
  BY <1>4, <1>5 DEF FlowStep

LEMMA FlowSame ==
    ASSUME FlowInv, UNCHANGED <<mode, lens, sendVars>> PROVE FlowInv'
  BY DEF sendVars, FlowInv, FileInv, CallInv, JobInv, Y, DataMax, InPkt

\* What the receiver hands out, if its application has asked for max bytes.
LEMMA HandIs ==
    ASSUME TypeInv, FlowInv, RecvHand, out # <<>>
    PROVE  \E n \in Nat :
             /\ n <= rlen - rpos /\ rpos' = rpos + n
             /\ out' \in Seq(Seq(Bytes)) /\ Len(out') = Len(out)
             /\ \A f \in 1 .. Len(out) - 1 : out'[f] = out[f]
             /\ Len(out'[Len(out)]) = Len(out[Len(out)]) + n
             /\ \A i \in 1 .. Len(out[Len(out)]) : out'[Len(out)][i] = out[Len(out)][i]
             /\ \A i \in 1 .. n :
                  out'[Len(out)][Len(out[Len(out)]) + i] = rbuf[rpos + i]
<1> DEFINE l == Len(out)
<1>1. out \in Seq(Seq(Bytes)) /\ l \in Nat /\ l >= 1 /\ out[l] \in Seq(Bytes)
  <2>1. out \in Seq(Seq(Bytes)) /\ l \in Nat /\ l # 0
    BY EmptySeq, LenProperties DEF TypeInv
  <2>2. QED
    BY <2>1, ElementOfSeq
<1>2. PICK max \in Reads :
        LET n == Lesser(rlen - rpos, max)
        IN /\ out' = [out EXCEPT ![Len(out)] = @ \o SubSeq(rbuf, rpos + 1, rpos + n)]
           /\ rpos' = rpos + n
  BY DEF RecvHand
<1> DEFINE n == Lesser(rlen - rpos, max)
           w == SubSeq(rbuf, rpos + 1, rpos + n)
<1>3. rbuf \in Seq(Bytes) /\ rlen \in Nat /\ rlen <= Len(rbuf) /\ rpos \in Nat /\ rpos <= rlen
      /\ Len(rbuf) \in Nat
  BY LenProperties DEF TypeInv
<1>4. n \in Nat /\ n <= rlen - rpos
  <2>1. rlen - rpos \in Nat /\ max \in Nat
    BY <1>3, FramingAssumption
  <2>2. QED
    BY <2>1, LesserOf
<1>5. w \in Seq(Bytes) /\ Len(w) = n /\ \A i \in 1 .. n : w[i] = rbuf[rpos + i]
  <2> HIDE DEF n
  <2> DEFINE a == rpos + 1
             b == rpos + n
  <2>1. a \in Int /\ b \in Int /\ (IF a <= b THEN b - a + 1 ELSE 0) = n /\ b - a + 1 = n
    BY <1>3, <1>4
  <2>2. \A i \in a .. b : i \in 1 .. Len(rbuf)
    BY <1>3, <1>4
  <2>3. \A i \in a .. b : rbuf[i] \in Bytes
    BY <1>3, <2>2, ElementOfSeq
  <2>4. \A i \in 1 .. n : a + i - 1 = rpos + i
    BY <1>3, <1>4
  <2> HIDE DEF a, b
  <2>5. /\ SubSeq(rbuf, a, b) \in Seq(Bytes) /\ Len(SubSeq(rbuf, a, b)) = n
        /\ \A i \in 1 .. n : SubSeq(rbuf, a, b)[i] = rbuf[a + i - 1]
    BY <2>1, <2>3, SubSeqProperties
  <2>6. QED
    BY <2>4, <2>5 DEF a, b
<1>6. out' = [out EXCEPT ![l] = out[l] \o w] /\ rpos' = rpos + n
  BY <1>2
<1> HIDE DEF l, n, w
<1>7. /\ out[l] \o w \in Seq(Bytes) /\ Len(out[l] \o w) = Len(out[l]) + n
      /\ \A i \in 1 .. Len(out[l]) + n :
           (out[l] \o w)[i] = IF i <= Len(out[l]) THEN out[l][i] ELSE w[i - Len(out[l])]
  BY ZenonT(60), <1>1, <1>5, ConcatProperties
<1>8. /\ out' \in Seq(Seq(Bytes)) /\ Len(out') = l /\ out'[l] = out[l] \o w
      /\ \A f \in 1 .. l - 1 : out'[f] = out[f]
  BY <1>1, <1>6, <1>7, ExceptSeq DEF l
<1>9. Len(out[l]) \in Nat
  BY <1>1, LenProperties
<1>10. \A i \in 1 .. n : (out[l] \o w)[Len(out[l]) + i] = rbuf[rpos + i]
  <2> TAKE i \in 1 .. n
  <2>1. Len(out[l]) + i \in 1 .. Len(out[l]) + n /\ ~(Len(out[l]) + i <= Len(out[l]))
        /\ Len(out[l]) + i - Len(out[l]) = i
    BY <1>4, <1>9
  <2>2. QED
    BY <1>5, <1>7, <2>1
<1>11. \A i \in 1 .. Len(out[l]) : (out[l] \o w)[i] = out[l][i]
  BY <1>4, <1>7, <1>9
<1>12. QED
  BY <1>4, <1>6, <1>7, <1>8, <1>10, <1>11 DEF l

LEMMA HandType == ASSUME TypeInv, FlowInv, RecvHand PROVE TypeInv'
<1>1. DataMax' = DataMax
  BY DEF RecvHand, DataMax
<1>2. rpos' \in 0 .. rlen /\ out' \in Seq(Seq(Bytes))
  <2>1. CASE out # <<>>
    <3>1. PICK n \in Nat : n <= rlen - rpos /\ rpos' = rpos + n /\ out' \in Seq(Seq(Bytes))
      BY <2>1, HandIs
    <3>2. rpos \in Nat /\ rlen \in Nat
      BY LenProperties DEF TypeInv
    <3>3. QED
      BY <3>1, <3>2
  <2>2. CASE out = <<>>
    <3>1. PICK max \in Reads :
            LET n == Lesser(rlen - rpos, max)
            IN /\ out' = [out EXCEPT ![Len(out)] = @ \o SubSeq(rbuf, rpos + 1, rpos + n)]
               /\ rpos' = rpos + n
      BY DEF RecvHand
    <3>2. max \in Nat /\ rlen \in Nat /\ rpos \in Nat /\ rpos <= rlen
      BY FramingAssumption, LenProperties DEF TypeInv
    <3>3. rlen - rpos \in Nat
      BY <3>2
    <3>4. Lesser(rlen - rpos, max) \in Nat /\ Lesser(rlen - rpos, max) <= rlen - rpos
      BY <3>2, <3>3, LesserOf
    <3>5. DOMAIN out = {} /\ Len(out) = 0
      BY <2>2
    <3>6. out' = out
      BY <2>2, <3>1, <3>5
    <3>7. rpos' = rpos + Lesser(rlen - rpos, max)
      BY <3>1
    <3>8. rpos' \in 0 .. rlen
      BY <3>2, <3>4, <3>7
    <3>9. QED
      BY <3>6, <3>8 DEF TypeInv
  <2>3. QED
    BY <2>1, <2>2
<1>3. QED
  BY <1>1, <1>2 DEF TypeInv, RecvHand, sendVars

LEMMA CutIs ==
    ASSUME TypeInv, NEW n \in Nat
    PROVE  Cut(n) \in Nat /\ Cut(n) <= n /\ count + Cut(n) <= fsize
           /\ Cut(n) = IF count + n > fsize THEN fsize - count ELSE n
  BY DEF Cut, TypeInv

LEMMA DataIs ==
    ASSUME TypeInv, RecvData
    PROVE  \E p \in Packets, n \in Nat :
             /\ line # <<>> /\ p = line[1] /\ p.kind \in {"DATA", "TAIL"}
             /\ ~IsDuplicate(p.seq) /\ IsNext(p.seq)
             /\ n = Cut(Len(p.data)) /\ n <= Len(p.data) /\ count + n <= fsize
             /\ rbuf' = p.data /\ rlen' = n /\ rpos' = 0 /\ count' = count + n
             /\ rres' = (IF n = 0 /\ ~Y THEN "eof" ELSE rres)
             /\ pktno' = pktno + 1
<1>1. Takes({"DATA", "TAIL"})
  BY DEF RecvData
<1>2. /\ line # <<>> /\ Head(line) = line[1] /\ Head(line) \in Packets
      /\ Head(line).kind \in {"DATA", "TAIL"}
  BY <1>1, TakesIs
<1> DEFINE p == Head(line)
           n == Cut(Len(p.data))
<1>3. Len(p.data) \in Nat
  BY <1>2, LenProperties DEF Packets
<1>4. n \in Nat /\ n <= Len(p.data) /\ count + n <= fsize
  BY <1>3, CutIs
<1>5. /\ ~IsDuplicate(p.seq) /\ IsNext(p.seq)
      /\ rbuf' = p.data /\ rlen' = n /\ rpos' = 0 /\ count' = count + n
      /\ rres' = (IF n = 0 /\ ~Y THEN "eof" ELSE rres)
      /\ pktno' = pktno + 1
  BY DEF RecvData
<1> HIDE DEF n
<1>6. p \in Packets /\ p = line[1]
  BY <1>2
<1>7. n = Cut(Len(p.data))
  BY DEF n
<1> HIDE DEF p
<1>8. QED
  BY <1>2, <1>4, <1>5, <1>6, <1>7 DEF p

LEMMA RecvType ==
    ASSUME TypeInv,
           RecvDuplicate \/ RecvHeader \/ RecvData \/ RecvAstray \/ RecvWrong \/ RecvEot
    PROVE  TypeInv'
<1>1. DataMax' = DataMax /\ UNCHANGED <<mode, lens, sendVars>>
  BY DEF RecvDuplicate, RecvHeader, RecvData, RecvAstray, RecvWrong, RecvEot, Takes, DataMax
<1>2. line' \in Seq(Packets) /\ missed' \in BOOLEAN /\ acks' \in Nat
  <2>1. line' \in Seq(Packets)
    BY TakesIs DEF RecvDuplicate, RecvHeader, RecvData, RecvAstray, RecvWrong, RecvEot
  <2>2. missed' \in BOOLEAN
    BY Zenon DEF RecvDuplicate, RecvHeader, RecvData, RecvAstray, RecvWrong, RecvEot, Mark
  <2>3. acks' \in Nat
    BY DEF RecvDuplicate, RecvHeader, RecvData, RecvAstray, RecvWrong, RecvEot, Answered,
           TypeInv
  <2>4. QED
    BY <2>1, <2>2, <2>3
<1>3. CASE RecvDuplicate
  BY <1>1, <1>2, <1>3 DEF TypeInv, RecvDuplicate, sendVars, recvVars
<1>4. CASE RecvHeader
  <2>1. Head(line) \in Packets
    BY <1>4, TakesIs DEF RecvHeader
  <2>2. Head(line).size \in Nat
    BY <2>1 DEF Packets
  <2>3. out' \in Seq(Seq(Bytes))
    <3>1. out \in Seq(Seq(Bytes)) /\ <<>> \in Seq(Bytes)
      BY EmptySeq DEF TypeInv
    <3>2. Append(out, <<>>) \in Seq(Seq(Bytes))
      BY <3>1, AppendProperties
    <3>3. QED
      BY <1>4, <3>1, <3>2 DEF RecvHeader
  <2>4. rres' \in {"run", "eof", "done", "astray"}
    BY <1>4 DEF RecvHeader, TypeInv
  <2>5. QED
    BY <1>1, <1>2, <1>4, <2>2, <2>3, <2>4 DEF TypeInv, RecvHeader, sendVars
<1>5. CASE RecvData
  <2>1. PICK p \in Packets, n \in Nat :
             /\ n <= Len(p.data) /\ count + n <= fsize
             /\ rbuf' = p.data /\ rlen' = n /\ rpos' = 0 /\ count' = count + n
             /\ rres' = (IF n = 0 /\ ~Y THEN "eof" ELSE rres)
             /\ pktno' = pktno + 1
    BY <1>5, DataIs
  <2>2. p.data \in Seq(Bytes)
    BY DEF Packets
  <2>3. rlen' \in 0 .. Len(rbuf') /\ rpos' \in 0 .. rlen' /\ pktno' \in Nat
    BY <2>1, <2>2, LenProperties DEF TypeInv
  <2>4. UNCHANGED <<fsize, out>>
    BY <1>5 DEF RecvData
  <2>5. count' \in 0 .. fsize /\ rres' \in {"run", "eof", "done", "astray"}
    BY <2>1 DEF TypeInv
  <2>6. QED
    BY <1>1, <1>2, <2>1, <2>2, <2>3, <2>4, <2>5 DEF TypeInv, sendVars
<1>6. CASE RecvEot
  BY <1>1, <1>2, <1>6 DEF TypeInv, RecvEot, sendVars
<1>7. CASE RecvAstray
  BY <1>1, <1>2, <1>7 DEF TypeInv, RecvAstray, sendVars
<1>8. CASE RecvWrong
  BY <1>1, <1>2, <1>8 DEF TypeInv, RecvWrong, sendVars
<1>9. QED
  BY <1>3, <1>4, <1>5, <1>6, <1>7, <1>8

\* Repetitions, losses and the sync byte touch only what is under way.
LEMMA AwayType ==
    ASSUME TypeInv, TransmitAgain \/ Lose \/ RecvCall \/ RecvTimeout
    PROVE  TypeInv' /\ UNCHANGED <<mode, lens, sendVars>>
<1>1. UNCHANGED <<mode, lens, sendVars>> /\ DataMax' = DataMax
  BY DEF TransmitAgain, Lose, RecvCall, RecvTimeout, DataMax
<1>2. line' \in Seq(Packets)
  <2>1. CASE TransmitAgain
    BY <2>1, AppendProperties DEF TransmitAgain, TypeInv
  <2>2. CASE Lose
    BY <2>2, HeadTailProperties DEF Lose, TypeInv
  <2>3. CASE RecvCall \/ RecvTimeout
    BY <2>3 DEF RecvCall, RecvTimeout, TypeInv
  <2>4. QED
    BY <2>1, <2>2, <2>3
<1>3. acks' \in Nat
  BY DEF TransmitAgain, Lose, RecvCall, RecvTimeout, Answered, TypeInv
<1>4. missed' \in BOOLEAN
  BY Zenon DEF TransmitAgain, Lose, RecvCall, RecvTimeout, Mark, TypeInv
<1>5. UNCHANGED <<rbuf, rlen, rpos, pktno, fsize, count, rres, out>>
  BY DEF TransmitAgain, Lose, RecvCall, RecvTimeout, recvVars
<1>6. TypeInv'
  BY <1>1, <1>2, <1>3, <1>4, <1>5 DEF TypeInv, sendVars
<1>7. QED
  BY <1>1, <1>6

LEMMA FlowNext == ASSUME TypeInv, FlowInv, [Next]_vars PROVE FlowStep
<1>1. CASE Sender
  BY <1>1, FlowStart, FlowLoop, FlowFill, FlowEot, FlowTail, FlowClose, FlowAckedData,
     FlowAckedOther, FlowTransmit, AwayType, FlowSame DEF Sender, FlowStep
<1>2. CASE PktFails
  BY <1>2, FlowFails
<1>3. CASE Receiver \/ Lose
  <2>1. TypeInv'
    BY <1>3, HandType, RecvType, AwayType DEF Receiver
  <2>2. UNCHANGED <<mode, lens, sendVars>>
    BY <1>3 DEF Receiver, RecvHand, RecvCall, RecvTimeout, RecvDuplicate, RecvHeader, RecvData,
                RecvAstray, RecvWrong, RecvEot, Takes, Lose
  <2>3. QED
    BY <2>1, <2>2, FlowSame DEF FlowStep
<1>4. CASE UNCHANGED vars
  <2>1. TypeInv'
    BY <1>4 DEF vars, sendVars, recvVars, TypeInv, DataMax
  <2>2. QED
    BY <1>4, <2>1, FlowSame DEF vars, FlowStep
<1>5. QED
  BY <1>1, <1>2, <1>3, <1>4 DEF Next

LEMMA TypeGives == TypeInv => TypeOK
<1> SUFFICES ASSUME TypeInv PROVE TypeOK
  OBVIOUS
<1>1. left \in 0 .. Big /\ off \in 0 .. Big
  BY Maxes, Sizes DEF TypeInv
<1>2. count <= fsize
  BY DEF TypeInv
<1>3. QED
  BY <1>1, <1>2 DEF TypeInv, TypeOK

\* The buffers keep their sizes and the counts their bounds: what is left of a
\* tail lies within the buffer, and the receiver never hands out more bytes
\* than its packet had (xmodem_send_loop, xmodem_send_eot, xmodem_recv_loop).
THEOREM TypeCorrect == Spec => []TypeOK
<1>1. Init => TypeInv /\ FlowInv
  BY FlowInit
<1>2. TypeInv /\ FlowInv /\ [Next]_vars => (TypeInv /\ FlowInv)'
  BY FlowNext DEF FlowStep
<1>3. TypeInv /\ FlowInv => TypeOK
  BY TypeGives
<1>4. QED
  BY <1>1, <1>2, <1>3, PTL DEF Spec

-----------------------------------------------------------------------------
(* Where the steps of the sender lead.                                     *)

\* The steps of the others leave it alone.
LEMMA OtherSteps ==
    ASSUME Receiver \/ Lose \/ TransmitAgain \/ UNCHANGED vars
    PROVE  UNCHANGED <<mode, lens, sendVars>>
<1>1. CASE Receiver
  BY <1>1 DEF Receiver, RecvHand, RecvCall, RecvTimeout, RecvDuplicate, RecvHeader, RecvData,
              RecvAstray, RecvWrong, RecvEot, Takes
<1>2. CASE Lose \/ TransmitAgain \/ UNCHANGED vars
  BY <1>2 DEF Lose, TransmitAgain, vars
<1>3. QED
  BY <1>1, <1>2

LEMMA Same ==
    ASSUME [Next]_vars
    PROVE  /\ mode' = mode /\ lens' = lens /\ Y' = Y /\ DataMax' = DataMax
           /\ FirstSeq' = FirstSeq
           /\ \A f : LongTail(f)' = LongTail(f)
<1>1. CASE Receiver \/ Lose \/ TransmitAgain \/ UNCHANGED vars
  BY <1>1, OtherSteps DEF Y, DataMax, FirstSeq, LongTail
<1>2. CASE ~(Receiver \/ Lose \/ TransmitAgain \/ UNCHANGED vars)
  <2>1. mode' = mode /\ lens' = lens
    BY <1>2 DEF Next, Sender, SendStart, SendLoop, Fill, SendEot, SendTail, SendClose,
                Unsent, Transmit, AckedData, AckedOther, Acked, PktFails
  <2>2. QED
    BY <2>1 DEF Y, DataMax, FirstSeq, LongTail
<1>3. QED
  BY <1>1, <1>2

LEMMA Numbers ==
    ASSUME TypeInv
    PROVE  /\ dlen \in Nat /\ dlen <= DataMax /\ next \in Nat /\ rest \in Nat
           /\ left \in Nat /\ left <= dlen /\ off \in Nat /\ off <= dlen
           /\ file \in Nat /\ file >= 1 /\ file <= NFiles + 1 /\ NFiles \in Nat
           /\ (file <= NFiles => file \in 1 .. NFiles /\ lens[file] \in Nat)
           /\ DataMax \in Nat /\ DataMax > 0
  BY Maxes, Sizes DEF TypeInv

LEMMA StayLoop ==
    ASSUME TypeInv, FlowInv, SendLoop
    PROVE  Middle' = Middle /\ AtEnd' = AtEnd /\ Base' = Base /\ phase = "data"
           /\ spc = "app" /\ spc' = "loop"
  BY DEF SendLoop, Middle, AtEnd, Base, InPkt, Unsent

LEMMA StayFill ==
    ASSUME TypeInv, FlowInv, Fill
    PROVE  /\ Middle /\ Middle' /\ Base' = Base
           /\ spc = "loop" /\ phase = "data" /\ phase' = "data" /\ file' = file
           /\ dlen' > 0 \/ (next' <= lens[file])
<1>1. PICK n \in Nat :
             /\ n <= rest /\ dlen + n <= DataMax
             /\ dlen' = dlen + n /\ next' = next + n /\ rest' = rest - n
             /\ dlen' # DataMax => n = rest
  BY FillIs
<1>2. /\ spc = "loop" /\ phase = "data" /\ next + rest <= lens[file] + 1
      /\ (rest = 0 => dlen = DataMax) /\ file <= NFiles
  BY DEF Fill, TypeInv, FlowInv, FileInv, CallInv, Unsent
<1>3. UNCHANGED <<lens, file, phase>>
  BY DEF Fill, Unsent
<1>4. Base' = Base
  BY <1>1, Numbers DEF Base
<1>5. Middle
  BY <1>2, Numbers DEF Middle, AtEnd, InPkt
<1>6. spc' = "app" \/ (spc' = "pkt" /\ job'.kind = "DATA")
  BY FillSends
<1>7. dlen' > 0
  BY <1>1, <1>2, Numbers
<1>8. Middle'
  BY <1>2, <1>3, <1>6, <1>7 DEF Middle, AtEnd, InPkt
<1>9. QED
  BY <1>2, <1>3, <1>4, <1>5, <1>7, <1>8

LEMMA StayEot ==
    ASSUME TypeInv, FlowInv, SendEot
    PROVE  /\ Middle' = Middle /\ AtEnd' = AtEnd /\ Base' = Base /\ phase = "data"
           /\ Middle => dlen > 0
  BY Numbers DEF SendEot, Middle, AtEnd, Base, InPkt, Unsent

LEMMA StayTail ==
    ASSUME TypeInv, FlowInv, SendTail
    PROVE  /\ phase = "data" /\ phase' = "data" /\ next = lens[file] + 1 /\ spc = "tail"
           /\ \/ left = 0 /\ AtEnd /\ AtEnd' /\ job'.kind = "EOT"
              \/ /\ left > 0 /\ dlen > 0 /\ Middle /\ Middle' /\ Base' = Base
                 /\ job'.kind = "TAIL"
<1>1. UNCHANGED <<lens, file, phase, next, dlen>> /\ spc = "tail" /\ phase = "data"
      /\ next = lens[file] + 1
  BY DEF SendTail, TypeInv, FlowInv, FileInv, CallInv, Unsent
<1>2. spc' = "pkt"
  BY TailIs
<1>3. CASE left = 0
  <2>1. job'.kind = "EOT"
    BY <1>3, TailIs, Numbers
  <2>2. QED
    BY <1>1, <1>2, <1>3, <2>1 DEF AtEnd, InPkt
<1>4. CASE left # 0
  <2>1. job'.kind = "TAIL" /\ dlen > 0 /\ left > 0
    BY <1>4, TailIs, Numbers
  <2>2. QED
    BY <1>1, <1>2, <1>4, <2>1, Numbers DEF AtEnd, Middle, Base, InPkt
<1>5. QED
  BY <1>3, <1>4

LEMMA StayAcked ==
    ASSUME TypeInv, FlowInv, AckedData
    PROVE  /\ Middle /\ dlen > 0 /\ phase = "data" /\ phase' = "data" /\ file \in 1 .. NFiles
           /\ next' = next /\ file' = file
           /\ \/ /\ job.kind = "DATA" /\ dlen = DataMax /\ dlen' = 0 /\ Base' = next - 1
                 /\ next + rest <= lens[file] + 1
                 /\ spc' = IF rest > 0 THEN "loop" ELSE "app"
              \/ /\ job.kind = "TAIL" /\ dlen' = dlen /\ Base' = Base /\ next = lens[file] + 1
                 /\ spc' = "tail" /\ left' = left
                 /\ left = 0 => AtEnd'
                 /\ left > 0 => Middle'
<1>1. /\ spc = "reply" /\ job.kind \in {"DATA", "TAIL"}
      /\ UNCHANGED <<lens, file, next, rest, left, off, phase, job>>
  BY DEF AckedData, Acked
<1>2. phase = "data" /\ file <= NFiles
  BY <1>1 DEF FlowInv, FileInv, JobInv, InPkt
<1>3. CASE job.kind = "DATA"
  <2>1. dlen = DataMax /\ next + rest <= lens[file] + 1
    BY <1>1, <1>3 DEF FlowInv, JobInv, InPkt
  <2>2. dlen' = 0 /\ spc' = IF rest > 0 THEN "loop" ELSE "app"
    BY <1>3 DEF AckedData, Acked
  <2>3. Middle /\ dlen > 0
    BY <1>1, <1>2, <1>3, <2>1, Numbers DEF Middle, AtEnd, InPkt
  <2>4. Base' = next - 1
    BY <1>1, <2>2, Numbers DEF Base
  <2>5. QED
    BY <1>1, <1>2, <1>3, <2>1, <2>2, <2>3, <2>4, Numbers
<1>4. CASE job.kind = "TAIL"
  <2>1. dlen > 0 /\ next = lens[file] + 1
    BY <1>1, <1>4 DEF FlowInv, JobInv, InPkt
  <2>2. dlen' = dlen /\ spc' = "tail"
    BY <1>4 DEF AckedData, Acked
  <2>3. Middle
    BY <1>1, <1>2, <1>4, <2>1, Numbers DEF Middle, AtEnd, InPkt
  <2>4. Base' = Base
    BY <1>1, <2>2 DEF Base
  <2>5. (left = 0 => AtEnd') /\ (left > 0 => Middle')
    BY <1>1, <1>2, <2>1, <2>2, Numbers DEF Middle, AtEnd, InPkt
  <2>6. QED
    BY <1>1, <1>2, <1>4, <2>1, <2>2, <2>3, <2>4, <2>5, Numbers
<1>5. QED
  BY <1>1, <1>3, <1>4

LEMMA StayOther ==
    ASSUME TypeInv, FlowInv, AckedOther
    PROVE  \/ /\ job.kind = "HEADER" /\ phase = "start" /\ spc # "stop" /\ file \in 1 .. NFiles
              /\ phase' = "data" /\ file' = file /\ next' = 1 /\ dlen' = 0 /\ Base' = 0
              /\ seq' = 1 /\ spc' = "app" /\ (AtEnd' \/ Middle')
              /\ (AtEnd' => lens[file] = 0)
           \/ /\ job.kind = "EOT" /\ AtEnd /\ phase' = "start" /\ file \in 1 .. NFiles
              /\ file' = (IF Y THEN file + 1 ELSE file)
              /\ spc' = (IF Y THEN "app" ELSE "stop")
           \/ /\ job.kind = "NULL" /\ phase = "start" /\ phase' = "start" /\ spc # "stop"
              /\ file' = file /\ spc' = "stop"
<1>1. spc = "reply" /\ lens' = lens
  BY DEF AckedOther, Acked
<1>2. CASE job.kind = "HEADER"
  <2>1. /\ seq' = 1 /\ dlen' = 0 /\ phase' = "data" /\ spc' = "app"
        /\ UNCHANGED <<file, next>>
    BY <1>2 DEF AckedOther, Acked
  <2>2. phase = "start" /\ file <= NFiles /\ next = 1
    BY <1>1, <1>2 DEF FlowInv, FileInv, JobInv, InPkt
  <2>3. AtEnd' \/ Middle'
    BY <2>1 DEF Middle
  <2>4. AtEnd' => lens[file] = 0
    BY <1>1, <2>1, <2>2, Numbers DEF AtEnd, InPkt
  <2>5. QED
    BY <1>1, <1>2, <2>1, <2>2, <2>3, <2>4, Numbers DEF Base
<1>3. CASE job.kind = "EOT"
  <2>1. phase = "data" /\ file <= NFiles /\ next = lens[file] + 1
    BY <1>1, <1>3 DEF FlowInv, FileInv, JobInv, InPkt
  <2>2. AtEnd
    BY <1>1, <1>3, <2>1 DEF AtEnd, InPkt
  <2>3. QED
    BY <1>3, <2>1, <2>2, Numbers DEF AckedOther, Acked
<1>4. CASE job.kind = "NULL"
  <2>1. phase = "start"
    BY <1>1, <1>4 DEF FlowInv, JobInv, InPkt
  <2>2. QED
    BY <1>1, <1>4, <2>1 DEF AckedOther, Acked
<1>5. QED
  BY <1>2, <1>3, <1>4 DEF AckedOther, Acked

LEMMA StayFails ==
    ASSUME TypeInv, FlowInv, PktFails
    PROVE  /\ phase' = phase /\ file' = file /\ next' = next /\ InPkt /\ spc' = "app"
           /\ \/ job.kind \in {"HEADER", "NULL"} /\ phase = "start"
              \/ job.kind = "EOT" /\ AtEnd /\ AtEnd' /\ phase = "data"
              \/ /\ job.kind \in {"DATA", "TAIL"} /\ Middle /\ Middle' /\ Base' = Base
                 /\ dlen' = dlen /\ dlen > 0 /\ seq' = seq /\ phase = "data"
                 /\ dlen = DataMax \/ next = lens[file] + 1
<1>1. InPkt /\ spc' = "app" /\ UNCHANGED <<lens, file, next, phase>>
  BY DEF PktFails, InPkt
<1>2. job.kind \in Kinds
  BY DEF TypeInv, Packets
<1>3. CASE job.kind \in {"HEADER", "NULL"}
  BY <1>1, <1>3 DEF FlowInv, JobInv, InPkt
<1>4. CASE job.kind = "EOT"
  <2>1. phase = "data" /\ next = lens[file] + 1
    BY <1>1, <1>4 DEF FlowInv, JobInv, InPkt
  <2>2. dlen' = 0
    BY <1>4 DEF PktFails, EotReset
  <2>3. QED
    BY <1>1, <1>4, <2>1, <2>2 DEF AtEnd, InPkt
<1>5. CASE job.kind \in {"DATA", "TAIL"}
  <2>1. phase = "data" /\ dlen > 0 /\ (dlen = DataMax \/ next = lens[file] + 1)
    BY <1>1, <1>5, Numbers DEF FlowInv, JobInv, InPkt
  <2>2. dlen' = dlen /\ seq' = seq
    BY <1>5 DEF PktFails
  <2>3. Middle /\ Middle' /\ Base' = Base
    BY <1>1, <1>5, <2>1, <2>2, Numbers DEF Middle, AtEnd, Base, InPkt
  <2>4. QED
    BY <1>1, <1>5, <2>1, <2>2, <2>3
<1>6. QED
  BY <1>2, <1>3, <1>4, <1>5 DEF Kinds

LEMMA StayRecv ==
    ASSUME UNCHANGED <<mode, lens, sendVars>>
    PROVE  /\ AtEnd' = AtEnd /\ Middle' = Middle /\ Base' = Base /\ BufGood' = BufGood
           /\ InPkt' = InPkt
  BY DEF sendVars, AtEnd, Middle, Base, BufGood, DataMax, InPkt

LEMMA StayTransmit ==
    ASSUME Transmit
    PROVE  /\ AtEnd' = AtEnd /\ Middle' = Middle /\ Base' = Base /\ BufGood' = BufGood
           /\ InPkt /\ InPkt' /\ spc' = "reply"
           /\ UNCHANGED <<mode, lens, sbuf, dlen, seq, job, file, next, rest, left, off,
                          phase, fails, blk, dirty, sent, recvVars, spoilt, missed>>
<1>1. /\ UNCHANGED <<mode, lens, sbuf, dlen, seq, job, file, next, rest, left, off,
                     phase, fails, blk, dirty, sent, recvVars, spoilt, missed>>
      /\ spc = "pkt" /\ spc' = "reply"
  BY DEF Transmit
<1>2. QED
  BY <1>1 DEF AtEnd, Middle, Base, BufGood, DataMax, InPkt

-----------------------------------------------------------------------------
(* The tail fits in one packet.                                            *)

LEMMA ModUnique ==
    ASSUME NEW M \in Nat, M > 0, NEW q \in Int, NEW r \in 0 .. M - 1
    PROVE  (M * q + r) % M = r
<1> DEFINE a == M * q + r
           p == a \div M
           s == a % M
<1>1. a \in Int /\ p \in Int /\ s \in 0 .. M - 1 /\ a = M * p + s
  OBVIOUS
<1> HIDE DEF p, s
<1>2. M * (q - p) = s - r
  BY <1>1
<1>3. q - p \in Int /\ (q - p >= 1 => M * (q - p) >= M)
  BY <1>1
<1>4. q - p <= -1 => M * (q - p) <= -M
  BY <1>1
<1>5. q - p = 0
  BY <1>1, <1>2, <1>3, <1>4
<1>6. QED
  BY <1>1, <1>2, <1>5 DEF s

\* Adding r to a multiple of M.
LEMMA ModAdd ==
    ASSUME NEW M \in Nat, M > 0, NEW b \in Nat, b % M = 0, NEW r \in 0 .. M - 1
    PROVE  (b + r) % M = r /\ (b + M) % M = 0
<1> DEFINE q == b \div M
<1>1. q \in Int /\ b = M * q + 0
  OBVIOUS
<1> HIDE DEF q
<1>2. b + r = M * q + r /\ b + M = M * (q + 1) + 0
  BY <1>1
<1>3. (M * q + r) % M = r
  BY <1>1, ModUnique
<1>4. q + 1 \in Int /\ 0 \in 0 .. M - 1
  BY <1>1
<1>5. (M * (q + 1) + 0) % M = 0
  BY <1>4, ModUnique
<1>6. QED
  BY <1>2, <1>3, <1>5

LEMMA TailFits ==
    ASSUME TypeInv, FlowInv, TailInv, Middle, next = lens[file] + 1, ~LongTail(file)
    PROVE  dlen <= TailMax(dlen) /\ Lesser(dlen, TailMax(dlen)) = dlen
<1>1. /\ dlen \in Nat /\ dlen <= DataMax /\ Base \in Nat /\ Base % DataMax = 0
      /\ lens[file] = Base + dlen
  <2>1. file <= NFiles
    BY DEF Middle, FlowInv, FileInv
  <2>2. QED
    BY <2>1, Numbers DEF TailInv, Base, InPkt
<1>2. dlen <= TailMax(dlen)
  <2>1. CASE mode = "YMODEM"
    BY <1>1, <2>1 DEF TailMax, Y
  <2>2. CASE mode = "XMODEM"
    BY <1>1, <2>2 DEF TailMax, DataMax
  <2>3. CASE mode = "XMODEM_1K"
    <3>1. DataMax = Big
      BY <2>3 DEF DataMax
    <3>2. CASE dlen = Big
      BY <3>1, <3>2, Sizes DEF TailMax
    <3>3. CASE dlen < Big
      <4>1. lens[file] % Big = dlen
        BY <1>1, <3>1, <3>3, Sizes, ModAdd
      <4>2. dlen <= Small \/ dlen > Big - Small
        BY <1>1, <2>3, <4>1, Sizes DEF LongTail
      <4>3. QED
        BY <1>1, <3>1, <4>2, Sizes DEF TailMax
    <3>4. QED
      BY <1>1, <3>1, <3>2, <3>3, Sizes
  <2>4. QED
    BY <2>1, <2>2, <2>3 DEF TypeInv
<1>3. TailMax(dlen) \in Nat
  <2>1. dlen \in 0 .. Big
    BY <1>1, Maxes, Sizes
  <2>2. QED
    BY <2>1, Maxes
<1>4. QED
  BY <1>1, <1>2, <1>3 DEF Lesser

LEMMA TailInit == Init => TailInv
<1> SUFFICES ASSUME Init, Middle PROVE TailInv
  BY DEF TailInv, InPkt
<1>1. Base = 0 /\ spc = "app" /\ DataMax \in Nat /\ DataMax > 0
  BY Maxes DEF Init, Base
<1>2. 0 % DataMax = 0
  BY <1>1, ModAdd
<1>3. QED
  BY <1>1, <1>2 DEF TailInv, InPkt

LEMMA TailStep == ASSUME TypeInv, FlowInv, TailInv, [Next]_vars PROVE TailInv'
<1> SUFFICES ASSUME Middle' PROVE TailInv'
  BY DEF TailInv, InPkt
<1> USE Same
<1>1. CASE SendStart
  BY <1>1 DEF SendStart, Middle, AtEnd, InPkt, Unsent
<1>2. CASE SendLoop
  <2>1. Middle /\ Base' = Base /\ spc' = "loop"
    BY <1>2, StayLoop
  <2>2. QED
    BY <2>1 DEF TailInv, InPkt
<1>3. CASE Fill
  <2>1. Middle /\ Base' = Base
    BY <1>3, StayFill
  <2>2. spc' = "app" \/ (spc' = "pkt" /\ job'.kind = "DATA")
    BY <1>3, FillSends
  <2>3. QED
    BY <2>1, <2>2 DEF TailInv, InPkt
<1>4. CASE SendEot
  <2>1. Middle /\ Base' = Base
    BY <1>4, StayEot
  <2>2. left' = dlen' /\ off' = 0 /\ spc' = "tail" /\ file' = file
    BY <1>4 DEF SendEot, Unsent
  <2>3. QED
    BY <2>1, <2>2 DEF TailInv, InPkt
<1>5. CASE SendTail
  <2>1. /\ next = lens[file] + 1 /\ spc = "tail" /\ left > 0 /\ dlen > 0 /\ Middle
        /\ Base' = Base
    BY <1>5, StayTail DEF Middle
  <2>2. spc' = "pkt" /\ left' = left - Lesser(left, TailMax(dlen)) /\ file' = file
    BY <1>5, <2>1, TailIs, Numbers DEF SendTail, Unsent
  <2>3. ~LongTail(file) => left' = 0
    BY <2>1, <2>2, TailFits, Numbers DEF TailInv, InPkt
  <2>4. QED
    BY <2>1, <2>2, <2>3 DEF TailInv, InPkt
<1>6. CASE SendClose
  BY <1>6 DEF SendClose, FlowInv, FileInv, Middle, AtEnd, InPkt, Unsent
<1>7. CASE AckedData
  <2>1. Middle /\ Base \in Nat /\ Base % DataMax = 0 /\ file' = file /\ InPkt
    BY <1>7, StayAcked DEF TailInv, AckedData, InPkt, Acked
  <2>2. CASE job.kind = "DATA"
    <3>1. dlen = DataMax /\ Base' = next - 1 /\ spc' # "tail" /\ ~InPkt'
      BY <1>7, <2>2, StayAcked DEF InPkt
    <3>2. Base' = Base + DataMax
      BY <2>1, <3>1, Numbers DEF Base
    <3>3. (Base + DataMax) % DataMax = 0
      <4>1. DataMax \in Nat /\ DataMax > 0 /\ 0 \in 0 .. DataMax - 1
        BY Numbers
      <4>2. QED
        BY <2>1, <4>1, ModAdd
    <3>4. QED
      BY <2>1, <3>1, <3>2, <3>3, Numbers DEF TailInv, InPkt
  <2>3. CASE job.kind = "TAIL"
    <3>1. /\ Base' = Base /\ spc' = "tail" /\ left' = left
          /\ left = 0 => AtEnd'
      BY <1>7, <2>3, StayAcked
    <3>2. left # 0
      BY <3>1 DEF Middle
    <3>3. LongTail(file)
      BY <2>1, <2>3, <3>2 DEF TailInv, InPkt
    <3>4. QED
      BY <2>1, <3>1, <3>3 DEF TailInv, InPkt
  <2>4. QED
    BY <1>7, <2>2, <2>3 DEF AckedData, Acked
<1>8. CASE AckedOther
  <2>1. Base' = 0 /\ spc' = "app"
    BY <1>8, StayOther DEF Middle
  <2>2. DataMax \in Nat /\ DataMax > 0
    BY Numbers
  <2>3. 0 % DataMax = 0
    BY <2>2, ModAdd
  <2>4. QED
    BY <2>1, <2>3 DEF TailInv, InPkt
<1>9. CASE PktFails
  <2>1. Middle /\ Base' = Base /\ spc' = "app"
    BY <1>9, StayFails DEF Middle
  <2>2. QED
    BY <2>1 DEF TailInv, InPkt
<1>10. CASE Receiver \/ Lose \/ TransmitAgain \/ UNCHANGED vars
  <2>1. UNCHANGED <<mode, lens, sendVars>>
    BY <1>10, OtherSteps
  <2>2. Middle /\ Base' = Base
    BY <2>1, StayRecv
  <2>3. QED
    BY <2>1, <2>2 DEF TailInv, sendVars, InPkt
<1>11. CASE Transmit
  <2>1. /\ Middle /\ Base' = Base /\ InPkt /\ spc' = "reply"
        /\ UNCHANGED <<job, file, left>>
    BY <1>11, StayTransmit
  <2>2. QED
    BY <2>1 DEF TailInv, InPkt
<1>12. QED
  BY <1>1, <1>2, <1>3, <1>4, <1>5, <1>6, <1>7, <1>8, <1>9, <1>10, <1>11 DEF Next, Sender

-----------------------------------------------------------------------------
(* What the packets of a file carry.                                       *)

LEMMA FollowsConcat ==
    ASSUME TypeInv, NEW f \in 1 .. NFiles, NEW a \in Seq(Bytes), NEW b \in Seq(Bytes),
           Follows(a, f, 0), Follows(b, f, Len(a))
    PROVE  Follows(a \o b, f, 0)
<1>1. Len(a) \in Nat /\ Len(b) \in Nat
  BY LenProperties
<1>2. Len(a \o b) = Len(a) + Len(b)
      /\ \A i \in 1 .. Len(a) + Len(b) :
           (a \o b)[i] = IF i <= Len(a) THEN a[i] ELSE b[i - Len(a)]
  BY ConcatProperties
<1>3. SUFFICES ASSUME NEW i \in 1 .. Len(a) + Len(b)
               PROVE  (a \o b)[i] = IF 0 + i <= lens[f] THEN <<f, 0 + i>> ELSE Pad
  BY <1>2 DEF Follows
<1>4. CASE i <= Len(a)
  <2>1. i \in 1 .. Len(a)
    BY <1>1, <1>4
  <2>2. (a \o b)[i] = a[i]
    BY <1>2, <1>4
  <2>3. QED
    BY <2>1, <2>2 DEF Follows
<1>5. CASE ~(i <= Len(a))
  <2> DEFINE j == i - Len(a)
  <2>1. j \in 1 .. Len(b) /\ Len(a) + j = 0 + i
    BY <1>1, <1>5
  <2>2. (a \o b)[i] = b[j]
    BY <1>2, <1>5
  <2> HIDE DEF j
  <2>3. b[j] = IF Len(a) + j <= lens[f] THEN <<f, Len(a) + j>> ELSE Pad
    BY <2>1 DEF Follows
  <2>4. QED
    BY <2>1, <2>2, <2>3
<1>6. QED
  BY <1>4, <1>5

LEMMA FollowsNothing == ASSUME NEW f, NEW n PROVE Follows(<<>>, f, n)
  BY DEF Follows

LEMMA FrameInit == Init => FrameInv
<1> SUFFICES ASSUME Init PROVE FrameInv
  OBVIOUS
<1>1. /\ \A f \in 1 .. NFiles : sent[f] = <<>>
      /\ dlen = 0 /\ next = 1 /\ spc = "app" /\ file = 1 /\ Len(<<>>) = 0
  BY DEF Init
<1>2. lens \in [1 .. NFiles -> Nat]
  BY FlowInit DEF TypeInv
<1>3. SentInv
  BY <1>1, <1>2, FollowsNothing DEF SentInv, AtEnd, InPkt
<1>4. BufInv
  BY <1>1 DEF BufInv, BufGood
<1>5. JobData
  <2>1. phase = "data" => file \in 1 .. NFiles
    BY <1>1, Sizes
  <2>2. QED
    BY <1>1, <2>1 DEF JobData, Middle, Base, InPkt
<1>6. QED
  BY <1>3, <1>4, <1>5 DEF FrameInv

\* What a turn of the loop leaves in the buffer, and sends.
LEMMA FillCarries ==
    ASSUME TypeInv, FlowInv, BufGood, Fill, [Next]_vars
    PROVE  BufGood' /\ (spc' = "pkt" => Follows(job'.data, file, Base))
<1> USE Same
<1>1. PICK n \in Nat :
        /\ dlen + n <= DataMax
        /\ \A i \in 1 .. dlen : sbuf'[i] = sbuf[i]
        /\ \A i \in dlen + 1 .. dlen + n : sbuf'[i] = <<file, next + i - dlen - 1>>
        /\ dlen' = dlen + n /\ next' = next + n
  BY FillIs
<1>2. Base' = Base /\ phase = "data" /\ phase' = "data"
  BY StayFill
<1>3. file' = file /\ file \in 1 .. NFiles /\ lens[file] \in Nat
  BY <1>2, Numbers DEF Fill, FlowInv, FileInv, Unsent
<1>4. next' <= lens[file] + 1 /\ next' \in Nat
  BY <1>1, <1>2, <1>3, FlowFill, Numbers DEF FlowStep, FlowInv, FileInv
<1>5. BufGood'
  <2> SUFFICES ASSUME NEW i \in 1 .. dlen + n PROVE sbuf'[i] = <<file, Base + i>>
    BY <1>1, <1>2, <1>3 DEF BufGood
  <2>1. CASE i <= dlen
    <3>1. i \in 1 .. dlen
      BY <2>1, Numbers
    <3>2. QED
      BY <1>1, <3>1 DEF BufGood
  <2>2. CASE ~(i <= dlen)
    <3>1. i \in dlen + 1 .. dlen + n /\ next + i - dlen - 1 = Base + i
      BY <2>2, Numbers DEF Base
    <3>2. QED
      BY <1>1, <3>1
  <2>3. QED
    BY <2>1, <2>2
<1>6. CASE spc' = "pkt"
  <2>1. /\ dlen' = DataMax /\ Len(job'.data) = DataMax
        /\ \A i \in 1 .. DataMax : job'.data[i] = sbuf'[i]
    BY <1>6, FillSends
  <2>2. Base + DataMax <= lens[file] /\ Base \in Int
    <3>1. Base = next - 1 - dlen
      BY DEF Base
    <3>2. dlen + n = DataMax /\ next + n <= lens[file] + 1
      BY <1>1, <1>4, <2>1
    <3>3. QED
      BY <1>3, <3>1, <3>2, Numbers
  <2>3. ASSUME NEW i \in 1 .. DataMax
        PROVE  job'.data[i] = IF Base + i <= lens[file] THEN <<file, Base + i>> ELSE Pad
    <3>1. sbuf'[i] = <<file, Base + i>>
      BY <1>2, <1>3, <1>5, <2>1 DEF BufGood
    <3>2. Base + i <= lens[file]
      BY <1>3, <2>2, Numbers
    <3>3. QED
      BY <2>1, <3>1, <3>2
  <2>4. QED
    BY <1>5, <2>1, <2>3 DEF Follows
<1>7. QED
  BY <1>5, <1>6

LEMMA FrameFill ==
    ASSUME TypeInv, FlowInv, SentInv, BufInv, JobData, Fill, [Next]_vars
    PROVE  SentInv' /\ BufInv' /\ JobData'
<1> USE Same
<1>0. UNCHANGED <<dirty, spoilt>> /\ (spc' = "pkt" => job'.dirty = dirty)
  BY FillSends DEF Fill, Unsent
<1>1. Middle /\ Middle' /\ Base' = Base /\ spc = "loop" /\ phase = "data" /\ phase' = "data"
  BY StayFill
<1>2. UNCHANGED <<file, sent>>
  BY DEF Fill, Unsent
<1>3. /\ spc' # "stop" /\ (InPkt' => spc' = "pkt")
      /\ spc' = "pkt" => job'.kind = "DATA" /\ Len(job'.data) = DataMax
  BY FillSends DEF InPkt
<1>4. SentInv'
  BY <1>0, <1>1, <1>2, <1>3 DEF SentInv, Follows, Middle
<1>5. ~dirty => BufGood' /\ (spc' = "pkt" => Follows(job'.data, file, Base))
  BY <1>1, FillCarries DEF BufInv
<1>6. JobData'
  BY <1>0, <1>1, <1>2, <1>3, <1>5 DEF JobData, Follows
<1>7. QED
  BY <1>0, <1>4, <1>5, <1>6 DEF BufInv

\* The tail that is sent: the bytes of the buffer and zeros.
LEMMA TailCarries ==
    ASSUME TypeInv, FlowInv, SendTail, left > 0, BufGood
    PROVE  /\ \A i \in 1 .. dlen : sbuf'[i] = <<file, Base + i>>
           /\ off = 0 /\ Lesser(left, TailMax(dlen)) = dlen =>
                 \A i \in 1 .. TailMax(dlen) :
                     job'.data[i] = IF Base + i <= lens[file] THEN <<file, Base + i>> ELSE Pad
<1> DEFINE m == TailMax(dlen)
           n == Lesser(left, m)
<1>1. /\ dlen \in Nat /\ left \in Nat /\ off \in Nat /\ left + off = dlen
      /\ lens[file] = Base + dlen /\ lens[file] \in Nat /\ Base \in Int
  <2>1. spc = "tail"
    BY DEF SendTail
  <2>2. phase = "data" /\ file <= NFiles /\ next = lens[file] + 1 /\ left + off = dlen
    BY <2>1 DEF FlowInv, FileInv, CallInv, TypeInv
  <2>3. lens[file] \in Nat
    BY <2>2, Numbers
  <2>4. dlen \in Nat /\ left \in Nat /\ off \in Nat
    BY Numbers
  <2>5. Base = lens[file] - dlen
    BY <2>2, <2>3, <2>4 DEF Base
  <2>6. QED
    BY <2>2, <2>3, <2>4, <2>5
<1>2. m \in Nat /\ m <= Big
  <2>1. dlen \in 0 .. Big
    BY Numbers, Maxes, Sizes
  <2>2. QED
    BY <2>1, Maxes, Sizes
<1>3. n \in Nat /\ n <= left /\ n <= m /\ (n = left \/ n = m)
  BY <1>1, <1>2, LesserOf
<1>4. /\ sbuf' = Padded(n, m)
      /\ \A i \in 1 .. m : job'.data[i] = sbuf'[i]
  BY SMTT(30), TailIs, Numbers
<1> HIDE DEF n, m
<1>5. \A i \in 1 .. Big : sbuf'[i] = IF i \in off + n + 1 .. off + m THEN Pad ELSE sbuf[i]
  BY <1>4 DEF Padded
<1>6. \A i \in 1 .. dlen : sbuf'[i] = <<file, Base + i>>
  <2> TAKE i \in 1 .. dlen
  <2>1. i \in 1 .. Big
    BY Numbers, Maxes, Sizes
  <2>2. ~(i \in off + n + 1 .. off + m)
    BY <1>1, <1>2, <1>3
  <2>3. QED
    BY <1>5, <2>1, <2>2 DEF BufGood
<1>7. ASSUME off = 0, n = dlen, NEW i \in 1 .. m
      PROVE  job'.data[i] = IF Base + i <= lens[file] THEN <<file, Base + i>> ELSE Pad
  <2>1. CASE i <= dlen
    <3>1. i \in 1 .. dlen /\ Base + i <= lens[file]
      BY <1>1, <2>1
    <3>2. QED
      BY <1>4, <1>6, <1>7, <3>1
  <2>2. CASE ~(i <= dlen)
    <3>1. i \in off + n + 1 .. off + m /\ ~(Base + i <= lens[file]) /\ i \in 1 .. Big
      BY <1>1, <1>2, <1>7, <2>2, Sizes
    <3>2. sbuf'[i] = Pad
      BY <1>5, <3>1
    <3>3. QED
      BY <1>4, <1>7, <3>1, <3>2
  <2>3. QED
    BY <2>1, <2>2
<1>8. QED
  BY <1>6, <1>7 DEF n, m

LEMMA FrameTail ==
    ASSUME TypeInv, FlowInv, TailInv, SentInv, BufInv, JobData, SendTail, [Next]_vars
    PROVE  SentInv' /\ BufInv' /\ JobData'
<1> USE Same
<1>1. UNCHANGED <<file, sent, dlen, next, dirty, spoilt>> /\ spc' = "pkt" /\ spc = "tail"
      /\ phase = "data" /\ phase' = "data" /\ next = lens[file] + 1
  BY TailIs, StayTail DEF SendTail, Unsent
<1>2. CASE left = 0
  <2>1. AtEnd /\ AtEnd'
    BY <1>2, StayTail, Numbers
  <2>2. QED
    BY <1>1, <2>1 DEF SentInv, BufInv, JobData, Middle, Follows, InPkt
<1>3. CASE left # 0
  <2>1. /\ left > 0 /\ dlen > 0 /\ Middle /\ Middle' /\ Base' = Base /\ job'.kind = "TAIL"
    BY <1>3, StayTail, Numbers
  <2>2. SentInv'
    BY <1>1, <2>1 DEF SentInv, Follows, Middle
  <2>3. BufInv'
    BY <1>1, <2>1, TailCarries DEF BufInv, BufGood
  <2>4. JobData'
    <3>0. job'.dirty = dirty
      BY <2>1, TailIs, Numbers
    <3> SUFFICES ASSUME ~LongTail(file)
                 PROVE  /\ Len(sent[file]) = Base
                        /\ ~dirty => Follows(job'.data, file, Base)
                        /\ Len(job'.data) >= dlen /\ (Y => Len(job'.data) = Big)
      BY <1>1, <2>1, <3>0 DEF JobData, Follows
    <3>1. Len(sent[file]) = Base
      BY <2>1 DEF JobData, InPkt
    <3>2. off = 0 /\ left = dlen
      BY <1>1, <2>1 DEF TailInv, InPkt
    <3>3. Lesser(left, TailMax(dlen)) = dlen /\ dlen <= TailMax(dlen)
      BY <1>1, <2>1, <3>2, TailFits
    <3>4. Len(job'.data) = TailMax(dlen)
      BY <2>1, TailIs, Numbers
    <3>5. ~dirty => Follows(job'.data, file, Base)
      BY <2>1, <3>2, <3>3, <3>4, TailCarries DEF Follows, BufInv
    <3>6. Y => TailMax(dlen) = Big
      BY Maxes DEF TailMax
    <3>7. QED
      BY <3>1, <3>3, <3>4, <3>5, <3>6
  <2>5. QED
    BY <2>2, <2>3, <2>4
<1>4. QED
  BY <1>2, <1>3

LEMMA FrameAckedData ==
    ASSUME TypeInv, FlowInv, TailInv, SentInv, BufInv, JobData, AckedData, [Next]_vars
    PROVE  SentInv' /\ BufInv' /\ JobData'
<1> USE Same
<1>1. /\ Middle /\ dlen > 0 /\ phase = "data" /\ phase' = "data" /\ file \in 1 .. NFiles
      /\ next' = next /\ file' = file /\ InPkt /\ sbuf' = sbuf
      /\ "sent" \notin spoilt' => "sent" \notin spoilt /\ ~job.dirty
  BY StayAcked DEF AckedData, Acked, InPkt
<1>2. sent[file] \in Seq(Bytes) /\ job.data \in Seq(Bytes)
  BY <1>1 DEF TypeInv, Packets
<1>3. /\ sent' = [sent EXCEPT ![file] = sent[file] \o job.data]
      /\ \A f \in 1 .. NFiles : f # file => sent'[f] = sent[f]
      /\ sent'[file] = sent[file] \o job.data
  BY <1>1 DEF AckedData, TypeInv, Acked
<1>4. /\ Len(sent'[file]) = Len(sent[file]) + Len(job.data)
      /\ Len(sent[file]) \in Nat /\ Len(job.data) \in Nat
  <2>1. Len(sent[file] \o job.data) = Len(sent[file]) + Len(job.data)
    BY <1>2, ConcatProperties
  <2>2. Len(sent[file]) \in Nat /\ Len(job.data) \in Nat
    BY <1>2, LenProperties
  <2>3. QED
    BY <1>3, <2>1, <2>2
<1>5. ~LongTail(file) => /\ "sent" \notin spoilt' => Follows(sent'[file], file, 0)
                         /\ Len(sent[file]) = Base
  <2> SUFFICES ASSUME ~LongTail(file)
               PROVE  /\ "sent" \notin spoilt' => Follows(sent'[file], file, 0)
                      /\ Len(sent[file]) = Base
    OBVIOUS
  <2>1. Len(sent[file]) = Base
    BY <1>1 DEF JobData
  <2> SUFFICES ASSUME "sent" \notin spoilt' PROVE Follows(sent'[file], file, 0)
    BY <2>1
  <2>2. Follows(job.data, file, Base)
    BY <1>1 DEF JobData
  <2>3. Follows(sent[file], file, 0)
    BY <1>1 DEF SentInv
  <2>4. QED
    BY <1>1, <1>2, <1>3, <2>1, <2>2, <2>3, FollowsConcat
<1>6. CASE job.kind = "DATA"
  <2>1. /\ dlen = DataMax /\ dlen' = 0 /\ Base' = next - 1 /\ spc' \in {"loop", "app"}
    BY <1>6, StayAcked
  <2>2. Base + DataMax = next - 1
    BY <2>1, Numbers DEF Base
  <2>3. ~LongTail(file) => Len(sent'[file]) = next - 1
    BY <1>1, <1>4, <1>5, <1>6, <2>2, Numbers DEF JobData, InPkt
  <2>4. SentInv'
    <3> SUFFICES ASSUME NEW f \in 1 .. NFiles
                 PROVE  /\ ~LongTail(f) /\ "sent" \notin spoilt' => Follows(sent'[f], f, 0)
                        /\ ~LongTail(f) /\ f < file => Len(sent'[f]) >= lens[f]
                        /\ f > file => sent'[f] = <<>>
                        /\ ~LongTail(f) /\ f = file /\ AtEnd' => Len(sent'[f]) >= lens[f]
      BY <1>1, <2>1 DEF SentInv, Follows
    <3>1. CASE f = file
      BY SMTT(30), <1>1, <1>5, <2>3, <3>1, Numbers DEF AtEnd, InPkt
    <3>2. CASE f # file
      BY <1>1, <1>3, <3>2 DEF SentInv
    <3>3. QED
      BY <3>1, <3>2
  <2>5. BufInv'
    BY <2>1 DEF BufInv, BufGood
  <2>6. JobData'
    BY <1>1, <2>1, <2>3 DEF JobData, InPkt
  <2>7. QED
    BY <2>4, <2>5, <2>6
<1>7. CASE job.kind = "TAIL"
  <2>1. /\ dlen' = dlen /\ Base' = Base /\ next = lens[file] + 1 /\ spc' = "tail"
        /\ (left = 0 => AtEnd')
    BY <1>7, StayAcked
  <2>2. ~LongTail(file) => AtEnd' /\ Len(sent'[file]) >= lens[file]
    <3> SUFFICES ASSUME ~LongTail(file) PROVE AtEnd' /\ Len(sent'[file]) >= lens[file]
      OBVIOUS
    <3>1. left = 0
      BY <1>1, <1>7 DEF TailInv, InPkt
    <3>2. Len(job.data) >= dlen
      BY <1>1, <1>7 DEF JobData, InPkt
    <3>3. lens[file] = Base + dlen
      BY <1>1, <2>1, Numbers DEF Base
    <3>4. Base \in Int /\ dlen \in Nat
      BY Numbers DEF Base
    <3>5. Len(sent'[file]) >= lens[file]
      <4>1. Len(sent[file]) = Base
        BY <1>5
      <4>2. Len(sent'[file]) = Base + Len(job.data) /\ Len(job.data) \in Nat
        BY <1>4, <4>1
      <4>3. Base + Len(job.data) >= Base + dlen
        BY <3>2, <3>4, <4>2
      <4>4. QED
        BY <3>3, <4>2, <4>3
    <3>6. QED
      BY <2>1, <3>1, <3>5
  <2>3. SentInv'
    <3> SUFFICES ASSUME NEW f \in 1 .. NFiles
                 PROVE  /\ ~LongTail(f) /\ "sent" \notin spoilt' => Follows(sent'[f], f, 0)
                        /\ ~LongTail(f) /\ f < file => Len(sent'[f]) >= lens[f]
                        /\ f > file => sent'[f] = <<>>
                        /\ ~LongTail(f) /\ f = file /\ AtEnd' => Len(sent'[f]) >= lens[f]
      BY <1>1, <2>1 DEF SentInv, Follows
    <3>1. CASE f = file
      BY <1>1, <1>5, <2>2, <3>1, Numbers
    <3>2. CASE f # file
      BY <1>1, <1>3, <3>2 DEF SentInv
    <3>3. QED
      BY <3>1, <3>2
  <2>4. BufInv'
    <3>1. dirty' = dirty
      BY <1>7 DEF AckedData
    <3>2. QED
      BY <1>1, <2>1, <3>1 DEF BufInv, BufGood
  <2>5. JobData'
    BY <1>1, <2>2 DEF JobData, Middle
  <2>6. QED
    BY <2>3, <2>4, <2>5
<1>8. QED
  BY <1>6, <1>7 DEF AckedData, Acked

LEMMA FrameAckedOther ==
    ASSUME TypeInv, FlowInv, SentInv, BufInv, JobData, AckedOther, [Next]_vars
    PROVE  SentInv' /\ BufInv' /\ JobData'
<1> USE Same
<1>1. /\ sent' = sent /\ InPkt /\ spc # "stop"
      /\ "sent" \notin spoilt' => "sent" \notin spoilt
  BY DEF AckedOther, Acked, InPkt
<1>2. CASE job.kind = "HEADER"
  <2>1. /\ phase = "start" /\ file \in 1 .. NFiles /\ phase' = "data" /\ file' = file
        /\ dlen' = 0 /\ Base' = 0 /\ spc' = "app" /\ (AtEnd' => lens[file] = 0)
    BY <1>2, StayOther
  <2>2. sent[file] = <<>> /\ Len(<<>>) = 0
    BY <1>1, <2>1 DEF SentInv
  <2>3. SentInv'
    <3> SUFFICES ASSUME NEW f \in 1 .. NFiles
                 PROVE  /\ ~LongTail(f) /\ "sent" \notin spoilt => Follows(sent[f], f, 0)
                        /\ ~LongTail(f) /\ f < file => Len(sent[f]) >= lens[f]
                        /\ f > file => sent[f] = <<>>
                        /\ ~LongTail(f) /\ f = file /\ AtEnd' => Len(sent[f]) >= lens[f]
      BY <1>1, <2>1 DEF SentInv, Follows
    <3>1. CASE f = file
      BY <2>1, <2>2, <3>1, Numbers, FollowsNothing
    <3>2. CASE f # file
      BY <1>1, <2>1, <3>2 DEF SentInv
    <3>3. QED
      BY <3>1, <3>2
  <2>4. BufInv' /\ JobData'
    BY <1>1, <2>1, <2>2 DEF BufInv, BufGood, JobData, InPkt
  <2>5. QED
    BY <2>3, <2>4
<1>3. CASE job.kind = "EOT"
  <2>1. /\ AtEnd /\ phase' = "start" /\ file \in 1 .. NFiles
        /\ file' = (IF Y THEN file + 1 ELSE file)
        /\ spc' = (IF Y THEN "app" ELSE "stop")
    BY <1>3, StayOther
  <2>2. SentInv'
    <3> SUFFICES ASSUME NEW f \in 1 .. NFiles
                 PROVE  /\ ~LongTail(f) /\ "sent" \notin spoilt => Follows(sent[f], f, 0)
                        /\ ~LongTail(f) /\ f < file' => Len(sent[f]) >= lens[f]
                        /\ f > file' \/ (f = file' /\ spc' # "stop") => sent[f] = <<>>
                        /\ ~LongTail(f) /\ f = file' /\ spc' = "stop" => Len(sent[f]) >= lens[f]
      BY <1>1, <2>1 DEF SentInv, Follows, AtEnd, InPkt
    <3>1. CASE Y
      BY <2>1, <3>1 DEF SentInv
    <3>2. CASE ~Y
      BY <2>1, <3>2 DEF SentInv
    <3>3. QED
      BY <3>1, <3>2
  <2>3. QED
    BY <2>1, <2>2 DEF BufInv, JobData, Middle, InPkt
<1>4. CASE job.kind = "NULL"
  <2>1. /\ phase = "start" /\ phase' = "start" /\ file' = file /\ spc' = "stop"
    BY <1>4, StayOther
  <2>2. file = NFiles + 1
    BY <1>1, <1>4 DEF FlowInv, JobInv, InPkt
  <2>3. SentInv'
    BY <1>1, <2>1, <2>2, Numbers DEF SentInv, Follows, AtEnd, InPkt
  <2>4. QED
    BY <2>1, <2>3 DEF BufInv, JobData, Middle, InPkt
<1>5. QED
  BY <1>2, <1>3, <1>4 DEF AckedOther, Acked

LEMMA FrameFails ==
    ASSUME TypeInv, FlowInv, SentInv, BufInv, JobData, PktFails, [Next]_vars
    PROVE  SentInv' /\ BufInv' /\ JobData'
<1> USE Same
<1>1. sent' = sent /\ file' = file /\ next' = next /\ phase' = phase
      /\ spoilt' = spoilt /\ InPkt /\ spc' = "app" /\ spc # "stop" /\ ~InPkt'
  BY StayFails DEF PktFails, InPkt
<1>2. CASE job.kind \in {"HEADER", "NULL"}
  <2>1. phase = "start"
    BY <1>2, StayFails
  <2>2. QED
    BY <1>1, <2>1 DEF SentInv, BufInv, JobData, Follows, AtEnd, Middle, InPkt
<1>3. CASE job.kind = "EOT"
  <2>1. AtEnd /\ AtEnd' /\ phase = "data"
    BY <1>3, StayFails
  <2>2. QED
    BY <1>1, <2>1 DEF SentInv, BufInv, JobData, Follows, Middle, InPkt
<1>4. CASE job.kind \in {"DATA", "TAIL"}
  <2>1. Middle /\ Middle' /\ Base' = Base /\ dlen' = dlen /\ phase = "data"
    BY <1>4, StayFails
  <2>2. ~dirty' => ~dirty /\ \A i \in 1 .. Big : sbuf'[i] = sbuf[i]
    <3>1. PICK n \in IF spc = "pkt" THEN {0} ELSE 0 .. MaxFlush :
            /\ sbuf' = [i \in 1 .. Big |-> IF i <= n THEN Text ELSE sbuf[i]]
            /\ dirty' = (dirty \/ (n > 0 /\ job.kind \in {"DATA", "TAIL"}))
      BY <1>4 DEF PktFails
    <3>2. n \in Nat
      BY <3>1, Sizes
    <3>3. ~dirty' => ~(n > 0) /\ ~dirty
      BY Zenon, <1>4, <3>1
    <3>4. ~(n > 0) => \A i \in 1 .. Big : sbuf'[i] = sbuf[i]
      BY <3>1, <3>2
    <3>5. QED
      BY Zenon, <3>3, <3>4
  <2>3. SentInv'
    BY <1>1, <2>1 DEF SentInv, Follows, Middle
  <2>4. \A i \in 1 .. dlen : i \in 1 .. Big
    BY Numbers, Maxes, Sizes
  <2>5. BufInv'
    BY <1>1, <2>1, <2>2, <2>4 DEF BufInv, BufGood
  <2>6. JobData'
    BY <1>1, <2>1 DEF JobData
  <2>7. QED
    BY <2>3, <2>5, <2>6
<1>5. QED
  BY <1>2, <1>3, <1>4 DEF TypeInv, Packets, Kinds

LEMMA FrameStep ==
    ASSUME TypeInv, FlowInv, TailInv, FrameInv, [Next]_vars PROVE FrameInv'
<1> SUFFICES SentInv' /\ BufInv' /\ JobData'
  BY DEF FrameInv
<1> USE Same
<1>2. SentInv /\ BufInv /\ JobData
  BY DEF FrameInv
<1>3. CASE SendStart \/ SendClose
  <2>1. phase = "start" /\ phase' = "start" /\ spc = "app" /\ spc' = "pkt"
        /\ sent' = sent /\ file' = file /\ spoilt' = spoilt
    BY <1>3 DEF SendStart, SendClose, Send, Unsent
  <2>2. QED
    BY <1>2, <2>1 DEF SentInv, BufInv, JobData, Follows, AtEnd, Middle, InPkt
<1>4. CASE SendLoop
  <2>1. Middle' = Middle /\ AtEnd' = AtEnd /\ Base' = Base /\ spc = "app" /\ spc' = "loop"
        /\ phase = "data"
    BY <1>4, StayLoop
  <2>2. UNCHANGED <<sent, file, phase, sbuf, dlen, dirty, spoilt>>
    BY <1>4 DEF SendLoop, Unsent
  <2>3. QED
    BY <1>2, <2>1, <2>2 DEF SentInv, BufInv, JobData, Follows, BufGood, InPkt
<1>5. CASE Fill
  BY <1>2, <1>5, FrameFill
<1>6. CASE SendEot
  <2>1. Middle' = Middle /\ AtEnd' = AtEnd /\ Base' = Base /\ phase = "data"
    BY <1>6, StayEot
  <2>2. UNCHANGED <<sent, file, phase, sbuf, dlen, dirty, spoilt>> /\ spc' = "tail" /\ spc = "app"
    BY <1>6 DEF SendEot, Unsent
  <2>3. QED
    BY <1>2, <2>1, <2>2 DEF SentInv, BufInv, JobData, Follows, BufGood, InPkt
<1>7. CASE SendTail
  BY <1>2, <1>7, FrameTail
<1>8. CASE AckedData
  BY <1>2, <1>8, FrameAckedData
<1>9. CASE AckedOther
  BY <1>2, <1>9, FrameAckedOther
<1>10. CASE PktFails
  BY <1>2, <1>10, FrameFails
<1>11. CASE Receiver \/ Lose \/ TransmitAgain \/ UNCHANGED vars
  <2>1. UNCHANGED <<mode, lens, sendVars>>
    BY <1>11, OtherSteps
  <2>2. Middle' = Middle /\ Base' = Base /\ AtEnd' = AtEnd /\ BufGood' = BufGood
        /\ InPkt' = InPkt
    BY <2>1, StayRecv
  <2>3. "sent" \notin spoilt' => "sent" \notin spoilt
    BY <1>11 DEF Receiver, RecvHand, RecvCall, RecvTimeout, RecvDuplicate, RecvHeader,
                 RecvData, RecvAstray, RecvWrong, RecvEot, Takes, Lose, TransmitAgain, vars
  <2>4. QED
    BY <1>2, <2>1, <2>2, <2>3 DEF sendVars, SentInv, BufInv, JobData, Follows
<1>12. CASE Transmit
  <2>1. /\ Middle' = Middle /\ Base' = Base /\ AtEnd' = AtEnd /\ BufGood' = BufGood
        /\ InPkt /\ InPkt' /\ spc' = "reply" /\ spc # "stop"
        /\ UNCHANGED <<sent, file, phase, dlen, dirty, spoilt, job>>
    BY <1>12, StayTransmit DEF Transmit
  <2>2. QED
    BY <1>2, <2>1 DEF SentInv, BufInv, JobData, Follows
<1>13. QED
  BY <1>3, <1>4, <1>5, <1>6, <1>7, <1>8, <1>9, <1>10, <1>11, <1>12 DEF Next, Sender

LEMMA FrameGives == TypeInv /\ FlowInv /\ FrameInv => Framed
<1> SUFFICES ASSUME TypeInv, FlowInv, FrameInv, "sent" \notin spoilt, NEW f \in Files, ~LongTail(f)
             PROVE  /\ \A i \in 1 .. Len(sent[f]) :
                          sent[f][i] = IF i <= lens[f] THEN <<f, i>> ELSE Pad
                    /\ f < file \/ spc = "stop" => Len(sent[f]) >= lens[f]
  BY DEF Framed
<1>1. f \in 1 .. NFiles /\ f \in Nat
  BY Sizes DEF Files
<1>2. SentInv
  BY DEF FrameInv
<1>3. \A i \in 1 .. Len(sent[f]) :
          sent[f][i] = IF i <= lens[f] THEN <<f, i>> ELSE Pad
  <2> TAKE i \in 1 .. Len(sent[f])
  <2>1. 0 + i = i
    OBVIOUS
  <2>2. QED
    BY <1>1, <1>2, <2>1 DEF SentInv, Follows
<1>4. ASSUME f < file \/ spc = "stop" PROVE Len(sent[f]) >= lens[f]
  <2>1. CASE f < file
    BY <1>1, <1>2, <2>1 DEF SentInv
  <2>2. CASE ~(f < file)
    <3>1. spc = "stop" /\ ~Y /\ file = 1
      BY <1>1, <1>4, <2>2, Numbers DEF FlowInv, FileInv
    <3>2. f = file
      BY <3>1 DEF Files
    <3>3. QED
      BY <1>1, <1>2, <3>1, <3>2 DEF SentInv
  <2>3. QED
    BY <2>1, <2>2
<1>5. QED
  BY <1>3, <1>4

\* The packets acknowledged for a file are its bytes in order and zeros behind
\* them, whatever the sizes of the packets, of the file and of the calls, and
\* however often a call fails and is made again (xmodem_send_loop,
\* xmodem_send_eot).  Files with the long tail of XMODEM-1K are excepted, and
\* runs in which a packet that a flush had overwritten was acknowledged.
THEOREM PacketsCarryTheFile == Spec => []Framed
<1> DEFINE I == TypeInv /\ FlowInv /\ TailInv /\ FrameInv
<1>1. Init => I
  BY FlowInit, TailInit, FrameInit
<1>2. I /\ [Next]_vars => I'
  BY FlowNext, TailStep, FrameStep DEF FlowStep
<1>3. I => Framed
  BY FrameGives
<1>4. QED
  BY <1>1, <1>2, <1>3, PTL DEF Spec

-----------------------------------------------------------------------------
(* The place of every packet.                                              *)

LEMMA OffIs ==
    /\ \A b \in Nat : Off(b) \in Int /\ Off(b + 1) = Off(b) + Big
    /\ \A b \in Nat : b > 0 => Off(b) \in Nat
    /\ \A b, c \in Nat : b <= c => Off(b) <= Off(c)
    /\ Off(1) = 0
<1>1. Big \in Nat
  BY Sizes
<1>2. ASSUME NEW b \in Nat PROVE Off(b) \in Int /\ Off(b + 1) = Off(b) + Big
  BY <1>1 DEF Off
<1>3. ASSUME NEW b \in Nat, b > 0 PROVE Off(b) \in Nat
  <2>1. b - 1 \in Nat
    BY <1>3
  <2>2. QED
    BY <1>1, <2>1 DEF Off
<1>4. ASSUME NEW b \in Nat, NEW c \in Nat, b <= c PROVE Off(b) <= Off(c)
  <2>1. PICK d \in Nat : c - 1 = b - 1 + d
    <3>1. c - b \in Nat /\ c - 1 = b - 1 + (c - b)
      BY <1>4
    <3>2. QED
      BY <3>1
  <2>2. (b - 1 + d) * Big = (b - 1) * Big + d * Big /\ d * Big \in Nat
        /\ (b - 1) * Big \in Int
    BY <1>1
  <2>3. QED
    BY <2>1, <2>2 DEF Off
<1>5. Off(1) = 0
  BY <1>1 DEF Off
<1>6. QED
  BY <1>2, <1>3, <1>4, <1>5

LEMMA NumIs ==
    /\ \A b \in Nat : b > 0 => Num(b) \in 0 .. 255 /\ Num(b + 1) = (Num(b) + 1) % 256
    /\ Y => Num(1) = 1
    /\ ~Y => Num(1) = 0
<1>1. \A n \in Nat : n % 256 \in 0 .. 255 /\ (n + 1) % 256 = ((n % 256) + 1) % 256
  OBVIOUS
<1>2. \A b \in Nat : b > 0 => b - 1 \in Nat /\ b + 1 - 1 = b - 1 + 1
  OBVIOUS
<1>3. CASE Y
  BY <1>1, <1>3 DEF Num
<1>4. CASE ~Y
  BY <1>1, <1>2, <1>4 DEF Num
<1>5. QED
  BY <1>3, <1>4

LEMMA PlaceSorts ==
    ASSUME TypeInv
    PROVE  /\ file \in Nat /\ blk \in Nat /\ job.file \in Nat /\ job.blk \in Nat
           /\ Len(line) \in Nat /\ pktno \in Nat /\ Len(out) \in Nat
           /\ \A i \in 1 .. Len(line) : /\ line[i] \in Packets
                                        /\ line[i].file \in Nat /\ line[i].blk \in Nat
<1>1. \A p \in Packets : p.file \in Nat /\ p.blk \in Nat
  BY Sizes DEF Packets
<1>2. \A i \in 1 .. Len(line) : line[i] \in Packets
  BY ElementOfSeq DEF TypeInv
<1>3. Len(line) \in Nat /\ Len(out) \in Nat
  BY LenProperties DEF TypeInv
<1>4. QED
  BY <1>1, <1>2, <1>3, Sizes DEF TypeInv

LEMMA PacketSame ==
    ASSUME [Next]_vars PROVE \A p : PacketOk(p)' = PacketOk(p)
<1>1. lens' = lens /\ Y' = Y
  BY Same
<1>2. ASSUME NEW p PROVE PacketOk(p)' = PacketOk(p)
  <2>1. StartOk(p)' = StartOk(p) /\ EotOk(p)' = EotOk(p)
    BY <1>1 DEF StartOk, EotOk
  <2>2. DataOk(p)' = DataOk(p)
    BY <1>1 DEF DataOk, Num, Follows
  <2>3. QED
    BY <1>1, <2>1, <2>2 DEF PacketOk, Num
<1>3. QED
  BY <1>2

\* The packet that is being sent has its place.
LEMMA JobFits ==
    ASSUME TypeInv, FlowInv, FrameInv, BlkInv, InPkt
    PROVE  PacketOk(job)
<1>1. job.file = file /\ job.blk = blk /\ job.kind \in Kinds
  BY DEF BlkInv, TypeInv, Packets
<1>2. CASE job.kind \in {"HEADER", "NULL"}
  <2>1. /\ phase = "start" /\ spc # "stop" /\ Y /\ blk = 0
        /\ job.kind = IF file <= NFiles THEN "HEADER" ELSE "NULL"
    BY <1>2, Numbers DEF FlowInv, FileInv, JobInv, InPkt, BlkInv
  <2>2. StartOk(job)
    BY <1>1, <1>2, <2>1 DEF StartOk, BlkInv
  <2>3. QED
    BY <1>1, <2>1, <2>2 DEF PacketOk
<1>3. CASE job.kind = "EOT"
  <2>1. phase = "data" /\ AtEnd /\ file <= NFiles /\ (~Y => file = 1)
    BY <1>3 DEF FlowInv, FileInv, JobInv, AtEnd
  <2>2. blk >= 1 /\ (Y => Off(blk) >= lens[file])
    BY <2>1 DEF BlkInv
  <2>3. blk # 0
    BY <2>2, PlaceSorts
  <2>4. QED
    BY <1>1, <1>3, <2>1, <2>2, <2>3 DEF PacketOk, EotOk
<1>4. CASE job.kind \in {"DATA", "TAIL"}
  <2>1. /\ phase = "data" /\ file <= NFiles /\ (~Y => file = 1) /\ next <= lens[file] + 1
        /\ dlen > 0 /\ lens[file] \in Nat
    BY <1>4, Numbers DEF FlowInv, FileInv, JobInv
  <2>2. Middle
    BY <1>4, <2>1, Numbers DEF Middle, AtEnd, InPkt
  <2>3. blk >= 1 /\ blk # 0 /\ job.seq = Num(blk)
    BY <1>4, <2>1, <2>2, PlaceSorts DEF BlkInv
  <2>4. CASE Y
    <3>1. Base = Off(blk) /\ ~LongTail(file) /\ DataMax = Big
      BY <2>2, <2>4, Maxes DEF BlkInv, LongTail, Y
    <3>2. Len(job.data) = Big /\ (~job.dirty => Follows(job.data, file, Base))
      BY <1>4, <2>2, <2>4, <3>1 DEF FrameInv, JobData
    <3>3. Base < lens[file]
      BY <2>1, Numbers DEF Base
    <3>4. DataOk(job)
      BY <1>1, <1>4, <2>3, <3>1, <3>2, <3>3 DEF DataOk
    <3>5. QED
      BY <1>1, <2>1, <2>3, <2>4, <3>4 DEF PacketOk
  <2>5. CASE ~Y
    BY <1>1, <1>4, <2>1, <2>3, <2>5 DEF PacketOk
  <2>6. QED
    BY <2>4, <2>5
<1>5. QED
  BY <1>1, <1>2, <1>3, <1>4 DEF Kinds

LEMMA BlkInit == Init => BlkInv
<1> SUFFICES ASSUME Init PROVE BlkInv
  OBVIOUS
<1>1. /\ spc = "app" /\ ~InPkt /\ seq = FirstSeq /\ blk = IF Y THEN 0 ELSE 1
      /\ phase = IF Y THEN "start" ELSE "data"
  BY DEF Init, InPkt
<1>2. QED
  BY <1>1, NumIs DEF BlkInv, Middle, AtEnd, FirstSeq

LEMMA BlkStep ==
    ASSUME TypeInv, FlowInv, TailInv, BlkInv, [Next]_vars PROVE BlkInv'
<1> USE Same
<1>0. /\ \A b : Num(b)' = Num(b)
      /\ blk \in Nat
  BY PlaceSorts DEF Num
<1>1. CASE SendStart
  <2>1. /\ phase = "start" /\ phase' = "start" /\ spc = "app" /\ UNCHANGED <<blk, file>>
        /\ Send("HEADER", 0, <<>>, lens[file]) /\ file <= NFiles
    BY <1>1 DEF SendStart, Unsent
  <2>2. /\ lens[file] \in Nat /\ <<>> \in Seq(Bytes) /\ "HEADER" \in Kinds
        /\ 0 \in 0 .. 255
    BY <2>1, EmptySeq, Numbers DEF Kinds
  <2> DEFINE size == lens[file]
  <2> HIDE DEF size
  <2>3. Send("HEADER", 0, <<>>, size) /\ size \in Nat
    BY <2>1, <2>2 DEF size
  <2>4. /\ job'.kind = "HEADER" /\ job'.seq = 0 /\ job'.size = size
        /\ job'.file = file /\ job'.blk = blk
    BY <2>2, <2>3, SendIs
  <2>5. QED
    BY <2>1, <2>4 DEF BlkInv, Middle, AtEnd, size
<1>2. CASE SendClose
  <2>1. /\ phase = "start" /\ phase' = "start" /\ spc = "app" /\ UNCHANGED <<blk, file>>
        /\ Send("NULL", 0, <<>>, 0)
    BY <1>2 DEF SendClose, Unsent
  <2>2. <<>> \in Seq(Bytes) /\ "NULL" \in Kinds /\ 0 \in 0 .. 255 /\ 0 \in Nat
    BY EmptySeq DEF Kinds
  <2>3. /\ job'.kind = "NULL" /\ job'.seq = 0 /\ job'.file = file /\ job'.blk = blk
    BY <2>1, <2>2, SendIs
  <2>4. QED
    BY <2>1, <2>3 DEF BlkInv, Middle, AtEnd
<1>3. CASE SendLoop
  <2>1. Middle' = Middle /\ AtEnd' = AtEnd /\ Base' = Base /\ spc = "app" /\ ~InPkt'
        /\ UNCHANGED <<phase, blk, seq, file>>
    BY <1>3, StayLoop DEF SendLoop, Unsent, InPkt
  <2>2. QED
    BY <1>0, <2>1 DEF BlkInv
<1>4. CASE Fill
  <2>1. /\ Middle /\ Middle' /\ ~AtEnd' /\ Base' = Base /\ phase = "data"
        /\ UNCHANGED <<phase, blk, seq, file>>
    BY <1>4, StayFill DEF Fill, Unsent, Middle
  <2>2. InPkt' => /\ job'.kind = "DATA" /\ job'.seq = seq
                  /\ job'.file = file /\ job'.blk = blk
    BY <1>4, FillSends DEF InPkt
  <2>3. QED
    BY <1>0, <2>1, <2>2 DEF BlkInv
<1>5. CASE SendEot
  <2>1. Middle' = Middle /\ AtEnd' = AtEnd /\ Base' = Base /\ spc = "app" /\ ~InPkt'
        /\ UNCHANGED <<phase, blk, seq, file>>
    BY <1>5, StayEot DEF SendEot, Unsent, InPkt
  <2>2. QED
    BY <1>0, <2>1 DEF BlkInv
<1>6. CASE SendTail
  <2>1. UNCHANGED <<phase, blk, seq, file>> /\ phase = "data" /\ left \in Nat
        /\ job'.file = file /\ job'.blk = blk
    BY <1>6, TailIs, StayTail, Numbers DEF SendTail, Unsent
  <2>2. \/ left = 0 /\ AtEnd /\ AtEnd' /\ ~Middle' /\ job'.kind = "EOT"
        \/ /\ left > 0 /\ Middle /\ Middle' /\ ~AtEnd' /\ Base' = Base
           /\ job'.kind = "TAIL"
    BY <1>6, StayTail DEF Middle
  <2>3. job'.kind = "TAIL" => job'.seq = seq
    BY <1>6, TailIs
  <2>4. QED
    BY <1>0, <2>1, <2>2, <2>3 DEF BlkInv
<1>7. CASE AckedData
  <2>1. /\ Middle /\ phase = "data" /\ phase' = "data" /\ file \in 1 .. NFiles
        /\ blk' = blk + 1 /\ seq' = (seq + 1) % 256 /\ file' = file /\ next' = next
        /\ ~InPkt' /\ dlen > 0
    BY <1>7, StayAcked DEF AckedData, InPkt
  <2>2. /\ blk >= 1 /\ seq = Num(blk) /\ (Y => Base = Off(blk)) /\ blk' >= 1
        /\ seq' = Num(blk')
    BY <1>0, <2>1, NumIs DEF BlkInv
  <2>3. Y => Off(blk') = Base + Big /\ Base \in Int /\ Big \in Nat /\ DataMax = Big
    BY <1>0, <2>1, <2>2, OffIs, Sizes, Maxes
  <2>4. ASSUME Y, Middle' PROVE Base' = Off(blk')
    <3>1. CASE job.kind = "DATA"
      <4>1. dlen = DataMax /\ Base' = next - 1
        BY <1>7, <3>1, StayAcked
      <4>2. QED
        BY <2>3, <2>4, <4>1, Numbers DEF Base
    <3>2. CASE job.kind = "TAIL"
      <4>1. left = 0 => ~Middle'
        BY <1>7, <3>2, StayAcked DEF Middle
      <4>2. left = 0
        BY <1>7, <2>1, <2>4, <3>2 DEF TailInv, LongTail, Y, AckedData, Acked, InPkt
      <4>3. QED
        BY <2>4, <4>1, <4>2
    <3>3. QED
      BY <1>7, <3>1, <3>2 DEF AckedData
  <2>5. ASSUME Y, AtEnd' PROVE Off(blk') >= lens[file]
    <3>1. lens[file] = next - 1 /\ lens[file] \in Nat
      <4>1. next' = lens'[file'] + 1
        BY <2>5 DEF AtEnd
      <4>2. lens' = lens /\ next' = next /\ file' = file
        BY <2>1
      <4>3. lens[file] \in Nat
        BY <2>1 DEF TypeInv
      <4>4. next = lens[file] + 1
        BY <4>1, <4>2
      <4>5. QED
        BY <4>3, <4>4
    <3>2. Base + Big >= next - 1
      BY <2>3, <2>5, Numbers DEF Base
    <3>3. QED
      BY <2>3, <2>5, <3>1, <3>2
  <2>6. QED
    BY <1>0, <2>1, <2>2, <2>4, <2>5 DEF BlkInv
<1>8. CASE AckedOther
  <2>0. ~InPkt'
    BY <1>8 DEF AckedOther, InPkt
  <2>1. CASE job.kind = "HEADER"
    <3>1. /\ phase' = "data" /\ file' = file /\ Base' = 0 /\ seq' = 1 /\ blk' = 1
          /\ file \in 1 .. NFiles /\ (AtEnd' => lens[file] = 0) /\ Y
      <4>1. /\ phase' = "data" /\ file' = file /\ Base' = 0 /\ seq' = 1
            /\ file \in 1 .. NFiles /\ (AtEnd' => lens[file] = 0)
            /\ phase = "start" /\ spc # "stop"
        BY <1>8, <2>1, StayOther
      <4>2. blk' = 1
        BY <1>8, <2>1 DEF AckedOther
      <4>3. Y
        BY <4>1 DEF FlowInv, FileInv
      <4>4. QED
        BY <4>1, <4>2, <4>3
    <3>2. Num(1) = 1 /\ Off(1) = 0 /\ lens' = lens /\ Y' = Y /\ phase' # "start"
      BY <3>1, NumIs, OffIs
    <3>3. (Middle' => seq' = Num(blk')) /\ Base' = Off(blk')
          /\ (AtEnd' => Off(blk') >= lens'[file'])
      <4>1. Base' = 0 /\ seq' = 1 /\ blk' = 1 /\ file' = file
            /\ (AtEnd' => lens[file] = 0)
        BY <3>1
      <4>2. QED
        BY ONLY <3>2, <4>1
    <3>4. /\ (Middle' => seq' = Num(blk)') /\ Base' = Off(blk)'
          /\ (AtEnd' => Off(blk)' >= lens'[file'])
      BY <1>0, <3>3 DEF Num, Off
    <3>5. blk' >= 1
      BY <3>1
    <3>6. QED
      BY <2>0, <3>2, <3>4, <3>5 DEF BlkInv
  <2>2. CASE job.kind = "EOT"
    <3>1. phase' = "start" /\ ~Middle' /\ ~AtEnd' /\ (spc' # "stop" => blk' = 0)
      BY <1>8, <2>2, StayOther DEF AckedOther, Middle, AtEnd
    <3>2. QED
      BY <2>0, <3>1 DEF BlkInv
  <2>3. CASE job.kind = "NULL"
    <3>1. phase' = "start" /\ ~Middle' /\ ~AtEnd' /\ spc' = "stop"
      BY <1>8, <2>3, StayOther DEF Middle, AtEnd
    <3>2. QED
      BY <2>0, <3>1 DEF BlkInv
  <2>4. QED
    BY <1>8, <2>1, <2>2, <2>3 DEF AckedOther
<1>9. CASE PktFails
  <2>1. /\ phase' = phase /\ file' = file /\ blk' = blk /\ InPkt /\ ~InPkt' /\ spc # "stop"
    BY <1>9, StayFails DEF PktFails, InPkt
  <2>2. \/ phase = "start"
        \/ phase = "data" /\ AtEnd /\ AtEnd' /\ ~Middle'
        \/ /\ phase = "data" /\ Middle /\ Middle' /\ ~AtEnd' /\ Base' = Base /\ seq' = seq
    BY <1>9, StayFails DEF Middle
  <2>3. QED
    BY <1>0, <2>1, <2>2 DEF BlkInv, Middle, AtEnd
<1>10. CASE Receiver \/ Lose \/ TransmitAgain \/ UNCHANGED vars
  <2>1. UNCHANGED <<mode, lens, sendVars>>
    BY <1>10, OtherSteps
  <2>2. Middle' = Middle /\ Base' = Base /\ AtEnd' = AtEnd /\ InPkt' = InPkt
    BY <2>1, StayRecv
  <2>3. QED
    BY <1>0, <2>1, <2>2 DEF sendVars, BlkInv
<1>11. CASE Transmit
  <2>1. /\ Middle' = Middle /\ Base' = Base /\ AtEnd' = AtEnd /\ InPkt
        /\ spc' = "reply" /\ UNCHANGED <<job, file, blk, phase, seq, lens>>
    BY <1>11, StayTransmit
  <2>2. spc # "stop"
    BY <2>1 DEF InPkt
  <2>3. QED
    BY <1>0, <2>1, <2>2 DEF BlkInv
<1>12. QED
  BY <1>1, <1>2, <1>3, <1>4, <1>5, <1>6, <1>7, <1>8, <1>9, <1>10, <1>11 DEF Next, Sender

\* The sender never goes back.
LEMMA Advance ==
    ASSUME TypeInv, FlowInv, BlkInv, [Next]_vars
    PROVE  /\ UpTo(file, blk, file', blk')
           /\ ~(AckedData \/ AckedOther) => UNCHANGED <<file, blk>>
<1>1. file \in Nat /\ blk \in Nat
  BY PlaceSorts
<1>2. CASE AckedData
  BY <1>1, <1>2, StayAcked DEF AckedData, UpTo
<1>3. CASE AckedOther
  <2>1. CASE job.kind \in {"HEADER", "NULL"}
    <3>1. phase = "start" /\ spc # "stop" /\ file' = file
      BY <1>3, <2>1, StayOther
    <3>2. blk = 0 /\ blk' = 1
      BY <1>3, <2>1, <3>1 DEF BlkInv, AckedOther
    <3>3. QED
      BY <1>1, <1>3, <3>1, <3>2 DEF UpTo
  <2>2. CASE job.kind = "EOT"
    BY <1>1, <1>3, <2>2 DEF AckedOther, UpTo
  <2>3. QED
    BY <1>3, <2>1, <2>2 DEF AckedOther
<1>4. CASE ~(AckedData \/ AckedOther)
  <2>1. UNCHANGED <<file, blk>>
    <3>1. CASE Receiver \/ Lose \/ TransmitAgain \/ UNCHANGED vars
      BY <3>1, OtherSteps DEF sendVars
    <3>2. CASE ~(Receiver \/ Lose \/ TransmitAgain \/ UNCHANGED vars)
      BY <1>4, <3>2 DEF Next, Sender, SendStart, SendLoop, Fill, SendEot, SendTail,
                        SendClose, Unsent, Transmit, PktFails
    <3>3. QED
      BY <3>1, <3>2
  <2>2. QED
    BY <1>1, <1>4, <2>1 DEF UpTo
<1>5. QED
  BY <1>2, <1>3, <1>4

\* How the line changes.
Grows == Transmit \/ TransmitAgain
Shrinks == \/ Lose \/ RecvDuplicate \/ RecvHeader \/ RecvData \/ RecvAstray
           \/ RecvWrong \/ RecvEot

LEMMA ShrinkIs ==
    ASSUME TypeInv, Shrinks
    PROVE  /\ UNCHANGED <<file, blk>>
           /\ Len(line') = Len(line) - 1 /\ Len(line) >= 1
           /\ \A i \in 1 .. Len(line') : /\ i + 1 \in 1 .. Len(line)
                                         /\ line'[i] = line[i + 1]
<1>1. UNCHANGED <<file, blk>>
  BY DEF Shrinks, Lose, RecvDuplicate, RecvHeader, RecvData, RecvAstray,
         RecvWrong, RecvEot, Takes, sendVars
<1>2. line # <<>> /\ line' = Tail(line) /\ line \in Seq(Packets)
  BY DEF Shrinks, Lose, RecvDuplicate, RecvHeader, RecvData, RecvAstray,
         RecvWrong, RecvEot, Takes, TypeInv
<1>3. /\ Len(Tail(line)) = Len(line) - 1
      /\ \A k \in 1 .. Len(Tail(line)) : Tail(line)[k] = line[k + 1]
  BY <1>2, HeadTailProperties
<1>4. Len(line) \in Nat /\ Len(line) # 0
  BY <1>2, EmptySeq, LenProperties
<1>5. Len(line') = Len(line) - 1 /\ Len(line) >= 1
  BY <1>2, <1>3, <1>4
<1>6. \A i \in 1 .. Len(line') : i + 1 \in 1 .. Len(line) /\ line'[i] = line[i + 1]
  BY <1>2, <1>3, <1>4, <1>5
<1>7. QED
  BY <1>1, <1>5, <1>6

LEMMA LineIs ==
    ASSUME TypeInv, [Next]_vars
    PROVE  \/ ~Grows /\ ~Shrinks /\ line' = line
           \/ /\ Grows /\ InPkt /\ UNCHANGED <<file, blk>>
              /\ Len(line') = Len(line) + 1 /\ line'[Len(line) + 1] = job
              /\ \A i \in 1 .. Len(line) : line'[i] = line[i]
           \/ /\ Shrinks /\ UNCHANGED <<file, blk>>
              /\ Len(line') = Len(line) - 1 /\ Len(line) >= 1
              /\ \A i \in 1 .. Len(line') : /\ i + 1 \in 1 .. Len(line)
                                            /\ line'[i] = line[i + 1]
<1>1. CASE Grows
  <2>1. line \in Seq(Packets) /\ job \in Packets /\ line' = Append(line, job)
        /\ InPkt /\ UNCHANGED <<file, blk>>
    BY <1>1 DEF Grows, Transmit, TransmitAgain, TypeInv, InPkt, sendVars
  <2>2. Len(line') = Len(line) + 1 /\ line'[Len(line) + 1] = job
        /\ \A i \in 1 .. Len(line) : line'[i] = line[i]
    BY <2>1, AppendProperties
  <2>3. QED
    BY <1>1, <2>1, <2>2
<1>2. CASE Shrinks
  BY <1>2, ShrinkIs
<1>3. CASE ~Grows /\ ~Shrinks
  <2>1. CASE Sender \/ PktFails
    BY <1>3, <2>1 DEF Grows, Sender, SendStart, SendLoop, Fill, SendEot, SendTail,
                      SendClose, Unsent, AckedData, AckedOther, Acked, PktFails
  <2>2. CASE Receiver
    BY <1>3, <2>2 DEF Shrinks, Receiver, RecvHand, RecvCall, RecvTimeout
  <2>3. CASE UNCHANGED vars
    BY <1>3, <2>3 DEF vars
  <2>4. QED
    BY <1>3, <2>1, <2>2, <2>3 DEF Next, Shrinks
<1>4. QED
  BY <1>1, <1>2, <1>3

LEMMA UpToOrder ==
    /\ \A f, b, g, c, h, d \in Nat :
           UpTo(f, b, g, c) /\ UpTo(g, c, h, d) => UpTo(f, b, h, d)
    /\ \A f, b, g, c \in Nat : UpTo(f, b, g, c) \/ UpTo(g, c, f, b)
  BY DEF UpTo

LEMMA LineInit == Init => LineInv
  BY DEF Init, LineInv

LEMMA LineStep ==
    ASSUME TypeInv, FlowInv, FrameInv, BlkInv, LineInv, [Next]_vars, TypeInv'
    PROVE  LineInv'
<1>1. \A p : PacketOk(p)' = PacketOk(p)
  BY PacketSame
<1>2. /\ file \in Nat /\ blk \in Nat /\ file' \in Nat /\ blk' \in Nat /\ Len(line) \in Nat
      /\ \A i \in 1 .. Len(line) : line[i].file \in Nat /\ line[i].blk \in Nat
  <2>1. file' \in Nat /\ blk' \in Nat
    <3>1. file' \in 1 .. NFiles + 1 /\ blk' \in Nat
      BY Zenon DEF TypeInv
    <3>2. QED
      BY <3>1, Sizes
  <2>2. QED
    BY <2>1, PlaceSorts
<1>3. UpTo(file, blk, file', blk')
  BY Advance
<1>4. \A i \in 1 .. Len(line) : UpTo(line[i].file, line[i].blk, file', blk')
  BY <1>2, <1>3, UpToOrder DEF LineInv
<1>5. CASE line' = line
  BY <1>1, <1>4, <1>5 DEF LineInv, UpTo
<1>6. CASE /\ InPkt /\ UNCHANGED <<file, blk>>
           /\ Len(line') = Len(line) + 1 /\ line'[Len(line) + 1] = job
           /\ \A i \in 1 .. Len(line) : line'[i] = line[i]
  <2>1. PacketOk(job) /\ job.file = file /\ job.blk = blk
    BY <1>6, JobFits DEF BlkInv
  <2>2. \A i \in 1 .. Len(line') : i \in 1 .. Len(line) \/ i = Len(line) + 1
    BY <1>2, <1>6
  <2>3. ASSUME NEW i \in 1 .. Len(line')
        PROVE  PacketOk(line'[i]) /\ UpTo(line'[i].file, line'[i].blk, file, blk)
    <3>1. CASE i \in 1 .. Len(line)
      BY <1>6, <3>1 DEF LineInv
    <3>2. CASE i = Len(line) + 1
      BY <1>2, <1>6, <2>1, <3>2 DEF UpTo
    <3>3. QED
      BY <2>2, <3>1, <3>2
  <2>4. ASSUME NEW i \in 1 .. Len(line'), NEW j \in 1 .. Len(line'), i <= j
        PROVE  UpTo(line'[i].file, line'[i].blk, line'[j].file, line'[j].blk)
    <3>1. CASE j \in 1 .. Len(line)
      <4>1. i \in 1 .. Len(line)
        BY <1>2, <2>4, <3>1
      <4>2. QED
        BY <1>6, <2>4, <3>1, <4>1 DEF LineInv
    <3>2. CASE j = Len(line) + 1
      BY <1>6, <2>1, <2>3, <3>2
    <3>3. QED
      BY <2>2, <3>1, <3>2
  <2>5. /\ \A i \in 1 .. Len(line') : /\ PacketOk(line'[i])
                                      /\ UpTo(line'[i].file, line'[i].blk, file', blk')
        /\ \A i, j \in 1 .. Len(line') :
             i <= j => UpTo(line'[i].file, line'[i].blk, line'[j].file, line'[j].blk)
    BY <1>6, <2>3, <2>4
  <2>6. QED
    BY <1>1, <2>5 DEF LineInv, UpTo
<1>7. CASE /\ UNCHANGED <<file, blk>>
           /\ Len(line') = Len(line) - 1
           /\ \A i \in 1 .. Len(line') : /\ i + 1 \in 1 .. Len(line)
                                         /\ line'[i] = line[i + 1]
  <2>1. /\ \A i \in 1 .. Len(line') : /\ PacketOk(line'[i])
                                      /\ UpTo(line'[i].file, line'[i].blk, file', blk')
        /\ \A i, j \in 1 .. Len(line') :
             i <= j => UpTo(line'[i].file, line'[i].blk, line'[j].file, line'[j].blk)
    <3>1. \A i \in 1 .. Len(line') : /\ PacketOk(line'[i])
                                     /\ UpTo(line'[i].file, line'[i].blk, file', blk')
      BY <1>4, <1>7 DEF LineInv
    <3>2. \A i, j \in 1 .. Len(line') : i <= j => i + 1 <= j + 1
      OBVIOUS
    <3>3. QED
      BY <1>7, <3>1, <3>2 DEF LineInv
  <2>2. QED
    BY <1>1, <2>1 DEF LineInv, UpTo
<1>8. QED
  BY <1>5, <1>6, <1>7, LineIs

\* The bytes that are handed out start no file.
LEMMA HandLen ==
    ASSUME TypeInv, FlowInv, RecvHand PROVE Len(out') = Len(out)
<1>1. CASE out # <<>>
  BY <1>1, HandIs
<1>2. CASE out = <<>>
  <2>1. PICK max \in Reads :
          out' = [out EXCEPT ![Len(out)] = @ \o SubSeq(rbuf, rpos + 1,
                                                       rpos + Lesser(rlen - rpos, max))]
    BY DEF RecvHand
  <2>2. DOMAIN out = {}
    BY <1>2
  <2>3. out' = out
    BY <1>2, <2>1, <2>2
  <2>4. QED
    BY <2>3
<1>3. QED
  BY <1>1, <1>2

\* As long as the receiver has taken no packet and none is lost.
Calm == Sender \/ PktFails \/ RecvHand \/ RecvCall \/ RecvTimeout \/ UNCHANGED vars

LEMMA CalmIs ==
    ASSUME TypeInv, FlowInv, Calm, ~(AckedData \/ AckedOther)
    PROVE  missed' = missed /\ rres' = rres /\ pktno' = pktno /\ Len(out') = Len(out)
<1>1. CASE RecvHand
  BY <1>1, HandLen DEF RecvHand
<1>2. CASE ~RecvHand
  BY <1>2 DEF Calm, Sender, SendStart, SendLoop, Fill, SendEot, SendTail, SendClose, Unsent,
              Transmit, TransmitAgain, PktFails, RecvCall, RecvTimeout, vars, recvVars
<1>3. QED
  BY <1>1, <1>2

\* A packet that is lost for good is noticed at once.
LEMMA MissedStep ==
    ASSUME TypeInv, FlowInv, BlkInv, [Next]_vars, ~missed', ~missed => ~Missing
    PROVE  ~missed /\ ~Missing /\ ~Missing'
<1>1. CASE Shrinks \/ AckedData \/ AckedOther
  <2>1. Mark
    BY <1>1 DEF Shrinks, Lose, RecvDuplicate, RecvHeader, RecvData, RecvAstray, RecvWrong,
                RecvEot, AckedData, AckedOther, Acked
  <2>2. QED
    BY <2>1 DEF Mark
<1>2. CASE ~(Shrinks \/ AckedData \/ AckedOther)
  <2>1. Calm
    BY <1>2 DEF Calm, Shrinks, Next, Receiver
  <2>2. /\ missed' = missed /\ rres' = rres /\ Due' = Due
    BY <1>2, <2>1, CalmIs, Same DEF Due
  <2>3. UNCHANGED <<file, blk>>
    BY <1>2, Advance
  <2>4. /\ Len(line') \in Nat /\ Len(line) \in Nat /\ Len(line) <= Len(line')
        /\ \A i \in 1 .. Len(line) : line'[i] = line[i]
    <3>1. Len(line) \in Nat
      BY PlaceSorts
    <3>2. CASE line' = line
      BY <3>1, <3>2
    <3>3. CASE line' # line
      BY <1>2, <3>1, <3>3, LineIs
    <3>4. QED
      BY <3>2, <3>3
  <2>5. \A i \in 1 .. Len(line) : i \in 1 .. Len(line')
    BY <2>4
  <2>6. Missing' => Missing
    BY <2>2, <2>3, <2>4, <2>5 DEF Missing
  <2>7. QED
    BY <2>2, <2>6
<1>3. QED
  BY <1>1, <1>2

LEMMA PastMono ==
    ASSUME TypeInv, RecvInv, NEW f \in Nat, NEW b \in Nat, NEW g \in Nat, NEW c \in Nat,
           f >= 1, Past(f, b), UpTo(f, b, g, c), ~Y => f = g
    PROVE  Past(g, c)
<1>1. pktno \in Nat /\ Len(out) \in Nat /\ NFiles \in Nat
  BY PlaceSorts, Sizes
<1>2. CASE Y
  <2>1. CASE g > Len(out)
    BY <1>2, <2>1 DEF Past
  <2>2. CASE ~(g > Len(out))
    <3>1. f = Len(out) /\ g = f /\ b <= c /\ b >= pktno - 1 /\ f <= NFiles
      BY <1>1, <1>2, <2>2 DEF Past, UpTo, RecvInv
    <3>2. Off(b) \in Int /\ Off(c) \in Int /\ Off(b) <= Off(c) /\ lens[f] \in Nat
      <4>1. f \in 1 .. NFiles
        BY <1>1, <3>1
      <4>2. QED
        BY <3>1, <4>1, OffIs DEF TypeInv
    <3>3. pktno = 0 => b >= 1 /\ Off(b) >= lens[f]
      BY <1>1, <1>2, <3>1 DEF Past
    <3>4. c >= pktno - 1 /\ (pktno = 0 => c >= 1 /\ Off(c) >= lens[f])
      BY <1>1, <3>1, <3>2, <3>3
    <3>5. QED
      BY <1>2, <3>1, <3>4 DEF Past
  <2>3. QED
    BY <2>1, <2>2
<1>3. CASE ~Y
  BY <1>1, <1>3 DEF Past, UpTo
<1>4. QED
  BY <1>2, <1>3

\* The first packet under way is not behind the one the receiver waits for.
LEMMA HeadIs ==
    ASSUME TypeInv, LineInv, ~Missing, rres = "run", line # <<>>
    PROVE  /\ Len(line) >= 1 /\ PacketOk(line[1]) /\ line[1] \in Packets
           /\ line[1].file \in Nat /\ line[1].blk \in Nat
           /\ UpTo(line[1].file, line[1].blk, Due[1], Due[2])
<1>1. Len(line) \in Nat /\ Len(line) >= 1
  <2>1. Len(line) \in Nat /\ Len(line) # 0
    BY EmptySeq, LenProperties DEF TypeInv
  <2>2. QED
    BY <2>1
<1>2. /\ file \in Nat /\ blk \in Nat /\ Due[1] \in Nat /\ Due[2] \in Nat
      /\ Due = <<Due[1], Due[2]>>
      /\ \A i \in 1 .. Len(line) : line[i].file \in Nat /\ line[i].blk \in Nat
  BY PlaceSorts DEF Due
<1>3. 1 \in 1 .. Len(line)
  BY <1>1
<1> DEFINE h == line[1]
<1>4. h.file \in Nat /\ h.blk \in Nat /\ PacketOk(h) /\ UpTo(h.file, h.blk, file, blk)
      /\ h \in Packets
  BY <1>2, <1>3, PlaceSorts DEF LineInv
<1>5. UpTo(h.file, h.blk, Due[1], Due[2])
  <2>1. SUFFICES ASSUME ~UpTo(h.file, h.blk, Due[1], Due[2]) PROVE FALSE
    OBVIOUS
  <2> HIDE DEF h
  <2>2. ~UpTo(file, blk, Due[1], Due[2])
    <3>1. ASSUME NEW x \in Nat, NEW y \in Nat, ~UpTo(h.file, h.blk, x, y)
          PROVE  ~UpTo(file, blk, x, y)
      BY <1>2, <1>4, <3>1, UpToOrder
    <3>2. QED
      BY <1>2, <2>1, <3>1
  <2>3. file > Due[1] \/ (file = Due[1] /\ blk > Due[2])
    BY <1>2, <2>2 DEF UpTo
  <2>4. PICK i \in 1 .. Len(line) : <<line[i].file, line[i].blk>> = Due
    BY <2>3 DEF Missing
  <2>5. line[i].file = Due[1] /\ line[i].blk = Due[2]
    BY <2>4
  <2>6. UpTo(h.file, h.blk, line[i].file, line[i].blk)
    <3>1. 1 <= i
      BY <1>1
    <3>2. QED
      BY <1>3, <3>1 DEF LineInv, h
  <2>7. QED
    BY <2>1, <2>5, <2>6
<1>6. QED
  BY <1>1, <1>4, <1>5

LEMMA FewNumbers ==
    0 % 256 = 0 /\ 1 % 256 = 1 /\ (0 - 1) % 256 = 255 /\ (1 + 1) % 256 = 2 /\ (1 - 1) % 256 = 0
<1>1. 0 % 256 = 0 /\ 1 % 256 = 1 /\ (1 + 1) % 256 = 2 /\ (1 - 1) % 256 = 0
  OBVIOUS
<1>2. ASSUME NEW q \in Int, NEW M, M = 256 PROVE (M * q + 255) % M = 255
  <2>1. M \in Nat /\ M > 0 /\ 255 \in 0 .. M - 1
    BY <1>2
  <2>2. QED
    BY <2>1, ModUnique
<1>3. PICK q \in Int : 256 * q + 255 = 0 - 1
  <2>1. -1 \in Int /\ 256 * (-1) + 255 = 0 - 1
    OBVIOUS
  <2>2. QED
    BY <2>1
<1>4. (256 * q + 255) % 256 = 255
  BY <1>2
<1>5. QED
  BY <1>1, <1>3, <1>4


LEMMA SeqIs ==
    /\ \A n \in Nat : n > 0 => (n - 1) % 256 # n % 256
    /\ (0 - 1) % 256 # 0
<1>1. \A n \in Nat : n > 0 => (n - 1) % 256 # n % 256
  OBVIOUS
<1>2. QED
  BY <1>1, FewNumbers

\* What the receiver meets.
Meets(p) ==
    /\ p.kind # "EOT" => IsDuplicate(p.seq) \/ IsNext(p.seq)
    /\ p.kind # "EOT" /\ ~IsDuplicate(p.seq) =>
         /\ Y /\ pktno = 0 => p.file = Len(out) + 1 /\ p.blk = 0
         /\ Y /\ pktno > 0 => p.file = Len(out) /\ p.blk = pktno
         /\ ~Y => p.blk = pktno + 1
    /\ Y /\ p.kind = "EOT" => /\ p.file = Len(out) /\ EotOk(p) /\ p.blk >= 1
                              /\ pktno = 0 \/ p.blk = pktno

LEMMA MeetsStart ==
    ASSUME TypeInv, LineInv, RecvInv, ~Missing, rres = "run", line # <<>>, Y, pktno = 0
    PROVE  Meets(line[1])
<1> DEFINE p == line[1]
<1>1. /\ PacketOk(p) /\ p.file \in Nat /\ p.blk \in Nat
      /\ UpTo(p.file, p.blk, Due[1], Due[2]) /\ Len(line) >= 1
  BY HeadIs
<1>2. Past(p.file, p.blk) /\ Len(out) \in Nat /\ Len(line) \in Nat
  <2>1. 1 \in 1 .. Len(line)
    BY <1>1, PlaceSorts
  <2>2. QED
    BY <2>1, PlaceSorts DEF RecvInv
<1>3. Due[1] = Len(out) + 1 /\ Due[2] = 0
  BY DEF Due
<1> HIDE DEF p
<1>4. \/ p.file = Len(out) + 1 /\ p.blk = 0
      \/ p.file = Len(out) /\ p.blk >= 1 /\ Off(p.blk) >= lens[p.file]
  BY <1>1, <1>2, <1>3 DEF Past, UpTo
<1>5. CASE p.file = Len(out) + 1 /\ p.blk = 0
  <2>1. StartOk(p)
    BY <1>1, <1>5 DEF PacketOk
  <2>2. p.seq = 0 /\ p.kind # "EOT"
    BY <2>1 DEF StartOk
  <2>3. IsNext(p.seq)
    BY <2>2, FewNumbers DEF IsNext
  <2>4. QED
    BY <1>5, <2>2, <2>3 DEF Meets, p
<1>6. CASE p.file = Len(out) /\ p.blk >= 1 /\ Off(p.blk) >= lens[p.file]
  <2>1. p.file \in 1 .. NFiles
    <3>1. p.file <= NFiles /\ p.file >= 1
      <4>1. p.file <= NFiles
        BY <1>1, <1>6 DEF PacketOk
      <4>2. p \in Packets
        BY HeadIs DEF p
      <4>3. QED
        BY <4>1, <4>2, Sizes DEF Packets
    <3>2. QED
      BY <1>1, <3>1, Sizes
  <2>2. lens[p.file] \in Nat /\ Off(p.blk) \in Int
    BY <1>1, <2>1, OffIs DEF TypeInv
  <2>3. EotOk(p)
    <3>1. p.blk # 0
      BY <1>1, <1>6
    <3>2. EotOk(p) \/ DataOk(p)
      BY <1>1, <3>1 DEF PacketOk
    <3>3. ~DataOk(p)
      BY <1>6, <2>2 DEF DataOk
    <3>4. QED
      BY <3>2, <3>3
  <2>4. p.kind = "EOT"
    BY <2>3 DEF EotOk
  <2>5. QED
    BY <1>6, <2>3, <2>4 DEF Meets, p
<1>7. QED
  BY <1>4, <1>5, <1>6 DEF p

LEMMA MeetsData ==
    ASSUME TypeInv, LineInv, RecvInv, ~Missing, rres = "run", line # <<>>, Y, pktno > 0
    PROVE  Meets(line[1])
<1> DEFINE p == line[1]
<1>1. /\ PacketOk(p) /\ p.file \in Nat /\ p.blk \in Nat
      /\ UpTo(p.file, p.blk, Due[1], Due[2]) /\ Len(line) >= 1
  BY HeadIs
<1>2. Past(p.file, p.blk) /\ Len(out) \in Nat /\ pktno \in Nat
  <2>1. 1 \in 1 .. Len(line)
    BY <1>1, PlaceSorts
  <2>2. QED
    BY <2>1, PlaceSorts DEF RecvInv
<1>3. Due[1] = Len(out) /\ Due[2] = pktno
  BY <1>2 DEF Due
<1> HIDE DEF p
<1>4. p.file = Len(out) /\ (p.blk = pktno \/ p.blk = pktno - 1)
  BY <1>1, <1>2, <1>3 DEF Past, UpTo
<1>5. CASE p.blk = pktno
  <2>1. p.blk # 0
    BY <1>2, <1>5
  <2>2. EotOk(p) \/ (p.kind # "EOT" /\ p.seq = pktno % 256)
    BY <1>1, <1>5, <2>1 DEF PacketOk, DataOk, Num
  <2>3. QED
    BY <1>2, <1>4, <1>5, <2>2 DEF Meets, IsNext, EotOk, p
<1>6. CASE p.blk = pktno - 1
  <2>1. p.kind # "EOT" /\ p.seq = (pktno - 1) % 256
    <3>1. CASE p.blk = 0
      <4>1. StartOk(p) /\ pktno - 1 = 0
        BY <1>1, <1>2, <1>6, <3>1 DEF PacketOk
      <4>2. QED
        BY <4>1, FewNumbers DEF StartOk
    <3>2. CASE p.blk # 0
      <4>1. Off(p.blk) < lens[p.file] /\ Off(p.blk) \in Int /\ lens[p.file] \in Nat
        <5>1. Off(pktno - 1) < lens[Len(out)]
          BY <1>1, <1>2, <1>6, <3>2 DEF RecvInv
        <5>2. Len(out) \in 1 .. NFiles
          BY <1>2, Sizes DEF RecvInv
        <5>3. QED
          BY <1>1, <1>4, <1>6, <5>1, <5>2, OffIs DEF TypeInv
      <4>2. DataOk(p)
        BY <1>1, <3>2, <4>1 DEF PacketOk, EotOk
      <4>3. QED
        BY <1>6, <4>2 DEF DataOk, Num
    <3>3. QED
      BY <3>1, <3>2
  <2>2. QED
    BY <2>1 DEF Meets, IsDuplicate, p
<1>7. QED
  BY <1>4, <1>5, <1>6 DEF p

LEMMA MeetsOld ==
    ASSUME TypeInv, LineInv, RecvInv, ~Missing, rres = "run", line # <<>>, ~Y
    PROVE  Meets(line[1]) /\ pktno > 0
<1> DEFINE p == line[1]
<1>1. /\ PacketOk(p) /\ p.file \in Nat /\ p.blk \in Nat
      /\ UpTo(p.file, p.blk, Due[1], Due[2]) /\ Len(line) >= 1
  BY HeadIs
<1>2. Past(p.file, p.blk) /\ pktno \in Nat /\ pktno > 0
  <2>1. 1 \in 1 .. Len(line)
    BY <1>1, PlaceSorts
  <2>2. QED
    BY <2>1, PlaceSorts DEF RecvInv
<1>3. Due[1] = 1 /\ Due[2] = pktno + 1
  BY DEF Due
<1> HIDE DEF p
<1>4. p.file = 1 /\ (p.kind # "EOT" => p.seq = (p.blk - 1) % 256)
  BY <1>1 DEF PacketOk, Num
<1>5. p.blk = pktno \/ p.blk = pktno + 1
  BY <1>1, <1>2, <1>3, <1>4 DEF Past, UpTo
<1>6. pktno + 1 - 1 = pktno
  BY <1>2
<1>7. QED
  BY <1>2, <1>4, <1>5, <1>6 DEF Meets, IsNext, IsDuplicate, p

LEMMA MeetsExpected ==
    ASSUME TypeInv, LineInv, RecvInv, ~Missing, rres = "run", line # <<>>
    PROVE  Meets(line[1])
<1>1. pktno \in Nat
  BY DEF TypeInv
<1>2. QED
  BY <1>1, MeetsStart, MeetsData, MeetsOld

LEMMA OrderInit == Init => OrderInv
<1> SUFFICES ASSUME Init PROVE OrderInv
  OBVIOUS
<1>1. /\ file = 1 /\ line = <<>> /\ rres = "run" /\ Len(line) = 0
      /\ pktno = (IF Y THEN 0 ELSE 1) /\ blk = (IF Y THEN 0 ELSE 1)
      /\ Len(out) = IF Y THEN 0 ELSE 1
  BY DEF Init
<1>2. ~Missing
  BY <1>1 DEF Missing, Due
<1>3. RecvInv
  BY <1>1, Sizes DEF RecvInv, Past
<1>4. QED
  BY <1>1, <1>2, <1>3 DEF OrderInv

\* While the receiver takes no packet that is new, its places stay.
LEMMA RecvKept ==
    ASSUME TypeInv, TypeInv', FlowInv, BlkInv, LineInv, RecvInv, [Next]_vars,
           pktno' = pktno, Len(out') = Len(out)
    PROVE  RecvInv'
<1>1. /\ file \in Nat /\ blk \in Nat /\ file' \in Nat /\ blk' \in Nat /\ file >= 1
      /\ Len(line) \in Nat
      /\ \A i \in 1 .. Len(line) : /\ line[i].file \in Nat /\ line[i].blk \in Nat
                                   /\ line[i].file >= 1
  <2>1. file' \in Nat /\ blk' \in Nat /\ file >= 1
    <3>1. file' \in 1 .. NFiles + 1 /\ blk' \in Nat /\ file \in 1 .. NFiles + 1
      BY Zenon DEF TypeInv
    <3>2. QED
      BY <3>1, Sizes
  <2>2. \A i \in 1 .. Len(line) : line[i].file >= 1
    BY PlaceSorts, Sizes DEF Packets
  <2>3. QED
    BY <2>1, <2>2, PlaceSorts
<1>2. \A f, b : Past(f, b)' = Past(f, b)
  <2>1. Y' = Y /\ lens' = lens /\ \A b : Off(b)' = Off(b)
    BY Same DEF Off
  <2>2. ASSUME NEW f, NEW b PROVE Past(f, b)' = Past(f, b)
    <3>1. CASE Y
      BY <2>1, <3>1 DEF Past
    <3>2. CASE ~Y
      BY <2>1, <3>2 DEF Past
    <3>3. QED
      BY <3>1, <3>2
  <2>3. QED
    BY <2>2
<1>3. Past(file', blk')
  <2>1. ~Y => file = file'
    <3>1. ~Y => file = 1
      BY DEF FlowInv, FileInv
    <3>2. QED
      <4>1. CASE AckedData \/ AckedOther
        BY <4>1, StayAcked, StayOther
      <4>2. CASE ~(AckedData \/ AckedOther)
        BY <4>2, Advance
      <4>3. QED
        BY <4>1, <4>2
  <2>2. QED
    BY <1>1, <2>1, Advance, PastMono DEF RecvInv
<1>4. ASSUME NEW i \in 1 .. Len(line') PROVE Past(line'[i].file, line'[i].blk)
  <2>1. CASE line' = line
    BY <1>4, <2>1 DEF RecvInv
  <2>2. CASE /\ InPkt /\ line'[Len(line) + 1] = job /\ Len(line') = Len(line) + 1
             /\ \A k \in 1 .. Len(line) : line'[k] = line[k]
    <3>1. CASE i \in 1 .. Len(line)
      BY <2>2, <3>1 DEF RecvInv
    <3>2. CASE i = Len(line) + 1
      <4>1. line'[i] = job /\ job.file = file /\ job.blk = blk
        BY <2>2, <3>2 DEF BlkInv
      <4>2. QED
        BY <4>1 DEF RecvInv
    <3>3. QED
      BY <1>1, <2>2, <3>1, <3>2
  <2>3. CASE \A k \in 1 .. Len(line') : k + 1 \in 1 .. Len(line) /\ line'[k] = line[k + 1]
    BY <2>3 DEF RecvInv
  <2>4. QED
    BY <2>1, <2>2, <2>3, LineIs
<1>5. /\ Past(file, blk)' /\ \A i \in 1 .. Len(line') : Past(line[i].file, line[i].blk)'
  BY <1>2, <1>3, <1>4
<1>6. Y' = Y /\ lens' = lens
  BY Same
<1>7. IF Y' THEN /\ Len(out') <= NFiles
                 /\ pktno' > 0 => Len(out') > 0
                 /\ pktno' > 1 => Off(pktno - 1) < lens[Len(out)]
      ELSE pktno' > 0
  BY <1>6 DEF RecvInv
<1>8. Off(pktno - 1)' = Off(pktno - 1) /\ lens'[Len(out')] = lens[Len(out)]
  BY <1>6 DEF Off
<1>9. QED
  BY <1>5, <1>7, <1>8 DEF RecvInv

\* What follows the packet that is taken.
LEMMA AfterHead ==
    ASSUME TypeInv, FlowInv, LineInv, [Next]_vars, Shrinks
    PROVE  /\ line[1].file \in Nat /\ line[1].blk \in Nat /\ line[1].file >= 1
           /\ file' \in Nat /\ blk' \in Nat
           /\ UpTo(line[1].file, line[1].blk, file', blk')
           /\ \A i \in 1 .. Len(line') :
                /\ line'[i].file \in Nat /\ line'[i].blk \in Nat
                /\ UpTo(line[1].file, line[1].blk, line'[i].file, line'[i].blk)
<1>1. /\ UNCHANGED <<file, blk>> /\ Len(line) >= 1 /\ Len(line) \in Nat
      /\ \A i \in 1 .. Len(line') : i + 1 \in 1 .. Len(line) /\ line'[i] = line[i + 1]
  BY ShrinkIs, PlaceSorts
<1>2. 1 \in 1 .. Len(line)
  BY <1>1
<1>3. /\ line[1].file \in Nat /\ line[1].blk \in Nat /\ line[1].file >= 1
      /\ UpTo(line[1].file, line[1].blk, file, blk)
  BY <1>2, PlaceSorts, Sizes DEF LineInv, Packets
<1>4. ASSUME NEW i \in 1 .. Len(line')
      PROVE  /\ line'[i].file \in Nat /\ line'[i].blk \in Nat
             /\ UpTo(line[1].file, line[1].blk, line'[i].file, line'[i].blk)
  <2>1. i + 1 \in 1 .. Len(line) /\ line'[i] = line[i + 1] /\ 1 <= i + 1
    BY <1>1
  <2>2. QED
    BY <1>2, <2>1, PlaceSorts DEF LineInv
<1>5. file' \in Nat /\ blk' \in Nat /\ UpTo(line[1].file, line[1].blk, file', blk')
  BY <1>1, <1>3, PlaceSorts
<1>6. QED
  BY <1>3, <1>4, <1>5

\* The same for the packet the receiver takes.
Taking == \/ RecvDuplicate \/ RecvHeader \/ RecvData \/ RecvAstray \/ RecvWrong \/ RecvEot

LEMMA TakingIs ==
    ASSUME TypeInv, LineInv, RecvInv, ~Missing, Taking
    PROVE  /\ rres = "run" /\ line # <<>> /\ Head(line) = line[1] /\ Meets(line[1])
           /\ PacketOk(line[1]) /\ line[1] \in Packets /\ Shrinks
<1>1. rres = "run" /\ line # <<>> /\ Head(line) = line[1]
  BY DEF Taking, RecvDuplicate, RecvHeader, RecvData, RecvAstray, RecvWrong, RecvEot, Takes
<1>2. QED
  BY <1>1, MeetsExpected, HeadIs DEF Taking, Shrinks

LEMMA OrderHeader ==
    ASSUME TypeInv, FlowInv, LineInv, RecvInv, ~Missing, [Next]_vars, RecvHeader
    PROVE  rres' # "astray" /\ (rres' = "run" => RecvInv')
<1> DEFINE p == line[1]
<1>1. /\ rres = "run" /\ Head(line) = p /\ Meets(p) /\ PacketOk(p) /\ Shrinks
  BY TakingIs DEF Taking
<1>2. /\ p.kind \in {"HEADER", "NULL"} /\ pktno = 0 /\ ~IsDuplicate(p.seq)
      /\ pktno' = 1
      /\ IF p.kind = "NULL" THEN rres' = "done"
                            ELSE out' = Append(out, <<>>) /\ rres' = rres
  BY <1>1 DEF RecvHeader, Takes
<1>3. Y
  BY <1>2 DEF RecvInv
<1>4. p.file = Len(out) + 1 /\ p.blk = 0 /\ Len(out) \in Nat
  BY <1>1, <1>2, <1>3, PlaceSorts DEF Meets
<1>5. ASSUME rres' = "run" PROVE RecvInv'
  <2>1. p.kind = "HEADER" /\ out' = Append(out, <<>>)
    BY <1>2, <1>5
  <2>2. Len(out') = Len(out) + 1
    <3>1. out \in Seq(Seq(Bytes)) /\ <<>> \in Seq(Bytes)
      BY EmptySeq DEF TypeInv
    <3>2. QED
      BY <2>1, <3>1, AppendProperties
  <2>3. p.file <= NFiles
    BY <1>1, <1>4, <2>1 DEF PacketOk, StartOk
  <2>4. ASSUME NEW g \in Nat, NEW c \in Nat, UpTo(p.file, p.blk, g, c)
        PROVE  Past(g, c)'
    <3>1. g > Len(out') \/ (g = Len(out') /\ c >= pktno' - 1 /\ pktno' # 0)
      BY <1>2, <1>4, <2>2, <2>4 DEF UpTo
    <3>2. Y'
      BY <1>3, Same
    <3>3. QED
      BY <3>1, <3>2 DEF Past
  <2>5. /\ Past(file, blk)' /\ \A i \in 1 .. Len(line') : Past(line[i].file, line[i].blk)'
    <3>1. Past(file, blk)'
      BY <1>1, <2>4, AfterHead
    <3>2. QED
      BY <1>1, <2>4, <3>1, AfterHead
  <2>6. QED
    BY <1>2, <1>3, <1>4, <2>2, <2>3, <2>5, Same DEF RecvInv
<1>6. QED
  BY <1>1, <1>2, <1>5

LEMMA OrderData ==
    ASSUME TypeInv, FlowInv, LineInv, RecvInv, ~Missing, [Next]_vars, RecvData
    PROVE  rres' # "astray" /\ (rres' = "run" => RecvInv')
<1> DEFINE p == line[1]
<1>1. /\ rres = "run" /\ Head(line) = p /\ Meets(p) /\ PacketOk(p) /\ Shrinks
  BY TakingIs DEF Taking
<1>2. /\ p.kind \in {"DATA", "TAIL"} /\ ~IsDuplicate(p.seq) /\ pktno \in Nat /\ pktno > 0
      /\ pktno' = pktno + 1 /\ out' = out /\ rres' \in {"eof", "run"}
  <2>1. pktno # 0 /\ pktno \in Nat
    BY PlaceSorts DEF RecvData
  <2>2. rres' \in {"eof", "run"}
    BY <1>1, DataIs
  <2>3. QED
    BY <1>1, <2>1, <2>2 DEF RecvData, Takes
<1>3. Len(out) \in Nat /\ (Y => p.file = Len(out) /\ p.blk = pktno) /\ (~Y => p.blk = pktno + 1)
  BY <1>1, <1>2, PlaceSorts DEF Meets
<1>4. Y => Off(pktno) < lens[Len(out)]
  <2>1. Y => DataOk(p)
    BY <1>1, <1>2, <1>3 DEF PacketOk, EotOk
  <2>2. QED
    BY <1>3, <2>1 DEF DataOk
<1>5. ASSUME NEW g \in Nat, NEW c \in Nat, UpTo(p.file, p.blk, g, c), ~Y => g = p.file
      PROVE  Past(g, c)'
  <2>1. CASE Y
    <3>1. g > Len(out') \/ (g = Len(out') /\ c >= pktno' - 1 /\ pktno' # 0)
      BY <1>2, <1>3, <1>5, <2>1 DEF UpTo
    <3>2. Y'
      BY <2>1, Same
    <3>3. QED
      BY <3>1, <3>2 DEF Past
  <2>2. CASE ~Y
    <3>1. ~Y' /\ c >= pktno'
      BY <1>2, <1>3, <1>5, <2>2, Same DEF UpTo
    <3>2. QED
      BY <3>1 DEF Past
  <2>3. QED
    BY <2>1, <2>2
<1>6. ~Y => /\ p.file = 1 /\ file' = 1
            /\ \A i \in 1 .. Len(line') : line'[i].file = 1
  <2>1. ~Y => file = 1 /\ file' = file
    BY <1>1, ShrinkIs DEF FlowInv, FileInv
  <2>2. \A i \in 1 .. Len(line') : PacketOk(line'[i])
    BY <1>1, ShrinkIs DEF LineInv
  <2>3. QED
    BY <1>1, <2>1, <2>2 DEF PacketOk
<1>7. Past(file, blk)' /\ \A i \in 1 .. Len(line') : Past(line[i].file, line[i].blk)'
  <2>1. Past(file, blk)'
    BY <1>1, <1>5, <1>6, AfterHead
  <2>2. QED
    BY <1>1, <1>5, <1>6, <2>1, AfterHead
<1>8. RecvInv'
  <2>1. Y' = Y /\ lens' = lens /\ Off(pktno)' = Off(pktno')
    BY Same DEF Off
  <2>2. pktno' - 1 = pktno
    BY <1>2
  <2>3. Off(pktno - 1)' = Off(pktno)
    BY <2>2 DEF Off
  <2>4. CASE Y
    BY <1>2, <1>3, <1>4, <1>7, <2>1, <2>3, <2>4 DEF RecvInv
  <2>5. CASE ~Y
    BY <1>2, <1>7, <2>1, <2>5 DEF RecvInv
  <2>6. QED
    BY <2>4, <2>5
<1>9. QED
  BY <1>2, <1>8

LEMMA OrderEot ==
    ASSUME TypeInv, FlowInv, LineInv, RecvInv, ~Missing, [Next]_vars, RecvEot
    PROVE  rres' # "astray" /\ (rres' = "run" => RecvInv')
<1> DEFINE p == line[1]
<1>1. /\ rres = "run" /\ Head(line) = p /\ Meets(p) /\ PacketOk(p) /\ Shrinks
      /\ p \in Packets
  BY TakingIs DEF Taking
<1>2. /\ p.kind = "EOT" /\ pktno' = (IF Y THEN 0 ELSE 1) /\ out' = out
      /\ rres' = IF Y THEN rres ELSE "eof"
  BY <1>1 DEF RecvEot, Takes
<1>3. CASE ~Y
  BY <1>2, <1>3
<1>4. CASE Y
  <2>1. p.file = Len(out) /\ p.blk >= 1 /\ Off(p.blk) >= lens[p.file]
        /\ Len(out) \in Nat /\ Len(out) >= 1 /\ Len(out) <= NFiles /\ p.blk \in Nat
    <3>1. p.file = Len(out) /\ p.blk >= 1 /\ EotOk(p) /\ p.blk \in Nat
      BY <1>1, <1>2, <1>4, AfterHead DEF Meets
    <3>2. Len(out) \in Nat /\ Len(out) >= 1
      BY <1>1, <3>1, AfterHead
    <3>3. QED
      BY <1>4, <3>1, <3>2 DEF EotOk, RecvInv
  <2>2. lens[Len(out)] \in Nat /\ Off(p.blk) \in Int
    <3>1. Len(out) \in 1 .. NFiles
      BY <2>1
    <3>2. QED
      BY <2>1, <3>1, OffIs DEF TypeInv
  <2>3. ASSUME NEW g \in Nat, NEW c \in Nat, UpTo(p.file, p.blk, g, c)
        PROVE  Past(g, c)'
    <3>1. Y' /\ lens' = lens /\ Len(out') = Len(out) /\ pktno' = 0 /\ Off(c)' = Off(c)
      <4>1. Y' /\ lens' = lens
        BY <1>4, Same
      <4>2. Len(out') = Len(out) /\ pktno' = 0
        BY <1>2, <1>4
      <4>3. Off(c)' = Off(c)
        BY DEF Off
      <4>4. QED
        BY <4>1, <4>2, <4>3
    <3>2. g > Len(out) \/ (g = Len(out) /\ c >= p.blk)
      BY <2>1, <2>3 DEF UpTo
    <3>3. ASSUME c >= p.blk
          PROVE  Off(c) \in Int /\ Off(p.blk) <= Off(c) /\ c >= 1 /\ c >= 0 - 1
      <4>1. p.blk <= c /\ c >= 1 /\ c >= 0 - 1 /\ p.blk \in Nat
        BY <2>1, <3>3
      <4>2. Off(c) \in Int /\ Off(p.blk) <= Off(c)
        BY <4>1, OffIs
      <4>3. QED
        BY <4>1, <4>2
    <3>4. g > Len(out) \/ (g = Len(out) /\ c >= 0 - 1 /\ c >= 1 /\ Off(c) >= lens[g])
      BY <2>1, <2>2, <3>2, <3>3
    <3>5. QED
      BY <3>1, <3>4 DEF Past
  <2>4. Past(file, blk)' /\ \A i \in 1 .. Len(line') : Past(line[i].file, line[i].blk)'
    <3>1. Past(file, blk)'
      BY <1>1, <2>3, AfterHead
    <3>2. QED
      BY <1>1, <2>3, <3>1, AfterHead
  <2>5. Y' /\ Len(out') <= NFiles /\ pktno' = 0
    BY <1>2, <1>4, <2>1, Same
  <2>6. QED
    BY <1>1, <1>2, <1>4, <2>4, <2>5 DEF RecvInv
<1>5. QED
  BY <1>3, <1>4

\* The receiver never takes data for a header or a header for data.
LEMMA OrderAstray ==
    ASSUME TypeInv, FlowInv, LineInv, RecvInv, ~Missing, RecvAstray
    PROVE  FALSE
<1> DEFINE p == line[1]
<1>1. /\ rres = "run" /\ Head(line) = p /\ Meets(p) /\ PacketOk(p) /\ pktno \in Nat
  BY TakingIs, PlaceSorts DEF Taking
<1>2. /\ p.kind \in Numbered /\ p.kind # "EOT" /\ ~IsDuplicate(p.seq)
      /\ \/ (pktno = 0) # (p.kind \in {"HEADER", "NULL"})
         \/ ~IsNext(p.seq)
  BY <1>1 DEF RecvAstray, Takes, Numbered
<1>3. (pktno = 0) # (p.kind \in {"HEADER", "NULL"})
  BY <1>1, <1>2 DEF Meets
<1> HIDE DEF p
<1>4. CASE Y /\ pktno = 0
  <2>1. StartOk(p)
    BY <1>1, <1>2, <1>4 DEF Meets, PacketOk
  <2>2. QED
    BY <1>3, <1>4, <2>1 DEF StartOk
<1>5. CASE Y /\ pktno > 0
  <2>1. DataOk(p)
    BY <1>1, <1>2, <1>5 DEF Meets, PacketOk, EotOk
  <2>2. QED
    BY <1>3, <1>5, <2>1 DEF DataOk
<1>6. CASE ~Y
  <2>1. pktno > 0 /\ p.kind \in {"DATA", "TAIL"}
    BY <1>1, <1>2, <1>6 DEF PacketOk, RecvInv
  <2>2. QED
    BY <1>3, <2>1
<1>7. QED
  BY <1>1, <1>4, <1>5, <1>6

LEMMA OrderStep ==
    ASSUME TypeInv, TypeInv', FlowInv, BlkInv, LineInv, OrderInv, [Next]_vars
    PROVE  OrderInv'
<1> SUFFICES ASSUME ~missed' PROVE ~Missing' /\ rres' # "astray" /\ (rres' = "run" => RecvInv')
  BY DEF OrderInv
<1>1. /\ ~missed /\ ~Missing /\ ~Missing' /\ rres # "astray" /\ (rres = "run" => RecvInv)
  BY MissedStep DEF OrderInv
<1>2. CASE Taking
  <2>1. rres = "run"
    BY <1>2 DEF Taking, RecvDuplicate, RecvHeader, RecvData, RecvAstray, RecvWrong, RecvEot,
                Takes
  <2>2. CASE RecvDuplicate \/ RecvWrong
    <3>1. UNCHANGED <<pktno, rres, out>>
      BY <2>2 DEF RecvDuplicate, RecvWrong
    <3>2. RecvInv'
      BY <1>1, <2>1, <3>1, RecvKept
    <3>3. QED
      BY <1>1, <3>1, <3>2
  <2>3. QED
    BY <1>1, <1>2, <2>1, <2>2, OrderHeader, OrderData, OrderEot, OrderAstray DEF Taking
<1>3. CASE ~Taking
  <2>1. UNCHANGED <<pktno, rres>> /\ Len(out') = Len(out)
    <3>1. CASE Sender \/ PktFails \/ Lose \/ RecvCall \/ RecvTimeout \/ UNCHANGED vars
      BY <3>1 DEF Sender, SendStart, SendLoop, Fill, SendEot, SendTail, SendClose, Unsent,
                  Transmit, TransmitAgain, AckedData, AckedOther, Acked, PktFails, Lose,
                  RecvCall, RecvTimeout, vars, recvVars
    <3>2. CASE RecvHand
      BY <3>2, HandLen DEF RecvHand
    <3>3. QED
      BY <1>3, <3>1, <3>2 DEF Taking, Next, Receiver
  <2>2. QED
    BY <1>1, <2>1, RecvKept
<1>4. QED
  BY <1>2, <1>3

LEMMA OrderGives ==
    TypeInv /\ LineInv /\ OrderInv => NeverWrong
<1> SUFFICES ASSUME TypeInv, LineInv, OrderInv, ~missed
    PROVE  /\ rres # "astray"
           /\ rres = "run" /\ line # <<>> /\ Head(line).kind \in Numbered =>
                IsDuplicate(Head(line).seq) \/ IsNext(Head(line).seq)
  BY DEF NeverWrong
<1>1. ASSUME rres = "run", line # <<>>, Head(line).kind \in Numbered
      PROVE  IsDuplicate(Head(line).seq) \/ IsNext(Head(line).seq)
  <2>1. Meets(line[1]) /\ Head(line) = line[1]
    BY <1>1, MeetsExpected DEF OrderInv
  <2>2. QED
    BY <1>1, <2>1 DEF Meets, Numbered
<1>2. QED
  BY <1>1 DEF OrderInv

\* Late packets, late ACKs and calls made again after a failure do not confuse
\* the numbering: whatever the receiver meets is a repetition or the packet it
\* expects, data for data and a header for a header, as long as no packet is
\* lost that a late ACK has answered for (xmodem_send_pkt, xmodem_recv_pkt).
THEOREM NumbersAgree == Spec => []NeverWrong
<1> DEFINE Inv == /\ TypeInv /\ FlowInv /\ TailInv /\ FrameInv /\ BlkInv /\ LineInv
                  /\ OrderInv
<1>1. Init => Inv
  BY FlowInit, TailInit, FrameInit, BlkInit, LineInit, OrderInit
<1>2. Inv /\ [Next]_vars => Inv'
  BY FlowNext, TailStep, FrameStep, BlkStep, LineStep, OrderStep DEF FlowStep
<1>3. Inv => NeverWrong
  BY OrderGives
<1>4. QED
  BY <1>1, <1>2, <1>3, PTL DEF Spec

-----------------------------------------------------------------------------
(* What the receiver's application gets.                                   *)

LEMMA FileSeq ==
    ASSUME TypeInv, NEW f \in 1 .. NFiles
    PROVE  /\ File(f) \in Seq(Bytes) /\ Len(File(f)) = lens[f]
           /\ \A i \in 1 .. lens[f] : File(f)[i] = <<f, i>>
<1>1. lens[f] \in Nat
  BY DEF TypeInv
<1>2. \A i \in 1 .. lens[f] : <<f, i>> \in Bytes
  BY <1>1, ByteSorts
<1>3. QED
  BY <1>1, <1>2, IsASeq DEF File

LEMMA FileIs ==
    ASSUME TypeInv, NEW f \in 1 .. NFiles, NEW s \in Seq(Bytes), Len(s) = lens[f],
           \A i \in 1 .. Len(s) : s[i] = <<f, i>>
    PROVE  s = File(f)
  BY SMTT(30), FileSeq, SeqEqual

\* What HandIs says of the file that is being handed out.
LEMMA HandFile ==
    ASSUME TypeInv, FlowInv, RecvHand, NEW g \in 1 .. NFiles, Has(g)
    PROVE  /\ Has(g)' /\ \A f \in 1 .. g - 1 : out'[f] = out[f]
           /\ UNCHANGED <<pktno, rres>>
<1>1. /\ out \in Seq(Seq(Bytes)) /\ Len(out) = g /\ fsize = lens[g]
      /\ rlen \in Nat /\ rpos \in Nat /\ rpos <= rlen
  BY LenProperties DEF TypeInv, Has
<1>2. out # <<>> /\ g \in 1 .. Len(out)
  BY <1>1
<1>3. out[g] \in Seq(Bytes) /\ Len(out[g]) \in Nat
  BY <1>1, <1>2, ElementOfSeq, LenProperties
<1>4. PICK n \in Nat :
         /\ n <= rlen - rpos /\ rpos' = rpos + n
         /\ out' \in Seq(Seq(Bytes)) /\ Len(out') = Len(out)
         /\ \A f \in 1 .. Len(out) - 1 : out'[f] = out[f]
         /\ Len(out'[Len(out)]) = Len(out[Len(out)]) + n
         /\ \A i \in 1 .. Len(out[Len(out)]) : out'[Len(out)][i] = out[Len(out)][i]
         /\ \A i \in 1 .. n :
              out'[Len(out)][Len(out[Len(out)]) + i] = rbuf[rpos + i]
  BY <1>2, HandIs
<1> DEFINE l == Len(out[g])
<1>5. /\ Len(out'[g]) = l + n
      /\ \A i \in 1 .. l : out'[g][i] = out[g][i]
      /\ \A i \in 1 .. n : out'[g][l + i] = rbuf[rpos + i]
  BY <1>1, <1>4
<1>6. UNCHANGED <<pktno, count, rres, rbuf, rlen, fsize, lens>>
  BY DEF RecvHand
<1>7. /\ l + (rlen - rpos) = count
      /\ \A i \in 1 .. l : out[g][i] = <<g, i>>
      /\ \A i \in rpos + 1 .. rlen : rbuf[i] = <<g, l + i - rpos>>
  BY DEF Has
<1>8. l \in Nat
  BY <1>3
<1> HIDE DEF l
<1>9. Len(out'[g]) + (rlen' - rpos') = count'
  <2>1. Len(out'[g]) = l + n /\ rlen' = rlen /\ rpos' = rpos + n /\ count' = count
        /\ l + (rlen - rpos) = count
    BY <1>4, <1>5, <1>6, <1>7
  <2>2. QED
    BY <1>1, <1>8, <2>1
<1>10. \A i \in 1 .. l + n : out'[g][i] = <<g, i>>
  <2> TAKE i \in 1 .. l + n
  <2>1. CASE i <= l
    <3>1. i \in 1 .. l
      BY <1>8, <2>1
    <3>2. QED
      BY <1>5, <1>7, <3>1
  <2>2. CASE i > l
    <3>1. i - l \in 1 .. n /\ l + (i - l) = i /\ rpos + (i - l) \in rpos + 1 .. rlen
          /\ l + (rpos + (i - l)) - rpos = i
      BY <1>1, <1>4, <1>8, <2>2
    <3>2. out'[g][l + (i - l)] = rbuf[rpos + (i - l)]
      BY <1>5, <3>1
    <3>3. rbuf[rpos + (i - l)] = <<g, l + (rpos + (i - l)) - rpos>>
      BY <1>7, <3>1
    <3>4. QED
      BY <3>1, <3>2, <3>3
  <2>3. QED
    BY <1>4, <1>8, <2>1, <2>2
<1>11. \A i \in rpos' + 1 .. rlen' : rbuf'[i] = <<g, Len(out'[g]) + i - rpos'>>
  <2> SUFFICES ASSUME NEW i \in rpos + n + 1 .. rlen
               PROVE  rbuf[i] = <<g, l + n + i - (rpos + n)>>
    BY <1>4, <1>5, <1>6
  <2>1. i \in rpos + 1 .. rlen /\ l + n + i - (rpos + n) = l + i - rpos
    BY <1>1, <1>4, <1>8
  <2>2. QED
    BY <1>7, <2>1
<1>12. Len(out') = g
  BY <1>1, <1>4, <1>6
<1>13. Has(g)'
  <2>1. Off(pktno)' = Off(pktno) /\ count = Lesser(lens[g], Off(pktno))
    BY <1>6 DEF Off, Has
  <2>2. count' = Lesser(lens'[g], Off(pktno)') /\ fsize' = lens'[g]
    BY <1>1, <1>6, <2>1
  <2>3. \A i \in 1 .. Len(out'[g]) : out'[g][i] = <<g, i>>
    BY <1>5, <1>10
  <2>4. QED
    BY <1>9, <1>11, <1>12, <2>2, <2>3 DEF Has
<1>14. QED
  BY <1>1, <1>4, <1>6, <1>13

\* What the receiver has of a file: its first bytes.
LEMMA HasPrefix ==
    ASSUME TypeInv, NEW g \in 1 .. NFiles, Has(g), pktno > 0
    PROVE  Len(out[g]) <= lens[g] /\ out[g] = SubSeq(File(g), 1, Len(out[g]))
<1>1. /\ out \in Seq(Seq(Bytes)) /\ Len(out) = g /\ rlen \in Nat /\ rpos \in Nat
      /\ rpos <= rlen /\ lens[g] \in Nat /\ count \in Nat /\ count <= lens[g]
      /\ Len(out[g]) + (rlen - rpos) = count
  <2>1. Off(pktno) \in Nat /\ lens[g] \in Nat
    BY OffIs DEF TypeInv
  <2>2. count = Lesser(lens[g], Off(pktno))
    BY DEF Has
  <2>3. count \in Nat /\ count <= lens[g]
    BY <2>1, <2>2, LesserOf
  <2>4. QED
    BY <2>1, <2>3, LenProperties DEF TypeInv, Has
<1>2. out[g] \in Seq(Bytes) /\ Len(out[g]) \in Nat
  <2>1. g \in 1 .. Len(out)
    BY <1>1
  <2>2. QED
    BY <1>1, <2>1, ElementOfSeq, LenProperties
<1> DEFINE l == Len(out[g])
<1>3. l \in Nat /\ l <= lens[g]
  BY <1>1, <1>2
<1>4. File(g) \in Seq(Bytes) /\ Len(File(g)) = lens[g]
      /\ \A i \in 1 .. lens[g] : File(g)[i] = <<g, i>>
  BY FileSeq
<1>5. /\ SubSeq(File(g), 1, l) \in Seq(Bytes) /\ Len(SubSeq(File(g), 1, l)) = l
      /\ \A i \in 1 .. l : SubSeq(File(g), 1, l)[i] = File(g)[i]
  BY <1>3, <1>4, SubSeqProperties
<1>6. \A i \in 1 .. l : out[g][i] = <<g, i>> /\ File(g)[i] = <<g, i>>
  BY <1>3, <1>4 DEF Has
<1>7. out[g] = SubSeq(File(g), 1, l)
  BY <1>2, <1>5, <1>6, SeqEqual
<1>8. QED
  BY <1>3, <1>7

\* A whole file is its own beginning.
LEMMA WholePrefix ==
    ASSUME TypeInv, NEW f \in 1 .. NFiles, out[f] = File(f)
    PROVE  Len(out[f]) <= lens[f] /\ out[f] = SubSeq(File(f), 1, Len(out[f]))
<1>1. lens[f] \in Nat
  BY DEF TypeInv
<1>3. File(f) \in Seq(Bytes) /\ Len(File(f)) = lens[f]
  BY FileSeq
<1>4. /\ SubSeq(File(f), 1, lens[f]) \in Seq(Bytes) /\ Len(SubSeq(File(f), 1, lens[f])) = lens[f]
      /\ \A i \in 1 .. lens[f] : SubSeq(File(f), 1, lens[f])[i] = File(f)[i]
  BY <1>1, <1>3, SubSeqProperties
<1>5. SubSeq(File(f), 1, lens[f]) = File(f)
  BY <1>3, <1>4, SeqEqual
<1>6. QED
  BY <1>1, <1>3, <1>5

LEMMA HandInit == Init => HandInv
  BY DEF Init, HandInv

LEMMA HandStep ==
    ASSUME TypeInv, HandInv, [Next]_vars PROVE HandInv'
<1>1. CASE RecvHand
  <2>1. rpos # rlen /\ rres = "run"
    BY <1>1 DEF RecvHand, TypeInv
  <2>2. ~calling /\ ~(Y /\ pktno = 0)
    BY <2>1 DEF HandInv
  <2>3. calling' = calling /\ pktno' = pktno /\ Y' = Y
    BY <1>1, Same DEF RecvHand
  <2>4. QED
    BY <2>2, <2>3 DEF HandInv
<1>2. CASE RecvCall
  BY <1>2, Same DEF RecvCall, HandInv
<1>3. CASE RecvHeader
  BY <1>3 DEF RecvHeader, HandInv
<1>4. CASE RecvData
  <2>1. ~calling' /\ pktno' = pktno + 1 /\ pktno \in Nat
    BY <1>4, PlaceSorts DEF RecvData
  <2>2. QED
    BY <2>1 DEF HandInv
<1>5. CASE RecvEot
  BY <1>5 DEF RecvEot, Takes, HandInv
<1>6. CASE RecvAstray
  BY <1>6, Same DEF RecvAstray, HandInv
<1>7. CASE RecvDuplicate \/ RecvWrong
  BY <1>7, Same DEF RecvDuplicate, RecvWrong, HandInv
<1>8. CASE Sender \/ PktFails \/ Lose \/ RecvTimeout \/ UNCHANGED vars
  <2>1. UNCHANGED recvVars
    BY <1>8 DEF Sender, SendStart, SendLoop, Fill, SendEot, SendTail, SendClose, Unsent,
                Transmit, TransmitAgain, AckedData, AckedOther, Acked, PktFails, Lose,
                RecvTimeout, vars
  <2>2. QED
    BY <2>1, Same DEF recvVars, HandInv
<1>9. QED
  BY <1>1, <1>2, <1>3, <1>4, <1>5, <1>6, <1>7, <1>8 DEF Next, Receiver

LEMMA DataInit == Init => DataInv
<1> SUFFICES ASSUME Init, Y PROVE DataInv
  BY DEF DataInv
<1>1. rres = "run" /\ out = <<>> /\ Len(out) = 0 /\ pktno = 0
  BY DEF Init
<1>2. QED
  BY <1>1 DEF DataInv

\* DataInv at work.
DataOn ==
    /\ \A f \in 1 .. Len(out) : f < Len(out) \/ pktno = 0 => Whole(f)
    /\ pktno > 0 => Has(Len(out))

LEMMA DataHand ==
    ASSUME TypeInv, FlowInv, RecvInv, HandInv, DataOn, Y, RecvHand
    PROVE  DataOn'
<1>1. rpos # rlen /\ rres = "run" /\ pktno \in Nat
  BY DEF RecvHand, TypeInv
<1>2. pktno > 0
  BY <1>1 DEF HandInv
<1>0. PICK l \in Nat : l = Len(out)
  BY PlaceSorts
<1>3. l \in 1 .. NFiles /\ Has(l)
  <2>1. l > 0 /\ l <= NFiles
    BY <1>0, <1>2 DEF RecvInv
  <2>2. Has(l)
    BY <1>0, <1>2 DEF DataOn
  <2>3. QED
    BY <2>1, <2>2, Sizes
<1>4. Has(l)' /\ (\A f \in 1 .. l - 1 : out'[f] = out[f]) /\ UNCHANGED <<pktno, rres>>
  BY <1>3, HandFile
<1>5. Len(out') = l /\ lens' = lens
  BY <1>4 DEF Has, RecvHand
<1>6. ASSUME NEW f \in 1 .. l, f < l PROVE Whole(f)'
  <2>1. f \in 1 .. l - 1 /\ Whole(f)
    BY <1>0, <1>3, <1>6 DEF DataOn
  <2>2. QED
    BY <1>4, <1>5, <2>1 DEF Whole, File
<1>7. Has(Len(out))'
  BY <1>4, <1>5 DEF Has
<1>8. \A f \in 1 .. Len(out') : f < Len(out') \/ pktno' = 0 => Whole(f)'
  BY <1>2, <1>4, <1>5, <1>6
<1>9. QED
  BY <1>7, <1>8 DEF DataOn

LEMMA DataHeader ==
    ASSUME TypeInv, FlowInv, LineInv, RecvInv, ~Missing, HandInv, DataOn, Y, RecvHeader,
           [Next]_vars
    PROVE  \/ rres' = "run" /\ DataOn'
           \/ rres' = "done" /\ \A f \in 1 .. Len(out') : Whole(f)'
<1> DEFINE p == line[1]
<1>1. /\ rres = "run" /\ Head(line) = p /\ Meets(p) /\ PacketOk(p) /\ Shrinks
  BY TakingIs DEF Taking
<1>2. /\ p.kind \in {"HEADER", "NULL"} /\ pktno = 0 /\ ~IsDuplicate(p.seq)
      /\ pktno' = 1 /\ count' = 0 /\ fsize' = p.size /\ UNCHANGED <<rlen, rpos, rbuf>>
      /\ IF p.kind = "NULL" THEN rres' = "done" /\ out' = out
                            ELSE out' = Append(out, <<>>) /\ rres' = rres
  BY <1>1 DEF RecvHeader, Takes
<1>3. /\ rpos = rlen /\ rlen \in Nat /\ lens' = lens
      /\ p.file = Len(out) + 1 /\ p.blk = 0
  <2>1. calling /\ lens' = lens
    BY DEF RecvHeader, Takes
  <2>2. rlen \in Nat
    BY LenProperties DEF TypeInv
  <2>3. QED
    BY <1>1, <1>2, <2>1, <2>2 DEF HandInv, Meets
<1>4. \A f \in 1 .. Len(out) : f <= NFiles /\ out[f] = File(f)
  BY <1>2 DEF DataOn, Whole
<1>5. CASE p.kind = "NULL"
  BY <1>2, <1>3, <1>4, <1>5 DEF Whole, File
<1>6. CASE p.kind = "HEADER"
  <2>1. PICK l \in Nat : l = Len(out) + 1
    BY PlaceSorts
  <2>2. l \in 1 .. NFiles /\ p.size = lens[l] /\ lens[l] \in Nat
    <3>1. StartOk(p)
      BY <1>1, <1>3 DEF PacketOk
    <3>2. l <= NFiles /\ l >= 1
      BY <1>3, <1>6, <2>1, <3>1, PlaceSorts DEF StartOk
    <3>3. l \in 1 .. NFiles
      BY <3>2, Sizes
    <3>4. QED
      BY <1>3, <2>1, <3>1, <3>3 DEF StartOk, TypeInv
  <2>3. /\ Len(out') = l /\ out'[l] = <<>> /\ Len(<<>>) = 0
        /\ \A f \in 1 .. Len(out) : out'[f] = out[f]
    <3>1. out \in Seq(Seq(Bytes)) /\ <<>> \in Seq(Bytes) /\ Len(<<>>) = 0
          /\ out' = Append(out, <<>>)
      BY <1>2, <1>6, EmptySeq DEF TypeInv
    <3>2. QED
      BY <2>1, <3>1, AppendProperties
  <2>4. Has(l)'
    <3>1. Off(pktno)' = 0
      BY <1>2, OffIs DEF Off
    <3>2. Lesser(lens[l], 0) = 0
      BY <2>2 DEF Lesser
    <3>3. /\ Len(out') = l /\ fsize' = lens'[l] /\ count' = Lesser(lens'[l], Off(pktno)')
      BY <1>2, <1>3, <2>2, <2>3, <3>1, <3>2
    <3>4. /\ Len(out'[l]) + (rlen' - rpos') = count'
          /\ \A i \in 1 .. Len(out'[l]) : out'[l][i] = <<l, i>>
          /\ \A i \in rpos' + 1 .. rlen' : rbuf'[i] = <<l, Len(out'[l]) + i - rpos'>>
      BY <1>2, <1>3, <2>3
    <3>5. QED
      BY <3>3, <3>4 DEF Has
  <2>5. ASSUME NEW f \in 1 .. l, f < l PROVE Whole(f)'
    <3>1. f \in 1 .. Len(out)
      BY <2>1, <2>5, PlaceSorts
    <3>2. QED
      BY <1>3, <1>4, <2>3, <3>1 DEF Whole, File
  <2>6. DataOn'
    BY <1>2, <2>3, <2>4, <2>5 DEF DataOn, Has
  <2>7. QED
    BY <1>1, <1>2, <1>6, <2>6
<1>7. QED
  BY <1>2, <1>5, <1>6

LEMMA DataPacket ==
    ASSUME TypeInv, FlowInv, LineInv, RecvInv, ~Missing, HandInv, DataOn, Y, RecvData,
           "got" \notin spoilt', [Next]_vars
    PROVE  rres' = "run" /\ DataOn'
<1> DEFINE p == line[1]
<1>1. /\ rres = "run" /\ Head(line) = p /\ Meets(p) /\ PacketOk(p)
  BY TakingIs DEF Taking
<1>2. PICK n \in Nat :
         /\ p.kind \in {"DATA", "TAIL"} /\ ~IsDuplicate(p.seq)
         /\ n = Cut(Len(p.data))
         /\ rbuf' = p.data /\ rlen' = n /\ rpos' = 0 /\ count' = count + n
         /\ rres' = (IF n = 0 /\ ~Y THEN "eof" ELSE rres)
         /\ pktno' = pktno + 1
  BY DataIs
<1>3. /\ pktno \in Nat /\ pktno > 0 /\ rpos = rlen /\ rlen \in Nat /\ lens' = lens
      /\ UNCHANGED <<fsize, out>>
  <2>1. pktno # 0 /\ pktno \in Nat /\ calling /\ UNCHANGED <<lens, fsize, out>>
    BY PlaceSorts DEF RecvData, Takes
  <2>2. rlen \in Nat
    BY LenProperties DEF TypeInv
  <2>3. QED
    BY <2>1, <2>2 DEF HandInv
<1>4. PICK l \in Nat : l = Len(out)
  BY PlaceSorts
<1>5. l \in 1 .. NFiles /\ Has(l) /\ p.file = l /\ p.blk = pktno
  <2>1. l > 0 /\ l <= NFiles
    BY <1>3, <1>4 DEF RecvInv
  <2>2. Has(l)
    BY <1>3, <1>4 DEF DataOn
  <2>3. p.file = l /\ p.blk = pktno
    BY <1>1, <1>2, <1>3, <1>4 DEF Meets
  <2>4. QED
    BY <2>1, <2>2, <2>3, Sizes
<1> DEFINE o == Off(pktno)
<1>6. /\ o \in Nat /\ lens[l] \in Nat /\ Big \in Nat /\ o < lens[l]
      /\ Off(pktno + 1) = o + Big
      /\ Len(p.data) = Big /\ Follows(p.data, l, o)
  <2>1. o \in Nat /\ lens[l] \in Nat /\ Big \in Nat /\ Off(pktno + 1) = o + Big
    BY <1>3, <1>5, OffIs, Sizes DEF TypeInv
  <2>2. ~p.dirty
    BY <1>1 DEF RecvData
  <2>3. DataOk(p)
    BY <1>1, <1>2, <1>3, <1>5 DEF PacketOk, EotOk
  <2>4. QED
    BY <1>5, <2>1, <2>2, <2>3 DEF DataOk
<1> HIDE DEF p, o
<1>7. count = o /\ fsize = lens[l] /\ Len(out[l]) = o
      /\ \A i \in 1 .. Len(out[l]) : out[l][i] = <<l, i>>
  <2>1. count = Lesser(lens[l], o) /\ fsize = lens[l] /\ Len(out[l]) + (rlen - rpos) = count
        /\ \A i \in 1 .. Len(out[l]) : out[l][i] = <<l, i>>
    BY <1>5 DEF Has, o
  <2>2. count = o
    BY <1>6, <2>1 DEF Lesser
  <2>3. Len(out[l]) \in Nat
    <3>1. out \in Seq(Seq(Bytes)) /\ l \in 1 .. Len(out)
      BY <1>4, <1>5 DEF TypeInv
    <3>2. QED
      BY <3>1, ElementOfSeq, LenProperties
  <2>4. QED
    BY <1>3, <2>1, <2>2, <2>3
<1>8. /\ o + n = Lesser(lens[l], o + Big) /\ o + n <= lens[l] /\ n <= Big
  <2>1. n = IF o + Big > lens[l] THEN lens[l] - o ELSE Big
    BY <1>2, <1>6, <1>7 DEF Cut
  <2>2. QED
    BY <1>6, <2>1 DEF Lesser
<1>9. Has(l)'
  <2>1. Off(pktno)' = o + Big
    <3>1. Off(pktno)' = Off(pktno')
      BY DEF Off
    <3>2. QED
      BY <1>2, <1>6, <3>1
  <2>2. /\ Len(out') = l /\ fsize' = lens'[l] /\ count' = Lesser(lens'[l], Off(pktno)')
    BY <1>2, <1>3, <1>4, <1>7, <1>8, <2>1
  <2>3. Len(out'[l]) + (rlen' - rpos') = count'
    BY <1>2, <1>3, <1>6, <1>7
  <2>4. \A i \in 1 .. Len(out'[l]) : out'[l][i] = <<l, i>>
    BY <1>3, <1>7
  <2>5. ASSUME NEW i \in 0 + 1 .. n PROVE p.data[i] = <<l, o + i - 0>>
    <3>1. i \in 1 .. Len(p.data) /\ o + i <= lens[l] /\ o + i - 0 = o + i
      BY <1>6, <1>8
    <3>2. QED
      BY <1>6, <3>1 DEF Follows
  <2>6. \A i \in rpos' + 1 .. rlen' : rbuf'[i] = <<l, Len(out'[l]) + i - rpos'>>
    BY <1>2, <1>3, <1>7, <2>5
  <2>7. QED
    BY <2>2, <2>3, <2>4, <2>6 DEF Has
<1>10. ASSUME NEW f \in 1 .. l, f < l PROVE Whole(f)'
  <2>1. Whole(f)
    BY <1>4, <1>10 DEF DataOn
  <2>2. QED
    BY <1>3, <2>1 DEF Whole, File
<1>11. DataOn'
  <2>1. Len(out') = l /\ pktno' # 0
    BY <1>2, <1>3, <1>4
  <2>2. Has(Len(out))'
    BY <1>9, <2>1 DEF Has
  <2>3. \A f \in 1 .. Len(out') : f < Len(out') \/ pktno' = 0 => Whole(f)'
    BY <1>10, <2>1
  <2>4. QED
    BY <2>2, <2>3 DEF DataOn
<1>12. QED
  BY <1>1, <1>2, <1>11

LEMMA DataEot ==
    ASSUME TypeInv, FlowInv, LineInv, RecvInv, ~Missing, HandInv, DataOn, Y, RecvEot,
           [Next]_vars
    PROVE  rres' = "run" /\ DataOn'
<1> DEFINE p == line[1]
<1>1. /\ rres = "run" /\ Head(line) = p /\ Meets(p) /\ p.kind = "EOT"
      /\ p.file = Len(out) /\ EotOk(p) /\ (pktno = 0 \/ p.blk = pktno)
  <2>1. rres = "run" /\ Head(line) = p /\ Meets(p)
    BY TakingIs DEF Taking
  <2>2. p.kind = "EOT"
    BY <2>1 DEF RecvEot, Takes
  <2>3. QED
    BY <2>1, <2>2 DEF Meets
<1>2. /\ pktno' = 0 /\ rres' = rres /\ out' = out /\ lens' = lens /\ rpos = rlen
      /\ pktno \in Nat
  BY PlaceSorts DEF RecvEot, Takes, HandInv
<1>3. PICK l \in Nat : l = Len(out)
  BY PlaceSorts
<1>4. ASSUME pktno > 0 PROVE Whole(l)
  <2>1. l \in 1 .. NFiles /\ Has(l) /\ p.file = l /\ Off(pktno) >= lens[l]
    <3>1. l > 0 /\ l <= NFiles
      BY <1>3, <1>4 DEF RecvInv
    <3>2. Has(l)
      BY <1>3, <1>4 DEF DataOn
    <3>3. QED
      BY <1>1, <1>2, <1>3, <1>4, <3>1, <3>2, Sizes DEF EotOk
  <2>2. lens[l] \in Nat /\ Off(pktno) \in Nat
    BY <1>2, <1>4, <2>1, OffIs DEF TypeInv
  <2>3. out[l] \in Seq(Bytes) /\ Len(out[l]) \in Nat /\ rlen \in Nat
    <3>1. out \in Seq(Seq(Bytes)) /\ l \in 1 .. Len(out) /\ rlen \in Nat
      BY <1>3, <2>1, LenProperties DEF TypeInv
    <3>2. QED
      BY <3>1, ElementOfSeq, LenProperties
  <2>4. Len(out[l]) + (rlen - rpos) = Lesser(lens[l], Off(pktno))
        /\ \A i \in 1 .. Len(out[l]) : out[l][i] = <<l, i>>
    BY <2>1 DEF Has
  <2>5. Len(out[l]) = lens[l]
    BY <1>2, <2>1, <2>2, <2>3, <2>4 DEF Lesser
  <2>6. out[l] = File(l)
    BY <2>1, <2>3, <2>4, <2>5, FileIs
  <2>7. QED
    BY <2>1, <2>6, Sizes DEF Whole
<1>5. ASSUME NEW f \in 1 .. Len(out) PROVE Whole(f)
  <2>1. CASE pktno = 0 \/ f < Len(out)
    BY <1>5, <2>1 DEF DataOn
  <2>2. CASE pktno > 0 /\ f = Len(out)
    BY <1>3, <1>4, <2>2
  <2>3. QED
    BY <1>2, <1>3, <2>1, <2>2
<1>6. \A f \in 1 .. Len(out') : Whole(f)'
  BY <1>2, <1>5 DEF Whole, File
<1>7. QED
  BY <1>1, <1>2, <1>6 DEF DataOn

LEMMA DataStep ==
    ASSUME TypeInv, FlowInv, BlkInv, LineInv, OrderInv, HandInv, DataInv, [Next]_vars
    PROVE  DataInv'
<1> SUFFICES ASSUME Y, ~missed', "got" \notin spoilt'
             PROVE  /\ rres' \in {"run", "done"}
                    /\ \A f \in 1 .. Len(out') :
                         f < Len(out') \/ pktno' = 0 \/ rres' = "done" => Whole(f)'
                    /\ rres' = "run" /\ pktno' > 0 => Has(Len(out))'
  BY Same DEF DataInv
<1>1. /\ ~missed /\ ~Missing /\ (rres = "run" => RecvInv)
  BY MissedStep DEF OrderInv
<1>2. "got" \notin spoilt
  BY DEF Next, Sender, Receiver, SendStart, SendLoop, Fill, SendEot, SendTail, SendClose,
         Unsent, Transmit, TransmitAgain, AckedData, AckedOther, Acked, PktFails, Lose,
         RecvHand, RecvCall, RecvTimeout, RecvDuplicate, RecvHeader, RecvData, RecvAstray,
         RecvWrong, RecvEot, vars
<1>3. /\ rres \in {"run", "done"}
      /\ rres = "run" => DataOn
      /\ rres = "done" => \A f \in 1 .. Len(out) : Whole(f)
  BY <1>1, <1>2 DEF DataInv, DataOn
<1>4. CASE RecvHand \/ RecvHeader \/ RecvData \/ RecvEot \/ RecvAstray
  <2>1. rres = "run"
    BY <1>4 DEF RecvHand, RecvHeader, RecvData, RecvEot, RecvAstray, Takes
  <2>2. RecvHand => rres' = "run"
    BY <2>1 DEF RecvHand
  <2>3. \/ rres' = "run" /\ DataOn'
        \/ rres' = "done" /\ \A f \in 1 .. Len(out') : Whole(f)'
    BY <1>1, <1>3, <1>4, <2>1, <2>2, DataHand, DataHeader, DataPacket, DataEot, OrderAstray
  <2>4. QED
    BY <2>3 DEF DataOn
<1>5. CASE ~(RecvHand \/ RecvHeader \/ RecvData \/ RecvEot \/ RecvAstray)
  <2>1. UNCHANGED <<lens, rbuf, rlen, rpos, pktno, fsize, count, rres, out>>
    <3>1. lens' = lens
      BY Same
    <3>2. UNCHANGED <<rbuf, rlen, rpos, pktno, fsize, count, rres, out>>
      BY <1>5 DEF Next, Sender, Receiver, SendStart, SendLoop, Fill, SendEot, SendTail,
           SendClose, Unsent, Transmit, TransmitAgain, AckedData, AckedOther, Acked,
           PktFails, Lose, RecvCall, RecvTimeout, RecvDuplicate, RecvWrong, vars, recvVars
    <3>3. QED
      BY <3>1, <3>2
  <2>2. /\ \A f : Whole(f)' = Whole(f)
        /\ Has(Len(out))' = Has(Len(out))
    <3>1. Off(pktno)' = Off(pktno)
      BY <2>1 DEF Off
    <3>2. \A f : Whole(f)' = Whole(f)
      BY <2>1 DEF Whole, File
    <3>3. QED
      BY <2>1, <3>1, <3>2 DEF Has
  <2>3. QED
    BY <1>3, <2>1, <2>2 DEF DataOn
<1>6. QED
  BY <1>4, <1>5

LEMMA DataGives ==
    ASSUME TypeInv, OrderInv, DataInv PROVE Delivered
<1> SUFFICES ASSUME Y, ~missed, "got" \notin spoilt, NEW f \in 1 .. Len(out)
             PROVE  /\ Len(out[f]) <= lens[f] /\ out[f] = SubSeq(File(f), 1, Len(out[f]))
                    /\ f < Len(out) \/ rres = "done" => out[f] = File(f)
  BY DEF Delivered
<1>1. Len(out) \in Nat /\ pktno \in Nat
  BY PlaceSorts
<1>2. CASE f < Len(out) \/ pktno = 0 \/ rres = "done"
  <2>1. Whole(f)
    BY <1>2 DEF DataInv
  <2>2. f \in 1 .. NFiles /\ out[f] = File(f)
    BY <1>1, <2>1, Sizes DEF Whole
  <2>3. QED
    BY <2>2, WholePrefix
<1>3. CASE ~(f < Len(out) \/ pktno = 0 \/ rres = "done")
  <2>1. f = Len(out) /\ pktno > 0 /\ rres = "run"
    BY <1>1, <1>3 DEF DataInv
  <2>2. Has(f) /\ f <= NFiles
    BY <2>1 DEF DataInv, OrderInv, RecvInv
  <2>3. f \in 1 .. NFiles
    BY <1>1, <2>2, Sizes
  <2>4. QED
    BY <1>3, <2>1, <2>2, <2>3, HasPrefix
<1>4. QED
  BY <1>2, <1>3

\* Whatever the application reads at a time, however often calls fail and are made
\* again, and however late packets and ACKs are: of every file of a batch it gets
\* the first bytes and nothing else, all of them before the next file begins or the
\* batch ends (xmodem_recv_loop, xmodem_send_eot), unless an overwritten packet was
\* received as new or a packet was lost that a late ACK had answered for.
THEOREM BatchDelivered == Spec => []Delivered
<1> DEFINE Inv == /\ TypeInv /\ FlowInv /\ TailInv /\ FrameInv /\ BlkInv /\ LineInv
                  /\ OrderInv /\ HandInv /\ DataInv
<1>1. Init => Inv
  BY FlowInit, TailInit, FrameInit, BlkInit, LineInit, OrderInit, HandInit, DataInit
<1>2. Inv /\ [Next]_vars => Inv'
  BY FlowNext, TailStep, FrameStep, BlkStep, LineStep, OrderStep, HandStep, DataStep
     DEF FlowStep
<1>3. Inv => Delivered
  BY DataGives
<1>4. QED
  BY <1>1, <1>2, <1>3, PTL DEF Spec

=============================================================================

------------------------- MODULE SerialChat_proofs -------------------------
(***************************************************************************)
(* Proofs about SerialChat, for every size of the buffers, every set of    *)
(* characters, patterns, time-outs and settings, and every set of failing  *)
(* system calls.                                                           *)
(***************************************************************************)
EXTENDS SerialChat, SequenceTheorems, TLAPS

\* What most proofs use of the assumptions.
LEMMA Sizes == BufLen \in Nat \ {0} /\ Timeouts \subseteq Nat
BY SerialAssumption

LEMMA WaitSize == WaitMax \in Nat
BY ChatAssumption

USE Sizes

(***************************************************************************)
(* The driver's state keeps its types.                                     *)
(***************************************************************************)

\* A sequence cut in two.
LEMMA Cut ==
    ASSUME NEW S, NEW q \in Seq(S), NEW m \in Nat, NEW n \in Nat,
           m <= n, n <= Len(q)
    PROVE  /\ SubSeq(q, m + 1, n) \in Seq(S)
           /\ Len(SubSeq(q, m + 1, n)) = n - m
           /\ \A i \in 1 .. n - m : SubSeq(q, m + 1, n)[i] = q[m + i]
<1>1. \A i \in m + 1 .. n : q[i] \in S
  BY ElementOfSeq
<1>2. QED
  BY <1>1, SubSeqProperties

LEMMA Prefix ==
    ASSUME NEW S, NEW q \in Seq(S), NEW n \in Nat, n <= Len(q)
    PROVE  /\ SubSeq(q, 1, n) \in Seq(S) /\ Len(SubSeq(q, 1, n)) = n
           /\ \A i \in 1 .. n : SubSeq(q, 1, n)[i] = q[i]
<1>1. /\ SubSeq(q, 0 + 1, n) \in Seq(S) /\ Len(SubSeq(q, 0 + 1, n)) = n - 0
      /\ \A i \in 1 .. n - 0 : SubSeq(q, 0 + 1, n)[i] = q[0 + i]
  BY Cut
<1>2. 0 + 1 = 1 /\ n - 0 = n /\ \A i \in 1 .. n : 0 + i = i
  OBVIOUS
<1>3. QED
  BY <1>1, <1>2

LEMMA Piece ==
    ASSUME NEW S, NEW q \in Seq(S), NEW m \in Nat, NEW n \in Nat, m + n <= Len(q)
    PROVE  /\ SubSeq(q, m + 1, m + n) \in Seq(S) /\ Len(SubSeq(q, m + 1, m + n)) = n
           /\ \A i \in 1 .. n : SubSeq(q, m + 1, m + n)[i] = q[m + i]
<1> DEFINE k == m + n
<1>1. k \in Nat /\ m <= k /\ k - m = n
  OBVIOUS
<1> HIDE DEF k
<1>2. /\ SubSeq(q, m + 1, k) \in Seq(S) /\ Len(SubSeq(q, m + 1, k)) = k - m
      /\ \A i \in 1 .. k - m : SubSeq(q, m + 1, k)[i] = q[m + i]
  <2>1. k <= Len(q)
    BY DEF k
  <2>2. QED
    BY <1>1, <2>1, Cut
<1>3. QED
  BY <1>1, <1>2 DEF k

\* What a call that handed out data returns.
GotOK(r, max) ==
    /\ r \in [code : 1 .. BufLen, data : Seq(Byte)]
    /\ Len(r.data) = r.code /\ r.code <= max

LEMMA HandType ==
    ASSUME NEW r, RxOK(r), r.pos < r.cnt, NEW max \in Nat \ {0},
           taken \in Seq(Byte), Hand(r, max)
    PROVE  RxOK(rx') /\ GotOK(ret', max) /\ taken' = taken \o ret'.data
<1> DEFINE n == Lesser(r.cnt - r.pos, max)
           data == SubSeq(r.buf, r.pos + 1, r.pos + n)
<1>1. /\ r.pos \in Nat /\ r.cnt \in Nat /\ r.buf \in Seq(Byte)
      /\ r.cnt <= BufLen /\ r.cnt <= Len(r.buf)
  BY DEF RxOK
<1>2. n \in 1 .. BufLen /\ n <= r.cnt - r.pos /\ n <= max
  BY <1>1 DEF Lesser
<1>3. data \in Seq(Byte) /\ Len(data) = n
  <2>1. r.pos + n \in Nat /\ r.pos <= r.pos + n /\ r.pos + n <= Len(r.buf)
    BY <1>1, <1>2
  <2>2. QED
    BY SMTT(30), <1>1, <1>2, <2>1, Cut
<1>4. ret' = [code |-> n, data |-> data] /\ taken' = taken \o data
  BY DEF Hand
<1>5. RxOK(rx')
  <2>1. CASE r.pos + n = r.cnt
    <3>1. rx' = [buf |-> <<>>, pos |-> 0, cnt |-> 0]
      BY <2>1 DEF Hand, EmptyRx
    <3>2. QED
      BY <3>1 DEF RxOK
  <2>2. CASE r.pos + n # r.cnt
    <3>1. rx' = [r EXCEPT !.pos = r.pos + n]
      BY <2>2 DEF Hand
    <3> HIDE DEF n
    <3>2. QED
      BY <1>1, <1>2, <2>2, <3>1 DEF RxOK
  <2>3. QED
    BY <2>1, <2>2
<1> HIDE DEF n, data
<1>6. QED
  BY <1>2, <1>3, <1>4, <1>5 DEF GotOK

LEMMA DcbType ==
    ASSUME NEW old \in Dcbs, NEW c \in Configs
    PROVE  Dcb(old, c) \in Dcbs
BY DEF Dcb, Dcbs

\* What RecvData hands to Hand.
FromDevice(n) == [buf |-> SubSeq(rxq, 1, n), pos |-> 0, cnt |-> n]

LEMMA FromDeviceType ==
    ASSUME rxq \in Seq(Byte), NEW n \in 1 .. Lesser(Len(rxq), BufLen)
    PROVE  /\ RxOK(FromDevice(n))
           /\ FromDevice(n).pos < FromDevice(n).cnt
           /\ SubSeq(rxq, n + 1, Len(rxq)) \in Seq(Byte)
<1>1. n \in Nat /\ 1 <= n /\ n <= Len(rxq) /\ n <= BufLen
  BY DEF Lesser
<1>2. SubSeq(rxq, 0 + 1, n) \in Seq(Byte) /\ Len(SubSeq(rxq, 0 + 1, n)) = n
  BY <1>1, Cut
<1>3. SubSeq(rxq, n + 1, Len(rxq)) \in Seq(Byte)
  BY <1>1, Cut
<1>4. QED
  BY <1>1, <1>2, <1>3 DEF RxOK, FromDevice

(***************************************************************************)
(* One lemma per action: it keeps SerialTypeOK.  The actions of the driver *)
(* are those of Application and Device.                                    *)
(***************************************************************************)

LEMMA EmptyOK == RxOK(EmptyRx) /\ NoReq \in [max : Nat \ {0}, tmo : Timeouts \cup {0}]
                 /\ Failure \in [code : -1 .. BufLen, data : Seq(Byte)]
                 /\ Nothing \in [code : -1 .. BufLen, data : Seq(Byte)]
<1>1. RxOK(EmptyRx)
  BY DEF RxOK, EmptyRx
<1>2. NoReq \in [max : Nat \ {0}, tmo : Timeouts \cup {0}]
  BY DEF NoReq
<1>3. Failure \in [code : -1 .. BufLen, data : Seq(Byte)]
  BY DEF Failure
<1>4. Nothing \in [code : -1 .. BufLen, data : Seq(Byte)]
  BY DEF Nothing
<1>5. QED
  BY <1>1, <1>2, <1>3, <1>4

LEMMA OpenType == ASSUME SerialTypeOK, Open PROVE SerialTypeOK'
<1>1. port' \in [tmo : Timeouts \cup {0, FoundTmo}, dcb : Dcbs]
  BY DEF SerialTypeOK, Open
<1>2. drv' \in [tmo : Timeouts \cup {0}, saveTmo : Timeouts \cup {0, FoundTmo},
               dcb : Dcbs, saveDcb : Dcbs]
  BY DEF SerialTypeOK, Open
<1>3. QED
  BY <1>1, <1>2, EmptyOK DEF SerialTypeOK, Open

LEMMA OpenFailsType == ASSUME SerialTypeOK, OpenFails PROVE SerialTypeOK'
<1>1. port' \in [tmo : Timeouts \cup {0, FoundTmo}, dcb : Dcbs]
  BY DEF SerialTypeOK, OpenFails
<1>2. QED
  BY <1>1 DEF SerialTypeOK, OpenFails

LEMMA CloseType == ASSUME SerialTypeOK, Close PROVE SerialTypeOK'
<1>1. PICK okT \in BOOLEAN, okS \in BOOLEAN :
        /\ port' = [tmo |-> IF okT THEN drv.saveTmo ELSE port.tmo,
                    dcb |-> IF okS THEN drv.saveDcb ELSE port.dcb]
        /\ spoiled' = (spoiled \/ ~okT \/ ~okS)
  BY DEF Close
<1>2. port' \in [tmo : Timeouts \cup {0, FoundTmo}, dcb : Dcbs]
      /\ spoiled' \in BOOLEAN
  BY <1>1 DEF SerialTypeOK
<1>3. /\ open' = FALSE /\ rx' = EmptyRx /\ rxq' = <<>> /\ taken' = <<>>
      /\ refused' = {} /\ UNCHANGED <<drv, waiting, req, ret>>
  BY DEF Close
<1>4. RxOK(rx') /\ rxq' \in Seq(Byte) /\ taken' \in Seq(Byte)
  BY <1>3, EmptyOK
<1>5. open' \in BOOLEAN /\ waiting' \in BOOLEAN /\ refused' \subseteq Timeouts
  BY <1>3 DEF SerialTypeOK
<1>6. /\ drv' \in [tmo : Timeouts \cup {0}, saveTmo : Timeouts \cup {0, FoundTmo},
                  dcb : Dcbs, saveDcb : Dcbs]
      /\ req' \in [max : Nat \ {0}, tmo : Timeouts \cup {0}]
      /\ ret' \in [code : -1 .. BufLen, data : Seq(Byte)]
  BY <1>3 DEF SerialTypeOK
<1>7. QED
  BY <1>2, <1>4, <1>5, <1>6 DEF SerialTypeOK

LEMMA ConfSetType ==
    ASSUME SerialTypeOK, NEW c \in Configs, ConfSet(c) PROVE SerialTypeOK'
<1>1. drv.dcb \in Dcbs
  BY DEF SerialTypeOK
<1>2. Dcb(drv.dcb, c) \in Dcbs
  BY <1>1, DcbType
<1>3. /\ port' \in [tmo : Timeouts \cup {0, FoundTmo}, dcb : Dcbs]
      /\ drv' \in [tmo : Timeouts \cup {0}, saveTmo : Timeouts \cup {0, FoundTmo},
                  dcb : Dcbs, saveDcb : Dcbs]
  BY <1>2 DEF SerialTypeOK, ConfSet
<1>4. QED
  BY <1>3, EmptyOK DEF SerialTypeOK, ConfSet

LEMMA RecvType ==
    ASSUME SerialTypeOK, NEW max \in Nat \ {0}, NEW tmo \in Timeouts,
           Recv(max, tmo)
    PROVE  SerialTypeOK'
<1> USE DEF Recv
<1>1. CASE RecvBuffered(max, tmo)
  <2>1. RxOK(rx) /\ rx.pos < rx.cnt /\ taken \in Seq(Byte) /\ Hand(rx, max)
    BY <1>1 DEF RecvBuffered, SerialTypeOK, RxOK
  <2>2. RxOK(rx') /\ GotOK(ret', max) /\ taken' = taken \o ret'.data
    BY <2>1, HandType
  <2>3. ret' \in [code : -1 .. BufLen, data : Seq(Byte)] /\ taken' \in Seq(Byte)
    BY <2>1, <2>2, ConcatProperties DEF GotOK
  <2>4. QED
    BY <1>1, <2>2, <2>3 DEF SerialTypeOK, RecvBuffered
<1>2. CASE RecvIssue(max, tmo)
  <2>1. drv' \in [tmo : Timeouts \cup {0}, saveTmo : Timeouts \cup {0, FoundTmo},
               dcb : Dcbs, saveDcb : Dcbs]
    BY <1>2 DEF SerialTypeOK, RecvIssue
  <2>2. port' \in [tmo : Timeouts \cup {0, FoundTmo}, dcb : Dcbs]
        /\ refused' \subseteq Timeouts
    BY <1>2 DEF SerialTypeOK, RecvIssue
  <2>3. waiting' \in BOOLEAN /\ req' \in [max : Nat \ {0}, tmo : Timeouts \cup {0}]
    <3>1. CASE waiting' = TRUE /\ req' = [max |-> max, tmo |-> tmo]
      BY <3>1
    <3>2. CASE UNCHANGED <<waiting, req>>
      BY <3>2 DEF SerialTypeOK
    <3>3. QED
      BY <1>2, <3>1, <3>2 DEF RecvIssue
  <2>4. ret' \in [code : -1 .. BufLen, data : Seq(Byte)]
    BY <1>2, EmptyOK DEF SerialTypeOK, RecvIssue
  <2>5. QED
    BY <1>2, <2>1, <2>2, <2>3, <2>4 DEF SerialTypeOK, RecvIssue
<1>3. CASE RecvRefused(max, tmo)
  <2>1. drv' \in [tmo : Timeouts \cup {0}, saveTmo : Timeouts \cup {0, FoundTmo},
               dcb : Dcbs, saveDcb : Dcbs]
    BY <1>3 DEF SerialTypeOK, RecvRefused
  <2>2. refused' \subseteq Timeouts
    BY <1>3 DEF RecvRefused
  <2>3. QED
    BY <1>3, <2>1, <2>2, EmptyOK DEF SerialTypeOK, RecvRefused
<1>4. QED
  BY <1>1, <1>2, <1>3

LEMMA ReadEndsType == ASSUME SerialTypeOK, ReadEnds PROVE SerialTypeOK'
<1>1. CASE RecvData
  <2>1. PICK n \in 1 .. Lesser(Len(rxq), BufLen) :
          Hand(FromDevice(n), req.max) /\ rxq' = SubSeq(rxq, n + 1, Len(rxq))
    BY <1>1 DEF RecvData, FromDevice
  <2>2. rxq \in Seq(Byte) /\ req.max \in Nat \ {0} /\ taken \in Seq(Byte)
    BY DEF SerialTypeOK
  <2>3. RxOK(FromDevice(n)) /\ FromDevice(n).pos < FromDevice(n).cnt
        /\ rxq' \in Seq(Byte)
    BY <2>1, <2>2, FromDeviceType
  <2>4. RxOK(rx') /\ GotOK(ret', req.max) /\ taken' = taken \o ret'.data
    BY <2>1, <2>2, <2>3, HandType
  <2>5. ret' \in [code : -1 .. BufLen, data : Seq(Byte)] /\ taken' \in Seq(Byte)
    BY <2>2, <2>4, ConcatProperties DEF GotOK
  <2>6. QED
    BY <1>1, <2>3, <2>4, <2>5, EmptyOK DEF SerialTypeOK, RecvData
<1>2. CASE RecvNothing
  BY <1>2, EmptyOK DEF SerialTypeOK, RecvNothing
<1>3. CASE RecvFails
  BY <1>3, EmptyOK DEF SerialTypeOK, RecvFails
<1>4. QED
  BY <1>1, <1>2, <1>3 DEF ReadEnds

LEMMA ArriveType == ASSUME SerialTypeOK, Arrive PROVE SerialTypeOK'
<1>1. PICK b \in Byte : rxq' = Append(rxq, b)
  BY DEF Arrive
<1>2. rxq' \in Seq(Byte)
  BY <1>1, AppendProperties DEF SerialTypeOK
<1>3. QED
  BY <1>2 DEF SerialTypeOK, Arrive

(***************************************************************************)
(* What the driver remembers and what the device has.  A time-out that the *)
(* driver remembers is the device's or one the device has just refused;    *)
(* what it saved is what the port was found with.                          *)
(***************************************************************************)

Remembered ==
    /\ open => port.tmo = drv.tmo \/ drv.tmo \in refused
    /\ waiting => open /\ drv.tmo = req.tmo /\ rx.cnt = 0
Saved ==
    ~spoiled => /\ open => drv.saveTmo = FoundTmo /\ drv.saveDcb = FoundDcb
                /\ ~open => port = [tmo |-> FoundTmo, dcb |-> FoundDcb]

SettingsInv == Remembered /\ DcbIsCurrent /\ Saved

LEMMA SettingsInit == Init => SettingsInv
BY DEF Init, SerialInit, SettingsInv, Remembered, DcbIsCurrent, Saved

LEMMA SettingsOpen ==
    ASSUME SerialTypeOK, SettingsInv, Open \/ OpenFails \/ Close
    PROVE  SettingsInv'
<1> USE DEF SettingsInv, Remembered, DcbIsCurrent, Saved
<1>1. CASE Open
  BY <1>1 DEF Open, SerialTypeOK
<1>2. CASE OpenFails
  BY <1>2 DEF OpenFails, SerialTypeOK
<1>3. CASE Close
  <2>1. ~waiting /\ ~waiting' /\ ~open' /\ open
    BY <1>3 DEF Close
  <2>2. PICK okT \in BOOLEAN, okS \in BOOLEAN :
          /\ port' = [tmo |-> IF okT THEN drv.saveTmo ELSE port.tmo,
                      dcb |-> IF okS THEN drv.saveDcb ELSE port.dcb]
          /\ spoiled' = (spoiled \/ ~okT \/ ~okS)
    BY <1>3 DEF Close
  <2>3. ~spoiled' => port' = [tmo |-> FoundTmo, dcb |-> FoundDcb]
    BY <2>1, <2>2
  <2>4. QED
    BY <2>1, <2>3
<1>4. QED
  BY <1>1, <1>2, <1>3

LEMMA SettingsConf ==
    ASSUME SerialTypeOK, SettingsInv, NEW c \in Configs, ConfSet(c)
    PROVE  SettingsInv'
BY DEF SettingsInv, Remembered, DcbIsCurrent, Saved, ConfSet, SerialTypeOK

LEMMA SettingsRecv ==
    ASSUME SerialTypeOK, SettingsInv, NEW max, NEW tmo \in Timeouts,
           Recv(max, tmo)
    PROVE  SettingsInv'
<1> USE DEF SettingsInv, Remembered, DcbIsCurrent, Saved, Recv, SerialTypeOK
<1>1. CASE RecvBuffered(max, tmo)
  BY <1>1 DEF RecvBuffered
<1>2. CASE RecvIssue(max, tmo)
  <2>1. drv' = [drv EXCEPT !.tmo = tmo] /\ open' = open /\ spoiled' = spoiled
    BY <1>2 DEF RecvIssue
  <2>2. /\ drv'.tmo = tmo /\ drv'.dcb = drv.dcb /\ drv'.saveTmo = drv.saveTmo
        /\ drv'.saveDcb = drv.saveDcb
    BY <2>1
  <2>3. port'.dcb = port.dcb /\ (port'.tmo = tmo \/ tmo \in refused')
    BY <1>2 DEF RecvIssue
  <2>4. waiting' => req'.tmo = tmo
    <3>1. CASE req' = [max |-> max, tmo |-> tmo]
      BY <3>1
    <3>2. CASE UNCHANGED <<waiting, req>>
      BY <3>2
    <3>3. QED
      BY <1>2, <3>1, <3>2 DEF RecvIssue
  <2>5. open /\ rx'.cnt = 0
    BY <1>2 DEF RecvIssue
  <2>6. Remembered'
    BY <2>1, <2>2, <2>3, <2>4, <2>5
  <2>7. DcbIsCurrent'
    BY <2>2, <2>3, <2>5
  <2>8. Saved'
    BY <2>1, <2>2, <2>5
  <2>9. QED
    BY <2>6, <2>7, <2>8
<1>3. CASE RecvRefused(max, tmo)
  BY <1>3 DEF RecvRefused
<1>4. QED
  BY <1>1, <1>2, <1>3

LEMMA SettingsDevice ==
    ASSUME SettingsInv, Arrive \/ ReadEnds PROVE SettingsInv'
BY DEF SettingsInv, Remembered, DcbIsCurrent, Saved, Arrive, ReadEnds, RecvData,
       RecvNothing, RecvFails

LEMMA SettingsKept ==
    ASSUME SettingsInv, UNCHANGED <<open, port, drv, rx, waiting, req, refused, spoiled>>
    PROVE  SettingsInv'
BY DEF SettingsInv, Remembered, DcbIsCurrent, Saved


(***************************************************************************)
(* Sequences as serial_chat compares them, element by element.  n is how   *)
(* much of the pattern p the bytes h have matched.                         *)
(***************************************************************************)

\* The last n bytes heard are the first n of p.
Suffix(h, p, n) ==
    n <= Len(h) /\ \A j \in 1 .. n : p[j] = h[Len(h) - n + j]

\* Nothing but a beginning of p follows the first k bytes of h, which do not
\* contain its first character.
Begins(h, p, k) ==
    /\ \A j \in 1 .. k : h[j] # p[1]
    /\ \A j \in 1 .. Len(h) - k : j <= Len(p) /\ h[k + j] = p[j]

\* If p has begun that way, exactly the bytes behind k have been matched.
Follows(h, p, n) ==
    p # <<>> => \A k \in 0 .. Len(h) : Begins(h, p, k) => n = Len(h) - k

\* p follows the first k bytes, which do not contain its first character.
OccursAt(h, p, k) ==
    /\ \A j \in 1 .. k : h[j] # p[1]
    /\ \A j \in 1 .. Len(p) : h[k + j] = p[j]
Occurs(h, p) == p # <<>> /\ \E k \in 0 .. Len(h) - Len(p) : OccursAt(h, p, k)

LEMMA EndsWithSuffix ==
    ASSUME NEW S, NEW h \in Seq(S), NEW p \in Seq(S), NEW n \in 0 .. Len(p)
    PROVE  EndsWith(h, SubSeq(p, 1, n)) <=> Suffix(h, p, n)
<1> DEFINE q == SubSeq(p, 1, n)
<1>1. q \in Seq(S) /\ Len(q) = n /\ \A i \in 1 .. n : q[i] = p[i]
  BY Prefix
<1> SUFFICES EndsWith(h, q) <=> Suffix(h, p, n)
  OBVIOUS
<1> HIDE DEF q
<1>2. CASE n > Len(h)
  BY <1>1, <1>2 DEF EndsWith, Suffix
<1>3. CASE n <= Len(h)
  <2> DEFINE t == SubSeq(h, Len(h) - n + 1, Len(h))
  <2>1. t \in Seq(S) /\ Len(t) = n /\ \A i \in 1 .. n : t[i] = h[Len(h) - n + i]
    BY <1>3, Cut
  <2> HIDE DEF t
  <2>2. EndsWith(h, q) <=> t = q
    BY <1>1, <1>3 DEF EndsWith, t
  <2>3. t = q <=> \A i \in 1 .. n : t[i] = q[i]
    BY <1>1, <2>1, SeqEqual
  <2>4. Suffix(h, p, n) <=> \A i \in 1 .. n : t[i] = q[i]
    BY <1>1, <1>3, <2>1 DEF Suffix
  <2>5. QED
    BY <2>2, <2>3, <2>4
<1>4. QED
  BY <1>2, <1>3

\* What a character adds to what was heard.
LEMMA Longer ==
    ASSUME NEW S, NEW h \in Seq(S), NEW c \in S
    PROVE  /\ h \o <<c>> \in Seq(S) /\ Len(h \o <<c>>) = Len(h) + 1
           /\ \A j \in 1 .. Len(h) : (h \o <<c>>)[j] = h[j]
           /\ (h \o <<c>>)[Len(h) + 1] = c
<1>1. <<c>> \in Seq(S) /\ Len(<<c>>) = 1
  OBVIOUS
<1>2. QED
  BY <1>1, ConcatProperties

Continued(p, n, c) == IF p[n + 1] = c THEN n + 1 ELSE 0

LEMMA SuffixNext ==
    ASSUME NEW S, NEW h \in Seq(S), NEW p \in Seq(S), NEW n \in Nat, NEW c \in S,
           n < Len(p), Suffix(h, p, n)
    PROVE  Suffix(h \o <<c>>, p, Continued(p, n, c))
<1> DEFINE g == h \o <<c>>
<1>1. /\ g \in Seq(S) /\ Len(g) = Len(h) + 1
      /\ \A j \in 1 .. Len(h) : g[j] = h[j]
      /\ g[Len(h) + 1] = c
  BY Longer
<1>2. Suffix(g, p, 0)
  BY <1>1 DEF Suffix
<1>3. ASSUME p[n + 1] = c PROVE Suffix(g, p, n + 1)
  <2> HIDE DEF g
  <2>1. n + 1 <= Len(g)
    BY <1>1 DEF Suffix
  <2>2. ASSUME NEW j \in 1 .. n + 1 PROVE p[j] = g[Len(g) - (n + 1) + j]
    <3>1. CASE j = n + 1
      BY <1>1, <1>3, <3>1 DEF Suffix
    <3>2. CASE j \in 1 .. n
      <4>1. p[j] = h[Len(h) - n + j]
        BY <3>2 DEF Suffix
      <4>2. Len(h) - n + j \in 1 .. Len(h) /\ Len(g) - (n + 1) + j = Len(h) - n + j
        BY <1>1, <3>2 DEF Suffix
      <4>3. QED
        BY <1>1, <4>1, <4>2
    <3>3. QED
      BY <3>1, <3>2
  <2>3. QED
    BY <2>1, <2>2 DEF Suffix
<1>4. QED
  BY <1>2, <1>3 DEF Continued

LEMMA FollowsNext ==
    ASSUME NEW S, NEW h \in Seq(S), NEW p \in Seq(S), NEW n \in Nat, NEW c \in S,
           n < Len(p), Follows(h, p, n)
    PROVE  Follows(h \o <<c>>, p, Continued(p, n, c))
<1> DEFINE g == h \o <<c>>
<1>1. /\ g \in Seq(S) /\ Len(g) = Len(h) + 1
      /\ \A j \in 1 .. Len(h) : g[j] = h[j]
      /\ g[Len(h) + 1] = c
  BY Longer
<1> HIDE DEF g
<1>2. SUFFICES ASSUME p # <<>>, NEW k \in 0 .. Len(g), Begins(g, p, k)
               PROVE  Continued(p, n, c) = Len(g) - k
  BY DEF Follows, g
<1>3. CASE k = Len(g)
  <2>1. \A j \in 1 .. Len(h) : h[j] # p[1]
    BY <1>1, <1>2, <1>3 DEF Begins
  <2>2. Begins(h, p, Len(h))
    BY <2>1 DEF Begins
  <2>3. n = 0
    BY <1>2, <2>2 DEF Follows
  <2>4. c # p[1]
    BY <1>1, <1>2, <1>3 DEF Begins
  <2>5. QED
    BY <1>1, <1>3, <2>3, <2>4 DEF Continued
<1>4. CASE k \in 0 .. Len(h)
  <2>1. \A j \in 1 .. k : h[j] # p[1]
    BY <1>1, <1>2, <1>4 DEF Begins
  <2>2. ASSUME NEW j \in 1 .. Len(h) - k PROVE j <= Len(p) /\ h[k + j] = p[j]
    <3>1. j \in 1 .. Len(g) - k /\ k + j \in 1 .. Len(h)
      BY <1>1, <1>4
    <3>2. QED
      BY <1>1, <1>2, <3>1 DEF Begins
  <2>3. n = Len(h) - k
    BY <1>2, <1>4, <2>1, <2>2 DEF Follows, Begins
  <2>4. g[k + (n + 1)] = p[n + 1]
    <3>1. n + 1 \in 1 .. Len(g) - k
      BY <1>1, <1>4, <2>3
    <3>2. QED
      BY <1>2, <3>1 DEF Begins
  <2>5. QED
    BY <1>1, <1>4, <2>3, <2>4 DEF Continued
<1>5. QED
  BY <1>1, <1>3, <1>4

LEMMA OccursNext ==
    ASSUME NEW S, NEW h \in Seq(S), NEW p \in Seq(S), NEW m \in Nat, NEW c \in S,
           ~Occurs(h, p), Occurs(h \o <<c>>, p), Follows(h \o <<c>>, p, m)
    PROVE  m = Len(p)
<1> DEFINE g == h \o <<c>>
<1>1. /\ g \in Seq(S) /\ Len(g) = Len(h) + 1
      /\ \A j \in 1 .. Len(h) : g[j] = h[j]
  BY Longer
<1> HIDE DEF g
<1>2. PICK k \in 0 .. Len(g) - Len(p) : p # <<>> /\ OccursAt(g, p, k)
  BY DEF Occurs, g
<1>3. Len(p) \in Nat \ {0}
  BY <1>2, EmptySeq
<1>4. k + Len(p) = Len(g)
  <2>1. SUFFICES ASSUME k + Len(p) < Len(g) PROVE FALSE
    BY <1>1, <1>2, <1>3
  <2>2. k \in 0 .. Len(h) - Len(p)
    BY <1>1, <1>3, <2>1
  <2>3. \A j \in 1 .. k : h[j] # p[1]
    BY <1>1, <1>2, <1>3, <2>2 DEF OccursAt
  <2>4. ASSUME NEW j \in 1 .. Len(p) PROVE h[k + j] = p[j]
    <3>1. k + j \in 1 .. Len(h)
      BY <1>3, <2>2
    <3>2. QED
      BY <1>1, <1>2, <3>1 DEF OccursAt
  <2>5. QED
    BY <1>2, <2>2, <2>3, <2>4 DEF Occurs, OccursAt
<1>5. Begins(g, p, k)
  BY <1>1, <1>2, <1>3, <1>4 DEF OccursAt, Begins
<1>6. QED
  BY <1>1, <1>2, <1>3, <1>4, <1>5 DEF Follows, g

LEMMA FreshOccurs ==
    ASSUME heard \in Seq(Byte), NEW p \in Seq(Byte), Fresh(p)
    PROVE  Occurs(heard, p)
<1>1. PICK k \in 0 .. Len(heard) - Len(p) :
        /\ SubSeq(heard, k + 1, k + Len(p)) = p
        /\ \A j \in 1 .. k : heard[j] # p[1]
  BY DEF Fresh
<1>2. \A i \in 1 .. Len(p) : SubSeq(heard, k + 1, k + Len(p))[i] = heard[k + i]
  BY <1>1, Cut
<1>3. OccursAt(heard, p, k)
  BY <1>1, <1>2 DEF OccursAt
<1>4. QED
  BY <1>1, <1>3 DEF Fresh, Occurs


(***************************************************************************)
(* The inductive invariant.  CallInv says how far serial_chat has come and *)
(* what its last read has brought; MatchInv what it has matched.           *)
(***************************************************************************)

\* Outside of a call there is no pattern; within one, the call reads on only
\* as long as no pattern is matched, one byte at a time.
CallInv ==
    /\ Len(rval) <= WaitMax
    /\ pc = "idle" => heard = <<>> /\ cret = 0 /\ rval = <<>>
    /\ pc = "loop" => cret = 0
    /\ pc = "wait" => Matched = {} /\ cret = 0
    /\ pc = "wait" /\ waiting => req.max = 1
    /\ pc = "wait" /\ ~waiting /\ ret.code > 0 => Len(ret.data) = 1
    /\ cret > 0 => cret \in Matched

\* The bytes heard are the last ones the driver handed out, but for the byte
\* that a read has just brought.
HeardInv ==
    IF pc = "wait" /\ ~waiting /\ ret.code > 0
      THEN EndsWith(taken, heard \o ret.data)
      ELSE EndsWith(taken, heard)

MatchInv ==
    \A i \in Patterns :
        /\ Suffix(heard, rval[i], pos[i])
        /\ Follows(heard, rval[i], pos[i])
        /\ pc = "loop" /\ Occurs(heard, rval[i]) => i \in Matched
        /\ pc = "wait" \/ (pc = "done" /\ cret <= 0) => ~Occurs(heard, rval[i])

IInv == TypeOK /\ SettingsInv /\ CallInv /\ HeardInv /\ MatchInv

LEMMA EndsWithNothing == ASSUME NEW S, NEW s \in Seq(S) PROVE EndsWith(s, <<>>)
BY SubSeqEmpty DEF EndsWith

LEMMA EndsWithConcat ==
    ASSUME NEW S, NEW s \in Seq(S), NEW t \in Seq(S), NEW d \in Seq(S),
           EndsWith(s, t)
    PROVE  EndsWith(s \o d, t \o d)
<1> DEFINE sd == s \o d
           td == t \o d
           m == Len(s) - Len(t)
           q == SubSeq(sd, m + 1, Len(sd))
<1>1. /\ sd \in Seq(S) /\ Len(sd) = Len(s) + Len(d)
      /\ \A i \in 1 .. Len(s) + Len(d) :
            sd[i] = IF i <= Len(s) THEN s[i] ELSE d[i - Len(s)]
  BY ConcatProperties
<1>2. /\ td \in Seq(S) /\ Len(td) = Len(t) + Len(d)
      /\ \A i \in 1 .. Len(t) + Len(d) :
            td[i] = IF i <= Len(t) THEN t[i] ELSE d[i - Len(t)]
  BY ConcatProperties
<1>3. /\ m \in Nat /\ m <= Len(s) /\ Len(t) = Len(s) - m
      /\ SubSeq(s, m + 1, Len(s)) = t
  BY DEF EndsWith
<1>4. \A i \in 1 .. Len(t) : t[i] = s[m + i]
  BY <1>3, Cut
<1> HIDE DEF sd, td, m
<1>5. m <= Len(sd) /\ Len(sd) \in Nat
  BY <1>1, <1>3
<1>6. q \in Seq(S) /\ Len(q) = Len(sd) - m /\ \A i \in 1 .. Len(sd) - m : q[i] = sd[m + i]
  BY <1>1, <1>3, <1>5, Cut
<1> HIDE DEF q
<1>7. Len(q) = Len(td)
  BY SMTT(30), <1>1, <1>2, <1>3, <1>6
<1>8. ASSUME NEW i \in 1 .. Len(td) PROVE q[i] = td[i]
  BY <1>1, <1>2, <1>3, <1>4, <1>6, <1>7
<1>9. q = td
  BY <1>2, <1>6, <1>7, <1>8, SeqEqual
<1>10. Len(td) <= Len(sd) /\ m = Len(sd) - Len(td)
  BY <1>1, <1>2, <1>3
<1>11. QED
  BY <1>9, <1>10 DEF EndsWith, q, sd, td

LEMMA ChatInit == Init => IInv
<1> SUFFICES ASSUME Init PROVE IInv
  OBVIOUS
<1> USE DEF Init
<1>1. SerialTypeOK
  <2>1. FoundDcb \in Dcbs
    BY SerialAssumption DEF Dcbs
  <2>2. port \in [tmo : Timeouts \cup {0, FoundTmo}, dcb : Dcbs]
    BY <2>1 DEF SerialInit
  <2>3. drv \in [tmo : Timeouts \cup {0}, saveTmo : Timeouts \cup {0, FoundTmo},
                 dcb : Dcbs, saveDcb : Dcbs]
    BY <2>1 DEF SerialInit
  <2>4. /\ rx = EmptyRx /\ rxq = <<>> /\ taken = <<>> /\ req = NoReq
        /\ ret = Nothing /\ refused = {}
        /\ open = FALSE /\ waiting = FALSE /\ spoiled = FALSE
    BY DEF SerialInit
  <2>5. /\ RxOK(rx) /\ req \in [max : Nat \ {0}, tmo : Timeouts \cup {0}]
        /\ ret \in [code : -1 .. BufLen, data : Seq(Byte)]
    BY <2>4, EmptyOK
  <2>6. /\ open \in BOOLEAN /\ waiting \in BOOLEAN /\ spoiled \in BOOLEAN
        /\ rxq \in Seq(Byte) /\ taken \in Seq(Byte) /\ refused \subseteq Timeouts
    BY <2>4, EmptySeq
  <2>7. QED
    BY <2>2, <2>3, <2>5, <2>6 DEF SerialTypeOK
<1>2. TypeOK
  BY <1>1, ChatAssumption DEF TypeOK, SerialInit, Patterns
<1>3. SettingsInv
  BY SettingsInit
<1>4. CallInv
  <2>1. Len(rval) = 0 /\ ~(cret > 0)
    OBVIOUS
  <2>2. QED
    BY <2>1, WaitSize DEF CallInv
<1>5. HeardInv
  <2>1. EndsWith(taken, <<>>)
    BY <1>1, EndsWithNothing DEF SerialTypeOK
  <2>2. QED
    BY <2>1 DEF HeardInv
<1>6. MatchInv
  <2>1. Patterns = {}
    BY DEF Patterns
  <2>2. QED
    BY <2>1 DEF MatchInv
<1>7. QED
  BY <1>2, <1>3, <1>4, <1>5, <1>6 DEF IInv


(***************************************************************************)
(* The driver's and the application's steps.                               *)
(***************************************************************************)

\* The part of the state that only serial_chat changes.
LEMMA ChatKept ==
    ASSUME TypeOK, SerialTypeOK', UNCHANGED chatVars,
           waiting' => waiting \/ pc = "idle"
    PROVE  TypeOK'
BY DEF TypeOK, chatVars, Patterns

\* Outside of a call nothing is matched and nothing heard.
LEMMA IdleKept ==
    ASSUME IInv, SerialTypeOK', pc = "idle", UNCHANGED chatVars
    PROVE  CallInv' /\ HeardInv' /\ MatchInv'
<1> USE DEF chatVars
<1>1. taken' \in Seq(Byte)
  BY DEF SerialTypeOK
<1>2. heard = <<>> /\ cret = 0 /\ rval = <<>>
  BY DEF IInv, CallInv
<1>3. CallInv'
  BY <1>2, WaitSize DEF IInv, CallInv, Matched, Patterns
<1>4. HeardInv'
  BY <1>1, <1>2, EndsWithNothing DEF HeardInv
<1>5. MatchInv'
  <2>1. Patterns' = {}
    BY <1>2 DEF Patterns
  <2>2. QED
    BY <2>1 DEF MatchInv
<1>6. QED
  BY <1>3, <1>4, <1>5

LEMMA ApplicationStep == ASSUME IInv, Application PROVE IInv'
<1>1. SerialTypeOK /\ SettingsInv /\ pc = "idle" /\ UNCHANGED chatVars
  BY DEF IInv, TypeOK, Application
<1>2. SerialTypeOK' /\ SettingsInv'
  <2>1. CASE Open \/ OpenFails \/ Close
    BY <1>1, <2>1, OpenType, OpenFailsType, CloseType, SettingsOpen
  <2>2. CASE \E cfg \in Configs : ConfSet(cfg)
    BY <1>1, <2>2, ConfSetType, SettingsConf
  <2>3. CASE \E max \in 1 .. BufLen, tmo \in Timeouts : Recv(max, tmo)
    <3>1. PICK max \in 1 .. BufLen, tmo \in Timeouts : Recv(max, tmo)
      BY <2>3
    <3>2. max \in Nat \ {0}
      OBVIOUS
    <3>3. QED
      BY <1>1, <3>1, <3>2, RecvType, SettingsRecv
  <2>4. QED
    BY <2>1, <2>2, <2>3 DEF Application
<1>3. TypeOK'
  BY <1>1, <1>2, ChatKept DEF IInv
<1>4. QED
  BY <1>1, <1>2, <1>3, IdleKept DEF IInv

LEMMA DeviceStep == ASSUME IInv, Device PROVE IInv'
<1>1. SerialTypeOK /\ SettingsInv /\ UNCHANGED chatVars
  BY DEF IInv, TypeOK, Device
<1>2. SerialTypeOK' /\ SettingsInv'
  BY <1>1, ArriveType, ReadEndsType, SettingsDevice DEF Device
<1>3. waiting' => waiting
  BY DEF Device, Arrive, ReadEnds, RecvData, RecvNothing, RecvFails
<1>4. TypeOK'
  BY <1>1, <1>2, <1>3, ChatKept DEF IInv
<1>5. MatchInv'
  BY <1>1 DEF IInv, MatchInv, chatVars, Patterns, Matched
<1>6. CASE ~waiting
  <2>1. UNCHANGED <<waiting, req, ret, taken>>
    BY <1>6 DEF Device, Arrive, ReadEnds, RecvData, RecvNothing, RecvFails
  <2>2. CallInv' /\ HeardInv'
    BY <1>1, <2>1 DEF IInv, CallInv, HeardInv, chatVars, Patterns, Matched
  <2>3. QED
    BY <1>2, <1>4, <1>5, <2>2 DEF IInv
<1>7. CASE waiting /\ pc # "idle"
  <2>1. pc = "wait" /\ pc' = "wait" /\ req.max = 1 /\ EndsWith(taken, heard)
    BY <1>1, <1>7 DEF IInv, TypeOK, CallInv, HeardInv, chatVars
  <2>2. CASE Arrive
    <3>1. UNCHANGED <<waiting, req, ret, taken>>
      BY <2>2 DEF Arrive
    <3>2. CallInv' /\ HeardInv'
      BY <1>1, <3>1 DEF IInv, CallInv, HeardInv, chatVars, Patterns, Matched
    <3>3. QED
      BY <1>2, <1>4, <1>5, <3>2 DEF IInv
  <2>3. CASE RecvNothing \/ RecvFails
    <3>1. ~waiting' /\ ~(ret'.code > 0) /\ taken' = taken
      BY <2>3 DEF RecvNothing, RecvFails, Nothing, Failure
    <3>2. CallInv'
      BY <1>1, <3>1 DEF IInv, CallInv, chatVars, Patterns, Matched
    <3>3. HeardInv'
      BY <1>1, <2>1, <3>1 DEF HeardInv, chatVars
    <3>4. QED
      BY <1>2, <1>4, <1>5, <3>2, <3>3 DEF IInv
  <2>4. CASE RecvData
    <3>1. PICK n \in 1 .. Lesser(Len(rxq), BufLen) : Hand(FromDevice(n), req.max)
      BY <2>4 DEF RecvData, FromDevice
    <3>2. /\ rxq \in Seq(Byte) /\ taken \in Seq(Byte) /\ heard \in Seq(Byte)
          /\ 1 \in Nat \ {0}
      BY DEF IInv, TypeOK, SerialTypeOK
    <3>3. GotOK(ret', 1) /\ taken' = taken \o ret'.data
      BY <2>1, <3>1, <3>2, FromDeviceType, HandType
    <3>4. /\ ret'.code > 0 /\ Len(ret'.data) = 1 /\ ret'.data \in Seq(Byte)
          /\ ~waiting'
      BY <2>4, <3>3 DEF GotOK, RecvData
    <3>5. CallInv'
      BY <1>1, <3>4 DEF IInv, CallInv, chatVars, Patterns, Matched
    <3>6. EndsWith(taken \o ret'.data, heard \o ret'.data)
      BY <2>1, <3>2, <3>4, EndsWithConcat
    <3>7. HeardInv'
      BY <1>1, <2>1, <3>3, <3>4, <3>6 DEF HeardInv, chatVars
    <3>8. QED
      BY <1>2, <1>4, <1>5, <3>5, <3>7 DEF IInv
  <2>5. QED
    BY <2>2, <2>3, <2>4 DEF Device, ReadEnds
<1>8. CASE pc = "idle"
  BY <1>1, <1>2, <1>4, <1>8, IdleKept DEF IInv
<1>9. QED
  BY <1>6, <1>7, <1>8


(***************************************************************************)
(* The steps of serial_chat.                                               *)
(***************************************************************************)

\* What a step that leaves the driver alone has to show.
LEMMA DriverKept ==
    ASSUME IInv, UNCHANGED <<open, port, drv, rx, rxq, waiting, req, taken,
                             refused, spoiled>>,
           ret' \in [code : -1 .. BufLen, data : Seq(Byte)]
    PROVE  SerialTypeOK' /\ SettingsInv'
<1>1. SerialTypeOK'
  BY DEF IInv, TypeOK, SerialTypeOK
<1>2. QED
  BY <1>1, SettingsKept DEF IInv

LEMMA ChatSendStep == ASSUME IInv, ChatSend PROVE IInv'
<1>1. PICK list \in WaitLists, sent \in SendResults(1) :
        /\ rval' = SubSeq(list, 1, Lesser(Len(list), WaitMax))
        /\ pc' = IF sent < 0 THEN "done" ELSE "loop"
        /\ cret' = IF sent < 0 THEN sent ELSE 0
  BY DEF ChatSend
<1>2. /\ pc = "idle" /\ open /\ ~waiting /\ heard = <<>> /\ heard' = <<>>
      /\ UNCHANGED serialVars
  BY DEF ChatSend, IInv, CallInv
<1>3. rval' \in Seq(Seq(Byte)) /\ Len(rval') <= WaitMax
  <2>1. list \in Seq(Seq(Byte)) /\ WaitMax \in Nat
    BY ChatAssumption
  <2>2. Lesser(Len(list), WaitMax) \in Nat /\ Lesser(Len(list), WaitMax) <= Len(list)
        /\ Lesser(Len(list), WaitMax) <= WaitMax
    BY <2>1 DEF Lesser
  <2>3. QED
    BY <1>1, <2>1, <2>2, Cut
<1>4. SerialTypeOK' /\ SettingsInv'
  BY <1>2, DriverKept DEF serialVars, IInv, TypeOK, SerialTypeOK
<1>5. pos' = [i \in 1 .. Len(rval') |-> 0]
  BY <1>3, LenProperties DEF ChatSend
<1>6. cret' \in {-1, 0} /\ pc' \in {"done", "loop"} /\ (pc' = "loop" => cret' = 0)
  BY <1>1 DEF SendResults
<1>7. TypeOK'
  BY <1>2, <1>3, <1>4, <1>5, <1>6, WaitSize DEF TypeOK, Patterns, serialVars
<1>8. CallInv'
  BY <1>2, <1>3, <1>6 DEF CallInv, serialVars
<1>9. HeardInv'
  <2>1. taken' \in Seq(Byte)
    BY <1>4 DEF SerialTypeOK
  <2>2. QED
    BY <1>2, <1>6, <2>1, EndsWithNothing DEF HeardInv
<1>10. MatchInv'
  <2>1. SUFFICES ASSUME NEW i \in Patterns'
                 PROVE  /\ Suffix(<<>>, rval'[i], 0) /\ Follows(<<>>, rval'[i], 0)
                        /\ ~Occurs(<<>>, rval'[i])
    BY <1>2, <1>5, <1>6 DEF MatchInv, Patterns
  <2>2. rval'[i] \in Seq(Byte)
    BY <1>3, ElementOfSeq DEF Patterns
  <2>3. Len(<<>>) = 0
    OBVIOUS
  <2>4. Suffix(<<>>, rval'[i], 0) /\ Follows(<<>>, rval'[i], 0)
    BY <2>3 DEF Suffix, Follows
  <2>5. ~Occurs(<<>>, rval'[i])
    BY <2>2, <2>3, EmptySeq DEF Occurs
  <2>6. QED
    BY <2>4, <2>5
<1>11. QED
  BY <1>4, <1>7, <1>8, <1>9, <1>10 DEF IInv

LEMMA ChatFoundStep == ASSUME IInv, ChatFound PROVE IInv'
<1>1. PICK i \in Matched : pc' = "done" /\ cret' = i
  BY DEF ChatFound, Finish
<1>2. pc = "loop" /\ UNCHANGED <<serialVars, rval, pos, heard>>
  BY DEF ChatFound
<1>3. i \in Nat /\ 1 <= i /\ i <= WaitMax /\ i \in Patterns /\ Len(rval) \in Nat
  BY <1>1, WaitSize DEF Matched, Patterns, IInv, CallInv, TypeOK
<1>4. SerialTypeOK' /\ SettingsInv'
  BY <1>2, DriverKept DEF serialVars, IInv, TypeOK, SerialTypeOK
<1>5. TypeOK'
  BY <1>1, <1>2, <1>3, <1>4, WaitSize DEF TypeOK, Patterns, IInv, serialVars
<1>6. CallInv'
  BY <1>1, <1>2, <1>3 DEF CallInv, Matched, Patterns, IInv
<1>7. HeardInv'
  BY <1>1, <1>2 DEF HeardInv, IInv, serialVars
<1>8. MatchInv'
  BY <1>1, <1>2, <1>3 DEF MatchInv, IInv, Patterns
<1>9. QED
  BY <1>4, <1>5, <1>6, <1>7, <1>8 DEF IInv

LEMMA ChatReturnStep == ASSUME IInv, ChatReturn PROVE IInv'
<1> USE DEF ChatReturn
<1>1. SerialTypeOK' /\ SettingsInv'
  BY DriverKept DEF serialVars, IInv, TypeOK, SerialTypeOK
<1>2. Patterns' = {}
  BY DEF Patterns
<1>3. TypeOK'
  BY <1>1, <1>2, WaitSize DEF TypeOK, IInv, serialVars
<1>4. CallInv'
  <2>1. Len(rval') = 0 /\ ~(cret' > 0)
    OBVIOUS
  <2>2. QED
    BY <2>1, WaitSize DEF CallInv
<1>5. HeardInv'
  BY <1>1, EndsWithNothing DEF HeardInv, SerialTypeOK
<1>6. MatchInv'
  BY <1>2 DEF MatchInv
<1>7. QED
  BY <1>1, <1>3, <1>4, <1>5, <1>6 DEF IInv


\* A call of recv has handed out data, has failed or waits.
LEMMA RecvGives ==
    ASSUME SerialTypeOK, NEW max \in Nat \ {0}, NEW tmo, Recv(max, tmo)
    PROVE  \/ ~waiting' /\ GotOK(ret', max) /\ taken' = taken \o ret'.data
           \/ ~waiting' /\ ret' = Failure /\ taken' = taken
           \/ waiting' /\ req'.max = max /\ taken' = taken
<1>1. open /\ ~waiting /\ taken \in Seq(Byte)
  BY DEF Recv, SerialTypeOK
<1>2. CASE RecvBuffered(max, tmo)
  <2>1. RxOK(rx) /\ rx.pos < rx.cnt /\ Hand(rx, max) /\ waiting' = waiting
    BY <1>2 DEF RecvBuffered, SerialTypeOK, RxOK
  <2>2. QED
    BY <1>1, <2>1, HandType
<1>3. CASE RecvIssue(max, tmo)
  <2>1. CASE waiting' = TRUE /\ req' = [max |-> max, tmo |-> tmo]
    BY <1>3, <2>1 DEF RecvIssue
  <2>2. CASE ret' = Failure /\ UNCHANGED <<waiting, req>>
    BY <1>1, <1>3, <2>2 DEF RecvIssue
  <2>3. QED
    BY <1>3, <2>1, <2>2 DEF RecvIssue
<1>4. CASE RecvRefused(max, tmo)
  BY <1>1, <1>4 DEF RecvRefused
<1>5. QED
  BY <1>2, <1>3, <1>4 DEF Recv

LEMMA ChatReadStep == ASSUME IInv, ChatRead PROVE IInv'
<1>1. /\ pc = "loop" /\ Matched = {} /\ Recv(1, ChatTmo) /\ pc' = "wait"
      /\ UNCHANGED <<rval, pos, heard, cret>>
  BY DEF ChatRead
<1>2. ChatTmo \in Timeouts /\ 1 \in Nat \ {0}
  BY ChatAssumption
<1>3. SerialTypeOK /\ SettingsInv /\ heard \in Seq(Byte) /\ taken \in Seq(Byte)
      /\ EndsWith(taken, heard)
  BY <1>1 DEF IInv, TypeOK, SerialTypeOK, HeardInv
<1>4. SerialTypeOK' /\ SettingsInv'
  BY <1>1, <1>2, <1>3, RecvType, SettingsRecv
<1>5. TypeOK'
  BY <1>1, <1>4 DEF IInv, TypeOK, Patterns
<1>6. \/ ~waiting' /\ GotOK(ret', 1) /\ taken' = taken \o ret'.data
      \/ ~waiting' /\ ret' = Failure /\ taken' = taken
      \/ waiting' /\ req'.max = 1 /\ taken' = taken
  BY <1>1, <1>2, <1>3, RecvGives
<1>7. CallInv'
  <2>1. waiting' => req'.max = 1
    BY <1>6
  <2>2. ~waiting' /\ ret'.code > 0 => Len(ret'.data) = 1
    <3>1. GotOK(ret', 1) => Len(ret'.data) = 1
      BY DEF GotOK
    <3>2. ret' = Failure => ~(ret'.code > 0)
      BY DEF Failure
    <3>3. QED
      BY <1>6, <3>1, <3>2
  <2>3. Matched' = {} /\ cret' = 0 /\ Len(rval') <= WaitMax
    BY <1>1 DEF IInv, CallInv, Matched, Patterns
  <2>4. QED
    BY <1>1, <2>1, <2>2, <2>3 DEF CallInv
<1>8. HeardInv'
  <2>1. CASE ~waiting' /\ GotOK(ret', 1) /\ taken' = taken \o ret'.data
    <3>1. ret'.code > 0 /\ ret'.data \in Seq(Byte)
      BY <2>1 DEF GotOK
    <3>2. EndsWith(taken', heard' \o ret'.data)
      BY <1>1, <1>3, <2>1, <3>1, EndsWithConcat
    <3>3. QED
      BY <1>1, <2>1, <3>1, <3>2 DEF HeardInv
  <2>2. CASE ~waiting' /\ ret' = Failure /\ taken' = taken
    BY <1>1, <1>3, <2>2 DEF HeardInv, Failure
  <2>3. CASE waiting' /\ taken' = taken
    BY <1>1, <1>3, <2>3 DEF HeardInv
  <2>4. QED
    BY <1>6, <2>1, <2>2, <2>3
<1>9. MatchInv'
  BY <1>1 DEF IInv, MatchInv, Patterns, Matched
<1>10. QED
  BY <1>4, <1>5, <1>7, <1>8, <1>9 DEF IInv

LEMMA ChatGotStep == ASSUME IInv, ChatGot PROVE IInv'
<1>1. /\ pc = "wait" /\ ~waiting /\ ret' = Nothing
      /\ UNCHANGED <<open, port, drv, rx, rxq, waiting, req, taken, refused,
                     spoiled, rval>>
  BY DEF ChatGot
<1>2. SerialTypeOK' /\ SettingsInv'
  BY <1>1, DriverKept, EmptyOK
<1>3. /\ Matched = {} /\ cret = 0 /\ Len(rval) <= WaitMax
      /\ ret \in [code : -1 .. BufLen, data : Seq(Byte)]
      /\ rval \in Seq(Seq(Byte)) /\ heard \in Seq(Byte)
      /\ pos \in [Patterns -> Nat] /\ \A i \in Patterns : pos[i] <= Len(rval[i])
  BY <1>1 DEF IInv, TypeOK, SerialTypeOK, CallInv
<1>4. CASE ~(ret.code > 0)
  <2>1. pc' = "done" /\ cret' = ret.code /\ UNCHANGED <<pos, heard>>
    BY <1>4 DEF ChatGot, Finish
  <2>2. TypeOK'
    BY <1>1, <1>2, <1>3, <1>4, <2>1, WaitSize DEF TypeOK, Patterns
  <2>3. CallInv'
    BY <1>1, <1>3, <1>4, <2>1 DEF CallInv
  <2>4. HeardInv'
    BY <1>1, <1>4, <2>1 DEF IInv, HeardInv
  <2>5. MatchInv'
    BY <1>1, <2>1 DEF IInv, MatchInv, Patterns, Matched
  <2>6. QED
    BY <1>2, <2>2, <2>3, <2>4, <2>5 DEF IInv
<1>5. CASE ret.code > 0
  <2> DEFINE c == ret.data[1]
  <2>1. pos' = Advance(c) /\ heard' = heard \o ret.data /\ pc' = "loop"
        /\ cret' = cret
    BY <1>5 DEF ChatGot
  <2>2. Len(ret.data) = 1 /\ ret.data \in Seq(Byte)
    BY <1>1, <1>3, <1>5 DEF IInv, CallInv
  <2>3. c \in Byte /\ ret.data = <<c>>
    BY <2>2
  <2> HIDE DEF c
  <2>4. heard' = heard \o <<c>> /\ heard' \in Seq(Byte)
    BY <1>3, <2>1, <2>3, Longer
  <2>5. ASSUME NEW i \in Patterns
        PROVE  /\ rval[i] \in Seq(Byte) /\ pos[i] \in Nat /\ pos[i] < Len(rval[i])
               /\ pos'[i] = Continued(rval[i], pos[i], c)
               /\ pos'[i] \in Nat /\ pos'[i] <= Len(rval[i])
    <3>1. rval[i] \in Seq(Byte)
      BY <1>3, ElementOfSeq DEF Patterns
    <3>2. pos[i] \in Nat /\ pos[i] < Len(rval[i])
      BY <1>3, <3>1 DEF Matched
    <3>3. pos'[i] = Continued(rval[i], pos[i], c)
      BY <2>1 DEF Advance, Continued
    <3>4. QED
      BY <3>1, <3>2, <3>3 DEF Continued
  <2>6. pos' \in [Patterns' -> Nat]
    BY <1>1, <2>1, <2>5 DEF Advance, Patterns
  <2>7. TypeOK'
    BY <1>1, <1>2, <1>3, <2>1, <2>4, <2>5, <2>6, WaitSize DEF TypeOK, Patterns
  <2>8. CallInv'
    BY <1>1, <1>3, <2>1 DEF CallInv
  <2>9. HeardInv'
    BY <1>1, <1>5, <2>1 DEF IInv, HeardInv
  <2>10. MatchInv'
    <3>1. SUFFICES ASSUME NEW i \in Patterns
                   PROVE  /\ Suffix(heard', rval[i], pos'[i])
                          /\ Follows(heard', rval[i], pos'[i])
                          /\ Occurs(heard', rval[i]) => i \in Matched'
      BY <1>1, <2>1 DEF MatchInv, Patterns
    <3>2. /\ Suffix(heard, rval[i], pos[i]) /\ Follows(heard, rval[i], pos[i])
          /\ ~Occurs(heard, rval[i])
      BY <1>1 DEF IInv, MatchInv
    <3>3. Suffix(heard', rval[i], pos'[i])
      BY <1>3, <2>3, <2>4, <2>5, <3>2, SuffixNext
    <3>4. Follows(heard', rval[i], pos'[i])
      BY <1>3, <2>3, <2>4, <2>5, <3>2, FollowsNext
    <3>5. ASSUME Occurs(heard', rval[i]) PROVE i \in Matched'
      <4>1. pos'[i] = Len(rval[i])
        BY <1>3, <2>3, <2>4, <2>5, <3>2, <3>4, <3>5, OccursNext
      <4>2. QED
        BY <1>1, <4>1 DEF Matched, Patterns
    <3>6. QED
      BY <3>3, <3>4, <3>5
  <2>11. QED
    BY <1>2, <2>7, <2>8, <2>9, <2>10 DEF IInv
<1>6. QED
  BY <1>4, <1>5

LEMMA StutterStep == ASSUME IInv, UNCHANGED vars PROVE IInv'
<1> USE DEF vars
<1>1. SerialTypeOK' /\ SettingsInv'
  BY DriverKept DEF IInv, TypeOK, SerialTypeOK
<1>2. TypeOK' /\ CallInv'
  BY <1>1 DEF IInv, TypeOK, CallInv, Matched, Patterns
<1>3. HeardInv' /\ MatchInv'
  BY DEF IInv, HeardInv, MatchInv, Matched, Patterns
<1>4. QED
  BY <1>1, <1>2, <1>3 DEF IInv

\* IInv is an invariant of every execution.
THEOREM Inductive == Spec => []IInv
<1>1. Init => IInv
  BY ChatInit
<1>2. IInv /\ [Next]_vars => IInv'
  BY ChatSendStep, ChatFoundStep, ChatReadStep, ChatGotStep, ChatReturnStep,
     ApplicationStep, DeviceStep, StutterStep DEF Next, Chat
<1>3. QED
  BY <1>1, <1>2, PTL DEF Spec

(***************************************************************************)
(* What follows from it.                                                   *)
(***************************************************************************)

\* The state of the driver and of serial_chat keeps its types (winserial.c,
\* chat.c): rx.pos and rx.cnt stay within the buffer, a matched length within
\* its pattern.
THEOREM TypeCorrect == Spec => []TypeOK
<1>1. IInv => TypeOK
  BY DEF IInv
<1>2. QED
  BY <1>1, Inductive, PTL

\* A read of the device waits as long as its caller asked for, unless the
\* device refused that time-out (win_serial_recv).
THEOREM TimeoutCached == Spec => []WaitsAsAsked
<1>1. IInv => WaitsAsAsked
  BY DEF IInv, SettingsInv, Remembered, WaitsAsAsked
<1>2. QED
  BY <1>1, Inductive, PTL

\* The driver's copy of the line settings is the device's
\* (win_serial_conf_set).
THEOREM SettingsCached == Spec => []DcbIsCurrent
<1>1. IInv => DcbIsCurrent
  BY DEF IInv, SettingsInv
<1>2. QED
  BY <1>1, Inductive, PTL

\* A port that is closed has its settings back (win_serial_close).
THEOREM PortRestored == Spec => []ClosePutsBack
<1>1. IInv => ClosePutsBack
  BY DEF IInv, SettingsInv, Saved, ClosePutsBack
<1>2. QED
  BY <1>1, Inductive, PTL

\* What serial_chat reports was received, up to the last byte it took.
THEOREM AnswerReceived == Spec => []AnswerIsHeard
<1>1. ASSUME IInv PROVE AnswerIsHeard
  <2>1. ASSUME NEW i \in Patterns
        PROVE  EndsWith(heard, SubSeq(rval[i], 1, pos[i]))
    <3>1. /\ rval \in Seq(Seq(Byte)) /\ heard \in Seq(Byte) /\ pos[i] \in Nat
          /\ pos[i] <= Len(rval[i]) /\ i \in 1 .. Len(rval)
      BY <1>1 DEF IInv, TypeOK, Patterns
    <3>2. rval[i] \in Seq(Byte) /\ pos[i] \in 0 .. Len(rval[i])
      <4>1. rval[i] \in Seq(Byte)
        BY <3>1, ElementOfSeq
      <4>2. QED
        BY <3>1, <4>1
    <3>3. Suffix(heard, rval[i], pos[i])
      BY <1>1 DEF IInv, MatchInv
    <3>4. QED
      BY <3>1, <3>2, <3>3, EndsWithSuffix
  <2>2. ASSUME cret > 0 PROVE EndsWith(heard, rval[cret]) /\ EndsWith(taken, heard)
    <3>1. cret \in Patterns /\ pos[cret] = Len(rval[cret]) /\ pc # "wait"
      BY <1>1, <2>2 DEF IInv, CallInv, Matched
    <3>2. rval[cret] \in Seq(Byte)
      BY <1>1, <3>1, ElementOfSeq DEF IInv, TypeOK, Patterns
    <3>3. SubSeq(rval[cret], 1, pos[cret]) = rval[cret]
      BY <3>1, <3>2, SubSeqFull
    <3>4. EndsWith(heard, rval[cret])
      BY <2>1, <3>1, <3>3
    <3>5. EndsWith(taken, heard)
      BY <1>1, <3>1 DEF IInv, HeardInv
    <3>6. QED
      BY <3>4, <3>5
  <2>3. QED
    BY <2>1, <2>2 DEF AnswerIsHeard
<1>2. QED
  BY <1>1, Inductive, PTL

\* An answer that follows nothing which begins like it is not missed.
THEOREM AnswerFound == Spec => []FreshIsFound
<1>1. ASSUME IInv PROVE FreshIsFound
  <2>1. SUFFICES ASSUME pc = "wait" \/ (pc = "done" /\ cret <= 0),
                        NEW i \in Patterns, Fresh(rval[i])
                 PROVE  FALSE
    BY DEF FreshIsFound
  <2>2. rval[i] \in Seq(Byte) /\ heard \in Seq(Byte)
    BY <1>1, ElementOfSeq DEF IInv, TypeOK, Patterns
  <2>3. Occurs(heard, rval[i])
    BY <2>1, <2>2, FreshOccurs
  <2>4. QED
    BY <1>1, <2>1, <2>3 DEF IInv, MatchInv
<1>2. QED
  BY <1>1, Inductive, PTL

(***************************************************************************)
(* The refinement: the callers see a queue of bytes.                       *)
(***************************************************************************)

UnreadOf(r) == SubSeq(r.buf, r.pos + 1, r.cnt)

LEMMA UnreadType ==
    ASSUME NEW r, RxOK(r)
    PROVE  /\ UnreadOf(r) \in Seq(Byte) /\ Len(UnreadOf(r)) = r.cnt - r.pos
           /\ \A i \in 1 .. r.cnt - r.pos : UnreadOf(r)[i] = r.buf[r.pos + i]
<1> DEFINE q == r.buf
           m == r.pos
           k == r.cnt
<1>1. q \in Seq(Byte) /\ m \in Nat /\ k \in Nat /\ m <= k /\ k <= Len(q)
  BY DEF RxOK
<1> HIDE DEF q, m, k
<1>2. /\ SubSeq(q, m + 1, k) \in Seq(Byte) /\ Len(SubSeq(q, m + 1, k)) = k - m
      /\ \A i \in 1 .. k - m : SubSeq(q, m + 1, k)[i] = q[m + i]
  BY <1>1, Cut
<1>3. QED
  BY <1>2 DEF UnreadOf, q, m, k

\* Bytes taken from the front of u are taken from the front of u and q.
LEMMA Front ==
    ASSUME NEW S, NEW u \in Seq(S), NEW q \in Seq(S), NEW n \in 1 .. Len(u)
    PROVE  /\ n \in 1 .. Len(u \o q)
           /\ SubSeq(u \o q, 1, n) = SubSeq(u, 1, n)
           /\ SubSeq(u \o q, n + 1, Len(u \o q)) = SubSeq(u, n + 1, Len(u)) \o q
<1> DEFINE w == u \o q
           a == SubSeq(u, n + 1, Len(u))
           b == SubSeq(w, n + 1, Len(w))
<1>1. /\ w \in Seq(S) /\ Len(w) = Len(u) + Len(q)
      /\ \A i \in 1 .. Len(u) + Len(q) : w[i] = IF i <= Len(u) THEN u[i] ELSE q[i - Len(u)]
  BY ConcatProperties
<1>2. a \in Seq(S) /\ Len(a) = Len(u) - n /\ \A i \in 1 .. Len(u) - n : a[i] = u[n + i]
  BY Cut
<1> HIDE DEF w, a
<1>3. b \in Seq(S) /\ Len(b) = Len(w) - n /\ \A i \in 1 .. Len(w) - n : b[i] = w[n + i]
  BY <1>1, Cut
<1> HIDE DEF b
<1>4. /\ a \o q \in Seq(S) /\ Len(a \o q) = Len(a) + Len(q)
      /\ \A i \in 1 .. Len(a) + Len(q) :
            (a \o q)[i] = IF i <= Len(a) THEN a[i] ELSE q[i - Len(a)]
  BY <1>2, ConcatProperties
<1>5. Len(b) = Len(a \o q)
  BY <1>1, <1>2, <1>3, <1>4
<1>6. ASSUME NEW i \in 1 .. Len(b) PROVE b[i] = (a \o q)[i]
  <2>1. i \in 1 .. Len(w) - n /\ n + i \in 1 .. Len(u) + Len(q) /\ i \in 1 .. Len(a) + Len(q)
    BY <1>1, <1>2, <1>3
  <2>2. b[i] = IF n + i <= Len(u) THEN u[n + i] ELSE q[n + i - Len(u)]
    BY <1>1, <1>3, <2>1
  <2>3. (a \o q)[i] = IF i <= Len(a) THEN a[i] ELSE q[i - Len(a)]
    BY <1>4, <2>1
  <2>4. (i <= Len(a)) <=> (n + i <= Len(u))
    BY <1>2, <2>1
  <2>5. CASE i <= Len(a)
    <3>1. a[i] = u[n + i]
      BY <1>2, <2>1, <2>5
    <3>2. QED
      BY <2>2, <2>3, <2>4, <2>5, <3>1
  <2>6. CASE ~(i <= Len(a))
    <3>1. i - Len(a) = n + i - Len(u)
      BY <1>2, <2>1
    <3>2. QED
      BY <2>2, <2>3, <2>4, <2>6, <3>1
  <2>7. QED
    BY <2>5, <2>6
<1>7. b = a \o q
  BY <1>3, <1>4, <1>5, <1>6, SeqEqual
<1>8. SubSeq(w, 1, n) = SubSeq(u, 1, n)
  <2> DEFINE c == SubSeq(w, 1, n)
             d == SubSeq(u, 1, n)
  <2>1. n \in Nat /\ n <= Len(w)
    BY <1>1
  <2>2. c \in Seq(S) /\ Len(c) = n /\ \A i \in 1 .. n : c[i] = w[i]
    BY <1>1, <2>1, Prefix
  <2>3. d \in Seq(S) /\ Len(d) = n /\ \A i \in 1 .. n : d[i] = u[i]
    BY Prefix
  <2> HIDE DEF c, d
  <2>4. \A i \in 1 .. n : c[i] = d[i]
    BY <1>1, <2>2, <2>3
  <2>5. c = d
    BY <2>2, <2>3, <2>4, SeqEqual
  <2>6. QED
    BY <2>5 DEF c, d
<1>9. n \in 1 .. Len(w)
  BY <1>1
<1>10. QED
  BY <1>7, <1>8, <1>9 DEF w, a, b

\* What Hand takes from a buffer with q behind it.
LEMMA HandTakes ==
    ASSUME NEW r, RxOK(r), r.pos < r.cnt, NEW max \in Nat \ {0}, Hand(r, max),
           NEW q \in Seq(Byte)
    PROVE  \E n \in 1 .. Len(UnreadOf(r) \o q) :
             /\ taken' = taken \o SubSeq(UnreadOf(r) \o q, 1, n)
             /\ UnreadOf(rx') \o q
                  = SubSeq(UnreadOf(r) \o q, n + 1, Len(UnreadOf(r) \o q))
<1> DEFINE n == Lesser(r.cnt - r.pos, max)
           u == UnreadOf(r)
<1>1. /\ r.pos \in Nat /\ r.cnt \in Nat /\ r.buf \in Seq(Byte)
      /\ r.cnt <= Len(r.buf)
  BY DEF RxOK
<1>2. u \in Seq(Byte) /\ Len(u) = r.cnt - r.pos
  BY UnreadType
<1>3. n \in 1 .. Len(u) /\ n \in Nat
  BY <1>1, <1>2 DEF Lesser
<1>4. taken' = taken \o SubSeq(r.buf, r.pos + 1, r.pos + n)
      /\ rx' = IF r.pos + n = r.cnt THEN EmptyRx ELSE [r EXCEPT !.pos = r.pos + n]
  BY DEF Hand
<1> HIDE DEF n
<1>5. \A i \in 1 .. Len(u) : u[i] = r.buf[r.pos + i]
  BY <1>2, UnreadType
<1> HIDE DEF u
<1>6. SubSeq(r.buf, r.pos + 1, r.pos + n) = SubSeq(u, 1, n)
  <2> DEFINE c == SubSeq(r.buf, r.pos + 1, r.pos + n)
             d == SubSeq(u, 1, n)
  <2>1. r.pos + n <= Len(r.buf)
    BY <1>1, <1>2, <1>3
  <2>2. c \in Seq(Byte) /\ Len(c) = n /\ \A i \in 1 .. n : c[i] = r.buf[r.pos + i]
    <3> DEFINE b == r.buf
               m == r.pos
    <3>1. b \in Seq(Byte) /\ m \in Nat /\ n \in Nat /\ m + n <= Len(b)
      BY <1>1, <1>3, <2>1
    <3> HIDE DEF b, m
    <3>2. /\ SubSeq(b, m + 1, m + n) \in Seq(Byte) /\ Len(SubSeq(b, m + 1, m + n)) = n
          /\ \A i \in 1 .. n : SubSeq(b, m + 1, m + n)[i] = b[m + i]
      BY <3>1, Piece
    <3>3. QED
      BY <3>2 DEF b, m
  <2>3. d \in Seq(Byte) /\ Len(d) = n /\ \A i \in 1 .. n : d[i] = u[i]
    BY <1>2, <1>3, Prefix
  <2> HIDE DEF c, d
  <2>4. \A i \in 1 .. n : c[i] = d[i]
    BY <1>2, <1>3, <1>5, <2>2, <2>3
  <2>5. c = d
    BY <2>2, <2>3, <2>4, SeqEqual
  <2>6. QED
    BY <2>5 DEF c, d
<1>7. UnreadOf(rx') = SubSeq(u, n + 1, Len(u))
  <2> DEFINE a == SubSeq(u, n + 1, Len(u))
  <2>1. a \in Seq(Byte) /\ Len(a) = Len(u) - n /\ \A i \in 1 .. Len(u) - n : a[i] = u[n + i]
    BY <1>2, <1>3, Cut
  <2> HIDE DEF a
  <2>2. CASE r.pos + n = r.cnt
    <3>1. rx' = [buf |-> <<>>, pos |-> 0, cnt |-> 0]
      BY <1>4, <2>2 DEF EmptyRx
    <3>2. RxOK(rx') /\ rx'.cnt = 0 /\ rx'.pos = 0
      BY <3>1 DEF RxOK
    <3>3. UnreadOf(rx') \in Seq(Byte) /\ Len(UnreadOf(rx')) = 0
      BY <3>2, UnreadType
    <3>4. Len(a) = 0
      BY <1>1, <1>2, <1>3, <2>1, <2>2
    <3>5. QED
      BY <2>1, <3>3, <3>4, EmptySeq DEF a
  <2>3. CASE r.pos + n # r.cnt
    <3>1. rx' = [r EXCEPT !.pos = r.pos + n]
      BY <1>4, <2>3
    <3>2. rx'.buf = r.buf /\ rx'.cnt = r.cnt /\ rx'.pos = r.pos + n
      BY <3>1 DEF RxOK
    <3> DEFINE c == UnreadOf(rx')
    <3>3. /\ c \in Seq(Byte) /\ Len(c) = r.cnt - (r.pos + n)
          /\ \A i \in 1 .. r.cnt - (r.pos + n) : c[i] = r.buf[(r.pos + n) + i]
      <4>1. r.pos + n \in Nat /\ r.pos + n < r.cnt
        BY <1>1, <1>2, <1>3, <2>3
      <4>2. RxOK(rx')
        BY <3>1, <4>1 DEF RxOK
      <4>3. QED
        BY <3>2, <4>2, UnreadType
    <3> HIDE DEF c
    <3>4. Len(c) = Len(a)
      BY <1>1, <1>2, <1>3, <2>1, <3>3
    <3>5. ASSUME NEW i \in 1 .. Len(c) PROVE c[i] = a[i]
      <4>1. i \in 1 .. Len(u) - n /\ n + i \in 1 .. Len(u)
        BY <1>2, <1>3, <2>1, <3>4
      <4>2. (r.pos + n) + i = r.pos + (n + i)
        BY <1>1, <1>3
      <4>3. QED
        BY <1>5, <2>1, <3>3, <4>1, <4>2
    <3>6. c = a
      BY <2>1, <3>3, <3>4, <3>5, SeqEqual
    <3>7. QED
      BY <3>6 DEF c, a
  <2>4. QED
    BY <2>2, <2>3
<1>8. /\ n \in 1 .. Len(u \o q) /\ SubSeq(u \o q, 1, n) = SubSeq(u, 1, n)
      /\ SubSeq(u \o q, n + 1, Len(u \o q)) = SubSeq(u, n + 1, Len(u)) \o q
  BY <1>2, <1>3, Front
<1>9. /\ taken' = taken \o SubSeq(u \o q, 1, n)
      /\ UnreadOf(rx') \o q = SubSeq(u \o q, n + 1, Len(u \o q))
  BY <1>4, <1>6, <1>7, <1>8
<1>10. QED
  BY <1>8, <1>9 DEF u

LEMMA PendingOpen ==
    ASSUME SerialTypeOK, open
    PROVE  Pending = UnreadOf(rx) \o rxq /\ UnreadOf(rx) \in Seq(Byte)
           /\ (rx.cnt = 0 => Pending = rxq)
<1>1. UnreadOf(rx) \in Seq(Byte) /\ Len(UnreadOf(rx)) = rx.cnt - rx.pos
  BY UnreadType DEF SerialTypeOK
<1>2. Pending = UnreadOf(rx) \o rxq
  BY DEF Pending, Unread, UnreadOf
<1>3. ASSUME rx.cnt = 0 PROVE Pending = rxq
  <2>1. rx.pos = 0
    BY <1>3 DEF SerialTypeOK, RxOK
  <2>2. UnreadOf(rx) = <<>>
    BY <1>1, <1>3, <2>1, EmptySeq
  <2>3. QED
    BY <1>2, <2>2, ConcatEmptySeq DEF SerialTypeOK
<1>4. QED
  BY <1>1, <1>2, <1>3

LEMMA RecvRefines ==
    ASSUME SerialTypeOK, SerialTypeOK', NEW max \in Nat \ {0}, NEW tmo,
           Recv(max, tmo)
    PROVE  Queue!Take \/ UNCHANGED Queue!vars
<1>1. open /\ open' /\ rxq' = rxq /\ UNCHANGED open
  BY DEF Recv
<1>2. CASE RecvBuffered(max, tmo)
  <2>1. RxOK(rx) /\ rx.pos < rx.cnt /\ rxq \in Seq(Byte) /\ Hand(rx, max)
    BY <1>2 DEF RecvBuffered, SerialTypeOK, RxOK
  <2>2. PICK n \in 1 .. Len(UnreadOf(rx) \o rxq) :
          /\ taken' = taken \o SubSeq(UnreadOf(rx) \o rxq, 1, n)
          /\ UnreadOf(rx') \o rxq
               = SubSeq(UnreadOf(rx) \o rxq, n + 1, Len(UnreadOf(rx) \o rxq))
    BY <2>1, HandTakes
  <2>3. Pending = UnreadOf(rx) \o rxq /\ Pending' = UnreadOf(rx') \o rxq
    BY <1>1 DEF Pending, Unread, UnreadOf
  <2>4. QED
    BY <1>1, <2>2, <2>3 DEF Queue!Take
<1>3. CASE RecvIssue(max, tmo) \/ RecvRefused(max, tmo)
  BY <1>1, <1>3 DEF RecvIssue, RecvRefused, Queue!vars, Pending, Unread
<1>4. QED
  BY <1>2, <1>3 DEF Recv

LEMMA ReadEndsRefines ==
    ASSUME SerialTypeOK, SettingsInv, ReadEnds
    PROVE  Queue!Take \/ UNCHANGED Queue!vars
<1>1. CASE RecvData
  <2>1. /\ rxq \in Seq(Byte) /\ open /\ UNCHANGED open /\ open' /\ rx.cnt = 0
        /\ req.max \in Nat \ {0}
    BY <1>1 DEF RecvData, SerialTypeOK, SettingsInv, Remembered
  <2>2. PICK m \in 1 .. Lesser(Len(rxq), BufLen) :
          Hand(FromDevice(m), req.max) /\ rxq' = SubSeq(rxq, m + 1, Len(rxq))
    BY <1>1 DEF RecvData, FromDevice
  <2> DEFINE r == FromDevice(m)
  <2>3. RxOK(r) /\ r.pos < r.cnt /\ rxq' \in Seq(Byte) /\ Hand(r, req.max)
    BY <2>1, <2>2, FromDeviceType
  <2> HIDE DEF r
  <2>4. PICK n \in 1 .. Len(UnreadOf(r) \o rxq') :
          /\ taken' = taken \o SubSeq(UnreadOf(r) \o rxq', 1, n)
          /\ UnreadOf(rx') \o rxq'
               = SubSeq(UnreadOf(r) \o rxq', n + 1, Len(UnreadOf(r) \o rxq'))
    BY ZenonT(60), <2>1, <2>3, HandTakes
  <2>5. UnreadOf(r) \o rxq' = rxq
    <3>1. m \in Nat /\ m <= Len(rxq)
      BY <2>1 DEF Lesser
    <3> DEFINE a == SubSeq(rxq, 0 + 1, m)
    <3>2. a \in Seq(Byte) /\ Len(a) = m /\ \A i \in 1 .. m : a[i] = rxq[i]
      BY <2>1, <3>1, Cut
    <3>3. Len(rxq') = Len(rxq) - m /\ \A i \in 1 .. Len(rxq) - m : rxq'[i] = rxq[m + i]
      BY <2>1, <2>2, <3>1, Cut
    <3>4. UnreadOf(r) = a
      <4>1. UnreadOf(r) \in Seq(Byte) /\ Len(UnreadOf(r)) = m
        BY <2>3, <3>1, UnreadType DEF r, FromDevice
      <4>2. \A i \in 1 .. m : UnreadOf(r)[i] = a[i]
        <5>1. SubSeq(a, 0 + 1, m) = UnreadOf(r)
          BY DEF UnreadOf, r, FromDevice
        <5> HIDE DEF a
        <5>2. \A i \in 1 .. m - 0 : SubSeq(a, 0 + 1, m)[i] = a[0 + i]
          BY <3>1, <3>2, Cut
        <5>3. QED
          BY <3>1, <5>1, <5>2
      <4> HIDE DEF a
      <4>3. QED
        BY <3>2, <4>1, <4>2, SeqEqual
    <3> HIDE DEF a
    <3>5. /\ a \o rxq' \in Seq(Byte) /\ Len(a \o rxq') = Len(a) + Len(rxq')
          /\ \A i \in 1 .. Len(a) + Len(rxq') :
                (a \o rxq')[i] = IF i <= Len(a) THEN a[i] ELSE rxq'[i - Len(a)]
      BY <2>3, <3>2, ConcatProperties
    <3>6. Len(a \o rxq') = Len(rxq)
      BY <2>1, <3>1, <3>2, <3>3, <3>5
    <3>7. \A i \in 1 .. Len(rxq) : (a \o rxq')[i] = rxq[i]
      BY <2>1, <3>1, <3>2, <3>3, <3>5, <3>6
    <3>8. a \o rxq' = rxq
      BY <2>1, <3>5, <3>6, <3>7, SeqEqual
    <3>9. QED
      BY <3>4, <3>8
  <2>6. Pending = rxq
    BY <2>1, PendingOpen
  <2>7. Pending' = UnreadOf(rx') \o rxq'
    BY <2>1 DEF Pending, Unread, UnreadOf
  <2>8. QED
    BY <2>1, <2>4, <2>5, <2>6, <2>7 DEF Queue!Take
<1>2. CASE RecvNothing \/ RecvFails
  BY <1>2 DEF RecvNothing, RecvFails, Queue!vars, Pending, Unread
<1>3. QED
  BY <1>1, <1>2 DEF ReadEnds

LEMMA ArriveRefines ==
    ASSUME SerialTypeOK, Arrive PROVE Queue!Arrive
<1> DEFINE u == UnreadOf(rx)
<1>1. PICK b \in Byte : rxq' = Append(rxq, b)
  BY DEF Arrive
<1>2. open /\ open' = open /\ taken' = taken /\ rx' = rx /\ rxq \in Seq(Byte)
  BY DEF Arrive, SerialTypeOK
<1>3. Pending = u \o rxq /\ Pending' = u \o Append(rxq, b) /\ u \in Seq(Byte)
  BY <1>1, <1>2, PendingOpen DEF Pending, Unread, UnreadOf
<1> HIDE DEF u
<1>4. u \o Append(rxq, b) = Append(u \o rxq, b)
  <2>1. /\ u \o rxq \in Seq(Byte) /\ Len(u \o rxq) = Len(u) + Len(rxq)
        /\ \A i \in 1 .. Len(u) + Len(rxq) :
              (u \o rxq)[i] = IF i <= Len(u) THEN u[i] ELSE rxq[i - Len(u)]
    BY <1>2, <1>3, ConcatProperties
  <2> DEFINE q == Append(rxq, b)
             w == u \o rxq
  <2>2. /\ q \in Seq(Byte) /\ Len(q) = Len(rxq) + 1
        /\ \A i \in 1 .. Len(rxq) : q[i] = rxq[i]
        /\ q[Len(rxq) + 1] = b
    BY <1>2, AppendProperties
  <2> HIDE DEF q, w
  <2>3. /\ u \o q \in Seq(Byte) /\ Len(u \o q) = Len(u) + Len(q)
        /\ \A i \in 1 .. Len(u) + Len(q) :
              (u \o q)[i] = IF i <= Len(u) THEN u[i] ELSE q[i - Len(u)]
    BY <1>3, <2>2, ConcatProperties
  <2>4. w \in Seq(Byte) /\ Len(w) = Len(u) + Len(rxq)
    BY <2>1 DEF w
  <2>5. /\ Append(w, b) \in Seq(Byte) /\ Len(Append(w, b)) = Len(w) + 1
        /\ \A i \in 1 .. Len(w) : Append(w, b)[i] = w[i]
        /\ Append(w, b)[Len(w) + 1] = b
    BY <2>4, AppendProperties
  <2>6. Len(u \o q) = Len(Append(w, b))
    BY <1>2, <1>3, <2>2, <2>3, <2>4, <2>5
  <2>7. ASSUME NEW i \in 1 .. Len(u \o q) PROVE (u \o q)[i] = Append(w, b)[i]
    <3>1. CASE i = Len(w) + 1
      BY <1>2, <1>3, <2>2, <2>3, <2>4, <2>5, <3>1
    <3>2. CASE i \in 1 .. Len(w)
      <4>1. Append(w, b)[i] = w[i]
        BY <2>5, <3>2
      <4>2. w[i] = IF i <= Len(u) THEN u[i] ELSE rxq[i - Len(u)]
        BY <2>1, <2>4, <3>2 DEF w
      <4>3. (u \o q)[i] = IF i <= Len(u) THEN u[i] ELSE q[i - Len(u)]
        BY <2>3
      <4>4. i <= Len(u) \/ i - Len(u) \in 1 .. Len(rxq)
        BY <1>2, <1>3, <2>4, <3>2
      <4>5. QED
        BY <2>2, <4>1, <4>2, <4>3, <4>4
    <3>3. QED
      BY <2>4, <2>5, <2>6, <3>1, <3>2
  <2>8. u \o q = Append(w, b)
    BY <2>3, <2>5, <2>6, <2>7, SeqEqual
  <2>9. QED
    BY <2>8 DEF q, w
<1>5. QED
  BY <1>2, <1>3, <1>4 DEF Queue!Arrive

LEMMA ApplicationRefines ==
    ASSUME IInv, IInv', Application
    PROVE  Queue!Next \/ UNCHANGED Queue!vars
<1>1. SerialTypeOK /\ SerialTypeOK'
  BY DEF IInv, TypeOK
<1>2. CASE Open
  <2>1. ~open /\ open' /\ rx' = EmptyRx /\ rxq' = <<>> /\ taken' = <<>>
    BY <1>2 DEF Open
  <2>2. UnreadOf(rx') \in Seq(Byte) /\ Len(UnreadOf(rx')) = 0
    BY <2>1, EmptyOK, UnreadType DEF EmptyRx
  <2>3. Pending' = <<>>
    BY <2>1, <2>2, EmptySeq, ConcatEmptySeq DEF Pending, Unread, UnreadOf
  <2>4. QED
    BY <2>1, <2>3 DEF Queue!Next, Queue!Open
<1>3. CASE Close
  <2>1. open /\ ~open' /\ taken' = <<>>
    BY <1>3 DEF Close
  <2>2. QED
    BY <2>1 DEF Queue!Next, Queue!Close, Pending
<1>4. CASE OpenFails
  BY <1>4 DEF OpenFails, Queue!vars, Pending, Unread
<1>5. CASE \E cfg \in Configs : ConfSet(cfg)
  BY <1>5 DEF ConfSet, Queue!vars, Pending, Unread
<1>6. CASE \E max \in 1 .. BufLen, tmo \in Timeouts : Recv(max, tmo)
  <2>1. PICK max \in 1 .. BufLen, tmo \in Timeouts : Recv(max, tmo)
    BY <1>6
  <2>2. max \in Nat \ {0}
    OBVIOUS
  <2>3. QED
    BY <1>1, <2>1, <2>2, RecvRefines DEF Queue!Next
<1>7. QED
  BY <1>2, <1>3, <1>4, <1>5, <1>6 DEF Application

LEMMA ChatRefines ==
    ASSUME IInv, IInv', Chat
    PROVE  Queue!Next \/ UNCHANGED Queue!vars
<1>1. CASE ChatRead
  <2>1. SerialTypeOK /\ SerialTypeOK' /\ Recv(1, ChatTmo) /\ 1 \in Nat \ {0}
    BY <1>1 DEF IInv, TypeOK, ChatRead
  <2>2. QED
    BY <2>1, RecvRefines DEF Queue!Next
<1>2. CASE ChatGot
  BY <1>2 DEF ChatGot, Queue!vars, Pending, Unread
<1>3. CASE ChatSend \/ ChatFound \/ ChatReturn
  BY <1>3 DEF ChatSend, ChatFound, ChatReturn, serialVars, Queue!vars, Pending, Unread
<1>4. QED
  BY <1>1, <1>2, <1>3 DEF Chat

\* Every byte that arrives at an open port is handed out once and in order,
\* whatever sizes and time-outs the reads have and whatever fails
\* (win_serial_recv, win_serial_open, win_serial_close).
THEOREM DriverIsAQueue == Spec => Refines
<1>1. Init => Queue!Init
  BY DEF Init, SerialInit, Queue!Init, Pending
<1>2. IInv /\ IInv' /\ [Next]_vars => [Queue!Next]_(Queue!vars)
  <2>1. SUFFICES ASSUME IInv, IInv', [Next]_vars
                 PROVE  Queue!Next \/ UNCHANGED Queue!vars
    OBVIOUS
  <2>2. CASE Chat
    BY <2>1, <2>2, ChatRefines
  <2>3. CASE Application
    BY <2>1, <2>3, ApplicationRefines
  <2>4. CASE Device
    <3>1. SerialTypeOK /\ SettingsInv
      BY <2>1 DEF IInv, TypeOK
    <3>2. QED
      BY <2>4, <3>1, ArriveRefines, ReadEndsRefines DEF Device, Queue!Next
  <2>5. CASE UNCHANGED vars
    BY <2>5 DEF vars, Queue!vars, Pending, Unread
  <2>6. QED
    BY <2>1, <2>2, <2>3, <2>4, <2>5 DEF Next
<1>3. QED
  BY <1>1, <1>2, Inductive, PTL DEF Spec, Refines, Queue!Spec

=============================================================================

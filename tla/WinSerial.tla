----------------------------- MODULE WinSerial -----------------------------
(***************************************************************************)
(* The serial driver, win/winserial.c.  A read takes bytes out of rx.buf   *)
(* and asks the device for more only when that buffer is empty; then it    *)
(* waits, with the time-out the device was last given.  Every system call  *)
(* named in Faults may fail.  Of a call's result only what the callers     *)
(* look at is kept.                                                        *)
(***************************************************************************)
EXTENDS Integers, Sequences

CONSTANTS
    Byte,       \* the characters that may arrive
    BufLen,     \* SERIAL_DEV_RX_BUF_LEN, 128
    QueueLen,   \* the device's own input queue
    MaxBytes,   \* bound: bytes that arrive while the port is open
    Timeouts,   \* the values of tmo_msec that callers use
    FoundTmo,   \* the time-outs another program left in the device
    FoundDcb,   \* and its line settings
    Configs,    \* the values of struct serial_config that callers use
    Faults      \* the system calls that may fail

ASSUME SerialAssumption ==
    /\ BufLen \in Nat \ {0} /\ QueueLen \in Nat /\ MaxBytes \in Nat
    /\ Timeouts \subseteq Nat /\ FoundTmo \notin Timeouts \cup {0}
    /\ FoundDcb \in [rate : {FoundDcb.rate}, parity : {FoundDcb.parity},
                     flow : {FoundDcb.flow}]

VARIABLES
    open,       \* whether a struct win_serial_drv exists
    port,       \* the settings of the device: tmo and dcb
    drv,        \* timeouts, dcb and their saved copies
    rx,         \* drv->rx: buf, pos, cnt
    rxq,        \* bytes in the device's queue
    waiting,    \* whether a call of recv waits for its ReadFile
    req,        \* the arguments of that call: max and tmo
    ret,        \* what the last call returned: code and data
    taken,      \* history: the bytes handed out since the port was opened
    refused,    \* history: the time-outs the device does not have since
                \*   SetCommTimeouts refused them
    spoiled     \* history: whether an open or a close left time-outs behind
serialVars == <<open, port, drv, rx, rxq, waiting, req, ret, taken, refused,
                spoiled>>

Unread == SubSeq(rx.buf, rx.pos + 1, rx.cnt)
Pending == IF open THEN Unread \o rxq ELSE <<>>

Queue == INSTANCE ByteQueue WITH pending <- Pending

Dcbs == [rate : {c.rate : c \in Configs} \cup {FoundDcb.rate},
         parity : {c.parity : c \in Configs} \cup {FoundDcb.parity},
         flow : {"NONE", FoundDcb.flow}]

RxOK(r) ==
    /\ r \in [buf : Seq(Byte), pos : Nat, cnt : Nat]
    /\ r.cnt <= Len(r.buf) /\ r.cnt <= BufLen
    /\ r.pos < r.cnt \/ (r.pos = 0 /\ r.cnt = 0)

SerialTypeOK ==
    /\ open \in BOOLEAN /\ waiting \in BOOLEAN /\ spoiled \in BOOLEAN
    /\ port \in [tmo : Timeouts \cup {0, FoundTmo}, dcb : Dcbs]
    /\ drv \in [tmo : Timeouts \cup {0}, saveTmo : Timeouts \cup {0, FoundTmo},
               dcb : Dcbs, saveDcb : Dcbs]
    /\ RxOK(rx)
    /\ rxq \in Seq(Byte) /\ taken \in Seq(Byte)
    /\ req \in [max : Nat \ {0}, tmo : Timeouts \cup {0}]
    /\ ret \in [code : -1 .. BufLen, data : Seq(Byte)]
    /\ refused \subseteq Timeouts

\* What buf and pos hold once cnt is 0, and the arguments of a call that has
\* returned, are never looked at.
NoReq == [max |-> 1, tmo |-> 0]
EmptyRx == [buf |-> <<>>, pos |-> 0, cnt |-> 0]
Failure == [code |-> -1, data |-> <<>>]
Nothing == [code |-> 0, data |-> <<>>]

SerialInit ==
    /\ open = FALSE /\ waiting = FALSE /\ spoiled = FALSE
    /\ port = [tmo |-> FoundTmo, dcb |-> FoundDcb]
    /\ drv = [tmo |-> 0, saveTmo |-> FoundTmo, dcb |-> FoundDcb,
              saveDcb |-> FoundDcb]
    /\ rx = EmptyRx /\ rxq = <<>> /\ taken = <<>>
    /\ req = NoReq
    /\ ret = Nothing
    /\ refused = {}

-----------------------------------------------------------------------------
(* win_serial_open, win_serial_close and the configuration.                *)

\* Whatever the device found stays saved for the close.  A call that fails
\* before the time-outs are set leaves everything as it was and is no step.
Open ==
    /\ ~open
    /\ open' = TRUE
    /\ drv' = [tmo |-> 0, saveTmo |-> port.tmo, dcb |-> port.dcb,
               saveDcb |-> port.dcb]
    /\ port' = [port EXCEPT !.tmo = 0]
    /\ rx' = EmptyRx /\ rxq' = <<>> /\ taken' = <<>> /\ refused' = {}
    /\ UNCHANGED <<waiting, req, ret, spoiled>>

\* SetupComm or PurgeComm fails: the handle is closed, the new time-outs stay.
OpenFails ==
    /\ "open" \in Faults
    /\ ~open
    /\ port' = [port EXCEPT !.tmo = 0]
    /\ spoiled' = TRUE
    /\ UNCHANGED <<open, drv, rx, rxq, waiting, req, ret, taken, refused>>

\* The failures of the two calls are independent and only logged.
Close_KeepsTimeouts ==
    /\ open /\ ~waiting
    /\ open' = FALSE
    /\ port' = [port EXCEPT !.dcb = drv.saveDcb]
    /\ UNCHANGED spoiled
    /\ rx' = EmptyRx /\ rxq' = <<>> /\ taken' = <<>> /\ refused' = {}
    /\ UNCHANGED <<drv, waiting, req, ret>>
Close ==
    /\ open /\ ~waiting
    /\ open' = FALSE
    /\ \E okT, okS \in IF "close" \in Faults THEN BOOLEAN ELSE {TRUE} :
         /\ port' = [tmo |-> IF okT THEN drv.saveTmo ELSE port.tmo,
                     dcb |-> IF okS THEN drv.saveDcb ELSE port.dcb]
         /\ spoiled' = (spoiled \/ ~okT \/ ~okS)
    /\ rx' = EmptyRx /\ rxq' = <<>> /\ taken' = <<>> /\ refused' = {}
    /\ UNCHANGED <<drv, waiting, req, ret>>

\* A parity other than these three and any flow control but none leave the
\* field as it was.
Dcb(old, cfg) ==
    [rate |-> cfg.rate,
     parity |-> IF cfg.parity \in {"NONE", "ODD", "EVEN"} THEN cfg.parity
                ELSE old.parity,
     flow |-> IF cfg.flow \in {"XONXOFF", "RTSCTS"} THEN old.flow ELSE "NONE"]

\* serial_config_set, through win_serial_ioctl, which returns 0 whatever
\* win_serial_conf_set returned.
ConfSet_Caches(cfg) ==
    /\ open /\ ~waiting
    /\ \/ port' = [port EXCEPT !.dcb = Dcb(drv.dcb, cfg)]
       \/ "SetCommState" \in Faults /\ UNCHANGED port
    /\ drv' = [drv EXCEPT !.dcb = Dcb(drv.dcb, cfg)]
    /\ ret' = Nothing
    /\ UNCHANGED <<open, rx, rxq, waiting, req, taken, refused, spoiled>>
ConfSet(cfg) ==
    /\ open /\ ~waiting
    /\ \/ /\ port' = [port EXCEPT !.dcb = Dcb(drv.dcb, cfg)]
          /\ drv' = [drv EXCEPT !.dcb = Dcb(drv.dcb, cfg)]
       \/ "SetCommState" \in Faults /\ UNCHANGED <<port, drv>>
    /\ ret' = Nothing
    /\ UNCHANGED <<open, rx, rxq, waiting, req, taken, refused, spoiled>>

-----------------------------------------------------------------------------
(* win_serial_send and win_serial_drain change nothing that is modelled.   *)

\* A write of n bytes returns n, or -1 if it fails, or FALSE, that is 0, when
\* there is no event to wait on; then nothing has been sent.
SendResults(n) ==
    {n} \cup (IF "WriteFile" \in Faults THEN {-1} ELSE {})
        \cup (IF "CreateEvent" \in Faults THEN {0} ELSE {})

-----------------------------------------------------------------------------
(* win_serial_recv.                                                        *)

Lesser(a, b) == IF a < b THEN a ELSE b

\* The loop at the end: up to max bytes leave the buffer, which is empty once
\* its last byte has left.
Hand_NeverEmpties(r, max) ==
    LET n == Lesser(r.cnt - r.pos, max)
        data == SubSeq(r.buf, r.pos + 1, r.pos + n)
    IN /\ rx' = [r EXCEPT !.pos = r.pos + n]
       /\ ret' = [code |-> n, data |-> data]
       /\ taken' = taken \o data
Hand_KeepsPos(r, max) ==
    LET n == Lesser(r.cnt - r.pos, max)
        data == SubSeq(r.buf, r.pos + 1, r.pos + n)
    IN /\ rx' = IF r.pos + n = r.cnt THEN EmptyRx ELSE r
       /\ ret' = [code |-> n, data |-> data]
       /\ taken' = taken \o data
Hand(r, max) ==
    LET n == Lesser(r.cnt - r.pos, max)
        data == SubSeq(r.buf, r.pos + 1, r.pos + n)
    IN /\ rx' = IF r.pos + n = r.cnt THEN EmptyRx ELSE [r EXCEPT !.pos = r.pos + n]
       /\ ret' = [code |-> n, data |-> data]
       /\ taken' = taken \o data

RecvBuffered(max, tmo) ==
    /\ rx.cnt # 0
    /\ Hand(rx, max)
    /\ UNCHANGED <<port, drv, waiting, req, refused>>

\* The time-out is remembered before SetCommTimeouts is called.  The event may
\* still fail after that.
RecvIssue_Skips(max, tmo) ==
    /\ rx.cnt = 0
    /\ drv' = [drv EXCEPT !.tmo = tmo]
    /\ waiting' = TRUE /\ req' = [max |-> max, tmo |-> tmo]
    /\ UNCHANGED <<port, refused, ret, rx, taken>>
RecvIssue(max, tmo) ==
    /\ rx.cnt = 0
    /\ drv' = [drv EXCEPT !.tmo = tmo]
    /\ IF drv.tmo # tmo
         THEN port' = [port EXCEPT !.tmo = tmo] /\ refused' = {}
         ELSE UNCHANGED <<port, refused>>
    /\ \/ waiting' = TRUE /\ req' = [max |-> max, tmo |-> tmo] /\ UNCHANGED ret
       \/ "CreateEvent" \in Faults /\ ret' = Failure /\ UNCHANGED <<waiting, req>>
    /\ UNCHANGED <<rx, taken>>

RecvRefused(max, tmo) ==
    /\ "SetCommTimeouts" \in Faults
    /\ rx.cnt = 0 /\ drv.tmo # tmo
    /\ drv' = [drv EXCEPT !.tmo = tmo]
    /\ refused' = {tmo}
    /\ ret' = Failure
    /\ UNCHANGED <<port, waiting, req, rx, taken>>

Recv(max, tmo) ==
    /\ open /\ ~waiting
    /\ RecvBuffered(max, tmo) \/ RecvIssue(max, tmo) \/ RecvRefused(max, tmo)
    /\ UNCHANGED <<open, rxq, spoiled>>

\* ReadFile returns as soon as there is anything, with what there is.
RecvData ==
    /\ waiting
    /\ \E n \in 1 .. Lesser(Len(rxq), BufLen) :
         /\ Hand([buf |-> SubSeq(rxq, 1, n), pos |-> 0, cnt |-> n], req.max)
         /\ rxq' = SubSeq(rxq, n + 1, Len(rxq))
    /\ waiting' = FALSE /\ req' = NoReq
    /\ UNCHANGED <<open, port, drv, refused, spoiled>>

RecvNothing ==
    /\ waiting /\ rxq = <<>>
    /\ waiting' = FALSE /\ req' = NoReq /\ ret' = Nothing
    /\ UNCHANGED <<open, port, drv, rx, rxq, taken, refused, spoiled>>

RecvFails ==
    /\ "ReadFile" \in Faults
    /\ waiting
    /\ waiting' = FALSE /\ req' = NoReq /\ ret' = Failure
    /\ UNCHANGED <<open, port, drv, rx, rxq, taken, refused, spoiled>>

\* The line: what does not fit into the device's queue is lost.
Arrive ==
    /\ open
    /\ Len(rxq) < QueueLen
    /\ Len(taken) + Len(Pending) < MaxBytes
    /\ \E b \in Byte : rxq' = Append(rxq, b)
    /\ UNCHANGED <<open, port, drv, rx, waiting, req, ret, taken, refused,
                   spoiled>>

ReadEnds == RecvData \/ RecvNothing \/ RecvFails
=============================================================================

----------------------------- MODULE SerialChat -----------------------------
(***************************************************************************)
(* serial_chat (chat.c) over the driver: it sends a request and reads byte *)
(* by byte until one of the patterns it waits for has been read, a read    *)
(* times out or fails.  Before and after it the application may use the    *)
(* port in any other way.                                                  *)
(***************************************************************************)
EXTENDS WinSerial

CONSTANTS
    WaitLists,  \* the lists of patterns callers wait for
    WaitMax,    \* CHAT_WAIT_LIST_MAX, 64: patterns behind it are ignored
    ChatTmo     \* chat.timeout

ASSUME ChatAssumption ==
    /\ WaitLists \subseteq Seq(Seq(Byte)) /\ WaitMax \in Nat
    /\ ChatTmo \in Timeouts

VARIABLES
    pc,         \* where serial_chat is; "idle" outside of it
    rval,       \* the patterns
    pos,        \* how much of each has been matched
    heard,      \* history: the bytes this call has read
    cret        \* what it returned
chatVars == <<pc, rval, pos, heard, cret>>
vars == <<open, port, drv, rx, rxq, waiting, req, ret, taken, refused,
          spoiled, pc, rval, pos, heard, cret>>

Patterns == 1 .. Len(rval)

TypeOK ==
    /\ SerialTypeOK
    /\ pc \in {"idle", "loop", "wait", "done"}
    /\ rval \in Seq(Seq(Byte))
    /\ pos \in [Patterns -> Nat]
    /\ \A i \in Patterns : pos[i] <= Len(rval[i])
    /\ heard \in Seq(Byte)
    /\ cret \in -1 .. WaitMax
    /\ waiting => pc \in {"idle", "wait"}

Init ==
    /\ SerialInit
    /\ pc = "idle" /\ rval = <<>> /\ pos = <<>> /\ heard = <<>> /\ cret = 0

-----------------------------------------------------------------------------
(* serial_chat.                                                            *)

\* A request that was not sent because send returned 0 is waited for like
\* any other.
ChatSend ==
    /\ pc = "idle" /\ open /\ ~waiting
    /\ \E list \in WaitLists, sent \in SendResults(1) :
         /\ rval' = SubSeq(list, 1, Lesser(Len(list), WaitMax))
         /\ pc' = IF sent < 0 THEN "done" ELSE "loop"
         /\ cret' = IF sent < 0 THEN sent ELSE 0
    /\ pos' = [i \in DOMAIN rval' |-> 0]
    /\ UNCHANGED <<serialVars, heard>>

Matched_First == {i \in Patterns \cap {1} : pos[i] = Len(rval[i])}
Matched == {i \in Patterns : pos[i] = Len(rval[i])}

Finish(code) == pc' = "done" /\ cret' = code

ChatFound ==
    /\ pc = "loop"
    /\ \E i \in Matched : (\A j \in Matched : i <= j) /\ Finish(i)
    /\ UNCHANGED <<serialVars, rval, pos, heard>>

ChatRead ==
    /\ pc = "loop" /\ Matched = {}
    /\ Recv(1, ChatTmo)
    /\ pc' = "wait"
    /\ UNCHANGED <<rval, pos, heard, cret>>

\* A character that does not continue a pattern starts the search for it
\* anew; whether it is the first of the pattern is not looked at.
Advance_NoRestart(c) ==
    [i \in Patterns |-> IF rval[i][pos[i] + 1] = c THEN pos[i] + 1 ELSE pos[i]]
Advance(c) ==
    [i \in Patterns |-> IF rval[i][pos[i] + 1] = c THEN pos[i] + 1 ELSE 0]

ChatGot_WaitsOn ==
    /\ pc = "wait" /\ ~waiting
    /\ pc' = IF ret.code < 0 THEN "done" ELSE "loop"
    /\ pos' = IF ret.code > 0 THEN Advance(ret.data[1]) ELSE pos
    /\ heard' = heard \o ret.data
    /\ ret' = Nothing
    /\ UNCHANGED <<open, port, drv, rx, rxq, waiting, req, taken, refused,
                   spoiled, rval, cret>>
ChatGot ==
    /\ pc = "wait" /\ ~waiting
    /\ IF ret.code > 0
         THEN /\ pos' = Advance(ret.data[1])
              /\ heard' = heard \o ret.data
              /\ pc' = "loop" /\ UNCHANGED cret
         ELSE Finish(ret.code) /\ UNCHANGED <<pos, heard>>
    /\ ret' = Nothing
    /\ UNCHANGED <<open, port, drv, rx, rxq, waiting, req, taken, refused,
                   spoiled, rval>>

ChatReturn ==
    /\ pc = "done"
    /\ pc' = "idle" /\ rval' = <<>> /\ pos' = <<>> /\ heard' = <<>> /\ cret' = 0
    /\ UNCHANGED serialVars

Chat == ChatSend \/ ChatFound \/ ChatRead \/ ChatGot \/ ChatReturn

-----------------------------------------------------------------------------

\* The rest of the application, which shares the thread with serial_chat.
Application ==
    /\ pc = "idle"
    /\ \/ Open \/ OpenFails \/ Close
       \/ \E cfg \in Configs : ConfSet(cfg)
       \/ \E max \in 1 .. BufLen, tmo \in Timeouts : Recv(max, tmo)
    /\ UNCHANGED chatVars

Device == (Arrive \/ ReadEnds) /\ UNCHANGED chatVars

Next == Chat \/ Application \/ Device

\* A call goes on, and a read that waits ends.
Fairness == WF_vars(Chat /\ pc # "idle") /\ WF_vars(ReadEnds /\ UNCHANGED chatVars)

Spec == Init /\ [][Next]_vars
FairSpec == Spec /\ Fairness

-----------------------------------------------------------------------------

\* The driver hands out every byte the device delivered, once and in order,
\* whatever mixture of read sizes, time-outs and failing calls it meets
\* (win_serial_recv, win_serial_open, win_serial_close).
Refines == Queue!Spec

\* A read waits as long as its caller asked for, unless the device has just
\* refused that very time-out: win_serial_recv remembers it all the same and
\* does not try again until a caller asks for another one.
WaitsAsAsked == waiting => port.tmo = req.tmo \/ req.tmo \in refused

\* A port that is closed has the settings it was found with, unless an open
\* failed half way or a call of win_serial_close failed.
ClosePutsBack ==
    ~open /\ ~spoiled => port = [tmo |-> FoundTmo, dcb |-> FoundDcb]

\* The settings that win_serial_conf_set starts from are those of the device,
\* also after a configuration that the device refused.
DcbIsCurrent == open => drv.dcb = port.dcb

EndsWith(s, p) ==
    Len(p) <= Len(s) /\ SubSeq(s, Len(s) - Len(p) + 1, Len(s)) = p

\* What serial_chat has matched of a pattern is what it has just read; so an
\* answer it reports was received, up to the very last byte it took from the
\* driver.
AnswerIsHeard ==
    /\ \A i \in Patterns : EndsWith(heard, SubSeq(rval[i], 1, pos[i]))
    /\ cret > 0 => EndsWith(heard, rval[cret]) /\ EndsWith(taken, heard)

\* p occurs in what was read, and its first character does not occur before.
Fresh(p) == p # <<>> /\ \E k \in 0 .. Len(heard) - Len(p) :
    /\ SubSeq(heard, k + 1, k + Len(p)) = p
    /\ \A j \in 1 .. k : heard[j] # p[1]

\* An answer that nothing precedes which could be taken for its beginning is
\* never missed: serial_chat does not read on or time out.  (After a false
\* start it may be missed, as Advance shows: "aab" for "ab".)
FreshIsFound ==
    pc = "wait" \/ (pc = "done" /\ cret <= 0) => ~\E i \in Patterns : Fresh(rval[i])

\* serial_chat returns once the peer is silent: every read is timed.
ChatEnds == pc = "loop" ~> pc = "done"
=============================================================================

------------------------------ MODULE ConfSvc ------------------------------
(***************************************************************************)
(* The configuration service, sysconf.c, and with HasReq = FALSE the       *)
(* variant without deferred saves, trdp_conf.c.  The application changes   *)
(* the configuration in place, without the service; it asks the service to *)
(* save it at once (sysconf_save) or after a while (sysconf_save_req): the *)
(* latter counts the request, without the mutex, and (re)starts a timer,   *)
(* whose expiry runs sysconf_save_req_tmo in a thread of its own.          *)
(*                                                                         *)
(* Thread Main starts the service, loads the file, may delete it and stop  *)
(* the service; Workers change, save and load.  A step is one access to    *)
(* what the threads share.                                                 *)
(***************************************************************************)
EXTENDS Integers

CONSTANTS
    Workers, Main,  \* threads of the application
    Callbacks,      \* threads that expiries of the timer may run in
    HasReq,         \* whether there is a deferred save, as in sysconf.c
    SaveFails,      \* whether conf_save may fail to open the file
    Stops,          \* whether Main may stop the service
    MaxVer,         \* bound on the changes of the configuration
    MaxReq,         \* bound on save_req; none if CntMod or more
    CntMod          \* 2^32 in the code: save_req and save_ack are uint32_t

ASSUME ConfAssumption ==
    /\ Main \notin Workers \cup Callbacks /\ Workers \cap Callbacks = {}
    /\ {"free", "none"} \cap (Workers \cup Callbacks \cup {Main}) = {}
    /\ HasReq \in BOOLEAN /\ SaveFails \in BOOLEAN /\ Stops \in BOOLEAN
    /\ MaxVer \in Nat /\ MaxReq \in Nat
    /\ CntMod \in Nat /\ CntMod > 1

Threads == Workers \cup Callbacks \cup {Main}

VARIABLES
    started,    \* confsvc.started
    req, ack,   \* confsvc.save_req, confsvc.save_ack
    mutex,      \* "none" (not initialised, destroyed), "free" or its holder
    timer,      \* "none" (no timer), "off" or "armed"
    cfg,        \* the version of the configuration in memory
    file,       \* the configuration file: the version in it and its condition
    op, pc,     \* the call a thread is in and the next step of it
    tmp,        \* the value of save_req that an increment has read
    ver,        \* the version in memory when the call began, or what a load
                \*   made of it since
    want,       \* the newest version whose save the application asked for and
                \*   that no load has replaced
    boots       \* starts of the service so far

service == <<started, req, ack, mutex, timer>>
vars == <<service, cfg, file, op, pc, tmp, ver, want, boots>>

Ops == {"none", "load", "save", "req", "tick", "delete", "stop"}
Steps == {"idle", "lock", "read", "bump", "store", "arm", "test", "open",
          "write", "ack", "untimer", "unlink", "unlock", "destroy", "mark", "hung"}

TypeOK ==
    /\ started \in BOOLEAN
    /\ req \in 0 .. CntMod - 1 /\ ack \in 0 .. CntMod - 1
    /\ mutex \in Threads \cup {"free", "none"}
    /\ timer \in {"none", "off", "armed"}
    /\ cfg \in Nat
    /\ file \in [ver : Nat, cond : {"absent", "torn", "mixed", "whole"}]
    /\ op \in [Threads -> Ops] /\ pc \in [Threads -> Steps]
    /\ tmp \in [Threads -> 0 .. CntMod - 1]
    /\ ver \in [Threads -> Nat]
    /\ want \in Nat
    /\ boots \in Nat

Init ==
    /\ started = FALSE
    /\ req = 0 /\ ack = 0
    /\ mutex = "none" /\ timer = "none"
    /\ cfg = 0
    /\ file \in [ver : {0}, cond : {"absent", "whole"}]
    /\ op = [t \in Threads |-> "none"] /\ pc = [t \in Threads |-> "idle"]
    /\ tmp = [t \in Threads |-> 0] /\ ver = [t \in Threads |-> 0]
    /\ want = 0 /\ boots = 0

At(t, s) == pc[t] = s
Goto(t, s) == pc' = [pc EXCEPT ![t] = s]
Enter(t, o, s) == op' = [op EXCEPT ![t] = o] /\ Goto(t, s)
Larger(a, b) == IF a < b THEN b ELSE a
Smaller(a, b) == IF a < b THEN a ELSE b

-----------------------------------------------------------------------------
(* The life of the service, in thread Main.                                *)

\* sysconf_start, then sysconf_load; a failure of timer_create leaves the
\* service stopped.  Nothing else runs yet.
Start ==
    /\ At(Main, "idle") /\ ~started /\ boots = 0
    /\ req' = 0 /\ ack' = 0
    /\ mutex' = "free"
    /\ boots' = 1
    /\ \/ /\ started' = TRUE
          /\ timer' = IF HasReq THEN "off" ELSE "none"
          /\ Enter(Main, "load", "lock")
       \/ /\ HasReq
          /\ UNCHANGED <<started, timer, op, pc>>
    /\ UNCHANGED <<cfg, file, tmp, ver, want>>

Busy(t) == ~At(t, "idle")

\* The application stops calling before it stops the service.
Stop ==
    /\ Stops /\ At(Main, "idle") /\ started
    /\ \A w \in Workers : ~Busy(w)
    /\ Enter(Main, "stop", "lock")
    /\ UNCHANGED <<service, cfg, file, tmp, ver, want, boots>>

Delete ==
    /\ At(Main, "idle") /\ boots = 1
    /\ Enter(Main, "delete", IF started THEN "lock" ELSE "unlink")
    /\ UNCHANGED <<service, cfg, file, tmp, ver, want, boots>>

-----------------------------------------------------------------------------
(* The calls of a worker, once the file is loaded and until Main stops.    *)

Serving == started /\ op[Main] \notin {"load", "stop"}

Modify(w) ==
    /\ Serving /\ At(w, "idle") /\ cfg < MaxVer
    /\ cfg' = cfg + 1
    /\ UNCHANGED <<service, file, op, pc, tmp, ver, want, boots>>

Save(w) ==
    /\ Serving /\ At(w, "idle") /\ req < MaxReq
    /\ Enter(w, "save", "lock")
    /\ ver' = [ver EXCEPT ![w] = cfg]
    /\ UNCHANGED <<service, cfg, file, tmp, want, boots>>

SaveReq(w) ==
    /\ HasReq /\ Serving /\ At(w, "idle") /\ req < MaxReq
    /\ Enter(w, "req", "store")
    /\ tmp' = [tmp EXCEPT ![w] = req]
    /\ ver' = [ver EXCEPT ![w] = cfg]
    /\ UNCHANGED <<service, cfg, file, want, boots>>

\* sysconf_load once more, to go back to what the file holds.
Load(w) ==
    /\ Serving /\ At(w, "idle")
    /\ Enter(w, "load", "lock")
    /\ UNCHANGED <<service, cfg, file, tmp, ver, want, boots>>

\* The timer expires and a callback thread begins sysconf_save_req_tmo.
Expire(c) ==
    /\ timer = "armed" /\ At(c, "idle")
    /\ timer' = "off"
    /\ Enter(c, "tick", "lock")
    /\ UNCHANGED <<started, req, ack, mutex, cfg, file, tmp, ver, want, boots>>

-----------------------------------------------------------------------------
(* The steps of the calls.                                                 *)

FirstStep(o) ==
    CASE o = "load" -> "read"
      [] o = "save" -> "bump"
      [] o = "delete" -> "unlink"
      [] OTHER -> "test"

\* What pthread_mutex_lock does with a mutex that sysconf_stop has destroyed is
\* undefined: it returns, and nobody looks at what, or it never does.
Lock_Not(t) ==
    /\ At(t, "lock")
    /\ mutex' = IF mutex = "none" THEN "none" ELSE t
    /\ Goto(t, FirstStep(op[t]))
    /\ UNCHANGED <<started, req, ack, timer, cfg, file, op, tmp, ver, want, boots>>
Lock(t) ==
    /\ At(t, "lock")
    /\ \/ mutex = "free" /\ mutex' = t /\ Goto(t, FirstStep(op[t]))
       \/ /\ mutex = "none" /\ UNCHANGED mutex
          /\ Goto(t, FirstStep(op[t])) \/ Goto(t, "hung")
    /\ UNCHANGED <<started, req, ack, timer, cfg, file, op, tmp, ver, want, boots>>

\* conf_load; a damaged file is applied up to some point or not at all.  What
\* the file replaces in memory cannot be saved any more.
Read(t) ==
    /\ At(t, "read") /\ Goto(t, "unlock")
    /\ \/ /\ file.cond # "absent"
          /\ cfg' = file.ver
          /\ ver' = [s \in Threads |-> Smaller(ver[s], file.ver)]
          /\ want' = Smaller(want, file.ver)
       \/ file.cond # "whole" /\ UNCHANGED <<cfg, ver, want>>
    /\ UNCHANGED <<service, file, op, tmp, boots>>

\* confsvc.save_req++ is a read and a write.
Bump(t) ==
    /\ At(t, "bump") /\ Goto(t, "store")
    /\ tmp' = [tmp EXCEPT ![t] = req]
    /\ UNCHANGED <<service, cfg, file, op, ver, want, boots>>

Incremented_Not(n) == n
Incremented_Wide(n) == n + 1
Incremented(n) == (n + 1) % CntMod

Store(t) ==
    /\ At(t, "store") /\ Goto(t, IF op[t] = "req" THEN "arm" ELSE "test")
    /\ req' = Incremented(tmp[t])
    /\ UNCHANGED <<started, ack, mutex, timer, cfg, file, op, tmp, ver, want,
                   boots>>

\* timer_settime; the request is made when the call returns.
Arm_Not(t) ==
    /\ At(t, "arm") /\ Enter(t, "none", "idle")
    /\ want' = Larger(want, ver[t])
    /\ UNCHANGED <<service, cfg, file, tmp, ver, boots>>
Arm(t) ==
    /\ At(t, "arm") /\ Enter(t, "none", "idle")
    /\ timer' = IF timer = "none" THEN "none" ELSE "armed"
    /\ want' = Larger(want, ver[t])
    /\ UNCHANGED <<started, req, ack, mutex, cfg, file, tmp, ver, boots>>

AfterCommit(o) == IF o = "stop" THEN "untimer" ELSE "unlock"

\* sysconf_commit: nothing to do if every request is acknowledged.
Test(t) ==
    /\ At(t, "test")
    /\ Goto(t, IF ack = req THEN AfterCommit(op[t]) ELSE "open")
    /\ UNCHANGED <<service, cfg, file, op, tmp, ver, want, boots>>

\* conf_save truncates the file and then writes entry after entry; changes
\* made meanwhile leave it with entries of several versions.
Open(t) ==
    /\ At(t, "open")
    /\ \/ file' = [ver |-> cfg, cond |-> "torn"] /\ Goto(t, "write")
       \/ SaveFails /\ Goto(t, "ack") /\ UNCHANGED file
    /\ UNCHANGED <<service, cfg, op, tmp, ver, want, boots>>

Write(t) ==
    /\ At(t, "write") /\ Goto(t, "ack")
    /\ file' = [file EXCEPT !.cond = IF cfg = file.ver THEN "whole" ELSE "mixed"]
    /\ UNCHANGED <<service, cfg, op, tmp, ver, want, boots>>

\* Whether or not conf_save succeeded, and whatever was requested meanwhile.
Ack(t) ==
    /\ At(t, "ack") /\ Goto(t, AfterCommit(op[t]))
    /\ ack' = req
    /\ UNCHANGED <<started, req, mutex, timer, cfg, file, op, tmp, ver, want,
                   boots>>

Untimer(t) ==
    /\ At(t, "untimer") /\ Goto(t, "unlock")
    /\ timer' = "none"
    /\ UNCHANGED <<started, req, ack, mutex, cfg, file, op, tmp, ver, want, boots>>

\* Deleting the file voids what was saved before.
Unlink(t) ==
    /\ At(t, "unlink")
    /\ file' = [ver |-> 0, cond |-> "absent"]
    /\ want' = 0
    /\ IF started THEN Goto(t, "unlock") /\ UNCHANGED op
                  ELSE Enter(t, "none", "idle")
    /\ UNCHANGED <<service, cfg, tmp, ver, boots>>

Unlock(t) ==
    /\ At(t, "unlock")
    /\ mutex' = IF mutex = "none" THEN "none" ELSE "free"
    /\ IF op[t] = "stop" THEN Goto(t, "destroy") /\ UNCHANGED op
                         ELSE Enter(t, "none", "idle")
    /\ want' = IF op[t] = "save" THEN Larger(want, ver[t]) ELSE want
    /\ UNCHANGED <<started, req, ack, timer, cfg, file, tmp, ver, boots>>

Destroy(t) ==
    /\ At(t, "destroy") /\ Goto(t, "mark")
    /\ mutex' = "none"
    /\ UNCHANGED <<started, req, ack, timer, cfg, file, op, tmp, ver, want, boots>>

Mark(t) ==
    /\ At(t, "mark") /\ Enter(t, "none", "idle")
    /\ started' = FALSE
    /\ UNCHANGED <<req, ack, mutex, timer, cfg, file, tmp, ver, want, boots>>

Step(t) ==
    \/ Lock(t) \/ Read(t) \/ Bump(t) \/ Store(t) \/ Arm(t)
    \/ Test(t) \/ Open(t) \/ Write(t) \/ Ack(t)
    \/ Untimer(t) \/ Unlink(t) \/ Unlock(t) \/ Destroy(t) \/ Mark(t)

Next ==
    \/ Start \/ Stop \/ Delete
    \/ \E w \in Workers : Modify(w) \/ Save(w) \/ SaveReq(w) \/ Load(w)
    \/ \E c \in Callbacks : Expire(c)
    \/ \E t \in Threads : Step(t)

Spec == Init /\ [][Next]_vars

\* A call that began goes on, and the timer expires if no request restarts
\* it for long enough.
QuietExpire ==
    /\ \A w \in Workers : ~Busy(w)
    /\ \E c \in Callbacks : Expire(c)
Fairness == WF_vars(QuietExpire) /\ \A t \in Threads : WF_vars(Step(t))
FairSpec == Spec /\ Fairness

-----------------------------------------------------------------------------

\* Where a thread must be alone.  A callback that sysconf_stop overtook looks
\* at the counters without the mutex.
Critical == {"read", "bump", "open", "write", "ack", "untimer"}
Inside(t) ==
    \/ pc[t] \in Critical
    \/ At(t, "store") /\ op[t] = "save"
    \/ At(t, "test") /\ mutex # "none"

\* Two threads never save or load at the same time (sysconf.c:319-325,
\* 338-343, 351-353, 449-456), and callbacks still on their way when
\* sysconf_stop destroys the mutex (sysconf.c:458) find nothing to save if
\* locking it lets them go on.
Exclusive ==
    /\ \A s, t \in Threads : Inside(s) /\ Inside(t) => s = t
    /\ mutex = "none" => \A t \in Threads : ~Inside(t)

\* A request that the counters say is pending will be looked at: the timer
\* runs, or some thread is still to commit (sysconf.c:295-305, 367-375).
PendingIsScheduled ==
    req # ack =>
        \/ timer = "armed"
        \/ \E t \in Threads :
             \/ pc[t] \in {"arm", "test", "open", "write", "ack"}
             \/ At(t, "lock") /\ op[t] \in {"tick", "save", "stop"}

\* Once the application is quiet, what is pending is acknowledged in the end
\* although the timer is restarted by every request (sysconf.c:369-377).
PendingIsAcked ==
    <>[](\A t \in Workers \cup {Main} : ~Busy(t)) => []<>(req = ack)

\* When sysconf_save is about to return, the file holds the version in memory
\* at the time of the call or a newer one (sysconf.c:340-341), unless a load
\* went in between and put back what the file held.
SaveIsDurable ==
    \A t \in Threads :
        At(t, "unlock") /\ op[t] = "save" =>
            file.cond # "absent" /\ file.ver >= ver[t]

\* "commit any pending save request": once the service is stopped, the file
\* holds what the application asked to save (sysconf.c:451).
Stopped == boots = 1 /\ ~started
StopCommits ==
    Stopped /\ (\A t \in Threads : ~Busy(t)) => want <= file.ver
=============================================================================

--------------------------- MODULE ConfSvc_proofs ---------------------------
(***************************************************************************)
(* Proofs about ConfSvc, for every set of threads, of callbacks, every     *)
(* modulus of the counters, with and without the deferred save.  What      *)
(* concerns a service whose every save is at once and succeeds, as in      *)
(* trdp_conf.c, has HasReq = FALSE and SaveFails = FALSE as assumptions.   *)
(***************************************************************************)
EXTENDS ConfSvc, TLAPS

\* What most proofs use of the assumptions.
LEMMA Distinct ==
    /\ Main \in Threads /\ Main \notin Workers /\ Main \notin Callbacks
    /\ \A t \in Threads : t # "free" /\ t # "none"
    /\ \A t \in Threads : t \in Workers \/ t \in Callbacks \/ t = Main
    /\ \A w \in Workers : w \in Threads /\ w \notin Callbacks /\ w # Main
    /\ \A c \in Callbacks : c \in Threads /\ c \notin Workers /\ c # Main
BY ConfAssumption DEF Threads

LEMMA Counter == CntMod \in Nat /\ CntMod > 1
BY ConfAssumption

(***************************************************************************)
(* The inductive invariant.                                                *)
(***************************************************************************)

\* Which call has which steps, and which thread makes which call.
Shape == \A t \in Threads :
    /\ op[t] = "none" <=> pc[t] = "idle"
    /\ pc[t] = "read" => op[t] = "load"
    /\ pc[t] = "bump" => op[t] = "save"
    /\ pc[t] = "store" => op[t] \in {"save", "req"}
    /\ pc[t] = "arm" => op[t] = "req"
    /\ pc[t] \in {"test", "open", "write", "ack"} => op[t] \in {"save", "tick", "stop"}
    /\ pc[t] \in {"untimer", "destroy", "mark"} => op[t] = "stop"
    /\ pc[t] = "unlink" => op[t] = "delete"
    /\ pc[t] \in {"lock", "unlock"} => op[t] # "req"
    /\ t \in Workers => op[t] \in {"none", "save", "req", "load"}
    /\ pc[t] = "hung" => op[t] # "none"
    /\ t \in Callbacks => op[t] \in {"none", "tick"}
    /\ t = Main => op[t] \in {"none", "load", "delete", "stop"}

\* What the life of the service says of its mutex, its timer and its threads.
Life ==
    /\ \A w \in Workers : pc[w] # "idle" => started /\ op[Main] \notin {"load", "stop"}
    /\ started => boots # 0 /\ (mutex # "none" \/ pc[Main] = "mark")
    /\ ~started => pc[Main] \in {"idle", "unlink"}
    /\ boots = 0 => /\ mutex = "none" /\ timer = "none"
                    /\ \A t \in Threads : pc[t] = "idle"
    /\ started /\ HasReq =>
          timer # "none" \/ (op[Main] = "stop" /\ pc[Main] \in {"unlock", "destroy", "mark"})
    /\ ~HasReq => timer = "none" /\ (\A t \in Threads : op[t] \notin {"req", "tick"})

\* The thread t has the mutex, unless that does not exist.
Holds(t) ==
    \/ pc[t] \in {"read", "bump", "test", "open", "write", "ack", "untimer", "unlock"}
    \/ pc[t] = "store" /\ op[t] = "save"
    \/ pc[t] = "unlink" /\ started
Locked == mutex # "none" => \A t \in Threads : Holds(t) => mutex = t

\* The thread t is about to look at the counters or to acknowledge.
Commits(t) ==
    \/ pc[t] \in {"arm", "test", "open", "write", "ack"}
    \/ pc[t] = "lock" /\ op[t] = "tick"
Over ==
    ~started \/ (op[Main] = "stop" /\ pc[Main] \in {"untimer", "unlock", "destroy", "mark"})
Pending ==
    /\ req # ack => timer = "armed" \/ \E t \in Threads : Commits(t)
    /\ Over => req = ack /\ \A t \in Threads : pc[t] \notin {"open", "write", "ack"}

IInv == TypeOK /\ Shape /\ Life /\ Locked /\ Pending

\* If every save is at once and succeeds: only a save that has counted itself
\* is not acknowledged, and it has written before it acknowledges.
Dirty(t) == op[t] = "save" /\ pc[t] \in {"test", "open", "write", "ack"}
Saved ==
    /\ file.ver <= cfg /\ want <= file.ver
    /\ boots = 0 \/ op[Main] = "load" => file.ver = 0
    /\ req # ack => \E t \in Threads : Dirty(t)
    /\ \A t \in Threads : op[t] = "save" =>
          /\ ver[t] <= cfg
          /\ pc[t] = "store" => tmp[t] = req
          /\ pc[t] = "test" => req # ack
          /\ pc[t] \in {"write", "ack", "unlock"} => file.cond # "absent" /\ ver[t] <= file.ver

LEMMA TypeStep ==
    ASSUME TypeOK, [Next]_vars
    PROVE  TypeOK'
<1> USE Distinct, Counter DEF TypeOK, Ops, Steps
<1>1. CASE Start
  <2>1. /\ started' \in BOOLEAN /\ timer' \in {"none", "off", "armed"}
        /\ op' \in [Threads -> Ops] /\ pc' \in [Threads -> Steps]
    BY <1>1 DEF Start, Goto, Enter
  <2>2. QED
    BY <1>1, <2>1 DEF Start
<1>2. CASE Stop
  BY <1>2 DEF Stop, Busy, Goto, Enter, At, service
<1>3. CASE Delete
  BY <1>3 DEF Delete, Busy, Goto, Enter, At, service
<1>4. ASSUME NEW w \in Workers, Modify(w) \/ Save(w) \/ SaveReq(w) \/ Load(w)
      PROVE  TypeOK'
  BY <1>4 DEF Modify, Save, SaveReq, Load, Serving, Goto, Enter, At, service
<1>5. ASSUME NEW c \in Callbacks, Expire(c)
      PROVE  TypeOK'
  BY <1>5 DEF Expire, Goto, Enter, At, service
<1>6. ASSUME NEW t \in Threads, Lock(t) PROVE TypeOK'
  BY <1>6 DEF Lock, Goto, Enter, At, service, FirstStep
<1>7. ASSUME NEW t \in Threads, Read(t) PROVE TypeOK'
  BY <1>7 DEF Read, Goto, Enter, At, service, Smaller
<1>8. ASSUME NEW t \in Threads, Bump(t) PROVE TypeOK'
  BY <1>8 DEF Bump, Goto, Enter, At, service
<1>9. ASSUME NEW t \in Threads, Store(t) PROVE TypeOK'
  BY <1>9 DEF Store, Goto, Enter, At, service, Incremented
<1>10. ASSUME NEW t \in Threads, Arm(t) PROVE TypeOK'
  BY <1>10 DEF Arm, Goto, Enter, At, service, Larger
<1>11. ASSUME NEW t \in Threads, Test(t) PROVE TypeOK'
  BY <1>11 DEF Test, Goto, Enter, At, service, AfterCommit
<1>12. ASSUME NEW t \in Threads, Open(t) PROVE TypeOK'
  BY <1>12 DEF Open, Goto, Enter, At, service
<1>13. ASSUME NEW t \in Threads, Write(t) PROVE TypeOK'
  BY <1>13 DEF Write, Goto, Enter, At, service
<1>14. ASSUME NEW t \in Threads, Ack(t) PROVE TypeOK'
  BY <1>14 DEF Ack, Goto, Enter, At, service, AfterCommit
<1>15. ASSUME NEW t \in Threads, Untimer(t) PROVE TypeOK'
  BY <1>15 DEF Untimer, Goto, Enter, At, service
<1>16. ASSUME NEW t \in Threads, Unlink(t) PROVE TypeOK'
  BY <1>16 DEF Unlink, Goto, Enter, At, service
<1>17. ASSUME NEW t \in Threads, Unlock(t) PROVE TypeOK'
  BY <1>17 DEF Unlock, Goto, Enter, At, service, Larger
<1>18. ASSUME NEW t \in Threads, Destroy(t) PROVE TypeOK'
  BY <1>18 DEF Destroy, Goto, Enter, At, service
<1>19. ASSUME NEW t \in Threads, Mark(t) PROVE TypeOK'
  BY <1>19 DEF Mark, Goto, Enter, At, service
<1>20. CASE UNCHANGED vars
  BY <1>20 DEF vars, service
<1>21. QED
  BY <1>1, <1>2, <1>3, <1>4, <1>5, <1>6, <1>7, <1>8, <1>9, <1>10,
     <1>11, <1>12, <1>13, <1>14, <1>15, <1>16, <1>17, <1>18, <1>19, <1>20
  DEF Next, Step

LEMMA ShapeStep ==
    ASSUME TypeOK, Shape, [Next]_vars
    PROVE  Shape'
<1> USE Distinct DEF TypeOK, Shape
<1>1. CASE Start
  BY <1>1 DEF Start, Busy, Goto, Enter, At, service
<1>2. CASE Stop
  BY <1>2 DEF Stop, Busy, Goto, Enter, At, service
<1>3. CASE Delete
  BY <1>3 DEF Delete, Busy, Goto, Enter, At, service
<1>4. ASSUME NEW w \in Workers, Modify(w) \/ Save(w) \/ SaveReq(w) \/ Load(w)
      PROVE  Shape'
  BY <1>4 DEF Modify, Save, SaveReq, Load, Serving, Goto, Enter, At, service
<1>5. ASSUME NEW c \in Callbacks, Expire(c)
      PROVE  Shape'
  BY <1>5 DEF Expire, Goto, Enter, At, service
<1>6. ASSUME NEW t \in Threads, Lock(t) PROVE Shape'
  BY <1>6 DEF Lock, Goto, Enter, At, service, FirstStep
<1>7. ASSUME NEW t \in Threads, Read(t) PROVE Shape'
  BY <1>7 DEF Read, Goto, Enter, At, service, Smaller
<1>8. ASSUME NEW t \in Threads, Bump(t) PROVE Shape'
  BY <1>8 DEF Bump, Goto, Enter, At, service
<1>9. ASSUME NEW t \in Threads, Store(t) PROVE Shape'
  BY <1>9 DEF Store, Goto, Enter, At, service, Incremented
<1>10. ASSUME NEW t \in Threads, Arm(t) PROVE Shape'
  BY <1>10 DEF Arm, Goto, Enter, At, service, Larger
<1>11. ASSUME NEW t \in Threads, Test(t) PROVE Shape'
  BY <1>11 DEF Test, Goto, Enter, At, service, AfterCommit
<1>12. ASSUME NEW t \in Threads, Open(t) PROVE Shape'
  BY <1>12 DEF Open, Goto, Enter, At, service
<1>13. ASSUME NEW t \in Threads, Write(t) PROVE Shape'
  BY <1>13 DEF Write, Goto, Enter, At, service
<1>14. ASSUME NEW t \in Threads, Ack(t) PROVE Shape'
  BY <1>14 DEF Ack, Goto, Enter, At, service, AfterCommit
<1>15. ASSUME NEW t \in Threads, Untimer(t) PROVE Shape'
  BY <1>15 DEF Untimer, Goto, Enter, At, service
<1>16. ASSUME NEW t \in Threads, Unlink(t) PROVE Shape'
  BY <1>16 DEF Unlink, Goto, Enter, At, service
<1>17. ASSUME NEW t \in Threads, Unlock(t) PROVE Shape'
  BY <1>17 DEF Unlock, Goto, Enter, At, service, Larger
<1>18. ASSUME NEW t \in Threads, Destroy(t) PROVE Shape'
  BY <1>18 DEF Destroy, Goto, Enter, At, service
<1>19. ASSUME NEW t \in Threads, Mark(t) PROVE Shape'
  BY <1>19 DEF Mark, Goto, Enter, At, service
<1>20. CASE UNCHANGED vars
  BY <1>20 DEF vars, service
<1>21. QED
  BY <1>1, <1>2, <1>3, <1>4, <1>5, <1>6, <1>7, <1>8, <1>9, <1>10,
     <1>11, <1>12, <1>13, <1>14, <1>15, <1>16, <1>17, <1>18, <1>19, <1>20
  DEF Next, Step

LEMMA LifeStep ==
    ASSUME TypeOK, Shape, Life, Locked, [Next]_vars
    PROVE  Life'
<1> USE Distinct DEF TypeOK, Shape, Life, Locked, Holds
<1>1. CASE Start
  BY <1>1 DEF Start, Busy, Goto, Enter, At, service
<1>2. CASE Stop
  BY <1>2 DEF Stop, Busy, Goto, Enter, At, service
<1>3. CASE Delete
  BY <1>3 DEF Delete, Busy, Goto, Enter, At, service
<1>4. ASSUME NEW w \in Workers, Modify(w) \/ Save(w) \/ SaveReq(w) \/ Load(w)
      PROVE  Life'
  BY <1>4 DEF Modify, Save, SaveReq, Load, Serving, Goto, Enter, At, service
<1>5. ASSUME NEW c \in Callbacks, Expire(c)
      PROVE  Life'
  <2>1. /\ HasReq /\ timer' = "off" /\ UNCHANGED <<started, mutex, boots>>
        /\ op' = [op EXCEPT ![c] = "tick"] /\ pc' = [pc EXCEPT ![c] = "lock"]
    BY <1>5 DEF Expire, Goto, Enter
  <2>2. boots # 0
    BY <1>5 DEF Expire
  <2>3. QED
    BY <2>1, <2>2
<1>6. ASSUME NEW t \in Threads, Lock(t) PROVE Life'
  BY <1>6 DEF Lock, Goto, Enter, At, service, FirstStep
<1>7. ASSUME NEW t \in Threads, Read(t) PROVE Life'
  BY <1>7 DEF Read, Goto, Enter, At, service, Smaller
<1>8. ASSUME NEW t \in Threads, Bump(t) PROVE Life'
  BY <1>8 DEF Bump, Goto, Enter, At, service
<1>9. ASSUME NEW t \in Threads, Store(t) PROVE Life'
  BY <1>9 DEF Store, Goto, Enter, At, service, Incremented
<1>10. ASSUME NEW t \in Threads, Arm(t) PROVE Life'
  BY <1>10 DEF Arm, Goto, Enter, At, service, Larger
<1>11. ASSUME NEW t \in Threads, Test(t) PROVE Life'
  BY <1>11 DEF Test, Goto, Enter, At, service, AfterCommit
<1>12. ASSUME NEW t \in Threads, Open(t) PROVE Life'
  BY <1>12 DEF Open, Goto, Enter, At, service
<1>13. ASSUME NEW t \in Threads, Write(t) PROVE Life'
  BY <1>13 DEF Write, Goto, Enter, At, service
<1>14. ASSUME NEW t \in Threads, Ack(t) PROVE Life'
  BY <1>14 DEF Ack, Goto, Enter, At, service, AfterCommit
<1>15. ASSUME NEW t \in Threads, Untimer(t) PROVE Life'
  BY <1>15 DEF Untimer, Goto, Enter, At, service
<1>16. ASSUME NEW t \in Threads, Unlink(t) PROVE Life'
  BY <1>16 DEF Unlink, Goto, Enter, At, service
<1>17. ASSUME NEW t \in Threads, Unlock(t) PROVE Life'
  BY <1>17 DEF Unlock, Goto, Enter, At, service, Larger
<1>18. ASSUME NEW t \in Threads, Destroy(t) PROVE Life'
  BY <1>18 DEF Destroy, Goto, Enter, At, service
<1>19. ASSUME NEW t \in Threads, Mark(t) PROVE Life'
  BY <1>19 DEF Mark, Goto, Enter, At, service
<1>20. CASE UNCHANGED vars
  BY <1>20 DEF vars, service
<1>21. QED
  BY <1>1, <1>2, <1>3, <1>4, <1>5, <1>6, <1>7, <1>8, <1>9, <1>10,
     <1>11, <1>12, <1>13, <1>14, <1>15, <1>16, <1>17, <1>18, <1>19, <1>20
  DEF Next, Step

LEMMA LockedStep ==
    ASSUME TypeOK, Shape, Life, Locked, [Next]_vars
    PROVE  Locked'
<1> USE Distinct DEF TypeOK, Shape, Life, Locked, Holds
<1>1. CASE Start
  BY <1>1 DEF Start, Busy, Goto, Enter, At, service
<1>2. CASE Stop
  BY <1>2 DEF Stop, Busy, Goto, Enter, At, service
<1>3. CASE Delete
  BY <1>3 DEF Delete, Busy, Goto, Enter, At, service
<1>4. ASSUME NEW w \in Workers, Modify(w) \/ Save(w) \/ SaveReq(w) \/ Load(w)
      PROVE  Locked'
  BY <1>4 DEF Modify, Save, SaveReq, Load, Serving, Goto, Enter, At, service
<1>5. ASSUME NEW c \in Callbacks, Expire(c)
      PROVE  Locked'
  BY <1>5 DEF Expire, Goto, Enter, At, service
<1>6. ASSUME NEW t \in Threads, Lock(t) PROVE Locked'
  BY <1>6 DEF Lock, Goto, Enter, At, service, FirstStep
<1>7. ASSUME NEW t \in Threads, Read(t) PROVE Locked'
  BY <1>7 DEF Read, Goto, Enter, At, service, Smaller
<1>8. ASSUME NEW t \in Threads, Bump(t) PROVE Locked'
  BY <1>8 DEF Bump, Goto, Enter, At, service
<1>9. ASSUME NEW t \in Threads, Store(t) PROVE Locked'
  BY <1>9 DEF Store, Goto, Enter, At, service, Incremented
<1>10. ASSUME NEW t \in Threads, Arm(t) PROVE Locked'
  BY <1>10 DEF Arm, Goto, Enter, At, service, Larger
<1>11. ASSUME NEW t \in Threads, Test(t) PROVE Locked'
  BY <1>11 DEF Test, Goto, Enter, At, service, AfterCommit
<1>12. ASSUME NEW t \in Threads, Open(t) PROVE Locked'
  BY <1>12 DEF Open, Goto, Enter, At, service
<1>13. ASSUME NEW t \in Threads, Write(t) PROVE Locked'
  BY <1>13 DEF Write, Goto, Enter, At, service
<1>14. ASSUME NEW t \in Threads, Ack(t) PROVE Locked'
  BY <1>14 DEF Ack, Goto, Enter, At, service, AfterCommit
<1>15. ASSUME NEW t \in Threads, Untimer(t) PROVE Locked'
  BY <1>15 DEF Untimer, Goto, Enter, At, service
<1>16. ASSUME NEW t \in Threads, Unlink(t) PROVE Locked'
  BY <1>16 DEF Unlink, Goto, Enter, At, service
<1>17. ASSUME NEW t \in Threads, Unlock(t) PROVE Locked'
  BY <1>17 DEF Unlock, Goto, Enter, At, service, Larger
<1>18. ASSUME NEW t \in Threads, Destroy(t) PROVE Locked'
  BY <1>18 DEF Destroy, Goto, Enter, At, service
<1>19. ASSUME NEW t \in Threads, Mark(t) PROVE Locked'
  BY <1>19 DEF Mark, Goto, Enter, At, service
<1>20. CASE UNCHANGED vars
  BY <1>20 DEF vars, service
<1>21. QED
  BY <1>1, <1>2, <1>3, <1>4, <1>5, <1>6, <1>7, <1>8, <1>9, <1>10,
     <1>11, <1>12, <1>13, <1>14, <1>15, <1>16, <1>17, <1>18, <1>19, <1>20
  DEF Next, Step

LEMMA PendingStep ==
    ASSUME TypeOK, Shape, Life, Locked, Pending, [Next]_vars
    PROVE  Pending'
<1> USE Distinct DEF TypeOK, Shape, Life, Locked, Holds, Pending, Commits, Over
<1>1. CASE Start
  BY <1>1 DEF Start, Busy, Goto, Enter, At, service
<1>2. CASE Stop
  BY <1>2 DEF Stop, Busy, Goto, Enter, At, service
<1>3. CASE Delete
  BY <1>3 DEF Delete, Busy, Goto, Enter, At, service
<1>4. ASSUME NEW w \in Workers, Modify(w) \/ Save(w) \/ SaveReq(w) \/ Load(w)
      PROVE  Pending'
  BY <1>4 DEF Modify, Save, SaveReq, Load, Serving, Goto, Enter, At, service
<1>5. ASSUME NEW c \in Callbacks, Expire(c)
      PROVE  Pending'
  BY <1>5 DEF Expire, Goto, Enter, At, service
<1>6. ASSUME NEW t \in Threads, Lock(t) PROVE Pending'
  BY <1>6 DEF Lock, Goto, Enter, At, service, FirstStep
<1>7. ASSUME NEW t \in Threads, Read(t) PROVE Pending'
  BY <1>7 DEF Read, Goto, Enter, At, service, Smaller
<1>8. ASSUME NEW t \in Threads, Bump(t) PROVE Pending'
  BY <1>8 DEF Bump, Goto, Enter, At, service
<1>9. ASSUME NEW t \in Threads, Store(t) PROVE Pending'
  BY <1>9 DEF Store, Goto, Enter, At, service, Incremented
<1>10. ASSUME NEW t \in Threads, Arm(t) PROVE Pending'
  BY <1>10 DEF Arm, Goto, Enter, At, service, Larger
<1>11. ASSUME NEW t \in Threads, Test(t) PROVE Pending'
  BY <1>11 DEF Test, Goto, Enter, At, service, AfterCommit
<1>12. ASSUME NEW t \in Threads, Open(t) PROVE Pending'
  BY <1>12 DEF Open, Goto, Enter, At, service
<1>13. ASSUME NEW t \in Threads, Write(t) PROVE Pending'
  BY <1>13 DEF Write, Goto, Enter, At, service
<1>14. ASSUME NEW t \in Threads, Ack(t) PROVE Pending'
  BY <1>14 DEF Ack, Goto, Enter, At, service, AfterCommit
<1>15. ASSUME NEW t \in Threads, Untimer(t) PROVE Pending'
  BY <1>15 DEF Untimer, Goto, Enter, At, service
<1>16. ASSUME NEW t \in Threads, Unlink(t) PROVE Pending'
  BY <1>16 DEF Unlink, Goto, Enter, At, service
<1>17. ASSUME NEW t \in Threads, Unlock(t) PROVE Pending'
  BY <1>17 DEF Unlock, Goto, Enter, At, service, Larger
<1>18. ASSUME NEW t \in Threads, Destroy(t) PROVE Pending'
  BY <1>18 DEF Destroy, Goto, Enter, At, service
<1>19. ASSUME NEW t \in Threads, Mark(t) PROVE Pending'
  BY <1>19 DEF Mark, Goto, Enter, At, service
<1>20. CASE UNCHANGED vars
  BY <1>20 DEF vars, service
<1>21. QED
  BY <1>1, <1>2, <1>3, <1>4, <1>5, <1>6, <1>7, <1>8, <1>9, <1>10,
     <1>11, <1>12, <1>13, <1>14, <1>15, <1>16, <1>17, <1>18, <1>19, <1>20
  DEF Next, Step

LEMMA InitInv == Init => IInv
<1> SUFFICES ASSUME Init PROVE IInv
  OBVIOUS
<1> USE Distinct, Counter DEF Init
<1>1. TypeOK
  <2>1. /\ started \in BOOLEAN /\ mutex \in Threads \cup {"free", "none"}
        /\ timer \in {"none", "off", "armed"}
    OBVIOUS
  <2>2. /\ req \in 0 .. CntMod - 1 /\ ack \in 0 .. CntMod - 1
        /\ cfg \in Nat /\ want \in Nat /\ boots \in Nat
    OBVIOUS
  <2>3. file \in [ver : Nat, cond : {"absent", "torn", "mixed", "whole"}]
    OBVIOUS
  <2>4. /\ op \in [Threads -> Ops] /\ pc \in [Threads -> Steps]
        /\ tmp \in [Threads -> 0 .. CntMod - 1] /\ ver \in [Threads -> Nat]
    BY DEF Ops, Steps
  <2>5. QED
    BY <2>1, <2>2, <2>3, <2>4 DEF TypeOK
<1>2. Shape /\ Life /\ Locked /\ Pending
  BY DEF Shape, Life, Locked, Holds, Pending, Over
<1>3. QED
  BY <1>1, <1>2 DEF IInv

\* IInv is an invariant of every execution.
THEOREM Inductive == Spec => []IInv
<1>1. IInv /\ [Next]_vars => IInv'
  BY TypeStep, ShapeStep, LifeStep, LockedStep, PendingStep DEF IInv
<1>2. QED
  BY <1>1, InitInv, PTL DEF Spec

\* The state of the service and of the calls keeps its types; the counters
\* stay within 32 bits.
THEOREM TypeCorrect == Spec => []TypeOK
<1>1. IInv => TypeOK
  BY DEF IInv
<1>2. QED
  BY <1>1, Inductive, PTL

\* No two threads load or save at the same time, whatever number of expiries
\* of the timer is on its way, and none once the mutex has been destroyed.
THEOREM MutualExclusion == Spec => []Exclusive
<1>1. ASSUME IInv PROVE Exclusive
  <2>1. CASE mutex # "none"
    BY <1>1, <2>1, Distinct DEF IInv, Locked, Holds, Exclusive, Inside, Critical, At
  <2>2. CASE mutex = "none"
    <3>1. ~started \/ pc[Main] = "mark"
      BY <1>1, <2>2 DEF IInv, Life
    <3>2. \A t \in Threads : ~Inside(t)
      BY <1>1, <2>2, <3>1, Distinct
         DEF IInv, Shape, Life, Pending, Over, Inside, Critical, At
    <3>3. QED
      BY <3>2 DEF Exclusive
  <2>3. QED
    BY <2>1, <2>2
<1>2. QED
  BY <1>1, Inductive, PTL

\* A request that the counters say is pending will be looked at.
THEOREM NothingForgotten == Spec => []PendingIsScheduled
<1>1. IInv => PendingIsScheduled
  BY DEF IInv, Pending, Commits, PendingIsScheduled, At
<1>2. QED
  BY <1>1, Inductive, PTL

(***************************************************************************)
(* Saves that are made at once and succeed.                                *)
(***************************************************************************)

Direct == HasReq = FALSE /\ SaveFails = FALSE

LEMMA Differs == \A n \in 0 .. CntMod - 1 : Incremented(n) # n
BY Counter DEF Incremented

LEMMA SavedStep ==
    ASSUME Direct, IInv, Saved, [Next]_vars
    PROVE  Saved'
<1> USE Distinct DEF Direct, IInv, TypeOK, Shape, Life, Locked, Holds, Saved, Dirty
<1>1. CASE Start
  BY <1>1 DEF Start, Busy, Goto, Enter, At, service
<1>2. CASE Stop
  BY <1>2 DEF Stop, Busy, Goto, Enter, At, service
<1>3. CASE Delete
  BY <1>3 DEF Delete, Busy, Goto, Enter, At, service
<1>4. ASSUME NEW w \in Workers, Modify(w) \/ Save(w) \/ SaveReq(w) \/ Load(w)
      PROVE  Saved'
  BY <1>4 DEF Modify, Save, SaveReq, Load, Serving, Goto, Enter, At, service
<1>5. ASSUME NEW c \in Callbacks, Expire(c)
      PROVE  Saved'
  BY <1>5 DEF Expire, Goto, Enter, At, service
<1>6. ASSUME NEW t \in Threads, Lock(t) PROVE Saved'
  BY <1>6 DEF Lock, Goto, Enter, At, service, FirstStep
<1>7. ASSUME NEW t \in Threads, Read(t) PROVE Saved'
  BY <1>7 DEF Read, Goto, Enter, At, service, Smaller
<1>8. ASSUME NEW t \in Threads, Bump(t) PROVE Saved'
  BY <1>8 DEF Bump, Goto, Enter, At, service
<1>9. ASSUME NEW t \in Threads, Store(t) PROVE Saved'
  BY <1>9, Differs DEF Store, Goto, Enter, At, service
<1>10. ASSUME NEW t \in Threads, Arm(t) PROVE Saved'
  BY <1>10 DEF Arm, Goto, Enter, At, service, Larger
<1>11. ASSUME NEW t \in Threads, Test(t) PROVE Saved'
  BY <1>11 DEF Test, Goto, Enter, At, service, AfterCommit
<1>12. ASSUME NEW t \in Threads, Open(t) PROVE Saved'
  BY <1>12 DEF Open, Goto, Enter, At, service
<1>13. ASSUME NEW t \in Threads, Write(t) PROVE Saved'
  BY <1>13 DEF Write, Goto, Enter, At, service
<1>14. ASSUME NEW t \in Threads, Ack(t) PROVE Saved'
  BY <1>14 DEF Ack, Goto, Enter, At, service, AfterCommit
<1>15. ASSUME NEW t \in Threads, Untimer(t) PROVE Saved'
  BY <1>15 DEF Untimer, Goto, Enter, At, service
<1>16. ASSUME NEW t \in Threads, Unlink(t) PROVE Saved'
  BY <1>16 DEF Unlink, Goto, Enter, At, service
<1>17. ASSUME NEW t \in Threads, Unlock(t) PROVE Saved'
  BY <1>17 DEF Unlock, Goto, Enter, At, service, Larger
<1>18. ASSUME NEW t \in Threads, Destroy(t) PROVE Saved'
  BY <1>18 DEF Destroy, Goto, Enter, At, service
<1>19. ASSUME NEW t \in Threads, Mark(t) PROVE Saved'
  BY <1>19 DEF Mark, Goto, Enter, At, service
<1>20. CASE UNCHANGED vars
  BY <1>20 DEF vars, service
<1>21. QED
  BY <1>1, <1>2, <1>3, <1>4, <1>5, <1>6, <1>7, <1>8, <1>9, <1>10,
     <1>11, <1>12, <1>13, <1>14, <1>15, <1>16, <1>17, <1>18, <1>19, <1>20
  DEF Next, Step

LEMMA DirectInductive == ASSUME Direct PROVE Spec => [](IInv /\ Saved)
<1>1. Init => Saved
  BY Distinct DEF Init, Saved
<1>2. IInv /\ Saved /\ [Next]_vars => Saved'
  BY SavedStep
<1>3. QED
  BY <1>1, <1>2, Inductive, PTL DEF Spec

\* When a save is about to return, the file holds the version in memory at
\* the time of the call or a newer one.
THEOREM Durable == ASSUME Direct PROVE Spec => []SaveIsDurable
<1>1. IInv /\ Saved => SaveIsDurable
  BY DEF Saved, SaveIsDurable, At, IInv, TypeOK
<1>2. QED
  BY <1>1, DirectInductive, PTL

\* A service that is stopped leaves in the file what the application asked to
\* save.
THEOREM StopLeavesAll == ASSUME Direct PROVE Spec => []StopCommits
<1>1. IInv /\ Saved => StopCommits
  BY DEF Saved, StopCommits
<1>2. QED
  BY <1>1, DirectInductive, PTL

=============================================================================

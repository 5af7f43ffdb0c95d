---------------------------- MODULE PgrepProofs ----------------------------
(***************************************************************************)
(* Proofs about Pgrep for any number of workers, pids and traces.          *)
(***************************************************************************)
EXTENDS Pgrep, SequenceTheorems, TLAPS

(* Every step is for Zenon first and, if that does not find a proof soon,   *)
(* for the SMT solver.                                                      *)
USE ZenonT(5), SMTT(30)

(* Dropping the last element keeps the others in place. *)
LEMMA DropLast ==
  ASSUME NEW S, NEW s \in Seq(S), Len(s) > 0
  PROVE  /\ SubSeq(s, 1, Len(s) - 1) \in Seq(S)
         /\ Len(SubSeq(s, 1, Len(s) - 1)) = Len(s) - 1
         /\ \A i \in 1..(Len(s) - 1) : SubSeq(s, 1, Len(s) - 1)[i] = s[i]
<1>1. Len(s) \in Nat /\ \A i \in 1..(Len(s) - 1) : s[i] \in S
  OBVIOUS
<1> DEFINE n == Len(s) - 1
<1>2. n \in Nat /\ 1 \in Int /\ \A i \in 1..n : s[i] \in S
  BY <1>1
<1>3. SUFFICES /\ SubSeq(s, 1, n) \in Seq(S)
               /\ Len(SubSeq(s, 1, n)) = n
               /\ \A i \in 1..n : SubSeq(s, 1, n)[i] = s[i]
  OBVIOUS
<1> HIDE DEF n
<1>4. /\ SubSeq(s, 1, n) \in Seq(S)
      /\ Len(SubSeq(s, 1, n)) = IF 1 <= n THEN n - 1 + 1 ELSE 0
      /\ \A i \in 1..(n - 1 + 1) : SubSeq(s, 1, n)[i] = s[1 + i - 1]
  BY <1>2, SubSeqProperties
<1> QED
  BY <1>2, <1>4

(* A wake-up moves a thread to a label of its own code. *)
LEMMA WakeType ==
  /\ \A l \in MainLabel : WakeLabel(l) \in MainLabel
  /\ \A l \in WorkLabel : WakeLabel(l) \in WorkLabel
  BY DEF WakeLabel, MainLabel, WorkLabel

(* Every step keeps TypeOK; a pop needs a pid in the queue. *)
LEMMA TypeStep == TypeOK /\ PopReady /\ [Next]_vars => TypeOK'
<1> SUFFICES ASSUME TypeOK, PopReady, [Next]_vars PROVE TypeOK'
  OBVIOUS
<1> USE PgrepAssumption DEF TypeOK, Thread, PoolThread, stop, pool, scan, env, Goto
<1>1. CASE MainInit
  BY <1>1 DEF MainInit, MainLabel, WorkLabel
<1>2. CASE Scan
  BY <1>2 DEF Scan, MainLabel, WorkLabel
<1>3. ASSUME NEW p \in Pid, ReadLine(p) PROVE TypeOK'
  <2>1. CASE is_already_attached(p)
    BY <1>3, <2>1 DEF ReadLine
  <2>2. CASE ~is_already_attached(p)
    <3>1. avail_pids' = Append(avail_pids, p) /\ Len(avail_pids) < opt_num_workers
      BY <1>3, <2>2 DEF ReadLine, HasRoom
    <3>2. avail_pids' \in Seq(Pid) /\ Len(avail_pids') = Len(avail_pids) + 1
      BY <3>1
    <3> QED
      BY <1>3, <2>2, <3>1, <3>2 DEF ReadLine
  <2> QED
    BY <2>1, <2>2
<1>4. CASE ScanEnd
  <2>1. CASE found
    <3>1. pc' = [t \in Thread |-> IF t = "main" THEN "loop"
                                 ELSE IF t \in Worker THEN WakeLabel(pc[t])
                                 ELSE pc[t]]
      BY <1>4, <2>1 DEF ScanEnd
    <3>2. /\ pc'["main"] \in MainLabel /\ pc'["signal"] \in SignalLabel
          /\ \A w \in Worker : pc'[w] \in WorkLabel
      BY <3>1, WakeType DEF MainLabel
    <3>3. pc' \in [Thread -> MainLabel \cup WorkLabel \cup SignalLabel]
      BY <3>1, <3>2
    <3> QED
      BY <1>4, <2>1, <3>2, <3>3 DEF ScanEnd
  <2>2. CASE ~found
    BY <1>4, <2>2 DEF ScanEnd, MainLabel
  <2> QED
    BY <2>1, <2>2
<1>5. CASE NapEnd
  BY <1>5 DEF NapEnd, MainLabel
<1>6. CASE MainJoin
  BY <1>6 DEF MainJoin, MainLabel
<1>7. ASSUME NEW t \in PoolThread, LoopTest(t) PROVE TypeOK'
  BY <1>7 DEF LoopTest, MainLabel, WorkLabel
<1>8. ASSUME NEW t \in PoolThread, Lock(t) PROVE TypeOK'
  BY <1>8 DEF Lock, MainLabel, WorkLabel
<1>9. ASSUME NEW t \in PoolThread, Turn(t) PROVE TypeOK'
  BY <1>9 DEF Turn, MainLabel, WorkLabel
<1>10. ASSUME NEW t \in PoolThread, Wait(t) PROVE TypeOK'
  BY <1>10 DEF Wait, MainLabel, WorkLabel
<1>11. ASSUME NEW t \in PoolThread, Timeout(t) PROVE TypeOK'
  BY <1>11 DEF Timeout, WakeLabel, MainLabel, WorkLabel
<1>12. ASSUME NEW w \in Worker, Pop(w) PROVE TypeOK'
  <2>1. pc' = [pc EXCEPT ![w] = "attach", !["main"] = WakeLabel(pc["main"])]
    BY <1>12 DEF Pop
  <2>2. /\ pc'["main"] \in MainLabel /\ pc'["signal"] \in SignalLabel
        /\ \A v \in Worker : pc'[v] \in WorkLabel
    BY <2>1, WakeType DEF WorkLabel
  <2>3. avail_pids' \in Seq(Pid) /\ Len(avail_pids') <= opt_num_workers
    BY <1>12 DEF Pop, PopReady
  <2>4. avail_pids[Len(avail_pids)] \in Pid
    BY <1>12 DEF Pop, PopReady
  <2> QED
    BY <1>12, <2>1, <2>2, <2>3, <2>4 DEF Pop
<1>13. ASSUME NEW w \in Worker, AttachPid(w) PROVE TypeOK'
  BY <1>13 DEF AttachPid, WorkLabel
<1>14. ASSUME NEW w \in Worker, SampleTest(w) PROVE TypeOK'
  BY <1>14 DEF SampleTest, WorkLabel
<1>15. ASSUME NEW w \in Worker, Trace(w) PROVE TypeOK'
  BY <1>15 DEF Trace, WorkLabel
<1>16. ASSUME NEW w \in Worker, LimitTest(w) PROVE TypeOK'
  BY <1>16 DEF LimitTest, WorkLabel
<1>17. ASSUME NEW w \in Worker, Deinit(w) PROVE TypeOK'
  BY <1>17 DEF Deinit, write_done_pipe, WorkLabel
<1>18. ASSUME NEW w \in Worker, Clear(w) PROVE TypeOK'
  BY <1>18 DEF Clear, WorkLabel
<1>19. CASE SignalStep
  <2>1. CASE SignalPipe \/ SignalSetDone \/ SignalLock
    BY <2>1 DEF SignalPipe, SignalSetDone, SignalLock, SignalLabel
  <2>2. CASE SignalBroadcast
    <3>1. pc' = Broadcast
      BY <2>2 DEF SignalBroadcast
    <3>2. /\ pc'["main"] \in MainLabel /\ pc'["signal"] \in SignalLabel
          /\ \A w \in Worker : pc'[w] \in WorkLabel
      BY <3>1, WakeType DEF Broadcast, SignalLabel
    <3>3. pc' \in [Thread -> MainLabel \cup WorkLabel \cup SignalLabel]
      BY <3>1, <3>2 DEF Broadcast
    <3> QED
      BY <2>2, <3>2, <3>3 DEF SignalBroadcast
  <2> QED
    BY <1>19, <2>1, <2>2 DEF SignalStep
<1>20. CASE SignalArrives
  BY <1>20 DEF SignalArrives, write_done_pipe
<1>21. ASSUME NEW p \in Pid, ProcessChange(p) PROVE TypeOK'
  BY <1>21 DEF ProcessChange
<1>22. CASE UNCHANGED vars
  BY <1>22 DEF vars
<1> QED
  BY <1>1, <1>2, <1>3, <1>4, <1>5, <1>6, <1>7, <1>8, <1>9, <1>10, <1>11,
     <1>12, <1>13, <1>14, <1>15, <1>16, <1>17, <1>18, <1>19, <1>20, <1>21, <1>22
     DEF Next, MainStep, PoolStep, WorkStep

(* Mutex ownership is preserved: a thread enters the code of the queue only *)
(* through Lock, and init_work_threads frees a held mutex only when done.    *)
LEMMA GuardedStep == TypeOK /\ Started /\ Guarded /\ [Next]_vars => Guarded'
<1> SUFFICES ASSUME TypeOK, Started, Guarded, [Next]_vars PROVE Guarded'
  OBVIOUS
<1> USE PgrepAssumption DEF Thread, PoolThread, stop, pool, scan, env, Goto, TypeOK, Started, Guarded, Critical
<1>1. CASE MainInit
  <2>1. CASE pc["signal"] = "bcast"
    BY <1>1, <2>1 DEF MainInit
  <2>2. CASE pc["signal"] # "bcast"
    <3>1. \A t \in Thread : pc'[t] \notin Critical \cup {"turn", "bcast"}
      BY <1>1, <2>2 DEF MainInit, SignalLabel
    <3> QED
      BY <3>1
  <2> QED
    BY <2>1, <2>2
<1>2. CASE Scan
  BY <1>2 DEF Scan
<1>3. ASSUME NEW p \in Pid, ReadLine(p) PROVE Guarded'
  BY <1>3 DEF ReadLine
<1>4. CASE ScanEnd
  BY <1>4 DEF ScanEnd, WakeLabel
<1>5. CASE NapEnd
  BY <1>5 DEF NapEnd
<1>6. CASE MainJoin
  BY <1>6 DEF MainJoin
<1>7. ASSUME NEW t \in PoolThread, LoopTest(t) PROVE Guarded'
  BY <1>7 DEF LoopTest
<1>8. ASSUME NEW t \in PoolThread, Lock(t) PROVE Guarded'
  BY <1>8 DEF Lock, LockFree
<1>9. ASSUME NEW t \in PoolThread, Turn(t) PROVE Guarded'
  BY <1>9 DEF Turn
<1>10. ASSUME NEW t \in PoolThread, Wait(t) PROVE Guarded'
  BY <1>10 DEF Wait
<1>11. ASSUME NEW t \in PoolThread, Timeout(t) PROVE Guarded'
  BY <1>11 DEF Timeout, WakeLabel
<1>12. ASSUME NEW w \in Worker, Pop(w) PROVE Guarded'
  BY <1>12 DEF Pop, WakeLabel
<1>13. ASSUME NEW w \in Worker, AttachPid(w) PROVE Guarded'
  BY <1>13 DEF AttachPid
<1>14. ASSUME NEW w \in Worker, SampleTest(w) PROVE Guarded'
  BY <1>14 DEF SampleTest
<1>15. ASSUME NEW w \in Worker, Trace(w) PROVE Guarded'
  BY <1>15 DEF Trace
<1>16. ASSUME NEW w \in Worker, LimitTest(w) PROVE Guarded'
  BY <1>16 DEF LimitTest
<1>17. ASSUME NEW w \in Worker, Deinit(w) PROVE Guarded'
  BY <1>17 DEF Deinit
<1>18. ASSUME NEW w \in Worker, Clear(w) PROVE Guarded'
  BY <1>18 DEF Clear
<1>19. CASE SignalPipe
  BY <1>19 DEF SignalPipe
<1>20. CASE SignalSetDone
  BY <1>20 DEF SignalSetDone
<1>21. CASE SignalLock
  BY <1>21 DEF SignalLock
<1>22. CASE SignalBroadcast
  BY <1>22 DEF SignalBroadcast, Broadcast, WakeLabel
<1>23. CASE SignalArrives
  BY <1>23 DEF SignalArrives
<1>24. ASSUME NEW p \in Pid, ProcessChange(p) PROVE Guarded'
  BY <1>24 DEF ProcessChange
<1>25. CASE UNCHANGED vars
  BY <1>25 DEF vars
<1> QED
  BY <1>1, <1>2, <1>3, <1>4, <1>5, <1>6, <1>7, <1>8, <1>9, <1>10, <1>11, <1>12, <1>13, <1>14, <1>15, <1>16, <1>17, <1>18, <1>19, <1>20, <1>21, <1>22, <1>23, <1>24, <1>25
     DEF Next, MainStep, PoolStep, WorkStep, SignalStep

(* A worker that was let through to pop still finds a pid when it pops,     *)
(* because it holds the mutex from the test in wait_for_turn on.            *)
LEMMA PopReadyStep == TypeOK /\ Started /\ Guarded /\ PopReady /\ [Next]_vars => PopReady'
<1> SUFFICES ASSUME TypeOK, Started, Guarded, PopReady, [Next]_vars PROVE PopReady'
  OBVIOUS
<1> USE PgrepAssumption DEF Thread, PoolThread, stop, pool, scan, env, Goto, TypeOK, Started, Guarded, Critical, PopReady
<1>1. CASE MainInit
  BY <1>1 DEF MainInit
<1>2. CASE Scan
  BY <1>2 DEF Scan
<1>3. ASSUME NEW p \in Pid, ReadLine(p) PROVE PopReady'
  BY <1>3 DEF ReadLine
<1>4. CASE ScanEnd
  BY <1>4 DEF ScanEnd, WakeLabel
<1>5. CASE NapEnd
  BY <1>5 DEF NapEnd
<1>6. CASE MainJoin
  BY <1>6 DEF MainJoin
<1>7. ASSUME NEW t \in PoolThread, LoopTest(t) PROVE PopReady'
  BY <1>7 DEF LoopTest
<1>8. ASSUME NEW t \in PoolThread, Lock(t) PROVE PopReady'
  BY <1>8 DEF Lock, LockFree
<1>9. ASSUME NEW t \in PoolThread, Turn(t) PROVE PopReady'
  BY <1>9 DEF Turn, MyTurn
<1>10. ASSUME NEW t \in PoolThread, Wait(t) PROVE PopReady'
  BY <1>10 DEF Wait
<1>11. ASSUME NEW t \in PoolThread, Timeout(t) PROVE PopReady'
  BY <1>11 DEF Timeout, WakeLabel
<1>12. ASSUME NEW w \in Worker, Pop(w) PROVE PopReady'
  BY <1>12 DEF Pop, WakeLabel
<1>13. ASSUME NEW w \in Worker, AttachPid(w) PROVE PopReady'
  BY <1>13 DEF AttachPid
<1>14. ASSUME NEW w \in Worker, SampleTest(w) PROVE PopReady'
  BY <1>14 DEF SampleTest
<1>15. ASSUME NEW w \in Worker, Trace(w) PROVE PopReady'
  BY <1>15 DEF Trace
<1>16. ASSUME NEW w \in Worker, LimitTest(w) PROVE PopReady'
  BY <1>16 DEF LimitTest
<1>17. ASSUME NEW w \in Worker, Deinit(w) PROVE PopReady'
  BY <1>17 DEF Deinit
<1>18. ASSUME NEW w \in Worker, Clear(w) PROVE PopReady'
  BY <1>18 DEF Clear
<1>19. CASE SignalPipe
  BY <1>19 DEF SignalPipe
<1>20. CASE SignalSetDone
  BY <1>20 DEF SignalSetDone
<1>21. CASE SignalLock
  BY <1>21 DEF SignalLock
<1>22. CASE SignalBroadcast
  BY <1>22 DEF SignalBroadcast, Broadcast, WakeLabel
<1>23. CASE SignalArrives
  BY <1>23 DEF SignalArrives
<1>24. ASSUME NEW p \in Pid, ProcessChange(p) PROVE PopReady'
  BY <1>24 DEF ProcessChange
<1>25. CASE UNCHANGED vars
  BY <1>25 DEF vars
<1> QED
  BY <1>1, <1>2, <1>3, <1>4, <1>5, <1>6, <1>7, <1>8, <1>9, <1>10, <1>11, <1>12, <1>13, <1>14, <1>15, <1>16, <1>17, <1>18, <1>19, <1>20, <1>21, <1>22, <1>23, <1>24, <1>25
     DEF Next, MainStep, PoolStep, WorkStep, SignalStep

(* The signal thread is past select only if done is set, and before         *)
(* main_pgrep has created the workers the pool is empty.                    *)
LEMMA StartedStep == TypeOK /\ Started /\ [Next]_vars => Started'
<1> SUFFICES ASSUME TypeOK, Started, [Next]_vars PROVE Started'
  OBVIOUS
<1> USE PgrepAssumption DEF Thread, PoolThread, stop, pool, scan, env, Goto, TypeOK, Started
<1>1. CASE MainInit
  BY <1>1 DEF MainInit
<1>2. CASE Scan
  BY <1>2 DEF Scan
<1>3. ASSUME NEW p \in Pid, ReadLine(p) PROVE Started'
  BY <1>3 DEF ReadLine
<1>4. CASE ScanEnd
  BY <1>4 DEF ScanEnd, WakeLabel
<1>5. CASE NapEnd
  BY <1>5 DEF NapEnd
<1>6. CASE MainJoin
  BY <1>6 DEF MainJoin
<1>7. ASSUME NEW t \in PoolThread, LoopTest(t) PROVE Started'
  BY <1>7 DEF LoopTest
<1>8. ASSUME NEW t \in PoolThread, Lock(t) PROVE Started'
  BY <1>8 DEF Lock, LockFree
<1>9. ASSUME NEW t \in PoolThread, Turn(t) PROVE Started'
  BY <1>9 DEF Turn
<1>10. ASSUME NEW t \in PoolThread, Wait(t) PROVE Started'
  BY <1>10 DEF Wait
<1>11. ASSUME NEW t \in PoolThread, Timeout(t) PROVE Started'
  BY <1>11 DEF Timeout, WakeLabel
<1>12. ASSUME NEW w \in Worker, Pop(w) PROVE Started'
  BY <1>12 DEF Pop, WakeLabel
<1>13. ASSUME NEW w \in Worker, AttachPid(w) PROVE Started'
  BY <1>13 DEF AttachPid
<1>14. ASSUME NEW w \in Worker, SampleTest(w) PROVE Started'
  BY <1>14 DEF SampleTest
<1>15. ASSUME NEW w \in Worker, Trace(w) PROVE Started'
  BY <1>15 DEF Trace
<1>16. ASSUME NEW w \in Worker, LimitTest(w) PROVE Started'
  BY <1>16 DEF LimitTest
<1>17. ASSUME NEW w \in Worker, Deinit(w) PROVE Started'
  BY <1>17 DEF Deinit
<1>18. ASSUME NEW w \in Worker, Clear(w) PROVE Started'
  BY <1>18 DEF Clear
<1>19. CASE SignalPipe
  BY <1>19 DEF SignalPipe
<1>20. CASE SignalSetDone
  BY <1>20 DEF SignalSetDone
<1>21. CASE SignalLock
  BY <1>21 DEF SignalLock
<1>22. CASE SignalBroadcast
  BY <1>22 DEF SignalBroadcast, Broadcast, WakeLabel
<1>23. CASE SignalArrives
  BY <1>23 DEF SignalArrives
<1>24. ASSUME NEW p \in Pid, ProcessChange(p) PROVE Started'
  BY <1>24 DEF ProcessChange
<1>25. CASE UNCHANGED vars
  BY <1>25 DEF vars
<1> QED
  BY <1>1, <1>2, <1>3, <1>4, <1>5, <1>6, <1>7, <1>8, <1>9, <1>10, <1>11, <1>12, <1>13, <1>14, <1>15, <1>16, <1>17, <1>18, <1>19, <1>20, <1>21, <1>22, <1>23, <1>24, <1>25
     DEF Next, MainStep, PoolStep, WorkStep, SignalStep

(* A slot of attached_pids is set by Pop and cleared by Clear, and its      *)
(* worker is in main_pid in between.                                        *)
LEMMA SlotsStep == TypeOK /\ Started /\ PopReady /\ Slots /\ [Next]_vars => Slots'
<1> SUFFICES ASSUME TypeOK, Started, PopReady, Slots, [Next]_vars PROVE Slots'
  OBVIOUS
<1> USE PgrepAssumption DEF Thread, PoolThread, stop, pool, scan, env, Goto, TypeOK, Started, PopReady, Slots
<1>1. CASE MainInit
  BY <1>1 DEF MainInit
<1>2. CASE Scan
  BY <1>2 DEF Scan
<1>3. ASSUME NEW p \in Pid, ReadLine(p) PROVE Slots'
  BY <1>3 DEF ReadLine
<1>4. CASE ScanEnd
  BY <1>4 DEF ScanEnd, WakeLabel
<1>5. CASE NapEnd
  BY <1>5 DEF NapEnd
<1>6. CASE MainJoin
  BY <1>6 DEF MainJoin
<1>7. ASSUME NEW t \in PoolThread, LoopTest(t) PROVE Slots'
  BY <1>7 DEF LoopTest
<1>8. ASSUME NEW t \in PoolThread, Lock(t) PROVE Slots'
  BY <1>8 DEF Lock, LockFree
<1>9. ASSUME NEW t \in PoolThread, Turn(t) PROVE Slots'
  BY <1>9 DEF Turn
<1>10. ASSUME NEW t \in PoolThread, Wait(t) PROVE Slots'
  BY <1>10 DEF Wait
<1>11. ASSUME NEW t \in PoolThread, Timeout(t) PROVE Slots'
  BY <1>11 DEF Timeout, WakeLabel
<1>12. ASSUME NEW w \in Worker, Pop(w) PROVE Slots'
  BY <1>12 DEF Pop, WakeLabel
<1>13. ASSUME NEW w \in Worker, AttachPid(w) PROVE Slots'
  BY <1>13 DEF AttachPid
<1>14. ASSUME NEW w \in Worker, SampleTest(w) PROVE Slots'
  BY <1>14 DEF SampleTest
<1>15. ASSUME NEW w \in Worker, Trace(w) PROVE Slots'
  BY <1>15 DEF Trace
<1>16. ASSUME NEW w \in Worker, LimitTest(w) PROVE Slots'
  BY <1>16 DEF LimitTest
<1>17. ASSUME NEW w \in Worker, Deinit(w) PROVE Slots'
  BY <1>17 DEF Deinit
<1>18. ASSUME NEW w \in Worker, Clear(w) PROVE Slots'
  BY <1>18 DEF Clear
<1>19. CASE SignalPipe
  BY <1>19 DEF SignalPipe
<1>20. CASE SignalSetDone
  BY <1>20 DEF SignalSetDone
<1>21. CASE SignalLock
  BY <1>21 DEF SignalLock
<1>22. CASE SignalBroadcast
  BY <1>22 DEF SignalBroadcast, Broadcast, WakeLabel
<1>23. CASE SignalArrives
  BY <1>23 DEF SignalArrives
<1>24. ASSUME NEW p \in Pid, ProcessChange(p) PROVE Slots'
  BY <1>24 DEF ProcessChange
<1>25. CASE UNCHANGED vars
  BY <1>25 DEF vars
<1> QED
  BY <1>1, <1>2, <1>3, <1>4, <1>5, <1>6, <1>7, <1>8, <1>9, <1>10, <1>11, <1>12, <1>13, <1>14, <1>15, <1>16, <1>17, <1>18, <1>19, <1>20, <1>21, <1>22, <1>23, <1>24, <1>25
     DEF Next, MainStep, PoolStep, WorkStep, SignalStep

(* A scan queues a pid only if no array has it; a pop moves one pid from    *)
(* the queue to the slot of the worker that holds the mutex.                *)
LEMMA OneOwnerStep ==
  TypeOK /\ Started /\ PopReady /\ OneOwner /\ [Next]_vars => OneOwner'
<1> SUFFICES ASSUME TypeOK, Started, PopReady, OneOwner, [Next]_vars PROVE OneOwner'
  OBVIOUS
<1> USE PgrepAssumption DEF TypeOK, OneOwner, stop, pool, scan, env, Goto
<1>1. CASE MainInit
  BY <1>1 DEF MainInit
<1>2. ASSUME NEW p \in Pid, ReadLine(p) PROVE OneOwner'
  <2>1. CASE is_already_attached(p)
    BY <1>2, <2>1 DEF ReadLine
  <2>2. CASE ~is_already_attached(p)
    <3>1. avail_pids' = Append(avail_pids, p) /\ attached_pids' = attached_pids
      BY <1>2, <2>2 DEF ReadLine
    <3>2. /\ \A w \in Worker : attached_pids[w] # p
          /\ \A i \in 1..Len(avail_pids) : avail_pids[i] # p
      BY <2>2 DEF is_already_attached, Attached, Queued
    <3>3. \A i \in 1..Len(avail_pids') :
             avail_pids'[i] = IF i <= Len(avail_pids) THEN avail_pids[i] ELSE p
      BY <3>1
    <3>4. Len(avail_pids') = Len(avail_pids) + 1
      BY <3>1
    <3>5. \A i, j \in 1..Len(avail_pids') : avail_pids'[i] = avail_pids'[j] => i = j
      BY <3>2, <3>3, <3>4
    <3>6. \A w \in Worker, i \in 1..Len(avail_pids') : attached_pids'[w] # avail_pids'[i]
      BY <3>1, <3>2, <3>3, <3>4
    <3> QED
      BY <3>1, <3>5, <3>6
  <2> QED
    BY <2>1, <2>2
<1>3. ASSUME NEW w \in Worker, Pop(w) PROVE OneOwner'
  <2> DEFINE n == Len(avail_pids)
  <2>1. n \in Nat /\ n > 0
    BY <1>3 DEF Pop, PopReady
  <2>2. /\ avail_pids' = SubSeq(avail_pids, 1, n - 1)
        /\ attached_pids' = [attached_pids EXCEPT ![w] = avail_pids[n]]
    BY <1>3 DEF Pop
  <2>3. Len(avail_pids') = n - 1 /\ \A i \in 1..(n - 1) : avail_pids'[i] = avail_pids[i]
    BY <2>1, <2>2, DropLast
  <2>4. /\ \A v \in Worker : attached_pids[v] # avail_pids[n]
        /\ \A i \in 1..(n - 1) : avail_pids[i] # avail_pids[n]
    BY <2>1
  <2>5. \A u, v \in Worker :
           attached_pids'[u] = attached_pids'[v] /\ attached_pids'[u] # 0 => u = v
    BY <2>2, <2>4
  <2>6. \A i, j \in 1..Len(avail_pids') : avail_pids'[i] = avail_pids'[j] => i = j
    BY <2>1, <2>3
  <2>7. \A v \in Worker, i \in 1..Len(avail_pids') : attached_pids'[v] # avail_pids'[i]
    BY <2>1, <2>2, <2>3, <2>4
  <2> QED
    BY <2>5, <2>6, <2>7
<1>4. ASSUME NEW w \in Worker, Clear(w) PROVE OneOwner'
  BY <1>4 DEF Clear
<1>5. CASE UNCHANGED pool
  BY <1>5
<1>6. CASE Scan \/ ScanEnd \/ NapEnd \/ MainJoin
  BY <1>5, <1>6 DEF Scan, ScanEnd, NapEnd, MainJoin
<1>7. ASSUME NEW t \in PoolThread, PoolStep(t) \/ Timeout(t) PROVE OneOwner'
  BY <1>5, <1>7 DEF PoolStep, LoopTest, Lock, Turn, Wait, Timeout
<1>8. ASSUME NEW w \in Worker,
             AttachPid(w) \/ SampleTest(w) \/ Trace(w) \/ LimitTest(w) \/ Deinit(w)
      PROVE  OneOwner'
  BY <1>5, <1>8 DEF AttachPid, SampleTest, Trace, LimitTest, Deinit
<1>9. CASE SignalStep \/ SignalArrives
  BY <1>5, <1>9 DEF SignalStep, SignalPipe, SignalSetDone, SignalLock,
     SignalBroadcast, SignalArrives
<1>10. ASSUME NEW p \in Pid, ProcessChange(p) PROVE OneOwner'
  BY <1>5, <1>10 DEF ProcessChange
<1>11. CASE UNCHANGED vars
  BY <1>5, <1>11 DEF vars
<1> QED
  BY <1>1, <1>2, <1>3, <1>4, <1>6, <1>7, <1>8, <1>9, <1>10, <1>11
     DEF Next, MainStep, WorkStep

(* The initial states have the types the code gives them. *)
LEMMA InitType == Init => TypeOK
<1> SUFFICES ASSUME Init PROVE TypeOK
  OBVIOUS
<1> USE PgrepAssumption DEF Init, Thread, PoolThread
<1>1. /\ pc["main"] \in MainLabel /\ pc["signal"] \in SignalLabel
      /\ \A w \in Worker : pc[w] \in WorkLabel
  BY DEF MainLabel, WorkLabel, SignalLabel
<1>2. pc \in [Thread -> MainLabel \cup WorkLabel \cup SignalLabel]
  BY <1>1
<1>3. avail_pids \in Seq(Pid) /\ Len(avail_pids) <= opt_num_workers
  OBVIOUS
<1> QED
  BY <1>1, <1>2, <1>3 DEF TypeOK

(* The inductive invariant of the pool holds in every reachable state, for  *)
(* every number of workers and processes.                                   *)
THEOREM PoolInvariant == Spec => []PoolInv
<1>1. Init => PoolInv
  <2> SUFFICES ASSUME Init PROVE PoolInv
    OBVIOUS
  <2> USE PgrepAssumption DEF Init, Thread, PoolThread
  <2>1. Started /\ Guarded /\ PopReady /\ Slots
    BY DEF Started, Guarded, Critical, PopReady, Slots
  <2>2. OneOwner
    BY DEF OneOwner
  <2> QED
    BY <2>1, <2>2, InitType DEF PoolInv
<1>2. PoolInv /\ [Next]_vars => PoolInv'
  BY TypeStep, StartedStep, GuardedStep, PopReadyStep, SlotsStep, OneOwnerStep
     DEF PoolInv
<1> QED
  BY <1>1, <1>2, PTL DEF Spec

(* Every variable keeps its type; the queue never outgrows its array.       *)
THEOREM TypeCorrect == Spec => []TypeOK
<1>1. PoolInv => TypeOK
  BY DEF PoolInv
<1> QED
  BY <1>1, PoolInvariant, PTL

(* No pid has two owners: not two workers, not a worker and the queue, not  *)
(* two places in the queue.                                                 *)
THEOREM PidsHaveOneOwner == Spec => []OneOwner
<1>1. PoolInv => OneOwner
  BY DEF PoolInv
<1> QED
  BY <1>1, PoolInvariant, PTL

(* The code that reads and changes the queue runs in one thread at a time.  *)
THEOREM MutualExclusion == Spec => []CriticalExclusion
<1>1. PoolInv => CriticalExclusion
  BY DEF PoolInv, Guarded, CriticalExclusion, Critical
<1> QED
  BY <1>1, PoolInvariant, PTL

(* Every step of the pool is a step of PidPool or leaves its state alone:   *)
(* the thirty labels, the mutex and the wake-ups implement the promise.     *)
THEOREM PoolKeepsPromise == Spec => PoolPromise
<1> USE PgrepAssumption
<1>1. Init => Abstract!Init
  BY DEF Init, Abstract!Init, Queued
<1>2. PoolInv /\ [Next]_vars => [Abstract!Next]_<<Queued, attached_pids>>
  <2> SUFFICES ASSUME PoolInv, [Next]_vars
               PROVE  [Abstract!Next]_<<Queued, attached_pids>>
    OBVIOUS
  <2> USE DEF PoolInv, TypeOK, stop, pool, scan, env, Goto
  <2>1. CASE UNCHANGED pool
    BY <2>1 DEF Queued
  <2>2. CASE MainInit
    <3>1. avail_pids' = avail_pids /\ attached_pids' = attached_pids
      BY <2>2 DEF MainInit, Started, Slots
    <3> QED
      BY <2>1, <3>1
  <2>3. ASSUME NEW p \in Pid, ReadLine(p) PROVE [Abstract!Next]_<<Queued, attached_pids>>
    <3>1. CASE is_already_attached(p)
      BY <2>1, <2>3, <3>1 DEF ReadLine
    <3>2. CASE ~is_already_attached(p)
      <4>1. avail_pids' = Append(avail_pids, p) /\ attached_pids' = attached_pids
        BY <2>3, <3>2 DEF ReadLine
      <4>2. p \notin Queued /\ \A w \in Worker : attached_pids[w] # p
        BY <3>2 DEF is_already_attached, Attached
      <4>3. Queued' = Queued \cup {p}
        <5>1. Len(avail_pids') = Len(avail_pids) + 1
          BY <4>1
        <5>2. \A i \in 1..Len(avail_pids') :
                 avail_pids'[i] = IF i <= Len(avail_pids) THEN avail_pids[i] ELSE p
          BY <4>1
        <5> QED
          BY <5>1, <5>2 DEF Queued
      <4>4. Abstract!Enqueue(p)
        BY <4>1, <4>2, <4>3 DEF Abstract!Enqueue
      <4> QED
        BY <4>4 DEF Abstract!Next
    <3> QED
      BY <3>1, <3>2
  <2>4. ASSUME NEW w \in Worker, Pop(w) PROVE [Abstract!Next]_<<Queued, attached_pids>>
    <3> DEFINE n == Len(avail_pids)
               p == avail_pids[n]
    <3>1. n \in Nat /\ n > 0 /\ p \in Pid
      BY <2>4 DEF Pop, PopReady
    <3>2. /\ avail_pids' = SubSeq(avail_pids, 1, n - 1)
          /\ attached_pids' = [attached_pids EXCEPT ![w] = p]
      BY <2>4 DEF Pop
    <3>3. Len(avail_pids') = n - 1 /\ \A i \in 1..(n - 1) : avail_pids'[i] = avail_pids[i]
      BY <3>1, <3>2, DropLast
    <3>4. Queued' = Queued \ {p}
      <4>1. \A i \in 1..(n - 1) : avail_pids[i] # p
        BY <3>1 DEF OneOwner
      <4> QED
        BY <3>1, <3>3, <4>1 DEF Queued
    <3>5. attached_pids[w] = 0
      BY <2>4 DEF Pop, Slots
    <3>6. p \in Queued
      BY <3>1 DEF Queued
    <3>7. Abstract!Take(w, p)
      BY <3>2, <3>4, <3>5, <3>6 DEF Abstract!Take
    <3> QED
      BY <3>1, <3>7 DEF Abstract!Next
  <2>5. ASSUME NEW w \in Worker, Clear(w) PROVE [Abstract!Next]_<<Queued, attached_pids>>
    <3>1. attached_pids[w] # 0
      BY <2>5 DEF Clear, Slots
    <3>2. Abstract!Release(w)
      BY <2>5, <3>1 DEF Clear, Abstract!Release, Queued
    <3> QED
      BY <3>2 DEF Abstract!Next
  <2>6. CASE Scan \/ ScanEnd \/ NapEnd \/ MainJoin
    BY <2>1, <2>6 DEF Scan, ScanEnd, NapEnd, MainJoin
  <2>7. ASSUME NEW t \in PoolThread, PoolStep(t) \/ Timeout(t)
        PROVE  [Abstract!Next]_<<Queued, attached_pids>>
    BY <2>1, <2>7 DEF PoolStep, LoopTest, Lock, Turn, Wait, Timeout
  <2>8. ASSUME NEW w \in Worker,
               AttachPid(w) \/ SampleTest(w) \/ Trace(w) \/ LimitTest(w) \/ Deinit(w)
        PROVE  [Abstract!Next]_<<Queued, attached_pids>>
    BY <2>1, <2>8 DEF AttachPid, SampleTest, Trace, LimitTest, Deinit
  <2>9. CASE SignalStep \/ SignalArrives
    BY <2>1, <2>9 DEF SignalStep, SignalPipe, SignalSetDone, SignalLock,
       SignalBroadcast, SignalArrives
  <2>10. ASSUME NEW p \in Pid, ProcessChange(p)
         PROVE  [Abstract!Next]_<<Queued, attached_pids>>
    BY <2>1, <2>10 DEF ProcessChange
  <2>11. CASE UNCHANGED vars
    BY <2>1, <2>11 DEF vars
  <2> QED
    BY <2>2, <2>3, <2>4, <2>5, <2>6, <2>7, <2>8, <2>9, <2>10, <2>11
       DEF Next, MainStep, WorkStep
<1> QED
  BY <1>1, <1>2, PoolInvariant, PTL DEF Spec, PoolPromise, Abstract!Spec
============================================================================

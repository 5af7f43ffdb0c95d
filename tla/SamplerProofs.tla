--------------------------- MODULE SamplerProofs ---------------------------
(* The safety properties of the sampling loop hold for every set of options, *)
(* every depth of stack and every trace limit.  Each rests on a part of the  *)
(* inductive invariant SInv; Dead is stable, so most parts speak of a        *)
(* process that is still there.                                              *)
EXTENDS Sampler, TLAPS

(* Every step is for Zenon first and, if that does not find a proof soon,   *)
(* for the SMT solver.                                                      *)
USE ZenonT(5), SMTT(30)

(* A failed read that the trace has seen is still in trv when it ends.       *)
TornInv ==
  /\ pc \in {"extra", "end"} /\ torn.this => trv # {}
  /\ TornOnlyWithC

(* A process that phpspy is about to read has stopped or died, and then it   *)
(* stays so.                                                                 *)
PausedInv ==
  opt.pause /\ ~opt.foreign /\ pc \in Reading =>
    target \in {"stopped", "held", "zombie", "gone"}

(* phpspy is the tracer from pause_pid to unpause_pid only.  If the process  *)
(* gets no other signals, the SIGSTOP of the attach is either pending or has *)
(* stopped it.                                                               *)
TracerInv ==
  /\ pc \in {"attach", "wait"} => opt.pause
  /\ ~Dead =>
       /\ pc = "fork" => target = "stopped" /\ attached
       /\ pc = "wait" => attached
       /\ pc \in Reading \cup {"unpause"} /\ attached => opt.pause
       /\ pc \in Reading \cup {"unpause"} /\ opt.pause /\ ~opt.foreign => attached
       /\ pc \notin {"fork", "wait", "unpause"} \cup Reading => ~attached

StopInv ==
  ~Dead /\ ~opt.signals =>
    /\ pending \subseteq {"STOP"}
    /\ pc = "fork" => "STOP" \notin pending
    /\ pc = "wait" => \/ target = "running" /\ "STOP" \in pending
                      \/ target = "stopped" /\ "STOP" \notin pending
    /\ pc \in Reading \cup {"unpause"} /\ attached
         => target = "stopped" /\ "STOP" \notin pending
    /\ ~attached => target = "running" /\ "STOP" \notin pending

(* The flag of a dead process is right, or comes of the failed detach.       *)
DeadInv ==
  /\ "DEAD" \in trv => Dead
  /\ "DEAD" \in rv => Dead \/ (opt.pause /\ opt.foreign)

(* Traces are counted after they are written: at most one that was written   *)
(* is not counted yet, and if the rest of the turn does not count it, the    *)
(* loop ends.                                                                *)
OneAhead == trace_count < opt.limit /\ emitted <= trace_count + 1
CountInv ==
  /\ pc \in {"attach", "wait"} => rv = {}
  /\ pc \in Reading \cup {"unpause"} /\ rv # {} => opt.pause /\ (~attached \/ Dead)
  /\ opt.limit > 0 =>
       /\ pc \notin {"unpause", "check", "reap", "done"} =>
            trace_count < opt.limit /\ emitted <= trace_count
       /\ pc = "unpause" =>
            OneAhead /\ (emitted <= trace_count \/ trv \in {{}, {"TRUNCATED"}})
       /\ pc = "check" =>
            OneAhead /\ (emitted <= trace_count \/ rv \in {{}, {"TRUNCATED"}} \/ "DEAD" \in rv)
       /\ LimitHolds

SInv == TypeOK /\ TornInv /\ PausedInv /\ TracerInv /\ StopInv /\ DeadInv /\ CountInv

(* Types. *)
LEMMA TypeStep ==
  ASSUME TypeOK, [Next]_vars
  PROVE  TypeOK'
<1> USE SamplerAssumption DEF TypeOK, Labels, Flags, Dead, sampler, process
<1>1. CASE TimePasses \/ Done \/ UNCHANGED vars
  <2>1. CASE TimePasses
    BY <2>1 DEF TimePasses
  <2>2. CASE UNCHANGED vars
    BY <2>2 DEF vars
  <2> QED BY <1>1, <2>1, <2>2 DEF Done
<1>2. CASE TargetDies
  BY <1>2 DEF TargetDies
<1>3. CASE SignalSent
  BY <1>3 DEF SignalSent
<1>4. CASE SignalTaken
  BY <1>4 DEF SignalTaken
<1>5. CASE Fork
  BY <1>5 DEF Fork
<1>6. CASE Setup
  <2>1. /\ UNCHANGED <<opt, target, attached, pending, timeup, late, rv, trv>>
        /\ UNCHANGED <<frames, left, trace_count, emitted, torn>>
    BY <1>6 DEF Setup, FindAddresses, EventInit, GetPhpVersion, SetupStep
  <2>2. pc' \in {"init", "version", "loop", "reap", "done"} /\ ret' \in {"OK", "ERR"}
    BY <1>6 DEF Setup, FindAddresses, EventInit, GetPhpVersion, SetupStep, Return
  <2> QED BY <2>1, <2>2
<1>7. CASE LoopHead
  BY <1>7 DEF LoopHead
<1>8. CASE Attach
  <2>1. rv' \subseteq Flags /\ pending' \subseteq {"STOP", "OTHER"}
    BY <1>8 DEF Attach
  <2>2. pc' \in {"copy", "wait"} /\ attached' \in BOOLEAN /\ target' = target
    BY <1>8 DEF Attach
  <2>3. /\ UNCHANGED <<opt, timeup, late, trv>>
        /\ UNCHANGED <<frames, left, trace_count, emitted, torn, ret>>
    BY <1>8 DEF Attach
  <2> QED BY <2>1, <2>2, <2>3
<1>9. CASE WaitStop
  BY <1>9 DEF WaitStop, Stopped
<1>10. CASE CopyGlobals
  BY <1>10 DEF CopyGlobals, ReadOutcome
<1>11. CASE StackBegin
  <2>1. torn' \in [this : BOOLEAN, any : BOOLEAN]
    BY <1>11 DEF StackBegin
  <2> QED BY <1>11, <2>1 DEF StackBegin
<1>12. CASE EmitFrame
  BY <1>12 DEF EmitFrame
<1>13. CASE StackDone
  <2>1. PICK e \in ReadOutcome \cup {{}} :
          /\ trv' = e
          /\ torn' = [torn EXCEPT !.this = e # {}]
          /\ \E depth \in IF e = {} THEN {frames} ELSE {0, frames} :
               pc' = IF should_stop_trace(e) \/ depth < 1 THEN "end" ELSE "extra"
    BY <1>13 DEF StackDone
  <2>2. trv' \subseteq Flags /\ pc' \in {"end", "extra"}
    BY <2>1 DEF ReadOutcome
  <2>3. torn' \in [this : BOOLEAN, any : BOOLEAN]
    BY <2>1
  <2> QED BY <1>13, <2>2, <2>3 DEF StackDone
<1>14. CASE Capture
  <2>1. PICK e :
          /\ e \in {{}, {"ERR"}, {"ERR", "DEAD"}}
          /\ trv' = trv \cup e
          /\ torn' = [torn EXCEPT !.this = @ \/ e # {}]
          /\ pc' = IF should_stop_trace(trv') \/ LastCapture THEN "end" ELSE "extra"
    BY <1>14 DEF Capture, ReadOutcome, trace_request_info, trace_memory_info, trace_globals
  <2>2. trv' \subseteq Flags /\ pc' \in {"end", "extra"}
    BY <2>1
  <2>3. torn' \in [this : BOOLEAN, any : BOOLEAN]
    BY <2>1
  <2>4. pc' = "extra" => left # 1
    BY <2>1 DEF LastCapture
  <2> QED BY <1>14, <2>2, <2>3, <2>4 DEF Capture
<1>15. CASE StackEnd
  BY <1>15 DEF StackEnd, Flush, Least
<1>16. CASE Unpause
  <2>1. rv' \subseteq Flags /\ pc' = "check"
    BY <1>16 DEF Unpause
  <2>2. target' \in {target, "halted", "running"} /\ attached' \in BOOLEAN /\ pending' = pending
    BY <1>16 DEF Unpause
  <2>3. /\ UNCHANGED <<opt, timeup, late, trv>>
        /\ UNCHANGED <<frames, left, trace_count, emitted, torn, ret>>
    BY <1>16 DEF Unpause
  <2> QED BY <2>1, <2>2, <2>3
<1>17. CASE Check
  BY <1>17 DEF Check, Bails, Counts, TimeLimit, Return
<1>18. CASE Reap
  BY <1>18 DEF Reap
<1> QED BY <1>1, <1>2, <1>3, <1>4, <1>5, <1>6, <1>7, <1>8, <1>9, <1>10, <1>11, <1>12, <1>13, <1>14, <1>15, <1>16, <1>17, <1>18 DEF Next, Loop, Read

(* A torn trace. *)
LEMMA TornStep ==
  ASSUME TypeOK, TornInv, [Next]_vars
  PROVE  TornInv'
<1> USE SamplerAssumption DEF TypeOK, TornInv, TornOnlyWithC, Dead, sampler, process
<1>1. CASE TimePasses \/ Done \/ UNCHANGED vars
  BY <1>1 DEF TimePasses, Done, vars
<1>2. CASE TargetDies
  BY <1>2 DEF TargetDies
<1>3. CASE SignalSent
  BY <1>3 DEF SignalSent
<1>4. CASE SignalTaken
  BY <1>4 DEF SignalTaken
<1>5. CASE Fork
  BY <1>5 DEF Fork
<1>6. CASE Setup
  BY <1>6 DEF Setup, FindAddresses, EventInit, GetPhpVersion, SetupStep, Return
<1>7. CASE LoopHead
  BY <1>7 DEF LoopHead
<1>8. CASE Attach
  BY <1>8 DEF Attach
<1>9. CASE WaitStop
  BY <1>9 DEF WaitStop, Stopped
<1>10. CASE CopyGlobals
  BY <1>10 DEF CopyGlobals, ReadOutcome
<1>11. CASE StackBegin
  BY <1>11 DEF StackBegin
<1>12. CASE EmitFrame
  BY <1>12 DEF EmitFrame
<1>13. CASE StackDone
  BY <1>13 DEF StackDone, ReadOutcome
<1>14. CASE Capture
  BY <1>14 DEF Capture, ReadOutcome, trace_request_info, trace_memory_info, trace_globals, LastCapture
<1>15. CASE StackEnd
  BY <1>15 DEF StackEnd, Flush, Least
<1>16. CASE Unpause
  BY <1>16 DEF Unpause, Detaches
<1>17. CASE Check
  BY <1>17 DEF Check, Bails, Counts, TimeLimit, Return
<1>18. CASE Reap
  BY <1>18 DEF Reap
<1> QED BY <1>1, <1>2, <1>3, <1>4, <1>5, <1>6, <1>7, <1>8, <1>9, <1>10, <1>11, <1>12, <1>13, <1>14, <1>15, <1>16, <1>17, <1>18 DEF Next, Loop, Read

(* The stops of the process. *)
LEMMA TracerStep ==
  ASSUME TypeOK, PausedInv, TracerInv, [Next]_vars
  PROVE  PausedInv' /\ TracerInv'
<1> USE SamplerAssumption DEF TypeOK, PausedInv, TracerInv, Reading, Dead, sampler, process
<1>1. CASE TimePasses \/ Done \/ UNCHANGED vars
  BY <1>1 DEF TimePasses, Done, vars
<1>2. CASE TargetDies
  BY <1>2 DEF TargetDies
<1>3. CASE SignalSent
  BY <1>3 DEF SignalSent
<1>4. CASE SignalTaken
  BY <1>4 DEF SignalTaken
<1>5. CASE Fork
  BY <1>5 DEF Fork
<1>6. CASE Setup
  BY <1>6 DEF Setup, FindAddresses, EventInit, GetPhpVersion, SetupStep, Return
<1>7. CASE LoopHead
  BY <1>7 DEF LoopHead
<1>8. CASE Attach
  BY <1>8 DEF Attach
<1>9. CASE WaitStop
  <2>1. CASE Dead
    BY <1>9, <2>1 DEF WaitStop
  <2>2. CASE ~Dead
    BY <1>9, <2>2 DEF WaitStop, Stopped
  <2> QED BY <2>1, <2>2
<1>10. CASE CopyGlobals
  BY <1>10 DEF CopyGlobals, ReadOutcome
<1>11. CASE StackBegin
  BY <1>11 DEF StackBegin
<1>12. CASE EmitFrame
  BY <1>12 DEF EmitFrame
<1>13. CASE StackDone
  BY <1>13 DEF StackDone, ReadOutcome
<1>14. CASE Capture
  BY <1>14 DEF Capture, ReadOutcome, trace_request_info, trace_memory_info, trace_globals, LastCapture
<1>15. CASE StackEnd
  BY <1>15 DEF StackEnd, Flush, Least
<1>16. CASE Unpause
  BY <1>16 DEF Unpause, Detaches
<1>17. CASE Check
  BY <1>17 DEF Check, Bails, Counts, TimeLimit, Return
<1>18. CASE Reap
  BY <1>18 DEF Reap
<1> QED BY <1>1, <1>2, <1>3, <1>4, <1>5, <1>6, <1>7, <1>8, <1>9, <1>10, <1>11, <1>12, <1>13, <1>14, <1>15, <1>16, <1>17, <1>18 DEF Next, Loop, Read

(* The SIGSTOP of the attach. *)
LEMMA StopStep ==
  ASSUME TypeOK, TracerInv, StopInv, [Next]_vars
  PROVE  StopInv'
<1> USE SamplerAssumption DEF TypeOK, TracerInv, StopInv, Reading, Dead, sampler, process
<1>1. CASE TimePasses \/ Done \/ UNCHANGED vars
  BY <1>1 DEF TimePasses, Done, vars
<1>2. CASE TargetDies
  BY <1>2 DEF TargetDies
<1>3. CASE SignalSent
  BY <1>3 DEF SignalSent
<1>4. CASE SignalTaken
  <2>1. PICK s \in pending :
          /\ pending' = pending \ {s}
          /\ \/ /\ target = "running"
                /\ s = "STOP" => "OTHER" \notin pending
                /\ target' = IF attached THEN "stopped" ELSE IF s = "STOP" THEN "halted" ELSE "running"
             \/ target = "halted" /\ attached /\ s = "STOP" /\ target' = "held"
    BY <1>4 DEF SignalTaken
  <2>2. UNCHANGED <<opt, pc, attached>>
    BY <1>4 DEF SignalTaken
  <2>3. SUFFICES ASSUME ~Dead', ~opt.signals PROVE StopInv'
    BY <2>2
  <2>4. s = "STOP" /\ ~Dead
    BY <2>1, <2>3
  <2>5. attached /\ "STOP" \in pending
    BY <2>3, <2>4
  <2>6. pc = "wait"
    BY <2>3, <2>4, <2>5
  <2>7. target = "running" /\ target' = "stopped" /\ "STOP" \notin pending'
    BY <2>1, <2>3, <2>4, <2>5, <2>6
  <2>8. pending' \subseteq {"STOP"}
    BY <2>1, <2>3, <2>4
  <2> QED BY <2>2, <2>5, <2>6, <2>7, <2>8
<1>5. CASE Fork
  BY <1>5 DEF Fork
<1>6. CASE Setup
  BY <1>6 DEF Setup, FindAddresses, EventInit, GetPhpVersion, SetupStep, Return
<1>7. CASE LoopHead
  BY <1>7 DEF LoopHead
<1>8. CASE Attach
  BY <1>8 DEF Attach
<1>9. CASE WaitStop
  BY <1>9 DEF WaitStop, Stopped
<1>10. CASE CopyGlobals
  BY <1>10 DEF CopyGlobals, ReadOutcome
<1>11. CASE StackBegin
  BY <1>11 DEF StackBegin
<1>12. CASE EmitFrame
  BY <1>12 DEF EmitFrame
<1>13. CASE StackDone
  BY <1>13 DEF StackDone, ReadOutcome
<1>14. CASE Capture
  BY <1>14 DEF Capture, ReadOutcome, trace_request_info, trace_memory_info, trace_globals, LastCapture
<1>15. CASE StackEnd
  BY <1>15 DEF StackEnd, Flush, Least
<1>16. CASE Unpause
  BY <1>16 DEF Unpause, Detaches
<1>17. CASE Check
  BY <1>17 DEF Check, Bails, Counts, TimeLimit, Return
<1>18. CASE Reap
  BY <1>18 DEF Reap
<1> QED BY <1>1, <1>2, <1>3, <1>4, <1>5, <1>6, <1>7, <1>8, <1>9, <1>10, <1>11, <1>12, <1>13, <1>14, <1>15, <1>16, <1>17, <1>18 DEF Next, Loop, Read

(* The flag of a dead process. *)
LEMMA DeadStep ==
  ASSUME TypeOK, TracerInv, DeadInv, [Next]_vars
  PROVE  DeadInv'
<1> USE SamplerAssumption DEF TypeOK, TracerInv, DeadInv, Reading, Dead, sampler, process
<1>1. CASE TimePasses \/ Done \/ UNCHANGED vars
  BY <1>1 DEF TimePasses, Done, vars
<1>2. CASE TargetDies
  BY <1>2 DEF TargetDies
<1>3. CASE SignalSent
  BY <1>3 DEF SignalSent
<1>4. CASE SignalTaken
  BY <1>4 DEF SignalTaken
<1>5. CASE Fork
  BY <1>5 DEF Fork
<1>6. CASE Setup
  BY <1>6 DEF Setup, FindAddresses, EventInit, GetPhpVersion, SetupStep, Return
<1>7. CASE LoopHead
  BY <1>7 DEF LoopHead
<1>8. CASE Attach
  BY <1>8 DEF Attach
<1>9. CASE WaitStop
  BY <1>9 DEF WaitStop, Stopped
<1>10. CASE CopyGlobals
  BY <1>10 DEF CopyGlobals, ReadOutcome
<1>11. CASE StackBegin
  BY <1>11 DEF StackBegin
<1>12. CASE EmitFrame
  BY <1>12 DEF EmitFrame
<1>13. CASE StackDone
  BY <1>13 DEF StackDone, ReadOutcome
<1>14. CASE Capture
  BY <1>14 DEF Capture, ReadOutcome, trace_request_info, trace_memory_info, trace_globals, LastCapture
<1>15. CASE StackEnd
  BY <1>15 DEF StackEnd, Flush, Least
<1>16. CASE Unpause
  BY <1>16 DEF Unpause, Detaches
<1>17. CASE Check
  BY <1>17 DEF Check, Bails, Counts, TimeLimit, Return
<1>18. CASE Reap
  BY <1>18 DEF Reap
<1> QED BY <1>1, <1>2, <1>3, <1>4, <1>5, <1>6, <1>7, <1>8, <1>9, <1>10, <1>11, <1>12, <1>13, <1>14, <1>15, <1>16, <1>17, <1>18 DEF Next, Loop, Read

(* The count. *)
LEMMA CountStep ==
  ASSUME TypeOK, TracerInv, CountInv, [Next]_vars
  PROVE  CountInv'
<1> USE SamplerAssumption DEF TypeOK, TracerInv, CountInv, OneAhead, LimitHolds, Reading, Dead, sampler, process
<1>1. CASE TimePasses \/ Done \/ UNCHANGED vars
  BY <1>1 DEF TimePasses, Done, vars
<1>2. CASE TargetDies
  BY <1>2 DEF TargetDies
<1>3. CASE SignalSent
  BY <1>3 DEF SignalSent
<1>4. CASE SignalTaken
  BY <1>4 DEF SignalTaken
<1>5. CASE Fork
  BY <1>5 DEF Fork
<1>6. CASE Setup
  BY <1>6 DEF Setup, FindAddresses, EventInit, GetPhpVersion, SetupStep, Return
<1>7. CASE LoopHead
  BY <1>7 DEF LoopHead
<1>8. CASE Attach
  <2>1. rv' # {} => opt.pause /\ (~attached' \/ Dead')
    BY <1>8 DEF Attach
  <2> QED BY <1>8, <2>1 DEF Attach
<1>9. CASE WaitStop
  BY <1>9 DEF WaitStop, Stopped
<1>10. CASE CopyGlobals
  BY <1>10 DEF CopyGlobals, ReadOutcome
<1>11. CASE StackBegin
  BY <1>11 DEF StackBegin
<1>12. CASE EmitFrame
  BY <1>12 DEF EmitFrame
<1>13. CASE StackDone
  BY <1>13 DEF StackDone, ReadOutcome
<1>14. CASE Capture
  BY <1>14 DEF Capture, ReadOutcome, trace_request_info, trace_memory_info, trace_globals, LastCapture
<1>15. CASE StackEnd
  BY <1>15 DEF StackEnd, Flush, Least
<1>16. CASE Unpause
  BY <1>16 DEF Unpause, Detaches
<1>17. CASE Check
  BY <1>17 DEF Check, Bails, Counts, TimeLimit, Return
<1>18. CASE Reap
  BY <1>18 DEF Reap
<1> QED BY <1>1, <1>2, <1>3, <1>4, <1>5, <1>6, <1>7, <1>8, <1>9, <1>10, <1>11, <1>12, <1>13, <1>14, <1>15, <1>16, <1>17, <1>18 DEF Next, Loop, Read

(* Initially. *)
LEMMA InitInv == Init => SInv
<1> SUFFICES ASSUME Init PROVE SInv
  OBVIOUS
<1> USE SamplerAssumption DEF Init, Dead, Reading
<1>1. TypeOK
  <2>1. opt.child \in BOOLEAN
    OBVIOUS
  <2>2. torn \in [this : BOOLEAN, any : BOOLEAN]
    OBVIOUS
  <2>3. attached \in BOOLEAN /\ timeup \in BOOLEAN /\ late \in BOOLEAN
    BY <2>1
  <2>4. pc \in {"fork", "setup"} /\ target \in {"stopped", "running"}
    BY <2>1
  <2>5. frames \in 0..MaxDepth /\ left \in 0..3 /\ trace_count \in Nat /\ emitted \in Nat
    OBVIOUS
  <2>6. opt \in Options /\ pending = {} /\ rv = {} /\ trv = {} /\ ret = "none"
    OBVIOUS
  <2> QED BY ONLY <2>2, <2>3, <2>4, <2>5, <2>6 DEF TypeOK, Labels, Flags
<1>2. TornInv /\ PausedInv /\ DeadInv
  BY DEF TornInv, TornOnlyWithC, PausedInv, DeadInv
<1>3. TracerInv /\ StopInv
  BY <1>1 DEF TypeOK, TracerInv, StopInv
<1>4. CountInv
  BY <1>1 DEF TypeOK, CountInv, LimitHolds
<1> QED BY <1>1, <1>2, <1>3, <1>4 DEF SInv

(* The inductive invariant holds, whatever the options, for stacks of any    *)
(* depth and however the process behaves.                                    *)
THEOREM SamplerInvariant == Spec => []SInv
<1>1. SInv /\ [Next]_vars => SInv'
  BY TypeStep, TornStep, TracerStep, StopStep, DeadStep, CountStep DEF SInv
<1> QED BY <1>1, InitInv, PTL DEF Spec

(* Without -c no trace with a failed read reaches the output: do_trace does  *)
(* not send its STACK_END.                                                   *)
THEOREM NoTornOutput == Spec => []TornOnlyWithC
<1>1. SInv => TornOnlyWithC
  BY DEF SInv, TornInv
<1> QED BY <1>1, SamplerInvariant, PTL

(* With -l no more traces than the limit reach the output, although a trace  *)
(* is written before main_pid counts it.                                     *)
THEOREM LimitIsKept == Spec => []LimitHolds
<1>1. SInv => LimitHolds
  BY DEF SInv, CountInv, LimitHolds
<1> QED BY <1>1, SamplerInvariant, PTL

(* With -S the process does not run while do_trace reads it.                 *)
THEOREM ReadsAreOfOneMoment == Spec => []PausedWhileRead
<1>1. SInv => PausedWhileRead
  BY DEF SInv, PausedInv, PausedWhileRead
<1> QED BY <1>1, SamplerInvariant, PTL

(* Outside pause_pid and unpause_pid the process is as phpspy found it.      *)
THEOREM ProcessIsLetGo == Spec => []NeverLeftStopped
<1>1. SInv => NeverLeftStopped
  BY DEF SInv, TracerInv, StopInv, NeverLeftStopped
<1> QED BY <1>1, SamplerInvariant, PTL

(* main_pid gives up only a process that is dead, or that has another tracer.*)
THEOREM OnlyTheDeadAreGivenUp == Spec => []BailOnlyIfDead
<1>1. SInv => BailOnlyIfDead
  BY DEF SInv, DeadInv, BailOnlyIfDead, Bails
<1> QED BY <1>1, SamplerInvariant, PTL
============================================================================

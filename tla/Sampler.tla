------------------------------ MODULE Sampler ------------------------------
(***************************************************************************)
(* The sampling loop on one process (src/phpspy.c: main_fork, main_pid,    *)
(* pause_pid, unpause_pid; src/phpspy_trace.c: do_trace) against that      *)
(* process, which runs, is stopped, gets signals and dies at any time.     *)
(* What ptrace and waitpid do is external; it is modelled as far as the    *)
(* two helpers depend on it.                                               *)
(***************************************************************************)
EXTENDS Integers, FiniteSets

CONSTANTS
  Options,       \* the combinations of options: pause (-S), cont (-c),
                 \* limit (-l), timed (-i) and child (a command is run);
                 \* and of surroundings: signals (the process gets signals
                 \* below SIGSTOP) and foreign (it has another tracer)
  MaxDepth,      \* bound on the frames of a stack
  EmitBound      \* where the count of emitted traces saturates

ASSUME SamplerAssumption ==
  /\ Options \subseteq [pause : BOOLEAN, cont : BOOLEAN, limit : Nat, timed : BOOLEAN,
                        child : BOOLEAN, signals : BOOLEAN, foreign : BOOLEAN]
  /\ MaxDepth \in Nat /\ EmitBound \in Nat

VARIABLES
  opt,           \* the options of this run
  pc,            \* where phpspy is
  target,        \* "running", "stopped" (for its tracer), "halted" (by
                 \* SIGSTOP), "held" (both), "zombie" or "gone"
  attached,      \* phpspy is its tracer
  pending,       \* its pending signals
  rv,            \* of this turn of the loop in main_pid
  trv,           \* of do_trace
  frames,        \* frames in the buffer of the event handler
  left,          \* captures after the stack: request, memory, globals
  trace_count,
  timeup,        \* the stop time has passed
  late,          \* it had when this turn of the loop began
  emitted,       \* ghost: traces that reached the output
  torn,          \* ghost: whether a read failed in this trace / in an emitted one
  ret            \* what main_fork or main_pid returns

sampler == <<pc, rv, trv, frames, left, trace_count, late, emitted, torn, ret>>
process == <<target, attached, pending>>
vars == <<opt, sampler, process, timeup>>

Dead == target \in {"zombie", "gone"}

Least(a, b) == IF a < b THEN a ELSE b

Init ==
  /\ opt \in Options
  /\ pc = IF opt.child THEN "fork" ELSE "setup"
  /\ target = IF opt.child THEN "stopped" ELSE "running"
  /\ attached = opt.child
  /\ pending = {}
  /\ rv = {} /\ trv = {}
  /\ frames = 0 /\ left = 0
  /\ trace_count = 0
  /\ timeup = FALSE /\ late = FALSE
  /\ emitted = 0
  /\ torn = [this |-> FALSE, any |-> FALSE]
  /\ ret = "none"

----------------------------------------------------------------------------
(* The process.                                                             *)

(* It exits or is killed; its tracer or its parent has to wait for it. *)
TargetDies ==
  /\ ~Dead
  /\ target' = IF attached \/ opt.child THEN "zombie" ELSE "gone"
  /\ pending' = {}
  /\ UNCHANGED <<opt, sampler, attached, timeup>>

SignalSent ==
  /\ opt.signals /\ ~Dead /\ "OTHER" \notin pending
  /\ pending' = pending \cup {"OTHER"}
  /\ UNCHANGED <<opt, sampler, target, attached, timeup>>

(* The lower signal is delivered first; a tracee stops instead of taking    *)
(* it, and the tracer passes none on when it detaches.                      *)
SignalTaken ==
  /\ \E s \in pending :
       /\ pending' = pending \ {s}
       /\ \/ /\ target = "running"
             /\ s = "STOP" => "OTHER" \notin pending
             /\ target' = IF attached THEN "stopped" ELSE IF s = "STOP" THEN "halted" ELSE "running"
          \/ target = "halted" /\ attached /\ s = "STOP" /\ target' = "held"
  /\ UNCHANGED <<opt, sampler, attached, timeup>>

TimePasses ==
  /\ opt.timed /\ ~timeup
  /\ timeup' = TRUE
  /\ UNCHANGED <<opt, sampler, process>>

----------------------------------------------------------------------------
(* main_pid up to the loop.                                                 *)

(* main_fork waits after main_pid has returned. *)
Return == IF opt.child THEN "reap" ELSE "done"

(* main_fork: the child stops in exec and is let go, or has died before. *)
Fork ==
  /\ pc = "fork"
  /\ attached' = FALSE
  /\ IF Dead
     THEN target' = "gone" /\ ret' = "status" /\ pc' = "done"
     ELSE target' = "running" /\ pc' = "setup" /\ UNCHANGED ret
  /\ UNCHANGED <<opt, pending, timeup, late, rv, trv, frames, left, trace_count, emitted, torn>>

(* A step that succeeds, or makes main_pid return its error. *)
SetupStep(from, to) ==
  /\ pc = from
  /\ \E ok \in BOOLEAN :
       /\ pc' = IF ok THEN to ELSE Return
       /\ ret' = IF ok THEN "OK" ELSE "ERR"
  /\ UNCHANGED <<opt, process, timeup, late, rv, trv, frames, left, trace_count, emitted, torn>>

FindAddresses == SetupStep("setup", "init")

EventInit == SetupStep("init", "version")

(* get_php_version, and the choice of do_trace_ptr. *)
GetPhpVersion == SetupStep("version", "loop")

LoopHead ==
  /\ pc = "loop"
  /\ pc' = IF opt.pause THEN "attach" ELSE "copy"
  /\ rv' = {}
  /\ late' = timeup
  /\ UNCHANGED <<opt, process, timeup, trv, frames, left, trace_count, emitted, torn, ret>>

(* pause_pid: PTRACE_ATTACH fails on a zombie and if there is a tracer. *)
Attach ==
  /\ pc = "attach"
  /\ IF opt.foreign \/ Dead
     THEN /\ rv' = {"ERR"} \cup (IF target = "gone" THEN {"DEAD"} ELSE {})
          /\ pc' = "copy"
          /\ UNCHANGED process
     ELSE /\ attached' = TRUE
          /\ pending' = pending \cup {"STOP"}
          /\ pc' = "wait"
          /\ UNCHANGED <<target, rv>>
  /\ UNCHANGED <<opt, timeup, late, trv, frames, left, trace_count, emitted, torn, ret>>

(* Mutant: reading starts before the process has stopped.                   *)
Stopped_assumed == pc = "wait"

(* waitpid returns when the process has stopped or died.                    *)
Stopped == pc = "wait" /\ (target \in {"stopped", "held"} \/ Dead)

(* pause_pid: waitpid, which reaps a process that died meanwhile. Its error *)
(* path is left out: after the attach there is a tracee to wait for, and no *)
(* signal handler runs in a thread that samples.                            *)
WaitStop ==
  /\ Stopped
  /\ target' = IF Dead THEN "gone" ELSE target
  /\ attached' = IF Dead THEN FALSE ELSE attached
  /\ pc' = "copy"
  /\ UNCHANGED <<opt, pending, timeup, late, rv, trv, frames, left, trace_count, emitted, torn, ret>>

----------------------------------------------------------------------------
(* do_trace                                                                 *)

(* Mutant: errno is not looked at when a read fails.                        *)
ReadOutcome_errno_ignored == IF Dead THEN {{"ERR", "DEAD"}} ELSE {{}, {"ERR", "DEAD"}}

(* copy_proc_mem: a read of a dead process says so, any read may fail. *)
ReadOutcome == IF Dead THEN {{"ERR", "DEAD"}} ELSE {{}, {"ERR"}}

should_stop_trace(e) == "DEAD" \in e \/ "TRUNCATED" \in e \/ (e # {} /\ ~opt.cont)

CopyGlobals ==
  /\ pc = "copy"
  /\ \E e \in ReadOutcome :
       /\ trv' = e
       /\ pc' = IF e = {} THEN "begin" ELSE "unpause"
  /\ UNCHANGED <<opt, process, timeup, late, rv, frames, left, trace_count, emitted, torn, ret>>

StackBegin ==
  /\ pc = "begin"
  /\ frames' = 0
  /\ left' = 3
  /\ torn' = [torn EXCEPT !.this = FALSE]
  /\ pc' = "stack"
  /\ UNCHANGED <<opt, process, timeup, late, rv, trv, trace_count, emitted, ret>>

(* A frame is read and handed to the event handler. *)
EmitFrame ==
  /\ pc = "stack" /\ frames < MaxDepth
  /\ {} \in ReadOutcome
  /\ frames' = frames + 1
  /\ UNCHANGED <<opt, process, timeup, late, pc, rv, trv, left, trace_count, emitted, torn, ret>>

(* The stack ends, or a read fails; then the depth is the one so far, or 0  *)
(* if only the root's frames are wanted.                                    *)
StackDone ==
  /\ pc = "stack"
  /\ \E e \in ReadOutcome \cup {{}} :
       /\ trv' = e
       /\ torn' = [torn EXCEPT !.this = e # {}]
       /\ \E depth \in IF e = {} THEN {frames} ELSE {0, frames} :
            pc' = IF should_stop_trace(e) \/ depth < 1 THEN "end" ELSE "extra"
  /\ UNCHANGED <<opt, process, timeup, late, rv, frames, left, trace_count, emitted, ret>>

LastCapture == left = 1

trace_request_info == ReadOutcome

(* Built for one version of PHP, it always fails. *)
trace_memory_info == ReadOutcome \cup {{"ERR"}}

(* A global whose array is not found is an error, one whose value cannot be *)
(* printed is skipped, also if it cannot be read.                           *)
trace_globals == ReadOutcome \cup {{}}

(* The next of the three, or none if it is not asked for. *)
Capture ==
  /\ pc = "extra"
  /\ \E e \in {{}} \cup CASE left = 3 -> trace_request_info
                        [] left = 2 -> trace_memory_info
                        [] OTHER    -> trace_globals :
       /\ trv' = trv \cup e
       /\ torn' = [torn EXCEPT !.this = @ \/ e # {}]
       /\ pc' = IF should_stop_trace(trv') \/ LastCapture THEN "end" ELSE "extra"
  /\ left' = left - 1
  /\ UNCHANGED <<opt, process, timeup, late, rv, frames, trace_count, emitted, ret>>

(* Mutant: the trace is flushed whatever happened.                          *)
Flush_always == TRUE

Flush == trv = {} \/ opt.cont

(* STACK_END, whose result replaces the errors; an empty trace, a filtered  *)
(* one and one that cannot be written do not reach the output.              *)
StackEnd ==
  /\ pc = "end"
  /\ IF Flush
     THEN \E e \in IF frames = 0 THEN {{}} ELSE {{}, {"TRUNCATED"}, {"SKIPPED"}, {"ERR"}, {"ERR", "TRUNCATED"}} :
            /\ trv' = e
            /\ IF frames > 0 /\ e \in {{}, {"TRUNCATED"}}
               THEN /\ emitted' = Least(emitted + 1, EmitBound)
                    /\ torn' = [torn EXCEPT !.any = @ \/ torn.this]
               ELSE UNCHANGED <<emitted, torn>>
     ELSE UNCHANGED <<trv, emitted, torn>>
  /\ pc' = "unpause"
  /\ UNCHANGED <<opt, process, timeup, late, rv, frames, left, trace_count, ret>>

----------------------------------------------------------------------------
(* Mutant: a trace that failed leaves the process to the next turn.         *)
Detaches_after_success == opt.pause /\ trv = {}

Detaches == opt.pause

(* unpause_pid: PTRACE_DETACH wants a stopped tracee of its own. *)
Unpause ==
  /\ pc = "unpause"
  /\ IF Detaches
     THEN IF attached /\ ~Dead
          THEN /\ target' = IF target = "held" THEN "halted" ELSE "running"
               /\ attached' = FALSE
               /\ rv' = rv \cup trv
               /\ UNCHANGED pending
          ELSE /\ rv' = rv \cup trv \cup {"ERR", "DEAD"}
               /\ UNCHANGED process
     ELSE rv' = rv \cup trv /\ UNCHANGED process
  /\ pc' = "check"
  /\ UNCHANGED <<opt, timeup, late, trv, frames, left, trace_count, emitted, torn, ret>>

(* Mutant: truncated traces do not count.                                   *)
Counts_only_ok == opt.limit > 0 /\ rv = {}

Counts == opt.limit > 0 /\ rv \in {{}, {"TRUNCATED"}}

(* Mutant: errors skip the time limit as well.                              *)
TimeLimit_after_success == late /\ rv = {}

TimeLimit == late

(* Mutant: a process that has died is waited for.                           *)
Bails_never == FALSE

Bails == "DEAD" \in rv

(* The rest of the turn: dead process, trace limit, time limit. *)
Check ==
  /\ pc = "check"
  /\ trace_count' = IF ~Bails /\ Counts THEN trace_count + 1 ELSE trace_count
  /\ pc' = IF Bails \/ (Counts /\ trace_count' >= opt.limit) \/ TimeLimit
           THEN Return ELSE "loop"
  /\ UNCHANGED <<opt, process, timeup, late, rv, trv, frames, left, emitted, torn, ret>>

(* main_fork waits; if the status is gone, the one of the first stop stands *)
(* and main_pid's result is returned.                                       *)
Reap ==
  /\ pc = "reap" /\ Dead
  /\ target' = "gone"
  /\ ret' = IF target = "zombie" THEN "status" ELSE ret
  /\ pc' = "done"
  /\ UNCHANGED <<opt, attached, pending, timeup, late, rv, trv, frames, left, trace_count, emitted, torn>>

Done == pc = "done" /\ UNCHANGED vars

Read == CopyGlobals \/ StackBegin \/ EmitFrame \/ StackDone \/ Capture \/ StackEnd
Setup == FindAddresses \/ EventInit \/ GetPhpVersion
Loop == Fork \/ Setup \/ LoopHead \/ Attach \/ WaitStop \/ Read \/ Unpause \/ Check \/ Reap

Next == Loop \/ TargetDies \/ SignalSent \/ SignalTaken \/ TimePasses \/ Done

Spec == Init /\ [][Next]_vars

(* phpspy goes on, and the kernel delivers pending signals. *)
FairSpec == Spec /\ WF_vars(Loop) /\ WF_vars(SignalTaken)

----------------------------------------------------------------------------
Labels == {"fork", "setup", "init", "version", "loop", "attach", "wait", "copy", "begin", "stack",
           "extra", "end", "unpause", "check", "reap", "done"}
Flags == {"ERR", "DEAD", "TRUNCATED", "SKIPPED"}
Reading == {"copy", "begin", "stack", "extra", "end"}

(* Every variable keeps its type; do_trace makes no more than its three     *)
(* captures.                                                                *)
TypeOK ==
  /\ opt \in Options
  /\ pc \in Labels
  /\ target \in {"running", "stopped", "halted", "held", "zombie", "gone"}
  /\ attached \in BOOLEAN /\ timeup \in BOOLEAN /\ late \in BOOLEAN
  /\ pending \subseteq {"STOP", "OTHER"}
  /\ rv \subseteq Flags /\ trv \subseteq Flags
  /\ frames \in 0..MaxDepth /\ left \in 0..3
  /\ pc = "stack" => left = 3
  /\ pc = "extra" => left > 0
  /\ trace_count \in Nat /\ emitted \in Nat
  /\ torn \in [this : BOOLEAN, any : BOOLEAN]
  /\ ret \in {"none", "OK", "ERR", "status"}

(* Without -c a trace in which a read failed that do_trace hears of never   *)
(* reaches the output: it skips STACK_END, and STACK_BEGIN empties the      *)
(* buffer. (Failed reads of variables only drop the record.)                *)
TornOnlyWithC == torn.any => opt.cont

(* No more traces than the limit reach the output, whatever fails between   *)
(* a trace and its count (write errors, a process that dies while paused).  *)
LimitHolds == opt.limit > 0 => emitted <= opt.limit

(* With -S the process does not run while its memory is read, so that the   *)
(* frames of a trace belong to one moment; if another tracer has it,        *)
(* pause_pid fails and it is read as it runs.                               *)
PausedWhileRead ==
  opt.pause /\ ~opt.foreign /\ pc \in Reading => target # "running"

(* phpspy leaves the process as it found it: outside pause_pid and          *)
(* unpause_pid it is never traced, and neither stopped nor about to stop    *)
(* unless another signal came with the SIGSTOP of the attach, because       *)
(* pause_pid takes the first stop for its own.                              *)
NeverLeftStopped ==
  pc \notin {"fork", "wait", "unpause"} \cup Reading /\ ~Dead
    => /\ ~attached
       /\ ~opt.signals => target = "running" /\ "STOP" \notin pending

(* The loop gives up a process as dead only when it is, unless it could not *)
(* be attached: then the detach fails with the errno of a dead process.     *)
BailOnlyIfDead == pc = "check" /\ Bails /\ ~(opt.pause /\ opt.foreign) => Dead

(* A command's exit status is what main_fork returns.                       *)
StatusPropagated == pc = "done" /\ opt.child => ret = "status"

(* Sampling ends once the process has died, errors or not, even though      *)
(* with -c the flag that says so is replaced by STACK_END's result.         *)
DeathEndsSampling == Dead ~> pc = "done"

(* Sampling ends once the time limit has passed, even if every trace fails. *)
TimeLimitEnds == timeup ~> pc \in {"reap", "done"}
============================================================================

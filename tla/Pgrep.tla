------------------------------- MODULE Pgrep -------------------------------
(***************************************************************************)
(* The worker pool of pgrep mode (src/pgrep.c) together with the part of   *)
(* main_pid (src/phpspy.c) through which a worker talks to the pool.       *)
(*                                                                         *)
(* Threads: the main thread, which is the only producer (pgrep_for_pids),  *)
(* one consumer per worker (run_work_thread) and the signal thread         *)
(* (run_signal_thread), which turns a byte in done_pipe into done = 1.     *)
(* One mutex protects the queue; the main thread is the only one that ever *)
(* waits on can_produce and the workers are the only ones that wait on     *)
(* can_consume, so the wait sets are read off the program counters.        *)
(* Initially the main thread has just created the signal thread.           *)
(***************************************************************************)
EXTENDS Integers, Sequences, FiniteSets

CONSTANTS
  Worker,            \* worker threads, one per slot of work_threads
  Pid,               \* process ids that may match the pgrep arguments
  MayFail,           \* pids main_pid may fail to set up although they run
  opt_num_workers,   \* -T
  opt_trace_limit,   \* -l, 0 for no limit
  TraceBound         \* where trace_count saturates, for model checking

ASSUME PgrepAssumption ==
  /\ IsFiniteSet(Worker) /\ Cardinality(Worker) = opt_num_workers
  /\ opt_num_workers \in Nat \ {0}
  /\ opt_trace_limit \in Nat /\ TraceBound \in Nat
  /\ MayFail \subseteq Pid
  /\ 0 \notin Pid
  /\ "main" \notin Worker /\ "signal" \notin Worker /\ "free" \notin Worker

VARIABLES
  pc,             \* where each thread is
  mutex,          \* the thread that holds the pool mutex, or "free"
  done,           \* the global done flag, read and written without the mutex
  done_pipe,      \* "closed" until pipe(), then "empty" or "readable"
  avail_pids,     \* the first avail_pids_count entries of the array
  attached_pids,  \* pid of each worker, 0 when it has none
  pgrep_out,      \* lines of the running pgrep not read yet
  found,          \* this scan queued at least one pid
  trace_count,    \* traces counted against opt_trace_limit
  alive           \* pids of running processes that match

stop == <<done, done_pipe>>
pool == <<avail_pids, attached_pids>>
scan == <<pgrep_out, found>>
env  == <<trace_count, alive>>
vars == <<pc, mutex, stop, pool, scan, env>>

PoolThread == Worker \cup {"main"}
Thread == PoolThread \cup {"signal"}

Queued == {avail_pids[i] : i \in 1..Len(avail_pids)}

Attached == {attached_pids[w] : w \in Worker} \ {0}

Goto(t, l) == pc' = [pc EXCEPT ![t] = l]

----------------------------------------------------------------------------

Init ==
  /\ pc = [t \in Thread |-> IF t = "main" THEN "init"
                            ELSE IF t = "signal" THEN "pipe" ELSE "none"]
  /\ mutex = "free"
  /\ done = FALSE
  /\ done_pipe = "closed"
  /\ avail_pids = <<>>
  /\ attached_pids = [w \in Worker |-> 0]
  /\ pgrep_out = {}
  /\ found = FALSE
  /\ trace_count = 0
  /\ alive \in SUBSET Pid

(* init_work_threads and the pthread_create calls. The mutex is initialised *)
(* here, while the signal thread may already be running, or even hold it.   *)
MainInit ==
  /\ pc["main"] = "init"
  /\ pc' = [t \in Thread |-> IF t = "main" \/ t \in Worker THEN "loop" ELSE pc[t]]
  /\ mutex' = "free"
  /\ avail_pids' = <<>>
  /\ attached_pids' = [w \in Worker |-> 0]
  /\ UNCHANGED <<stop, scan, env>>

----------------------------------------------------------------------------
(* wait_for_turn, for the producer (t = "main") and for a worker.           *)

(* The while (!done) of pgrep_for_pids and of run_work_thread. *)
LoopTest(t) ==
  /\ pc[t] = "loop"
  /\ Goto(t, IF ~done THEN "lock" ELSE IF t = "main" THEN "join" ELSE "exit")
  /\ UNCHANGED <<mutex, stop, pool, scan, env>>

(* Mutant: a wait that returns without the mutex. *)
LockFree_unless_woken(t) == pc[t] = "wake" \/ mutex = "free"

LockFree(t) == mutex = "free"

(* pthread_mutex_lock, or the return of pthread_cond_timedwait with the     *)
(* mutex held again.                                                        *)
Lock(t) ==
  /\ pc[t] \in {"lock", "wake"}
  /\ LockFree(t)
  /\ mutex' = t
  /\ Goto(t, "turn")
  /\ UNCHANGED <<stop, pool, scan, env>>

(* A producer is let through by a full queue too, by the second test. *)
MyTurn(t) ==
  \/ t = "main" /\ Len(avail_pids) < opt_num_workers
  \/ Len(avail_pids) > 0

(* One evaluation of the loop in wait_for_turn, and its return. *)
Turn(t) ==
  /\ pc[t] = "turn"
  /\ \/ /\ done
        /\ mutex' = "free"
        /\ Goto(t, IF t = "main" THEN "join" ELSE "exit")
     \/ /\ ~done
        /\ Goto(t, IF ~MyTurn(t) THEN "wait"
                   ELSE IF t = "main" THEN "scan" ELSE "pop")
        /\ UNCHANGED mutex
  /\ UNCHANGED <<stop, pool, scan, env>>

(* pthread_cond_timedwait releases the mutex; "nap" is the second wait of   *)
(* the producer, after a scan that found nothing.                           *)
Wait(t) ==
  /\ pc[t] \in {"wait", "nap"}
  /\ mutex' = "free"
  /\ Goto(t, IF pc[t] = "wait" THEN "blocked" ELSE "napping")
  /\ UNCHANGED <<stop, pool, scan, env>>

WakeLabel(l) ==
  CASE l = "blocked" -> "wake" [] l = "napping" -> "napped" [] OTHER -> l

(* The wait times out after two seconds, or wakes up spuriously. *)
Timeout(t) ==
  /\ pc[t] \in {"blocked", "napping"}
  /\ Goto(t, WakeLabel(pc[t]))
  /\ UNCHANGED <<mutex, stop, pool, scan, env>>

----------------------------------------------------------------------------
(* The producer: pgrep_for_pids.                                            *)

(* popen: pgrep prints the processes that run now, or popen fails. *)
Scan ==
  /\ pc["main"] = "scan"
  /\ pgrep_out' \in {alive, {}}
  /\ found' = FALSE
  /\ Goto("main", "read")
  /\ UNCHANGED <<mutex, stop, pool, env>>

(* Mutant: only one of the two arrays is searched. *)
is_already_attached_no_queue(p) == p \in Attached

is_already_attached(p) == p \in Attached \cup Queued

(* avail_pids_count < opt_num_workers *)
HasRoom == Len(avail_pids) < opt_num_workers

(* One line of pgrep, in whatever order pgrep prints them. *)
ReadLine(p) ==
  /\ pc["main"] = "read"
  /\ HasRoom
  /\ p \in pgrep_out
  /\ pgrep_out' = pgrep_out \ {p}
  /\ IF is_already_attached(p)
     THEN UNCHANGED <<avail_pids, found>>
     ELSE /\ avail_pids' = Append(avail_pids, p)
          /\ found' = TRUE
  /\ UNCHANGED <<pc, mutex, stop, attached_pids, env>>

(* Mutant: the workers are not woken. *)
ScanEnd_silent ==
  /\ pc["main"] = "read"
  /\ ~HasRoom \/ pgrep_out = {}
  /\ pgrep_out' = {}
  /\ \/ found /\ mutex' = "free" /\ Goto("main", "loop")
     \/ ~found /\ Goto("main", "nap") /\ UNCHANGED mutex
  /\ found' = FALSE
  /\ UNCHANGED <<stop, pool, env>>

(* pclose, then wake the workers and release the mutex, or go and wait. *)
ScanEnd ==
  /\ pc["main"] = "read"
  /\ ~HasRoom \/ pgrep_out = {}
  /\ pgrep_out' = {}
  /\ \/ /\ found
        /\ mutex' = "free"
        /\ pc' = [t \in Thread |-> IF t = "main" THEN "loop"
                                   ELSE IF t \in Worker THEN WakeLabel(pc[t])
                                   ELSE pc[t]]
     \/ /\ ~found
        /\ Goto("main", "nap")
        /\ UNCHANGED mutex
  /\ found' = FALSE
  /\ UNCHANGED <<stop, pool, env>>

(* The wait takes the mutex again only to release it; done is read later.   *)
NapEnd ==
  /\ pc["main"] = "napped"
  /\ mutex = "free"
  /\ Goto("main", "loop")
  /\ UNCHANGED <<mutex, stop, pool, scan, env>>

(* The pthread_join calls and deinit_work_threads. *)
MainJoin ==
  /\ pc["main"] = "join"
  /\ \A t \in Thread \ {"main"} : pc[t] = "exit"
  /\ Goto("main", "exit")
  /\ UNCHANGED <<mutex, stop, pool, scan, env>>

----------------------------------------------------------------------------
(* A worker: run_work_thread, and its call of main_pid.                     *)

(* Take the newest pid, signal can_produce, release the mutex. *)
Pop(w) ==
  /\ pc[w] = "pop"
  /\ attached_pids' = [attached_pids EXCEPT ![w] = avail_pids[Len(avail_pids)]]
  /\ avail_pids' = SubSeq(avail_pids, 1, Len(avail_pids) - 1)
  /\ mutex' = "free"
  /\ pc' = [pc EXCEPT ![w] = "attach", !["main"] = WakeLabel(@)]
  /\ UNCHANGED <<stop, scan, env>>

(* find_addresses, INIT and get_php_version; on failure main_pid returns at *)
(* once, without the done trigger at its end.                               *)
AttachPid(w) ==
  /\ pc[w] = "attach"
  /\ \/ /\ attached_pids[w] \in alive
        /\ Goto(w, "sample")
     \/ /\ attached_pids[w] \notin alive \ MayFail
        /\ Goto(w, "clear")
  /\ UNCHANGED <<mutex, stop, pool, scan, env>>

(* The while (!done) of main_pid. *)
SampleTest(w) ==
  /\ pc[w] = "sample"
  /\ Goto(w, IF done THEN "deinit" ELSE "trace")
  /\ UNCHANGED <<mutex, stop, pool, scan, env>>

(* One call of do_trace_ptr: the process is gone, the trace counts against  *)
(* the limit (rv is OK or TRUNCATED), or it does not.                       *)
Trace(w) ==
  /\ pc[w] = "trace"
  /\ \/ /\ attached_pids[w] \notin alive
        /\ Goto(w, "deinit")
        /\ UNCHANGED trace_count
     \/ /\ attached_pids[w] \in alive
        /\ opt_trace_limit > 0
        /\ trace_count' = IF trace_count < TraceBound THEN trace_count + 1 ELSE trace_count
        /\ Goto(w, "limit")
     \/ /\ attached_pids[w] \in alive
        /\ Goto(w, "sample")
        /\ UNCHANGED trace_count
  /\ UNCHANGED <<mutex, stop, pool, scan, alive>>

(* if (trace_count >= opt_trace_limit) break, a read of its own. *)
LimitTest(w) ==
  /\ pc[w] = "limit"
  /\ Goto(w, IF trace_count >= opt_trace_limit THEN "deinit" ELSE "sample")
  /\ UNCHANGED <<mutex, stop, pool, scan, env>>

(* A write to a pipe that does not exist yet is dropped. *)
write_done_pipe ==
  done_pipe' = IF done_pipe = "closed" THEN "closed" ELSE "readable"

(* The end of main_pid. *)
Deinit(w) ==
  /\ pc[w] = "deinit"
  /\ IF opt_trace_limit > 0 /\ trace_count >= opt_trace_limit
     THEN write_done_pipe
     ELSE UNCHANGED done_pipe
  /\ Goto(w, "clear")
  /\ UNCHANGED <<mutex, done, pool, scan, env>>

(* Mutant: the slot is never cleared. *)
Clear_forgotten(w) ==
  /\ pc[w] = "clear"
  /\ Goto(w, "loop")
  /\ UNCHANGED <<mutex, stop, pool, scan, env>>

(* attached_pids[worker_num] = 0, without the mutex. *)
Clear(w) ==
  /\ pc[w] = "clear"
  /\ attached_pids' = [attached_pids EXCEPT ![w] = 0]
  /\ Goto(w, "loop")
  /\ UNCHANGED <<mutex, stop, avail_pids, scan, env>>

----------------------------------------------------------------------------
(* The signal thread: run_signal_thread.                                    *)

SignalPipe ==
  /\ pc["signal"] = "pipe"
  /\ done_pipe' = "empty"
  /\ Goto("signal", "select")
  /\ UNCHANGED <<mutex, done, pool, scan, env>>

(* select returns, read, done = 1. *)
SignalSetDone ==
  /\ pc["signal"] = "select"
  /\ done_pipe = "readable"
  /\ done' = TRUE
  /\ Goto("signal", "siglock")
  /\ UNCHANGED <<mutex, done_pipe, pool, scan, env>>

SignalLock ==
  /\ pc["signal"] = "siglock"
  /\ mutex = "free"
  /\ mutex' = "signal"
  /\ Goto("signal", "bcast")
  /\ UNCHANGED <<stop, pool, scan, env>>

(* Mutant: only can_consume is broadcast. *)
Broadcast_consumers_only ==
  [t \in Thread |-> IF t = "signal" THEN "exit"
                    ELSE IF t \in Worker THEN WakeLabel(pc[t]) ELSE pc[t]]

(* Both condition variables are broadcast. *)
Broadcast ==
  [t \in Thread |-> IF t = "signal" THEN "exit" ELSE WakeLabel(pc[t])]

(* Both broadcasts, the unlock and the end of the thread. The unlock frees  *)
(* the mutex whoever holds it.                                              *)
SignalBroadcast ==
  /\ pc["signal"] = "bcast"
  /\ pc' = Broadcast
  /\ mutex' = "free"
  /\ UNCHANGED <<stop, pool, scan, env>>

----------------------------------------------------------------------------
(* The environment: signals (alarm included) and the target processes.      *)

(* handle_signal, installed once the pipe exists. *)
SignalArrives ==
  /\ done_pipe = "empty"
  /\ write_done_pipe
  /\ UNCHANGED <<pc, mutex, done, pool, scan, env>>

(* A process starts or exits; a pid may be reused. *)
ProcessChange(p) ==
  /\ alive' = IF p \in alive THEN alive \ {p} ELSE alive \cup {p}
  /\ UNCHANGED <<pc, mutex, stop, pool, scan, trace_count>>

PoolStep(t) == LoopTest(t) \/ Lock(t) \/ Turn(t) \/ Wait(t)

MainStep ==
  \/ MainInit \/ Scan \/ (\E p \in Pid : ReadLine(p)) \/ ScanEnd \/ NapEnd
  \/ MainJoin

WorkStep(w) ==
  \/ Pop(w) \/ AttachPid(w) \/ SampleTest(w) \/ Trace(w) \/ LimitTest(w)
  \/ Deinit(w) \/ Clear(w)

SignalStep == SignalPipe \/ SignalSetDone \/ SignalLock \/ SignalBroadcast

Next ==
  \/ MainStep
  \/ \E t \in PoolThread : PoolStep(t) \/ Timeout(t)
  \/ \E w \in Worker : WorkStep(w)
  \/ SignalStep
  \/ SignalArrives
  \/ \E p \in Pid : ProcessChange(p)

Spec == Init /\ [][Next]_vars

----------------------------------------------------------------------------
(* Fairness: every thread that can run does; nothing is assumed of timeouts,*)
(* signals or processes.                                                    *)
Fairness ==
  /\ WF_vars(MainStep)
  /\ \A t \in PoolThread : WF_vars(PoolStep(t))
  /\ \A w \in Worker : WF_vars(WorkStep(w))
  /\ WF_vars(SignalStep)

FairSpec == Spec /\ Fairness

(* For progress in production also: two second waits do end, a thread that  *)
(* keeps asking for the mutex gets it, and popen does not fail for ever.    *)
PollFairness ==
  /\ WF_pc(Timeout("main"))
  /\ \A t \in PoolThread : SF_pc(Lock(t))
  /\ SF_pc(NapEnd)
  /\ SF_pc(Scan /\ pgrep_out' = alive)

----------------------------------------------------------------------------

(* The threads are where their code can be, the queue holds pids and fits   *)
(* in the array of opt_num_workers entries of init_work_threads.            *)
MainLabel == {"init", "loop", "lock", "turn", "wait", "blocked", "wake", "scan",
              "read", "nap", "napping", "napped", "join", "exit"}
WorkLabel == {"none", "loop", "lock", "turn", "wait", "blocked", "wake", "pop",
              "attach", "sample", "trace", "limit", "deinit", "clear", "exit"}
SignalLabel == {"pipe", "select", "siglock", "bcast", "exit"}

TypeOK ==
  /\ pc \in [Thread -> MainLabel \cup WorkLabel \cup SignalLabel]
  /\ pc["main"] \in MainLabel /\ pc["signal"] \in SignalLabel
  /\ \A w \in Worker : pc[w] \in WorkLabel
  /\ mutex \in Thread \cup {"free"}
  /\ done \in BOOLEAN
  /\ done_pipe \in {"closed", "empty", "readable"}
  /\ avail_pids \in Seq(Pid) /\ Len(avail_pids) <= opt_num_workers
  /\ attached_pids \in [Worker -> Pid \cup {0}]
  /\ pgrep_out \in SUBSET Pid
  /\ found \in BOOLEAN
  /\ trace_count \in Nat
  /\ alive \in SUBSET Pid

(* No process is ever sampled by two workers at once, queued twice, or      *)
(* queued while a worker still has it, although a worker clears its slot of *)
(* attached_pids without the mutex (pgrep.c, run_work_thread).              *)
OneOwner ==
  /\ \A v, w \in Worker :
       attached_pids[v] = attached_pids[w] /\ attached_pids[v] # 0 => v = w
  /\ \A i, j \in 1..Len(avail_pids) : avail_pids[i] = avail_pids[j] => i = j
  /\ \A w \in Worker, i \in 1..Len(avail_pids) : attached_pids[w] # avail_pids[i]

(* At most one thread is in the code that reads and changes the queue, even *)
(* when the signal thread still holds the mutex while init_work_threads     *)
(* initialises it again.                                                    *)
Critical == {"wait", "scan", "read", "nap", "pop"}
CriticalExclusion ==
  \A s, t \in Thread : pc[s] \in Critical /\ pc[t] \in Critical => s = t

(* The inductive invariant behind OneOwner and CriticalExclusion. A thread  *)
(* in or about to enter the critical code holds the mutex, unless done was  *)
(* set before the mutex was initialised, and then nobody gets that far      *)
(* (Guarded); a worker about to pop finds a pid (PopReady); a slot of       *)
(* attached_pids is set exactly while its worker is in main_pid (Slots).    *)
Guarded ==
  \/ \A t \in Thread : pc[t] \in Critical \cup {"turn", "bcast"} => mutex = t
  \/ done /\ \A t \in Thread : pc[t] \notin Critical
PopReady == \A w \in Worker : pc[w] = "pop" => Len(avail_pids) > 0
Slots ==
  \A w \in Worker :
    attached_pids[w] # 0 <=>
      pc[w] \in {"attach", "sample", "trace", "limit", "deinit", "clear"}
Started ==
  /\ pc["signal"] \in {"siglock", "bcast", "exit"} => done
  /\ pc["main"] = "init" => avail_pids = <<>> /\ \A w \in Worker : pc[w] = "none"
PoolInv == TypeOK /\ Started /\ Guarded /\ PopReady /\ Slots /\ OneOwner

(* The pool hands every pid through free, queued and held, in that order.   *)
Abstract == INSTANCE PidPool WITH queue <- Queued, held <- attached_pids
PoolPromise == Abstract!Spec

(* Once something was written to done_pipe, every thread finishes and       *)
(* main_pgrep returns, even if no timed wait ever times out: no wake-up of  *)
(* the signal thread is lost. phpspy.c, main_pid: "in pgrep mode, trigger   *)
(* done condition if we went over the trace limit": a worker that stops at  *)
(* the limit has the same effect once done_pipe exists (before that, its    *)
(* trigger is dropped).                                                     *)
LimitReached(w) ==
  /\ pc[w] = "deinit" /\ done_pipe # "closed"
  /\ opt_trace_limit > 0 /\ trace_count >= opt_trace_limit
ShutdownCompletes ==
  done_pipe = "readable" \/ (\E w \in Worker : LimitReached(w))
    ~> \A t \in Thread : pc[t] = "exit"

(* With a worker for every process, none of which fails to set up, all the  *)
(* processes that stay are sampled side by side for as long as the pool     *)
(* runs, if polling is fair.                                                *)
Sampled(p) ==
  \E w \in Worker : attached_pids[w] = p /\ pc[w] \in {"sample", "trace", "limit"}
TargetsGetSampled ==
  PollFairness /\ <>[][FALSE]_alive /\ <>[]~done
    => []<>(\A p \in alive : Sampled(p))

============================================================================

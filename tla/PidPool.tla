------------------------------ MODULE PidPool ------------------------------
(***************************************************************************)
(* What the pool of pgrep mode promises: a process id is free, queued once *)
(* or held by one worker, and goes through these stages in this order. The *)
(* promise says nothing of threads, of the mutex or of how a pid is chosen.*)
(***************************************************************************)
CONSTANTS Worker, Pid

VARIABLES
  queue,   \* pids waiting for a worker
  held     \* pid of each worker, 0 when it has none

Init ==
  /\ queue = {}
  /\ held = [w \in Worker |-> 0]

(* A pid nobody has is queued. *)
Enqueue(p) ==
  /\ p \notin queue
  /\ \A w \in Worker : held[w] # p
  /\ queue' = queue \cup {p}
  /\ UNCHANGED held

(* An idle worker takes a queued pid. *)
Take(w, p) ==
  /\ held[w] = 0
  /\ p \in queue
  /\ queue' = queue \ {p}
  /\ held' = [held EXCEPT ![w] = p]

(* A worker gives its pid back. *)
Release(w) ==
  /\ held[w] # 0
  /\ held' = [held EXCEPT ![w] = 0]
  /\ UNCHANGED queue

Next ==
  \/ \E p \in Pid : Enqueue(p)
  \/ \E w \in Worker, p \in Pid : Take(w, p)
  \/ \E w \in Worker : Release(w)

Spec == Init /\ [][Next]_<<queue, held>>
============================================================================

------------------------------ MODULE Workers ------------------------------
(***************************************************************************)
(* What the work threads share besides the pool of Pgrep: each runs        *)
(* main_pid (src/phpspy.c) on one process after another, which looks up    *)
(* addresses with opt_quiet raised, opens the output (src/event_fout.c:    *)
(* event_handler_fout_open), detects the PHP version into opt_phpv,        *)
(* chooses do_trace_ptr, traces and closes the output.                     *)
(***************************************************************************)
EXTENDS Integers, FiniteSets

CONSTANTS
  Threads, Pids,
  Versions,          \* of PHP
  MaxFd,             \* descriptors there are, with that of stdout
  MaxAttach          \* how many processes a thread is given at most

Free == "free"
NoFd == -1
Stdout == 0
NoPid == "none"

ASSUME NamesAssumption ==
  /\ IsFiniteSet(Threads) /\ MaxFd \in Nat \ {0}
  /\ \A t \in Threads : t \notin {Free, "stdout", "path"}
  /\ NoPid \notin Pids
  /\ "auto" \notin Versions /\ "unset" \notin Versions

VARIABLES
  opt_path_output,   \* "%d", "-" or a path
  version,           \* the PHP version of each process
  opt_quiet, opt_phpv, do_trace_ptr, shared_fd,
  fds,               \* what each descriptor is open for, or Free
  files,             \* the traces in each file
  pc, pid, fd, tmp,  \* of each thread; tmp is a register
  attached,          \* how many processes each thread has had
  lost,              \* traces that were in a file that was truncated
  leaked,            \* descriptors of calls of main_pid that failed
  overwrites         \* how often opt_quiet had changed between a read and its write

options == <<opt_path_output, version>>
output == <<shared_fd, fds, files, fd, lost, leaked>>
quiet == <<opt_quiet, tmp, overwrites>>
php == <<opt_phpv, do_trace_ptr>>
vars == <<options, output, quiet, php, pc, pid, attached>>

Files == {"stdout", "path"} \cup Threads

Init ==
  /\ opt_path_output \in {"%d", "-", "path"}
  /\ version \in [Pids -> Versions]
  /\ opt_quiet = 0 /\ opt_phpv = "auto" /\ do_trace_ptr = "unset" /\ shared_fd = NoFd
  /\ fds = [n \in 0..(MaxFd - 1) |-> IF n = Stdout THEN "stdout" ELSE Free]
  /\ files = [f \in Files |-> {}]
  /\ pc = [t \in Threads |-> "idle"]
  /\ pid = [t \in Threads |-> NoPid]
  /\ fd = [t \in Threads |-> NoFd]
  /\ tmp = [t \in Threads |-> 0]
  /\ attached = [t \in Threads |-> 0]
  /\ lost = {} /\ leaked = 0 /\ overwrites = 0

Goto(t, label) == pc' = [pc EXCEPT ![t] = label]

(* main_pid returns. *)
Return(t) == Goto(t, "idle") /\ pid' = [pid EXCEPT ![t] = NoPid]

(* A process that no other thread has is taken from the pool. *)
Attach(t) ==
  /\ pc[t] = "idle" /\ attached[t] < MaxAttach
  /\ \E p \in Pids : /\ \A u \in Threads : pid[u] # p
                     /\ pid' = [pid EXCEPT ![t] = p]
  /\ attached' = [attached EXCEPT ![t] = @ + 1]
  /\ Goto(t, "find")
  /\ UNCHANGED <<options, output, quiet, php>>

----------------------------------------------------------------------------
(* find_addresses *)
FindFails(t) ==
  /\ pc[t] = "find"
  /\ Return(t)
  /\ UNCHANGED <<options, output, quiet, php, attached>>

(* ++opt_quiet and --opt_quiet read and write, with no lock. *)
QuietRead(t) ==
  /\ pc[t] \in {"find", "symbol"}
  /\ tmp' = [tmp EXCEPT ![t] = opt_quiet]
  /\ Goto(t, IF pc[t] = "find" THEN "raise" ELSE "lower")
  /\ UNCHANGED <<options, output, opt_quiet, overwrites, php, pid, attached>>

(* The register is of no use afterwards. *)
QuietWrite(t, value) ==
  /\ opt_quiet' = value
  /\ overwrites' = overwrites + IF opt_quiet = tmp[t] THEN 0 ELSE 1
  /\ tmp' = [tmp EXCEPT ![t] = 0]
  /\ UNCHANGED <<options, output, php, pid, attached>>

QuietRaise(t) ==
  /\ pc[t] = "raise"
  /\ QuietWrite(t, tmp[t] + 1)
  /\ Goto(t, "symbol")

(* Mutant: it puts back the value from before its own increment, which      *)
(* takes those of the other threads with it.                                *)
QuietLower_resets(t) ==
  /\ pc[t] = "lower"
  /\ QuietWrite(t, 0)
  /\ Goto(t, "open")

(* Whether basic_functions_module was found or not. *)
QuietLower(t) ==
  /\ pc[t] = "lower"
  /\ QuietWrite(t, tmp[t] - 1)
  /\ Goto(t, "open")

----------------------------------------------------------------------------
(* The event INIT: event_handler_fout_open, under its mutex. *)
FreeFds == {n \in DOMAIN fds : fds[n] = Free}

File(t) == CASE opt_path_output = "%d" -> t
             [] opt_path_output = "-" -> "stdout"
             [] OTHER -> "path"

(* open or dup gives t the descriptor n, for what it is open for. *)
Opened(t, n, file) ==
  /\ fds' = [fds EXCEPT ![n] = file]
  /\ fd' = [fd EXCEPT ![t] = n]

(* O_TRUNC *)
Truncated(file) ==
  /\ files' = [files EXCEPT ![file] = {}]
  /\ lost' = lost \cup files[file]

OpenOwn(t, n) == Opened(t, n, t) /\ Truncated(t) /\ UNCHANGED shared_fd
OpenPath(t, n) == Opened(t, n, "path") /\ Truncated("path") /\ shared_fd' = n
Dup(t, n, from) == Opened(t, n, fds[from]) /\ UNCHANGED <<files, lost, shared_fd>>

(* Mutant: the path is opened each time, as those with %d are.              *)
FoutOpen_unshared(t) ==
  /\ pc[t] = "open"
  /\ \E n \in FreeFds :
       \/ opt_path_output = "%d" /\ OpenOwn(t, n)
       \/ opt_path_output = "-" /\ Dup(t, n, Stdout)
       \/ opt_path_output = "path" /\ Opened(t, n, "path") /\ Truncated("path") /\ UNCHANGED shared_fd
  /\ Goto(t, "auto")
  /\ UNCHANGED <<options, leaked, quiet, php, pid, attached>>

FoutOpen(t) ==
  /\ pc[t] = "open"
  /\ \E n \in FreeFds :
       \/ opt_path_output = "%d" /\ OpenOwn(t, n)
       \/ opt_path_output = "-" /\ Dup(t, n, Stdout)
       \/ opt_path_output = "path" /\ shared_fd = NoFd /\ OpenPath(t, n)
       \/ opt_path_output = "path" /\ shared_fd # NoFd /\ Dup(t, n, shared_fd)
  /\ Goto(t, "auto")
  /\ UNCHANGED <<options, leaked, quiet, php, pid, attached>>

(* For want of descriptors, or for any other reason. *)
FoutOpenFails(t) ==
  /\ pc[t] = "open"
  /\ Return(t)
  /\ UNCHANGED <<options, output, quiet, php, attached>>

----------------------------------------------------------------------------
TestAuto(t) ==
  /\ pc[t] = "auto"
  /\ Goto(t, IF opt_phpv = "auto" THEN "version" ELSE "choose")
  /\ UNCHANGED <<options, output, quiet, php, pid, attached>>

(* Mutant: with no version detected it goes on with a default.              *)
GetPhpVersion_default(t) ==
  /\ pc[t] = "version"
  /\ \/ opt_phpv' = version[pid[t]]
     \/ opt_phpv' \in Versions
  /\ Goto(t, "choose")
  /\ UNCHANGED <<options, output, quiet, do_trace_ptr, pid, attached>>

(* get_php_version *)
GetPhpVersion(t) ==
  /\ pc[t] = "version"
  /\ opt_phpv' = version[pid[t]]
  /\ Goto(t, "choose")
  /\ UNCHANGED <<options, output, quiet, do_trace_ptr, pid, attached>>

(* There is no memory for the buffer, or no version is detected: main_pid   *)
(* returns without the event DEINIT.                                        *)
SetupFails(t) ==
  /\ pc[t] \in {"auto", "version"}
  /\ leaked' = IF fd[t] = shared_fd THEN leaked ELSE leaked + 1
  /\ fd' = [fd EXCEPT ![t] = NoFd]
  /\ Return(t)
  /\ UNCHANGED <<options, shared_fd, fds, files, lost, quiet, php, attached>>

ChooseTrace(t) ==
  /\ pc[t] = "choose"
  /\ do_trace_ptr' = opt_phpv
  /\ Goto(t, "trace")
  /\ UNCHANGED <<options, output, quiet, opt_phpv, pid, attached>>

----------------------------------------------------------------------------
(* The sampling loop, with at most one trace that counts. *)
Trace(t) ==
  /\ pc[t] = "trace"
  /\ files' = [files EXCEPT ![fds[fd[t]]] = @ \cup {[by |-> t, nth |-> attached[t]]}]
  /\ Goto(t, "deinit")
  /\ UNCHANGED <<options, shared_fd, fds, fd, lost, leaked, quiet, php, pid, attached>>

NoTrace(t) ==
  /\ pc[t] = "trace"
  /\ Goto(t, "deinit")
  /\ UNCHANGED <<options, output, quiet, php, pid, attached>>

(* Mutant: every descriptor is closed.                                      *)
Deinit_closes_shared(t) ==
  /\ pc[t] = "deinit"
  /\ fds' = [fds EXCEPT ![fd[t]] = Free]
  /\ fd' = [fd EXCEPT ![t] = NoFd]
  /\ Return(t)
  /\ UNCHANGED <<options, shared_fd, files, lost, leaked, quiet, php, attached>>

(* Mutant: none is closed while there is a shared one.                      *)
Deinit_keeps(t) ==
  /\ pc[t] = "deinit"
  /\ fds' = IF shared_fd # NoFd THEN fds ELSE [fds EXCEPT ![fd[t]] = Free]
  /\ fd' = [fd EXCEPT ![t] = NoFd]
  /\ Return(t)
  /\ UNCHANGED <<options, shared_fd, files, lost, leaked, quiet, php, attached>>

(* The event DEINIT. *)
Deinit(t) ==
  /\ pc[t] = "deinit"
  /\ fds' = IF fd[t] = shared_fd THEN fds ELSE [fds EXCEPT ![fd[t]] = Free]
  /\ fd' = [fd EXCEPT ![t] = NoFd]
  /\ Return(t)
  /\ UNCHANGED <<options, shared_fd, files, lost, leaked, quiet, php, attached>>

----------------------------------------------------------------------------
Next ==
  \E t \in Threads :
    \/ Attach(t)
    \/ FindFails(t)
    \/ QuietRead(t)
    \/ QuietRaise(t)
    \/ QuietLower(t)
    \/ FoutOpen(t)
    \/ FoutOpenFails(t)
    \/ TestAuto(t)
    \/ GetPhpVersion(t)
    \/ SetupFails(t)
    \/ ChooseTrace(t)
    \/ Trace(t)
    \/ NoTrace(t)
    \/ Deinit(t)

Spec == Init /\ [][Next]_vars

----------------------------------------------------------------------------
TypeOK ==
  /\ opt_path_output \in {"%d", "-", "path"} /\ version \in [Pids -> Versions]
  /\ opt_phpv \in Versions \cup {"auto"} /\ do_trace_ptr \in Versions \cup {"unset"}
  /\ opt_quiet \in Int /\ tmp \in [Threads -> Int] /\ overwrites \in Nat
  /\ fds \in [0..(MaxFd - 1) -> Files \cup {Free}]
  /\ files \in [Files -> SUBSET [by : Threads, nth : Nat]]
  /\ lost \subseteq [by : Threads, nth : Nat] /\ leaked \in Nat
  /\ fd \in [Threads -> {NoFd} \cup 0..(MaxFd - 1)]
  /\ shared_fd \in {NoFd} \cup 0..(MaxFd - 1)
  /\ attached \in [Threads -> Nat]
  /\ pid \in [Threads -> Pids \cup {NoPid}]
  /\ pc \in [Threads -> {"idle", "find", "raise", "symbol", "lower", "open", "auto", "version",
                         "choose", "trace", "deinit"}]

HasOutput == {t \in Threads : fd[t] # NoFd}
OnePhp == \A p, q \in Pids : version[p] = version[q]

(* A thread that traces writes to a descriptor that is open for the output  *)
(* it is meant for and that no other thread uses or closes, whatever the    *)
(* others attach to and detach from in the meantime; stdout and the shared  *)
(* descriptor stay open for those to come.                                  *)
OutputStaysOpen ==
  /\ \A t \in HasOutput : fds[fd[t]] = File(t)
  /\ \A t, u \in HasOutput : fd[t] = fd[u] => t = u
  /\ fds[Stdout] = "stdout"
  /\ shared_fd # NoFd => fds[shared_fd] = "path"

(* No descriptor is left behind, but for the shared one and one for each    *)
(* call of main_pid that failed after it had opened the output.             *)
OnlyFailuresLeak ==
  Cardinality({n \in DOMAIN fds : fds[n] # Free}) =
    1 + leaked + Cardinality({fd[t] : t \in HasOutput} \cup ({shared_fd} \ {NoFd}))

(* A trace that was written stays in its file, except that with %d in the   *)
(* path a thread's own earlier traces go when it opens its file again for   *)
(* another process.                                                         *)
OwnOutputLost ==
  \A trace \in lost : opt_path_output = "%d" /\ trace.nth < attached[trace.by]

(* If the processes all run the same PHP, each is traced with the layout of *)
(* that PHP, although threads test, detect and choose at the same time.     *)
LayoutMatches ==
  \A t \in Threads :
    pc[t] = "trace" /\ OnePhp => do_trace_ptr = version[pid[t]]

(* The threads that have raised opt_quiet and not lowered it yet.           *)
Looking == {t \in Threads : pc[t] \in {"symbol", "lower"}}

(* opt_quiet is the number of threads that look up basic_functions_module,  *)
(* however many do at a time, but for the updates that were lost because    *)
(* ++ and -- are not atomic: each of them moves it by less than the number  *)
(* of threads, upwards or downwards, and nothing else does, so that errors  *)
(* are reported again after the lookups if none was lost.                   *)
QuietCounts ==
  LET off == opt_quiet - Cardinality(Looking)
      most == (Cardinality(Threads) - 1) * overwrites
  IN -most <= off /\ off <= most
============================================================================

--------------------------- MODULE WorkersProofs ---------------------------
(***************************************************************************)
(* The work threads do not disturb each other through what they share, for *)
(* any number of threads, processes, versions and descriptors.             *)
(***************************************************************************)
EXTENDS Workers, FiniteSetTheorems, TLAPS

(* Every step is for Zenon first and, if that does not find a proof soon,   *)
(* for the SMT solver.                                                      *)
USE ZenonT(5), SMTT(30)

Opening == {"auto", "version", "choose", "trace", "deinit"}

(* Descriptors: a thread has one from INIT to DEINIT; it is never the one   *)
(* of stdout; and only a path without %d is shared.                         *)
FdInv ==
  /\ \A t \in Threads : fd[t] # NoFd <=> pc[t] \in Opening
  /\ \A t \in Threads : fd[t] # Stdout
  /\ shared_fd # Stdout
  /\ opt_path_output # "path" => shared_fd = NoFd
  /\ opt_path_output = "path" /\ HasOutput # {} => shared_fd # NoFd

(* Versions: once there is one it is that of every process, and a thread    *)
(* that has passed the test of opt_phpv finds it.                           *)
PhpInv ==
  /\ \A t \in Threads : pc[t] # "idle" => pid[t] \in Pids
  /\ \A t \in Threads : pc[t] = "choose" => opt_phpv # "auto"
  /\ \A t \in Threads : pc[t] = "trace" => do_trace_ptr # "unset"
  /\ OnePhp => \A p \in Pids : opt_phpv \in {"auto", version[p]}
  /\ OnePhp => \A p \in Pids : do_trace_ptr \in {"unset", version[p]}

(* Files: a thread's own holds its own traces, and until it traces again    *)
(* all of them are of processes it had before; a path that was not opened   *)
(* holds none.                                                              *)
FileInv ==
  /\ \A t \in Threads : \A trace \in files[t] : trace.by = t
  /\ \A t \in Threads : \A trace \in files[t] :
       trace.nth <= attached[t] /\ (pc[t] \notin {"idle", "deinit"} => trace.nth < attached[t])
  /\ shared_fd = NoFd => files["path"] = {}

(* The most that lost updates can have moved opt_quiet by.                  *)
N == Cardinality(Threads)
Most == (N - 1) * overwrites

(* opt_quiet, and what a thread has read of it, is a number of threads that *)
(* were looking up a symbol, give or take Most.                             *)
QuietInv ==
  /\ QuietCounts
  /\ \A t \in Threads : pc[t] = "raise" => -Most <= tmp[t] /\ tmp[t] <= Most + N - 1
  /\ \A t \in Threads : pc[t] = "lower" => 1 - Most <= tmp[t] /\ tmp[t] <= Most + N

WInv == TypeOK /\ FdInv /\ OutputStaysOpen /\ PhpInv /\ FileInv /\ OwnOutputLost /\ QuietInv

(* The types, which need that a thread has its process, descriptor and      *)
(* version when it uses them.                                               *)
LEMMA TypeStep ==
  ASSUME TypeOK, FdInv, OutputStaysOpen, PhpInv, [Next]_vars
  PROVE  TypeOK'
<1> USE NamesAssumption DEF TypeOK, options, output, quiet, php, Files, NoFd, Free, Stdout, NoPid
<1>1. CASE UNCHANGED vars
  BY <1>1 DEF vars, options, output, quiet, php
<1>2. CASE \E t \in Threads : Attach(t)
  BY <1>2 DEF Attach, Goto
<1>3. CASE \E t \in Threads : FindFails(t)
  BY <1>3 DEF FindFails, Return, Goto
<1>4. CASE \E t \in Threads : QuietRead(t)
  BY <1>4 DEF QuietRead, Goto
<1>5. CASE \E t \in Threads : QuietRaise(t)
  BY <1>5 DEF QuietRaise, QuietWrite, Goto
<1>6. CASE \E t \in Threads : QuietLower(t)
  BY <1>6 DEF QuietLower, QuietWrite, Goto
<1>7. CASE \E t \in Threads : FoutOpen(t)
  <2>1. PICK t \in Threads, n \in FreeFds :
          /\ pc[t] = "open"
          /\ \/ opt_path_output = "%d" /\ OpenOwn(t, n)
             \/ opt_path_output = "-" /\ Dup(t, n, Stdout)
             \/ opt_path_output = "path" /\ shared_fd = NoFd /\ OpenPath(t, n)
             \/ opt_path_output = "path" /\ shared_fd # NoFd /\ Dup(t, n, shared_fd)
          /\ Goto(t, "auto")
          /\ UNCHANGED <<options, leaked, quiet, php, pid, attached>>
    BY <1>7 DEF FoutOpen
  <2>2. n \in 0..(MaxFd - 1) /\ fds[n] = Free /\ n # NoFd /\ fd[t] = NoFd
    <3>1. n \in DOMAIN fds /\ fds[n] = Free
      BY <2>1 DEF FreeFds
    <3>2. n \in 0..(MaxFd - 1)
      BY <3>1
    <3>3. pc[t] \notin Opening
      BY <2>1 DEF Opening
    <3>4. fd[t] = NoFd
      BY <3>3 DEF FdInv
    <3> QED BY <3>1, <3>2, <3>4
  <2>3. CASE opt_path_output = "%d" /\ OpenOwn(t, n)
    BY <2>1, <2>2, <2>3 DEF OpenOwn, Opened, Truncated, Goto, FdInv, OutputStaysOpen, PhpInv, Opening, HasOutput, File
  <2>4. CASE opt_path_output = "-" /\ Dup(t, n, Stdout)
    BY <2>1, <2>2, <2>4 DEF Dup, Opened, Goto, FdInv, OutputStaysOpen, PhpInv, Opening, HasOutput, File
  <2>5. CASE opt_path_output = "path" /\ shared_fd = NoFd /\ OpenPath(t, n)
    BY <2>1, <2>2, <2>5 DEF OpenPath, Opened, Truncated, Goto, FdInv, OutputStaysOpen, PhpInv, Opening, HasOutput, File
  <2>6. CASE opt_path_output = "path" /\ shared_fd # NoFd /\ Dup(t, n, shared_fd)
    BY <2>1, <2>2, <2>6 DEF Dup, Opened, Goto, FdInv, OutputStaysOpen, PhpInv, Opening, HasOutput, File
  <2> QED BY <2>1, <2>3, <2>4, <2>5, <2>6
<1>8. CASE \E t \in Threads : FoutOpenFails(t)
  BY <1>8 DEF FoutOpenFails, Return, Goto
<1>9. CASE \E t \in Threads : TestAuto(t)
  BY <1>9 DEF TestAuto, Goto
<1>10. CASE \E t \in Threads : GetPhpVersion(t)
  <2>1. PICK t \in Threads : GetPhpVersion(t)
    BY <1>10
  <2>2. pid[t] \in Pids
    BY <2>1 DEF GetPhpVersion, PhpInv
  <2>3. opt_phpv' \in Versions
    BY <2>1, <2>2 DEF GetPhpVersion
  <2> QED BY <2>1, <2>3 DEF GetPhpVersion, Goto
<1>11. CASE \E t \in Threads : SetupFails(t)
  BY <1>11 DEF SetupFails, Return, Goto
<1>12. CASE \E t \in Threads : ChooseTrace(t)
  <2>1. PICK t \in Threads : ChooseTrace(t)
    BY <1>12
  <2>2. do_trace_ptr' \in Versions
    BY <2>1 DEF ChooseTrace, PhpInv
  <2> QED BY <2>1, <2>2 DEF ChooseTrace, Goto
<1>13. CASE \E t \in Threads : Trace(t)
  <2>1. PICK t \in Threads : Trace(t)
    BY <1>13
  <2>2. fd[t] # NoFd
    BY <2>1 DEF Trace, FdInv, Opening
  <2>3. fds[fd[t]] = File(t)
    BY <2>2 DEF OutputStaysOpen, HasOutput
  <2>4. File(t) \in Files
    BY DEF File
  <2>5. [by |-> t, nth |-> attached[t]] \in [by : Threads, nth : Nat]
    OBVIOUS
  <2>6. files' \in [Files -> SUBSET [by : Threads, nth : Nat]]
    BY <2>1, <2>3, <2>4, <2>5 DEF Trace
  <2> QED BY <2>1, <2>6 DEF Trace, Goto
<1>14. CASE \E t \in Threads : NoTrace(t)
  BY <1>14 DEF NoTrace, Goto
<1>15. CASE \E t \in Threads : Deinit(t)
  <2>1. PICK t \in Threads : Deinit(t)
    BY <1>15
  <2>2. fds' \in [0..(MaxFd - 1) -> Files \cup {Free}]
    BY <2>1 DEF Deinit
  <2> QED BY <2>1, <2>2 DEF Deinit, Return, Goto
<1> QED BY <1>1, <1>2, <1>3, <1>4, <1>5, <1>6, <1>7, <1>8, <1>9, <1>10, <1>11, <1>12, <1>13, <1>14, <1>15 DEF Next

(* A free descriptor that is opened for a thread's output disturbs no other *)
(* one.                                                                     *)
LEMMA OpenedKeeps ==
  ASSUME TypeOK, OutputStaysOpen,
         NEW t \in Threads, NEW n \in 0..(MaxFd - 1), fds[n] = Free, fd[t] = NoFd,
         Opened(t, n, File(t)), UNCHANGED opt_path_output,
         shared_fd' = shared_fd \/ (shared_fd' = n /\ File(t) = "path")
  PROVE  OutputStaysOpen'
<1> USE NamesAssumption DEF Free, NoFd, Stdout
<1>1. \A u \in Threads : File(u) # Free /\ File(u)' = File(u)
  BY DEF File
<1>2. \A u \in HasOutput : fd[u] \in 0..(MaxFd - 1) /\ fd[u] # n
  BY <1>1 DEF OutputStaysOpen, HasOutput, TypeOK
<1>3. fds' = [fds EXCEPT ![n] = File(t)] /\ fd' = [fd EXCEPT ![t] = n]
  BY DEF Opened
<1>4. HasOutput' = HasOutput \cup {t} /\ t \notin HasOutput
  BY <1>3 DEF HasOutput, TypeOK
<1>5. \A u \in HasOutput' : fds'[fd'[u]] = File(u)
  <2>1. fds'[fd'[t]] = File(t)
    BY <1>3 DEF TypeOK
  <2>2. ASSUME NEW u \in HasOutput PROVE fds'[fd'[u]] = File(u)
    BY <1>2, <1>3, <1>4 DEF TypeOK, OutputStaysOpen, HasOutput
  <2> QED BY <1>4, <2>1, <2>2
<1>6. \A u, w \in HasOutput' : fd'[u] = fd'[w] => u = w
  BY <1>2, <1>3, <1>4 DEF TypeOK, OutputStaysOpen, HasOutput
<1>7. fds'[Stdout] = "stdout"
  BY <1>3 DEF TypeOK, OutputStaysOpen
<1>8. shared_fd' # NoFd => fds'[shared_fd'] = "path"
  BY <1>3 DEF TypeOK, OutputStaysOpen
<1>9. \A u \in HasOutput' : fds'[fd'[u]] = File(u)'
  BY <1>1, <1>5 DEF HasOutput
<1> QED BY <1>6, <1>7, <1>8, <1>9 DEF OutputStaysOpen

(* The descriptors. *)
LEMMA FdStep ==
  ASSUME TypeOK, FdInv, OutputStaysOpen, [Next]_vars
  PROVE  FdInv' /\ OutputStaysOpen'
<1> USE NamesAssumption DEF TypeOK, FdInv, OutputStaysOpen, HasOutput, File, Opening, options, output, quiet, php, Files, NoFd, Free, Stdout, NoPid
<1>1. CASE UNCHANGED vars
  BY <1>1 DEF vars, options, output, quiet, php
<1>2. CASE \E t \in Threads : Attach(t)
  BY <1>2 DEF Attach, Goto
<1>3. CASE \E t \in Threads : FindFails(t)
  BY <1>3 DEF FindFails, Return, Goto
<1>4. CASE \E t \in Threads : QuietRead(t)
  BY <1>4 DEF QuietRead, Goto
<1>5. CASE \E t \in Threads : QuietRaise(t)
  BY <1>5 DEF QuietRaise, QuietWrite, Goto
<1>6. CASE \E t \in Threads : QuietLower(t)
  BY <1>6 DEF QuietLower, QuietWrite, Goto
<1>7. CASE \E t \in Threads : FoutOpen(t)
  <2>1. PICK t \in Threads, n \in FreeFds :
          /\ pc[t] = "open"
          /\ \/ opt_path_output = "%d" /\ OpenOwn(t, n)
             \/ opt_path_output = "-" /\ Dup(t, n, Stdout)
             \/ opt_path_output = "path" /\ shared_fd = NoFd /\ OpenPath(t, n)
             \/ opt_path_output = "path" /\ shared_fd # NoFd /\ Dup(t, n, shared_fd)
          /\ Goto(t, "auto")
          /\ UNCHANGED <<options, leaked, quiet, php, pid, attached>>
    BY <1>7 DEF FoutOpen
  <2>2. n \in 0..(MaxFd - 1) /\ fds[n] = Free /\ n # NoFd /\ fd[t] = NoFd
    <3>1. n \in DOMAIN fds /\ fds[n] = Free
      BY <2>1 DEF FreeFds
    <3>2. n \in 0..(MaxFd - 1)
      BY <3>1
    <3>3. pc[t] \notin Opening
      BY <2>1 DEF Opening
    <3>4. fd[t] = NoFd
      BY <3>3 DEF FdInv
    <3> QED BY <3>1, <3>2, <3>4
  <2>3. CASE opt_path_output = "%d" /\ OpenOwn(t, n)
    <3>1. FdInv'
      BY <2>1, <2>2, <2>3 DEF OpenOwn, Opened, Truncated, Goto
    <3>2. /\ Opened(t, n, File(t))
          /\ UNCHANGED opt_path_output
          /\ shared_fd' = shared_fd \/ (shared_fd' = n /\ File(t) = "path")
      BY <2>1, <2>3 DEF OpenOwn, File
    <3>3. OutputStaysOpen'
      BY ONLY <2>2, <3>2, t \in Threads, TypeOK, OutputStaysOpen, OpenedKeeps
    <3> QED BY <3>1, <3>3
  <2>4. CASE opt_path_output = "-" /\ Dup(t, n, Stdout)
    <3>1. FdInv'
      BY <2>1, <2>2, <2>4 DEF Dup, Opened, Goto
    <3>2. /\ Opened(t, n, File(t))
          /\ UNCHANGED opt_path_output
          /\ shared_fd' = shared_fd \/ (shared_fd' = n /\ File(t) = "path")
      BY <2>1, <2>4 DEF Dup, File
    <3>3. OutputStaysOpen'
      BY ONLY <2>2, <3>2, t \in Threads, TypeOK, OutputStaysOpen, OpenedKeeps
    <3> QED BY <3>1, <3>3
  <2>5. CASE opt_path_output = "path" /\ shared_fd = NoFd /\ OpenPath(t, n)
    <3>1. FdInv'
      BY <2>1, <2>2, <2>5 DEF OpenPath, Opened, Truncated, Goto
    <3>2. /\ Opened(t, n, File(t))
          /\ UNCHANGED opt_path_output
          /\ shared_fd' = shared_fd \/ (shared_fd' = n /\ File(t) = "path")
      BY <2>1, <2>5 DEF OpenPath, File
    <3>3. OutputStaysOpen'
      BY ONLY <2>2, <3>2, t \in Threads, TypeOK, OutputStaysOpen, OpenedKeeps
    <3> QED BY <3>1, <3>3
  <2>6. CASE opt_path_output = "path" /\ shared_fd # NoFd /\ Dup(t, n, shared_fd)
    <3>1. FdInv'
      BY <2>1, <2>2, <2>6 DEF Dup, Opened, Goto
    <3>2. /\ Opened(t, n, File(t))
          /\ UNCHANGED opt_path_output
          /\ shared_fd' = shared_fd \/ (shared_fd' = n /\ File(t) = "path")
      BY <2>1, <2>6 DEF Dup, File
    <3>3. OutputStaysOpen'
      BY ONLY <2>2, <3>2, t \in Threads, TypeOK, OutputStaysOpen, OpenedKeeps
    <3> QED BY <3>1, <3>3
  <2> QED BY <2>1, <2>3, <2>4, <2>5, <2>6
<1>8. CASE \E t \in Threads : FoutOpenFails(t)
  BY <1>8 DEF FoutOpenFails, Return, Goto
<1>9. CASE \E t \in Threads : TestAuto(t)
  BY <1>9 DEF TestAuto, Goto
<1>10. CASE \E t \in Threads : GetPhpVersion(t)
  BY <1>10 DEF GetPhpVersion, Goto
<1>11. CASE \E t \in Threads : SetupFails(t)
  BY <1>11 DEF SetupFails, Return, Goto
<1>12. CASE \E t \in Threads : ChooseTrace(t)
  BY <1>12 DEF ChooseTrace, Goto
<1>13. CASE \E t \in Threads : Trace(t)
  BY <1>13 DEF Trace, Goto
<1>14. CASE \E t \in Threads : NoTrace(t)
  BY <1>14 DEF NoTrace, Goto
<1>15. CASE \E t \in Threads : Deinit(t)
  BY <1>15 DEF Deinit, Return, Goto
<1> QED BY <1>1, <1>2, <1>3, <1>4, <1>5, <1>6, <1>7, <1>8, <1>9, <1>10, <1>11, <1>12, <1>13, <1>14, <1>15 DEF Next

(* The versions. *)
LEMMA PhpStep ==
  ASSUME TypeOK, PhpInv, [Next]_vars
  PROVE  PhpInv'
<1> USE NamesAssumption DEF TypeOK, PhpInv, OnePhp, options, output, quiet, php, NoPid
<1>1. CASE UNCHANGED vars
  BY <1>1 DEF vars, options, output, quiet, php
<1>2. CASE \E t \in Threads : Attach(t)
  BY <1>2 DEF Attach, Goto
<1>3. CASE \E t \in Threads : FindFails(t)
  BY <1>3 DEF FindFails, Return, Goto
<1>4. CASE \E t \in Threads : QuietRead(t)
  BY <1>4 DEF QuietRead, Goto
<1>5. CASE \E t \in Threads : QuietRaise(t)
  BY <1>5 DEF QuietRaise, QuietWrite, Goto
<1>6. CASE \E t \in Threads : QuietLower(t)
  BY <1>6 DEF QuietLower, QuietWrite, Goto
<1>7. CASE \E t \in Threads : FoutOpen(t)
  BY <1>7 DEF FoutOpen, Goto, Opened, Truncated, OpenOwn, OpenPath, Dup, FreeFds
<1>8. CASE \E t \in Threads : FoutOpenFails(t)
  BY <1>8 DEF FoutOpenFails, Return, Goto
<1>9. CASE \E t \in Threads : TestAuto(t)
  BY <1>9 DEF TestAuto, Goto
<1>10. CASE \E t \in Threads : GetPhpVersion(t)
  BY <1>10 DEF GetPhpVersion, Goto
<1>11. CASE \E t \in Threads : SetupFails(t)
  BY <1>11 DEF SetupFails, Return, Goto
<1>12. CASE \E t \in Threads : ChooseTrace(t)
  BY <1>12 DEF ChooseTrace, Goto
<1>13. CASE \E t \in Threads : Trace(t)
  BY <1>13 DEF Trace, Goto
<1>14. CASE \E t \in Threads : NoTrace(t)
  BY <1>14 DEF NoTrace, Goto
<1>15. CASE \E t \in Threads : Deinit(t)
  BY <1>15 DEF Deinit, Return, Goto
<1> QED BY <1>1, <1>2, <1>3, <1>4, <1>5, <1>6, <1>7, <1>8, <1>9, <1>10, <1>11, <1>12, <1>13, <1>14, <1>15 DEF Next

(* The files. *)
LEMMA FileStep ==
  ASSUME TypeOK, FdInv, OutputStaysOpen, FileInv, OwnOutputLost, [Next]_vars
  PROVE  FileInv' /\ OwnOutputLost'
<1> USE NamesAssumption DEF TypeOK, FdInv, OutputStaysOpen, FileInv, OwnOutputLost, HasOutput, File, Opening, options, output, quiet, php, Files, NoFd, Free, Stdout, NoPid
<1>1. CASE UNCHANGED vars
  BY <1>1 DEF vars, options, output, quiet, php
<1>2. CASE \E t \in Threads : Attach(t)
  <2>1. PICK t \in Threads : Attach(t)
    BY <1>2
  <2>2. /\ attached' = [attached EXCEPT ![t] = @ + 1] /\ pc' = [pc EXCEPT ![t] = "find"]
        /\ UNCHANGED <<files, shared_fd, opt_path_output, fd, fds, lost>>
    BY <2>1 DEF Attach, Goto
  <2>3. \A u \in Threads : \A trace \in files'[u] :
          /\ trace.nth <= attached'[u]
          /\ pc'[u] \notin {"idle", "deinit"} => trace.nth < attached'[u]
    BY <2>2
  <2> QED BY <2>2, <2>3
<1>3. CASE \E t \in Threads : FindFails(t)
  BY <1>3 DEF FindFails, Return, Goto
<1>4. CASE \E t \in Threads : QuietRead(t)
  BY <1>4 DEF QuietRead, Goto
<1>5. CASE \E t \in Threads : QuietRaise(t)
  BY <1>5 DEF QuietRaise, QuietWrite, Goto
<1>6. CASE \E t \in Threads : QuietLower(t)
  BY <1>6 DEF QuietLower, QuietWrite, Goto
<1>7. CASE \E t \in Threads : FoutOpen(t)
  <2>1. PICK t \in Threads, n \in FreeFds :
          /\ pc[t] = "open"
          /\ \/ opt_path_output = "%d" /\ OpenOwn(t, n)
             \/ opt_path_output = "-" /\ Dup(t, n, Stdout)
             \/ opt_path_output = "path" /\ shared_fd = NoFd /\ OpenPath(t, n)
             \/ opt_path_output = "path" /\ shared_fd # NoFd /\ Dup(t, n, shared_fd)
          /\ Goto(t, "auto")
          /\ UNCHANGED <<options, leaked, quiet, php, pid, attached>>
    BY <1>7 DEF FoutOpen
  <2>2. n \in 0..(MaxFd - 1) /\ fds[n] = Free /\ n # NoFd /\ fd[t] = NoFd
    <3>1. n \in DOMAIN fds /\ fds[n] = Free
      BY <2>1 DEF FreeFds
    <3>2. n \in 0..(MaxFd - 1)
      BY <3>1
    <3>3. pc[t] \notin Opening
      BY <2>1 DEF Opening
    <3>4. fd[t] = NoFd
      BY <3>3 DEF FdInv
    <3> QED BY <3>1, <3>2, <3>4
  <2>3. CASE opt_path_output = "%d" /\ OpenOwn(t, n)
    BY <2>1, <2>2, <2>3 DEF OpenOwn, Opened, Truncated, Goto
  <2>4. CASE opt_path_output = "-" /\ Dup(t, n, Stdout)
    BY <2>1, <2>2, <2>4 DEF Dup, Opened, Goto
  <2>5. CASE opt_path_output = "path" /\ shared_fd = NoFd /\ OpenPath(t, n)
    BY <2>1, <2>2, <2>5 DEF OpenPath, Opened, Truncated, Goto
  <2>6. CASE opt_path_output = "path" /\ shared_fd # NoFd /\ Dup(t, n, shared_fd)
    BY <2>1, <2>2, <2>6 DEF Dup, Opened, Goto
  <2> QED BY <2>1, <2>3, <2>4, <2>5, <2>6
<1>8. CASE \E t \in Threads : FoutOpenFails(t)
  BY <1>8 DEF FoutOpenFails, Return, Goto
<1>9. CASE \E t \in Threads : TestAuto(t)
  BY <1>9 DEF TestAuto, Goto
<1>10. CASE \E t \in Threads : GetPhpVersion(t)
  BY <1>10 DEF GetPhpVersion, Goto
<1>11. CASE \E t \in Threads : SetupFails(t)
  BY <1>11 DEF SetupFails, Return, Goto
<1>12. CASE \E t \in Threads : ChooseTrace(t)
  BY <1>12 DEF ChooseTrace, Goto
<1>13. CASE \E t \in Threads : Trace(t)
  <2>1. PICK t \in Threads : Trace(t)
    BY <1>13
  <2>2. fd[t] # NoFd
    BY <2>1 DEF Trace
  <2>3. fds[fd[t]] = File(t) /\ File(t) \in Files
    BY <2>2
  <2>4. files' = [files EXCEPT ![File(t)] = @ \cup {[by |-> t, nth |-> attached[t]]}]
    BY <2>1, <2>3 DEF Trace
  <2>5. CASE opt_path_output = "%d"
    <3>1. File(t) = t
      BY <2>5
    <3> QED BY <2>1, <2>4, <3>1 DEF Trace, Goto
  <2>6. CASE opt_path_output # "%d"
    <3>1. File(t) \notin Threads
      BY <2>6
    <3>2. \A u \in Threads : files'[u] = files[u]
      BY <2>4, <3>1
    <3>3. shared_fd = NoFd => files'["path"] = files["path"]
      <4>1. CASE opt_path_output = "path"
        BY <2>2, <4>1
      <4>2. CASE opt_path_output = "-"
        BY <2>3, <2>4, <4>2
      <4> QED BY <2>6, <4>1, <4>2
    <3> QED BY <2>1, <3>2, <3>3 DEF Trace, Goto
  <2> QED BY <2>5, <2>6
<1>14. CASE \E t \in Threads : NoTrace(t)
  BY <1>14 DEF NoTrace, Goto
<1>15. CASE \E t \in Threads : Deinit(t)
  BY <1>15 DEF Deinit, Return, Goto
<1> QED BY <1>1, <1>2, <1>3, <1>4, <1>5, <1>6, <1>7, <1>8, <1>9, <1>10, <1>11, <1>12, <1>13, <1>14, <1>15 DEF Next

(* There are as many threads that look up a symbol as there can be.         *)
LEMMA LookingCount ==
  /\ N \in Nat /\ Looking \subseteq Threads /\ IsFiniteSet(Looking)
  /\ Cardinality(Looking) \in 0..N
  /\ \A t \in Threads : t \in Looking => Cardinality(Looking) >= 1
  /\ \A t \in Threads : t \notin Looking => Cardinality(Looking) <= N - 1
<1>1. Looking \subseteq Threads /\ IsFiniteSet(Threads)
  BY NamesAssumption DEF Looking
<1>2. IsFiniteSet(Looking) /\ N \in Nat /\ Cardinality(Looking) \in Nat /\ Cardinality(Looking) <= N
  BY <1>1, FS_Subset, FS_CardinalityType DEF N
<1>3. ASSUME NEW t \in Looking PROVE Cardinality(Looking) >= 1
  <2>1. Cardinality(Looking) # 0
    BY <1>2, FS_EmptySet
  <2> QED BY <1>2, <2>1
<1>4. ASSUME NEW t \in Threads, t \notin Looking PROVE Cardinality(Looking) <= N - 1
  <2>1. Looking \subseteq Threads \ {t}
    BY <1>1, <1>4
  <2>2. IsFiniteSet(Threads \ {t}) /\ Cardinality(Threads \ {t}) = N - 1
    BY <1>1, FS_RemoveElement DEF N
  <2> QED BY <2>1, <2>2, FS_Subset
<1> QED BY <1>1, <1>2, <1>3, <1>4

(* Most is a number, and an overwrite adds N - 1 to it.                     *)
LEMMA MostGrows ==
  ASSUME NEW t \in Threads, overwrites \in Nat
  PROVE  /\ N \in Nat /\ N >= 1 /\ Most \in Nat
         /\ overwrites' = overwrites + 1 => Most' = Most + N - 1
         /\ overwrites' = overwrites => Most' = Most
<1>1. N \in Nat /\ N >= 1
  BY LookingCount
<1>2. N' = N
  BY DEF N
<1>3. PICK k : k = N - 1
  OBVIOUS
<1>4. k \in Nat
  BY <1>1, <1>3
<1>5. k * overwrites \in Nat /\ k * (overwrites + 1) = k * overwrites + k
  BY ONLY <1>4, overwrites \in Nat, SMTT(30)
<1> QED BY <1>1, <1>2, <1>3, <1>4, <1>5 DEF Most

(* A step outside of find_addresses' use of opt_quiet.                      *)
LEMMA QuietElsewhere ==
  ASSUME QuietInv, UNCHANGED <<opt_quiet, tmp, overwrites>>,
         \A u \in Threads :
           pc[u] \in {"raise", "symbol", "lower"} \/ pc'[u] \in {"raise", "symbol", "lower"}
             => pc'[u] = pc[u]
  PROVE  QuietInv'
<1>1. Looking' = Looking
  BY DEF Looking
<1>2. Most' = Most /\ N' = N
  BY DEF Most, N
<1>3. QuietCounts'
  BY <1>1 DEF QuietInv, QuietCounts
<1> QED BY <1>2, <1>3 DEF QuietInv

(* What QuietCounts says, in terms of Most.                                 *)
LEMMA Counts ==
  /\ QuietCounts <=> /\ -Most <= opt_quiet - Cardinality(Looking)
                    /\ opt_quiet - Cardinality(Looking) <= Most
  /\ QuietCounts' <=> /\ -Most' <= opt_quiet' - Cardinality(Looking')
                     /\ opt_quiet' - Cardinality(Looking') <= Most'
BY DEF QuietCounts, Most, N

(* ++ or -- reads opt_quiet: one of the counts from 0 to N - 1 for a thread *)
(* that is not looking up a symbol, and from 1 to N for one that is.        *)
LEMMA QuietReadStep ==
  ASSUME TypeOK, QuietInv, NEW t \in Threads, QuietRead(t)
  PROVE  QuietInv'
<1>1. /\ tmp' = [tmp EXCEPT ![t] = opt_quiet]
      /\ pc' = [pc EXCEPT ![t] = IF pc[t] = "find" THEN "raise" ELSE "lower"]
      /\ pc[t] \in {"find", "symbol"} /\ UNCHANGED <<opt_quiet, overwrites>>
  BY DEF QuietRead, Goto
<1>2. Looking' = Looking /\ (pc[t] = "symbol" <=> t \in Looking)
  BY <1>1 DEF Looking, TypeOK
<1>3. Most' = Most /\ N' = N /\ Most \in Nat /\ N \in Nat
  BY <1>1, MostGrows DEF N, TypeOK
<1>4. QuietCounts'
  BY <1>1, <1>2, <1>3, Counts DEF QuietInv
<1>5. opt_quiet \in Int /\ Cardinality(Looking) \in 0..N
  BY LookingCount DEF TypeOK
<1>6. -Most <= opt_quiet - Cardinality(Looking) /\ opt_quiet - Cardinality(Looking) <= Most
  BY Counts DEF QuietInv
<1>7. CASE pc[t] = "find"
  <2>1. Cardinality(Looking) <= N - 1
    BY <1>2, <1>7, LookingCount
  <2>2. -Most <= opt_quiet /\ opt_quiet <= Most + N - 1
    BY ONLY <1>3, <1>5, <1>6, <2>1, SMTT(30)
  <2>3. tmp'[t] = opt_quiet /\ pc'[t] = "raise" /\ \A u \in Threads \ {t} : pc'[u] = pc[u] /\ tmp'[u] = tmp[u]
    BY <1>1, <1>7 DEF TypeOK
  <2> QED BY <1>3, <1>4, <2>2, <2>3 DEF QuietInv
<1>8. CASE pc[t] = "symbol"
  <2>1. Cardinality(Looking) >= 1
    BY <1>2, <1>8, LookingCount
  <2>2. 1 - Most <= opt_quiet /\ opt_quiet <= Most + N
    BY ONLY <1>3, <1>5, <1>6, <2>1, SMTT(30)
  <2>3. tmp'[t] = opt_quiet /\ pc'[t] = "lower" /\ \A u \in Threads \ {t} : pc'[u] = pc[u] /\ tmp'[u] = tmp[u]
    BY <1>1, <1>8 DEF TypeOK
  <2> QED BY <1>3, <1>4, <2>2, <2>3 DEF QuietInv
<1> QED BY <1>1, <1>7, <1>8

(* What the other threads have read stays within its bounds, which only     *)
(* grow.                                                                    *)
LEMMA ReadsStay ==
  ASSUME TypeOK, QuietInv, NEW t \in Threads, QuietCounts',
         pc'[t] \notin {"raise", "lower"},
         \A u \in Threads \ {t} : pc'[u] = pc[u] /\ tmp'[u] = tmp[u],
         Most \in Nat, Most' \in Nat, Most <= Most'
  PROVE  QuietInv'
<1>1. N' = N /\ N \in Nat /\ tmp \in [Threads -> Int]
  BY LookingCount DEF N, TypeOK
<1>2. ASSUME NEW u \in Threads, pc'[u] = "raise" PROVE -Most' <= tmp'[u] /\ tmp'[u] <= Most' + N - 1
  <2>1. tmp'[u] = tmp[u] /\ tmp[u] \in Int /\ -Most <= tmp[u] /\ tmp[u] <= Most + N - 1
    BY <1>1, <1>2 DEF QuietInv
  <2> QED BY ONLY <1>1, <2>1, Most \in Nat, Most' \in Nat, Most <= Most', SMTT(30)
<1>3. ASSUME NEW u \in Threads, pc'[u] = "lower" PROVE 1 - Most' <= tmp'[u] /\ tmp'[u] <= Most' + N
  <2>1. tmp'[u] = tmp[u] /\ tmp[u] \in Int /\ 1 - Most <= tmp[u] /\ tmp[u] <= Most + N
    BY <1>1, <1>3 DEF QuietInv
  <2> QED BY ONLY <1>1, <2>1, Most \in Nat, Most' \in Nat, Most <= Most', SMTT(30)
<1> QED BY <1>1, <1>2, <1>3 DEF QuietInv

(* The write: if nobody has written since the read, opt_quiet and the       *)
(* number of threads change by the same; if somebody has, the new value is  *)
(* next to a number of threads of an earlier time.                          *)
LEMMA QuietWriteStep ==
  ASSUME TypeOK, QuietInv, NEW t \in Threads, NEW d \in {1, -1},
         pc[t] = IF d = 1 THEN "raise" ELSE "lower",
         QuietWrite(t, tmp[t] + d), Goto(t, IF d = 1 THEN "symbol" ELSE "open")
  PROVE  QuietInv'
<1>1. /\ opt_quiet' = tmp[t] + d /\ tmp' = [tmp EXCEPT ![t] = 0]
      /\ overwrites' = overwrites + IF opt_quiet = tmp[t] THEN 0 ELSE 1
      /\ pc' = [pc EXCEPT ![t] = IF d = 1 THEN "symbol" ELSE "open"]
  BY DEF QuietWrite, Goto
<1>2. /\ opt_quiet \in Int /\ tmp[t] \in Int /\ overwrites \in Nat
      /\ N \in Nat /\ N >= 1 /\ Most \in Nat /\ Cardinality(Looking) \in 0..N
  BY MostGrows, LookingCount DEF TypeOK
<1>3. Looking' = (IF d = 1 THEN Looking \cup {t} ELSE Looking \ {t}) /\ (t \in Looking <=> d = -1)
  BY <1>1 DEF Looking, TypeOK
<1>4. Cardinality(Looking') = Cardinality(Looking) + d
  <2>1. CASE d = 1
    BY <1>2, <1>3, <2>1, LookingCount, FS_AddElement
  <2>2. CASE d = -1
    BY <1>2, <1>3, <2>2, LookingCount, FS_RemoveElement
  <2> QED BY <2>1, <2>2
<1>5. -Most <= opt_quiet - Cardinality(Looking) /\ opt_quiet - Cardinality(Looking) <= Most
  BY Counts DEF QuietInv
<1>6. QuietCounts' /\ Most' \in Nat /\ Most <= Most'
  <2>1. CASE opt_quiet = tmp[t]
    <3>1. Most' = Most
      BY <1>1, <1>2, <2>1, MostGrows
    <3>2. opt_quiet' - Cardinality(Looking') = opt_quiet - Cardinality(Looking)
      BY ONLY <1>1, <1>2, <1>4, <2>1, d \in {1, -1}, SMTT(30)
    <3> QED BY <1>2, <1>5, <3>1, <3>2, Counts
  <2>2. CASE opt_quiet # tmp[t]
    <3>1. Most' = Most + N - 1
      BY <1>1, <1>2, <2>2, MostGrows
    <3>2. CASE d = 1
      <4>1. -Most <= tmp[t] /\ tmp[t] <= Most + N - 1 /\ Cardinality(Looking) <= N - 1
        BY <1>3, <3>2, LookingCount DEF QuietInv
      <4>2. -Most' <= opt_quiet' - Cardinality(Looking') /\ opt_quiet' - Cardinality(Looking') <= Most'
        BY ONLY <1>1, <1>2, <1>4, <3>1, <3>2, <4>1, SMTT(30)
      <4> QED BY <1>2, <3>1, <4>2, Counts
    <3>3. CASE d = -1
      <4>1. 1 - Most <= tmp[t] /\ tmp[t] <= Most + N /\ Cardinality(Looking) >= 1
        BY <1>3, <3>3, LookingCount DEF QuietInv
      <4>2. -Most' <= opt_quiet' - Cardinality(Looking') /\ opt_quiet' - Cardinality(Looking') <= Most'
        BY ONLY <1>1, <1>2, <1>4, <3>1, <3>3, <4>1, SMTT(30)
      <4> QED BY <1>2, <3>1, <4>2, Counts
    <3> QED BY <3>2, <3>3
  <2> QED BY <2>1, <2>2
<1>7. pc'[t] \notin {"raise", "lower"} /\ \A u \in Threads \ {t} : pc'[u] = pc[u] /\ tmp'[u] = tmp[u]
  BY <1>1 DEF TypeOK
<1> QED BY <1>2, <1>6, <1>7, ReadsStay

(* opt_quiet. *)
LEMMA QuietStep ==
  ASSUME TypeOK, QuietInv, [Next]_vars
  PROVE  QuietInv'
<1> DEFINE Elsewhere ==
             /\ UNCHANGED <<opt_quiet, tmp, overwrites>>
             /\ \A u \in Threads :
                  pc[u] \in {"raise", "symbol", "lower"} \/ pc'[u] \in {"raise", "symbol", "lower"}
                    => pc'[u] = pc[u]
<1>1. Elsewhere => QuietInv'
  BY QuietElsewhere
<1> USE DEF TypeOK, quiet
<1>2. CASE UNCHANGED vars
  BY <1>1, <1>2 DEF vars
<1>3. ASSUME NEW t \in Threads, Attach(t) PROVE QuietInv'
  BY <1>1, <1>3 DEF Attach, Goto
<1>4. ASSUME NEW t \in Threads, FindFails(t) PROVE QuietInv'
  BY <1>1, <1>4 DEF FindFails, Return, Goto
<1>5. ASSUME NEW t \in Threads, QuietRead(t) PROVE QuietInv'
  BY ONLY TypeOK, QuietInv, <1>5, QuietReadStep, SMTT(30)
<1>6. ASSUME NEW t \in Threads, QuietRaise(t) PROVE QuietInv'
  <2>1. pc[t] = "raise" /\ QuietWrite(t, tmp[t] + 1) /\ Goto(t, "symbol")
    BY ONLY <1>6 DEF QuietRaise
  <2> QED BY ONLY TypeOK, QuietInv, t \in Threads, <2>1, QuietWriteStep, SMTT(30)
<1>7. ASSUME NEW t \in Threads, QuietLower(t) PROVE QuietInv'
  <2>1. pc[t] = "lower" /\ QuietWrite(t, tmp[t] - 1) /\ Goto(t, "open")
    BY ONLY <1>7 DEF QuietLower
  <2>2. tmp[t] - 1 = tmp[t] + (-1)
    OBVIOUS
  <2> QED BY ONLY TypeOK, QuietInv, t \in Threads, <2>1, <2>2, QuietWriteStep, SMTT(30)
<1>8. ASSUME NEW t \in Threads, FoutOpen(t) PROVE QuietInv'
  BY <1>1, <1>8 DEF FoutOpen, Goto
<1>9. ASSUME NEW t \in Threads, FoutOpenFails(t) PROVE QuietInv'
  BY <1>1, <1>9 DEF FoutOpenFails, Return, Goto
<1>10. ASSUME NEW t \in Threads, TestAuto(t) PROVE QuietInv'
  BY <1>1, <1>10 DEF TestAuto, Goto
<1>11. ASSUME NEW t \in Threads, GetPhpVersion(t) PROVE QuietInv'
  BY <1>1, <1>11 DEF GetPhpVersion, Goto
<1>12. ASSUME NEW t \in Threads, SetupFails(t) PROVE QuietInv'
  BY <1>1, <1>12 DEF SetupFails, Return, Goto
<1>13. ASSUME NEW t \in Threads, ChooseTrace(t) PROVE QuietInv'
  BY <1>1, <1>13 DEF ChooseTrace, Goto
<1>14. ASSUME NEW t \in Threads, Trace(t) PROVE QuietInv'
  BY <1>1, <1>14 DEF Trace, Goto
<1>15. ASSUME NEW t \in Threads, NoTrace(t) PROVE QuietInv'
  BY <1>1, <1>15 DEF NoTrace, Goto
<1>16. ASSUME NEW t \in Threads, Deinit(t) PROVE QuietInv'
  BY <1>1, <1>16 DEF Deinit, Return, Goto
<1> QED BY ONLY [Next]_vars, <1>2, <1>3, <1>4, <1>5, <1>6, <1>7, <1>8, <1>9, <1>10, <1>11, <1>12,
             <1>13, <1>14, <1>15, <1>16, SMTT(30) DEF Next

(* It holds at the start. *)
LEMMA InitInv == Init => WInv
<1> SUFFICES ASSUME Init PROVE WInv
  OBVIOUS
<1> USE NamesAssumption DEF Init, Files, NoFd, Free, Stdout, NoPid
<1>1. TypeOK
  <2>1. fds \in [0..(MaxFd - 1) -> Files \cup {Free}] /\ files \in [Files -> SUBSET [by : Threads, nth : Nat]]
    OBVIOUS
  <2>2. fd \in [Threads -> {NoFd} \cup 0..(MaxFd - 1)] /\ shared_fd \in {NoFd} \cup 0..(MaxFd - 1)
    OBVIOUS
  <2>3. pid \in [Threads -> Pids \cup {NoPid}] /\ attached \in [Threads -> Nat] /\ tmp \in [Threads -> Int]
    OBVIOUS
  <2>4. pc \in [Threads -> {"idle", "find", "raise", "symbol", "lower", "open", "auto", "version",
                            "choose", "trace", "deinit"}]
    OBVIOUS
  <2>5. /\ opt_path_output \in {"%d", "-", "path"} /\ version \in [Pids -> Versions]
        /\ opt_phpv \in Versions \cup {"auto"} /\ do_trace_ptr \in Versions \cup {"unset"}
        /\ opt_quiet \in Int /\ leaked \in Nat /\ lost \subseteq [by : Threads, nth : Nat]
    OBVIOUS
  <2>6. overwrites \in Nat
    OBVIOUS
  <2> QED BY ONLY <2>1, <2>2, <2>3, <2>4, <2>5, <2>6 DEF TypeOK
<1>2. FdInv /\ OutputStaysOpen
  BY DEF FdInv, OutputStaysOpen, HasOutput, Opening
<1>3. PhpInv
  BY DEF PhpInv
<1>4. FileInv /\ OwnOutputLost
  BY DEF FileInv, OwnOutputLost
<1>5. QuietInv
  <2>1. Looking = {} /\ Cardinality(Looking) = 0
    BY FS_EmptySet DEF Looking
  <2>2. Most = 0
    BY LookingCount DEF Most
  <2>3. QuietCounts
    BY <2>1, <2>2 DEF QuietCounts, Most, N
  <2> QED BY <2>3 DEF QuietInv
<1> QED BY <1>1, <1>2, <1>3, <1>4, <1>5 DEF WInv

(* Every step of every thread keeps it. *)
THEOREM WorkersInvariant == Spec => []WInv
<1>1. WInv /\ [Next]_vars => WInv'
  BY TypeStep, FdStep, PhpStep, FileStep, QuietStep DEF WInv
<1> QED BY InitInv, <1>1, PTL DEF Spec

(* event_handler_fout_open and the event DEINIT: while a thread traces, its *)
(* descriptor is open for its own output, no other thread uses or closes    *)
(* it, and stdout and the shared descriptor stay open.                      *)
THEOREM OutputIsOpen == Spec => []OutputStaysOpen
BY WorkersInvariant, PTL DEF WInv

(* O_TRUNC in event_handler_fout_open: only a thread's own earlier traces   *)
(* can be lost, and only with %d in the path.                               *)
THEOREM OnlyOwnLost == Spec => []OwnOutputLost
BY WorkersInvariant, PTL DEF WInv

(* get_php_version and the choice of do_trace_ptr, which the threads make   *)
(* without a lock: with one PHP version around, each process is traced with *)
(* the layout of that version.                                              *)
THEOREM LayoutIsRight == Spec => []LayoutMatches
<1>1. WInv => LayoutMatches
  BY DEF WInv, TypeOK, PhpInv, LayoutMatches
<1> QED BY WorkersInvariant, <1>1, PTL

(* find_addresses, which the threads run with no lock: opt_quiet is the     *)
(* number of threads between its ++ and its --, and each update that was    *)
(* lost moves it by less than the number of threads.                        *)
THEOREM QuietIsCounted == Spec => []QuietCounts
<1>1. WInv => QuietCounts
  BY DEF WInv, QuietInv
<1> QED BY WorkersInvariant, <1>1, PTL

----------------------------------------------------------------------------
(* The descriptors that are open, and those that a thread or shared_fd      *)
(* still names.                                                             *)
Used == {n \in DOMAIN fds : fds[n] # Free}
Held == {fd[t] : t \in HasOutput} \cup ({shared_fd} \ {NoFd})

(* What is named is open, and is not the descriptor of stdout.              *)
LEMMA HeldIsUsed ==
  ASSUME TypeOK, FdInv, OutputStaysOpen
  PROVE  /\ IsFiniteSet(Used) /\ IsFiniteSet(Held)
         /\ Held \subseteq Used \ {Stdout}
         /\ Cardinality(Used) \in Nat /\ Cardinality(Held) \in Nat
<1> USE NamesAssumption DEF Free, NoFd, Stdout
<1>1. IsFiniteSet(0..(MaxFd - 1))
  BY FS_Interval
<1>2. Used \subseteq 0..(MaxFd - 1)
  BY DEF Used, TypeOK
<1>3. Held \subseteq Used \ {Stdout}
  <2>1. \A t \in HasOutput : fd[t] \in 0..(MaxFd - 1) /\ fds[fd[t]] # Free /\ fd[t] # Stdout
    BY DEF HasOutput, TypeOK, FdInv, OutputStaysOpen, File
  <2>2. shared_fd # NoFd => shared_fd \in 0..(MaxFd - 1) /\ fds[shared_fd] # Free /\ shared_fd # Stdout
    BY DEF TypeOK, FdInv, OutputStaysOpen
  <2> QED BY <2>1, <2>2 DEF Held, Used, TypeOK
<1>4. IsFiniteSet(Used)
  BY <1>1, <1>2, FS_Subset
<1>5. IsFiniteSet(Held)
  BY <1>3, <1>4, FS_Subset
<1> QED BY <1>3, <1>4, <1>5, FS_CardinalityType

(* A descriptor more is open and named. *)
LEMMA OneMore ==
  ASSUME TypeOK, FdInv, OutputStaysOpen, OnlyFailuresLeak,
         NEW n, n \notin Used,
         Used' = Used \cup {n}, Held' = Held \cup {n}, leaked' = leaked
  PROVE  OnlyFailuresLeak'
<1>1. n \notin Held
  BY HeldIsUsed
<1>2. Cardinality(Used') = Cardinality(Used) + 1 /\ Cardinality(Held') = Cardinality(Held) + 1
  BY <1>1, HeldIsUsed, FS_AddElement
<1>3. Cardinality(Used) = 1 + leaked + Cardinality(Held)
  BY DEF OnlyFailuresLeak, Used, Held
<1>4. Cardinality(Used') = 1 + leaked' + Cardinality(Held')
  BY <1>2, <1>3, HeldIsUsed DEF TypeOK
<1> QED BY <1>4 DEF OnlyFailuresLeak, Used, Held

(* A thread that lets go of its descriptor takes it from those that are     *)
(* named, unless it is the shared one: no other thread has it.              *)
LEMMA LetGo ==
  ASSUME TypeOK, FdInv, OutputStaysOpen, NEW t \in Threads, fd[t] # NoFd,
         fd' = [fd EXCEPT ![t] = NoFd], shared_fd' = shared_fd
  PROVE  /\ fd[t] \in Held
         /\ Held' = IF fd[t] = shared_fd THEN Held ELSE Held \ {fd[t]}
<1>1. HasOutput' = HasOutput \ {t} /\ t \in HasOutput
  BY DEF HasOutput, TypeOK
<1>2. \A u \in HasOutput' : fd'[u] = fd[u] /\ fd[u] # fd[t]
  BY <1>1 DEF HasOutput, TypeOK, OutputStaysOpen
<1>3. {fd'[u] : u \in HasOutput'} = {fd[u] : u \in HasOutput} \ {fd[t]}
  <2>1. {fd'[u] : u \in HasOutput'} = {fd[u] : u \in HasOutput'}
    BY <1>2
  <2>2. {fd[u] : u \in HasOutput'} = {fd[u] : u \in HasOutput} \ {fd[t]}
    BY <1>1, <1>2
  <2> QED BY <2>1, <2>2
<1>4. fd[t] \in {fd[u] : u \in HasOutput}
  BY <1>1
<1>5. fd[t] # NoFd
  OBVIOUS
<1> QED BY <1>3, <1>4, <1>5 DEF Held

(* What is open but not named was left by a call of main_pid that failed.   *)
LEMMA LeakStep ==
  ASSUME TypeOK, FdInv, OutputStaysOpen, OnlyFailuresLeak, [Next]_vars
  PROVE  OnlyFailuresLeak'
<1> USE NamesAssumption DEF options, output, quiet, php
<1>1. ASSUME UNCHANGED <<fds, fd, shared_fd, leaked>> PROVE OnlyFailuresLeak'
  BY <1>1 DEF OnlyFailuresLeak, HasOutput
<1>2. ASSUME NEW t \in Threads, FoutOpen(t) PROVE OnlyFailuresLeak'
  <2>1. PICK n \in FreeFds :
          /\ fd' = [fd EXCEPT ![t] = n]
          /\ \E file : fds' = [fds EXCEPT ![n] = file] /\ file \in Files
          /\ shared_fd' \in {shared_fd, n}
          /\ (opt_path_output = "path" /\ shared_fd = NoFd) \/ shared_fd' = shared_fd
          /\ leaked' = leaked
    <3>1. PICK n \in FreeFds :
            /\ \/ opt_path_output = "%d" /\ OpenOwn(t, n)
               \/ opt_path_output = "-" /\ Dup(t, n, Stdout)
               \/ opt_path_output = "path" /\ shared_fd = NoFd /\ OpenPath(t, n)
               \/ opt_path_output = "path" /\ shared_fd # NoFd /\ Dup(t, n, shared_fd)
            /\ leaked' = leaked
      BY <1>2 DEF FoutOpen
    <3> QED BY <3>1 DEF OpenOwn, Dup, OpenPath, Opened, Files, OutputStaysOpen
  <2>2. n \in DOMAIN fds /\ fds[n] = Free /\ n \in 0..(MaxFd - 1)
    BY DEF FreeFds, TypeOK
  <2>3. fd[t] = NoFd
    BY <1>2 DEF FoutOpen, FdInv, Opening
  <2>4. Used' = Used \cup {n} /\ n \notin Used
    BY <2>1, <2>2 DEF Used, TypeOK, Files, Free
  <2>5. HasOutput' = HasOutput \cup {t} /\ t \notin HasOutput
    BY <2>1, <2>2, <2>3 DEF HasOutput, TypeOK, NoFd
  <2>6. {fd'[u] : u \in HasOutput'} = {fd[u] : u \in HasOutput} \cup {n}
    <3>1. fd'[t] = n /\ \A u \in HasOutput : fd'[u] = fd[u]
      BY <2>1, <2>5 DEF HasOutput, TypeOK
    <3> QED BY <2>5, <3>1
  <2>7. Held' = Held \cup {n}
    BY <2>1, <2>2, <2>6 DEF Held, NoFd
  <2> QED BY <2>1, <2>4, <2>7, OneMore
<1>3. ASSUME NEW t \in Threads, SetupFails(t) PROVE OnlyFailuresLeak'
  <2>1. /\ leaked' = IF fd[t] = shared_fd THEN leaked ELSE leaked + 1
        /\ fd' = [fd EXCEPT ![t] = NoFd] /\ shared_fd' = shared_fd /\ fds' = fds
    BY <1>3 DEF SetupFails
  <2>2. fd[t] # NoFd
    BY <1>3 DEF SetupFails, FdInv, Opening
  <2>3. fd[t] \in Held /\ Held' = IF fd[t] = shared_fd THEN Held ELSE Held \ {fd[t]}
    BY <2>1, <2>2, LetGo
  <2>4. Used' = Used /\ Cardinality(Used) = 1 + leaked + Cardinality(Held)
    BY <2>1 DEF Used, OnlyFailuresLeak, Held
  <2>5. Cardinality(Held') = IF fd[t] = shared_fd THEN Cardinality(Held) ELSE Cardinality(Held) - 1
    BY <2>3, HeldIsUsed, FS_RemoveElement
  <2>6. Cardinality(Used') = 1 + leaked' + Cardinality(Held')
    <3>1. leaked \in Nat /\ Cardinality(Held) \in Nat
      BY HeldIsUsed DEF TypeOK
    <3>2. Cardinality(Used') = 1 + leaked + Cardinality(Held)
      BY <2>4
    <3>3. CASE fd[t] = shared_fd
      BY <2>1, <2>5, <3>1, <3>2, <3>3
    <3>4. CASE fd[t] # shared_fd
      BY <2>1, <2>5, <3>1, <3>2, <3>4
    <3> QED BY <3>3, <3>4
  <2> QED BY <2>6 DEF OnlyFailuresLeak, Used, Held
<1>4. ASSUME NEW t \in Threads, Deinit(t) PROVE OnlyFailuresLeak'
  <2>1. /\ leaked' = leaked /\ shared_fd' = shared_fd
        /\ fd' = [fd EXCEPT ![t] = NoFd]
        /\ fds' = IF fd[t] = shared_fd THEN fds ELSE [fds EXCEPT ![fd[t]] = Free]
    BY <1>4 DEF Deinit
  <2>2. fd[t] # NoFd
    BY <1>4 DEF Deinit, FdInv, Opening
  <2>3. fd[t] \in Held /\ Held' = IF fd[t] = shared_fd THEN Held ELSE Held \ {fd[t]}
    BY <2>1, <2>2, LetGo
  <2>4. Used' = IF fd[t] = shared_fd THEN Used ELSE Used \ {fd[t]}
    BY <2>1 DEF Used, TypeOK
  <2>5. fd[t] \in Used
    BY <2>3, HeldIsUsed
  <2>6. /\ Cardinality(Held') = IF fd[t] = shared_fd THEN Cardinality(Held) ELSE Cardinality(Held) - 1
        /\ Cardinality(Used') = IF fd[t] = shared_fd THEN Cardinality(Used) ELSE Cardinality(Used) - 1
    BY <2>3, <2>4, <2>5, HeldIsUsed, FS_RemoveElement
  <2>7. Cardinality(Used) = 1 + leaked + Cardinality(Held)
    BY DEF Used, OnlyFailuresLeak, Held
  <2>8. Cardinality(Used') = 1 + leaked' + Cardinality(Held')
    BY <2>1, <2>6, <2>7, HeldIsUsed DEF TypeOK
  <2> QED BY <2>8 DEF OnlyFailuresLeak, Used, Held
<1>5. ASSUME NEW t \in Threads,
             Attach(t) \/ FindFails(t) \/ QuietRead(t) \/ QuietRaise(t) \/ QuietLower(t)
               \/ FoutOpenFails(t) \/ TestAuto(t) \/ GetPhpVersion(t) \/ ChooseTrace(t)
               \/ Trace(t) \/ NoTrace(t)
      PROVE  OnlyFailuresLeak'
  BY <1>1, <1>5 DEF Attach, FindFails, QuietRead, QuietWrite, QuietRaise, QuietLower, FoutOpenFails,
                    TestAuto, GetPhpVersion, ChooseTrace, Trace, NoTrace
<1>6. CASE UNCHANGED vars
  BY <1>1, <1>6 DEF vars
<1> QED BY <1>2, <1>3, <1>4, <1>5, <1>6 DEF Next

(* At the start only stdout is open. *)
LEMMA InitLeak == Init => OnlyFailuresLeak
<1> SUFFICES ASSUME Init PROVE OnlyFailuresLeak
  OBVIOUS
<1> USE NamesAssumption DEF Free, NoFd, Stdout
<1>1. Used = {Stdout}
  BY DEF Init, Used
<1>2. Held = {}
  BY DEF Init, Held, HasOutput
<1>3. Cardinality(Used) = 1 /\ Cardinality(Held) = 0
  BY <1>1, <1>2, FS_EmptySet, FS_Singleton
<1> QED BY <1>3 DEF Init, OnlyFailuresLeak, Used, Held

(* event_handler_fout_open, the event DEINIT and the failing returns of     *)
(* main_pid: whatever the threads attach to and detach from, in any order,  *)
(* the open descriptors are stdout, those in use, the shared one and one    *)
(* for each call of main_pid that failed after it had opened the output.    *)
THEOREM OnlyFailedCallsLeak == Spec => []OnlyFailuresLeak
<1>1. WInv /\ OnlyFailuresLeak /\ [Next]_vars => OnlyFailuresLeak'
  BY LeakStep DEF WInv
<1> QED BY InitLeak, WorkersInvariant, <1>1, PTL DEF Spec
============================================================================

# phpspy: a TLA+ development

phpspy samples the PHP call stack of other processes by reading their memory.
This directory holds TLA+ modules that model its concurrent and stateful parts
and its algorithms, TLC configurations that check them on small instances, and
TLAPS proofs of the most important properties for every instance. All paths
below are relative to the repository root, which is `src/` here. `PROJECT.json`
lists, in machine readable form, the components, the runs, the source lines of
every definition, the hazards each property is aimed at, and the theorems.

## 1. The system

| part | source | what it does | state it changes |
|---|---|---|---|
| worker pool | `pgrep.c` | the main thread polls `pgrep` and queues pids; workers take them and sample; a signal thread turns a byte in `done_pipe` into `done` | `avail_pids`, `attached_pids`, mutex, two condition variables, `done` |
| worker set-up | `phpspy.c` `main_pid` before and after its loop, `find_addresses`, `get_php_version`; `event_fout.c` `event_handler_fout_open` | finds addresses, opens the output, chooses the PHP version | `opt_quiet`, `opt_phpv`, `do_trace_ptr`, the shared descriptor, files |
| sampling loop | `phpspy.c` `main_fork`, `main_pid`, `pause_pid`, `unpause_pid`, `copy_proc_mem` | trace a process again and again until it dies or a limit is reached | `trace_count`, `done`, the process's run state |
| one trace | `phpspy_trace.c` `do_trace` | reads globals, walks the stack, captures request, memory and variables, sends events | event order and return flags |
| stack walk | `phpspy_trace.c` `trace_stack`, `stack_collect`, `stack_emit_frame` | follows `prev_execute_data`, applies `-n` and `-N` | `stack_ptrs`, depth |
| fout handler | `event_fout.c` | buffers records, writes a trace whole or in chunks of at most `-b` bytes | buffer, truncation flag, chunk number |
| collapser | `stackcollapse-phpspy.pl` | puts chunks together, counts stacks | chunk and stack tables |
| callgrind handler | `event_callgrind.c` | costs and calls per function | cost tables |
| values and peeking | `phpspy_trace.c` `sprint_*`, `copy_zarray_bucket`, `trace_locals`, `trace_globals`, `trace_pdo`, ... | looks up and prints variables | a string buffer |
| address discovery | `addr_objdump.c` | quotes arguments, runs shell pipelines to find symbols | none |
| clock arithmetic | `phpspy.c` `clock_*`, `calc_sleep_time` | deadline, and sleep until the next sample | none |
| top mode | `top.c` | runs phpspy as a child, counts lines, draws a table | counters, screen |
| options | `phpspy.c` `parse_opts`, `varpeek_add`, `glopeek_add`, `usage` | parses the command line | options |
| versions | `phpspy_trace_tpl.c`, `structs/` | `do_trace` and structure layouts per PHP version | none |

How they interact: `main` picks one of four modes. `main_fork` starts a command
and calls `main_pid`; `main_pid` may be called directly; `main_pgrep` calls it
from every worker; `main_top` runs phpspy itself as a child. `main_pid` calls
`do_trace`, which calls the event handler, fout or callgrind, for every record.
All workers share the globals, `trace_count` and `done` among them, and with
fout their outputs are duplicates of one descriptor unless `-o` has a `%d`. The
collapser, or top mode, reads that output.

## 2. Modules

| module | models | source |
|---|---|---|
| `Pgrep` | all threads of pgrep mode, with the outline of `main_pid` they run | `pgrep.c`, `phpspy.c` |
| `PidPool` | what the pool promises: a pid is free, queued once, or held by one worker | abstract |
| `Workers` | `main_pid` before and after the loop in several threads that share globals, descriptors and files | `phpspy.c`, `event_fout.c` |
| `Sampler` | `main_fork`, `main_pid`, pausing and `do_trace` against one process | `phpspy.c`, `phpspy_trace.c` |
| `StackWalk` | the walk of a stack that changes under it, `-n` and `-N` | `phpspy_trace.c` |
| `Fout` | buffer, truncation, whole and chunked writing of one thread | `event_fout.c` |
| `FoutStream` | several threads that write one output, composed with the collapser | `event_fout.c`, `stackcollapse-phpspy.pl` |
| `Callgrind` | ingestion and digestion of traces | `event_callgrind.c` |
| `Top` | top mode with its child, the terminal and termbox's event queue | `top.c` |
| `Layouts` | the packed structures of all 24 headers | `structs/` |
| `StripDelim` | the replacement of delimiters inside a record | `event_fout.c` |
| `Clock` | sums, order and rests of times | `phpspy.c` |
| `ShellEscape` | quoting of an argument for the shell | `addr_objdump.c` |
| `Values` | hash lookup and bounded printing of values | `phpspy_trace.c`, `phpspy.c` |
| `ChildArgs` | the command line of top mode's child, and how it is read | `top.c`, `phpspy.c` |
| `Algorithms` | calls the operators of `StripDelim`, `Clock`, `ShellEscape` and `ChildArgs` with every argument of a bounded set | |
| `DataCalls` | the same for `Layouts` and `Values`, added to those of `Algorithms` | |
| `PgrepProofs`, `FoutProofs`, `FoutStreamProofs`, `SamplerProofs`, `WorkersProofs`, `StackWalkProofs`, `CallgrindProofs`, `AlgorithmsProofs` | theorems about the module of that name | |
| `MCFout`, `MCSampler`, `MCStackWalk`, `MCTop`, `MCWorkers` | instances for TLC | |

A definition whose comment begins with "Mutant" is a plausible mistake in the
definition that follows it. It is not part of the model. Replacing the
definition by it must break a property; `PROJECT.json` says which.

### Pgrep

Each thread has a label in `pc` between two accesses of shared state. The mutex
is a variable that names its owner. Only the main thread waits on `can_produce`
and only workers wait on `can_consume`, so a broadcast moves the labels
"blocked" and "napping" to the label after the wait; a wait may also end by
itself at any time (`Timeout`), as the two second timeout and spurious wake-ups
allow. `done` is read without the mutex, and a worker clears its slot of
`attached_pids` without it, as in the code. `init_work_threads` initialises the
mutex while the signal thread may already hold it: `MainInit` sets it free, and
the later unlock of the signal thread frees it whoever holds it then. Processes
start and stop at any time and pids are reused. `popen` may fail, in which case
the scan finds nothing. `trace_count` saturates at `TraceBound`.

### Workers

Each thread runs `main_pid` on one process after another. `++opt_quiet` and
`--opt_quiet` are a read and a write each (`tmp` is the register). The test of
`opt_phpv` and its detection are separate steps, and so is the choice of
`do_trace_ptr`, which the loop reads later. `event_handler_fout_open` runs under
a mutex and is one step: with `%d` it truncates the thread's own file, with `-`
it duplicates stdout, and otherwise the first thread opens the path and all
others duplicate its descriptor. Descriptors are few and `open` may fail. The
loop is one step that writes a trace or none. `lost`, `leaked` and `overwrites`,
which counts the writes of `opt_quiet` over a value that is not the one read,
are ghosts. Which process a thread gets is the pool's business; here it is any
that no other thread has.

### Sampler

The process is running, stopped for its tracer, halted by a SIGSTOP, both
("held"), a zombie, or gone. It may die in any step, which is when reads fail
with ESRCH; reads and event handlers may fail otherwise too. What ptrace and
waitpid do is external and modelled as far as `pause_pid` and `unpause_pid`
depend on it. Options and surroundings are one record, `opt`: `-S`, `-c`, `-l`,
`-i`, whether a command is run, whether the process gets other signals, and
whether it has another tracer. The stop time is tested at the head of the loop
(`late`), so a turn under way is finished. Sleeping is a step without effect and
left out; what is slept is in `Clock`. Before the loop, `find_addresses`, the
INIT event and `get_php_version` are a step each, of which only success or
failure is kept: the globals they share with other workers are in `Workers`. The
three captures after the stack are kept by the results they may have:
`trace_memory_info` always fails in a build for one version of PHP, and
`trace_globals` hides that a value could not be printed. `emitted` and `torn`
are ghosts: traces that reached the output, and whether a failed read that
`do_trace` hears of is in one of them.

### StackWalk

A frame is an address whose `prev_execute_data` is the address of its caller.
Calls and returns interleave with the walk unless the process is paused. A left
frame keeps its contents until the address is used again, so a walk can be led
into a loop. Sums of options are C ints: on overflow the model takes the wrapped
and the exact value, both of which a build can produce.

### Fout and FoutStream

`Fout` keeps the lengths and the places of delimiters and drops the text. Each
buffer operator gives the set of its outcomes. With `MemoryFails` formatting and
`realloc` may fail at any record. `want` is a ghost, the bytes of the records
offered. Writes may fail. `TailLen` is the length of the `trace_id` record of
each chunk, which grows with the chunk number. `FoutStream` abstracts from
sizes: a trace is whole or has some number of chunks, of one frame each, and a
write is atomic and complete, or fails. The collapser is a second process that
reads the stream behind the writers. The handler's mutex is off unless its
options ask for it, and left out.

### Callgrind

Locations stand for their `loc_str`; tables are functions that are 0 where the
hash table has no entry. A failed trace is one after which the next STACK_BEGIN
comes without STACK_END. The dump prints the tables and has no other effect.

### Top

Text is kept character by character here, because the code cuts it: `read` gives
any number of bytes that fit, lines are cut out of the buffer and the rest is
moved to its start, and a full buffer without a newline is emptied. stderr is
read as it was written. `qsort` gives any order that `func_list_compare` allows.
A second has passed or not at each turn of the loop. termbox reads all keys at
once, hands them out one by one, and reports a resize before keys it reads at
the same time; a signal that interrupts `select` makes `main_top` look up an
event and throw it away. `fork_child` returns 1 when it fails, which is not
taken for a failure: the loop then runs with no child.

### The algorithms

`Layouts` writes a header as five lists of numbers, the pads and stated offsets
that differ between headers, in structures that are otherwise the same.
`Values` takes memory that does not change meanwhile; of a number only its
digits matter, and an index has one. PHP's insertion into a hash table is
external. `HashBits` and `PHPSPY_STR_SIZE` are constants of the source.
`ChildArgs` keeps an option by its letter, for the short and the long form. The
loops of `shell_escape` and `parse_opts`, and the shell's reading of a word, are
functions of the number of characters or words done, each defined from the one
before. `Values` has recursive operators, which the prover does not accept, and
is therefore kept out of `Algorithms`.

## 3. Runs

Numbers of distinct states are those of the configurations as they stand. `pgrep`
takes three and a half minutes with two workers, each of the others less than
two.

| run | properties | what it shows | states |
|---|---|---|---|
| `pgrep` | `OneOwner`, `CriticalExclusion`, `ShutdownCompletes`, `PoolPromise`, `TargetsGetSampled` | no process has two owners; one thread at a time uses the queue; all threads end after a signal or the limit, without help from a timeout; the pool implements `PidPool`; processes that stay are sampled | 164,928 |
| `fout` | `BufferFits`, `WellFormedChunks`, `NoSilentLoss`, `OneSentinel`, `TruncatedForCause`, `PrefixOnly` | the buffer is never overrun; chunks hold whole records in order and fit `-b`; loss is reported; a trace is cut only at the cap | 19,306 |
| `fout_stream` | `OnlySentStacks`, `SentGetsCounted` | the collapser counts exactly the stacks that were written without a failure, each once | 82,018 |
| `sampler` | `TornOnlyWithC`, `LimitHolds`, `PausedWhileRead`, `NeverLeftStopped`, `BailOnlyIfDead`, `DeathEndsSampling`, `TimeLimitEnds` | whatever fails, a torn trace is not written without `-c`, limits hold, the process is let go, and sampling ends | 383,823 |
| `callgrind_tables` | `CostConserved`, `OnlyEndedTraces` | the tables are the sums over the traces that ended | 127,193 |
| `stack_walk` | `NothingMissingUnmarked`, `PausedExact`, `WalkEnds` | a walk ends on any changing stack; a paused one is exact for all `-n`, `-N`; frames are left out only where a marker says so | 1,165,143 |
| `workers` | `OutputStaysOpen`, `OnlyFailuresLeak`, `OwnOutputLost`, `LayoutMatches`, `QuietCounts` | threads do not disturb each other's output and layout through what they share; how far lost updates move `opt_quiet` | 1,620,918 |
| `top` | `CountsExact`, `ScreenConsistent`, `QuitEnds` | however output arrives, every frame is counted once and every screen adds up; top mode ends with its child | 304,853 |
| `algorithms` | `MirrorsAsStated`, `StripExact`, `ClockExact`, `EscapeExact`, `LookupFinds`, `ListFits`, `ChildSameOptions` | each algorithm gives what its reference definition says | 262,057 |
| `strip_trace` | `NoTraceDelim` | violated, see section 6 | |
| `sampler_status` | `StatusPropagated` | violated, see section 6 | |
| `callgrind_calls` | `ReturnsAreNoCalls` | violated, see section 6 | |

Deadlock is checked everywhere but in the callgrind runs, where the use of the
handler ends with DEINIT, and in `workers`, where threads are given no more
processes after `MaxAttach`; the other specifications have a final step that
stutters, or never stop before their bounds.

### Bounds and why they are enough

* `Pgrep.cfg`: two workers, two pids, a limit of one trace, so that the limit, a
  signal and the death of a process race each other. No symmetry, because
  liveness is checked. As there are no more pids than entries in the queue, it
  never meets a full array; the theorems of section 5 cover any number of pids
  and workers. `TargetsGetSampled` needs a worker for every process: with fewer a
  process may wait as long as another lives, and with processes that fail to set
  up it may wait for ever, because workers take the newest pid.
* `Workers.cfg`: two threads with two processes each in turn, two versions, and
  three descriptors besides stdout, which run out after a leak; every kind of
  path.
* `Fout.cfg`: chunks hold 5 bytes, from the third on 4 (the chunk number gains a
  digit); records of 2, 5 and 8 bytes, so that one kind always fits, one fits
  only at first, and one never does; the buffer grows once and then meets its
  cap. Memory does not fail in this run, so that `TruncatedForCause` says
  something; the proofs cover both cases.
* `FoutStream.cfg`: two threads, three traces between them, so that one thread
  writes two; up to two chunks; every write may fail.
* `Sampler.cfg`: limit 2, so that a count and a further trace happen; stacks of
  up to two frames, so that a read fails before, between and after frames.
* `CallgrindTables.cfg`: three traces of up to four frames over two functions
  with room for three frames: recursion, overflow of the stack, a failed trace
  between two that end.
* `StackWalk.cfg`: four addresses and a walk limit of three; options off, 0, 1,
  2 and the largest int (7), with which the sums overflow. `WalkEnds` is stated
  as a bound that every step lowers, so it needs no fairness and allows
  symmetry.
* `Top.cfg`: a buffer of six bytes and lines shorter, as long and longer than
  that, one of which has a frame at its end; three events, so that a line comes
  with a key and a resize, or is cut by a display.
* `DataCalls.cfg` and `StripTrace.cfg`: texts of up to four characters; a second of four
  nanoseconds; all headers; keys in the array that are shorter than their buffer,
  just fit or are cut, keys to look up of every length that `varname` holds, and
  tables so small that chains form; lists of up to three elements, one more
  than are printed, nested once, in every buffer of up to 12 bytes; command
  lines of up to five words.

### Fairness

* `Pgrep!Fairness`: every thread that can run does. Nothing is assumed of
  timeouts, signals, processes, or the order in which the mutex is granted.
  This is enough for `ShutdownCompletes`, as after `done` each thread takes the
  mutex a bounded number of times.
* `Pgrep!PollFairness` is assumed by `TargetsGetSampled` only: timed waits end
  after two seconds (the code's constant), a thread that asks for the mutex again
  and again gets it, and `popen` does not fail for ever. The mutex assumption is
  the usual one of a scheduler that is not adversarial; POSIX does not promise
  it.
* `Sampler!FairSpec`: phpspy goes on, and the kernel delivers signals.
* `FoutStream!FairSpec`: a thread that writes a trace goes on with it, and the
  collapser reads on.
* `Top!Fairness`: `main_top` goes on, its `select` having a timeout of a second,
  and the child, which is a phpspy that handles SIGTERM, exits after it.

## 4. Properties by hazard

The hazards are listed with their lines in `PROJECT.json`. The main ones:

* A pid queued or sampled twice, because slots are cleared without the mutex:
  `OneOwner`, `PoolPromise`. It holds because a slot is only ever cleared outside
  the mutex, never set, and the producer alone adds pids.
* A lost wake-up on shutdown: `ShutdownCompletes`. It holds because the signal
  thread sets `done` before it takes the mutex, and waiters test it under the
  mutex.
* The mutex initialised while held: `CriticalExclusion`. It holds because the
  signal thread takes the mutex only after `done` is set, and then nobody enters
  the critical code any more.
* Globals tested and written by several threads without a lock: `LayoutMatches`,
  for processes of one version, and `QuietCounts`, which includes the race: a lost
  update moves the count by less than the number of threads, and nothing else
  does.
* A descriptor shared by all workers: `OutputStaysOpen`, `OnlyFailuresLeak`,
  `OwnOutputLost`.
* A buffer at its cap, and failure between a record and its delimiter:
  `BufferFits`, `WellFormedChunks`, `PrefixOnly`, `NoSilentLoss`.
* A read that fails in the middle of a trace: `TornOnlyWithC`, `OnlyEndedTraces`.
* A process that dies, or is signalled, between attach and stop:
  `NeverLeftStopped`, `PausedWhileRead`.
* A stack that changes while it is walked: `WalkEnds`, `NothingMissingUnmarked`.
* Output cut anywhere by `read`, and keys that stay in termbox: `CountsExact`,
  `QuitEnds`.
* One wrong pad in 24 headers: `MirrorsAsStated`. It compares each header with
  the offsets stated in it, not with PHP; the repository's README says itself that
  the aarch64 structures before 8.3 are not valid.

## 5. Proofs

All proofs are checked by TLAPS with its SMT, Zenon and LS4 backends.

**The pool** (`PgrepProofs`), from `PgrepAssumption`: the workers are a finite
set of `opt_num_workers` elements, 0 is no pid, and no worker has the name of
another thread. `OneOwner` and `CriticalExclusion` are not inductive. `PoolInv`
strengthens them with

* `Guarded`: a thread in or about to enter the critical code holds the mutex, or
  `done` is set and nobody is in the critical code. The second case is the one
  after the mutex was initialised while it was held.
* `PopReady`: a worker about to pop finds a pid, so the index does not underflow.
* `Slots`: a slot of `attached_pids` is set exactly while its worker is between
  pop and clear, so a pop never overwrites a pid.
* `Started`: the signal thread is past `select` only if `done` is set, and there
  are no workers before `init_work_threads`, which therefore loses nothing.

There is one lemma per conjunct with one case per action. Theorems:
`PoolInvariant`, `TypeCorrect` (the queue never outgrows its array),
`PidsHaveOneOwner`, `MutualExclusion`, and `PoolKeepsPromise`, the refinement of
`PidPool`: adding a line of pgrep is `Enqueue`, pop is `Take`, clear is
`Release`, all else stutters.

**What workers share** (`WorkersProofs`), from `NamesAssumption`: the threads are
a finite set, there is a descriptor, and names are kept apart. `WInv` strengthens
the properties with `FdInv` (a thread has a descriptor exactly from INIT to
DEINIT, and there is a shared one as soon as a thread writes to a path), `PhpInv`
(once there is a version it is that of every process, and a thread past the test
finds it), `FileInv` (a thread's file holds its own traces, and none of the
present process before it traces) and `QuietInv` (what a thread has read of
`opt_quiet` is a number of threads that were in between `++` and `--`, give or
take what lost updates have moved it by; without this a write says nothing about
the new value). Theorems: `WorkersInvariant`, `OutputIsOpen`, `OnlyOwnLost`,
`LayoutIsRight`, `QuietIsCounted`, and `OnlyFailedCallsLeak`, which counts
descriptors: the difference between those open (`Used`) and those somebody still
has (`Held`) grows by one in a call of `main_pid` that fails after INIT and in no
other step. That a thread's descriptor is its own (`FdInv`, `OutputStaysOpen`) is
what makes an open or a close change both counts by one.

**The sampling loop** (`SamplerProofs`), from `SamplerAssumption` on the types of
options and depth. `SInv` has a part for each property: `TornInv` (a failed read
is still among the flags when the trace ends), `PausedInv`, `TracerInv` (phpspy
is the tracer from `pause_pid` to `unpause_pid` only), `StopInv` (the SIGSTOP of
the attach is pending or has stopped the process, never both), `DeadInv` (the
flag of a dead process is right, or comes of a failed detach) and `CountInv` (at
most one written trace is not counted yet, and if the turn does not count it, the
loop ends). Theorems: `SamplerInvariant`, `NoTornOutput`, `LimitIsKept`,
`ReadsAreOfOneMoment`, `ProcessIsLetGo`, `OnlyTheDeadAreGivenUp`.

**The fout handler** (`FoutProofs`), from `FoutAssumption`: sizes are natural
numbers, `-b` is positive, records are not empty; nothing is assumed of how long
a `trace_id` record is. `FoutInv` adds to the properties the state of the chunk
writer between two chunks (`Writer`): its offset is the end of the last chunk,
its number is the number of chunks, and only a chunk that reaches the end of an
untruncated trace has the sentinel. Lemmas about the buffer come first
(`TruncateSound`, `SnprintfSound`, `RecordSound`), then one per action. Theorems:
`FoutInvariant`, `BufferNeverOverrun`, `ChunksWellFormed`, `LossIsReported`,
`LastIsMarked`, `OutputIsPrefix`, an action property, and `CutOnlyAtTheLimit`: a
buffer that is refused more room already had records whose sum, with the one that
does not fit, exceeds `PHPSPY_FOUT_MAX_BUFFER`, because the length of an
untruncated buffer is that of all records offered.

**The stack walk** (`StackWalkProofs`), from `StackWalkAssumption`: for every
walk limit, every option and every set of addresses, `WalkIsBounded` (the type
invariant, in which the collected pointers are no more than the limit) and
`WalkTerminates`, that every step of the walk lowers the variant `StepsLeft`
whatever the process does in between. This is the termination of the walk
without an appeal to fairness.

`GapsAreMarked` rests on `WalkInv`: the plan either keeps all frames (`AllKept`)
or leaves out those between the leaf part and the root part (`SomeLeftOut`), and
before each turn of the loop the events emitted are the collected frames so far,
or the leaf part, the marker and what there is of the root part (`EmitInv`). It
holds while the process changes its stack, and for the wrapped as well as the
exact value of a sum that overflows. `PausedIsExact` adds `PausedInv`: the stack
is linked as it was called (`Linked`), what is collected is its beginning and
`remote` the next frame (`CollectInv`, and `FollowInv` for the loop without `-N`),
up to the end of the stack or the walk limit.

**The callgrind handler** (`CallgrindProofs`), from `CallgrindAssumption`:
`CallgrindInvariant` (the stack arrays are not overrun, and there are no more
calls than costs) and `RepeatsCountNothing` (a trace equal to the one before
counts no calls). `TablesAreTheTraces` proves `OnlyEndedTraces` together with
`DigestInv`, that the stack under construction is what the frames since
STACK_BEGIN leave in the array; a digested trace adds one position to the sets
that are counted, for each of its frames. `CostIsConserved` follows from
`OnlyEndedTraces`, by counting in two ways where a location stands in the traces:
as the root or called by another frame, and as the leaf or calling one. The cardinality lemmas (`PartsOf`, `UnitsOf`) are about sets that
fall into parts of known size.

**Chunks and the collapser** (`FoutStreamProofs`), from `MaxChunksAssumption`:
`NoForeignStacks`, for any number of threads, traces and chunks, and whichever
writes fail. `OnlySentStacks` is far from inductive, as it says nothing of chunks
that are under way. `StreamInv` says that there is an owner for every `trace_id`
given out so far (thread, trace, number of chunks, whether it was cut), such that

* `Owned`: no two numbers belong to one trace, and the number a thread is writing
  under belongs to its present trace;
* `Placed`: a unit in the stream, or kept by the collapser, is a chunk of the owner
  of its number, frame for frame, or (in the stream) a whole trace that has no
  number; and nothing is in the stream twice;
* `Ahead`: a chunk that a thread has still to write is in neither place, and if a
  write failed, neither is some earlier one;
* `Ended`: a last chunk in the stream is that of a trace all of which was sent, or
  some chunk of the trace is missing for good;
* `Counted`: every stack counted was sent, is counted once, and its whole trace or
  last chunk is not in the stream any more.

The missing chunk (`Missing`) is why the last chunk of a trace of which a write
failed finds the table incomplete. That joining the chunks gives the
trace (`JoinedSingles`, `JoinedIsAll`) is by induction.

**The algorithms** (`AlgorithmsProofs`), from `SecondAssumption` and
`BoundsAssumption` (bounds are natural numbers): `AddExact`, `DiffExact` and
`SleepExact` about the arithmetic, and `ClocksAreExact`, `StripIsExact`,
`EscapeIsExact` and `ChildIsTheSame`, that every call returns what the property of
the run says, for texts, buffers, times and command lines of any size. The
results of loops are proved by induction on the number of rounds: after i
characters `shell_escape` has failed exactly if they do not fit, and otherwise
the shell, reading what was written, is inside quotes and has the i characters
(`Escapes`); after i words parent and child are in the same state but for the
options that are replaced (`Same`), as long as no word was one of the exceptions
(`Spares`, which a prefix inherits). `StripIsExact` needs the greatest element of
a set (`MaxExists`) for where the first search leaves the cursor.

Induction over data is done on sets of natural numbers (`LeastNat`, `NatInduct`,
from the library's theorem that `<` is well-founded), as the library's induction
theorems have operators for parameters, which the backends cannot instantiate. A
recursive function is used by first proving that a function with its equation
exists (`JoinsExists`, `ReadsExists`, `PutsExists`, `ParsesExists`).

**Only model-checked:**

* all liveness (`ShutdownCompletes`, `TargetsGetSampled`, `SentGetsCounted`,
  `DeathEndsSampling`, `TimeLimitEnds`, `QuitEnds`): the prover has no rules for
  fairness;
* `LookupFinds` and `ListFits`: `Values` prints nested values with operators that
  are recursive, which the prover does not accept;
* `MirrorsAsStated`: it is about the 24 headers as they are and the run goes
  through all of them, so there is nothing to generalise;
* `CountsExact` and `ScreenConsistent` of `Top`.

## 6. Where the code and what is said of it differ

Three runs show a difference:

* `strip_trace`: one cursor serves the search for both delimiters, so with `-1` a
  newline before the last tab of a record is kept and ends the trace early.
* `sampler_status`: with `-S`, a command that exits while it is being paused is
  reaped by `pause_pid`; `main_fork` finds no child and its status is lost.
* `callgrind_calls`: a trace is compared with the previous one by index from the
  leaf, so one that only returned from the leaf compares each frame with its
  former callee and counts calls. The run shows `<f, f>` after `<g, f, f>`; the
  comment over the handler counts none for such a trace.

Some properties carry a condition that the code needs; without it they fail:

* `NeverLeftStopped` excepts processes that get another signal together with the
  SIGSTOP of the attach. `pause_pid` takes the first stop for its own; after the
  detach the SIGSTOP, still pending, stops the process.
* `BailOnlyIfDead` excepts `-S` on a process that has another tracer: the detach
  fails with ESRCH, which is read as "dead".
* `ShutdownCompletes` starts when the done pipe exists. A worker that reaches the
  limit before that has its trigger dropped by `write_done_pipe`.
* `WellFormedChunks` bounds the writes of records. The chunk with the truncation
  marker is not compared with `-b`.
* `PausedExact` counts `-N` from the end of the walk, which is not the root on a
  stack deeper than `PHPSPY_MAX_STACK_WALK`.
* `LayoutMatches` is about processes of one PHP version. The first version that
  is detected is kept in `opt_phpv` and used for all.
* `QuietCounts` allows for lost updates: after one, errors can stay unreported, or
  the count turns negative, which silences them as well. The bound is
  reached in both directions. The model is of a run without `-q`, where the count
  starts at 0.
* `OwnOutputLost`: with `%d` in `-o` a worker truncates its file whenever it takes
  another process, and what it wrote about earlier ones is gone.
* `OnlyFailuresLeak` counts one descriptor for each `main_pid` that fails between
  INIT and the loop, which returns without DEINIT.
* `LookupFinds` has two exceptions, both about elements that came later into the
  same slot. The search stops at a bucket without a key and takes it; and as keys
  are cut to `PHPSPY_STR_SIZE - 1` bytes before they are compared, a name of that
  length also matches a longer key that begins with it.
* `CountsExact` only bounds the error count of top mode: `read_child_err` advances
  by a distance from the start of the buffer, so from the third line on it may
  miss some.
* `QuitEnds` is about `q` as the only key and without a resize. Another key is
  handed out first while the terminal is no longer readable, and the event that
  is looked up after a SIGWINCH is thrown away.
* `ChildSameOptions` excepts an argument joined to `-o` (the next word is then
  taken for its argument) and words of the command, or arguments, that look like
  `-o`, `-1` or `-t`: they are rewritten too.
* The comment in `main_pid` that each thread may take one extra trace after the
  limit is not stated as a property: a worker asks for the next pid until `done`
  is set, so there is no bound.

Two more differences are seen in the source and not in a run: `trace_pdo` reads
the first argument in slot 5 for every version, while `phpspy_trace_tpl.c` gives
6 for PHP 7.0; and `fork_child` returns 1 when it fails while `main_top` tests
for a negative value, so that it ends with `kill(-1, SIGTERM)`, which `Top` keeps
as `signalled = "everyone"`.

## 7. Not modelled

* The shell pipelines of `addr_objdump.c` and of `get_php_version`, and parsing
  what they print: input and output whose result is only success or failure here.
* `trace_locals` and `trace_pdo`, which choose what `Values` prints and whose
  failures only drop a record. Lookups in memory that changes while it is read: a
  chain of buckets may then be anything.
* The text of records, the filter's regular expression (a filtered trace is one
  that ends silently), the rewriting of names in the collapser, the callgrind
  dump, the layout of top mode's screen, usage and logging.
* `varpeek_add`, `glopeek_add` and the values of options: sequential text
  handling. Of `parse_opts` only the division of the command line is modelled.
* In top mode: failures of `read`, the early returns before the fork, and writes
  to stderr that arrive joined.
* Writes that are cut short: `FoutStream`'s units are whole or missing.
* The version templates, which rename functions and have no state, and the
  declarations in `phpspy.h`.

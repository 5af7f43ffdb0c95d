----------------------------- MODULE FoutStream ----------------------------
(***************************************************************************)
(* Several tracing threads write whole and chunked traces to one output    *)
(* (src/event_fout.c; the descriptors are duplicates of one), and          *)
(* src/stackcollapse-phpspy.pl puts the chunks together again and counts   *)
(* stacks. A write is atomic and adds its bytes at the shared offset, or   *)
(* fails. How one thread cuts a trace into chunks is in module Fout. The   *)
(* handler's mutex is left out: it is off unless its options ask for it.   *)
(***************************************************************************)
EXTENDS Integers, Sequences, FiniteSets, Functions

CONSTANTS
  Thread,        \* the tracing threads
  MaxChunks,     \* bound on the chunks of a trace
  MaxTraces,     \* bound on the traces of all threads together
  WriteFails     \* whether writev may fail

ASSUME MaxChunksAssumption == MaxChunks \in Nat

VARIABLES
  trace_id,      \* event_handler_fout_trace_id
  udata,         \* by thread: the trace being written
  done,          \* by thread: how many traces it has written
  sent,          \* ghost: traces that were written without a failed write
  stream,        \* the output not yet read
  chunks,        \* of the collapser: chunks kept until the last one is read
  stacks         \* of the collapser: how often each stack was seen

vars == <<trace_id, udata, done, sent, stream, chunks, stacks>>

Idle == [n |-> 0]

(* The k-th data chunk of a trace of t holds one frame, which names it.     *)
Frame(t, k) == [thread |-> t, trace |-> done[t], chunk |-> k]

(* The frames of a complete trace; the chunk of a truncation marker has     *)
(* none.                                                                    *)
Frames(t, n, truncated) ==
  [k \in 1..(IF truncated THEN n - 1 ELSE n) |-> Frame(t, k - 1)]

(* The bound on the traces. *)
MayBegin(t) ==
  /\ udata[t] = Idle
  /\ SumFunction(done) + Cardinality({u \in Thread : udata[u] # Idle}) < MaxTraces

Init ==
  /\ trace_id = 0
  /\ udata = [t \in Thread |-> Idle]
  /\ done = [t \in Thread |-> 0]
  /\ sent = {}
  /\ stream = <<>>
  /\ chunks = {}
  /\ stacks = [s \in {} |-> 0]

(* event_handler_fout_writev; nothing is written if it fails. *)
Writev(ok, unit) == stream' = IF ok THEN Append(stream, unit) ELSE stream

Outcome == IF WriteFails THEN BOOLEAN ELSE {TRUE}

(* event_handler_fout_write_whole *)
WriteWhole(t) ==
  /\ MayBegin(t)
  /\ \E ok \in Outcome :
       /\ Writev(ok, [frames |-> Frames(t, 1, FALSE), id |-> -1, k |-> 0, m |-> ""])
       /\ sent' = IF ok THEN sent \cup {Frames(t, 1, FALSE)} ELSE sent
  /\ done' = [done EXCEPT ![t] = @ + 1]
  /\ UNCHANGED <<trace_id, udata, chunks, stacks>>

(* Mutant: the counter is read and never moved.                             *)
FetchAdd_lost == UNCHANGED trace_id

(* __atomic_fetch_add *)
FetchAdd == trace_id' = trace_id + 1

(* event_handler_fout_write_chunked takes a number for the trace ...        *)
StartChunks(t, n, truncated) ==
  /\ MayBegin(t)
  /\ FetchAdd
  /\ udata' = [udata EXCEPT ![t] =
                 [n |-> n, truncated |-> truncated, id |-> trace_id, k |-> 0, lost |-> FALSE]]
  /\ UNCHANGED <<done, sent, stream, chunks, stacks>>

(* ... and writes chunk after chunk, also after one that failed.            *)
WriteChunk(t) ==
  LET u == udata[t]
      last == u.k = u.n - 1
      all == Frames(t, u.n, u.truncated)
  IN /\ u.n > 0
     /\ \E ok \in Outcome :
          /\ Writev(ok, [frames |-> IF last /\ u.truncated THEN <<>> ELSE <<Frame(t, u.k)>>,
                         id |-> u.id, k |-> u.k, m |-> IF last THEN "!" ELSE "~"])
          /\ udata' = [udata EXCEPT ![t] =
                         IF last THEN Idle ELSE [u EXCEPT !.k = @ + 1, !.lost = @ \/ ~ok]]
          /\ sent' = IF last /\ ok /\ ~u.lost THEN sent \cup {all} ELSE sent
     /\ done' = IF last THEN [done EXCEPT ![t] = @ + 1] ELSE done
     /\ UNCHANGED <<trace_id, chunks, stacks>>

----------------------------------------------------------------------------
(* The collapser reads one trace, or one chunk.                             *)

Seen(s) == IF s \in DOMAIN stacks THEN stacks[s] ELSE 0

(* $stacks{...} += 1 if @frames *)
Count(frames) ==
  stacks' = IF frames = <<>> THEN stacks
            ELSE [s \in DOMAIN stacks \cup {frames} |-> Seen(s) + (IF s = frames THEN 1 ELSE 0)]

(* A trace without a trace_id record: the blank line flushes it. *)
ReadWhole ==
  /\ stream # <<>> /\ Head(stream).id = -1
  /\ Count(Head(stream).frames)
  /\ stream' = Tail(stream)
  /\ UNCHANGED <<trace_id, udata, done, sent, chunks>>

(* Mutant: chunk number 0 is taken for no number.                           *)
Complete_unless_zero(mine, k) ==
  /\ k # 0
  /\ Cardinality({c.k : c \in mine}) = k + 1 /\ \A c \in mine : c.k <= k

(* Every chunk up to the last one, k, has been seen. *)
Complete(mine, k) ==
  Cardinality({c.k : c \in mine}) = k + 1 /\ \A c \in mine : c.k <= k

(* push @frames, chunk after chunk, by their numbers from 0 to k. *)
Joined(mine, k) ==
  LET frames[i \in 0..(k + 1)] ==
        IF i = 0 THEN <<>> ELSE frames[i - 1] \o (CHOOSE c \in mine : c.k = i - 1).frames
  IN frames[k + 1]

(* A chunk; the last one flushes its trace if no chunk is missing. *)
ReadChunk ==
  /\ stream # <<>> /\ Head(stream).id # -1
  /\ LET c == Head(stream)
         kept == {x \in chunks : ~(x.id = c.id /\ x.k = c.k)} \cup {c}
         mine == {x \in kept : x.id = c.id}
     IN IF c.m = "!"
        THEN /\ IF Complete(mine, c.k)
                THEN Count(Joined(mine, c.k))
                ELSE UNCHANGED stacks
             /\ chunks' = kept \ mine
        ELSE chunks' = kept /\ UNCHANGED stacks
  /\ stream' = Tail(stream)
  /\ UNCHANGED <<trace_id, udata, done, sent>>

(* Nothing is left to write or read. *)
Finished ==
  /\ \A t \in Thread : udata[t] = Idle /\ ~MayBegin(t)
  /\ stream = <<>>
  /\ UNCHANGED vars

Next ==
  \/ \E t \in Thread :
       \/ WriteWhole(t)
       \/ \E n \in 1..MaxChunks, truncated \in BOOLEAN : StartChunks(t, n, truncated)
       \/ WriteChunk(t)
  \/ ReadWhole \/ ReadChunk \/ Finished

Spec == Init /\ [][Next]_vars

(* A thread that writes a trace goes on with it, and the reader reads on.   *)
FairSpec ==
  Spec /\ WF_vars(ReadWhole \/ ReadChunk) /\ \A t \in Thread : WF_vars(WriteChunk(t))

----------------------------------------------------------------------------
(* A stack is counted only if it is, frame for frame and in order, a trace  *)
(* of one thread all of whose chunks were written: no chunk of another      *)
(* trace gets in, none is missing, and failed writes make no stack. And no  *)
(* trace is counted twice.                                                  *)
OnlySentStacks ==
  \A s \in DOMAIN stacks : s \in sent /\ stacks[s] = 1

(* Whatever the threads interleave, a trace that was written without a      *)
(* failed write is counted in the end, unless it kept no frame.             *)
SentGetsCounted ==
  \A t \in Thread, j \in 0..(MaxTraces - 1) :
    (\E s \in sent : s # <<>> /\ s[1].thread = t /\ s[1].trace = j)
      ~> (\E s \in DOMAIN stacks : s[1].thread = t /\ s[1].trace = j)
============================================================================

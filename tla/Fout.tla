-------------------------------- MODULE Fout -------------------------------
(***************************************************************************)
(* One instance of the default event handler (src/event_fout.c): how the   *)
(* records of a trace are collected in a growing buffer, how the buffer is *)
(* truncated, and how it is written whole or in chunks.                    *)
(*                                                                         *)
(* A buffer is its length and the set of the offsets at which a frame      *)
(* delimiter stands; no other byte is ever looked at. The body of a record *)
(* holds no frame delimiter, because event_handler_fout_snprintf replaces  *)
(* all of them (StripDelim checks that conversion).                        *)
(***************************************************************************)
EXTENDS Integers, Sequences

CONSTANTS
  opt_fout_buffer_size,   \* -b
  FoutMaxBuffer,          \* PHPSPY_FOUT_MAX_BUFFER
  MarkerLen,              \* length of the "# truncated = 1" record
  TailLen,                \* length of the trace_id record, by chunk index
  BodyLen,                \* lengths of the record bodies
  MemoryFails,            \* whether formatting and realloc may fail
  OfferBound              \* bound on the bytes of a trace, for model checking

ASSUME FoutAssumption ==
  /\ opt_fout_buffer_size \in Nat \ {0}
  /\ FoutMaxBuffer \in Nat
  /\ MarkerLen \in Nat
  /\ TailLen \in [0..FoutMaxBuffer -> Nat]
  /\ BodyLen \subseteq Nat \ {0}
  /\ MemoryFails \in BOOLEAN
  /\ OfferBound \in Nat

VARIABLES
  state,       \* "closed", "idle", "trace" (after STACK_BEGIN) or "chunking"
  udata,       \* the buffer: len, cap, delims, truncated
  chunk,       \* of write_chunked: start, idx
  out,         \* the writes of this trace
  rv,          \* what STACK_END returns, a set of error flags
  want         \* ghost: the bytes of all records of this trace

vars == <<state, udata, chunk, out, rv, want>>

Least(a, b) == IF a < b THEN a ELSE b

----------------------------------------------------------------------------
(* The buffer. Each operator gives the set of the outcomes.                 *)

(* event_handler_fout_realloc: double until it is enough, capped; empty if  *)
(* the request is refused. Running out of memory is in Snprintf.            *)
Realloc(cap, needed) ==
  {c \in needed..FoutMaxBuffer :
     \E k \in 0..needed :
       /\ c = Least(cap * 2^k, FoutMaxBuffer)
       /\ cap * 2^k >= needed
       /\ k > 0 => cap * 2^(k - 1) < needed}

(* The offset after the last delimiter in [from, to), as memrchr finds it.  *)
AfterLastDelim(u, from, to) ==
  {c \in (from + 1)..to :
     c - 1 \in u.delims /\ \A d \in u.delims : d < c \/ d >= to}

(* event_handler_fout_truncate. *)
Truncate(u) ==
  {[u EXCEPT !.truncated = TRUE, !.len = c] :
     c \in IF u.delims = {} THEN {0} ELSE AfterLastDelim(u, 0, u.len)}

(* n more bytes, the first of which is a delimiter or none is. *)
Put(u, n, delim, cap) ==
  [u EXCEPT !.len = @ + n, !.cap = cap,
            !.delims = IF delim THEN @ \cup {u.len} ELSE @]

(* Mutant: no byte is left for the NUL.                                     *)
Fits_off_by_one(u, n) == n <= u.cap - u.len

(* The text and its NUL fit in what is left. *)
Fits(u, n) == n < u.cap - u.len

(* Mutant: a buffer that could not be doubled again is refused.             *)
Refused_unless_doubled(needed) == 2 * needed > FoutMaxBuffer

(* event_handler_fout_realloc refuses. *)
Refused(needed) == needed > FoutMaxBuffer

(* Mutant: records after a dropped one are kept.                            *)
Snprintf_resumes(u, n, delim) ==
  (IF Fits(u, n) THEN {Put(u, n, delim, u.cap)}
   ELSE {Put(u, n, delim, c) : c \in Realloc(u.cap, u.len + n + 1)})
  \cup
  (IF MemoryFails \/ (~Fits(u, n) /\ Refused(u.len + n + 1))
   THEN Truncate(u) ELSE {})

(* event_handler_fout_snprintf *)
Snprintf(u, n, delim) ==
  IF u.truncated THEN {u}
  ELSE (IF Fits(u, n) THEN {Put(u, n, delim, u.cap)}
        ELSE {Put(u, n, delim, c) : c \in Realloc(u.cap, u.len + n + 1)})
       \cup
       (IF MemoryFails \/ (~Fits(u, n) /\ Refused(u.len + n + 1))
        THEN Truncate(u) ELSE {})

(* A record: its body, then the frame delimiter. *)
Record(u, n) == UNION {Snprintf(v, 1, TRUE) : v \in Snprintf(u, n, FALSE)}

(* A record that is there only if an option asks for it (0: it does not). *)
Optional(u, n) == IF n = 0 THEN {u} ELSE Record(u, n)
Size(n) == IF n = 0 THEN 0 ELSE n + 1

----------------------------------------------------------------------------
(* The events.                                                              *)

Init ==
  /\ state = "closed"
  /\ udata = [len |-> 0, cap |-> 0, delims |-> {}, truncated |-> FALSE]
  /\ chunk = [start |-> 0, idx |-> 0]
  /\ out = <<>>
  /\ rv = {}
  /\ want = 0

(* INIT; without memory, or with -b above the limit, it fails. *)
EventInit ==
  /\ state = "closed"
  /\ \E c \in Realloc(opt_fout_buffer_size, opt_fout_buffer_size) :
       udata' = [len |-> 0, cap |-> c, delims |-> {}, truncated |-> FALSE]
  /\ state' = "idle"
  /\ chunk' = [start |-> 0, idx |-> 0]
  /\ out' = <<>>
  /\ rv' = {}
  /\ want' = 0

(* STACK_BEGIN, also after a trace that failed before its STACK_END. *)
EventStackBegin ==
  /\ state \in {"idle", "trace"}
  /\ udata' = [udata EXCEPT !.len = 0, !.delims = {}, !.truncated = FALSE]
  /\ state' = "trace"
  /\ chunk' = [start |-> 0, idx |-> 0]
  /\ out' = <<>>
  /\ rv' = {}
  /\ want' = 0

(* FRAME, VARPEEK, GLOPEEK and MEM, and each of the five records of REQUEST *)
EventRecord(n) ==
  /\ state = "trace"
  /\ want < OfferBound
  /\ udata' \in Record(udata, n)
  /\ want' = want + Size(n)
  /\ UNCHANGED <<state, chunk, out, rv>>

Flag(u) == IF u.truncated THEN {"TRUNCATED"} ELSE {}
Err(ok) == IF ok THEN {} ELSE {"ERR"}

TotalLen(u) == u.len + 1 + IF u.truncated THEN MarkerLen ELSE 0

(* STACK_END with nothing in the buffer, or with a trace that the filter    *)
(* does not let pass: nothing is written.                                   *)
EventStackEndSilent ==
  /\ state = "trace"
  /\ \/ udata.len = 0 /\ rv' = {}
     \/ udata.len > 0 /\ rv' = {"SKIPPED"}
  /\ state' = "idle"
  /\ UNCHANGED <<udata, chunk, out, want>>

(* STACK_END: the ts and pid records (-v), then event_handler_fout_write,   *)
(* which writes the trace at once, or starts to write chunks.               *)
EventStackEnd(ts, pid) ==
  /\ state = "trace"
  /\ udata.len > 0
  /\ \E u \in Optional(udata, ts) : udata' \in Optional(u, pid)
  /\ want' = want + Size(ts) + Size(pid)
  /\ IF TotalLen(udata') <= opt_fout_buffer_size
     THEN \E ok \in BOOLEAN :
            /\ out' = Append(out, [kind |-> "whole", from |-> 0, to |-> udata'.len,
                                   ok |-> ok, idx |-> 0, sentinel |-> ""])
            /\ rv' = Err(ok) \cup Flag(udata')
            /\ state' = "idle"
     ELSE state' = "chunking" /\ UNCHANGED <<out, rv>>
  /\ UNCHANGED chunk

(* Mutant: the length of the first trace_id record serves for all.          *)
MaxChunkLen_first_tail ==
  IF opt_fout_buffer_size > TailLen[0] THEN opt_fout_buffer_size - TailLen[0] ELSE 0

(* -b less the trace_id record *)
MaxChunkLen ==
  IF opt_fout_buffer_size > TailLen[chunk.idx]
  THEN opt_fout_buffer_size - TailLen[chunk.idx] ELSE 0

(* event_handler_fout_find_chunk_end; empty stands for NULL *)
FindChunkEnd(start) ==
  IF udata.len - start <= MaxChunkLen THEN {udata.len}
  ELSE AfterLastDelim(udata, start, start + MaxChunkLen)

(* event_handler_fout_write_chunk, which may fail *)
WriteChunk(kind, from, to, sentinel, flags) ==
  \E ok \in BOOLEAN :
    /\ out' = Append(out, [kind |-> kind, from |-> from, to |-> to, ok |-> ok,
                           idx |-> chunk.idx, sentinel |-> sentinel])
    /\ rv' = rv \cup Err(ok) \cup flags

(* This chunk is the last one. *)
Sentinel(end) == IF end = udata.len /\ ~udata.truncated THEN "!" ELSE "~"

(* One turn of the loop in event_handler_fout_write_chunked. *)
NextChunk ==
  /\ state = "chunking"
  /\ chunk.start < udata.len
  /\ \E end \in FindChunkEnd(chunk.start) :
       /\ WriteChunk("data", chunk.start, end, Sentinel(end), {})
       /\ chunk' = [start |-> end, idx |-> chunk.idx + 1]
  /\ UNCHANGED <<state, udata, want>>

(* Mutant: the record that is too large for a chunk goes unnoticed.         *)
LoopBroken_unnoticed == FALSE

(* After the loop: chunks are missing if a record was too large for one. *)
LoopBroken == chunk.start < udata.len

(* Mutant: the marker is not marked as the end.                             *)
LastChunk_open ==
  /\ state = "chunking"
  /\ chunk.start >= udata.len \/ FindChunkEnd(chunk.start) = {}
  /\ udata' = [udata EXCEPT !.truncated = @ \/ LoopBroken]
  /\ IF udata'.truncated
     THEN WriteChunk("marker", chunk.start, chunk.start, "~", {"TRUNCATED"})
     ELSE UNCHANGED <<out, rv>>
  /\ state' = "idle"
  /\ UNCHANGED <<chunk, want>>

(* The end of event_handler_fout_write_chunked. *)
LastChunk ==
  /\ state = "chunking"
  /\ chunk.start >= udata.len \/ FindChunkEnd(chunk.start) = {}
  /\ udata' = [udata EXCEPT !.truncated = @ \/ LoopBroken]
  /\ IF udata'.truncated
     THEN WriteChunk("marker", chunk.start, chunk.start, "!", {"TRUNCATED"})
     ELSE UNCHANGED <<out, rv>>
  /\ state' = "idle"
  /\ UNCHANGED <<chunk, want>>

EventDeinit ==
  /\ state \in {"idle", "trace"}
  /\ state' = "closed"
  /\ UNCHANGED <<udata, chunk, out, rv, want>>

Next ==
  \/ EventInit \/ EventStackBegin \/ (\E n \in BodyLen : EventRecord(n))
  \/ EventStackEndSilent
  \/ (\E ts, pid \in BodyLen \cup {0} : EventStackEnd(ts, pid))
  \/ NextChunk \/ LastChunk \/ EventDeinit

Spec == Init /\ [][Next]_vars

----------------------------------------------------------------------------
(* Types, with the invariants below as narrow as the code makes them.       *)
Buffer ==
  [len : Nat, cap : Nat, delims : SUBSET Nat, truncated : BOOLEAN]

Write ==
  [kind : {"whole", "data", "marker"}, from : Nat, to : Nat, ok : BOOLEAN,
   idx : Nat, sentinel : {"", "~", "!"}]

(* Every variable of the handler stays in its type; the chunk pointer never *)
(* leaves the buffer, and no chunk number is used on an empty chunk.        *)
TypeOK ==
  /\ state \in {"closed", "idle", "trace", "chunking"}
  /\ udata \in Buffer
  /\ chunk \in [start : 0..udata.len, idx : Nat]
  /\ chunk.idx <= chunk.start
  /\ out \in Seq(Write)
  /\ rv \subseteq {"ERR", "TRUNCATED", "SKIPPED"}
  /\ want \in Nat

(* The text and its terminating NUL always fit in the allocation, which     *)
(* never grows past PHPSPY_FOUT_MAX_BUFFER, whatever was reallocated or     *)
(* refused before (event_handler_fout_snprintf, _realloc, _truncate).       *)
BufferFits ==
  state # "closed" => udata.len < udata.cap /\ udata.cap <= FoutMaxBuffer

(* Between two events the buffer is a whole number of records: it is empty  *)
(* or ends in a frame delimiter, also after the body of a record was        *)
(* written and its delimiter could not be (event_handler_fout_truncate).    *)
WholeRecords ==
  /\ udata.len > 0 => udata.len - 1 \in udata.delims
  /\ \A d \in udata.delims : d < udata.len

(* The chunks of a trace are numbered from 0, nonempty and contiguous from  *)
(* the start of the buffer, and each is cut at a record's end; a write that *)
(* fails does not shift the next (event_handler_fout_write_chunked).        *)
ChunksInOrder ==
  \A i \in 1..Len(out) :
    /\ out[i].idx = i - 1
    /\ out[i].from = IF i = 1 THEN 0 ELSE out[i - 1].to
    /\ out[i].kind = "marker" \/
         (out[i].from < out[i].to /\ out[i].to - 1 \in udata.delims)

(* A reader of chunks sees the sentinel '!' on the last chunk of a trace    *)
(* and on no other, whether or not the trace is truncated.                  *)
OneSentinel ==
  \A i \in 1..Len(out) :
    /\ out[i].sentinel = "!" => i = Len(out)
    /\ state # "chunking" /\ i = Len(out) => out[i].sentinel # "~"

(* No silent loss: when STACK_END has written a trace, either all bytes of  *)
(* all its records were handed to writev, or the caller is told TRUNCATED   *)
(* and so is the reader, by the last chunk or within the single write.      *)
NoSilentLoss ==
  state = "idle" /\ out # <<>> =>
    LET last == out[Len(out)]
    IN IF "TRUNCATED" \in rv THEN last.kind \in {"marker", "whole"} /\ udata.truncated
       ELSE last.kind # "marker" /\ last.to = want

(* A write of records, the trace_id record or the final delimiter included, *)
(* is never longer than -b, also when the chunk number gains a digit.       *)
WriteFits ==
  \A i \in 1..Len(out) :
    /\ out[i].kind = "data" =>
         out[i].to - out[i].from + TailLen[out[i].idx] <= opt_fout_buffer_size
    /\ out[i].kind = "whole" => TotalLen(udata) <= opt_fout_buffer_size

(* What is written is whole records in order, never more than -b at once.   *)
WellFormedChunks == WholeRecords /\ ChunksInOrder /\ WriteFits

(* Once a record has been dropped, no later record of the same trace is     *)
(* kept: the output is a prefix of the trace (event_handler_fout_snprintf). *)
PrefixOnly ==
  [][udata.truncated /\ udata'.truncated =>
       udata'.len = udata.len /\ udata'.delims = udata.delims]_vars

(* If memory does not run out, a trace is cut short while it is collected   *)
(* only because it would not fit in PHPSPY_FOUT_MAX_BUFFER.                 *)
TruncatedForCause ==
  state = "trace" /\ udata.truncated /\ ~MemoryFails => want + 1 > FoutMaxBuffer

(* Where the handler stands between two steps: nothing is written before    *)
(* STACK_END; the chunk writer is behind the last chunk it wrote.           *)
Writer ==
  /\ ~udata.truncated => udata.len = want
  /\ state = "trace" => out = <<>> /\ rv = {} /\ chunk = [start |-> 0, idx |-> 0]
  /\ state = "chunking" =>
       /\ "TRUNCATED" \notin rv
       /\ chunk.idx = Len(out)
       /\ chunk.start = IF out = <<>> THEN 0 ELSE out[Len(out)].to
       /\ \A i \in 1..Len(out) :
            /\ out[i].kind = "data"
            /\ out[i].sentinel =
                 IF i = Len(out) /\ chunk.start = udata.len /\ ~udata.truncated
                 THEN "!" ELSE "~"

(* The inductive invariant: what holds of a finished trace rests on what    *)
(* write_chunked maintains from chunk to chunk, and that on the buffer.     *)
FoutInv ==
  /\ TypeOK /\ BufferFits /\ WholeRecords /\ Writer
  /\ ChunksInOrder /\ OneSentinel /\ NoSilentLoss /\ WriteFits
============================================================================

----------------------------- MODULE FoutProofs ----------------------------
(* Proofs about the output buffer and the chunk writer of module Fout, for  *)
(* every buffer size, limit, record length and length of a trace_id record. *)
EXTENDS Fout, SequenceTheorems, TLAPS

(* Every step is for Zenon first and, if that does not find a proof soon,   *)
(* for the SMT solver.                                                      *)
USE ZenonT(5), SMTT(30)

(* A buffer in which the text and its NUL fit. *)
Sound(u) ==
  /\ u \in Buffer
  /\ u.len < u.cap
  /\ u.cap <= FoutMaxBuffer
  /\ \A d \in u.delims : d < u.len

(* A buffer that ends with a record. *)
Whole(u) == u.len > 0 => u.len - 1 \in u.delims

----------------------------------------------------------------------------
(* What event_handler_fout_truncate leaves is shorter, still fits, and ends *)
(* with a record.                                                           *)
LEMMA TruncateSound ==
  ASSUME NEW u, Sound(u), NEW v \in Truncate(u)
  PROVE  Sound(v) /\ Whole(v) /\ v.truncated /\ v.delims = u.delims
<1> USE FoutAssumption
<1>1. PICK c \in IF u.delims = {} THEN {0} ELSE AfterLastDelim(u, 0, u.len) :
        v = [u EXCEPT !.truncated = TRUE, !.len = c]
  BY DEF Truncate
<1>a. /\ v.len = c /\ v.cap = u.cap /\ v.delims = u.delims /\ v.truncated = TRUE
      /\ c \in Nat => v \in Buffer
  BY <1>1 DEF Sound, Buffer
<1>2. CASE u.delims = {}
  <2>1. c = 0
    BY <1>1, <1>2
  <2> QED BY <1>a, <1>2, <2>1 DEF Sound, Whole, Buffer
<1>3. CASE u.delims # {}
  <2>1. c \in 1..u.len /\ c - 1 \in u.delims /\ \A d \in u.delims : d < c
    BY <1>1, <1>3 DEF AfterLastDelim, Sound, Buffer
  <2> QED BY <1>a, <2>1, SMTT(20) DEF Sound, Whole, Buffer
<1> QED BY <1>2, <1>3

(* Every outcome of event_handler_fout_snprintf fits in its buffer. A       *)
(* delimiter ends a record; a truncated buffer ends with one as well.       *)
LEMMA SnprintfSound ==
  ASSUME NEW u, Sound(u), u.truncated => Whole(u),
         NEW n \in Nat, NEW delim \in BOOLEAN, delim => n = 1,
         NEW v \in Snprintf(u, n, delim)
  PROVE  /\ Sound(v) /\ (v.truncated \/ delim => Whole(v))
         /\ ~v.truncated => ~u.truncated /\ v.len = u.len + n
         /\ u.truncated => v = u
         /\ u.delims \subseteq v.delims
<1> USE FoutAssumption
<1>1. CASE u.truncated
  BY <1>1 DEF Snprintf
<1>2. CASE ~u.truncated /\ v \in Truncate(u)
  BY <1>2, TruncateSound
<1>3. CASE ~u.truncated /\ v \notin Truncate(u)
  <2>1. PICK cap \in Nat :
          v = Put(u, n, delim, cap) /\ u.len + n < cap /\ cap <= FoutMaxBuffer
    <3>1. CASE Fits(u, n)
      BY <1>3, <3>1 DEF Snprintf, Fits, Sound, Buffer
    <3>2. CASE ~Fits(u, n)
      <4>1. PICK c \in Realloc(u.cap, u.len + n + 1) : v = Put(u, n, delim, c)
        BY <1>3, <3>2 DEF Snprintf
      <4>2. c \in (u.len + n + 1)..FoutMaxBuffer
        BY <4>1 DEF Realloc
      <4> QED BY <4>1, <4>2 DEF Sound, Buffer
    <3> QED BY <3>1, <3>2
  <2> DEFINE D == IF delim THEN u.delims \cup {u.len} ELSE u.delims
  <2>2. D \in SUBSET Nat
    BY DEF Sound, Buffer
  <2>3. v = [u EXCEPT !.len = u.len + n, !.cap = cap, !.delims = D]
    BY <2>1 DEF Put
  <2>4. (\A d \in D : d < u.len + n) /\ (delim => u.len + n - 1 \in D)
    BY SMT DEF Sound, Buffer
  <2> HIDE DEF D
  <2>5. v.len = u.len + n /\ v.cap = cap /\ v.delims = D
    BY <2>3 DEF Sound, Buffer
  <2>6. v.truncated = u.truncated
    BY <2>3 DEF Sound, Buffer
  <2>7. v \in Buffer
    <3>1. u.len + n \in Nat /\ u \in Buffer
      BY DEF Sound, Buffer
    <3> QED BY <2>1, <2>2, <2>3, <3>1 DEF Buffer
  <2>8. Sound(v)
    BY <2>1, <2>4, <2>5, <2>7 DEF Sound
  <2>9. ASSUME delim PROVE Whole(v)
    <3>1. u.len + n - 1 \in D
      BY <2>4, <2>9
    <3> QED BY <2>5, <3>1 DEF Whole, Sound, Buffer
  <2>10. u.delims \subseteq v.delims
    BY <2>5 DEF D
  <2> QED BY <1>3, <2>5, <2>6, <2>8, <2>9, <2>10
<1> QED BY <1>1, <1>2, <1>3

(* A record, or an optional one, leaves a buffer of whole records, in which *)
(* the new record is missing only if the buffer is marked truncated.        *)
LEMMA RecordSound ==
  ASSUME NEW u, Sound(u), Whole(u), NEW n \in Nat, NEW v \in Optional(u, n)
  PROVE  /\ Sound(v) /\ Whole(v)
         /\ ~v.truncated => ~u.truncated /\ v.len = u.len + Size(n)
         /\ u.truncated => v = u
         /\ u.delims \subseteq v.delims
<1>1. CASE n = 0
  BY <1>1 DEF Optional, Size, Sound, Buffer
<1>2. CASE n # 0
  <2>1. PICK w \in Snprintf(u, n, FALSE) : v \in Snprintf(w, 1, TRUE)
    BY <1>2 DEF Optional, Record
  <2>2. /\ Sound(w) /\ (w.truncated => Whole(w))
        /\ ~w.truncated => ~u.truncated /\ w.len = u.len + n
        /\ u.truncated => w = u
        /\ u.delims \subseteq w.delims
    BY <2>1, SnprintfSound
  <2>3. /\ Sound(v) /\ Whole(v)
        /\ ~v.truncated => ~w.truncated /\ v.len = w.len + 1
        /\ w.truncated => v = w
        /\ w.delims \subseteq v.delims
    BY <2>1, <2>2, SnprintfSound
  <2>4. ~v.truncated => ~u.truncated /\ v.len = u.len + Size(n)
    BY <1>2, <2>2, <2>3 DEF Size, Sound, Buffer
  <2>5. u.truncated => v = u
    BY <2>2, <2>3
  <2>6. u.delims \subseteq v.delims
    BY <2>2, <2>3
  <2> QED BY <2>3, <2>4, <2>5, <2>6
<1> QED BY <1>1, <1>2

(* Initially, all is empty. *)
LEMMA InitInv == Init => FoutInv
BY FoutAssumption DEF Init, FoutInv, TypeOK, BufferFits, WholeRecords, Writer, ChunksInOrder,
   OneSentinel, NoSilentLoss, WriteFits, Buffer

(* An invariant state has a sound buffer of whole records, as long as the   *)
(* handler is open.                                                         *)
LEMMA InvSound ==
  ASSUME FoutInv, state # "closed"
  PROVE  Sound(udata) /\ Whole(udata)
BY DEF FoutInv, TypeOK, BufferFits, WholeRecords, Sound, Whole

(* A buffer that is sound and whole is all that is needed while nothing of  *)
(* the trace has been written.                                              *)
LEMMA NothingWritten ==
  ASSUME state' \in {"closed", "idle", "trace", "chunking"},
         Sound(udata'), Whole(udata'),
         want' \in Nat, ~udata'.truncated => udata'.len = want',
         out' = <<>>, rv' \in {{}, {"SKIPPED"}}, state' = "trace" => rv' = {},
         chunk' = [start |-> 0, idx |-> 0]
  PROVE  FoutInv'
BY FoutAssumption DEF FoutInv, TypeOK, BufferFits, WholeRecords, Writer, ChunksInOrder, OneSentinel,
   NoSilentLoss, WriteFits, Sound, Whole, Buffer, Write

(* A step that leaves the buffer and the writes alone.                      *)
LEMMA SameWrites ==
  ASSUME FoutInv, state \in {"idle", "trace"}, state' = "closed",
         UNCHANGED <<udata, chunk, out, rv, want>>
  PROVE  FoutInv'
BY DEF FoutInv, TypeOK, BufferFits, WholeRecords, Writer, ChunksInOrder, OneSentinel,
   NoSilentLoss, WriteFits, TotalLen

(* What STACK_END, before it writes, has made of the buffer.                *)
LEMMA StackEndBuffer ==
  ASSUME FoutInv, NEW ts \in BodyLen \cup {0}, NEW pid \in BodyLen \cup {0},
         EventStackEnd(ts, pid)
  PROVE  /\ Sound(udata') /\ Whole(udata') /\ want' \in Nat
         /\ ~udata'.truncated => udata'.len = want'
         /\ udata.truncated => udata' = udata
         /\ udata'.len > 0
<1> USE FoutAssumption
<1>1. PICK u \in Optional(udata, ts) : udata' \in Optional(u, pid)
  BY DEF EventStackEnd
<1>2. ts \in Nat /\ pid \in Nat /\ want \in Nat /\ (~udata.truncated => udata.len = want)
  <2>1. ts \in Nat /\ pid \in Nat
    OBVIOUS
  <2>2. TypeOK /\ Writer
    BY Zenon DEF FoutInv
  <2>3. want \in Nat
    BY <2>2 DEF TypeOK
  <2>4. ~udata.truncated => udata.len = want
    BY <2>2, Zenon DEF Writer
  <2> QED BY <2>1, <2>3, <2>4
<1>3. Sound(udata) /\ Whole(udata)
  BY InvSound DEF EventStackEnd
<1>4. /\ Sound(u) /\ Whole(u)
      /\ ~u.truncated => ~udata.truncated /\ u.len = udata.len + Size(ts)
      /\ udata.truncated => u = udata
      /\ udata.delims \subseteq u.delims
  BY <1>1, <1>2, <1>3, RecordSound
<1>5. /\ Sound(udata') /\ Whole(udata')
      /\ ~udata'.truncated => ~u.truncated /\ udata'.len = u.len + Size(pid)
      /\ u.truncated => udata' = u
      /\ u.delims \subseteq udata'.delims
  BY <1>1, <1>2, <1>4, RecordSound
<1>6. want' = want + Size(ts) + Size(pid)
  BY DEF EventStackEnd
<1>7. Size(ts) \in Nat /\ Size(pid) \in Nat
  BY <1>2 DEF Size
<1>8. udata.len \in Nat /\ want' \in Nat
  BY <1>2, <1>3, <1>6, <1>7, SMTT(20) DEF Sound, Buffer
<1>9. ASSUME ~udata'.truncated PROVE udata'.len = want'
  <2>1. ~udata.truncated /\ ~u.truncated
    BY <1>4, <1>5, <1>9
  <2>2. udata.len = want /\ u.len = udata.len + Size(ts) /\ udata'.len = u.len + Size(pid)
    BY <1>2, <1>4, <1>5, <1>9, <2>1
  <2> HIDE DEF Size
  <2> QED BY <1>2, <1>6, <1>7, <2>2
<1>10. udata.truncated => udata' = udata
  BY <1>4, <1>5
<1>11. udata'.len > 0
  <2>1. udata.len > 0
    BY DEF EventStackEnd
  <2>2. udata.len - 1 \in udata'.delims
    BY <1>3, <1>4, <1>5, <2>1 DEF Whole
  <2> QED BY <1>5, <1>8, <2>1, <2>2, SMTT(20) DEF Sound, Buffer
<1> QED BY <1>5, <1>8, <1>9, <1>10, <1>11

(* What one more write makes of the writes so far.                          *)
LEMMA Appended ==
  ASSUME NEW s \in Seq(Write), NEW w \in Write
  PROVE  /\ Append(s, w) \in Seq(Write) /\ Append(s, w) # <<>>
         /\ Len(Append(s, w)) = Len(s) + 1
         /\ Append(s, w)[Len(s) + 1] = w
         /\ \A i \in 1..Len(s) : Append(s, w)[i] = s[i]
BY AppendProperties, LenProperties

(* STACK_END keeps the invariant: one write for all, or a start on chunks.  *)
LEMMA StackEndStep ==
  ASSUME FoutInv, NEW ts \in BodyLen \cup {0}, NEW pid \in BodyLen \cup {0},
         EventStackEnd(ts, pid)
  PROVE  FoutInv'
<1> USE FoutAssumption
<1>1. /\ Sound(udata') /\ Whole(udata') /\ want' \in Nat /\ udata'.len > 0
      /\ ~udata'.truncated => udata'.len = want'
  BY StackEndBuffer
<1>2. out = <<>> /\ rv = {} /\ chunk' = [start |-> 0, idx |-> 0]
  BY DEF EventStackEnd, FoutInv, Writer
<1>3. CASE ~(TotalLen(udata') <= opt_fout_buffer_size)
  <2>1. state' = "chunking" /\ out' = <<>> /\ rv' = {}
    BY <1>2, <1>3 DEF EventStackEnd
  <2> QED BY <1>1, <1>2, <2>1, NothingWritten
<1>4. CASE TotalLen(udata') <= opt_fout_buffer_size
  <2>1. PICK ok \in BOOLEAN :
          /\ out' = Append(out, [kind |-> "whole", from |-> 0, to |-> udata'.len,
                                 ok |-> ok, idx |-> 0, sentinel |-> ""])
          /\ rv' = Err(ok) \cup Flag(udata')
          /\ state' = "idle"
    BY <1>4 DEF EventStackEnd
  <2>2. udata'.len \in Nat /\ udata'.len - 1 \in udata'.delims
    BY <1>1 DEF Sound, Whole, Buffer
  <2> DEFINE w == [kind |-> "whole", from |-> 0, to |-> udata'.len, ok |-> ok,
                   idx |-> 0, sentinel |-> ""]
  <2>w. /\ w \in Write /\ w.kind = "whole" /\ w.from = 0 /\ w.to = udata'.len
        /\ w.idx = 0 /\ w.sentinel = ""
    BY <2>2 DEF Write
  <2>o. out' = Append(out, w)
    BY <2>1
  <2> HIDE DEF w
  <2>p. out \in Seq(Write) /\ Len(out) = 0
    BY <1>2 DEF FoutInv, TypeOK
  <2>q. out' \in Seq(Write) /\ out' # <<>> /\ Len(out') = Len(out) + 1 /\ out'[Len(out) + 1] = w
    <3>1. w \in Write /\ out \in Seq(Write)
      BY <2>w, <2>p
    <3> QED BY <2>o, <3>1, Appended
  <2>l. Len(out') = 1 /\ out'[1] = w /\ out' \in Seq(Write) /\ out' # <<>>
    BY <2>p, <2>q
  <2>3. /\ out' \in Seq(Write) /\ out' # <<>>
        /\ out'[1].kind = "whole" /\ out'[1].from = 0 /\ out'[1].to = udata'.len
        /\ out'[1].idx = 0 /\ out'[1].sentinel = ""
    BY <2>w, <2>l, Zenon
  <2>a. udata'.truncated \in BOOLEAN
    BY <1>1 DEF Sound, Buffer
  <2>4. rv' \subseteq {"ERR", "TRUNCATED"} /\ ("TRUNCATED" \in rv' <=> udata'.truncated)
    <3>1. CASE udata'.truncated
      BY <2>1, <3>1 DEF Err, Flag
    <3>2. CASE ~udata'.truncated
      BY <2>1, <3>2 DEF Err, Flag
    <3> QED BY <3>1, <3>2
  <2>5. TypeOK' /\ BufferFits' /\ WholeRecords' /\ Writer'
    <3>1. TypeOK'
      <4>1. chunk' \in [start : 0..udata'.len, idx : Nat] /\ chunk'.idx <= chunk'.start
        BY <1>2, <2>2
      <4> QED BY <1>1, <2>1, <2>3, <2>4, <4>1 DEF TypeOK, Sound
    <3>2. BufferFits' /\ WholeRecords'
      BY <1>1 DEF BufferFits, WholeRecords, Sound, Whole
    <3>3. Writer'
      BY <1>1, <2>1 DEF Writer
    <3> QED BY <3>1, <3>2, <3>3
  <2>b. \A i \in 1..Len(out') : i = 1
    BY <2>l
  <2>6. ChunksInOrder' /\ OneSentinel' /\ WriteFits'
    <3>1. ChunksInOrder'
      <4> SUFFICES ASSUME NEW i \in 1..Len(out')
                   PROVE  /\ out'[i].idx = i - 1
                          /\ out'[i].from = IF i = 1 THEN 0 ELSE out'[i - 1].to
                          /\ out'[i].from < out'[i].to /\ out'[i].to - 1 \in udata'.delims
        BY DEF ChunksInOrder
      <4>1. i = 1
        BY <2>b
      <4>2. out'[i].idx = 0 /\ out'[i].from = 0
        BY <2>3, <4>1, Zenon
      <4>3. out'[i].to = udata'.len
        BY <2>3, <4>1
      <4> QED BY <1>1, <2>2, <4>1, <4>2, <4>3
    <3>2. OneSentinel'
      BY <2>3, <2>b, <2>l DEF OneSentinel
    <3>3. WriteFits'
      BY <1>4, <2>3, <2>b DEF WriteFits
    <3> QED BY <3>1, <3>2, <3>3
  <2>7. NoSilentLoss'
    <3>1. out'[Len(out')].kind = "whole" /\ out'[Len(out')].to = udata'.len
      BY <2>3, <2>l, Zenon
    <3>2. ~("TRUNCATED" \in rv') => udata'.len = want'
      BY <1>1, <2>4, Zenon
    <3>3. "TRUNCATED" \in rv' => udata'.truncated
      BY <2>4, Zenon
    <3> QED BY <3>1, <3>2, <3>3 DEF NoSilentLoss
  <2> QED BY <2>5, <2>6, <2>7 DEF FoutInv
<1> QED BY <1>3, <1>4

(* A chunk that starts where the last one ended keeps the chunks in order   *)
(* and within -b.                                                           *)
LEMMA ChunkAppended ==
  ASSUME FoutInv, state = "chunking",
         NEW w \in Write, out' = Append(out, w),
         w.idx = chunk.idx, w.from = chunk.start, w.kind # "whole",
         udata'.delims = udata.delims,
         w.kind = "marker" \/ (w.from < w.to /\ w.to - 1 \in udata.delims),
         w.kind = "data" => w.to - w.from + TailLen[w.idx] <= opt_fout_buffer_size
  PROVE  /\ out' \in Seq(Write) /\ Len(out') = Len(out) + 1 /\ Len(out) \in Nat
         /\ out'[Len(out) + 1] = w
         /\ \A i \in 1..Len(out') : i = Len(out) + 1 \/ (i \in 1..Len(out) /\ out'[i] = out[i])
         /\ ChunksInOrder' /\ WriteFits'
<1> USE FoutAssumption
<1>1. out \in Seq(Write) /\ Len(out) \in Nat
  BY LenProperties DEF FoutInv, TypeOK
<1>2. /\ out' \in Seq(Write) /\ Len(out') = Len(out) + 1 /\ out'[Len(out) + 1] = w
      /\ \A i \in 1..Len(out) : out'[i] = out[i]
  BY <1>1, Appended
<1>3. \A i \in 1..Len(out') : i = Len(out) + 1 \/ (i \in 1..Len(out) /\ out'[i] = out[i])
  BY <1>1, <1>2
<1>4. /\ chunk.idx = Len(out)
      /\ chunk.start = IF out = <<>> THEN 0 ELSE out[Len(out)].to
      /\ \A i \in 1..Len(out) : out[i].kind = "data"
      /\ ChunksInOrder /\ WriteFits
  BY DEF FoutInv, Writer
<1>5. ChunksInOrder'
  <2> SUFFICES ASSUME NEW i \in 1..Len(out')
               PROVE  /\ out'[i].idx = i - 1
                      /\ out'[i].from = IF i = 1 THEN 0 ELSE out'[i - 1].to
                      /\ out'[i].kind = "marker" \/
                           (out'[i].from < out'[i].to /\ out'[i].to - 1 \in udata'.delims)
    BY DEF ChunksInOrder
  <2>1. CASE i = Len(out) + 1
    <3>1. out'[i] = w
      BY <1>2, <2>1
    <3>2. chunk.start = IF i = 1 THEN 0 ELSE out'[i - 1].to
      <4>1. CASE Len(out) = 0
        BY <1>1, <1>4, <2>1, <4>1, EmptySeq
      <4>2. CASE Len(out) # 0
        <5>1. out # <<>> /\ Len(out) \in 1..Len(out) /\ i - 1 = Len(out) /\ i # 1
          BY <1>1, <2>1, <4>2, EmptySeq
        <5> QED BY <1>2, <1>4, <5>1
      <4> QED BY <4>1, <4>2
    <3>3. w.idx = i - 1
      BY <1>1, <1>4, <2>1
    <3> QED BY <3>1, <3>2, <3>3
  <2>2. CASE i \in 1..Len(out)
    <3>1. out'[i] = out[i]
      BY <1>2, <2>2
    <3>2. i # 1 => out'[i - 1] = out[i - 1]
      BY <1>1, <1>2, <2>2
    <3>3. /\ out[i].idx = i - 1
          /\ out[i].from = IF i = 1 THEN 0 ELSE out[i - 1].to
          /\ out[i].kind = "marker" \/ (out[i].from < out[i].to /\ out[i].to - 1 \in udata.delims)
      BY <1>4, <2>2 DEF ChunksInOrder
    <3> QED BY <3>1, <3>2, <3>3
  <2> QED BY <1>3, <2>1, <2>2
<1>6. WriteFits'
  <2> SUFFICES ASSUME NEW i \in 1..Len(out')
               PROVE  /\ out'[i].kind = "data" =>
                           out'[i].to - out'[i].from + TailLen[out'[i].idx] <= opt_fout_buffer_size
                      /\ out'[i].kind # "whole"
    BY DEF WriteFits
  <2>1. CASE i = Len(out) + 1
    BY <1>2, <2>1
  <2>2. CASE i \in 1..Len(out) /\ out'[i] = out[i]
    BY <1>4, <2>2 DEF WriteFits
  <2> QED BY <1>3, <2>1, <2>2
<1> QED BY <1>1, <1>2, <1>3, <1>5, <1>6

(* The arithmetic of max_chunk_len: e ends a chunk of at most m bytes.      *)
LEMMA RoomForTail ==
  ASSUME NEW a \in Nat, NEW m \in Nat, NEW e \in (a + 1)..(a + m),
         NEW t \in Nat, NEW b \in Nat, m > 0 => m + t <= b
  PROVE  e \in Nat /\ a < e /\ e - a + t <= b
OBVIOUS

(* event_handler_fout_find_chunk_end: a chunk is not empty, ends with a     *)
(* record and leaves room for the trace_id record.                          *)
LEMMA ChunkEnd ==
  ASSUME FoutInv, state = "chunking", chunk.start < udata.len,
         NEW end \in FindChunkEnd(chunk.start)
  PROVE  /\ end \in Nat /\ chunk.start < end /\ end <= udata.len
         /\ end - 1 \in udata.delims
         /\ end - chunk.start + TailLen[chunk.idx] <= opt_fout_buffer_size
<1>0. FoutMaxBuffer \in Nat /\ opt_fout_buffer_size \in Nat
  BY FoutAssumption
<1>1. /\ udata.len \in Nat /\ chunk.start \in Nat /\ chunk.idx \in 0..FoutMaxBuffer
      /\ udata.delims \subseteq Nat
      /\ udata.len - 1 \in udata.delims /\ \A d \in udata.delims : d < udata.len
  <2>1. TypeOK /\ BufferFits /\ WholeRecords
    BY Zenon DEF FoutInv
  <2>2. /\ udata \in Buffer
        /\ chunk.start \in 0..udata.len /\ chunk.idx \in Nat /\ chunk.idx <= chunk.start
    BY <2>1 DEF TypeOK
  <2>3. udata.len \in Nat /\ udata.cap \in Nat /\ udata.delims \subseteq Nat
    BY <2>2 DEF Buffer
  <2>4. udata.len < udata.cap /\ udata.cap <= FoutMaxBuffer
    BY <2>1 DEF BufferFits
  <2>5. udata.len - 1 \in udata.delims /\ \A d \in udata.delims : d < udata.len
    BY <2>1, <2>2, <2>3 DEF WholeRecords
  <2>6. chunk.idx \in 0..FoutMaxBuffer /\ chunk.start \in Nat
    BY <1>0, <2>2, <2>3, <2>4
  <2> QED BY <2>3, <2>5, <2>6
<1>2. TailLen[chunk.idx] \in Nat
  BY <1>1, FoutAssumption
<1>3. MaxChunkLen \in Nat /\ (MaxChunkLen > 0 => MaxChunkLen + TailLen[chunk.idx] <= opt_fout_buffer_size)
  BY <1>0, <1>2 DEF MaxChunkLen
<1> HIDE DEF MaxChunkLen
<1>4. end \in (chunk.start + 1)..(chunk.start + MaxChunkLen) /\ end - 1 \in udata.delims
  <2>1. CASE udata.len - chunk.start <= MaxChunkLen
    <3>1. end = udata.len
      BY <2>1 DEF FindChunkEnd
    <3>2. udata.len \in (chunk.start + 1)..(chunk.start + MaxChunkLen)
      BY <1>1, <1>3, <2>1
    <3> QED BY <1>1, <3>1, <3>2
  <2>2. CASE ~(udata.len - chunk.start <= MaxChunkLen)
    BY <2>2 DEF FindChunkEnd, AfterLastDelim
  <2> QED BY <2>1, <2>2
<1>5. /\ end \in Nat /\ chunk.start < end
      /\ end - chunk.start + TailLen[chunk.idx] <= opt_fout_buffer_size
  BY <1>0, <1>1, <1>2, <1>3, <1>4, RoomForTail
<1>6. end <= udata.len
  <2>1. end - 1 < udata.len
    BY <1>1, <1>4
  <2> QED BY <1>1, <1>5, <2>1
<1> QED BY <1>4, <1>5, <1>6

(* The arithmetic of the next start: chunks are not empty, so their number  *)
(* stays behind the offset.                                                 *)
LEMMA NextStart ==
  ASSUME NEW k \in Nat, NEW a \in Nat, NEW e \in Nat, NEW n \in Nat,
         k <= a, a < e, e <= n
  PROVE  e \in 0..n /\ k + 1 \in Nat /\ k + 1 <= e
OBVIOUS

(* A turn of the loop keeps the invariant.                                  *)
LEMMA NextChunkStep ==
  ASSUME FoutInv, NextChunk
  PROVE  FoutInv'
<1> USE FoutAssumption
<1>1. state = "chunking" /\ chunk.start < udata.len /\ UNCHANGED <<state, udata, want>>
  BY DEF NextChunk
<1>2. PICK end \in FindChunkEnd(chunk.start), ok \in BOOLEAN :
        /\ out' = Append(out, [kind |-> "data", from |-> chunk.start, to |-> end, ok |-> ok,
                               idx |-> chunk.idx, sentinel |-> Sentinel(end)])
        /\ rv' = rv \cup Err(ok) \cup {}
        /\ chunk' = [start |-> end, idx |-> chunk.idx + 1]
  BY DEF NextChunk, WriteChunk
<1>3. /\ end \in Nat /\ chunk.start < end /\ end <= udata.len /\ end - 1 \in udata.delims
      /\ end - chunk.start + TailLen[chunk.idx] <= opt_fout_buffer_size
  BY <1>1, ChunkEnd
<1>4. /\ chunk.start \in Nat /\ chunk.idx \in Nat /\ chunk.idx <= chunk.start /\ udata.len \in Nat
      /\ rv \subseteq {"ERR", "TRUNCATED", "SKIPPED"} /\ "TRUNCATED" \notin rv
      /\ chunk.idx = Len(out)
      /\ \A i \in 1..Len(out) : out[i].kind = "data" /\ out[i].sentinel = "~"
  BY <1>1 DEF FoutInv, TypeOK, Buffer, Writer
<1> DEFINE w == [kind |-> "data", from |-> chunk.start, to |-> end, ok |-> ok,
                 idx |-> chunk.idx, sentinel |-> Sentinel(end)]
<1>5. /\ w \in Write /\ w.kind = "data" /\ w.from = chunk.start /\ w.to = end
      /\ w.idx = chunk.idx /\ w.sentinel = Sentinel(end)
  BY <1>3, <1>4 DEF Write, Sentinel
<1>6. out' = Append(out, w)
  BY <1>2
<1> HIDE DEF w
<1>7. /\ out' \in Seq(Write) /\ Len(out') = Len(out) + 1 /\ Len(out) \in Nat
      /\ out'[Len(out) + 1] = w
      /\ \A i \in 1..Len(out') : i = Len(out) + 1 \/ (i \in 1..Len(out) /\ out'[i] = out[i])
      /\ ChunksInOrder' /\ WriteFits'
  BY <1>1, <1>3, <1>5, <1>6, ChunkAppended
<1>8. rv' \subseteq {"ERR", "TRUNCATED", "SKIPPED"} /\ "TRUNCATED" \notin rv'
  BY <1>2, <1>4 DEF Err
<1>9. chunk' = [start |-> end, idx |-> chunk.idx + 1]
  BY <1>2
<1>10. TypeOK'
  <2>1. chunk' \in [start : 0..udata.len, idx : Nat] /\ chunk'.idx <= chunk'.start
    <3>1. end \in 0..udata.len /\ chunk.idx + 1 \in Nat /\ chunk.idx + 1 <= end
      BY <1>3, <1>4, NextStart
    <3> QED BY <1>9, <3>1
  <2> QED BY <1>1, <1>7, <1>8, <2>1 DEF FoutInv, TypeOK
<1>11. BufferFits' /\ WholeRecords'
  BY <1>1 DEF FoutInv, BufferFits, WholeRecords
<1>12. ASSUME NEW i \in 1..Len(out')
       PROVE  /\ out'[i].kind = "data"
              /\ out'[i].sentinel =
                   IF i = Len(out') /\ chunk'.start = udata.len /\ ~udata.truncated
                   THEN "!" ELSE "~"
  <2>1. CASE i = Len(out) + 1
    BY <1>5, <1>7, <1>9, <2>1 DEF Sentinel
  <2>2. CASE i \in 1..Len(out) /\ out'[i] = out[i]
    BY <1>4, <1>7, <2>2
  <2> QED BY <1>7, <2>1, <2>2
<1>13. Writer'
  <2>1. out' # <<>> /\ out'[Len(out')].to = end
    BY <1>5, <1>7, EmptySeq
  <2>2. ~udata.truncated => udata.len = want
    BY DEF FoutInv, Writer
  <2> QED BY <1>1, <1>4, <1>7, <1>8, <1>9, <1>12, <2>1, <2>2 DEF Writer
<1>14. OneSentinel' /\ NoSilentLoss'
  BY <1>1, <1>12 DEF OneSentinel, NoSilentLoss
<1> QED BY <1>7, <1>10, <1>11, <1>13, <1>14 DEF FoutInv

(* The end of the loop keeps the invariant: the marker follows if chunks    *)
(* are missing.                                                             *)
LEMMA LastChunkStep ==
  ASSUME FoutInv, LastChunk
  PROVE  FoutInv'
<1> USE FoutAssumption
<1>1. /\ state = "chunking" /\ state' = "idle" /\ UNCHANGED <<chunk, want>>
      /\ udata' = [udata EXCEPT !.truncated = @ \/ LoopBroken]
  BY DEF LastChunk
<1>2. /\ udata \in Buffer /\ chunk.start \in Nat /\ chunk.idx \in Nat /\ udata.len \in Nat
      /\ chunk.start <= udata.len /\ want \in Nat
      /\ rv \subseteq {"ERR", "TRUNCATED", "SKIPPED"} /\ "TRUNCATED" \notin rv
      /\ ~udata.truncated => udata.len = want
      /\ chunk.idx = Len(out)
      /\ chunk.start = IF out = <<>> THEN 0 ELSE out[Len(out)].to
      /\ \A i \in 1..Len(out) :
           /\ out[i].kind = "data"
           /\ out[i].sentinel =
                IF i = Len(out) /\ chunk.start = udata.len /\ ~udata.truncated
                THEN "!" ELSE "~"
  BY <1>1 DEF FoutInv, TypeOK, Buffer, Writer
<1>3. /\ udata' \in Buffer /\ udata'.len = udata.len /\ udata'.cap = udata.cap
      /\ udata'.delims = udata.delims
  BY <1>1, <1>2 DEF Buffer, LoopBroken
<1>4. udata'.truncated <=> (udata.truncated \/ chunk.start < udata.len)
  BY <1>1, <1>2 DEF Buffer, LoopBroken
<1>5. BufferFits' /\ WholeRecords'
  BY <1>1, <1>3 DEF FoutInv, BufferFits, WholeRecords
<1>6. Writer'
  BY <1>1, <1>2, <1>3, <1>4 DEF Writer
<1>7. CASE ~udata'.truncated
  <2>1. UNCHANGED <<out, rv>>
    BY <1>7 DEF LastChunk
  <2>2. ~udata.truncated /\ chunk.start = udata.len
    BY <1>2, <1>4, <1>7
  <2>3. TypeOK'
    BY <1>1, <1>3, <2>1 DEF FoutInv, TypeOK
  <2>4. ChunksInOrder' /\ WriteFits'
    BY <1>2, <1>3, <2>1 DEF FoutInv, ChunksInOrder, WriteFits
  <2>5. OneSentinel'
    BY <1>2, <2>1, <2>2 DEF OneSentinel
  <2>6. NoSilentLoss'
    <3>1. SUFFICES ASSUME out # <<>>
                   PROVE  out[Len(out)].kind # "marker" /\ out[Len(out)].to = want
      BY <1>1, <1>2, <2>1 DEF NoSilentLoss
    <3>2. Len(out) \in 1..Len(out)
      BY <3>1, EmptySeq, LenProperties DEF FoutInv, TypeOK
    <3> QED BY <1>2, <2>2, <3>1, <3>2
  <2> QED BY <1>5, <1>6, <2>3, <2>4, <2>5, <2>6 DEF FoutInv
<1>8. CASE udata'.truncated
  <2>1. PICK ok \in BOOLEAN :
          /\ out' = Append(out, [kind |-> "marker", from |-> chunk.start, to |-> chunk.start,
                                 ok |-> ok, idx |-> chunk.idx, sentinel |-> "!"])
          /\ rv' = rv \cup Err(ok) \cup {"TRUNCATED"}
    BY <1>8 DEF LastChunk, WriteChunk
  <2> DEFINE w == [kind |-> "marker", from |-> chunk.start, to |-> chunk.start,
                   ok |-> ok, idx |-> chunk.idx, sentinel |-> "!"]
  <2>2. /\ w \in Write /\ w.kind = "marker" /\ w.from = chunk.start
        /\ w.idx = chunk.idx /\ w.sentinel = "!"
    BY <1>2 DEF Write
  <2>3. out' = Append(out, w)
    BY <2>1
  <2> HIDE DEF w
  <2>4. /\ out' \in Seq(Write) /\ Len(out') = Len(out) + 1 /\ Len(out) \in Nat
        /\ out'[Len(out) + 1] = w
        /\ \A i \in 1..Len(out') : i = Len(out) + 1 \/ (i \in 1..Len(out) /\ out'[i] = out[i])
        /\ ChunksInOrder' /\ WriteFits'
    BY <1>1, <1>3, <2>2, <2>3, ChunkAppended
  <2>5. rv' \subseteq {"ERR", "TRUNCATED", "SKIPPED"} /\ "TRUNCATED" \in rv'
    BY <1>2, <2>1 DEF Err
  <2>6. TypeOK'
    BY <1>1, <1>3, <2>4, <2>5 DEF FoutInv, TypeOK
  <2>7. OneSentinel'
    <3> SUFFICES ASSUME NEW i \in 1..Len(out')
                 PROVE  /\ out'[i].sentinel = "!" => i = Len(out')
                        /\ i = Len(out') => out'[i].sentinel # "~"
      BY DEF OneSentinel
    <3>1. CASE i = Len(out) + 1
      BY <2>2, <2>4, <3>1
    <3>2. CASE i \in 1..Len(out) /\ out'[i] = out[i]
      <4>1. udata.truncated \/ chunk.start # udata.len
        BY <1>2, <1>4, <1>8
      <4> QED BY <1>2, <2>4, <3>2, <4>1, SMTT(20)
    <3> QED BY <2>4, <3>1, <3>2
  <2>8. NoSilentLoss'
    BY <1>8, <2>2, <2>4, <2>5 DEF NoSilentLoss
  <2> QED BY <1>5, <1>6, <2>4, <2>6, <2>7, <2>8 DEF FoutInv
<1> QED BY <1>7, <1>8

----------------------------------------------------------------------------
(* Every step of the handler keeps the invariant.                           *)
LEMMA InvStep == FoutInv /\ [Next]_vars => FoutInv'
<1> USE FoutAssumption
<1> SUFFICES ASSUME FoutInv, [Next]_vars PROVE FoutInv'
  OBVIOUS
<1>1. CASE EventInit
  <2>1. PICK c \in Realloc(opt_fout_buffer_size, opt_fout_buffer_size) :
          udata' = [len |-> 0, cap |-> c, delims |-> {}, truncated |-> FALSE]
    BY <1>1 DEF EventInit
  <2>2. c \in opt_fout_buffer_size..FoutMaxBuffer
    BY <2>1 DEF Realloc
  <2>3. Sound(udata') /\ Whole(udata')
    BY <2>1, <2>2 DEF Sound, Whole, Buffer
  <2> QED BY <1>1, <2>1, <2>3, NothingWritten DEF EventInit
<1>2. CASE EventStackBegin
  <2>1. Sound(udata)
    BY <1>2, InvSound DEF EventStackBegin
  <2>2. Sound(udata') /\ Whole(udata') /\ udata'.len = 0
    <3>1. udata' = [udata EXCEPT !.len = 0, !.delims = {}, !.truncated = FALSE]
      BY <1>2 DEF EventStackBegin
    <3>2. /\ udata'.len = 0 /\ udata'.cap = udata.cap /\ udata'.delims = {}
          /\ udata' \in Buffer
      BY <2>1, <3>1 DEF Sound, Buffer
    <3> QED BY <2>1, <3>2 DEF Sound, Whole, Buffer
  <2> QED BY <1>2, <2>2, NothingWritten DEF EventStackBegin
<1>3. ASSUME NEW n \in BodyLen, EventRecord(n) PROVE FoutInv'
  <2>1. n \in Nat /\ n # 0 /\ udata' \in Optional(udata, n) /\ state = "trace" /\ state' = "trace"
    BY <1>3 DEF EventRecord, Optional
  <2>2. Sound(udata) /\ Whole(udata)
    BY <2>1, InvSound
  <2>3. /\ Sound(udata') /\ Whole(udata')
        /\ ~udata'.truncated => ~udata.truncated /\ udata'.len = udata.len + Size(n)
    BY <2>1, <2>2, RecordSound
  <2>4. /\ out' = <<>> /\ rv' = {} /\ chunk' = [start |-> 0, idx |-> 0]
        /\ want \in Nat /\ (~udata.truncated => udata.len = want)
    BY <1>3, <2>1 DEF EventRecord, FoutInv, TypeOK, Writer
  <2>5. want' = want + Size(n) /\ Size(n) \in Nat
    BY <1>3, <2>1 DEF EventRecord, Size
  <2>6. want' \in Nat /\ (~udata'.truncated => udata'.len = want')
    BY <2>3, <2>4, <2>5
  <2> QED BY <2>1, <2>3, <2>4, <2>6, NothingWritten
<1>4. CASE EventStackEndSilent
  <2>1. Sound(udata') /\ Whole(udata')
    BY <1>4, InvSound DEF EventStackEndSilent, Sound, Whole
  <2> QED BY <1>4, <2>1, NothingWritten DEF EventStackEndSilent, FoutInv, TypeOK, Writer
<1>5. ASSUME NEW ts \in BodyLen \cup {0}, NEW pid \in BodyLen \cup {0}, EventStackEnd(ts, pid)
      PROVE  FoutInv'
  BY <1>5, StackEndStep
<1>6. CASE NextChunk
  BY <1>6, NextChunkStep
<1>7. CASE LastChunk
  BY <1>7, LastChunkStep
<1>8. CASE EventDeinit
  BY <1>8, SameWrites DEF EventDeinit
<1>9. CASE UNCHANGED vars
  <2>1. TypeOK' /\ BufferFits' /\ WholeRecords'
    BY <1>9 DEF vars, FoutInv, TypeOK, BufferFits, WholeRecords
  <2>2. Writer'
    BY <1>9 DEF vars, FoutInv, Writer
  <2>3. ChunksInOrder' /\ OneSentinel'
    BY <1>9 DEF vars, FoutInv, ChunksInOrder, OneSentinel
  <2>4. NoSilentLoss' /\ WriteFits'
    BY <1>9 DEF vars, FoutInv, NoSilentLoss, WriteFits, TotalLen
  <2> QED BY <2>1, <2>2, <2>3, <2>4 DEF FoutInv
<1> QED BY <1>1, <1>2, <1>3, <1>4, <1>5, <1>6, <1>7, <1>8, <1>9 DEF Next

(* The inductive invariant holds in every state of the handler.             *)
THEOREM FoutInvariant == Spec => []FoutInv
<1> QED BY InitInv, InvStep, PTL DEF Spec

(* event_handler_fout never writes behind its buffer, however long the      *)
(* records are and whichever reallocation fails or is refused.              *)
THEOREM BufferNeverOverrun == Spec => []BufferFits
<1>1. FoutInv => BufferFits
  BY DEF FoutInv
<1> QED BY <1>1, FoutInvariant, PTL

(* Chunks are contiguous, numbered and cut at record ends, and no write of  *)
(* records exceeds -b, for every length of the trace_id record.             *)
THEOREM ChunksWellFormed == Spec => []WellFormedChunks
<1>1. FoutInv => WellFormedChunks
  BY DEF FoutInv, WellFormedChunks
<1> QED BY <1>1, FoutInvariant, PTL

(* A trace that is not complete in the output says so, to the reader and to *)
(* the caller.                                                              *)
THEOREM LossIsReported == Spec => []NoSilentLoss
<1>1. FoutInv => NoSilentLoss
  BY DEF FoutInv
<1> QED BY <1>1, FoutInvariant, PTL

(* Exactly the last chunk of a trace is marked as the last.                 *)
THEOREM LastIsMarked == Spec => []OneSentinel
<1>1. FoutInv => OneSentinel
  BY DEF FoutInv
<1> QED BY <1>1, FoutInvariant, PTL

(* Once a record has been dropped no later record of the trace is kept.     *)
THEOREM OutputIsPrefix == Spec => PrefixOnly
<1> DEFINE Kept == udata.truncated /\ udata'.truncated =>
                     udata'.len = udata.len /\ udata'.delims = udata.delims
<1>1. FoutInv /\ [Next]_vars => [Kept]_vars
  <2> USE FoutAssumption
  <2> SUFFICES ASSUME FoutInv, Next, udata.truncated, udata'.truncated
               PROVE  udata'.len = udata.len /\ udata'.delims = udata.delims
    BY DEF vars
  <2>1. ~EventInit
    BY DEF EventInit
  <2>2. ~EventStackBegin
    <3>1. ASSUME EventStackBegin PROVE udata'.truncated = FALSE
      BY <3>1 DEF EventStackBegin, FoutInv, TypeOK, Buffer
    <3> QED BY <3>1
  <2>3. ASSUME NEW n \in BodyLen, EventRecord(n) PROVE udata' = udata
    <3>1. n \in Nat /\ udata' \in Optional(udata, n) /\ state # "closed"
      BY <2>3 DEF EventRecord, Optional
    <3> QED BY <3>1, InvSound, RecordSound
  <2>4. ASSUME NEW ts \in BodyLen \cup {0}, NEW pid \in BodyLen \cup {0}, EventStackEnd(ts, pid)
        PROVE  udata' = udata
    BY <2>4, StackEndBuffer
  <2>5. CASE LastChunk
    BY <2>5 DEF LastChunk, LoopBroken, FoutInv, TypeOK, Buffer
  <2>6. CASE EventStackEndSilent \/ NextChunk \/ EventDeinit
    BY <2>6 DEF EventStackEndSilent, NextChunk, EventDeinit
  <2> QED BY <2>1, <2>2, <2>3, <2>4, <2>5, <2>6 DEF Next
<1> QED BY <1>1, FoutInvariant, PTL DEF Spec, PrefixOnly

(* With enough memory event_handler_fout_snprintf truncates only when the   *)
(* reallocation is refused.                                                 *)
LEMMA RefusedOnly ==
  ASSUME NEW u, Sound(u), ~u.truncated, ~MemoryFails,
         NEW n \in Nat, NEW delim \in BOOLEAN,
         NEW v \in Snprintf(u, n, delim), v.truncated
  PROVE  u.len + n + 1 > FoutMaxBuffer
<1>1. ASSUME NEW c PROVE ~Put(u, n, delim, c).truncated
  BY DEF Put, Sound, Buffer
<1>2. ~Fits(u, n) /\ Refused(u.len + n + 1)
  BY <1>1 DEF Snprintf
<1> QED BY <1>2 DEF Refused

(* So a record is dropped only if it and its delimiter would not fit.       *)
LEMMA DroppedForCause ==
  ASSUME NEW u, Sound(u), ~u.truncated, ~MemoryFails,
         NEW n \in Nat, NEW v \in Record(u, n), v.truncated
  PROVE  u.len + n + 2 > FoutMaxBuffer
<1> USE FoutAssumption
<1>1. PICK w \in Snprintf(u, n, FALSE) : v \in Snprintf(w, 1, TRUE)
  BY DEF Record
<1>2. Sound(w) /\ (~w.truncated => w.len = u.len + n)
  BY <1>1, SnprintfSound
<1>3. CASE w.truncated
  <2>1. u.len + n + 1 > FoutMaxBuffer
    BY <1>1, <1>3, RefusedOnly
  <2> QED BY <2>1 DEF Sound, Buffer
<1>4. CASE ~w.truncated
  <2>1. w.len + 1 + 1 > FoutMaxBuffer
    BY <1>1, <1>2, <1>4, RefusedOnly
  <2> QED BY <1>2, <1>4, <2>1 DEF Sound, Buffer
<1> QED BY <1>3, <1>4

(* event_handler_fout_snprintf gives up on a trace only if the trace would  *)
(* not fit in PHPSPY_FOUT_MAX_BUFFER, provided that memory does not run     *)
(* out: no reallocation is refused too early.                               *)
THEOREM CutOnlyAtTheLimit == Spec => []TruncatedForCause
<1>1. Init => TruncatedForCause
  BY DEF Init, TruncatedForCause
<1>2. FoutInv /\ TruncatedForCause /\ [Next]_vars => TruncatedForCause'
  <2> SUFFICES ASSUME FoutInv, TruncatedForCause, [Next]_vars,
                      state' = "trace", udata'.truncated, ~MemoryFails
               PROVE  want' + 1 > FoutMaxBuffer
    BY DEF TruncatedForCause
  <2> USE FoutAssumption
  <2>1. CASE EventStackBegin
    BY <2>1 DEF EventStackBegin, FoutInv, TypeOK, Buffer
  <2>2. ASSUME NEW n \in BodyLen, EventRecord(n)
        PROVE  want' + 1 > FoutMaxBuffer
    <3>1. /\ state = "trace" /\ udata' \in Record(udata, n)
          /\ n \in Nat /\ want' = want + n + 1 /\ want \in Nat
      BY <2>2 DEF EventRecord, Size, FoutInv, TypeOK
    <3>2. CASE udata.truncated
      BY <3>1, <3>2 DEF TruncatedForCause
    <3>3. CASE ~udata.truncated
      <4>1. udata.len = want
        BY <3>3 DEF FoutInv, Writer
      <4>2. udata.len + n + 2 > FoutMaxBuffer
        BY <3>1, <3>3, InvSound, DroppedForCause
      <4> QED BY <3>1, <4>1, <4>2
    <3> QED BY <3>2, <3>3
  <2>3. CASE UNCHANGED vars
    BY <2>3 DEF vars, TruncatedForCause
  <2>4. ~EventInit /\ ~EventStackEndSilent /\ ~NextChunk /\ ~LastChunk /\ ~EventDeinit
    BY DEF EventInit, EventStackEndSilent, NextChunk, LastChunk, EventDeinit
  <2>5. ASSUME NEW ts, NEW pid PROVE ~EventStackEnd(ts, pid)
    BY DEF EventStackEnd
  <2> QED BY <2>1, <2>2, <2>3, <2>4, <2>5 DEF Next
<1> QED BY <1>1, <1>2, FoutInvariant, PTL DEF Spec
============================================================================

-------------------------- MODULE FoutStreamProofs -------------------------
(***************************************************************************)
(* The collapser counts a stack only if some thread has written it, all of *)
(* its chunks, and never twice: for any number of threads, traces and      *)
(* chunks, in whatever order their writes get into the output and          *)
(* whichever of them fail.                                                 *)
(***************************************************************************)
EXTENDS FoutStream, FiniteSetTheorems, WellFoundedInduction, TLAPS

(* Every step is for Zenon first and, if that does not find a proof soon,   *)
(* for the SMT solver.                                                      *)
USE ZenonT(5), SMTT(30)

(* Whose trace a trace_id stands for: the tr-th trace of thread t, of n     *)
(* chunks, the last of which is a truncation marker if the trace was cut.   *)
Owner == [t : Thread, tr : Nat, n : Nat \ {0}, cut : BOOLEAN]

FrameOf(t, tr, k) == [thread |-> t, trace |-> tr, chunk |-> k]

AllOf(o) == [k \in 1..(IF o.cut THEN o.n - 1 ELSE o.n) |-> FrameOf(o.t, o.tr, k - 1)]

ChunkOf(o, i, k) ==
  [frames |-> IF k = o.n - 1 /\ o.cut THEN <<>> ELSE <<FrameOf(o.t, o.tr, k)>>,
   id |-> i, k |-> k, m |-> IF k = o.n - 1 THEN "!" ELSE "~"]

WholeOf(t, tr) == [frames |-> <<FrameOf(t, tr, 0)>>, id |-> -1, k |-> 0, m |-> ""]

FrameSet == [thread : Thread, trace : Nat, chunk : Nat]

Unit == [frames : Seq(FrameSet), id : Int, k : Nat, m : {"", "!", "~"}]

Job == [n : Nat \ {0}, truncated : BOOLEAN, id : Nat, k : Nat, lost : BOOLEAN]

StreamType ==
  /\ trace_id \in Nat
  /\ udata \in [Thread -> {Idle} \cup Job]
  /\ done \in [Thread -> Nat]
  /\ sent \subseteq Seq(FrameSet)
  /\ stream \in Seq(Unit)
  /\ chunks \in SUBSET Unit

Ids == 0..(trace_id - 1)

(* A number belongs to one trace, and a trace has one number; the last one  *)
(* of a thread is the one that it is writing.                               *)
Owned(own) ==
  /\ own \in [Ids -> Owner]
  /\ \A i, j \in Ids : own[i].t = own[j].t /\ own[i].tr = own[j].tr => i = j
  /\ \A i \in Ids :
       \/ own[i].tr < done[own[i].t]
       \/ udata[own[i].t] # Idle /\ udata[own[i].t].id = i
  /\ \A t \in Thread : udata[t] # Idle =>
       /\ udata[t].id \in Ids
       /\ own[udata[t].id] = [t |-> t, tr |-> done[t], n |-> udata[t].n, cut |-> udata[t].truncated]
       /\ udata[t].k < udata[t].n

IsChunk(own, u) ==
  u.id \in DOMAIN own /\ u.k \in 0..(own[u.id].n - 1) /\ u = ChunkOf(own[u.id], u.id, u.k)

IsWhole(own, written, u) ==
  \E t \in Thread, tr \in Nat :
    /\ u = WholeOf(t, tr)
    /\ tr < written[t]
    /\ \A i \in DOMAIN own : ~(own[i].t = t /\ own[i].tr = tr)

Positions == 1..Len(stream)

(* What is in the output, or kept by the collapser, is what its number and  *)
(* its place in the trace say, and nothing is in the output twice.          *)
Placed(own) ==
  /\ \A p \in Positions : IsWhole(own, done, stream[p]) \/ IsChunk(own, stream[p])
  /\ \A c \in chunks : IsChunk(own, c)
  /\ \A p, q \in Positions : stream[p] = stream[q] => p = q

(* No k-th chunk of trace i is in the output or kept. *)
Missing(out, kept, i, k) ==
  /\ \A p \in 1..Len(out) : ~(out[p].id = i /\ out[p].k = k)
  /\ \A c \in kept : ~(c.id = i /\ c.k = k)

(* A thread has written no chunk that it has still to write, and one that   *)
(* it has lost will not be found.                                           *)
Ahead ==
  \A t \in Thread : udata[t] # Idle =>
    /\ \A k \in udata[t].k..(udata[t].n - 1) : Missing(stream, chunks, udata[t].id, k)
    /\ udata[t].lost => \E k \in 0..(udata[t].k - 1) : Missing(stream, chunks, udata[t].id, k)

(* The end of a trace is in the output only if all of it was sent, or a     *)
(* chunk is missing for good.                                               *)
Ended(own) ==
  /\ \A p \in Positions : stream[p].id = -1 => stream[p].frames \in sent
  /\ \A p \in Positions : stream[p].m = "!" =>
       \/ AllOf(own[stream[p].id]) \in sent
       \/ \E k \in 0..(own[stream[p].id].n - 1) : Missing(stream, chunks, stream[p].id, k)
  /\ \A s \in sent : s # <<>> => s[1].thread \in Thread /\ s[1].trace < done[s[1].thread]

(* What has been counted was sent, and it is not in the output any more.    *)
Counted(own) ==
  \A s \in DOMAIN stacks :
    /\ s \in sent /\ s # <<>> /\ stacks[s] = 1
    /\ \A p \in Positions :
         /\ stream[p].id = -1 => stream[p].frames # s
         /\ stream[p].m = "!" => AllOf(own[stream[p].id]) # s

OwnInv(own) == Owned(own) /\ Placed(own) /\ Ahead /\ Ended(own) /\ Counted(own)

StreamInv == StreamType /\ \E own \in [Ids -> Owner] : OwnInv(own)

----------------------------------------------------------------------------
LEMMA UnitTypes ==
  /\ \A t \in Thread, tr \in Nat : WholeOf(t, tr) \in Unit
  /\ \A o \in Owner, i \in Int, k \in Nat : ChunkOf(o, i, k) \in Unit
  /\ \A o \in Owner : AllOf(o) \in Seq(FrameSet)
  /\ \A t \in Thread, tr \in Nat, k \in Nat : <<FrameOf(t, tr, k)>> \in Seq(FrameSet)
<1>1. \A t \in Thread, tr \in Nat, k \in Nat : <<FrameOf(t, tr, k)>> \in Seq(FrameSet)
  <2>1. \A t \in Thread, tr \in Nat, k \in Nat : FrameOf(t, tr, k) \in FrameSet
    BY DEF FrameOf, FrameSet
  <2> QED BY <2>1
<1>2. <<>> \in Seq(FrameSet)
  OBVIOUS
<1>3. \A t \in Thread, tr \in Nat : WholeOf(t, tr) \in Unit
  BY <1>1 DEF Unit, WholeOf
<1>4. ASSUME NEW o \in Owner, NEW i \in Int, NEW k \in Nat PROVE ChunkOf(o, i, k) \in Unit
  <2>1. <<FrameOf(o.t, o.tr, k)>> \in Seq(FrameSet)
    BY <1>1 DEF Owner
  <2> QED BY <1>2, <2>1 DEF Unit, ChunkOf
<1>5. ASSUME NEW o \in Owner PROVE AllOf(o) \in Seq(FrameSet)
  <2> DEFINE n == IF o.cut THEN o.n - 1 ELSE o.n
  <2>1. n \in Nat
    BY DEF Owner
  <2> HIDE DEF n
  <2>2. \A k \in 1..n : FrameOf(o.t, o.tr, k - 1) \in FrameSet
    BY <2>1 DEF FrameOf, FrameSet, Owner
  <2>3. [k \in 1..n |-> FrameOf(o.t, o.tr, k - 1)] \in Seq(FrameSet)
    BY <2>1, <2>2
  <2> QED BY <2>3 DEF AllOf, n
<1> QED BY <1>1, <1>3, <1>4, <1>5

(* A whole trace and a chunk can be told apart, and say which they are. *)
LEMMA WholeFields ==
  ASSUME NEW x, NEW a
  PROVE  /\ WholeOf(x, a).id = -1 /\ WholeOf(x, a).m = ""
         /\ WholeOf(x, a).frames[1].thread = x /\ WholeOf(x, a).frames[1].trace = a
<1>1. WholeOf(x, a).frames = <<FrameOf(x, a, 0)>> /\ WholeOf(x, a).id = -1 /\ WholeOf(x, a).m = ""
  BY DEF WholeOf
<1>2. <<FrameOf(x, a, 0)>>[1] = FrameOf(x, a, 0)
  OBVIOUS
<1>3. FrameOf(x, a, 0).thread = x /\ FrameOf(x, a, 0).trace = a
  BY DEF FrameOf
<1> QED BY <1>1, <1>2, <1>3

LEMMA ChunkFields ==
  ASSUME NEW o, NEW i, NEW k
  PROVE  /\ ChunkOf(o, i, k).id = i /\ ChunkOf(o, i, k).k = k
         /\ ChunkOf(o, i, k).m = IF k = o.n - 1 THEN "!" ELSE "~"
BY DEF ChunkOf

LEMMA Kinds ==
  ASSUME StreamType, NEW own \in [Ids -> Owner]
  PROVE  /\ \A v : IsChunk(own, v) => v.id # -1 /\ v.id \in Ids /\ v.m \in {"!", "~"}
         /\ \A v : IsWhole(own, done, v) => v.id = -1 /\ v.m = ""
         /\ \A i \in Ids : i # -1 /\ i \in Nat
<1>1. trace_id \in Nat /\ DOMAIN own = Ids
  BY DEF StreamType
<1>2. \A i \in Ids : i # -1 /\ i \in Nat
  BY <1>1 DEF Ids
<1>3. ASSUME NEW v, IsChunk(own, v) PROVE v.id # -1 /\ v.id \in Ids /\ v.m \in {"!", "~"}
  <2>1. v.id \in Ids /\ v = ChunkOf(own[v.id], v.id, v.k)
    BY <1>1, <1>3 DEF IsChunk
  <2>2. ChunkOf(own[v.id], v.id, v.k).m \in {"!", "~"}
    BY ChunkFields
  <2> QED BY <1>2, <2>1, <2>2
<1>4. ASSUME NEW v, IsWhole(own, done, v) PROVE v.id = -1 /\ v.m = ""
  <2>1. PICK t \in Thread, tr \in Nat : v = WholeOf(t, tr)
    BY <1>4 DEF IsWhole
  <2>2. WholeOf(t, tr).id = -1 /\ WholeOf(t, tr).m = ""
    BY WholeFields, ZenonT(30)
  <2> QED BY <2>1, <2>2
<1> QED BY <1>2, <1>3, <1>4

LEMMA AllOfFirst ==
  ASSUME NEW o \in Owner, AllOf(o) # <<>>
  PROVE  AllOf(o)[1] = FrameOf(o.t, o.tr, 0)
<1> DEFINE n == IF o.cut THEN o.n - 1 ELSE o.n
<1>1. n \in Nat
  BY DEF Owner
<1>2. AllOf(o) = [k \in 1..n |-> FrameOf(o.t, o.tr, k - 1)]
  BY DEF AllOf
<1> HIDE DEF n
<1>3. n # 0
  BY <1>1, <1>2
<1> QED BY <1>1, <1>2, <1>3

(* What a write, which may fail, does to the output. *)
LEMMA Wrote ==
  ASSUME StreamType, NEW ok \in BOOLEAN, NEW u \in Unit, Writev(ok, u)
  PROVE  /\ stream' \in Seq(Unit)
         /\ \A p \in Positions' :
              \/ p \in Positions /\ stream'[p] = stream[p]
              \/ ok /\ p = Len(stream) + 1 /\ stream'[p] = u
<1>1. CASE ok
  BY <1>1 DEF StreamType, Writev, Positions
<1>2. CASE ~ok
  BY <1>2 DEF StreamType, Writev, Positions
<1> QED BY <1>1, <1>2

(* What is missing stays missing if nothing like it is written ... *)
LEMMA StillMissing ==
  ASSUME StreamType, NEW ok \in BOOLEAN, NEW u \in Unit, Writev(ok, u), chunks' = chunks,
         NEW i, NEW k, Missing(stream, chunks, i, k), ok => ~(u.id = i /\ u.k = k)
  PROVE  Missing(stream', chunks', i, k)
BY Wrote DEF Missing, Positions

(* ... and whatever the collapser reads. *)
LEMMA Taken ==
  ASSUME StreamType, stream # <<>>, stream' = Tail(stream)
  PROVE  /\ stream' \in Seq(Unit)
         /\ 1 \in Positions /\ Head(stream) = stream[1]
         /\ \A p \in Positions' : p \in Nat /\ p # 0 /\ p + 1 \in Positions /\ stream'[p] = stream[p + 1]
BY DEF StreamType, Positions

LEMMA MissingTaken ==
  ASSUME StreamType, stream # <<>>, stream' = Tail(stream),
         chunks' \subseteq chunks \cup {Head(stream)},
         NEW i, NEW k, Missing(stream, chunks, i, k)
  PROVE  Missing(stream', chunks', i, k)
BY Taken DEF Missing, Positions

LEMMA StreamInit == Init => StreamInv
<1> SUFFICES ASSUME Init PROVE StreamInv
  OBVIOUS
<1>1. StreamType /\ Ids = {} /\ Positions = {}
  BY DEF Init, StreamType, Ids, Positions, Idle
<1> DEFINE own == [i \in {} |-> 0]
<1>2. own \in [Ids -> Owner]
  BY <1>1
<1>3. Owned(own)
  BY <1>1, <1>2 DEF Init, Owned
<1>4. Placed(own) /\ Ahead /\ Ended(own)
  BY <1>1 DEF Init, Placed, Ahead, Ended
<1>5. Counted(own)
  BY DEF Init, Counted
<1> HIDE DEF own
<1> QED BY <1>1, <1>2, <1>3, <1>4, <1>5 DEF StreamInv, OwnInv

(* A thread writes a whole trace. *)
LEMMA WholeStep ==
  ASSUME StreamType, NEW own \in [Ids -> Owner], OwnInv(own),
         NEW t \in Thread, WriteWhole(t)
  PROVE  StreamType' /\ own \in [Ids' -> Owner] /\ OwnInv(own)'
<1> DEFINE u == WholeOf(t, done[t])
<1>1. /\ udata[t] = Idle /\ done[t] \in Nat
      /\ trace_id' = trace_id /\ Ids' = Ids /\ udata' = udata /\ chunks' = chunks /\ stacks' = stacks
      /\ done' = [done EXCEPT ![t] = @ + 1]
  BY DEF WriteWhole, MayBegin, StreamType, Ids
<1>2. Frames(t, 1, FALSE) = <<FrameOf(t, done[t], 0)>>
  BY DEF Frames, Frame, FrameOf
<1>3. PICK ok \in BOOLEAN :
        /\ Writev(ok, u)
        /\ sent' = IF ok THEN sent \cup {<<FrameOf(t, done[t], 0)>>} ELSE sent
  <2>1. PICK ok \in Outcome :
          /\ Writev(ok, [frames |-> Frames(t, 1, FALSE), id |-> -1, k |-> 0, m |-> ""])
          /\ sent' = IF ok THEN sent \cup {Frames(t, 1, FALSE)} ELSE sent
    BY DEF WriteWhole
  <2>2. ok \in BOOLEAN
    BY DEF Outcome
  <2> QED BY <1>2, <2>1, <2>2 DEF WholeOf
<1>4. u \in Unit /\ u.id = -1 /\ u.m = "" /\ u.frames = <<FrameOf(t, done[t], 0)>>
  BY <1>1, UnitTypes DEF WholeOf
<1>4a. u.frames[1].thread = t /\ u.frames[1].trace = done[t]
  <2>1. ASSUME NEW d PROVE WholeOf(t, d).frames[1].thread = t /\ WholeOf(t, d).frames[1].trace = d
    BY WholeFields
  <2> QED BY <2>1
<1>5. /\ stream' \in Seq(Unit)
      /\ \A p \in Positions' :
           \/ p \in Positions /\ stream'[p] = stream[p]
           \/ ok /\ p = Len(stream) + 1 /\ stream'[p] = u
  BY <1>3, <1>4, Wrote
<1>6. /\ \A x \in Thread : done[x] \in Nat /\ done'[x] \in Nat /\ done[x] <= done'[x]
      /\ \A x \in Thread : x # t => done'[x] = done[x]
      /\ done[t] < done'[t]
      /\ done' \in [Thread -> Nat]
  BY <1>1 DEF StreamType
<1>7. StreamType'
  <2>1. sent' \subseteq Seq(FrameSet)
    BY <1>1, <1>3, UnitTypes DEF StreamType
  <2> QED BY <1>1, <1>5, <1>6, <2>1 DEF StreamType
<1>8. own \in [Ids' -> Owner]
  BY <1>1
<1>9. \A i \in Ids : own[i].t \in Thread /\ own[i].tr \in Nat
  BY DEF Owner
<1>10. \A i \in Ids : ~(own[i].t = t /\ own[i].tr = done[t])
  BY <1>1, <1>9 DEF OwnInv, Owned
<1> HIDE DEF u
<1>11. Owned(own)'
  <2>1. \A i \in Ids : own[i].tr < done'[own[i].t] \/ (udata[own[i].t] # Idle /\ udata[own[i].t].id = i)
    BY <1>6, <1>9 DEF OwnInv, Owned
  <2>2. \A x \in Thread : udata[x] # Idle => done'[x] = done[x]
    BY <1>1, <1>6
  <2> QED BY <1>1, <1>8, <2>1, <2>2 DEF OwnInv, Owned
<1>12. ASSUME NEW v, IsWhole(own, done, v) PROVE IsWhole(own, done', v)
  BY <1>1, <1>6, <1>12 DEF IsWhole
<1>13. ASSUME NEW v, IsChunk(own, v) PROVE v.id # -1
  BY <1>13, Kinds
<1>14. IsWhole(own, done', u)
  BY <1>1, <1>6, <1>10 DEF IsWhole, u
<1>15. ASSUME NEW p \in Positions PROVE stream[p] # u
  <2>1. CASE IsWhole(own, done, stream[p])
    <3>1. PICK x \in Thread, tr \in Nat : stream[p] = WholeOf(x, tr) /\ tr < done[x]
      BY <2>1 DEF IsWhole
    <3>2. WholeOf(x, tr).frames[1].thread = x /\ WholeOf(x, tr).frames[1].trace = tr
      BY WholeFields
    <3> QED BY <1>1, <3>1, <3>2, <1>4a
  <2>2. CASE IsChunk(own, stream[p])
    BY <1>4, <1>13, <2>2
  <2> QED BY <2>1, <2>2 DEF OwnInv, Placed
<1>16. Placed(own)'
  <2>1. \A p \in Positions' : IsWhole(own, done', stream'[p]) \/ IsChunk(own, stream'[p])
    BY <1>5, <1>12, <1>13, <1>14 DEF OwnInv, Placed
  <2>2. \A c \in chunks' : IsChunk(own, c)
    BY <1>1, <1>13 DEF OwnInv, Placed
  <2>3. \A p, q \in Positions' : stream'[p] = stream'[q] => p = q
    BY <1>5, <1>15 DEF OwnInv, Placed
  <2> QED BY <2>1, <2>2, <2>3 DEF Placed
<1>17. ASSUME NEW i \in Ids, NEW k, Missing(stream, chunks, i, k) PROVE Missing(stream', chunks', i, k)
  BY <1>1, <1>3, <1>4, <1>17, StillMissing, Kinds
<1>18. Ahead'
  BY <1>1, <1>17 DEF OwnInv, Owned, Ahead
<1>19. Ended(own)'
  <2>1. \A p \in Positions' : stream'[p].id = -1 => stream'[p].frames \in sent'
    BY <1>3, <1>4, <1>5 DEF OwnInv, Ended
  <2>2. ASSUME NEW p \in Positions', stream'[p].m = "!"
        PROVE  \/ AllOf(own[stream'[p].id]) \in sent'
               \/ \E k \in 0..(own[stream'[p].id].n - 1) : Missing(stream', chunks', stream'[p].id, k)
    <3>1. p \in Positions /\ stream'[p] = stream[p]
      BY <1>4, <1>5, <2>2
    <3>2. IsChunk(own, stream[p])
      BY <2>2, <3>1, Kinds DEF OwnInv, Placed
    <3>3. stream[p].id \in Ids
      BY <3>2 DEF IsChunk
    <3>4. \/ AllOf(own[stream[p].id]) \in sent
          \/ \E k \in 0..(own[stream[p].id].n - 1) : Missing(stream, chunks, stream[p].id, k)
      BY <2>2, <3>1 DEF OwnInv, Ended
    <3> QED BY <1>3, <1>17, <3>1, <3>3, <3>4
  <2>3. ASSUME NEW x \in sent', x # <<>>
        PROVE  x[1].thread \in Thread /\ x[1].trace < done'[x[1].thread]
    <3>1. CASE x \in sent
      <4>1. x[1].thread \in Thread /\ x[1].trace < done[x[1].thread]
        BY <2>3, <3>1 DEF OwnInv, Ended
      <4>2. x[1].trace \in Nat
        <5>1. x[1] \in FrameSet
          BY <2>3, <3>1 DEF StreamType
        <5> QED BY <5>1 DEF FrameSet
      <4> QED BY <1>6, <4>1, <4>2
    <3>2. CASE x = <<FrameOf(t, done[t], 0)>>
      BY <1>6, <3>2 DEF FrameOf
    <3> QED BY <1>3, <3>1, <3>2
  <2> QED BY <2>1, <2>2, <2>3 DEF Ended
<1>20. Counted(own)'
  <2> SUFFICES ASSUME NEW x \in DOMAIN stacks
               PROVE  /\ x \in sent' /\ x # <<>> /\ stacks[x] = 1
                      /\ \A p \in Positions' :
                           /\ stream'[p].id = -1 => stream'[p].frames # x
                           /\ stream'[p].m = "!" => AllOf(own[stream'[p].id]) # x
    BY <1>1 DEF Counted
  <2>1. /\ x \in sent /\ x # <<>> /\ stacks[x] = 1
        /\ \A p \in Positions :
             /\ stream[p].id = -1 => stream[p].frames # x
             /\ stream[p].m = "!" => AllOf(own[stream[p].id]) # x
    BY DEF OwnInv, Counted
  <2>2. x[1].trace < done[x[1].thread]
    BY <2>1 DEF OwnInv, Ended
  <2>3. u.frames # x
    BY <1>1, <2>2, <1>4a
  <2> QED BY <1>3, <1>4, <1>5, <2>1, <2>3
<1> QED BY <1>7, <1>8, <1>11, <1>16, <1>18, <1>19, <1>20 DEF OwnInv

(* A thread takes a number for a trace. *)
LEMMA StartStep ==
  ASSUME StreamType, NEW own \in [Ids -> Owner], OwnInv(own),
         NEW t \in Thread, NEW n \in Nat \ {0}, NEW truncated \in BOOLEAN, StartChunks(t, n, truncated)
  PROVE  StreamType' /\ \E own2 \in [Ids' -> Owner] : OwnInv(own2)'
<1> DEFINE o == [t |-> t, tr |-> done[t], n |-> n, cut |-> truncated]
           own2 == [i \in Ids' |-> IF i = trace_id THEN o ELSE own[i]]
           job == [n |-> n, truncated |-> truncated, id |-> trace_id, k |-> 0, lost |-> FALSE]
<1>1. /\ udata[t] = Idle /\ done[t] \in Nat
      /\ trace_id \in Nat /\ trace_id' = trace_id + 1
      /\ udata' = [udata EXCEPT ![t] = job]
      /\ done' = done /\ sent' = sent /\ stream' = stream /\ chunks' = chunks /\ stacks' = stacks
      /\ Positions' = Positions
  BY DEF StartChunks, MayBegin, FetchAdd, StreamType, Positions
<1>2. Ids' = Ids \cup {trace_id} /\ trace_id \notin Ids
  BY <1>1 DEF Ids
<1>3. job \in Job /\ job # Idle /\ o \in Owner
  BY <1>1 DEF Job, Idle, Owner
<1>4. StreamType'
  BY <1>1, <1>3 DEF StreamType
<1>5. /\ own2 \in [Ids' -> Owner]
      /\ own2[trace_id] = o
      /\ \A i \in Ids : own2[i] = own[i]
  BY <1>2, <1>3
<1>6. /\ udata'[t] = job
      /\ \A x \in Thread : x # t => udata'[x] = udata[x]
  BY <1>1 DEF StreamType
<1>7. o.t = t /\ o.tr = done[t] /\ job.id = trace_id /\ job.n = n /\ job.k = 0 /\ ~job.lost
  OBVIOUS
<1>8. o = [t |-> t, tr |-> done[t], n |-> job.n, cut |-> job.truncated] /\ job.k < job.n
  OBVIOUS
<1>9. \A i \in Ids : own[i].t \in Thread /\ own[i].tr \in Nat
  BY DEF Owner
<1>10. \A i \in Ids : ~(own[i].t = t /\ own[i].tr = done[t])
  BY <1>1, <1>9 DEF OwnInv, Owned
<1> HIDE DEF o, job, own2
<1>11. ASSUME NEW x, x = own2 PROVE OwnInv(x)'
  <2>1. Owned(x)'
    <3>1. \A i, j \in Ids' : x[i].t = x[j].t /\ x[i].tr = x[j].tr => i = j
      BY <1>2, <1>5, <1>7, <1>10, <1>11 DEF OwnInv, Owned
    <3>2. ASSUME NEW i \in Ids'
          PROVE  x[i].tr < done'[x[i].t] \/ (udata'[x[i].t] # Idle /\ udata'[x[i].t].id = i)
      <4>1. CASE i = trace_id
        BY <1>1, <1>3, <1>5, <1>6, <1>7, <1>11, <4>1
      <4>2. CASE i \in Ids
        <5>1. own[i].tr < done[own[i].t] \/ (udata[own[i].t] # Idle /\ udata[own[i].t].id = i)
          BY <4>2 DEF OwnInv, Owned
        <5> QED BY <1>1, <1>5, <1>6, <1>9, <1>11, <4>2, <5>1
      <4> QED BY <1>2, <4>1, <4>2
    <3>3. ASSUME NEW z \in Thread, udata'[z] # Idle
          PROVE  /\ udata'[z].id \in Ids'
                 /\ x[udata'[z].id] = [t |-> z, tr |-> done'[z], n |-> udata'[z].n, cut |-> udata'[z].truncated]
                 /\ udata'[z].k < udata'[z].n
      <4>1. CASE z = t
        BY <1>1, <1>2, <1>5, <1>6, <1>7, <1>8, <1>11, <4>1
      <4>2. CASE z # t
        BY <1>1, <1>2, <1>5, <1>6, <1>11, <3>3, <4>2 DEF OwnInv, Owned
      <4> QED BY <4>1, <4>2
    <3> QED BY <1>5, <1>11, <3>1, <3>2, <3>3 DEF Owned
  <2>2. DOMAIN own = Ids /\ DOMAIN x = Ids'
    BY <1>5, <1>11
  <2>3. ASSUME NEW v, IsChunk(own, v) PROVE IsChunk(x, v)
    BY <1>2, <1>5, <1>11, <2>2, <2>3 DEF IsChunk
  <2>4. ASSUME NEW v, IsWhole(own, done, v) PROVE IsWhole(x, done, v)
    <3>1. PICK y \in Thread, tr \in Nat :
            v = WholeOf(y, tr) /\ tr < done[y] /\ \A i \in DOMAIN own : ~(own[i].t = y /\ own[i].tr = tr)
      BY <2>4 DEF IsWhole
    <3>2. \A i \in DOMAIN x : ~(x[i].t = y /\ x[i].tr = tr)
      BY <1>1, <1>2, <1>5, <1>7, <1>11, <2>2, <3>1
    <3> QED BY <3>1, <3>2 DEF IsWhole
  <2>5. Placed(x)'
    BY <1>1, <2>3, <2>4 DEF OwnInv, Placed
  <2>6. ASSUME NEW k PROVE Missing(stream, chunks, trace_id, k)
    <3>1. ASSUME NEW v, IsChunk(own, v) PROVE v.id # trace_id
      <4>1. v.id \in Ids
        BY <3>1, Kinds
      <4> QED BY <1>2, <4>1
    <3>2. ASSUME NEW v, IsWhole(own, done, v) PROVE v.id # trace_id
      <4>1. v.id = -1
        BY <3>2, Kinds
      <4> QED BY <1>1, <4>1
    <3> QED BY <3>1, <3>2 DEF OwnInv, Placed, Missing, Positions
  <2>7. Ahead'
    BY <1>1, <1>6, <1>7, <2>6 DEF OwnInv, Ahead
  <2>8. ASSUME NEW p \in Positions, stream[p].m = "!" PROVE x[stream[p].id] = own[stream[p].id]
    <3>1. IsChunk(own, stream[p])
      BY <2>8, Kinds DEF OwnInv, Placed
    <3> QED BY <1>5, <1>11, <2>2, <3>1 DEF IsChunk
  <2>9. Ended(x)'
    BY <1>1, <2>8 DEF OwnInv, Ended
  <2>10. Counted(x)'
    BY <1>1, <2>8 DEF OwnInv, Counted
  <2> QED BY <2>1, <2>5, <2>7, <2>9, <2>10 DEF OwnInv
<1> QED BY <1>4, <1>5, <1>11

(* A thread writes a chunk, the last one of its trace or another. *)
LEMMA ChunkStep ==
  ASSUME StreamType, NEW own \in [Ids -> Owner], OwnInv(own),
         NEW t \in Thread, WriteChunk(t)
  PROVE  StreamType' /\ own \in [Ids' -> Owner] /\ OwnInv(own)'
<1>0. udata[t] # Idle /\ udata[t] \in Job
  BY DEF WriteChunk, StreamType, Idle
<1> PICK u : u = udata[t]
  OBVIOUS
<1> PICK d : d = done[t]
  OBVIOUS
<1> DEFINE last == u.k = u.n - 1
           o == own[u.id]
           c == ChunkOf(o, u.id, u.k)
<1>1. /\ u.n \in Nat \ {0} /\ u.truncated \in BOOLEAN /\ u.id \in Ids /\ u.k \in Nat /\ u.k < u.n
      /\ u.lost \in BOOLEAN /\ d \in Nat
      /\ o = [t |-> t, tr |-> d, n |-> u.n, cut |-> u.truncated]
  BY <1>0 DEF Job, OwnInv, Owned, StreamType
<1>2. o \in Owner /\ o.t = t /\ o.tr = d /\ o.n = u.n /\ o.cut = u.truncated
  BY <1>1
<1>3. /\ Frames(t, u.n, u.truncated) = AllOf(o)
      /\ \A k : Frame(t, k) = FrameOf(t, d, k)
  BY <1>2 DEF Frames, Frame, FrameOf, AllOf
<1>3a. FrameOf(o.t, o.tr, 0).thread = t /\ FrameOf(o.t, o.tr, 0).trace = d
  BY <1>2 DEF FrameOf
<1>4. /\ trace_id' = trace_id /\ Ids' = Ids /\ chunks' = chunks /\ stacks' = stacks
      /\ done' = IF last THEN [done EXCEPT ![t] = @ + 1] ELSE done
  BY DEF WriteChunk, Ids
<1>5. PICK ok \in BOOLEAN :
        /\ Writev(ok, c)
        /\ udata' = [udata EXCEPT ![t] =
                       IF last THEN Idle ELSE [u EXCEPT !.k = @ + 1, !.lost = @ \/ ~ok]]
        /\ sent' = IF last /\ ok /\ ~u.lost THEN sent \cup {AllOf(o)} ELSE sent
  <2>1. PICK ok \in Outcome :
          /\ Writev(ok, [frames |-> IF last /\ u.truncated THEN <<>> ELSE <<Frame(t, u.k)>>,
                         id |-> u.id, k |-> u.k, m |-> IF last THEN "!" ELSE "~"])
          /\ udata' = [udata EXCEPT ![t] =
                         IF last THEN Idle ELSE [u EXCEPT !.k = @ + 1, !.lost = @ \/ ~ok]]
          /\ sent' = IF last /\ ok /\ ~u.lost THEN sent \cup {Frames(t, u.n, u.truncated)} ELSE sent
    BY DEF WriteChunk
  <2>2. ok \in BOOLEAN
    BY DEF Outcome
  <2>3. c = [frames |-> IF last /\ u.truncated THEN <<>> ELSE <<Frame(t, u.k)>>,
             id |-> u.id, k |-> u.k, m |-> IF last THEN "!" ELSE "~"]
    BY <1>2, <1>3 DEF ChunkOf
  <2> QED BY <1>3, <2>1, <2>2, <2>3
<1>6. c \in Unit /\ c.id = u.id /\ c.k = u.k /\ c.m = IF last THEN "!" ELSE "~"
  <2>1. u.id \in Nat
    BY <1>1, Kinds
  <2>2. c \in Unit
    BY <1>1, <1>2, <2>1, UnitTypes
  <2> QED BY <1>2, <2>2, ChunkFields
<1> HIDE DEF c
<1>7. /\ stream' \in Seq(Unit)
      /\ \A p \in Positions' :
           \/ p \in Positions /\ stream'[p] = stream[p]
           \/ ok /\ p = Len(stream) + 1 /\ stream'[p] = c
  BY <1>5, <1>6, Wrote
<1>8. /\ \A x \in Thread : done[x] \in Nat /\ done'[x] \in Nat /\ done[x] <= done'[x]
      /\ \A x \in Thread : x # t => done'[x] = done[x]
      /\ last => d < done'[t]
      /\ ~last => done' = done
      /\ done' \in [Thread -> Nat]
  BY <1>1, <1>4 DEF StreamType
<1>9. /\ \A x \in Thread : x # t => udata'[x] = udata[x]
      /\ last => udata'[t] = Idle
      /\ ~last => /\ udata'[t] = [u EXCEPT !.k = @ + 1, !.lost = @ \/ ~ok]
                  /\ udata'[t] # Idle /\ udata'[t] \in Job
                  /\ udata'[t].id = u.id /\ udata'[t].n = u.n /\ udata'[t].truncated = u.truncated
                  /\ udata'[t].k = u.k + 1 /\ udata'[t].k < u.n
                  /\ udata'[t].lost = (u.lost \/ ~ok)
  <2>1. /\ \A x \in Thread : x # t => udata'[x] = udata[x]
        /\ udata'[t] = IF last THEN Idle ELSE [u EXCEPT !.k = @ + 1, !.lost = @ \/ ~ok]
    BY <1>5 DEF StreamType
  <2>2. u \in Job /\ u.k + 1 \in Nat
    BY <1>0, <1>1
  <2> DEFINE b == u.lost \/ ~ok
             j == [u EXCEPT !.k = @ + 1, !.lost = b]
  <2>3. b \in BOOLEAN /\ [u EXCEPT !.k = @ + 1, !.lost = @ \/ ~ok] = j
    BY <1>1
  <2> HIDE DEF b
  <2>4. j \in Job
    BY <2>2, <2>3 DEF Job
  <2>5. /\ j.id = u.id /\ j.n = u.n /\ j.truncated = u.truncated
        /\ j.k = u.k + 1 /\ j.lost = b
    BY <2>2 DEF Job
  <2>6. ~last => u.k + 1 < u.n
    BY <1>1
  <2>7. \A x \in Job : x # Idle
    BY DEF Job, Idle
  <2> HIDE DEF j
  <2> QED BY <2>1, <2>3, <2>4, <2>5, <2>6, <2>7 DEF b
<1>10. sent \subseteq sent' /\ sent' \subseteq Seq(FrameSet)
  BY <1>2, <1>5, UnitTypes DEF StreamType
<1>11. StreamType'
  <2>1. udata' \in [Thread -> {Idle} \cup Job]
    BY <1>5, <1>9 DEF StreamType
  <2> QED BY <1>4, <1>7, <1>8, <1>10, <2>1 DEF StreamType
<1>12. own \in [Ids' -> Owner]
  BY <1>4
<1>13. \A i \in Ids : own[i].t \in Thread /\ own[i].tr \in Nat
  BY DEF Owner
<1>14. Owned(own)'
  <2>1. ASSUME NEW i \in Ids
        PROVE  own[i].tr < done'[own[i].t] \/ (udata'[own[i].t] # Idle /\ udata'[own[i].t].id = i)
    <3>1. own[i].tr < done[own[i].t] \/ (udata[own[i].t] # Idle /\ udata[own[i].t].id = i)
      BY DEF OwnInv, Owned
    <3>2. CASE own[i].tr < done[own[i].t]
      BY <1>8, <1>13, <3>2
    <3>3. CASE udata[own[i].t] # Idle /\ udata[own[i].t].id = i /\ own[i].t # t
      BY <1>9, <1>13, <3>3
    <3>4. CASE udata[own[i].t].id = i /\ own[i].t = t
      <4>1. i = u.id
        BY <3>4
      <4>2. CASE last
        BY <1>2, <1>8, <4>1, <4>2
      <4>3. CASE ~last
        BY <1>9, <3>4, <4>1, <4>3
      <4> QED BY <4>2, <4>3
    <3> QED BY <3>1, <3>2, <3>3, <3>4
  <2>2. ASSUME NEW x \in Thread, udata'[x] # Idle
        PROVE  /\ udata'[x].id \in Ids
               /\ own[udata'[x].id] = [t |-> x, tr |-> done'[x], n |-> udata'[x].n, cut |-> udata'[x].truncated]
               /\ udata'[x].k < udata'[x].n
    <3>1. CASE x # t
      BY <1>8, <1>9, <2>2, <3>1 DEF OwnInv, Owned
    <3>2. CASE x = t
      <4>1. ~last
        BY <1>9, <2>2, <3>2
      <4> QED BY <1>1, <1>8, <1>9, <3>2, <4>1
    <3> QED BY <3>1, <3>2
  <2> QED BY <1>4, <1>12, <2>1, <2>2 DEF OwnInv, Owned
<1>15. ASSUME NEW k \in u.k..(u.n - 1) PROVE Missing(stream, chunks, u.id, k)
  BY <1>0 DEF OwnInv, Ahead
<1>16. u.k \in u.k..(u.n - 1)
  BY <1>1
<1>17. IsChunk(own, c)
  <2>1. u.k \in 0..(o.n - 1) /\ u.id \in DOMAIN own
    BY <1>1, <1>2
  <2> QED BY <1>6, <2>1 DEF IsChunk, c
<1>18. Placed(own)'
  <2>1. ASSUME NEW v, IsWhole(own, done, v) PROVE IsWhole(own, done', v)
    BY <1>8, <2>1 DEF IsWhole
  <2>2. \A p \in Positions' : IsWhole(own, done', stream'[p]) \/ IsChunk(own, stream'[p])
    BY <1>7, <1>17, <2>1 DEF OwnInv, Placed
  <2>3. \A p \in Positions : stream[p] # c
    BY <1>6, <1>15, <1>16 DEF Missing, Positions
  <2>4. \A p, q \in Positions' : stream'[p] = stream'[q] => p = q
    BY <1>7, <2>3 DEF OwnInv, Placed
  <2> QED BY <1>4, <2>2, <2>4 DEF OwnInv, Placed
<1>19. ASSUME NEW i, NEW k, Missing(stream, chunks, i, k), ok => i # u.id \/ k # u.k
       PROVE  Missing(stream', chunks', i, k)
  BY <1>4, <1>5, <1>6, <1>19, StillMissing
<1>20. Ahead'
  <2> SUFFICES ASSUME NEW x \in Thread, udata'[x] # Idle
               PROVE  /\ \A k \in udata'[x].k..(udata'[x].n - 1) : Missing(stream', chunks', udata'[x].id, k)
                      /\ udata'[x].lost => \E k \in 0..(udata'[x].k - 1) : Missing(stream', chunks', udata'[x].id, k)
    BY DEF Ahead
  <2>1. CASE x # t
    <3>1. udata'[x] = udata[x] /\ udata[x] # Idle
      BY <1>9, <2>1
    <3>2. udata[x].id # u.id
      <4>1. own[udata[x].id] = [t |-> x, tr |-> done[x], n |-> udata[x].n, cut |-> udata[x].truncated]
        BY <3>1 DEF OwnInv, Owned
      <4>2. own[udata[x].id].t = x
        BY <4>1
      <4> QED BY <1>2, <2>1, <4>2
    <3>3. /\ \A k \in udata[x].k..(udata[x].n - 1) : Missing(stream, chunks, udata[x].id, k)
          /\ udata[x].lost => \E k \in 0..(udata[x].k - 1) : Missing(stream, chunks, udata[x].id, k)
      BY <3>1 DEF OwnInv, Ahead
    <3> QED BY <1>19, <3>1, <3>2, <3>3
  <2>2. CASE x = t
    <3>1. ~last
      BY <1>9, <2>2
    <3>2. \A k \in (u.k + 1)..(u.n - 1) : k \in u.k..(u.n - 1) /\ k # u.k
      BY <1>1
    <3>3. \A k \in udata'[x].k..(udata'[x].n - 1) : Missing(stream', chunks', udata'[x].id, k)
      BY <1>9, <1>15, <1>19, <2>2, <3>1, <3>2
    <3>4. CASE u.lost
      <4>1. PICK k \in 0..(u.k - 1) : Missing(stream, chunks, u.id, k)
        BY <1>0, <3>4 DEF OwnInv, Ahead
      <4>2. k # u.k /\ k \in 0..((u.k + 1) - 1)
        BY <1>1
      <4>3. Missing(stream', chunks', u.id, k)
        BY <1>19, <4>1, <4>2
      <4> QED BY <1>9, <2>2, <3>1, <3>3, <4>2, <4>3
    <3>5. CASE ~ok
      <4>1. Missing(stream', chunks', u.id, u.k)
        BY <1>15, <1>16, <1>19, <3>5
      <4>2. u.k \in 0..((u.k + 1) - 1)
        BY <1>1
      <4> QED BY <1>9, <2>2, <3>1, <3>3, <4>1, <4>2
    <3>6. CASE ~u.lost /\ ok
      BY <1>9, <2>2, <3>1, <3>3, <3>6
    <3> QED BY <3>4, <3>5, <3>6
  <2> QED BY <2>1, <2>2
<1>21. Ended(own)'
  <2>1. \A p \in Positions' : stream'[p].id = -1 => stream'[p].frames \in sent'
    BY <1>1, <1>6, <1>7, <1>10, Kinds DEF OwnInv, Ended
  <2>2. ASSUME NEW p \in Positions', stream'[p].m = "!"
        PROVE  \/ AllOf(own[stream'[p].id]) \in sent'
               \/ \E k \in 0..(own[stream'[p].id].n - 1) : Missing(stream', chunks', stream'[p].id, k)
    <3>1. CASE p \in Positions /\ stream'[p] = stream[p]
      <4>1. IsChunk(own, stream[p])
        BY <2>2, <3>1, Kinds DEF OwnInv, Placed
      <4>2. stream[p].id # u.id
        <5> SUFFICES ASSUME stream[p].id = u.id PROVE FALSE
          OBVIOUS
        <5>1. stream[p].k = u.n - 1
          BY <1>2, <2>2, <3>1, <4>1, ChunkFields DEF IsChunk
        <5>2. u.n - 1 \in u.k..(u.n - 1)
          BY <1>1
        <5>3. Missing(stream, chunks, u.id, u.n - 1)
          BY <1>15, <5>2
        <5> QED BY <3>1, <5>1, <5>3 DEF Missing, Positions
      <4>3. \/ AllOf(own[stream[p].id]) \in sent
            \/ \E k \in 0..(own[stream[p].id].n - 1) : Missing(stream, chunks, stream[p].id, k)
        BY <2>2, <3>1 DEF OwnInv, Ended
      <4> QED BY <1>10, <1>19, <3>1, <4>2, <4>3
    <3>2. CASE ok /\ stream'[p] = c
      <4>1. last /\ stream'[p].id = u.id
        BY <1>6, <2>2, <3>2
      <4>2. CASE ~u.lost
        BY <1>5, <3>2, <4>1, <4>2
      <4>3. CASE u.lost
        <5>1. PICK k \in 0..(u.k - 1) : Missing(stream, chunks, u.id, k)
          BY <1>0, <4>3 DEF OwnInv, Ahead
        <5>2. k # u.k /\ k \in 0..(o.n - 1)
          BY <1>1, <1>2
        <5>3. Missing(stream', chunks', u.id, k)
          BY <1>19, <5>1, <5>2
        <5> QED BY <4>1, <5>2, <5>3
      <4> QED BY <4>2, <4>3
    <3> QED BY <1>7, <3>1, <3>2
  <2>3. ASSUME NEW x \in sent', x # <<>>
        PROVE  x[1].thread \in Thread /\ x[1].trace < done'[x[1].thread]
    <3>1. CASE x \in sent
      <4>1. x[1].thread \in Thread /\ x[1].trace < done[x[1].thread]
        BY <2>3, <3>1 DEF OwnInv, Ended
      <4>2. x[1].trace \in Nat
        <5>1. x[1] \in FrameSet
          BY <2>3, <3>1 DEF StreamType
        <5> QED BY <5>1 DEF FrameSet
      <4> QED BY <1>8, <4>1, <4>2
    <3>2. CASE last /\ x = AllOf(o)
      <4>1. x[1].thread = t /\ x[1].trace = d
        BY <1>2, <1>3a, <2>3, <3>2, AllOfFirst
      <4> QED BY <1>8, <3>2, <4>1
    <3> QED BY <1>5, <3>1, <3>2
  <2> QED BY <2>1, <2>2, <2>3 DEF Ended
<1>22. Counted(own)'
  <2> SUFFICES ASSUME NEW x \in DOMAIN stacks
               PROVE  /\ x \in sent' /\ x # <<>> /\ stacks[x] = 1
                      /\ \A p \in Positions' :
                           /\ stream'[p].id = -1 => stream'[p].frames # x
                           /\ stream'[p].m = "!" => AllOf(own[stream'[p].id]) # x
    BY <1>4 DEF Counted
  <2>1. /\ x \in sent /\ x # <<>> /\ stacks[x] = 1
        /\ \A p \in Positions :
             /\ stream[p].id = -1 => stream[p].frames # x
             /\ stream[p].m = "!" => AllOf(own[stream[p].id]) # x
    BY DEF OwnInv, Counted
  <2>2. x[1].trace < done[x[1].thread]
    BY <2>1 DEF OwnInv, Ended
  <2>3. AllOf(o) # x
    <3> SUFFICES ASSUME AllOf(o) = x PROVE FALSE
      OBVIOUS
    <3>1. x[1].thread = t /\ x[1].trace = d
      BY <1>2, <1>3a, <2>1, AllOfFirst
    <3> QED BY <1>1, <2>2, <3>1
  <2>4. c.id # -1 /\ own[c.id] = o
    BY <1>1, <1>6, Kinds
  <2> QED BY <1>7, <1>10, <2>1, <2>3, <2>4
<1> QED BY <1>11, <1>12, <1>14, <1>18, <1>20, <1>21, <1>22 DEF OwnInv

(* What has been kept of trace i, the last chunk, k, with it. *)
ChunksOf(own, i, mine, k) ==
  /\ k \in Nat /\ own[i] \in Owner
  /\ \A c \in mine : c.id = i /\ IsChunk(own, c)
  /\ \E c \in mine : c.k = k /\ c.m = "!"

(* One more stack, which was not there. *)
LEMMA CountOnce ==
  ASSUME NEW x, Count(x), x \notin DOMAIN stacks, \A s \in DOMAIN stacks : stacks[s] = 1
  PROVE  /\ \A s \in DOMAIN stacks' : stacks'[s] = 1
         /\ DOMAIN stacks' = IF x = <<>> THEN DOMAIN stacks ELSE DOMAIN stacks \cup {x}
<1>1. CASE x = <<>>
  BY <1>1 DEF Count
<1>2. CASE x # <<>>
  <2>1. stacks' = [s \in DOMAIN stacks \cup {x} |-> Seen(s) + (IF s = x THEN 1 ELSE 0)]
    BY <1>2 DEF Count
  <2>2. DOMAIN stacks' = DOMAIN stacks \cup {x}
    BY <2>1
  <2>3. ASSUME NEW s \in DOMAIN stacks \cup {x} PROVE stacks'[s] = 1
    <3>1. CASE s = x
      BY <2>1, <3>1 DEF Seen
    <3>2. CASE s # x
      BY <2>1, <3>2 DEF Seen
    <3> QED BY <3>1, <3>2
  <2> QED BY <1>2, <2>2, <2>3
<1> QED BY <1>1, <1>2

LEMMA WholeNamed ==
  ASSUME NEW own \in [Ids -> Owner], NEW x, NEW w, IsWhole(own, done, w), w.frames = x
  PROVE  /\ w = WholeOf(x[1].thread, x[1].trace)
         /\ \A i \in Ids : ~(own[i].t = x[1].thread /\ own[i].tr = x[1].trace)
<1>1. PICK y \in Thread, tr \in Nat :
        w = WholeOf(y, tr) /\ \A i \in Ids : ~(own[i].t = y /\ own[i].tr = tr)
  BY DEF IsWhole
<1>2. WholeOf(y, tr).frames[1].thread = y /\ WholeOf(y, tr).frames[1].trace = tr
  BY WholeFields
<1>3. x[1].thread = y /\ x[1].trace = tr
  BY <1>1, <1>2
<1> QED BY <1>1, <1>3

(* What the collapser reads is a whole trace or a chunk; what it counts then *)
(* was sent and has not been counted.                                        *)
LEMMA TakeStep ==
  ASSUME StreamType, NEW own \in [Ids -> Owner], OwnInv(own),
         stream # <<>>, stream' = Tail(stream),
         chunks' \subseteq chunks \cup {Head(stream)}, Head(stream).id # -1 \/ chunks' = chunks,
         UNCHANGED <<trace_id, udata, done, sent>>,
         \/ stacks' = stacks
         \/ \E x : /\ Count(x)
                   /\ \/ Head(stream).id = -1 /\ x = Head(stream).frames
                      \/ Head(stream).m = "!" /\ x = AllOf(own[Head(stream).id]) /\ x \in sent
  PROVE  StreamType' /\ own \in [Ids' -> Owner] /\ OwnInv(own)'
<1> PICK c : c = Head(stream)
  OBVIOUS
<1>1. /\ trace_id' = trace_id /\ Ids' = Ids /\ udata' = udata /\ done' = done /\ sent' = sent
      /\ own \in [Ids' -> Owner]
  BY DEF Ids
<1>2. /\ stream' \in Seq(Unit)
      /\ 1 \in Positions /\ c = stream[1] /\ c \in Unit
      /\ \A p \in Positions' : p \in Nat /\ p # 0 /\ p + 1 \in Positions /\ stream'[p] = stream[p + 1]
  <2>1. /\ stream' \in Seq(Unit)
        /\ 1 \in Positions /\ c = stream[1]
        /\ \A p \in Positions' : p \in Nat /\ p # 0 /\ p + 1 \in Positions /\ stream'[p] = stream[p + 1]
    BY Taken
  <2>2. stream[1] \in Unit
    BY DEF StreamType
  <2> QED BY <2>1, <2>2
<1>3. StreamType'
  BY <1>1, <1>2 DEF StreamType
<1>4. Owned(own)'
  BY <1>1 DEF OwnInv, Owned
<1>5. c.id # -1 => IsChunk(own, c)
  <2>1. IsWhole(own, done, stream[1]) \/ IsChunk(own, stream[1])
    BY <1>2 DEF OwnInv, Placed
  <2>2. IsWhole(own, done, stream[1]) => stream[1].id = -1
    BY Kinds
  <2> QED BY <1>2, <2>1, <2>2
<1>6. Placed(own)'
  <2>1. \A p \in Positions' : IsWhole(own, done, stream'[p]) \/ IsChunk(own, stream'[p])
    BY <1>2 DEF OwnInv, Placed
  <2>2. \A x \in chunks' : IsChunk(own, x)
    BY <1>5 DEF OwnInv, Placed
  <2>3. ASSUME NEW p \in Positions', NEW q \in Positions', stream'[p] = stream'[q] PROVE p = q
    <3>1. p \in Nat /\ q \in Nat /\ p + 1 \in Positions /\ q + 1 \in Positions
      BY <1>2
    <3>2. stream[p + 1] = stream[q + 1]
      BY <1>2, <2>3
    <3>3. p + 1 = q + 1
      BY <3>1, <3>2 DEF OwnInv, Placed
    <3> QED BY <3>1, <3>3
  <2> QED BY <1>1, <2>1, <2>2, <2>3 DEF Placed
<1>7. ASSUME NEW i, NEW k, Missing(stream, chunks, i, k) PROVE Missing(stream', chunks', i, k)
  BY <1>7, MissingTaken
<1>8. Ahead'
  BY <1>1, <1>7 DEF OwnInv, Ahead
<1>9. Ended(own)'
  <2>1. \A p \in Positions' : stream'[p].id = -1 => stream'[p].frames \in sent
    BY <1>2 DEF OwnInv, Ended
  <2>2. \A p \in Positions' : stream'[p].m = "!" =>
          \/ AllOf(own[stream'[p].id]) \in sent
          \/ \E k \in 0..(own[stream'[p].id].n - 1) : Missing(stream', chunks', stream'[p].id, k)
    BY <1>2, <1>7, ZenonT(30) DEF OwnInv, Ended
  <2> QED BY <1>1, <2>1, <2>2 DEF OwnInv, Ended
<1>10. ASSUME NEW s, s \in DOMAIN stacks
       PROVE  /\ s \in sent /\ s # <<>> /\ stacks[s] = 1
              /\ \A p \in Positions' :
                   /\ stream'[p].id = -1 => stream'[p].frames # s
                   /\ stream'[p].m = "!" => AllOf(own[stream'[p].id]) # s
  <2>1. /\ s \in sent /\ s # <<>> /\ stacks[s] = 1
        /\ \A p \in Positions :
             /\ stream[p].id = -1 => stream[p].frames # s
             /\ stream[p].m = "!" => AllOf(own[stream[p].id]) # s
    BY <1>10 DEF OwnInv, Counted
  <2> QED BY <1>2, <2>1
<1>11. Counted(own)'
  <2>1. CASE stacks' = stacks
    BY <1>1, <1>10, <2>1 DEF Counted
  <2>2. CASE stacks' # stacks
    <3>1. PICK x : /\ Count(x)
                   /\ \/ c.id = -1 /\ x = c.frames
                      \/ c.m = "!" /\ x = AllOf(own[c.id]) /\ x \in sent
      BY <2>2
    <3>2. x # <<>>
      BY <2>2, <3>1 DEF Count
    <3>3. x \notin DOMAIN stacks
      BY <1>2, <3>1 DEF OwnInv, Counted
    <3>4. x \in sent
      BY <1>2, <3>1 DEF OwnInv, Ended
    <3>5. \A s \in DOMAIN stacks' : stacks'[s] = 1 /\ (s \in DOMAIN stacks \/ s = x)
      <4>1. Count(x) /\ \A s \in DOMAIN stacks : stacks[s] = 1
        BY <1>10, <3>1
      <4>2. \A s \in DOMAIN stacks' : stacks'[s] = 1
        BY <3>3, <4>1, CountOnce
      <4>3. DOMAIN stacks' = IF x = <<>> THEN DOMAIN stacks ELSE DOMAIN stacks \cup {x}
        BY <3>3, <4>1, CountOnce
      <4> QED BY <3>2, <4>2, <4>3
    <3>6. ASSUME NEW p \in Positions'
          PROVE  /\ stream'[p].id = -1 => stream'[p].frames # x
                 /\ stream'[p].m = "!" => AllOf(own[stream'[p].id]) # x
      <4> PICK v : v = stream'[p]
        OBVIOUS
      <4>1. v = stream[p + 1] /\ p + 1 \in Positions /\ p + 1 # 1
        <5>1. p \in Nat /\ p # 0
          BY <1>2
        <5>2. v = stream[p + 1] /\ p + 1 \in Positions
          BY <1>2
        <5>3. p + 1 # 1
          BY <5>1
        <5> QED BY <5>2, <5>3
      <4>2. v # c
        BY <1>2, <4>1 DEF OwnInv, Placed
      <4>3. IsWhole(own, done, v) \/ IsChunk(own, v)
        BY <4>1 DEF OwnInv, Placed
      <4>4. ASSUME NEW w, IsChunk(own, w), w.m = "!", AllOf(own[w.id]) = x
            PROVE  /\ w.id \in Ids /\ own[w.id].t = x[1].thread /\ own[w.id].tr = x[1].trace
                   /\ w = ChunkOf(own[w.id], w.id, own[w.id].n - 1)
        <5>1. w.id \in Ids /\ own[w.id] \in Owner
          BY <4>4, Kinds
        <5>2. x[1] = FrameOf(own[w.id].t, own[w.id].tr, 0)
          BY <3>2, <4>4, <5>1, AllOfFirst
        <5>3. x[1].thread = own[w.id].t /\ x[1].trace = own[w.id].tr
          BY <5>2 DEF FrameOf
        <5>4. w = ChunkOf(own[w.id], w.id, w.k) /\ w.k = own[w.id].n - 1
          BY <4>4, ChunkFields DEF IsChunk
        <5> QED BY <5>1, <5>3, <5>4
      <4>5. ASSUME NEW w, IsWhole(own, done, w), w.frames = x
            PROVE  /\ w = WholeOf(x[1].thread, x[1].trace)
                   /\ \A i \in Ids : ~(own[i].t = x[1].thread /\ own[i].tr = x[1].trace)
        BY <4>5, WholeNamed
      <4>6. CASE c.id = -1 /\ x = c.frames
        <5>1. IsWhole(own, done, c)
          BY <1>2, <4>6, Kinds DEF OwnInv, Placed
        <5>2. CASE IsWhole(own, done, v)
          <6> SUFFICES ASSUME v.frames = x PROVE FALSE
            BY <5>2, Kinds
          <6>1. v = WholeOf(x[1].thread, x[1].trace)
            BY <4>5, <5>2
          <6>2. c = WholeOf(x[1].thread, x[1].trace)
            BY <4>5, <4>6, <5>1
          <6> QED BY <4>2, <6>1, <6>2
        <5>3. CASE IsChunk(own, v)
          BY <4>4, <4>5, <4>6, <5>1, <5>3, Kinds
        <5> QED BY <4>3, <5>2, <5>3
      <4>7. CASE c.m = "!" /\ x = AllOf(own[c.id])
        <5>1. IsChunk(own, c)
          BY <1>2, <4>7, Kinds DEF OwnInv, Placed
        <5>2. CASE IsWhole(own, done, v)
          BY <4>4, <4>5, <4>7, <5>1, <5>2, Kinds
        <5>3. CASE IsChunk(own, v)
          <6> SUFFICES ASSUME v.m = "!", AllOf(own[v.id]) = x PROVE FALSE
            BY <5>3, Kinds
          <6>1. /\ v.id \in Ids /\ own[v.id].t = x[1].thread /\ own[v.id].tr = x[1].trace
                /\ v = ChunkOf(own[v.id], v.id, own[v.id].n - 1)
            BY <4>4, <5>3
          <6>2. /\ c.id \in Ids /\ own[c.id].t = x[1].thread /\ own[c.id].tr = x[1].trace
                /\ c = ChunkOf(own[c.id], c.id, own[c.id].n - 1)
            BY <4>4, <4>7, <5>1
          <6>3. \A i, j \in Ids : own[i].t = own[j].t /\ own[i].tr = own[j].tr => i = j
            BY DEF OwnInv, Owned
          <6>4. v.id = c.id
            BY <6>1, <6>2, <6>3, ZenonT(30)
          <6> QED BY <4>2, <6>1, <6>2, <6>4
        <5> QED BY <4>3, <5>2, <5>3
      <4> QED BY <3>1, <4>6, <4>7
    <3> QED BY <1>1, <1>10, <3>2, <3>4, <3>5, <3>6 DEF Counted
  <2> QED BY <2>1, <2>2
<1> QED BY <1>1, <1>3, <1>4, <1>6, <1>8, <1>9, <1>11 DEF OwnInv

----------------------------------------------------------------------------
(* How the collapser joins the chunks of a trace. *)
(* A set of natural numbers has a least one ... *)
LEMMA LeastNat ==
  ASSUME NEW T, T \subseteq Nat, T # {}
  PROVE  \E x \in T : \A y \in T : x <= y
<1> DEFINE R == OpToRel(<, Nat)
<1>1. IsWellFoundedOn(R, Nat)
  BY NatLessThanWellFounded
<1>2. \A y, x \in Nat : y < x => <<y, x>> \in R
  BY DEF OpToRel
<1> HIDE DEF R
<1>3. PICK x \in T : \A y \in T : ~(<<y, x>> \in R)
  BY <1>1, WFMin
<1>4. ASSUME NEW y \in T PROVE x <= y
  <2>1. x \in Nat /\ y \in Nat
    OBVIOUS
  <2>2. ~(y < x)
    BY <1>2, <1>3, <2>1
  <2> QED BY <2>1, <2>2
<1> QED BY <1>4

(* ... which is induction, for sets. *)
LEMMA NatInduct ==
  ASSUME NEW T, 0 \in T, \A n \in Nat : n \in T => n + 1 \in T
  PROVE  Nat \subseteq T
<1> SUFFICES ASSUME Nat \ T # {} PROVE FALSE
  OBVIOUS
<1>1. PICK x \in Nat \ T : \A y \in Nat \ T : x <= y
  BY LeastNat
<1>2. x # 0 /\ x - 1 \in Nat /\ ~(x <= x - 1)
  OBVIOUS
<1> QED BY <1>1, <1>2

(* The function by which Joined joins the first n of some sequences.        *)
Joins(f, n, ss) == f = [i \in 0..n |-> IF i = 0 THEN <<>> ELSE f[i - 1] \o ss[i]]

LEMMA JoinsExists ==
  ASSUME NEW ss
  PROVE  \A n \in Nat : \E f : Joins(f, n, ss)
<1> DEFINE T == {n \in Nat : \E f : Joins(f, n, ss)}
<1>1. 0 \in T
  <2>1. Joins([i \in {0} |-> <<>>], 0, ss)
    BY DEF Joins
  <2> QED BY <2>1
<1>2. ASSUME NEW n \in Nat, n \in T PROVE n + 1 \in T
  <2>1. PICK f : Joins(f, n, ss)
    BY <1>2
  <2> DEFINE g == [i \in 0..(n + 1) |-> IF i = 0 THEN <<>> ELSE f[i - 1] \o ss[i]]
  <2>2. ASSUME NEW i \in 0..(n + 1), i # 0 PROVE g[i - 1] = f[i - 1]
    <3>1. i - 1 \in 0..n /\ i - 1 \in 0..(n + 1)
      BY <2>2
    <3> QED BY <3>1, <2>1 DEF Joins
  <2> HIDE DEF g
  <2>3. g = [i \in 0..(n + 1) |-> IF i = 0 THEN <<>> ELSE g[i - 1] \o ss[i]]
    BY <2>2 DEF g
  <2>4. Joins(g, n + 1, ss)
    BY <2>3 DEF Joins
  <2> QED BY <2>4
<1> HIDE DEF T
<1>3. Nat \subseteq T
  BY <1>1, <1>2, NatInduct
<1> QED BY <1>3 DEF T

Singles(ss, n, f, cut) == ss = [i \in 1..n |-> IF i = n /\ cut THEN <<>> ELSE <<f[i]>>]

Firsts(n, f, cut) == [i \in 1..(IF cut THEN n - 1 ELSE n) |-> f[i]]

(* Sequences of one frame each, the last of which may be empty, join to the *)
(* sequence of their frames.                                                *)
LEMMA JoinedSingles ==
  ASSUME NEW n \in Nat \ {0}, NEW f, NEW cut \in BOOLEAN, NEW ss, Singles(ss, n, f, cut),
         NEW g, Joins(g, n, ss)
  PROVE  g[n] = Firsts(n, f, cut)
<1>a. \A j \in 0..n : g[j] = IF j = 0 THEN <<>> ELSE g[j - 1] \o ss[j]
  BY DEF Joins
<1>b. \A j \in 1..n : ss[j] = IF j = n /\ cut THEN <<>> ELSE <<f[j]>>
  BY DEF Singles
<1> DEFINE T == {m \in Nat : m < n => g[m] = [i \in 1..m |-> f[i]]}
<1>1. 0 \in T
  <2>1. g[0] = <<>>
    BY <1>a
  <2>2. [i \in 1..0 |-> f[i]] = <<>>
    OBVIOUS
  <2> QED BY <2>1, <2>2
<1>2. ASSUME NEW m \in Nat, m \in T PROVE m + 1 \in T
  <2> SUFFICES ASSUME m + 1 < n PROVE g[m + 1] = [i \in 1..(m + 1) |-> f[i]]
    OBVIOUS
  <2>1. g[m] = [i \in 1..m |-> f[i]]
    BY <1>2
  <2>2. g[m + 1] = g[m] \o <<f[m + 1]>>
    <3>1. m + 1 \in 0..n /\ m + 1 \in 1..n /\ m + 1 # 0 /\ m + 1 # n /\ (m + 1) - 1 = m
      OBVIOUS
    <3>2. ss[m + 1] = <<f[m + 1]>>
      BY <1>b, <3>1
    <3> QED BY <1>a, <3>1, <3>2
  <2> QED BY <2>1, <2>2
<1> HIDE DEF T
<1>3. Nat \subseteq T
  BY <1>1, <1>2, NatInduct
<1>4. n - 1 \in Nat /\ n - 1 < n /\ n \in 1..n /\ n \in 0..n /\ n # 0
  OBVIOUS
<1>5. g[n - 1] = [i \in 1..(n - 1) |-> f[i]]
  BY <1>3, <1>4 DEF T
<1>6. g[n] = g[n - 1] \o ss[n]
  BY <1>a, <1>4
<1>7. CASE cut
  <2>1. ss[n] = <<>>
    BY <1>b, <1>4, <1>7
  <2>2. [i \in 1..(n - 1) |-> f[i]] \o <<>> = [i \in 1..(n - 1) |-> f[i]]
    BY <1>4
  <2> QED BY <1>5, <1>6, <1>7, <2>1, <2>2 DEF Firsts
<1>8. CASE ~cut
  <2>1. ss[n] = <<f[n]>>
    BY <1>b, <1>4, <1>8
  <2>2. [i \in 1..(n - 1) |-> f[i]] \o <<f[n]>> = [i \in 1..n |-> f[i]]
    BY <1>4
  <2> QED BY <1>5, <1>6, <1>8, <2>1, <2>2 DEF Firsts
<1> QED BY <1>7, <1>8

(* If no chunk is missing up to the last one, then they join to the trace. *)
LEMMA JoinedIsAll ==
  ASSUME NEW own, NEW i, NEW mine, NEW k, ChunksOf(own, i, mine, k), Complete(mine, k)
  PROVE  /\ Joined(mine, k) = AllOf(own[i])
         /\ k = own[i].n - 1
         /\ \A j \in 0..k : \E c \in mine : c.k = j
<1> USE DEF ChunksOf
<1> DEFINE o == own[i]
           ks == {c.k : c \in mine}
<1>1. o.n \in Nat \ {0} /\ o.cut \in BOOLEAN
  BY DEF Owner
<1>2. \A c \in mine : c.k \in 0..(o.n - 1) /\ c = ChunkOf(o, i, c.k)
  BY DEF IsChunk
<1>3. k = o.n - 1
  <2>1. PICK c \in mine : c.k = k /\ c.m = "!"
    OBVIOUS
  <2>2. ChunkOf(o, i, k).m = IF k = o.n - 1 THEN "!" ELSE "~"
    BY ChunkFields
  <2> QED BY <1>2, <2>1, <2>2
<1>4. ks = 0..k
  <2>1. ks \subseteq 0..k
    BY <1>2, <1>3
  <2>2. IsFiniteSet(0..k) /\ Cardinality(0..k) = k + 1
    BY FS_Interval
  <2>3. Cardinality(ks) = k + 1
    BY DEF Complete
  <2> HIDE DEF ks
  <2> QED BY <2>1, <2>2, <2>3, FS_Subset
<1>5. \A j \in 0..k : \E c \in mine : c.k = j
  BY <1>4
<1> DEFINE ss == [j \in 1..(k + 1) |-> (CHOOSE c \in mine : c.k = j - 1).frames]
           f == [j \in 1..(k + 1) |-> FrameOf(o.t, o.tr, j - 1)]
           g == CHOOSE h : h = [j \in 0..(k + 1) |->
                  IF j = 0 THEN <<>> ELSE h[j - 1] \o (CHOOSE c \in mine : c.k = j - 1).frames]
<1>6. ASSUME NEW j \in 1..(k + 1)
      PROVE  ss[j] = IF j = k + 1 /\ o.cut THEN <<>> ELSE <<FrameOf(o.t, o.tr, j - 1)>>
  <2> DEFINE c == CHOOSE c \in mine : c.k = j - 1
  <2>1. ss[j] = c.frames
    OBVIOUS
  <2>2. j - 1 \in 0..k
    OBVIOUS
  <2>3. c \in mine /\ c.k = j - 1
    BY <1>5, <2>2
  <2> HIDE DEF c
  <2>4. c = ChunkOf(o, i, j - 1)
    BY <1>2, <2>3
  <2>5. c.frames = IF j - 1 = o.n - 1 /\ o.cut THEN <<>> ELSE <<FrameOf(o.t, o.tr, j - 1)>>
    BY <2>4 DEF ChunkOf
  <2>6. (j - 1 = o.n - 1) <=> (j = k + 1)
    BY <1>1, <1>3
  <2> HIDE DEF ss
  <2> QED BY <2>1, <2>5, <2>6
<1>7. ss = [j \in 1..(k + 1) |-> IF j = k + 1 /\ o.cut THEN <<>> ELSE <<f[j]>>]
  BY <1>6
<1>8. Joined(mine, k) = g[k + 1]
  BY DEF Joined
<1>9. k + 1 \in Nat \ {0} /\ k + 1 = o.n
  BY <1>1, <1>3
<1>10. g = [j \in 0..(k + 1) |->
              IF j = 0 THEN <<>> ELSE g[j - 1] \o (CHOOSE c \in mine : c.k = j - 1).frames]
  <2>1. PICK h : Joins(h, k + 1, ss)
    <3>1. k + 1 \in Nat
      BY <1>9
    <3> HIDE DEF ss
    <3> QED BY <3>1, JoinsExists
  <2>2. h = [j \in 0..(k + 1) |-> IF j = 0 THEN <<>> ELSE h[j - 1] \o ss[j]]
    BY <2>1 DEF Joins
  <2>3. \A j \in 0..(k + 1) : j # 0 => ss[j] = (CHOOSE c \in mine : c.k = j - 1).frames
    OBVIOUS
  <2> HIDE DEF ss
  <2>4. h = [j \in 0..(k + 1) |->
               IF j = 0 THEN <<>> ELSE h[j - 1] \o (CHOOSE c \in mine : c.k = j - 1).frames]
    BY <2>2, <2>3
  <2> QED BY <2>4
<1>11. \A j \in 0..(k + 1) : j # 0 => ss[j] = (CHOOSE c \in mine : c.k = j - 1).frames
  OBVIOUS
<1> HIDE DEF ss, f, g
<1> PICK n : n = k + 1
  OBVIOUS
<1> PICK cut : cut = o.cut
  OBVIOUS
<1>12. Joins(g, n, ss)
  BY <1>10, <1>11 DEF Joins
<1>13. g[n] = Firsts(n, f, cut)
  <2>1. n \in Nat \ {0} /\ cut \in BOOLEAN
    BY <1>1, <1>9
  <2>2. Singles(ss, n, f, cut)
    BY <1>7 DEF Singles
  <2> QED BY <1>12, <2>1, <2>2, JoinedSingles
<1>14. Firsts(n, f, cut) = AllOf(o)
  <2>1. CASE o.cut
    BY <1>9, <2>1 DEF f, AllOf, Firsts
  <2>2. CASE ~o.cut
    BY <1>9, <2>2 DEF f, AllOf, Firsts
  <2> QED BY <2>1, <2>2
<1> QED BY <1>3, <1>5, <1>8, <1>13, <1>14

(* The collapser reads a whole trace, or a chunk. *)
LEMMA ReadStep ==
  ASSUME StreamType, NEW own \in [Ids -> Owner], OwnInv(own), ReadWhole \/ ReadChunk
  PROVE  StreamType' /\ own \in [Ids' -> Owner] /\ OwnInv(own)'
<1>1. CASE ReadWhole
  <2>1. /\ stream # <<>> /\ stream' = Tail(stream) /\ chunks' = chunks
        /\ UNCHANGED <<trace_id, udata, done, sent>>
        /\ Head(stream).id = -1 /\ Count(Head(stream).frames)
    BY <1>1 DEF ReadWhole
  <2>2. chunks' \subseteq chunks \cup {Head(stream)}
    BY <2>1
  <2> QED BY <2>1, <2>2, TakeStep
<1>2. CASE ReadChunk
  <2> DEFINE c == Head(stream)
             kept == {x \in chunks : ~(x.id = c.id /\ x.k = c.k)} \cup {c}
             mine == {x \in kept : x.id = c.id}
  <2>1. /\ stream # <<>> /\ stream' = Tail(stream) /\ c.id # -1
        /\ UNCHANGED <<trace_id, udata, done, sent>>
        /\ IF c.m = "!"
           THEN /\ IF Complete(mine, c.k) THEN Count(Joined(mine, c.k)) ELSE UNCHANGED stacks
                /\ chunks' = kept \ mine
           ELSE chunks' = kept /\ UNCHANGED stacks
    BY <1>2 DEF ReadChunk
  <2>2. chunks' \subseteq chunks \cup {c}
    BY <2>1
  <2>3. CASE c.m = "!" /\ Complete(mine, c.k)
    <3>1. 1 \in Positions /\ c = stream[1] /\ c \in Unit
      BY <2>1, Taken DEF StreamType
    <3>2. IsChunk(own, c)
      BY <2>1, <3>1, Kinds DEF OwnInv, Placed
    <3>3. c.id \in Ids /\ own[c.id] \in Owner /\ c.k \in Nat
      BY <3>1, <3>2, Kinds DEF Unit
    <3>4. \A x \in mine : x.id = c.id /\ IsChunk(own, x)
      BY <3>2 DEF OwnInv, Placed
    <3>5. c \in mine
      OBVIOUS
    <3>6. mine \subseteq chunks \cup {c}
      OBVIOUS
    <3> PICK b : b = c
      OBVIOUS
    <3> PICK set : set = mine
      OBVIOUS
    <3>7. \E x \in set : x.k = b.k /\ x.m = "!"
      BY <2>3, <3>5
    <3>8. Complete(set, b.k)
      BY <2>3
    <3>9. \A x \in set : x.id = b.id /\ IsChunk(own, x)
      BY <3>4
    <3>10. /\ b.k \in Nat /\ own[b.id] \in Owner
      BY <3>3
    <3>11. b \in set /\ set \subseteq chunks \cup {b} /\ b = stream[1] /\ b = Head(stream)
      BY <3>1, <3>5, <3>6
    <3>12. Count(Joined(set, b.k)) /\ b.m = "!"
      BY <2>1, <2>3
    <3> HIDE DEF c, kept, mine
    <3>12a. ChunksOf(own, b.id, set, b.k)
      BY <3>7, <3>9, <3>10 DEF ChunksOf
    <3>13. /\ Joined(set, b.k) = AllOf(own[b.id])
           /\ b.k = own[b.id].n - 1
           /\ \A j \in 0..b.k : \E x \in set : x.k = j
      BY <3>8, <3>12a, JoinedIsAll
    <3>14. ASSUME NEW j \in 0..(own[b.id].n - 1) PROVE ~Missing(stream, chunks, b.id, j)
      <4>1. PICK x \in set : x.k = j
        BY <3>13
      <4>2. x.id = b.id /\ (x \in chunks \/ x = stream[1])
        BY <3>9, <3>11
      <4> QED BY <3>1, <4>1, <4>2 DEF Missing, Positions
    <3>15. AllOf(own[b.id]) \in sent
      BY <3>1, <3>11, <3>12, <3>14 DEF OwnInv, Ended
    <3> QED BY <2>1, <2>2, <3>11, <3>12, <3>13, <3>15, TakeStep DEF c
  <2>4. CASE ~(c.m = "!" /\ Complete(mine, c.k))
    <3>1. stacks' = stacks
      BY <2>1, <2>4
    <3> HIDE DEF kept, mine
    <3> QED BY <2>1, <2>2, <3>1, TakeStep
  <2> QED BY <2>3, <2>4
<1> QED BY <1>1, <1>2

LEMMA StreamStep == StreamInv /\ [Next]_vars => StreamInv'
<1> SUFFICES ASSUME StreamInv, [Next]_vars PROVE StreamInv'
  OBVIOUS
<1>1. StreamType
  BY DEF StreamInv
<1>2. PICK own \in [Ids -> Owner] : OwnInv(own)
  BY DEF StreamInv
<1>3. ASSUME NEW t \in Thread, WriteWhole(t) PROVE StreamInv'
  BY <1>1, <1>2, <1>3, WholeStep DEF StreamInv
<1>4. ASSUME NEW t \in Thread, NEW n \in 1..MaxChunks, NEW truncated \in BOOLEAN, StartChunks(t, n, truncated)
      PROVE  StreamInv'
  <2>1. n \in Nat \ {0}
    BY MaxChunksAssumption
  <2> QED BY <1>1, <1>2, <1>4, <2>1, StartStep DEF StreamInv
<1>5. ASSUME NEW t \in Thread, WriteChunk(t) PROVE StreamInv'
  BY <1>1, <1>2, <1>5, ChunkStep DEF StreamInv
<1>6. CASE ReadWhole \/ ReadChunk
  BY <1>1, <1>2, <1>6, ReadStep DEF StreamInv
<1>7. CASE UNCHANGED vars
  <2>1. StreamType' /\ own \in [Ids' -> Owner]
    BY <1>1, <1>7 DEF StreamType, Ids, vars
  <2>2. Owned(own)' /\ Placed(own)'
    BY <1>2, <1>7 DEF OwnInv, Owned, Placed, Ids, Positions, vars
  <2>3. Ahead' /\ Ended(own)' /\ Counted(own)'
    BY <1>2, <1>7 DEF OwnInv, Ahead, Ended, Counted, Positions, vars
  <2> QED BY <2>1, <2>2, <2>3 DEF StreamInv, OwnInv
<1> QED BY <1>3, <1>4, <1>5, <1>6, <1>7 DEF Next, Finished

(* OnlySentStacks: what src/stackcollapse-phpspy.pl counts is, frame for    *)
(* frame, a trace that event_handler_fout_write_whole or _write_chunked has *)
(* written all of, counted once, for any number of threads and whichever    *)
(* writes fail: the numbers that __atomic_fetch_add gives keep the chunks   *)
(* of different traces apart.                                               *)
THEOREM NoForeignStacks == Spec => []OnlySentStacks
<1>1. StreamInv => OnlySentStacks
  BY DEF StreamInv, OwnInv, Counted, OnlySentStacks
<1> QED BY <1>1, StreamInit, StreamStep, PTL DEF Spec
============================================================================

----------------------------- MODULE Callgrind -----------------------------
(***************************************************************************)
(* The callgrind event handler (src/event_callgrind.c): it gets the frames *)
(* of a trace leaf first, and STACK_END adds the trace to tables of costs  *)
(* per location and per call.  A trace that fails has no STACK_END.        *)
(* A location stands for its loc_str; the hash tables are functions that   *)
(* are 0 where the table has no entry.                                     *)
(***************************************************************************)
EXTENDS Integers, Sequences, FiniteSets

CONSTANTS
  Loc,               \* the locations a frame can have
  MAX_STACK_DEPTH,
  TraceBound,        \* bound on the number of traces begun
  FrameBound         \* bound on the number of frames of a trace

ASSUME CallgrindAssumption ==
  /\ MAX_STACK_DEPTH \in Nat \ {0}
  /\ TraceBound \in Nat /\ FrameBound \in Nat

VARIABLES
  state,             \* "idle", "trace" or "dumped"
  self, prev,        \* self_str[0..self_len-1] and prev_str[0..prev_len-1]
  exclusive,         \* of a caller
  inclusive, count,  \* of a callee in a caller's table, by <<caller, callee>>
  begun,             \* traces begun
  offered,           \* ghost: the frames since STACK_BEGIN
  digested           \* ghost: the traces that ended, as they were offered

tables == <<exclusive, inclusive, count>>
vars == <<state, self, prev, tables, begun, offered, digested>>

Call == Loc \X Loc

Init ==
  /\ state = "idle"
  /\ self = <<>> /\ prev = <<>>
  /\ exclusive = [l \in Loc |-> 0]
  /\ inclusive = [c \in Call |-> 0]
  /\ count = [c \in Call |-> 0]
  /\ begun = 0
  /\ offered = <<>> /\ digested = <<>>

(* Mutant: the frames of a trace that failed stay.                          *)
Fresh_kept == self

Fresh == <<>>

(* STACK_BEGIN, also after a trace that failed. *)
StackBegin ==
  /\ state \in {"idle", "trace"} /\ begun < TraceBound
  /\ state' = "trace"
  /\ self' = Fresh
  /\ begun' = begun + 1
  /\ offered' = <<>>
  /\ UNCHANGED <<prev, tables, digested>>

HasRoom == Len(self) < MAX_STACK_DEPTH

(* Mutant: a recursive call is taken for the frame before it.               *)
IngestFrame_collapses(l) ==
  /\ state = "trace" /\ Len(offered) < FrameBound
  /\ self' = IF HasRoom /\ (self = <<>> \/ self[Len(self)] # l) THEN Append(self, l) ELSE self
  /\ offered' = Append(offered, l)
  /\ UNCHANGED <<state, prev, tables, begun, digested>>

(* callgrind_ingest_frame: frames beyond the last slot are dropped. *)
IngestFrame(l) ==
  /\ state = "trace" /\ Len(offered) < FrameBound
  /\ self' = IF HasRoom THEN Append(self, l) ELSE self
  /\ offered' = Append(offered, l)
  /\ UNCHANGED <<state, prev, tables, begun, digested>>

(* The positions at which c is called, which is where its callee stands. *)
Sites(s, c) == {i \in 1..(Len(s) - 1) : s[i] = c[2] /\ s[i + 1] = c[1]}

(* The frame differs from the one at the same index in the previous trace. *)
LooksDifferent(i) == i > Len(prev) \/ self[i] # prev[i]

NewSites(c) == {i \in Sites(self, c) : LooksDifferent(i)}

(* callgrind_digest_stack, then self becomes prev. *)
StackEnd ==
  /\ state = "trace"
  /\ exclusive' = [l \in Loc |->
       exclusive[l] + IF self # <<>> /\ self[1] = l THEN 1 ELSE 0]
  /\ inclusive' = [c \in Call |-> inclusive[c] + Cardinality(Sites(self, c))]
  /\ count' = [c \in Call |-> count[c] + Cardinality(NewSites(c))]
  /\ prev' = self
  /\ self' = <<>>
  /\ state' = "idle"
  /\ digested' = Append(digested, offered)
  /\ UNCHANGED <<begun, offered>>

(* DEINIT: callgrind_dump and callgrind_free. *)
Deinit ==
  /\ state \in {"idle", "trace"}
  /\ state' = "dumped"
  /\ UNCHANGED <<self, prev, tables, begun, offered, digested>>

Next ==
  \/ StackBegin \/ StackEnd \/ Deinit
  \/ \E l \in Loc : IngestFrame(l)

Spec == Init /\ [][Next]_vars

----------------------------------------------------------------------------
(* What the tables should hold, from the traces themselves.                 *)

Kept(t) == SubSeq(t, 1, IF Len(t) < MAX_STACK_DEPTH THEN Len(t) ELSE MAX_STACK_DEPTH)

Traces == {k \in 1..Len(digested) : digested[k] # <<>>}

(* Where c is called, as a trace and a position in it.                      *)
CallsOf(c) ==
  {p \in (1..Len(digested)) \X (1..MAX_STACK_DEPTH) : p[2] \in Sites(Kept(digested[p[1]]), c)}

(* The units of inclusive cost that l has from its callers, and those that  *)
(* it passes on to its callees.                                             *)
Entering(l) == UNION {{m} \X (1..inclusive[<<m, l>>]) : m \in Loc}
Leaving(l) == UNION {{m} \X (1..inclusive[<<l, m>>]) : m \in Loc}

(* The tables have their types and a trace fits self_str.                   *)
TypeOK ==
  /\ state \in {"idle", "trace", "dumped"}
  /\ self \in Seq(Loc) /\ Len(self) <= MAX_STACK_DEPTH
  /\ prev \in Seq(Loc) /\ Len(prev) <= MAX_STACK_DEPTH
  /\ exclusive \in [Loc -> Nat]
  /\ inclusive \in [Call -> Nat]
  /\ count \in [Call -> Nat]
  /\ begun \in 0..TraceBound

(* The tables are the sums over the traces that ended, cut at the last      *)
(* slot, and over no others: nothing of a failed trace is in them.          *)
OnlyEndedTraces ==
  /\ \A l \in Loc :
       exclusive[l] = Cardinality({k \in Traces : digested[k][1] = l})
  /\ \A c \in Call : inclusive[c] = Cardinality(CallsOf(c))

(* Cost is conserved at every location: what enters it, from its callers    *)
(* or as the root of a trace, leaves it to its callees or stays with it.    *)
CostConserved ==
  \A l \in Loc :
    Cardinality({k \in Traces : LET t == Kept(digested[k]) IN t[Len(t)] = l})
      + Cardinality(Entering(l))
    = exclusive[l] + Cardinality(Leaving(l))

(* A trace equal to the previous one that ended adds no calls, whatever     *)
(* failed in between.                                                       *)
RepeatsAreNoCalls == [][StackEnd /\ self = prev => UNCHANGED count]_vars

(* The trace is what is left of the previous one after its leaf, or more of *)
(* its last frames, returned.                                               *)
Returned ==
  /\ Len(self) < Len(prev)
  /\ self = SubSeq(prev, Len(prev) - Len(self) + 1, Len(prev))

(* As the comment over event_handler_callgrind has it for "main a b" after  *)
(* "main a b c", a trace that only returned from frames of the previous one *)
(* adds no calls.                                                           *)
ReturnsAreNoCalls == [][StackEnd /\ Returned => UNCHANGED count]_vars
============================================================================

----------------------------- MODULE StackWalk -----------------------------
(***************************************************************************)
(* How a trace walks the call stack (src/phpspy_trace.c: trace_stack,      *)
(* stack_collect, stack_emit_frame; do_trace reads the head) while the     *)
(* process, unless it is paused, calls and returns.  A frame is an address *)
(* that holds the address of its caller; a frame that was left keeps its   *)
(* contents until the address is used again.                               *)
(***************************************************************************)
EXTENDS Integers, Sequences, FiniteSets, Functions

CONSTANTS
  Addr,                       \* addresses of frames
  NULL,
  PHPSPY_MAX_STACK_WALK,
  INT_MAX,                    \* the largest C int
  FromLeaf, FromRoot,         \* values of -n and -N, -1 for off
  ReadsFail                   \* whether reads of a live process may fail

ASSUME StackWalkAssumption ==
  /\ NULL \notin Addr /\ INT_MAX \in Nat
  /\ PHPSPY_MAX_STACK_WALK \in 1..INT_MAX
  /\ FromLeaf \subseteq -1..INT_MAX
  /\ FromRoot \subseteq -1..INT_MAX

VARIABLES
  stack,           \* the frames of the process, leaf first
  prev_execute_data,
  paused,
  opt_max_stack_depth_from_leaf, opt_max_stack_depth_from_root,
  pc,              \* "start", "collect", "plan", "emit", "follow", "ok" or "error"
  remote,          \* the frame to read next
  stack_ptrs,      \* the frames collected
  keep_outer_from, num_elided,
  i,               \* the loop's index, which is the depth of the next record
  emitted          \* the FRAME events: a frame or a marker, and its depth

opts == <<paused, opt_max_stack_depth_from_leaf, opt_max_stack_depth_from_root>>
process == <<stack, prev_execute_data>>
walk == <<pc, remote, stack_ptrs, keep_outer_from, num_elided, i, emitted>>
vars == <<process, opts, walk>>

Leaf(s) == IF s = <<>> THEN NULL ELSE s[1]

(* The process may have any depth its addresses allow when it is found. *)
Init ==
  /\ \E n \in 0..Cardinality(Addr) : stack \in Injection(1..n, Addr)
  /\ prev_execute_data = [a \in Addr |->
       IF \E k \in 1..(Len(stack) - 1) : stack[k] = a
       THEN stack[(CHOOSE k \in 1..Len(stack) : stack[k] = a) + 1] ELSE NULL]
  /\ paused \in BOOLEAN
  /\ opt_max_stack_depth_from_leaf \in FromLeaf
  /\ opt_max_stack_depth_from_root \in FromRoot
  /\ pc = "start"
  /\ remote = NULL
  /\ stack_ptrs = <<>>
  /\ keep_outer_from = 0 /\ num_elided = 0
  /\ i = 0
  /\ emitted = <<>>

----------------------------------------------------------------------------
Runs == ~paused /\ pc \notin {"ok", "error"}

FunctionCall ==
  /\ Runs
  /\ \E a \in Addr \ Range(stack) :
       /\ prev_execute_data' = [prev_execute_data EXCEPT ![a] = Leaf(stack)]
       /\ stack' = <<a>> \o stack
  /\ UNCHANGED <<opts, walk>>

FunctionReturn ==
  /\ Runs /\ stack # <<>>
  /\ stack' = Tail(stack)
  /\ UNCHANGED <<prev_execute_data, opts, walk>>

----------------------------------------------------------------------------
(* do_trace: copy_executor_globals gives the head of the stack. *)
CopyHead ==
  /\ pc = "start"
  /\ remote' = Leaf(stack)
  /\ pc' = IF opt_max_stack_depth_from_root >= 0 THEN "collect" ELSE "follow"
  /\ UNCHANGED <<process, opts, stack_ptrs, keep_outer_from, num_elided, i, emitted>>

(* A read fails and the walk is given up. *)
ReadError ==
  /\ ReadsFail
  /\ \/ pc \in {"collect", "follow"} /\ remote # NULL
     \/ pc = "emit" /\ i < Len(stack_ptrs)
  /\ pc' = "error"
  /\ UNCHANGED <<process, opts, remote, stack_ptrs, keep_outer_from, num_elided, i, emitted>>

CollectMore == remote # NULL /\ Len(stack_ptrs) < PHPSPY_MAX_STACK_WALK

(* Mutant: the limit drops frames and does not end the loop.                *)
Collect_no_break ==
  /\ pc = "collect"
  /\ IF remote # NULL
     THEN /\ stack_ptrs' = IF CollectMore THEN Append(stack_ptrs, remote) ELSE stack_ptrs
          /\ remote' = prev_execute_data[remote]
          /\ UNCHANGED pc
     ELSE pc' = "plan" /\ UNCHANGED <<stack_ptrs, remote>>
  /\ UNCHANGED <<process, opts, keep_outer_from, num_elided, i, emitted>>

(* stack_collect *)
Collect ==
  /\ pc = "collect"
  /\ IF CollectMore
     THEN /\ stack_ptrs' = Append(stack_ptrs, remote)
          /\ remote' = prev_execute_data[remote]
          /\ UNCHANGED pc
     ELSE pc' = "plan" /\ UNCHANGED <<stack_ptrs, remote>>
  /\ UNCHANGED <<process, opts, keep_outer_from, num_elided, i, emitted>>

Max0(n) == IF n < 0 THEN 0 ELSE n

keep_inner == Max0(opt_max_stack_depth_from_leaf)

total_depth == Len(stack_ptrs)

(* C int arithmetic: an overflow is undefined; the build wraps around, or   *)
(* compares the exact sum.                                                  *)
IntOutcomes(n) ==
  {n, ((n + INT_MAX + 1) % (2 * (INT_MAX + 1))) - (INT_MAX + 1)}

OuterFrom == total_depth - opt_max_stack_depth_from_root

(* trace_stack with -N: which frames are left out. *)
Plan ==
  /\ pc = "plan"
  /\ \E sum \in IntOutcomes(keep_inner + opt_max_stack_depth_from_root) :
       IF sum >= total_depth
       THEN keep_outer_from' = keep_inner /\ num_elided' = 0
       ELSE /\ keep_outer_from' = OuterFrom
            /\ num_elided' \in IntOutcomes(OuterFrom - keep_inner)
  /\ pc' = "emit"
  /\ UNCHANGED <<process, opts, remote, stack_ptrs, i, emitted>>

Frame(a) == [addr |-> a, elided |-> 0, depth |-> i]
Marker == [addr |-> NULL, elided |-> num_elided, depth |-> i]

(* Mutant: the marker comes only if a frame of the leaf part came.          *)
Marks_after_leaf == i > 0 /\ i = keep_inner /\ num_elided > 0

Marks == i = keep_inner /\ num_elided > 0

LeftOut == i >= keep_inner /\ i < keep_outer_from

(* trace_stack with -N: one turn of the loop over the collected frames. *)
EmitCollected ==
  /\ pc = "emit"
  /\ IF i < total_depth
     THEN /\ emitted' = emitted
               \o (IF Marks THEN <<Marker>> ELSE <<>>)
               \o (IF LeftOut THEN <<>> ELSE <<Frame(stack_ptrs[i + 1])>>)
          /\ i' = i + 1
          /\ UNCHANGED pc
     ELSE pc' = "ok" /\ UNCHANGED <<i, emitted>>
  /\ UNCHANGED <<process, opts, remote, stack_ptrs, keep_outer_from, num_elided>>

(* Mutant: -n keeps one frame too many.                                     *)
FollowMore_off_by_one ==
  remote # NULL /\ i # opt_max_stack_depth_from_leaf + 1 /\ i < PHPSPY_MAX_STACK_WALK

FollowMore ==
  remote # NULL /\ i # opt_max_stack_depth_from_leaf /\ i < PHPSPY_MAX_STACK_WALK

(* trace_stack without -N: each frame is emitted where it is found. *)
EmitFollowed ==
  /\ pc = "follow"
  /\ IF FollowMore
     THEN /\ emitted' = Append(emitted, Frame(remote))
          /\ remote' = prev_execute_data[remote]
          /\ i' = i + 1
          /\ UNCHANGED pc
     ELSE pc' = "ok" /\ UNCHANGED <<remote, i, emitted>>
  /\ UNCHANGED <<process, opts, stack_ptrs, keep_outer_from, num_elided>>

Done == pc \in {"ok", "error"} /\ UNCHANGED vars

Next ==
  \/ FunctionCall \/ FunctionReturn
  \/ CopyHead \/ ReadError \/ Collect \/ Plan \/ EmitCollected \/ EmitFollowed
  \/ Done

Spec == Init /\ [][Next]_vars

----------------------------------------------------------------------------
Least(a, b) == IF a < b THEN a ELSE b

(* Where the frames and the markers are in what was emitted.                *)
FramesAt == {k \in 1..Len(emitted) : emitted[k].elided = 0}
MarkersAt == (1..Len(emitted)) \ FramesAt

(* Which frames of the stack a walk of it should give, by -n and -N.        *)
Wanted ==
  LET n == Least(Len(stack), PHPSPY_MAX_STACK_WALK)
      leaf == opt_max_stack_depth_from_leaf
      root == opt_max_stack_depth_from_root
  IN IF root >= 0
     THEN {k \in 1..n : k <= leaf \/ k > n - root}
     ELSE {k \in 1..n : leaf = -1 \/ k <= leaf}

(* Every variable keeps its type, and neither list of frames outgrows       *)
(* PHPSPY_MAX_STACK_WALK, also if calls and returns in the middle of a walk *)
(* have bent the chain back on itself.                                      *)
TypeOK ==
  /\ stack \in Seq(Addr)
  /\ prev_execute_data \in [Addr -> Addr \cup {NULL}]
  /\ paused \in BOOLEAN
  /\ opt_max_stack_depth_from_leaf \in FromLeaf
  /\ opt_max_stack_depth_from_root \in FromRoot
  /\ pc \in {"start", "collect", "plan", "emit", "follow", "ok", "error"}
  /\ remote \in Addr \cup {NULL}
  /\ stack_ptrs \in Seq(Addr) /\ Len(stack_ptrs) <= PHPSPY_MAX_STACK_WALK
  /\ keep_outer_from \in Int /\ num_elided \in Int
  /\ i \in 0..PHPSPY_MAX_STACK_WALK
  /\ pc \in {"start", "collect", "plan"} => i = 0
  /\ pc = "start" => stack_ptrs = <<>>
  /\ pc = "emit" => i <= Len(stack_ptrs)

(* Every collected frame is emitted, in order, or else one marker stands    *)
(* between the leaf part and the root part, which have the lengths asked    *)
(* for and hold the first and the last frames that were collected, and it   *)
(* tells exactly how many are missing.                                      *)
NothingMissingUnmarked ==
  pc = "ok" /\ opt_max_stack_depth_from_root >= 0 =>
    LET root == opt_max_stack_depth_from_root
    IN \/ /\ MarkersAt = {} /\ Len(emitted) = total_depth
          /\ \A k \in FramesAt : emitted[k].addr = stack_ptrs[k]
       \/ /\ MarkersAt = {keep_inner + 1} /\ Len(emitted) = keep_inner + root + 1
          /\ emitted[keep_inner + 1].elided = total_depth - keep_inner - root
          /\ \A k \in 1..keep_inner : emitted[k].addr = stack_ptrs[k]
          /\ \A k \in 1..root :
               emitted[keep_inner + 1 + k].addr = stack_ptrs[total_depth - root + k]

(* The frames of a paused process are those of its stack, the ones that -n  *)
(* and -N keep, each with its depth and in order of depth, up to the walk   *)
(* limit and whatever the values of the two.                                *)
PausedExact ==
  pc = "ok" /\ paused =>
    /\ {<<emitted[k].depth, emitted[k].addr>> : k \in FramesAt} = {<<k - 1, stack[k]>> : k \in Wanted}
    /\ \A j, k \in FramesAt : j < k => emitted[j].depth < emitted[k].depth

(* A bound on the steps a walk has left. *)
StepsLeft ==
  CASE pc = "start"   -> 2 * PHPSPY_MAX_STACK_WALK + 4
    [] pc = "collect" -> 2 * PHPSPY_MAX_STACK_WALK + 3 - total_depth
    [] pc = "plan"    -> PHPSPY_MAX_STACK_WALK + 2
    [] pc = "emit"    -> total_depth + 1 - i
    [] pc = "follow"  -> PHPSPY_MAX_STACK_WALK + 1 - i
    [] OTHER          -> 0

(* A walk ends although the process goes on changing the stack under it:    *)
(* every step of it leaves fewer steps to do, whatever happens in between.  *)
WalkEnds == [][walk' = walk \/ StepsLeft' \in 0..(StepsLeft - 1)]_vars
============================================================================

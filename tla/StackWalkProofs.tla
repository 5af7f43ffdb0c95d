-------------------------- MODULE StackWalkProofs --------------------------
(* A walk of the stack is bounded and ends, for every walk limit, every     *)
(* value of -n and -N and every set of addresses, while the process calls   *)
(* and returns under it; what it leaves out is marked, and of a process     *)
(* that is paused it emits exactly what the options ask for.                *)
EXTENDS StackWalk, SequenceTheorems, TLAPS

(* Every step is for Zenon first and, if that does not find a proof soon,   *)
(* for the SMT solver.                                                      *)
USE ZenonT(5), SMTT(30)

(* The address of the leaf. *)
LEMMA LeafType ==
  ASSUME NEW s \in Seq(Addr)
  PROVE  Leaf(s) \in Addr \cup {NULL}
BY DEF Leaf

(* Either reading of an int expression is an integer. *)
LEMMA OutcomeType ==
  ASSUME NEW n \in Int, NEW m \in IntOutcomes(n)
  PROVE  m \in Int
<1>1. INT_MAX + 1 \in Nat \ {0} /\ 2 * (INT_MAX + 1) \in Nat \ {0}
  BY StackWalkAssumption
<1>2. \A x \in Int, d \in Nat \ {0} : x % d \in 0..(d - 1)
  OBVIOUS
<1>3. ((n + INT_MAX + 1) % (2 * (INT_MAX + 1))) \in Int
  <2> DEFINE x == n + INT_MAX + 1
             d == 2 * (INT_MAX + 1)
  <2>1. x \in Int /\ d \in Nat \ {0}
    BY <1>1, StackWalkAssumption
  <2> HIDE DEF x, d
  <2>2. x % d \in 0..(d - 1)
    BY <1>2, <2>1
  <2>3. x % d \in Int
    BY <2>1, <2>2
  <2> QED BY <2>3 DEF x, d
<1> QED BY <1>1, <1>3 DEF IntOutcomes

(* A process as it is found: its frames are linked in the order of the stack. *)
LEMMA FoundProcess == Init => stack \in Seq(Addr) /\ prev_execute_data \in [Addr -> Addr \cup {NULL}]
<1> SUFFICES ASSUME Init
             PROVE  stack \in Seq(Addr) /\ prev_execute_data \in [Addr -> Addr \cup {NULL}]
  OBVIOUS
<1>1. PICK m \in 0..Cardinality(Addr) : stack \in [1..m -> Addr] /\ IsInjective(stack)
  BY DEF Init, Injection
<1>2. m \in Nat
  BY <1>1
<1>3. stack \in Seq(Addr) /\ Len(stack) = m
  BY <1>1, <1>2
<1>4. ASSUME NEW a \in Addr, NEW j \in 1..(Len(stack) - 1), stack[j] = a
      PROVE  stack[(CHOOSE k \in 1..Len(stack) : stack[k] = a) + 1] \in Addr
  <2>1. j \in 1..Len(stack) /\ \A k \in 1..Len(stack) : stack[k] = a => k = j
    BY <1>1, <1>2, <1>3, <1>4 DEF IsInjective
  <2>2. (CHOOSE k \in 1..Len(stack) : stack[k] = a) = j
    BY <1>4, <2>1
  <2>3. j + 1 \in 1..m
    BY <1>2, <1>3
  <2> QED BY <1>1, <2>2, <2>3
<1> QED BY <1>3, <1>4 DEF Init

LEMMA InitType == Init => TypeOK
BY FoundProcess, StackWalkAssumption DEF Init, TypeOK

(* Appending a frame. *)
LEMMA Collected ==
  ASSUME NEW s \in Seq(Addr), NEW a \in Addr
  PROVE  Append(s, a) \in Seq(Addr) /\ Len(Append(s, a)) = Len(s) + 1
BY AppendProperties

(* Each step keeps the types and bounds. *)
LEMMA TypeStep ==
  ASSUME TypeOK, [Next]_vars
  PROVE  TypeOK'
<1> USE StackWalkAssumption DEF TypeOK, process, opts, walk
<1>1. CASE FunctionCall
  <2>1. PICK a \in Addr \ Range(stack) :
          /\ prev_execute_data' = [prev_execute_data EXCEPT ![a] = Leaf(stack)]
          /\ stack' = <<a>> \o stack
    BY <1>1 DEF FunctionCall
  <2>2. stack' \in Seq(Addr)
    BY <2>1, ConcatProperties
  <2>3. prev_execute_data' \in [Addr -> Addr \cup {NULL}]
    BY <2>1, LeafType
  <2> QED BY <1>1, <2>2, <2>3 DEF FunctionCall
<1>2. CASE FunctionReturn
  <2>1. stack' \in Seq(Addr)
    BY <1>2, HeadTailProperties DEF FunctionReturn
  <2> QED BY <1>2, <2>1 DEF FunctionReturn
<1>3. CASE CopyHead
  BY <1>3, LeafType DEF CopyHead
<1>4. CASE ReadError
  BY <1>4 DEF ReadError
<1>5. CASE Collect
  <2>1. CASE CollectMore
    <3>1. stack_ptrs' = Append(stack_ptrs, remote) /\ remote \in Addr
      BY <1>5, <2>1 DEF Collect, CollectMore
    <3>2. stack_ptrs' \in Seq(Addr) /\ Len(stack_ptrs') = Len(stack_ptrs) + 1
      BY <3>1, Collected
    <3>3. Len(stack_ptrs') <= PHPSPY_MAX_STACK_WALK
      BY <2>1, <3>2, LenProperties DEF CollectMore
    <3> QED BY <1>5, <2>1, <3>1, <3>2, <3>3 DEF Collect
  <2>2. CASE ~CollectMore
    BY <1>5, <2>2 DEF Collect
  <2> QED BY <2>1, <2>2
<1>6. CASE Plan
  <2>1. keep_inner \in Int /\ OuterFrom \in Int
    BY LenProperties DEF keep_inner, Max0, OuterFrom, total_depth
  <2>2. keep_outer_from' \in Int /\ num_elided' \in Int
    BY <1>6, <2>1, OutcomeType DEF Plan
  <2> QED BY <1>6, <2>2, LenProperties DEF Plan
<1>7. CASE EmitCollected
  <2>1. CASE i < Len(stack_ptrs)
    <3>1. i' = i + 1 /\ UNCHANGED <<process, opts, pc, remote, stack_ptrs, keep_outer_from, num_elided>>
      BY <1>7, <2>1 DEF EmitCollected, total_depth
    <3>2. i' \in 0..PHPSPY_MAX_STACK_WALK /\ i' <= Len(stack_ptrs)
      BY <2>1, <3>1, LenProperties
    <3> QED BY <1>7, <3>1, <3>2 DEF EmitCollected
  <2>2. CASE ~(i < Len(stack_ptrs))
    BY <1>7, <2>2 DEF EmitCollected, total_depth
  <2> QED BY <2>1, <2>2
<1>8. CASE EmitFollowed
  BY <1>8 DEF EmitFollowed, FollowMore
<1>9. CASE Done \/ UNCHANGED vars
  BY <1>9 DEF Done, vars
<1> QED BY <1>1, <1>2, <1>3, <1>4, <1>5, <1>6, <1>7, <1>8, <1>9 DEF Next

(* No list of frames outgrows the walk limit.                               *)
THEOREM WalkIsBounded == Spec => []TypeOK
<1> QED BY InitType, TypeStep, PTL DEF Spec

(* The bound on the steps left, by where the walk is. *)
LEMMA StepsByLabel ==
  LET M == PHPSPY_MAX_STACK_WALK
  IN /\ pc = "start" => StepsLeft = 2 * M + 4
     /\ pc = "collect" => StepsLeft = 2 * M + 3 - Len(stack_ptrs)
     /\ pc = "plan" => StepsLeft = M + 2
     /\ pc = "emit" => StepsLeft = Len(stack_ptrs) + 1 - i
     /\ pc = "follow" => StepsLeft = M + 1 - i
BY DEF StepsLeft, total_depth

(* The same after a step. *)
LEMMA StepsByLabelNext ==
  LET M == PHPSPY_MAX_STACK_WALK
  IN /\ pc' = "collect" => StepsLeft' = 2 * M + 3 - Len(stack_ptrs')
     /\ pc' = "plan" => StepsLeft' = M + 2
     /\ pc' = "emit" => StepsLeft' = Len(stack_ptrs') + 1 - i'
     /\ pc' = "follow" => StepsLeft' = M + 1 - i'
     /\ pc' \in {"ok", "error"} => StepsLeft' = 0
BY DEF StepsLeft, total_depth

(* trace_stack and stack_collect end although the stack changes under them: *)
(* each of their steps leaves fewer to do, and those of the process leave   *)
(* as many.                                                                 *)
THEOREM WalkTerminates == Spec => WalkEnds
<1> DEFINE Progress == walk' = walk \/ StepsLeft' \in 0..(StepsLeft - 1)
<1>1. TypeOK /\ [Next]_vars => [Progress]_vars
  <2> SUFFICES ASSUME TypeOK, Next PROVE Progress
    OBVIOUS
  <2> USE StackWalkAssumption, StepsByLabel, StepsByLabelNext
  <2>0. /\ Len(stack_ptrs) \in 0..PHPSPY_MAX_STACK_WALK /\ i \in 0..PHPSPY_MAX_STACK_WALK
        /\ PHPSPY_MAX_STACK_WALK \in Nat
        /\ pc = "emit" => i <= Len(stack_ptrs)
        /\ pc \in {"start", "collect", "plan"} => i = 0
        /\ pc = "start" => Len(stack_ptrs) = 0
    BY LenProperties DEF TypeOK
  <2>1. CASE FunctionCall \/ FunctionReturn \/ Done
    BY <2>1 DEF FunctionCall, FunctionReturn, Done, vars
  <2>2. CASE CopyHead
    <3>1. pc = "start" /\ pc' \in {"collect", "follow"} /\ i' = i /\ stack_ptrs' = stack_ptrs
      BY <2>2 DEF CopyHead
    <3> QED BY <2>0, <3>1
  <2>3. CASE ReadError
    <3>1. pc \in {"collect", "follow", "emit"} /\ pc' = "error"
      BY <2>3 DEF ReadError
    <3> QED BY <2>0, <3>1
  <2>4. CASE Collect
    <3>1. CASE CollectMore
      <4>1. stack_ptrs' = Append(stack_ptrs, remote) /\ remote \in Addr
        BY <2>4, <3>1 DEF Collect, CollectMore, TypeOK
      <4>2. Len(stack_ptrs') = Len(stack_ptrs) + 1
        BY <4>1, Collected DEF TypeOK
      <4>3. pc = "collect" /\ pc' = "collect"
        BY <2>4, <3>1 DEF Collect
      <4> QED BY <2>0, <4>2, <4>3
    <3>2. CASE ~CollectMore
      <4>1. pc = "collect" /\ pc' = "plan"
        BY <2>4, <3>2 DEF Collect
      <4> QED BY <2>0, <4>1
    <3> QED BY <3>1, <3>2
  <2>5. CASE Plan
    <3>1. pc = "plan" /\ pc' = "emit" /\ i' = i /\ stack_ptrs' = stack_ptrs
      BY <2>5 DEF Plan
    <3> QED BY <2>0, <3>1
  <2>6. CASE EmitCollected
    <3>1. /\ pc = "emit" /\ stack_ptrs' = stack_ptrs
          /\ (pc' = "emit" /\ i' = i + 1 /\ i < Len(stack_ptrs)) \/ pc' = "ok"
      BY <2>6 DEF EmitCollected, total_depth
    <3> QED BY <2>0, <3>1
  <2>7. CASE EmitFollowed
    <3>1. /\ pc = "follow"
          /\ (pc' = "follow" /\ i' = i + 1 /\ i < PHPSPY_MAX_STACK_WALK) \/ pc' = "ok"
      BY <2>7 DEF EmitFollowed, FollowMore
    <3> QED BY <2>0, <3>1
  <2> QED BY <2>1, <2>2, <2>3, <2>4, <2>5, <2>6, <2>7 DEF Next
<1> QED BY <1>1, WalkIsBounded, PTL DEF Spec, WalkEnds

----------------------------------------------------------------------------
(* What the plan of trace_stack decides: no frame is left out, or those     *)
(* from keep_inner to keep_outer_from are.                                  *)
AllKept ==
  /\ keep_inner + opt_max_stack_depth_from_root >= total_depth
  /\ keep_outer_from <= keep_inner
  /\ keep_inner < total_depth => num_elided <= 0
SomeLeftOut ==
  /\ keep_inner + opt_max_stack_depth_from_root < total_depth
  /\ keep_outer_from = total_depth - opt_max_stack_depth_from_root
  /\ num_elided = keep_outer_from - keep_inner

(* What one turn of a loop emits, and where it came from.                   *)
Event(a, n, d) == [addr |-> a, elided |-> n, depth |-> d]
Direct(n) == \A k \in 1..n : emitted[k] = Event(stack_ptrs[k], 0, k - 1)

(* What the loop over the collected frames has emitted before turn i.       *)
EmitInv ==
  \/ AllKept /\ Len(emitted) = i /\ Direct(i)
  \/ SomeLeftOut /\ i <= keep_inner /\ Len(emitted) = i /\ Direct(i)
  \/ /\ SomeLeftOut /\ i > keep_inner /\ Direct(keep_inner)
     /\ Len(emitted) = keep_inner + 1 + Max0(i - keep_outer_from)
     /\ emitted[keep_inner + 1] = Event(NULL, num_elided, keep_inner)
     /\ \A k \in 1..Max0(i - keep_outer_from) :
          emitted[keep_inner + 1 + k] = Event(stack_ptrs[keep_outer_from + k], 0, keep_outer_from + k - 1)

(* The k-th frame of the stack, and what the chain leads to from there.     *)
Nth(k) == IF k <= Len(stack) THEN stack[k] ELSE NULL
Reach == Least(Len(stack), PHPSPY_MAX_STACK_WALK)
Linked == \A k \in 1..Len(stack) : prev_execute_data[stack[k]] = Nth(k + 1)

(* What has been read of a paused process. *)
CollectInv ==
  /\ Len(stack_ptrs) <= Len(stack)
  /\ \A k \in 1..Len(stack_ptrs) : stack_ptrs[k] = stack[k]
FollowInv ==
  /\ i <= Len(stack) /\ Len(emitted) = i
  /\ \A k \in 1..i : emitted[k] = Event(stack[k], 0, k - 1)

Events == [addr : Addr \cup {NULL}, elided : Int, depth : Int]

WalkInv ==
  /\ emitted \in Seq(Events)
  /\ pc \in {"start", "collect", "plan"} => emitted = <<>>
  /\ pc \in {"collect", "plan", "emit"} => opt_max_stack_depth_from_root >= 0
  /\ pc = "follow" => opt_max_stack_depth_from_root < 0
  /\ pc = "emit" => EmitInv
  /\ pc = "ok" /\ opt_max_stack_depth_from_root >= 0 => EmitInv /\ i = total_depth

PausedInv ==
  paused =>
    /\ Linked
    /\ pc = "collect" => CollectInv /\ remote = Nth(Len(stack_ptrs) + 1)
    /\ pc \in {"plan", "emit"} \/ (pc = "ok" /\ opt_max_stack_depth_from_root >= 0) =>
         CollectInv /\ Len(stack_ptrs) = Reach
    /\ pc = "follow" =>
         /\ FollowInv /\ remote = Nth(i + 1)
         /\ opt_max_stack_depth_from_leaf = -1 \/ i <= opt_max_stack_depth_from_leaf
    /\ pc = "ok" /\ opt_max_stack_depth_from_root < 0 =>
         /\ FollowInv
         /\ opt_max_stack_depth_from_leaf = -1 => i = Reach
         /\ opt_max_stack_depth_from_leaf >= 0 => i = Least(Reach, opt_max_stack_depth_from_leaf)

(* Remainders of what is less than the divisor, or less than twice that.    *)
LEMMA ModOnce ==
  ASSUME NEW x \in Nat, NEW d \in Nat \ {0}
  PROVE  /\ x < d => x % d = x
         /\ d <= x /\ x < 2 * d => x % d = x - d
<1>1. ASSUME x < d PROVE x % d = x
  BY <1>1
<1>2. ASSUME d <= x, x < 2 * d PROVE x % d = x - d
  BY <1>2
<1> QED BY <1>1, <1>2

(* An int expression that does not overflow is exact, and a sum that does   *)
(* may come out below zero.                                                 *)
LEMMA IntInRange ==
  ASSUME NEW n \in Int, -(INT_MAX + 1) <= n, n <= INT_MAX, NEW m \in IntOutcomes(n)
  PROVE  m = n
<1> DEFINE d == 2 * (INT_MAX + 1)
           x == n + INT_MAX + 1
<1>1. INT_MAX \in Nat /\ d \in Nat \ {0} /\ x \in Nat /\ x < d
  BY StackWalkAssumption
<1>2. m = n \/ m = (x % d) - (INT_MAX + 1)
  BY DEF IntOutcomes
<1> HIDE DEF d, x
<1>3. x % d = x
  BY <1>1, ModOnce
<1> QED BY <1>1, <1>2, <1>3 DEF x

LEMMA IntOverflow ==
  ASSUME NEW n \in Nat, INT_MAX < n, n <= 2 * INT_MAX, NEW m \in IntOutcomes(n)
  PROVE  m = n \/ m < 0
<1> DEFINE d == 2 * (INT_MAX + 1)
           x == n + INT_MAX + 1
<1>1. INT_MAX \in Nat /\ d \in Nat \ {0} /\ x \in Nat /\ d <= x /\ x < 2 * d
  BY StackWalkAssumption
<1>2. m = n \/ m = (x % d) - (INT_MAX + 1)
  BY DEF IntOutcomes
<1> HIDE DEF d, x
<1>3. x % d = x - d
  BY <1>1, ModOnce
<1>4. x - d - (INT_MAX + 1) < 0
  BY <1>1 DEF x, d
<1> QED BY <1>2, <1>3, <1>4

(* The integers a walk computes with. *)
LEMMA WalkNumbers ==
  ASSUME TypeOK
  PROVE  /\ INT_MAX \in Nat /\ PHPSPY_MAX_STACK_WALK \in 1..INT_MAX
         /\ total_depth \in 0..PHPSPY_MAX_STACK_WALK
         /\ keep_inner \in 0..INT_MAX
         /\ opt_max_stack_depth_from_leaf \in -1..INT_MAX
         /\ opt_max_stack_depth_from_root \in -1..INT_MAX
         /\ keep_outer_from \in Int /\ num_elided \in Int /\ i \in 0..PHPSPY_MAX_STACK_WALK
BY StackWalkAssumption, LenProperties DEF TypeOK, total_depth, keep_inner, Max0

(* The plan is right although its sums may overflow: if keep_inner is       *)
(* reached at all, num_elided is exact.                                     *)
LEMMA PlanIsRight ==
  ASSUME TypeOK, Plan, opt_max_stack_depth_from_root >= 0
  PROVE  AllKept' \/ SomeLeftOut'
<1> DEFINE K == keep_inner
           R == opt_max_stack_depth_from_root
           T == total_depth
<1>1. /\ INT_MAX \in Nat /\ T \in 0..INT_MAX /\ K \in 0..INT_MAX /\ R \in 0..INT_MAX
  BY WalkNumbers
<1>2. keep_inner' = K /\ opt_max_stack_depth_from_root' = R /\ total_depth' = T
  BY DEF Plan, opts, keep_inner, total_depth, Max0
<1>3. PICK sum \in IntOutcomes(K + R) :
        IF sum >= T
        THEN keep_outer_from' = K /\ num_elided' = 0
        ELSE keep_outer_from' = T - R /\ num_elided' \in IntOutcomes(T - R - K)
  BY DEF Plan, OuterFrom
<1> HIDE DEF K, R, T
<1>4. sum = K + R \/ (sum < 0 /\ K + R > INT_MAX)
  <2>1. CASE K + R <= INT_MAX
    BY <1>1, <2>1, IntInRange
  <2>2. CASE K + R > INT_MAX
    BY <1>1, <2>2, IntOverflow
  <2> QED BY <1>1, <2>1, <2>2
<1>5. CASE sum >= T
  <2>1. K + R >= T
    BY <1>1, <1>4, <1>5
  <2>2. AllKept'
    BY <1>1, <1>2, <1>3, <1>5, <2>1 DEF AllKept
  <2> QED BY <2>2
<1>6. CASE ~(sum >= T) /\ K + R < T
  <2>1. num_elided' = T - R - K
    BY <1>1, <1>3, <1>6, IntInRange
  <2>2. SomeLeftOut'
    BY <1>1, <1>2, <1>3, <1>6, <2>1 DEF SomeLeftOut
  <2> QED BY <2>2
<1>7. CASE ~(sum >= T) /\ K + R >= T
  <2>1. K < T => num_elided' = T - R - K
    BY <1>1, <1>3, <1>7, IntInRange
  <2>2. T - R <= K
    BY <1>1, <1>7
  <2>3. K < T => num_elided' <= 0
    BY <1>1, <2>1, <2>2
  <2>4. AllKept'
    BY <1>1, <1>2, <1>3, <1>7, <2>2, <2>3 DEF AllKept
  <2> QED BY <2>4
<1> QED BY <1>1, <1>5, <1>6, <1>7

(* Appending an event. *)
LEMMA Emitted ==
  ASSUME NEW s \in Seq(Events), NEW e \in Events
  PROVE  /\ Append(s, e) \in Seq(Events)
         /\ Len(Append(s, e)) = Len(s) + 1 /\ Len(s) \in Nat
         /\ \A k \in 1..Len(s) : Append(s, e)[k] = s[k]
         /\ Append(s, e)[Len(s) + 1] = e
BY AppendProperties, LenProperties

LEMMA NoneOrOne ==
  ASSUME NEW s \in Seq(Events), NEW e \in Events
  PROVE  /\ s \o <<>> \o <<>> = s
         /\ s \o <<e>> \o <<>> = Append(s, e)
         /\ s \o <<>> \o <<e>> = Append(s, e)
<1>1. s \o <<e>> = Append(s, e) /\ Append(s, e) \in Seq(Events)
  BY AppendIsConcat, AppendProperties
<1>2. \A u \in Seq(Events) : u \o <<>> = u
  BY ConcatEmptySeq
<1> QED BY <1>1, <1>2

(* One turn of the loop over the collected frames. *)
LEMMA EmitTurn ==
  ASSUME TypeOK, emitted \in Seq(Events), EmitInv, EmitCollected, i < total_depth
  PROVE  emitted' \in Seq(Events) /\ EmitInv'
<1> DEFINE K == keep_inner
           F == keep_outer_from
           E == num_elided
           R == opt_max_stack_depth_from_root
           T == total_depth
<1>1. /\ T \in Nat /\ K \in Nat /\ F \in Int /\ E \in Int /\ R \in Int /\ i \in 0..(T - 1)
  BY WalkNumbers
<1>2. /\ keep_inner' = K /\ opt_max_stack_depth_from_root' = R /\ total_depth' = T
      /\ keep_outer_from' = F /\ num_elided' = E /\ i' = i + 1 /\ stack_ptrs' = stack_ptrs
  BY DEF EmitCollected, opts, keep_inner, total_depth, Max0
<1>3. stack_ptrs[i + 1] \in Addr
  BY <1>1 DEF TypeOK, total_depth
<1>4. Frame(stack_ptrs[i + 1]) = Event(stack_ptrs[i + 1], 0, i) /\ Event(stack_ptrs[i + 1], 0, i) \in Events
  BY <1>1, <1>3 DEF Frame, Event, Events
<1>5. Marker = Event(NULL, E, i) /\ Event(NULL, E, i) \in Events
  BY <1>1 DEF Marker, Event, Events
<1>6. emitted' = emitted \o (IF Marks THEN <<Marker>> ELSE <<>>)
                         \o (IF LeftOut THEN <<>> ELSE <<Frame(stack_ptrs[i + 1])>>)
  BY DEF EmitCollected
<1>7. /\ (Marks <=> i = K /\ E > 0) /\ (LeftOut <=> i >= K /\ i < F)
  BY DEF Marks, LeftOut
<1>8. ASSUME ~Marks, ~LeftOut
      PROVE  /\ emitted' \in Seq(Events) /\ Len(emitted') = Len(emitted) + 1 /\ Len(emitted) \in Nat
             /\ \A k \in 1..Len(emitted) : emitted'[k] = emitted[k]
             /\ emitted'[Len(emitted) + 1] = Event(stack_ptrs[i + 1], 0, i)
  <2>1. emitted' = Append(emitted, Event(stack_ptrs[i + 1], 0, i))
    BY <1>4, <1>6, <1>8, NoneOrOne
  <2> QED BY <1>4, <2>1, Emitted
<1>9. CASE AllKept /\ Len(emitted) = i /\ Direct(i)
  <2>1. ~Marks /\ ~LeftOut
    BY <1>1, <1>7, <1>9 DEF AllKept
  <2>2. AllKept'
    BY <1>2, <1>9 DEF AllKept
  <2>3. Len(emitted') = i' /\ Direct(i)'
    <3>1. Len(emitted') = i + 1 /\ \A k \in 1..(i + 1) : emitted'[k] = Event(stack_ptrs[k], 0, k - 1)
      BY <1>1, <1>8, <1>9, <2>1 DEF Direct
    <3> QED BY <1>2, <3>1 DEF Direct, Event
  <2> QED BY <1>2, <1>8, <2>1, <2>2, <2>3 DEF EmitInv
<1>10. CASE SomeLeftOut /\ i <= K /\ Len(emitted) = i /\ Direct(i)
  <2>1. SomeLeftOut' /\ F > K /\ E > 0
    BY <1>1, <1>2, <1>10 DEF SomeLeftOut
  <2>2. CASE i < K
    <3>1. ~Marks /\ ~LeftOut
      BY <1>1, <1>7, <2>2
    <3>2. Len(emitted') = i' /\ Direct(i)'
      <4>1. Len(emitted') = i + 1 /\ \A k \in 1..(i + 1) : emitted'[k] = Event(stack_ptrs[k], 0, k - 1)
        BY <1>1, <1>8, <1>10, <3>1 DEF Direct
      <4> QED BY <1>2, <4>1 DEF Direct, Event
    <3>3. i' <= keep_inner'
      BY <1>1, <1>2, <2>2
    <3> QED BY <1>2, <1>8, <2>1, <3>1, <3>2, <3>3 DEF EmitInv
  <2>3. CASE i = K
    <3>1. emitted' = Append(emitted, Event(NULL, E, i))
      <4>1. Marks /\ LeftOut
        BY <1>1, <1>7, <2>1, <2>3
      <4>2. emitted' = emitted \o <<Event(NULL, E, i)>> \o <<>>
        BY <1>5, <1>6, <4>1
      <4> QED BY <1>5, <4>2, NoneOrOne
    <3>2. /\ emitted' \in Seq(Events) /\ Len(emitted') = K + 1
          /\ \A k \in 1..K : emitted'[k] = emitted[k]
          /\ emitted'[K + 1] = Event(NULL, E, K)
      BY <1>5, <1>10, <2>3, <3>1, Emitted
    <3>3. Max0(i' - keep_outer_from') = 0
      BY <1>1, <1>2, <2>1, <2>3 DEF Max0
    <3>4. Direct(keep_inner)'
      BY <1>2, <1>10, <2>3, <3>2 DEF Direct
    <3>5. /\ Len(emitted') = keep_inner' + 1 + Max0(i' - keep_outer_from')
          /\ i' > keep_inner'
      BY <1>1, <1>2, <2>3, <3>2, <3>3
    <3>6. emitted'[keep_inner' + 1] = Event(NULL, num_elided', keep_inner')
      BY <1>2, <3>2
    <3>7. \A k \in 1..Max0(i' - keep_outer_from') :
            emitted'[keep_inner' + 1 + k] = Event(stack_ptrs'[keep_outer_from' + k], 0, keep_outer_from' + k - 1)
      BY <3>3
    <3> QED BY <2>1, <3>2, <3>4, <3>5, <3>6, <3>7 DEF EmitInv, Max0, Event
  <2> QED BY <1>1, <1>10, <2>2, <2>3
<1>11. CASE /\ SomeLeftOut /\ i > K /\ Direct(K)
            /\ Len(emitted) = K + 1 + Max0(i - F)
            /\ emitted[K + 1] = Event(NULL, E, K)
            /\ \A k \in 1..Max0(i - F) :
                 emitted[K + 1 + k] = Event(stack_ptrs[F + k], 0, F + k - 1)
  <2>1. SomeLeftOut' /\ i' > keep_inner'
    BY <1>1, <1>2, <1>11 DEF SomeLeftOut
  <2>2. CASE i < F
    <3>1. emitted' = emitted
      <4>1. ~Marks /\ LeftOut
        BY <1>1, <1>7, <1>11, <2>2
      <4>2. emitted' = emitted \o <<>> \o <<>>
        BY <1>6, <4>1
      <4> QED BY <1>4, <4>2, NoneOrOne
    <3>2. Max0(i - F) = 0 /\ Max0(i' - F) = 0
      BY <1>1, <1>2, <2>2 DEF Max0
    <3>3. Direct(keep_inner)' /\ Len(emitted') = keep_inner' + 1 + Max0(i' - keep_outer_from')
      BY <1>2, <1>11, <3>1, <3>2 DEF Direct
    <3>4. emitted'[keep_inner' + 1] = Event(NULL, num_elided', keep_inner')
      BY <1>2, <1>11, <3>1
    <3>5. \A k \in 1..Max0(i' - keep_outer_from') :
            emitted'[keep_inner' + 1 + k] = Event(stack_ptrs'[keep_outer_from' + k], 0, keep_outer_from' + k - 1)
      BY <1>2, <3>2
    <3> QED BY <2>1, <3>1, <3>3, <3>4, <3>5 DEF EmitInv, Max0, Event
  <2>3. CASE i >= F
    <3>1. ~Marks /\ ~LeftOut
      BY <1>1, <1>7, <1>11, <2>3
    <3>2. Max0(i - F) = i - F /\ Max0(i' - F) = i + 1 - F /\ i - F \in Nat
      BY <1>1, <1>2, <2>3 DEF Max0
    <3>3. Direct(keep_inner)' /\ Len(emitted') = keep_inner' + 1 + Max0(i' - keep_outer_from')
      <4> HIDE DEF K, F
      <4>0. Len(emitted) = K + 1 + (i - F)
        BY <1>11, <3>2
      <4>1. \A k \in 1..K : emitted'[k] = emitted[k]
        BY <1>1, <1>8, <3>1, <3>2, <4>0
      <4>2. Len(emitted') = K + 1 + (i + 1 - F)
        BY <1>1, <1>8, <3>1, <3>2, <4>0
      <4> USE DEF K, F
      <4> QED BY <1>2, <1>11, <3>2, <4>1, <4>2 DEF Direct, Event
    <3>4. emitted'[keep_inner' + 1] = Event(NULL, num_elided', keep_inner')
      BY <1>1, <1>2, <1>8, <1>11, <3>1, <3>2
    <3>5. ASSUME NEW k \in 1..Max0(i' - keep_outer_from')
          PROVE  emitted'[keep_inner' + 1 + k] = Event(stack_ptrs'[keep_outer_from' + k], 0, keep_outer_from' + k - 1)
      <4>1. k \in 1..(i + 1 - F) /\ k \in Int
        BY <1>1, <1>2, <3>2
      <4>2. CASE k <= i - F
        <5>1. K + 1 + k \in 1..Len(emitted)
          BY <1>1, <1>11, <3>2, <4>1, <4>2
        <5>2. k \in 1..Max0(i - F)
          BY <3>2, <4>1, <4>2
        <5>3. emitted'[K + 1 + k] = Event(stack_ptrs[F + k], 0, F + k - 1)
          BY <1>8, <1>11, <3>1, <5>1, <5>2
        <5> QED BY <1>2, <5>3
      <4>3. CASE k = i + 1 - F
        <5>1. K + 1 + k = Len(emitted) + 1 /\ F + k = i + 1 /\ F + k - 1 = i
          BY <1>1, <1>11, <3>2, <4>1, <4>3
        <5>2. emitted'[K + 1 + k] = Event(stack_ptrs[F + k], 0, F + k - 1)
          BY <1>8, <3>1, <5>1
        <5> QED BY <1>2, <5>2
      <4> QED BY <1>1, <4>1, <4>2, <4>3
    <3> QED BY <1>8, <2>1, <3>1, <3>3, <3>4, <3>5 DEF EmitInv, Max0, Event
  <2> QED BY <1>1, <2>2, <2>3
<1> QED BY <1>9, <1>10, <1>11 DEF EmitInv

(* Only what the loop over the collected frames uses matters to EmitInv.    *)
LEMMA EmitFramed ==
  ASSUME EmitInv, UNCHANGED <<opts, stack_ptrs, keep_outer_from, num_elided, i, emitted>>
  PROVE  EmitInv'
BY DEF EmitInv, AllKept, SomeLeftOut, Direct, Event, keep_inner, total_depth, Max0, opts

(* What a walk has emitted, while the process may be running. *)
LEMMA WalkStep ==
  ASSUME TypeOK, WalkInv, [Next]_vars
  PROVE  WalkInv'
<1> USE DEF process, opts
<1>1. CASE UNCHANGED <<opts, walk>>
  <2>1. EmitInv => EmitInv'
    BY <1>1, EmitFramed DEF walk
  <2>2. UNCHANGED <<opt_max_stack_depth_from_root, pc, emitted, i, total_depth>>
    BY <1>1 DEF walk, total_depth
  <2> QED BY <2>1, <2>2 DEF WalkInv
<1>2. CASE CopyHead
  <2>1. /\ pc = "start" /\ emitted' = emitted
        /\ opt_max_stack_depth_from_root' = opt_max_stack_depth_from_root
        /\ pc' = IF opt_max_stack_depth_from_root >= 0 THEN "collect" ELSE "follow"
    BY <1>2 DEF CopyHead
  <2> QED BY <2>1, WalkNumbers DEF WalkInv
<1>3. CASE ReadError
  BY <1>3 DEF ReadError, WalkInv
<1>4. CASE Collect
  <2>1. /\ pc = "collect" /\ pc' \in {"collect", "plan"} /\ emitted' = emitted
        /\ opt_max_stack_depth_from_root' = opt_max_stack_depth_from_root
    BY <1>4 DEF Collect
  <2> QED BY <2>1 DEF WalkInv
<1>5. CASE Plan
  <2>1. /\ pc = "plan" /\ pc' = "emit" /\ emitted' = emitted /\ i' = i
        /\ opt_max_stack_depth_from_root' = opt_max_stack_depth_from_root
    BY <1>5 DEF Plan
  <2>2. emitted' = <<>> /\ i' = 0 /\ opt_max_stack_depth_from_root >= 0
    BY <2>1 DEF WalkInv, TypeOK
  <2>3. AllKept' \/ SomeLeftOut'
    BY <1>5, <2>2, PlanIsRight
  <2>4. Len(emitted') = i' /\ Direct(i)' /\ i' <= keep_inner'
    <3>1. keep_inner' = keep_inner
      BY <1>5 DEF Plan, keep_inner, Max0
    <3> QED BY <2>2, <3>1, WalkNumbers DEF Direct
  <2> QED BY <2>1, <2>2, <2>3, <2>4 DEF WalkInv, EmitInv
<1>6. CASE EmitCollected
  <2>1. pc = "emit" /\ EmitInv /\ opt_max_stack_depth_from_root' = opt_max_stack_depth_from_root
    BY <1>6 DEF EmitCollected, WalkInv
  <2>2. CASE i < total_depth
    <3>1. pc' = "emit"
      BY <1>6, <2>1, <2>2 DEF EmitCollected
    <3>2. emitted' \in Seq(Events) /\ EmitInv'
      BY <1>6, <2>1, <2>2, EmitTurn DEF WalkInv
    <3> QED BY <2>1, <3>1, <3>2 DEF WalkInv
  <2>3. CASE ~(i < total_depth)
    <3>1. /\ pc' = "ok" /\ UNCHANGED <<opts, stack_ptrs, keep_outer_from, num_elided, i, emitted>>
      BY <1>6, <2>3 DEF EmitCollected
    <3>2. i' = total_depth'
      BY <2>1, <2>3, <3>1, WalkNumbers DEF TypeOK, total_depth
    <3>3. EmitInv'
      BY <2>1, <3>1, EmitFramed
    <3> QED BY <2>1, <3>1, <3>2, <3>3 DEF WalkInv
  <2> QED BY <2>2, <2>3
<1>7. CASE EmitFollowed
  <2>1. /\ pc = "follow" /\ pc' \in {"follow", "ok"}
        /\ opt_max_stack_depth_from_root' = opt_max_stack_depth_from_root
    BY <1>7 DEF EmitFollowed
  <2>2. opt_max_stack_depth_from_root < 0
    BY <2>1 DEF WalkInv
  <2>3. emitted' \in Seq(Events)
    <3>1. CASE FollowMore
      <4>1. remote \in Addr /\ emitted' = Append(emitted, Frame(remote))
        BY <1>7, <3>1 DEF EmitFollowed, FollowMore, TypeOK
      <4>2. Frame(remote) \in Events
        BY <4>1, WalkNumbers DEF Frame, Events
      <4> QED BY <4>1, <4>2, Emitted DEF WalkInv
    <3>2. CASE ~FollowMore
      BY <1>7, <3>2 DEF EmitFollowed, WalkInv
    <3> QED BY <3>1, <3>2
  <2>4. ~(opt_max_stack_depth_from_root >= 0)
    BY <2>2, WalkNumbers
  <2> QED BY <2>1, <2>2, <2>3, <2>4 DEF WalkInv
<1>8. CASE FunctionCall \/ FunctionReturn \/ Done \/ UNCHANGED vars
  BY <1>1, <1>8 DEF FunctionCall, FunctionReturn, Done, vars
<1> QED BY <1>2, <1>3, <1>4, <1>5, <1>6, <1>7, <1>8 DEF Next

LEMMA InitWalk == Init => WalkInv
BY DEF Init, WalkInv

(* What is emitted at the end, by the plan. *)
LEMMA EmittedAtEnd ==
  ASSUME TypeOK, emitted \in Seq(Events), EmitInv, i = total_depth, opt_max_stack_depth_from_root >= 0
  PROVE  \/ /\ MarkersAt = {} /\ Len(emitted) = total_depth /\ Direct(total_depth)
            /\ keep_inner + opt_max_stack_depth_from_root >= total_depth
         \/ /\ MarkersAt = {keep_inner + 1} /\ Len(emitted) = keep_inner + opt_max_stack_depth_from_root + 1
            /\ keep_inner + opt_max_stack_depth_from_root < total_depth
            /\ Direct(keep_inner)
            /\ emitted[keep_inner + 1].elided = total_depth - keep_inner - opt_max_stack_depth_from_root
            /\ \A k \in 1..opt_max_stack_depth_from_root :
                 emitted[keep_inner + 1 + k] =
                   Event(stack_ptrs[total_depth - opt_max_stack_depth_from_root + k], 0,
                         total_depth - opt_max_stack_depth_from_root + k - 1)
<1> DEFINE K == keep_inner
           R == opt_max_stack_depth_from_root
           T == total_depth
<1>1. T \in Nat /\ K \in Nat /\ R \in Nat /\ i = T
  BY WalkNumbers
<1>2. \A a, n, d : Event(a, n, d).elided = n
  BY DEF Event
<1>3. CASE Len(emitted) = i /\ Direct(i) /\ K + R >= T
  <2>1. \A k \in 1..Len(emitted) : emitted[k].elided = 0
    BY <1>1, <1>2, <1>3 DEF Direct
  <2> QED BY <1>1, <1>3, <2>1 DEF MarkersAt, FramesAt
<1>4. CASE /\ SomeLeftOut /\ i > K /\ Direct(K)
           /\ Len(emitted) = K + 1 + Max0(i - keep_outer_from)
           /\ emitted[K + 1] = Event(NULL, num_elided, K)
           /\ \A k \in 1..Max0(i - keep_outer_from) :
                emitted[K + 1 + k] = Event(stack_ptrs[keep_outer_from + k], 0, keep_outer_from + k - 1)
  <2>1. K + R < T /\ keep_outer_from = T - R /\ num_elided = T - R - K
    BY <1>4 DEF SomeLeftOut
  <2>2. Max0(i - keep_outer_from) = R
    BY <1>1, <2>1 DEF Max0
  <2>3. \A k \in 1..R : emitted[K + 1 + k] = Event(stack_ptrs[T - R + k], 0, T - R + k - 1)
    BY <1>4, <2>1, <2>2
  <2> HIDE DEF K, R, T
  <2>4. Len(emitted) = K + R + 1
    BY <1>1, <1>4, <2>2
  <2>5. emitted[K + 1].elided = T - K - R /\ T - K - R # 0
    BY <1>1, <1>2, <1>4, <2>1
  <2>6. ASSUME NEW k \in 1..(K + R + 1), k # K + 1
        PROVE  emitted[k].elided = 0
    <3>1. CASE k <= K
      BY <1>1, <1>2, <1>4, <3>1 DEF Direct
    <3>2. CASE k > K + 1
      <4>1. k - K - 1 \in 1..R /\ K + 1 + (k - K - 1) = k
        BY <1>1, <2>6, <3>2
      <4> QED BY <1>2, <2>3, <4>1
    <3> QED BY <1>1, <2>6, <3>1, <3>2
  <2>7. MarkersAt = {K + 1}
    BY <1>1, <2>4, <2>5, <2>6 DEF MarkersAt, FramesAt
  <2> USE DEF K, R, T
  <2> QED BY <1>1, <1>4, <2>1, <2>3, <2>4, <2>5, <2>7
<1>5. CASE SomeLeftOut /\ i <= K
  BY <1>1, <1>5 DEF SomeLeftOut
<1>6. CASE AllKept /\ Len(emitted) = i /\ Direct(i)
  BY <1>3, <1>6 DEF AllKept
<1> QED BY <1>4, <1>5, <1>6 DEF EmitInv

(* trace_stack with -N: no collected frame is missing without a marker that *)
(* counts it, for all values of -n and -N, also where their sums overflow,  *)
(* and whatever the process does in the meantime.                           *)
THEOREM GapsAreMarked == Spec => []NothingMissingUnmarked
<1>1. TypeOK /\ WalkInv => NothingMissingUnmarked
  <2> SUFFICES ASSUME TypeOK, WalkInv, pc = "ok", opt_max_stack_depth_from_root >= 0
               PROVE  NothingMissingUnmarked
    BY DEF NothingMissingUnmarked
  <2>1. emitted \in Seq(Events) /\ EmitInv /\ i = total_depth
    BY DEF WalkInv
  <2>2. \A a, n, d : Event(a, n, d).addr = a
    BY DEF Event
  <2> QED BY <2>1, <2>2, EmittedAtEnd DEF NothingMissingUnmarked, Direct, FramesAt
<1>2. TypeOK /\ WalkInv /\ [Next]_vars => WalkInv'
  BY WalkStep
<1> QED BY <1>1, <1>2, InitWalk, WalkIsBounded, PTL DEF Spec

(* The chain of a process as it is found follows its stack. *)
LEMMA InitPaused == Init => PausedInv
<1> SUFFICES ASSUME Init PROVE Linked
  BY DEF Init, PausedInv
<1>1. PICK m \in 0..Cardinality(Addr) : stack \in [1..m -> Addr] /\ IsInjective(stack)
  BY DEF Init, Injection
<1>2. m \in Nat /\ stack \in Seq(Addr) /\ Len(stack) = m
  BY <1>1
<1>3. ASSUME NEW k \in 1..m
      PROVE  prev_execute_data[stack[k]] = Nth(k + 1)
  <2>1. stack[k] \in Addr /\ \A j \in 1..m : stack[j] = stack[k] => j = k
    BY <1>1 DEF IsInjective
  <2>2. prev_execute_data[stack[k]] =
          IF \E j \in 1..(m - 1) : stack[j] = stack[k]
          THEN stack[(CHOOSE j \in 1..m : stack[j] = stack[k]) + 1] ELSE NULL
    BY <1>2, <2>1 DEF Init
  <2>3. CASE k < m
    <3>1. k \in 1..(m - 1) /\ (CHOOSE j \in 1..m : stack[j] = stack[k]) = k
      BY <1>2, <2>1, <2>3
    <3>2. prev_execute_data[stack[k]] = stack[k + 1]
      BY <2>2, <3>1
    <3> QED BY <1>2, <2>3, <3>2 DEF Nth
  <2>4. CASE k = m
    <3>1. ~\E j \in 1..(m - 1) : stack[j] = stack[k]
      BY <1>2, <2>1, <2>4
    <3> QED BY <1>2, <2>2, <2>4, <3>1 DEF Nth
  <2> QED BY <1>2, <2>3, <2>4
<1> QED BY <1>2, <1>3 DEF Linked

(* One step along the chain of a paused process. *)
LEMMA NextInChain ==
  ASSUME TypeOK, Linked, NEW n \in Nat, remote = Nth(n + 1), remote # NULL, n <= Len(stack)
  PROVE  /\ n + 1 <= Len(stack) /\ remote = stack[n + 1] /\ remote \in Addr
         /\ prev_execute_data[remote] = Nth(n + 2)
<1>1. Len(stack) \in Nat
  BY LenProperties DEF TypeOK
<1>2. n + 1 <= Len(stack) /\ remote = stack[n + 1]
  BY DEF Nth
<1>3. n + 1 \in 1..Len(stack)
  BY <1>1, <1>2
<1>4. prev_execute_data[stack[n + 1]] = Nth((n + 1) + 1)
  BY <1>3 DEF Linked
<1>5. (n + 1) + 1 = n + 2
  OBVIOUS
<1>6. remote \in Addr
  BY DEF TypeOK
<1> QED BY <1>2, <1>4, <1>5, <1>6

(* What is read of a paused process is its stack. *)
LEMMA PausedStep ==
  ASSUME TypeOK, WalkInv, PausedInv, [Next]_vars
  PROVE  PausedInv'
<1> SUFFICES ASSUME paused' PROVE PausedInv'
  BY DEF PausedInv
<1> USE DEF process, opts
<1> DEFINE R == opt_max_stack_depth_from_root
           L == opt_max_stack_depth_from_leaf
           M == PHPSPY_MAX_STACK_WALK
<1>0. /\ Len(stack) \in Nat /\ Len(stack_ptrs) \in Nat /\ M \in Nat \ {0} /\ i \in Nat
      /\ R \in Int /\ L \in Int /\ L >= -1
  BY WalkNumbers, LenProperties DEF TypeOK
<1>1. ASSUME UNCHANGED <<process, opts, walk>> PROVE PausedInv'
  BY <1>1 DEF walk, PausedInv, Linked, Nth, CollectInv, FollowInv, Event, Least, Reach
<1>2. ASSUME UNCHANGED <<process, opts>>, paused
      PROVE  Linked' /\ Linked /\ (\A k : Nth(k)' = Nth(k)) /\ UNCHANGED <<stack, R, L>>
  BY <1>2 DEF PausedInv, Linked, Nth
<1>3. CASE FunctionCall \/ FunctionReturn
  BY <1>3 DEF FunctionCall, FunctionReturn, Runs
<1>4. CASE CopyHead
  <2>1. /\ pc = "start" /\ paused /\ UNCHANGED <<process, opts>> /\ i' = 0 /\ emitted' = <<>>
        /\ stack_ptrs' = <<>> /\ remote' = Leaf(stack)
        /\ pc' = IF R >= 0 THEN "collect" ELSE "follow"
    BY <1>4 DEF CopyHead, WalkInv, TypeOK
  <2>2. Leaf(stack) = Nth(1)
    BY <1>0, EmptySeq DEF Leaf, Nth, TypeOK
  <2>3. remote' = Nth(1)'
    BY <1>2, <2>1, <2>2
  <2>4. CollectInv' /\ remote' = Nth(Len(stack_ptrs) + 1)'
    BY <1>0, <1>2, <2>1, <2>3 DEF CollectInv, Nth
  <2>5. FollowInv' /\ remote' = Nth(i + 1)' /\ (L' = -1 \/ i' <= L')
    BY <1>0, <1>2, <2>1, <2>3 DEF FollowInv, Nth
  <2> QED BY <1>2, <2>1, <2>4, <2>5 DEF PausedInv
<1>5. CASE ReadError
  BY <1>2, <1>5 DEF ReadError, PausedInv
<1>6. CASE Collect
  <2>1. /\ pc = "collect" /\ paused /\ UNCHANGED <<process, opts>>
        /\ CollectInv /\ remote = Nth(Len(stack_ptrs) + 1)
    BY <1>6 DEF Collect, PausedInv
  <2>2. CASE CollectMore
    <3>1. /\ stack_ptrs' = Append(stack_ptrs, remote) /\ remote' = prev_execute_data[remote]
          /\ pc' = "collect" /\ remote # NULL
      BY <1>6, <2>2 DEF Collect, CollectMore
    <3>2. /\ Len(stack_ptrs) + 1 <= Len(stack) /\ remote = stack[Len(stack_ptrs) + 1]
          /\ remote \in Addr /\ remote' = Nth(Len(stack_ptrs) + 2)
      BY <1>0, <1>2, <2>1, <3>1, NextInChain DEF CollectInv
    <3>3. /\ Len(stack_ptrs') = Len(stack_ptrs) + 1
          /\ \A k \in 1..Len(stack_ptrs) : stack_ptrs'[k] = stack_ptrs[k]
          /\ stack_ptrs'[Len(stack_ptrs) + 1] = remote
      BY <3>1, <3>2, AppendProperties DEF TypeOK
    <3>4. CollectInv'
      BY <1>0, <2>1, <3>2, <3>3 DEF CollectInv
    <3>5. remote' = Nth(Len(stack_ptrs) + 1)'
      BY <1>0, <1>2, <2>1, <3>2, <3>3 DEF Nth
    <3> QED BY <1>2, <2>1, <3>1, <3>4, <3>5 DEF PausedInv
  <2>3. CASE ~CollectMore
    <3>1. pc' = "plan" /\ UNCHANGED <<stack_ptrs, remote>>
      BY <1>6, <2>3 DEF Collect
    <3>2. Len(stack_ptrs) = Reach
      <4>1. CASE remote = NULL
        <5>1. ~(Len(stack_ptrs) + 1 <= Len(stack))
          <6>1. ASSUME Len(stack_ptrs) + 1 <= Len(stack) PROVE FALSE
            <7>1. Len(stack_ptrs) + 1 \in 1..Len(stack)
              BY <1>0, <6>1
            <7>2. remote \in Addr
              BY <2>1, <6>1, <7>1 DEF Nth, TypeOK
            <7> QED BY <4>1, <7>2, StackWalkAssumption
          <6> QED BY <6>1
        <5> QED BY <1>0, <2>1, <5>1 DEF CollectInv, Least, Reach, TypeOK
      <4>2. CASE remote # NULL
        <5>1. ~(Len(stack_ptrs) < M)
          BY <2>3, <4>2 DEF CollectMore
        <5> QED BY <1>0, <2>1, <5>1 DEF CollectInv, Least, Reach, TypeOK
      <4> QED BY <4>1, <4>2
    <3>3. CollectInv' /\ Reach' = Reach
      BY <2>1, <3>1 DEF CollectInv, Reach, Least
    <3> QED BY <1>2, <2>1, <3>1, <3>2, <3>3 DEF PausedInv
  <2> QED BY <2>2, <2>3
<1>7. CASE Plan \/ EmitCollected
  <2>1. /\ pc \in {"plan", "emit"} /\ pc' \in {"emit", "ok"} /\ paused
        /\ UNCHANGED <<process, opts, stack_ptrs>>
    BY <1>7 DEF Plan, EmitCollected
  <2>2. CollectInv' /\ Len(stack_ptrs') = Reach'
    BY <2>1 DEF PausedInv, CollectInv, Reach, Least
  <2>3. ~(R' < 0)
    BY <1>0, <2>1 DEF WalkInv
  <2> QED BY <1>2, <2>1, <2>2, <2>3 DEF PausedInv
<1>8. CASE EmitFollowed
  <2>1. /\ pc = "follow" /\ paused /\ UNCHANGED <<process, opts>> /\ R < 0
        /\ FollowInv /\ remote = Nth(i + 1) /\ (L = -1 \/ i <= L)
    BY <1>8 DEF EmitFollowed, PausedInv, WalkInv
  <2>2. CASE FollowMore
    <3>1. /\ emitted' = Append(emitted, Frame(remote)) /\ remote' = prev_execute_data[remote]
          /\ i' = i + 1 /\ pc' = "follow" /\ remote # NULL /\ i # L
      BY <1>8, <2>2 DEF EmitFollowed, FollowMore
    <3>2. /\ i + 1 <= Len(stack) /\ remote = stack[i + 1] /\ remote \in Addr /\ remote' = Nth(i + 2)
      BY <1>0, <1>2, <2>1, <3>1, NextInChain DEF FollowInv
    <3>3. Frame(remote) = Event(remote, 0, i) /\ Frame(remote) \in Events
      BY <1>0, <3>2 DEF Frame, Event, Events
    <3>4. /\ Len(emitted') = Len(emitted) + 1 /\ \A k \in 1..Len(emitted) : emitted'[k] = emitted[k]
          /\ emitted'[Len(emitted) + 1] = Event(remote, 0, i)
      BY <3>1, <3>3, Emitted DEF WalkInv
    <3>5. Len(emitted) = i /\ \A k \in 1..i : emitted[k] = Event(stack[k], 0, k - 1)
      BY <2>1 DEF FollowInv
    <3>6. \A k \in 1..(i + 1) : emitted'[k] = Event(stack[k], 0, k - 1)
      BY <1>0, <3>2, <3>4, <3>5
    <3>7. FollowInv'
      BY <1>0, <2>1, <3>1, <3>2, <3>4, <3>5, <3>6 DEF FollowInv, Event
    <3>8. remote' = Nth(i + 1)'
      BY <1>0, <1>2, <2>1, <3>1, <3>2 DEF Nth
    <3>9. L' = -1 \/ i' <= L'
      BY <1>0, <2>1, <3>1
    <3> QED BY <1>2, <2>1, <3>1, <3>7, <3>8, <3>9 DEF PausedInv
  <2>3. CASE ~FollowMore
    <3>1. pc' = "ok" /\ UNCHANGED <<remote, i, emitted>>
      BY <1>8, <2>3 DEF EmitFollowed
    <3>2. FollowInv'
      BY <2>1, <3>1 DEF FollowInv, Event
    <3>3. Reach \in Nat /\ i <= Reach
      BY <1>0, <2>1 DEF FollowInv, Least, Reach, TypeOK
    <3>4. i = Reach \/ i = L
      <4>1. CASE remote = NULL
        <5>1. ~(i + 1 <= Len(stack))
          <6>1. ASSUME i + 1 <= Len(stack) PROVE FALSE
            <7>1. i + 1 \in 1..Len(stack)
              BY <1>0, <6>1
            <7>2. remote \in Addr
              BY <2>1, <6>1, <7>1 DEF Nth, TypeOK
            <7> QED BY <4>1, <7>2, StackWalkAssumption
          <6> QED BY <6>1
        <5> QED BY <1>0, <3>3, <5>1 DEF Least, Reach
      <4>2. CASE remote # NULL
        <5>1. i = L \/ ~(i < M)
          BY <2>3, <4>2 DEF FollowMore
        <5> QED BY <1>0, <3>3, <5>1 DEF Least, Reach
      <4> QED BY <4>1, <4>2
    <3>5. (L = -1 => i = Reach) /\ (L >= 0 => i = Least(Reach, L))
      BY <1>0, <2>1, <3>3, <3>4 DEF Least
    <3>6. (L' = -1 => i' = Reach') /\ (L' >= 0 => i' = Least(Reach, L)')
      BY <1>2, <2>1, <3>1, <3>5 DEF Least, Reach
    <3>7. ~(R' >= 0)
      BY <1>0, <2>1
    <3> QED BY <1>2, <2>1, <3>1, <3>2, <3>6, <3>7 DEF PausedInv
  <2> QED BY <2>2, <2>3
<1>9. CASE Done \/ UNCHANGED vars
  BY <1>1, <1>9 DEF Done, vars
<1> QED BY <1>3, <1>4, <1>5, <1>6, <1>7, <1>8, <1>9 DEF Next

(* The frames of a walk are the wanted ones, if there is a map of the one   *)
(* onto the other that keeps the order.                                     *)
LEMMA FramesByPosition ==
  ASSUME NEW pos \in [FramesAt -> Int],
         Wanted \subseteq Int,
         \A k \in FramesAt : pos[k] \in Wanted /\ emitted[k] = Event(stack[pos[k]], 0, pos[k] - 1),
         \A j \in Wanted : \E k \in FramesAt : pos[k] = j,
         \A j, k \in FramesAt : j < k => pos[j] < pos[k]
  PROVE  PausedExact
<1>1. \A k \in FramesAt : emitted[k].depth = pos[k] - 1 /\ emitted[k].addr = stack[pos[k]]
  <2> SUFFICES ASSUME NEW k \in FramesAt
               PROVE  emitted[k].depth = pos[k] - 1 /\ emitted[k].addr = stack[pos[k]]
    OBVIOUS
  <2>1. emitted[k] = Event(stack[pos[k]], 0, pos[k] - 1)
    OBVIOUS
  <2> QED BY <2>1 DEF Event
<1> DEFINE A == {<<emitted[k].depth, emitted[k].addr>> : k \in FramesAt}
           B == {<<k - 1, stack[k]>> : k \in Wanted}
<1>2. A \subseteq B
  <2> SUFFICES ASSUME NEW k \in FramesAt PROVE <<emitted[k].depth, emitted[k].addr>> \in B
    OBVIOUS
  <2>1. <<emitted[k].depth, emitted[k].addr>> = <<pos[k] - 1, stack[pos[k]]>>
    BY <1>1
  <2> QED BY <2>1
<1>3. B \subseteq A
  <2> SUFFICES ASSUME NEW j \in Wanted PROVE <<j - 1, stack[j]>> \in A
    OBVIOUS
  <2>1. PICK k \in FramesAt : pos[k] = j
    OBVIOUS
  <2>2. <<emitted[k].depth, emitted[k].addr>> = <<j - 1, stack[j]>>
    BY <1>1, <2>1
  <2> QED BY <2>2
<1>4. ASSUME NEW j \in FramesAt, NEW k \in FramesAt, j < k
      PROVE  emitted[j].depth < emitted[k].depth
  <2>1. pos[j] \in Int /\ pos[k] \in Int /\ pos[j] < pos[k]
    BY <1>4
  <2> QED BY <1>1, <2>1
<1>5. A = B
  BY <1>2, <1>3
<1> QED BY <1>4, <1>5 DEF PausedExact

(* At the end of a walk there is one. *)
LEMMA PausedAtEnd ==
  ASSUME TypeOK, WalkInv, PausedInv, pc = "ok", paused
  PROVE  PausedExact
<1> DEFINE R == opt_max_stack_depth_from_root
           L == opt_max_stack_depth_from_leaf
           n == Reach
<1>0. /\ Len(stack) \in Nat /\ n \in Nat /\ n <= Len(stack)
      /\ R \in Int /\ L \in Int /\ L >= -1 /\ keep_inner \in Nat /\ keep_inner = Max0(L)
  BY WalkNumbers, LenProperties DEF TypeOK, Least, Reach, keep_inner
<1>1. \A a, m, d : Event(a, m, d).elided = m
  BY DEF Event
<1>2. /\ R >= 0 => Wanted = {k \in 1..n : k <= L \/ k > n - R}
      /\ R < 0 => Wanted = {k \in 1..n : L = -1 \/ k <= L}
  BY <1>0 DEF Wanted, Reach
<1>3. CASE R < 0
  <2>1. FollowInv /\ (L = -1 => i = n) /\ (L >= 0 => i = Least(n, L))
    BY <1>3 DEF PausedInv
  <2>2. /\ i \in Nat /\ Len(emitted) = i
        /\ \A k \in 1..i : emitted[k] = Event(stack[k], 0, k - 1)
    BY <2>1, WalkNumbers DEF FollowInv
  <2> HIDE DEF n, L, R
  <2>3. FramesAt = 1..i
    BY <1>1, <2>2 DEF FramesAt
  <2>4. Wanted = 1..i
    <3>1. Wanted = {k \in 1..n : L = -1 \/ k <= L}
      BY <1>2, <1>3
    <3>2. CASE L = -1
      BY <2>1, <3>1, <3>2
    <3>3. CASE L >= 0
      <4>1. i <= n /\ i <= L /\ (i = n \/ i = L)
        BY <1>0, <2>1, <3>3 DEF Least
      <4> QED BY <1>0, <2>2, <3>1, <3>3, <4>1
    <3> QED BY <1>0, <3>2, <3>3
  <2> DEFINE pos == [k \in 1..i |-> k]
  <2>5. pos \in [FramesAt -> Int] /\ \A k \in 1..i : pos[k] = k
    BY <2>2, <2>3
  <2> HIDE DEF pos
  <2>6. \A k \in FramesAt : pos[k] \in Wanted /\ emitted[k] = Event(stack[pos[k]], 0, pos[k] - 1)
    BY <2>2, <2>3, <2>4, <2>5
  <2>7. \A j \in Wanted : \E k \in FramesAt : pos[k] = j
    BY <2>3, <2>4, <2>5
  <2>8. \A j, k \in FramesAt : j < k => pos[j] < pos[k]
    BY <2>3, <2>5
  <2>9. Wanted \subseteq Int
    BY <2>4
  <2> QED BY <2>5, <2>6, <2>7, <2>8, <2>9, FramesByPosition
<1>4. CASE R >= 0
  <2>1. /\ EmitInv /\ i = total_depth /\ emitted \in Seq(Events)
        /\ CollectInv /\ total_depth = n
    BY <1>4 DEF WalkInv, PausedInv, total_depth
  <2>2. \A k \in 1..n : stack_ptrs[k] = stack[k]
    BY <2>1 DEF CollectInv, total_depth
  <2> DEFINE K == keep_inner
  <2>3. \/ /\ MarkersAt = {} /\ Len(emitted) = n /\ K + R >= n
           /\ \A k \in 1..n : emitted[k] = Event(stack_ptrs[k], 0, k - 1)
        \/ /\ MarkersAt = {K + 1} /\ Len(emitted) = K + R + 1 /\ K + R < n
           /\ \A k \in 1..K : emitted[k] = Event(stack_ptrs[k], 0, k - 1)
           /\ \A k \in 1..R : emitted[K + 1 + k] = Event(stack_ptrs[n - R + k], 0, n - R + k - 1)
    <3> DEFINE T == total_depth
    <3>1. \/ /\ MarkersAt = {} /\ Len(emitted) = T /\ K + R >= T
             /\ \A k \in 1..T : emitted[k] = Event(stack_ptrs[k], 0, k - 1)
          \/ /\ MarkersAt = {K + 1} /\ Len(emitted) = K + R + 1 /\ K + R < T
             /\ \A k \in 1..K : emitted[k] = Event(stack_ptrs[k], 0, k - 1)
             /\ \A k \in 1..R : emitted[K + 1 + k] = Event(stack_ptrs[T - R + k], 0, T - R + k - 1)
      BY <1>4, <2>1, EmittedAtEnd DEF Direct
    <3> QED BY <2>1, <3>1
  <2>4. K \in Nat /\ ((L = -1 /\ K = 0) \/ K = L)
    BY <1>0 DEF Max0
  <2> HIDE DEF n, L, R, K
  <2>5. Wanted = {k \in 1..n : k <= K \/ k > n - R}
    BY <1>0, <1>2, <1>4, <2>4
  <2>6. CASE /\ MarkersAt = {} /\ Len(emitted) = n /\ K + R >= n
             /\ \A k \in 1..n : emitted[k] = Event(stack_ptrs[k], 0, k - 1)
    <3>1. FramesAt = 1..n
      BY <2>6 DEF MarkersAt, FramesAt
    <3>2. Wanted = 1..n
      BY <1>0, <1>4, <2>4, <2>5, <2>6
    <3> DEFINE pos == [k \in 1..n |-> k]
    <3>3. pos \in [FramesAt -> Int] /\ \A k \in 1..n : pos[k] = k
      BY <1>0, <3>1
    <3>4. \A k \in 1..n : emitted[k] = Event(stack[k], 0, k - 1)
      BY <2>2, <2>6
    <3> HIDE DEF pos
    <3>5. \A k \in FramesAt : pos[k] \in Wanted /\ emitted[k] = Event(stack[pos[k]], 0, pos[k] - 1)
      BY <3>1, <3>2, <3>3, <3>4
    <3>6. \A j \in Wanted : \E k \in FramesAt : pos[k] = j
      BY <3>1, <3>2, <3>3
    <3>7. \A j, k \in FramesAt : j < k => pos[j] < pos[k]
      BY <3>1, <3>3
    <3>8. Wanted \subseteq Int
      BY <3>2
    <3> QED BY <3>3, <3>5, <3>6, <3>7, <3>8, FramesByPosition
  <2>7. CASE /\ MarkersAt = {K + 1} /\ Len(emitted) = K + R + 1 /\ K + R < n
             /\ \A k \in 1..K : emitted[k] = Event(stack_ptrs[k], 0, k - 1)
             /\ \A k \in 1..R : emitted[K + 1 + k] = Event(stack_ptrs[n - R + k], 0, n - R + k - 1)
    <3> DEFINE pos == [k \in FramesAt |-> IF k <= K THEN k ELSE k - K - 1 + n - R]
    <3>1. FramesAt = (1..(K + R + 1)) \ {K + 1}
      BY <2>7 DEF MarkersAt, FramesAt
    <3>2. pos \in [FramesAt -> Int]
      BY <1>0, <2>4, <3>1
    <3>3. \A k \in FramesAt : pos[k] = IF k <= K THEN k ELSE k - K - 1 + n - R
      OBVIOUS
    <3> HIDE DEF pos
    <3>4. ASSUME NEW k \in FramesAt
          PROVE  pos[k] \in Wanted /\ emitted[k] = Event(stack[pos[k]], 0, pos[k] - 1)
      <4>1. CASE k <= K
        <5>1. k \in 1..K /\ k \in 1..n /\ pos[k] = k
          BY <1>0, <1>4, <2>4, <2>7, <3>1, <3>3, <4>1
        <5> QED BY <2>2, <2>5, <2>7, <4>1, <5>1
      <4>2. CASE k > K
        <5>1. k - K - 1 \in 1..R /\ K + 1 + (k - K - 1) = k
          BY <1>0, <1>4, <2>4, <3>1, <4>2
        <5>2. emitted[k] = Event(stack_ptrs[n - R + (k - K - 1)], 0, n - R + (k - K - 1) - 1)
          BY <2>7, <5>1
        <5>3. pos[k] = n - R + (k - K - 1) /\ pos[k] \in 1..n /\ pos[k] > n - R
          BY <1>0, <1>4, <2>4, <2>7, <3>1, <3>3, <4>2, <5>1
        <5>4. pos[k] \in Wanted /\ stack_ptrs[pos[k]] = stack[pos[k]]
          BY <2>2, <2>5, <5>3
        <5>5. emitted[k] = Event(stack_ptrs[pos[k]], 0, pos[k] - 1)
          <6>1. n - R + (k - K - 1) = pos[k] /\ n - R + (k - K - 1) - 1 = pos[k] - 1
            BY <1>0, <2>4, <5>1, <5>3
          <6> QED BY <5>2, <6>1
        <5> QED BY <5>4, <5>5
      <4> QED BY <2>4, <3>1, <4>1, <4>2
    <3>5. ASSUME NEW j \in Wanted PROVE \E k \in FramesAt : pos[k] = j
      <4>1. CASE j <= K
        <5>1. j \in FramesAt /\ pos[j] = j
          BY <1>0, <1>4, <2>4, <2>5, <3>1, <3>3, <4>1
        <5> QED BY <5>1
      <4>2. CASE j > K
        <5>1. j \in 1..n /\ j > n - R
          BY <1>0, <2>4, <2>5, <4>2
        <5>2. j - (n - R) + K + 1 \in FramesAt
          BY <1>0, <1>4, <2>4, <3>1, <5>1
        <5>3. pos[j - (n - R) + K + 1] = j
          BY <1>0, <1>4, <2>4, <3>3, <5>1, <5>2
        <5> QED BY <5>2, <5>3
      <4> QED BY <1>0, <2>4, <2>5, <4>1, <4>2
    <3>6. \A j, k \in FramesAt : j < k => pos[j] < pos[k]
      BY <1>0, <1>4, <2>4, <2>7, <3>1, <3>3
    <3>7. Wanted \subseteq Int
      BY <2>5
    <3> QED BY <3>2, <3>4, <3>5, <3>6, <3>7, FramesByPosition
  <2> QED BY <2>3, <2>6, <2>7
<1> QED BY <1>0, <1>3, <1>4

(* do_trace, stack_collect and trace_stack on a process that is paused: the *)
(* frames emitted are exactly those of its stack that -n and -N keep, with  *)
(* their depths, for every depth of the stack and every value of the two.   *)
THEOREM PausedIsExact == Spec => []PausedExact
<1>1. TypeOK /\ WalkInv /\ PausedInv => PausedExact
  BY PausedAtEnd DEF PausedExact
<1>2. TypeOK /\ WalkInv /\ [Next]_vars => WalkInv'
  BY WalkStep
<1>3. TypeOK /\ WalkInv /\ PausedInv /\ [Next]_vars => PausedInv'
  BY PausedStep
<1> QED BY <1>1, <1>2, <1>3, InitWalk, InitPaused, WalkIsBounded, PTL DEF Spec
============================================================================

-------------------------- MODULE CallgrindProofs --------------------------
(* The callgrind handler for every set of locations and every depth: its    *)
(* arrays are not overrun, its counts of calls agree with its costs, and    *)
(* its tables are the sums over the traces that ended.                      *)
EXTENDS Callgrind, SequenceTheorems, FiniteSetTheorems, TLAPS

(* Every step is for Zenon first and, if that does not find a proof soon,   *)
(* for the SMT solver.                                                      *)
USE ZenonT(5), SMTT(30)

(* The call sites of a trace are finitely many. *)
LEMMA SitesFinite ==
  ASSUME NEW s \in Seq(Loc), NEW c
  PROVE  IsFiniteSet(Sites(s, c)) /\ Cardinality(Sites(s, c)) \in Nat
<1>1. IsFiniteSet(1..(Len(s) - 1))
  BY FS_Interval, LenProperties
<1>2. Sites(s, c) \subseteq 1..(Len(s) - 1)
  BY DEF Sites
<1> QED BY <1>1, <1>2, FS_Subset, FS_CardinalityType

(* Those that look new are some of them. *)
LEMMA NewSitesFewer ==
  ASSUME self \in Seq(Loc), NEW c
  PROVE  /\ Cardinality(NewSites(c)) \in Nat
         /\ Cardinality(NewSites(c)) <= Cardinality(Sites(self, c))
<1>1. NewSites(c) \subseteq Sites(self, c)
  BY DEF NewSites
<1>2. IsFiniteSet(Sites(self, c))
  BY SitesFinite
<1>3. IsFiniteSet(NewSites(c))
  BY <1>1, <1>2, FS_Subset
<1>4. Cardinality(NewSites(c)) <= Cardinality(Sites(self, c))
  BY <1>1, <1>2, FS_Subset
<1> QED BY <1>3, <1>4, FS_CardinalityType

(* A call is counted only where its callee got cost.                        *)
CountsWithinCosts == \A c \in Call : count[c] <= inclusive[c]

LEMMA InitInv == Init => TypeOK /\ CountsWithinCosts
BY CallgrindAssumption DEF Init, TypeOK, CountsWithinCosts

LEMMA TypeStep ==
  ASSUME TypeOK, CountsWithinCosts, [Next]_vars
  PROVE  TypeOK' /\ CountsWithinCosts'
<1> USE CallgrindAssumption DEF TypeOK, CountsWithinCosts, tables
<1>1. CASE StackBegin
  BY <1>1 DEF StackBegin, Fresh
<1>2. CASE StackEnd
  <2>1. \A c \in Call : Cardinality(Sites(self, c)) \in Nat
    BY SitesFinite
  <2>2. \A c \in Call : /\ Cardinality(NewSites(c)) \in Nat
                        /\ Cardinality(NewSites(c)) <= Cardinality(Sites(self, c))
    BY NewSitesFewer
  <2>3. exclusive' \in [Loc -> Nat]
    BY <1>2 DEF StackEnd
  <2>4. /\ inclusive' = [c \in Call |-> inclusive[c] + Cardinality(Sites(self, c))]
        /\ count' = [c \in Call |-> count[c] + Cardinality(NewSites(c))]
    BY <1>2 DEF StackEnd
  <2>5. inclusive' \in [Call -> Nat] /\ count' \in [Call -> Nat]
    BY <2>1, <2>2, <2>4
  <2>6. CountsWithinCosts'
    BY <2>1, <2>2, <2>4
  <2> QED BY <1>2, <2>3, <2>5, <2>6 DEF StackEnd
<1>3. CASE Deinit
  BY <1>3 DEF Deinit
<1>4. ASSUME NEW l \in Loc, IngestFrame(l) PROVE TypeOK' /\ CountsWithinCosts'
  <2>1. self' \in Seq(Loc) /\ Len(self') <= MAX_STACK_DEPTH
    BY <1>4, AppendProperties, LenProperties DEF IngestFrame, HasRoom
  <2> QED BY <1>4, <2>1 DEF IngestFrame
<1>5. CASE UNCHANGED vars
  BY <1>5 DEF vars
<1> QED BY <1>1, <1>2, <1>3, <1>4, <1>5 DEF Next

(* callgrind_ingest_frame never writes behind self_str, and no call is      *)
(* counted more often than it was charged.                                  *)
THEOREM CallgrindInvariant == Spec => [](TypeOK /\ CountsWithinCosts)
<1> QED BY InitInv, TypeStep, PTL DEF Spec

(* A trace that repeats the previous one adds no calls, whatever failed in  *)
(* between (callgrind_digest_stack).                                        *)
THEOREM RepeatsCountNothing == Spec => RepeatsAreNoCalls
<1>1. TypeOK /\ [Next]_vars => [StackEnd /\ self = prev => UNCHANGED count]_vars
  <2> SUFFICES ASSUME TypeOK, StackEnd, self = prev PROVE count' = count
    OBVIOUS
  <2>1. \A c \in Call : NewSites(c) = {}
    BY LenProperties DEF NewSites, Sites, LooksDifferent, TypeOK
  <2>2. count' = [c \in Call |-> count[c] + Cardinality({})]
    BY <2>1 DEF StackEnd
  <2> QED BY <2>2, FS_EmptySet DEF TypeOK
<1> QED BY <1>1, CallgrindInvariant, PTL DEF Spec, RepeatsAreNoCalls

----------------------------------------------------------------------------
(* What is kept of a trace: its first frames, up to the last slot. *)
LEMMA KeptFrames ==
  ASSUME NEW t \in Seq(Loc)
  PROVE  /\ Kept(t) \in Seq(Loc)
         /\ Len(Kept(t)) = IF Len(t) < MAX_STACK_DEPTH THEN Len(t) ELSE MAX_STACK_DEPTH
         /\ Len(Kept(t)) \in 0..MAX_STACK_DEPTH
         /\ \A k \in 1..Len(Kept(t)) : Kept(t)[k] = t[k]
<1> DEFINE n == IF Len(t) < MAX_STACK_DEPTH THEN Len(t) ELSE MAX_STACK_DEPTH
<1>1. n \in Nat /\ n <= Len(t) /\ n \in 0..MAX_STACK_DEPTH /\ Len(t) \in Nat
  BY CallgrindAssumption, LenProperties
<1>2. \A k \in 1..n : t[k] \in Loc
  BY <1>1, ElementOfSeq
<1>3. Kept(t) = SubSeq(t, 1, n)
  BY DEF Kept
<1> HIDE DEF n
<1>4. /\ Kept(t) \in Seq(Loc)
      /\ Len(Kept(t)) = IF 1 <= n THEN n - 1 + 1 ELSE 0
      /\ \A k \in 1..(n - 1 + 1) : Kept(t)[k] = t[1 + k - 1]
  BY <1>1, <1>2, <1>3, SubSeqProperties
<1>5. Len(Kept(t)) = n
  BY <1>1, <1>4
<1>6. \A k \in 1..n : Kept(t)[k] = t[k]
  BY <1>1, <1>4
<1> QED BY <1>1, <1>4, <1>5, <1>6 DEF n

(* self_str holds what is kept of the frames offered in a trace.            *)
DigestInv ==
  /\ offered \in Seq(Loc) /\ digested \in Seq(Seq(Loc))
  /\ state = "trace" => self = Kept(offered)

(* A frame more, or none if the last slot is taken. *)
LEMMA KeptAppend ==
  ASSUME NEW t \in Seq(Loc), NEW l \in Loc
  PROVE  Kept(Append(t, l)) = IF Len(Kept(t)) < MAX_STACK_DEPTH THEN Append(Kept(t), l) ELSE Kept(t)
<1>1. /\ Append(t, l) \in Seq(Loc) /\ Len(Append(t, l)) = Len(t) + 1 /\ Len(t) \in Nat
      /\ \A k \in 1..Len(t) : Append(t, l)[k] = t[k]
      /\ Append(t, l)[Len(t) + 1] = l
  BY AppendProperties, LenProperties
<1>2. /\ Kept(Append(t, l)) \in Seq(Loc)
      /\ Len(Kept(Append(t, l))) = IF Len(t) + 1 < MAX_STACK_DEPTH THEN Len(t) + 1 ELSE MAX_STACK_DEPTH
      /\ \A k \in 1..Len(Kept(Append(t, l))) : Kept(Append(t, l))[k] = Append(t, l)[k]
  BY <1>1, KeptFrames
<1>3. /\ Kept(t) \in Seq(Loc)
      /\ Len(Kept(t)) = IF Len(t) < MAX_STACK_DEPTH THEN Len(t) ELSE MAX_STACK_DEPTH
      /\ \A k \in 1..Len(Kept(t)) : Kept(t)[k] = t[k]
  BY KeptFrames
<1>4. CASE Len(Kept(t)) < MAX_STACK_DEPTH
  <2>1. Len(Kept(t)) = Len(t) /\ Len(Kept(Append(t, l))) = Len(t) + 1
    BY <1>1, <1>2, <1>3, <1>4, CallgrindAssumption
  <2>2. /\ Append(Kept(t), l) \in Seq(Loc) /\ Len(Append(Kept(t), l)) = Len(t) + 1
        /\ \A k \in 1..Len(t) : Append(Kept(t), l)[k] = Kept(t)[k]
        /\ Append(Kept(t), l)[Len(t) + 1] = l
    BY <1>3, <2>1, AppendProperties
  <2>3. \A k \in 1..(Len(t) + 1) : Kept(Append(t, l))[k] = Append(Kept(t), l)[k]
    <3> SUFFICES ASSUME NEW k \in 1..(Len(t) + 1) PROVE Kept(Append(t, l))[k] = Append(Kept(t), l)[k]
      OBVIOUS
    <3>1. Kept(Append(t, l))[k] = Append(t, l)[k]
      BY <1>2, <2>1
    <3>2. CASE k \in 1..Len(t)
      BY <1>1, <1>3, <2>1, <2>2, <3>1, <3>2
    <3>3. CASE k = Len(t) + 1
      BY <1>1, <2>2, <3>1, <3>3
    <3>4. k \in 1..Len(t) \/ k = Len(t) + 1
      BY <1>1
    <3> QED BY <3>2, <3>3, <3>4
  <2>4. Kept(Append(t, l)) = Append(Kept(t), l)
    BY <1>2, <2>1, <2>2, <2>3, SeqEqual
  <2> QED BY <1>4, <2>4
<1>5. CASE ~(Len(Kept(t)) < MAX_STACK_DEPTH)
  <2>1. Len(Kept(t)) = MAX_STACK_DEPTH /\ Len(Kept(Append(t, l))) = MAX_STACK_DEPTH /\ MAX_STACK_DEPTH <= Len(t)
    BY <1>1, <1>2, <1>3, <1>5, CallgrindAssumption
  <2>2. \A k \in 1..MAX_STACK_DEPTH : Kept(Append(t, l))[k] = Kept(t)[k]
    BY <1>1, <1>2, <1>3, <2>1, CallgrindAssumption
  <2>3. Kept(Append(t, l)) = Kept(t)
    BY <1>2, <1>3, <2>1, <2>2, SeqEqual
  <2> QED BY <1>5, <2>3
<1> QED BY <1>4, <1>5

LEMMA DigestInit == Init => DigestInv
BY DEF Init, DigestInv

LEMMA DigestStep ==
  ASSUME TypeOK, DigestInv, [Next]_vars
  PROVE  DigestInv'
<1> USE DEF DigestInv
<1>1. CASE StackBegin
  <2>1. Kept(<<>>) \in Seq(Loc) /\ Len(Kept(<<>>)) = 0
    <3>1. <<>> \in Seq(Loc) /\ Len(<<>>) = 0
      OBVIOUS
    <3>2. /\ Kept(<<>>) \in Seq(Loc)
          /\ Len(Kept(<<>>)) = IF Len(<<>>) < MAX_STACK_DEPTH THEN Len(<<>>) ELSE MAX_STACK_DEPTH
      BY ONLY <3>1, KeptFrames, Zenon
    <3> QED BY <3>1, <3>2, CallgrindAssumption
  <2>2. Kept(<<>>) = <<>>
    BY <2>1, EmptySeq
  <2> QED BY <1>1, <2>2 DEF StackBegin, Fresh
<1>2. CASE StackEnd
  BY <1>2, AppendProperties DEF StackEnd
<1>3. CASE Deinit
  BY <1>3 DEF Deinit
<1>4. ASSUME NEW l \in Loc, IngestFrame(l) PROVE DigestInv'
  <2>1. /\ offered' = Append(offered, l) /\ digested' = digested /\ state' = "trace"
        /\ self' = IF Len(self) < MAX_STACK_DEPTH THEN Append(self, l) ELSE self
        /\ self = Kept(offered)
    BY <1>4 DEF IngestFrame, HasRoom
  <2>2. offered' \in Seq(Loc)
    BY <2>1, AppendProperties
  <2>3. self' = Kept(Append(offered, l))
    BY <2>1, KeptAppend
  <2>4. self' = Kept(offered)'
    BY <2>1, <2>3 DEF Kept
  <2> QED BY <2>1, <2>2, <2>4
<1>5. CASE UNCHANGED vars
  BY <1>5 DEF vars, Kept
<1> QED BY <1>1, <1>2, <1>3, <1>4, <1>5 DEF Next

(* The calls of c in the traces that ended are finitely many. *)
LEMMA CallsFinite ==
  ASSUME DigestInv, NEW c
  PROVE  IsFiniteSet(CallsOf(c)) /\ Cardinality(CallsOf(c)) \in Nat
<1>1. IsFiniteSet(1..Len(digested)) /\ IsFiniteSet(1..MAX_STACK_DEPTH)
  BY FS_Interval, CallgrindAssumption, LenProperties DEF DigestInv
<1>2. IsFiniteSet((1..Len(digested)) \X (1..MAX_STACK_DEPTH))
  BY <1>1, FS_Product
<1>3. CallsOf(c) \subseteq (1..Len(digested)) \X (1..MAX_STACK_DEPTH)
  BY DEF CallsOf
<1> QED BY <1>2, <1>3, FS_Subset, FS_CardinalityType

(* The trace that ends adds its own call sites, and is the only one to.     *)
LEMMA DigestedCalls ==
  ASSUME TypeOK, DigestInv, StackEnd, NEW c \in Call
  PROVE  Cardinality(CallsOf(c)') = Cardinality(CallsOf(c)) + Cardinality(Sites(self, c))
<1> DEFINE n == Len(digested)
           New == {n + 1} \X Sites(self, c)
<1>1. /\ n \in Nat /\ digested' \in Seq(Seq(Loc)) /\ Len(digested') = n + 1
      /\ \A k \in 1..n : digested'[k] = digested[k]
      /\ digested'[n + 1] = offered
  <2>1. digested' = Append(digested, offered)
    BY DEF StackEnd
  <2> QED BY <2>1, AppendProperties, LenProperties DEF DigestInv
<1>2. self = Kept(offered)
  BY DEF DigestInv, StackEnd
<1>3. Sites(self, c) \subseteq 1..MAX_STACK_DEPTH
  BY LenProperties, CallgrindAssumption DEF Sites, TypeOK
<1>4. CallsOf(c)' = CallsOf(c) \cup New
  <2>0. CallsOf(c)' = {p \in (1..(n + 1)) \X (1..MAX_STACK_DEPTH) : p[2] \in Sites(Kept(digested'[p[1]]), c)}
    BY <1>1 DEF CallsOf, Kept, Sites
  <2>1. ASSUME NEW p \in (1..(n + 1)) \X (1..MAX_STACK_DEPTH)
        PROVE  p \in CallsOf(c)' <=> p \in CallsOf(c) \cup New
    <3>1. p \in CallsOf(c)' <=> p[2] \in Sites(Kept(digested'[p[1]]), c)
      BY <2>0
    <3>2. CASE p[1] \in 1..n
      <4>1. p \in CallsOf(c) <=> p[2] \in Sites(Kept(digested[p[1]]), c)
        BY <3>2 DEF CallsOf
      <4>2. p \notin New
        BY <1>1, <3>2
      <4> QED BY <1>1, <3>1, <3>2, <4>1, <4>2
    <3>3. CASE p[1] = n + 1
      <4>1. p \in CallsOf(c)' <=> p[2] \in Sites(self, c)
        BY <1>1, <1>2, <3>1, <3>3
      <4>2. p \notin CallsOf(c)
        BY <1>1, <3>3 DEF CallsOf
      <4>3. p \in New <=> p[2] \in Sites(self, c)
        BY <3>3
      <4> QED BY <4>1, <4>2, <4>3
    <3> QED BY <1>1, <3>2, <3>3
  <2>2. CallsOf(c) \subseteq (1..(n + 1)) \X (1..MAX_STACK_DEPTH)
    BY <1>1 DEF CallsOf
  <2>3. New \subseteq (1..(n + 1)) \X (1..MAX_STACK_DEPTH)
    BY <1>1, <1>3
  <2>4. CallsOf(c)' \subseteq (1..(n + 1)) \X (1..MAX_STACK_DEPTH)
    BY <2>0
  <2> HIDE DEF New
  <2> QED BY <2>1, <2>2, <2>3, <2>4
<1>5. CallsOf(c) \cap New = {}
  BY <1>1 DEF CallsOf
<1>6. IsFiniteSet(New) /\ Cardinality(New) = Cardinality(Sites(self, c))
  <2>1. IsFiniteSet(Sites(self, c)) /\ Cardinality(Sites(self, c)) \in Nat
    BY SitesFinite DEF TypeOK
  <2>2. IsFiniteSet({n + 1}) /\ Cardinality({n + 1}) = 1
    BY FS_Singleton
  <2>3. IsFiniteSet(New) /\ Cardinality(New) = 1 * Cardinality(Sites(self, c))
    BY <2>1, <2>2, FS_Product
  <2> QED BY <2>1, <2>3
<1> HIDE DEF New
<1>7. Cardinality(CallsOf(c) \cup New) = Cardinality(CallsOf(c)) + Cardinality(New) - Cardinality(CallsOf(c) \cap New)
  BY <1>6, CallsFinite, FS_Union
<1>8. Cardinality(CallsOf(c)) \in Nat /\ Cardinality(Sites(self, c)) \in Nat
  BY CallsFinite, SitesFinite DEF TypeOK
<1>9. Cardinality(CallsOf(c) \cap New) = 0
  BY <1>5, FS_EmptySet
<1> QED BY <1>4, <1>6, <1>7, <1>8, <1>9

(* The traces whose leaf is l. *)
LeafAt(l) == {k \in Traces : digested[k][1] = l}

LEMMA TracesFinite ==
  ASSUME DigestInv, NEW S \in SUBSET Traces
  PROVE  IsFiniteSet(S) /\ Cardinality(S) \in Nat
<1>1. IsFiniteSet(1..Len(digested))
  BY FS_Interval, LenProperties DEF DigestInv
<1>2. S \subseteq 1..Len(digested)
  BY DEF Traces
<1> QED BY <1>1, <1>2, FS_Subset, FS_CardinalityType

(* The trace that ends adds its own leaf. *)
LEMMA DigestedLeaf ==
  ASSUME TypeOK, DigestInv, StackEnd, NEW l \in Loc
  PROVE  Cardinality(LeafAt(l)') = Cardinality(LeafAt(l)) + IF self # <<>> /\ self[1] = l THEN 1 ELSE 0
<1> DEFINE n == Len(digested)
<1>1. /\ n \in Nat /\ digested' \in Seq(Seq(Loc)) /\ Len(digested') = n + 1
      /\ \A k \in 1..n : digested'[k] = digested[k]
      /\ digested'[n + 1] = offered
  <2>1. digested' = Append(digested, offered)
    BY DEF StackEnd
  <2> QED BY <2>1, AppendProperties, LenProperties DEF DigestInv
<1>2. self = Kept(offered) /\ offered \in Seq(Loc)
  BY DEF DigestInv, StackEnd
<1>3. self # <<>> /\ self[1] = l <=> offered # <<>> /\ offered[1] = l
  <2>1. /\ self \in Seq(Loc) /\ Len(offered) \in Nat
        /\ Len(self) = IF Len(offered) < MAX_STACK_DEPTH THEN Len(offered) ELSE MAX_STACK_DEPTH
        /\ \A k \in 1..Len(self) : self[k] = offered[k]
    BY <1>2, KeptFrames, LenProperties
  <2>2. (self = <<>> <=> Len(self) = 0) /\ (offered = <<>> <=> Len(offered) = 0)
    BY <1>2, <2>1, EmptySeq
  <2>3. Len(self) = 0 <=> Len(offered) = 0
    BY <2>1, CallgrindAssumption
  <2>4. Len(self) # 0 => self[1] = offered[1]
    BY <2>1, CallgrindAssumption
  <2> QED BY <2>2, <2>3, <2>4
<1>4. LeafAt(l)' = {k \in 1..(n + 1) : digested'[k] # <<>> /\ digested'[k][1] = l}
  BY <1>1 DEF LeafAt, Traces
<1>5. LeafAt(l) = {k \in 1..n : digested[k] # <<>> /\ digested[k][1] = l}
  BY DEF LeafAt, Traces
<1>6. LeafAt(l) \in SUBSET Traces
  BY DEF LeafAt
<1>7. IsFiniteSet(LeafAt(l)) /\ Cardinality(LeafAt(l)) \in Nat
  BY <1>6, TracesFinite
<1>8. CASE offered # <<>> /\ offered[1] = l
  <2>1. LeafAt(l)' = LeafAt(l) \cup {n + 1} /\ n + 1 \notin LeafAt(l)
    BY <1>1, <1>4, <1>5, <1>8
  <2>2. Cardinality(LeafAt(l)') = Cardinality(LeafAt(l)) + 1
    BY <1>7, <2>1, FS_AddElement
  <2> QED BY <1>3, <1>8, <2>2
<1>9. CASE ~(offered # <<>> /\ offered[1] = l)
  <2>1. LeafAt(l)' = LeafAt(l)
    BY <1>1, <1>4, <1>5, <1>9
  <2> QED BY <1>3, <1>7, <1>9, <2>1
<1> QED BY <1>8, <1>9

LEMMA EndedStep ==
  ASSUME TypeOK, DigestInv, OnlyEndedTraces, [Next]_vars
  PROVE  OnlyEndedTraces'
<1>1. ASSUME UNCHANGED <<tables, digested>> PROVE OnlyEndedTraces'
  <2>1. \A c \in Call : CallsOf(c)' = CallsOf(c)
    BY <1>1 DEF CallsOf, Kept, Sites
  <2>2. \A l \in Loc : LeafAt(l)' = LeafAt(l)
    BY <1>1 DEF LeafAt, Traces
  <2>3. exclusive' = exclusive /\ inclusive' = inclusive
    BY <1>1 DEF tables
  <2> QED BY <2>1, <2>2, <2>3 DEF OnlyEndedTraces, LeafAt
<1>2. CASE StackEnd
  <2>1. ASSUME NEW l \in Loc
        PROVE  exclusive'[l] = Cardinality(LeafAt(l)')
    <3>1. exclusive'[l] = exclusive[l] + IF self # <<>> /\ self[1] = l THEN 1 ELSE 0
      BY <1>2 DEF StackEnd
    <3>2. exclusive[l] = Cardinality(LeafAt(l))
      BY DEF OnlyEndedTraces, LeafAt
    <3> QED BY <1>2, <3>1, <3>2, DigestedLeaf
  <2>2. ASSUME NEW c \in Call
        PROVE  inclusive'[c] = Cardinality(CallsOf(c)')
    <3>1. inclusive'[c] = inclusive[c] + Cardinality(Sites(self, c))
      BY <1>2 DEF StackEnd
    <3>2. inclusive[c] = Cardinality(CallsOf(c))
      BY DEF OnlyEndedTraces
    <3> QED BY <1>2, <3>1, <3>2, DigestedCalls
  <2> QED BY <2>1, <2>2 DEF OnlyEndedTraces, LeafAt
<1>3. CASE StackBegin \/ Deinit \/ (\E l \in Loc : IngestFrame(l)) \/ UNCHANGED vars
  BY <1>1, <1>3 DEF StackBegin, Deinit, IngestFrame, vars
<1> QED BY <1>2, <1>3 DEF Next

LEMMA InitEnded == Init => OnlyEndedTraces
<1> SUFFICES ASSUME Init PROVE OnlyEndedTraces
  OBVIOUS
<1>1. \A l \in Loc : {k \in Traces : digested[k][1] = l} = {}
  BY DEF Init, Traces
<1>2. \A c \in Call : CallsOf(c) = {}
  BY DEF Init, CallsOf
<1> QED BY <1>1, <1>2, FS_EmptySet DEF Init, OnlyEndedTraces

(* STACK_BEGIN, callgrind_ingest_frame and callgrind_digest_stack: the      *)
(* tables hold what the traces that ended hold, cut at the last slot, and   *)
(* nothing of those that failed, for any number of traces and any depth.    *)
THEOREM TablesAreTheTraces == Spec => [](DigestInv /\ OnlyEndedTraces)
<1>1. Init => DigestInv /\ OnlyEndedTraces
  BY DigestInit, InitEnded
<1>2. TypeOK /\ (DigestInv /\ OnlyEndedTraces) /\ [Next]_vars => (DigestInv /\ OnlyEndedTraces)'
  BY DigestStep, EndedStep
<1> QED BY <1>1, <1>2, CallgrindInvariant, PTL DEF Spec

----------------------------------------------------------------------------
(* Pairs with a given first member. *)
LEMMA Units ==
  ASSUME NEW m, NEW S, NEW u
  PROVE  u \in {m} \X S <=> \E j \in S : u = <<m, j>>
OBVIOUS

(* P falls into parts, one for each m in I, of n[m] members.                *)
PartsOf(P, I, n, part) ==
  /\ n \in [I -> Nat] /\ part \in [I -> SUBSET P]
  /\ \A m \in I : Cardinality(part[m]) = n[m]
  /\ \A m, o \in I : m # o => part[m] \cap part[o] = {}
  /\ \A q \in P : \E m \in I : q \in part[m]

(* U has n[m] units for each m in I. *)
UnitsOf(U, I, n) == \A u : u \in U <=> \E m \in I : \E j \in 1..n[m] : u = <<m, j>>

(* A sum is counted by the members of disjoint sets. *)
LEMMA SumIsCount ==
  ASSUME NEW P, NEW I, NEW n, NEW part, NEW U,
         IsFiniteSet(P), PartsOf(P, I, n, part), UnitsOf(U, I, n)
  PROVE  IsFiniteSet(U) /\ Cardinality(U) = Cardinality(P)
<1> USE DEF PartsOf, UnitsOf
<1> DEFINE F == [m \in I |-> CHOOSE f : f \in Bijection(1..n[m], part[m])]
           G == [u \in U |-> F[u[1]][u[2]]]
<1>1. IsFiniteSet(P)
  OBVIOUS
<1>2. ASSUME NEW m \in I PROVE F[m] \in Bijection(1..n[m], part[m])
  <2>1. IsFiniteSet(part[m])
    BY FS_Subset
  <2>2. ExistsBijection(1..n[m], part[m])
    BY <2>1, FS_CardinalityType
  <2> QED BY <2>2 DEF ExistsBijection
<1> HIDE DEF F
<1>3. ASSUME NEW m \in I
      PROVE  /\ F[m] \in [1..n[m] -> part[m]]
             /\ \A j, k \in 1..n[m] : F[m][j] = F[m][k] => j = k
             /\ \A q \in part[m] : \E j \in 1..n[m] : F[m][j] = q
  BY <1>2 DEF Bijection, Injection, Surjection, IsInjective
<1>4. \A u : u \in U <=> \E m \in I : \E j \in 1..n[m] : u = <<m, j>>
  OBVIOUS
<1>5. \A m \in I : \A j \in 1..n[m] : <<m, j>> \in U /\ G[<<m, j>>] = F[m][j] /\ F[m][j] \in part[m]
  BY <1>3, <1>4
<1>6. G \in [U -> P]
  <2>1. \A u \in U : F[u[1]][u[2]] \in P
    <3> SUFFICES ASSUME NEW u \in U PROVE F[u[1]][u[2]] \in P
      OBVIOUS
    <3>0. PICK m \in I : \E j \in 1..n[m] : u = <<m, j>>
      BY <1>4
    <3>1. PICK j \in 1..n[m] : u = <<m, j>>
      BY <3>0
    <3>2. F[u[1]][u[2]] \in part[m]
      BY <1>5, <3>1
    <3> QED BY <3>2
  <2> QED BY <2>1
<1> HIDE DEF G
<1>7. ASSUME NEW u \in U, NEW w \in U, G[u] = G[w] PROVE u = w
  <2>1. PICK m \in I : \E j \in 1..n[m] : u = <<m, j>>
    BY <1>4
  <2>2. PICK j \in 1..n[m] : u = <<m, j>>
    BY <2>1
  <2>3. PICK o \in I : \E k \in 1..n[o] : w = <<o, k>>
    BY <1>4
  <2>4. PICK k \in 1..n[o] : w = <<o, k>>
    BY <2>3
  <2>5. F[m][j] = F[o][k] /\ F[m][j] \in part[m] /\ F[o][k] \in part[o]
    BY <1>5, <1>7, <2>2, <2>4
  <2>6. m = o
    BY <2>5
  <2>7. j = k
    BY <1>3, <2>5, <2>6
  <2> QED BY <2>2, <2>4, <2>6, <2>7
<1>8. ASSUME NEW q \in P PROVE \E u \in U : G[u] = q
  <2>1. PICK m \in I : q \in part[m]
    OBVIOUS
  <2>2. PICK j \in 1..n[m] : F[m][j] = q
    BY <1>3, <2>1
  <2>3. <<m, j>> \in U /\ G[<<m, j>>] = q
    BY <1>5, <2>2
  <2> QED BY <2>3
<1>9. G \in Injection(U, P) /\ G \in Surjection(U, P)
  BY <1>6, <1>7, <1>8 DEF Injection, Surjection, IsInjective
<1> QED BY <1>1, <1>9, FS_Injection

(* What is kept of the k-th trace that ended. *)
Trace(k) == Kept(digested[k])
Cells == (1..Len(digested)) \X (1..MAX_STACK_DEPTH)

(* Where l stands in the traces, where it is called, where it calls.        *)
Places(l) == {p \in Cells : p[2] <= Len(Trace(p[1])) /\ Trace(p[1])[p[2]] = l}
CalledAt(l) == {p \in Places(l) : p[2] < Len(Trace(p[1]))}
CallsAt(l) == {p \in Cells : p[2] < Len(Trace(p[1])) /\ Trace(p[1])[p[2] + 1] = l}
RootAt(l) == {k \in Traces : Trace(k)[Len(Trace(k))] = l}

LEMMA TraceFrames ==
  ASSUME DigestInv, NEW k \in 1..Len(digested)
  PROVE  /\ Trace(k) \in Seq(Loc) /\ Len(Trace(k)) \in 0..MAX_STACK_DEPTH
         /\ \A j \in 1..Len(Trace(k)) : Trace(k)[j] \in Loc
         /\ digested[k] # <<>> <=> Len(Trace(k)) # 0
         /\ digested[k] # <<>> => Trace(k)[1] = digested[k][1]
<1>1. digested[k] \in Seq(Loc)
  BY ElementOfSeq DEF DigestInv
<1>2. /\ Trace(k) \in Seq(Loc) /\ Len(Trace(k)) \in 0..MAX_STACK_DEPTH
      /\ Len(Trace(k)) = IF Len(digested[k]) < MAX_STACK_DEPTH THEN Len(digested[k]) ELSE MAX_STACK_DEPTH
      /\ \A j \in 1..Len(Trace(k)) : Trace(k)[j] = digested[k][j]
  BY <1>1, KeptFrames DEF Trace
<1>3. digested[k] = <<>> <=> Len(digested[k]) = 0
  BY <1>1, EmptySeq
<1>4. digested[k] # <<>> <=> Len(Trace(k)) # 0
  BY <1>1, <1>2, <1>3, LenProperties, CallgrindAssumption
<1>5. Len(Trace(k)) # 0 => Trace(k)[1] = digested[k][1]
  BY <1>2, CallgrindAssumption
<1>6. \A j \in 1..Len(Trace(k)) : Trace(k)[j] \in Loc
  BY <1>2, ElementOfSeq
<1> QED BY <1>2, <1>4, <1>5, <1>6

LEMMA PlacesFinite ==
  ASSUME DigestInv, NEW S \in SUBSET Cells
  PROVE  IsFiniteSet(S) /\ Cardinality(S) \in Nat
<1>1. IsFiniteSet(1..Len(digested)) /\ IsFiniteSet(1..MAX_STACK_DEPTH)
  BY FS_Interval, CallgrindAssumption, LenProperties DEF DigestInv
<1>2. IsFiniteSet(Cells)
  BY <1>1, FS_Product DEF Cells
<1> QED BY <1>2, FS_Subset, FS_CardinalityType

(* What enters l from its callers is where it is called. *)
LEMMA EnteringCount ==
  ASSUME TypeOK, DigestInv, OnlyEndedTraces, NEW l \in Loc
  PROVE  Cardinality(Entering(l)) = Cardinality(CalledAt(l))
<1> DEFINE n == [m \in Loc |-> inclusive[<<m, l>>]]
           part == [m \in Loc |-> CallsOf(<<m, l>>)]
<1>1. n \in [Loc -> Nat]
  BY DEF TypeOK, Call
<1>2. ASSUME NEW m \in Loc
      PROVE  CallsOf(<<m, l>>) = {p \in CalledAt(l) : Trace(p[1])[p[2] + 1] = m}
  <2>1. CallsOf(<<m, l>>) = {p \in Cells : p[2] \in Sites(Trace(p[1]), <<m, l>>)}
    BY DEF CallsOf, Cells, Trace
  <2>2. ASSUME NEW p \in Cells
        PROVE  p[2] \in Sites(Trace(p[1]), <<m, l>>) <=> p \in CalledAt(l) /\ Trace(p[1])[p[2] + 1] = m
    <3>1. p[1] \in 1..Len(digested) /\ p[2] \in 1..MAX_STACK_DEPTH
      BY DEF Cells
    <3>2. Len(Trace(p[1])) \in Nat
      BY <3>1, TraceFrames
    <3>3. p[2] \in Sites(Trace(p[1]), <<m, l>>) <=>
            p[2] < Len(Trace(p[1])) /\ Trace(p[1])[p[2]] = l /\ Trace(p[1])[p[2] + 1] = m
      BY <3>1, <3>2 DEF Sites
    <3> QED BY <3>1, <3>2, <3>3 DEF CalledAt, Places
  <2>3. CalledAt(l) \subseteq Cells
    BY DEF CalledAt, Places
  <2> QED BY <2>1, <2>2, <2>3
<1>3. part \in [Loc -> SUBSET CalledAt(l)]
  BY <1>2
<1>4. \A m \in Loc : Cardinality(part[m]) = n[m]
  BY DEF OnlyEndedTraces, Call
<1>5. \A m, o \in Loc : m # o => part[m] \cap part[o] = {}
  BY <1>2
<1>6. \A p \in CalledAt(l) : \E m \in Loc : p \in part[m]
  <2>1. ASSUME NEW p \in CalledAt(l) PROVE \E m \in Loc : p \in part[m]
    <3>1. /\ p[1] \in 1..Len(digested) /\ p[2] \in 1..MAX_STACK_DEPTH /\ p[2] < Len(Trace(p[1]))
      BY DEF CalledAt, Places, Cells
    <3>2. p[2] + 1 \in 1..Len(Trace(p[1]))
      BY <3>1, TraceFrames
    <3>3. Trace(p[1])[p[2] + 1] \in Loc
      BY <3>1, <3>2, TraceFrames
    <3> QED BY <1>2, <3>3
  <2> QED BY <1>3, <2>1
<1>7. UnitsOf(Entering(l), Loc, n)
  <2>1. \A m \in Loc : n[m] = inclusive[<<m, l>>]
    OBVIOUS
  <2>2. \A u : u \in Entering(l) <=> \E m \in Loc : \E j \in 1..inclusive[<<m, l>>] : u = <<m, j>>
    <3>1. \A u : u \in Entering(l) <=> \E m \in Loc : u \in {m} \X (1..inclusive[<<m, l>>])
      BY DEF Entering
    <3>2. \A m, u : u \in {m} \X (1..inclusive[<<m, l>>]) <=> \E j \in 1..inclusive[<<m, l>>] : u = <<m, j>>
      BY Units
    <3>3. ASSUME NEW u \in Entering(l)
          PROVE  \E m \in Loc : \E j \in 1..inclusive[<<m, l>>] : u = <<m, j>>
      <4>1. PICK m \in Loc : u \in {m} \X (1..inclusive[<<m, l>>])
        BY <3>1
      <4>2. \E j \in 1..inclusive[<<m, l>>] : u = <<m, j>>
        BY <3>2, <4>1
      <4> QED BY <4>2
    <3>4. ASSUME NEW m \in Loc, NEW j \in 1..inclusive[<<m, l>>]
          PROVE  <<m, j>> \in Entering(l)
      <4>1. <<m, j>> \in {m} \X (1..inclusive[<<m, l>>])
        OBVIOUS
      <4> QED BY <3>1, <4>1
    <3> QED BY <3>3, <3>4
  <2> HIDE DEF n
  <2> QED BY <2>1, <2>2 DEF UnitsOf
<1>8. IsFiniteSet(CalledAt(l))
  BY PlacesFinite DEF CalledAt, Places
<1> HIDE DEF n, part
<1>9. PartsOf(CalledAt(l), Loc, n, part)
  BY <1>1, <1>3, <1>4, <1>5, <1>6 DEF PartsOf
<1> QED BY <1>7, <1>8, <1>9, SumIsCount

(* What leaves l for its callees is where it calls. *)
LEMMA LeavingCount ==
  ASSUME TypeOK, DigestInv, OnlyEndedTraces, NEW l \in Loc
  PROVE  Cardinality(Leaving(l)) = Cardinality(CallsAt(l))
<1> DEFINE n == [m \in Loc |-> inclusive[<<l, m>>]]
           part == [m \in Loc |-> CallsOf(<<l, m>>)]
<1>1. n \in [Loc -> Nat]
  BY DEF TypeOK, Call
<1>2. ASSUME NEW m \in Loc
      PROVE  CallsOf(<<l, m>>) = {p \in CallsAt(l) : Trace(p[1])[p[2]] = m}
  <2>1. CallsOf(<<l, m>>) = {p \in Cells : p[2] \in Sites(Trace(p[1]), <<l, m>>)}
    BY DEF CallsOf, Cells, Trace
  <2>2. ASSUME NEW p \in Cells
        PROVE  p[2] \in Sites(Trace(p[1]), <<l, m>>) <=> p \in CallsAt(l) /\ Trace(p[1])[p[2]] = m
    <3>1. p[1] \in 1..Len(digested) /\ p[2] \in 1..MAX_STACK_DEPTH
      BY DEF Cells
    <3>2. Len(Trace(p[1])) \in Nat
      BY <3>1, TraceFrames
    <3>3. p[2] \in Sites(Trace(p[1]), <<l, m>>) <=>
            p[2] < Len(Trace(p[1])) /\ Trace(p[1])[p[2]] = m /\ Trace(p[1])[p[2] + 1] = l
      BY <3>1, <3>2 DEF Sites
    <3> QED BY <3>1, <3>2, <3>3 DEF CallsAt
  <2>3. CallsAt(l) \subseteq Cells
    BY DEF CallsAt
  <2> QED BY <2>1, <2>2, <2>3
<1>3. part \in [Loc -> SUBSET CallsAt(l)]
  BY <1>2
<1>4. \A m \in Loc : Cardinality(part[m]) = n[m]
  BY DEF OnlyEndedTraces, Call
<1>5. \A m, o \in Loc : m # o => part[m] \cap part[o] = {}
  BY <1>2
<1>6. \A p \in CallsAt(l) : \E m \in Loc : p \in part[m]
  <2>1. ASSUME NEW p \in CallsAt(l) PROVE \E m \in Loc : p \in part[m]
    <3>1. /\ p[1] \in 1..Len(digested) /\ p[2] \in 1..MAX_STACK_DEPTH /\ p[2] < Len(Trace(p[1]))
      BY DEF CallsAt, Cells
    <3>2. p[2] \in 1..Len(Trace(p[1]))
      BY <3>1, TraceFrames
    <3>3. Trace(p[1])[p[2]] \in Loc
      BY <3>1, <3>2, TraceFrames
    <3> QED BY <1>2, <3>3
  <2> QED BY <1>3, <2>1
<1>7. UnitsOf(Leaving(l), Loc, n)
  <2>1. \A m \in Loc : n[m] = inclusive[<<l, m>>]
    OBVIOUS
  <2>2. \A u : u \in Leaving(l) <=> \E m \in Loc : \E j \in 1..inclusive[<<l, m>>] : u = <<m, j>>
    <3>1. \A u : u \in Leaving(l) <=> \E m \in Loc : u \in {m} \X (1..inclusive[<<l, m>>])
      BY DEF Leaving
    <3>2. \A m, u : u \in {m} \X (1..inclusive[<<l, m>>]) <=> \E j \in 1..inclusive[<<l, m>>] : u = <<m, j>>
      BY Units
    <3>3. ASSUME NEW u \in Leaving(l)
          PROVE  \E m \in Loc : \E j \in 1..inclusive[<<l, m>>] : u = <<m, j>>
      <4>1. PICK m \in Loc : u \in {m} \X (1..inclusive[<<l, m>>])
        BY <3>1
      <4>2. \E j \in 1..inclusive[<<l, m>>] : u = <<m, j>>
        BY <3>2, <4>1
      <4> QED BY <4>2
    <3>4. ASSUME NEW m \in Loc, NEW j \in 1..inclusive[<<l, m>>]
          PROVE  <<m, j>> \in Leaving(l)
      <4>1. <<m, j>> \in {m} \X (1..inclusive[<<l, m>>])
        OBVIOUS
      <4> QED BY <3>1, <4>1
    <3> QED BY <3>3, <3>4
  <2> HIDE DEF n
  <2> QED BY <2>1, <2>2 DEF UnitsOf
<1>8. IsFiniteSet(CallsAt(l))
  BY PlacesFinite DEF CallsAt
<1> HIDE DEF n, part
<1>9. PartsOf(CallsAt(l), Loc, n, part)
  BY <1>1, <1>3, <1>4, <1>5, <1>6 DEF PartsOf
<1> QED BY <1>7, <1>8, <1>9, SumIsCount

(* Where l stands, it is called or it is the root; and it calls or it is    *)
(* the leaf.                                                                *)
LEMMA RootCount ==
  ASSUME DigestInv, NEW l \in Loc
  PROVE  Cardinality(Places(l)) = Cardinality(RootAt(l)) + Cardinality(CalledAt(l))
<1> DEFINE Last == {p \in Places(l) : p[2] = Len(Trace(p[1]))}
           f == [k \in RootAt(l) |-> <<k, Len(Trace(k))>>]
<1>1. Places(l) \in SUBSET Cells /\ CalledAt(l) \in SUBSET Cells /\ Last \in SUBSET Cells
  BY DEF Places, CalledAt
<1>2. \A p \in Places(l) : p[2] \in Int /\ Len(Trace(p[1])) \in Int /\ p[2] <= Len(Trace(p[1]))
  BY TraceFrames DEF Places, Cells
<1>3. Places(l) = CalledAt(l) \cup Last /\ CalledAt(l) \cap Last = {}
  BY <1>2 DEF CalledAt
<1>4. Cardinality(Last) = Cardinality(RootAt(l))
  <2>1. ASSUME NEW k \in RootAt(l) PROVE <<k, Len(Trace(k))>> \in Last
    <3>1. k \in 1..Len(digested) /\ digested[k] # <<>> /\ Trace(k)[Len(Trace(k))] = l
      BY DEF RootAt, Traces
    <3>2. Len(Trace(k)) \in 1..MAX_STACK_DEPTH
      BY <3>1, TraceFrames, CallgrindAssumption
    <3>3. <<k, Len(Trace(k))>> \in Cells
      BY <3>1, <3>2 DEF Cells
    <3> QED BY <3>1, <3>2, <3>3 DEF Places
  <2>2. ASSUME NEW p \in Last PROVE p[1] \in RootAt(l) /\ p = <<p[1], Len(Trace(p[1]))>>
    <3>1. /\ p \in Cells /\ p[1] \in 1..Len(digested) /\ p[2] \in 1..MAX_STACK_DEPTH
          /\ p[2] = Len(Trace(p[1])) /\ Trace(p[1])[p[2]] = l
      BY DEF Places, Cells
    <3>2. p[1] \in Traces
      BY <3>1, TraceFrames, CallgrindAssumption DEF Traces
    <3>3. p = <<p[1], p[2]>>
      BY <3>1 DEF Cells
    <3> QED BY <3>1, <3>2, <3>3 DEF RootAt
  <2> HIDE DEF Last
  <2>3. f \in [RootAt(l) -> Last]
    BY <2>1
  <2>4. \A j, k \in RootAt(l) : f[j] = f[k] => j = k
    OBVIOUS
  <2>5. \A p \in Last : \E k \in RootAt(l) : f[k] = p
    <3> SUFFICES ASSUME NEW p \in Last PROVE \E k \in RootAt(l) : f[k] = p
      OBVIOUS
    <3>1. p[1] \in RootAt(l) /\ f[p[1]] = p
      BY <2>2
    <3> QED BY <3>1
  <2> HIDE DEF f
  <2>6. f \in Injection(RootAt(l), Last) /\ f \in Surjection(RootAt(l), Last)
    BY <2>3, <2>4, <2>5 DEF Injection, Surjection, IsInjective
  <2>7. IsFiniteSet(Last)
    BY <1>1, PlacesFinite
  <2> QED BY <2>6, <2>7, FS_Injection
<1> HIDE DEF Last
<1>5. IsFiniteSet(CalledAt(l)) /\ IsFiniteSet(Last) /\ Cardinality(CalledAt(l)) \in Nat /\ Cardinality(Last) \in Nat
  BY <1>1, PlacesFinite
<1>6. Cardinality(Places(l)) = Cardinality(CalledAt(l)) + Cardinality(Last) - Cardinality(CalledAt(l) \cap Last)
  BY <1>3, <1>5, FS_Union
<1>7. Cardinality(CalledAt(l) \cap Last) = 0
  BY <1>3, FS_EmptySet
<1> QED BY <1>4, <1>5, <1>6, <1>7

LEMMA LeafCount ==
  ASSUME DigestInv, NEW l \in Loc
  PROVE  Cardinality(Places(l)) = Cardinality(LeafAt(l)) + Cardinality(CallsAt(l))
<1> DEFINE First == {p \in Places(l) : p[2] = 1}
           Rest == {p \in Places(l) : p[2] # 1}
           f == [k \in LeafAt(l) |-> <<k, 1>>]
           g == [p \in CallsAt(l) |-> <<p[1], p[2] + 1>>]
<1>1. Places(l) \in SUBSET Cells /\ First \in SUBSET Cells /\ Rest \in SUBSET Cells
  BY DEF Places
<1>2. Places(l) = First \cup Rest /\ First \cap Rest = {}
  OBVIOUS
<1>3. Cardinality(First) = Cardinality(LeafAt(l))
  <2>1. ASSUME NEW k \in LeafAt(l) PROVE <<k, 1>> \in First
    <3>1. k \in 1..Len(digested) /\ digested[k] # <<>> /\ digested[k][1] = l
      BY DEF LeafAt, Traces
    <3>2. Len(Trace(k)) \in 1..MAX_STACK_DEPTH /\ Trace(k)[1] = l
      BY <3>1, TraceFrames, CallgrindAssumption
    <3>3. <<k, 1>> \in Cells
      BY <3>1, CallgrindAssumption DEF Cells
    <3> QED BY <3>1, <3>2, <3>3 DEF Places
  <2>2. ASSUME NEW p \in First PROVE p[1] \in LeafAt(l) /\ p = <<p[1], 1>>
    <3>1. /\ p \in Cells /\ p[1] \in 1..Len(digested) /\ p[2] = 1
          /\ 1 <= Len(Trace(p[1])) /\ Trace(p[1])[1] = l
      BY DEF Places, Cells
    <3>2. p[1] \in Traces /\ digested[p[1]][1] = l
      BY <3>1, TraceFrames DEF Traces
    <3>3. p = <<p[1], p[2]>>
      BY <3>1 DEF Cells
    <3> QED BY <3>1, <3>2, <3>3 DEF LeafAt
  <2> HIDE DEF First
  <2>3. f \in [LeafAt(l) -> First]
    BY <2>1
  <2>4. \A j, k \in LeafAt(l) : f[j] = f[k] => j = k
    OBVIOUS
  <2>5. \A p \in First : \E k \in LeafAt(l) : f[k] = p
    <3> SUFFICES ASSUME NEW p \in First PROVE \E k \in LeafAt(l) : f[k] = p
      OBVIOUS
    <3>1. p[1] \in LeafAt(l) /\ f[p[1]] = p
      BY <2>2
    <3> QED BY <3>1
  <2> HIDE DEF f
  <2>6. f \in Injection(LeafAt(l), First) /\ f \in Surjection(LeafAt(l), First)
    BY <2>3, <2>4, <2>5 DEF Injection, Surjection, IsInjective
  <2>7. IsFiniteSet(First)
    BY <1>1, PlacesFinite
  <2> QED BY <2>6, <2>7, FS_Injection
<1>4. Cardinality(Rest) = Cardinality(CallsAt(l))
  <2>1. ASSUME NEW p \in CallsAt(l) PROVE <<p[1], p[2] + 1>> \in Rest
    <3>1. /\ p[1] \in 1..Len(digested) /\ p[2] \in 1..MAX_STACK_DEPTH
          /\ p[2] < Len(Trace(p[1])) /\ Trace(p[1])[p[2] + 1] = l
      BY DEF CallsAt, Cells
    <3>2. Len(Trace(p[1])) \in 0..MAX_STACK_DEPTH
      BY <3>1, TraceFrames
    <3>3. <<p[1], p[2] + 1>> \in Cells
      BY <3>1, <3>2, CallgrindAssumption DEF Cells
    <3>4. p[2] + 1 <= Len(Trace(p[1])) /\ p[2] + 1 # 1
      BY <3>1, <3>2, CallgrindAssumption
    <3> QED BY <3>1, <3>3, <3>4 DEF Places
  <2>2. ASSUME NEW p \in Rest
        PROVE  <<p[1], p[2] - 1>> \in CallsAt(l) /\ p = <<p[1], (p[2] - 1) + 1>>
    <3>1. /\ p \in Cells /\ p[1] \in 1..Len(digested) /\ p[2] \in 2..MAX_STACK_DEPTH
          /\ p[2] <= Len(Trace(p[1])) /\ Trace(p[1])[p[2]] = l
      BY CallgrindAssumption DEF Places, Cells
    <3>2. Len(Trace(p[1])) \in 0..MAX_STACK_DEPTH
      BY <3>1, TraceFrames
    <3>3. p = <<p[1], p[2]>> /\ (p[2] - 1) + 1 = p[2]
      BY <3>1 DEF Cells
    <3>4. <<p[1], p[2] - 1>> \in Cells /\ p[2] - 1 < Len(Trace(p[1]))
      BY <3>1, <3>2, CallgrindAssumption DEF Cells
    <3> QED BY <3>1, <3>3, <3>4 DEF CallsAt
  <2>0. \A p \in CallsAt(l) : p[2] \in Int /\ p = <<p[1], p[2]>>
    BY DEF CallsAt, Cells
  <2> HIDE DEF Rest
  <2>3. g \in [CallsAt(l) -> Rest]
    BY <2>1
  <2>4. ASSUME NEW p \in CallsAt(l), NEW q \in CallsAt(l), g[p] = g[q] PROVE p = q
    <3>1. p[1] = q[1] /\ p[2] + 1 = q[2] + 1
      BY <2>4
    <3>2. p[2] = q[2]
      BY <2>0, <3>1
    <3> QED BY <2>0, <3>1, <3>2
  <2>5. \A p \in Rest : \E q \in CallsAt(l) : g[q] = p
    <3> SUFFICES ASSUME NEW p \in Rest PROVE \E q \in CallsAt(l) : g[q] = p
      OBVIOUS
    <3>1. <<p[1], p[2] - 1>> \in CallsAt(l) /\ g[<<p[1], p[2] - 1>>] = p
      BY <2>2
    <3> QED BY <3>1
  <2> HIDE DEF g
  <2>6. g \in Injection(CallsAt(l), Rest) /\ g \in Surjection(CallsAt(l), Rest)
    BY <2>3, <2>4, <2>5 DEF Injection, Surjection, IsInjective
  <2>7. IsFiniteSet(Rest)
    BY <1>1, PlacesFinite
  <2> QED BY <2>6, <2>7, FS_Injection
<1> HIDE DEF First, Rest
<1>5. IsFiniteSet(First) /\ IsFiniteSet(Rest) /\ Cardinality(First) \in Nat /\ Cardinality(Rest) \in Nat
  BY <1>1, PlacesFinite
<1>6. Cardinality(Places(l)) = Cardinality(First) + Cardinality(Rest) - Cardinality(First \cap Rest)
  BY <1>2, <1>5, FS_Union
<1>7. Cardinality(First \cap Rest) = 0
  BY <1>2, FS_EmptySet
<1> QED BY <1>3, <1>4, <1>5, <1>6, <1>7

(* callgrind_digest_stack conserves cost at every location, for any set of  *)
(* locations, any traces and any depth: both sides count where the location *)
(* stands in what was kept of the traces.                                   *)
THEOREM CostIsConserved == Spec => []CostConserved
<1>1. TypeOK /\ DigestInv /\ OnlyEndedTraces => CostConserved
  <2> SUFFICES ASSUME TypeOK, DigestInv, OnlyEndedTraces, NEW l \in Loc
               PROVE  Cardinality({k \in Traces : LET t == Kept(digested[k]) IN t[Len(t)] = l})
                        + Cardinality(Entering(l))
                      = exclusive[l] + Cardinality(Leaving(l))
    BY DEF CostConserved
  <2>1. RootAt(l) = {k \in Traces : LET t == Kept(digested[k]) IN t[Len(t)] = l}
    BY DEF RootAt, Trace
  <2>2. exclusive[l] = Cardinality(LeafAt(l))
    BY DEF OnlyEndedTraces, LeafAt
  <2>3. Cardinality(RootAt(l)) + Cardinality(CalledAt(l)) = Cardinality(LeafAt(l)) + Cardinality(CallsAt(l))
    BY RootCount, LeafCount
  <2> QED BY <2>1, <2>2, <2>3, EnteringCount, LeavingCount
<1> QED BY <1>1, CallgrindInvariant, TablesAreTheTraces, PTL
============================================================================

-------------------------- MODULE AlgorithmsProofs --------------------------
(***************************************************************************)
(* The functions of Algorithms are exact for every argument: clocks of any *)
(* number of nanoseconds in a second, texts and buffers of any length,     *)
(* command lines of any number of words.                                   *)
(***************************************************************************)
EXTENDS Algorithms, FiniteSetTheorems, WellFoundedInduction, TLAPS

(* Every step is for Zenon first and, if that does not find a proof soon,   *)
(* for the SMT solver.                                                      *)
USE ZenonT(5), SMTT(30)

----------------------------------------------------------------------------
(* Splitting a number into seconds and nanoseconds, as / and % do. *)
LEMMA Split ==
  ASSUME NEW n \in Nat
  PROVE  /\ n \div Second \in Nat
         /\ n % Second \in 0..(Second - 1)
         /\ n = (n \div Second) * Second + (n % Second)
BY SecondAssumption

(* A time is a whole number of nanoseconds. *)
LEMMA NsType == \A t \in Timespec : Ns(t) \in Nat
BY SecondAssumption DEF Timespec, Ns

(* clock_add: the deadline that main_pid computes from the start and the    *)
(* time limit is normalised and is their sum, to the nanosecond.            *)
THEOREM AddExact ==
  \A a, b \in Timespec :
    clock_add(a, b) \in Timespec /\ Ns(clock_add(a, b)) = Ns(a) + Ns(b)
<1> TAKE a, b \in Timespec
<1> DEFINE n == a.tv_nsec + b.tv_nsec
<1>1. n \in Nat /\ a.tv_sec \in Nat /\ b.tv_sec \in Nat
  BY SecondAssumption DEF Timespec
<1>2. CASE n >= Second
  <2> DEFINE q == n \div Second
             r == n % Second
  <2>1. q \in Nat /\ r \in 0..(Second - 1) /\ n = q * Second + r
    BY <1>1, Split
  <2>2. clock_add(a, b) = [tv_sec |-> a.tv_sec + b.tv_sec + q, tv_nsec |-> r]
    BY <1>2 DEF clock_add
  <2> HIDE DEF q, r
  <2>3. (a.tv_sec + b.tv_sec + q) * Second = a.tv_sec * Second + b.tv_sec * Second + q * Second
    BY <1>1, <2>1, SecondAssumption
  <2> QED BY <1>1, <2>1, <2>2, <2>3, SecondAssumption DEF Timespec, Ns
<1>3. CASE n < Second
  <2>1. clock_add(a, b) = [tv_sec |-> a.tv_sec + b.tv_sec, tv_nsec |-> n]
    BY <1>1, <1>3, SecondAssumption DEF clock_add
  <2>2. (a.tv_sec + b.tv_sec) * Second = a.tv_sec * Second + b.tv_sec * Second
    BY <1>1, SecondAssumption
  <2> QED BY <1>1, <1>3, <2>1, <2>2, SecondAssumption DEF Timespec, Ns
<1> QED BY <1>1, <1>2, <1>3, SecondAssumption

(* Whole seconds decide: a time with more of them is later, whatever its    *)
(* nanoseconds.                                                             *)
LEMMA SecondsDecide ==
  ASSUME NEW a \in Timespec, NEW b \in Timespec, a.tv_sec > b.tv_sec
  PROVE  Ns(a) > Ns(b)
<1> DEFINE d == a.tv_sec - b.tv_sec - 1
<1>1. /\ a.tv_sec \in Nat /\ b.tv_sec \in Nat /\ d \in Nat
      /\ a.tv_nsec \in 0..(Second - 1) /\ b.tv_nsec \in 0..(Second - 1)
  BY DEF Timespec
<1>2. a.tv_sec = b.tv_sec + 1 + d
  BY <1>1
<1> HIDE DEF d
<1>3. a.tv_sec * Second = b.tv_sec * Second + Second + d * Second
  BY <1>1, <1>2, SecondAssumption
<1>4. d * Second >= 0
  BY <1>1, SecondAssumption
<1> QED BY <1>1, <1>3, <1>4, SecondAssumption DEF Ns

(* clock_diff: the sign of the difference of two times, by which main_pid   *)
(* decides that the time limit has passed.                                  *)
THEOREM DiffExact ==
  \A a, b \in Timespec :
    /\ clock_diff(a, b) = 0 <=> Ns(a) = Ns(b)
    /\ clock_diff(a, b) = 1 <=> Ns(a) > Ns(b)
    /\ clock_diff(a, b) = -1 <=> Ns(a) < Ns(b)
<1> TAKE a, b \in Timespec
<1>1. /\ a.tv_sec \in Nat /\ b.tv_sec \in Nat /\ Ns(a) \in Nat /\ Ns(b) \in Nat
      /\ a.tv_nsec \in 0..(Second - 1) /\ b.tv_nsec \in 0..(Second - 1)
  BY NsType DEF Timespec
<1>2. CASE a.tv_sec = b.tv_sec
  <2>1. Ns(a) - Ns(b) = a.tv_nsec - b.tv_nsec
    BY <1>1, <1>2, SecondAssumption DEF Ns
  <2> QED BY <1>1, <1>2, <2>1, SecondAssumption DEF clock_diff
<1>3. CASE a.tv_sec > b.tv_sec
  <2>1. Ns(a) > Ns(b)
    BY <1>3, SecondsDecide
  <2> QED BY <1>1, <1>3, <2>1 DEF clock_diff
<1>4. CASE a.tv_sec < b.tv_sec
  <2>1. Ns(b) > Ns(a)
    BY <1>4, <1>1, SecondsDecide
  <2> QED BY <1>1, <1>4, <2>1 DEF clock_diff
<1> QED BY <1>1, <1>2, <1>3, <1>4

(* calc_sleep_time: nanosleep is given a valid time, the rest of the period *)
(* after what the round took, and nothing if it took longer.                *)
THEOREM SleepExact ==
  \A end, start \in Timespec : \A opt_sleep_ns \in Nat :
    Ns(end) >= Ns(start) =>
      LET spent == Ns(end) - Ns(start)
          sleep == calc_sleep_time(end, start, opt_sleep_ns)
      IN /\ sleep \in Timespec
         /\ Ns(sleep) = IF spent > opt_sleep_ns THEN 0 ELSE opt_sleep_ns - spent
<1> TAKE end, start \in Timespec
<1> TAKE opt_sleep_ns \in Nat
<1> DEFINE spent == Ns(end) - Ns(start)
           ns == sleep_ns(end, start, opt_sleep_ns)
<1> HAVE Ns(end) >= Ns(start)
<1>1. /\ end.tv_sec \in Nat /\ start.tv_sec \in Nat /\ Ns(end) \in Nat /\ Ns(start) \in Nat
      /\ end.tv_nsec \in 0..(Second - 1) /\ start.tv_nsec \in 0..(Second - 1)
  BY NsType DEF Timespec
<1>2. end.tv_sec = start.tv_sec => spent = end.tv_nsec - start.tv_nsec
  BY <1>1, SecondAssumption DEF Ns
<1>3. ns = IF spent > opt_sleep_ns THEN 0 ELSE opt_sleep_ns - spent
  BY <1>1, <1>2, SecondAssumption DEF sleep_ns
<1>4. ns \in Nat
  BY <1>1, <1>3
<1>5. calc_sleep_time(end, start, opt_sleep_ns) \in Timespec /\ Ns(calc_sleep_time(end, start, opt_sleep_ns)) = ns
  <2> HIDE DEF ns
  <2>1. CASE ns < Second
    <3>1. calc_sleep_time(end, start, opt_sleep_ns) = [tv_sec |-> 0, tv_nsec |-> ns]
      BY <2>1 DEF calc_sleep_time, ns
    <3> QED BY <1>4, <2>1, <3>1, SecondAssumption DEF Timespec, Ns
  <2>2. CASE ns >= Second
    <3> DEFINE q == ns \div Second
    <3>1. q \in Nat /\ ns - q * Second \in 0..(Second - 1)
      <4>1. q \in Nat /\ ns % Second \in 0..(Second - 1) /\ ns = q * Second + (ns % Second)
        BY <1>4, Split
      <4>2. q * Second \in Int /\ ns % Second \in Int
        BY <4>1, SecondAssumption
      <4> HIDE DEF q
      <4>3. ns - q * Second = (ns % Second)
        BY <4>1, <4>2, <1>4
      <4> QED BY <4>1, <4>3
    <3>2. calc_sleep_time(end, start, opt_sleep_ns) = [tv_sec |-> q, tv_nsec |-> ns - q * Second]
      BY <1>4, <2>2, SecondAssumption DEF calc_sleep_time, ns
    <3> HIDE DEF q
    <3> QED BY <1>4, <3>1, <3>2, SecondAssumption DEF Timespec, Ns
  <2> QED BY <1>4, <2>1, <2>2, SecondAssumption
<1> QED BY <1>3, <1>5

LEMMA TimesAreTimes == \A t \in Times : t \in Timespec
BY BoundsAssumption, SecondAssumption DEF Times, Timespec

(* Whatever times and period the sampling loop computes with, its deadline  *)
(* is the sum, clock_diff the order, and what it sleeps the rest of the     *)
(* period.                                                                  *)
THEOREM ClocksAreExact == Spec => []ClockExact
<1>1. Init => ClockExact
  BY DEF Init, Idle, ClockExact, Called
<1>2. ClockExact /\ [Next]_call => ClockExact'
  <2> SUFFICES ASSUME ClockExact, [Next]_call PROVE ClockExact'
    OBVIOUS
  <2>1. CASE UNCHANGED call
    BY <2>1 DEF ClockExact, Called
  <2>2. CASE Return
    BY <2>2 DEF Return, Idle, ClockExact, Called
  <2>3. CASE CallStrip
    BY <2>3 DEF CallStrip, ClockExact, Called
  <2>4. CASE CallEscape
    BY <2>4 DEF CallEscape, ClockExact, Called
  <2>5. CASE CallFilter
    BY <2>5 DEF CallFilter, ClockExact, Called
  <2>6. CASE CallClock
    <3>1. PICK a \in Times, b \in Times :
            call' = [f |-> "clock", a |-> a, b |-> b, sum |-> clock_add(a, b), diff |-> clock_diff(a, b)]
      BY <2>6 DEF CallClock
    <3>2. a \in Timespec /\ b \in Timespec
      BY TimesAreTimes
    <3>3. clock_add(a, b) \in Timespec /\ Ns(clock_add(a, b)) = Ns(a) + Ns(b)
      BY <3>2, AddExact
    <3>4. clock_diff(a, b) = (CASE Ns(a) < Ns(b) -> -1 [] Ns(a) > Ns(b) -> 1 [] OTHER -> 0)
      <4>1. Ns(a) \in Nat /\ Ns(b) \in Nat
        BY <3>2, NsType
      <4>2. Ns(a) < Ns(b) \/ Ns(a) > Ns(b) \/ Ns(a) = Ns(b)
        BY <4>1
      <4> QED BY <3>2, <4>1, <4>2, DiffExact
    <3>5. /\ call'.f = "clock" /\ call'.a = a /\ call'.b = b
          /\ call'.sum = clock_add(a, b) /\ call'.diff = clock_diff(a, b)
      BY <3>1
    <3> QED BY <3>3, <3>4, <3>5 DEF ClockExact, Called
  <2>7. CASE CallSleep
    <3>1. PICK a \in Times, end \in Times, period \in 0..(3 * Second) :
            /\ clock_diff(end, a) >= 0
            /\ call' = [f |-> "sleep", a |-> a, end |-> end, period |-> period,
                        sleep |-> calc_sleep_time(end, a, period)]
      BY <2>7 DEF CallSleep
    <3>2. a \in Timespec /\ end \in Timespec /\ period \in Nat
      BY TimesAreTimes, SecondAssumption
    <3>3. Ns(end) >= Ns(a)
      <4>1. Ns(a) \in Nat /\ Ns(end) \in Nat
        BY <3>2, NsType
      <4>2. clock_diff(end, a) # -1
        BY <3>1
      <4>3. ~(Ns(end) < Ns(a))
        BY <3>2, <4>2, DiffExact
      <4> QED BY <4>1, <4>3
    <3>4. /\ call'.f = "sleep" /\ call'.a = a /\ call'.end = end /\ call'.period = period
          /\ call'.sleep = calc_sleep_time(end, a, period)
      BY <3>1
    <3> QED BY <3>2, <3>3, <3>4, SleepExact DEF ClockExact, Called
  <2> QED BY <2>1, <2>2, <2>3, <2>4, <2>5, <2>6, <2>7 DEF Next
<1> QED BY <1>1, <1>2, PTL DEF Spec

----------------------------------------------------------------------------
(* Every set of natural numbers with a bound has a greatest element, which  *)
(* is the one that Max takes.                                               *)
LEMMA LeastNat ==
  ASSUME NEW T, T \subseteq Nat, T # {}
  PROVE  \E x \in T : \A y \in T : x <= y
<1> DEFINE R == OpToRel(<, Nat)
<1>1. IsWellFoundedOn(R, Nat)
  BY NatLessThanWellFounded
<1>2. \A y, x \in Nat : y < x => <<y, x>> \in R
  BY DEF OpToRel
<1> HIDE DEF R
<1>3. PICK x \in T : \A y \in T : ~(<<y, x>> \in R)
  BY <1>1, WFMin
<1>4. ASSUME NEW y \in T PROVE x <= y
  <2>1. x \in Nat /\ y \in Nat
    OBVIOUS
  <2>2. ~(y < x)
    BY <1>2, <1>3, <2>1
  <2> QED BY <2>1, <2>2
<1> QED BY <1>4

LEMMA MaxExists ==
  ASSUME NEW n \in Nat, NEW S, S \subseteq 0..n, S # {}
  PROVE  Max(S) \in S /\ \A y \in S : Max(S) >= y
<1> DEFINE T == {n - p : p \in S}
<1>1. T \subseteq Nat /\ T # {}
  <2>1. \A p \in S : n - p \in Nat
    OBVIOUS
  <2> QED BY <2>1
<1>2. PICK x \in T : \A y \in T : x <= y
  BY <1>1, LeastNat
<1>3. PICK p \in S : x = n - p
  OBVIOUS
<1>4. \A y \in S : p >= y
  <2> TAKE y \in S
  <2>1. n - y \in T
    OBVIOUS
  <2>2. n - p <= n - y
    BY <1>2, <1>3, <2>1
  <2>3. p \in 0..n /\ y \in 0..n
    OBVIOUS
  <2> QED BY <2>2, <2>3
<1> QED BY <1>3, <1>4 DEF Max

(* A text has as many characters as it has positions. *)
LEMMA TextLen ==
  ASSUME NEW chars, NEW n \in Nat, NEW text \in Texts(chars, n)
  PROVE  /\ Len(text) \in 0..n
         /\ DOMAIN text = 1..Len(text)
         /\ text \in [1..Len(text) -> chars]
         /\ text \in Seq(chars)
<1>1. PICK k \in 0..n : text \in [1..k -> chars]
  BY DEF Texts
<1>2. text \in Seq(chars) /\ DOMAIN text = 1..k /\ k \in Nat
  BY <1>1
<1>3. Len(text) = k
  BY <1>2
<1> QED BY <1>1, <1>2, <1>3

(* The two rounds of the loop: the first takes all frame delimiters, the    *)
(* second, which goes on where the first stopped, what is behind the last   *)
(* of them.                                                                 *)
LEMMA Stripped ==
  ASSUME NEW n \in Nat, NEW text, text \in Seq({Frame, Trace, Letter}), Len(text) = n,
         NEW d, NEW out, out = strip_delim(text, <<Frame, d>>)
  PROVE  /\ DOMAIN out = 1..n
         /\ \A p \in 1..n :
              out[p] = IF \/ text[p] = Frame
                          \/ text[p] = d /\ ~ \E q \in 1..n : text[q] = Frame /\ p < q
                       THEN Mark ELSE text[p]
<1> DEFINE s0 == [text |-> text, cur |-> 1]
           F == {p \in 1..n : text[p] = Frame}
           s1 == Replace(s0, Frame)
           G == Found(s1, d)
<1>1. Found(s0, Frame) = F
  BY DEF Found
<1>2. s1 = [text |-> [p \in 1..n |-> IF p \in F THEN Mark ELSE text[p]],
            cur |-> IF F = {} THEN 1 ELSE Max(F) + 1]
  BY <1>1 DEF Replace
<1>3. /\ \A p \in 1..n : s1.text[p] = IF p \in F THEN Mark ELSE text[p]
      /\ Len(s1.text) = n
      /\ s1.cur = IF F = {} THEN 1 ELSE Max(F) + 1
  <2> DEFINE t == [p \in 1..n |-> IF p \in F THEN Mark ELSE text[p]]
             c == IF F = {} THEN 1 ELSE Max(F) + 1
  <2>1. Len(t) = n /\ \A p \in 1..n : t[p] = IF p \in F THEN Mark ELSE text[p]
    OBVIOUS
  <2>2. s1 = [text |-> t, cur |-> c]
    BY <1>2
  <2> HIDE DEF s1, t, F
  <2> QED BY <2>1, <2>2
<1>4. s1.cur \in Nat /\ \A p \in 1..n : p >= s1.cur <=> \A q \in F : q < p
  <2>1. CASE F = {}
    BY <1>3, <2>1
  <2>2. CASE F # {}
    <3>1. Max(F) \in F /\ \A y \in F : Max(F) >= y
      <4>1. F \subseteq 0..n
        OBVIOUS
      <4> HIDE DEF F
      <4> QED BY <4>1, <2>2, MaxExists
    <3>2. s1.cur = Max(F) + 1
      BY <1>3, <2>2
    <3>3. PICK m : m = Max(F)
      OBVIOUS
    <3>4. m \in 1..n
      BY <3>1, <3>3
    <3>5. ASSUME NEW p \in 1..n PROVE p >= s1.cur <=> \A q \in F : q < p
      <4>1. p >= s1.cur <=> m < p
        BY <3>2, <3>3, <3>4
      <4>2. \A q \in F : q \in 1..n /\ q <= m
        BY <3>1, <3>3, <3>4
      <4>3. m \in F
        BY <3>1, <3>3
      <4> HIDE DEF F
      <4> QED BY <4>1, <4>2, <4>3, <3>4
    <3> QED BY <3>2, <3>3, <3>4, <3>5
  <2> QED BY <2>1, <2>2
<1>5. out = [p \in 1..n |-> IF p \in G THEN Mark ELSE s1.text[p]]
  <2>1. out = Replace(s1, d).text
    BY DEF strip_delim
  <2> HIDE DEF s1
  <2> QED BY <2>1, <1>3 DEF Replace
<1>6. \A p \in 1..n : p \in G <=> p >= s1.cur /\ s1.text[p] = d
  <2> HIDE DEF s1
  <2> QED BY <1>3, <1>4 DEF Found
<1> HIDE DEF s1, G
<1>7. ASSUME NEW p \in 1..n
      PROVE  out[p] = IF \/ text[p] = Frame
                         \/ text[p] = d /\ ~ \E q \in 1..n : text[q] = Frame /\ p < q
                      THEN Mark ELSE text[p]
  <2>1. out[p] = IF p \in G THEN Mark ELSE s1.text[p]
    BY <1>5
  <2>2. CASE text[p] = Frame
    <3>1. s1.text[p] = Mark
      BY <1>3, <2>2
    <3> QED BY <2>1, <2>2, <3>1
  <2>3. CASE text[p] # Frame
    <3>1. s1.text[p] = text[p]
      BY <1>3, <2>3
    <3>2. p \in G <=> text[p] = d /\ \A q \in F : q < p
      BY <1>4, <1>6, <3>1
    <3>3. (\A q \in F : q < p) <=> ~ \E q \in 1..n : text[q] = Frame /\ p < q
      <4>1. \A q \in 1..n : text[q] = Frame => (q < p <=> ~(p < q))
        BY <2>3
      <4> QED BY <4>1
    <3> QED BY <2>1, <2>3, <3>1, <3>2, <3>3
  <2> QED BY <2>2, <2>3
<1> QED BY <1>5, <1>7

(* Whatever the text, and whether or not the two delimiters are the same,   *)
(* what event_handler_fout_snprintf lets into a record is as StripExact     *)
(* says.                                                                    *)
THEOREM StripIsExact == Spec => []StripExact
<1>1. Init => StripExact
  BY DEF Init, Idle, StripExact, Called
<1>2. StripExact /\ [Next]_call => StripExact'
  <2> SUFFICES ASSUME StripExact, [Next]_call PROVE StripExact'
    OBVIOUS
  <2>1. CASE UNCHANGED call
    BY <2>1 DEF StripExact, Called
  <2>2. CASE Return
    BY <2>2 DEF Return, Idle, StripExact, Called
  <2>3. CASE CallClock
    BY <2>3 DEF CallClock, StripExact, Called
  <2>4. CASE CallSleep
    BY <2>4 DEF CallSleep, StripExact, Called
  <2>5. CASE CallEscape
    BY <2>5 DEF CallEscape, StripExact, Called
  <2>6. CASE CallFilter
    BY <2>6 DEF CallFilter, StripExact, Called
  <2>7. CASE CallStrip
    <3>1. PICK text \in Texts({Frame, Trace, Letter}, MaxText), d \in {Frame, Trace} :
            call' = [f |-> "strip", text |-> text, delims |-> <<Frame, d>>,
                     out |-> strip_delim(text, <<Frame, d>>)]
      BY <2>7 DEF CallStrip
    <3>2. PICK out : out = strip_delim(text, <<Frame, d>>)
      OBVIOUS
    <3>3. PICK n \in Nat : n = Len(text) /\ DOMAIN text = 1..n /\ text \in Seq({Frame, Trace, Letter})
      BY TextLen, BoundsAssumption
    <3>4. /\ DOMAIN out = 1..n
          /\ \A p \in 1..n :
               out[p] = IF \/ text[p] = Frame
                           \/ text[p] = d /\ ~ \E q \in 1..n : text[q] = Frame /\ p < q
                        THEN Mark ELSE text[p]
      BY <3>2, <3>3, Stripped
    <3>5. /\ call'.f = "strip" /\ call'.text = text /\ call'.delims[2] = d /\ call'.out = out
      BY <3>1, <3>2
    <3>6. ASSUME NEW p \in 1..n
          PROVE  out[p] = IF \/ text[p] = Frame
                             \/ /\ text[p] = d
                                /\ ~(d = Trace /\ \E q \in {r \in 1..n : text[r] = Frame} : p < q)
                          THEN Mark ELSE text[p]
      BY <3>4, <3>6
    <3> QED BY <3>3, <3>4, <3>5, <3>6 DEF StripExact, Called
  <2> QED BY <2>1, <2>2, <2>3, <2>4, <2>5, <2>6, <2>7 DEF Next
<1> QED BY <1>1, <1>2, PTL DEF Spec

----------------------------------------------------------------------------
(* Induction, for sets of natural numbers. *)
LEMMA NatInduct ==
  ASSUME NEW T, 0 \in T, \A n \in Nat : n \in T => n + 1 \in T
  PROVE  Nat \subseteq T
<1> SUFFICES ASSUME Nat \ T # {} PROVE FALSE
  OBVIOUS
<1>1. PICK x \in Nat \ T : \A y \in Nat \ T : x <= y
  BY LeastNat
<1>2. x # 0 /\ x - 1 \in Nat /\ ~(x <= x - 1)
  OBVIOUS
<1> QED BY <1>1, <1>2

Bare == [mode |-> "bare", text |-> <<>>]

(* The function by which ShellWord reads the first n characters of a word. *)
Reads(f, n, word) == f = [i \in 0..n |-> IF i = 0 THEN Bare ELSE Read(f[i - 1], word[i])]

LEMMA ReadsExists ==
  ASSUME NEW word
  PROVE  \A n \in Nat : \E f : Reads(f, n, word)
<1> DEFINE T == {n \in Nat : \E f : Reads(f, n, word)}
<1>1. 0 \in T
  <2>1. Reads([i \in {0} |-> Bare], 0, word)
    BY DEF Reads
  <2> QED BY <2>1
<1>2. ASSUME NEW n \in Nat, n \in T PROVE n + 1 \in T
  <2>1. PICK f : Reads(f, n, word)
    BY <1>2
  <2> DEFINE g == [i \in 0..(n + 1) |-> IF i = 0 THEN Bare ELSE Read(f[i - 1], word[i])]
  <2>2. ASSUME NEW i \in 0..(n + 1), i # 0 PROVE g[i - 1] = f[i - 1]
    <3>1. i - 1 \in 0..n /\ i - 1 \in 0..(n + 1)
      BY <2>2
    <3> QED BY <3>1, <2>1 DEF Reads
  <2> HIDE DEF g
  <2>3. g = [i \in 0..(n + 1) |-> IF i = 0 THEN Bare ELSE Read(g[i - 1], word[i])]
    BY <2>2 DEF g
  <2>4. Reads(g, n + 1, word)
    BY <2>3 DEF Reads
  <2> QED BY <2>4
<1> HIDE DEF T
<1>3. Nat \subseteq T
  BY <1>1, <1>2, NatInduct
<1> QED BY <1>3 DEF T

LEMMA WordReads ==
  ASSUME NEW word, Len(word) \in Nat
  PROVE  \E f : Reads(f, Len(word), word) /\ ShellWord(word) = f[Len(word)]
<1> DEFINE g == CHOOSE f : Reads(f, Len(word), word)
<1>1. Reads(g, Len(word), word)
  BY ReadsExists
<1>2. ShellWord(word) = g[Len(word)]
  BY DEF ShellWord, Reads, Bare
<1> HIDE DEF g
<1> QED BY <1>1, <1>2

(* Reading a word from its first character to its last is reading one       *)
(* character after the other.                                               *)
LEMMA WordNil == ShellWord(<<>>) = Bare
<1>1. Len(<<>>) = 0
  OBVIOUS
<1>2. PICK f : Reads(f, 0, <<>>) /\ ShellWord(<<>>) = f[0]
  BY <1>1, WordReads
<1> QED BY <1>2 DEF Reads

LEMMA WordAppend ==
  ASSUME NEW C, NEW word \in Seq(C), NEW c \in C
  PROVE  ShellWord(Append(word, c)) = Read(ShellWord(word), c)
<1> DEFINE more == Append(word, c)
<1>1. PICK n \in Nat : n = Len(word)
  OBVIOUS
<1>2. Len(more) = n + 1 /\ more[n + 1] = c /\ \A i \in 1..n : more[i] = word[i]
  BY <1>1
<1> HIDE DEF more
<1>3. PICK f : Reads(f, n, word) /\ ShellWord(word) = f[n]
  BY <1>1, WordReads
<1>4. PICK g : Reads(g, n + 1, more) /\ ShellWord(more) = g[n + 1]
  BY <1>2, WordReads
<1>5. \A i \in 0..n : f[i] = IF i = 0 THEN Bare ELSE Read(f[i - 1], word[i])
  BY <1>3 DEF Reads
<1>6. \A i \in 0..(n + 1) : g[i] = IF i = 0 THEN Bare ELSE Read(g[i - 1], more[i])
  BY <1>4 DEF Reads
<1> DEFINE T == {i \in Nat : i <= n => f[i] = g[i]}
<1>7. 0 \in T
  BY <1>5, <1>6
<1>8. ASSUME NEW i \in Nat, i \in T PROVE i + 1 \in T
  <2> SUFFICES ASSUME i + 1 <= n PROVE f[i + 1] = g[i + 1]
    OBVIOUS
  <2>1. /\ i + 1 \in 0..n /\ i + 1 \in 0..(n + 1) /\ i + 1 \in 1..n
        /\ i + 1 # 0 /\ (i + 1) - 1 = i /\ i <= n
    OBVIOUS
  <2>2. f[i] = g[i]
    BY <1>8, <2>1
  <2>3. more[i + 1] = word[i + 1]
    BY <1>2, <2>1
  <2> QED BY <1>5, <1>6, <2>1, <2>2, <2>3
<1> HIDE DEF T
<1>9. Nat \subseteq T
  BY <1>7, <1>8, NatInduct
<1>10. f[n] = g[n]
  BY <1>9 DEF T
<1>11. g[n + 1] = Read(g[n], c)
  <2>1. n + 1 \in 0..(n + 1) /\ n + 1 # 0 /\ (n + 1) - 1 = n
    OBVIOUS
  <2> QED BY <1>2, <1>6, <2>1
<1> QED BY <1>3, <1>4, <1>10, <1>11 DEF more

(* What the shell makes of a character in the state that shell_escape       *)
(* leaves it in.                                                            *)
LEMMA ReadCases ==
  ASSUME NEW t, NEW c
  PROVE  /\ c # Quote => Read([mode |-> "quoted", text |-> t], c) = [mode |-> "quoted", text |-> Append(t, c)]
         /\ Read([mode |-> "quoted", text |-> t], Quote) = [mode |-> "bare", text |-> t]
         /\ Read([mode |-> "bare", text |-> t], Quote) = [mode |-> "quoted", text |-> t]
         /\ Read([mode |-> "bare", text |-> t], Backslash) = [mode |-> "escaped", text |-> t]
         /\ Read([mode |-> "escaped", text |-> t], c) = [mode |-> "bare", text |-> Append(t, c)]
BY DEF Read, Quote, Backslash

(* An escaped character, read inside quotes, is the character. *)
Char == {Quote, Backslash, Letter}
Quoted(t) == [mode |-> "quoted", text |-> t]

LEMMA EscapedLen ==
  ASSUME NEW c \in Char
  PROVE  Escaped(c) \in Seq(Char) /\ Len(Escaped(c)) = IF c = Quote THEN 4 ELSE 1
<1>1. Quote \in Char /\ Backslash \in Char
  BY DEF Char
<1> HIDE DEF Char, Quote, Backslash
<1>2. CASE c = Quote
  <2>1. Escaped(c) = <<Quote, Backslash, Quote, Quote>>
    BY <1>2 DEF Escaped
  <2> QED BY <1>1, <1>2, <2>1
<1>3. CASE c # Quote
  <2>1. Escaped(c) = <<c>>
    BY <1>3 DEF Escaped
  <2> QED BY <1>3, <2>1
<1> QED BY <1>2, <1>3

LEMMA EscapedReads ==
  ASSUME NEW out \in Seq(Char), NEW t, ShellWord(out) = Quoted(t), NEW c \in Char
  PROVE  ShellWord(out \o Escaped(c)) = Quoted(Append(t, c))
<1>1. CASE c # Quote
  <2>1. out \o Escaped(c) = Append(out, c)
    BY <1>1 DEF Escaped
  <2>2. ShellWord(Append(out, c)) = Read(Quoted(t), c)
    BY WordAppend
  <2> QED BY <1>1, <2>1, <2>2, ReadCases DEF Quoted
<1>2. CASE c = Quote
  <2> DEFINE o1 == Append(out, Quote)
             o2 == Append(o1, Backslash)
             o3 == Append(o2, Quote)
             o4 == Append(o3, Quote)
  <2>1. Quote \in Char /\ Backslash \in Char
    BY DEF Char
  <2>2. o1 \in Seq(Char) /\ o2 \in Seq(Char) /\ o3 \in Seq(Char)
    BY <2>1
  <2>3. out \o Escaped(c) = o4
    BY <1>2, <2>1 DEF Escaped
  <2>4. ShellWord(o1) = [mode |-> "bare", text |-> t]
    <3>1. ShellWord(o1) = Read(ShellWord(out), Quote)
      BY <2>1, WordAppend
    <3> QED BY <3>1, ReadCases DEF Quoted
  <2> HIDE DEF o1
  <2>5. ShellWord(o2) = [mode |-> "escaped", text |-> t]
    <3>1. ShellWord(o2) = Read(ShellWord(o1), Backslash)
      BY <2>1, <2>2, WordAppend
    <3> QED BY <2>4, <3>1, ReadCases
  <2> HIDE DEF o2
  <2>6. ShellWord(o3) = [mode |-> "bare", text |-> Append(t, Quote)]
    <3>1. ShellWord(o3) = Read(ShellWord(o2), Quote)
      BY <2>1, <2>2, WordAppend
    <3> QED BY <2>5, <3>1, ReadCases, ZenonT(30)
  <2> HIDE DEF o3
  <2>7. ShellWord(o4) = Quoted(Append(t, Quote))
    <3>1. ShellWord(o4) = Read(ShellWord(o3), Quote)
      BY <2>1, <2>2, WordAppend
    <3> QED BY <2>6, <3>1, ReadCases DEF Quoted
  <2> QED BY <1>2, <2>3, <2>7
<1> QED BY <1>1, <1>2

(* The quotes among the first i characters of an argument. *)
QuotesTo(arg, i) == {j \in 1..i : arg[j] = Quote}
Quotes(arg, i) == Cardinality(QuotesTo(arg, i))

LEMMA QuotesNil == ASSUME NEW arg PROVE Quotes(arg, 0) = 0
<1>1. QuotesTo(arg, 0) = {}
  BY DEF QuotesTo
<1> QED BY <1>1, FS_EmptySet DEF Quotes

LEMMA QuotesNext ==
  ASSUME NEW arg, NEW i \in Nat
  PROVE  /\ Quotes(arg, i) \in Nat
         /\ Quotes(arg, i + 1) = IF arg[i + 1] = Quote THEN Quotes(arg, i) + 1 ELSE Quotes(arg, i)
<1>1. IsFiniteSet(QuotesTo(arg, i))
  <2>1. IsFiniteSet(1..i)
    BY FS_Interval
  <2>2. QuotesTo(arg, i) \subseteq 1..i
    BY DEF QuotesTo
  <2> QED BY <2>1, <2>2, FS_Subset
<1>2. Quotes(arg, i) \in Nat
  BY <1>1, FS_CardinalityType DEF Quotes
<1>3. CASE arg[i + 1] = Quote
  <2>1. QuotesTo(arg, i + 1) = QuotesTo(arg, i) \cup {i + 1}
    BY <1>3 DEF QuotesTo
  <2>2. i + 1 \notin QuotesTo(arg, i)
    BY DEF QuotesTo
  <2> QED BY <1>1, <1>2, <1>3, <2>1, <2>2, FS_AddElement DEF Quotes
<1>4. CASE arg[i + 1] # Quote
  <2>1. QuotesTo(arg, i + 1) = QuotesTo(arg, i)
    BY <1>4 DEF QuotesTo
  <2> QED BY <1>2, <1>4, <2>1 DEF Quotes
<1> QED BY <1>2, <1>3, <1>4

(* What the loop of shell_escape has written after i characters: it has     *)
(* failed exactly if they do not fit, and otherwise the shell reads them    *)
(* back from inside the quotes.                                             *)
Escapes(s, arg, i, size) ==
  /\ s \in [rv : {0, 1}, out : Seq(Char)]
  /\ Len(s.out) <= size
  /\ s.rv = 0 <=> 1 + i + 3 * Quotes(arg, i) <= size
  /\ s.rv = 0 => /\ Len(s.out) = 1 + i + 3 * Quotes(arg, i)
                 /\ ShellWord(s.out) = Quoted([j \in 1..i |-> arg[j]])

LEMMA EscapeStart ==
  ASSUME NEW arg, NEW size \in Nat \ {0}
  PROVE  Escapes([rv |-> 0, out |-> <<Quote>>], arg, 0, size)
<1>1. <<Quote>> \in Seq(Char) /\ Len(<<Quote>>) = 1 /\ <<Quote>> = Append(<<>>, Quote)
  BY DEF Char
<1>2. ShellWord(<<Quote>>) = Quoted(<<>>)
  <2>1. <<>> \in Seq(Char) /\ Quote \in Char
    BY DEF Char
  <2>2. ShellWord(<<Quote>>) = Read(ShellWord(<<>>), Quote)
    BY <1>1, <2>1, WordAppend
  <2> QED BY <2>2, WordNil, ReadCases DEF Bare, Quoted
<1>3. [j \in 1..0 |-> arg[j]] = <<>>
  OBVIOUS
<1> QED BY <1>1, <1>2, <1>3, QuotesNil DEF Escapes

LEMMA EscapeStep ==
  ASSUME NEW arg, NEW size \in Nat \ {0}, NEW i \in Nat, arg[i + 1] \in Char,
         NEW s, Escapes(s, arg, i, size)
  PROVE  Escapes(Put(s, arg[i + 1], size), arg, i + 1, size)
<1>1. PICK c \in Char : c = arg[i + 1]
  OBVIOUS
<1>2. PICK q \in Nat : q = Quotes(arg, i)
  BY QuotesNext
<1>3. Quotes(arg, i + 1) = IF c = Quote THEN q + 1 ELSE q
  BY <1>1, <1>2, QuotesNext
<1>4. PICK k \in Nat : k = Len(Escaped(c)) /\ k = IF c = Quote THEN 4 ELSE 1
  BY EscapedLen
<1>5. 1 + (i + 1) + 3 * Quotes(arg, i + 1) = 1 + i + 3 * q + k
  BY <1>3, <1>4
<1>6. /\ s \in [rv : {0, 1}, out : Seq(Char)] /\ s.rv \in {0, 1} /\ s.out \in Seq(Char)
      /\ Len(s.out) \in Nat /\ Len(s.out) <= size
      /\ s.rv = 0 <=> 1 + i + 3 * q <= size
      /\ s.rv = 0 => Len(s.out) = 1 + i + 3 * q /\ ShellWord(s.out) = Quoted([j \in 1..i |-> arg[j]])
  BY <1>2 DEF Escapes
<1>7. CASE s.rv = 1 \/ size - Len(s.out) < k
  <2> DEFINE t == [s EXCEPT !.rv = 1]
  <2>1. Put(s, arg[i + 1], size) = t
    BY <1>1, <1>4, <1>7 DEF Put
  <2>2. t \in [rv : {0, 1}, out : Seq(Char)] /\ t.rv = 1 /\ t.out = s.out
    BY <1>6
  <2>3. ~(1 + i + 3 * q + k <= size)
    BY <1>4, <1>6, <1>7
  <2> HIDE DEF t
  <2> QED BY <1>5, <1>6, <2>1, <2>2, <2>3 DEF Escapes
<1>8. CASE s.rv = 0 /\ ~(size - Len(s.out) < k)
  <2> DEFINE t == [s EXCEPT !.out = @ \o Escaped(c)]
  <2>1. Put(s, arg[i + 1], size) = t
    BY <1>1, <1>4, <1>6, <1>8 DEF Put
  <2>2. s.out \o Escaped(c) \in Seq(Char) /\ Len(s.out \o Escaped(c)) = Len(s.out) + k
    <3>1. PICK e \in Seq(Char) : e = Escaped(c)
      BY EscapedLen
    <3>2. s.out \o e \in Seq(Char) /\ Len(s.out \o e) = Len(s.out) + Len(e)
      BY <1>6
    <3> QED BY <1>4, <3>1, <3>2
  <2>3. t \in [rv : {0, 1}, out : Seq(Char)] /\ t.rv = 0 /\ t.out = s.out \o Escaped(c)
    BY <1>6, <1>8, <2>2
  <2>4. ShellWord(s.out \o Escaped(c)) = Quoted(Append([j \in 1..i |-> arg[j]], c))
    BY <1>6, <1>8, EscapedReads
  <2>5. Append([j \in 1..i |-> arg[j]], c) = [j \in 1..(i + 1) |-> arg[j]]
    BY <1>1
  <2> HIDE DEF t
  <2>6. /\ Len(t.out) = 1 + i + 3 * q + k
        /\ 1 + i + 3 * q + k <= size
    <3>1. PICK l \in Nat : l = Len(s.out)
      BY <1>6
    <3>2. l = 1 + i + 3 * q /\ ~(size - l < k)
      BY <1>6, <1>8, <3>1
    <3>3. Len(t.out) = l + k
      BY <2>2, <2>3, <3>1
    <3> QED BY <3>2, <3>3
  <2> QED BY <1>5, <2>1, <2>3, <2>4, <2>5, <2>6 DEF Escapes
<1> QED BY <1>6, <1>7, <1>8

Opened == [rv |-> 0, out |-> <<Quote>>]

(* The function by which shell_escape goes through n characters. *)
Puts(f, n, arg, size) == f = [i \in 0..n |-> IF i = 0 THEN Opened ELSE Put(f[i - 1], arg[i], size)]

LEMMA PutsExists ==
  ASSUME NEW arg, NEW size
  PROVE  \A n \in Nat : \E f : Puts(f, n, arg, size)
<1> DEFINE T == {n \in Nat : \E f : Puts(f, n, arg, size)}
<1>1. 0 \in T
  <2>1. Puts([i \in {0} |-> Opened], 0, arg, size)
    BY DEF Puts
  <2> QED BY <2>1
<1>2. ASSUME NEW n \in Nat, n \in T PROVE n + 1 \in T
  <2>1. PICK f : Puts(f, n, arg, size)
    BY <1>2
  <2> DEFINE g == [i \in 0..(n + 1) |-> IF i = 0 THEN Opened ELSE Put(f[i - 1], arg[i], size)]
  <2>2. ASSUME NEW i \in 0..(n + 1), i # 0 PROVE g[i - 1] = f[i - 1]
    <3>1. i - 1 \in 0..n /\ i - 1 \in 0..(n + 1)
      BY <2>2
    <3> QED BY <3>1, <2>1 DEF Puts
  <2> HIDE DEF g
  <2>3. g = [i \in 0..(n + 1) |-> IF i = 0 THEN Opened ELSE Put(g[i - 1], arg[i], size)]
    BY <2>2 DEF g
  <2>4. Puts(g, n + 1, arg, size)
    BY <2>3 DEF Puts
  <2> QED BY <2>4
<1> HIDE DEF T
<1>3. Nat \subseteq T
  BY <1>1, <1>2, NatInduct
<1> QED BY <1>3 DEF T

LEMMA PutsEscape ==
  ASSUME NEW n \in Nat, NEW arg, \A i \in 1..n : arg[i] \in Char, NEW size \in Nat \ {0},
         NEW f, Puts(f, n, arg, size)
  PROVE  Escapes(f[n], arg, n, size)
<1>1. \A i \in 0..n : f[i] = IF i = 0 THEN Opened ELSE Put(f[i - 1], arg[i], size)
  BY DEF Puts
<1> DEFINE T == {i \in Nat : i <= n => Escapes(f[i], arg, i, size)}
<1>2. 0 \in T
  BY <1>1, EscapeStart DEF Opened
<1>3. ASSUME NEW i \in Nat, i \in T PROVE i + 1 \in T
  <2> SUFFICES ASSUME i + 1 <= n PROVE Escapes(f[i + 1], arg, i + 1, size)
    OBVIOUS
  <2>1. i + 1 \in 0..n /\ i + 1 \in 1..n /\ i + 1 # 0 /\ (i + 1) - 1 = i /\ i <= n
    OBVIOUS
  <2>2. Escapes(f[i], arg, i, size) /\ arg[i + 1] \in Char
    BY <1>3, <2>1
  <2>3. f[i + 1] = Put(f[i], arg[i + 1], size)
    BY <1>1, <2>1
  <2> QED BY <2>2, <2>3, EscapeStep
<1> HIDE DEF T
<1>4. Nat \subseteq T
  BY <1>2, <1>3, NatInduct
<1> QED BY <1>4 DEF T

(* shell_escape for an argument and a buffer of any length. *)
LEMMA ShellEscaped ==
  ASSUME NEW arg \in Seq(Char), NEW n \in Nat, n = Len(arg), NEW size \in Nat \ {0},
         NEW res, res = shell_escape(arg, size)
  PROVE  /\ Len(res.out) <= size
         /\ res.rv = 0 <=> n + 3 * Quotes(arg, n) + 3 <= size
         /\ res.rv = 0 => /\ Len(res.out) < size
                          /\ ShellWord(res.out) = [mode |-> "bare", text |-> arg]
<1> DEFINE g == CHOOSE f : Puts(f, n, arg, size)
           body == g[n]
<1>1. Puts(g, n, arg, size)
  BY PutsExists
<1>2. res = IF body.rv = 1 \/ size - Len(body.out) < 2 THEN [body EXCEPT !.rv = 1]
            ELSE [body EXCEPT !.out = Append(@, Quote)]
  BY DEF shell_escape, Puts, Opened
<1> HIDE DEF g
<1>3. Escapes(body, arg, n, size)
  BY <1>1, PutsEscape
<1> HIDE DEF body
<1>4. PICK q \in Nat : q = Quotes(arg, n)
  BY QuotesNext
<1>5. [j \in 1..n |-> arg[j]] = arg
  OBVIOUS
<1>6. /\ body \in [rv : {0, 1}, out : Seq(Char)] /\ body.rv \in {0, 1} /\ body.out \in Seq(Char)
      /\ Len(body.out) \in Nat /\ Len(body.out) <= size
      /\ body.rv = 0 <=> 1 + n + 3 * q <= size
      /\ body.rv = 0 => Len(body.out) = 1 + n + 3 * q /\ ShellWord(body.out) = Quoted(arg)
  <2>1. /\ body \in [rv : {0, 1}, out : Seq(Char)] /\ Len(body.out) <= size
        /\ body.rv = 0 <=> 1 + n + 3 * q <= size
        /\ body.rv = 0 => Len(body.out) = 1 + n + 3 * q
    BY <1>3, <1>4 DEF Escapes
  <2>2. body.rv = 0 => ShellWord(body.out) = Quoted([j \in 1..n |-> arg[j]])
    BY <1>3 DEF Escapes
  <2>3. body.rv \in {0, 1} /\ body.out \in Seq(Char)
    BY <2>1
  <2>4. Len(body.out) \in Nat
    BY <2>3
  <2>5. body.rv = 0 => ShellWord(body.out) = Quoted(arg)
    BY <2>2, <1>5, Zenon
  <2> QED BY <2>1, <2>3, <2>4, <2>5
<1>7. PICK l \in Nat : l = Len(body.out)
  BY <1>6
<1>8. CASE body.rv = 1 \/ size - l < 2
  <2>1. res = [body EXCEPT !.rv = 1]
    BY <1>2, <1>7, <1>8
  <2>2. res.rv = 1 /\ res.out = body.out
    BY <1>6, <2>1
  <2>3. ~(n + 3 * q + 3 <= size)
    BY <1>6, <1>7, <1>8
  <2> QED BY <1>4, <1>6, <2>2, <2>3
<1>9. CASE body.rv = 0 /\ ~(size - l < 2)
  <2>1. res = [body EXCEPT !.out = Append(@, Quote)]
    BY <1>2, <1>6, <1>7, <1>9
  <2>2. res.rv = 0 /\ res.out = Append(body.out, Quote)
    BY <1>6, <1>9, <2>1
  <2>3. Quote \in Char
    BY DEF Char
  <2>4. Len(res.out) = l + 1
    BY <1>6, <1>7, <2>2, <2>3
  <2>5. ShellWord(res.out) = [mode |-> "bare", text |-> arg]
    <3>1. ShellWord(res.out) = Read(ShellWord(body.out), Quote)
      BY <1>6, <2>2, <2>3, WordAppend
    <3> QED BY <1>6, <1>9, <3>1, ReadCases DEF Quoted
  <2>6. l = 1 + n + 3 * q
    BY <1>6, <1>7, <1>9
  <2>7. n + 3 * q + 3 <= size /\ l + 1 < size
    BY <1>9, <2>6
  <2>8. Len(res.out) <= size /\ Len(res.out) < size
    BY <2>4, <2>7
  <2> QED BY <1>4, <2>2, <2>5, <2>7, <2>8
<1> QED BY <1>6, <1>8, <1>9

(* Whatever quotes and backslashes are in a path or a pattern, and however  *)
(* small the buffer, shell_escape stays within it and, if it succeeds, the  *)
(* shell reads the argument back.                                           *)
THEOREM EscapeIsExact == Spec => []EscapeExact
<1>1. Init => EscapeExact
  BY DEF Init, Idle, EscapeExact, Called
<1>2. EscapeExact /\ [Next]_call => EscapeExact'
  <2> SUFFICES ASSUME EscapeExact, [Next]_call PROVE EscapeExact'
    OBVIOUS
  <2>1. CASE UNCHANGED call
    BY <2>1 DEF EscapeExact, Called
  <2>2. CASE Return
    BY <2>2 DEF Return, Idle, EscapeExact, Called
  <2>3. CASE CallClock
    BY <2>3 DEF CallClock, EscapeExact, Called
  <2>4. CASE CallSleep
    BY <2>4 DEF CallSleep, EscapeExact, Called
  <2>5. CASE CallStrip
    BY <2>5 DEF CallStrip, EscapeExact, Called
  <2>6. CASE CallFilter
    BY <2>6 DEF CallFilter, EscapeExact, Called
  <2>7. CASE CallEscape
    <3>1. PICK arg \in Texts(Char, MaxText), size \in 1..(4 * MaxText + 3) :
            call' = [f |-> "escape", arg |-> arg, size |-> size, res |-> shell_escape(arg, size)]
      BY <2>7 DEF CallEscape, Char
    <3>2. PICK res : res = shell_escape(arg, size)
      OBVIOUS
    <3>3. PICK n \in Nat : n = Len(arg) /\ DOMAIN arg = 1..n /\ arg \in Seq(Char)
      BY TextLen, BoundsAssumption
    <3>4. size \in Nat \ {0}
      BY BoundsAssumption
    <3>5. /\ Len(res.out) <= size
          /\ res.rv = 0 <=> n + 3 * Quotes(arg, n) + 3 <= size
          /\ res.rv = 0 => /\ Len(res.out) < size
                           /\ ShellWord(res.out) = [mode |-> "bare", text |-> arg]
      BY <3>2, <3>3, <3>4, ShellEscaped
    <3>6. Quotes(arg, n) = Cardinality({i \in DOMAIN arg : arg[i] = Quote})
      BY <3>3 DEF Quotes, QuotesTo
    <3>7. /\ call'.f = "escape" /\ call'.arg = arg /\ call'.size = size /\ call'.res = res
      BY <3>1, <3>2
    <3>8. /\ Len(res.out) <= size
          /\ (res.rv = 0) = (Len(arg) + 3 * Cardinality({i \in DOMAIN arg : arg[i] = Quote}) + 3 <= size)
          /\ res.rv = 0 => /\ Len(res.out) < size
                           /\ ShellWord(res.out) = [mode |-> "bare", text |-> arg]
      BY <3>3, <3>5, <3>6
    <3> QED BY <3>7, <3>8, Zenon DEF EscapeExact, Called
  <2> QED BY <2>1, <2>2, <2>3, <2>4, <2>5, <2>6, <2>7 DEF Next
<1> QED BY <1>1, <1>2, PTL DEF Spec

----------------------------------------------------------------------------
(* Command lines: the words, the options with their arguments, and what     *)
(* parse_opts makes of them.                                                *)
Dropped == {"o", "1", "t"}
Word == [opt : {"o", "n", "1", "q", "--", "#", "@", "none"}, arg : {"none", "x"}]
Given == {"o", "n", "1", "q", "--", "#", "@", "p", "none"} \X Word
Parsed == [opts : Seq(Given), open : {"none", "o", "n", "p", "#"}, ended : BOOLEAN, command : Seq(Word)]

LEMMA WordsAreWords == \A w \in Words : w \in Word
BY DEF Words, Word, Option, Joined, Plain, None

LEMMA FilterCases ==
  ASSUME NEW w \in Words, w # Joined("o", "x")
  PROVE  /\ w \in Word /\ filter_child_arg(w) \in Word
         /\ w.opt \notin Dropped => filter_child_arg(w) = w
         /\ w.opt \in Dropped => \/ w = Option("o") /\ filter_child_arg(w) = Option("#")
                                 \/ w = Option("1") /\ filter_child_arg(w) = Option("@")
BY DEF Words, Word, Option, Joined, Plain, None, filter_child_arg, Dropped

(* Word by word, what the rest of the command line has made of the words    *)
(* before, for the parent and for the child.                                *)
SpareWords(command) == \A i \in 1..Len(command) : command[i].opt \notin Dropped
SpareArgs(opts) == \A i \in 1..Len(opts) : opts[i][2].opt \notin Dropped
Spares(s) == SpareWords(s.command) /\ SpareArgs(s.opts)

SameGiven(x, y) == IF x[1] \in Dropped THEN y[1] \in {"#", "@"} ELSE y = x
SameOpts(own, childs) ==
  Len(childs) = Len(own) /\ \A i \in 1..Len(own) : SameGiven(own[i], childs[i])
Same(s, c) ==
  /\ c.ended = s.ended
  /\ c.command = s.command
  /\ c.open = IF s.open = "o" THEN "#" ELSE s.open
  /\ SameOpts(s.opts, c.opts)

LEMMA SpareWordsAppend ==
  ASSUME NEW command \in Seq(Word), NEW w \in Word, SpareWords(Append(command, w))
  PROVE  SpareWords(command) /\ w.opt \notin Dropped
<1>1. PICK n \in Nat : n = Len(command)
  OBVIOUS
<1>2. Len(Append(command, w)) = n + 1 /\ \A i \in 1..n : Append(command, w)[i] = command[i]
  BY <1>1
<1>3. Append(command, w)[n + 1] = w
  BY <1>1
<1>4. \A i \in 1..n : i \in 1..(n + 1)
  OBVIOUS
<1>5. n + 1 \in 1..(n + 1)
  OBVIOUS
<1> QED BY <1>1, <1>2, <1>3, <1>4, <1>5, Zenon DEF SpareWords

LEMMA SpareArgsAppend ==
  ASSUME NEW opts \in Seq(Given), NEW o \in Given, SpareArgs(Append(opts, o))
  PROVE  SpareArgs(opts) /\ o[2].opt \notin Dropped
<1>1. PICK n \in Nat : n = Len(opts)
  OBVIOUS
<1>2. Len(Append(opts, o)) = n + 1 /\ \A i \in 1..n : Append(opts, o)[i] = opts[i]
  BY <1>1
<1>3. Append(opts, o)[n + 1] = o
  BY <1>1
<1>4. \A i \in 1..n : i \in 1..(n + 1)
  OBVIOUS
<1>5. n + 1 \in 1..(n + 1)
  OBVIOUS
<1> QED BY <1>1, <1>2, <1>3, <1>4, <1>5, Zenon DEF SpareArgs

LEMMA SameOptsAppend ==
  ASSUME NEW own \in Seq(Given), NEW childs \in Seq(Given), SameOpts(own, childs),
         NEW x \in Given, NEW y \in Given, SameGiven(x, y)
  PROVE  SameOpts(Append(own, x), Append(childs, y))
<1>1. PICK n \in Nat : n = Len(own)
  OBVIOUS
<1>2. n = Len(childs)
  BY <1>1 DEF SameOpts
<1>3. /\ Len(Append(own, x)) = n + 1 /\ Len(Append(childs, y)) = n + 1
      /\ \A i \in 1..n : Append(own, x)[i] = own[i] /\ Append(childs, y)[i] = childs[i]
      /\ Append(own, x)[n + 1] = x /\ Append(childs, y)[n + 1] = y
  <2>1. /\ Len(Append(own, x)) = n + 1 /\ Append(own, x)[n + 1] = x
        /\ \A i \in 1..n : Append(own, x)[i] = own[i]
    BY <1>1
  <2>2. /\ Len(Append(childs, y)) = n + 1 /\ Append(childs, y)[n + 1] = y
        /\ \A i \in 1..n : Append(childs, y)[i] = childs[i]
    BY <1>2
  <2> QED BY <2>1, <2>2
<1>4. \A i \in 1..n : SameGiven(own[i], childs[i])
  BY <1>1 DEF SameOpts
<1>5. \A i \in 1..(n + 1) : i \in 1..n \/ i = n + 1
  OBVIOUS
<1>6. ASSUME NEW i \in 1..(n + 1) PROVE SameGiven(Append(own, x)[i], Append(childs, y)[i])
  BY <1>3, <1>4, <1>5, Zenon
<1> QED BY <1>3, <1>6 DEF SameOpts

(* The six things a word can be, one after the other. *)
InCommand(s) == s.command # <<>> \/ s.ended = TRUE
IsArg(s) == ~InCommand(s) /\ s.open # "none"
Free(s) == ~InCommand(s) /\ s.open = "none"
Waits(w) == w.opt \in TakesArg /\ w.arg = None
IsOption(w) == w.opt # "none" /\ w # EndOfOptions
HasEnded(s) == s.ended = TRUE

LEMMA ReadCommand ==
  ASSUME NEW s \in Parsed, NEW w \in Word, InCommand(s), NEW r, r = ReadWord(s, w)
  PROVE  /\ r \in Parsed /\ r.opts = s.opts /\ r.open = s.open /\ r.ended = s.ended
         /\ r.command = Append(s.command, w)
<1>1. r = [s EXCEPT !.command = Append(@, w)]
  BY DEF ReadWord, InCommand
<1>2. s.command \in Seq(Word)
  BY DEF Parsed
<1>3. Append(s.command, w) \in Seq(Word)
  BY <1>2
<1> QED BY <1>1, <1>3 DEF Parsed

LEMMA ReadArg ==
  ASSUME NEW s \in Parsed, NEW w \in Word, IsArg(s), NEW r, r = ReadWord(s, w)
  PROVE  /\ r \in Parsed /\ <<s.open, w>> \in Given /\ r.opts = Append(s.opts, <<s.open, w>>)
         /\ r.open = "none" /\ r.ended = s.ended /\ r.command = s.command
<1>1. s.opts \in Seq(Given) /\ s.open \in {"none", "o", "n", "p", "#"} /\ s.ended \in BOOLEAN
  BY DEF Parsed
<1>2. r = [s EXCEPT !.opts = Append(@, <<s.open, w>>), !.open = None]
  BY <1>1 DEF ReadWord, IsArg, InCommand, None
<1>3. <<s.open, w>> \in Given
  BY <1>1 DEF Given
<1>4. Append(s.opts, <<s.open, w>>) \in Seq(Given)
  BY <1>1, <1>3
<1> QED BY <1>2, <1>3, <1>4 DEF Parsed, None

LEMMA ReadFirst ==
  ASSUME NEW s \in Parsed, NEW w \in Word, Free(s), w.opt = "none", NEW r, r = ReadWord(s, w)
  PROVE  /\ r \in Parsed /\ r.opts = s.opts /\ r.open = s.open /\ r.ended = s.ended
         /\ r.command = <<w>>
<1>1. r = [s EXCEPT !.command = <<w>>]
  BY DEF ReadWord, Free, InCommand, None, Parsed
<1>2. <<w>> \in Seq(Word)
  OBVIOUS
<1> QED BY <1>1, <1>2 DEF Parsed

LEMMA ReadEnd ==
  ASSUME NEW s \in Parsed, NEW w \in Word, Free(s), w = EndOfOptions, NEW r, r = ReadWord(s, w)
  PROVE  /\ r \in Parsed /\ r.opts = s.opts /\ r.open = s.open /\ HasEnded(r)
         /\ r.command = s.command
<1>1. r = [s EXCEPT !.ended = TRUE]
  BY DEF ReadWord, Free, InCommand, None, Parsed, EndOfOptions, Option
<1> QED BY <1>1 DEF Parsed, HasEnded

LEMMA ReadWaits ==
  ASSUME NEW s \in Parsed, NEW w \in Word, Free(s), IsOption(w), Waits(w), NEW r, r = ReadWord(s, w)
  PROVE  /\ r \in Parsed /\ r.opts = s.opts /\ r.open = w.opt /\ r.ended = s.ended
         /\ r.command = s.command
<1>1. r = [s EXCEPT !.open = w.opt]
  BY DEF ReadWord, Free, InCommand, None, Parsed, IsOption, Waits
<1> QED BY <1>1 DEF Parsed, Waits, TakesArg

LEMMA ReadOption ==
  ASSUME NEW s \in Parsed, NEW w \in Word, Free(s), IsOption(w), ~Waits(w), NEW r, r = ReadWord(s, w)
  PROVE  /\ r \in Parsed /\ <<w.opt, Plain(w.arg)>> \in Given
         /\ r.opts = Append(s.opts, <<w.opt, Plain(w.arg)>>)
         /\ r.open = s.open /\ r.ended = s.ended /\ r.command = s.command
<1>1. r = [s EXCEPT !.opts = Append(@, <<w.opt, Plain(w.arg)>>)]
  BY DEF ReadWord, Free, InCommand, None, Parsed, IsOption, Waits
<1>2. <<w.opt, Plain(w.arg)>> \in Given
  BY DEF Given, Word, Plain, None
<1>3. s.opts \in Seq(Given)
  BY DEF Parsed
<1>4. Append(s.opts, <<w.opt, Plain(w.arg)>>) \in Seq(Given)
  BY <1>2, <1>3
<1> QED BY <1>1, <1>2, <1>4 DEF Parsed

LEMMA WordCases ==
  ASSUME NEW s \in Parsed, NEW w \in Word
  PROVE  \/ InCommand(s) \/ IsArg(s)
         \/ Free(s) /\ (w.opt = "none" \/ w = EndOfOptions \/ IsOption(w))
BY DEF InCommand, IsArg, Free, IsOption

LEMMA ReadType ==
  ASSUME NEW s \in Parsed, NEW w \in Word
  PROVE  ReadWord(s, w) \in Parsed
BY WordCases, ReadCommand, ReadArg, ReadFirst, ReadEnd, ReadWaits, ReadOption

(* A word that spares -o, -1 and -t leaves the words before it as they were. *)
LEMMA SparesBefore ==
  ASSUME NEW s \in Parsed, NEW w \in Word, Spares(ReadWord(s, w))
  PROVE  Spares(s)
<1>0. PICK r : r = ReadWord(s, w)
  OBVIOUS
<1>a. s.opts \in Seq(Given) /\ s.command \in Seq(Word)
  BY DEF Parsed
<1>1. CASE InCommand(s)
  <2>1. r.opts = s.opts /\ r.command = Append(s.command, w)
    BY <1>0, <1>1, ReadCommand
  <2>2. SpareWords(Append(s.command, w)) /\ SpareArgs(s.opts)
    BY <1>0, <2>1 DEF Spares
  <2> QED BY <1>a, <2>2, SpareWordsAppend DEF Spares
<1>2. CASE IsArg(s)
  <2>1. PICK o \in Given : r.opts = Append(s.opts, o) /\ r.command = s.command
    BY <1>0, <1>2, ReadArg
  <2>2. SpareWords(s.command) /\ SpareArgs(Append(s.opts, o))
    BY <1>0, <2>1 DEF Spares
  <2> QED BY <1>a, <2>2, SpareArgsAppend DEF Spares
<1>3. CASE Free(s) /\ w.opt = "none"
  <2>1. s.command = <<>>
    BY <1>3 DEF Free, InCommand
  <2> QED BY <1>0, <1>3, <2>1, ReadFirst DEF Spares, SpareWords
<1>4. CASE Free(s) /\ w = EndOfOptions
  BY <1>0, <1>4, ReadEnd DEF Spares
<1>5. CASE Free(s) /\ IsOption(w) /\ Waits(w)
  BY <1>0, <1>5, ReadWaits DEF Spares
<1>6. CASE Free(s) /\ IsOption(w) /\ ~Waits(w)
  <2>1. PICK o \in Given : r.opts = Append(s.opts, o) /\ r.command = s.command
    BY <1>0, <1>6, ReadOption
  <2>2. SpareWords(s.command) /\ SpareArgs(Append(s.opts, o))
    BY <1>0, <2>1 DEF Spares
  <2> QED BY <1>a, <2>2, SpareArgsAppend DEF Spares
<1> QED BY <1>1, <1>2, <1>3, <1>4, <1>5, <1>6, WordCases

(* Parent and child read a word, and the word that filter_child_arg made of *)
(* it, to the same effect.                                                  *)
LEMMA SameStep ==
  ASSUME NEW s \in Parsed, NEW c \in Parsed, Same(s, c),
         NEW w \in Words, w # Joined("o", "x"), Spares(ReadWord(s, w))
  PROVE  Same(ReadWord(s, w), ReadWord(c, filter_child_arg(w)))
<1>1. PICK v : v = filter_child_arg(w)
  OBVIOUS
<1>2. /\ w \in Word /\ v \in Word
      /\ w.opt \notin Dropped => v = w
      /\ w.opt \in Dropped => (w = Option("o") /\ v = Option("#")) \/ (w = Option("1") /\ v = Option("@"))
  BY <1>1, FilterCases
<1>3. PICK r : r = ReadWord(s, w)
  OBVIOUS
<1>4. PICK q : q = ReadWord(c, v)
  OBVIOUS
<1>5. /\ s.opts \in Seq(Given) /\ s.command \in Seq(Word) /\ s.open \in {"none", "o", "n", "p", "#"}
      /\ c.opts \in Seq(Given) /\ c.command \in Seq(Word)
  BY DEF Parsed
<1>6. /\ c.ended = s.ended /\ c.command = s.command /\ SameOpts(s.opts, c.opts)
      /\ c.open = IF s.open = "o" THEN "#" ELSE s.open
  BY DEF Same
<1>7. SpareWords(r.command) /\ SpareArgs(r.opts)
  BY <1>3 DEF Spares
<1>8. /\ InCommand(s) <=> InCommand(c)
      /\ IsArg(s) <=> IsArg(c)
      /\ Free(s) <=> Free(c)
  <2>1. InCommand(s) <=> InCommand(c)
    BY <1>6 DEF InCommand
  <2>2. s.open = "none" <=> c.open = "none"
    BY <1>6
  <2> QED BY <2>1, <2>2 DEF IsArg, Free
<1>9. Same(r, q)
  <2>1. CASE InCommand(s)
    <3>1. r.opts = s.opts /\ r.open = s.open /\ r.ended = s.ended /\ r.command = Append(s.command, w)
      BY <1>2, <1>3, <2>1, ReadCommand
    <3>2. q.opts = c.opts /\ q.open = c.open /\ q.ended = c.ended /\ q.command = Append(c.command, v)
      BY <1>2, <1>4, <1>8, <2>1, ReadCommand
    <3>3. SpareWords(Append(s.command, w))
      BY <1>7, <3>1
    <3>4. w = v
      BY <1>2, <1>5, <3>3, SpareWordsAppend
    <3> QED BY <1>6, <3>1, <3>2, <3>4 DEF Same
  <2>2. CASE IsArg(s)
    <3>1. /\ <<s.open, w>> \in Given /\ r.opts = Append(s.opts, <<s.open, w>>)
          /\ r.open = "none" /\ r.ended = s.ended /\ r.command = s.command
      BY <1>2, <1>3, <2>2, ReadArg
    <3>2. /\ <<c.open, v>> \in Given /\ q.opts = Append(c.opts, <<c.open, v>>)
          /\ q.open = "none" /\ q.ended = c.ended /\ q.command = c.command
      BY <1>2, <1>4, <1>8, <2>2, ReadArg
    <3>3. SpareArgs(Append(s.opts, <<s.open, w>>))
      BY <1>7, <3>1
    <3>4. <<s.open, w>>[2].opt \notin Dropped
      BY <1>5, <3>1, <3>3, SpareArgsAppend
    <3>5. w = v
      BY <1>2, <3>4
    <3>6. SameGiven(<<s.open, w>>, <<c.open, v>>)
      BY <1>5, <1>6, <3>5 DEF SameGiven, Dropped
    <3>7. SameOpts(r.opts, q.opts)
      BY <1>5, <1>6, <3>1, <3>2, <3>6, SameOptsAppend
    <3> QED BY <1>6, <3>1, <3>2, <3>7 DEF Same
  <2>3. CASE Free(s) /\ w.opt = "none"
    <3>1. v = w
      BY <1>2, <2>3 DEF Dropped
    <3>2. r.opts = s.opts /\ r.open = s.open /\ r.ended = s.ended /\ r.command = <<w>>
      BY <1>2, <1>3, <2>3, ReadFirst
    <3>3. q.opts = c.opts /\ q.open = c.open /\ q.ended = c.ended /\ q.command = <<w>>
      BY <1>2, <1>4, <1>8, <2>3, <3>1, ReadFirst
    <3> QED BY <1>6, <3>2, <3>3 DEF Same
  <2>4. CASE Free(s) /\ w = EndOfOptions
    <3>1. v = w
      BY <1>2, <2>4 DEF Dropped, EndOfOptions, Option
    <3>2. r.opts = s.opts /\ r.open = s.open /\ HasEnded(r) /\ r.command = s.command
      BY <1>2, <1>3, <2>4, ReadEnd
    <3>3. q.opts = c.opts /\ q.open = c.open /\ HasEnded(q) /\ q.command = c.command
      BY <1>2, <1>4, <1>8, <2>4, <3>1, ReadEnd
    <3>4. q.ended = r.ended
      BY <3>2, <3>3 DEF HasEnded
    <3> QED BY <1>6, <3>2, <3>3, <3>4 DEF Same
  <2>5. CASE Free(s) /\ IsOption(w) /\ Waits(w)
    <3>1. /\ IsOption(v) /\ Waits(v)
          /\ v.opt = IF w.opt = "o" THEN "#" ELSE w.opt
      BY <1>2, <2>5 DEF Dropped, IsOption, Waits, TakesArg, Option, EndOfOptions, None
    <3>2. r.opts = s.opts /\ r.open = w.opt /\ r.ended = s.ended /\ r.command = s.command
      BY <1>2, <1>3, <2>5, ReadWaits
    <3>3. q.opts = c.opts /\ q.open = v.opt /\ q.ended = c.ended /\ q.command = c.command
      BY <1>2, <1>4, <1>8, <2>5, <3>1, ReadWaits
    <3> QED BY <1>6, <3>1, <3>2, <3>3 DEF Same
  <2>6. CASE Free(s) /\ IsOption(w) /\ ~Waits(w)
    <3>1. /\ IsOption(v) /\ ~Waits(v)
          /\ v = w \/ (w.opt = "1" /\ v.opt = "@")
          /\ w.opt \in Dropped => v.opt = "@"
      BY <1>2, <2>6 DEF Dropped, IsOption, Waits, TakesArg, Option, EndOfOptions, None
    <3>2. /\ <<w.opt, Plain(w.arg)>> \in Given /\ r.opts = Append(s.opts, <<w.opt, Plain(w.arg)>>)
          /\ r.open = s.open /\ r.ended = s.ended /\ r.command = s.command
      BY <1>2, <1>3, <2>6, ReadOption
    <3>3. /\ <<v.opt, Plain(v.arg)>> \in Given /\ q.opts = Append(c.opts, <<v.opt, Plain(v.arg)>>)
          /\ q.open = c.open /\ q.ended = c.ended /\ q.command = c.command
      BY <1>2, <1>4, <1>8, <2>6, <3>1, ReadOption
    <3>4. SameGiven(<<w.opt, Plain(w.arg)>>, <<v.opt, Plain(v.arg)>>)
      <4>1. CASE w.opt \in Dropped
        BY <3>1, <4>1 DEF SameGiven
      <4>2. CASE w.opt \notin Dropped
        BY <3>1, <4>2 DEF SameGiven, Dropped
      <4> QED BY <4>1, <4>2
    <3>5. SameOpts(r.opts, q.opts)
      BY <1>5, <1>6, <3>2, <3>3, <3>4, SameOptsAppend
    <3> QED BY <1>6, <3>2, <3>3, <3>5 DEF Same
  <2> QED BY <1>2, <2>1, <2>2, <2>3, <2>4, <2>5, <2>6, WordCases
<1> QED BY <1>1, <1>3, <1>4, <1>9

(* The function by which parse_opts goes through n words. *)
Parses(f, n, argv) == f = [i \in 0..n |-> IF i = 0 THEN NoWords ELSE ReadWord(f[i - 1], argv[i])]

LEMMA ParsesExists ==
  ASSUME NEW argv
  PROVE  \A n \in Nat : \E f : Parses(f, n, argv)
<1> DEFINE T == {n \in Nat : \E f : Parses(f, n, argv)}
<1>1. 0 \in T
  <2>1. Parses([i \in {0} |-> NoWords], 0, argv)
    BY DEF Parses
  <2> QED BY <2>1
<1>2. ASSUME NEW n \in Nat, n \in T PROVE n + 1 \in T
  <2>1. PICK f : Parses(f, n, argv)
    BY <1>2
  <2> DEFINE g == [i \in 0..(n + 1) |-> IF i = 0 THEN NoWords ELSE ReadWord(f[i - 1], argv[i])]
  <2>2. ASSUME NEW i \in 0..(n + 1), i # 0 PROVE g[i - 1] = f[i - 1]
    <3>1. i - 1 \in 0..n /\ i - 1 \in 0..(n + 1)
      BY <2>2
    <3> QED BY <3>1, <2>1 DEF Parses
  <2> HIDE DEF g
  <2>3. g = [i \in 0..(n + 1) |-> IF i = 0 THEN NoWords ELSE ReadWord(g[i - 1], argv[i])]
    BY <2>2 DEF g
  <2>4. Parses(g, n + 1, argv)
    BY <2>3 DEF Parses
  <2> QED BY <2>4
<1> HIDE DEF T
<1>3. Nat \subseteq T
  BY <1>1, <1>2, NatInduct
<1> QED BY <1>3 DEF T

LEMMA ParsesWords ==
  ASSUME NEW argv, NEW n \in Nat, n = Len(argv)
  PROVE  \E f : Parses(f, n, argv) /\ parse_opts(argv) = f[n]
<1> DEFINE g == CHOOSE f : Parses(f, n, argv)
<1>1. Parses(g, n, argv)
  BY ParsesExists
<1>2. parse_opts(argv) = g[n]
  BY DEF parse_opts, Parses
<1> HIDE DEF g
<1> QED BY <1>1, <1>2

LEMMA NoWordsSame == NoWords \in Parsed /\ Same(NoWords, NoWords)
<1>1. NoWords \in Parsed
  BY DEF NoWords, Parsed, None
<1>2. SameOpts(<<>>, <<>>)
  BY DEF SameOpts
<1> QED BY <1>1, <1>2 DEF NoWords, Same, None

LEMMA ParseType ==
  ASSUME NEW argv \in Seq(Words)
  PROVE  parse_opts(argv) \in Parsed
<1>1. PICK n \in Nat : n = Len(argv)
  OBVIOUS
<1>2. PICK f : Parses(f, n, argv) /\ parse_opts(argv) = f[n]
  BY <1>1, ParsesWords
<1>3. \A i \in 0..n : f[i] = IF i = 0 THEN NoWords ELSE ReadWord(f[i - 1], argv[i])
  BY <1>2 DEF Parses
<1> DEFINE T == {i \in Nat : i <= n => f[i] \in Parsed}
<1>4. 0 \in T
  BY <1>3, NoWordsSame
<1>5. ASSUME NEW i \in Nat, i \in T PROVE i + 1 \in T
  <2> SUFFICES ASSUME i + 1 <= n PROVE f[i + 1] \in Parsed
    OBVIOUS
  <2>1. i + 1 \in 0..n /\ i + 1 \in 1..n /\ i + 1 # 0 /\ (i + 1) - 1 = i /\ i <= n
    OBVIOUS
  <2>2. f[i] \in Parsed
    BY <1>5, <2>1
  <2>3. argv[i + 1] \in Word
    BY <1>1, <2>1, WordsAreWords
  <2>4. f[i + 1] = ReadWord(f[i], argv[i + 1])
    BY <1>3, <2>1
  <2> QED BY <2>2, <2>3, <2>4, ReadType
<1> HIDE DEF T
<1>6. Nat \subseteq T
  BY <1>4, <1>5, NatInduct
<1> QED BY <1>2, <1>6 DEF T

(* top mode's child and its parent, on a command line of any length. *)
LEMMA ChildParses ==
  ASSUME NEW argv \in Seq(Words), \A i \in 1..Len(argv) : argv[i] # Joined("o", "x"),
         Spares(parse_opts(argv))
  PROVE  /\ parse_opts(argv) \in Parsed /\ parse_opts(filter_child_args(argv)) \in Parsed
         /\ Same(parse_opts(argv), parse_opts(filter_child_args(argv)))
<1>1. PICK n \in Nat : n = Len(argv)
  OBVIOUS
<1>2. PICK child : child = filter_child_args(argv)
  OBVIOUS
<1>3. Len(child) = n /\ \A i \in 1..n : child[i] = filter_child_arg(argv[i])
  BY <1>1, <1>2 DEF filter_child_args
<1>4. PICK f : Parses(f, n, argv) /\ parse_opts(argv) = f[n]
  BY <1>1, ParsesWords
<1>5. PICK g : Parses(g, n, child) /\ parse_opts(child) = g[n]
  BY <1>3, ParsesWords
<1>6. \A i \in 0..n : f[i] = IF i = 0 THEN NoWords ELSE ReadWord(f[i - 1], argv[i])
  BY <1>4 DEF Parses
<1>7. \A i \in 0..n : g[i] = IF i = 0 THEN NoWords ELSE ReadWord(g[i - 1], child[i])
  BY <1>5 DEF Parses
<1> DEFINE P(i) == f[i] \in Parsed /\ g[i] \in Parsed /\ (Spares(f[i]) => Same(f[i], g[i]))
           T == {i \in Nat : i <= n => P(i)}
<1>8. 0 \in T
  <2>1. f[0] = NoWords /\ g[0] = NoWords
    BY <1>6, <1>7
  <2> QED BY <2>1, NoWordsSame
<1>9. ASSUME NEW i \in Nat, i \in T PROVE i + 1 \in T
  <2> SUFFICES ASSUME i + 1 <= n PROVE P(i + 1)
    OBVIOUS
  <2>1. i + 1 \in 0..n /\ i + 1 \in 1..n /\ i + 1 # 0 /\ (i + 1) - 1 = i /\ i <= n
    OBVIOUS
  <2>2. f[i] \in Parsed /\ g[i] \in Parsed /\ (Spares(f[i]) => Same(f[i], g[i]))
    BY <1>9, <2>1
  <2>3. PICK w : w = argv[i + 1]
    OBVIOUS
  <2>4. w \in Words /\ w # Joined("o", "x")
    BY <1>1, <2>1, <2>3
  <2>5. f[i + 1] = ReadWord(f[i], w) /\ g[i + 1] = ReadWord(g[i], filter_child_arg(w))
    <3>1. f[i + 1] = ReadWord(f[i], w)
      BY <1>6, <2>1, <2>3
    <3>2. child[i + 1] = filter_child_arg(w)
      BY <1>3, <2>1, <2>3
    <3>3. g[i + 1] = ReadWord(g[i], filter_child_arg(w))
      BY <1>7, <2>1, <3>2
    <3> QED BY <3>1, <3>3
  <2>6. w \in Word /\ filter_child_arg(w) \in Word
    BY <2>4, FilterCases
  <2>7. f[i + 1] \in Parsed /\ g[i + 1] \in Parsed
    BY <2>2, <2>5, <2>6, ReadType
  <2>8. ASSUME Spares(f[i + 1]) PROVE Same(f[i + 1], g[i + 1])
    <3>1. Spares(f[i])
      BY <2>2, <2>5, <2>6, <2>8, SparesBefore
    <3> QED BY <2>2, <2>4, <2>5, <2>8, <3>1, SameStep
  <2> QED BY <2>7, <2>8
<1> HIDE DEF T
<1>10. Nat \subseteq T
  BY <1>8, <1>9, NatInduct
<1>11. P(n)
  BY <1>10 DEF T
<1> QED BY <1>2, <1>4, <1>5, <1>11

(* On a command line of any length, top mode's child has the options and    *)
(* the command of its parent, as ChildSameOptions says.                     *)
THEOREM ChildIsTheSame == Spec => []ChildSameOptions
<1>1. Init => ChildSameOptions
  BY DEF Init, Idle, ChildSameOptions, Called
<1>2. ChildSameOptions /\ [Next]_call => ChildSameOptions'
  <2> SUFFICES ASSUME ChildSameOptions, [Next]_call PROVE ChildSameOptions'
    OBVIOUS
  <2>1. CASE UNCHANGED call
    BY <2>1 DEF ChildSameOptions, Called
  <2>2. CASE Return
    BY <2>2 DEF Return, Idle, ChildSameOptions, Called
  <2>3. CASE CallClock
    BY <2>3 DEF CallClock, ChildSameOptions, Called
  <2>4. CASE CallSleep
    BY <2>4 DEF CallSleep, ChildSameOptions, Called
  <2>5. CASE CallStrip
    BY <2>5 DEF CallStrip, ChildSameOptions, Called
  <2>6. CASE CallEscape
    BY <2>6 DEF CallEscape, ChildSameOptions, Called
  <2>7. CASE CallFilter
    <3>1. PICK argv \in Texts(Words, MaxArgs) :
            call' = [f |-> "filter", argv |-> argv,
                     own |-> parse_opts(argv), childs |-> parse_opts(filter_child_args(argv))]
      BY <2>7 DEF CallFilter
    <3>2. argv \in Seq(Words) /\ DOMAIN argv = 1..Len(argv)
      BY TextLen, BoundsAssumption
    <3>3. PICK s : s = parse_opts(argv)
      OBVIOUS
    <3>4. PICK c : c = parse_opts(filter_child_args(argv))
      OBVIOUS
    <3>5. call'.f = "filter" /\ call'.argv = argv /\ call'.own = s /\ call'.childs = c
      BY <3>1, <3>3, <3>4
    <3>6. ASSUME \A i \in DOMAIN s.command : s.command[i].opt \notin Dropped,
                 \A i \in DOMAIN s.opts : s.opts[i][2].opt \notin Dropped,
                 \A i \in DOMAIN argv : argv[i] # Joined("o", "x")
          PROVE  /\ DOMAIN c.opts = DOMAIN s.opts
                 /\ \A i \in DOMAIN s.opts : IF s.opts[i][1] \in Dropped THEN c.opts[i][1] \in {"#", "@"}
                                              ELSE c.opts[i] = s.opts[i]
                 /\ c.command = s.command
      <4>1. s \in Parsed
        BY <3>2, <3>3, ParseType
      <4>2. s.opts \in Seq(Given) /\ s.command \in Seq(Word)
        BY <4>1 DEF Parsed
      <4>3. DOMAIN s.opts = 1..Len(s.opts) /\ DOMAIN s.command = 1..Len(s.command)
        BY <4>2
      <4>4. Spares(s)
        BY <3>6, <4>3 DEF Spares, SpareWords, SpareArgs
      <4>5. c \in Parsed /\ Same(s, c)
        BY <3>2, <3>3, <3>4, <3>6, <4>4, ChildParses
      <4>6. c.opts \in Seq(Given)
        BY <4>5 DEF Parsed
      <4>7. DOMAIN c.opts = 1..Len(c.opts)
        BY <4>6
      <4> QED BY <4>3, <4>5, <4>7 DEF Same, SameOpts, SameGiven
    <3> QED BY <3>5, <3>6, Zenon DEF ChildSameOptions, Called, Dropped
  <2> QED BY <2>1, <2>2, <2>3, <2>4, <2>5, <2>6, <2>7 DEF Next
<1> QED BY <1>1, <1>2, PTL DEF Spec
============================================================================

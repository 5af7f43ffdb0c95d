----------------------------- MODULE Algorithms -----------------------------
(***************************************************************************)
(* Parts of phpspy that compute a result from their arguments alone,       *)
(* called with every argument of a bounded set and compared with what they *)
(* are for: the texts of records, times, words of shell commands and       *)
(* command lines.  DataCalls adds those that read PHP's data.              *)
(***************************************************************************)
EXTENDS Integers, Sequences, FiniteSets, StripDelim, Clock, ShellEscape, ChildArgs

CONSTANTS
  Frame, Trace,      \* opt_frame_delim and opt_trace_delim
  Letter,            \* any other character
  MaxText,           \* the longest text to strip or to escape
  MaxSecond,         \* the latest time
  MaxArgs            \* the longest command line

ASSUME BoundsAssumption == MaxText \in Nat /\ MaxSecond \in Nat /\ MaxArgs \in Nat

VARIABLE call

Called(f) == call.f = f
Idle == [f |-> "none"]

Texts(chars, n) == UNION {[1..k -> chars] : k \in 0..n}

Init == call = Idle

Return == call # Idle /\ call' = Idle

----------------------------------------------------------------------------
CallStrip ==
  /\ call = Idle
  /\ \E text \in Texts({Frame, Trace, Letter}, MaxText) :
       \E delims \in {<<Frame, Trace>>, <<Frame, Frame>>} :
         call' = [f |-> "strip", text |-> text, delims |-> delims, out |-> strip_delim(text, delims)]

(* What event_handler_fout_snprintf lets into a record: of the text, which  *)
(* keeps its length, only delimiters are replaced, always by the mark; no   *)
(* frame delimiter is left, and a trace delimiter only before the last      *)
(* frame delimiter.                                                         *)
StripExact ==
  Called("strip") =>
    LET frames == {p \in DOMAIN call.text : call.text[p] = Frame}
        missed(p) == call.delims[2] = Trace /\ \E q \in frames : p < q
    IN /\ DOMAIN call.out = DOMAIN call.text
       /\ \A p \in DOMAIN call.text :
            call.out[p] = IF \/ call.text[p] = Frame
                             \/ call.text[p] = call.delims[2] /\ ~missed(p)
                          THEN Mark ELSE call.text[p]

(* What README.md says of the output format: a trace is followed by a       *)
(* newline, so the delimiter of traces is not left in the text of a record. *)
NoTraceDelim ==
  Called("strip") => \A p \in DOMAIN call.out : call.out[p] # call.delims[2]

----------------------------------------------------------------------------
Times == [tv_sec : 0..MaxSecond, tv_nsec : 0..(Second - 1)]

CallClock ==
  /\ call = Idle
  /\ \E a, b \in Times :
       call' = [f |-> "clock", a |-> a, b |-> b, sum |-> clock_add(a, b), diff |-> clock_diff(a, b)]

(* A round that took from a to end. *)
CallSleep ==
  /\ call = Idle
  /\ \E a, end \in Times : \E period \in 0..(3 * Second) :
       /\ clock_diff(end, a) >= 0
       /\ call' = [f |-> "sleep", a |-> a, end |-> end, period |-> period,
                   sleep |-> calc_sleep_time(end, a, period)]

(* The deadline that main_pid computes is the sum of two times and          *)
(* normalised, clock_diff orders times, and what calc_sleep_time gives to   *)
(* nanosleep is a valid time: the rest of the period, or nothing once a     *)
(* round took longer than that.                                             *)
ClockExact ==
  /\ Called("clock") =>
       /\ call.sum \in Timespec
       /\ Ns(call.sum) = Ns(call.a) + Ns(call.b)
       /\ call.diff = (CASE Ns(call.a) < Ns(call.b) -> -1
                         [] Ns(call.a) > Ns(call.b) -> 1
                         [] OTHER -> 0)
  /\ Called("sleep") =>
       LET spent == Ns(call.end) - Ns(call.a)
       IN /\ call.sleep \in Timespec
          /\ Ns(call.sleep) = IF spent > call.period THEN 0 ELSE call.period - spent

----------------------------------------------------------------------------
CallEscape ==
  /\ call = Idle
  /\ \E arg \in Texts({Quote, Backslash, Letter}, MaxText) : \E size \in 1..(4 * MaxText + 3) :
       call' = [f |-> "escape", arg |-> arg, size |-> size, res |-> shell_escape(arg, size)]

(* shell_escape never writes behind its buffer; it succeeds exactly when    *)
(* the quoted argument and a NUL fit, and then the shell reads the argument *)
(* back, as one word, whatever quotes and backslashes it has.               *)
EscapeExact ==
  Called("escape") =>
    LET quotes == Cardinality({i \in DOMAIN call.arg : call.arg[i] = Quote})
        fits == Len(call.arg) + 3 * quotes + 3 <= call.size
    IN /\ Len(call.res.out) <= call.size
       /\ (call.res.rv = 0) = fits
       /\ call.res.rv = 0 =>
            /\ Len(call.res.out) < call.size
            /\ ShellWord(call.res.out) = [mode |-> "bare", text |-> call.arg]

----------------------------------------------------------------------------
Words ==
  {Option(o) : o \in {"o", "n", "1", "q", "--"}}
    \cup {Joined(o, "x") : o \in {"o", "n"}} \cup {Plain("x")}

CallFilter ==
  /\ call = Idle
  /\ \E argv \in Texts(Words, MaxArgs) :
       call' = [f |-> "filter", argv |-> argv,
                own |-> parse_opts(argv), childs |-> parse_opts(filter_child_args(argv))]

(* The phpspy that top mode runs has the same options and command as its    *)
(* parent, in the same order, but for -o, -1 and -t, each of which is one   *)
(* without a meaning to it, on each command line that joins no argument to  *)
(* -o and has none of these among the words of the command or where an      *)
(* argument is expected.                                                    *)
ChildSameOptions ==
  Called("filter") =>
    LET dropped == {"o", "1", "t"}
        Spared(w) == w.opt \notin dropped
        own == call.own.opts
        childs == call.childs.opts
    IN (/\ \A i \in DOMAIN call.own.command : Spared(call.own.command[i])
        /\ \A i \in DOMAIN own : Spared(own[i][2])
        /\ \A i \in DOMAIN call.argv : call.argv[i] # Joined("o", "x"))
       => /\ DOMAIN childs = DOMAIN own
          /\ \A i \in DOMAIN own : IF own[i][1] \in dropped THEN childs[i][1] \in {"#", "@"}
                                   ELSE childs[i] = own[i]
          /\ call.childs.command = call.own.command

----------------------------------------------------------------------------
Next ==
  \/ CallStrip
  \/ CallClock
  \/ CallSleep
  \/ CallEscape
  \/ CallFilter
  \/ Return

Spec == Init /\ [][Next]_call
============================================================================

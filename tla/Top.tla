-------------------------------- MODULE Top --------------------------------
(***************************************************************************)
(* Top mode (src/top.c): a phpspy run as a child prints traces, which are  *)
(* read in pieces of any length, cut into lines, counted per function and  *)
(* shown about once a second, while keys are pressed, the terminal is      *)
(* resized and the child writes, complains and exits.                      *)
(***************************************************************************)
EXTENDS Integers, Sequences, SequencesExt, FiniteSets, TLC

CONSTANTS
  BUF_SIZE, FUNC_SIZE,
  Lines,             \* what the child may print, without the newline
  ErrTexts,          \* what the child may write to stderr at a time
  Keys,              \* what may be typed, "q" and "p" among it
  MaxEvents          \* how many lines, errors, keys and resizes there are

VARIABLES
  pc,                \* where main_top is
  done, is_paused,
  ready,             \* the descriptors select has found readable
  pid,               \* "child", or "-1" if it could not be forked
  child,             \* none, running, exited or reaped
  signalled,         \* whom SIGTERM went to
  out, err,          \* the pipes
  tty, in, resize,   \* keys in the terminal and in termbox, and a SIGWINCH
  buf,               \* what is in it, of buf_len bytes
  func_list,         \* a sequence of [func, excl, incl, texcl, tincl]
  samp_count, total_samp_count, total_err_count,
  screen,            \* what was presented last
  got, goterr,       \* all that was read so far
  events, typed, resizes        \* what the environment has done

counts == <<func_list, samp_count, total_samp_count>>
proc == <<pid, child, signalled>>
stdout == <<out, buf, counts, got>>
stderr == <<err, total_err_count, goterr>>
keys == <<tty, in, resize>>
world == <<events, typed, resizes>>
vars == <<pc, done, is_paused, ready, proc, stdout, stderr, keys, screen, world>>

NL == "\n"
Digits == {"0", "1"}

----------------------------------------------------------------------------
(* handle_line: the frame that a line is about, if it is about one. *)
NoFrame == [first |-> FALSE, func |-> <<>>]

(* How many characters of s from position p on are in set. *)
Span(s, p, set) == Max({n \in 0..(Len(s) + 1 - p) : \A i \in p..(p + n - 1) : s[i] \in set})

parse_line(line) ==
  LET blanks == Span(line, 1, {" "})
      digits == Span(line, blanks + 1, Digits)
      zero == \A i \in (blanks + 1)..(blanks + digits) : line[i] = "0"
      end == blanks + digits + 1
      func == SubSeq(line, end + 1, Len(line))
  IN IF \/ Len(line) < 3
        \/ line[1] = "#"
        \/ zero /\ line[1] # "0"
        \/ end > Len(line)
        \/ line[end] # " "
        \/ Len(func) < 1 \/ Len(func) >= FUNC_SIZE
     THEN NoFrame ELSE [first |-> zero, func |-> func]

Entry(func) == [func |-> func, excl |-> 0, incl |-> 0, texcl |-> 0, tincl |-> 0]

(* c is [list, samp]: func_list and samp_count. *)
handle_line(c, line) ==
  LET frame == parse_line(line)
      known == \E i \in DOMAIN c.list : c.list[i].func = frame.func
      list == IF known THEN c.list ELSE Append(c.list, Entry(frame.func))
      n == IF frame.first THEN 1 ELSE 0
  IN IF frame = NoFrame THEN c
     ELSE [list |-> [i \in DOMAIN list |->
                       IF list[i].func = frame.func
                       THEN [list[i] EXCEPT !.excl = @ + n, !.incl = @ + 1] ELSE list[i]],
           samp |-> c.samp + n]

(* Mutant: one byte of the next line is lost.                               *)
Shift_too_far(text, nl) == SubSeq(text, nl + 2, Len(text))

(* The memmove behind a line that ends at nl. *)
Shift(text, nl) == SubSeq(text, nl + 1, Len(text))

(* The loop of read_child_out: every whole line in the buffer is handled. *)
RECURSIVE HandleLines(_, _)
HandleLines(c, text) ==
  IF NL \notin Range(text) THEN [c |-> c, rest |-> text]
  ELSE LET nl == CHOOSE i \in DOMAIN text : text[i] = NL /\ NL \notin Range(SubSeq(text, 1, i - 1))
       IN HandleLines(handle_line(c, SubSeq(text, 1, nl - 1)), Shift(text, nl))

(* The loop of read_child_err over what was read. The distance that it goes *)
(* on by is measured from the start of the buffer.                          *)
RECURSIVE CountErrors(_, _)
CountErrors(text, buf_pos) ==
  LET nls == {i \in (buf_pos + 1)..Len(text) : text[i] = NL}
  IN IF nls = {} THEN 0 ELSE 1 + CountErrors(text, buf_pos + Min(nls))

----------------------------------------------------------------------------
(* Negative if a goes before b, zero if either may. *)
func_list_compare(a, b) ==
  IF b.excl # a.excl THEN b.excl - a.excl
  ELSE IF b.incl # a.incl THEN b.incl - a.incl
  ELSE IF b.texcl # a.texcl THEN b.texcl - a.texcl
  ELSE b.tincl - a.tincl

(* Mutant: the other way round.                                             *)
Sorted_ascending(list) ==
  {s \in {[i \in DOMAIN list |-> list[p[i]]] : p \in Permutations(DOMAIN list)} :
     \A i \in 1..(Len(s) - 1) : func_list_compare(s[i], s[i + 1]) >= 0}

(* What qsort may make of a list. *)
Sorted(list) ==
  {s \in {[i \in DOMAIN list |-> list[p[i]]] : p \in Permutations(DOMAIN list)} :
     \A i \in 1..(Len(s) - 1) : func_list_compare(s[i], s[i + 1]) <= 0}

Totalled(e) == [e EXCEPT !.texcl = @ + e.excl, !.tincl = @ + e.incl]
Reset(e) == [e EXCEPT !.excl = 0, !.incl = 0]

display ==
  \E sorted \in Sorted(func_list) :
    LET rows == [i \in DOMAIN sorted |-> Totalled(sorted[i])]
    IN /\ func_list' = [i \in DOMAIN rows |-> Reset(rows[i])]
       /\ total_samp_count' = total_samp_count + samp_count
       /\ samp_count' = 0
       /\ screen' = IF is_paused THEN screen
                    ELSE [rows |-> rows, samp |-> samp_count,
                          total |-> total_samp_count', errs |-> total_err_count]

----------------------------------------------------------------------------
Init ==
  /\ pc = "fork" /\ pid = "-1" /\ child = "none" /\ signalled = "none"
  /\ done = FALSE /\ is_paused = FALSE /\ ready = {}
  /\ out = <<>> /\ err = <<>> /\ tty = <<>> /\ in = <<>> /\ resize = FALSE
  /\ buf = <<>> /\ func_list = <<>>
  /\ samp_count = 0 /\ total_samp_count = 0 /\ total_err_count = 0
  /\ screen = [rows |-> <<>>, samp |-> 0, total |-> 0, errs |-> 0]
  /\ got = <<>> /\ goterr = <<>>
  /\ events = 0 /\ typed = <<>> /\ resizes = 0

(* fork_child. It returns 1 if a pipe or the fork fails, which its caller   *)
(* does not take for a failure.                                             *)
fork_child ==
  /\ pc = "fork"
  /\ \/ pid' = "child" /\ child' = "running"
     \/ UNCHANGED <<pid, child>>
  /\ pc' = "loop"
  /\ UNCHANGED <<done, is_paused, ready, signalled, stdout, stderr, keys, screen, world>>

(* It displays once a second, which may have passed or not. *)
Loop ==
  /\ pc = "loop"
  /\ \/ ~done /\ display
     \/ UNCHANGED <<counts, screen>>
  /\ pc' = IF done THEN "shutdown" ELSE "select"
  /\ UNCHANGED <<done, is_paused, ready, proc, out, stderr, keys, buf, got, world>>

(* With nothing to read it waits for a second. A descriptor of -1 is never  *)
(* ready, and at the end of a pipe it always is.                            *)
Readable ==
  (IF tty # <<>> THEN {"tty"} ELSE {})
    \cup (IF pid = "child" /\ (out # <<>> \/ child = "exited") THEN {"out"} ELSE {})
    \cup (IF pid = "child" /\ (err # <<>> \/ child = "exited") THEN {"err"} ELSE {})

Select ==
  /\ pc = "select"
  /\ ready' = Readable
  /\ pc' = "out"
  /\ UNCHANGED <<done, is_paused, proc, stdout, stderr, keys, screen, world>>

SelectFails ==
  /\ pc = "select" /\ pc' = "shutdown"
  /\ UNCHANGED <<done, is_paused, ready, proc, stdout, stderr, keys, screen, world>>

(* tb_peek_event: keys that termbox has read come first, one at a time; a   *)
(* resize before keys that it reads now.                                    *)
Peek(event) ==
  \/ /\ in # <<>> /\ event = Head(in)
     /\ in' = Tail(in) /\ UNCHANGED <<tty, resize>>
  \/ /\ in = <<>> /\ resize /\ event = "resize"
     /\ resize' = FALSE /\ in' = tty /\ tty' = <<>>
  \/ /\ in = <<>> /\ ~resize /\ tty # <<>> /\ event = Head(tty)
     /\ in' = Tail(tty) /\ tty' = <<>> /\ UNCHANGED resize

(* Something happens outside, until all descriptors are closed. *)
Event ==
  /\ pc \notin {"wait", "returned"}
  /\ events < MaxEvents
  /\ events' = events + 1

(* SIGWINCH while select waits: the event is looked up, and forgotten. *)
Interrupted ==
  /\ pc = "select" /\ Event
  /\ resizes' = resizes + 1
  /\ IF in # <<>> THEN in' = Tail(in) /\ resize' = TRUE /\ UNCHANGED tty
     ELSE in' = tty /\ tty' = <<>> /\ resize' = FALSE
  /\ pc' = "loop"
  /\ UNCHANGED <<done, is_paused, ready, proc, stdout, stderr, screen, typed>>

OutEnds == done' = TRUE /\ UNCHANGED <<stdout>>

(* Any number of bytes that fit; a full buffer without a newline is emptied *)
(* first.                                                                   *)
OutRead ==
  LET kept == IF Len(buf) >= BUF_SIZE THEN <<>> ELSE buf
  IN \E n \in 1..(BUF_SIZE - Len(kept)) :
       /\ n <= Len(out)
       /\ LET text == SubSeq(out, 1, n)
              handled == HandleLines([list |-> func_list, samp |-> samp_count], kept \o text)
          IN /\ func_list' = handled.c.list
             /\ samp_count' = handled.c.samp
             /\ buf' = handled.rest
             /\ got' = got \o text
       /\ out' = SubSeq(out, n + 1, Len(out))
       /\ UNCHANGED <<done, total_samp_count>>

read_child_out ==
  /\ pc = "out"
  /\ IF "out" \notin ready THEN UNCHANGED <<done, stdout>>
     ELSE IF out = <<>> THEN OutEnds ELSE OutRead
  /\ pc' = "err"
  /\ UNCHANGED <<is_paused, ready, proc, stderr, keys, screen, world>>

(* What the child wrote at a time, at most BUF_SIZE, is read at a time. *)
read_child_err ==
  /\ pc = "err"
  /\ IF "err" \notin ready THEN UNCHANGED <<done, stderr>>
     ELSE IF err = <<>> THEN done' = TRUE /\ UNCHANGED <<stderr>>
     ELSE /\ total_err_count' = total_err_count + CountErrors(Head(err), 0)
          /\ goterr' = Append(goterr, Head(err))
          /\ err' = Tail(err)
          /\ UNCHANGED done
  /\ pc' = "tty"
  /\ UNCHANGED <<is_paused, ready, proc, stdout, keys, screen, world>>

handle_event ==
  /\ pc = "tty"
  /\ IF "tty" \notin ready THEN UNCHANGED <<done, is_paused, keys>>
     ELSE \E event \in Keys \cup {"resize"} :
            /\ Peek(event)
            /\ done' = (done \/ event = "q")
            /\ is_paused' = IF event = "p" THEN ~is_paused ELSE is_paused
  /\ ready' = {}
  /\ pc' = "loop"
  /\ UNCHANGED <<proc, stdout, stderr, screen, world>>

(* Mutant: the child is waited for, but not told to exit.                   *)
Terminate_no_kill ==
  /\ pc = "shutdown"
  /\ pc' = "wait"
  /\ UNCHANGED <<done, is_paused, ready, proc, stdout, stderr, keys, screen, world>>

(* The end of main_top. *)
Terminate ==
  /\ pc = "shutdown"
  /\ signalled' = IF pid = "child" THEN "child" ELSE "everyone"   \* kill(-1)
  /\ pc' = "wait"
  /\ UNCHANGED <<done, is_paused, ready, pid, child, stdout, stderr, keys, screen, world>>

Reap ==
  /\ pc = "wait" /\ child # "running"
  /\ child' = IF child = "exited" THEN "reaped" ELSE child
  /\ pc' = "returned"
  /\ UNCHANGED <<done, is_paused, ready, pid, signalled, stdout, stderr, keys, screen, world>>

----------------------------------------------------------------------------
(* The child and the user. *)
mine == <<pc, done, is_paused, ready, pid, signalled, buf, counts, total_err_count, screen,
          got, goterr>>

ChildPrints ==
  /\ Event /\ child = "running"
  /\ \E line \in Lines : out' = out \o line \o <<NL>>
  /\ UNCHANGED <<mine, child, err, keys, typed, resizes>>

ChildComplains ==
  /\ Event /\ child = "running"
  /\ \E text \in ErrTexts : err' = Append(err, text)
  /\ UNCHANGED <<mine, child, out, keys, typed, resizes>>

ChildExits ==
  /\ child = "running"
  /\ child' = "exited"
  /\ UNCHANGED <<mine, out, err, keys, world>>

KeyPressed ==
  /\ Event
  /\ \E k \in Keys : tty' = Append(tty, k) /\ typed' = Append(typed, k)
  /\ UNCHANGED <<mine, child, out, err, in, resize, resizes>>

(* SIGWINCH while something else goes on. *)
Resized ==
  /\ Event /\ pc # "select"
  /\ resize' = TRUE /\ resizes' = resizes + 1
  /\ UNCHANGED <<mine, child, out, err, tty, in, typed>>

Returned == pc = "returned" /\ UNCHANGED vars

Next ==
  \/ fork_child
  \/ Loop
  \/ Select
  \/ SelectFails
  \/ Interrupted
  \/ read_child_out
  \/ read_child_err
  \/ handle_event
  \/ Terminate
  \/ Reap
  \/ ChildPrints
  \/ ChildComplains
  \/ ChildExits
  \/ KeyPressed
  \/ Resized
  \/ Returned

(* A step of main_top is one that changes pc, and it can always take one    *)
(* until it returns, but for waiting for the child.                         *)
MainStep ==
  /\ pc = "wait" => child # "running"
  /\ pc' \in {"loop", "select", "out", "err", "tty", "shutdown", "wait", "returned"}
  /\ pc # "returned"

(* main_top takes its steps, and the child, another phpspy, exits once it   *)
(* was told to.                                                             *)
Fairness == WF_pc(MainStep) /\ WF_vars(ChildExits /\ signalled = "child")

Spec == Init /\ [][Next]_vars /\ Fairness

----------------------------------------------------------------------------
(* The lines in a text that ends anywhere. *)
Whole(text) ==
  FoldLeft(LAMBDA s, c : IF c = NL THEN [cur |-> <<>>, all |-> Append(s.all, s.cur)]
                         ELSE [s EXCEPT !.cur = Append(@, c)],
           [cur |-> <<>>, all |-> <<>>], text).all

(* What is left of a line that did not fit into the buffer. *)
Cut(line) == SubSeq(line, (Len(line) \div BUF_SIZE) * BUF_SIZE + 1, Len(line))

Newlines(text) == Len(SelectSeq(text, LAMBDA c : c = NL))
SumOf(f(_), list) == FoldLeft(LAMBDA n, x : n + f(x), 0, list)

(* However read cuts the child's output into pieces, read_child_out counts  *)
(* the frames of its whole lines and nothing else, each once, before and    *)
(* after any number of displays; of a line as long as the buffer only the   *)
(* rest that is left over counts. Of the lines on stderr, one or two of     *)
(* what is read at a time are counted, and none that is not there.          *)
CountsExact ==
  LET frames == [i \in DOMAIN Whole(got) |-> parse_line(Cut(Whole(got)[i]))]
      firsts(func) == Len(SelectSeq(frames, LAMBDA f : f.first /\ f.func = func))
      all(func) == Len(SelectSeq(frames, LAMBDA f : f.func = func))
  IN /\ \A i \in DOMAIN func_list :
          LET e == func_list[i]
          IN /\ e.texcl + e.excl = firsts(e.func)
             /\ e.tincl + e.incl = all(e.func)
             /\ \A j \in DOMAIN func_list : func_list[j].func = e.func => i = j
     /\ {f.func : f \in Range(frames)} \ {<<>>} = {e.func : e \in Range(func_list)}
     /\ total_samp_count + samp_count = Len(SelectSeq(frames, LAMBDA f : f.first))
     /\ total_err_count <= SumOf(Newlines, goterr)
     /\ total_err_count >= SumOf(LAMBDA t : Min({2, Newlines(t)}), goterr)

(* A screen is consistent in itself: the functions are in order by what is  *)
(* shown of them, although their totals change after they were sorted, the  *)
(* exclusive counts add up to the samples of the interval, which excl%      *)
(* divides by, and their totals to samp_count.                              *)
ScreenConsistent ==
  LET rows == screen.rows
  IN /\ \A i, j \in DOMAIN rows : i < j => func_list_compare(rows[i], rows[j]) <= 0
     /\ SumOf(LAMBDA e : e.excl, rows) = screen.samp
     /\ SumOf(LAMBDA e : e.texcl, rows) = screen.total
     /\ \A i \in DOMAIN rows : rows[i].excl <= rows[i].incl /\ rows[i].texcl <= rows[i].tincl

Ended == pc = "returned" /\ child \in {"none", "reaped"}

(* Top mode ends, and its child with it: after the child exits, whatever    *)
(* output is still unread, and after q is pressed, as long as no other key  *)
(* and no SIGWINCH makes termbox keep q to itself.                          *)
QuitEnds ==
  /\ (child = "exited") ~> Ended
  /\ (typed = <<"q">> /\ resizes = 0) ~> (Ended \/ resizes > 0 \/ Len(typed) > 1)
============================================================================

---------------------------- MODULE ShellEscape ----------------------------
(***************************************************************************)
(* shell_escape (src/addr_objdump.c), which makes a path or a pattern one  *)
(* word of a shell command, in a buffer of limited size, and how the shell *)
(* reads a word (external).                                                *)
(***************************************************************************)
EXTENDS Integers, Sequences

Quote == "'"
Backslash == "\\"

(* Mutant: the room for a quote is that of the quote alone.                 *)
Escaped_unquoted(c) == <<c>>

(* What a character becomes: a quote closes the quoting, is escaped, and    *)
(* reopens it.                                                              *)
Escaped(c) == IF c = Quote THEN <<Quote, Backslash, Quote, Quote>> ELSE <<c>>

(* One round of the loop, which ends when there is no room for a character. *)
Put(s, c, buf_size) ==
  IF s.rv = 1 \/ buf_size - Len(s.out) < Len(Escaped(c)) THEN [s EXCEPT !.rv = 1]
  ELSE [s EXCEPT !.out = @ \o Escaped(c)]

(* shell_escape; out is what has been written, also if rv is 1. *)
shell_escape(arg, buf_size) ==
  LET after[i \in 0..Len(arg)] ==
        IF i = 0 THEN [rv |-> 0, out |-> <<Quote>>] ELSE Put(after[i - 1], arg[i], buf_size)
      body == after[Len(arg)]
  IN IF body.rv = 1 \/ buf_size - Len(body.out) < 2 THEN [body EXCEPT !.rv = 1]
     ELSE [body EXCEPT !.out = Append(@, Quote)]       \* and a NUL

(* How the shell reads a character of a word, and the word. *)
Read(s, c) ==
  CASE s.mode = "quoted"  -> IF c = Quote THEN [s EXCEPT !.mode = "bare"]
                             ELSE [s EXCEPT !.text = Append(@, c)]
    [] s.mode = "escaped" -> [mode |-> "bare", text |-> Append(s.text, c)]
    [] OTHER              -> IF c = Quote THEN [s EXCEPT !.mode = "quoted"]
                             ELSE IF c = Backslash THEN [s EXCEPT !.mode = "escaped"]
                             ELSE [s EXCEPT !.text = Append(@, c)]

ShellWord(word) ==
  LET after[i \in 0..Len(word)] ==
        IF i = 0 THEN [mode |-> "bare", text |-> <<>>] ELSE Read(after[i - 1], word[i])
  IN after[Len(word)]
============================================================================

----------------------------- MODULE ChildArgs -----------------------------
(***************************************************************************)
(* The command line of the phpspy that top mode runs (src/top.c:           *)
(* filter_child_args) and how that phpspy reads it (src/phpspy.c:          *)
(* parse_opts).  A word is [opt, arg]: an option, by its letter for the    *)
(* short and the long form, and the argument joined to it; or a plain word *)
(* without an option; or "--".                                             *)
(***************************************************************************)
EXTENDS Integers, Sequences

None == "none"

Option(opt) == [opt |-> opt, arg |-> None]        \* -o, --output, -1 ...
Joined(opt, arg) == [opt |-> opt, arg |-> arg]    \* -ofile, --output=file
Plain(arg) == [opt |-> None, arg |-> arg]
EndOfOptions == Option("--")

(* Of the options with and without an argument, some: getopt's table. *)
TakesArg == {"o", "n", "p", "#"}

(* Mutant: -o becomes the option that takes no argument.                    *)
filter_child_arg_swapped(w) == IF w.opt \in {"o", "1", "t"} THEN Option("@") ELSE w

(* One word, whatever it is there for: -# is a comment and takes an         *)
(* argument as -o does, -@ means nothing.                                   *)
filter_child_arg(w) ==
  CASE w.opt = "o" -> Option("#")
    [] w.opt \in {"1", "t"} -> Option("@")
    [] OTHER -> w

filter_child_args(argv) == [i \in 1..Len(argv) |-> filter_child_arg(argv[i])]

(* What a word is to getopt, given the words before it: part of the         *)
(* command, the argument that the last option waits for, the first word of  *)
(* the command, the end of the options, or an option.                       *)
ReadWord(s, w) ==
  IF s.command # <<>> \/ s.ended THEN [s EXCEPT !.command = Append(@, w)]
  ELSE IF s.open # None THEN [s EXCEPT !.opts = Append(@, <<s.open, w>>), !.open = None]
  ELSE IF w.opt = None THEN [s EXCEPT !.command = <<w>>]
  ELSE IF w = EndOfOptions THEN [s EXCEPT !.ended = TRUE]
  ELSE IF w.opt \in TakesArg /\ w.arg = None THEN [s EXCEPT !.open = w.opt]
  ELSE [s EXCEPT !.opts = Append(@, <<w.opt, Plain(w.arg)>>)]

NoWords == [opts |-> <<>>, open |-> None, ended |-> FALSE, command |-> <<>>]

(* parse_opts: the options with their arguments, in order, and the command, *)
(* which begins with the first word that is none of them.                   *)
parse_opts(argv) ==
  LET after[i \in 0..Len(argv)] ==
        IF i = 0 THEN NoWords ELSE ReadWord(after[i - 1], argv[i])
  IN after[Len(argv)]
============================================================================

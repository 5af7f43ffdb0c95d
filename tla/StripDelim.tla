---------------------------- MODULE StripDelim ----------------------------
(***************************************************************************)
(* The loop of event_handler_fout_snprintf (src/event_fout.c) that keeps   *)
(* the delimiters out of the text of a record.  By default the two         *)
(* delimiters are the same, with -1 the frames have one of their own.      *)
(***************************************************************************)
EXTENDS Integers, Sequences, FiniteSetsExt

CONSTANT Mark   \* '?'

(* Mutant: the search for a delimiter starts a byte late.                   *)
Found_late(s, delim) == {p \in (s.cur + 1)..Len(s.text) : s.text[p] = delim}

(* memchr, again and again: where the delimiter is from the cursor on. *)
Found(s, delim) == {p \in s.cur..Len(s.text) : s.text[p] = delim}

(* One delimiter: all that are found are replaced, and the cursor, which    *)
(* the next delimiter goes on with, is left behind the last of them.        *)
Replace(s, delim) ==
  [text |-> [p \in 1..Len(s.text) |-> IF p \in Found(s, delim) THEN Mark ELSE s.text[p]],
   cur |-> IF Found(s, delim) = {} THEN s.cur ELSE Max(Found(s, delim)) + 1]

(* delims is <<opt_frame_delim, opt_trace_delim>>. *)
strip_delim(text, delims) ==
  Replace(Replace([text |-> text, cur |-> 1], delims[1]), delims[2]).text
============================================================================

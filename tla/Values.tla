------------------------------- MODULE Values -------------------------------
(***************************************************************************)
(* How values of the traced process are looked up and printed              *)
(* (src/phpspy_trace.c: copy_zarray_bucket, the sprint_ functions;         *)
(* src/phpspy.c: phpspy_zend_inline_hash_func), in memory that does not    *)
(* change meanwhile.  A text is a sequence of characters; of a number only *)
(* the digits matter.                                                      *)
(***************************************************************************)
EXTENDS Integers, Sequences, SequencesExt

CONSTANTS
  NoKey,                       \* NULL: the key of a bucket is a number
  HashBits,                    \* 64
  PHPSPY_STR_SIZE,             \* of the buffers that keys are read into
  PHPSPY_MAX_ARRAY_BUCKETS

NIL == -1                      \* the end of a chain, (uint32_t)-1

Least(a, b) == IF a < b THEN a ELSE b
Take(s, n) == SubSeq(s, 1, Least(n, Len(s)))

(* sprint_zstring: what fits, with a NUL. *)
sprint_zstring(text, buf_size) == Take(text, buf_size - 1)

----------------------------------------------------------------------------
(* A key is a text of character codes here. The hash has its top bit set.   *)
phpspy_zend_inline_hash_func(key) ==
  LET h == FoldLeft(LAMBDA hash, c : (hash * 33 + c) % 2^HashBits, 5381 % 2^HashBits, key)
  IN IF h >= 2^(HashBits - 1) THEN h ELSE h + 2^(HashBits - 1)

(* PHP's part: a bucket is put before the others of its slot. Buckets are   *)
(* numbered from 0; a numeric key n has the hash n.                         *)
EmptyArray(size) == [size |-> size, slot |-> [s \in 0..(size - 1) |-> NIL], buckets |-> <<>>]

Insert(arr, h, key) ==
  LET s == h % arr.size
  IN [arr EXCEPT !.slot[s] = Len(arr.buckets),
                 !.buckets = Append(@, [key |-> key, h |-> h, next |-> arr.slot[s]])]

(* Mutant: the chain is not followed.                                       *)
Chain_first_only(arr, key) ==
  SelectSeq(<<arr.slot[phpspy_zend_inline_hash_func(key) % arr.size]>>, LAMBDA b : b # NIL)

(* The buckets that the loop in copy_zarray_bucket may visit, in order. *)
Chain(arr, key) ==
  LET from[b \in -1..(Len(arr.buckets) - 1)] ==
        IF b = NIL THEN <<>> ELSE <<b>> \o from[arr.buckets[b + 1].next]
  IN from[arr.slot[phpspy_zend_inline_hash_func(key) % arr.size]]

(* copy_zarray_bucket: the first one with this key, or with none.           *)
(* The number of the bucket, or NIL for PHPSPY_ERR.                         *)
copy_zarray_bucket(arr, key) ==
  LET stops == SelectSeq(Chain(arr, key), LAMBDA b :
                 LET k == arr.buckets[b + 1].key
                 IN k = NoKey \/ sprint_zstring(k, PHPSPY_STR_SIZE) = key)
  IN IF stops = <<>> THEN NIL ELSE Head(stops)

----------------------------------------------------------------------------
(* A value: [type, text] for a number or a string, [type, packed, elements] *)
(* for an array, whose elements are [key, val]; any other has only a type.  *)
(* Printing gives PHPSPY_ERR or a text.                                     *)
ERR == [rv |-> 1, text |-> <<>>]
OK(text) == [rv |-> 0, text |-> text]

RECURSIVE sprint_zval(_, _)

(* What is printed behind a prefix. *)
After(prefix, val, left) ==
  LET p == sprint_zval(val, left - Len(prefix))
  IN IF p.rv = 1 THEN ERR ELSE OK(prefix \o p.text)

(* Mutant: the equals sign and the NUL are not counted.                     *)
sprint_zarray_bucket_key_only(e, left) ==
  LET key == sprint_zstring(e.key, PHPSPY_STR_SIZE)
  IN After(IF e.key # NoKey /\ left > Len(key) THEN Append(key, "=") ELSE <<>>, e.val, left)

(* The key is left out if it would leave no room for the value. *)
sprint_zarray_bucket(e, left) ==
  LET key == sprint_zstring(e.key, PHPSPY_STR_SIZE)
  IN After(IF e.key # NoKey /\ left > Len(key) + 2 THEN Append(key, "=") ELSE <<>>, e.val, left)

(* The index, of one digit here, and nothing at all if it does not fit. *)
sprint_zarray_packed(e, left) == IF left <= 2 THEN OK(<<>>) ELSE After(<<"i", "=">>, e.val, left)

(* A bound parameter, which may be a reference; "unread" stands for a       *)
(* pointer that is NULL or cannot be read.                                  *)
sprint_pdo_bind(e, left) ==
  IF e.val.type = "unread" \/ left <= Len(e.key) + 1 THEN OK(<<>>)
  ELSE After(Append(e.key, "="),
             IF e.val.type = "reference" /\ e.val.to.type # "unread" THEN e.val.to ELSE e.val, left)

(* There is room for a comma and the NUL. *)
Room(left) == left >= 2

(* The loop of sprint_zarray and sprint_pdo_binds. It ends with an error,   *)
(* or when the buffer is full; a comma at the end is taken back.            *)
List(elements, sprint(_, _), buf_size) ==
  LET Step(s, e) ==
        IF s.stop \/ e.val.type = "undef" THEN s
        ELSE LET p == sprint(e, buf_size - Len(s.text))
                 text == s.text \o p.text
             IN IF p.rv = 1 THEN [s EXCEPT !.stop = TRUE, !.rv = 1]
                ELSE IF p.text = <<>> THEN s
                ELSE IF Room(buf_size - Len(text)) THEN [s EXCEPT !.text = Append(text, ",")]
                ELSE [s EXCEPT !.text = text, !.stop = TRUE]
      all == FoldLeft(Step, [rv |-> 0, stop |-> FALSE, text |-> <<>>],
                      Take(elements, PHPSPY_MAX_ARRAY_BUCKETS))
  IN IF all.rv = 1 THEN ERR
     ELSE OK(IF all.text # <<>> /\ Last(all.text) = "," THEN Front(all.text) ELSE all.text)

sprint_zarray(arr, buf_size) ==
  IF arr.packed THEN List(arr.elements, sprint_zarray_packed, buf_size)
  ELSE List(arr.elements, sprint_zarray_bucket, buf_size)

sprint_pdo_binds(elements, buf_size) == List(elements, sprint_pdo_bind, buf_size)

sprint_zval(val, buf_size) ==
  CASE val.type \in {"long", "double", "string"} -> OK(sprint_zstring(val.text, buf_size))
    [] val.type = "array" -> sprint_zarray(val, buf_size)
    [] OTHER -> ERR
============================================================================

----------------------------- MODULE DataCalls -----------------------------
(***************************************************************************)
(* The calls of Algorithms, and those that read PHP's own data: the layout *)
(* of its structures, the lookup of a key in an array, and the printing of *)
(* nested values.                                                          *)
(***************************************************************************)
EXTENDS Algorithms, SequencesExt, Layouts, Values

CONSTANTS
  KeyChars,          \* character codes in the keys of an array
  TableSizes,        \* of a hash table
  MaxBuf             \* the largest buffer to print into

----------------------------------------------------------------------------
CompileHeader ==
  /\ call = Idle
  /\ \E arch \in DOMAIN Headers : \E phpv \in DOMAIN Headers[arch] :
       \E s \in DOMAIN Headers[arch][phpv] :
         call' = [f |-> "header", arch |-> arch, phpv |-> phpv, name |-> s,
                  struct |-> Headers[arch][phpv][s]]

(* In every header, the compiler puts each member of each structure where   *)
(* the comment beside it says it is, aligned as a member of its type has to *)
(* be, and it is not longer than the comment says. Whether the comments are *)
(* right about PHP is not part of this.                                     *)
MirrorsAsStated ==
  Called("header") =>
    \A i \in DOMAIN call.struct :
      LET m == call.struct[i]
      IN /\ OffsetOf(call.struct, i) = m.at
         /\ m.at % m.align = 0
         /\ m.size <= m.len

----------------------------------------------------------------------------
(* Arrays of two keys, some longer than the buffer they are read into, and  *)
(* perhaps a number before or behind them.                                  *)
Keys == Texts(KeyChars, PHPSPY_STR_SIZE) \ {<<>>}
Keyed(k) == [h |-> phpspy_zend_inline_hash_func(k), key |-> k]
Numbered == {[h |-> n, key |-> NoKey] : n \in 0..1}

Inputs ==
  {<<Keyed(k[1]), Keyed(k[2])>> : k \in {k \in Keys \X Keys : k[1] # k[2]}}

CallLookup ==
  /\ call = Idle
  /\ \E elements \in UNION {{es, <<n>> \o es, Append(es, n)} : es \in Inputs, n \in Numbered} :
       \E size \in TableSizes : \E key \in {k \in Keys : Len(k) < PHPSPY_STR_SIZE} :
         LET arr == FoldLeft(LAMBDA a, e : Insert(a, e.h, e.key), EmptyArray(size), elements)
         IN call' = [f |-> "lookup", arr |-> arr, key |-> key, found |-> copy_zarray_bucket(arr, key)]

(* copy_zarray_bucket finds the element with the key, in whatever chain it  *)
(* lies, and no other one in its place, with two exceptions: of what came   *)
(* later into the same slot, an element with a numeric key is taken for it, *)
(* and if the key has PHPSPY_STR_SIZE - 1 bytes, so is one whose key begins *)
(* with these bytes and goes on, as keys are cut to the buffer before they  *)
(* are compared. Either is found even if no element has the key.            *)
LookupFinds ==
  Called("lookup") =>
    LET buckets == call.arr.buckets
        at == {i \in DOMAIN buckets : buckets[i].key = call.key}
        slot == phpspy_zend_inline_hash_func(call.key) % call.arr.size
        mistaken(k) ==
          \/ k = NoKey
          \/ Len(call.key) = PHPSPY_STR_SIZE - 1 /\ IsStrictPrefix(call.key, k)
        covering == {i \in DOMAIN buckets : /\ mistaken(buckets[i].key)
                                            /\ buckets[i].h % call.arr.size = slot
                                            /\ \A j \in at : j < i}
    IN call.found = IF covering # {} THEN Max(covering) - 1
                    ELSE IF at # {} THEN Max(at) - 1 ELSE NIL

----------------------------------------------------------------------------
Leaf(text) == [type |-> "string", text |-> text]
Leaves == {Leaf(t) : t \in {<<>>, <<Letter>>, <<Letter, ",">>}} \cup {[type |-> "object"]}
Arr(packed, elements) == [type |-> "array", packed |-> packed, elements |-> elements]
Element(key, val) == [key |-> key, val |-> val]

InnerElements == [key : {NoKey, <<Letter>>}, val : Leaves]
OfArrays ==
  [key : {NoKey, <<Letter, Letter>>},
   val : Leaves \cup {[type |-> "undef"]} \cup {Arr(p, <<e>>) : p \in BOOLEAN, e \in InnerElements}]
OfBinds ==
  [key : {<<Letter>>, <<Letter, Letter>>},
   val : Leaves \cup {[type |-> "undef"], [type |-> "unread"]}
         \cup {[type |-> "reference", to |-> v] : v \in Leaves \cup {[type |-> "unread"]}}]

(* One more than PHPSPY_MAX_ARRAY_BUCKETS at most. *)
Lists(elements) ==
  UNION {{s, Append(s, Element(<<Letter>>, Leaf(<<Letter>>)))} : s \in Texts(elements, 2)}

CallList ==
  /\ call = Idle
  /\ \E size \in 1..MaxBuf :
       \/ \E list \in Lists(OfArrays), kind \in {"packed", "hash"} :
            call' = [f |-> "list", kind |-> kind, list |-> list, size |-> size,
                     res |-> sprint_zval(Arr(kind = "packed", list), size)]
       \/ \E list \in Lists(OfBinds) :
            call' = [f |-> "list", kind |-> "binds", list |-> list, size |-> size,
                     res |-> sprint_pdo_binds(list, size)]

(* The reference: the text without a limit on its length. *)
RECURSIVE Full(_, _), Bad(_, _)

Value(e) == IF e.val.type = "reference" /\ e.val.to.type # "unread" THEN e.val.to ELSE e.val
Kind(v) == IF v.packed THEN "packed" ELSE "hash"
Used(list) == SelectSeq(Take(list, PHPSPY_MAX_ARRAY_BUCKETS),
                        LAMBDA e : e.val.type \notin {"undef", "unread"})

Full(kind, list) ==
  LET Name(e) == IF kind = "packed" THEN <<"i", "=">>
                 ELSE IF e.key = NoKey THEN <<>> ELSE Append(e.key, "=")
      Text(v) == CASE v.type = "string" -> v.text
                   [] v.type = "array" -> Full(Kind(v), v.elements)
                   [] OTHER -> <<>>
      Add(text, e) == LET t == Name(e) \o Text(Value(e))
                      IN IF t = <<>> THEN text ELSE IF text = <<>> THEN t ELSE text \o <<",">> \o t
  IN FoldLeft(Add, <<>>, Used(list))

Bad(kind, list) ==
  \E i \in DOMAIN Used(list) :
    LET v == Value(Used(list)[i])
    IN \/ v.type \in {"object", "reference"}
       \/ v.type = "array" /\ Bad(Kind(v), v.elements)

(* A list of values, nested or bound to a statement, never leaves its       *)
(* buffer, keeps a byte for the NUL, and whenever the buffer has room for   *)
(* it and one separator more, it is printed completely, with separators     *)
(* only between its elements; a value of an unsupported type makes it an    *)
(* error, and nothing else does.                                            *)
ListFits ==
  Called("list") =>
    LET full == Full(call.kind, call.list)
    IN /\ Len(call.res.text) < call.size
       /\ call.res.rv = 1 => Bad(call.kind, call.list)
       /\ Len(full) + 2 <= call.size =>
            call.res = IF Bad(call.kind, call.list) THEN ERR ELSE OK(full)

----------------------------------------------------------------------------
AnyCall ==
  \/ Next
  \/ CompileHeader
  \/ CallLookup
  \/ CallList

DataSpec == Init /\ [][AnyCall]_call
============================================================================

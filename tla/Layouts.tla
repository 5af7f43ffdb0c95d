------------------------------ MODULE Layouts ------------------------------
(***************************************************************************)
(* The mirrors of PHP's structures, one header per architecture and PHP    *)
(* version (src/structs/<arch>/php_structs_<phpv>.h). The structures are   *)
(* packed: where a member lies follows from the sizes of those before it,  *)
(* the padding included, and a comment on every line says where it is      *)
(* meant to lie.                                                           *)
(***************************************************************************)
EXTENDS Integers, Sequences, SequencesExt

(* A member: its name, its size, the alignment its type has in PHP's own,   *)
(* unpacked structure, and the offset and length that the comment states.   *)
Member(name, size, align, at, len) ==
  [name |-> name, size |-> size, align |-> align, at |-> at, len |-> len]

pad(size, at) == Member("pad", size, 1, at, size)
char(name, at) == Member(name, 1, 1, at, 1)
int(name, at) == Member(name, 4, 4, at, 4)
word(name, at) == Member(name, 8, 8, at, 8)     \* pointer, long, size_t or double

SizeOf(struct) == FoldLeft(LAMBDA n, m : n + m.size, 0, struct)

(* A structure inside another, all of which hold pointers or doubles. *)
inner(name, struct, at, len) == Member(name, SizeOf(struct), 8, at, len)

(* Where the compiler puts the i-th member. *)
OffsetOf(struct, i) == SizeOf(SubSeq(struct, 1, i - 1))

zend_value == <<word("lval", 0)>>

zval == <<inner("value", zend_value, 0, 8), char("type", 8), pad(3, 9), int("next", 12)>>

zend_array ==
  <<pad(8, 0), char("flags", 8), pad(3, 9), int("nTableMask", 12), word("arData", 16),
    int("nNumUsed", 24), int("nNumOfElements", 28), int("nTableSize", 32)>>

sapi_request_info ==
  <<pad(8, 0), word("query_string", 8), word("cookie_data", 16), pad(8, 24),
    word("path_translated", 32), word("request_uri", 40)>>

zend_object ==
  <<pad(16, 0), word("ce", 16), pad(16, 24), inner("properties_table", zval, 40, 16)>>

zend_op_array(op) ==
  <<pad(op[1], 0), int("last_var", op[2]), pad(op[3], op[2] + 4), word("vars", op[4]),
    pad(op[5], op[4] + 8), word("filename", op[6]), int("line_start", op[7])>>

(* The structures of a header. What differs from header to header are five  *)
(* lists of numbers as they follow in the header, pads and stated offsets:  *)
(* eg in executor_globals, prev in execute_data (7.0 has a pad more), op in *)
(* op_array, time in sapi_globals and pdo in pdo_stmt_t. The length stated  *)
(* for op_array in zend_function, a union of three, is that of PHP's.       *)
Structs(eg, prev, op, time, pdo) ==
  [zend_array |-> zend_array,
   zend_executor_globals |->
     <<pad(304, 0), inner("symbol_table", zend_array, 304, 36), pad(eg[1], 340),
       word("current_execute_data", eg[2])>>,
   zend_value |-> zend_value,
   zval |-> zval,
   zend_execute_data |->
     <<word("opline", 0), pad(16, 8), word("func", 24), inner("This", zval, 32, 16),
       pad(prev[1], 48), word("prev_execute_data", prev[2]), word("symbol_table", prev[3])>>,
   zend_op_array |-> zend_op_array(op),
   zend_function_type |-> <<char("type", 0)>>,
   zend_function |-> <<inner("op_array", zend_op_array(op), 0, op[8])>>,
   zend_function_common |-> <<pad(8, 0), word("function_name", 8), word("scope", 16)>>,
   zend_class_entry |-> <<pad(8, 0), word("name", 8)>>,
   zend_string |-> <<pad(16, 0), word("len", 16), char("val", 24)>>,
   zend_op |-> <<pad(24, 0), int("lineno", 24)>>,
   sapi_request_info |-> sapi_request_info,
   sapi_globals_struct |->
     <<pad(8, 0), inner("request_info", sapi_request_info, 8, 48), pad(time[1], 56),
       word("global_request_time", time[2])>>,
   Bucket |-> <<inner("val", zval, 0, 16), word("h", 16), word("key", 24)>>,
   zend_alloc_globals |-> <<word("mm_heap", 0)>>,
   zend_mm_heap |-> <<pad(16, 0), word("size", 16), word("peak", 24)>>,
   zend_object |-> zend_object,
   pdo_bound_param_data |->
     <<inner("parameter", zval, 0, 16), pad(16, 16), word("paramno", 32), word("name", 40),
       pad(24, 48), int("param_type", 72)>>,
   pdo_stmt_t |->
     <<pad(pdo[1], 0), word("bound_params", pdo[2]), pad(pdo[3], pdo[2] + 8),
       inner("std", zend_object, pdo[4], 56)>>]

x86_64_70 ==
  Structs(<<140, 480>>, <<8, 56, 64>>, <<72, 72, 4, 80, 32, 120, 128, 208>>, <<384, 440>>, <<56, 56, 264, 328>>)
x86_64_71 ==
  Structs(<<140, 480>>, <<0, 48, 56>>, <<72, 72, 4, 80, 32, 120, 128, 208>>, <<384, 440>>, <<56, 56, 264, 328>>)
x86_64_72 ==
  Structs(<<140, 480>>, <<0, 48, 56>>, <<72, 72, 4, 80, 32, 120, 128, 224>>, <<384, 440>>, <<56, 56, 264, 328>>)
x86_64_73 ==
  Structs(<<148, 488>>, <<0, 48, 56>>, <<52, 52, 32, 88, 32, 128, 136, 216>>, <<384, 440>>, <<56, 56, 264, 328>>)
x86_64_74 ==
  Structs(<<148, 488>>, <<0, 48, 56>>, <<52, 52, 40, 96, 32, 136, 144, 224>>, <<384, 440>>, <<56, 56, 264, 328>>)
x86_64_80 ==
  Structs(<<148, 488>>, <<0, 48, 56>>, <<60, 60, 40, 104, 32, 144, 152, 232>>, <<384, 440>>, <<56, 56, 264, 328>>)
x86_64_81 ==
  Structs(<<148, 488>>, <<0, 48, 56>>, <<60, 60, 40, 104, 32, 144, 152, 240>>, <<384, 440>>, <<56, 56, 248, 312>>)
x86_64_82 ==
  Structs(<<148, 488>>, <<0, 48, 56>>, <<76, 76, 32, 112, 32, 152, 160, 248>>, <<384, 440>>, <<56, 56, 248, 312>>)
(* Mutant: 8.3 took op_array's second pad over from 8.2.                    *)
x86_64_83_pad_of_82 ==
  Structs(<<148, 488>>, <<0, 48, 56>>, <<72, 72, 32, 104, 32, 144, 152, 240>>, <<384, 440>>, <<56, 56, 248, 312>>)
x86_64_83 ==
  Structs(<<148, 488>>, <<0, 48, 56>>, <<72, 72, 28, 104, 32, 144, 152, 240>>, <<384, 440>>, <<56, 56, 248, 312>>)
x86_64_84 ==
  Structs(<<148, 488>>, <<0, 48, 56>>, <<92, 92, 32, 128, 32, 168, 176, 240>>, <<384, 440>>, <<56, 56, 248, 312>>)
x86_64_85 ==
  Structs(<<172, 512>>, <<0, 48, 56>>, <<92, 92, 32, 128, 32, 168, 176, 240>>, <<384, 440>>, <<24, 24, 128, 160>>)
x86_64_86 ==
  Structs(<<172, 512>>, <<0, 48, 56>>, <<92, 92, 32, 128, 32, 168, 176, 240>>, <<376, 432>>, <<24, 24, 128, 160>>)
aarch64_70 ==
  Structs(<<140, 480>>, <<8, 56, 64>>, <<72, 72, 4, 80, 32, 120, 128, 208>>, <<368, 424>>, <<56, 56, 264, 328>>)
aarch64_71 ==
  Structs(<<140, 480>>, <<0, 48, 56>>, <<72, 72, 4, 80, 32, 120, 128, 208>>, <<368, 424>>, <<56, 56, 264, 328>>)
aarch64_72 ==
  Structs(<<140, 480>>, <<0, 48, 56>>, <<72, 72, 4, 80, 32, 120, 128, 224>>, <<368, 424>>, <<56, 56, 264, 328>>)
aarch64_73 ==
  Structs(<<148, 488>>, <<0, 48, 56>>, <<52, 52, 32, 88, 32, 128, 136, 216>>, <<368, 424>>, <<56, 56, 264, 328>>)
aarch64_74 ==
  Structs(<<148, 488>>, <<0, 48, 56>>, <<52, 52, 40, 96, 32, 136, 144, 224>>, <<368, 424>>, <<56, 56, 264, 328>>)
aarch64_80 ==
  Structs(<<148, 488>>, <<0, 48, 56>>, <<60, 60, 40, 104, 32, 144, 152, 232>>, <<368, 424>>, <<56, 56, 264, 328>>)
aarch64_81 ==
  Structs(<<148, 488>>, <<0, 48, 56>>, <<60, 60, 40, 104, 32, 144, 152, 240>>, <<368, 424>>, <<56, 56, 248, 312>>)
aarch64_82 ==
  Structs(<<148, 488>>, <<0, 48, 56>>, <<76, 76, 32, 112, 32, 152, 160, 248>>, <<368, 424>>, <<56, 56, 248, 312>>)
aarch64_83 ==
  Structs(<<148, 488>>, <<0, 48, 56>>, <<72, 72, 28, 104, 32, 144, 152, 240>>, <<368, 424>>, <<56, 56, 248, 312>>)
aarch64_84 ==
  Structs(<<148, 488>>, <<0, 48, 56>>, <<92, 92, 32, 128, 32, 168, 176, 256>>, <<368, 424>>, <<56, 56, 248, 312>>)
aarch64_85 ==
  Structs(<<172, 512>>, <<0, 48, 56>>, <<92, 92, 32, 128, 32, 168, 176, 240>>, <<368, 424>>, <<24, 24, 128, 160>>)
aarch64_86 ==
  Structs(<<172, 512>>, <<0, 48, 56>>, <<92, 92, 32, 128, 32, 168, 176, 240>>, <<360, 416>>, <<24, 24, 128, 160>>)

(* src/structs/structs.h *)
Headers ==
  [x86_64 |-> [v70 |-> x86_64_70, v71 |-> x86_64_71, v72 |-> x86_64_72, v73 |-> x86_64_73,
               v74 |-> x86_64_74, v80 |-> x86_64_80, v81 |-> x86_64_81, v82 |-> x86_64_82,
               v83 |-> x86_64_83, v84 |-> x86_64_84, v85 |-> x86_64_85, v86 |-> x86_64_86],
   aarch64 |-> [v70 |-> aarch64_70, v71 |-> aarch64_71, v72 |-> aarch64_72, v73 |-> aarch64_73,
                v74 |-> aarch64_74, v80 |-> aarch64_80, v81 |-> aarch64_81, v82 |-> aarch64_82,
                v83 |-> aarch64_83, v84 |-> aarch64_84, v85 |-> aarch64_85, v86 |-> aarch64_86]]
============================================================================

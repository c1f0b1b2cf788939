----------------------------- MODULE JsonWriter -----------------------------
(***************************************************************************)
(* src/common/json.c: a writer that keeps, for each open bracket, whether  *)
(* a key has been written in it, on a stack of fixed size.  What it writes *)
(* is a sequence of tokens, strings being tokens of their own.             *)
(***************************************************************************)
EXTENDS Integers, Sequences, SequencesExt

JSON_MAX_DEPTH == 5

\* malloc() leaves the stack as it finds it: say, all zeros or all ones.
new_json(garbage) == [out |-> <<>>, ss |-> garbage, sp |-> 0]
Garbage == {[depth \in 0..(JSON_MAX_DEPTH - 1) |-> entry] : entry \in {0, 1}}

put(json, tokens) == [json EXCEPT !.out = @ \o tokens]

\* Bug: the entry is as the last bracket of this depth left it.
JSON_PUSH_NESTING_stale(json) ==
    IF json.sp + 1 >= JSON_MAX_DEPTH THEN json ELSE [json EXCEPT !.sp = @ + 1]

\* A push beyond the depth is refused, the pop that goes with it is not.
JSON_PUSH_NESTING(json) ==
    IF json.sp + 1 >= JSON_MAX_DEPTH THEN json
    ELSE [json EXCEPT !.sp = @ + 1, !.ss = [@ EXCEPT ![json.sp + 1] = 0]]
JSON_POP_NESTING(json) == [json EXCEPT !.sp = @ - 1]

json_start_object(json) == JSON_PUSH_NESTING(put(json, <<"{">>))
json_end_object(json) == JSON_POP_NESTING(put(json, <<"}">>))

json_start_array(json) ==
    LET pushed == JSON_PUSH_NESTING(put(json, <<"[">>))
    IN [pushed EXCEPT !.ss[pushed.sp] = 0]
json_end_array(json) == JSON_POP_NESTING(put(json, <<"]">>))

json_write_key(json, key) ==
    put([json EXCEPT !.ss[json.sp] = 1], (IF json.ss[json.sp] = 1 THEN <<",">> ELSE <<>>) \o <<key, ":">>)

\* The calls of a caller, one after the other: a bracket, a key, or a key
\* and its value.
Apply(json, c) ==
    CASE c = <<"{">> -> json_start_object(json)
      [] c = <<"}">> -> json_end_object(json)
      [] c = <<"[">> -> json_start_array(json)
      [] c = <<"]">> -> json_end_array(json)
      [] OTHER -> LET begun == json_write_key(json, Head(c)) IN put(begun, Tail(c))
Written(json, calls) == FoldLeft(Apply, json, calls)

=============================================================================

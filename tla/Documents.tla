----------------------------- MODULE Documents ------------------------------
(***************************************************************************)
(* What the documents of webfinger are meant to say, as JSON.              *)
(***************************************************************************)
EXTENDS Endpoints

\* How JSON writes a value: a string, or a sequence of members in brackets,
\* those of an object with their keys.
RECURSIVE Render(_)
Render(value) ==
    LET comma(i) == IF i = 1 THEN <<>> ELSE <<",">>
        member(i) == comma(i) \o <<value.members[i].key, ":">> \o Render(value.members[i].value)
        element(i) == comma(i) \o Render(value.members[i])
    IN CASE value.kind = "string" -> <<value.string>>
         [] value.kind = "object" -> <<"{">> \o FlattenSeq([i \in DOMAIN value.members |-> member(i)]) \o <<"}">>
         [] value.kind = "array" -> <<"[">> \o FlattenSeq([i \in DOMAIN value.members |-> element(i)]) \o <<"]">>

\* The documents clients read.
Text(s) == [kind |-> "string", string |-> s]
Pair(key, value) == [key |-> key, value |-> value]
Object(members) == [kind |-> "object", members |-> members]
Links(link) == Pair("links", [kind |-> "array", members |-> <<Object(link)>>])

Expected(answer) ==
    LET r == answer.resource IN
    CASE answer.status = 404 -> Object(<<>>)
      [] answer.status = 200 /\ r = None ->
           Object(<<Pair("subject", Text("RS_HOSTNAME")),
                    Links(<<Pair("rel", Text("lrdd")), Pair("template", Text("lrdd_template"))>>)>>)
      [] answer.status = 200 /\ r # None ->
           Object(<<Pair("subject", Text(r)),
                    Links(<<Pair("rel", Text("remotestorage")), Pair("type", Text("RS_STORAGE_API")),
                            Pair("href", Text(storage_uri(r.user))),
                            Pair("properties", Object(<<
                               Pair("RS_AUTH_METHOD", Text(auth_uri(r.user))),
                               Pair("auth-method", Text("RS_AUTH_METHOD")),
                               Pair("auth-endpoint", Text(auth_uri(r.user)))>>))>>)>>)

-----------------------------------------------------------------------------
\* json.c:15-16 "it works for all our needs": every document is JSON, whatever
\* the stack of the writer held, and the stack pointer is back where it began.
DocumentsAreJson ==
    [][Finds /\ found'.answer.json # Nil =>
         found'.answer.json = [out |-> Render(Expected(found'.answer)), sp |-> 0]]_endpointVars
=============================================================================

----------------------------- MODULE AuthRecord -----------------------------
(***************************************************************************)
(* src/common/auth.c: the bytes in which the store keeps an authorization. *)
(* Characters are bytes here, and 0 ends a string.                         *)
(***************************************************************************)
EXTENDS Naturals, Sequences, SequencesExt

String(s) == s \o <<0>>

\* A uint32_t as it lies in memory, and as it is read from there.
Bytes4(n) == <<n % 256, (n \div 256) % 256, (n \div 65536) % 256, (n \div 16777216) % 256>>
Uint32(bytes) == bytes[1] + 256 * bytes[2] + 65536 * bytes[3] + 16777216 * bytes[4]

\* The most scopes of a record: its size is a uint32_t, and each takes a 0
\* and the byte that says whether it may write.
MaxScopes == 2147483647

\* Bug: the byte that says whether a scope may write is left out.
pack_authorization_read_only(auth) ==
    String(auth.username) \o String(auth.token) \o Bytes4(Len(auth.scopes))
        \o FlattenSeq([i \in DOMAIN auth.scopes |-> String(auth.scopes[i].name) \o <<0>>])

pack_authorization(auth) ==
    String(auth.username) \o String(auth.token) \o Bytes4(Len(auth.scopes))
        \o FlattenSeq([i \in DOMAIN auth.scopes |->
                          String(auth.scopes[i].name) \o <<IF auth.scopes[i].write THEN 1 ELSE 0>>])

\* Bug: the end of a string belongs to it.
read_string_whole(source, offset) ==
    LET end == CHOOSE i \in (offset + 1)..Len(source) :
                   source[i] = 0 /\ \A j \in (offset + 1)..(i - 1) : source[j] # 0
    IN [string |-> SubSeq(source, offset + 1, end), offset |-> end]

\* The string at an offset, and the offset after it.
read_string(source, offset) ==
    LET end == CHOOSE i \in (offset + 1)..Len(source) :
                   source[i] = 0 /\ \A j \in (offset + 1)..(i - 1) : source[j] # 0
    IN [string |-> SubSeq(source, offset + 1, end - 1), offset |-> end]

unpack_authorization(source) ==
    LET username == read_string(source, 0)
        token == read_string(source, username.offset)
        count == Uint32(SubSeq(source, token.offset + 1, token.offset + 4))
        at[i \in 0..count] ==   \* the offset after i scopes
            IF i = 0 THEN token.offset + 4 ELSE read_string(source, at[i - 1]).offset + 1
    IN [username |-> username.string, token |-> token.string,
        scopes |-> [i \in 1..count |-> [name |-> read_string(source, at[i - 1]).string,
                                       write |-> source[at[i]] # 0]]]
=============================================================================

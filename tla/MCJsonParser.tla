---------------------------- MODULE MCJsonParser ----------------------------
(* The texts of MaxLen symbols, and bodies as mod_login and mod_chat get   *)
(* them: with the entries they expect, and with a wrong one somewhere.     *)
EXTENDS JsonParser

Values == {<<"1">>, <<"q", "a", "q">>, <<"[", "1", "]">>}

(* The body with these names, each a sequence of symbols, and values.      *)
Body(names, values) ==
    LET Field(k) == (IF k = 1 THEN << >> ELSE <<",">>)
                    \o <<"q">> \o names[k] \o <<"q", ":">> \o values[k]
    IN  <<"{">> \o FlattenSeq([k \in 1 .. Len(names) |-> Field(k)]) \o <<"}">>

(* The right names; one of them wrong; the first k of them in one, with a  *)
(* NUL between two, and the others right or wrong.                         *)
Wrong == <<"a">>
Right(expected) == [k \in 1 .. Len(expected) |-> <<expected[k].name>>]
OneWrong(names) == {[names EXCEPT ![k] = Wrong] : k \in 1 .. Len(names)}
Joined(names, k) ==
    FlattenSeq([j \in 1 .. k |-> IF j = 1 THEN names[j] ELSE Nul \o names[j]])
OneJoined(names) ==
    {[j \in 1 .. Len(names) |-> IF j = 1 THEN Joined(names, k) ELSE other[j]] :
        k \in 2 .. Len(names), other \in {names, [j \in 1 .. Len(names) |-> Wrong]}}
NameLists ==
    {<<<<"recv_id">>>>, <<Wrong>>, <<Wrong, Wrong>>}
    \cup UNION {{Right(e)} \cup OneWrong(Right(e)) \cup OneJoined(Right(e)) : e \in {Login, Chat}}

MCDocuments == {Body(names, values) : names \in NameLists, values \in [1 .. 4 -> Values]}
=============================================================================

---------------------------- MODULE JsonGrammar -----------------------------
(***************************************************************************)
(* What a JSON text is and what it stands for, said without a parser: the  *)
(* reference JsonParser is compared with.  Every text of up to MaxLen      *)
(* symbols is built up from shorter ones, with its document:               *)
(*                                                                         *)
(*   text    ::= ws value ws                                               *)
(*   value   ::= literal | number | string | [ list ] | { members }        *)
(*   list    ::= ws | ws value ws | ws value ws , list                     *)
(*   members ::= ws | entry | entry , members                              *)
(*   entry   ::= ws string ws : ws value ws                                *)
(*   number  ::= [-] digits [. digits] [power] | - [power]                 *)
(*   power   ::= e [- | +] digits                                          *)
(*                                                                         *)
(* It is the grammar of RFC 4627 with the two liberties json.c takes: a    *)
(* comma may end a list or the members, and a lone minus is a number.  The *)
(* first digit of several is no 0.  A document is a tuple that starts with *)
(* its type.                                                               *)
(***************************************************************************)
EXTENDS Integers, Sequences

CONSTANTS
    Symbols,        \* what a text is made of, outside strings
    StringSymbols,  \* and inside strings, where most symbols are like "a"
    MaxLen          \* bound: symbols of a text

Digits == {"0", "1"}

Short(texts) == {t \in texts : Len(t) <= MaxLen}
Then(A, B) == Short({a \o b : a \in A, b \in B})
Perhaps(A) == A \cup {<< >>}
Words(S) == UNION {[1 .. k -> S] : k \in 1 .. MaxLen}

Sign == Perhaps({<<"-">>})
Whole == {d \in Words(Digits) : d[1] = "0" => Len(d) = 1}
Fraction == Then({<<".">>}, Words(Digits))
Power == Then({<<"e">>}, Then(Perhaps({<<"-">>, <<"+">>}), Words(Digits)))

Amount(digits) ==
    LET a[k \in 0 .. Len(digits)] ==
            IF k = 0 THEN 0 ELSE 10 * a[k - 1] + (IF digits[k] = "0" THEN 0 ELSE 1)
    IN  a[Len(digits)]

Entry(form, doc) == [form |-> form, doc |-> doc]

Numbers ==
    {Entry(d, <<"integer", Amount(d)>>) : d \in Whole}
    \cup {Entry(d, <<"integer", - Amount(Tail(d))>>) : d \in Then({<<"-">>}, Perhaps(Whole))}
    \cup {Entry(d, <<"double">>) :
            d \in Then(Then(Sign, Whole), Then(Fraction, Perhaps(Power)) \cup Power)
                  \cup Then({<<"-">>}, Power)}

Atoms ==
    Numbers \cup (IF "t" \in Symbols THEN {Entry(<<"t">>, <<"literal">>)} ELSE {})

Plain == StringSymbols \ {"q", "esc"}
Escapable == StringSymbols \ {"ux"}

Spaces(n) == [k \in 1 .. n |-> "w"]

(* The texts of exactly n symbols, for every kind of phrase, out of g, the *)
(* phrases of fewer: g[k + 1] has those of k symbols.                      *)
Longer(g) ==
    LET n == Len(g)
        \* the content of a string
        body == IF n = 0 THEN {<< >>}
                ELSE {Append(b, s) : b \in g[n].body, s \in Plain}
                     \cup (IF n = 1 THEN {}
                           ELSE {b \o <<"esc", s>> : b \in g[n - 1].body, s \in Escapable})
        Quoted(b) == <<"q">> \o b \o <<"q">>
        value ==
            {a \in Atoms : Len(a.form) = n}
            \cup (IF n < 2 THEN {}
                  ELSE {Entry(Quoted(b), <<"string", b>>) : b \in g[n - 1].body}
                       \cup {Entry(<<"[">> \o l.form \o <<"]">>, <<"array", l.doc>>)
                                : l \in g[n - 1].list}
                       \cup {Entry(<<"{">> \o m.form \o <<"}">>, <<"object", m.doc>>)
                                : m \in g[n - 1].members})
        Value(k) == IF k = n THEN value ELSE g[k + 1].value
        spaced == UNION {{Entry(Spaces(i) \o v.form \o Spaces(n - k - i), v.doc)
                            : i \in 0 .. n - k, v \in Value(k)} : k \in 0 .. n}
        \* i spaces, a name of j symbols with its quotes, m spaces, a colon, a value
        pair == UNION {{Entry(Spaces(c[1]) \o Quoted(b) \o Spaces(c[3]) \o <<":">> \o v.form,
                              <<b, v.doc>>)
                          : b \in g[c[2] - 1].body, v \in g[n - c[1] - c[2] - c[3]].spaced}
                       : c \in {c \in (0 .. n) \X (2 .. n) \X (0 .. n) : c[1] + c[2] + c[3] < n}}
        \* none, one, or one of k symbols, a comma and more
        Several(one, first(_), more(_)) ==
            {Entry(Spaces(n), << >>)}
            \cup {Entry(f.form, <<f.doc>>) : f \in one}
            \cup UNION {{Entry(f.form \o <<",">> \o r.form, <<f.doc>> \o r.doc)
                           : f \in first(k), r \in more(n - k - 1)} : k \in 1 .. n - 1}
        SpacedOf(k) == g[k + 1].spaced
        PairOf(k) == g[k + 1].pair
        ListOf(k) == g[k + 1].list
        MembersOf(k) == g[k + 1].members
    IN  [body |-> body, value |-> value, spaced |-> spaced, pair |-> pair,
         list |-> Several(spaced, SpacedOf, ListOf),
         members |-> Several(pair, PairOf, MembersOf)]

Phrases ==
    LET upto[n \in -1 .. MaxLen] ==
            IF n < 0 THEN << >> ELSE LET g == upto[n - 1] IN Append(g, Longer(g))
    IN  upto[MaxLen]

(* The texts of up to MaxLen symbols with their documents, and what they   *)
(* start with.                                                             *)
Language == LET g == Phrases IN UNION {g[k].spaced : k \in 1 .. MaxLen + 1}
Sentences == {d.form : d \in Language}
Beginnings == UNION {{SubSeq(t, 1, k) : k \in 0 .. Len(t)} : t \in Sentences}
=============================================================================

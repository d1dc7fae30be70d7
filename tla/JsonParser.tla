----------------------------- MODULE JsonParser -----------------------------
(***************************************************************************)
(* json_parse and json_value_free (json.c:105-881), with which mod_login   *)
(* and mod_chat read the body of a packet.  The parser goes over its text  *)
(* twice: the first pass checks the text, makes the values and counts what *)
(* each will hold; the second one walks the values in the order they were  *)
(* made, allocates their buffers and fills them.  A step is one turn of    *)
(* the loop over the characters.                                           *)
(*                                                                         *)
(* A text is a sequence of symbols.  A symbol is a character, or several   *)
(* that are only read together: "t" is `true', `false' or `null'; "u0",    *)
(* "u2" and "u3" are u and four hex digits, after a backslash the code of  *)
(* a NUL and a code that takes two or three bytes; "ux" is a u that four   *)
(* hex digits do not follow; a name such as "recv_id" is its letters.  "q" *)
(* is the quotation mark, "esc" the backslash, "w" whitespace, and "a"     *)
(* every character that has no meaning where it stands, after a backslash  *)
(* also the other codes that take one byte.  The text ends with a NUL that *)
(* is no part of it: both callers pass strlen( data ).                     *)
(*                                                                         *)
(* The text is chosen as it is first read, so that each start of a text is *)
(* parsed once, or is one of Documents.  Doubles have no value here, and   *)
(* the limits at 2^32 - 8 are out of reach.  malloc may always fail.       *)
(*                                                                         *)
(* A definition A_Variant is a wrong form of A, defined to test that a     *)
(* property can tell it from the code; no specification uses it.           *)
(***************************************************************************)
EXTENDS JsonGrammar, SequencesExt

CONSTANT
    Documents       \* longer texts, all of the grammar

ASSUME JsonAssumption ==
    /\ MaxLen \in Nat /\ \A d \in Documents : Len(d) > MaxLen
    /\ "end" \notin Symbols \cup StringSymbols

VARIABLES
    text,    \* what is known of the text
    closed,  \* it is known to end there
    pc,      \* parsing, freeing after an error, freeing the result, over
    failed,  \* why the parser returned 0, if it did
    p        \* the parser's locals and its memory

vars == <<text, closed, pc, failed, p>>

NumberChars == Digits \cup {"-", "+", ".", "e"}

(* The bytes of a symbol, and of the one after a backslash when decoded.   *)
Size(s) ==
    CASE s \in {"uid", "mid", "msg"} -> 3
      [] s = "gameid" -> 6
      [] s = "recv_id" -> 7
      [] s = "app_version" -> 11
      [] s \in {"u0", "u2", "u3"} -> 5
      [] OTHER -> 1
Decoded(s) == CASE s = "u0" -> 1 [] s = "u2" -> 2 [] s = "u3" -> 3 [] OTHER -> Size(s)

(* A json_value.  slots, room and names belong to the buffer that the      *)
(* second pass allocates: pointers to children, bytes, names of entries.   *)
(* chain is _reserved.next_alloc, in a union with the object_mem that      *)
(* replaces it when the second pass opens an object.                       *)
NewRecord(type, parent) ==
    [type |-> type, parent |-> parent, chain |-> 0, len |-> 0, bytes |-> 0,
     integer |-> 0, slots |-> 0, room |-> 0, used |-> 0,
     items |-> << >>, names |-> << >>, chars |-> << >>]

StartPass(pass, root, val, heap) ==
    [pass |-> pass, pos |-> 1, flags |-> {"seek_value"}, top |-> 0, root |-> 0,
     alloc |-> root, length |-> 0, chars |-> << >>, digits |-> 0, val |-> val, heap |-> heap]

Init ==
    /\ \/ text = << >> /\ closed = FALSE
       \/ text \in Documents /\ closed = TRUE
    /\ pc = "parse" /\ failed = "no"
    /\ p = StartPass(1, 0, << >>, {})

Has(flag) == flag \in p.flags
Top == p.val[p.top]
Type == IF p.top = 0 THEN "none" ELSE Top.type

-----------------------------------------------------------------------------
(* Changes of the parser's state, as functions of it.                      *)

Set(q, flags) == [q EXCEPT !.flags = @ \cup flags]
Clear(q, flags) == [q EXCEPT !.flags = @ \ flags]
Continue(q) == [q EXCEPT !.pos = @ + 1]

(* new_value in the first pass: a value is made, and chained to the last.  *)
Made(q, type) ==
    LET n == Len(q.val) + 1
        linked == IF q.alloc = 0 THEN q.val ELSE [q.val EXCEPT ![q.alloc].chain = n]
    IN  [q EXCEPT !.val = Append(linked, NewRecord(type, q.top)),
                  !.top = n, !.alloc = n, !.root = IF @ = 0 THEN n ELSE @,
                  !.heap = @ \cup {<<n, "value">>}]

(* new_value in the second pass: the next value of the chain is taken ...  *)
Taken(q) ==
    [q EXCEPT !.top = q.alloc, !.alloc = q.val[q.alloc].chain,
              !.root = IF @ = 0 THEN q.alloc ELSE @]

(* ... and its buffer allocated.                                           *)
Buffered(q) ==
    LET v == q.val[q.top]
    IN  CASE v.type = "array" ->
                [q EXCEPT !.val[q.top] = [v EXCEPT !.slots = v.len, !.len = 0],
                          !.heap = @ \cup {<<q.top, "buffer">>}]
          [] v.type = "object" ->
                [q EXCEPT !.val[q.top] = [v EXCEPT !.slots = v.len, !.room = v.bytes,
                                                   !.len = 0, !.chain = -1],
                          !.heap = @ \cup {<<q.top, "buffer">>}]
          [] v.type = "string" ->
                [q EXCEPT !.val[q.top] = [v EXCEPT !.room = v.len + 1, !.len = 0],
                          !.heap = @ \cup {<<q.top, "buffer">>}]
          [] OTHER -> q

NewValue(q, type) == IF q.pass = 1 THEN Made(q, type) ELSE Buffered(Taken(q))

(* string_add, once per byte of a character: <<b>>, or <<"esc", b>>.       *)
Width(char) == IF Len(char) = 1 THEN Size(char[1]) ELSE Decoded(char[2])
Add(q, char) ==
    [q EXCEPT !.length = @ + Width(char), !.chars = IF q.pass = 2 THEN Append(@, char) ELSE @]

(* flag_next: the value top is complete and goes to its parent.            *)
Complete(q) ==
    LET up == q.val[q.top].parent
    IN  IF up = 0 THEN Set(q, {"need_comma", "done"})
        ELSE [q EXCEPT
                !.flags = @ \cup {"need_comma"}
                            \cup (IF q.val[up].type = "array" THEN {"seek_value"} ELSE {}),
                !.val[up].items = IF q.pass = 2 THEN Append(@, q.top) ELSE @,
                !.val[up].len = @ + 1,
                !.top = up]

-----------------------------------------------------------------------------
(* One turn of the loop, on symbol b.                                      *)

(* The symbols that may be at the parser's place: the text's, its end, or  *)
(* any if nobody has looked so far.                                        *)
Read(b) ==
    /\ pc = "parse"
    /\ IF p.pos <= Len(text)
       THEN b = text[p.pos] /\ UNCHANGED <<text, closed>>
       ELSE \/ b = "end" /\ closed' = TRUE /\ UNCHANGED text
            \/ /\ ~closed /\ Len(text) < MaxLen
               /\ b \in IF Has("string") THEN StringSymbols ELSE Symbols
               /\ text' = Append(text, b) /\ UNCHANGED closed

Becomes(q) == p' = q /\ UNCHANGED <<pc, failed>>

Fails_FromLast ==
    /\ pc' = "freeChain"
    /\ failed' = "syntax"
    /\ p' = p

(* goto e_failed: what is freed first is the chain, in the first pass from *)
(* the first value, in the second from the next value not yet taken.       *)
Fails ==
    /\ pc' = "freeChain"
    /\ failed' = "syntax"
    /\ p' = IF p.pass = 1 THEN [p EXCEPT !.alloc = p.root] ELSE p

(* json_alloc returns 0 in new_value.                                      *)
AllocFails ==
    LET q == IF p.pass = 1 THEN [p EXCEPT !.alloc = p.root] ELSE Taken(p)
    IN  /\ p.pass = 2 => q.val[q.top].type \in {"array", "object", "string"}
        /\ pc' = "freeChain"
        /\ failed' = "memory"
        /\ p' = q

Opens(type, flags) ==
    \/ Becomes(Continue(Set(NewValue(Clear(p, {"seek_value"}), type), flags)))
    \/ AllocFails

Trailing(b) ==
    /\ Has("done") /\ b # "end"
    /\ IF b = "w" THEN Becomes(Continue(p)) ELSE Fails

(* The end of a pass.  After the first one the values are walked again.    *)
Finish(b) ==
    /\ Has("done") /\ b = "end"
    /\ IF p.pass = 1 THEN Becomes(StartPass(2, p.root, p.val, p.heap))
                     ELSE pc' = "done" /\ UNCHANGED <<failed, p>>

Reading == ~Has("done") /\ Has("string")

StringChar(b) ==
    /\ Reading /\ ~Has("escaped") /\ b # "q"
    /\ CASE b = "end" -> Fails
         [] b = "esc" -> Becomes(Continue(Set(p, {"escaped"})))
         [] OTHER -> Becomes(Continue(Add(p, <<b>>)))

EscapedChar(b) ==
    /\ Reading /\ Has("escaped")
    /\ IF b \in {"end", "ux"} THEN Fails
       ELSE Becomes(Continue(Clear(Add(p, <<"esc", b>>), {"escaped"})))

StringEnds(b) ==
    /\ Reading /\ ~Has("escaped") /\ b = "q" /\ Type = "string"
    /\ LET q == Clear(p, {"string"})
       IN  Becomes(Continue(Complete([q EXCEPT !.val[p.top].len = p.length,
                                               !.val[p.top].chars = p.chars])))

NameEnds_NoTerminator(b) ==
    /\ Reading /\ ~Has("escaped") /\ b = "q" /\ Type = "object"
    /\ LET q == Set(Clear(p, {"string"}), {"seek_value", "need_colon"})
           named == [off |-> Top.used, chars |-> p.chars]
       IN  Becomes(Continue(
               IF p.pass = 1 THEN [q EXCEPT !.val[p.top].bytes = @ + p.length]
               ELSE [q EXCEPT !.val[p.top].names = Append(@, named),
                              !.val[p.top].used = @ + p.length + 1]))

(* The first pass counts the bytes of the names, the second one lays them  *)
(* end to end.                                                             *)
NameEnds(b) ==
    /\ Reading /\ ~Has("escaped") /\ b = "q" /\ Type = "object"
    /\ LET q == Set(Clear(p, {"string"}), {"seek_value", "need_colon"})
           n == p.length + 1
           named == [off |-> Top.used, chars |-> p.chars]
       IN  Becomes(Continue(
               IF p.pass = 1 THEN [q EXCEPT !.val[p.top].bytes = @ + n]
               ELSE [q EXCEPT !.val[p.top].names = Append(@, named),
                              !.val[p.top].used = @ + n]))

Seeking == ~Has("done") /\ ~Has("string") /\ Has("seek_value")

SeekSpace(b) == Seeking /\ b = "w" /\ Becomes(Continue(p))

(* top is NULL if nothing was opened: the type is read all the same.       *)
ArrayEnds(b) ==
    /\ Seeking /\ b = "]"
    /\ CASE Type = "array" -> Becomes(Continue(Complete(Clear(p, {"need_comma", "seek_value"}))))
         [] Type = "none" -> pc' = "undefined" /\ UNCHANGED <<failed, p>>
         [] OTHER -> Fails

Comma(b) ==
    /\ Seeking /\ b \notin {"w", "]"} /\ Has("need_comma")
    /\ IF b = "," THEN Becomes(Continue(Clear(p, {"need_comma"}))) ELSE Fails

Colon(b) ==
    /\ Seeking /\ b \notin {"w", "]"} /\ ~Has("need_comma") /\ Has("need_colon")
    /\ IF b = ":" THEN Becomes(Continue(Clear(p, {"need_colon"}))) ELSE Fails

StartsValue == Seeking /\ ~Has("need_comma") /\ ~Has("need_colon")

ObjectStarts(b) == StartsValue /\ b = "{" /\ Opens("object", {})
ArrayStarts(b) == StartsValue /\ b = "[" /\ Opens("array", {"seek_value"})

StringStarts(b) ==
    /\ StartsValue /\ b = "q"
    /\ \/ Becomes(Continue([Set(NewValue(Clear(p, {"seek_value"}), "string"), {"string"})
                            EXCEPT !.length = 0, !.chars = << >>]))
       \/ AllocFails

Literal(b) ==
    /\ StartsValue /\ b = "t"
    /\ \/ Becomes(Continue(Complete(NewValue(Clear(p, {"seek_value"}), "literal"))))
       \/ AllocFails

NumFlags == {"num_negative", "num_zero", "num_e", "num_e_got_sign"}

(* The first pass looks at a digit again, now with the number as top.      *)
NumberStarts(b) ==
    /\ StartsValue /\ b \in Digits \cup {"-"} /\ p.pass = 1
    /\ LET q == [NewValue(Clear(p, {"seek_value"} \cup NumFlags), "integer") EXCEPT !.digits = 0]
       IN  \/ Becomes(IF b = "-" THEN Continue(Set(q, {"num_negative"})) ELSE q)
           \/ AllocFails

(* The second pass has the number already and skips its characters.        *)
NumberSkipped(b) ==
    /\ StartsValue /\ b \in Digits \cup {"-"} /\ p.pass = 2
    /\ \E k \in p.pos + 1 .. Len(text) + 1 :
        /\ \A j \in p.pos .. k - 1 : text[j] \in NumberChars
        /\ k <= Len(text) => text[k] \notin NumberChars
        /\ Becomes([Complete(NewValue(Clear(p, {"seek_value"}), "integer")) EXCEPT !.pos = k])

NoValue(b) ==
    /\ StartsValue
    /\ b \notin Digits \cup {"w", "]", "{", "[", "q", "t", "-"}
    /\ Fails

InObject == ~Has("done") /\ ~Has("string") /\ ~Has("seek_value") /\ Type = "object"

NameStarts(b) ==
    /\ InObject /\ b = "q"
    /\ IF Has("need_comma") THEN Fails
       ELSE Becomes(Continue([Set(p, {"string"}) EXCEPT !.length = 0, !.chars = << >>]))

ObjectEnds(b) ==
    InObject /\ b = "}" /\ Becomes(Continue(Complete(Clear(p, {"need_comma"}))))

BetweenEntries(b) ==
    /\ InObject /\ b \notin {"q", "}"}
    /\ CASE b = "w" -> Becomes(Continue(p))
         [] b = "," /\ Has("need_comma") -> Becomes(Continue(Clear(p, {"need_comma"})))
         [] OTHER -> Fails

InNumber == ~Has("done") /\ ~Has("string") /\ ~Has("seek_value") /\ Type \in {"integer", "double"}

Digit(b) ==
    /\ InNumber /\ b \in Digits
    /\ LET q == Continue([p EXCEPT !.digits = IF @ = 2 THEN 2 ELSE @ + 1])
           d == IF b = "0" THEN 0 ELSE 1
       IN  CASE Has("num_e") -> Becomes(Set(q, {"num_e_got_sign"}))
             [] ~Has("num_e") /\ Type = "double" -> Becomes(q)
             [] ~Has("num_e") /\ Type = "integer" /\ Has("num_zero") -> Fails
             [] OTHER -> Becomes(
                    [(IF q.digits = 1 /\ b = "0" THEN Set(q, {"num_zero"}) ELSE q)
                     EXCEPT !.val[p.top].integer = 10 * @ + d])

ExponentSign(b) ==
    /\ InNumber /\ b \in {"-", "+"} /\ Has("num_e") /\ ~Has("num_e_got_sign")
    /\ Becomes(Continue(Set(p, {"num_e_got_sign"})))

Point_KeepsDigits(b) ==
    /\ InNumber /\ b = "." /\ Type = "integer"
    /\ IF p.digits = 0 THEN Fails
       ELSE Becomes(Continue([p EXCEPT !.val[p.top].type = "double"]))

Point(b) ==
    /\ InNumber /\ b = "." /\ Type = "integer"
    /\ IF p.digits = 0 THEN Fails
       ELSE Becomes(Continue([p EXCEPT !.val[p.top].type = "double", !.digits = 0]))

Exponent(b) ==
    /\ InNumber /\ b = "e" /\ ~Has("num_e")
    /\ IF Type = "double" /\ p.digits = 0 THEN Fails
       ELSE Becomes(Continue([Set(Clear(p, {"num_zero"}), {"num_e"})
                              EXCEPT !.val[p.top].type = "double", !.digits = 0]))

NumberEnds_NotNext(b) ==
    /\ InNumber /\ b \notin Digits
    /\ ~(b \in {"-", "+"} /\ Has("num_e") /\ ~Has("num_e_got_sign"))
    /\ ~(b = "." /\ Type = "integer") /\ ~(b = "e" /\ ~Has("num_e"))
    /\ IF p.digits = 0 /\ (Has("num_e") \/ Type = "double") THEN Fails ELSE Becomes(p)

(* The character behind the number is looked at again.                     *)
NumberEnds(b) ==
    /\ InNumber /\ b \notin Digits
    /\ ~(b \in {"-", "+"} /\ Has("num_e") /\ ~Has("num_e_got_sign"))
    /\ ~(b = "." /\ Type = "integer") /\ ~(b = "e" /\ ~Has("num_e"))
    /\ IF p.digits = 0 /\ (Has("num_e") \/ Type = "double") THEN Fails
       ELSE Becomes(Complete(
                [p EXCEPT !.val[p.top].integer = IF Has("num_negative") THEN -@ ELSE @]))

Turn ==
    \E b \in Symbols \cup StringSymbols \cup {text[k] : k \in 1 .. Len(text)} \cup {"end"} :
        /\ Read(b)
        /\ \/ Trailing(b) \/ Finish(b)
           \/ StringChar(b) \/ EscapedChar(b) \/ StringEnds(b) \/ NameEnds(b)
           \/ SeekSpace(b) \/ ArrayEnds(b) \/ Comma(b) \/ Colon(b)
           \/ ObjectStarts(b) \/ ArrayStarts(b) \/ StringStarts(b) \/ Literal(b)
           \/ NumberStarts(b) \/ NumberSkipped(b) \/ NoValue(b)
           \/ NameStarts(b) \/ ObjectEnds(b) \/ BetweenEntries(b)
           \/ Digit(b) \/ ExponentSign(b) \/ Point(b) \/ Exponent(b) \/ NumberEnds(b)

-----------------------------------------------------------------------------
(* Giving memory back.                                                     *)

Free(block) == block \in p.heap /\ p' = [p EXCEPT !.heap = @ \ {block}]

(* e_failed: the loop over next_alloc, then, in the second pass, the tree. *)
FreeChain ==
    /\ pc = "freeChain" /\ p.alloc # 0
    /\ p.val[p.alloc].chain # -1 /\ <<p.alloc, "value">> \in p.heap
    /\ p' = [p EXCEPT !.heap = @ \ {<<p.alloc, "value">>}, !.alloc = p.val[p.alloc].chain]
    /\ UNCHANGED <<text, closed, pc, failed>>

FreeChainEnds ==
    /\ pc = "freeChain" /\ p.alloc = 0
    /\ IF p.pass = 1 THEN pc' = "over" /\ UNCHANGED p
       ELSE pc' = "freeTree" /\ p' = [p EXCEPT !.alloc = p.root]
    /\ UNCHANGED <<text, closed, failed>>

(* The caller has what it wants of the result and frees it.                *)
FreeResult ==
    /\ pc = "done"
    /\ pc' = "freeTree"
    /\ p' = [p EXCEPT !.alloc = p.root]
    /\ UNCHANGED <<text, closed, failed>>

(* json_value_free_ex: value (p.alloc here) goes down to the last child    *)
(* that is left, and up when a value has none.                             *)
Value == p.val[p.alloc]
HasChildren == Value.type \in {"array", "object"} /\ Value.len > 0

FreeDown ==
    /\ pc = "freeTree" /\ p.alloc # 0
    /\ <<p.alloc, "value">> \in p.heap /\ HasChildren /\ <<p.alloc, "buffer">> \in p.heap
    /\ p' = [p EXCEPT !.val[p.alloc].len = @ - 1, !.alloc = Value.items[Value.len]]
    /\ UNCHANGED <<text, closed, pc, failed>>

FreeUp ==
    /\ pc = "freeTree" /\ p.alloc # 0
    /\ <<p.alloc, "value">> \in p.heap /\ ~HasChildren
    /\ p' = [p EXCEPT !.heap = @ \ {<<p.alloc, "buffer">>, <<p.alloc, "value">>},
                      !.alloc = IF p.alloc = p.root THEN 0 ELSE Value.parent]
    /\ UNCHANGED <<text, closed, pc, failed>>

FreeTreeEnds ==
    /\ pc = "freeTree" /\ p.alloc = 0
    /\ pc' = "over"
    /\ UNCHANGED <<text, closed, failed, p>>

(* A value that was freed, or a buffer that was never allocated, is used.  *)
FreeUndefined ==
    /\ \/ /\ pc = "freeChain" /\ p.alloc # 0
          /\ p.val[p.alloc].chain = -1 \/ <<p.alloc, "value">> \notin p.heap
       \/ /\ pc = "freeTree" /\ p.alloc # 0
          /\ \/ <<p.alloc, "value">> \notin p.heap
             \/ HasChildren /\ <<p.alloc, "buffer">> \notin p.heap
    /\ pc' = "undefined"
    /\ UNCHANGED <<text, closed, failed, p>>

Next ==
    \/ Turn
    \/ FreeChain \/ FreeChainEnds \/ FreeResult \/ FreeDown \/ FreeUp \/ FreeTreeEnds
    \/ FreeUndefined

Spec == Init /\ [][Next]_vars

FairSpec == Spec /\ WF_vars(Next)

-----------------------------------------------------------------------------
(* How mod_login and mod_chat find their way through the result: not by    *)
(* values[k], but from name to name over the bytes they expect, and from   *)
(* value to value along next_alloc.                                        *)

Login == <<[name |-> "uid", type |-> "integer"], [name |-> "mid", type |-> "integer"],
           [name |-> "gameid", type |-> "integer"], [name |-> "app_version", type |-> "string"]>>
Chat == <<[name |-> "recv_id", type |-> "integer"], [name |-> "msg", type |-> "string"]>>

Root == p.val[p.root]

(* object_mem as a string: the names with their terminators, end to end.   *)
(* A NUL in a name is one more terminator to strcmp.                       *)
Nul == <<"esc", "u0">>
NameBuffer == FlattenSeq([i \in 1 .. Len(Root.names) |-> Append(Root.names[i].chars, Nul)])
Offset(c) ==
    LET bytes[n \in 0 .. c - 1] == IF n = 0 THEN 0 ELSE bytes[n - 1] + Width(NameBuffer[n])
    IN  bytes[c - 1]

(* Where key is for the k-th entry, and the value read for it.             *)
Key(expected, k) ==
    LET key[j \in 1 .. k] == IF j = 1 THEN 0 ELSE key[j - 1] + Size(expected[j - 1].name) + 1
    IN  key[k]
ReadValue(k) ==
    LET v[j \in 1 .. k] == IF j = 1 THEN Root.items[1] ELSE p.val[v[j - 1]].chain
    IN  v[k]

(* strcmp from key on; no expected name is the end of another one.         *)
NameMatches(expected, k) ==
    \E c \in 1 .. Len(NameBuffer) - 1 :
        /\ Offset(c) = Key(expected, k)
        /\ NameBuffer[c] = <<expected[k].name>> /\ NameBuffer[c + 1] = Nul

Accepts_AnyType(expected, k) == NameMatches(expected, k)

(* They go on to the next entry if this one is as expected.                *)
Accepts(expected, k) ==
    NameMatches(expected, k) /\ p.val[ReadValue(k)].type = expected[k].type

ReadsTo(expected, k) == \A j \in 1 .. k - 1 : Accepts(expected, j)

-----------------------------------------------------------------------------
(* Properties.                                                             *)

TypeOK ==
    /\ Len(text) <= MaxLen \/ text \in Documents
    /\ closed \in BOOLEAN
    /\ pc \in {"parse", "done", "freeChain", "freeTree", "over", "undefined"}
    /\ failed \in {"no", "syntax", "memory"}
    /\ p.pass \in {1, 2}
    /\ {p.top, p.root, p.alloc} \subseteq 0 .. Len(p.val)

(* What the first pass counts is enough for what the second one writes:    *)
(* the bytes of a string and of the names with their terminators           *)
(* (string_add, json.c:359-383), the children (json.c:741-764).            *)
BuffersFit ==
    (pc = "parse" /\ p.pass = 2 /\ p.top # 0) =>
        /\ (Has("string") /\ Type = "string") => p.length < Top.room
        /\ (Has("string") /\ Type = "object") =>
               Top.used + p.length < Top.room /\ Len(Top.items) < Top.slots
        /\ \A v \in 1 .. p.top :
               p.val[v].type \in {"array", "object"} => Len(p.val[v].items) <= p.val[v].slots

(* The values of the result are the document the text stands for.          *)
RECURSIVE Document(_)
Document(v) ==
    LET r == p.val[v]
    IN  CASE r.type = "integer" -> <<"integer", r.integer>>
          [] r.type = "string" -> <<"string", FlattenSeq(r.chars)>>
          [] r.type = "array" -> <<"array", [k \in 1 .. r.len |-> Document(r.items[k])]>>
          [] r.type = "object" ->
                <<"object", [k \in 1 .. r.len |-> <<FlattenSeq(r.names[k].chars), Document(r.items[k])>>]>>
          [] OTHER -> <<r.type>>

(* json_parse accepts the texts of the grammar and no others, and what it  *)
(* returns is what the text says (json.c:248-778).  A text is refused at   *)
(* the first symbol no text of the grammar goes on with, and by the first  *)
(* pass: the second one, which fills what is counted, reads no surprise.   *)
ParsesTheGrammar ==
    /\ pc = "done" /\ Len(text) <= MaxLen => Entry(text, Document(p.root)) \in Language
    /\ (failed = "syntax") =>
        /\ p.pass = 1 /\ Len(text) <= MaxLen
        /\ text \notin IF closed THEN Sentences ELSE Beginnings

(* The text starts with a ], and top->type is read of a NULL top           *)
(* (json.c:409).                                                           *)
StartsWithBracket ==
    \E k \in 1 .. Len(text) : text[k] = "]" /\ \A j \in 1 .. k - 1 : text[j] = "w"

(* All memory is given back, and nothing that was given back is used       *)
(* (json.c:795-875), unless malloc fails in the second pass.  Then the     *)
(* value whose buffer is missing is no child of any other yet: the root's  *)
(* child it belongs to stays behind with all it has got so far, and if it  *)
(* is the root, its children are looked for in the missing buffer.         *)
MemoryAccounted ==
    LET Left == {v \in 1 .. p.top :
                   \E a \in 1 .. v : /\ p.val[a].parent = p.root
                                     /\ \A b \in a + 1 .. p.top : p.val[b].parent # p.root}
        late == failed = "memory" /\ p.pass = 2
    IN  /\ pc = "over" /\ ~late => p.heap = {}
        /\ pc = "over" /\ late =>
               p.heap = {<<v, "value">> : v \in Left}
                        \cup {<<v, "buffer">> : v \in {v \in Left \ {p.top} :
                                     p.val[v].type \in {"array", "object", "string"}}}
        /\ pc = "undefined" =>
               StartsWithBracket \/ (late /\ p.top = p.root /\ Root.len > 0)

(* mod_login, which asks for four entries, and mod_chat, if it is given at *)
(* least two, go on only to the value of their own next entry, and with    *)
(* key inside the buffer of the names; but key is at that entry's name     *)
(* only if no name before it has a NUL inside, behind which they would go  *)
(* on in the same name (mod_login.c:20-47, mod_chat.c:17-28).              *)
HandlersReadTheirEntries ==
    \A expected \in {Login, Chat} :
        (/\ pc = "done" /\ Root.type = "object"
         /\ IF expected = Login THEN Root.len = 4 ELSE Root.len >= 2) =>
            \A k \in 1 .. Len(expected) :
                ReadsTo(expected, k) =>
                    /\ ReadValue(k) = Root.items[k]
                    /\ Key(expected, k) < Root.room
                    /\ Key(expected, k) = Root.names[k].off <=>
                           \A j \in 1 .. k - 1 : ~Contains(Root.names[j].chars, Nul)

(* Both passes and the freeing come to an end, the turns that look at a    *)
(* character again included (json.c:720-724).                              *)
ParserEnds == <>(pc \in {"over", "undefined"})

=============================================================================

------------------------------- MODULE MCJson -------------------------------
(***************************************************************************)
(* The texts that are parsed, the grammar of RFC 8259 they are held        *)
(* against, and what is checked of Json.                                   *)
(***************************************************************************)
EXTENDS Json

\* Objects and arrays, with the same name twice and a name that sorts first.
MCStructure == [max |-> 9, comments |-> FALSE,
                frags |-> {<<123>>, <<125>>, <<91>>, <<93>>, <<44>>, <<58>>, <<34, 98, 34>>, <<34, 34>>, <<49>>}]

\* Numbers, with the digits that make the largest of Width bits and one more.
MCNumbers == [max |-> 6, comments |-> FALSE,
              frags |-> {<<45>>, <<48>>, <<49>>, <<51>>, <<46>>, <<101>>, <<43>>, <<32>>}]

\* Strings: escapes, surrogates, control characters.
MCEscapes == [max |-> 5, comments |-> FALSE,
              frags |-> {<<34>>, <<97>>, <<47>>, <<92>>, <<117>>, <<1>>, <<92, 110>>,
                         <<92, 117, Hex(1)>>, <<92, 117, Hex(233)>>, <<92, 117, Hex(8364)>>,
                         <<92, 117, Hex(55296)>>, <<92, 117, Hex(56320)>>}]

\* Strings: UTF-8, a first byte of every class, bytes at the edges.
MCUtf8 == [max |-> 5, comments |-> FALSE,
           frags |-> {<<34, 97>>, <<34>>, <<127>>, <<128>>, <<143>>, <<144>>, <<159>>, <<160>>, <<191>>, <<193>>,
                      <<194>>, <<223>>, <<224>>, <<225>>, <<237>>, <<239>>, <<240>>, <<241>>, <<244>>, <<245>>}]

\* White space, literals, comments, the byte order mark and NUL.
MCComments == [max |-> 6, comments |-> TRUE,
               frags |-> {<<47>>, <<42>>, <<10>>, <<0>>, <<49>>, <<91>>, <<93>>, <<34, 47, 34>>,
                          <<239, 187, 191>>, <<116, 114, 117, 101>>, <<110, 117>>}]

MCAlphabets == {MCStructure, MCNumbers, MCEscapes, MCUtf8, MCComments, [MCComments EXCEPT !.comments = FALSE, !.max = 4]}

(***************************************************************************)
(* The grammar.  In(t) is the set of the values that t denotes: empty when *)
(* t is not JSON.                                                          *)
(***************************************************************************)
RefDigits(t) == t # <<>> /\ \A i \in DOMAIN t : t[i] \in Digit
From(t, i) == SubSeq(t, i, Len(t))
To(t, i) == SubSeq(t, 1, i)

RECURSIVE Trim(_)
Trim(t) == IF t = <<>> THEN t
           ELSE IF t[1] \in Whitespace THEN Trim(Tail(t))
           ELSE IF Last(t) \in Whitespace THEN Trim(Front(t)) ELSE t

IsInt(t) == RefDigits(t) /\ (t[1] = 48 => Len(t) = 1)
IsFrac(t) == t = <<>> \/ (t[1] = 46 /\ RefDigits(Tail(t)))
IsExp(t) == \/ t = <<>>
            \/ /\ t[1] \in {101, 69}
               /\ RefDigits(Tail(t)) \/ (Len(t) > 1 /\ t[2] \in {43, 45} /\ RefDigits(From(t, 3)))
IsNumber(t) ==
    LET u == IF t # <<>> /\ t[1] = 45 THEN Tail(t) ELSE t IN
    \E i, j \in 0..Len(u) : i <= j /\ IsInt(To(u, i)) /\ IsFrac(SubSeq(u, i + 1, j)) /\ IsExp(From(u, j + 1))
NumberIn(t) ==
    IF ~IsNumber(t) THEN {}
    ELSE IF \A i \in DOMAIN t : t[i] \in Digit \cup {45}
         THEN LET n == StrToInt(t)
                  type == IF t[1] = 45 THEN "integer" ELSE "unsigned" IN
              IF n \in (-(2^(Width - 1)))..(2^Width - 1) THEN {NumberValue(type, n)} ELSE {Float(t)}
    ELSE IF Finite(t) THEN {Float(t)} ELSE {}

\* The scalar value that bytes encode in UTF-8, by the bits they carry.
Bits(t) == CASE Len(t) = 1 -> t[1]
             [] Len(t) = 2 -> (t[1] - 192) * 64 + (t[2] - 128)
             [] Len(t) = 3 -> ((t[1] - 224) * 64 + (t[2] - 128)) * 64 + (t[3] - 128)
             [] OTHER -> (((t[1] - 240) * 64 + (t[2] - 128)) * 64 + (t[3] - 128)) * 64 + (t[4] - 128)
IsCharacter(t) ==
    /\ \A i \in 2..Len(t) : t[i] \in 128..191
    /\ \/ Len(t) = 1 /\ (t[1] \in (32..127) \ {34, 92} \/ t[1] >= 256)
       \/ Len(t) = 2 /\ t[1] \in 192..223 /\ Bits(t) \in 128..2047
       \/ Len(t) = 3 /\ t[1] \in 224..239 /\ Bits(t) \in (2048..65535) \ (55296..57343)
       \/ Len(t) = 4 /\ t[1] \in 240..247 /\ Bits(t) \in 65536..1114111

\* The inside of a string as bytes.
IsHex(t, i) == i + 2 <= Len(t) /\ t[i] = 92 /\ t[i + 1] = 117 /\ t[i + 2] >= 256
RECURSIVE Inside(_)
Inside(t) ==
    LET Then(bytes, n) == {bytes \o r : r \in Inside(From(t, n + 1))}
        High == IsHex(t, 1) /\ t[3] - 256 \in 55296..56319
        Low(i) == IsHex(t, i) /\ t[i + 2] - 256 \in 56320..57343 IN
    IF t = <<>> THEN {<<>>}
    ELSE IF High THEN IF Low(4) THEN Then(CodepointBytes(65536 + (t[3] - 256 - 55296) * 1024 + (t[6] - 256 - 56320)), 6) ELSE {}
    ELSE IF IsHex(t, 1) THEN IF Low(1) THEN {} ELSE Then(CodepointBytes(t[3] - 256), 3)
    ELSE IF t[1] = 92 THEN
         IF Len(t) = 1 THEN {}
         ELSE CASE t[2] \in {34, 47, 92} -> Then(<<t[2]>>, 2)
                [] t[2] = 110 -> Then(<<10>>, 2)
                [] OTHER -> {}
    ELSE UNION {Then(To(t, n), n) : n \in {n \in 1..4 : n <= Len(t) /\ IsCharacter(To(t, n))}}
StringIn(t) == IF Len(t) > 1 /\ t[1] = 34 /\ Last(t) = 34 THEN Inside(SubSeq(t, 2, Len(t) - 1)) ELSE {}

RECURSIVE ValueIn(_), ElementsIn(_), MembersIn(_)
ValueIn(text_) ==
    LET t == Trim(text_)
        inner == SubSeq(t, 2, Len(t) - 1)
        Enclosed(open, close) == Len(t) > 1 /\ t[1] = open /\ Last(t) = close IN
    CASE t = <<116, 114, 117, 101>> -> {Boolean(TRUE)}
      [] t = <<102, 97, 108, 115, 101>> -> {Boolean(FALSE)}
      [] t = <<110, 117, 108, 108>> -> {NullValue}
      [] Enclosed(91, 93) -> IF Trim(inner) = <<>> THEN {JsonValue("array")}
                             ELSE {[JsonValue("array") EXCEPT !.a = e] : e \in ElementsIn(inner)}
      [] Enclosed(123, 125) -> IF Trim(inner) = <<>> THEN {JsonValue("object")}
                               ELSE {[JsonValue("object") EXCEPT !.o = m] : m \in MembersIn(inner)}
      [] OTHER -> {String(s) : s \in StringIn(t)} \cup NumberIn(t)

Positions(t, c) == {i \in DOMAIN t : t[i] = c}

ElementsIn(t) ==
    {<<v>> : v \in ValueIn(t)}
    \cup UNION {{<<v>> \o r : v \in ValueIn(To(t, i - 1)), r \in ElementsIn(From(t, i + 1))} : i \in Positions(t, 44)}

\* A later member hides an earlier one of the same name.
MemberIn(t) == UNION {{k :> v : k \in StringIn(Trim(To(t, i - 1))), v \in ValueIn(From(t, i + 1))} : i \in Positions(t, 58)}
MembersIn(t) ==
    MemberIn(t)
    \cup UNION {{r @@ m : m \in MemberIn(To(t, i - 1)), r \in MembersIn(From(t, i + 1))} : i \in Positions(t, 44)}

\* The text without its comments, each a space: {} when one does not end.
RECURSIVE Uncommented(_)
Uncommented(t) ==
    LET Starts(x, y) == Len(t) > 1 /\ t[1] = x /\ t[2] = y
        lineEnds == {i \in 3..Len(t) : t[i] \in {10, 13, 0}}
        blockEnds == {i \in 3..(Len(t) - 1) : t[i] = 42 /\ t[i + 1] = 47}
        quotes == {i \in 2..Len(t) : t[i] = 34}
        First(S) == CHOOSE i \in S : \A j \in S : i <= j
        Then(kept, i) == {kept \o r : r \in Uncommented(From(t, i))} IN
    CASE t = <<>> -> {<<>>}
      [] Starts(47, 47) -> IF lineEnds = {} THEN {<<32>>} ELSE Then(<<32>>, First(lineEnds) + 1)
      [] Starts(47, 42) -> IF blockEnds = {} \/ \E i \in 3..First(blockEnds) : t[i] = 0
                           THEN {} ELSE Then(<<32>>, First(blockEnds) + 2)
      [] t[1] = 34 /\ quotes # {} -> Then(To(t, First(quotes)), First(quotes) + 1)
      [] OTHER -> Then(<<t[1]>>, 2)

\* What a whole text denotes: a byte order mark is skipped, a NUL ends it.
Denoted(t, comments) ==
    LET bom == <<239, 187, 191>>
        marked == Len(t) > 2 /\ To(t, 3) = bom
        u == IF marked THEN From(t, 4) ELSE t
        v == IF u # <<>> /\ Last(u) = 0 THEN Front(u) ELSE u IN
    IF comments THEN UNION {ValueIn(x) : x \in Uncommented(v)} ELSE ValueIn(v)

\* Ends that would make JSON of a text that was given up too early.
Endings == {<<>>, <<93>>, <<125>>, <<49>>, <<49, 93>>, <<58, 49, 125>>, <<34>>, <<34, 93>>, <<128, 34>>, <<191, 34>>,
         <<128, 128, 34>>, <<110, 34>>, <<47, 49>>, <<10, 49>>}

\* A file is parsed exactly when it is JSON, and to the value that the grammar
\* gives it: the stack of sax_parse_internal() and the pointers of the DOM
\* parser follow the nesting whatever the tokens are.  What is refused would
\* not have become JSON with more bytes.
ParsesJson ==
    pc = "done" =>
        IF root = Discarded
        THEN \A e \in (IF lexer.current = eof THEN {<<>>} ELSE Endings) :
                Denoted(text \o source.rest \o e, source.comments) = {}
        ELSE Denoted(text, source.comments) = {root}

\* A configuration survives: what unwgt writes of it is parsed again, to a
\* value that == the first one, and dump() does not throw, that is, every
\* string that the lexer lets through is UTF-8 to the decoder of dump().
ConfigurationSurvives ==
    /\ pc # "thrown"
    /\ pc = "done" /\ config # {} => \A v \in config : Equal(v, root)

\* The parser's stack and the DOM parser's agree: each open container has one
\* pointer, it leads to a container of that kind, in the one before it.
StacksAgree ==
    pc \notin {"done", "thrown"} =>
        /\ Len(states) \in {Len(ref_stack), Len(ref_stack) - 1}
        /\ \A i \in DOMAIN ref_stack :
              /\ IsPrefix(ref_stack[IF i = 1 THEN 1 ELSE i - 1], ref_stack[i])
              /\ i \in DOMAIN states => ValueAt(root, ref_stack[i]).type = states[i]
        /\ pc \in {"value", "array", "object", "end"} =>
              Len(states) = Len(ref_stack)
=============================================================================

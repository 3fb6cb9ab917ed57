-------------------------------- MODULE Json --------------------------------
(***************************************************************************)
(* The JSON of a package: nlohmann's parser, which every JSON file of an   *)
(* OCI package goes through (parse() with no exceptions, and for the       *)
(* manifest with comments skipped), the conversion of a configuration to   *)
(* the library's own JSON values and back, and dump(), with which unwgt    *)
(* writes it again.                                                        *)
(*                                                                         *)
(* The lexer takes one step for every get(), the parser one for every      *)
(* token.  Bytes are numbers; the four hex digits of a \u escape are one   *)
(* element of the text, Hex(codepoint).  Floating-point numbers are their  *)
(* text: strtod and Grisu2 are external.  allow_exceptions is FALSE and    *)
(* there is no callback, as everywhere in this repository; the token that  *)
(* parse() reads after an error changes nothing and is left out, as are    *)
(* error texts and positions.                                              *)
(***************************************************************************)
EXTENDS Integers, SequencesExt

CONSTANTS
    Alphabets,    \* what a text may be made of: [frags, max, comments]
    Width,        \* bits of number_integer_t and number_unsigned_t
    MaxExponent,  \* above this exponent strtod() returns infinity
    IndentStep    \* spaces per level written by dump()

ASSUME JsonConstants ==
    /\ Width \in Nat \ {0} /\ MaxExponent \in Nat /\ IndentStep \in Nat
    /\ \A a \in Alphabets : a.max \in Nat /\ a.comments \in BOOLEAN

VARIABLES
    source,          \* the alphabet, what is left of a fragment, fragments left
    text,            \* what has been read
    lexer,           \* the lexer: where it is and its members
    pc,              \* the get_token() that sax_parse_internal() waits in
    states,          \* its stack: "array" or "object"
    root,            \* the value built so far
    ref_stack,       \* the open containers, as paths from the root
    object_element,  \* the member that takes the next value, as a path
    config           \* {} in the first parse, then the value that was dumped

vars == <<source, text, lexer, pc, states, root, ref_stack, object_element, config>>

eof == -1
Hex(codepoint) == 256 + codepoint
Whitespace == {32, 9, 10, 13}
Digit19 == 49..57
Digit == 48..57

(***************************************************************************)
(* Values.  Every value has the same fields, so that any two compare.      *)
(***************************************************************************)
JsonValue(type) == [type |-> type, n |-> 0, s |-> <<>>, a |-> <<>>, o |-> <<>>]
NullValue == JsonValue("null")
Boolean(b) == [JsonValue("boolean") EXCEPT !.n = IF b THEN 1 ELSE 0]
String(s) == [JsonValue("string") EXCEPT !.s = s]
NumberValue(type, n) == [JsonValue(type) EXCEPT !.n = n]
Float(buf) == [JsonValue("float") EXCEPT !.s = buf]
Discarded == JsonValue("discarded")

\* A number as number_integer_t: static_cast of one that does not fit wraps.
ToInteger(n) == IF n >= 2^(Width - 1) THEN n - 2^Width ELSE n

\* operator==: two integers compare as signed integers whatever their types;
\* a discarded value equals nothing.  A float never compares with an integer
\* here, since equal ones would be written alike.
RECURSIVE Equal(_, _)
Equal(l, r) ==
    LET Integral == {"unsigned", "integer"} IN
    IF l.type \in Integral /\ r.type \in Integral
    THEN IF l.type = r.type THEN l.n = r.n ELSE ToInteger(l.n) = ToInteger(r.n)
    ELSE /\ l.type = r.type
         /\ l.type # "discarded"
         /\ l.n = r.n /\ l.s = r.s
         /\ Len(l.a) = Len(r.a) /\ \A i \in DOMAIN l.a : Equal(l.a[i], r.a[i])
         /\ DOMAIN l.o = DOMAIN r.o /\ \A k \in DOMAIN l.o : Equal(l.o[k], r.o[k])

(***************************************************************************)
(* The lexer.  Its control state st is the function and the place in it    *)
(* that waits for the next byte; "token" when scan() has returned tok.     *)
(***************************************************************************)
NewLexer == [st |-> "bom", current |-> eof, next_unget |-> FALSE, buf |-> <<>>,
             rest |-> <<>>, codepoint |-> 0, type |-> "unsigned", tok |-> "uninitialized"]

Token(l, t) == [l EXCEPT !.st = "token", !.tok = t]
Fail(l) == Token(l, "parse_error")
Go(l, st) == [l EXCEPT !.st = st]
Add(l, bytes) == [l EXCEPT !.buf = l.buf \o bytes]
Unget(l) == [l EXCEPT !.next_unget = TRUE]

\* The input adapter: the next byte of the text, or the end of it.
get_character(c) ==
    \/ /\ source.rest # <<>>
       /\ c = Head(source.rest)
       /\ source' = [source EXCEPT !.rest = Tail(@)]
       /\ text' = Append(text, c)
    \/ /\ source.rest = <<>>
       /\ c = eof
       /\ source' = [source EXCEPT !.left = 0]
       /\ UNCHANGED text
    \/ /\ source.rest = <<>>
       /\ source.left > 0
       /\ \E f \in source.frags :
             /\ c = Head(f)
             /\ source' = [source EXCEPT !.rest = Tail(f), !.left = @ - 1]
       /\ text' = Append(text, c)

\* What get() may return next.
Offered == IF lexer.next_unget THEN {lexer.current}
           ELSE IF source.rest # <<>> THEN {Head(source.rest)}
           ELSE {eof} \cup (IF source.left > 0 THEN {Head(f) : f \in source.frags} ELSE {})

\* get(): the byte that was put back, or the next one.
get(c) ==
    \/ lexer.next_unget /\ c = lexer.current /\ UNCHANGED <<source, text>>
    \/ ~lexer.next_unget /\ get_character(c)

\* skip_bom(): EF BB BF at the start is skipped; another first byte is put back.
skip_bom(l, c) ==
    CASE l.st = "bom" /\ c = 239 -> Go(l, "bom2")
      [] l.st = "bom" /\ c # 239 -> Unget(Go(l, "scan"))
      [] l.st = "bom2" -> IF c = 187 THEN Go(l, "bom3") ELSE Fail(l)
      [] OTHER -> IF c = 191 THEN Go(l, "scan") ELSE Fail(l)

\* scan_literal(): true, false and null, after their first letter.
scan_literal(l, c) ==
    IF c # Head(l.rest) THEN Fail(l)
    ELSE IF Len(l.rest) = 1 THEN Token(l, l.type)
    ELSE [l EXCEPT !.rest = Tail(@)]

\* Mutant: the byte after a star is not put back.
scan_commentKeeps(l, c) ==
    CASE l.st = "comment" -> IF c = 47 THEN Go(l, "line")
                             ELSE IF c = 42 THEN Go(l, "block") ELSE Fail(l)
      [] l.st = "line" -> IF c \in {10, 13, 0, eof} THEN Go(l, "scan") ELSE l
      [] l.st = "block" -> IF c \in {eof, 0} THEN Fail(l)
                           ELSE IF c = 42 THEN Go(l, "star") ELSE l
      [] OTHER -> IF c = 47 THEN Go(l, "scan") ELSE Go(l, "block")

\* scan_comment(): to the end of the line, or to the first */.
scan_comment(l, c) ==
    CASE l.st = "comment" -> IF c = 47 THEN Go(l, "line")
                             ELSE IF c = 42 THEN Go(l, "block") ELSE Fail(l)
      [] l.st = "line" -> IF c \in {10, 13, 0, eof} THEN Go(l, "scan") ELSE l
      [] l.st = "block" -> IF c \in {eof, 0} THEN Fail(l)
                           ELSE IF c = 42 THEN Go(l, "star") ELSE l
      [] OTHER -> IF c = 47 THEN Go(l, "scan") ELSE Unget(Go(l, "block"))

(***************************************************************************)
(* Strings.                                                                *)
(***************************************************************************)
\* Mutant: the surrogates D800..DFFF are taken in UTF-8.
Utf8RangesSurrogates(c) ==
    LET tail == 128..191 IN
    CASE c \in 194..223 -> <<tail>>
      [] c = 224 -> <<160..191, tail>>
      [] c \in 225..239 -> <<tail, tail>>
      [] c = 240 -> <<144..191, tail, tail>>
      [] c \in 241..243 -> <<tail, tail, tail>>
      [] c = 244 -> <<128..143, tail, tail>>
      [] OTHER -> <<>>

\* The ranges of the bytes that follow a first byte of UTF-8.
Utf8Ranges(c) ==
    LET tail == 128..191 IN
    CASE c \in 194..223 -> <<tail>>
      [] c = 224 -> <<160..191, tail>>
      [] c \in (225..236) \cup {238, 239} -> <<tail, tail>>
      [] c = 237 -> <<128..159, tail>>
      [] c = 240 -> <<144..191, tail, tail>>
      [] c \in 241..243 -> <<tail, tail, tail>>
      [] c = 244 -> <<128..143, tail, tail>>
      [] OTHER -> <<>>

\* next_byte_in_range(): one of the bytes that follow.
next_byte_in_range(l, c) ==
    IF c \notin Head(l.rest) THEN Fail(l)
    ELSE Add([l EXCEPT !.rest = Tail(@), !.st = IF Len(l.rest) = 1 THEN "string" ELSE "utf8"], <<c>>)

\* Control characters are refused, printable ones are added.
ControlCharacter(c) == c \in 0..31
PlainCharacter(c) == c \in (32..127) \ {34, 92} \/ c >= 256

\* scan_string(): one byte of a string.
scan_string(l, c) ==
    CASE c = eof \/ ControlCharacter(c) -> Fail(l)
      [] c = 34 -> Token(l, "value_string")
      [] c = 92 -> Go(l, "escape")
      [] PlainCharacter(c) -> Add(l, <<c>>)
      [] Utf8Ranges(c) # <<>> -> Add([l EXCEPT !.st = "utf8", !.rest = Utf8Ranges(c)], <<c>>)
      [] OTHER -> Fail(l)

\* The character after a backslash: b f n r t are control characters.
scan_escape(l, c) ==
    LET control == (98 :> 8) @@ (102 :> 12) @@ (110 :> 10) @@ (114 :> 13) @@ (116 :> 9) IN
    CASE c \in {34, 92, 47} -> Add(Go(l, "string"), <<c>>)
      [] c \in DOMAIN control -> Add(Go(l, "string"), <<control[c]>>)
      [] c = 117 -> Go(l, "codepoint1")
      [] OTHER -> Fail(l)

\* get_codepoint(): four hex digits, or -1.
get_codepoint(c) == IF c >= 256 THEN c - 256 ELSE -1

\* The bytes of a code point.
CodepointBytes(cp) ==
    CASE cp < 128 -> <<cp>>
      [] cp \in 128..2047 -> <<192 + (cp \div 64), 128 + (cp % 64)>>
      [] cp \in 2048..65535 -> <<224 + (cp \div 4096), 128 + ((cp \div 64) % 64), 128 + (cp % 64)>>
      [] OTHER -> <<240 + (cp \div 262144), 128 + ((cp \div 4096) % 64),
                    128 + ((cp \div 64) % 64), 128 + (cp % 64)>>

\* A \u escape; a high surrogate must be followed by a \u escape with a low one.
scan_unicode(l, c) ==
    LET cp == get_codepoint(c)
        Plain(x) == Add(Go(l, "string"), CodepointBytes(x)) IN
    CASE l.st = "codepoint1" /\ cp \in 55296..56319 -> [l EXCEPT !.st = "surrogate", !.codepoint = cp]
      [] l.st = "codepoint1" /\ cp \in (0..55295) \cup (57344..65535) -> Plain(cp)
      [] l.st = "surrogate" /\ c = 92 -> Go(l, "surrogate_u")
      [] l.st = "surrogate_u" /\ c = 117 -> Go(l, "codepoint2")
      [] l.st = "codepoint2" /\ cp \in 56320..57343 -> Plain(l.codepoint * 1024 + cp - 56613888)
      [] OTHER -> Fail(l)

(***************************************************************************)
(* Numbers: the state machine of RFC 8259, one definition for each label.  *)
(***************************************************************************)
scan_number_init(c) == CASE c = 45 -> "minus" [] c = 48 -> "zero" [] OTHER -> "any1"
scan_number_minus(c) == CASE c = 48 -> "zero" [] c \in Digit19 -> "any1" [] OTHER -> "error"
scan_number_zero(c) == CASE c = 46 -> "decimal1" [] c \in {101, 69} -> "exponent" [] OTHER -> "done"
scan_number_any1(c) == IF c \in Digit THEN "any1" ELSE scan_number_zero(c)
scan_number_decimal1(c) == IF c \in Digit THEN "decimal2" ELSE "error"
scan_number_decimal2(c) ==
    CASE c \in Digit -> "decimal2" [] c \in {101, 69} -> "exponent" [] OTHER -> "done"
scan_number_exponent(c) == CASE c \in {43, 45} -> "sign" [] c \in Digit -> "any2" [] OTHER -> "error"
scan_number_sign(c) == IF c \in Digit THEN "any2" ELSE "error"
scan_number_any2(c) == IF c \in Digit THEN "any2" ELSE "done"

NumberStates == {"minus", "zero", "any1", "decimal1", "decimal2", "exponent", "sign", "any2"}

NumberNext(st, c) ==
    CASE st = "minus" -> scan_number_minus(c)
      [] st = "zero" -> scan_number_zero(c)
      [] st = "any1" -> scan_number_any1(c)
      [] st = "decimal1" -> scan_number_decimal1(c)
      [] st = "decimal2" -> scan_number_decimal2(c)
      [] st = "exponent" -> scan_number_exponent(c)
      [] st = "sign" -> scan_number_sign(c)
      [] OTHER -> scan_number_any2(c)

\* The type a state sets: minus an integer, a point or an exponent a float.
NumberType(type, st) ==
    CASE st = "minus" -> "integer" [] st \in {"decimal1", "exponent"} -> "float" [] OTHER -> type

\* strtoull and strtoll.
RECURSIVE Digits(_)
Digits(s) == IF s = <<>> THEN 0 ELSE 10 * Digits(Front(s)) + Last(s) - 48
StrToInt(buf) == IF buf[1] = 45 THEN -Digits(Tail(buf)) ELSE Digits(buf)

\* Where ERANGE is not set.
InRange(type, n) == IF type = "unsigned" THEN n < 2^Width ELSE n >= -(2^(Width - 1))

\* scan_number_done: put the byte back and convert; what an integer cannot
\* hold becomes a float.
scan_number_done(l) ==
    LET fits == l.type # "float" /\ InRange(l.type, StrToInt(l.buf)) IN
    Token(Unget(l), IF fits THEN "value_" \o l.type ELSE "value_float")

\* scan_number(): one byte of a number.
scan_number(l, c) ==
    LET next == NumberNext(l.st, c) IN
    CASE next = "done" -> scan_number_done(l)
      [] next = "error" -> Fail(l)
      [] OTHER -> Add([l EXCEPT !.st = next, !.type = NumberType(@, next)], <<c>>)

\* std::isfinite() of what strtod() makes of a text.
Finite(buf) ==
    LET e == {i \in DOMAIN buf : buf[i] \in {101, 69}}
        At(i) == SubSeq(buf, i, Len(buf))
        mantissa == {i \in DOMAIN buf : buf[i] \in Digit19 /\ \A j \in e : i < j} IN
    \/ e = {} \/ mantissa = {}
    \/ \E i \in e : LET x == At(i + 1) IN
          x[1] = 45 \/ Digits(IF x[1] = 43 THEN Tail(x) ELSE x) <= MaxExponent

\* scan(): white space is skipped, comments too if asked for, and the first
\* byte of a token says which it is.  A NUL is the end of the input.
Structural == (91 :> "begin_array") @@ (93 :> "end_array") @@ (123 :> "begin_object")
              @@ (125 :> "end_object") @@ (58 :> "name_separator") @@ (44 :> "value_separator")
Literals == (116 :> [t |-> "literal_true", r |-> <<114, 117, 101>>])
            @@ (102 :> [t |-> "literal_false", r |-> <<97, 108, 115, 101>>])
            @@ (110 :> [t |-> "literal_null", r |-> <<117, 108, 108>>])

scan(l, c) ==
    CASE c \in Whitespace -> l
      [] source.comments /\ c = 47 -> Go(l, "comment")
      [] c \in DOMAIN Structural -> Token(l, Structural[c])
      [] c \in DOMAIN Literals -> [l EXCEPT !.st = "literal", !.rest = Literals[c].r, !.type = Literals[c].t]
      [] c = 34 -> [l EXCEPT !.st = "string", !.buf = <<>>]
      [] c \in Digit \cup {45} -> [l EXCEPT !.st = scan_number_init(c), !.buf = <<c>>,
                                            !.type = IF c = 45 THEN "integer" ELSE "unsigned"]
      [] c \in {0, eof} -> Token(l, "end_of_input")
      [] OTHER -> Fail(l)

\* One get() of the lexer.
Lex ==
    /\ lexer.st # "token"
    /\ pc # "done"
    /\ \E c \in Offered :
          LET l == [lexer EXCEPT !.current = c, !.next_unget = FALSE]
              st == lexer.st IN
          /\ get(c)
          /\ lexer' =
                CASE st \in {"bom", "bom2", "bom3"} -> skip_bom(l, c)
                  [] st = "scan" -> scan(l, c)
                  [] st \in {"comment", "line", "block", "star"} -> scan_comment(l, c)
                  [] st = "literal" -> scan_literal(l, c)
                  [] st = "string" -> scan_string(l, c)
                  [] st = "escape" -> scan_escape(l, c)
                  [] st = "utf8" -> next_byte_in_range(l, c)
                  [] st \in {"codepoint1", "codepoint2", "surrogate", "surrogate_u"} -> scan_unicode(l, c)
                  [] OTHER -> scan_number(l, c)
    /\ UNCHANGED <<pc, states, root, ref_stack, object_element, config>>

(***************************************************************************)
(* json_sax_dom_parser.  The pointers it keeps are paths from the root: an *)
(* element of an array by its index, a member by its key.                  *)
(***************************************************************************)
Index(i) == [i |-> i, k |-> <<>>]
Member(k) == [i |-> 0, k |-> k]
Step(v, x) == IF v.type = "array" THEN v.a[x.i] ELSE v.o[x.k]

RECURSIVE ValueAt(_, _)
ValueAt(v, path) == IF path = <<>> THEN v ELSE ValueAt(Step(v, Head(path)), Tail(path))

RECURSIVE Assign(_, _, _)
Assign(v, path, new) ==
    IF path = <<>> THEN new
    ELSE LET x == Head(path) IN
         IF v.type = "array" THEN [v EXCEPT !.a[x.i] = Assign(@, Tail(path), new)]
         ELSE [v EXCEPT !.o[x.k] = Assign(@, Tail(path), new)]

Top == ValueAt(root, Last(ref_stack))

\* handle_value(): the value becomes the root, the next element of the open
\* array, or what object_element points to; where it is, and the new root.
handle_value(v) ==
    CASE ref_stack = <<>> -> [at |-> <<>>, root |-> v]
      [] ref_stack # <<>> /\ Top.type = "array" ->
            [at |-> Append(Last(ref_stack), Index(Len(Top.a) + 1)),
             root |-> Assign(root, Last(ref_stack), [Top EXCEPT !.a = Append(@, v)])]
      [] OTHER -> [at |-> object_element, root |-> Assign(root, object_element, v)]

\* null(), boolean(), number_*(), string().
sax_value(v) == root' = handle_value(v).root /\ UNCHANGED <<ref_stack, object_element>>

\* start_object(), start_array().
sax_start(type) ==
    /\ root' = handle_value(JsonValue(type)).root
    /\ ref_stack' = Append(ref_stack, handle_value(JsonValue(type)).at)
    /\ UNCHANGED object_element

\* key(): a null member of that name unless there is one; values go there next.
key(k) ==
    /\ object_element' = Append(Last(ref_stack), Member(k))
    /\ root' = IF k \in DOMAIN Top.o THEN root
               ELSE Assign(root, Last(ref_stack), [Top EXCEPT !.o = (k :> NullValue) @@ @])
    /\ UNCHANGED ref_stack

\* end_object(), end_array().
sax_end == ref_stack' = Front(ref_stack) /\ UNCHANGED <<root, object_element>>

\* parse_error(): the value of the whole parse is discarded.
parse_error ==
    /\ pc' = "done"
    /\ root' = Discarded
    /\ lexer' = [lexer EXCEPT !.st = "scan"]
    /\ UNCHANGED <<states, ref_stack, object_element>>

(***************************************************************************)
(* parser::sax_parse_internal(), one step for each token.                  *)
(***************************************************************************)
get_token == lexer' = [lexer EXCEPT !.st = "scan"]
Wait(p) == pc' = p /\ get_token

\* After a value: the end if nothing is open, or the next token of what is.
AfterValue(stack) ==
    Wait(IF stack = <<>> THEN "end" ELSE IF Last(stack) = "array" THEN "array" ELSE "object")

Scalar ==
    CASE lexer.tok = "literal_true" -> Boolean(TRUE)
      [] lexer.tok = "literal_false" -> Boolean(FALSE)
      [] lexer.tok = "literal_null" -> NullValue
      [] lexer.tok = "value_string" -> String(lexer.buf)
      [] lexer.tok = "value_unsigned" -> NumberValue("unsigned", StrToInt(lexer.buf))
      [] lexer.tok = "value_integer" -> NumberValue("integer", StrToInt(lexer.buf))
      [] OTHER -> Float(lexer.buf)
IsScalar == lexer.tok \in {"literal_true", "literal_false", "literal_null", "value_string",
                           "value_unsigned", "value_integer", "value_float"}
Overflow == lexer.tok = "value_float" /\ ~Finite(lexer.buf)

\* A token where a value is expected; also the first after [ that is no ].
ParseValue ==
    /\ pc = "value"
    /\ \/ /\ lexer.tok = "begin_object"
          /\ sax_start("object") /\ Wait("first_key") /\ UNCHANGED states
       \/ /\ lexer.tok = "begin_array"
          /\ sax_start("array") /\ Wait("first_element") /\ UNCHANGED states
       \/ /\ IsScalar /\ ~Overflow
          /\ sax_value(Scalar) /\ AfterValue(states) /\ UNCHANGED states
       \/ /\ lexer.tok \notin {"begin_object", "begin_array"} /\ (~IsScalar \/ Overflow)
          /\ parse_error

\* The token after {: an empty object, or the first key.
ParseFirstKey ==
    /\ pc = "first_key"
    /\ \/ /\ lexer.tok = "end_object"
          /\ sax_end /\ AfterValue(states) /\ UNCHANGED states
       \/ /\ lexer.tok = "value_string"
          /\ key(lexer.buf) /\ Wait("first_separator") /\ UNCHANGED states
       \/ lexer.tok \notin {"end_object", "value_string"} /\ parse_error

\* The token after the first key, and the stack remembers the object; or
\* after a later key.
ParseSeparator ==
    /\ pc \in {"first_separator", "separator"}
    /\ \/ /\ lexer.tok = "name_separator"
          /\ states' = IF pc = "separator" THEN states ELSE Append(states, "object")
          /\ Wait("value") /\ UNCHANGED <<root, ref_stack, object_element>>
       \/ lexer.tok # "name_separator" /\ parse_error

\* The token after [: an empty array, or the first token of an element.
ParseFirstElement ==
    /\ pc = "first_element"
    /\ \/ /\ lexer.tok = "end_array"
          /\ sax_end /\ AfterValue(states) /\ UNCHANGED states
       \/ /\ lexer.tok # "end_array"
          /\ states' = Append(states, "array")
          /\ pc' = "value" /\ UNCHANGED <<lexer, root, ref_stack, object_element>>

\* The token after an element of an array.
ParseArray ==
    /\ pc = "array"
    /\ \/ /\ lexer.tok = "value_separator"
          /\ Wait("value") /\ UNCHANGED <<states, root, ref_stack, object_element>>
       \/ /\ lexer.tok = "end_array"
          /\ sax_end /\ states' = Front(states) /\ AfterValue(states')
       \/ lexer.tok \notin {"value_separator", "end_array"} /\ parse_error

\* The token after a member of an object.
ParseObject ==
    /\ pc = "object"
    /\ \/ /\ lexer.tok = "value_separator"
          /\ Wait("key") /\ UNCHANGED <<states, root, ref_stack, object_element>>
       \/ /\ lexer.tok = "end_object"
          /\ sax_end /\ states' = Front(states) /\ AfterValue(states')
       \/ lexer.tok \notin {"value_separator", "end_object"} /\ parse_error

\* The token after a comma in an object.
ParseKey ==
    /\ pc = "key"
    /\ \/ /\ lexer.tok = "value_string"
          /\ key(lexer.buf) /\ Wait("separator") /\ UNCHANGED states
       \/ lexer.tok # "value_string" /\ parse_error

\* parser::parse() is strict: after the value comes the end of the input.
ParseEnd ==
    /\ pc = "end"
    /\ \/ /\ lexer.tok = "end_of_input"
          /\ pc' = "done" /\ UNCHANGED <<lexer, states, root, ref_stack, object_element>>
       \/ lexer.tok # "end_of_input" /\ parse_error

Parse ==
    /\ lexer.st = "token"
    /\ \/ ParseValue \/ ParseFirstKey \/ ParseSeparator \/ ParseFirstElement
       \/ ParseArray \/ ParseObject \/ ParseKey \/ ParseEnd
    /\ UNCHANGED <<source, text, config>>

(***************************************************************************)
(* A configuration is kept as a JSONValue and written again by dump(4).    *)
(***************************************************************************)
\* from_json() and to_json(): every integer becomes an int64_t.
RECURSIVE ThroughJSONValue(_)
ThroughJSONValue(v) ==
    CASE v.type \in {"unsigned", "integer"} -> NumberValue("integer", ToInteger(v.n))
      [] v.type = "array" -> [v EXCEPT !.a = [i \in DOMAIN @ |-> ThroughJSONValue(@[i])]]
      [] v.type = "object" -> [v EXCEPT !.o = [k \in DOMAIN @ |-> ThroughJSONValue(@[k])]]
      [] OTHER -> v

\* decode(): the class of a byte, and the state of the decoder after it:
\* 0 accepts, 1 rejects, the others wait for more bytes.
ByteClass(b) ==
    CASE b \in 0..127 -> 0 [] b \in 128..143 -> 1 [] b \in 144..159 -> 9 [] b \in 160..191 -> 7
      [] b \in 194..223 -> 2 [] b = 224 -> 10 [] b = 237 -> 4 [] b = 240 -> 11
      [] b \in 225..239 \ {237} -> 3 [] b \in 241..243 -> 6 [] b = 244 -> 5 [] OTHER -> 8
DecodeFirst == (0 :> 0) @@ (2 :> 2) @@ (3 :> 3) @@ (4 :> 5) @@ (5 :> 8) @@ (6 :> 7) @@ (10 :> 4) @@ (11 :> 6)
DecodeNext(state, class) ==
    CASE state = 2 /\ class \in {1, 7, 9} -> 0
      [] state = 3 /\ class \in {1, 7, 9} -> 2
      [] state = 4 /\ class = 7 -> 2
      [] state = 5 /\ class \in {1, 9} -> 2
      [] state = 6 /\ class \in {7, 9} -> 3
      [] state = 7 /\ class \in {1, 7, 9} -> 3
      [] state = 8 /\ class = 1 -> 3
      [] OTHER -> 1
decode(state, codepoint, b) ==
    LET class == ByteClass(b) IN
    IF state # 0 THEN [state |-> DecodeNext(state, class), codepoint |-> (b % 64) + codepoint * 64]
    ELSE [state |-> IF class \in DOMAIN DecodeFirst THEN DecodeFirst[class] ELSE 1,
          codepoint |-> b % 2^(8 - (IF class > 8 THEN 8 ELSE class))]

\* What a character accepted by decode() is written as; b is its last byte.
Escaped(codepoint, b) ==
    LET short == (8 :> 98) @@ (9 :> 116) @@ (10 :> 110) @@ (12 :> 102) @@ (13 :> 114)
                 @@ (34 :> 34) @@ (92 :> 92) IN
    IF codepoint \in DOMAIN short THEN <<92, short[codepoint]>>
    ELSE IF codepoint <= 31 THEN <<92, 117, Hex(codepoint)>>
    ELSE <<b>>

\* dump_escaped(), with the strict handler: {} when it throws.
RECURSIVE dump_escaped(_, _, _)
dump_escaped(s, state, codepoint) ==
    IF s = <<>> THEN IF state = 0 THEN {<<>>} ELSE {}
    ELSE LET b == Head(s)
             d == IF b >= 256 THEN [state |-> 0, codepoint |-> b] ELSE decode(state, codepoint, b) IN
         IF d.state = 1 THEN {}
         ELSE {(IF d.state = 0 THEN Escaped(d.codepoint, b) ELSE <<b>>) \o rest :
                 rest \in dump_escaped(Tail(s), d.state, d.codepoint)}

\* dump_integer().
RECURSIVE Decimal(_)
Decimal(n) == IF n < 10 THEN <<48 + n>> ELSE Append(Decimal(n \div 10), 48 + (n % 10))
dump_integer(n) == IF n < 0 THEN <<45>> \o Decimal(-n) ELSE Decimal(n)

\* The order of std::map<std::string, ...>.
RECURSIVE Before(_, _)
Before(k, l) == \/ k = <<>> /\ l # <<>>
                \/ /\ k # <<>> /\ l # <<>>
                   /\ k[1] < l[1] \/ (k[1] = l[1] /\ Before(Tail(k), Tail(l)))

Quoted(s) == {<<34>> \o e \o <<34>> : e \in dump_escaped(s, 0, 0)}
NewLine(indent) == <<10>> \o [i \in 1..indent |-> 32]

\* Every way to take one element of each set of a sequence, concatenated with
\* a separator: none if one of them is empty.
RECURSIVE Joined(_, _)
Joined(sets, sep) ==
    IF Len(sets) = 1 THEN sets[1]
    ELSE {x \o sep \o y : x \in sets[1], y \in Joined(Tail(sets), sep)}

dump_scalar(v) ==
    CASE v.type = "string" -> Quoted(v.s)
      [] v.type = "boolean" -> {IF v.n = 1 THEN <<116, 114, 117, 101>> ELSE <<102, 97, 108, 115, 101>>}
      [] v.type \in {"unsigned", "integer"} -> {dump_integer(v.n)}
      [] v.type = "float" -> {v.s}
      [] OTHER -> {<<110, 117, 108, 108>>}

\* dump(), pretty: {} when a string in the value is not UTF-8.
RECURSIVE dump(_, _)
dump(v, indent) ==
    LET inner == indent + IndentStep
        Bracketed(open, items, close) ==
            IF items = <<>> THEN {<<open, close>>}
            ELSE {<<open>> \o NewLine(inner) \o x \o NewLine(indent) \o <<close>> :
                    x \in Joined(items, <<44>> \o NewLine(inner))}
        keys == SetToSortSeq(DOMAIN v.o, Before) IN
    CASE v.type = "object" ->
            Bracketed(123, [i \in DOMAIN keys |->
                {k \o <<58, 32>> \o x : k \in Quoted(keys[i]), x \in dump(v.o[keys[i]], inner)}], 125)
      [] v.type = "array" -> Bracketed(91, [i \in DOMAIN v.a |-> dump(v.a[i], inner)], 93)
      [] OTHER -> dump_scalar(v)

(***************************************************************************)
(* The specification: a text is parsed; what it says goes through the      *)
(* library's values, is dumped and parsed again.                           *)
(***************************************************************************)
Init ==
    /\ \E a \in Alphabets :
          source = [frags |-> a.frags, comments |-> a.comments, rest |-> <<>>, left |-> a.max]
    /\ text = <<>> /\ lexer = NewLexer /\ pc = "value" /\ states = <<>>
    /\ root = NullValue /\ ref_stack = <<>> /\ object_element = <<>> /\ config = {}

\* metaDataToConfigSpec() writes a configuration; unwgt ends if dump() throws.
Rewrite ==
    /\ pc = "done" /\ config = {} /\ root # Discarded
    /\ LET out == dump(ThroughJSONValue(root), 0) IN
       /\ source' = [frags |-> {}, comments |-> FALSE, left |-> 0,
                     rest |-> IF out = {} THEN <<>> ELSE CHOOSE o \in out : TRUE]
       /\ pc' = IF out = {} THEN "thrown" ELSE "value"
    /\ config' = {root}
    /\ text' = <<>> /\ lexer' = NewLexer /\ root' = NullValue
    /\ states' = <<>> /\ ref_stack' = <<>> /\ object_element' = <<>>

Next == Lex \/ Parse \/ Rewrite

Spec == Init /\ [][Next]_vars
=============================================================================

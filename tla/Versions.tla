------------------------------ MODULE Versions ------------------------------
(***************************************************************************)
(* Version numbers and the constraints a package puts on the versions of   *)
(* the packages it depends on (lib/core/VersionNumber.cpp and              *)
(* lib/core/VersionConstraint.cpp).                                        *)
(*                                                                         *)
(* The text of a version is the sequence of what stands between its dots:  *)
(* a field that is a number, or one the parser has a reason to refuse.  A  *)
(* version is a sequence of one to four fields.  Results that may be an    *)
(* error are sets: {} is the error, {v} the value v.                       *)
(***************************************************************************)
EXTENDS Integers, Sequences, FiniteSetsExt, SequencesExt

CONSTANTS
    FieldMod,   \* 2^32: the values of an unsigned field
    LongMod     \* 2^64: the values of an unsigned long

\* strtoul() and stoul() read at least what a field can hold.
ASSUME FieldModAssumption ==
    FieldMod \in Nat \ {0, 1} /\ LongMod \in Nat /\ LongMod >= FieldMod

kMaxFields == 4

\* A field of a version's text.  "zeros" is a number of several digits that
\* starts with 0, "long" one of 31 digits or more.
Number(n) == <<"number", n>>
Refused == {<<"empty">>, <<"zeros">>, <<"char">>, <<"long">>}
Empty == <<"empty">>

\* The largest value of a field.
FieldMax == FieldMod - 1

-----------------------------------------------------------------------------
(* Version numbers *)

\* A dot at the very end is dropped, an empty field anywhere else refused.  A
\* field with a dot behind it must be below FieldMax; the last one only has
\* to be an unsigned long (stoul() throws when it is not), and is truncated.
VersionNumberFromString(text) ==
    LET n == IF Last(text) = Empty THEN Len(text) - 1 ELSE Len(text)
        Bad(i) == \/ text[i] \in Refused
                  \/ i < Len(text) /\ text[i][2] >= FieldMax
                  \/ text[i][2] >= LongMod
    IN  IF n \notin 1 .. kMaxFields \/ \E i \in 1 .. n : Bad(i)
        THEN {}
        ELSE {[i \in 1 .. n |-> text[i][2] % FieldMod]}

VersionNumberToString(v) == [i \in DOMAIN v |-> Number(v[i])]

fieldValue(v, i) == IF i <= Len(v) THEN v[i] ELSE 0

\* Mutant: the carry is not taken to the field before
IncrementNoCarry(v) == [v EXCEPT ![Len(v)] = (@ + 1) % FieldMod]

\* operator++: one more in the last field, carried to the fields before it.
Increment(v) ==
    LET room == {i \in DOMAIN v : v[i] < FieldMax}
        k == IF room = {} THEN 0 ELSE Max(room)
    IN  [i \in DOMAIN v |-> IF i < k THEN v[i] ELSE IF i = k THEN v[i] + 1 ELSE 0]

\* The first field that differs decides; fields only one side has count when
\* they are not 0.
compare(lhs, rhs) ==
    LET n == Min({Len(lhs), Len(rhs)})
        d == {i \in 1 .. n : lhs[i] # rhs[i]}
        More(v) == \E i \in n + 1 .. Len(v) : v[i] # 0
    IN  CASE d # {} -> IF lhs[Min(d)] < rhs[Min(d)] THEN -1 ELSE 1
          [] d = {} /\ More(lhs) -> 1
          [] d = {} /\ More(rhs) -> -1
          [] OTHER -> 0

-----------------------------------------------------------------------------
(* Constraints.  The text of one is <<"any">> ("*" or nothing), <<op, text>>  *)
(* with op "" when there is no operator, <<"range", text, text>>, or         *)
(* <<"junk">>, which neither regular expression matches.                     *)

Part(op, v) == [type |-> op, version |-> v]

Comparisons == {">", ">=", "<", "<=", "="}

\* "a - b": a up to the last version that starts with b.
RangeConstraint(min, max) ==
    IF compare(min, max) > 0
    THEN {}
    ELSE {<<Part(">=", min),
            IF Len(max) < kMaxFields THEN Part("<", Increment(max)) ELSE Part("<=", max)>>}

OperatorConstraint(op, v) ==
    CASE op \in Comparisons -> <<Part(op, v)>>
      [] op = "~" -> <<Part(">=", v),
                       Part("<", <<fieldValue(v, 1), (fieldValue(v, 2) + 1) % FieldMod>>)>>
      [] op = "^" -> <<Part(">=", v), Part("<", <<(fieldValue(v, 1) + 1) % FieldMod>>)>>
      [] OTHER -> <<Part(">=", v), Part("<", Increment(v))>>

VersionConstraintFromString(text) ==
    CASE text[1] = "any" -> {<<>>}
      [] text[1] = "junk" -> {}
      [] text[1] = "range" ->
            UNION {RangeConstraint(min, max) : min \in VersionNumberFromString(text[2]),
                                               max \in VersionNumberFromString(text[3])}
      [] OTHER -> {OperatorConstraint(text[1], v) : v \in VersionNumberFromString(text[2])}

isSatisfiedBy(constraint, version) ==
    \A i \in DOMAIN constraint :
        LET c == compare(version, constraint[i].version)
        IN  CASE constraint[i].type = ">" -> c > 0
              [] constraint[i].type = ">=" -> c >= 0
              [] constraint[i].type = "<" -> c < 0
              [] constraint[i].type = "<=" -> c <= 0
              [] OTHER -> c = 0

\* Two parts are written as a range, whatever the second comparison is.
VersionConstraintToString(constraint) ==
    CASE Len(constraint) = 0 -> <<"any">>
      [] Len(constraint) = 1 -> <<constraint[1].type, VersionNumberToString(constraint[1].version)>>
      [] OTHER -> <<"range", VersionNumberToString(constraint[1].version),
                             VersionNumberToString(constraint[2].version)>>

-----------------------------------------------------------------------------
(* What the texts mean, told without the parts a constraint is made of.      *)

\* A version as one number: its four fields, most significant first.
Value(v) == ((fieldValue(v, 1) * FieldMod + fieldValue(v, 2)) * FieldMod
                + fieldValue(v, 3)) * FieldMod + fieldValue(v, 4)

\* The same number when only the first n fields count.
Prefix(v, n) == Value([i \in 1 .. n |-> fieldValue(v, i)])

\* A text as the parser gets it: fields that are numbers, or that it refuses.
VersionText(text) ==
    /\ Len(text) \in Nat \ {0} /\ DOMAIN text = 1 .. Len(text)
    /\ \A i \in DOMAIN text : text[i] \in Refused \/ (text[i][1] = "number" /\ text[i][2] \in Nat)
ConstraintText(text) ==
    \/ text \in {<<"any">>, <<"junk">>}
    \/ /\ text = <<text[1], text[2]>> /\ VersionText(text[2])
       /\ text[1] \notin {"any", "junk", "range"}
    \/ text = <<"range", text[2], text[3]>> /\ VersionText(text[2]) /\ VersionText(text[3])

\* The version a text spells.
Spelled(text) == [i \in DOMAIN text |-> text[i][2]]

\* The texts the meaning is told for: well formed, and with a version above
\* every one that starts like it.
PlainVersion(text) ==
    /\ Len(text) \in 1 .. kMaxFields
    /\ \A i \in DOMAIN text : text[i][1] = "number" /\ text[i][2] < FieldMod
    /\ \A i \in DOMAIN text : i \in {1} \cup 1 .. (Len(text) - 1) => text[i][2] < FieldMax
PlainConstraint(text) ==
    /\ text[1] # "junk"
    /\ \A i \in 2 .. Len(text) : PlainVersion(text[i])
    /\ text[1] = "~" /\ Len(text[2]) > 1 => text[2][2][2] < FieldMax

\* Which versions a constraint's text allows: what VersionConstraint.h says of the
\* operators, what RangeConstraint of the tests says of a range, and what their
\* PrefixConstraint says of a bare version, every version that starts with it.
\* The header says of a bare version that it "Must match version exactly".
Allows(text, version) ==
    LET x == Value(version)
        a == Spelled(text[2])
        b == Spelled(text[3])
    IN  CASE text[1] = "any" -> TRUE
          [] text[1] = ">" -> x > Value(a)
          [] text[1] = ">=" -> x >= Value(a)
          [] text[1] = "<" -> x < Value(a)
          [] text[1] = "<=" -> x <= Value(a)
          [] text[1] = "=" -> x = Value(a)
          [] text[1] = "~" -> x >= Value(a) /\ Prefix(version, 2) = Prefix(a, 2)
          [] text[1] = "^" -> x >= Value(a) /\ Prefix(version, 1) = Prefix(a, 1)
          [] text[1] = "range" -> x >= Value(a) /\ Prefix(version, Len(b)) <= Value(b)
          [] OTHER -> Prefix(version, Len(a)) = Value(a)

\* The versions the header lets through: to it a bare version is one with "=".
AllowsByHeader(text, version) ==
    Allows(IF text[1] = "" THEN <<"=", text[2]>> ELSE text, version)
=============================================================================

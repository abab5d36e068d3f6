-------------------------------- MODULE Json --------------------------------
(***************************************************************************)
(* The JSON parser and writer of ic-json (lib.rs), through which every      *)
(* message of the server goes.                                              *)
(*                                                                          *)
(* A text is a sequence of characters.  The words null, true and false are  *)
(* one character each, "nul" stands for a word cut short, "inf" is what an  *)
(* infinite number is written as.  The characters that strings are about    *)
(* have the codes of a small Unicode: 0 and 1 are control characters, 10    *)
(* and 11 high surrogates, 12 and 13 low ones, 14 and 15 come after those,  *)
(* 16 to 19 are what pairs of surrogates stand for; an escape \u has one    *)
(* digit.                                                                   *)
(*                                                                          *)
(* A number is a float of three significant bits whose least is one half,   *)
(* kept as the integer of its halves.  Zero has one sign: -0 and 0 are      *)
(* equal, and written alike.                                                *)
(***************************************************************************)
EXTENDS Integers, Sequences, FiniteSets, SequencesExt

CONSTANTS
    MAX_DEPTH,      \* how deeply arrays and objects may nest
    JsonTexts,      \* texts that are parsed
    JsonValues      \* values that are written and parsed again

ASSUME JsonAssumption == MAX_DEPTH \in Nat \ {0}

VARIABLE lastJson   \* the last call and what it returned

HIGH == 10
LOW == 12
ABOVE == 14
SUPPLEMENTARY == 16
LAST == 19

\* The characters by their codes, from 0; the hexadecimal digits by theirs.
Chars == <<"nl", "x1", "\"", "\\", "x4", "fffd", "/", "n", "u", "c9",
           "", "", "", "", "c14", "c15", "s16", "s17", "s18", "s19">>
Digits == <<"0", "1", "2", "3", "4", "5", "6", "7", "8", "9", "a", "b", "c", "d", "e", "f">>

REPLACEMENT == "fffd"
Control == {"nl", "x1"}
Decimal == {Digits[i] : i \in 1..10}
White == {" "}

from_u32(code) ==
    IF code \in HIGH..(ABOVE - 1) \/ code > LAST THEN REPLACEMENT ELSE Chars[code + 1]

to_digit(c) == IF \E i \in DOMAIN Digits : Digits[i] = c THEN (CHOOSE i \in DOMAIN Digits : Digits[i] = c) - 1 ELSE -1

-----------------------------------------------------------------------------
(* Numbers: the floats that are not negative, in halves, and the infinite   *)
(* one, which is above all the others.                                      *)

Floats == <<0, 1, 2, 3, 4, 5, 6, 7, 8, 10, 12, 14, 16, 20, 24, 28, 32>>
INFINITY == 32
EXACT == 7      \* 9e15, below which integral numbers are written as an i64
I64_MAX == 12   \* the limit of i64, at which "as" saturates

Natural(digits) == FoldLeft(LAMBDA n, c : 10 * n + to_digit(c), 0, digits)

Smallest(m, n) == IF m < n THEN m ELSE n
Largest(m, n) == IF m < n THEN n ELSE m

\* The float nearest to num / den, and of two the one that is even.
Nearest(num, den) ==
    LET Above(i) == \/ 4 * num > (Floats[i] + Floats[i + 1]) * den
                    \/ 4 * num = (Floats[i] + Floats[i + 1]) * den /\ i % 2 = 0
    IN  Floats[1 + Cardinality({i \in 1..(Len(Floats) - 1) : Above(i)})]

\* parse::<f64>() of the digits times a power of ten.  Anything is infinite
\* from a hundred on, and zero below a tenth: further powers change nothing.
ToFloat(digits, power) ==
    LET n == Natural(digits)
    IN  IF power >= 0 THEN Nearest(n * 10 ^ Smallest(power, 2), 1)
        ELSE Nearest(n, 10 ^ Smallest(-power, Len(digits) + 1))

-----------------------------------------------------------------------------
(* The parser: its text, its position (how many characters are behind it)   *)
(* and its depth.  An operation gives the parser it leaves and what it      *)
(* parsed, or ends in an error, or in a panic.                              *)

Parser(text) == [input |-> text, pos |-> 0, depth |-> 0]

Parsed(p, value) == [end |-> "ok", p |-> p, value |-> value]
Error == [end |-> "error"]
Panic == [end |-> "panic"]

\* The operator ?: go on with what was parsed, or end as it ended.
Then(result, Continue(_, _)) ==
    IF result.end = "ok" THEN Continue(result.p, result.value) ELSE result

End == "end of input"
peek(p) == IF p.pos < Len(p.input) THEN p.input[p.pos + 1] ELSE End
After(p, n) == [p EXCEPT !.pos = @ + n]
bump(p) == IF peek(p) = End THEN p ELSE After(p, 1)

RECURSIVE skip(_, _)
skip(p, set) == IF peek(p) \in set THEN skip(After(p, 1), set) ELSE p
skip_ws(p) == skip(p, White)

\* The code of a high surrogate and of the escape after it; unsigned
\* subtraction below zero stops the program (overflow-checks in Cargo.toml).
Joined(high, low) == SUPPLEMENTARY + (high - HIGH) * 2 + (low - LOW)

\* An escape \u at its digit: its character and what is left.
unicode(p) ==
    LET code == to_digit(peek(p))
        q == bump(p)
        low == to_digit(peek(After(q, 2)))
    IN  IF code = -1 THEN Error
        ELSE IF ~(code \in HIGH..(LOW - 1) /\ peek(q) = "\\") THEN Parsed(q, from_u32(code))
        ELSE IF peek(After(q, 1)) # "u" \/ low = -1 THEN Error
        ELSE IF low < LOW THEN Panic
        ELSE Parsed(After(q, 3), from_u32(Joined(code, low)))

\* What may follow a backslash, and what it stands for.
Escapes == [c \in {"\"", "\\", "/", "n"} |-> IF c = "n" THEN "nl" ELSE c]

escape(p) ==
    IF peek(p) = "u" THEN unicode(After(p, 1))
    ELSE IF peek(p) \in DOMAIN Escapes THEN Parsed(After(p, 1), Escapes[peek(p)])
    ELSE Error

RECURSIVE string_rest(_, _)
string_rest(p, out) ==
    IF peek(p) \in Control \cup {End} THEN Error
    ELSE IF peek(p) = "\"" THEN Parsed(bump(p), out)
    ELSE IF peek(p) # "\\" THEN string_rest(bump(p), Append(out, peek(p)))
    ELSE Then(escape(bump(p)), LAMBDA q, c : string_rest(q, Append(out, c)))

string(p) == IF peek(p) = "\"" THEN string_rest(After(p, 1), <<>>) ELSE Error

\* One character of a set, if there is one.
optional(p, set) == IF peek(p) \in set THEN After(p, 1) ELSE p

Between(p, q) == SubSeq(p.input, p.pos + 1, q.pos)

number(p) ==
    LET sign == optional(p, {"-"})
        whole == skip(sign, Decimal)
        point == optional(whole, {"."})
        fraction == IF point = whole THEN whole ELSE skip(point, Decimal)
        e == optional(fraction, {"e", "E"})
        esign == IF e = fraction THEN e ELSE optional(e, {"+", "-"})
        end == IF e = fraction THEN e ELSE skip(esign, Decimal)
        mantissa == Between(sign, whole) \o Between(point, fraction)
        scale == (IF "-" \in ToSet(Between(e, esign)) THEN -1 ELSE 1) * Natural(Between(esign, end))
        size == ToFloat(mantissa, scale - Len(Between(point, fraction)))
    IN  IF mantissa = <<>> \/ (e # fraction /\ esign = end) THEN Error
        ELSE Parsed(end, [number |-> IF sign = p THEN size ELSE -size])

\* Mutant: the depth is not given back.
Released_Leaks(p) == p

\* An array or object has been closed.
Released(p) == [p EXCEPT !.depth = @ - 1]

RECURSIVE value(_)
RECURSIVE items(_, _)
RECURSIVE members(_, _)

\* Behind an item: the next one, the end of the array, or neither.
after_item(p, list) ==
    CASE peek(p) = "," -> items(bump(p), list)
      [] peek(p) = "]" -> Parsed(bump(p), [array |-> list])
      [] OTHER -> Error

items(p, list) == Then(value(p), LAMBDA q, v : after_item(skip_ws(q), Append(list, v)))

after_member(p, map) ==
    CASE peek(p) = "," -> members(bump(p), map)
      [] peek(p) = "}" -> Parsed(bump(p), [object |-> map])
      [] OTHER -> Error

\* A later member replaces an earlier one of its name.
Insert(map, key, v) == [k \in DOMAIN map \cup {key} |-> IF k = key THEN v ELSE map[k]]

\* Behind a name: a colon and the value.
member(p, map, key) ==
    IF peek(p) # ":" THEN Error
    ELSE Then(value(bump(p)), LAMBDA q, v : after_member(skip_ws(q), Insert(map, key, v)))

members(p, map) == Then(string(skip_ws(p)), LAMBDA q, key : member(skip_ws(q), map, key))

NoMembers == [k \in {} |-> k]

array_inner(p) ==
    LET q == skip_ws(bump(p)) IN IF peek(q) = "]" THEN Parsed(bump(q), [array |-> <<>>]) ELSE items(q, <<>>)

object_inner(p) ==
    LET q == skip_ws(bump(p)) IN IF peek(q) = "}" THEN Parsed(bump(q), [object |-> NoMembers]) ELSE members(q, NoMembers)

\* array and object: the counter is taken and given back around the parsing.
nested(p) ==
    LET q == [p EXCEPT !.depth = @ + 1]
    IN  IF q.depth > MAX_DEPTH THEN Error
        ELSE Then(IF peek(p) = "[" THEN array_inner(q) ELSE object_inner(q),
                  LAMBDA r, v : Parsed(Released(r), v))

\* A value that begins at its first character.
value_at(p) ==
    CASE peek(p) = "null" -> Parsed(bump(p), [null |-> TRUE])
      [] peek(p) = "\"" -> Then(string(p), LAMBDA q, s : Parsed(q, [string |-> s]))
      [] peek(p) \in {"[", "{"} -> nested(p)
      [] peek(p) \in Decimal \cup {"-"} -> number(p)
      [] OTHER -> Error

value(p) == value_at(skip_ws(p))

parse(text) ==
    Then(value(skip_ws(Parser(text))),
         LAMBDA p, v : IF skip_ws(p).pos = Len(text) THEN [end |-> "ok", value |-> v] ELSE Error)

-----------------------------------------------------------------------------
(* The writer *)

Escaped(c) ==
    CASE c \in {"\"", "\\"} -> <<"\\", c>>
      [] c = "nl" -> <<"\\", "n">>
      [] c = "x1" -> <<"\\", "u", "1">>
      [] OTHER -> <<c>>

Joins(parts, separator) ==
    FoldLeft(LAMBDA text, part : IF text = <<>> THEN part ELSE text \o separator \o part, <<>>, parts)

write_string(s) == <<"\"">> \o FoldLeft(LAMBDA text, c : text \o Escaped(c), <<>>, s) \o <<"\"">>

Decimals(n) == IF n < 10 THEN <<Digits[n + 1]>> ELSE <<Digits[(n \div 10) + 1], Digits[(n % 10) + 1]>>

Signed(n, text) == IF n < 0 THEN <<"-">> \o text ELSE text

Size(n) == IF n < 0 THEN -n ELSE n

\* Display of f64: the shortest text that is nearest to this float, which is
\* the exact one for all of these.
display(n) ==
    Signed(n, IF Size(n) = INFINITY THEN <<"inf">>
              ELSE Decimals(Size(n) \div 2) \o IF n % 2 = 0 THEN <<>> ELSE <<".", "5">>)

as_i64(n) == Smallest(Largest(n \div 2, -I64_MAX), I64_MAX)

write_number(n) ==
    IF n % 2 = 0 /\ Size(n) < INFINITY /\ Size(n) < 2 * EXACT
    THEN Signed(n, Decimals(Size(as_i64(n))))
    ELSE display(n)

\* One order of the names stands for that of the map.
RECURSIVE write(_)
write(v) ==
    LET Member(k) == write_string(k) \o <<":">> \o write(v.object[k]) IN
    CASE DOMAIN v = {"null"} -> <<"null">>
      [] DOMAIN v = {"number"} -> write_number(v.number)
      [] DOMAIN v = {"string"} -> write_string(v.string)
      [] DOMAIN v = {"array"} ->
           <<"[">> \o Joins([i \in DOMAIN v.array |-> write(v.array[i])], <<",">>) \o <<"]">>
      [] DOMAIN v = {"object"} ->
           LET names == SetToSeq(DOMAIN v.object)
           IN  <<"{">> \o Joins([i \in DOMAIN names |-> Member(names[i])], <<",">>) \o <<"}">>

-----------------------------------------------------------------------------
NoJson == [op |-> "none"]

JsonInit == lastJson = NoJson

Parse(text) == lastJson' = [op |-> "parse", text |-> text, result |-> parse(text)]

WriteAndParse(v) == lastJson' = [op |-> "write", written |-> v, text |-> write(v), result |-> parse(write(v))]

JsonNext ==
    \/ /\ lastJson = NoJson
       /\ \/ \E text \in JsonTexts : Parse(text)
          \/ \E v \in JsonValues : WriteAndParse(v)
    \/ lastJson # NoJson /\ lastJson' = NoJson

JsonSpec == JsonInit /\ [][JsonNext]_lastJson

-----------------------------------------------------------------------------
(* Properties *)

Parts(v) ==
    CASE DOMAIN v = {"array"} -> ToSet(v.array)
      [] DOMAIN v = {"object"} -> {v.object[k] : k \in DOMAIN v.object}
      [] OTHER -> {}

\* No number in a value is infinite.
RECURSIVE Finite(_)
Finite(v) ==
    /\ DOMAIN v = {"number"} => Size(v.number) < INFINITY
    /\ \A part \in Parts(v) : Finite(part)

\* How deeply a value nests.
RECURSIVE Nesting(_)
Nesting(v) ==
    LET depths == {Nesting(part) : part \in Parts(v)}
    IN  IF DOMAIN v \subseteq {"null", "number", "string"} THEN 0
        ELSE 1 + (CHOOSE n \in depths \cup {0} : \A m \in depths : m <= n)

(* A grammar for texts without strings, independent of the parser: lists of *)
(* characters that are a value of at most the given nesting.                *)
Spaces(text) == ToSet(text) \subseteq White

AllDecimal(text) == ToSet(text) \subseteq Decimal

IsMantissa(text) ==
    /\ ToSet(text) \cap Decimal # {}
    /\ \/ AllDecimal(text)
       \/ \E i \in DOMAIN text : text[i] = "." /\ AllDecimal(SubSeq(text, 1, i - 1) \o SubSeq(text, i + 1, Len(text)))

IsExponent(text) ==
    /\ Len(text) > 1 /\ text[1] \in {"e", "E"} /\ AllDecimal(SubSeq(text, 3, Len(text)))
    /\ text[2] \in Decimal \/ (text[2] \in {"+", "-"} /\ Len(text) > 2)

IsUnsigned(text) ==
    \/ IsMantissa(text)
    \/ \E i \in DOMAIN text : IsMantissa(SubSeq(text, 1, i)) /\ IsExponent(SubSeq(text, i + 1, Len(text)))

\* Leading zeros may stand, and a point without digits on one of its sides.
IsNumber(text) ==
    \/ text[1] \in Decimal /\ IsUnsigned(text)
    \/ text[1] = "-" /\ IsUnsigned(Tail(text))

RECURSIVE IsValue(_, _)
RECURSIVE IsItems(_, _)

IsItems(text, n) ==
    \/ IsValue(text, n)
    \/ \E i \in DOMAIN text :
          text[i] = "," /\ IsValue(SubSeq(text, 1, i - 1), n) /\ IsItems(SubSeq(text, i + 1, Len(text)), n)

IsValue(text, n) ==
    \E i, j \in DOMAIN text :
        /\ i <= j
        /\ Spaces(SubSeq(text, 1, i - 1)) /\ Spaces(SubSeq(text, j + 1, Len(text)))
        /\ LET core == SubSeq(text, i, j)
               inside == SubSeq(text, i + 1, j - 1)
           IN  \/ core = <<"null">>
               \/ IsNumber(core)
               \/ /\ core[1] = "[" /\ core[Len(core)] = "]" /\ i < j /\ n > 0
                  /\ Spaces(inside) \/ IsItems(inside, n - 1)
               \/ core[1] = "{" /\ core[Len(core)] = "}" /\ i < j /\ n > 0 /\ Spaces(inside)

(* The parser accepts exactly the values that nest no deeper than           *)
(* MAX_DEPTH, however many of them stand side by side; what is written is   *)
(* parsed to the same value; and what is parsed, from whichever of its      *)
(* texts, is written to a text of the same value, both as long as no number *)
(* in it is infinite, and only then ("a decrement missed on one of them     *)
(* would leak depth and start rejecting long documents that are not deep at *)
(* all"; the two ways of writing a number, lib.rs:117-123).                 *)
JsonExact ==
    /\ lastJson.op = "write" =>
         IF Nesting(lastJson.written) <= MAX_DEPTH /\ Finite(lastJson.written)
         THEN lastJson.result.end = "ok" /\ lastJson.result.value = lastJson.written
         ELSE lastJson.result.end = "error"
    /\ lastJson.op = "parse" =>
         /\ "\"" \notin ToSet(lastJson.text) =>
              lastJson.result.end = IF IsValue(lastJson.text, MAX_DEPTH) THEN "ok" ELSE "error"
         /\ lastJson.result.end = "ok" =>
              parse(write(lastJson.result.value)) = IF Finite(lastJson.result.value) THEN lastJson.result ELSE Error

\* A string of escapes \u and plain characters only, each of them complete.
WellEscaped(text) ==
    /\ Len(text) >= 2 /\ text[1] = "\"" /\ text[Len(text)] = "\""
    /\ LET inside == SubSeq(text, 2, Len(text) - 1)
           state[k \in 0..Len(inside)] ==
               IF k = 0 THEN "plain"
               ELSE CASE state[k - 1] = "plain" /\ inside[k] = "\\" -> "escape"
                      [] state[k - 1] = "plain" /\ inside[k] \notin Control \cup {"\"", "\\"} -> "plain"
                      [] state[k - 1] = "escape" /\ inside[k] = "u" -> "digit"
                      [] state[k - 1] = "escape" /\ inside[k] \in DOMAIN Escapes -> "plain"
                      [] state[k - 1] = "digit" /\ to_digit(inside[k]) # -1 -> "plain"
                      [] OTHER -> "wrong"
       IN  state[Len(inside)] = "plain"

(* "a lone surrogate becomes the replacement character rather than an       *)
(* error" (lib.rs, string): a string in which every escape is complete is   *)
(* parsed, whatever the escapes stand for and in whichever order.           *)
LoneSurrogateReplaced ==
    lastJson.op = "parse" /\ WellEscaped(lastJson.text) => lastJson.result.end = "ok"
=============================================================================

------------------------------ MODULE JsonText ------------------------------
(***************************************************************************)
(* Attributes as JSON: the encoder (types/json/attribute.cpp and           *)
(* primitives/), the scanner that the SDK reads its own JSON with          *)
(* (json_scanner.cpp), and the decoder on top of it (parse_attribute.cpp,  *)
(* parse_primitives.cpp).                                                  *)
(*                                                                         *)
(* A text is a sequence of characters; "null", "true" and "false" count as *)
(* one.  A place in a text is an index, or Failed.  Integers have the      *)
(* width of the constants; a double is its text, as to_chars() makes it.   *)
(***************************************************************************)
EXTENDS Integers, Sequences, SequencesExt

CONSTANTS MaxInt,    \* the largest int64_t
          MaxUInt    \* the largest uint64_t

Quote  == "\""
Escape == "\\"
Digit  == {"0", "1", "2", "3", "4", "5", "6", "7", "8", "9"}

\* The escapes of one letter; every other control character is \u00xx.
Short == [BS |-> "b", FF |-> "f", LF |-> "n", CR |-> "r", TAB |-> "t"]
Long  == [NUL |-> << "0", "0" >>, US |-> << "1", "f" >>]
Control == DOMAIN Short \union DOMAIN Long

Hex == Digit \union {"a", "b", "c", "d", "e", "f", "A", "B", "C", "D", "E", "F"}

-----------------------------------------------------------------------------
(***************************************************************************)
(* WriteJson() and GetJsonSize().                                          *)
(***************************************************************************)
WriteChar(c) ==
  CASE c \in {Quote, Escape} -> << Escape, c >>
    [] c \in DOMAIN Short    -> << Escape, Short[c] >>
    [] c \in DOMAIN Long     -> << Escape, "u", "0", "0" >> \o Long[c]
    [] OTHER                 -> << c >>

WriteString(s) ==
  << Quote >> \o FlattenSeq([i \in DOMAIN s |-> WriteChar(s[i])]) \o << Quote >>

StringSize(s) ==
  LET Extra(c) == CASE c \in {Quote, Escape} \union DOMAIN Short -> 1
                    [] c \in DOMAIN Long -> 5
                    [] OTHER -> 0
  IN  FoldLeft(LAMBDA n, c : n + Extra(c), 2 + Len(s), s)

DigitOf == [n \in 0..9 |-> CHOOSE d \in Digit : d = ToString(n)]
RECURSIVE WriteNumber(_)
WriteNumber(n) ==
  IF n < 0 THEN << "-" >> \o WriteNumber(-n)
  ELSE IF n < 10 THEN << DigitOf[n] >>
  ELSE WriteNumber(n \div 10) \o << DigitOf[n % 10] >>

\* uint64_decimal_len(): an estimate from the number of bits, then corrected.
RECURSIVE Bits(_), PowerOfTen(_)
Bits(n) == IF n = 0 THEN 0 ELSE 1 + Bits(n \div 2)
PowerOfTen(e) == IF e = 0 THEN 1 ELSE 10 * PowerOfTen(e - 1)
RECURSIVE NumberSize(_)
NumberSize(n) ==
  IF n < 0 THEN 1 + NumberSize(-n)
  ELSE IF n = 0 THEN 1
  ELSE LET e == (Bits(n) * 1233) \div 4096
       IN  e + (IF n >= PowerOfTen(e) THEN 1 ELSE 0)

Commas(texts) ==
  FlattenSeq([i \in DOMAIN texts |-> (IF i > 1 THEN << "," >> ELSE << >>) \o texts[i]])

\* A timestamp and a UUID are strings of a fixed length.
RECURSIVE WriteJson(_)
WriteJson(a) ==
  CASE a.type = "Null"   -> << "null" >>
    [] a.type = "Bool"   -> << IF a.value THEN "true" ELSE "false" >>
    [] a.type \in {"Int", "UInt"} -> WriteNumber(a.value)
    [] a.type = "Double" -> IF a.value = << >> THEN << "null" >> ELSE a.value
    [] a.type \in {"String", "Timestamp", "UUID"} -> WriteString(a.value)
    [] a.type = "Array"  ->
         << "[" >> \o Commas([i \in DOMAIN a.items |-> WriteJson(a.items[i])]) \o << "]" >>
    [] a.type = "Object" ->
         << "{" >> \o Commas([i \in DOMAIN a.items |->
                        WriteString(a.items[i].name) \o << ":" >> \o WriteJson(a.items[i].value)])
                   \o << "}" >>

MaxDouble == 24

\* The characters of a literal name count here.
RECURSIVE JsonSize(_)
JsonSize(a) ==
  LET Sum(sizes) == FoldLeft(+, 0, sizes)
  IN CASE a.type = "Null"   -> 4
       [] a.type = "Bool"   -> IF a.value THEN 4 ELSE 5
       [] a.type \in {"Int", "UInt"} -> NumberSize(a.value)
       [] a.type = "Double" -> IF a.value = << >> THEN 4 ELSE MaxDouble
       [] a.type \in {"String", "Timestamp", "UUID"} -> StringSize(a.value)
       [] a.type = "Array"  ->
            IF a.items = << >> THEN 2
            ELSE 1 + Len(a.items) + Sum([i \in DOMAIN a.items |-> JsonSize(a.items[i])])
       [] a.type = "Object" ->
            IF a.items = << >> THEN 2
            ELSE 1 + 2 * Len(a.items)
                   + Sum([i \in DOMAIN a.items |->
                       StringSize(a.items[i].name) + JsonSize(a.items[i].value)])

\* The bytes of a text.
Bytes(s) ==
  Len(s) + 3 * Cardinality({i \in DOMAIN s : s[i] \in {"null", "true"}})
         + 4 * Cardinality({i \in DOMAIN s : s[i] = "false"})

-----------------------------------------------------------------------------
(***************************************************************************)
(* JsonScanner.  Each operator gives the place after what it has skipped.  *)
(***************************************************************************)
Failed == 0
Peek(s, p) == IF p \in DOMAIN s THEN s[p] ELSE "end"

SkipNameLiteral(s, p, name) == IF Peek(s, p) = name THEN p + 1 ELSE Failed

SkipDigits(s, p) ==
  IF Peek(s, p) \notin Digit THEN Failed
  ELSE CHOOSE q \in p + 1..Len(s) + 1 :
         Peek(s, q) \notin Digit /\ \A r \in p..q - 1 : s[r] \in Digit

Fraction(s, p) == IF Peek(s, p) = "." THEN SkipDigits(s, p + 1) ELSE p

Exponent(s, p) ==
  IF Peek(s, p) \notin {"e", "E"} THEN p
  ELSE SkipDigits(s, IF Peek(s, p + 1) \in {"+", "-"} THEN p + 2 ELSE p + 1)

SkipNumberLiteral(s, p) ==
  LET first == IF Peek(s, p) = "-" THEN p + 1 ELSE p
      whole == IF Peek(s, first) = "0" THEN first + 1 ELSE SkipDigits(s, first)
      upTo  == IF whole = Failed THEN Failed ELSE Fraction(s, whole)
  IN  IF upTo = Failed THEN Failed ELSE Exponent(s, upTo)

RECURSIVE StringEnd(_, _)
StringEnd(s, p) ==
  CASE p > Len(s)    -> Failed
    [] Peek(s, p) = Escape -> StringEnd(s, p + 2)
    [] Peek(s, p) = Quote  -> p + 1
    [] OTHER         -> StringEnd(s, p + 1)

SkipStringLiteral(s, p) == IF Peek(s, p) = Quote THEN StringEnd(s, p + 1) ELSE Failed

\* SkipArrayLiteral() and SkipObjectLiteral() after the bracket.  Between the
\* properties of an object a comma may be missing.
RECURSIVE SkipValue(_, _), SkipItems(_, _), SkipProperties(_, _)
SkipValue(s, p) ==
  LET c == Peek(s, p)
  IN CASE c \in {"null", "true", "false"} -> SkipNameLiteral(s, p, c)
       [] c = "-" \/ c \in Digit -> SkipNumberLiteral(s, p)
       [] c = Quote -> SkipStringLiteral(s, p)
       [] c = "["   -> SkipItems(s, p + 1)
       [] c = "{"   -> SkipProperties(s, p + 1)
       [] OTHER     -> Failed

SkipItems(s, p) ==
  IF Peek(s, p) = "]" THEN p + 1
  ELSE LET q == SkipValue(s, p)
       IN CASE q # Failed /\ Peek(s, q) = "]" -> q + 1
            [] q # Failed /\ Peek(s, q) = "," /\ Peek(s, q + 1) # "]" -> SkipItems(s, q + 1)
            [] OTHER -> Failed

SkipObjectProperty(s, p) ==
  LET q == SkipStringLiteral(s, p)
  IN  IF q # Failed /\ Peek(s, q) = ":" THEN SkipValue(s, q + 1) ELSE Failed

SkipProperties(s, p) ==
  IF Peek(s, p) = "}" THEN p + 1
  ELSE LET q == SkipObjectProperty(s, p)
       IN CASE q = Failed          -> Failed
            [] Peek(s, q) # ","     -> SkipProperties(s, q)
            [] Peek(s, q + 1) = "}" -> Failed
            [] OTHER               -> SkipProperties(s, q + 1)

-----------------------------------------------------------------------------
(***************************************************************************)
(* ParseJsonAttribute().                                                   *)
(***************************************************************************)
Malformed == [type |-> "malformed"]

\* ParseJsonString(), of what is between the quotes.
RECURSIVE Unescaped(_)
Unescaped(s) ==
  IF s = << >> THEN [ok |-> TRUE, s |-> << >>]
  ELSE LET Then(c, n) ==
             LET rest == Unescaped(SubSeq(s, n + 1, Len(s)))
             IN  IF rest.ok THEN [rest EXCEPT !.s = << c >> \o @] ELSE rest
           Bad == [ok |-> FALSE, s |-> << >>]
           Named(names, code) == CHOOSE c \in DOMAIN names : names[c] = code
       IN CASE Head(s) # Escape -> IF Head(s) \in Control THEN Bad ELSE Then(Head(s), 1)
            [] Len(s) = 1 -> Bad
            [] OTHER ->
                 CASE s[2] \in {Quote, Escape, "/"}           -> Then(s[2], 2)
                   [] \E c \in DOMAIN Short : Short[c] = s[2] -> Then(Named(Short, s[2]), 2)
                   [] s[2] = "u" /\ Len(s) >= 6 ->
                        LET code == SubSeq(s, 5, 6)
                        IN  IF s[3] # "0" \/ s[4] # "0" \/ ~(ToSet(code) \subseteq Hex) THEN Bad
                            ELSE Then(IF \E c \in DOMAIN Long : Long[c] = code
                                      THEN Named(Long, code) ELSE "other", 6)
                   [] OTHER -> Bad

ParseJsonString(literal) ==
  LET u == Unescaped(SubSeq(literal, 2, Len(literal) - 1))
  IN  IF u.ok THEN [type |-> "String", value |-> u.s] ELSE Malformed

ValueOf(digits) == FoldLeft(LAMBDA n, d : 10 * n + (CHOOSE k \in 0..9 : DigitOf[k] = d), 0, digits)

\* A double if it looks like one, else the first type that is wide enough.
ParseJsonNumber(literal) ==
  LET negative == Head(literal) = "-"
      n == ValueOf(IF negative THEN Tail(literal) ELSE literal)
  IN CASE \E c \in ToSet(literal) : c \in {".", "e", "E"} -> [type |-> "Double", value |-> literal]
       [] negative /\ n <= MaxInt + 1 -> [type |-> "Int", value |-> -n]
       [] ~negative /\ n <= MaxInt    -> [type |-> "Int", value |-> n]
       [] ~negative /\ n > MaxInt /\ n <= MaxUInt -> [type |-> "UInt", value |-> n]
       [] OTHER -> Malformed

\* Attribute::SetObjectProperty(): the last value of a name, in the place of the first.
Put(items, name, value) ==
  IF \E i \in DOMAIN items : items[i].name = name
  THEN [i \in DOMAIN items |-> IF items[i].name = name THEN [name |-> name, value |-> value] ELSE items[i]]
  ELSE Append(items, [name |-> name, value |-> value])

\* One value, and nothing after it.
Whole(s, p) == p # Failed /\ p = Len(s) + 1

RECURSIVE Parse(_), ParseItems(_, _, _), ParseProperties(_, _, _)
Parse(s) ==
  LET c == Peek(s, 1)
  IN CASE c \in {"null", "true", "false"} ->
            IF ~Whole(s, SkipNameLiteral(s, 1, c)) THEN Malformed
            ELSE IF c = "null" THEN [type |-> "Null"]
            ELSE [type |-> "Bool", value |-> c = "true"]
       [] c = "-" \/ c \in Digit ->
            IF Whole(s, SkipNumberLiteral(s, 1)) THEN ParseJsonNumber(s) ELSE Malformed
       [] c = Quote -> IF Whole(s, SkipStringLiteral(s, 1)) THEN ParseJsonString(s) ELSE Malformed
       [] c = "["   -> ParseItems(s, 2, << >>)
       [] c = "{"   -> ParseProperties(s, 2, << >>)
       [] OTHER     -> Malformed

ParseItems(s, p, items) ==
  IF Peek(s, p) = "]"
  THEN IF Whole(s, p + 1) THEN [type |-> "Array", items |-> items] ELSE Malformed
  ELSE LET q == SkipValue(s, p)
           item == IF q = Failed THEN Malformed ELSE Parse(SubSeq(s, p, q - 1))
       IN CASE item = Malformed -> Malformed
            [] Peek(s, q) = "]" -> ParseItems(s, q, Append(items, item))
            [] Peek(s, q) = "," /\ Peek(s, q + 1) # "]" -> ParseItems(s, q + 1, Append(items, item))
            [] OTHER -> Malformed

ParseProperties(s, p, items) ==
  IF Peek(s, p) = "}"
  THEN IF Whole(s, p + 1) THEN [type |-> "Object", items |-> items] ELSE Malformed
  ELSE LET k == SkipStringLiteral(s, p)
           name == IF k = Failed THEN Malformed ELSE ParseJsonString(SubSeq(s, p, k - 1))
           q == IF name = Malformed \/ Peek(s, k) # ":" THEN Failed ELSE SkipValue(s, k + 1)
           value == IF q = Failed THEN Malformed ELSE Parse(SubSeq(s, k + 1, q - 1))
       IN CASE value = Malformed -> Malformed
            [] Peek(s, q) = "}" -> ParseProperties(s, q, Put(items, name.value, value))
            [] Peek(s, q) = "," /\ Peek(s, q + 1) # "}" ->
                 ParseProperties(s, q + 1, Put(items, name.value, value))
            [] OTHER -> Malformed

-----------------------------------------------------------------------------
\* What comes back of an attribute: a number has the first type it fits, a
\* timestamp or a UUID is a string, and a double that is none is nothing.
RECURSIVE AsRead(_)
AsRead(a) ==
  CASE a.type = "UInt" /\ a.value <= MaxInt -> [a EXCEPT !.type = "Int"]
    [] a.type = "Double" -> IF a.value = << >> THEN [type |-> "Null"] ELSE ParseJsonNumber(a.value)
    [] a.type \in {"Timestamp", "UUID"} -> [a EXCEPT !.type = "String"]
    [] a.type = "Array"  -> [a EXCEPT !.items = [i \in DOMAIN @ |-> AsRead(@[i])]]
    [] a.type = "Object" ->
         [a EXCEPT !.items = [i \in DOMAIN @ |-> [@[i] EXCEPT !.value = AsRead(@)]]]
    [] OTHER -> a

\* What the encoder writes of an attribute fits what it has asked for, and is
\* read back as the attribute: a text is not taken for two, nor two for one.
ReadBack(a) ==
  LET s == WriteJson(a)
  IN  /\ Bytes(s) <= JsonSize(a)
      /\ Parse(s) = AsRead(a)
      /\ \A next \in {",", "}", "]"} : SkipValue(Append(s, next), 1) = Len(s) + 1

\* A text that is cut short does not pass for a shorter one.
TornIsRefused(a) ==
  a.type \in {"String", "Array", "Object"} =>
    LET s == WriteJson(a)
    IN  \A n \in 0..Len(s) - 1 :
          SkipValue(SubSeq(s, 1, n), 1) = Failed /\ Parse(SubSeq(s, 1, n)) = Malformed

\* The grammar of compact JSON, without escapes.  Commas between the
\* properties of an object may be demanded or not.
IsString(s) ==
  /\ Len(s) >= 2 /\ s[1] = Quote /\ s[Len(s)] = Quote
  /\ \A i \in 2..Len(s) - 1 : s[i] \notin {Quote, Escape} \union Control
RECURSIVE Legal(_, _), LegalItems(_, _), LegalProperties(_, _)
Legal(s, strict) ==
  \/ s \in {<< "null" >>, << "true" >>, << "false" >>} \/ IsString(s)
  \/ Len(s) = 1 /\ s[1] \in Digit
  \/ /\ Len(s) >= 2 /\ s[1] = "[" /\ s[Len(s)] = "]"
     /\ s = << "[", "]" >> \/ LegalItems(SubSeq(s, 2, Len(s) - 1), strict)
  \/ /\ Len(s) >= 2 /\ s[1] = "{" /\ s[Len(s)] = "}"
     /\ s = << "{", "}" >> \/ LegalProperties(SubSeq(s, 2, Len(s) - 1), strict)
LegalItems(s, strict) ==
  \/ Legal(s, strict)
  \/ \E i \in DOMAIN s : /\ s[i] = "," /\ Legal(SubSeq(s, 1, i - 1), strict)
                         /\ LegalItems(SubSeq(s, i + 1, Len(s)), strict)
LegalProperty(s, strict) ==
  \E i \in DOMAIN s : s[i] = ":" /\ IsString(SubSeq(s, 1, i - 1)) /\ Legal(SubSeq(s, i + 1, Len(s)), strict)
LegalProperties(s, strict) ==
  \/ LegalProperty(s, strict)
  \/ \E i \in DOMAIN s : /\ i > 1 /\ LegalProperty(SubSeq(s, 1, i - 1), strict)
                         /\ \/ s[i] = "," /\ LegalProperties(SubSeq(s, i + 1, Len(s)), strict)
                            \/ ~strict /\ LegalProperties(SubSeq(s, i, Len(s)), strict)

\* The decoder takes JSON and nothing else; the scanner takes the same, save
\* that it does not miss a comma between two properties.
TakesJson(s) ==
  /\ (Parse(s) # Malformed) <=> Legal(s, TRUE)
  /\ Whole(s, SkipValue(s, 1)) <=> Legal(s, FALSE)
=============================================================================

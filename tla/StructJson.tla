----------------------------- MODULE StructJson -----------------------------
(***************************************************************************)
(* Structs as JSON objects (types/events/struct.hpp, omissible.hpp), and   *)
(* the encoders that fit one into a buffer of a fixed size by dropping     *)
(* attributes from the end (TryEncodeJson of struct.hpp and                *)
(* json/attribute.cpp), which the annotations of a Crashpad crash use.     *)
(*                                                                         *)
(* A struct is the sequence of its fields, an attribute each or Omitted.   *)
(***************************************************************************)
EXTENDS JsonText

Omitted == [type |-> "omitted"]
Object(items) == [type |-> "Object", items |-> items]

\* HasJsonValue(): a value of its type's zero is left out where the struct says so.
OmitIfEmpty(s)     == IF s = << >> THEN Omitted ELSE [type |-> "String", value |-> s]
OmitIfZero(u, zero) == IF u = zero THEN Omitted ELSE [type |-> "UUID", value |-> << u >>]

Present(fields) == SelectSeq(fields, LAMBDA f : f.value.type # "omitted")

-----------------------------------------------------------------------------
(***************************************************************************)
(* GetJsonSize() and WriteJson() of a struct, without and with a further   *)
(* object of attributes.                                                   *)
(***************************************************************************)
StructSize(fields) ==
  LET present == Present(fields)
      Size(f) == 1 + Len(f.name) + 2 + JsonSize(f.value)
  IN  FoldLeft(LAMBDA n, f : n + Size(f), 2, present)
        + (IF present = << >> THEN 0 ELSE Len(present) - 1)

WriteStruct(fields) ==
  << "{" >> \o Commas([i \in DOMAIN Present(fields) |->
                LET f == Present(fields)[i]
                IN  << Quote >> \o f.name \o << Quote, ":" >> \o WriteJson(f.value)])
            \o << "}" >>

\* The name of a field is taken, also when the field is omitted.
IsSafe(fields, property) == \A i \in DOMAIN fields : fields[i].name # property.name
Safe(fields, extra) == SelectSeq(extra, LAMBDA x : IsSafe(fields, x))

\* The objects are written one after the other; a comma replaces the braces
\* where they meet.
WriteWithExtra(fields, extra) ==
  LET base == WriteStruct(fields)
      more == WriteJson(Object(Safe(fields, extra)))
  IN CASE extra = << >>           -> base
       [] Present(fields) = << >> -> more
       [] Len(more) = 2           -> base
       [] OTHER                   -> Front(base) \o << "," >> \o Tail(more)

-----------------------------------------------------------------------------
(***************************************************************************)
(* TryEncodeJson(): at most n bytes.                                       *)
(***************************************************************************)
TooLarge == [fits |-> FALSE]
Encoded(text, truncated) == [fits |-> TRUE, text |-> text, truncated |-> truncated]

PropertySize(x) == StringSize(x.name) + 1 + JsonSize(x.value)

\* The size with the first k attributes.
SizeWith(fields, extra, k) ==
  LET safe == Safe(fields, SubSeq(extra, 1, k))
  IN  IF safe = << >> THEN StructSize(fields)
      ELSE FoldLeft(LAMBDA n, x : n + 1 + PropertySize(x), StructSize(fields), safe)
             - (IF Present(fields) = << >> THEN 1 ELSE 0)

TryEncodeStruct(fields, extra, n) ==
  IF StructSize(fields) > n THEN TooLarge
  ELSE LET k == CHOOSE k \in 0..Len(extra) :
                  /\ SizeWith(fields, extra, k) <= n
                  /\ \A more \in k + 1..Len(extra) : SizeWith(fields, extra, more) > n
       IN  Encoded(WriteWithExtra(fields, SubSeq(extra, 1, k)),
                   \E i \in k + 1..Len(extra) : IsSafe(fields, extra[i]))

\* Of an object of attributes: one by one, while the next one and a brace fit.
RECURSIVE TakeWhileFits(_, _, _)
TakeWhileFits(items, taken, room) ==
  LET rest == SubSeq(items, Len(taken) + 1, Len(items))
      comma == IF taken = << >> THEN 0 ELSE 1
  IN  IF rest = << >> \/ room < comma + PropertySize(Head(rest)) + 1 THEN taken
      ELSE TakeWhileFits(items, Append(taken, Head(rest)),
             room - comma - Bytes(WriteString(Head(rest).name)) - 1 - Bytes(WriteJson(Head(rest).value)))

TryEncodeAttribute(a, n) ==
  CASE a.type # "Object" \/ a.items = << >> ->
         IF JsonSize(a) > n THEN TooLarge ELSE Encoded(WriteJson(a), FALSE)
    [] a.type = "Object" /\ a.items # << >> /\ n < 2 -> TooLarge
    [] OTHER -> LET taken == TakeWhileFits(a.items, << >>, n - 1)
                IN  Encoded(WriteJson(Object(taken)), Len(taken) < Len(a.items))

-----------------------------------------------------------------------------
\* The text of a struct and its attributes is the object of both, an
\* attribute with the name of a field excepted, in the size asked for.
MergesOnce(fields, extra) ==
  LET text == WriteWithExtra(fields, extra)
  IN  /\ Parse(text) = AsRead(Object(Present(fields) \o Safe(fields, extra)))
      /\ Bytes(text) <= SizeWith(fields, extra, Len(extra))

\* What does not fit is dropped from the end and reported: the text has all
\* the fields or does not exist, keeps to the buffer, and holds the attributes
\* up to the first that could not have been added.
FitsTheBuffer(fields, extra, n) ==
  LET got  == TryEncodeStruct(fields, extra, n)
      safe == Safe(fields, extra)
      Read(k) == AsRead(Object(Present(fields) \o SubSeq(safe, 1, k)))
  IN  /\ got.fits <=> StructSize(fields) <= n
      /\ got.fits =>
           \E k \in 0..Len(safe) :
              /\ Bytes(got.text) <= n /\ Parse(got.text) = Read(k)
              /\ got.truncated <=> k < Len(safe)
              /\ k < Len(safe) => JsonSize(Object(Present(fields) \o SubSeq(safe, 1, k + 1))) > n

\* The same of an object of attributes alone.
AttributesFit(items, n) ==
  LET got == TryEncodeAttribute(Object(items), n)
  IN  /\ got.fits <=> n >= 2
      /\ got.fits => \E k \in 0..Len(items) :
           /\ Bytes(got.text) <= n /\ Parse(got.text) = AsRead(Object(SubSeq(items, 1, k)))
           /\ got.truncated <=> k < Len(items)
           /\ k < Len(items) =>
                Bytes(WriteJson(Object(SubSeq(items, 1, k + 1)))) > n
                  \/ \E i \in 1..k + 1 : items[i].value.type = "Double"
=============================================================================

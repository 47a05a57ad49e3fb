----------------------------- MODULE MCJsonText -----------------------------
(***************************************************************************)
(* The texts and attributes over which TLC checks JsonText: integers of    *)
(* eight bits, names and strings with every kind of escape.                *)
(***************************************************************************)
EXTENDS Integers, Sequences

Json == INSTANCE JsonText WITH MaxInt <- 127, MaxUInt <- 255

UpTo(n, S) == UNION {[1..k -> S] : k \in 0..n}
Of(type, values) == [type : {type}, value : values]

Chars   == {"a", Json!Quote, Json!Escape, "u", "0", "LF", "NUL"}
Null    == [type |-> "Null"]
Numbers == Of("Int", {-128, -1, 0, 10, 127}) \union Of("UInt", {127, 128, 255})
Doubles == Of("Double", {<< >>, << "3" >>, << "1", ".", "5" >>, << "1", "e", "+", "0", "7" >>})
Texts   == Of("UUID", {<< "a", "0" >>}) \union Of("String", UpTo(3, Chars))
Few     == {Null} \union Doubles
             \union Of("String", {<< >>, << Json!Escape >>, << Json!Quote, "}" >>})

Properties(V) ==
  {s \in UpTo(2, [name : {<< >>, << Json!Quote, "NUL" >>}, value : V]) :
     Len(s) = 2 => s[1].name # s[2].name}
Arrays(V)  == [type : {"Array"}, items : UpTo(2, V)]
Objects(V) == [type : {"Object"}, items : Properties(V)]
Nested     == Arrays({Null} \union Objects({Null}))
                \union Objects(Arrays(Of("Bool", BOOLEAN)) \union Objects(Of("Int", {1})))

\* The encoder and the decoder agree, and so does what the encoder asks for.
ASSUME JsonIsReadBack ==
  LET Holds(S) == \A a \in S : Json!ReadBack(a) /\ Json!TornIsRefused(a)
  IN  /\ Holds(Numbers) /\ Holds(Texts) /\ Holds(Arrays(Numbers))
      /\ Holds(Arrays(Few)) /\ Holds(Objects(Few)) /\ Holds(Nested)

\* The number of digits, estimated from the number of bits.
ASSUME DigitsAreCounted ==
  \A n \in 0..1100 \union UNION {{2^k - 1, 2^k} : k \in 0..30} \union UNION {{10^k - 1, 10^k} : k \in 0..9} :
    Json!NumberSize(n) = Len(Json!WriteNumber(n))

\* Scanner and decoder against the grammar, for every sequence of tokens.
KeyText   == << Json!Quote, "a", Json!Quote >>
Tokens    == {<< "{" >>, << "}" >>, << "[" >>, << "]" >>, << "," >>, << ":" >>, << "0" >>, KeyText}
TwoTokens == {<< "{" >>, << "}" >>, << "]" >>, << "," >>, KeyText \o << ":", "0" >>}

ASSUME JsonAndNothingElse ==
  \A t \in UpTo(4, Tokens) \union UpTo(5, TwoTokens) : Json!TakesJson(Json!FlattenSeq(t))
=============================================================================

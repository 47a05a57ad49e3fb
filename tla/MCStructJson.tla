---------------------------- MODULE MCStructJson ----------------------------
(***************************************************************************)
(* The structs, attributes and buffers over which TLC checks StructJson.   *)
(***************************************************************************)
EXTENDS MCJsonText

Struct == INSTANCE StructJson WITH MaxInt <- 127, MaxUInt <- 255

FieldValues == {Struct!Omitted, Null} \union Of("String", {<< "a", Json!Quote >>})
                 \union Of("Double", {<< "3" >>})
Structs == {[i \in DOMAIN v |-> [name |-> << <<"id">>, <<"na","me">> >>[i], value |-> v[i]]] :
              v \in UpTo(2, FieldValues)}
Extras  == {[i \in DOMAIN v |-> [name |-> << <<"id">>, <<Json!Quote>>, <<"na","me">> >>[i], value |-> v[i]]] :
              v \in UpTo(3, {Null} \union Of("Double", {<< "3" >>}))}

\* Structs and attributes into one object, whole or cut to fit.
ASSUME StructsFit ==
  /\ \A f \in Structs, x \in Extras : Struct!MergesOnce(f, x)
  /\ \A f \in Structs, x \in Extras, n \in {1, 2, 14, 20, 24, 37, 50} :
       Struct!FitsTheBuffer(f, x, n)
  /\ \A x \in Extras, n \in 0..40 : Struct!AttributesFit(x, n)
=============================================================================

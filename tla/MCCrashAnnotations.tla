------------------------- MODULE MCCrashAnnotations -------------------------
(***************************************************************************)
(* The contexts and sizes over which TLC checks CrashAnnotations.          *)
(***************************************************************************)
EXTENDS MCViewEvents

Dump == INSTANCE CrashAnnotations WITH
  MaxInt <- 127, MaxUInt <- 255, AnId <- "uuid", UUIDs <- {"uuid", "zero"}, ZeroUUID <- "zero"

\* A structure with one of its values set, or all.
ValueOf(kind) ==
  CASE kind = "UUID"   -> [type |-> "UUID", value |-> << "uuid" >>]
    [] kind = "Bool"   -> [type |-> "Bool", value |-> TRUE]
    [] kind = "Double" -> [type |-> "Double", value |-> << "9", "9", ".", "5" >>]
    [] OTHER           -> [type |-> "String", value |-> << Json!Quote, "a" >>]
ValuesOf(key) ==
  LET names == DOMAIN Dump!NoValues(key)
      With(set) == [n \in names |-> IF n \in set THEN ValueOf(Dump!FieldKind(key, n)) ELSE Dump!NoValues(key)[n]]
  IN  {With({n}) : n \in names} \union {With(names), With({})}

Further == {x \in Extras : Len(x) # 2}

Contexts ==
  UNION {{[Dump!EmptyContext EXCEPT !.values[key] = v] : v \in ValuesOf(key)} : key \in DOMAIN Dump!Layout}
    \union {[Dump!EmptyContext EXCEPT !.consent = "not-granted", !.extra[key] = x] :
              key \in Dump!Open, x \in Further}
    \union {[Dump!EmptyContext EXCEPT !.consent = "granted", !.attributes = Dump!Object(x)] : x \in Further}

Sizes(n) == [key \in DOMAIN Dump!Layout \union {"rum_attributes", "last_view"} |-> n]

ASSUME AnnotationsComeBack ==
  /\ \A ctx \in Contexts, n \in {2, 40, 50, 110} : Dump!ContextComesBack(ctx, Sizes(n))
  /\ Dump!NothingIsReadOfNothing
  /\ \A event \in {Base, Richer}, n \in 180..260 : Dump!ViewComesBack(event, n)
=============================================================================

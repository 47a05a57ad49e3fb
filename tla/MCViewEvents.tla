---------------------------- MODULE MCViewEvents ----------------------------
(***************************************************************************)
(* The view events over which TLC checks ViewEvents: with and without what *)
(* may be omitted, and with one thing wrong.                               *)
(***************************************************************************)
EXTENDS MCStructJson

Views == INSTANCE ViewEvents WITH
  MaxInt <- 127, MaxUInt <- 255, AnId <- "uuid", UUIDs <- {"uuid", "zero"}, ZeroUUID <- "zero"

EventOf(chosen) == Views!Object(Views!Present(Views!Fields(Views!ViewEvent, << >>, chosen, "view")))

\* An object with one member missing, in the place of the next, or changed.
Changed(items) ==
  LET Some   == {Null, [type |-> "Int", value |-> 1]}
      Others == [type : {"String"}, value : {<< "zero" >>, << "ci_test" >>, << "user", "a" >>}]
  IN  {Views!RemoveAt(items, i) : i \in DOMAIN items}
        \union {[items EXCEPT ![i] = items[i + 1], ![i + 1] = items[i]] : i \in 1..Len(items) - 1}
        \union {[items EXCEPT ![i].value = v] : i \in DOMAIN items, v \in Some}
        \union {[items EXCEPT ![i].value = v] : i \in DOMAIN items, v \in Others}
        \union {Append(items, [name |-> << "crash" >>, value |-> Null])}

\* At any depth.
RECURSIVE Variants(_)
Variants(a) ==
  IF a.type # "Object" THEN {}
  ELSE {[a EXCEPT !.items = items] : items \in Changed(a.items)}
         \union UNION {{[a EXCEPT !.items[i].value = v] : v \in Variants(a.items[i].value)} : i \in DOMAIN a.items}

ContextText == Json!WriteJson(Views!Object(<< [name |-> << "k", Json!Escape >>, value |-> [type |-> "Null"]] >>))
Base     == EventOf({"is_active"})
Richer   == EventOf({"is_active", "has_replay", "build_version", "build_id", "name", "context", "usr", "service"})

\* Every event with one thing wrong is taken or refused as it should be, and
\* what is taken is edited as it should be.
ASSUME EventsAreEdited ==
  /\ \A a \in {Base, Richer} : Views!EditIsRight(a, 100, {<< >>, ContextText})
  /\ \A a \in Variants(Richer) : Views!EditIsRight(a, 100, {ContextText})

\* An event that is too long for its buffer.
ASSUME EventsFit ==
  LET Entry(n) == [name |-> << n >>, value |-> [type |-> "String", value |-> << n, n >>]]
      Long == Views!PutAt(Richer, << "context" >>, Views!Object(<< Entry("a"), Entry("b"), Entry("c") >>))
  IN  \A a \in {Base, Richer, Long} : \A n \in 180..300 : Views!FitIsRight(a, n)

\* The events of the schema: those of views with any one member that may be
\* omitted and with all, those of the others with all and with none.
ASSUME ViewEventsAreTaken ==
  \A e \in DOMAIN Views!Schema :
    LET names == Views!Names(Views!Schema[e])
    IN  /\ Views!WellFormed(Views!Schema[e])
        /\ \A chosen \in {names, names \ {"crash"}, {}} : Views!TakesViewEvents(e, chosen)
        /\ e = "view" => \A n \in names : Views!TakesViewEvents(e, {n, "is_active"})
=============================================================================

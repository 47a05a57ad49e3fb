----------------------------- MODULE ViewEvents -----------------------------
(***************************************************************************)
(* The last view event of a process that has crashed, edited as text: the  *)
(* parser that finds the places to edit (view_event_parser), the edit      *)
(* (view_event_mutation), and the cut of an event that does not fit the    *)
(* annotation of a Crashpad crash (view_event_fit).                        *)
(*                                                                         *)
(* The text is of the view's last event, as another process wrote it.      *)
(***************************************************************************)
EXTENDS RumSchema

CONSTANTS UUIDs,     \* the UUIDs
          ZeroUUID

-----------------------------------------------------------------------------
(***************************************************************************)
(* The members of the object that begins at a place, as far as the scanner *)
(* gets, and the place after it.                                           *)
(***************************************************************************)
RECURSIVE MembersFrom(_, _, _)
MembersFrom(s, p, found) ==
  IF Peek(s, p) = "}" THEN [found |-> found, end |-> p + 1]
  ELSE LET k == SkipStringLiteral(s, p)
           q == SkipObjectProperty(s, p)
           now == Append(found, [name |-> SubSeq(s, p + 1, k - 2), from |-> k + 1, upTo |-> q])
       IN CASE q = Failed          -> [found |-> found, end |-> Failed]
            [] Peek(s, q) = "}"    -> MembersFrom(s, q, now)
            [] Peek(s, q) = ","    -> MembersFrom(s, q + 1, now)
            [] OTHER               -> [found |-> now, end |-> Failed]

Members(s, p) ==
  IF Peek(s, p) = "{" THEN MembersFrom(s, p + 1, << >>) ELSE [found |-> << >>, end |-> Failed]

KindAt(s, p) ==
  CASE Peek(s, p) = Quote -> "string"
    [] Peek(s, p) \in Digit \union {"-"} -> "number"
    [] Peek(s, p) \in {"true", "false"} -> "bool"
    [] Peek(s, p) = "{" -> "object"
    [] OTHER -> "other"

\* What the parser looks for, by path, in the order it wants; the comma after
\* view.error and the one after _dd are places as well.
Wanted ==
  << << << "date" >>, "number" >>,
     << << "application", "id" >>, "string" >>,
     << << "build_version" >>, "string" >>,
     << << "build_id" >>, "string" >>,
     << << "session", "id" >>, "string" >>,
     << << "session", "type" >>, "string" >>,
     << << "session", "has_replay" >>, "bool" >>,
     << << "view", "id" >>, "string" >>,
     << << "view", "url" >>, "string" >>,
     << << "view", "name" >>, "string" >>,
     << << "view", "is_active" >>, "bool" >>,
     << << "view", "error", "count" >>, "number" >>,
     << << "view", "error", "," >>, "comma" >>,
     << << "_dd", "format_version" >>, "number" >>,
     << << "_dd", "document_version" >>, "number" >>,
     << << "_dd", "," >>, "comma" >>,
     << << "context" >>, "object" >>,
     << << "type" >>, "string" >> >>
Order    == [i \in DOMAIN Wanted |-> Wanted[i][1]]
Optional == {<< "build_version" >>, << "build_id" >>, << "session", "has_replay" >>, << "view", "name" >>,
             << "context" >>}
HasComma == {<< "view", "error" >>, << "_dd" >>}
Entered  == {<< "application" >>, << "session" >>, << "view" >>} \union HasComma

KindOf(path) ==
  IF path \in Entered THEN "object"
  ELSE IF path \in ToSet(Order) THEN Wanted[CHOOSE i \in DOMAIN Order : Order[i] = path][2]
  ELSE "any"

\* The places found in the object at p, in the order of the text.  A member
\* of the wrong kind, or a crash that is there already, fails the scan.
RECURSIVE Scan(_, _, _)
Scan(s, p, path) ==
  LET members == Members(s, p)
      Visit(so_far, m) ==
        LET here  == path \o m.name
            inner == IF here \in Entered THEN Scan(s, m.from, here) ELSE [ok |-> TRUE, spans |-> << >>]
            comma == IF here \in HasComma
                     THEN << [path |-> Append(here, ","), from |-> m.upTo, upTo |-> m.upTo] >> ELSE << >>
            span  == IF here \in ToSet(Order)
                     THEN << [path |-> here, from |-> m.from, upTo |-> m.upTo] >> ELSE << >>
        IN  [ok |-> /\ so_far.ok /\ inner.ok
                    /\ KindOf(here) \in {"any", KindAt(s, m.from)}
                    /\ here \in HasComma => Peek(s, m.upTo) = ","
                    /\ here # << "view", "crash" >>,
             spans |-> so_far.spans \o span \o inner.spans \o comma]
  IN  FoldLeft(Visit, [ok |-> members.end # Failed, spans |-> << >>], members.found)

\* Spans: the last place found of each path.
Spans(scan) == FoldLeft(LAMBDA spans, span : (span.path :> span) @@ spans, << >>, scan.spans)

HasAllRequiredMatches(spans) == ToSet(Order) \ Optional \subseteq DOMAIN spans

HasExpectedFieldOrdering(spans) ==
  \A i, j \in DOMAIN Order :
    i < j /\ {Order[i], Order[j]} \subseteq DOMAIN spans => spans[Order[i]].upTo <= spans[Order[j]].from

-----------------------------------------------------------------------------
(***************************************************************************)
(* RumViewEventParser::Parse().                                            *)
(***************************************************************************)
ParseUUID(literal) ==
  IF Len(literal) = 3 /\ literal[2] \in UUIDs THEN [type |-> "UUID", value |-> literal[2]] ELSE Malformed
ParseUInt(literal) ==
  IF ToSet(literal) \subseteq Digit /\ ValueOf(literal) <= MaxUInt
  THEN [type |-> "UInt", value |-> ValueOf(literal)] ELSE Malformed

SessionTypes == {"user", "synthetics", "ci_test"}

Refused == [ok |-> FALSE]

ParseViewEvent(s) ==
  LET scan  == Scan(s, 1, << >>)
      spans == Spans(scan)
      Literal(path) == SubSeq(s, spans[path].from, spans[path].upTo - 1)
      IdOf(path)    == ParseUUID(Literal(path))
      CountOf(path) == ParseUInt(Literal(path))
      Ids == {<< "application", "id" >>, << "session", "id" >>, << "view", "id" >>}
      Counts == {<< "view", "error", "count" >>, << "_dd", "format_version" >>, << "_dd", "document_version" >>}
      Strings == {<< "build_version" >>, << "build_id" >>, << "view", "url" >>, << "view", "name" >>}
  IN  IF /\ scan.ok /\ HasAllRequiredMatches(spans) /\ HasExpectedFieldOrdering(spans)
         /\ Literal(<< "type" >>) = << Quote, "view", Quote >>
         /\ \A path \in Strings \intersect DOMAIN spans : ParseJsonString(Literal(path)) # Malformed
         /\ \A path \in Ids : IdOf(path) # Malformed /\ IdOf(path).value # ZeroUUID
         /\ \E t \in SessionTypes : Literal(<< "session", "type" >>) = << Quote, t, Quote >>
         /\ \A path \in Counts : CountOf(path) # Malformed
         /\ CountOf(<< "_dd", "format_version" >>).value = 2
      THEN [ok |-> TRUE, spans |-> spans,
            ids |-> [path \in Ids |-> IdOf(path).value],
            counts |-> [path \in Counts |-> CountOf(path).value],
            strings |-> [path \in Strings \intersect DOMAIN spans |-> ParseJsonString(Literal(path)).value]]
      ELSE Refused

-----------------------------------------------------------------------------
(***************************************************************************)
(* MutateViewEventForCrash().  The numbers wrap.                           *)
(***************************************************************************)
Wrap(n) == n % (MaxUInt + 1)

Crash == << ",", Quote, "crash", Quote, ":", "{", Quote, "count", Quote, ":", "1", "}" >>
ContextKey == << ",", Quote, "context", Quote, ":" >>

\* The text with each of the edits, that come in the order of their places,
\* in the place of what it replaces.
Edited(s, edits) ==
  LET Edit(done, e) == [text |-> done.text \o SubSeq(s, done.at, e.from - 1) \o e.text, at |-> e.upTo]
      all == FoldLeft(Edit, [text |-> << >>, at |-> 1], edits)
  IN  all.text \o SubSeq(s, all.at, Len(s))

MutateViewEventForCrash(s, parsed, crashed, context) ==
  LET spans == parsed.spans
      At(path, text) == [from |-> spans[path].from, upTo |-> spans[path].upTo, text |-> text]
      Next1(path) == At(path, WriteNumber(Wrap(parsed.counts[path] + 1)))
  IN  Edited(s,
        << At(<< "date" >>, WriteNumber(Wrap(crashed - 1))),
           At(<< "view", "is_active" >>, << "false" >>),
           Next1(<< "view", "error", "count" >>),
           At(<< "view", "error", "," >>, Crash),
           Next1(<< "_dd", "document_version" >>) >>
        \o (IF context = << >> THEN << >>
            ELSE IF << "context" >> \in DOMAIN spans THEN << At(<< "context" >>, context) >>
            ELSE << At(<< "_dd", "," >>, ContextKey \o context) >>))

-----------------------------------------------------------------------------
(***************************************************************************)
(* FitViewEventToBuffer(): of an event that is too long, the properties of *)
(* its context that fit, or nothing.                                       *)
(***************************************************************************)
Dropped == [status |-> "Dropped", text |-> << "{", "}" >>]

FitViewEventToBuffer(s, n) ==
  LET root == Members(s, 1).found
      contexts == {i \in DOMAIN root : root[i].name = << "context" >>}
      context == root[CHOOSE i \in contexts : \A j \in contexts : i <= j]
      prefix  == SubSeq(s, 1, context.from - 1)
      suffix  == SubSeq(s, context.upTo, Len(s))
      room    == n - Bytes(prefix) - Bytes(suffix)
      value   == SubSeq(s, context.from, context.upTo - 1)
      Upto(m) == SubSeq(value, 1, m.upTo - 1)
      entries == Members(value, 1).found
      cuts    == {i \in DOMAIN entries : Bytes(Upto(entries[i])) + 1 <= room}
      kept    == IF cuts = {} THEN << "{", "}" >>
                 ELSE Append(Upto(entries[CHOOSE i \in cuts : \A j \in cuts : j <= i]), "}")
  IN  IF Bytes(s) <= n THEN [status |-> "Ok", text |-> s]
      ELSE IF contexts = {} \/ Peek(s, context.from) # "{" \/ room < 2 THEN Dropped
      ELSE [status |-> "Truncated", text |-> prefix \o kept \o suffix]

-----------------------------------------------------------------------------
(***************************************************************************)
(* Against the object that the text is of.                                 *)
(***************************************************************************)
IsObject(a) == a.type = "Object"
Index(a, name) == {i \in DOMAIN a.items : a.items[i].name = << name >>}
Has(a, name) == IsObject(a) /\ Index(a, name) # {}
Get(a, name) == a.items[CHOOSE i \in Index(a, name) : TRUE].value
RECURSIVE HasAt(_, _), GetAt(_, _), PutAt(_, _, _)
HasAt(a, path) == path = << >> \/ (Has(a, Head(path)) /\ HasAt(Get(a, Head(path)), Tail(path)))
GetAt(a, path) == IF path = << >> THEN a ELSE GetAt(Get(a, Head(path)), Tail(path))
PutAt(a, path, v) ==
  IF path = << >> THEN v
  ELSE [a EXCEPT !.items = Put(@, << Head(path) >>, PutAt(Get(a, Head(path)), Tail(path), v))]
InsertAfter(a, name, item) ==
  [a EXCEPT !.items = InsertAt(@, (CHOOSE i \in Index(a, name) : TRUE) + 1, item)]

\* The paths of the wanted leaves in the order of the text.
RECURSIVE Leaves(_, _)
Leaves(a, path) ==
  IF ~IsObject(a) \/ path = << "context" >> THEN << path >>
  ELSE FlattenSeq([i \in DOMAIN a.items |-> Leaves(a.items[i].value, path \o a.items[i].name)])

IsLast(a, name) == Last(a.items).name = << name >>

\* The parser takes the events that have what it needs, of the right kinds and
\* in the order that the edit relies on, with something after view.error and
\* _dd, and no crash.
Acceptable(a) ==
  LET Is(path, type, V) == HasAt(a, path) /\ GetAt(a, path).type = type /\ GetAt(a, path).value \in V
      IsIn(path, type) == HasAt(a, path) => GetAt(a, path).type = type
      AnyId == {<< u >> : u \in UUIDs \ {ZeroUUID}}
      known == SelectSeq(Leaves(a, << >>), LAMBDA path : path \in ToSet(Order))
  IN  /\ HasAt(a, << "date" >>) /\ GetAt(a, << "date" >>).type = "Int"
      /\ \A w \in {"application", "session", "view"} : Is(<< w, "id" >>, "String", AnyId)
      /\ Is(<< "type" >>, "String", {<< "view" >>})
      /\ Is(<< "session", "type" >>, "String", {<< t >> : t \in SessionTypes})
      /\ Is(<< "view", "is_active" >>, "Bool", BOOLEAN)
      /\ Is(<< "view", "error", "count" >>, "Int", 0..MaxInt)
      /\ Is(<< "_dd", "format_version" >>, "Int", {2})
      /\ Is(<< "_dd", "document_version" >>, "Int", 0..MaxInt)
      /\ HasAt(a, << "view", "url" >>)
      /\ \A path \in {<< "build_version" >>, << "build_id" >>, << "view", "url" >>, << "view", "name" >>} :
           IsIn(path, "String")
      /\ IsIn(<< "session", "has_replay" >>, "Bool") /\ IsIn(<< "context" >>, "Object")
      /\ known = SelectSeq(Order, LAMBDA path : path \in ToSet(known))
      /\ ~IsLast(Get(a, "view"), "error") /\ ~IsLast(a, "_dd") /\ ~HasAt(a, << "view", "crash" >>)

\* The crashed view: everything but the numbers, the flag and the crash is kept.
Crashed(a, crashed, context) ==
  LET Number(n) == [type |-> "Int", value |-> n]
      More(b, path) == PutAt(b, path, Number(GetAt(a, path).value + 1))
      numbers == More(More(PutAt(PutAt(a, << "date" >>, Number(crashed - 1)),
                                 << "view", "is_active" >>, [type |-> "Bool", value |-> FALSE]),
                           << "view", "error", "count" >>), << "_dd", "document_version" >>)
      view == InsertAfter(Get(numbers, "view"), "error",
                [name |-> << "crash" >>, value |-> Object(<< [name |-> << "count" >>, value |-> Number(1)] >>)])
      event == PutAt(numbers, << "view" >>, view)
  IN CASE context = << >>       -> event
       [] context # << >> /\ Has(a, "context") -> PutAt(event, << "context" >>, Parse(context))
       [] OTHER -> InsertAfter(event, "_dd", [name |-> << "context" >>, value |-> Parse(context)])

\* Taken or refused as it should be, edited as it should be, and not twice.
EditIsRight(a, crashed, contexts) ==
  LET s == WriteJson(a)
      parsed == ParseViewEvent(s)
      read == AsRead(a)
  IN  /\ parsed.ok <=> Acceptable(read)
      /\ parsed.ok =>
           /\ \A path \in DOMAIN parsed.ids : << parsed.ids[path] >> = GetAt(read, path).value
           /\ \A path \in DOMAIN parsed.counts : parsed.counts[path] = GetAt(read, path).value
           /\ \A path \in DOMAIN parsed.strings : parsed.strings[path] = GetAt(read, path).value
           /\ \A context \in contexts :
                LET edited == MutateViewEventForCrash(s, parsed, crashed, context)
                IN  Parse(edited) = Crashed(read, crashed, context) /\ ~ParseViewEvent(edited).ok

\* An event that was cut to fit is still taken, with the same values and the
\* properties of its context that fit, as many as do.
FitIsRight(a, n) ==
  LET s == WriteJson(a)
      got == FitViewEventToBuffer(s, n)
      items == GetAt(a, << "context" >>).items
      With(k) == PutAt(a, << "context" >>, Object(SubSeq(items, 1, k)))
      size(k) == Bytes(WriteJson(With(k)))
  IN  /\ Bytes(got.text) <= n
      /\ got.status = "Dropped" <=> n < Bytes(s) /\ (~Has(a, "context") \/ size(0) > n)
      /\ got.status = "Ok" => got.text = s
      /\ got.status = "Truncated" => \E k \in 0..Len(items) - 1 :
           got.text = WriteJson(With(k)) /\ size(k + 1) > n

\* Every view event is taken that the schema allows and the crash of the view
\* is not part of; no other event is.
TakesViewEvents(event, chosen) ==
  ParseViewEvent(EventText(event, chosen)).ok <=>
    event = "view" /\ "is_active" \in chosen /\ "crash" \notin chosen
=============================================================================

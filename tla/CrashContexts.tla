--------------------------- MODULE CrashContexts ----------------------------
(***************************************************************************)
(* The file that keeps the context of a possible crash: what is written of *)
(* a context, and what a later process, possibly of a later release, makes *)
(* of the file (crash_context_write.cpp, crash_context_read.cpp), with the *)
(* attributes in it (core/attribute/binary.cpp).                           *)
(*                                                                         *)
(* A file is a sequence of cells: numbers, texts and other values of fixed *)
(* width.  A text is a record with its length.  The reader has limits that *)
(* the writer does not have.                                               *)
(***************************************************************************)
EXTENDS Naturals, Sequences, SequencesExt

CONSTANTS MaxDepth,     \* 64: nested arrays and objects
          MaxString,    \* 65535: a string in an attribute, or a name
          MaxItems,     \* 4096: items, or properties
          MaxShort,     \* MAX_SHORT_STRING_LEN
          MaxViewEvent  \* MAX_VIEW_EVENT_LEN

Number(n) == [is |-> "number", n |-> n]
Text(s)   == << Number(s.length) >>
               \o (IF s.length > 0 THEN << [is |-> "text", text |-> s] >> ELSE << >>)
NoText    == [length |-> 0]
PartCell  == [is |-> "part of a cell"]

Fail         == [ok |-> FALSE]
Got(v, next) == [ok |-> TRUE, value |-> v, next |-> next]

Whole(file, k) == k <= Len(file) /\ file[k] # PartCell
NumberAt(file, k) == IF Whole(file, k) THEN Got(file[k].n, k + 1) ELSE Fail
TextAt(file, k, max) ==
  CASE ~Whole(file, k) \/ file[k].n > max -> Fail
    [] Whole(file, k) /\ file[k].n = 0    -> Got(NoText, k + 1)
    [] OTHER -> IF Whole(file, k + 1) THEN Got(file[k + 1].text, k + 2) ELSE Fail

-----------------------------------------------------------------------------
(***************************************************************************)
(* AttributeBinarySerialization.  The items of an array are attributes,    *)
(* those of an object pairs of a name and an attribute.                    *)
(***************************************************************************)
Fixed == {"Bool", "Int", "UInt", "Timestamp", "Double", "UUID"}

RECURSIVE WriteAttribute(_)
WriteAttribute(a) ==
  << [is |-> "type", type |-> a.type] >> \o
    CASE a.type = "Null"   -> << >>
      [] a.type \in Fixed  -> << Number(a.value) >>
      [] a.type = "String" -> Text(a.value)
      [] a.type = "Array"  ->
           << Number(Len(a.items)) >>
             \o FlattenSeq([i \in DOMAIN a.items |-> WriteAttribute(a.items[i])])
      [] a.type = "Object" ->
           << Number(Len(a.items)) >>
             \o FlattenSeq([i \in DOMAIN a.items |->
                  Text(a.items[i].name) \o WriteAttribute(a.items[i].value)])

\* ParseImpl(): the attribute at place k; then the n items that follow.
RECURSIVE ParseAttribute(_, _, _), ParseItems(_, _, _, _, _, _)
ParseAttribute(file, k, depth) ==
  IF depth > MaxDepth \/ ~Whole(file, k) THEN Fail
  ELSE LET type == file[k].type
       IN  CASE type = "Null"  -> Got([type |-> type], k + 1)
             [] type \in Fixed ->
                  LET v == NumberAt(file, k + 1)
                  IN  IF v.ok THEN Got([type |-> type, value |-> v.value], v.next) ELSE Fail
             [] type = "String" ->
                  LET v == TextAt(file, k + 1, MaxString)
                  IN  IF v.ok THEN Got([type |-> type, value |-> v.value], v.next) ELSE Fail
             [] type \in {"Array", "Object"} ->
                  LET n == NumberAt(file, k + 1)
                  IN  IF ~n.ok THEN Fail ELSE IF n.value > MaxItems THEN Fail
                      ELSE ParseItems(file, n.next, n.value, depth, type, << >>)

ParseItems(file, k, n, depth, type, items) ==
  IF n = 0 THEN Got([type |-> type, items |-> items], k)
  ELSE LET name  == IF type = "Object" THEN TextAt(file, k, MaxString) ELSE Got(NoText, k)
           value == IF name.ok THEN ParseAttribute(file, name.next, depth + 1) ELSE Fail
           item  == IF type = "Object" THEN [name |-> name.value, value |-> value.value]
                    ELSE value.value
       IN  IF ~value.ok THEN Fail
           ELSE ParseItems(file, value.next, n - 1, depth, type, Append(items, item))

-----------------------------------------------------------------------------
(***************************************************************************)
(* The fields of a context, as the writer has them and as the reader does. *)
(***************************************************************************)
Fields(kind, names) == [i \in DOMAIN names |-> [kind |-> kind, name |-> names[i]]]

DeviceNames == << "os_name", "os_version", "os_build", "os_version_major", "device_type",
                  "device_name", "device_model", "device_brand", "device_architecture",
                  "device_locale", "device_time_zone" >>
SessionFlags == << "is_sampled", "is_active", "is_initial_session",
                   "has_tracked_any_view", "did_start_with_replay" >>

\* WriteCrashContext(), in its four chunks.
WriterFields ==
  Fields("short", << "service", "env", "application_version", "variant", "source",
                     "sdk_version" >>)
    \o Fields("consent", << "tracking_consent" >>)
    \o Fields("short", DeviceNames \o << "user_id", "user_name", "user_email" >>)
    \o Fields("fixed", << "user_anonymous_id" >>)
    \o Fields("attribute", << "user_extra" >>)
    \o Fields("short", << "account_id", "account_name" >>)
    \o Fields("attribute", << "account_extra" >>)
    \o Fields("fixed", << "application_id", "session_sample_rate", "session_id" >> \o SessionFlags)
    \o Fields("view event", << "last_view_event_json" >>)
    \o Fields("attribute", << "global_rum_attributes" >>)

Cells(kind, v) ==
  CASE kind \in {"short", "view event"} -> Text(v)
    [] kind \in {"fixed", "consent"}    -> << Number(v) >>
    [] kind = "attribute"               -> WriteAttribute(v)

Write(version, fields, ctx) ==
  << [is |-> "header"], Number(version) >>
    \o FlattenSeq([i \in DOMAIN fields |-> Cells(fields[i].kind, ctx[fields[i].name])])
    \o << [is |-> "footer"] >>

WriteCrashContext(ctx) == Write(2, WriterFields, ctx)

\* ReadCrashContext(): what the first version had not is left as it is.
ReaderFields(version) ==
  Fields("short", << "service", "env", "application_version", "variant" >>)
    \o Fields("short", << "source", "sdk_version" >>)
    \o Fields("consent", << "tracking_consent" >>)
    \o Fields("short", DeviceNames)
    \o Fields("short", << "user_id", "user_name", "user_email" >>)
    \o (IF version >= 2 THEN Fields("fixed", << "user_anonymous_id" >>) ELSE << >>)
    \o Fields("attribute", << "user_extra" >>)
    \o Fields("short", << "account_id", "account_name" >>)
    \o Fields("attribute", << "account_extra" >>)
    \o Fields("fixed", << "application_id" >>)
    \o (IF version >= 2 THEN Fields("fixed", << "session_sample_rate" >>) ELSE << >>)
    \o Fields("fixed", << "session_id" >> \o SessionFlags)
    \o Fields("view event", << "last_view_event_json" >>)
    \o Fields("attribute", << "global_rum_attributes" >>)

ReadField(file, k, kind) ==
  CASE kind = "short"      -> TextAt(file, k, MaxShort)
    [] kind = "view event" -> TextAt(file, k, MaxViewEvent)
    [] kind = "fixed"      -> NumberAt(file, k)
    [] kind = "consent"    -> LET v == NumberAt(file, k)
                              IN  IF v.ok /\ v.value > 2 THEN Fail ELSE v
    [] kind = "attribute"  -> ParseAttribute(file, k, 0)

RECURSIVE ReadFields(_, _, _, _)
ReadFields(file, k, fields, ctx) ==
  IF fields = << >>
  THEN IF Whole(file, k) /\ file[k].is = "footer" THEN Got(ctx, k + 1) ELSE Fail
  ELSE LET v == ReadField(file, k, Head(fields).kind)
       IN  IF ~v.ok THEN Fail
           ELSE ReadFields(file, v.next, Tail(fields), [ctx EXCEPT ![Head(fields).name] = v.value])

\* CrashContext ctx{}; magic, version, fields, footer.
ReadCrashContext(file, empty) ==
  IF ~Whole(file, 1) \/ ~Whole(file, 2) THEN Fail
  ELSE IF file[1].is # "header" \/ file[2].n \notin 1 .. 2 THEN Fail
  ELSE ReadFields(file, 3, ReaderFields(file[2].n), empty)

-----------------------------------------------------------------------------
(***************************************************************************)
(* What it should do.                                                      *)
(***************************************************************************)
RECURSIVE FitsAttribute(_, _)
FitsAttribute(a, depth) ==
  /\ depth <= MaxDepth
  /\ a.type = "String" => a.value.length <= MaxString
  /\ a.type = "Array" =>
       Len(a.items) <= MaxItems /\ \A i \in DOMAIN a.items : FitsAttribute(a.items[i], depth + 1)
  /\ a.type = "Object" =>
       /\ Len(a.items) <= MaxItems
       /\ \A i \in DOMAIN a.items : /\ a.items[i].name.length <= MaxString
                                    /\ FitsAttribute(a.items[i].value, depth + 1)

Fits(ctx) ==
  \A i \in DOMAIN WriterFields :
    LET v == ctx[WriterFields[i].name]
    IN  CASE WriterFields[i].kind = "short"      -> v.length <= MaxShort
          [] WriterFields[i].kind = "view event" -> v.length <= MaxViewEvent
          [] WriterFields[i].kind = "attribute"  -> FitsAttribute(v, 0)
          [] OTHER                               -> TRUE

\* crash_context_write.cpp:20-207 and crash_context_read.cpp:22-195: a context
\* within the limits is read as it was written; one field beyond them, however
\* deep in an attribute, and the whole file is refused.
ReadAsWritten(ctx, empty) ==
  LET read == ReadCrashContext(WriteCrashContext(ctx), empty)
  IN  IF Fits(ctx) THEN read.ok /\ read.value = ctx ELSE ~read.ok

\* A file that stops anywhere, between two values or inside one, is refused.
TornIsRefused(ctx, empty) ==
  LET file == WriteCrashContext(ctx)
  IN  \A k \in 0 .. Len(file) - 1 :
        /\ ~ReadCrashContext(SubSeq(file, 1, k), empty).ok
        /\ ~ReadCrashContext(Append(SubSeq(file, 1, k), PartCell), empty).ok

\* crash_context_read.cpp:123-153: the file of a release that had neither the
\* anonymous user nor the sample rate is read but for these.
NewFields == {"user_anonymous_id", "session_sample_rate"}
OldIsRead(ctx, empty) ==
  LET old  == Write(1, SelectSeq(WriterFields, LAMBDA f : f.name \notin NewFields), ctx)
      read == ReadCrashContext(old, empty)
  IN  IF Fits(ctx)
      THEN read.ok /\ read.value = [f \in DOMAIN ctx |-> IF f \in NewFields THEN empty[f] ELSE ctx[f]]
      ELSE ~read.ok
=============================================================================

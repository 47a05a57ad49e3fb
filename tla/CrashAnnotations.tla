-------------------------- MODULE CrashAnnotations --------------------------
(***************************************************************************)
(* The crash context as the annotations of a Crashpad crash: written into  *)
(* buffers of fixed sizes by the process that may crash (SetCrashContext() *)
(* of crash_handler_crashpad.cpp), and read from a minidump by another one *)
(* (crash_context_annotations.cpp).                                        *)
(*                                                                         *)
(* A context is a record: the consent; the values of each structure by     *)
(* name; the further attributes of the user and of the account; the global *)
(* RUM attributes; the text of the last view event.                        *)
(***************************************************************************)
EXTENDS ViewEvents

Layout ==
  [config      |-> << "service", "env", "version", "variant", "source", "sdk_version" >>,
   os          |-> << "name", "version", "build", "version_major" >>,
   device      |-> << "type", "name", "model", "brand", "architecture", "locale", "time_zone" >>,
   usr         |-> << "id", "name", "email", "anonymous_id" >>,
   account     |-> << "id", "name" >>,
   rum_config  |-> << "application_id", "session_sample_rate" >>,
   rum_session |-> << "id", "is_sampled", "is_active", "is_initial", "has_tracked_any_view",
                      "did_start_with_replay" >>]

\* The structures that take attributes of any name besides.
Open == {"usr", "account"}

FieldKind(key, name) ==
  CASE << key, name >> \in {<< "usr", "anonymous_id" >>, << "rum_config", "application_id" >>,
                            << "rum_session", "id" >>} -> "UUID"
    [] << key, name >> = << "rum_config", "session_sample_rate" >> -> "Double"
    [] key = "rum_session" /\ name # "id" -> "Bool"
    [] OTHER -> "String"

Default(kind) ==
  CASE kind = "UUID"   -> [type |-> "UUID", value |-> << ZeroUUID >>]
    [] kind = "Bool"   -> [type |-> "Bool", value |-> FALSE]
    [] kind = "Double" -> [type |-> "Double", value |-> << "0" >>]
    [] OTHER           -> [type |-> "String", value |-> << >>]

NoValues(key) == [name \in ToSet(Layout[key]) |-> Default(FieldKind(key, name))]
Nothing == [type |-> "Null"]
EmptyContext ==
  [consent |-> "pending", values |-> [key \in DOMAIN Layout |-> NoValues(key)],
   extra |-> [key \in Open |-> << >>], attributes |-> Nothing, last_view |-> << >>]

-----------------------------------------------------------------------------
(***************************************************************************)
(* SetCrashContext(): every annotation by itself, of at most size[key]     *)
(* bytes.  One that does not fit is an empty object.                       *)
(***************************************************************************)
Empty == << "{", "}" >>

MayBeOmitted(key, name) == key \in Open \/ FieldKind(key, name) = "UUID"

FieldsOf(ctx, key) ==
  [i \in DOMAIN Layout[key] |->
     LET name  == Layout[key][i]
         value == ctx.values[key][name]
     IN  [name |-> << name >>,
          value |-> IF MayBeOmitted(key, name) /\ value = Default(FieldKind(key, name)) THEN Omitted ELSE value]]

\* TrySetAnnotation() and TrySetAnnotationWithExtras().
Annotation(encoded) == IF encoded.fits THEN encoded.text ELSE Empty

LastView(text, n) == IF text = << >> THEN Empty ELSE FitViewEventToBuffer(text, n).text

Annotations(ctx, size) ==
  [key \in DOMAIN Layout |->
     Annotation(TryEncodeStruct(FieldsOf(ctx, key), IF key \in Open THEN ctx.extra[key] ELSE << >>, size[key]))]
  @@ [tracking_consent |-> ctx.consent,
      rum_attributes   |-> Annotation(TryEncodeAttribute(ctx.attributes, size.rum_attributes)),
      last_view        |-> LastView(ctx.last_view, size.last_view)]

\* Initialize(), before any context is known.
InitialAnnotations ==
  [key \in DOMAIN Layout |-> Empty]
    @@ [tracking_consent |-> "pending", rum_attributes |-> Empty, last_view |-> Empty]

-----------------------------------------------------------------------------
(***************************************************************************)
(* ParseCrashContextFromAnnotations(): what cannot be read keeps its       *)
(* default, and so does what follows it in the same annotation.            *)
(***************************************************************************)
Consents == {"granted", "not-granted", "pending"}

KindOfText(kind) ==
  CASE kind = "Bool" -> "bool" [] kind = "Double" -> "number" [] OTHER -> "string"

\* The value of a field whose text is a literal of the right kind.
Value(literal, kind) ==
  CASE kind = "UUID"   -> LET u == ParseUUID(literal)
                          IN  IF u = Malformed THEN u ELSE [type |-> "UUID", value |-> << u.value >>]
    [] kind = "Bool"   -> [type |-> "Bool", value |-> literal = << "true" >>]
    [] kind = "Double" -> [type |-> "Double", value |-> literal]
    [] OTHER           -> ParseJsonString(literal)

\* One member of the object: it is set, collected, passed over, or ends the reading.
ReadMember(s, key, read, m) ==
  LET names   == {name \in ToSet(Layout[key]) : << name >> = m.name}
      literal == SubSeq(s, m.from, m.upTo - 1)
      Known(name) ==
        LET kind  == FieldKind(key, name)
            value == Value(literal, kind)
        IN CASE KindAt(s, m.from) # KindOfText(kind) -> [read EXCEPT !.on = FALSE]
             [] KindAt(s, m.from) = KindOfText(kind) /\ value = Malformed -> read
             [] OTHER -> [read EXCEPT !.values[name] = value]
      Further ==
        LET name  == ParseJsonString(<< Quote >> \o m.name \o << Quote >>)
            value == Parse(literal)
        IN CASE name = Malformed -> [read EXCEPT !.on = FALSE]
             [] name # Malformed /\ value = Malformed -> read
             [] OTHER -> [read EXCEPT !.extra = Put(@, name.value, value)]
  IN CASE ~read.on        -> read
       [] read.on /\ names # {} -> Known(CHOOSE name \in names : TRUE)
       [] read.on /\ names = {} /\ key \in Open -> Further
       [] OTHER -> read

ReadStruct(s, key) ==
  FoldLeft(LAMBDA read, m : ReadMember(s, key, read, m),
           [on |-> TRUE, values |-> NoValues(key), extra |-> << >>], Members(s, 1).found)

ParseCrashContextFromAnnotations(params) ==
  LET attributes == IF "rum_attributes" \in DOMAIN params THEN Parse(params.rum_attributes) ELSE Malformed
      Read(key) == IF key \in DOMAIN params THEN ReadStruct(params[key], key)
                   ELSE [values |-> NoValues(key), extra |-> << >>]
  IN  [consent |-> IF "tracking_consent" \in DOMAIN params /\ params.tracking_consent \in Consents
                   THEN params.tracking_consent ELSE "pending",
       values  |-> [key \in DOMAIN Layout |-> Read(key).values],
       extra   |-> [key \in Open |-> Read(key).extra],
       attributes |-> IF attributes = Malformed THEN Nothing ELSE attributes,
       last_view  |-> IF "last_view" \in DOMAIN params /\ params.last_view \notin {Empty, << "null" >>}
                      THEN params.last_view ELSE << >>]

\* The client's token is what is left for the upload.
RemoveCrashContextAnnotations(params) ==
  [key \in DOMAIN params \ (DOMAIN Layout \union {"tracking_consent", "rum_attributes", "last_view"})
     |-> params[key]]

-----------------------------------------------------------------------------
\* What is read is what was written; of what does not fit, the last attributes
\* are missing, or all of the structure and nothing of another one.
ContextComesBack(ctx, size) ==
  LET got == ParseCrashContextFromAnnotations(Annotations(ctx, size))
  IN  /\ got.consent = ctx.consent
      /\ \A key \in DOMAIN Layout :
           LET fields == FieldsOf(ctx, key)
               further == IF key \in Open THEN AsRead(Object(Safe(fields, ctx.extra[key]))).items ELSE << >>
           IN  IF StructSize(fields) > size[key]
               THEN got.values[key] = NoValues(key) /\ (key \in Open => got.extra[key] = << >>)
               ELSE /\ got.values[key] = ctx.values[key]
                    /\ key \in Open =>
                         /\ IsPrefix(got.extra[key], further)
                         /\ got.extra[key] # further => SizeWith(fields, ctx.extra[key], Len(ctx.extra[key])) > size[key]
      /\ \/ got.attributes = AsRead(ctx.attributes)
         \/ JsonSize(ctx.attributes) > size.rum_attributes

\* A context that was never set is read as an empty one.
NothingIsReadOfNothing ==
  [ParseCrashContextFromAnnotations(InitialAnnotations) EXCEPT !.attributes = Nothing] = EmptyContext

\* A view event too long for its annotation is read as if there were no view,
\* unless it can do with less of its context; then the crash can still be told.
ViewComesBack(event, n) ==
  LET ctx == [EmptyContext EXCEPT !.last_view = WriteJson(event)]
      got == ParseCrashContextFromAnnotations(
               [InitialAnnotations EXCEPT !.last_view = LastView(ctx.last_view, n)]).last_view
      least == IF Has(event, "context") THEN PutAt(event, << "context" >>, Object(<< >>)) ELSE event
  IN  IF Bytes(WriteJson(least)) > n THEN got = << >>
      ELSE ParseViewEvent(got).ok <=> ParseViewEvent(ctx.last_view).ok
=============================================================================

---------------------------- MODULE EventContents ----------------------------
(***************************************************************************)
(* What the events say besides what happened: the attributes that were     *)
(* given for everything, a view, a resource, a logger or a single call,    *)
(* and the user, account, system and device of the core's context.  Also   *)
(* what the report of a crash says of the same.                            *)
(*                                                                         *)
(* An object of attributes is a function from its names: the order of its  *)
(* properties is left out.  A value is a record of its type and text.      *)
(***************************************************************************)
EXTENDS Naturals, Sequences, SequencesExt, Functions

CONSTANT SourceTypes       \* the values of RumErrorSourceType, by their names

None == [type |-> "Null"]
Empty == << >>
Get(attributes, name)     == IF name \in DOMAIN attributes THEN attributes[name] ELSE None
Without(attributes, name) == Restrict(attributes, DOMAIN attributes \ {name})

\* AttributeMerge::AssembleObject(): of two values for a name, the later one.
AssembleObject(objects) == FoldLeft(LAMBDA all, o : o @@ all, Empty, objects)

-----------------------------------------------------------------------------
(***************************************************************************)
(* Attributes with a meaning of their own are taken out of the context.    *)
(***************************************************************************)
SourceType  == "_dd.error.source_type"
Fingerprint == "_dd.error.fingerprint"
TraceNames  == << "_dd.trace_id", "_dd.span_id", "_dd.parent_span_id", "_dd.rule_psr" >>

\* Only if one of the calls gave it; then what is in the context.
ExtractErrorSourceType(calls, context) ==
  LET given == \E i \in DOMAIN calls : SourceType \in DOMAIN calls[i]
      value == Get(context, SourceType)
  IN  [value   |-> IF given /\ value.type = "String" /\ value \in SourceTypes THEN value ELSE None,
       context |-> IF given THEN Without(context, SourceType) ELSE context]

ExtractErrorFingerprint(context) ==
  [value   |-> IF Get(context, Fingerprint).type = "String" THEN context[Fingerprint] ELSE None,
   context |-> Without(context, Fingerprint)]

\* extract_resource_trace_attributes(): the rate is a number, the ids are strings.
ExtractTrace(start, stop, context) ==
  LET own == {n \in ToSet(TraceNames) : n \in DOMAIN start \union DOMAIN stop}
      Right(n) == Get(context, n).type = IF n = "_dd.rule_psr" THEN "Double" ELSE "String"
  IN  [dd      |-> [n \in {n \in own : Right(n)} |-> context[n]],
       context |-> Restrict(context, DOMAIN context \ own)]

-----------------------------------------------------------------------------
(***************************************************************************)
(* The context of each kind of event.                                      *)
(***************************************************************************)
\* Long tasks and the steps of operations.
PlainContext(global, view, call) == AssembleObject(<< global, view, call >>)

\* RumActionScope::SendActionEvent(): the attributes of a stop count if it is
\* a stop that ended the action; alone, those of the start are used as they are.
ActionContext(global, view, start, stop, stopped) ==
  LET more == IF stopped THEN stop ELSE Empty
  IN  IF DOMAIN global = {} /\ DOMAIN view = {} /\ DOMAIN more = {} THEN start
      ELSE AssembleObject(<< global, view, start, more >>)

\* RumViewScope::SendErrorEvent().
ErrorContents(global, view, call) ==
  LET typed   == ExtractErrorSourceType(<< call >>, AssembleObject(<< global, view, call >>))
      printed == ExtractErrorFingerprint(typed.context)
  IN  [sourceType |-> typed.value, fingerprint |-> printed.value, context |-> printed.context]

\* RumResourceScope::SendResourceEvent() and SendErrorEvent().
ResourceContents(global, view, start, stop) ==
  ExtractTrace(start, stop, AssembleObject(<< global, view, start, stop >>))
ResourceErrorContents(global, view, start, stop) ==
  LET traced == ResourceContents(global, view, start, stop)
      typed  == ExtractErrorSourceType(<< start, stop >>, traced.context)
  IN  [sourceType |-> typed.value, dd |-> traced.dd, context |-> typed.context]

\* Logger::Log() and ContextThread_GenerateLogEvent(): the log, and what RUM is
\* told of an error.
LogContents(global, logger, call) ==
  LET merged  == AssembleObject(<< global, logger, call >>)
      typed   == ExtractErrorSourceType(<< merged >>, merged)
      printed == ExtractErrorFingerprint(typed.context)
  IN  [sourceType |-> typed.value, fingerprint |-> printed.value, context |-> printed.context,
       message |-> merged]

-----------------------------------------------------------------------------
(***************************************************************************)
(* The attributes of a view, which are frozen when it stops.               *)
(***************************************************************************)
NewView == [active |-> TRUE, started |-> FALSE, attributes |-> Empty, all |-> Empty]

BecomeInactive(view, global, extra) ==
  [view EXCEPT !.active = FALSE, !.all = AssembleObject(<< global, view.attributes, extra >>)]

\* RumViewScope::Handle...(), of a command c that carries the global attributes.
HandleCommand(view, c) ==
  CASE view.active /\ c.kind = "startThis" /\ ~view.started ->
         [view EXCEPT !.started = TRUE, !.attributes = c.attributes]
    [] view.active /\ (c.kind \in {"startOther", "stopSession"} \/ (c.kind = "startThis" /\ view.started)) ->
         BecomeInactive(view, c.global, Empty)
    [] view.active /\ c.kind = "stopThis" -> BecomeInactive(view, c.global, c.attributes)
    [] view.active /\ c.kind = "add"      -> [view EXCEPT !.attributes = c.attributes @@ @]
    [] view.active /\ c.kind = "remove"   ->
         [view EXCEPT !.attributes = Restrict(@, DOMAIN @ \ DOMAIN c.attributes)]
    [] OTHER -> view

\* RumViewScope::SendViewEvent(): the view, and the context of its event in `all'.
SendViewEvent(view, c) ==
  [view EXCEPT !.all = IF view.active THEN AssembleObject(<< c.global, view.attributes >>) ELSE @]

\* All of a life, with an event after every command.
AfterCommands(commands) ==
  FoldLeft(LAMBDA view, c : SendViewEvent(HandleCommand(view, c), c), NewView, commands)

-----------------------------------------------------------------------------
(***************************************************************************)
(* The user and the account of the core's context.                         *)
(***************************************************************************)
NoUser    == [id |-> "", name |-> "", email |-> "", extra |-> Empty]
NoAccount == [id |-> "", name |-> "", extra |-> Empty]

SetUserInfo(id, name, email, extra) == [id |-> id, name |-> name, email |-> email, extra |-> extra]
SetAccountInfo(id, name, extra)     == [id |-> id, name |-> name, extra |-> extra]
AddExtraInfo(info, extra) == [info EXCEPT !.extra = AssembleObject(<< @, extra >>)]

\* RumEventEnrichment::PopulateCommonProperties(), and the same of a log.  A
\* part of an event that is not there is None.
IsEmpty(info) == DOMAIN info.extra = {} /\ \A f \in DOMAIN info \ {"extra"} : info[f] = ""
PopulateUser(ctx) ==
  IF IsEmpty(ctx.user) /\ ~ctx.anonymousIdEnabled THEN None
  ELSE ctx.user @@ [anonymousId |-> IF ctx.anonymousIdEnabled THEN ctx.anonymousId ELSE "zero"]
PopulateAccount(ctx) == IF IsEmpty(ctx.account) THEN None ELSE ctx.account
PopulateOs(ctx)      == ctx.os
PopulateDevice(ctx)  == ctx.device
PopulateCommonProperties(ctx) ==
  [ddtags |-> ctx.ddtags, os |-> PopulateOs(ctx), device |-> PopulateDevice(ctx),
   usr |-> PopulateUser(ctx), account |-> PopulateAccount(ctx)]

-----------------------------------------------------------------------------
(***************************************************************************)
(* The same for the report of a crash: CrashReporting keeps the context,   *)
(* populate_event_from_crash_context() uses it in the next process.        *)
(***************************************************************************)
CrashContextOf(ctx) ==
  [ddtags |-> ctx.ddtags, os |-> ctx.os, device |-> ctx.device, account |-> ctx.account,
   user |-> ctx.user @@ [anonymousId |-> IF ctx.anonymousIdEnabled THEN ctx.anonymousId ELSE "zero"]]

\* Whether none of some fields is set.
Unset(part, fields) ==
  /\ \A f \in fields \ {"extra"} : part[f] \in {"", "zero"}
  /\ "extra" \in fields => DOMAIN part.extra = {}
IfSet(part, fields) == IF Unset(part, fields) THEN None ELSE part

PopulateFromCrashContext(cc) ==
  [ddtags |-> cc.ddtags, os |-> IfSet(cc.os, {"name", "version", "version_major"}),
   device |-> IfSet(cc.device, DOMAIN cc.device), usr |-> IfSet(cc.user, DOMAIN cc.user),
   account |-> IfSet(cc.account, DOMAIN cc.account)]

-----------------------------------------------------------------------------
\* For each name that an event says anything of, the innermost place counts
\* that gives it; what the SDK keeps for itself is never among them, unless it
\* was given for everything and is not this event's.
Innermost(places, name) ==
  LET i == SelectLastInSeq(places, LAMBDA o : name \in DOMAIN o) IN  IF i = 0 THEN None ELSE places[i][name]

ContextIsRight(context, places, hidden) ==
  /\ DOMAIN context = UNION {DOMAIN places[i] : i \in DOMAIN places} \ hidden
  /\ \A n \in DOMAIN context : context[n] = Innermost(places, n)

ContentsAreRight(global, view, start, stop) ==
  LET resource == ResourceContents(global, view, start, stop)
      failed   == ResourceErrorContents(global, view, start, stop)
      error    == ErrorContents(global, view, stop)
      own      == DOMAIN start \union DOMAIN stop
      traces   == ToSet(TraceNames) \intersect own
      all      == << global, view, start, stop >>
  IN  /\ \A stopped \in BOOLEAN :
           ContextIsRight(ActionContext(global, view, start, stop, stopped),
                          << global, view, start, IF stopped THEN stop ELSE Empty >>, {})
      /\ ContextIsRight(resource.context, all, traces)
      /\ \A n \in DOMAIN resource.dd : n \in traces /\ resource.dd[n] = Innermost(all, n)
      /\ failed.dd = resource.dd
      /\ ContextIsRight(failed.context, all, traces \union (own \intersect {SourceType}))
      /\ failed.sourceType # None => failed.sourceType = Innermost(<< start, stop >>, SourceType)
      /\ ContextIsRight(error.context, << global, view, stop >>, {Fingerprint} \union (DOMAIN stop \intersect {SourceType}))
      /\ error.sourceType # None => error.sourceType = Get(stop, SourceType)
      /\ error.fingerprint # None => error.fingerprint = Innermost(<< global, view, stop >>, Fingerprint)

\* The RUM error that is made of a log says of the error what the log says.
LogAndErrorAgree(log, error) ==
  /\ log.sourceType # None => error.sourceType = log.sourceType
  /\ log.fingerprint # None => error.fingerprint = log.fingerprint
  /\ \A n \in DOMAIN log.context : Get(error.context, n) = log.context[n]

\* The events of an active view have the global attributes of their time and
\* the view's own; once it stopped, those of that moment and of its stop.
ViewContextIsRight(commands) ==
  LET Ends(i) == commands[i].kind \in {"stopThis", "startOther", "stopSession"} \/ (i > 1 /\ commands[i].kind = "startThis")
      end     == IF \E i \in DOMAIN commands : Ends(i) THEN CHOOSE i \in DOMAIN commands : Ends(i) /\ \A j \in 1..i - 1 : ~Ends(j)
                 ELSE Len(commands)
      Says(i, n) == i = 1 \/ (commands[i].kind \in {"add", "remove"} /\ n \in DOMAIN commands[i].attributes)
                    \/ (i = end /\ commands[i].kind = "stopThis" /\ n \in DOMAIN commands[i].attributes)
      LastWord(n) == CHOOSE i \in 1..end : Says(i, n) /\ \A j \in i + 1..end : ~Says(j, n)
      Expected(n) == LET c == commands[LastWord(n)]
                     IN  IF c.kind # "remove" /\ n \in DOMAIN c.attributes THEN c.attributes[n]
                         ELSE Get(commands[end].global, n)
      all == AfterCommands(commands).all
  IN  \A n \in DOMAIN all \union UNION {DOMAIN c.attributes \union DOMAIN c.global : c \in ToSet(commands)} :
        Get(all, n) = Expected(n)

\* The report of a crash names the user, account, system and device as the
\* events before it did; a part of which nothing is known may be missing.
CrashSaysTheSame(ctx) ==
  LET before == PopulateCommonProperties(ctx)
      after  == PopulateFromCrashContext(CrashContextOf(ctx))
  IN  \A part \in DOMAIN before :
        \/ after[part] = before[part]
        \/ part # "ddtags" /\ after[part] = None /\ before[part] # None /\ Unset(before[part], DOMAIN before[part])
=============================================================================

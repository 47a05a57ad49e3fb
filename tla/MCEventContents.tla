--------------------------- MODULE MCEventContents ---------------------------
(***************************************************************************)
(* The tags over which TLC checks LoggerTags, entries of at most four      *)
(* characters, two to a logger; and the attributes, the lives of views and *)
(* the contexts over which it checks EventContents.                        *)
(***************************************************************************)
EXTENDS Integers, Sequences, SequencesExt, Functions

Tags == INSTANCE LoggerTags WITH
  Lower <- {"a", "service", "version", "env", "sdk_version", "variant"}, LowerOf <- [A |-> "a"],
  Others <- {"1", ":", "_"}, MaxLength <- 4, MaxTags <- 2,
  Reserved <- {<< "a", "a" >>} \union {<< t >> : t \in {"service", "version", "env", "sdk_version", "variant"}}

Chars   == {"a", "A", "1", ":", ","}
Texts   == SeqOf(Chars, 2)
Keys    == Texts \union [1..5 -> {"a", ":"}] \union {<< t >> : t \in ToSet(Tags!ServiceTags)}
Started == {Tags!NoTags} \union {Tags!AddEntry(Tags!NoTags, e).tags : e \in {<< "a" >>, << "a", ":", "1" >>, << "a", "1" >>}}
Filled  == Started \union {Tags!AddEntry(t, << "a", ":", "a" >>).tags : t \in Started}

Configured == [ToSet(Tags!ServiceTags) -> {<< >>, << "a", ",", "env", ":", "1" >>}]

ASSUME TagsAreKept ==
  \A tags \in Filled, key \in Keys, value \in Texts : Tags!AddedIsRemoved(tags, key, value)

ASSUME TagsAreToldApart ==
  \A of \in Configured, tags \in Filled : Tags!TagsStayApart(of, tags)

-----------------------------------------------------------------------------
Linux == [type |-> "String", text |-> "linux"]
Some  == [type |-> "String", text |-> "some"]
Rate  == [type |-> "Double", text |-> "0.5"]
Says  == INSTANCE EventContents WITH SourceTypes <- {Linux}

Given(names, values) == UNION {[chosen -> values] : chosen \in SUBSET names}
Plain   == Given({"a"}, {Some, Rate})
Erring  == Given({Says!SourceType, Says!Fingerprint}, {Linux, Some, Rate})
Tracing == Given({"_dd.trace_id", "_dd.rule_psr"}, {Some, Rate})

ASSUME AttributesAreTakenOnce ==
  \A given \in {Plain, Tracing, Given({Says!SourceType}, {Linux, Rate}), Given({Says!Fingerprint}, {Some, Rate})} :
    \A global, view, start, stop \in given : Says!ContentsAreRight(global, view, start, stop)

ASSUME LogsAndErrorsAgree ==
  \A rum \in Erring, call, global \in Erring :
    LET log == Says!LogContents(global, Says!Empty, call)
    IN  Says!LogAndErrorAgree(log, Says!ErrorContents(rum, Says!Empty, log.message))

Own      == Given({"a", "b"}, {Some}) \union {[a |-> Linux]}
Commands == [kind : {"startThis", "startOther", "stopThis", "stopSession", "add", "remove", "update"},
             global : Given({"a", "b"}, {Rate}), attributes : Own]
Opening  == {c \in Commands : c.kind = "startThis" /\ DOMAIN c.global = {}}

ASSUME ViewsFreeze ==
  \A first \in Opening, second, third \in Commands :
    /\ Says!ViewContextIsRight(<< first, second, third >>)
    /\ third.kind \in {"update", "add"} => Says!ViewContextIsRight(<< first, second, third, first >>)

Users    == {Says!NoUser, Says!SetUserInfo("u", "", "", Says!Empty), Says!AddExtraInfo(Says!NoUser, [a |-> Some])}
Accounts == {Says!NoAccount, Says!SetAccountInfo("c", "n", [a |-> Some]), Says!AddExtraInfo(Says!NoAccount, [a |-> Rate])}
Ctx == [user : Users, account : Accounts, anonymousIdEnabled : BOOLEAN, anonymousId : {"zero", "uuid"}, ddtags : {"t"},
        os : [name : {"linux"}, version : {"", "6"}, build : {"", "b"}, version_major : {"", "6"}],
        device : [type : {"", "desktop"}, name : {"", "host"}]]

ASSUME CrashesSayTheSame == \A ctx \in Ctx : Says!CrashSaysTheSame(ctx)
=============================================================================

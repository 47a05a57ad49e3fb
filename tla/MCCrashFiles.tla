---------------------------- MODULE MCCrashFiles ----------------------------
(* Small instances of CrashFiles for TLC, and of what the two files of a crash hold. *)
EXTENDS CrashFiles, Sequences, FiniteSets

UpTo(n, S) == UNION {[1 .. m -> S] : m \in 0 .. n}

-----------------------------------------------------------------------------
(***************************************************************************)
(* CrashContexts: one field after the other at its limit and beyond it,    *)
(* attributes of every kind, nested to one level below the limit and more. *)
(***************************************************************************)
Context == INSTANCE CrashContexts
  WITH MaxDepth <- 2, MaxString <- 1, MaxItems <- 1, MaxShort <- 1, MaxViewEvent <- 2

TextOf(n) == IF n = 0 THEN Context!NoText ELSE [length |-> n, text |-> "t"]
Leaves    == {[type |-> "Null"], [type |-> "Bool", value |-> 1]}
               \union {[type |-> "String", value |-> TextOf(n)] : n \in 0 .. 2}
Nested(S) ==
  S \union {[type |-> "Array", items |-> i] : i \in UpTo(1, S)}
    \union {[type |-> "Object", items |-> i] : i \in UpTo(1, [name : {TextOf(1), TextOf(2)}, value : S])}
Pair  == [type |-> "Array", items |-> << [type |-> "Null"], [type |-> "Null"] >>]
Attributes == Nested(Nested(Nested(Leaves \union {Pair})))

Names == {Context!WriterFields[i].name : i \in DOMAIN Context!WriterFields}
KindOf(name) == (CHOOSE f \in {Context!WriterFields[i] : i \in DOMAIN Context!WriterFields} :
                   f.name = name).kind

\* CrashContext{}.
Default == [name \in Names |->
              CASE KindOf(name) \in {"short", "view event"} -> Context!NoText
                [] KindOf(name) = "attribute"               -> [type |-> "Null"]
                [] OTHER                                    -> 0]
Values(name) ==
  CASE KindOf(name) \in {"short", "view event"} -> {TextOf(n) : n \in 0 .. 3}
    [] KindOf(name) = "attribute"               -> Nested(Leaves)
    [] OTHER                                    -> {0, 1, 2}

Contexts ==
  UNION {{[Default EXCEPT ![name] = v] : v \in Values(name)} : name \in Names}
    \union {[Default EXCEPT !.user_extra = a] : a \in Attributes}

ASSUME ContextsAreReadAsWritten == \A c \in Contexts : Context!ReadAsWritten(c, Default)
ASSUME TornContextsAreRefused ==
  \A c \in {d \in Contexts : d.user_extra \in Nested(Leaves)} : Context!TornIsRefused(c, Default)
ASSUME OldContextsAreRead == \A c \in Contexts : Context!OldIsRead(c, Default)

-----------------------------------------------------------------------------
(***************************************************************************)
(* CrashReports: stacks of two and of four frames that may point anywhere; *)
(* up to three modules, that may overlap, and two frames; three mappings.  *)
(***************************************************************************)
Data == INSTANCE CrashReports
  WITH WordSize <- 2, FirstPage <- 2, MaxWalk <- 3, MaxCachedModules <- 2,
       MaxModules <- 2, MaxStackFrames <- 2, MaxPath <- 2, MaxBuildId <- 1

Word == [caller : {0, 3, 2, 4, 6, 8}, return : {0, 7}]
ASSUME WalksEnd ==
  \A D \in {{2, 4}, {2, 4, 6, 8}} : \A memory \in [D -> Word], fp \in 0 .. 4 :
    Data!WalkEnds(memory, 7, fp)

Module(path, id) == [start : 0 .. 1, end : 1 .. 3, path : path, id : id]
AnyModule == Module({[length |-> 1, text |-> << "a" >>]}, {Data!NoText})
OddModule == Module({Data!NoText, [length |-> 3, text |-> << "a" >>]},
                    {Data!NoText, [length |-> 2, text |-> "id"]})

ASSUME ReportsAreReadAsWritten ==
  /\ \A modules \in UpTo(2, AnyModule), frames \in UpTo(3, {0, 2}) :
       Data!ReadAsWritten(11, modules, frames)
  /\ \A m \in OddModule : Data!ReadAsWritten(11, << m >>, << 1 >>)
  /\ \A m \in AnyModule : Data!ReadAsWritten(11, << m, m, m >>, << 1 >>)

ASSUME ReportsSymbolicate ==
  \A modules \in UpTo(3, AnyModule), frames \in UpTo(2, 0 .. 3) :
    Data!Symbolicates([crash |-> 11, modules |-> modules, frames |-> frames])

\* No pathname has a blank in it.
Line(i) == [start : {i}, end : {i + 1}, executable : BOOLEAN,
            path : {<< >>, << "[" >>, << "a" >>, << "b" >>, << "c" >>}]
Ids     == [{<< "a" >>, << "b" >>, << "c" >>} ->
              {Data!NoText, [length |-> 1, text |-> "1"], [length |-> 1, text |-> "2"]}]
ASSUME OwnBuildIds ==
  \A l1 \in Line(1), l2 \in Line(2), l3 \in Line(3) : \A ids \in Ids :
    LET idOf == [p \in DOMAIN ids \union {<< "[" >>} |-> IF p \in DOMAIN ids THEN ids[p] ELSE Data!NoText]
    IN  Data!OwnBuildId(<< l1, l2, l3 >>, idOf)
-----------------------------------------------------------------------------
\* Two states that differ in files a reader will pass over behave alike.
Alike == << handler, [p \in Proc |-> << reader[p].at, reader[p].file, Left(p) >>], files, books, used >>
=============================================================================

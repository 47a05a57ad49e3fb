--------------------------- MODULE CrashReports -----------------------------
(***************************************************************************)
(* What a crash report says, from the memory of the process that crashed   *)
(* to the report that the next one publishes:                              *)
(*                                                                         *)
(*   buildid_cache.cpp      the build ids, read when the handler is set up *)
(*   crash_handler_inprocess_posix.cpp   the stack, and what is mapped     *)
(*   crash_report_write.cpp, crash_report_read.cpp   the file              *)
(*   crash_processing.cpp   BuildCrashReport()                             *)
(*                                                                         *)
(* CrashSignals has who writes the file, CrashFiles who reads it.  A file  *)
(* is a sequence of cells: numbers of eight bytes, and texts; it may end   *)
(* with a part of one.  A text is a record with its length.                *)
(***************************************************************************)
EXTENDS Integers, Sequences, SequencesExt, FiniteSetsExt

CONSTANTS WordSize, FirstPage,          \* sizeof(void* ), 0x1000
          MaxWalk,                      \* 128 frames
          MaxCachedModules,             \* kMaxCachedModules
          MaxModules, MaxStackFrames,   \* 4096, 512: the reader's bounds
          MaxPath, MaxBuildId           \* 4096, 256

NoText   == [length |-> 0]              \* no text
PartCell == [is |-> "part of a cell"]

-----------------------------------------------------------------------------
(***************************************************************************)
(* write_stack_trace(): memory maps the addresses that can be read to the  *)
(* pair of words that is there.  Reading any other faults, in the handler. *)
(***************************************************************************)
Walks(fp) == fp # 0 /\ fp % WordSize = 0 /\ fp >= FirstPage

RECURSIVE Walk(_, _, _)
Walk(memory, fp, steps) ==
  IF steps = MaxWalk \/ ~Walks(fp) THEN [frames |-> << >>, faults |-> FALSE]
  ELSE IF fp \notin DOMAIN memory THEN [frames |-> << >>, faults |-> TRUE]
  ELSE LET word == memory[fp]
           rest == IF word.caller > fp THEN Walk(memory, word.caller, steps + 1)
                   ELSE [frames |-> << >>, faults |-> FALSE]
       IN  IF word.return = 0 THEN [frames |-> << >>, faults |-> FALSE]
           ELSE [rest EXCEPT !.frames = << word.return >> \o @]

StackTrace(memory, ip, fp) ==
  LET walk == Walk(memory, fp, 0) IN [walk EXCEPT !.frames = << ip >> \o @]

-----------------------------------------------------------------------------
(***************************************************************************)
(* /proc/self/maps is a sequence of mappings: where, whether it may be     *)
(* executed, and what file it is of.  A pathname is given by its words,    *)
(* and "[" stands for the first letter of those that are no file.          *)
(***************************************************************************)
IsCode(line) == line.executable /\ line.path # << >> /\ line.path[1] # "["

\* PopulateBuildIdCache(): the first executable mapping of each file that has
\* an id; the pathname is taken up to its first blank.  idOf is what
\* extract_elf_build_id() finds in a file: NoText, if it finds nothing.
PopulateBuildIdCache(maps, idOf) ==
  LET Cache(cache, line) ==
        IF /\ IsCode(line) /\ Len(cache) < MaxCachedModules
           /\ \A i \in DOMAIN cache : cache[i].file # line.path[1]
           /\ idOf[<< line.path[1] >>] # NoText
        THEN Append(cache, [base |-> line.start, file |-> line.path[1],
                            id |-> idOf[<< line.path[1] >>]])
        ELSE cache
  IN  FoldLeft(Cache, << >>, maps)

\* FindCachedBuildId().
FindCachedBuildId(cache, address) ==
  LET hits == {i \in DOMAIN cache : cache[i].base = address}
  IN  IF hits = {} THEN NoText ELSE cache[Min(hits)].id

\* write_modules().
Modules(maps, cache) ==
  LET code == SelectSeq(maps, IsCode)
  IN  [i \in DOMAIN code |->
         [start |-> code[i].start, end |-> code[i].end,
          path  |-> [length |-> Len(code[i].path), text |-> code[i].path],
          id    |-> FindCachedBuildId(cache, code[i].start)]]

(***************************************************************************)
(* extract_elf_build_id_from_headers(): the program headers of a file in   *)
(* their order, and of each note segment its notes.  What cannot be read   *)
(* is passed over; a note that does not fit ends its segment.              *)
(***************************************************************************)
IsBuildId(note) == note.type = "NT_GNU_BUILD_ID" /\ note.name = "GNU"

Notes(segment) ==
  IF segment.type # "PT_NOTE" \/ ~segment.readable THEN << >>
  ELSE LET bad == {i \in DOMAIN segment.notes : ~segment.notes[i].fits}
       IN  IF bad = {} THEN segment.notes ELSE SubSeq(segment.notes, 1, Min(bad) - 1)

ExtractElfBuildId(elf) ==
  LET ids == SelectSeq(FlattenSeq([i \in DOMAIN elf.segments |-> Notes(elf.segments[i])]),
                       IsBuildId)
  IN  IF ~elf.valid \/ ids = << >> THEN NoText ELSE Head(ids).desc

-----------------------------------------------------------------------------
(***************************************************************************)
(* The file.                                                               *)
(***************************************************************************)
Number(n)  == [is |-> "number", n |-> n]
Magic(m)   == [is |-> "number", magic |-> m]
String(s)  == << Number(s.length) >>
                \o (IF s.length > 0 THEN << [is |-> "text", text |-> s] >> ELSE << >>)

WriteModule(m) ==
  << Magic("module"), Number(m.start), Number(m.end) >> \o String(m.path) \o String(m.id)

WriteReport(crash, modules, frames) ==
  << Magic("header"), Number(1), Number(crash) >>
    \o FlattenSeq([i \in DOMAIN modules |-> WriteModule(modules[i])])
    \o FlattenSeq([i \in DOMAIN frames |-> << Magic("frame"), Number(frames[i]) >>])
    \o << Magic("footer") >>

Malformed == [status |-> "Malformed"]

\* ReadUInt64() and ReadString(), at a place in the file.
Whole(file, k)       == k <= Len(file) /\ file[k].is # PartCell.is
IsNumber(file, k)    == Whole(file, k) /\ file[k].is = "number" /\ "n" \in DOMAIN file[k]
Is(file, k, m)       == Whole(file, k) /\ file[k] = Magic(m)
TextAt(file, k, max) ==
  IF ~IsNumber(file, k) \/ file[k].n > max THEN [ok |-> FALSE]
  ELSE IF file[k].n = 0 THEN [ok |-> TRUE, text |-> NoText, next |-> k + 1]
  ELSE IF ~Whole(file, k + 1) THEN [ok |-> FALSE]
  ELSE [ok |-> TRUE, text |-> file[k + 1].text, next |-> k + 2]

\* The loop over the tokens, with what has been parsed before place k.
RECURSIVE ReadTokens(_, _, _)
ReadTokens(file, k, data) ==
  CASE Is(file, k, "footer") -> [status |-> "OK", data |-> data]
    [] Is(file, k, "frame") ->
         IF Len(data.frames) = MaxStackFrames \/ ~IsNumber(file, k + 1) THEN Malformed
         ELSE ReadTokens(file, k + 2, [data EXCEPT !.frames = Append(@, file[k + 1].n)])
    [] Is(file, k, "module") ->
         IF \/ Len(data.modules) = MaxModules
            \/ ~IsNumber(file, k + 1) \/ ~IsNumber(file, k + 2)
         THEN Malformed
         ELSE LET path == TextAt(file, k + 3, MaxPath)
                  id   == IF path.ok THEN TextAt(file, path.next, MaxBuildId) ELSE path
              IN  IF ~id.ok THEN Malformed
                  ELSE ReadTokens(file, id.next,
                         [data EXCEPT !.modules = Append(@,
                            [start |-> file[k + 1].n, end |-> file[k + 2].n,
                             path |-> path.text, id |-> id.text])])
    [] OTHER -> Malformed

\* A file of no bytes at all is that of a process that did not crash.
ReadCrashReport(file) ==
  IF file = << >> THEN [status |-> "Empty"]
  ELSE IF Is(file, 1, "header") /\ IsNumber(file, 2) /\ file[2].n = 1 /\ IsNumber(file, 3)
       THEN ReadTokens(file, 4, [crash |-> file[3].n, modules |-> << >>, frames |-> << >>])
       ELSE Malformed

-----------------------------------------------------------------------------
(***************************************************************************)
(* BuildCrashReport().  Indices of modules count from 1; 0 stands for -1.  *)
(***************************************************************************)
\* The module that holds the address and starts last, the first of several.
Best(modules, address) ==
  LET holds == {i \in DOMAIN modules :
                  modules[i].start <= address /\ address < modules[i].end}
      last  == {i \in holds : \A j \in holds : modules[j].start <= modules[i].start}
  IN  IF holds = {} THEN 0 ELSE Min(last)

\* Modules are numbered again, by the first frame that is in them.
BuildCrashReport(data) ==
  LET raw   == [k \in DOMAIN data.frames |-> Best(data.modules, data.frames[k])]
      first == SelectSeq([k \in DOMAIN raw |-> k],
                         LAMBDA k : raw[k] # 0 /\ \A j \in 1 .. k - 1 : raw[j] # raw[k])
      remap == [i \in DOMAIN data.modules |->
                  Max({0} \union {n \in DOMAIN first : raw[first[n]] = i})]
  IN  [crash   |-> data.crash,
       modules |-> [n \in DOMAIN first |-> data.modules[raw[first[n]]]],
       stack   |-> [k \in DOMAIN raw |->
                      [address |-> data.frames[k],
                       module  |-> IF raw[k] = 0 THEN 0 ELSE remap[raw[k]],
                       offset  |-> IF raw[k] = 0 THEN 0
                                   ELSE data.frames[k] - data.modules[raw[k]].start]]]

-----------------------------------------------------------------------------
(***************************************************************************)
(* What it should do.                                                      *)
(***************************************************************************)
\* crash_handler_inprocess_posix.cpp:117-207: whatever the stack holds, the walk
\* takes each of its frames once at most, and no more than its bound.
WalkEnds(memory, ip, fp) ==
  LET frames == StackTrace(memory, ip, fp).frames
  IN  Len(frames) <= 1 + Min({MaxWalk, Cardinality(DOMAIN memory)})

\* crash_report_write.cpp:47-117 and crash_report_read.cpp:17-127: a report is read
\* as it was written if it is within the reader's bounds, and else not at all; one
\* that stops anywhere, even inside a value, is refused, and an empty one is none.
ReadAsWritten(crash, modules, frames) ==
  LET file  == WriteReport(crash, modules, frames)
      inBounds == /\ Len(modules) <= MaxModules /\ Len(frames) <= MaxStackFrames
                  /\ \A i \in DOMAIN modules : /\ modules[i].path.length <= MaxPath
                                               /\ modules[i].id.length <= MaxBuildId
  IN  /\ ReadCrashReport(file) =
           IF inBounds
           THEN [status |-> "OK", data |-> [crash |-> crash, modules |-> modules, frames |-> frames]]
           ELSE Malformed
      /\ \A k \in 0 .. Len(file) - 1 :
           /\ ReadCrashReport(SubSeq(file, 1, k)).status = IF k = 0 THEN "Empty" ELSE "Malformed"
           /\ ReadCrashReport(Append(SubSeq(file, 1, k), PartCell)) = Malformed

\* crash_processing.cpp:263-394: every frame that lies in a module is placed in it,
\* in the one that starts last if modules overlap; and the report lists the modules
\* it refers to, each once, no others.
Symbolicates(data) ==
  LET crash == BuildCrashReport(data)
      Holds(m, a) == m.start <= a /\ a < m.end
  IN  /\ \A k \in DOMAIN data.frames :
           LET f == crash.stack[k]
           IN  IF f.module = 0
               THEN \A i \in DOMAIN data.modules : ~Holds(data.modules[i], f.address)
               ELSE /\ f.offset = f.address - crash.modules[f.module].start
                    /\ Holds(crash.modules[f.module], f.address)
                    /\ \A i \in DOMAIN data.modules :
                         Holds(data.modules[i], f.address)
                           => data.modules[i].start <= crash.modules[f.module].start
      /\ {crash.stack[k].module : k \in DOMAIN crash.stack} \ {0} = DOMAIN crash.modules

\* buildid_cache.cpp:695-804: a module that was mapped when the handler was set up
\* has the build id of its own file, or none; it has one if it is the first of its
\* file and the cache was large enough.
OwnBuildId(maps, idOf) ==
  LET cache == PopulateBuildIdCache(maps, idOf)
      code  == SelectSeq(maps, IsCode)
      modules == Modules(maps, cache)
      files == {code[i].path : i \in DOMAIN code}
  IN  \A i \in DOMAIN modules :
        /\ modules[i].id \in {NoText, idOf[code[i].path]}
        /\ /\ \A j \in 1 .. i - 1 : code[j].path # code[i].path
           /\ Cardinality(files) <= MaxCachedModules
           => modules[i].id = idOf[code[i].path]
=============================================================================

--------------------------- MODULE MCBatchStorage ---------------------------
(* Small instances of BatchStorage for TLC, and of the upload of one of its files. *)
EXTENDS BatchStorage, Sequences, SequencesExt

CONSTANT big              \* an event longer than the others

\* A record that is cut short has lost one byte at least, and left one at least.
MCBytes == [S \in SUBSET Event |-> 2 * Cardinality(S) + IF big \in S THEN 1 ELSE 0]

-----------------------------------------------------------------------------
(***************************************************************************)
(* BatchBody, on every file of at most three blocks of one or two bytes,   *)
(* whole and cut at every place, for buffers of one to three bytes.        *)
(***************************************************************************)
Upload == INSTANCE BatchBody

Bytes2      == << << "a", "b" >>, << "CR", "LF" >>, << "c", "d" >> >>
Data(i)     == { << Bytes2[i][1] >>, Bytes2[i] }
Block(i)    == [type : Upload!BlockTypes, data : Data(i)]
BlockLists  == {<< >>} \union {<< a >> : a \in Block(1)}
                 \union {<< a, b >> : a \in Block(1), b \in Block(2)}
                 \union {<< a, b, c >> : a \in Block(1), b \in Block(2), c \in Block(3)}
BufferSizes == {<< n, m >> : n, m \in 1 .. 3}

ASSUME BodiesOfWholeFiles ==
  \A blocks \in BlockLists, sizes \in BufferSizes : Upload!SentWhole(blocks, sizes)

ASSUME BodiesOfCutFiles ==
  \A blocks \in BlockLists, sizes \in BufferSizes :
    \A k \in 0 .. Len(Upload!File(blocks)), inHeader \in BOOLEAN :
      Upload!GivenUpWhenCut(blocks, k, inHeader, sizes)

-----------------------------------------------------------------------------
(***************************************************************************)
(* HttpRequests: values of at most three characters, a line break in any   *)
(* place that the builder does not rule out; the same files, in chunks of  *)
(* one, two, 17 or 32 bytes, over a connection that takes all of a write,  *)
(* some of it or none, or fails; and the sizes the code has.               *)
(***************************************************************************)
Http == INSTANCE HttpRequests

Texts(chars) == UNION {[1 .. n -> chars] : n \in 0 .. 3}
Names   == Texts({"a", " ", Http!CR})
Values  == {s \in Texts({"a", Http!CR, Http!LF}) : Http!LineEnds(s) = {}}
Origins == {Http!GetIntakeOrigin("host", s) : s \in Texts({"http:", "a", "/"})}

ASSUME AgentsHaveFourWords ==
  \A x \in Names, y \in {<< >>, << "b" >>, << " " >>} :
    /\ Http!FourWords(Http!GetUserAgent(x, y, y, x, x, y, x))
    /\ Http!FourWords(Http!GetUserAgent(y, x, x, y, y, x, y))

Context(origin, x, y) ==
  [user_agent |-> x, client_token |-> y, source |-> x, sdk_version |-> y, intake_origin |-> origin]

ASSUME RequestsReadBack ==
  /\ \A origin \in Origins : Http!Last(origin) # "/"
  /\ \A x \in Values, y \in {<< >>, << "b" >>, << Http!CR >>, << Http!LF >>} :
       LET ctx  == Context(<< "host" >>, x, y)
           used == Http!PrepareReport(Http!NewBuilder, Context(<< "host" >>, y, x), << "/logs" >>, << "1" >>)
       IN  \A b \in {Http!NewBuilder, used} : Http!ReadsBack(b, ctx, << "/rum" >>, << "2" >>)

\* An event for a chunk whose size has two digits.
Long    == [type |-> "Event", data |-> [i \in 1 .. 20 |-> "a"]]
Lost    == Http!Breaks("WINHTTP_TIMEOUT")
NoRoom  == Http!Breaks("NOT_ENOUGH_MEMORY")
Takes(s) == [i \in DOMAIN s |-> Http!Takes(s[i])]
Accepts == {Takes(s) : s \in {<< >>, << 1 >>, << 0 >>, << 3, 1 >>, << 2, 0 >>, << 7, 1, 0 >>}}
             \union {Takes(s) \o << e >> : s \in {<< >>, << 2 >>, << 7, 1 >>}, e \in {Lost, NoRoom}}

ASSUME ChunksReachTheServer ==
  \A blocks \in BlockLists \union {<< Long >>}, capacity \in {1, 2, 17, 32}, accepts \in Accepts :
    /\ Http!SentLikeCurl(Http!File(blocks), capacity, accepts)
    /\ Http!GivenUpForGood(Http!File(blocks), capacity, accepts)

ASSUME CutFilesDoNot ==
  \A blocks \in BlockLists, inHeader \in BOOLEAN : \A k \in 0 .. Len(Http!File(blocks)) :
    Http!SentLikeCurl(Http!CutAt(Http!File(blocks), k, inHeader), 2, << >>)

ASSUME ChunkHeadersFit == Http!HeadersFit(16 * 1024, 10)
=============================================================================

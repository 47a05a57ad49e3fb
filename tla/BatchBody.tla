----------------------------- MODULE BatchBody ------------------------------
(***************************************************************************)
(* How a batch file becomes the body of an upload request:                 *)
(*                                                                         *)
(*   tlv.cpp               the blocks of the file, whole or cut short      *)
(*   feature_read.cpp      BatchReader, one block after the other          *)
(*   body_writer_tlv.cpp   TLVBatchWriter, which the HTTP client calls     *)
(*                         with buffers of any size until it returns 0     *)
(*   client_curl.cpp, upload_thread.cpp   what becomes of the file then    *)
(*                                                                         *)
(* A file is a sequence of cells: a block's header (six bytes, which are   *)
(* read together), the rest of a header that was cut short, or a byte.     *)
(***************************************************************************)
EXTENDS Naturals, Sequences, SequencesExt, FiniteSetsExt

\* EncodeTLVBlock().
Encode(type, data) ==
  << [is |-> "header", type |-> type, block_size |-> Len(data)] >>
    \o [i \in DOMAIN data |-> [is |-> "byte", byte |-> data[i]]]

PartOfHeader == [is |-> "part of a header"]
BlockTypes   == {"Event", "Metadata"}

-----------------------------------------------------------------------------
(***************************************************************************)
(* BatchReader::ReadNext(), on what is left of the file.                   *)
(***************************************************************************)
Ended(status) == [status |-> status, data |-> << >>, left |-> << >>]

\* TLVBlockHeader::Decode() takes no empty block and no unknown type.
Decodes(cell) == cell.is = "header" /\ cell.block_size > 0 /\ cell.type \in BlockTypes

ReadNext(left) ==
  IF left = << >> THEN Ended("EndOfFile")
  ELSE IF ~Decodes(Head(left)) \/ Head(left).block_size > Len(left) - 1 THEN Ended("Error")
  ELSE [status |-> "Success", type |-> Head(left).type,
        data   |-> [i \in 1 .. Head(left).block_size |-> left[i + 1].byte],
        left   |-> SubSeq(left, Head(left).block_size + 2, Len(left))]

\* The loops of the writer skip whatever is not an event.
RECURSIVE NextEvent(_)
NextEvent(left) ==
  LET r == ReadNext(left)
  IN  IF r.status = "Success" /\ r.type # "Event" THEN NextEvent(r.left) ELSE r

-----------------------------------------------------------------------------
(***************************************************************************)
(* TLVBatchWriter.  A call is a writer, the room left in its buffer, what  *)
(* it has written and whether it returns HTTP_WRITE_RESULT_ABORT.          *)
(***************************************************************************)
Prefix    == << "[" >>
Delimiter == << "," >>
Suffix    == << "]" >>

NewWriter(file) ==
  [mode |-> "Prefix", s |-> Prefix, offset |-> 0, next_event |-> << >>, left |-> file]

Done(c)           == c.w.offset >= Len(c.w.s)
Enter(c, mode, s) == [c EXCEPT !.w.mode = mode, !.w.s = s, !.w.offset = 0]
Read(c, r)        == [c EXCEPT !.w.left = r.left]
Abort(c)          == [c EXCEPT !.aborted = TRUE]

\* State::Write().
Write(c) ==
  LET n == Min({c.room, Len(c.w.s) - c.w.offset})
  IN  [c EXCEPT !.out = @ \o SubSeq(c.w.s, c.w.offset + 1, c.w.offset + n),
                !.room = @ - n, !.w.offset = @ + n]

\* The prefix is out: there must be a first event.
First(c, r) ==
  IF r.status = "Success" THEN Enter(Read(c, r), "Event", r.data) ELSE Abort(c)

\* An event is out: the suffix follows the last one.
AfterEvent(c, r) ==
  CASE r.status = "Error"     -> Abort(c)
    [] r.status = "EndOfFile" -> Enter(Read(c, r), "Suffix", Suffix)
    [] r.status = "Success"   -> [Enter(Read(c, r), "Delimiter", Delimiter)
                                    EXCEPT !.w.next_event = r.data]

\* One turn of operator(): c has written all it could of c.w.s.
Turn(c) ==
  CASE ~Done(c)                -> c
    [] c.w.mode = "Prefix"     -> First(c, NextEvent(c.w.left))
    [] c.w.mode = "Event"      -> AfterEvent(c, NextEvent(c.w.left))
    [] c.w.mode = "Delimiter"  -> Enter(c, "Event", c.w.next_event)
    [] c.w.mode = "Suffix"     -> c

\* It returns when the buffer is full, and after the suffix in any case.
RECURSIVE Fill(_)
Fill(c) ==
  LET turned == Turn(Write(c))
  IN  IF turned.aborted \/ turned.room = 0 \/ c.w.mode = "Suffix" THEN turned ELSE Fill(turned)

\* operator()(buffer, num_bytes).
Call(w, num_bytes) ==
  LET c == [w |-> w, room |-> num_bytes, out |-> << >>, aborted |-> FALSE]
  IN  IF num_bytes = 0 THEN c ELSE Fill(c)

\* The HTTP client: buffers of the given sizes, in turn, until a call returns 0
\* or aborts.
RECURSIVE Transfer(_, _, _)
Transfer(w, sizes, sent) ==
  LET c == Call(w, Head(sizes))
  IN  IF c.aborted \/ c.out = << >> THEN [sent |-> sent, aborted |-> c.aborted]
      ELSE Transfer(c.w, Append(Tail(sizes), Head(sizes)), sent \o c.out)

Body(file, sizes) == Transfer(NewWriter(file), sizes, << >>)

-----------------------------------------------------------------------------
(***************************************************************************)
(* CurlHttpClient::Post() and _interpret_http_result(): what becomes of    *)
(* the file.  An outcome is the status code of the server, or 0 for no     *)
(* response and a reason that is transient.                                *)
(***************************************************************************)
HttpResult(body, outcome) ==
  CASE body.aborted -> [type |-> "GotNoResponse_NonRetryable"]
    [] ~body.aborted /\ outcome = 0 -> [type |-> "GotNoResponse_Retryable"]
    [] OTHER -> [type |-> "GotResponse", status_code |-> outcome]

Retryable == {408, 429, 500, 502, 503, 504, 507}

Verdict(res) ==
  CASE res.type = "GotNoResponse_NonRetryable" -> "bad_batch"
    [] res.type = "GotNoResponse_Retryable"    -> "retryable_failure"
    [] res.type = "GotResponse" ->
         CASE res.status_code \in 200 .. 299    -> "success"
           [] res.status_code \in Retryable     -> "retryable_failure"
           [] OTHER                             -> "bad_batch"

-----------------------------------------------------------------------------
(***************************************************************************)
(* What it should do.                                                      *)
(***************************************************************************)
\* A file is made of whole blocks and may have been cut anywhere.
File(blocks) == FlattenSeq([i \in DOMAIN blocks |-> Encode(blocks[i].type, blocks[i].data)])
CutAt(file, k, inHeader) ==
  SubSeq(file, 1, k) \o IF inHeader /\ k < Len(file) /\ file[k + 1].is = "header"
                        THEN << PartOfHeader >> ELSE << >>

Joined(events) ==
  FlattenSeq([i \in DOMAIN events |-> IF i = 1 THEN events[i] ELSE Delimiter \o events[i]])

\* body_writer_tlv.cpp:22-163 and tlv.cpp:99-151: however the body is divided
\* over buffers, a file of whole blocks with an event among them is sent as one
\* array of its events, in order and nothing else, and stays until the server has
\* answered; any other file is given up and deleted, and what was sent of it
\* before has no end that a server could take for one.
SentWhole(blocks, sizes) ==
  LET events == [i \in DOMAIN SelectSeq(blocks, LAMBDA b : b.type = "Event") |->
                   SelectSeq(blocks, LAMBDA b : b.type = "Event")[i].data]
      body   == Body(File(blocks), sizes)
  IN  IF events = << >> THEN body.aborted
      ELSE /\ body.sent = Prefix \o Joined(events) \o Suffix
           /\ Verdict(HttpResult(body, 0)) = "retryable_failure"

\* Whole blocks are left when the file is cut between two of them.
GivenUpWhenCut(blocks, k, inHeader, sizes) ==
  LET file  == File(blocks)
      whole == CHOOSE n \in 0 .. Len(blocks) :
                 /\ Len(File(SubSeq(blocks, 1, n))) <= k
                 /\ n < Len(blocks) => Len(File(SubSeq(blocks, 1, n + 1))) > k
      clean == Len(File(SubSeq(blocks, 1, whole))) = k /\ ~(inHeader /\ k < Len(file))
      kept  == SelectSeq(SubSeq(blocks, 1, whole), LAMBDA b : b.type = "Event")
      body  == Body(CutAt(file, k, inHeader), sizes)
  IN  ~clean => /\ \A o \in {0, 200} : Verdict(HttpResult(body, o)) = "bad_batch"
                /\ IsPrefix(body.sent, Prefix \o Joined([i \in DOMAIN kept |-> kept[i].data]))
=============================================================================

---------------------------- MODULE HttpRequests ----------------------------
(***************************************************************************)
(* The request that carries a batch:                                       *)
(*                                                                         *)
(*   upload_util.cpp       the user agent and the origin, from what the    *)
(*                         application and the system say of themselves    *)
(*   request_builder.cpp   the URL and the headers, as text                *)
(*   client_curl.cpp       the headers taken apart again                   *)
(*   client_winhttp.cpp    the calls of WinHttpClient::Post(), the chunks  *)
(*                         it frames itself, and the result                *)
(*                                                                         *)
(* A text is a sequence of characters; a constant of the code (the name of *)
(* a header, a path) is one character.                                     *)
(***************************************************************************)
EXTENDS BatchBody

CR   == "CR"
LF   == "LF"
CRLF == << CR, LF >>

-----------------------------------------------------------------------------
(* The user agent, and the origin of the intake. *)

IsSpace(c) == c \in {" ", CR, LF}

\* _replace_whitespace_with_hyphen().
Hyphenated(s) ==
  FlattenSeq([i \in DOMAIN s |-> CASE ~IsSpace(s[i])                    -> << s[i] >>
                                   [] IsSpace(s[i]) /\ i > 1 /\ IsSpace(s[i - 1]) -> << >>
                                   [] OTHER                              -> << "-" >>])

Versioned(name, version) ==
  Hyphenated(name) \o IF version = << >> THEN << >> ELSE << "/" >> \o Hyphenated(version)

GetUserAgent(service, application_version, reporter, reporter_version, device, os, os_version) ==
  Versioned(service, application_version) \o << " " >>
    \o Versioned(reporter, reporter_version) \o << " ", "(" >>
    \o Hyphenated(device) \o << ";", " " >> \o Versioned(os, os_version) \o << ")" >>

\* _is_valid_custom_endpoint_url().
CustomEndpoint(s) == s # << >> /\ Head(s) \in {"http:", "https:"} /\ Last(s) # "/"

GetIntakeOrigin(host, custom_endpoint_url) ==
  IF CustomEndpoint(custom_endpoint_url) THEN custom_endpoint_url
  ELSE << "https:", "/", "/", host >>

-----------------------------------------------------------------------------
(* HttpRequestBuilder, for the context ctx.  *)

NewBuilder == [url |-> << >>, headers |-> << >>, delim |-> "?"]

AddHeader(b, name, value) ==
  [b EXCEPT !.headers = @ \o << name, ":", " " >> \o value \o CRLF]

AddQueryParam(b, name, value) ==
  [b EXCEPT !.url = @ \o << b.delim, name, "=" >> \o value, !.delim = "&"]

\* The headers of every request, in order.
Headers(ctx, content_type, request_id) ==
  << << "Content-Type", content_type >>, << "User-Agent", ctx.user_agent >>,
     << "DD-API-KEY", ctx.client_token >>, << "DD-EVP-ORIGIN", ctx.source >>,
     << "DD-EVP-ORIGIN-VERSION", ctx.sdk_version >>, << "DD-REQUEST-ID", request_id >> >>

\* Whatever the builder was last used for is gone.
Reset(b, ctx, path, content_type, request_id) ==
  FoldLeft(LAMBDA c, h : AddHeader(c, h[1], h[2]),
           [b EXCEPT !.url = ctx.intake_origin \o path, !.headers = << >>, !.delim = "?"],
           Headers(ctx, content_type, request_id))

\* UploadThread_PrepareReport() of Logging and of Rum.
PrepareReport(b, ctx, path, request_id) ==
  AddQueryParam(Reset(b, ctx, path, << "application/json" >>, request_id), "ddsource", ctx.source)

-----------------------------------------------------------------------------
(* build_slist(): one entry for each line, and one to keep curl from adding *)
(* a header of its own.                                                     *)

LineEnds(text) == {i \in DOMAIN text : i < Len(text) /\ text[i] = CR /\ text[i + 1] = LF}

build_slist(headers) ==
  LET ends == SetToSortSeq(LineEnds(headers), <)
      from(k) == IF k = 1 THEN 1 ELSE ends[k - 1] + 2
  IN  IF headers = << >> THEN << >>
      ELSE Append([k \in DOMAIN ends |-> SubSeq(headers, from(k), ends[k] - 1)], << "Expect", ":" >>)

-----------------------------------------------------------------------------
(***************************************************************************)
(* WinHttpClient::Post().  A trouble is the call that fails, if one does,  *)
(* and its error.  WinHttpWriteData is called again and again: accepts     *)
(* says of each call how many bytes it takes of what is left, or that it   *)
(* fails and how; when accepts has run out, a call takes all that is left. *)
(***************************************************************************)
NonRetryableErrors ==
  {"WINHTTP_INVALID_URL", "WINHTTP_UNRECOGNIZED_SCHEME", "WINHTTP_INCORRECT_HANDLE_TYPE",
   "WINHTTP_INCORRECT_HANDLE_STATE", "WINHTTP_INVALID_OPTION", "WINHTTP_OPTION_NOT_SETTABLE",
   "WINHTTP_NOT_INITIALIZED", "WINHTTP_OPERATION_CANCELLED", "WINHTTP_SHUTDOWN",
   "INVALID_PARAMETER", "INVALID_HANDLE", "NOT_ENOUGH_MEMORY", "OUTOFMEMORY",
   "NO_UNICODE_TRANSLATION"}

\* The calls before anything is sent, those after, and the order of all.
Preparations  == << "Utf8ToWide(url)", "WinHttpCrackUrl", "Utf8ToWide(headers)", "WinHttpConnect",
                    "WinHttpOpenRequest", "WinHttpAddRequestHeaders" >>
NetworkPhase  == {"WinHttpSendRequest", "WinHttpWriteData", "WinHttpReceiveResponse",
                  "WinHttpQueryHeaders"}

MakeFailure(call, code) ==
  [type |-> IF call \in NetworkPhase /\ code \notin NonRetryableErrors
            THEN "GotNoResponse_Retryable" ELSE "GotNoResponse_NonRetryable",
   error_code |-> code]

HexDigit == << "1", "2", "3", "4", "5", "6", "7", "8", "9", "a", "b", "c", "d", "e", "f" >>
Hex(n)   == IF n = 0 THEN "0" ELSE HexDigit[n]

\* The size of a chunk, its last digit first.
RECURSIVE Digits(_)
Digits(remaining) ==
  IF remaining = 0 THEN << >> ELSE << Hex(remaining % 16) >> \o Digits(remaining \div 16)

ChunkHeader(size) == Reverse(Digits(size)) \o CRLF
Frame(data)       == ChunkHeader(Len(data)) \o data \o CRLF
FinalChunk        == << "0" >> \o CRLF \o CRLF

\* What WinHttpWriteData returns: so many bytes, or FALSE with an error of its own;
\* WriteAll() takes no bytes for a lost connection.
Takes(n)     == [written |-> n, error |-> "WINHTTP_CONNECTION_ERROR"]
Breaks(code) == [written |-> 0, error |-> code]

\* WriteAll(): what is out, and whether that is all or which error it ended with.
RECURSIVE WriteAll(_, _)
WriteAll(data, accepts) ==
  IF data = << >> THEN [out |-> << >>, done |-> TRUE, error |-> "none", accepts |-> accepts]
  ELSE LET call == IF accepts = << >> THEN Takes(Len(data)) ELSE Head(accepts)
           num_written == Min({call.written, Len(data)})
           rest == IF accepts = << >> THEN << >> ELSE Tail(accepts)
       IN  IF num_written = 0
           THEN [out |-> << >>, done |-> FALSE, error |-> call.error, accepts |-> rest]
           ELSE LET w == WriteAll(SubSeq(data, num_written + 1, Len(data)), rest)
                IN  [w EXCEPT !.out = SubSeq(data, 1, num_written) \o @]

\* The loop over the writer's chunks.
RECURSIVE Stream(_, _, _)
Stream(writer, capacity, accepts) ==
  LET c == Call(writer, capacity)
      w == WriteAll(IF c.out = << >> THEN FinalChunk ELSE Frame(c.out), accepts)
      s == Stream(c.w, capacity, w.accepts)
  IN  CASE c.aborted -> [wire |-> << >>, aborted |-> TRUE, error |-> "none"]
        [] ~c.aborted /\ (~w.done \/ c.out = << >>) ->
             [wire |-> w.out, aborted |-> FALSE, error |-> w.error]
        [] OTHER -> [s EXCEPT !.wire = w.out \o @]

Works       == [call |-> "none"]
Fails(call) == {[call |-> call, code |-> code] : code \in {"TIMEOUT", "NOT_ENOUGH_MEMORY"}}

\* What is on the wire when Post() returns, and what it returns.
Post(file, capacity, accepts, trouble, status_code) ==
  LET body == Stream(NewWriter(file), capacity, accepts)
      sent(wire, result) == [wire |-> wire, result |-> result]
      failure == MakeFailure(trouble.call, trouble.code)
  IN  CASE trouble.call \in ToSet(Preparations) \union {"WinHttpSendRequest"} -> sent(<< >>, failure)
        [] body.aborted -> sent(body.wire, MakeFailure("HttpBodyWriter", "OPERATION_ABORTED"))
        [] body.error # "none" -> sent(body.wire, MakeFailure("WinHttpWriteData", body.error))
        [] trouble.call \in {"WinHttpReceiveResponse", "WinHttpQueryHeaders"} ->
             sent(body.wire, failure)
        [] OTHER -> sent(body.wire, [type |-> "GotResponse", status_code |-> status_code])

-----------------------------------------------------------------------------
(***************************************************************************)
(* What it should do.                                                      *)
(***************************************************************************)
\* upload_util.cpp:75-109: whatever the application, the device and the system
\* are called, the user agent has its four words and none else, and no line break.
FourWords(agent) ==
  /\ Cardinality({i \in DOMAIN agent : agent[i] = " "}) = 3
  /\ \A i \in DOMAIN agent : agent[i] \notin {CR, LF}

\* request_builder.cpp:29-142, client_curl.cpp:52-93: the headers come apart as
\* they were put together, whatever was built before and whatever is in a value,
\* but for the line break that AddHeader's assertion rules out; the URL is the
\* path at the origin, with one question mark.
ReadsBack(used, ctx, path, request_id) ==
  LET b     == PrepareReport(used, ctx, path, request_id)
      lines == Headers(ctx, << "application/json" >>, request_id)
  IN  /\ build_slist(b.headers)
           = Append([i \in DOMAIN lines |-> << lines[i][1], ":", " " >> \o lines[i][2]],
                    << "Expect", ":" >>)
      /\ b.url = ctx.intake_origin \o path \o << "?", "ddsource", "=" >> \o ctx.source

\* What a server makes of the wire: the data of the chunks, up to the final one.
Value(d) == IF d = "0" THEN 0 ELSE CHOOSE n \in DOMAIN HexDigit : HexDigit[n] = d

RECURSIVE Received(_)
Received(wire) ==
  LET eol    == IF LineEnds(wire) = {} THEN 0 ELSE Min(LineEnds(wire))
      size   == FoldLeft(LAMBDA n, d : 16 * n + Value(d), 0, SubSeq(wire, 1, eol - 1))
      after  == SubSeq(wire, eol + size + 4, Len(wire))
      more   == Received(after)
      data   == SubSeq(wire, eol + 2, eol + 1 + size)
  IN  CASE eol = 0 \/ Len(wire) < eol + size + 3 -> [body |-> << >>, complete |-> FALSE]
        [] size = 0 -> [body |-> << >>, complete |-> after = << >>]
        [] OTHER    -> [more EXCEPT !.body = data \o @]

\* client_winhttp.cpp:241-441 (client_test.cpp, for both clients): the server gets
\* the body that curl would send, whatever pieces it goes out in, or none that is
\* complete; and the file of a body that did not get through goes or stays as with
\* curl: it goes if the body could not be written, and stays if it could not be sent,
\* unless sending fails with an error that will come again.
SentLikeCurl(file, capacity, accepts) ==
  LET p    == Post(file, capacity, accepts, Works, 202)
      r    == Received(p.wire)
      body == Body(file, << capacity >>)
  IN  /\ r.complete <=> p.result.type = "GotResponse"
      /\ r.complete => r.body = body.sent /\ ~body.aborted
      /\ ~r.complete => IsPrefix(r.body, body.sent)
      /\ body.aborted /\ (\A i \in DOMAIN accepts : accepts[i].written > 0)
           => Verdict(p.result) = Verdict(HttpResult(body, 0))
      /\ ~body.aborted /\ ~r.complete =>
           Verdict(p.result) = IF p.result.error_code \in NonRetryableErrors
                               THEN "bad_batch" ELSE "retryable_failure"

\* client_winhttp.cpp:195-214: a batch is given up for what will fail again, and
\* then the server has not had it, or the error is one of those that come again.
GivenUpForGood(file, capacity, accepts) ==
  \A call \in ToSet(Preparations) \union (NetworkPhase \ {"WinHttpWriteData"}) : \A t \in Fails(call) :
    LET p == Post(file, capacity, accepts, t, 202)
    IN  Verdict(p.result) = "bad_batch" =>
          \/ call \in ToSet(Preparations) /\ p.wire = << >>
          \/ p.result.error_code \in NonRetryableErrors
          \/ Body(file, << capacity >>).aborted

\* client_winhttp.cpp:37-46: the header of a chunk of any size the buffer can hold
\* fits in before its data.
HeadersFit(capacity, header_capacity) ==
  \A size \in 1 .. capacity : Len(ChunkHeader(size)) <= header_capacity
=============================================================================

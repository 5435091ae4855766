----------------------------- MODULE HttpParser -----------------------------
(***************************************************************************)
(* The incremental HTTP/1.1 parser (web/src/http/parser.c).  It is fed the  *)
(* fragments in which a message happens to arrive and keeps, between two    *)
(* calls, everything it needs to resume.                                    *)
(*                                                                          *)
(* The wire carries symbols: "CR", "LF", "NUL", "ctl" (any other control    *)
(* character), separators, escapes such as "%2e", and words that stand for  *)
(* a run of ordinary characters.  Lengths and limits count symbols.         *)
(***************************************************************************)
EXTENDS Integers, Sequences, FiniteSets, SequencesExt

CONSTANTS
    MaxRequestLine,    \* BB_HTTP_MAX_REQUEST_LINE, also the size of a target
                       \* and of a reason phrase
    MaxMethod,         \* BB_HTTP_METHOD_SIZE
    MaxHeaderSize,     \* BB_HTTP_MAX_HEADER_SIZE
    MaxHeaderCount,    \* BB_HTTP_MAX_HEADER_COUNT
    MaxBodySize,       \* BB_HTTP_MAX_BODY_SIZE
    MaxChunkSize,      \* BB_HTTP_MAX_CHUNK_SIZE
    MaxChunkLine,      \* BB_HTTP_MAX_CHUNK_LINE
    MaxTrailerSize,    \* BB_HTTP_MAX_TRAILER_SIZE
    MaxTrailerCount    \* BB_HTTP_MAX_TRAILER_COUNT

ASSUME HttpLimits ==
    /\ MaxRequestLine \in Nat /\ MaxMethod \in Nat /\ MaxHeaderSize \in Nat /\ MaxHeaderCount \in Nat
    /\ MaxBodySize \in Nat /\ MaxChunkSize \in Nat /\ MaxChunkLine \in Nat
    /\ MaxTrailerSize \in Nat /\ MaxTrailerCount \in Nat

Versions == {"HTTP/1.0", "HTTP/1.1"}

\* The numerals that occur in the messages, with their values.  "2f" is a
\* hexadecimal numeral only, "huge" does not fit in 64 bits.
Decimal == [n \in {"0", "1", "2", "3", "9"} |->
    CASE n = "0" -> 0 [] n = "1" -> 1 [] n = "2" -> 2 [] n = "3" -> 3 [] OTHER -> 9]
StatusCode == [n \in {"101", "200", "204", "400", "401", "404", "500"} |->
    CASE n = "101" -> 101 [] n = "200" -> 200 [] n = "204" -> 204 [] n = "400" -> 400
      [] n = "401" -> 401 [] n = "404" -> 404 [] OTHER -> 500]

\* The characters of URIs that a message may carry as escapes.
Escapes == {"%2e", "%2f", "%3f", "%26", "%3d", "%00", "%zz"}
Unescape == [c \in Escapes |->
    CASE c = "%2e" -> "." [] c = "%2f" -> "/" [] c = "%3f" -> "?" [] c = "%26" -> "&"
      [] c = "%3d" -> "=" [] c = "%00" -> "NUL" [] OTHER -> "malformed"]

Blank == {" ", "\t"}
NotTchar == Blank \cup Escapes \cup {":", ";", ",", "/", "?", "&", "=", "ctl"}

\* bb_http_parser_create and bb_http_parser_create_response
ParserCreate(response) ==
    [state |-> "REQUEST_LINE", response |-> response,
     line |-> <<>>, sawCr |-> FALSE, limit |-> MaxRequestLine,
     method |-> <<>>, target |-> <<>>, status |-> 0,
     headers |-> <<>>, trailers |-> <<>>, body |-> <<>>,
     hasLength |-> FALSE, length |-> 0, encoded |-> FALSE,
     headerBytes |-> 0, trailerBytes |-> 0, chunk |-> 0, consumed |-> 0]

\* bb_http_parser_reset
ParserReset(p) == ParserCreate(p.response)

\* set_error
SetError(p) == [p EXCEPT !.state = "ERROR"]

\* reset_line, on entering a state that reads a line
ReadLines(p, state, limit) ==
    [p EXCEPT !.state = state, !.line = <<>>, !.sawCr = FALSE, !.limit = limit]

-----------------------------------------------------------------------------
(* Lines.  An outcome is the parser, the input that is left, and whether the *)
(* loop of bb_http_parser_feed goes on.                                      *)

Out(p, rest, more) == [p |-> p, rest |-> rest, more |-> more]

\* consume_line
RECURSIVE ConsumeLine(_, _)
ConsumeLine(p, data) ==
    IF data = <<>> THEN Out(p, data, FALSE)
    ELSE LET c == Head(data)
         IN IF p.sawCr
            THEN IF c = "LF" THEN Out([p EXCEPT !.sawCr = FALSE], Tail(data), TRUE)
                 ELSE Out(SetError(p), Tail(data), FALSE)
            ELSE IF c = "CR" THEN ConsumeLine([p EXCEPT !.sawCr = TRUE], Tail(data))
            ELSE IF c \in {"LF", "NUL"} \/ Len(p.line) >= p.limit
            THEN Out(SetError(p), data, FALSE)
            ELSE ConsumeLine([p EXCEPT !.line = Append(@, c)], Tail(data))

-----------------------------------------------------------------------------
(* The start line *)

\* The maximal subsequences of s between separators, empty ones included.
RECURSIVE SplitAt(_, _)
SplitAt(s, sep) ==
    LET i == SelectInSeq(s, LAMBDA c : c = sep)
    IN IF i = 0 THEN <<s>>
       ELSE <<SubSeq(s, 1, i - 1)>> \o SplitAt(SubSeq(s, i + 1, Len(s)), sep)

\* What precedes the first sep in s
Before(s, sep) ==
    LET i == SelectInSeq(s, LAMBDA c : c = sep) IN IF i = 0 THEN s ELSE SubSeq(s, 1, i - 1)

IsDot(c) == c \in {".", "%2e"}
IsDotSegment(s) == Len(s) \in {1, 2} /\ \A i \in DOMAIN s : IsDot(s[i])

\* sanitize_request_target: the escapes of the query are checked with the rest.
SanitizeRequestTarget(t) ==
    \/ t = <<"*">>
    \/ /\ t # <<>> /\ t[1] = "/"
       /\ \A i \in DOMAIN t : t[i] \notin {"#", "\\", "%zz", "%00", "%2f"}
       /\ \A s \in ToSet(SplitAt(Tail(Before(t, "?")), "/")) : ~ IsDotSegment(s)

\* parse_request_line
ParseRequestLine(p) ==
    LET parts == SplitAt(p.line, " ")
    IN IF /\ Len(parts) = 3
          /\ parts[1] # <<>> /\ \A i \in DOMAIN parts[1] : parts[1][i] \notin NotTchar
          /\ Len(parts[1]) < MaxMethod /\ Len(parts[2]) < MaxRequestLine
          /\ parts[2] # <<>> /\ \A i \in DOMAIN parts[2] : parts[2][i] \notin {"\t", "ctl"}
          /\ SanitizeRequestTarget(parts[2])
          /\ Len(parts[3]) = 1 /\ parts[3][1] \in Versions
       THEN [p EXCEPT !.method = parts[1], !.target = parts[2]]
       ELSE SetError(p)

\* parse_response_line: the reason phrase may hold anything but controls.
ParseResponseLine(p) ==
    IF /\ Len(p.line) >= 3 /\ p.line[1] \in Versions /\ p.line[2] = " "
       /\ p.line[3] \in DOMAIN StatusCode
       /\ Len(p.line) > 3 => p.line[4] = " " /\ Len(p.line) - 4 < MaxRequestLine
       /\ \A i \in DOMAIN p.line : p.line[i] # "ctl"
    THEN [p EXCEPT !.status = StatusCode[p.line[3]]]
    ELSE SetError(p)

-----------------------------------------------------------------------------
(* Fields *)

RECURSIVE Trim(_)
Trim(s) ==
    IF s = <<>> THEN s
    ELSE IF s[1] \in Blank THEN Trim(Tail(s))
    ELSE IF s[Len(s)] \in Blank THEN Trim(Front(s))
    ELSE s

\* parse_field_line, without the limits: the field of a line, or none
Field(line) ==
    LET name == Before(line, ":")
        value == Trim(SubSeq(line, Len(name) + 2, Len(line)))
    IN IF \/ name = <<>> \/ Len(name) = Len(line)
          \/ \E i \in DOMAIN name : name[i] \in NotTchar
          \/ \E i \in DOMAIN value : value[i] = "ctl"
       THEN {}
       ELSE {[name |-> name, value |-> value]}

\* apply_content_length
ApplyContentLength(p, value) ==
    IF /\ ~ p.hasLength
       /\ Len(value) = 1 /\ value[1] \in DOMAIN Decimal
       /\ Decimal[value[1]] <= MaxBodySize
    THEN [p EXCEPT !.hasLength = TRUE, !.length = Decimal[value[1]]]
    ELSE SetError(p)

\* apply_transfer_encoding: a list of codings, each of them "chunked"; the list
\* may end with a comma, and may be empty after an earlier one.
ApplyTransferEncoding(p, value) ==
    LET codings == SplitAt(value, ",")
        read == IF codings[Len(codings)] = <<>> THEN Front(codings) ELSE codings
    IN IF /\ \A i \in DOMAIN read : Trim(read[i]) = <<"chunked">>
          /\ read # <<>> \/ p.encoded
       THEN [p EXCEPT !.encoded = TRUE]
       ELSE SetError(p)

\* The next line of a block, unless this one was refused
NextLine(p, state, limit) == IF p.state = "ERROR" THEN p ELSE ReadLines(p, state, limit)

\* What a header means to the framing
ApplyHeader(p, f) ==
    CASE f.name = <<"Content-Length">> -> ApplyContentLength(p, f.value)
      [] f.name = <<"Transfer-Encoding">> -> ApplyTransferEncoding(p, f.value)
      [] OTHER -> p

\* bb_http_parser's headers grow by one.
StoreHeader(p, f) ==
    [p EXCEPT !.headers = Append(@, f), !.headerBytes = @ + Len(p.line) + 2]

\* A header line in state HEADERS, with its field, if it is one
HeaderLine(p, fields) ==
    IF \/ fields = {} \/ Len(p.headers) >= MaxHeaderCount
       \/ p.headerBytes + Len(p.line) + 2 > MaxHeaderSize
    THEN SetError(p)
    ELSE CHOOSE q \in {NextLine(ApplyHeader(StoreHeader(p, f), f), "HEADERS", MaxHeaderSize) :
                           f \in fields} : TRUE

\* A trailer line in state TRAILERS: framing headers are refused.
TrailerLine(p, fields) ==
    IF \/ fields = {} \/ Len(p.trailers) >= MaxTrailerCount
       \/ p.trailerBytes + Len(p.line) + 2 > MaxTrailerSize
       \/ \E f \in fields : f.name \in {<<"Content-Length">>, <<"Transfer-Encoding">>}
    THEN SetError(p)
    ELSE ReadLines([p EXCEPT !.trailers = @ \o SetToSeq(fields),
                             !.trailerBytes = @ + Len(p.line) + 2],
                   "TRAILERS", MaxTrailerSize)

\* finish_headers: what follows the empty line
FinishHeaders(p) ==
    IF p.response /\ (p.status \in 100..199 \/ p.status \in {204, 304})
    THEN [p EXCEPT !.state = "COMPLETE"]
    ELSE IF p.hasLength /\ p.encoded THEN SetError(p)
    ELSE IF p.encoded THEN ReadLines(p, "CHUNK_SIZE", MaxChunkLine)
    ELSE IF p.hasLength /\ p.length > 0 THEN [p EXCEPT !.state = "BODY_FIXED"]
    ELSE [p EXCEPT !.state = "COMPLETE"]

-----------------------------------------------------------------------------
(* Chunks *)

\* parse_chunk_size_line and state CHUNK_SIZE: an extension may follow the size.
ChunkSizeLine(p) ==
    IF \/ p.line = <<>> \/ p.line[1] \notin DOMAIN Decimal
       \/ Len(p.line) > 1 /\ p.line[2] # ";"
    THEN SetError(p)
    ELSE LET size == Decimal[p.line[1]]
         IN IF size > MaxChunkSize \/ (size > 0 /\ size > MaxBodySize - Len(p.body))
            THEN SetError(p)
            ELSE IF size = 0 THEN ReadLines(p, "TRAILERS", MaxTrailerSize)
            ELSE [p EXCEPT !.state = "CHUNK_DATA", !.chunk = size]

\* body_append of as much of the input as n allows
TakeBody(p, data, n) ==
    LET take == IF n < Len(data) THEN n ELSE Len(data)
    IN Out([p EXCEPT !.body = @ \o SubSeq(data, 1, take)], SubSeq(data, take + 1, Len(data)), TRUE)

\* State BODY_FIXED
BodyFixed(p, data) ==
    LET o == TakeBody(p, data, p.length - Len(p.body))
    IN IF Len(o.p.body) >= p.length THEN Out([o.p EXCEPT !.state = "COMPLETE"], o.rest, FALSE)
       ELSE [o EXCEPT !.more = FALSE]

\* Mutant of ChunkData: the rest of a chunk is forgotten between two calls.
ChunkDataForgets(p, data) ==
    LET o == TakeBody(p, data, p.chunk)
    IN Out(ReadLines([o.p EXCEPT !.chunk = 0], "CHUNK_DATA_CRLF", 0), o.rest, TRUE)

\* State CHUNK_DATA
ChunkData(p, data) ==
    LET o == TakeBody(p, data, p.chunk)
        left == p.chunk - (Len(data) - Len(o.rest))
    IN IF left > 0 THEN Out([o.p EXCEPT !.chunk = left], o.rest, FALSE)
       ELSE Out(ReadLines([o.p EXCEPT !.chunk = 0], "CHUNK_DATA_CRLF", 0), o.rest, TRUE)

-----------------------------------------------------------------------------
(* bb_http_parser_feed *)

\* The case of a state once its line is complete
TakeLine(p) ==
    CASE p.state = "REQUEST_LINE" ->
            NextLine(IF p.response THEN ParseResponseLine(p) ELSE ParseRequestLine(p),
                     "HEADERS", MaxHeaderSize)
      [] p.state = "HEADERS" -> IF p.line = <<>> THEN FinishHeaders(p)
                                ELSE HeaderLine(p, Field(p.line))
      [] p.state = "CHUNK_SIZE" -> ChunkSizeLine(p)
      [] p.state = "CHUNK_DATA_CRLF" -> ReadLines(p, "CHUNK_SIZE", MaxChunkLine)
      [] p.state = "TRAILERS" -> IF p.line = <<>> THEN [p EXCEPT !.state = "COMPLETE"]
                                 ELSE TrailerLine(p, Field(p.line))

Ended(p) == p.state \in {"COMPLETE", "ERROR"}

\* The loop goes on unless the line ended the message.
GoOn(p, rest) == Out(p, rest, ~ Ended(p))

\* One turn of the loop
AfterLine(o) == IF o.more THEN GoOn(TakeLine(o.p), o.rest) ELSE o
Turn(p, data) ==
    CASE p.state = "BODY_FIXED" -> BodyFixed(p, data)
      [] p.state = "CHUNK_DATA" -> ChunkData(p, data)
      [] OTHER -> AfterLine(ConsumeLine(p, data))

RECURSIVE FeedLoop(_)
FeedLoop(o) == IF o.more THEN FeedLoop(Turn(o.p, o.rest)) ELSE o

Consumed(o, available) == [o.p EXCEPT !.consumed = available - Len(o.rest)]

\* Once an error or a whole message was reported, nothing more is read.
Feed(p, data) == Consumed(FeedLoop(Out(p, data, ~ Ended(p))), Len(data))
=============================================================================

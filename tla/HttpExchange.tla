---------------------------- MODULE HttpExchange ----------------------------
(***************************************************************************)
(* Requests and responses between a client (web/src/client.c) and a server  *)
(* (web/src/server.c), each with its own incremental parser, over           *)
(* connections that deliver what was written in arbitrary fragments and may *)
(* break at any time.  Each exchange has a connection of its own.  Instead  *)
(* of this client another program may send the request, and instead of this *)
(* server another program may send the response.                            *)
(***************************************************************************)
EXTENDS HttpServer

CONSTANTS
    Plans    \* sequences of exchanges; records of
             \*   request : a message       own : this client sends it
             \*   reply : {} or {a message of another server}
             \*   outcome : what the steps of the pipeline do
             \*   damage : {} or {the <<position, symbol>> that is spoilt}

\* A message is its start line, its fields, its body (in chunks or not, the last
\* chunk with an extension), its trailers and what follows it on the wire.
Named(fields, name) == {i \in DOMAIN fields : fields[i].name = name}
Lengths(m) == Named(m.fields, <<"Content-Length">>)
Codings(m) == Named(m.fields, <<"Transfer-Encoding">>)
Size(fields) == Len(FieldLines(fields))

HeadOf(m) == m.start \o <<"CR", "LF">> \o FieldLines(m.fields) \o <<"CR", "LF">>

EncodeChunks(m) ==
    FlattenSeq([i \in DOMAIN m.chunks |->
        <<Numeral(Len(m.chunks[i]))>> \o <<"CR", "LF">> \o m.chunks[i] \o <<"CR", "LF">>])
    \o <<"0">> \o m.ext \o <<"CR", "LF">> \o FieldLines(m.trailers) \o <<"CR", "LF">>

Whole(m) == HeadOf(m) \o (IF Codings(m) # {} THEN EncodeChunks(m) ELSE m.body)
BodyOf(m) == IF Codings(m) # {} THEN FlattenSeq(m.chunks) ELSE m.body

Wire(m, damage) ==
    LET w == Whole(m) \o m.extra
    IN [i \in DOMAIN w |-> IF \E d \in damage : d[1] = i
                           THEN (CHOOSE d \in damage : d[1] = i)[2] ELSE w[i]]

\* bb_request_serialize, for the requests of this client
ClientMessage(method, path, body) ==
    [start |-> <<method, " ">> \o path \o <<" ", "HTTP/1.1">>,
     fields |-> SetHeader(<<>>, <<"Content-Length">>, <<Numeral(Len(body))>>),
     body |-> body, chunks |-> <<>>, ext |-> <<>>, trailers |-> <<>>, extra |-> <<>>]

VARIABLES
    plan,        \* the exchanges that are still to come
    now,         \* the current exchange (ghost)
    toServer,    \* what was sent to the server and has not arrived
    toClient,    \* and to the client
    conn,        \* the connection: "none", "open" or "closed"
    server,      \* bb_server_task_data_t, with the answer it queued (ghost)
    client       \* bb_client_t, with the result its callback got (ghost)

vars == <<plan, now, toServer, toClient, conn, server, client>>

\* A parser with the connection's read buffer and parsed_offset
Reader(response) == [parser |-> ParserCreate(response), buffer |-> <<>>, offset |-> 0]

NoAnswer == [req |-> {}, route |-> 0, res |-> {}]

Init ==
    /\ plan \in Plans
    /\ now = {} /\ toServer = <<>> /\ toClient = <<>> /\ conn = "none"
    /\ server = [in |-> Reader(FALSE), answer |-> NoAnswer]
    /\ client = [in |-> Reader(TRUE), waiting |-> FALSE, result |-> {}]

-----------------------------------------------------------------------------
(* Actions *)

\* bb_connection_read and the call of bb_http_parser_feed
Receive(in, data) ==
    LET buffer == in.buffer \o data
        Fed(p) == [parser |-> p, buffer |-> buffer, offset |-> in.offset + p.consumed]
    IN Fed(Feed(in.parser, SubSeq(buffer, in.offset + 1, Len(buffer))))

\* Mutant of ClientReset: the parser keeps the message it has parsed.
ClientResetKeepsParser(in) == [in EXCEPT !.buffer = <<>>, !.offset = 0]

\* bb_client_reset, and the connection that bb_client_execute_async opens
ClientReset(in) == [parser |-> ParserReset(in.parser), buffer |-> <<>>, offset |-> 0]

\* bb_client_get_async and bb_client_post_async, or another client's request;
\* a call that is under way is dropped.
Execute ==
    /\ plan # <<>>
    /\ plan' = Tail(plan)
    /\ now' = {Head(plan)}
    /\ LET x == Head(plan)
       IN /\ toServer' = Wire(x.request, IF x.reply = {} THEN x.damage ELSE {})
          /\ client' = [client EXCEPT !.in = IF x.own THEN ClientReset(@) ELSE @,
                                      !.waiting = x.own, !.result = {}]
    /\ toClient' = <<>>
    /\ conn' = "open"
    /\ server' = [in |-> Reader(FALSE), answer |-> NoAnswer]

\* How much of what is under way a read may return: one symbol, or all of it.
Fragments(w) == {1, Len(w)}

\* _server_read_step; a response is written and the connection closed.
ServerStep(in) ==
    /\ server' = [in |-> in,
                  answer |-> IF in.parser.state = "COMPLETE"
                             THEN Respond(RequestFromParsed(in.parser),
                                          (CHOOSE x \in now : TRUE).outcome)
                             ELSE NoAnswer]
    /\ toClient' = FlattenSeq(SetToSeq({ResponseSerialize(r) : r \in server'.answer.res}))
    /\ conn' = IF Ended(in.parser) THEN "closed" ELSE conn

ServerRead ==
    /\ conn = "open" /\ toServer # <<>>
    /\ \E x \in now : x.reply = {}
    /\ \E n \in Fragments(toServer) :
          /\ toServer' = SubSeq(toServer, n + 1, Len(toServer))
          /\ ServerStep(Receive(server.in, SubSeq(toServer, 1, n)))
    /\ UNCHANGED <<plan, now, client>>

\* Another server answers.
ForeignReply ==
    /\ conn = "open"
    /\ \E x \in now : \E m \in x.reply : toClient' = Wire(m, x.damage)
    /\ toServer' = <<>>
    /\ conn' = "closed"
    /\ UNCHANGED <<plan, now, server, client>>

\* bb_response_from_parsed, for the callback
Result(p) == [ok |-> TRUE, status |-> p.status, headers |-> SetHeaders(p.headers), body |-> p.body]
Failure == [ok |-> FALSE]

\* _client_read_step, and _client_read_error
ClientStep(in) ==
    /\ client' = [in |-> in, waiting |-> ~ Ended(in.parser),
                  result |-> CASE in.parser.state = "COMPLETE" -> {Result(in.parser)}
                               [] in.parser.state = "ERROR" -> {Failure}
                               [] OTHER -> {}]
    /\ conn' = IF Ended(in.parser) THEN "closed" ELSE conn

ClientRead ==
    /\ client.waiting /\ toClient # <<>>
    /\ \E n \in Fragments(toClient) :
          /\ toClient' = SubSeq(toClient, n + 1, Len(toClient))
          /\ ClientStep(Receive(client.in, SubSeq(toClient, 1, n)))
    /\ UNCHANGED <<plan, now, toServer, server>>

\* The connection breaks, and what is under way is lost.  A callback that waits
\* is never called.
Break ==
    /\ conn # "none"
    /\ toServer # <<>> \/ toClient # <<>> \/ conn = "open"
    /\ toServer' = <<>> /\ toClient' = <<>> /\ conn' = "closed"
    /\ UNCHANGED <<plan, now, server, client>>

Done == plan = <<>> /\ conn = "closed" /\ UNCHANGED vars

Next == Execute \/ ServerRead \/ ForeignReply \/ ClientRead \/ Break \/ Done

Spec == Init /\ [][Next]_vars

-----------------------------------------------------------------------------
(* Properties.  What a message means is stated once more here, over the       *)
(* message instead of over the symbols that arrive.                          *)

DecodeAll(s) == [i \in DOMAIN s |-> IF s[i] \in Escapes THEN Unescape[s[i]] ELSE s[i]]
Dots == {<<".">>, <<".", ".">>}

TargetAllowed(t) ==
    \/ t = <<"*">>
    \/ /\ t[1] = "/"
       /\ ToSet(t) \cap {"#", "\\", "%zz", "%00", "%2f", "ctl"} = {}
       /\ \A s \in ToSet(SplitAt(Before(t, "?"), "/")) : DecodeAll(s) \notin Dots

FieldsAllowed(fields, count, size) ==
    /\ \A f \in ToSet(fields) : /\ f.name # <<>> /\ ToSet(f.name) \cap NotTchar = {}
                               /\ "ctl" \notin ToSet(f.value)
    /\ Len(fields) <= count /\ Size(fields) <= size

WithoutBody(m) == m.start[1] \in Versions /\ m.start[3] \in {"101", "204"}

Allowed(m) ==
    /\ Len(m.start) <= MaxRequestLine
    /\ m.start[1] \notin Versions =>
          LET method == Before(m.start, " ")
          IN /\ Len(method) < MaxMethod
             /\ TargetAllowed(SubSeq(m.start, Len(method) + 2, Len(m.start) - 2))
    /\ FieldsAllowed(m.fields, MaxHeaderCount, MaxHeaderSize)
    /\ Cardinality(Lengths(m)) <= 1
    /\ \A i \in Lengths(m) : \E n \in 0..MaxBodySize : m.fields[i].value = <<Numeral(n)>>
    /\ \A i \in Codings(m) : m.fields[i].value \in
          {<<"chunked">>, <<"chunked", ",">>, <<"chunked", ",", "chunked">>}
          \cup {<<>> : j \in Codings(m) \cap 1..(i - 1)}
    /\ WithoutBody(m) \/ Lengths(m) = {} \/ Codings(m) = {}
    /\ (Codings(m) # {} /\ ~ WithoutBody(m)) =>
          /\ \A i \in DOMAIN m.chunks : Len(m.chunks[i]) <= MaxChunkSize
          /\ Len(BodyOf(m)) <= MaxBodySize /\ 1 + Len(m.ext) <= MaxChunkLine
          /\ FieldsAllowed(m.trailers, MaxTrailerCount, MaxTrailerSize)
          /\ \A f \in ToSet(m.trailers) :
                f.name \notin {<<"Content-Length">>, <<"Transfer-Encoding">>}

\* A reader that has received part of a message
Understands(in, m, damage) ==
    LET p == in.parser
        good == Allowed(m) /\ damage = {}
        body == IF WithoutBody(m) THEN <<>> ELSE BodyOf(m)
    IN /\ p.state = "COMPLETE" =>
             /\ good
             /\ in.offset = Len(IF WithoutBody(m) THEN HeadOf(m) ELSE Whole(m))
             /\ p.headers = m.fields /\ p.body = body
       /\ p.state = "ERROR" => ~ good
       /\ Len(in.buffer) >= Len(Whole(m)) => p.state \in {"COMPLETE", "ERROR"}

\* However a message is cut into fragments, the parser reports it complete
\* exactly at its last symbol, with its headers and its body, if it is allowed,
\* and reports an error, and never a message, if it is not: a control symbol in
\* the wrong place, two framings, two lengths, a limit exceeded, a trailer that
\* would change the framing (bb_http_parser_feed, parser.c:1041-1281).
MessagesUnderstood ==
    \A x \in now :
        /\ x.reply = {} => Understands(server.in, x.request, x.damage)
        /\ \A m \in x.reply : x.own => Understands(client.in, m, x.damage)

\* The path of a request has the segments of the raw path and its query has the
\* parameters of the raw query, each decoded once: no escape makes or removes a
\* separator, and no segment of the path is a dot (server_request.c:54-344).
TargetReadOnce ==
    \A r \in server.answer.req :
        LET target == server.in.parser.target
            path == Before(target, "?")
            query == SubSeq(target, Len(path) + 2, Len(target))
            pairs == IF query = <<>> THEN <<>> ELSE SplitAt(query, "&")
            Part(s) == DecodeAll([i \in DOMAIN s |-> IF s[i] = "+" THEN " " ELSE s[i]])
        IN /\ SplitAt(r.path, "/") = [i \in DOMAIN SplitAt(path, "/") |-> DecodeAll(SplitAt(path, "/")[i])]
           /\ ToSet(SplitAt(r.path, "/")) \cap Dots = {}
           /\ Len(r.query) = Len(pairs)
           /\ \A i \in DOMAIN pairs :
                 /\ r.query[i].key = Part(Before(pairs[i], "="))
                 /\ r.query[i].value = Part(SubSeq(pairs[i], Len(Before(pairs[i], "=")) + 2, Len(pairs[i])))

\* A segment of a route's pattern accepts a segment of a path.
Fits(pattern, path) ==
    /\ Len(pattern) = Len(path)
    /\ \A i \in DOMAIN path : pattern[i][1] = ":" \/ pattern[i] = path[i]

\* A path that is neither too deep nor has a segment that is too long: what a
\* route may be registered with, and what a request may ask for.
Routable(path) ==
    LET segments == Segments(path)
    IN Len(segments) <= MaxSegments /\ \A s \in ToSet(segments) : Len(s) < MaxSegment

\* A handler runs only for the first route that fits, after every middleware
\* before it succeeded; nothing runs after a step that failed, and then the
\* client gets the error status that the response has, whichever step chose it
\* last, or 500 if it has none (docs/web/middleware.md:26-36, server.c:266-323,
\* router.c:214-238).
PipelineStopsAtFailure ==
    \A x \in now, req \in server.answer.req, res \in server.answer.res :
        LET route == server.answer.route
            path == Segments(req.path)
            fits == {i \in DOMAIN Routes : /\ Routes[i].method = req.method
                                           /\ Fits(Segments(Routes[i].path), path)
                                           /\ Routable(Routes[i].path) /\ Routable(req.path)}
            steps == PreMiddleware \o <<Routes[route].handler>> \o PostMiddleware
            failed == x.outcome[Last(res.ran)].failed
            chose == SelectSeq(res.ran, LAMBDA step : x.outcome[step].status # 0)
            status == IF chose = <<>> THEN 200 ELSE x.outcome[Last(chose)].status
        IN /\ route = 0 => fits = {} /\ res.status = 404 /\ res.ran = <<>>
           /\ route # 0 => route \in fits /\ \A i \in fits : route <= i
           /\ (route # 0 /\ Routes[route].type = "HTTP") =>
                 /\ IsPrefix(res.ran, steps) /\ res.ran # <<>>
                 /\ \A i \in 1..(Len(res.ran) - 1) : ~ x.outcome[res.ran[i]].failed
                 /\ ~ failed => res.ran = steps
                 /\ res.status = IF failed /\ status < 400 THEN 500 ELSE status

\* A callback that is told of success gets the response to its own request,
\* whole: never the response to an earlier one that the client's parser or
\* buffer still holds, and never a part of one (client.c:64-77, 214-256).
ResponseIsOwn ==
    \A x \in now, r \in client.result : (x.own /\ r.ok) =>
        \/ \E res \in server.answer.res :
              /\ r.status = res.status
              /\ r.body = IF res.status \in {101, 204} THEN <<>> ELSE res.body
              /\ GetHeader(r.headers, <<"Content-Length">>) = {<<Numeral(Len(res.body))>>}
        \/ \E m \in x.reply :
              /\ r.status = StatusCode[m.start[3]]
              /\ r.body = IF WithoutBody(m) THEN <<>> ELSE BodyOf(m)
=============================================================================

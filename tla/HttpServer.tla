----------------------------- MODULE HttpServer -----------------------------
(***************************************************************************)
(* What the server makes of a parsed request: the request object            *)
(* (web/src/http/server_request.c, message.c), the route it belongs to      *)
(* (router.c), the middlewares around the handler (middleware.c) and the    *)
(* response (server.c, http/response.c).                                    *)
(***************************************************************************)
EXTENDS HttpParser

CONSTANTS
    Routes,            \* the route list: records of type, method, path
    PreMiddleware,     \* the steps that run before a handler, in order
    PostMiddleware,    \* and those that run after it
    MethodSize,        \* METHOD_SIZE
    MaxPath,           \* PATH_SIZE
    MaxSegments,       \* MAX_SEGMENTS
    MaxSegment,        \* MAX_PATH_LEN
    MaxParams,         \* MAX_PARAMS
    MaxQueryParams,    \* MAX_QUERY_PARAMS
    MaxQueryKey,       \* MAX_QUERY_PARAM_KEY
    MaxQueryValue      \* MAX_QUERY_PARAM_VALUE

ASSUME ServerLimits ==
    /\ MethodSize \in Nat /\ MaxPath \in Nat /\ MaxSegment \in Nat
    /\ MaxSegments \in Nat /\ MaxParams \in Nat /\ MaxQueryParams \in Nat
    /\ MaxQueryKey \in Nat /\ MaxQueryValue \in Nat

-----------------------------------------------------------------------------
(* Messages *)

\* bb_message_get_header: the value of a header, or none
GetHeader(headers, name) ==
    LET i == SelectInSeq(headers, LAMBDA h : h.name = name)
    IN IF i = 0 THEN {} ELSE {headers[i].value}

\* bb_message_set_header: a header of that name is replaced, where it stands.
SetHeader(headers, name, value) ==
    LET i == SelectInSeq(headers, LAMBDA h : h.name = name)
    IN IF i = 0 THEN Append(headers, [name |-> name, value |-> value])
       ELSE [headers EXCEPT ![i].value = value]

SetHeaders(parsed) ==
    FoldSeq(LAMBDA h, hs : SetHeader(hs, h.name, h.value), <<>>, parsed)

Numeral(n) == CHOOSE d \in DOMAIN Decimal : Decimal[d] = n
StatusNumeral(n) == CHOOSE d \in DOMAIN StatusCode : StatusCode[d] = n

FieldLines(headers) ==
    FlattenSeq([i \in DOMAIN headers |->
        headers[i].name \o <<":", " ">> \o headers[i].value \o <<"CR", "LF">>])

\* bb_message_serialize: Content-Length is always set.
MessageSerialize(start, headers, body) ==
    start \o <<"CR", "LF">>
    \o FieldLines(SetHeader(headers, <<"Content-Length">>, <<Numeral(Len(body))>>))
    \o <<"CR", "LF">> \o body

-----------------------------------------------------------------------------
(* The request object *)

\* decode_path: the decoded path, or none
DecodePath(path) ==
    LET decoded == [i \in DOMAIN path |-> IF path[i] \in Escapes THEN Unescape[path[i]] ELSE path[i]]
    IN IF /\ path # <<>> /\ \A i \in DOMAIN path : path[i] \notin {"%2f", "%zz"}
          /\ decoded[1] = "/"
          /\ \A i \in DOMAIN decoded : decoded[i] \notin {"NUL", "ctl", " ", "\\"}
       THEN {decoded}
       ELSE {}

\* has_dot_segment
HasDotSegment(path) ==
    \E s \in ToSet(SplitAt(IF path[1] = "/" THEN Tail(path) ELSE path, "/")) :
        s \in {<<".">>, <<".", ".">>}

\* decode_query_component: a decoded string, or none
DecodeQueryComponent(src) ==
    LET decoded == [i \in DOMAIN src |->
            IF src[i] \in Escapes THEN Unescape[src[i]] ELSE IF src[i] = "+" THEN " " ELSE src[i]]
    IN IF \A i \in DOMAIN decoded : decoded[i] \notin {"NUL", "ctl", "malformed"}
       THEN {decoded} ELSE {}

\* One key and value of parse_query_params, or none: '=' and '&' that come out
\* of an escape are refused in a key.
QueryParam(pair) ==
    LET key == Before(pair, "=")
        value == SubSeq(pair, Len(key) + 2, Len(pair))
    IN IF key = <<>> \/ Len(key) >= MaxQueryKey \/ Len(value) >= MaxQueryValue THEN {}
       ELSE {[key |-> k, value |-> v] :
                k \in {k \in DecodeQueryComponent(key) : \A i \in DOMAIN k : k[i] \notin {"=", "&"}},
                v \in DecodeQueryComponent(value)}

\* Mutant of ParseQueryParams: the query is decoded before it is split.
ParseQueryDecodesFirst(query) ==
    IF query = <<>> THEN {<<>>}
    ELSE LET pairs == SplitAt([i \in DOMAIN query |->
                 IF query[i] \in Escapes THEN Unescape[query[i]] ELSE query[i]], "&")
         IN IF Len(pairs) > MaxQueryParams \/ \E i \in DOMAIN pairs : QueryParam(pairs[i]) = {} THEN {}
            ELSE {[i \in DOMAIN pairs |-> CHOOSE q \in QueryParam(pairs[i]) : TRUE]}

\* parse_query_params and bb_server_request_add_query_param
ParseQueryParams(query) ==
    IF query = <<>> THEN {<<>>}
    ELSE LET pairs == SplitAt(query, "&")
         IN IF Len(pairs) > MaxQueryParams \/ \E i \in DOMAIN pairs : QueryParam(pairs[i]) = {} THEN {}
            ELSE {[i \in DOMAIN pairs |-> CHOOSE q \in QueryParam(pairs[i]) : TRUE]}

\* bb_decode_percent of a form
DecodeForm(body) ==
    [i \in DOMAIN body |-> IF body[i] = "+" THEN " "
                           ELSE IF body[i] \in Escapes \ {"%zz"} THEN Unescape[body[i]] ELSE body[i]]

\* bb_server_request_from_parsed: the request, or none.  The path is decoded
\* once, after the query was split off.
RequestFromParsed(p) ==
    LET rawPath == Before(p.target, "?")
        query == SubSeq(p.target, Len(rawPath) + 2, Len(p.target))
        headers == SetHeaders(p.headers)
        form == GetHeader(headers, <<"Content-Type">>) = {<<"form">>}
    IN IF Len(p.method) >= MethodSize \/ Len(p.target) >= MaxPath THEN {}
       ELSE {[method |-> p.method, path |-> path, headers |-> headers,
              body |-> IF form THEN DecodeForm(p.body) ELSE p.body,
              query |-> q, params |-> <<>>] :
                 path \in {d \in DecodePath(rawPath) : ~ HasDotSegment(d)},
                 q \in ParseQueryParams(query)}

-----------------------------------------------------------------------------
(* Routing *)

IsParam(segment) == segment[1] = ":"

\* The non-empty segments of a path
Segments(path) == SelectSeq(SplitAt(path, "/"), LAMBDA s : s # <<>>)

\* split_path: the segments, or none when they are too many or one is too long
SplitPath(path) ==
    {s \in {Segments(path)} : Len(s) <= MaxSegments /\ \A i \in DOMAIN s : Len(s[i]) < MaxSegment}

\* route_create: the segments of a route, or none; such a route is not added.
RouteCreate(route) == SplitPath(route.path)

\* match_segments
MatchSegments(own, segments) ==
    /\ Len(own) = Len(segments)
    /\ \A i \in DOMAIN own : IsParam(own[i]) \/ own[i] = segments[i]

\* bb_route_list_match: the first route of the method that matches, or 0
RouteListMatch(req) ==
    SelectInSeq(Routes, LAMBDA route :
        /\ route.method = req.method
        /\ \E segments \in SplitPath(req.path), own \in RouteCreate(route) :
              MatchSegments(own, segments))

\* bb_server_request_add_param, for the first MaxParams parameters of a route
Params(pattern, segments) ==
    LET places == SelectSeq([i \in DOMAIN pattern |-> i], LAMBDA i : IsParam(pattern[i]))
        kept == SubSeq(places, 1, IF Len(places) < MaxParams THEN Len(places) ELSE MaxParams)
    IN [i \in DOMAIN kept |-> [name |-> Tail(pattern[kept[i]]), value |-> segments[kept[i]]]]

-----------------------------------------------------------------------------
(* The pipeline.  A step, middleware or handler, leaves its name in res.ran   *)
(* (ghost), may set the status and the body, and may fail.                    *)

ResponseCreate == [status |-> 200, headers |-> <<>>, body |-> <<>>, ran |-> <<>>]

\* What the step does to the response, and whether it fails
RunStep(step, res, outcome) ==
    [failed |-> outcome.failed,
     res |-> [res EXCEPT !.ran = Append(@, step),
                         !.status = IF outcome.status = 0 THEN @ ELSE outcome.status,
                         !.body = IF outcome.body = {} THEN @ ELSE CHOOSE b \in outcome.body : TRUE]]

\* bb_middleware_list_run: it stops at the first failure.
RECURSIVE RunSteps(_, _, _)
RunSteps(run, steps, outcome) ==
    IF run.failed \/ steps = <<>> THEN run
    ELSE RunSteps(RunStep(Head(steps), run.res, outcome[Head(steps)]), Tail(steps), outcome)

\* Mutant of PipelineFailed: the status that a step chose is lost.
PipelineFailedAlways500(res) == [res EXCEPT !.status = 500, !.body = <<"error">>]

\* _http_pipeline_failed
PipelineFailed(res) ==
    IF res.status >= 400 THEN res
    ELSE [res EXCEPT !.status = 500, !.body = <<"error">>,
                     !.headers = SetHeader(@, <<"Content-Type">>, <<"text">>)]

\* _run_http_route
RunHttpRoute(route, outcome) ==
    LET begun == [failed |-> FALSE, res |-> ResponseCreate]
        Answer(run) == IF run.failed THEN PipelineFailed(run.res) ELSE run.res
    IN Answer(RunSteps(begun, PreMiddleware \o <<Routes[route].handler>> \o PostMiddleware,
                       outcome))

\* default_404 and default_400
DefaultResponse(status) == [ResponseCreate EXCEPT !.status = status, !.body = <<"default">>]

\* _run_websocket_route and bb_websocket_accept_req: without the headers of an
\* upgrade there is no response at all.
RunWebsocketRoute(req) ==
    IF /\ GetHeader(req.headers, <<"Upgrade">>) = {<<"websocket">>}
       /\ GetHeader(req.headers, <<"Connection">>) = {<<"Upgrade">>}
       /\ GetHeader(req.headers, <<"Sec-WebSocket-Key">>) # {}
       /\ GetHeader(req.headers, <<"Sec-WebSocket-Version">>) # {}
    THEN {[ResponseCreate EXCEPT !.status = 101,
              !.headers = <<[name |-> <<"Upgrade">>, value |-> <<"websocket">>],
                            [name |-> <<"Connection">>, value |-> <<"Upgrade">>]>>]}
    ELSE {}

\* _run_request_pipeline of a request and its route
RunRequestPipeline(req, route, outcome) ==
    [req |-> {IF route = 0 THEN req
              ELSE [req EXCEPT !.params = Params(Segments(Routes[route].path),
                                                 Segments(req.path))]},
     route |-> route,
     res |-> CASE route = 0 -> {DefaultResponse(404)}
               [] route # 0 /\ Routes[route].type = "WEBSOCKET" -> RunWebsocketRoute(req)
               [] OTHER -> {RunHttpRoute(route, outcome)}]

\* The rest of _server_read_step: the response to what the parser has read
RespondTo(req, outcome) ==
    RunRequestPipeline(req, RouteListMatch(req), outcome)
Respond(reqs, outcome) ==
    IF reqs = {} THEN [req |-> {}, route |-> 0, res |-> {DefaultResponse(400)}]
    ELSE RespondTo(CHOOSE req \in reqs : TRUE, outcome)

\* bb_response_serialize; every response closes its connection.
ResponseSerialize(res) ==
    LET headers == IF GetHeader(res.headers, <<"Connection">>) # {} THEN res.headers
                   ELSE SetHeader(res.headers, <<"Connection">>, <<"close">>)
    IN MessageSerialize(<<"HTTP/1.1", " ", StatusNumeral(res.status), " ", "reason">>,
                        headers, res.body)
=============================================================================

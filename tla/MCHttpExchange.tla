--------------------------- MODULE MCHttpExchange ---------------------------
(* The exchanges of run http: every small target, every list of up to two    *)
(* fields with the bodies and chunks it allows, messages at and above each   *)
(* limit, spoilt symbols, and calls of this client to this server, two in a  *)
(* row.                                                                      *)
EXTENDS HttpExchange, TLC

LengthField(v) == [name |-> <<"Content-Length">>, value |-> v]
CodingField(v) == [name |-> <<"Transfer-Encoding">>, value |-> v]
Other(v) == [name |-> <<"X">>, value |-> v]
Long(n) == Other([i \in 1..n |-> "v"])

FieldSet == {LengthField(<<"0">>), LengthField(<<"2">>), LengthField(<<"9">>),
             LengthField(<<>>), LengthField(<<"2", ",", "2">>),
             CodingField(<<"chunked">>), CodingField(<<"chunked", ",">>), CodingField(<<"gzip">>),
             CodingField(<<>>), Other(<<"v">>), Other(<<"ctl">>), [name |-> <<"X", " ">>, value |-> <<"v">>]}

FieldLists == {<<>>} \cup {<<f>> : f \in FieldSet} \cup {<<f, g>> : f \in FieldSet, g \in FieldSet}
              \cup {[i \in 1..n |-> Other(<<"v">>)] : n \in 3..4}
              \cup {<<Long(7), Long(7)>>, <<Long(7), Long(8)>>, <<Long(20)>>, <<Long(22)>>}

ChunkLists == {<<>>, <<<<"a", "LF">>>>, <<<<"a">>, <<"CR", "NUL">>>>, <<<<"a", "a">>, <<"a", "a">>>>,
               <<<<"a", "a", "a">>>>}
TrailerLists == {<<>>, <<Other(<<"v">>)>>, <<Other(<<"v">>), Other(<<"v">>)>>, <<LengthField(<<"0">>)>>,
                 <<Long(7)>>, <<Long(8)>>, <<Long(10)>>}
Extensions == {<<>>, <<";", "ext", "ext">>}

Message(start, fields, body, chunks, trailers, extra) ==
    [start |-> start, fields |-> fields, body |-> body, chunks |-> chunks, ext |-> <<";", "ext">>,
     trailers |-> trailers, extra |-> extra]

IsCoded(fields) == \E i \in DOMAIN fields : fields[i].name = <<"Transfer-Encoding">>
BodyFor(fields) ==
    IF \E i \in DOMAIN fields : fields[i] = LengthField(<<"2">>) THEN <<"b", "LF">> ELSE <<>>

Framed(start, extras) ==
    {Message(start, fs, BodyFor(fs), <<>>, <<>>, e) : fs \in {l \in FieldLists : ~ IsCoded(l)}, e \in extras}
    \cup {Message(start, fs, <<>>, cs, ts, e) :
             fs \in {l \in FieldLists : IsCoded(l)}, cs \in {<<>>, <<<<"a", "LF">>>>}, ts \in {<<>>}, e \in extras}
    \cup {Message(start, <<CodingField(<<"chunked">>)>>, <<>>, cs, ts, e) :
             cs \in ChunkLists, ts \in TrailerLists, e \in extras}
    \cup {[Message(start, <<CodingField(<<"chunked">>)>>, <<>>, <<<<"a">>>>, <<>>, e) EXCEPT !.ext = x] :
             x \in Extensions, e \in extras}

Get(target) == <<"GET", " ">> \o target \o <<" ", "HTTP/1.1">>
Status(code) == <<"HTTP/1.1", " ", code, " ", "reason">>

Strings(alphabet, n) == UNION {[1..k -> alphabet] : k \in 0..n}
Targets == {<<"*">>} \cup {<<"/">> \o s : s \in Strings({"a", ".", "%2e", "/", "%3f", "%26"}, 3)}
           \cup {<<"/", "a", c>> : c \in {"%2f", "%zz", "%00", "#"}}
           \cup {<<"/", "a", "?">> \o s : s \in Strings({"a", "=", "&", "+", "%26", "%3d"}, 3)}
           \cup {<<"/", "a", "?", "a", "&", "a", "&", "a">>, <<"/", "a", "?", "a", "a", "a">>,
               <<"/", "a", "?", "a", "=", "a", "a">>, <<"/", "a", "?", "a", "=", "a", "a", "a">>}
           \cup {[i \in 1..n |-> "/"] : n \in 11..13}

\* Methods at and above the limits of the request object and of the parser
LongMethods == {[i \in 1..n |-> IF i = 1 THEN "GET" ELSE "X"] : n \in 2..3}

Ok == [failed |-> FALSE, status |-> 0, body |-> {}]
Outcomes(auth, handler, log) ==
    [step \in {"auth", "log", "list", "item", "shadow", "add"} |->
        IF step = "auth" THEN auth ELSE IF step = "log" THEN log ELSE handler]
AllOk == Outcomes(Ok, [Ok EXCEPT !.body = {<<"a">>}], Ok)

Raw(m) == [request |-> m, own |-> FALSE, reply |-> {}, outcome |-> AllOk, damage |-> {}]
Foreign(m) == [request |-> ClientMessage("GET", <<"/", "a">>, <<>>), own |-> TRUE,
               reply |-> {m}, outcome |-> AllOk, damage |-> {}]
Own(method, path, body, outcome) ==
    [request |-> ClientMessage(method, path, body), own |-> TRUE, reply |-> {},
     outcome |-> outcome, damage |-> {}]

Symbols == {"CR", "LF", "NUL", "ctl"}
Spoilt(x, m) ==
    {[x EXCEPT !.damage = {<<i, s>>}] : i \in 1..Len(HeadOf(m)), s \in Symbols}
    \ {[x EXCEPT !.damage = {<<i, HeadOf(m)[i]>>}] : i \in 1..Len(HeadOf(m))}

Plain == Message(Get(<<"/", "a">>), <<Other(<<"v">>), LengthField(<<"2">>)>>, <<"b", "b">>, <<>>, <<>>, <<>>)
Full == Message(Get(<<"/", "a">>), <<LengthField(<<"3">>)>>, <<"b", "b", "b">>, <<>>, <<>>, <<>>)
Coded == Message(Status("200"), <<CodingField(<<"chunked">>)>>, <<>>, <<<<"a", "b">>>>, <<>>, <<>>)

Upgrade == Message(Get(<<"/", "ws">>),
    <<[name |-> <<"Upgrade">>, value |-> <<"websocket">>], [name |-> <<"Connection">>, value |-> <<"Upgrade">>],
      [name |-> <<"Sec-WebSocket-Key">>, value |-> <<"v">>],
      [name |-> <<"Sec-WebSocket-Version">>, value |-> <<"13">>]>>, <<>>, <<>>, <<>>, <<>>)

\* A step may fail without a status, and may choose an error status and succeed.
AuthOutcomes == {Ok, [failed |-> TRUE, status |-> 401, body |-> {<<"a", "a">>}],
                 [Ok EXCEPT !.status = 401], [Ok EXCEPT !.failed = TRUE]}
HandlerOutcomes == {[Ok EXCEPT !.body = {<<"a">>}], [Ok EXCEPT !.status = 204], [Ok EXCEPT !.status = 404],
                    [failed |-> TRUE, status |-> 404, body |-> {<<"a">>}],
                    [failed |-> TRUE, status |-> 0, body |-> {<<"a">>}]}
LogOutcomes == {Ok, [Ok EXCEPT !.status = 500], [Ok EXCEPT !.failed = TRUE],
                [failed |-> TRUE, status |-> 200, body |-> {}]}

Calls ==
    {Own("GET", <<"/", "a">>, <<>>, Outcomes(a, h, l)) :
        a \in AuthOutcomes, h \in HandlerOutcomes, l \in LogOutcomes}
    \cup {Own("GET", path, <<>>, AllOk) :
        path \in {<<"/", "a", "/", "b">>, <<"/", "c">>, <<"/", "c", "/", "a", "/", "b">>, <<"/", "/", "a">>,
                  <<"/", "ws">>, <<"/", "a", "/", "c", "/", "b", "/", "a">>,
                  <<"/", "a", "/", "b", "b">>, <<"/", "a", "/", "b", "b", "b">>}}
    \cup {Own("POST", <<"/", "a">>, <<"b", "b">>, AllOk)}

MCPlans ==
    {<<Raw(Message(Get(t), <<>>, <<>>, <<>>, <<>>, <<>>))>> : t \in Targets}
    \cup {<<Raw(Message(m \o <<" ", "/", "a", " ", "HTTP/1.1">>, <<>>, <<>>, <<>>, <<>>, <<>>))>> :
             m \in LongMethods}
    \cup {<<Raw(m)>> : m \in Framed(Get(<<"/", "a">>), {<<>>, <<"GET">>}) \cup {Upgrade, Full}}
    \cup {<<Foreign(m)>> : m \in Framed(Status("200"), {<<>>}) \cup Framed(Status("204"), {<<>>})}
    \cup {<<x>> : x \in Spoilt(Raw(Plain), Plain) \cup Spoilt(Foreign(Coded), Coded)}
    \cup {<<x, y>> : x \in Calls \cup {Foreign(Coded)},
                     y \in {Own("POST", <<"/", "a">>, <<"b">>, AllOk), Own("GET", <<"/", "c">>, <<>>, AllOk)}}

MCRoutes == <<[type |-> "HTTP", method |-> <<"GET">>, path |-> <<"/", "a">>, handler |-> "list"],
              [type |-> "HTTP", method |-> <<"GET">>, path |-> <<"/", "a", "/", ":", "id">>, handler |-> "item"],
              [type |-> "HTTP", method |-> <<"GET">>, path |-> <<"/", "a", "/", "b">>, handler |-> "shadow"],
              [type |-> "HTTP", method |-> <<"GET">>, path |-> <<"/", "a", "/", ":", "id", "/", "b", "/", "a">>,
                  handler |-> "list"],
              [type |-> "HTTP", method |-> <<"GET">>, path |-> <<"/", "a", "/", "b", "b", "b">>, handler |-> "list"],
              [type |-> "HTTP", method |-> <<"GET">>, path |-> <<"/", ":", "id", "/", ":", "id", "/", "b">>,
                  handler |-> "item"],
              [type |-> "HTTP", method |-> <<"POST">>, path |-> <<"/", "a">>, handler |-> "add"],
              [type |-> "WEBSOCKET", method |-> <<"GET">>, path |-> <<"/", "ws">>, handler |-> "ws"]>>
MCPre == <<"auth">>
MCPost == <<"log">>
=============================================================================

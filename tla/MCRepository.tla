---------------------------- MODULE MCRepository ----------------------------
(* Instances of Repository and KeyValue for TLC. *)
EXTENDS Repository, KeyValue, TLC

a == 97
A == 65

Entity(id, name, data) == [id |-> id, name |-> name, data |-> data]

\* Names that differ in case, in length and in the bytes that mean something to
\* GLOB or LIKE; two entities may have the same name, so that a sort has ties.
MCEntities ==
    {Entity(1, <<a, Underscore>>, 0), Entity(1, <<A, a>>, 1),
     Entity(2, <<A, a>>, 0), Entity(2, <<LeftBracket, a, RightBracket>>, 1),
     Entity(3, <<a, Underscore>>, 1), Entity(3, <<Backslash, a>>, 0)}

MCPatterns ==
    {<<Percent, a>>, <<Percent, a, Percent>>, <<a, Underscore>>, <<Underscore, a>>,
     <<LeftBracket, a, RightBracket>>, <<Star>>, <<Question, a>>, <<Percent, Percent>>,
     <<Backslash, Percent>>, <<LeftBracket, Percent>>, <<>>}

MCConditions ==
    [field : {"name"}, cmp : {"like"}, value : MCPatterns]
        \cup [field : {"name"}, cmp : {"ne", "lt", "gte"}, value : {<<A, a>>}]
        \cup [field : {"id"}, cmp : {"eq", "lte", "gt"}, value : {2}]
        \cup [field : {"id"}, cmp : {"like"}, value : {<<Percent>>}]
        \cup [field : {"data"}, cmp : {"ne", "like"}, value : {0}]

MCOrders ==
    [field : {"name", "data"}, direction : {"asc", "desc"}]
        \cup {[field |-> "id", direction |-> "desc"]}
MCPages ==
    {[limit |-> -1, offset |-> 1], [limit |-> 1, offset |-> -1],
     [limit |-> 2, offset |-> 1], [limit |-> 0, offset |-> 0]}

-----------------------------------------------------------------------------
(* The key-value store *)

\* ASCII; a symbol that stands for several characters has a number of its own.
MCCode ==
    "BS" :> 8 @@ "\t" :> 9 @@ "\n" :> 10 @@ "\f" :> 12 @@ "\r" :> 13 @@ "SOH" :> 1 @@ " " :> 32
    @@ "\"" :> 34 @@ "," :> 44 @@ "-" :> 45 @@ "." :> 46 @@ "/" :> 47 @@ "0" :> 48 @@ "1" :> 49
    @@ ":" :> 58 @@ "A" :> 65 @@ "[" :> 91 @@ "\\" :> 92 @@ "]" :> 93 @@ "a" :> 97 @@ "b" :> 98
    @@ "e" :> 101 @@ "{" :> 123 @@ "}" :> 125 @@ "null" :> 200 @@ "BOM" :> 65279 @@ "U+10000" :> 65536

MCKeys == {<<"a">>, <<"b">>, <<"\"">>}
MCData == {<<>>, <<"SOH", "a">>, <<"\\", "\"">>}

Quote(t) == <<"\"">> \o t \o <<"\"">>
Braces(s) == <<"{">> \o s \o <<"}">>
Brackets(s) == <<"[">> \o s \o <<"]">>
MemberText(k, v) == Quote(k) \o <<":">> \o v

\* Every text of up to three symbols, and longer ones for what needs more: escapes
\* and surrogates, the forms and bounds of numbers, nesting up to and beyond the
\* limit, keys that occur twice, a byte order mark, what is almost a document.
MCDocuments ==
    SeqOf({"{", "}", "[", "]", ",", ":", "\"", "a", "\\", "null", "1", "-", "0", ".", "e", " ",
           "SOH", "BOM"}, 3)
    \cup {Quote(t) : t \in {<<"\\", "\"">>, <<"\\", "a">>, <<"\\", "u", "0041", "/", "\\", "/">>,
              <<"\\", "u", "0000">>, <<"\\", "u", "d800">>, <<"\\", "u", "dc00">>,
              <<"\\", "u", "d800", "\\", "u", "dc00">>}}
    \cup {<<"1", ".", "5", "e", "-", "7">>, <<"-", "1", "2", ".", "0">>, <<"1", "e", "9">>,
          <<"0", ".", "0", "1", "0", "2">>, <<"-", "0", ".", "0">>, <<"1", "2", "3", ".", "4", "5">>,
          <<"1", "e", "5", "0">>, <<"2", "5">>, <<"-", "2", "1">>, <<"-", "2", "2">>,
          <<"1", "e", "+">>, <<"1", "e", "+", "0", "1">>, <<"1", "NUL">>}
    \cup {Brackets(Brackets(Brackets(s))) : s \in {<<>>, <<"[", "]">>, <<"1", ",", " ", "1">>, <<"1", ",">>}}
    \cup {Braces(s) : s \in {MemberText(<<"A">>, <<"1", "e", "1", "0">>) \o <<",">>
                                 \o MemberText(<<"b">>, <<"[", "]">>),
              MemberText(<<"a">>, <<"[", "1", ",", " ", "{", "}", "]">>) \o <<",">>
                  \o MemberText(<<"\\", "\"">>, <<"null">>) \o <<",", " ">>
                  \o MemberText(<<"a">>, Quote(<<"b">>)),
              MemberText(<<"a">>, <<"1">>) \o <<",">>, MemberText(<<"a", "\n">>, <<"1">>)}}
    \cup {<<"BOM">> \o Braces(MemberText(<<"\\", "n">>, Braces(MemberText(<<"b">>, <<"-", "1">>))))}

-----------------------------------------------------------------------------
(* The two stores share nothing: each is explored while the other is fresh. *)

MCInit == Init /\ InitStore
MCNext ==
    \/ document = {} /\ Next /\ UNCHANGED store
    \/ Init /\ NextStore /\ UNCHANGED vars
MCSpec == MCInit /\ [][MCNext]_<<vars, store>>

====

------------------------------- MODULE JsonGrammar -------------------------------
(***************************************************************************)
(* What the grammar of RFC 8259, read as a definition, says that a text     *)
(* means: the reference for the parser and the serializer of Json.  A value *)
(* is as in Json, but for an object, which is the sequence of its members.  *)
(* A text has one meaning or, if it is no JSON, none.                       *)
(***************************************************************************)
EXTENDS Json

Before(s, i) == SubSeq(s, 1, i - 1)
After(s, i) == SubSeq(s, i + 1, Len(s))

Trimmed(s) ==
    LET solid == {i \in DOMAIN s : s[i] \notin WhiteSpace}
    IN  IF solid = {} THEN <<>> ELSE SubSeq(s, Min(solid), Max(solid))

Surrogates ==
    {h \in DOMAIN CodeUnit : IsHigh(CodeUnit[h])} \X {l \in DOMAIN CodeUnit : IsLow(CodeUnit[l])}

\* What may stand for a character between quotes
Spellings ==
    {<<<<c>>, c>> : c \in DOMAIN Code \ (Control \cup {"\"", "\\"})}
        \cup {<<<<"\\", "/">>, "/">>}
        \cup {<<<<"\\", e[2]>>, e[1]>> : e \in ShortEscapes}
        \cup UNION {{<<<<"\\", "u", g>>, c>> :
                        g \in {h \in DOMAIN CodeUnit : CodeUnit[h] = Code[c]}} : c \in DOMAIN Code}
        \cup UNION {{<<<<"\\", "u", p[1], "\\", "u", p[2]>>, c>> :
                        p \in {q \in Surrogates : Code[c] = 65536 + (CodeUnit[q[1]] - 55296) * 1024
                                                                  + (CodeUnit[q[2]] - 56320)}} :
                       c \in DOMAIN Code}

RECURSIVE Spelt(_)
Spelt(s) ==
    IF s = <<>> THEN {<<>>}
    ELSE UNION {{<<u[2]>> \o rest : rest \in Spelt(After(s, Len(u[1])))} :
                   u \in {v \in Spellings : IsPrefix(v[1], s)}}

TextOf(s) ==
    IF Len(s) >= 2 /\ s[1] = "\"" /\ s[Len(s)] = "\"" THEN Spelt(SubSeq(s, 2, Len(s) - 1)) ELSE {}

\* An integer, without or with a fraction and an exponent behind it
Numeral(s) ==
    s # <<>> /\ ToSet(s) \subseteq Digits /\ (s[1] = "0" => Len(s) = 1)
Figures(s) == s # <<>> /\ ToSet(s) \subseteq Digits
NumberMeant(s, negative) ==
    IF Numeral(s) THEN {IntValue(IF negative THEN -Value(s) ELSE Value(s))}
    ELSE LET exponents == {i \in DOMAIN s : s[i] \in {"e", "E"}}
             last == IF exponents = {} THEN Len(s) + 1 ELSE Min(exponents)
             points == {i \in DOMAIN s : s[i] = "."}
             point == IF points = {} THEN last ELSE Min(points)
             sign == IF At(s, last + 1) \in {"+", "-"} THEN 1 ELSE 0
             power == After(s, last + sign)
             scale == IF power = <<>> THEN 0
                      ELSE IF At(s, last + 1) = "-" THEN -Value(power) ELSE Value(power)
         IN  IF /\ Numeral(Before(s, point))
                /\ point < last => Figures(SubSeq(s, point + 1, last - 1))
                /\ point <= last
                /\ exponents # {} => Figures(power)
             THEN {RealValue(ToReal(negative, Before(s, point), SubSeq(s, point + 1, last - 1),
                                    scale))}
             ELSE {}
NumberOfText(s) ==
    {v \in IF At(s, 1) = "-" THEN NumberMeant(Tail(s), TRUE) ELSE NumberMeant(s, FALSE) :
        IF v.type = "int" THEN v.int \in (-IntMax - 1) .. IntMax
        ELSE v.real.exponent <= MaxExponent}

\* The value of a key that occurs again is that of the last, in the first place.
Put(members, key, value) ==
    LET again == {i \in DOMAIN members : members[i].key = key}
        member == [key |-> key, value |-> value]
    IN  IF again = {} THEN Append(members, member)
        ELSE [i \in DOMAIN members |-> IF i \in again THEN member ELSE members[i]]
Object(members) == [type |-> "object", members |-> members]

RECURSIVE Denotes(_, _)

\* A list of one item or more
RECURSIVE Items(_, _)
Items(s, depth) ==
    {<<v>> : v \in Denotes(s, depth)} \cup
        UNION {{<<v>> \o rest : v \in Denotes(Before(s, i), depth),
                                rest \in Items(After(s, i), depth)} :
                  i \in {j \in DOMAIN s : s[j] = ","}}

\* What a list of members adds to those before it
RECURSIVE MembersOf(_, _, _)
MembersOf(s, depth, members) ==
    LET add(text) ==
            UNION {{Put(members, k, v) : k \in TextOf(Trimmed(Before(text, i))),
                                         v \in Denotes(After(text, i), depth)} :
                      i \in {j \in DOMAIN text : text[j] = ":"}}
    IN  add(s) \cup
            UNION {UNION {MembersOf(After(s, i), depth, m) : m \in add(Before(s, i))} :
                      i \in {j \in DOMAIN s : s[j] = ","}}

\* What is between the brackets of a container
Inside(s) == Trimmed(SubSeq(s, 2, Len(s) - 1))
Encloses(s, open, close) == Len(s) >= 2 /\ s[1] = open /\ s[Len(s)] = close

DenotesTrimmed(s, depth) ==
    CASE s = <<"null">> -> {NullValue}
      [] s = <<"true">> -> {BoolValue(TRUE)}
      [] s = <<"false">> -> {BoolValue(FALSE)}
      [] Encloses(s, "[", "]") /\ depth < MaxDepth ->
             {[NewArray EXCEPT !.elements = e] :
                 e \in IF Inside(s) = <<>> THEN {<<>>} ELSE Items(Inside(s), depth + 1)}
      [] Encloses(s, "{", "}") /\ depth < MaxDepth ->
             {Object(m) :
                 m \in IF Inside(s) = <<>> THEN {<<>>} ELSE MembersOf(Inside(s), depth + 1, <<>>)}
      [] At(s, 1) \in Digits \cup {"-"} -> NumberOfText(s)
      [] OTHER -> {TextValue(t) : t \in TextOf(s)}
Denotes(s, depth) == DenotesTrimmed(Trimmed(s), depth)

\* What a document means: a byte order mark may go before it.
Meant(file) ==
    UNION {IF At(d, 1) = "BOM" THEN Denotes(Tail(d), 0) ELSE Denotes(d, 0) : d \in file}

\* The meaning of a value of Json
RECURSIVE Meaning(_)
Meaning(json) ==
    CASE json.type = "array" ->
             [json EXCEPT !.elements = [i \in DOMAIN @ |-> Meaning(@[i])]]
      [] json.type = "object" ->
             Object([i \in DOMAIN json.nodes |->
                 [key |-> json.nodes[i].key, value |-> Meaning(json.nodes[i].value)]])
      [] OTHER -> json
====

--------------------------------- MODULE Json ---------------------------------
(***************************************************************************)
(* JSON documents (utils/src/json.c): the values, the hash table behind an  *)
(* object, the serializer and the parser.                                   *)
(*                                                                          *)
(* A text is a sequence of symbols: mostly single characters, "BS" and      *)
(* "SOH" (control characters without a name here), "NUL", "BOM" (a byte     *)
(* order mark), a literal such as "null" and, after \u, the group of its    *)
(* four digits.  A failure is {}, a success the set of its result.          *)
(* Allocation succeeds.                                                     *)
(***************************************************************************)
EXTENDS Integers, SequencesExt, FiniteSets

CONSTANTS
    Code,            \* [symbols -> Nat]: the code points of characters, and a number
                     \* of its own for a symbol that stands for several
    InitialBuckets,  \* BB_JSON_INITIAL_BUCKET_COUNT
    MaxDepth,        \* BB_JSON_MAX_DEPTH
    IntMax,          \* INT_MAX
    MaxExponent      \* the decimal exponent of FLT_MAX

ASSUME JsonAssumption ==
    /\ InitialBuckets \in Nat \ {0}
    /\ MaxDepth \in Nat
    /\ IntMax \in Nat
    /\ MaxExponent \in Nat

Digits == {"0", "1", "2", "3", "4", "5", "6", "7", "8", "9"}
WhiteSpace == {" ", "\t", "\n", "\r"}
Control == {"BS", "\t", "\n", "\f", "\r", "SOH"}

\* The characters that have an escape of two characters, with its second one
ShortEscapes ==
    {<<"\\", "\\">>, <<"\"", "\"">>, <<"\n", "n">>, <<"\t", "t">>, <<"\r", "r">>,
     <<"BS", "b">>, <<"\f", "f">>}

\* The groups of hexadecimal digits that occur, with their values
CodeUnit == [g \in {"0000", "0001", "0041", "d800", "dc00"} |->
    CASE g = "0000" -> 0 [] g = "0001" -> 1 [] g = "0041" -> 65
      [] g = "d800" -> 55296 [] g = "dc00" -> 56320]

-----------------------------------------------------------------------------
(* Values *)

NullValue == [type |-> "null"]
BoolValue(b) == [type |-> "bool", bool |-> b]
IntValue(n) == [type |-> "int", int |-> n]
RealValue(r) == [type |-> "real", real |-> r]
TextValue(t) == [type |-> "text", text |-> t]
NewArray == [type |-> "array", elements |-> <<>>]

\* The chains of the buckets, and the ordered list of nodes
NewObject ==
    [type |-> "object", chains |-> [b \in 0 .. InitialBuckets - 1 |-> <<>>], nodes |-> <<>>]

\* bb_json_array_push
ArrayPush(array, element) == [array EXCEPT !.elements = Append(@, element)]

\* hash_function: the number of buckets is a power of two.
Hash(key, buckets) ==
    FoldSeq(LAMBDA c, hash : (hash * 33 + Code[c]) % buckets, 5381 % buckets, key)

Buckets(object) == Cardinality(DOMAIN object.chains)

\* Mutant of Resize: the nodes stay in the buckets they were in.
ResizeKeepsChains(object, buckets) ==
    [object EXCEPT !.chains =
        [b \in 0 .. buckets - 1 |-> IF b \in DOMAIN object.chains THEN object.chains[b] ELSE <<>>]]

\* _json_object_resize: each node goes to the front of its new chain.
Resize(object, buckets) ==
    LET keys == FlattenSeq([i \in 1 .. Buckets(object) |-> object.chains[i - 1]])
    IN  [object EXCEPT !.chains =
            [b \in 0 .. buckets - 1 |->
                Reverse(SelectSeq(keys, LAMBDA k : Hash(k, buckets) = b))]]

\* The buckets are doubled when three in four would be in use.
Grown(object) ==
    IF 4 * Len(object.nodes) >= 3 * Buckets(object)
    THEN Resize(object, 2 * Buckets(object)) ELSE object

Chain(object, key) == object.chains[Hash(key, Buckets(object))]
Has(object, key) == \E i \in DOMAIN Chain(object, key) : Chain(object, key)[i] = key

\* The value of a key that is found is replaced where it stands in the order.
SetNode(object, key, value) ==
    IF Has(object, key)
    THEN [object EXCEPT !.nodes =
             [i \in DOMAIN @ |-> IF @[i].key = key THEN [key |-> key, value |-> value] ELSE @[i]]]
    ELSE [object EXCEPT !.chains[Hash(key, Buckets(object))] = <<key>> \o @,
                        !.nodes = Append(@, [key |-> key, value |-> value])]

\* bb_json_object_set_value, which refuses what is no object
ObjectSet(json, key, value) ==
    IF json.type = "object" THEN SetNode(Grown(json), key, value) ELSE json

\* bb_json_object_get_value
ObjectGet(json, key) ==
    IF json.type = "object" /\ Has(json, key)
    THEN {n.value : n \in {m \in ToSet(json.nodes) : m.key = key}} ELSE {}

\* bb_json_object_remove_key
ObjectRemove(json, key) ==
    IF json.type = "object" /\ Has(json, key)
    THEN [json EXCEPT !.chains[Hash(key, Buckets(json))] = SelectSeq(@, LAMBDA k : k # key),
                      !.nodes = SelectSeq(@, LAMBDA n : n.key # key)]
    ELSE json

-----------------------------------------------------------------------------
(* Numbers.  A real is its sign, its significant digits and the exponent of   *)
(* the first of them: numbers are short enough for a float to keep them.      *)

DigitOf == [n \in 0 .. 9 |-> <<"0", "1", "2", "3", "4", "5", "6", "7", "8", "9">>[n + 1]]
Value(digits) ==
    FoldLeft(LAMBDA n, d : 10 * n + (CHOOSE v \in 0 .. 9 : DigitOf[v] = d), 0, digits)

RECURSIVE Natural(_)
Natural(n) == IF n < 10 THEN <<DigitOf[n]>> ELSE Append(Natural(n \div 10), DigitOf[n % 10])

Zeros(n) == [i \in 1 .. n |-> "0"]
Sign(negative) == IF negative THEN <<"-">> ELSE <<>>

\* strtof of the digits before and after the point and of an exponent
ToReal(negative, before, after, exponent) ==
    LET all == before \o after
        significant == {i \in DOMAIN all : all[i] # "0"}
        first == CHOOSE i \in significant : \A j \in significant : i <= j
        last == CHOOSE i \in significant : \A j \in significant : i >= j
    IN  IF significant = {} THEN [negative |-> negative, digits |-> <<>>, exponent |-> 0]
        ELSE [negative |-> negative, digits |-> SubSeq(all, first, last),
              exponent |-> Len(before) - first + exponent]

\* "%.*f" of a number that is not zero
Fixed(digits, exponent) ==
    LET n == Len(digits)
    IN  IF exponent < 0 THEN <<"0", ".">> \o Zeros(-1 - exponent) \o digits
        ELSE IF n <= exponent + 1 THEN digits \o Zeros(exponent + 1 - n) \o <<".", "0">>
        ELSE SubSeq(digits, 1, exponent + 1) \o <<".">> \o SubSeq(digits, exponent + 2, n)

\* "%.*e": an exponent has at least two digits.
Scientific(digits, exponent) ==
    LET size == IF exponent < 0 THEN -exponent ELSE exponent
    IN  <<digits[1]>> \o (IF Len(digits) = 1 THEN <<>> ELSE <<".">> \o Tail(digits))
        \o <<"e", IF exponent < 0 THEN "-" ELSE "+">>
        \o (IF size < 10 THEN <<"0">> ELSE <<>>) \o Natural(size)

\* format_real: the shortest digits that give the same float
FormatReal(r) ==
    Sign(r.negative) \o
        (IF r.digits = <<>> THEN <<"0", ".", "0">>
         ELSE IF r.exponent \in -5 .. 8 THEN Fixed(r.digits, r.exponent)
         ELSE Scientific(r.digits, r.exponent))

FormatInt(n) == IF n < 0 THEN <<"-">> \o Natural(-n) ELSE Natural(n)

-----------------------------------------------------------------------------
(* The serializer.  The pass that measures the text and the pass that writes  *)
(* it walk the same code, with and without a buffer.                          *)

\* json_escape_string
Escape(text) ==
    FlattenSeq([i \in DOMAIN text |->
        IF \E e \in ShortEscapes : e[1] = text[i]
        THEN <<"\\", (CHOOSE e \in ShortEscapes : e[1] = text[i])[2]>>
        ELSE IF text[i] \in Control
        THEN <<"\\", "u", CHOOSE g \in DOMAIN CodeUnit : CodeUnit[g] = Code[text[i]]>>
        ELSE <<text[i]>>])

Quoted(text) == <<"\"">> \o Escape(text) \o <<"\"">>
Tabs(n) == [i \in 1 .. n |-> "\t"]

\* serialize_json_to_allocated_buffer, for what is not a container
Scalar(json) ==
    CASE json.type = "null" -> <<"null">>
      [] json.type = "bool" -> IF json.bool THEN <<"true">> ELSE <<"false">>
      [] json.type = "int" -> FormatInt(json.int)
      [] json.type = "real" -> FormatReal(json.real)
      [] json.type = "text" -> Quoted(json.text)

\* Members are separated by ", ".
Joined(texts) ==
    FlattenSeq([i \in DOMAIN texts |-> texts[i] \o (IF i < Len(texts) THEN <<",", " ">> ELSE <<>>)])

Container(json) == json.type \in {"array", "object"}

\* serialize_array_json and serialize_object_json without indentation
RECURSIVE Plain(_)
Plain(json) ==
    CASE json.type = "array" ->
             <<"[">> \o Joined([i \in DOMAIN json.elements |-> Plain(json.elements[i])]) \o <<"]">>
      [] json.type = "object" ->
             <<"{">> \o Joined([i \in DOMAIN json.nodes |->
                 Quoted(json.nodes[i].key) \o <<":", " ">> \o Plain(json.nodes[i].value)]) \o <<"}">>
      [] OTHER -> Scalar(json)

\* serialize_json_with_indent: an array is indented for the containers in it.
RECURSIVE Indented(_, _)
Indented(json, indent) ==
    CASE json.type = "object" ->
             LET member(n) == <<"\n">> \o Tabs(indent + 1) \o Quoted(n.key) \o <<":", " ">>
                                  \o Indented(n.value, indent + 1)
             IN  <<"{">> \o Joined([i \in DOMAIN json.nodes |-> member(json.nodes[i])])
                     \o <<"\n">> \o Tabs(indent) \o <<"}">>
      [] json.type = "array" /\ (\E i \in DOMAIN json.elements : Container(json.elements[i])) ->
             LET line(i) == Tabs(indent + 1) \o Indented(json.elements[i], indent + 1)
                                \o (IF i < Len(json.elements) THEN <<",", " ">> ELSE <<>>) \o <<"\n">>
             IN  <<"[", "\n">> \o FlattenSeq([i \in DOMAIN json.elements |-> line(i)])
                     \o Tabs(indent) \o <<"]">>
      [] OTHER -> Plain(json)

-----------------------------------------------------------------------------
(* The parser.  A result is a value and the place after it.                   *)

At(s, i) == IF i <= Len(s) THEN s[i] ELSE "NUL"

\* The first place from i on that holds something else
Past(s, i, symbols) ==
    CHOOSE j \in i .. (Len(s) + 1) :
        /\ At(s, j) \notin symbols
        /\ \A k \in i .. (j - 1) : s[k] \in symbols
SkipSpace(s, i) == Past(s, i, WhiteSpace)

Parsed(value, next) == {[value |-> value, next |-> next]}

\* The end of an optional fraction and of an optional exponent that begin at i;
\* 0 if there are no digits where there must be.
FractionEnd(s, i) ==
    IF At(s, i) # "." THEN i
    ELSE IF At(s, i + 1) \in Digits THEN Past(s, i + 1, Digits) ELSE 0
ExponentEnd(s, i) ==
    LET first == IF At(s, i + 1) \in {"+", "-"} THEN i + 2 ELSE i + 1
    IN  IF At(s, i) \notin {"e", "E"} THEN i
        ELSE IF At(s, first) \in Digits THEN Past(s, first, Digits) ELSE 0

IntResult(n, next) == IF n \in (-IntMax - 1) .. IntMax THEN Parsed(IntValue(n), next) ELSE {}
RealResult(r, next) == IF r.exponent <= MaxExponent THEN Parsed(RealValue(r), next) ELSE {}

\* The value of an exponent, from its letter on
ExponentValue(s) ==
    IF s = <<>> THEN 0
    ELSE IF s[2] \in {"+", "-"}
    THEN (IF s[2] = "-" THEN -1 ELSE 1) * Value(SubSeq(s, 3, Len(s)))
    ELSE Value(Tail(s))

\* The number whose parts end before the places given
NumberOf(s, i, int, point, fraction, next) ==
    LET negative == s[i] = "-"
        digits == SubSeq(s, int, point - 1)
    IN  IF next = point
        THEN IntResult((IF negative THEN -1 ELSE 1) * Value(digits), next)
        ELSE RealResult(ToReal(negative, digits, SubSeq(s, point + 1, fraction - 1),
                               ExponentValue(SubSeq(s, fraction, next - 1))), next)

\* parse_json_str_number
ParseNumber(s, i) ==
    LET int == IF At(s, i) = "-" THEN i + 1 ELSE i
        point == IF At(s, int) = "0" THEN int + 1 ELSE Past(s, int, Digits)
        fraction == FractionEnd(s, point)
        next == ExponentEnd(s, fraction)
    IN  IF \/ At(s, int) \notin Digits
           \/ At(s, int) = "0" /\ At(s, point) \in Digits
           \/ fraction = 0 \/ next = 0
        THEN {} ELSE NumberOf(s, i, int, point, fraction, next)

\* The first pass of parse_json_string_raw: the closing quote, or 0
RECURSIVE Closing(_, _)
Closing(s, i) ==
    CASE At(s, i) = "\"" -> i
      [] At(s, i) = "NUL" -> 0
      [] At(s, i) = "\\" -> IF At(s, i + 1) = "NUL" THEN 0 ELSE Closing(s, i + 2)
      [] OTHER -> Closing(s, i + 1)

IsHigh(unit) == unit \in 55296 .. 56319
IsLow(unit) == unit \in 56320 .. 57343
Utf8Encode(point) == CHOOSE c \in DOMAIN Code : Code[c] = point

\* The escape of four digits, or of twice four, whose \u is before place k: its
\* code point and the number of symbols after the \u.
CodePoint(s, k) ==
    IF At(s, k) \notin DOMAIN CodeUnit THEN {}
    ELSE IF IsHigh(CodeUnit[s[k]])
    THEN IF /\ At(s, k + 1) = "\\" /\ At(s, k + 2) = "u"
            /\ At(s, k + 3) \in DOMAIN CodeUnit /\ IsLow(CodeUnit[At(s, k + 3)])
         THEN {[point |-> 65536 + (CodeUnit[s[k]] - 55296) * 1024 + (CodeUnit[s[k + 3]] - 56320),
                size |-> 4]}
         ELSE {}
    ELSE IF IsLow(CodeUnit[s[k]]) \/ CodeUnit[s[k]] = 0 THEN {}
    ELSE {[point |-> CodeUnit[s[k]], size |-> 1]}

\* The second pass: the text of a body without its quotes
RECURSIVE Decode(_, _)
Decode(s, k) ==
    IF k > Len(s) THEN {<<>>}
    ELSE IF s[k] \in Control THEN {}
    ELSE IF s[k] # "\\" THEN {<<s[k]>> \o rest : rest \in Decode(s, k + 1)}
    ELSE IF At(s, k + 1) = "/" THEN {<<"/">> \o rest : rest \in Decode(s, k + 2)}
    ELSE IF At(s, k + 1) = "u"
    THEN UNION {{<<Utf8Encode(p.point)>> \o rest : rest \in Decode(s, k + 2 + p.size)} :
                   p \in CodePoint(s, k + 2)}
    ELSE UNION {{<<e[1]>> \o rest : rest \in Decode(s, k + 2)} :
                   e \in {x \in ShortEscapes : x[2] = At(s, k + 1)}}

\* parse_json_string_raw
ParseString(s, i) ==
    LET end == Closing(s, i + 1)
    IN  IF end = 0 THEN {}
        ELSE {[value |-> t, next |-> end + 1] : t \in Decode(SubSeq(s, i + 1, end - 1), 1)}

RECURSIVE Partial(_, _, _)

\* What follows the opening bracket or a comma of an array
RECURSIVE Elements(_, _, _, _)
Elements(s, i, depth, array) ==
    UNION {LET grown == ArrayPush(array, r.value)
               end == SkipSpace(s, r.next)
           IN  CASE At(s, end) = "]" -> Parsed(grown, end + 1)
                 [] At(s, end) = "," -> Elements(s, SkipSpace(s, end + 1), depth, grown)
                 [] OTHER -> {} :
              r \in Partial(s, i, depth + 1)}

\* parse_json_str_array
ParseArray(s, i, depth) ==
    LET first == SkipSpace(s, i + 1)
    IN  IF depth >= MaxDepth THEN {}
        ELSE IF At(s, first) = "]" THEN Parsed(NewArray, first + 1)
        ELSE Elements(s, first, depth, NewArray)

\* parse_and_add_json_object_pair
Pair(s, i, depth, object) ==
    IF At(s, i) # "\"" THEN {}
    ELSE UNION {LET colon == SkipSpace(s, k.next)
                IN  IF At(s, colon) # ":" THEN {}
                    ELSE {[value |-> ObjectSet(object, k.value, v.value), next |-> v.next] :
                             v \in Partial(s, SkipSpace(s, colon + 1), depth + 1)} :
                   k \in ParseString(s, i)}

RECURSIVE Members(_, _, _, _)
Members(s, i, depth, object) ==
    UNION {LET end == SkipSpace(s, r.next)
           IN  CASE At(s, end) = "}" -> Parsed(r.value, end + 1)
                 [] At(s, end) = "," -> Members(s, SkipSpace(s, end + 1), depth, r.value)
                 [] OTHER -> {} :
              r \in Pair(s, i, depth, object)}

\* parse_json_str_object
ParseObject(s, i, depth) ==
    LET first == SkipSpace(s, i + 1)
    IN  IF depth >= MaxDepth THEN {}
        ELSE IF At(s, first) = "}" THEN Parsed(NewObject, first + 1)
        ELSE Members(s, first, depth, NewObject)

\* parse_json_str_partial
ValueAt(s, i, depth) ==
    CASE At(s, i) = "{" -> ParseObject(s, i, depth)
      [] At(s, i) = "[" -> ParseArray(s, i, depth)
      [] At(s, i) = "null" -> Parsed(NullValue, i + 1)
      [] At(s, i) = "true" -> Parsed(BoolValue(TRUE), i + 1)
      [] At(s, i) = "false" -> Parsed(BoolValue(FALSE), i + 1)
      [] At(s, i) = "\"" ->
             {[value |-> TextValue(t.value), next |-> t.next] : t \in ParseString(s, i)}
      [] At(s, i) \in Digits \cup {"-"} -> ParseNumber(s, i)
      [] OTHER -> {}
Partial(s, i, depth) == ValueAt(s, SkipSpace(s, i), depth)

\* bb_json_parse: nothing may follow but white space.
Parse(s) ==
    {r.value : r \in {p \in Partial(s, 1, 0) : SkipSpace(s, p.next) = Len(s) + 1}}

\* bb_json_load of a file, which may not exist
Load(file) ==
    UNION {IF "NUL" \in ToSet(s) THEN {}
           ELSE IF At(s, 1) = "BOM" THEN Parse(Tail(s)) ELSE Parse(s) : s \in file}

\* bb_json_dump: the file is emptied before anything is known to be written.
Dump(json) == IF json = {} THEN {<<>>} ELSE {Indented(j, 0) : j \in json}
====

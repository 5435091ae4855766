-------------------------------- MODULE Query --------------------------------
(***************************************************************************)
(* Queries of the persistence module: the builder and the evaluation in     *)
(* memory (query.c), and the statements into which the SQLite and the       *)
(* PostgreSQL backend translate them.                                       *)
(*                                                                          *)
(* The schema has a field of each kind that a query tells apart: an INT     *)
(* primary key "id", a STRING "name" and a BLOB "data".  A text is a        *)
(* sequence of bytes, because the translation of patterns is about single   *)
(* bytes; a blob is one byte.                                               *)
(***************************************************************************)
EXTENDS Integers, SequencesExt

CONSTANTS
    MaxConditions,  \* BB_QUERY_MAX_CONDITIONS
    MaxSorts,       \* BB_QUERY_MAX_SORTS
    IntRange        \* the number of values of a C int

ASSUME QueryAssumption ==
    /\ MaxConditions \in Nat
    /\ MaxSorts \in Nat
    /\ IntRange \in Nat \ {0, 1}

\* The bytes that mean something to a pattern language
Percent == 37
Star == 42
Question == 63
LeftBracket == 91
Backslash == 92
RightBracket == 93
Underscore == 95

FieldType == [id |-> "int", name |-> "string", data |-> "blob"]
Fields == DOMAIN FieldType
Textual(field) == FieldType[field] = "string"

-----------------------------------------------------------------------------
(* The builder *)

NoQuery == [conditions |-> <<>>, sorts |-> <<>>, limit |-> -1, offset |-> -1]

\* bb_query_where, which may refuse
Where(q, field, cmp, value) ==
    IF field \in Fields /\ Len(q.conditions) < MaxConditions
    THEN [q EXCEPT !.conditions =
             Append(@, [field |-> field, cmp |-> cmp, value |-> value])]
    ELSE q

\* bb_query_order_by, which may refuse
OrderBy(q, field, direction) ==
    IF field \in Fields /\ Len(q.sorts) < MaxSorts
    THEN [q EXCEPT !.sorts = Append(@, [field |-> field, direction |-> direction])]
    ELSE q

-----------------------------------------------------------------------------
(* Comparison *)

Byte(text, i) == IF i <= Len(text) THEN text[i] ELSE 0

\* strncmp and memcmp: the first byte that differs decides, and a text ends
\* with a zero byte.
TextOrder(a, b) ==
    LET differs == {i \in 1 .. Len(a) + Len(b) : Byte(a, i) # Byte(b, i)}
    IN  IF differs = {} THEN 0
        ELSE LET first == CHOOSE i \in differs : \A j \in differs : i <= j
             IN  IF Byte(a, first) < Byte(b, first) THEN -1 ELSE 1

NumberOrder(a, b) == IF a < b THEN -1 ELSE IF a > b THEN 1 ELSE 0

\* bb_field_compare
FieldCompare(field, a, b) ==
    IF Textual(field) THEN TextOrder(a, b) ELSE NumberOrder(a, b)

Satisfies(order, cmp) ==
    CASE cmp = "eq" -> order = 0
      [] cmp = "ne" -> order # 0
      [] cmp = "lt" -> order < 0
      [] cmp = "lte" -> order <= 0
      [] cmp = "gt" -> order > 0
      [] cmp = "gte" -> order >= 0

\* bb_like_match: from which places does the text match the pattern from j?  A run
\* of percent signs is one, and one at the end matches whatever is left.
LikeMatch(text, pattern) ==
    LET past(j) == CHOOSE k \in j .. Len(pattern) + 1 :
                      /\ \A l \in j .. k - 1 : pattern[l] = Percent
                      /\ k <= Len(pattern) => pattern[k] # Percent
        match[j \in 1 .. Len(pattern) + 1] ==
            IF j > Len(pattern) THEN {Len(text) + 1}
            ELSE IF pattern[j] = Percent
                 THEN {i \in 1 .. Len(text) + 1 :
                         \/ past(j) > Len(pattern)
                         \/ \E from \in i .. Len(text) : from \in match[past(j)]}
            ELSE {i \in 1 .. Len(text) : text[i] = pattern[j] /\ i + 1 \in match[j + 1]}
    IN  1 \in match[1]

\* bb_cond_matches
CondMatches(row, c) ==
    IF c.cmp = "like" THEN Textual(c.field) /\ LikeMatch(row[c.field], c.value)
    ELSE Satisfies(FieldCompare(c.field, row[c.field], c.value), c.cmp)

\* bb_query_matches
Matches(row, q) == \A i \in DOMAIN q.conditions : CondMatches(row, q.conditions[i])

-----------------------------------------------------------------------------
(* Evaluation in memory *)

\* bb_sort_cmp: the first key that differs decides.
SortCompare(sorts, a, b) ==
    LET order(i) == FieldCompare(sorts[i].field, a[sorts[i].field], b[sorts[i].field])
        differs == {i \in DOMAIN sorts : order(i) # 0}
    IN  IF differs = {} THEN 0
        ELSE LET first == CHOOSE i \in differs : \A j \in differs : i <= j
             IN  IF sorts[first].direction = "asc" THEN order(first) ELSE -order(first)

\* The orders in which a sort may leave rows: neither qsort nor SQL says what
\* becomes of equal ones.
Sorted(rows, sorts) ==
    {s \in SetToSeqs(rows) :
        \A i, j \in DOMAIN s : i < j => SortCompare(sorts, s[i], s[j]) <= 0}

\* Offset and limit of bb_query_apply
Page(s, limit, offset) ==
    LET start == IF offset > 0 THEN offset ELSE 0
        available == Len(s) - start
        count == IF limit >= 0 /\ limit < available THEN limit ELSE available
    IN  IF start >= Len(s) THEN <<>> ELSE SubSeq(s, start + 1, start + count)

\* The elements of s at the indices in keep
Those(s, keep) == FlattenSeq([i \in DOMAIN s |-> IF i \in keep THEN <<s[i]>> ELSE <<>>])

\* bb_query_apply: the arrays that it may return
Apply(q, in) ==
    LET matched == Those(in, {i \in DOMAIN in : Matches(in[i], q)})
    IN  {Page(s, q.limit, q.offset) :
            s \in IF q.sorts = <<>> THEN {matched}
                  ELSE Sorted(ToSet(matched), q.sorts)}

\* The reference: what a query may return for the rows of a table, in whatever
\* order they are listed.
Reference(q, rows) == UNION {Apply(q, in) : in \in SetToSeqs(rows)}

-----------------------------------------------------------------------------
(* What the databases do with a statement *)

\* A pattern as tokens: a run of any bytes, any one byte, or a certain byte
Run == [kind |-> "run"]
One == [kind |-> "one"]
Literal(byte) == [kind |-> "literal", byte |-> byte]
Never == [kind |-> "never"]

\* From which places does the text match the tokens from j?
TokensMatch(text, tokens) ==
    LET match[j \in 1 .. Len(tokens) + 1] ==
            IF j > Len(tokens) THEN {Len(text) + 1}
            ELSE IF tokens[j] = Run
                 THEN {i \in 1 .. Len(text) + 1 : \E from \in match[j + 1] : i <= from}
            ELSE {i \in 1 .. Len(text) :
                    tokens[j] \in {One, Literal(text[i])} /\ i + 1 \in match[j + 1]}
    IN  1 \in match[1]

\* GLOB of SQLite: '*', '?' and classes, here of one byte; a bracket that is not
\* closed matches nothing.
GlobTokens(pattern) ==
    LET tokens[i \in 1 .. Len(pattern) + 1] ==
            IF i > Len(pattern) THEN <<>>
            ELSE CASE pattern[i] = Star -> <<Run>> \o tokens[i + 1]
                   [] pattern[i] = Question -> <<One>> \o tokens[i + 1]
                   [] pattern[i] = LeftBracket ->
                          IF i + 2 <= Len(pattern) /\ pattern[i + 2] = RightBracket
                          THEN <<Literal(pattern[i + 1])>> \o tokens[i + 3]
                          ELSE <<Never>>
                   [] OTHER -> <<Literal(pattern[i])>> \o tokens[i + 1]
    IN  tokens[1]

\* LIKE of PostgreSQL: '%', '_', and a backslash that quotes the next byte
LikeTokens(pattern) ==
    LET tokens[i \in 1 .. Len(pattern) + 1] ==
            IF i > Len(pattern) THEN <<>>
            ELSE CASE pattern[i] = Percent -> <<Run>> \o tokens[i + 1]
                   [] pattern[i] = Underscore -> <<One>> \o tokens[i + 1]
                   [] pattern[i] = Backslash ->
                          IF i < Len(pattern)
                          THEN <<Literal(pattern[i + 1])>> \o tokens[i + 2]
                          ELSE <<Never>>
                   [] OTHER -> <<Literal(pattern[i])>> \o tokens[i + 1]
    IN  tokens[1]

\* ORDER BY ... LIMIT ... OFFSET over the rows that WHERE leaves: a negative limit
\* is none, a negative offset is zero.  Texts are ordered by their bytes: the
\* order BINARY of SQLite, and COLLATE "C" on each text of a PostgreSQL statement.
Select(rows, sorts, limit, offset) == {Page(s, limit, offset) : s \in Sorted(rows, sorts)}

-----------------------------------------------------------------------------
(* The statements *)

\* A long that is passed on as an int
ToInt(n) ==
    LET low == n % IntRange IN IF 2 * low >= IntRange THEN low - IntRange ELSE low

\* like_pattern_to_glob: the bytes that mean something to GLOB become classes.
LikePatternToGlob(pattern) ==
    LET glob(byte) ==
            CASE byte = Percent -> <<Star>>
              [] byte \in {Star, Question, LeftBracket} ->
                     <<LeftBracket, byte, RightBracket>>
              [] OTHER -> <<byte>>
    IN  FlattenSeq([i \in DOMAIN pattern |-> glob(pattern[i])])

\* The WHERE clause of sqlite_query: LIKE is the constant 0 where there is no
\* text.
SqliteHolds(row, c) ==
    IF c.cmp = "like"
    THEN /\ Textual(c.field)
         /\ TokensMatch(row[c.field], GlobTokens(LikePatternToGlob(c.value)))
    ELSE Satisfies(FieldCompare(c.field, row[c.field], c.value), c.cmp)

\* sqlite_query: LIMIT -1 for an offset alone, both bound as int
SqliteQuery(q, rows) ==
    Select({row \in rows : \A i \in DOMAIN q.conditions : SqliteHolds(row, q.conditions[i])},
           q.sorts,
           IF q.limit >= 0 THEN ToInt(q.limit) ELSE -1,
           IF q.offset >= 0 THEN ToInt(q.offset) ELSE 0)

\* Mutant of EscapeLikePattern: only the underscore is quoted.
EscapeOnlyUnderscore(pattern) ==
    LET escaped(byte) == IF byte = Underscore THEN <<Backslash, byte>> ELSE <<byte>>
    IN  FlattenSeq([i \in DOMAIN pattern |-> escaped(pattern[i])])

\* escape_like_pattern: '_' and '\' become literal.
EscapeLikePattern(pattern) ==
    LET escaped(byte) == IF byte \in {Backslash, Underscore} THEN <<Backslash, byte>> ELSE <<byte>>
    IN  FlattenSeq([i \in DOMAIN pattern |-> escaped(pattern[i])])

\* The WHERE clause of pg_query_conn
PgHolds(row, c) ==
    IF c.cmp = "like"
    THEN /\ Textual(c.field)
         /\ TokensMatch(row[c.field], LikeTokens(EscapeLikePattern(c.value)))
    ELSE Satisfies(FieldCompare(c.field, row[c.field], c.value), c.cmp)

\* pg_query_conn: limit and offset are passed as text and keep their width.
PgQuery(q, rows) ==
    Select({row \in rows : \A i \in DOMAIN q.conditions : PgHolds(row, q.conditions[i])},
           q.sorts,
           q.limit,
           IF q.offset >= 0 THEN q.offset ELSE 0)

====

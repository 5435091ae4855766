-------------------------------- MODULE KeyValue --------------------------------
(***************************************************************************)
(* The key-value store (persist/src/key_val): a JSON document in a file, a  *)
(* directory with a file for each key, and a table of SQLite.  The three    *)
(* are given the same calls, so that what they answer can be compared.      *)
(*                                                                          *)
(* Every call opens the store, does one thing and closes it, so that the    *)
(* store is all the state there is.  Data are texts without a NUL, which    *)
(* the JSON backend would cut; input and output succeed.                    *)
(***************************************************************************)
EXTENDS JsonGrammar

CONSTANTS
    Keys,      \* the keys that are used, texts
    Data,      \* the data that are saved, texts
    Documents  \* the texts that the JSON file may hold to begin with

VARIABLES
    document,   \* the JSON file: {} if there is none, else the set of its text
    directory,  \* [Keys -> SUBSET Data]: the datum in the file of each key, if any
    records,    \* the table: pairs of a key and a value
    kept        \* reference: what the JSON file should mean, {} if it is no JSON

store == <<document, directory, records, kept>>

-----------------------------------------------------------------------------
(* The backends *)

\* json_save of a file that is read again: what cannot be read is replaced, and
\* what is no object is written as it was.
DocumentSave(file, key, data) ==
    LET read == Load(file)
        old == IF read = {} THEN NewObject ELSE CHOOSE j \in read : TRUE
    IN  Dump({ObjectSet(old, key, TextValue(data))})

\* json_remove: what cannot be read is truncated.
DocumentRemove(file, key) == Dump({ObjectRemove(j, key) : j \in Load(file)})

\* json_load, for members that are texts
DocumentLoad(file, key) ==
    {v.text : v \in {w \in UNION {ObjectGet(j, key) : j \in Load(file)} : w.type = "text"}}

\* file_load
FileLoad(key) == directory[key]

\* "INSERT OR REPLACE INTO kv", "DELETE FROM kv" and "SELECT value FROM kv"
SqliteRemove(rows, key) == {r \in rows : r.key # key}
SqliteSave(rows, key, data) == SqliteRemove(rows, key) \cup {[key |-> key, value |-> data]}
SqliteLoad(key) == {r.value : r \in {s \in records : s.key = key}}

-----------------------------------------------------------------------------
(* The reference: what a save and a remove do to the meaning of a document    *)

KeptAfterSave(key, data) ==
    IF kept = {} THEN {Object(Put(<<>>, key, TextValue(data)))}
    ELSE {IF v.type = "object" THEN Object(Put(v.members, key, TextValue(data))) ELSE v :
             v \in kept}

KeptAfterRemove(key) ==
    {IF v.type = "object" THEN Object(SelectSeq(v.members, LAMBDA m : m.key # key)) ELSE v :
        v \in kept}

-----------------------------------------------------------------------------
InitStore ==
    /\ document \in {{}} \cup {{d} : d \in Documents}
    /\ directory = [k \in Keys |-> {}]
    /\ records = {}
    /\ kept = Meant(document)

\* bb_persist_kv_save
KvSave(key, data) ==
    /\ document' = DocumentSave(document, key, data)
    /\ directory' = [directory EXCEPT ![key] = {data}]
    /\ records' = SqliteSave(records, key, data)
    /\ kept' = KeptAfterSave(key, data)

\* bb_persist_kv_remove
KvRemove(key) ==
    /\ document' = DocumentRemove(document, key)
    /\ directory' = [directory EXCEPT ![key] = {}]
    /\ records' = SqliteRemove(records, key)
    /\ kept' = KeptAfterRemove(key)

NextStore ==
    \/ \E k \in Keys, d \in Data : KvSave(k, d)
    \/ \E k \in Keys : KvRemove(k)

-----------------------------------------------------------------------------
(* Properties *)

TextsOf(values, key) ==
    UNION {{m.value.text : m \in {n \in ToSet(v.members) : n.key = key /\ n.value.type = "text"}} :
              v \in {w \in values : w.type = "object"}}

\* "The key-value system provides simple storage APIs" (docs/persist/overview.md)
\* whichever backend is chosen: the JSON file means what it was given, member by
\* member and with all that the document had before - through the parser, the
\* hash table as it grows, the escapes and the numbers of each call, against the
\* grammar of RFC 8259 - and what was saved is found by its key in all three
\* backends, unless the document is no object.
KeyValuesKept ==
    /\ {Meaning(j) : j \in Load(document)} = kept
    /\ \A k \in Keys :
          /\ DocumentLoad(document, k) = TextsOf(kept, k)
          /\ FileLoad(k) = SqliteLoad(k)
          /\ FileLoad(k) # {} /\ (\A v \in kept : v.type = "object")
                 => DocumentLoad(document, k) = FileLoad(k)

====

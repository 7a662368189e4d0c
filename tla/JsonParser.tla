----------------------------- MODULE JsonParser -----------------------------
(***************************************************************************)
(* src/common/json_parser.c: a parser of one JSON object that takes one    *)
(* character at a time and keeps names and values in a buffer and their    *)
(* places in a table, both the caller's.  It is used as in the example     *)
(* (main.c:178): the buffer is the message itself, as long as the message, *)
(* and the separator ends a C string.                                      *)
(***************************************************************************)
EXTENDS Integers, Sequences

CONSTANTS
    Char,
    Message,        \* the messages: sequences of characters
    entry_max       \* length of the table

ASSUME JsonConstants ==
    /\ \A m \in Message : m \in Seq(Char)
    /\ entry_max \in Nat \ {0}

VARIABLES
    msg,            \* the message, as it was received
    taken,          \* characters of it that were given to a_json_append
    s, escaped, recur,
    stored,         \* what is in the buffer: its length is buf_pos
    entry           \* what is in the table: its length is entry_pos

jsonVars == <<msg, taken, s, escaped, recur, stored, entry>>

sep == "NUL"
Space == {" ", "\t", "\n", "\f", "\r", "VT"}
Escapable == {"\\", "/", "\r", "\n", "\f", "\t", "\""}
Finished == {"JSON_BAD", "JSON_GOOD"}

JsonState ==
    Finished \cup {"JSON_INIT", "JSON_NAME", "JSON_NAME_IN_STR", "JSON_NAME_END",
        "JSON_VALUE", "JSON_VALUE_IN_STR", "JSON_VALUE_END", "JSON_VALUE_IN_VAL"}

\* For an empty message a_json_init returns before it has written anything, and
\* its caller goes on: the state is what was in the memory of the object.
a_json_init ==
    /\ msg \in Message
    /\ taken = 0
    /\ s \in (IF msg = <<>> THEN JsonState ELSE {"JSON_INIT"})
    /\ escaped = FALSE /\ recur = 0
    /\ stored = <<>>
    /\ entry = <<>>

-----------------------------------------------------------------------------
uncounted(state) ==
    s' = IF Len(stored') < Len(msg) THEN state ELSE "JSON_BAD"

check_length(state) ==
    s' = IF Len(stored') < Len(msg) /\ Len(entry') <= entry_max THEN state ELSE "JSON_BAD"

bad ==
    /\ s' = "JSON_BAD"
    /\ UNCHANGED <<recur, stored, entry>>

Store(c) == stored' = Append(stored, c)
StartText == entry' = Append(entry, Len(stored))

InString == s \in {"JSON_NAME_IN_STR", "JSON_VALUE_IN_STR"}
NoName == s = "JSON_NAME_IN_STR" /\ Len(stored) = entry[Len(entry)]

\* the character behind a backslash
escaped_char(c) ==
    /\ InString /\ escaped
    /\ escaped' = FALSE
    /\ \/ /\ c \in Escapable
          /\ Store(c) /\ UNCHANGED <<recur, entry>>
          /\ check_length(s)
       \/ c \notin Escapable /\ bad

string_char(c) ==
    /\ InString /\ ~escaped /\ c # "\""
    /\ escaped' = (c = "\\")
    /\ IF escaped' THEN UNCHANGED stored ELSE Store(c)
    /\ UNCHANGED <<recur, entry>>
    /\ check_length(s)

end_of_string(c) ==
    /\ InString /\ ~escaped /\ c = "\""
    /\ UNCHANGED escaped
    /\ \/ NoName /\ bad
       \/ /\ ~NoName
          /\ Store(sep) /\ UNCHANGED <<recur, entry>>
          /\ check_length(IF s = "JSON_NAME_IN_STR" THEN "JSON_NAME_END" ELSE "JSON_VALUE_END")

space_unended ==
    /\ UNCHANGED <<stored, entry>>
    /\ check_length(IF s = "JSON_VALUE_IN_VAL" THEN "JSON_VALUE_END" ELSE s)

\* label _space: a number or a word ends here
space ==
    /\ IF s = "JSON_VALUE_IN_VAL" THEN Store(sep) ELSE UNCHANGED stored
    /\ UNCHANGED entry
    /\ check_length(IF s = "JSON_VALUE_IN_VAL" THEN "JSON_VALUE_END" ELSE s)

\* An object within the object: its members follow in the same table, behind an
\* empty value.
open_object ==
    \/ /\ s = "JSON_INIT"
       /\ UNCHANGED <<recur, stored, entry>>
       /\ check_length("JSON_NAME")
    \/ /\ s = "JSON_VALUE"
       /\ StartText /\ Store(sep)
       /\ recur' = recur + 1
       /\ check_length("JSON_NAME")
    \/ s \notin {"JSON_INIT", "JSON_VALUE"} /\ bad

\* label _good: the last character stored is a separator
close_object ==
    \/ /\ recur > 0
       /\ recur' = recur - 1
       /\ space
    \/ /\ recur = 0 /\ s \in {"JSON_VALUE_IN_VAL", "JSON_VALUE_END"}
       /\ IF s = "JSON_VALUE_IN_VAL" THEN Store(sep) ELSE UNCHANGED stored
       /\ s' = "JSON_GOOD"
       /\ UNCHANGED <<recur, entry>>
    \/ recur = 0 /\ s \notin {"JSON_VALUE_IN_VAL", "JSON_VALUE_END"} /\ bad

colon ==
    \/ /\ s = "JSON_NAME_END"
       /\ UNCHANGED <<recur, stored, entry>>
       /\ check_length("JSON_VALUE")
    \/ s # "JSON_NAME_END" /\ bad

comma ==
    \/ /\ s \in {"JSON_VALUE_IN_VAL", "JSON_VALUE_END"}
       /\ IF s = "JSON_VALUE_IN_VAL" THEN Store(sep) ELSE UNCHANGED stored
       /\ UNCHANGED <<recur, entry>>
       /\ check_length("JSON_NAME")
    \/ s \notin {"JSON_VALUE_IN_VAL", "JSON_VALUE_END"} /\ bad

start_of_string ==
    \/ /\ s \in {"JSON_NAME", "JSON_VALUE"}
       /\ StartText /\ UNCHANGED <<recur, stored>>
       /\ check_length(IF s = "JSON_NAME" THEN "JSON_NAME_IN_STR" ELSE "JSON_VALUE_IN_STR")
    \/ s \notin {"JSON_NAME", "JSON_VALUE"} /\ bad

\* Where no number or word is expected the character is passed over.
other_char(c) ==
    /\ IF s = "JSON_VALUE" THEN StartText ELSE UNCHANGED entry
    /\ IF s \in {"JSON_VALUE", "JSON_VALUE_IN_VAL"} THEN Store(c) ELSE UNCHANGED stored
    /\ UNCHANGED recur
    /\ check_length(IF s = "JSON_VALUE" THEN "JSON_VALUE_IN_VAL" ELSE s)

outside_string(c) ==
    /\ ~InString
    /\ UNCHANGED escaped
    /\ \/ c \in Space /\ space /\ UNCHANGED recur
       \/ c = "{" /\ open_object
       \/ c = "}" /\ close_object
       \/ c = ":" /\ colon
       \/ c = "," /\ comma
       \/ c = "\"" /\ start_of_string
       \/ c \notin Space \cup {"{", "}", ":", ",", "\""} /\ other_char(c)

a_json_append(c) ==
    escaped_char(c) \/ string_char(c) \/ end_of_string(c) \/ outside_string(c)

\* One character of the loop, which ends when a_json_append returns true.
a_json_append_str_sized ==
    /\ taken < Len(msg) /\ s \notin Finished
    /\ taken' = taken + 1
    /\ a_json_append(msg[taken'])
    /\ UNCHANGED msg

JsonSpec == a_json_init /\ [][a_json_append_str_sized]_jsonVars

-----------------------------------------------------------------------------
\* Each field has its type, and each stored place is one of the buffer.
JsonTypeOK ==
    /\ msg \in Seq(Char)
    /\ taken \in 0 .. Len(msg)
    /\ s \in JsonState
    /\ escaped \in BOOLEAN
    /\ recur \in Nat
    /\ stored \in Seq(Char \cup {sep})
    /\ entry \in Seq(0 .. Len(msg))

\* Whatever the message is: what is written never overtakes what is read of the
\* same memory, so that no character is lost before it is parsed (and the buffer
\* is never too short); and an accepted message has one name for each value, all
\* of them in the table.  The table is checked after a place was stored, so a
\* message with too many members is refused one place behind its end.
InPlace ==
    /\ IF taken = 0 THEN stored = <<>> ELSE Len(stored) < taken
    /\ Len(entry) <= entry_max + 1
    /\ s = "JSON_GOOD" => Len(entry) <= entry_max /\ Len(entry) % 2 = 0
=============================================================================

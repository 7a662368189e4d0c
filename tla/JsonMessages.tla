---------------------------- MODULE JsonMessages ----------------------------
(***************************************************************************)
(* What the parser is to make of a message: documents are written as text, *)
(* with or without spaces, and their members are looked up in the parsed   *)
(* message.  A document is the sequence of its members in the order of the *)
(* text.  A member is a name with a text in quotes, a word without, or an  *)
(* object, whose members follow it; its depth says in how many inner       *)
(* objects it is.                                                          *)
(***************************************************************************)
EXTENDS JsonParser, SequencesExt

CONSTANTS
    Doc,        \* the documents
    Gap         \* what may stand between two tokens

TextChar == Char \ {sep}
WordChar == TextChar \ (Space \cup {"{", "}", ":", ",", "\""})
MemberType ==
    [name : Seq(TextChar), kind : {"text", "word", "object"}, text : Seq(TextChar), depth : Nat]

\* Members have names, words are not empty, an object has no text of its own but a
\* member, which is one deeper, and no member is deeper than the one before for
\* another reason.
IsDocument(doc) ==
    /\ doc \in Seq(MemberType)
    /\ doc # <<>>
    /\ doc[1].depth = 0
    /\ \A i \in DOMAIN doc :
          /\ doc[i].name # <<>>
          /\ doc[i].kind = "word" => doc[i].text \in Seq(WordChar) /\ doc[i].text # <<>>
          /\ doc[i].kind = "object" =>
                /\ doc[i].text = <<>>
                /\ i + 1 \in DOMAIN doc
                /\ doc[i + 1].depth = doc[i].depth + 1
          /\ doc[i].kind # "object" /\ i + 1 \in DOMAIN doc =>
                doc[i + 1].depth <= doc[i].depth

ASSUME DocType == \A doc \in Doc : IsDocument(doc)
ASSUME GapType == \A gap \in Gap : gap \in Seq(Space)

\* A quote and a backslash are escaped.
InQuotes(c) == IF c \in {"\"", "\\"} THEN <<"\\", c>> ELSE <<c>>

Quoted(text) ==
    <<"\"">> \o FlattenSeq([i \in DOMAIN text |-> InQuotes(text[i])]) \o <<"\"">>

Value(mem) ==
    CASE mem.kind = "text" -> Quoted(mem.text)
      [] mem.kind = "word" -> mem.text
      [] mem.kind = "object" -> <<"{">>

\* The inner objects that end behind a member: the next one is not in them.
NextDepth(doc, i) == IF i = Len(doc) THEN 0 ELSE doc[i + 1].depth
Ending(doc, i) == IF doc[i].kind = "object" THEN 0 ELSE doc[i].depth - NextDepth(doc, i)

Braces(n, gap) == FlattenSeq([k \in 1 .. n |-> <<"}">> \o gap])
Separator(doc, i, gap) ==
    IF i = 1 \/ doc[i - 1].kind = "object" THEN <<>> ELSE <<",">> \o gap

Member(doc, i, gap) ==
    Separator(doc, i, gap) \o Quoted(doc[i].name) \o gap \o <<":">> \o gap
        \o Value(doc[i]) \o gap \o Braces(Ending(doc, i), gap)

Render(doc, gap) ==
    <<"{">> \o gap \o FlattenSeq([i \in DOMAIN doc |-> Member(doc, i, gap)]) \o <<"}">>

Undamaged == {Render(doc, gap) : doc \in Doc, gap \in Gap}

-----------------------------------------------------------------------------
\* The C string that begins at place p of the buffer.
CString(p) == SubSeq(stored, p + 1, SelectInSubSeq(stored, p + 1, Len(stored), LAMBDA c : c = sep) - 1)

NotFound == "NULL"
Outside == "outside"

\* What _get_prop may return: the value of the first pair with that name.  When
\* there is none, the free pairs are compared, whose place is -1, one before the
\* buffer, and then what stands behind the table, as long as that is negative:
\* in the end nothing is found, or what was found outside of both.
a_json_get_prop(prop) ==
    LET i == SelectInSeq([k \in 1 .. Len(entry) \div 2 |-> CString(entry[2 * k - 1])],
                         LAMBDA name : name = prop)
    IN  IF i = 0 THEN {NotFound, Outside} ELSE {CString(entry[2 * i])}

HasName(doc, prop) == \E i \in DOMAIN doc : doc[i].name = prop

\* Each document for which the table has room is accepted, and each of its names
\* is found with the value of the first member of that name, through escapes,
\* spaces and inner objects, while a name of other documents is given the value
\* of no member (main.c:183 asks for names that may be missing); a document with
\* more members is refused.
FindsMembers ==
    \A doc \in Doc, gap \in Gap :
        (taken = Len(msg) \/ s \in Finished) /\ msg = Render(doc, gap) =>
            IF 2 * Len(doc) <= entry_max
            THEN /\ s = "JSON_GOOD"
                 /\ Len(entry) = 2 * Len(doc)
                 /\ \A i \in DOMAIN doc :
                       a_json_get_prop(doc[i].name) =
                           {doc[SelectInSeq(doc, LAMBDA mem : mem.name = doc[i].name)].text}
                 /\ \A other \in Doc : \A i \in DOMAIN other :
                       HasName(doc, other[i].name)
                           \/ a_json_get_prop(other[i].name) = {NotFound, Outside}
            ELSE s = "JSON_BAD"
=============================================================================

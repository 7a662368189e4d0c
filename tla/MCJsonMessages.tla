--------------------------- MODULE MCJsonMessages ---------------------------
(***************************************************************************)
(* Documents with escapes, empty values, a name used twice and objects in  *)
(* the object, one of them too large for the table, and what becomes of    *)
(* them when one character is lost or another, or the end is cut off, up   *)
(* to the empty message.                                                   *)
(***************************************************************************)
EXTENDS JsonMessages

member(name, kind, value, depth) == [name |-> name, kind |-> kind, text |-> value, depth |-> depth]
text(name, value) == member(name, "text", value, 0)
word(name, value) == member(name, "word", value, 0)
object(name) == member(name, "object", <<>>, 0)
in(mem) == [mem EXCEPT !.depth = @ + 1]

plain == <<"a">>
quote == <<"\"", "b">>

MCDoc ==
    { <<text(plain, <<"x">>)>>,
      <<word(plain, <<"1">>), text(quote, <<>>)>>,
      <<text(plain, <<"\\", ":">>), word(quote, <<"1", "2">>)>>,
      <<word(quote, <<"1">>), word(quote, <<"2">>)>>,
      <<object(plain), in(word(quote, <<"1">>))>>,
      <<object(quote), in(object(plain)), in(in(word(plain, <<"1">>)))>>,
      <<object(plain), in(text(plain, <<"}">>)), text(quote, <<"x">>)>>,
      <<word(plain, <<"1">>), object(quote), in(text(plain, <<"x">>)), in(word(quote, <<"2">>))>> }

MCGap == {<<>>, <<" ">>}

Syntax == {"{", "}", ":", ",", "\"", " ", "\\", "x"}
MCChar == Syntax \cup {"a", "b", "1", "2"}

MCMessage ==
    LET intact == {Render(d, <<>>) : d \in MCDoc}
    IN  {<<>>} \cup Undamaged
        \cup UNION {{[m EXCEPT ![i] = c] : i \in DOMAIN m, c \in Syntax} : m \in intact}
        \cup UNION {{SubSeq(m, 1, i - 1) \o SubSeq(m, i + 1, Len(m)) : i \in DOMAIN m} : m \in intact}
        \cup UNION {{SubSeq(m, 1, i) : i \in DOMAIN m} : m \in intact}
=============================================================================

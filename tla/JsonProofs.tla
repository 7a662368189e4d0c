----------------------------- MODULE JsonProofs -----------------------------
(***************************************************************************)
(* Proofs about the JSON parser, for messages and tables of any length:    *)
(* that it is sound in place whatever the message is, and that it finds    *)
(* the members of every document, however many they are, however deep its  *)
(* objects and whatever the gap between their tokens.                      *)
(***************************************************************************)
EXTENDS JsonMessages, WellFoundedInduction, TLAPS

(***************************************************************************)
(* The parser: JsonTypeOK and InPlace, for any messages and any length of  *)
(* the table.  They are inductive with the parity of the table: in the     *)
(* states in which a value is due the table holds one name more than       *)
(* values, in all others as many of each, and it is never longer than      *)
(* entry_max while the parser goes on.                                     *)
(***************************************************************************)

ValueDue == {"JSON_NAME_IN_STR", "JSON_NAME_END", "JSON_VALUE"}

\* Names and values come in turn.
InTurn(state, places) ==
    /\ Len(places) <= entry_max
    /\ state \in ValueDue => Len(places) % 2 = 1
    /\ state \notin ValueDue => Len(places) % 2 = 0

JsonInv ==
    /\ JsonTypeOK
    /\ InPlace
    /\ taken = 0 /\ msg # <<>> => s = "JSON_INIT"
    /\ s # "JSON_BAD" /\ msg # <<>> => InTurn(s, entry)

\* What a character does to the two arrays: at most one character and one place
\* are stored, none before the object has begun, and a state that goes on has
\* passed check_length.
Effect ==
    /\ \/ UNCHANGED stored
       \/ s # "JSON_INIT" /\ \E c \in Char \cup {sep} : stored' = Append(stored, c)
    /\ entry' = entry \/ entry' = Append(entry, Len(stored))
    /\ escaped' \in BOOLEAN /\ recur' \in Nat /\ s' \in JsonState
    /\ s' # "JSON_BAD" => InTurn(s', entry')

\* Adding a place changes the parity.
LEMMA AppendPlace ==
    ASSUME NEW n \in Nat, NEW places \in Seq(0 .. n), NEW p \in 0 .. n
    PROVE  /\ Append(places, p) \in Seq(0 .. n)
           /\ Len(Append(places, p)) = Len(places) + 1
           /\ Len(places) % 2 = 0 => Len(Append(places, p)) % 2 = 1
           /\ Len(places) % 2 = 1 => Len(Append(places, p)) % 2 = 0
  <1>1. Len(Append(places, p)) = Len(places) + 1 /\ Len(places) \in Nat
    OBVIOUS
  <1>2. ASSUME NEW k \in Nat
        PROVE  (k % 2 = 0 => (k + 1) % 2 = 1) /\ (k % 2 = 1 => (k + 1) % 2 = 0)
    BY SMT
  <1>3. QED
    BY <1>1, <1>2

\* Each branch of a_json_append has the effect.
LEMMA AppendEffect ==
    ASSUME JsonInv, s \notin Finished, msg # <<>>, NEW c \in Char, a_json_append(c)
    PROVE  Effect
  <1> DEFINE opened == Append(entry, Len(stored))
  <1>1. /\ Len(entry) \in Nat /\ Len(stored) \in Nat /\ sep \in Char \cup {sep}
        /\ Len(opened) = Len(entry) + 1
        /\ Len(entry) % 2 = 0 => Len(opened) % 2 = 1
        /\ Len(entry) % 2 = 1 => Len(opened) % 2 = 0
    <2>1. Len(msg) \in Nat /\ Len(stored) \in 0 .. Len(msg)
      BY DEF JsonInv, JsonTypeOK, InPlace
    <2>2. entry \in Seq(0 .. Len(msg))
      BY DEF JsonInv, JsonTypeOK
    <2>3. Len(entry) \in Nat
      BY <2>2
    <2>4. Len(stored) \in Nat
      BY <2>1
    <2>5. QED
      BY <2>1, <2>2, <2>3, <2>4, AppendPlace DEF opened
  <1> HIDE DEF opened
  <1>2. /\ escaped \in BOOLEAN /\ recur \in Nat /\ s \in JsonState /\ c \in Char
        /\ InTurn(s, entry)
    BY DEF JsonInv, JsonTypeOK, Finished
  <1> USE DEF Effect, InTurn, ValueDue, JsonState, Finished, check_length, Store, StartText
  <1>3. CASE escaped_char(c)
    BY <1>1, <1>2, <1>3 DEF escaped_char, InString, bad
  <1>4. CASE string_char(c)
    BY <1>1, <1>2, <1>4 DEF string_char, InString
  <1>5. CASE end_of_string(c)
    BY <1>1, <1>2, <1>5 DEF end_of_string, InString, bad
  <1>6. CASE outside_string(c)
    <2> escaped' = escaped /\ ~InString
      BY <1>6 DEF outside_string
    <2>1. CASE c \in Space /\ space /\ UNCHANGED recur
      BY <1>1, <1>2, <2>1 DEF space
    <2>2. CASE c = "{" /\ open_object
      <3>1. CASE s = "JSON_INIT"
        BY <1>1, <1>2, <2>2, <3>1 DEF open_object, bad
      <3>2. CASE s = "JSON_VALUE"
        <4>1. entry' = opened /\ stored' = Append(stored, sep) /\ recur' = recur + 1
          BY <2>2, <3>2 DEF open_object, bad, opened
        <4>2. s' \in {"JSON_NAME", "JSON_BAD"} /\ (s' # "JSON_BAD" => Len(entry') <= entry_max)
          BY <2>2, <3>2 DEF open_object, bad
        <4>3. Len(opened) % 2 = 0
          BY <1>1, <1>2, <3>2
        <4>4. QED
          BY <1>1, <1>2, <3>2, <4>1, <4>2, <4>3 DEF opened
      <3>3. CASE s \notin {"JSON_INIT", "JSON_VALUE"}
        BY <1>1, <1>2, <2>2, <3>3 DEF open_object, bad
      <3>4. QED
        BY <3>1, <3>2, <3>3
    <2>3. CASE c = "}" /\ close_object
      <3> recur \in Nat
        BY <1>2
      <3>1. CASE recur > 0
        <4>1. recur # 0
          BY <3>1
        <4>2. recur' = recur - 1 /\ space
          BY <2>3, <4>1, Zenon DEF close_object
        <4>3. recur' \in Nat
          BY <3>1, <4>2
        <4>4. QED
          BY <1>1, <1>2, <4>2, <4>3 DEF space
      <3>2. CASE ~(recur > 0)
        <4>1. /\ entry' = entry /\ recur' = recur
              /\ stored' = stored \/ (s # "JSON_INIT" /\ stored' = Append(stored, sep))
              /\ s' = "JSON_BAD" \/ (s' = "JSON_GOOD" /\ s \in {"JSON_VALUE_IN_VAL", "JSON_VALUE_END"})
          BY <2>3, <3>2 DEF close_object, bad
        <4>2. QED
          BY <1>1, <1>2, <4>1
      <3>3. QED
        BY <3>1, <3>2
    <2>4. CASE c = ":" /\ colon
      BY <1>1, <1>2, <2>4 DEF colon, bad
    <2>5. CASE c = "," /\ comma
      BY <1>1, <1>2, <2>5 DEF comma, bad
    <2>6. CASE c = "\"" /\ start_of_string
      BY <1>1, <1>2, <2>6 DEF start_of_string, bad, opened
    <2>7. CASE c \notin Space \cup {"{", "}", ":", ",", "\""} /\ other_char(c)
      BY <1>1, <1>2, <2>7 DEF other_char, opened, InString
    <2>8. QED
      BY <1>6, <2>1, <2>2, <2>3, <2>4, <2>5, <2>6, <2>7 DEF outside_string
  <1>7. QED
    BY <1>3, <1>4, <1>5, <1>6 DEF a_json_append

\* One character keeps the invariant.
LEMMA CharacterStep == JsonInv /\ a_json_append_str_sized => JsonInv'
  <1> SUFFICES ASSUME JsonInv, a_json_append_str_sized PROVE JsonInv'
    OBVIOUS
  <1>1. /\ taken \in Nat /\ taken < Len(msg) /\ taken' = taken + 1 /\ msg' = msg
        /\ Len(msg) \in Nat /\ msg \in Seq(Char) /\ stored \in Seq(Char \cup {sep})
        /\ entry \in Seq(0 .. Len(msg)) /\ s \notin Finished /\ msg # <<>>
    BY DEF JsonInv, JsonTypeOK, a_json_append_str_sized
  <1>2. Effect
    <2>1. msg[taken'] \in Char
      BY <1>1
    <2>2. QED
      BY <1>1, <2>1, AppendEffect DEF a_json_append_str_sized
  <1>3. Len(stored) \in 0 .. taken
    BY <1>1 DEF JsonInv, InPlace
  <1>4. \A c \in Char \cup {sep} : /\ Append(stored, c) \in Seq(Char \cup {sep})
                                  /\ Len(Append(stored, c)) = Len(stored) + 1
    <2> DEFINE C == Char \cup {sep}
    <2>1. stored \in Seq(C)
      BY <1>1
    <2> HIDE DEF C
    <2>2. \A c \in C : Append(stored, c) \in Seq(C) /\ Len(Append(stored, c)) = Len(stored) + 1
      BY <2>1
    <2>3. QED
      BY <2>2 DEF C
  <1>5. stored' \in Seq(Char \cup {sep}) /\ (stored' = stored \/ (s # "JSON_INIT" /\ Len(stored') = Len(stored) + 1))
    BY <1>1, <1>2, <1>4 DEF Effect
  <1>6. Len(stored') < taken'
    BY <1>1, <1>3, <1>5 DEF JsonInv, InPlace
  <1>7. entry' \in Seq(0 .. Len(msg)) /\ Len(entry') \in Nat /\ Len(entry') <= entry_max + 1
    <2>1. Len(entry) \in Nat /\ Len(entry) <= entry_max /\ entry_max \in Nat
      BY <1>1, JsonConstants DEF JsonInv, InTurn, Finished
    <2>2. Len(stored) \in 0 .. Len(msg)
      BY <1>1, <1>3
    <2>3. /\ Append(entry, Len(stored)) \in Seq(0 .. Len(msg))
          /\ Len(Append(entry, Len(stored))) = Len(entry) + 1
      BY <1>1, <2>2, AppendPlace
    <2>4. CASE entry' = entry
      BY <1>1, <2>1, <2>4
    <2>5. CASE entry' = Append(entry, Len(stored))
      BY <2>1, <2>3, <2>5
    <2>6. QED
      BY <1>2, <2>4, <2>5 DEF Effect
  <1>8. JsonTypeOK'
    BY <1>1, <1>2, <1>5, <1>7 DEF JsonTypeOK, Effect
  <1>9. InPlace'
    <2>1. s' = "JSON_GOOD" => InTurn(s', entry')
      BY <1>2 DEF Effect
    <2>2. s' = "JSON_GOOD" => Len(entry') <= entry_max /\ Len(entry') % 2 = 0
      BY <2>1 DEF InTurn, ValueDue
    <2>3. QED
      BY <1>1, <1>6, <1>7, <2>2 DEF InPlace
  <1>10. QED
    BY <1>1, <1>2, <1>8, <1>9 DEF JsonInv, Effect, InTurn

\* The parser begins with nothing stored.
LEMMA JsonInitInv ==
    ASSUME msg \in Seq(Char), taken = 0, s = "JSON_INIT" \/ (msg = <<>> /\ s \in JsonState),
           escaped = FALSE, recur = 0, stored = <<>>, entry = <<>>
    PROVE  JsonInv
  <1>1. Len(msg) \in Nat /\ entry_max \in Nat /\ Len(entry) = 0
    BY JsonConstants
  <1>2. JsonTypeOK
    <2>1. <<>> \in Seq(Char \cup {sep}) /\ <<>> \in Seq(0 .. Len(msg)) /\ 0 \in 0 .. Len(msg)
      BY <1>1
    <2>2. QED
      BY <2>1 DEF JsonTypeOK, JsonState
  <1>3. InPlace
    BY <1>1 DEF InPlace
  <1>4. msg # <<>> => InTurn(s, entry)
    <2>1. Len(entry) % 2 = 0
      BY <1>1
    <2>2. QED
      BY <1>1, <2>1 DEF InTurn, ValueDue
  <1>5. QED
    BY <1>2, <1>3, <1>4 DEF JsonInv

LEMMA InitialState ==
    ASSUME a_json_init
    PROVE  /\ msg \in Seq(Char) /\ taken = 0 /\ escaped = FALSE /\ recur = 0
           /\ stored = <<>> /\ entry = <<>>
           /\ s = "JSON_INIT" \/ (msg = <<>> /\ s \in JsonState)
  BY JsonConstants DEF a_json_init

\* A character, or none, keeps the invariant.
LEMMA JsonStepInv == JsonInv /\ [a_json_append_str_sized]_jsonVars => JsonInv'
  <1>1. JsonInv /\ UNCHANGED jsonVars => JsonInv'
    BY DEF jsonVars, JsonInv, JsonTypeOK, InPlace, InTurn
  <1>2. QED
    BY <1>1, CharacterStep

\* The invariant holds of every message, damaged or not.
THEOREM JsonInvHolds == JsonSpec => []JsonInv
  <1>1. a_json_init => JsonInv
    BY JsonConstants, InitialState, JsonInitInv
  <1>2. QED
    BY <1>1, JsonStepInv, PTL DEF JsonSpec

\* The parser's fields keep their types, and each stored place is one of the
\* message's.
THEOREM JsonTypesHold == JsonSpec => []JsonTypeOK
  BY JsonInvHolds, PTL DEF JsonInv

\* For messages and tables of every length: what is written into the message
\* stays behind what is read of it, no more than one place is stored behind the
\* table, and an accepted message has a value for each name, all in the table.
THEOREM InPlaceHolds == JsonSpec => []InPlace
  BY JsonInvHolds, PTL DEF JsonInv

(***************************************************************************)
(* Sequences put together. FlattenSeq is recursively defined, as a         *)
(* function: that it is well defined, and what its first and its last part *)
(* are, is shown of a least counterexample.                                *)
(***************************************************************************)

\* A set of numbers that is not empty has a least element.
LEMMA LeastOf ==
    ASSUME NEW S \in SUBSET Nat, S # {}
    PROVE  \E m \in S : \A k \in S : m <= k
  <1>1. PICK m \in S : \A k \in S : ~(<<k, m>> \in OpToRel(<, Nat))
    BY WFMin, NatLessThanWellFounded
  <1>2. \A k \in S : ~(k < m)
    BY <1>1 DEF OpToRel
  <1>3. QED
    BY <1>2

LEMMA ConcatAssoc ==
    ASSUME NEW S, NEW a \in Seq(S), NEW b \in Seq(S), NEW c \in Seq(S)
    PROVE  (a \o b) \o c = a \o (b \o c)
  OBVIOUS

\* The same of an operator of which the provers know nothing else.
Cat(p, q) == p \o q

LEMMA CatAssoc ==
    ASSUME NEW S, NEW a \in Seq(S), NEW b \in Seq(S), NEW c \in Seq(S)
    PROVE  Cat(Cat(a, b), c) = Cat(a, Cat(b, c))
  BY ConcatAssoc DEF Cat

LEMMA ConcatType ==
    ASSUME NEW S, NEW a \in Seq(S), NEW b \in Seq(S)
    PROVE  a \o b \in Seq(S)
  OBVIOUS

LEMMA ConcatEmptyRight ==
    ASSUME NEW S, NEW a \in Seq(S)
    PROVE  a \o <<>> = a /\ <<>> \o a = a
  OBVIOUS

\* What FlattenSeq is recursively defined by, for the first m parts.
Flattens(f, parts, m) ==
    f = [i \in 1 .. m |-> IF i = 1 THEN parts[i] ELSE f[i - 1] \o parts[i]]

LEMMA FlattenIs ==
    ASSUME NEW parts, Len(parts) # 0
    PROVE  FlattenSeq(parts) = (CHOOSE f : Flattens(f, parts, Len(parts)))[Len(parts)]
  BY DEF FlattenSeq, Flattens

LEMMA FlattenEmpty == FlattenSeq(<<>>) = <<>>
  BY DEF FlattenSeq

\* It is well defined: there is such a function,
LEMMA FlattensExists ==
    ASSUME NEW parts, NEW n \in Nat
    PROVE  \E f : Flattens(f, parts, n)
  <1> DEFINE Bad == {m \in Nat : ~\E f : Flattens(f, parts, m)}
  <1>1. Bad = {}
    <2> SUFFICES ASSUME Bad # {} PROVE FALSE
      OBVIOUS
    <2>1. PICK m \in Bad : \A k \in Bad : m <= k
      <3>1. Bad \in SUBSET Nat
        OBVIOUS
      <3> HIDE DEF Bad
      <3>2. QED
        BY <3>1, LeastOf
    <2>2. m \in Nat /\ ~\E f : Flattens(f, parts, m)
      BY <2>1
    <2>3. m # 0
      <3>1. Flattens([i \in 1 .. 0 |-> parts[i]], parts, 0)
        BY DEF Flattens
      <3>2. QED
        BY <3>1, <2>2
    <2>4. m - 1 \in Nat /\ m - 1 \notin Bad
      <3>1. m - 1 \in Nat /\ ~(m <= m - 1)
        BY <2>2, <2>3
      <3>2. QED
        BY <3>1, <2>1
    <2>5. PICK f : Flattens(f, parts, m - 1)
      BY <2>4
    <2> DEFINE g == [i \in 1 .. m |-> IF i = 1 THEN parts[i] ELSE f[i - 1] \o parts[i]]
    <2>6. \A i \in 1 .. m - 1 : g[i] = f[i]
      <3>1. \A i \in 1 .. m - 1 : f[i] = IF i = 1 THEN parts[i] ELSE f[i - 1] \o parts[i]
        BY <2>5 DEF Flattens
      <3>2. \A i \in 1 .. m - 1 : i \in 1 .. m
        BY <2>2
      <3>3. QED
        BY <3>1, <3>2
    <2>7. Flattens(g, parts, m)
      <3>1. \A i \in 1 .. m : i # 1 => i - 1 \in 1 .. m - 1
        BY <2>2
      <3>2. g = [i \in 1 .. m |-> IF i = 1 THEN parts[i] ELSE g[i - 1] \o parts[i]]
        BY <3>1, <2>6
      <3>3. QED
        BY <3>2 DEF Flattens
    <2>8. QED
      BY <2>2, <2>7
  <1>2. QED
    BY <1>1

\* and only one, on the parts it is about.
LEMMA FlattensAgree ==
    ASSUME NEW parts, NEW n \in Nat, NEW m \in Nat, n <= m,
           NEW f, Flattens(f, parts, n), NEW g, Flattens(g, parts, m)
    PROVE  \A i \in 1 .. n : f[i] = g[i]
  <1> DEFINE Bad == {i \in 1 .. n : f[i] # g[i]}
  <1>1. Bad = {}
    <2> SUFFICES ASSUME Bad # {} PROVE FALSE
      OBVIOUS
    <2>1. PICK i \in Bad : \A k \in Bad : i <= k
      <3>1. Bad \in SUBSET Nat
        OBVIOUS
      <3> HIDE DEF Bad
      <3>2. QED
        BY <3>1, LeastOf
    <2>2. i \in 1 .. n /\ i \in 1 .. m /\ f[i] # g[i]
      BY <2>1
    <2>3. /\ f[i] = IF i = 1 THEN parts[i] ELSE f[i - 1] \o parts[i]
          /\ g[i] = IF i = 1 THEN parts[i] ELSE g[i - 1] \o parts[i]
      BY <2>2 DEF Flattens
    <2>4. CASE i = 1
      BY <2>2, <2>3, <2>4
    <2>5. CASE i # 1
      <3>1. i - 1 \in 1 .. n /\ ~(i <= i - 1)
        BY <2>2, <2>5
      <3>2. f[i - 1] = g[i - 1]
        BY <3>1, <2>1
      <3>3. QED
        BY <3>2, <2>2, <2>3, <2>5
    <2>6. QED
      BY <2>4, <2>5
  <1>2. QED
    BY <1>1

\* The last part comes last.
LEMMA FlattenLast ==
    ASSUME NEW S, NEW n \in Nat, NEW parts \in [1 .. n + 1 -> Seq(S)]
    PROVE  /\ n = 0 => FlattenSeq(parts) = parts[1]
           /\ n # 0 => FlattenSeq(parts) = FlattenSeq([i \in 1 .. n |-> parts[i]]) \o parts[n + 1]
  <1> DEFINE front == [i \in 1 .. n |-> parts[i]]
             f == CHOOSE h : Flattens(h, parts, n + 1)
             g == CHOOSE h : Flattens(h, front, n)
  <1>1. parts \in Seq(Seq(S)) /\ Len(parts) = n + 1 /\ n + 1 # 0 /\ n + 1 \in Nat
    OBVIOUS
  <1>2. front \in Seq(Seq(S)) /\ Len(front) = n
    OBVIOUS
  <1>3. FlattenSeq(parts) = f[n + 1]
    BY <1>1, FlattenIs
  <1>4. Flattens(f, parts, n + 1)
    BY <1>1, FlattensExists
  <1> HIDE DEF f
  <1>5. f[n + 1] = IF n + 1 = 1 THEN parts[n + 1] ELSE f[n + 1 - 1] \o parts[n + 1]
    <2>1. n + 1 \in 1 .. n + 1
      OBVIOUS
    <2>2. \A i \in 1 .. n + 1 : f[i] = IF i = 1 THEN parts[i] ELSE f[i - 1] \o parts[i]
      BY <1>4 DEF Flattens
    <2>3. QED
      BY <2>1, <2>2
  <1>6. CASE n = 0
    BY <1>3, <1>5, <1>6
  <1>7. CASE n # 0
    <2>1. FlattenSeq(front) = g[n]
      BY <1>2, <1>7, FlattenIs
    <2>2. Flattens(g, front, n)
      BY FlattensExists
    <2> HIDE DEF g
    <2>3. Flattens(g, parts, n)
      <3>1. \A i \in 1 .. n : front[i] = parts[i]
        OBVIOUS
      <3> HIDE DEF front
      <3>2. QED
        BY <2>2, <3>1 DEF Flattens
    <2>4. g[n] = f[n]
      <3>1. n <= n + 1 /\ n \in 1 .. n
        BY <1>7
      <3>2. QED
        BY <3>1, <1>1, <1>4, <2>3, FlattensAgree
    <2>5. n + 1 # 1 /\ n + 1 - 1 = n
      BY <1>7
    <2>6. QED
      BY <1>3, <1>5, <1>7, <2>1, <2>4, <2>5
  <1>8. QED
    BY <1>6, <1>7

LEMMA FlattenType ==
    ASSUME NEW S, NEW n \in Nat, NEW parts \in [1 .. n -> Seq(S)]
    PROVE  FlattenSeq(parts) \in Seq(S)
  <1> DEFINE Bad == {m \in Nat : \E p \in [1 .. m -> Seq(S)] : FlattenSeq(p) \notin Seq(S)}
  <1>1. Bad = {}
    <2> SUFFICES ASSUME Bad # {} PROVE FALSE
      OBVIOUS
    <2>1. PICK m \in Bad : \A k \in Bad : m <= k
      <3>1. Bad \in SUBSET Nat
        OBVIOUS
      <3> HIDE DEF Bad
      <3>2. QED
        BY <3>1, LeastOf
    <2>2. PICK p \in [1 .. m -> Seq(S)] : FlattenSeq(p) \notin Seq(S)
      OBVIOUS
    <2>3. m # 0
      <3>1. m = 0 => p = <<>>
        OBVIOUS
      <3>2. QED
        BY <3>1, <2>2, FlattenEmpty
    <2> DEFINE k == m - 1
               front == [i \in 1 .. k |-> p[i]]
    <2>4. k \in Nat /\ m = k + 1 /\ k \notin Bad
      <3>1. m - 1 \in Nat /\ m = (m - 1) + 1 /\ ~(m <= m - 1)
        BY <2>1, <2>3
      <3>2. QED
        BY <3>1, <2>1
    <2>5. front \in [1 .. k -> Seq(S)]
      BY <2>4
    <2>6. FlattenSeq(front) \in Seq(S)
      BY <2>4, <2>5
    <2>7. p \in [1 .. k + 1 -> Seq(S)] /\ p[k + 1] \in Seq(S) /\ p[1] \in Seq(S)
      BY <2>4
    <2> HIDE DEF Bad, k
    <2>8. FlattenSeq(p) = p[1] \/ FlattenSeq(p) = FlattenSeq(front) \o p[k + 1]
      BY <2>4, <2>7, FlattenLast
    <2> HIDE DEF front
    <2>9. FlattenSeq(p) \in Seq(S)
      BY <2>6, <2>7, <2>8, ConcatType
    <2>10. QED
      BY <2>2, <2>9
  <1>2. QED
    BY <1>1

\* The first part comes first.
LEMMA FlattenFirst ==
    ASSUME NEW S, NEW n \in Nat, NEW parts \in [1 .. n + 1 -> Seq(S)]
    PROVE  FlattenSeq(parts) = parts[1] \o FlattenSeq([i \in 1 .. n |-> parts[i + 1]])
  <1> DEFINE Rest(p, m) == [i \in 1 .. m |-> p[i + 1]]
             Bad == {m \in Nat : \E p \in [1 .. m + 1 -> Seq(S)] :
                        FlattenSeq(p) # p[1] \o FlattenSeq(Rest(p, m))}
  <1>1. Bad = {}
    <2> SUFFICES ASSUME Bad # {} PROVE FALSE
      OBVIOUS
    <2>1. PICK m \in Bad : \A k \in Bad : m <= k
      <3>1. Bad \in SUBSET Nat
        OBVIOUS
      <3> HIDE DEF Bad
      <3>2. QED
        BY <3>1, LeastOf
    <2>2. PICK p \in [1 .. m + 1 -> Seq(S)] : FlattenSeq(p) # p[1] \o FlattenSeq(Rest(p, m))
      OBVIOUS
    <2>3. m \in Nat /\ p[1] \in Seq(S)
      OBVIOUS
    <2>4. m # 0
      <3>1. ASSUME m = 0 PROVE FALSE
        <4>1. Rest(p, m) = <<>>
          BY <3>1
        <4>2. FlattenSeq(p) = p[1]
          BY <3>1, <2>3, FlattenLast
        <4>3. p[1] \o <<>> = p[1]
          BY <2>3, ConcatEmptyRight
        <4>4. QED
          BY <2>2, <4>1, <4>2, <4>3, FlattenEmpty
      <3>2. QED
        BY <3>1
    <2> DEFINE k == m - 1
               front == [i \in 1 .. m |-> p[i]]
               rest == Rest(p, m)
    <2>5. k \in Nat /\ m = k + 1 /\ k \notin Bad
      <3>1. m - 1 \in Nat /\ m = (m - 1) + 1 /\ ~(m <= m - 1)
        BY <2>3, <2>4
      <3>2. QED
        BY <3>1, <2>1
    <2> HIDE DEF k
    <2>6. /\ front \in [1 .. k + 1 -> Seq(S)] /\ front[1] = p[1]
          /\ rest \in [1 .. k + 1 -> Seq(S)] /\ rest[k + 1] = p[m + 1]
          /\ Rest(front, k) = [i \in 1 .. k |-> rest[i]]
          /\ Rest(front, k) \in [1 .. k -> Seq(S)]
          /\ p[m + 1] \in Seq(S)
      BY <2>3, <2>5
    <2>r. rest \in [1 .. k + 1 -> Seq(S)] /\ k \in Nat
      BY <2>5, <2>6
    <2>7. FlattenSeq(front) = p[1] \o FlattenSeq(Rest(front, k))
      BY <2>5, <2>6
    <2>8. FlattenSeq(p) = FlattenSeq(front) \o p[m + 1]
      BY <2>3, <2>4, FlattenLast
    <2>9. CASE k = 0
      <3>1. FlattenSeq(rest) = rest[1] /\ rest[1] = p[m + 1]
        <4>1. k + 1 = 1
          BY <2>9
        <4> HIDE DEF rest
        <4>2. FlattenSeq(rest) = rest[1]
          BY <2>r, <2>9, FlattenLast
        <4>3. QED
          BY <4>1, <4>2, <2>6
      <3>2. Rest(front, k) = <<>>
        BY <2>9
      <3>3. QED
        BY <3>1, <3>2, <2>2, <2>3, <2>7, <2>8, FlattenEmpty, ConcatEmptyRight
    <2>10. CASE k # 0
      <3> HIDE DEF rest
      <3> DEFINE inner == FlattenSeq([i \in 1 .. k |-> rest[i]])
      <3>1. FlattenSeq(rest) = inner \o p[m + 1]
        <4>1. FlattenSeq(rest) = inner \o rest[k + 1]
          BY <2>r, <2>10, FlattenLast
        <4>2. QED
          BY <4>1, <2>6
      <3>2. inner \in Seq(S)
        <4>1. [i \in 1 .. k |-> rest[i]] \in [1 .. k -> Seq(S)]
          BY <2>5, <2>6
        <4>2. QED
          BY <4>1, <2>5, FlattenType
      <3>3. inner = FlattenSeq(Rest(front, k))
        BY <2>6
      <3>4. FlattenSeq(p) = (p[1] \o inner) \o p[m + 1]
        BY <2>7, <2>8, <3>3
      <3> HIDE DEF inner
      <3>5. FlattenSeq(p) = p[1] \o FlattenSeq(rest)
        <4>1. p[m + 1] \in Seq(S) /\ p[1] \in Seq(S)
          BY <2>6, <2>3
        <4>2. (p[1] \o inner) \o p[m + 1] = p[1] \o (inner \o p[m + 1])
          <5> DEFINE head == p[1]
                     last == p[m + 1]
          <5>1. head \in Seq(S) /\ last \in Seq(S)
            BY <4>1
          <5> HIDE DEF head, last
          <5>2. Cat(Cat(head, inner), last) = Cat(head, Cat(inner, last))
            BY <5>1, <3>2, CatAssoc
          <5>3. QED
            BY <5>2 DEF head, last, Cat
        <4>3. QED
          BY <4>2, <3>1, <3>4
      <3>6. QED
        BY <3>5, <2>2 DEF rest
    <2>11. QED
      BY <2>9, <2>10
  <1>2. QED
    BY <1>1

(***************************************************************************)
(* The text of a document, from each place in it on.                       *)
(***************************************************************************)

Letter == Char \cup Space \cup {"{", "}", ":", ",", "\"", "\\"}

\* What follows the first j characters of a text in its quoted form.
Escaped(text, j) == FlattenSeq([k \in 1 .. Len(text) - j |-> InQuotes(text[j + k])])

\* What follows a member, its value, the colon, its name, and all of it from its
\* name on.
Behind(doc, i, gap) ==
    FlattenSeq([k \in 1 .. Len(doc) - i |-> Member(doc, i + k, gap)]) \o <<"}">>
AfterValue(doc, i, gap) == gap \o (Braces(Ending(doc, i), gap) \o Behind(doc, i, gap))
AfterColon(doc, i, gap) == gap \o (Value(doc[i]) \o AfterValue(doc, i, gap))
AfterName(doc, i, gap) == gap \o (<<":">> \o AfterColon(doc, i, gap))
FromName(doc, i, gap) == Quoted(doc[i].name) \o AfterName(doc, i, gap)

LEMMA Letters ==
    /\ Space \subseteq Letter
    /\ Seq(Space) \subseteq Seq(Letter)
    /\ Seq(TextChar) \subseteq Seq(Letter)
    /\ Seq(WordChar) \subseteq Seq(Letter)
    /\ \A c \in Letter : <<c>> \in Seq(Letter)
    /\ <<>> \in Seq(Letter)
    /\ {"{", "}", ":", ",", "\"", "\\"} \subseteq Letter
  <1>1. Space \subseteq Letter /\ TextChar \subseteq Letter /\ WordChar \subseteq Letter
    BY DEF Letter, TextChar, WordChar
  <1>2. \A c \in Letter : <<c>> \in Seq(Letter)
    OBVIOUS
  <1>3. ASSUME NEW S, S \subseteq Letter PROVE Seq(S) \subseteq Seq(Letter)
    BY <1>3
  <1>4. {"{", "}", ":", ",", "\"", "\\"} \subseteq Letter
    BY DEF Letter
  <1>5. <<>> \in Seq(Letter)
    OBVIOUS
  <1>6. QED
    BY <1>1, <1>2, <1>3, <1>4, <1>5

\* Texts are put together in any order.
LEMMA TextAssoc == \A p, q, r \in Seq(Letter) : (p \o q) \o r = p \o (q \o r)
  BY ConcatAssoc

LEMMA TextConcat == \A p, q \in Seq(Letter) : p \o q \in Seq(Letter)
  BY ConcatType

LEMMA InQuotesType == \A c \in TextChar : InQuotes(c) \in Seq(Letter)
  <1> SUFFICES ASSUME NEW c \in TextChar PROVE InQuotes(c) \in Seq(Letter)
    OBVIOUS
  <1>1. c \in Letter /\ "\\" \in Letter
    BY DEF TextChar, Letter
  <1>2. <<c>> \in Seq(Letter) /\ <<"\\", c>> \in Seq(Letter)
    BY <1>1
  <1>3. QED
    BY <1>2 DEF InQuotes

LEMMA EscapedIs ==
    ASSUME NEW text \in Seq(TextChar)
    PROVE  /\ Escaped(text, Len(text)) = <<>>
           /\ \A j \in 0 .. Len(text) : Escaped(text, j) \in Seq(Letter)
           /\ \A j \in 0 .. Len(text) - 1 :
                 Escaped(text, j) = InQuotes(text[j + 1]) \o Escaped(text, j + 1)
  <1> DEFINE Parts(j, m) == [k \in 1 .. m |-> InQuotes(text[j + k])]
  <1>1. Len(text) \in Nat /\ \A k \in 1 .. Len(text) : text[k] \in TextChar
    OBVIOUS
  <1>2. ASSUME NEW j \in 0 .. Len(text) PROVE Parts(j, Len(text) - j) \in [1 .. Len(text) - j -> Seq(Letter)]
    BY <1>1, <1>2, InQuotesType
  <1>3. Escaped(text, Len(text)) = <<>>
    <2>1. Len(text) - Len(text) = 0
      BY <1>1
    <2>2. [k \in 1 .. 0 |-> InQuotes(text[Len(text) + k])] = <<>>
      OBVIOUS
    <2>3. QED
      BY <2>1, <2>2, FlattenEmpty DEF Escaped
  <1>4. ASSUME NEW j \in 0 .. Len(text) PROVE Escaped(text, j) \in Seq(Letter)
    <2>1. Len(text) - j \in Nat
      BY <1>1
    <2>2. QED
      BY <2>1, <1>2, FlattenType DEF Escaped
  <1>5. ASSUME NEW j \in 0 .. Len(text) - 1
        PROVE  Escaped(text, j) = InQuotes(text[j + 1]) \o Escaped(text, j + 1)
    <2> DEFINE n == Len(text) - (j + 1)
    <2>1. n \in Nat /\ Len(text) - j = n + 1 /\ j \in 0 .. Len(text)
      BY <1>1
    <2> HIDE DEF n
    <2> DEFINE parts == Parts(j, n + 1)
    <2>2. parts \in [1 .. n + 1 -> Seq(Letter)]
      BY <1>2, <2>1
    <2>3. [k \in 1 .. n |-> parts[k + 1]] = Parts(j + 1, n)
      <3>1. \A k \in 1 .. n : k + 1 \in 1 .. n + 1 /\ j + (k + 1) = (j + 1) + k
        BY <2>1
      <3>2. QED
        BY <3>1
    <2>4. parts[1] = InQuotes(text[j + 1])
      BY <2>1
    <2> HIDE DEF parts
    <2>5. FlattenSeq(parts) = InQuotes(text[j + 1]) \o FlattenSeq(Parts(j + 1, n))
      <3>1. FlattenSeq(parts) = parts[1] \o FlattenSeq([k \in 1 .. n |-> parts[k + 1]])
        BY <2>1, <2>2, FlattenFirst
      <3>2. QED
        BY <3>1, <2>3, <2>4
    <2>6. QED
      BY <2>1, <2>5 DEF Escaped, n, parts
  <1>6. QED
    BY <1>3, <1>4, <1>5

LEMMA QuotedIs ==
    ASSUME NEW text \in Seq(TextChar)
    PROVE  /\ Quoted(text) = <<"\"">> \o (Escaped(text, 0) \o <<"\"">>)
           /\ Quoted(text) \in Seq(Letter)
  <1> DEFINE inner == FlattenSeq([i \in DOMAIN text |-> InQuotes(text[i])])
             quote == <<"\"">>
  <1>1. Len(text) \in Nat /\ 0 \in 0 .. Len(text)
    OBVIOUS
  <1>2. [i \in DOMAIN text |-> InQuotes(text[i])] = [k \in 1 .. Len(text) - 0 |-> InQuotes(text[0 + k])]
    <2>1. DOMAIN text = 1 .. Len(text) - 0 /\ \A k \in DOMAIN text : 0 + k = k
      BY <1>1
    <2>2. QED
      BY <2>1
  <1>3. inner = Escaped(text, 0)
    BY <1>2 DEF Escaped
  <1>4. Escaped(text, 0) \in Seq(Letter)
    BY <1>1, EscapedIs
  <1>5. quote \in Seq(Letter)
    BY Letters
  <1> HIDE DEF inner, quote
  <1>6. (quote \o inner) \o quote = quote \o (inner \o quote) /\ (quote \o inner) \o quote \in Seq(Letter)
    BY <1>3, <1>4, <1>5, ConcatAssoc, ConcatType
  <1>7. QED
    BY <1>3, <1>6 DEF Quoted, inner, quote

LEMMA BracesAre ==
    ASSUME NEW gap \in Seq(Space), NEW n \in Nat
    PROVE  /\ Braces(0, gap) = <<>>
           /\ Braces(n, gap) \in Seq(Letter)
           /\ Braces(n + 1, gap) = <<"}">> \o (gap \o Braces(n, gap))
  <1> DEFINE brace == <<"}">>
             part == brace \o gap
             parts == [k \in 1 .. n + 1 |-> part]
  <1>1. brace \in Seq(Letter) /\ gap \in Seq(Letter)
    BY Letters
  <1> HIDE DEF brace
  <1>2. part \in Seq(Letter)
    BY <1>1, ConcatType
  <1>3. Braces(0, gap) = <<>>
    <2>1. [k \in 1 .. 0 |-> <<"}">> \o gap] = <<>>
      OBVIOUS
    <2>2. QED
      BY <2>1, FlattenEmpty DEF Braces
  <1>4. Braces(n, gap) \in Seq(Letter)
    <2>1. [k \in 1 .. n |-> part] \in [1 .. n -> Seq(Letter)]
      BY <1>2
    <2>2. QED
      BY <2>1, FlattenType DEF Braces, brace
  <1>5. parts \in [1 .. n + 1 -> Seq(Letter)] /\ parts[1] = part
    BY <1>2
  <1>6. [k \in 1 .. n |-> parts[k + 1]] = [k \in 1 .. n |-> part]
    OBVIOUS
  <1> HIDE DEF part
  <1>7. FlattenSeq(parts) = part \o FlattenSeq([k \in 1 .. n |-> part])
    <2> HIDE DEF parts
    <2>1. FlattenSeq(parts) = parts[1] \o FlattenSeq([k \in 1 .. n |-> parts[k + 1]])
      BY <1>5, FlattenFirst
    <2>2. QED
      BY <2>1, <1>5, <1>6
  <1>8. Braces(n + 1, gap) = part \o Braces(n, gap)
    BY <1>7 DEF Braces, part, brace
  <1>9. part \o Braces(n, gap) = brace \o (gap \o Braces(n, gap))
    BY <1>1, <1>4, ConcatAssoc DEF part
  <1>10. QED
    BY <1>3, <1>4, <1>8, <1>9 DEF brace

\* What a document is, said of its members.
LEMMA MembersAre ==
    ASSUME NEW doc, IsDocument(doc), NEW i \in DOMAIN doc
    PROVE  /\ Len(doc) \in Nat /\ DOMAIN doc = 1 .. Len(doc) /\ 1 \in DOMAIN doc
           /\ doc[1].depth = 0
           /\ doc[i].name \in Seq(TextChar) /\ doc[i].name # <<>>
           /\ doc[i].text \in Seq(TextChar)
           /\ doc[i].kind \in {"text", "word", "object"}
           /\ doc[i].depth \in Nat
           /\ NextDepth(doc, i) \in Nat /\ Ending(doc, i) \in Nat
           /\ doc[i].kind # "object" => doc[i].depth = Ending(doc, i) + NextDepth(doc, i)
           /\ doc[i].kind = "word" => doc[i].text \in Seq(WordChar) /\ doc[i].text # <<>>
           /\ doc[i].kind = "object" =>
                 /\ doc[i].text = <<>> /\ Ending(doc, i) = 0
                 /\ i + 1 \in DOMAIN doc /\ i # Len(doc)
                 /\ NextDepth(doc, i) = doc[i].depth + 1
           /\ i # Len(doc) => i + 1 \in DOMAIN doc /\ NextDepth(doc, i) = doc[i + 1].depth
           /\ i = Len(doc) => NextDepth(doc, i) = 0
  <1>1. doc \in Seq(MemberType) /\ doc # <<>> /\ doc[1].depth = 0
    BY DEF IsDocument
  <1>2. Len(doc) \in Nat /\ DOMAIN doc = 1 .. Len(doc) /\ 1 \in DOMAIN doc
    BY <1>1
  <1>3. \A k \in DOMAIN doc : doc[k] \in MemberType
    BY <1>1
  <1>4. \A k \in DOMAIN doc : /\ doc[k].name \in Seq(TextChar) /\ doc[k].text \in Seq(TextChar)
                             /\ doc[k].kind \in {"text", "word", "object"} /\ doc[k].depth \in Nat
    BY <1>3 DEF MemberType
  <1>5. /\ doc[i].name # <<>>
        /\ doc[i].kind = "word" => doc[i].text \in Seq(WordChar) /\ doc[i].text # <<>>
        /\ doc[i].kind = "object" =>
              doc[i].text = <<>> /\ i + 1 \in DOMAIN doc /\ doc[i + 1].depth = doc[i].depth + 1
        /\ doc[i].kind # "object" /\ i + 1 \in DOMAIN doc => doc[i + 1].depth <= doc[i].depth
    BY DEF IsDocument
  <1>6. i # Len(doc) <=> i + 1 \in DOMAIN doc
    BY <1>2
  <1>7. NextDepth(doc, i) \in Nat
    BY <1>4, <1>6 DEF NextDepth
  <1>8. doc[i].kind # "object" =>
           Ending(doc, i) \in Nat /\ doc[i].depth = Ending(doc, i) + NextDepth(doc, i)
    BY <1>4, <1>5, <1>6, <1>7 DEF NextDepth, Ending
  <1>9. doc[i].kind = "object" => Ending(doc, i) = 0
    BY DEF Ending
  <1>10. QED
    BY <1>1, <1>2, <1>4, <1>5, <1>6, <1>7, <1>8, <1>9 DEF NextDepth

LEMMA ValueType ==
    ASSUME NEW doc, IsDocument(doc), NEW i \in DOMAIN doc
    PROVE  /\ Value(doc[i]) \in Seq(Letter)
           /\ doc[i].kind = "text" => Value(doc[i]) = Quoted(doc[i].text)
           /\ doc[i].kind = "word" => Value(doc[i]) = doc[i].text
           /\ doc[i].kind = "object" => Value(doc[i]) = <<"{">>
  <1>1. doc[i].kind = "text" => Value(doc[i]) = Quoted(doc[i].text)
    BY DEF Value
  <1>2. doc[i].kind = "word" => Value(doc[i]) = doc[i].text
    BY DEF Value
  <1>3. doc[i].kind = "object" => Value(doc[i]) = <<"{">>
    BY DEF Value
  <1>4. doc[i].kind \in {"text", "word", "object"} /\ doc[i].text \in Seq(TextChar)
    BY MembersAre
  <1>5. QED
    BY <1>1, <1>2, <1>3, <1>4, QuotedIs, Letters

\* The parts of a member are texts.
LEMMA SeparatorType ==
    ASSUME NEW doc, NEW i, NEW gap \in Seq(Space)
    PROVE  Separator(doc, i, gap) \in Seq(Letter)
  <1>1. <<",">> \in Seq(Letter) /\ gap \in Seq(Letter) /\ <<>> \in Seq(Letter)
    BY Letters
  <1>2. <<",">> \o gap \in Seq(Letter)
    BY <1>1, ConcatType
  <1>3. QED
    BY <1>1, <1>2 DEF Separator

\* A sequence of letters; the provers are to know no more of it.
IsText(t) == t \in Seq(Letter)

LEMMA TextAgain == \A p, q, r : IsText(p) /\ IsText(q) /\ IsText(r) => (p \o q) \o r = p \o (q \o r)
  BY TextAssoc DEF IsText

LEMMA TextWith == \A p, q : IsText(p) /\ IsText(q) => IsText(p \o q)
  BY TextConcat DEF IsText

\* The same of Cat.
LEMMA CatAgain == \A p, q, r : IsText(p) /\ IsText(q) /\ IsText(r) => Cat(Cat(p, q), r) = Cat(p, Cat(q, r))
  BY TextAgain DEF Cat

LEMMA CatText == \A p, q : IsText(p) /\ IsText(q) => IsText(Cat(p, q))
  BY TextWith DEF Cat

\* Four texts, and eight, put together from the left and from the right, before another.
LEMMA RegroupFour ==
    ASSUME NEW t1, NEW t2, NEW t3, NEW t4, NEW rest,
           IsText(t1), IsText(t2), IsText(t3), IsText(t4), IsText(rest)
    PROVE  /\ IsText(Cat(Cat(Cat(t1, t2), t3), t4))
           /\ Cat(Cat(Cat(Cat(t1, t2), t3), t4), rest) = Cat(t1, Cat(t2, Cat(t3, Cat(t4, rest))))
  BY CatAgain, CatText

LEMMA RegroupEight ==
    ASSUME NEW t1, NEW t2, NEW t3, NEW t4, NEW t5, NEW t6, NEW t7, NEW t8, NEW rest,
           IsText(t1), IsText(t2), IsText(t3), IsText(t4), IsText(t5), IsText(t6),
           IsText(t7), IsText(t8), IsText(rest)
    PROVE  /\ IsText(Cat(Cat(Cat(Cat(Cat(Cat(Cat(t1, t2), t3), t4), t5), t6), t7), t8))
           /\ Cat(Cat(Cat(Cat(Cat(Cat(Cat(Cat(t1, t2), t3), t4), t5), t6), t7), t8), rest)
                = Cat(t1, Cat(t2, Cat(t3, Cat(t4, Cat(t5, Cat(t6, Cat(t7, Cat(t8, rest))))))))
  <1> DEFINE p == Cat(Cat(Cat(t1, t2), t3), t4)
             q == Cat(Cat(Cat(p, t5), t6), t7)
             u == Cat(t8, rest)
             r == Cat(t5, Cat(t6, Cat(t7, u)))
  <1>1. IsText(p) /\ IsText(u)
    BY CatText
  <1>2. IsText(q) /\ IsText(r)
    <2> HIDE DEF p, u
    <2>1. QED BY <1>1, CatText
  <1>3. Cat(p, r) = Cat(t1, Cat(t2, Cat(t3, Cat(t4, r))))
    <2> HIDE DEF r
    <2>1. QED BY <1>2, RegroupFour
  <1>4. Cat(q, u) = Cat(p, r)
    <2> HIDE DEF p, u
    <2>1. QED BY <1>1, RegroupFour
  <1>5. Cat(Cat(q, t8), rest) = Cat(q, u) /\ IsText(Cat(q, t8))
    <2> HIDE DEF q
    <2>1. QED BY <1>2, CatAgain, CatText
  <1> HIDE DEF p, q, r, u
  <1>6. Cat(Cat(q, t8), rest) = Cat(t1, Cat(t2, Cat(t3, Cat(t4, r))))
    BY <1>3, <1>4, <1>5
  <1>7. QED
    BY <1>5, <1>6 DEF p, q, r, u

\* A member from its name on, and what follows it.
NameOn(doc, i, gap, rest) ==
    Quoted(doc[i].name) \o (gap \o (<<":">> \o (gap \o
        (Value(doc[i]) \o (gap \o (Braces(Ending(doc, i), gap) \o rest))))))

\* A member is what stands before its name, its name, and what follows that, up to
\* the braces.
LEMMA MemberIs ==
    ASSUME NEW doc, IsDocument(doc), NEW i \in DOMAIN doc, NEW gap \in Seq(Space),
           NEW rest, IsText(rest)
    PROVE  /\ IsText(Member(doc, i, gap))
           /\ Member(doc, i, gap) \o rest = Separator(doc, i, gap) \o NameOn(doc, i, gap, rest)
  <1> DEFINE mark == <<":">>
             sp == Separator(doc, i, gap)
             name == Quoted(doc[i].name)
             value == Value(doc[i])
             braces == Braces(Ending(doc, i), gap)
  <1>1. IsText(sp)
    BY SeparatorType DEF IsText
  <1>2. IsText(name)
    BY MembersAre, QuotedIs DEF IsText
  <1>3. IsText(value)
    BY ValueType DEF IsText
  <1>4. IsText(braces)
    BY MembersAre, BracesAre DEF IsText
  <1>5. IsText(gap) /\ IsText(mark)
    BY Letters DEF IsText
  <1>6. Member(doc, i, gap) = sp \o name \o gap \o mark \o gap \o value \o gap \o braces
    BY DEF Member
  <1> HIDE DEF mark, sp, name, value, braces
  <1>7. /\ IsText(Member(doc, i, gap))
        /\ Member(doc, i, gap) \o rest =
              sp \o (name \o (gap \o (mark \o (gap \o (value \o (gap \o (braces \o rest)))))))
    <2>1. /\ IsText(Cat(Cat(Cat(Cat(Cat(Cat(Cat(sp, name), gap), mark), gap), value), gap), braces))
          /\ Cat(Cat(Cat(Cat(Cat(Cat(Cat(Cat(sp, name), gap), mark), gap), value), gap), braces), rest)
                = Cat(sp, Cat(name, Cat(gap, Cat(mark, Cat(gap, Cat(value, Cat(gap, Cat(braces, rest))))))))
      BY <1>1, <1>2, <1>3, <1>4, <1>5, RegroupEight
    <2>2. /\ IsText(sp \o name \o gap \o mark \o gap \o value \o gap \o braces)
          /\ (sp \o name \o gap \o mark \o gap \o value \o gap \o braces) \o rest =
                sp \o (name \o (gap \o (mark \o (gap \o (value \o (gap \o (braces \o rest)))))))
      BY <2>1, Zenon DEF Cat
    <2>3. QED
      BY <1>6, <2>2, Zenon
  <1>8. QED
    BY <1>7 DEF NameOn, mark, sp, name, value, braces

\* What follows a member: the next one, or the end of the object.
LEMMA BehindIs ==
    ASSUME NEW doc, IsDocument(doc), NEW gap \in Seq(Space)
    PROVE  /\ Behind(doc, Len(doc), gap) = <<"}">>
           /\ \A i \in 0 .. Len(doc) : IsText(Behind(doc, i, gap)) /\ Behind(doc, i, gap) # <<>>
           /\ \A i \in 0 .. Len(doc) - 1 :
                 Behind(doc, i, gap) = Member(doc, i + 1, gap) \o Behind(doc, i + 1, gap)
  <1> DEFINE end == <<"}">>
             Parts(i, m) == [k \in 1 .. m |-> Member(doc, i + k, gap)]
             After(i) == FlattenSeq(Parts(i, Len(doc) - i))
  <1>1. Len(doc) \in Nat /\ DOMAIN doc = 1 .. Len(doc)
    BY DEF IsDocument
  <1>2. IsText(end) /\ <<>> \o end = end
    <2>1. end \in Seq(Letter)
      BY Letters
    <2>2. QED
      BY <2>1, ConcatEmptyRight DEF IsText
  <1>3. \A i \in DOMAIN doc : Member(doc, i, gap) \in Seq(Letter)
    <2>1. IsText(<<>>)
      BY Letters DEF IsText
    <2>2. \A i \in DOMAIN doc : IsText(Member(doc, i, gap))
      BY <2>1, MemberIs
    <2>3. QED
      BY <2>2 DEF IsText
  <1>4. ASSUME NEW i \in 0 .. Len(doc) PROVE Parts(i, Len(doc) - i) \in [1 .. Len(doc) - i -> Seq(Letter)]
    <2>1. \A k \in 1 .. Len(doc) - i : i + k \in DOMAIN doc
      BY <1>1
    <2>2. QED
      BY <1>3, <2>1
  <1>5. ASSUME NEW i \in 0 .. Len(doc) PROVE After(i) \in Seq(Letter)
    <2>1. Len(doc) - i \in Nat
      BY <1>1
    <2>2. QED
      BY <2>1, <1>4, FlattenType
  <1> HIDE DEF end
  <1>6. Behind(doc, Len(doc), gap) = end
    <2>1. Len(doc) - Len(doc) = 0
      BY <1>1
    <2>2. Parts(Len(doc), 0) = <<>>
      OBVIOUS
    <2>3. After(Len(doc)) = <<>>
      BY <2>1, <2>2, FlattenEmpty
    <2>4. QED
      BY <2>3, <1>2 DEF Behind, end
  <1>7. ASSUME NEW i \in 0 .. Len(doc) PROVE IsText(Behind(doc, i, gap)) /\ Behind(doc, i, gap) # <<>>
    <2> DEFINE after == After(i)
    <2>1. after \in Seq(Letter)
      BY <1>5
    <2>2. Behind(doc, i, gap) = after \o <<"}">>
      BY DEF Behind
    <2> HIDE DEF after
    <2>3. IsText(Behind(doc, i, gap))
      BY <1>2, <2>1, <2>2, TextConcat DEF end, IsText
    <2>4. after \o <<"}">> # <<>>
      BY <2>1
    <2>5. QED
      BY <2>2, <2>3, <2>4
  <1>8. ASSUME NEW i \in 0 .. Len(doc) - 1
        PROVE  Behind(doc, i, gap) = Member(doc, i + 1, gap) \o Behind(doc, i + 1, gap)
    <2> DEFINE n == Len(doc) - (i + 1)
               mem == Member(doc, i + 1, gap)
               after == After(i + 1)
    <2>1. n \in Nat /\ Len(doc) - i = n + 1 /\ i \in 0 .. Len(doc) /\ i + 1 \in DOMAIN doc
          /\ i + 1 \in 0 .. Len(doc)
      BY <1>1
    <2>2. IsText(mem) /\ IsText(after)
      BY <1>3, <1>5, <2>1 DEF IsText
    <2> HIDE DEF n
    <2> DEFINE parts == Parts(i, n + 1)
    <2>3. parts \in [1 .. n + 1 -> Seq(Letter)]
      BY <1>4, <2>1
    <2>4. [k \in 1 .. n |-> parts[k + 1]] = Parts(i + 1, n)
      <3>1. \A k \in 1 .. n : k + 1 \in 1 .. n + 1 /\ i + (k + 1) = (i + 1) + k
        BY <2>1
      <3>2. QED
        BY <3>1
    <2>5. parts[1] = mem
      BY <2>1
    <2>6. FlattenSeq(parts) = mem \o after
      <3> HIDE DEF parts, mem
      <3>1. FlattenSeq(parts) = parts[1] \o FlattenSeq([k \in 1 .. n |-> parts[k + 1]])
        BY <2>1, <2>3, FlattenFirst
      <3>2. QED
        BY <3>1, <2>4, <2>5 DEF n
    <2>7. Behind(doc, i, gap) = FlattenSeq(parts) \o end
      BY <2>1 DEF Behind, end
    <2>8. Behind(doc, i + 1, gap) = after \o end
      BY DEF Behind, end
    <2> HIDE DEF parts, mem, after
    <2>9. (mem \o after) \o end = mem \o (after \o end)
      BY <1>2, <2>2, TextAgain
    <2>10. QED
      BY <2>6, <2>7, <2>8, <2>9 DEF mem
  <1>9. QED
    BY <1>6, <1>7, <1>8 DEF end

(***************************************************************************)
(* The parser reads. What is left of the message is a text, of which each  *)
(* step takes the first character.                                         *)
(***************************************************************************)

\* What the parser has not read yet.
Left == SubSeq(msg, taken + 1, Len(msg))

\* A text stands at place p of a buffer, with its end; its first j characters are
\* the last ones in it.
Holds(buffer, p, text) ==
    /\ p \in Nat /\ p + Len(text) < Len(buffer)
    /\ \A x \in 1 .. Len(text) : buffer[p + x] = text[x]
    /\ buffer[p + Len(text) + 1] = sep
Begun(buffer, p, text, j) ==
    /\ p \in Nat /\ Len(buffer) = p + j
    /\ \A x \in 1 .. j : buffer[p + x] = text[x]

Longer(old, new) ==
    Len(old) <= Len(new) /\ \A x \in 1 .. Len(old) : new[x] = old[x]

\* What is left of a sequence when the first t of it were taken.
LEMMA TailOf ==
    ASSUME NEW S, NEW m \in Seq(S), NEW t \in Nat, t < Len(m)
    PROVE  /\ SubSeq(m, t + 1, Len(m)) \in Seq(S)
           /\ Len(SubSeq(m, t + 1, Len(m))) = Len(m) - t
           /\ \A k \in 1 .. Len(m) - t : SubSeq(m, t + 1, Len(m))[k] = m[t + k]
  <1>1. SubSeq(m, t + 1, Len(m)) \in Seq(S)
    OBVIOUS
  <1>2. Len(SubSeq(m, t + 1, Len(m))) = Len(m) - t
    OBVIOUS
  <1>3. ASSUME NEW k \in 1 .. Len(m) - t PROVE SubSeq(m, t + 1, Len(m))[k] = m[t + k]
    <2>1. SubSeq(m, t + 1, Len(m))[k] = m[t + 1 + k - 1]
      OBVIOUS
    <2>2. t + 1 + k - 1 = t + k
      OBVIOUS
    <2>3. QED
      BY <2>1, <2>2
  <1>4. QED
    BY <1>1, <1>2, <1>3

\* A character is read.
LEMMA Reads ==
    ASSUME JsonInv, a_json_append_str_sized, NEW c, NEW rest, IsText(rest), Left = <<c>> \o rest
    PROVE  /\ a_json_append(c) /\ c \in Char
           /\ Left' = rest
           /\ Len(stored') < Len(msg)
           /\ s \notin Finished /\ Len(entry) <= entry_max
           /\ Effect
  <1>1. /\ msg \in Seq(Char) /\ taken \in Nat /\ taken' = taken + 1 /\ msg' = msg /\ taken < Len(msg)
        /\ a_json_append(msg[taken + 1]) /\ s \notin Finished
    BY DEF JsonInv, JsonTypeOK, a_json_append_str_sized
  <1>2. rest \in Seq(Letter)
    BY DEF IsText
  <1>3. Left \in Seq(Char) /\ Len(Left) = Len(msg) - taken /\ \A k \in 1 .. Len(Left) : Left[k] = msg[taken + k]
    BY <1>1, TailOf DEF Left
  <1>4. Left[1] = c /\ Len(Left) = Len(rest) + 1 /\ \A k \in 1 .. Len(rest) : Left[k + 1] = rest[k]
    BY <1>2
  <1>5. msg[taken + 1] = c /\ c \in Char
    BY <1>1, <1>3, <1>4
  <1>6. Left' = rest
    <2>1. Left' = SubSeq(msg, taken + 2, Len(msg))
      BY <1>1 DEF Left
    <2>2. Len(Left') = Len(rest) /\ \A k \in 1 .. Len(rest) : Left'[k] = rest[k]
      <3>1. Len(rest) \in Nat /\ Len(rest) = Len(msg) - taken - 1
        BY <1>1, <1>2, <1>3, <1>4
      <3>2. ASSUME NEW k \in 1 .. Len(rest) PROVE rest[k] = msg[taken + (k + 1)]
        <4>1. k + 1 \in 1 .. Len(Left)
          BY <1>4, <3>1
        <4>2. Left[k + 1] = msg[taken + (k + 1)]
          <5> HIDE DEF Left
          <5>1. QED
            BY <1>3, <4>1
        <4>3. QED
          BY <1>4, <4>2
      <3>3. Len(Left') = Len(msg) - taken - 1 /\ \A k \in 1 .. Len(rest) : Left'[k] = msg[taken + 2 + k - 1]
        BY <2>1, <1>1, <3>1
      <3>4. \A k \in 1 .. Len(rest) : taken + 2 + k - 1 = taken + (k + 1)
        BY <1>1
      <3>5. QED
        BY <3>1, <3>2, <3>3, <3>4
    <2>3. Left' \in Seq(Char)
      BY <2>1, <1>1
    <2> HIDE DEF Left
    <2>4. QED
      BY <2>2, <2>3, <1>2
  <1>7. Len(stored') < Len(msg)
    <2>1. JsonInv'
      BY CharacterStep
    <2>2. Len(stored') < taken'
      <3>1. taken' # 0
        BY <1>1
      <3>2. QED
        BY <2>1, <3>1 DEF JsonInv, InPlace
    <2>3. Len(stored') \in Nat
      BY <2>1 DEF JsonInv, JsonTypeOK
    <2>4. taken' <= Len(msg)
      BY <1>1
    <2>5. QED
      BY <1>1, <2>2, <2>3, <2>4
  <1>8. Len(entry) <= entry_max
    BY <1>1 DEF JsonInv, InTurn, Finished
  <1>9. Effect
    BY <1>1, <1>5, AppendEffect
  <1>10. QED
    BY <1>1, <1>5, <1>6, <1>7, <1>8, <1>9

\* The buffer and the table grow at their ends.
LEMMA Growing ==
    ASSUME JsonInv, Effect
    PROVE  Longer(stored, stored') /\ Longer(entry, entry')
  <1>1. stored \in Seq(Char \cup {sep}) /\ entry \in Seq(0 .. Len(msg))
    BY DEF JsonInv, JsonTypeOK
  <1>2. ASSUME NEW S, NEW q \in Seq(S), NEW e PROVE Longer(q, q) /\ Longer(q, Append(q, e))
    BY DEF Longer
  <1>3. QED
    BY <1>1, <1>2 DEF Effect

LEMMA HoldsOn ==
    ASSUME NEW old, NEW new, Longer(old, new), Len(old) \in Nat, Len(new) \in Nat,
           NEW p, NEW text \in Seq(TextChar), Holds(old, p, text)
    PROVE  Holds(new, p, text)
  <1>1. Len(text) \in Nat /\ p \in Nat
    BY DEF Holds
  <1>2. /\ \A x \in 1 .. Len(text) : p + x \in 1 .. Len(old)
        /\ p + Len(text) + 1 \in 1 .. Len(old)
        /\ p + Len(text) < Len(new)
    BY <1>1 DEF Holds, Longer
  <1>3. QED
    BY <1>2 DEF Holds, Longer

\* One more character of a text is stored, and its end.
LEMMA BegunMore ==
    ASSUME NEW S, NEW buffer \in Seq(S), NEW p, NEW text \in Seq(TextChar), NEW j \in Nat,
           Begun(buffer, p, text, j)
    PROVE  /\ j < Len(text) => Begun(Append(buffer, text[j + 1]), p, text, j + 1)
           /\ j = Len(text) => Holds(Append(buffer, sep), p, text)
  <1>1. p \in Nat /\ Len(buffer) = p + j /\ Len(text) \in Nat /\ \A x \in 1 .. j : p + x \in 1 .. Len(buffer)
    BY DEF Begun
  <1>2. \A e : /\ Len(Append(buffer, e)) = p + j + 1 /\ Append(buffer, e)[p + j + 1] = e
               /\ \A y \in 1 .. Len(buffer) : Append(buffer, e)[y] = buffer[y]
    BY <1>1
  <1>3. \A e : \A x \in 1 .. j : Append(buffer, e)[p + x] = text[x]
    BY <1>1, <1>2 DEF Begun
  <1>4. \A x \in 1 .. j + 1 : x \in 1 .. j \/ x = j + 1
    OBVIOUS
  <1>5. \A e : Len(Append(buffer, e)) = p + (j + 1) /\ p + (j + 1) = p + j + 1
    BY <1>1, <1>2
  <1>6. j < Len(text) => Begun(Append(buffer, text[j + 1]), p, text, j + 1)
    BY <1>1, <1>2, <1>3, <1>4, <1>5 DEF Begun
  <1>7. j = Len(text) => Holds(Append(buffer, sep), p, text)
    BY <1>1, <1>2, <1>3 DEF Holds
  <1>8. QED
    BY <1>6, <1>7

\* What a_json_append does to a parser that has room, for the characters that an
\* intact message has in each state.
LEMMA SpaceRead ==
    ASSUME NEW c \in Space, a_json_append(c), Len(stored') < Len(msg), Len(entry) <= entry_max,
           s \in {"JSON_NAME", "JSON_NAME_END", "JSON_VALUE", "JSON_VALUE_END", "JSON_VALUE_IN_VAL"}
    PROVE  /\ entry' = entry /\ recur' = recur /\ escaped' = escaped
           /\ s # "JSON_VALUE_IN_VAL" => s' = s /\ stored' = stored
           /\ s = "JSON_VALUE_IN_VAL" => s' = "JSON_VALUE_END" /\ stored' = Append(stored, sep)
  <1>1. ~InString
    BY DEF InString
  <1>2. outside_string(c)
    BY <1>1 DEF a_json_append, escaped_char, string_char, end_of_string
  <1>3. c \notin {"{", "}", ":", ",", "\""}
    BY DEF Space
  <1>4. space /\ UNCHANGED <<recur, escaped>>
    BY <1>2, <1>3 DEF outside_string
  <1>5. QED
    BY <1>4 DEF space, check_length, Store

LEMMA OutsideRead ==
    ASSUME NEW c, a_json_append(c), c \notin Space,
           s \notin {"JSON_NAME_IN_STR", "JSON_VALUE_IN_STR"}
    PROVE  /\ escaped' = escaped
           /\ c = "{" => open_object
           /\ c = "}" => close_object
           /\ c = ":" => colon
           /\ c = "," => comma
           /\ c = "\"" => start_of_string
           /\ c \notin {"{", "}", ":", ",", "\""} => other_char(c)
  <1>1. ~InString
    BY DEF InString
  <1>2. outside_string(c)
    BY <1>1 DEF a_json_append, escaped_char, string_char, end_of_string
  <1>3. QED
    BY <1>2 DEF outside_string

LEMMA BeginRead ==
    ASSUME a_json_append("{"), Len(stored') < Len(msg), Len(entry) <= entry_max, s = "JSON_INIT"
    PROVE  s' = "JSON_NAME" /\ UNCHANGED <<recur, stored, entry, escaped>>
  <1>1. open_object /\ escaped' = escaped
    BY OutsideRead DEF Space
  <1>2. QED
    BY <1>1 DEF open_object, check_length, bad

LEMMA QuoteRead ==
    ASSUME a_json_append("\""), Len(stored') < Len(msg), s \in {"JSON_NAME", "JSON_VALUE"}
    PROVE  /\ UNCHANGED <<recur, stored, escaped>>
           /\ entry' = Append(entry, Len(stored))
           /\ s' = IF Len(entry') <= entry_max
                   THEN IF s = "JSON_NAME" THEN "JSON_NAME_IN_STR" ELSE "JSON_VALUE_IN_STR"
                   ELSE "JSON_BAD"
  <1>1. start_of_string /\ escaped' = escaped
    BY OutsideRead DEF Space
  <1>2. QED
    BY <1>1 DEF start_of_string, check_length, bad, StartText

LEMMA ColonRead ==
    ASSUME a_json_append(":"), Len(stored') < Len(msg), Len(entry) <= entry_max, s = "JSON_NAME_END"
    PROVE  s' = "JSON_VALUE" /\ UNCHANGED <<recur, stored, entry, escaped>>
  <1>1. colon /\ escaped' = escaped
    BY OutsideRead DEF Space
  <1>2. QED
    BY <1>1 DEF colon, check_length, bad

LEMMA OpenRead ==
    ASSUME a_json_append("{"), Len(stored') < Len(msg), s = "JSON_VALUE"
    PROVE  /\ recur' = recur + 1 /\ escaped' = escaped
           /\ stored' = Append(stored, sep) /\ entry' = Append(entry, Len(stored))
           /\ s' = IF Len(entry') <= entry_max THEN "JSON_NAME" ELSE "JSON_BAD"
  <1>1. open_object /\ escaped' = escaped
    BY OutsideRead DEF Space
  <1>2. QED
    BY <1>1 DEF open_object, check_length, bad, StartText, Store

LEMMA WordRead ==
    ASSUME NEW c \in WordChar, a_json_append(c), Len(stored') < Len(msg), Len(entry) <= entry_max,
           s \in {"JSON_VALUE", "JSON_VALUE_IN_VAL"}
    PROVE  /\ recur' = recur /\ escaped' = escaped
           /\ stored' = Append(stored, c)
           /\ s = "JSON_VALUE" => /\ entry' = Append(entry, Len(stored))
                                  /\ s' = IF Len(entry') <= entry_max THEN "JSON_VALUE_IN_VAL" ELSE "JSON_BAD"
           /\ s = "JSON_VALUE_IN_VAL" => entry' = entry /\ s' = s
  <1>1. c \notin Space /\ c \notin {"{", "}", ":", ",", "\""}
    BY DEF WordChar
  <1>2. other_char(c) /\ escaped' = escaped
    BY <1>1, OutsideRead
  <1>3. QED
    BY <1>2 DEF other_char, check_length, Store, StartText

\* The buffer of a value that ends: a word's separator is stored now, that of a
\* text in quotes was.
Ended == stored' = IF s = "JSON_VALUE_IN_VAL" THEN Append(stored, sep) ELSE stored

LEMMA CommaRead ==
    ASSUME a_json_append(","), Len(stored') < Len(msg), Len(entry) <= entry_max,
           s \in {"JSON_VALUE_IN_VAL", "JSON_VALUE_END"}
    PROVE  s' = "JSON_NAME" /\ UNCHANGED <<recur, entry, escaped>> /\ Ended
  <1>1. comma /\ escaped' = escaped
    BY OutsideRead DEF Space
  <1>2. QED
    BY <1>1 DEF comma, check_length, bad, Store, Ended

\* The end of an inner object and of the message's own.
LEMMA CloseInnerRead ==
    ASSUME a_json_append("}"), Len(stored') < Len(msg), Len(entry) <= entry_max,
           recur > 0, recur # 0, s \in {"JSON_VALUE_IN_VAL", "JSON_VALUE_END"}
    PROVE  s' = "JSON_VALUE_END" /\ recur' = recur - 1 /\ UNCHANGED <<entry, escaped>> /\ Ended
  <1>1. close_object /\ escaped' = escaped
    BY OutsideRead DEF Space
  <1>2. recur' = recur - 1 /\ space
    BY <1>1, Zenon DEF close_object
  <1>3. entry' = entry /\ s' = "JSON_VALUE_END" /\ Ended
    BY <1>2 DEF space, check_length, Store, Ended
  <1>4. QED
    BY <1>1, <1>2, <1>3

LEMMA CloseLastRead ==
    ASSUME a_json_append("}"), recur = 0, ~(recur > 0),
           s \in {"JSON_VALUE_IN_VAL", "JSON_VALUE_END"}
    PROVE  s' = "JSON_GOOD" /\ UNCHANGED <<recur, entry, escaped>> /\ Ended
  <1>1. close_object /\ escaped' = escaped
    BY OutsideRead DEF Space
  <1>2. /\ s = "JSON_VALUE_IN_VAL" => Store(sep)
        /\ s # "JSON_VALUE_IN_VAL" => UNCHANGED stored
        /\ s' = "JSON_GOOD" /\ recur' = recur /\ entry' = entry
    BY <1>1, Zenon DEF close_object
  <1>3. Ended
    BY <1>2 DEF Store, Ended
  <1>4. QED
    BY <1>1, <1>2, <1>3

\* In quotes: an escaped character, a backslash, another character, the end.
LEMMA InStringRead ==
    ASSUME NEW c, a_json_append(c), Len(stored') < Len(msg), Len(entry) <= entry_max, InString,
           escaped \in BOOLEAN
    PROVE  /\ recur' = recur /\ entry' = entry
           /\ escaped /\ c \in {"\"", "\\"} => escaped' = FALSE /\ stored' = Append(stored, c) /\ s' = s
           /\ ~escaped /\ c = "\\" => escaped' = TRUE /\ stored' = stored /\ s' = s
           /\ ~escaped /\ c \notin {"\"", "\\"} =>
                 escaped' = FALSE /\ stored' = Append(stored, c) /\ s' = s
           /\ ~escaped /\ c = "\"" /\ ~NoName =>
                 /\ escaped' = FALSE /\ stored' = Append(stored, sep)
                 /\ s' = IF s = "JSON_NAME_IN_STR" THEN "JSON_NAME_END" ELSE "JSON_VALUE_END"
  <1>1. escaped_char(c) \/ string_char(c) \/ end_of_string(c)
    BY DEF a_json_append, outside_string
  <1>2. CASE escaped_char(c)
    <2>1. escaped /\ escaped' = FALSE
      BY <1>2 DEF escaped_char
    <2>2. recur' = recur /\ entry' = entry
      BY <1>2 DEF escaped_char, bad
    <2>3. c \in {"\"", "\\"} => stored' = Append(stored, c) /\ s' = s
      BY <1>2, <2>2 DEF escaped_char, Escapable, check_length, Store
    <2>4. QED
      BY <2>1, <2>2, <2>3
  <1>3. CASE string_char(c)
    <2>1. ~escaped /\ c # "\"" /\ escaped' = (c = "\\") /\ recur' = recur /\ entry' = entry
      BY <1>3 DEF string_char
    <2>2. s' = s
      BY <1>3, <2>1 DEF string_char, check_length
    <2>3. c = "\\" => stored' = stored
      BY <1>3, <2>1 DEF string_char
    <2>4. c # "\\" => stored' = Append(stored, c)
      BY <1>3, <2>1 DEF string_char, Store
    <2>5. QED
      BY <2>1, <2>2, <2>3, <2>4
  <1>4. CASE end_of_string(c)
    <2>1. ~escaped /\ c = "\"" /\ escaped' = escaped /\ recur' = recur /\ entry' = entry
      BY <1>4 DEF end_of_string, bad
    <2>2. ~NoName => /\ stored' = Append(stored, sep)
                     /\ s' = IF s = "JSON_NAME_IN_STR" THEN "JSON_NAME_END" ELSE "JSON_VALUE_END"
      BY <1>4, <2>1 DEF end_of_string, check_length, Store
    <2>3. QED
      BY <2>1, <2>2
  <1>5. QED
    BY <1>1, <1>2, <1>3, <1>4

(***************************************************************************)
(* A text in quotes, and the other parts of the text of a document.        *)
(***************************************************************************)

LEMMA OneIsText == \A c \in Letter : IsText(<<c>>)
  BY Letters DEF IsText

\* Spaces before a text.
LEMMA SpacesFirst ==
    ASSUME NEW gap \in Seq(Space), NEW rest, IsText(rest)
    PROVE  /\ IsText(gap) /\ IsText(gap \o rest)
           /\ gap = <<>> => gap \o rest = rest
           /\ gap # <<>> => /\ gap[1] \in Space /\ Tail(gap) \in Seq(Space)
                            /\ IsText(Tail(gap) \o rest)
                            /\ gap \o rest = <<gap[1]>> \o (Tail(gap) \o rest)
  <1>1. IsText(gap)
    BY Letters DEF IsText
  <1>2. gap = <<>> => gap \o rest = rest
    <2>1. rest \in Seq(Letter)
      BY DEF IsText
    <2>2. QED
      BY <2>1, ConcatEmptyRight
  <1>3. ASSUME gap # <<>>
        PROVE  /\ gap[1] \in Space /\ Tail(gap) \in Seq(Space)
               /\ IsText(Tail(gap) \o rest)
               /\ gap \o rest = <<gap[1]>> \o (Tail(gap) \o rest)
    <2> DEFINE first == <<gap[1]>>
               tail == Tail(gap)
    <2>1. gap[1] \in Space /\ tail \in Seq(Space) /\ gap = first \o tail
      BY <1>3
    <2>2. gap[1] \in Letter
      BY <2>1, Letters
    <2>3. IsText(first) /\ IsText(tail)
      BY <2>1, <2>2, OneIsText, Letters DEF IsText
    <2> HIDE DEF first, tail
    <2>4. (first \o tail) \o rest = first \o (tail \o rest) /\ IsText(tail \o rest)
      BY <2>3, TextAgain, TextWith
    <2>5. gap \o rest = first \o (tail \o rest)
      BY <2>1, <2>4
    <2>6. QED
      BY <2>1, <2>4, <2>5 DEF first, tail
  <1>4. IsText(gap \o rest)
    BY <1>1, TextWith
  <1>5. QED
    BY <1>1, <1>2, <1>3, <1>4

\* The rest of a text in quotes, of which j characters were read, and what follows.
Ahead(text, j, rest) == Escaped(text, j) \o (<<"\"">> \o rest)

LEMMA AheadIs ==
    ASSUME NEW text \in Seq(TextChar), NEW rest, IsText(rest), NEW j \in 0 .. Len(text)
    PROVE  /\ IsText(Ahead(text, j, rest)) /\ IsText(<<"\"">> \o rest)
           /\ j = Len(text) => Ahead(text, j, rest) = <<"\"">> \o rest
           /\ j # Len(text) =>
                 /\ text[j + 1] \in TextChar /\ IsText(<<text[j + 1]>> \o Ahead(text, j + 1, rest))
                 /\ IsText(Ahead(text, j + 1, rest))
                 /\ text[j + 1] \notin {"\"", "\\"} =>
                       Ahead(text, j, rest) = <<text[j + 1]>> \o Ahead(text, j + 1, rest)
                 /\ text[j + 1] \in {"\"", "\\"} =>
                       Ahead(text, j, rest) = <<"\\">> \o (<<text[j + 1]>> \o Ahead(text, j + 1, rest))
  <1> DEFINE end == <<"\"">> \o rest
  <1>1. IsText(end)
    <2>1. IsText(<<"\"">>)
      BY OneIsText, Letters
    <2>2. QED
      BY <2>1, TextWith
  <1> HIDE DEF end
  <1>2. \A k \in 0 .. Len(text) : IsText(Escaped(text, k)) /\ IsText(Escaped(text, k) \o end)
    BY <1>1, EscapedIs, TextWith DEF IsText
  <1>3. j = Len(text) => Escaped(text, j) \o end = end
    <2>1. end \in Seq(Letter)
      BY <1>1 DEF IsText
    <2>2. QED
      BY <2>1, EscapedIs, ConcatEmptyRight
  <1>4. ASSUME j # Len(text)
        PROVE  /\ text[j + 1] \in TextChar /\ IsText(<<text[j + 1]>> \o (Escaped(text, j + 1) \o end))
               /\ IsText(Escaped(text, j + 1) \o end)
               /\ text[j + 1] \notin {"\"", "\\"} =>
                     Escaped(text, j) \o end = <<text[j + 1]>> \o (Escaped(text, j + 1) \o end)
               /\ text[j + 1] \in {"\"", "\\"} =>
                     Escaped(text, j) \o end = <<"\\">> \o (<<text[j + 1]>> \o (Escaped(text, j + 1) \o end))
    <2> DEFINE c == text[j + 1]
               one == <<c>>
               mark == <<"\\">>
               more == Escaped(text, j + 1)
    <2>1. j + 1 \in 0 .. Len(text) /\ j \in 0 .. Len(text) - 1 /\ c \in TextChar
      BY <1>4
    <2>2. IsText(one) /\ IsText(mark)
      BY <2>1, OneIsText, Letters DEF TextChar, Letter
    <2>3. IsText(more) /\ IsText(more \o end)
      BY <1>2, <2>1
    <2>4. Escaped(text, j) = InQuotes(c) \o more
      BY <2>1, EscapedIs
    <2>5. c \notin {"\"", "\\"} => InQuotes(c) = one
      BY DEF InQuotes
    <2>6. c \in {"\"", "\\"} => InQuotes(c) = mark \o one
      <3>1. <<"\\", c>> = mark \o one
        OBVIOUS
      <3>2. QED
        BY <3>1 DEF InQuotes
    <2> HIDE DEF one, mark, more
    <2>7. (one \o more) \o end = one \o (more \o end) /\ IsText(one \o (more \o end)) /\ IsText(one \o more)
      <3>1. IsText(one \o more) /\ IsText(one \o (more \o end))
        BY <2>2, <2>3, TextWith
      <3>2. (one \o more) \o end = one \o (more \o end)
        <4>1. Cat(Cat(one, more), end) = Cat(one, Cat(more, end))
          BY <1>1, <2>2, <2>3, CatAgain
        <4>2. QED
          BY <4>1 DEF Cat
      <3>3. QED
        BY <3>1, <3>2
    <2>8. (mark \o one) \o more = mark \o (one \o more)
      <3>1. Cat(Cat(mark, one), more) = Cat(mark, Cat(one, more))
        BY <2>2, <2>3, CatAgain
      <3>2. QED
        BY <3>1 DEF Cat
    <2>9. (mark \o (one \o more)) \o end = mark \o ((one \o more) \o end)
      <3> DEFINE both == one \o more
      <3>1. IsText(both)
        BY <2>7
      <3> HIDE DEF both
      <3>2. Cat(Cat(mark, both), end) = Cat(mark, Cat(both, end))
        BY <1>1, <2>2, <3>1, CatAgain
      <3>3. QED
        BY <3>2 DEF Cat, both
    <2>10. c \notin {"\"", "\\"} => Escaped(text, j) \o end = one \o (more \o end)
      BY <2>4, <2>5, <2>7
    <2>11. c \in {"\"", "\\"} => Escaped(text, j) \o end = mark \o (one \o (more \o end))
      BY <2>4, <2>6, <2>7, <2>8, <2>9
    <2>12. QED
      BY <2>1, <2>3, <2>7, <2>10, <2>11 DEF one, mark, more
  <1>5. QED
    BY <1>1, <1>2, <1>3, <1>4 DEF Ahead, end

\* A text in quotes is being stored at place p.
InText(left, behind, buffer, p, text, rest) ==
    \E j \in 0 .. Len(text) :
       /\ Begun(buffer, p, text, j)
       /\ \/ behind = FALSE /\ left = Ahead(text, j, rest)
          \/ /\ behind = TRUE /\ j # Len(text) /\ text[j + 1] \in {"\"", "\\"}
             /\ left = <<text[j + 1]>> \o Ahead(text, j + 1, rest)

\* A character of it is read.
LEMMA TextRead ==
    ASSUME JsonInv, a_json_append_str_sized, InString,
           NEW text \in Seq(TextChar), NEW rest, IsText(rest), NEW p, p = entry[Len(entry)],
           s = "JSON_NAME_IN_STR" => text # <<>>,
           InText(Left, escaped, stored, p, text, rest)
    PROVE  /\ recur' = recur /\ entry' = entry /\ Effect
           /\ \/ s' = s /\ InText(Left', escaped', stored', p, text, rest)
              \/ /\ s' = IF s = "JSON_NAME_IN_STR" THEN "JSON_NAME_END" ELSE "JSON_VALUE_END"
                 /\ escaped' = FALSE /\ Left' = rest /\ Holds(stored', p, text)
  <1>1. PICK j \in 0 .. Len(text) :
           /\ Begun(stored, p, text, j)
           /\ \/ escaped = FALSE /\ Left = Ahead(text, j, rest)
              \/ /\ escaped = TRUE /\ j # Len(text) /\ text[j + 1] \in {"\"", "\\"}
                 /\ Left = <<text[j + 1]>> \o Ahead(text, j + 1, rest)
    BY DEF InText
  <1>2. Len(text) \in Nat /\ j \in Nat /\ (j # Len(text) => j < Len(text) /\ j + 1 \in 0 .. Len(text))
    OBVIOUS
  <1>3. /\ j # Len(text) => Begun(Append(stored, text[j + 1]), p, text, j + 1)
        /\ j = Len(text) => Holds(Append(stored, sep), p, text)
    <2>1. stored \in Seq(Char \cup {sep})
      BY DEF JsonInv, JsonTypeOK
    <2>2. QED
      BY <1>1, <1>2, <2>1, BegunMore
  <1>4. escaped \in BOOLEAN
    BY DEF JsonInv, JsonTypeOK
  <1>5. ASSUME NEW c, NEW more, IsText(more), Left = <<c>> \o more
        PROVE  /\ Left' = more /\ recur' = recur /\ entry' = entry /\ Effect
               /\ escaped /\ c \in {"\"", "\\"} => escaped' = FALSE /\ stored' = Append(stored, c) /\ s' = s
               /\ ~escaped /\ c = "\\" => escaped' = TRUE /\ stored' = stored /\ s' = s
               /\ ~escaped /\ c \notin {"\"", "\\"} =>
                     escaped' = FALSE /\ stored' = Append(stored, c) /\ s' = s
               /\ ~escaped /\ c = "\"" /\ ~NoName =>
                     /\ escaped' = FALSE /\ stored' = Append(stored, sep)
                     /\ s' = IF s = "JSON_NAME_IN_STR" THEN "JSON_NAME_END" ELSE "JSON_VALUE_END"
    <2>1. a_json_append(c) /\ Left' = more /\ Len(stored') < Len(msg) /\ Len(entry) <= entry_max /\ Effect
      BY <1>5, Reads
    <2>2. QED
      BY <2>1, <1>4, InStringRead
  <1>6. CASE escaped
    <2>1. /\ j # Len(text) /\ text[j + 1] \in {"\"", "\\"}
          /\ Left = <<text[j + 1]>> \o Ahead(text, j + 1, rest) /\ IsText(Ahead(text, j + 1, rest))
      BY <1>1, <1>6, AheadIs
    <2>2. /\ Left' = Ahead(text, j + 1, rest) /\ recur' = recur /\ entry' = entry /\ Effect
          /\ escaped' = FALSE /\ stored' = Append(stored, text[j + 1]) /\ s' = s
      BY <1>5, <1>6, <2>1
    <2>3. Begun(stored', p, text, j + 1) /\ j + 1 \in 0 .. Len(text)
      BY <1>2, <1>3, <2>1, <2>2
    <2>4. InText(Left', escaped', stored', p, text, rest)
      BY <2>2, <2>3 DEF InText
    <2>5. QED
      BY <2>2, <2>4
  <1>7. CASE ~escaped
    <2>1. escaped = FALSE /\ Left = Ahead(text, j, rest)
      BY <1>1, <1>7
    <2>2. CASE j = Len(text)
      <3>1. Left = <<"\"">> \o rest
        BY <2>1, <2>2, AheadIs
      <3>2. ~NoName
        <4>1. s = "JSON_NAME_IN_STR" => j # 0
          BY <2>2
        <4>2. Len(stored) = p + j /\ p \in Nat
          BY <1>1 DEF Begun
        <4>3. s = "JSON_NAME_IN_STR" => Len(stored) # p
          BY <1>2, <4>1, <4>2
        <4>4. QED
          BY <4>3 DEF NoName
      <3>3. /\ Left' = rest /\ recur' = recur /\ entry' = entry /\ Effect
            /\ escaped' = FALSE /\ stored' = Append(stored, sep)
            /\ s' = IF s = "JSON_NAME_IN_STR" THEN "JSON_NAME_END" ELSE "JSON_VALUE_END"
        BY <1>5, <1>7, <3>1, <3>2
      <3>4. QED
        BY <1>3, <2>2, <3>3
    <2>3. CASE j # Len(text) /\ text[j + 1] \notin {"\"", "\\"}
      <3>1. Left = <<text[j + 1]>> \o Ahead(text, j + 1, rest) /\ IsText(Ahead(text, j + 1, rest))
        BY <2>1, <2>3, AheadIs
      <3>2. /\ Left' = Ahead(text, j + 1, rest) /\ recur' = recur /\ entry' = entry /\ Effect
            /\ escaped' = FALSE /\ stored' = Append(stored, text[j + 1]) /\ s' = s
        BY <1>5, <1>7, <2>3, <3>1
      <3>3. Begun(stored', p, text, j + 1) /\ j + 1 \in 0 .. Len(text)
        BY <1>2, <1>3, <2>3, <3>2
      <3>4. InText(Left', escaped', stored', p, text, rest)
        BY <3>2, <3>3 DEF InText
      <3>5. QED
        BY <3>2, <3>4
    <2>4. CASE j # Len(text) /\ text[j + 1] \in {"\"", "\\"}
      <3> DEFINE more == <<text[j + 1]>> \o Ahead(text, j + 1, rest)
      <3>1. Left = <<"\\">> \o more /\ IsText(more)
        BY <2>1, <2>4, AheadIs
      <3>2. /\ Left' = more /\ recur' = recur /\ entry' = entry /\ Effect
            /\ escaped' = TRUE /\ stored' = stored /\ s' = s
        <4> HIDE DEF more
        <4>1. QED
          BY <1>5, <1>7, <3>1
      <3>3. InText(Left', escaped', stored', p, text, rest)
        BY <1>1, <2>4, <3>2 DEF InText
      <3>4. QED
        BY <3>2, <3>3
    <2>5. QED
      BY <2>2, <2>3, <2>4
  <1>8. QED
    BY <1>6, <1>7

\* The parts of a document's text, from a member on.
LEMMA PartTypes ==
    ASSUME NEW doc, IsDocument(doc), NEW i \in DOMAIN doc, NEW gap \in Seq(Space)
    PROVE  /\ IsText(Behind(doc, i, gap))
           /\ \A n \in Nat : IsText(Braces(n, gap) \o Behind(doc, i, gap))
           /\ IsText(AfterValue(doc, i, gap))
           /\ IsText(Value(doc[i]) \o AfterValue(doc, i, gap))
           /\ IsText(AfterColon(doc, i, gap))
           /\ IsText(<<":">> \o AfterColon(doc, i, gap))
           /\ IsText(AfterName(doc, i, gap))
           /\ IsText(FromName(doc, i, gap))
  <1>1. IsText(Behind(doc, i, gap))
    <2>1. i \in 0 .. Len(doc)
      BY MembersAre
    <2>2. QED
      BY <2>1, BehindIs
  <1>2. ASSUME NEW n \in Nat PROVE IsText(Braces(n, gap) \o Behind(doc, i, gap))
    <2>1. IsText(Braces(n, gap))
      BY BracesAre DEF IsText
    <2>2. QED
      BY <1>1, <2>1, TextWith
  <1>3. IsText(gap) /\ IsText(<<":">>) /\ IsText(Value(doc[i])) /\ IsText(Quoted(doc[i].name))
    <2>1. IsText(gap) /\ IsText(<<":">>)
      BY Letters DEF IsText
    <2>2. IsText(Value(doc[i])) /\ IsText(Quoted(doc[i].name))
      BY MembersAre, ValueType, QuotedIs DEF IsText
    <2>3. QED
      BY <2>1, <2>2
  <1>4. IsText(AfterValue(doc, i, gap))
    <2>1. IsText(Braces(Ending(doc, i), gap) \o Behind(doc, i, gap))
      BY <1>2, MembersAre
    <2>2. QED
      BY <1>3, <2>1, TextWith DEF AfterValue
  <1>5. IsText(Value(doc[i]) \o AfterValue(doc, i, gap))
    BY <1>3, <1>4, TextWith
  <1>6. IsText(AfterColon(doc, i, gap))
    BY <1>3, <1>5, TextWith DEF AfterColon
  <1>7. IsText(<<":">> \o AfterColon(doc, i, gap))
    BY <1>3, <1>6, TextWith
  <1>8. IsText(AfterName(doc, i, gap))
    BY <1>3, <1>7, TextWith DEF AfterName
  <1>9. IsText(FromName(doc, i, gap))
    BY <1>3, <1>8, TextWith DEF FromName
  <1>10. QED
    BY <1>1, <1>2, <1>4, <1>5, <1>6, <1>7, <1>8, <1>9

\* A text in quotes begins with one.
LEMMA QuotedFirst ==
    ASSUME NEW text \in Seq(TextChar), NEW rest, IsText(rest)
    PROVE  Quoted(text) \o rest = <<"\"">> \o Ahead(text, 0, rest)
  <1> DEFINE quote == <<"\"">>
             inner == Escaped(text, 0)
  <1>1. IsText(quote)
    BY Letters DEF IsText
  <1>2. IsText(inner)
    <2>1. 0 \in 0 .. Len(text)
      OBVIOUS
    <2>2. QED
      BY <2>1, EscapedIs DEF IsText
  <1>3. Quoted(text) = quote \o (inner \o quote)
    BY QuotedIs
  <1> HIDE DEF quote, inner
  <1>4. IsText(inner \o quote)
    BY <1>1, <1>2, TextWith
  <1>5. (quote \o (inner \o quote)) \o rest = quote \o ((inner \o quote) \o rest)
    BY <1>1, <1>4, TextAgain
  <1>6. (inner \o quote) \o rest = inner \o (quote \o rest)
    BY <1>1, <1>2, TextAgain
  <1>7. QED
    BY <1>3, <1>5, <1>6 DEF Ahead, quote, inner

\* A word, of which j characters were read, and what follows.
WordAhead(text, j, rest) == SubSeq(text, j + 1, Len(text)) \o rest

LEMMA WordAheadIs ==
    ASSUME NEW text \in Seq(WordChar), NEW rest, IsText(rest), NEW j \in 0 .. Len(text)
    PROVE  /\ IsText(WordAhead(text, j, rest))
           /\ WordAhead(text, 0, rest) = text \o rest
           /\ WordAhead(text, Len(text), rest) = rest
           /\ j # Len(text) =>
                 /\ text[j + 1] \in WordChar /\ IsText(WordAhead(text, j + 1, rest))
                 /\ WordAhead(text, j, rest) = <<text[j + 1]>> \o WordAhead(text, j + 1, rest)
  <1>1. /\ Len(text) \in Nat
        /\ \A k \in 0 .. Len(text) : SubSeq(text, k + 1, Len(text)) \in Seq(WordChar)
    OBVIOUS
  <1>2. \A k \in 0 .. Len(text) : IsText(SubSeq(text, k + 1, Len(text)))
    <2>1. Seq(WordChar) \subseteq Seq(Letter)
      BY Letters
    <2>2. QED
      BY <1>1, <2>1 DEF IsText
  <1>3. \A k \in 0 .. Len(text) : IsText(WordAhead(text, k, rest))
    BY <1>2, TextWith DEF WordAhead
  <1>4. SubSeq(text, 0 + 1, Len(text)) = text
    OBVIOUS
  <1>5. WordAhead(text, Len(text), rest) = rest
    <2>1. SubSeq(text, Len(text) + 1, Len(text)) = <<>>
      OBVIOUS
    <2>2. rest \in Seq(Letter)
      BY DEF IsText
    <2>3. <<>> \o rest = rest
      BY <2>2, ConcatEmptyRight
    <2>4. QED
      BY <2>1, <2>3 DEF WordAhead
  <1>6. ASSUME j # Len(text)
        PROVE  /\ text[j + 1] \in WordChar /\ j + 1 \in 0 .. Len(text)
               /\ WordAhead(text, j, rest) = <<text[j + 1]>> \o WordAhead(text, j + 1, rest)
    <2> DEFINE one == <<text[j + 1]>>
               more == SubSeq(text, j + 1 + 1, Len(text))
    <2>1. text[j + 1] \in WordChar /\ j + 1 \in 0 .. Len(text)
      BY <1>6
    <2>2. SubSeq(text, j + 1, Len(text)) = one \o more
      BY <1>1, <1>6
    <2>3. IsText(more)
      BY <1>2, <2>1
    <2>4. IsText(one)
      BY <2>1, OneIsText DEF WordChar, TextChar, Letter
    <2> HIDE DEF one, more
    <2>5. (one \o more) \o rest = one \o (more \o rest)
      BY <2>3, <2>4, TextAgain
    <2>6. QED
      BY <2>1, <2>2, <2>5 DEF WordAhead, one, more
  <1>7. QED
    BY <1>3, <1>4, <1>5, <1>6 DEF WordAhead

\* What follows a member that is not the last.
LEMMA BehindNext ==
    ASSUME NEW doc, IsDocument(doc), NEW gap \in Seq(Space), NEW i \in 0 .. Len(doc) - 1
    PROVE  /\ i + 1 \in DOMAIN doc
           /\ i = 0 \/ doc[i].kind = "object" => Behind(doc, i, gap) = FromName(doc, i + 1, gap)
           /\ i # 0 /\ doc[i].kind # "object" =>
                 Behind(doc, i, gap) = <<",">> \o (gap \o FromName(doc, i + 1, gap))
  <1>1. i + 1 \in DOMAIN doc /\ i + 1 \in 0 .. Len(doc) /\ i + 1 - 1 = i /\ (i + 1 = 1 <=> i = 0)
    BY DEF IsDocument
  <1>2. IsText(Behind(doc, i + 1, gap))
    BY <1>1, BehindIs
  <1>3. Behind(doc, i, gap) = Member(doc, i + 1, gap) \o Behind(doc, i + 1, gap)
    BY BehindIs
  <1>4. Behind(doc, i, gap) = Separator(doc, i + 1, gap) \o FromName(doc, i + 1, gap)
    <2> DEFINE k == i + 1
               rest == Behind(doc, k, gap)
    <2>1. k \in DOMAIN doc /\ IsText(rest)
      BY <1>1, <1>2
    <2>2. Behind(doc, i, gap) = Member(doc, k, gap) \o rest
      BY <1>3
    <2> HIDE DEF k, rest
    <2>3. Member(doc, k, gap) \o rest = Separator(doc, k, gap) \o NameOn(doc, k, gap, rest)
      BY <2>1, MemberIs
    <2>4. FromName(doc, k, gap) = NameOn(doc, k, gap, rest)
      BY Zenon DEF NameOn, FromName, AfterName, AfterColon, AfterValue, rest
    <2>5. Behind(doc, i, gap) = Separator(doc, k, gap) \o FromName(doc, k, gap)
      BY <2>2, <2>3, <2>4, Zenon
    <2>6. QED
      BY <2>5 DEF k
  <1>5. IsText(FromName(doc, i + 1, gap))
    BY <1>1, PartTypes
  <1>6. i = 0 \/ doc[i].kind = "object" => Behind(doc, i, gap) = FromName(doc, i + 1, gap)
    <2>1. i = 0 \/ doc[i].kind = "object" => Separator(doc, i + 1, gap) = <<>>
      BY <1>1 DEF Separator
    <2>2. FromName(doc, i + 1, gap) \in Seq(Letter)
      BY <1>5 DEF IsText
    <2>3. <<>> \o FromName(doc, i + 1, gap) = FromName(doc, i + 1, gap)
      BY <2>2, ConcatEmptyRight
    <2>4. QED
      BY <1>4, <2>1, <2>3
  <1>7. i # 0 /\ doc[i].kind # "object" =>
           Behind(doc, i, gap) = <<",">> \o (gap \o FromName(doc, i + 1, gap))
    <2> DEFINE comma_ == <<",">>
               from == FromName(doc, i + 1, gap)
    <2>1. ASSUME i # 0, doc[i].kind # "object" PROVE Separator(doc, i + 1, gap) = comma_ \o gap
      <3> DEFINE k == i + 1
      <3>1. k # 1 /\ doc[k - 1] = doc[i]
        BY <1>1, <2>1
      <3> HIDE DEF k
      <3>2. Separator(doc, k, gap) = comma_ \o gap
        BY <2>1, <3>1 DEF Separator
      <3>3. QED
        BY <3>2 DEF k
    <2>2. IsText(comma_) /\ IsText(gap)
      BY Letters DEF IsText
    <2>3. IsText(from)
      BY <1>5
    <2> HIDE DEF comma_, from
    <2>4. (comma_ \o gap) \o from = comma_ \o (gap \o from)
      BY <2>2, <2>3, TextAgain
    <2>5. Behind(doc, i, gap) = Separator(doc, i + 1, gap) \o from
      BY <1>4 DEF from
    <2>6. QED
      BY <2>1, <2>4, <2>5 DEF comma_, from
  <1>8. QED
    BY <1>1, <1>6, <1>7

\* The whole text.
LEMMA RenderIs ==
    ASSUME NEW doc, IsDocument(doc), NEW gap \in Seq(Space)
    PROVE  Render(doc, gap) = <<"{">> \o (gap \o FromName(doc, 1, gap)) /\ IsText(Render(doc, gap))
  <1> DEFINE open == <<"{">>
             close == <<"}">>
             members == FlattenSeq([i \in DOMAIN doc |-> Member(doc, i, gap)])
  <1>1. Len(doc) \in Nat /\ DOMAIN doc = 1 .. Len(doc) /\ 0 \in 0 .. Len(doc) - 1 /\ 0 \in 0 .. Len(doc)
    BY DEF IsDocument
  <1>2. Behind(doc, 0, gap) = members \o close
    <2>1. 1 .. Len(doc) - 0 = DOMAIN doc /\ \A k \in DOMAIN doc : 0 + k = k
      BY <1>1
    <2>2. [k \in 1 .. Len(doc) - 0 |-> Member(doc, 0 + k, gap)] = [i \in DOMAIN doc |-> Member(doc, i, gap)]
      BY <2>1
    <2>3. QED
      BY <2>2 DEF Behind
  <1>3. Behind(doc, 0, gap) = FromName(doc, 1, gap)
    <2>1. 0 + 1 = 1
      OBVIOUS
    <2>2. QED
      BY <1>1, <2>1, BehindNext
  <1>4. IsText(open) /\ IsText(close) /\ IsText(gap)
    BY Letters DEF IsText
  <1>5. IsText(members)
    <2>1. IsText(<<>>)
      BY Letters DEF IsText
    <2>2. \A i \in DOMAIN doc : IsText(Member(doc, i, gap))
      BY <2>1, MemberIs
    <2>3. [i \in DOMAIN doc |-> Member(doc, i, gap)] \in [1 .. Len(doc) -> Seq(Letter)]
      BY <1>1, <2>2 DEF IsText
    <2>4. QED
      BY <1>1, <2>3, FlattenType DEF IsText
  <1>6. Render(doc, gap) = ((open \o gap) \o members) \o close
    BY DEF Render
  <1> HIDE DEF open, close, members
  <1>7. IsText(open \o gap) /\ IsText(members \o close)
    BY <1>4, <1>5, TextWith
  <1>8. ((open \o gap) \o members) \o close = (open \o gap) \o (members \o close)
    <2> DEFINE head == open \o gap
    <2> HIDE DEF head
    <2>1. IsText(head)
      BY <1>7 DEF head
    <2>2. (head \o members) \o close = head \o (members \o close)
      BY <1>4, <1>5, <2>1, TextAgain
    <2>3. QED
      BY <2>2 DEF head
  <1>9. (open \o gap) \o (members \o close) = open \o (gap \o (members \o close))
    <2> DEFINE tail == members \o close
    <2>1. IsText(tail)
      BY <1>7
    <2> HIDE DEF tail
    <2>2. Cat(Cat(open, gap), tail) = Cat(open, Cat(gap, tail))
      BY <1>4, <2>1, CatAgain
    <2>3. QED
      BY <2>2 DEF Cat, tail
  <1>10. IsText((open \o gap) \o (members \o close))
    BY <1>7, TextWith
  <1>11. Render(doc, gap) = open \o (gap \o FromName(doc, 1, gap))
    BY <1>2, <1>3, <1>6, <1>8, <1>9
  <1>12. IsText(Render(doc, gap))
    BY <1>6, <1>8, <1>10
  <1>13. QED
    BY <1>11, <1>12 DEF open

(***************************************************************************)
(* Where in a document the parser is, and that each character leads from   *)
(* there to where the text goes on.                                        *)
(***************************************************************************)

\* The names and the values of the first m members are in a buffer, where the table
\* says.
Named(doc, m, places, buffer) == \A k \in 1 .. m : Holds(buffer, places[2 * k - 1], doc[k].name)
Valued(doc, m, places, buffer) == \A k \in 1 .. m : Holds(buffer, places[2 * k], doc[k].text)

Spaced(left, rest) == \E gap \in Seq(Space) : left = gap \o rest

\* How far the parser is in the text of a document: at the beginning, at a member,
\* in or behind its name, at its value, in it or behind it, at the end, or it found
\* no room in the table.
Beginning(doc, gap) ==
    /\ s = "JSON_INIT" /\ escaped = FALSE /\ recur = 0 /\ Len(entry) = 0
    /\ Left = Render(doc, gap)

AtName(doc, i, gap) ==
    /\ s = "JSON_NAME" /\ escaped = FALSE /\ recur = doc[i].depth
    /\ Len(entry) = 2 * i - 2
    /\ Named(doc, i - 1, entry, stored) /\ Valued(doc, i - 1, entry, stored)
    /\ Spaced(Left, FromName(doc, i, gap))

InName(doc, i, gap) ==
    /\ s = "JSON_NAME_IN_STR" /\ recur = doc[i].depth
    /\ Len(entry) = 2 * i - 1
    /\ Named(doc, i - 1, entry, stored) /\ Valued(doc, i - 1, entry, stored)
    /\ InText(Left, escaped, stored, entry[2 * i - 1], doc[i].name, AfterName(doc, i, gap))

PastName(doc, i, gap) ==
    /\ s = "JSON_NAME_END" /\ escaped = FALSE /\ recur = doc[i].depth
    /\ Len(entry) = 2 * i - 1
    /\ Named(doc, i, entry, stored) /\ Valued(doc, i - 1, entry, stored)
    /\ Spaced(Left, <<":">> \o AfterColon(doc, i, gap))

AtValue(doc, i, gap) ==
    /\ s = "JSON_VALUE" /\ escaped = FALSE /\ recur = doc[i].depth
    /\ Len(entry) = 2 * i - 1
    /\ Named(doc, i, entry, stored) /\ Valued(doc, i - 1, entry, stored)
    /\ Spaced(Left, Value(doc[i]) \o AfterValue(doc, i, gap))

InValue(doc, i, gap) ==
    /\ s = "JSON_VALUE_IN_STR" /\ recur = doc[i].depth /\ doc[i].kind = "text"
    /\ Len(entry) = 2 * i
    /\ Named(doc, i, entry, stored) /\ Valued(doc, i - 1, entry, stored)
    /\ InText(Left, escaped, stored, entry[2 * i], doc[i].text, AfterValue(doc, i, gap))

InWord(doc, i, gap) ==
    /\ s = "JSON_VALUE_IN_VAL" /\ escaped = FALSE /\ recur = doc[i].depth /\ doc[i].kind = "word"
    /\ Len(entry) = 2 * i
    /\ Named(doc, i, entry, stored) /\ Valued(doc, i - 1, entry, stored)
    /\ \E j \in 1 .. Len(doc[i].text) :
          /\ Begun(stored, entry[2 * i], doc[i].text, j)
          /\ Left = WordAhead(doc[i].text, j, AfterValue(doc, i, gap))

PastValue(doc, i, gap) ==
    /\ s \in {"JSON_VALUE_IN_VAL", "JSON_VALUE_END"} /\ escaped = FALSE /\ doc[i].kind # "object"
    /\ Len(entry) = 2 * i
    /\ Named(doc, i, entry, stored) /\ Valued(doc, i - 1, entry, stored)
    /\ IF s = "JSON_VALUE_END"
       THEN Holds(stored, entry[2 * i], doc[i].text)
       ELSE Begun(stored, entry[2 * i], doc[i].text, Len(doc[i].text))
    /\ \E n \in Nat : /\ recur = n + NextDepth(doc, i)
                      /\ Spaced(Left, Braces(n, gap) \o Behind(doc, i, gap))

Accepted(doc) ==
    /\ s = "JSON_GOOD" /\ Len(entry) = 2 * Len(doc)
    /\ Named(doc, Len(doc), entry, stored) /\ Valued(doc, Len(doc), entry, stored)

Refused(doc) == s = "JSON_BAD" /\ entry_max < 2 * Len(doc)

LEMMA Kept ==
    ASSUME JsonInv, a_json_append_str_sized, Effect, NEW doc, IsDocument(doc), NEW m \in 0 .. Len(doc)
    PROVE  /\ Named(doc, m, entry, stored) /\ 2 * m - 1 <= Len(entry) => Named(doc, m, entry', stored')
           /\ Valued(doc, m, entry, stored) /\ 2 * m <= Len(entry) => Valued(doc, m, entry', stored')
  <1>1. /\ Longer(stored, stored') /\ Longer(entry, entry')
        /\ Len(stored) \in Nat /\ Len(stored') \in Nat /\ Len(entry) \in Nat
    <2>1. JsonInv'
      BY CharacterStep
    <2>2. QED
      BY <2>1, Growing DEF JsonInv, JsonTypeOK
  <1>2. Len(doc) \in Nat /\ \A k \in 1 .. m : k \in DOMAIN doc
    BY DEF IsDocument
  <1>3. \A k \in 1 .. m : doc[k].name \in Seq(TextChar) /\ doc[k].text \in Seq(TextChar)
    BY <1>2, MembersAre
  <1>4. \A p : \A text \in Seq(TextChar) : Holds(stored, p, text) => Holds(stored', p, text)
    BY <1>1, HoldsOn
  <1>5. ASSUME Named(doc, m, entry, stored), 2 * m - 1 <= Len(entry) PROVE Named(doc, m, entry', stored')
    <2>1. \A k \in 1 .. m : entry'[2 * k - 1] = entry[2 * k - 1]
      <3>1. \A k \in 1 .. m : 2 * k - 1 \in 1 .. Len(entry)
        BY <1>1, <1>2, <1>5
      <3>2. QED
        BY <3>1, <1>1 DEF Longer
    <2>2. QED
      BY <1>3, <1>4, <1>5, <2>1 DEF Named
  <1>6. ASSUME Valued(doc, m, entry, stored), 2 * m <= Len(entry) PROVE Valued(doc, m, entry', stored')
    <2>1. \A k \in 1 .. m : entry'[2 * k] = entry[2 * k]
      <3>1. \A k \in 1 .. m : 2 * k \in 1 .. Len(entry)
        BY <1>1, <1>2, <1>6
      <3>2. QED
        BY <3>1, <1>1 DEF Longer
    <2>2. QED
      BY <1>3, <1>4, <1>6, <2>1 DEF Valued
  <1>7. QED
    BY <1>5, <1>6

LEMMA OneMore ==
    ASSUME NEW doc, NEW i \in Nat \ {0}, NEW places, NEW buffer
    PROVE  /\ Named(doc, i - 1, places, buffer) /\ Holds(buffer, places[2 * i - 1], doc[i].name) =>
                 Named(doc, i, places, buffer)
           /\ Valued(doc, i - 1, places, buffer) /\ Holds(buffer, places[2 * i], doc[i].text) =>
                 Valued(doc, i, places, buffer)
  <1>1. \A k \in 1 .. i : k \in 1 .. i - 1 \/ k = i
    OBVIOUS
  <1>2. QED
    BY <1>1 DEF Named, Valued

\* A place was added for a text that is to follow.
LEMMA PlaceAdded ==
    ASSUME JsonInv, entry' = Append(entry, Len(stored))
    PROVE  /\ Len(entry') = Len(entry) + 1 /\ Len(entry) \in Nat
           /\ entry'[Len(entry) + 1] = Len(stored)
           /\ \A text : Begun(stored, Len(stored), text, 0)
           /\ Holds(Append(stored, sep), Len(stored), <<>>)
           /\ \A text \in Seq(TextChar) : 0 < Len(text) =>
                 Begun(Append(stored, text[1]), Len(stored), text, 1)
  <1>1. entry \in Seq(0 .. Len(msg)) /\ stored \in Seq(Char \cup {sep}) /\ Len(stored) \in Nat
    BY DEF JsonInv, JsonTypeOK
  <1>2. /\ Len(entry') = Len(entry) + 1 /\ Len(entry) \in Nat
        /\ entry'[Len(entry) + 1] = Len(stored)
    BY <1>1
  <1>3. \A text : Begun(stored, Len(stored), text, 0)
    BY <1>1 DEF Begun
  <1>4. Holds(Append(stored, sep), Len(stored), <<>>)
    <2>1. <<>> \in Seq(TextChar) /\ Len(<<>>) = 0 /\ 0 \in Nat
      OBVIOUS
    <2>2. 0 = Len(<<>>) => Holds(Append(stored, sep), Len(stored), <<>>)
      BY <1>1, <1>3, <2>1, BegunMore
    <2>3. QED
      BY <2>1, <2>2
  <1>5. ASSUME NEW text \in Seq(TextChar), 0 < Len(text)
        PROVE  Begun(Append(stored, text[1]), Len(stored), text, 1)
    <2>1. Begun(Append(stored, text[0 + 1]), Len(stored), text, 0 + 1)
      <3>1. 0 \in Nat
        OBVIOUS
      <3>2. QED
        BY <1>1, <1>3, <1>5, <3>1, BegunMore
    <2>2. 0 + 1 = 1
      OBVIOUS
    <2>3. QED
      BY <2>1, <2>2
  <1>6. QED
    BY <1>2, <1>3, <1>4, <1>5

\* What is left begins with what was expected, or a space before it is read.
LEMMA SpacedText ==
    ASSUME NEW gap \in Seq(Space), NEW rest
    PROVE  Spaced(gap \o rest, rest)
  BY DEF Spaced

LEMMA GapRead ==
    ASSUME JsonInv, a_json_append_str_sized, NEW rest, IsText(rest), Spaced(Left, rest),
           s \in {"JSON_NAME", "JSON_NAME_END", "JSON_VALUE", "JSON_VALUE_END", "JSON_VALUE_IN_VAL"}
    PROVE  \/ Left = rest
           \/ /\ Effect /\ Spaced(Left', rest)
              /\ entry' = entry /\ recur' = recur /\ escaped' = escaped
              /\ s # "JSON_VALUE_IN_VAL" => s' = s /\ stored' = stored
              /\ s = "JSON_VALUE_IN_VAL" => s' = "JSON_VALUE_END" /\ stored' = Append(stored, sep)
  <1>1. PICK gap \in Seq(Space) : Left = gap \o rest
    BY DEF Spaced
  <1>2. CASE gap = <<>>
    BY <1>1, <1>2, SpacesFirst
  <1>3. CASE gap # <<>>
    <2> DEFINE more == Tail(gap) \o rest
    <2>1. /\ gap[1] \in Space /\ Tail(gap) \in Seq(Space) /\ IsText(more)
          /\ Left = <<gap[1]>> \o more
      BY <1>1, <1>3, SpacesFirst
    <2>2. Spaced(more, rest)
      BY <2>1, SpacedText
    <2> HIDE DEF more
    <2>3. /\ a_json_append(gap[1]) /\ Left' = more /\ Effect
          /\ Len(stored') < Len(msg) /\ Len(entry) <= entry_max
      BY <2>1, Reads
    <2>4. /\ entry' = entry /\ recur' = recur /\ escaped' = escaped
          /\ s # "JSON_VALUE_IN_VAL" => s' = s /\ stored' = stored
          /\ s = "JSON_VALUE_IN_VAL" => s' = "JSON_VALUE_END" /\ stored' = Append(stored, sep)
      BY <2>1, <2>3, SpaceRead
    <2>5. QED
      BY <2>2, <2>3, <2>4
  <1>4. QED
    BY <1>2, <1>3

\* The brace that opens the message.
LEMMA BeginningStep ==
    ASSUME JsonInv, a_json_append_str_sized, NEW doc, IsDocument(doc), NEW gap \in Seq(Space),
           Beginning(doc, gap)
    PROVE  AtName(doc, 1, gap)'
  <1>1. 1 \in DOMAIN doc /\ doc[1].depth = 0
    BY DEF IsDocument
  <1>2. IsText(gap \o FromName(doc, 1, gap))
    BY <1>1, PartTypes, SpacesFirst
  <1>3. Left = <<"{">> \o (gap \o FromName(doc, 1, gap))
    BY RenderIs DEF Beginning
  <1>4. /\ a_json_append("{") /\ Left' = gap \o FromName(doc, 1, gap)
        /\ Len(stored') < Len(msg) /\ Len(entry) <= entry_max
    BY <1>2, <1>3, Reads
  <1>5. s' = "JSON_NAME" /\ UNCHANGED <<recur, stored, entry, escaped>>
    BY <1>4, BeginRead DEF Beginning
  <1>6. Named(doc, 1 - 1, entry', stored') /\ Valued(doc, 1 - 1, entry', stored')
    BY DEF Named, Valued
  <1>7. Spaced(Left', FromName(doc, 1, gap))
    BY <1>4, SpacedText
  <1>8. QED
    BY <1>1, <1>5, <1>6, <1>7 DEF AtName, Beginning

\* A name begins.
LEMMA AtNameStep ==
    ASSUME JsonInv, a_json_append_str_sized, NEW doc, IsDocument(doc), NEW gap \in Seq(Space),
           NEW i \in DOMAIN doc, AtName(doc, i, gap)
    PROVE  AtName(doc, i, gap)' \/ InName(doc, i, gap)' \/ Refused(doc)'
  <1>1. Len(doc) \in Nat /\ DOMAIN doc = 1 .. Len(doc) /\ i \in Nat \ {0} /\ i - 1 \in 0 .. Len(doc)
    BY MembersAre
  <1>2. /\ s = "JSON_NAME" /\ escaped = FALSE /\ recur = doc[i].depth
        /\ Len(entry) = 2 * i - 2
        /\ Named(doc, i - 1, entry, stored) /\ Valued(doc, i - 1, entry, stored)
        /\ Spaced(Left, FromName(doc, i, gap))
    BY DEF AtName
  <1>3. Effect => Named(doc, i - 1, entry', stored') /\ Valued(doc, i - 1, entry', stored')
    <2>1. 2 * (i - 1) - 1 <= Len(entry) /\ 2 * (i - 1) <= Len(entry)
      BY <1>1, <1>2
    <2>2. QED
      BY <1>1, <1>2, <2>1, Kept
  <1>4. IsText(FromName(doc, i, gap)) /\ IsText(AfterName(doc, i, gap))
    BY PartTypes
  <1>5. CASE Left = FromName(doc, i, gap)
    <2> DEFINE text == doc[i].name
               rest == Ahead(text, 0, AfterName(doc, i, gap))
    <2>1. text \in Seq(TextChar)
      BY MembersAre
    <2>2. Left = <<"\"">> \o rest /\ IsText(rest)
      <3>1. Quoted(text) \o AfterName(doc, i, gap) = <<"\"">> \o rest
        BY <1>4, <2>1, QuotedFirst
      <3>2. 0 \in 0 .. Len(text)
        BY <2>1
      <3>3. IsText(rest)
        BY <1>4, <2>1, <3>2, AheadIs
      <3>4. QED
        BY <1>5, <3>1, <3>3 DEF FromName
    <2> HIDE DEF rest
    <2>3. a_json_append("\"") /\ Left' = rest /\ Len(stored') < Len(msg) /\ Effect
      BY <2>2, Reads
    <2>4. /\ UNCHANGED <<recur, stored, escaped>> /\ entry' = Append(entry, Len(stored))
          /\ s' = IF Len(entry') <= entry_max THEN "JSON_NAME_IN_STR" ELSE "JSON_BAD"
      BY <1>2, <2>3, QuoteRead
    <2>5. /\ Len(entry') = 2 * i - 1 /\ entry'[2 * i - 1] = Len(stored)
          /\ Begun(stored, Len(stored), text, 0)
      <3>1. /\ Len(entry') = Len(entry) + 1 /\ entry'[Len(entry) + 1] = Len(stored)
            /\ Begun(stored, Len(stored), text, 0)
        BY <2>4, PlaceAdded
      <3>2. Len(entry) + 1 = 2 * i - 1
        BY <1>1, <1>2
      <3>3. QED
        BY <3>1, <3>2
    <2>6. CASE Len(entry') <= entry_max
      <3>1. InText(Left', escaped', stored', entry'[2 * i - 1], text, AfterName(doc, i, gap))
        <4>1. 0 \in 0 .. Len(text)
          BY <2>1
        <4>2. Begun(stored', entry'[2 * i - 1], text, 0) /\ escaped' = FALSE
              /\ Left' = Ahead(text, 0, AfterName(doc, i, gap))
          BY <1>2, <2>3, <2>4, <2>5 DEF rest
        <4> HIDE DEF text
        <4>3. QED
          BY <4>1, <4>2 DEF InText
      <3>2. InName(doc, i, gap)'
        BY <1>2, <1>3, <2>3, <2>4, <2>5, <2>6, <3>1 DEF InName
      <3>3. QED
        BY <3>2
    <2>7. CASE ~(Len(entry') <= entry_max)
      <3>1. s' = "JSON_BAD"
        BY <2>4, <2>7
      <3>2. entry_max < 2 * Len(doc)
        BY <1>1, <2>5, <2>7, JsonConstants
      <3>3. QED
        BY <3>1, <3>2 DEF Refused
    <2>8. QED
      BY <2>6, <2>7
  <1>6. CASE Left # FromName(doc, i, gap)
    <2>1. /\ Effect /\ Spaced(Left', FromName(doc, i, gap)) /\ s' = s
          /\ entry' = entry /\ recur' = recur /\ escaped' = escaped
      BY <1>2, <1>4, <1>6, GapRead
    <2>2. AtName(doc, i, gap)'
      BY <1>2, <1>3, <2>1 DEF AtName
    <2>3. QED
      BY <2>2
  <1>7. QED
    BY <1>5, <1>6

\* A name goes on or ends.
LEMMA InNameStep ==
    ASSUME JsonInv, a_json_append_str_sized, NEW doc, IsDocument(doc), NEW gap \in Seq(Space),
           NEW i \in DOMAIN doc, InName(doc, i, gap)
    PROVE  InName(doc, i, gap)' \/ PastName(doc, i, gap)'
  <1> DEFINE text == doc[i].name
             rest == AfterName(doc, i, gap)
             p == entry[2 * i - 1]
  <1>1. Len(doc) \in Nat /\ DOMAIN doc = 1 .. Len(doc) /\ i \in Nat \ {0} /\ i - 1 \in 0 .. Len(doc)
    BY MembersAre
  <1>2. /\ s = "JSON_NAME_IN_STR" /\ recur = doc[i].depth
        /\ Len(entry) = 2 * i - 1
        /\ Named(doc, i - 1, entry, stored) /\ Valued(doc, i - 1, entry, stored)
        /\ InText(Left, escaped, stored, p, text, rest)
    BY DEF InName
  <1>3. Effect => Named(doc, i - 1, entry', stored') /\ Valued(doc, i - 1, entry', stored')
    <2>1. 2 * (i - 1) - 1 <= Len(entry) /\ 2 * (i - 1) <= Len(entry)
      BY <1>1, <1>2
    <2>2. QED
      BY <1>1, <1>2, <2>1, Kept
  <1>4. text \in Seq(TextChar) /\ text # <<>> /\ IsText(rest) /\ p = entry[Len(entry)] /\ InString
    BY <1>2, MembersAre, PartTypes DEF InString
  <1>5. PICK q : q = p
    OBVIOUS
  <1> HIDE DEF text, rest, p
  <1>6. /\ recur' = recur /\ entry' = entry /\ Effect
        /\ \/ s' = s /\ InText(Left', escaped', stored', q, text, rest)
           \/ s' = "JSON_NAME_END" /\ escaped' = FALSE /\ Left' = rest /\ Holds(stored', q, text)
    BY <1>2, <1>4, <1>5, TextRead
  <1>7. q = entry'[2 * i - 1]
    BY <1>5, <1>6 DEF p
  <1>8. CASE s' = s /\ InText(Left', escaped', stored', q, text, rest)
    <2>1. InName(doc, i, gap)'
      BY <1>2, <1>3, <1>6, <1>7, <1>8 DEF InName, text, rest
    <2>2. QED
      BY <2>1
  <1>9. CASE s' = "JSON_NAME_END" /\ escaped' = FALSE /\ Left' = rest /\ Holds(stored', q, text)
    <2>1. Named(doc, i, entry', stored')
      <3>1. Holds(stored', entry'[2 * i - 1], doc[i].name)
        BY <1>7, <1>9 DEF text
      <3>2. QED
        BY <1>1, <1>3, <1>6, <3>1, OneMore
    <2>2. Spaced(Left', <<":">> \o AfterColon(doc, i, gap))
      BY <1>9, SpacedText DEF rest, AfterName
    <2>3. PastName(doc, i, gap)'
      BY <1>2, <1>3, <1>6, <1>9, <2>1, <2>2 DEF PastName
    <2>4. QED
      BY <2>3
  <1>10. QED
    BY <1>6, <1>8, <1>9

\* A colon follows it.
LEMMA PastNameStep ==
    ASSUME JsonInv, a_json_append_str_sized, NEW doc, IsDocument(doc), NEW gap \in Seq(Space),
           NEW i \in DOMAIN doc, PastName(doc, i, gap)
    PROVE  PastName(doc, i, gap)' \/ AtValue(doc, i, gap)'
  <1> DEFINE rest == AfterColon(doc, i, gap)
  <1>1. Len(doc) \in Nat /\ DOMAIN doc = 1 .. Len(doc) /\ i \in Nat \ {0} /\ i - 1 \in 0 .. Len(doc)
        /\ i \in 0 .. Len(doc)
    BY MembersAre
  <1>2. /\ s = "JSON_NAME_END" /\ escaped = FALSE /\ recur = doc[i].depth
        /\ Len(entry) = 2 * i - 1
        /\ Named(doc, i, entry, stored) /\ Valued(doc, i - 1, entry, stored)
        /\ Spaced(Left, <<":">> \o rest)
    BY DEF PastName
  <1>3. Effect => Named(doc, i, entry', stored') /\ Valued(doc, i - 1, entry', stored')
    <2>1. 2 * i - 1 <= Len(entry) /\ 2 * (i - 1) <= Len(entry)
      BY <1>1, <1>2
    <2>2. QED
      BY <1>1, <1>2, <2>1, Kept
  <1>4. IsText(rest) /\ IsText(<<":">> \o rest)
    BY PartTypes
  <1>5. rest = gap \o (Value(doc[i]) \o AfterValue(doc, i, gap))
    BY DEF AfterColon
  <1> HIDE DEF rest
  <1>6. CASE Left = <<":">> \o rest
    <2>1. /\ a_json_append(":") /\ Left' = rest /\ Len(stored') < Len(msg) /\ Len(entry) <= entry_max
          /\ Effect
      BY <1>4, <1>6, Reads
    <2>2. s' = "JSON_VALUE" /\ UNCHANGED <<recur, stored, entry, escaped>>
      BY <1>2, <2>1, ColonRead
    <2>3. Spaced(Left', Value(doc[i]) \o AfterValue(doc, i, gap))
      BY <1>5, <2>1, SpacedText
    <2>4. AtValue(doc, i, gap)'
      BY <1>2, <1>3, <2>1, <2>2, <2>3 DEF AtValue
    <2>5. QED
      BY <2>4
  <1>7. CASE Left # <<":">> \o rest
    <2>1. /\ Effect /\ Spaced(Left', <<":">> \o rest) /\ s' = s
          /\ entry' = entry /\ recur' = recur /\ escaped' = escaped
      BY <1>2, <1>4, <1>7, GapRead
    <2>2. PastName(doc, i, gap)'
      BY <1>2, <1>3, <2>1 DEF PastName, rest
    <2>3. QED
      BY <2>2
  <1>8. QED
    BY <1>6, <1>7

\* A value begins: a text in quotes, a word, or an object.
LEMMA AtValueStep ==
    ASSUME JsonInv, a_json_append_str_sized, NEW doc, IsDocument(doc), NEW gap \in Seq(Space),
           NEW i \in DOMAIN doc, AtValue(doc, i, gap)
    PROVE  \/ AtValue(doc, i, gap)' \/ InValue(doc, i, gap)' \/ InWord(doc, i, gap)' \/ Refused(doc)'
           \/ i + 1 \in DOMAIN doc /\ AtName(doc, i + 1, gap)'
  <1> DEFINE text == doc[i].text
             rest == AfterValue(doc, i, gap)
             after == Value(doc[i]) \o rest
  <1>1. Len(doc) \in Nat /\ DOMAIN doc = 1 .. Len(doc) /\ i \in Nat \ {0} /\ i - 1 \in 0 .. Len(doc)
        /\ i \in 0 .. Len(doc)
    BY MembersAre
  <1>2. /\ s = "JSON_VALUE" /\ escaped = FALSE /\ recur = doc[i].depth
        /\ Len(entry) = 2 * i - 1
        /\ Named(doc, i, entry, stored) /\ Valued(doc, i - 1, entry, stored)
        /\ Spaced(Left, after)
    BY DEF AtValue
  <1>3. Effect => Named(doc, i, entry', stored') /\ Valued(doc, i - 1, entry', stored')
    <2>1. 2 * i - 1 <= Len(entry) /\ 2 * (i - 1) <= Len(entry)
      BY <1>1, <1>2
    <2>2. QED
      BY <1>1, <1>2, <2>1, Kept
  <1>4. IsText(rest) /\ IsText(after) /\ text \in Seq(TextChar)
    BY PartTypes, MembersAre
  <1>5. ASSUME entry' = Append(entry, Len(stored))
        PROVE  /\ Len(entry') = 2 * i /\ entry'[2 * i] = Len(stored)
               /\ ~(Len(entry') <= entry_max) => entry_max < 2 * Len(doc)
    <2>1. Len(entry') = Len(entry) + 1 /\ entry'[Len(entry) + 1] = Len(stored)
      BY <1>5, PlaceAdded
    <2>2. Len(entry) + 1 = 2 * i
      BY <1>1, <1>2
    <2>3. Len(entry') = 2 * i /\ entry'[2 * i] = Len(stored)
      BY <2>1, <2>2
    <2>4. 2 * i <= 2 * Len(doc)
      BY <1>1
    <2>5. QED
      BY <1>1, <2>3, <2>4, JsonConstants
  <1>6. CASE Left # after
    <2>1. /\ Effect /\ Spaced(Left', after) /\ s' = s
          /\ entry' = entry /\ recur' = recur /\ escaped' = escaped
      BY <1>2, <1>4, <1>6, GapRead
    <2>2. AtValue(doc, i, gap)'
      BY <1>2, <1>3, <2>1 DEF AtValue
    <2>3. QED
      BY <2>2
  <1>7. CASE Left = after /\ doc[i].kind = "text"
    <2> DEFINE more == Ahead(text, 0, rest)
    <2>1. Left = <<"\"">> \o more /\ IsText(more)
      <3>1. Left = Quoted(text) \o rest
        BY <1>7, ValueType
      <3>2. 0 \in 0 .. Len(text)
        BY <1>4
      <3>3. Quoted(text) \o rest = <<"\"">> \o more
        BY <1>4, QuotedFirst
      <3>4. IsText(more)
        BY <1>4, <3>2, AheadIs
      <3>5. QED
        BY <3>1, <3>3, <3>4
    <2> HIDE DEF more
    <2>2. a_json_append("\"") /\ Left' = more /\ Len(stored') < Len(msg) /\ Effect
      BY <2>1, Reads
    <2>3. /\ UNCHANGED <<recur, stored, escaped>> /\ entry' = Append(entry, Len(stored))
          /\ s' = IF Len(entry') <= entry_max THEN "JSON_VALUE_IN_STR" ELSE "JSON_BAD"
      BY <1>2, <2>2, QuoteRead
    <2>4. CASE Len(entry') <= entry_max
      <3>1. InText(Left', escaped', stored', entry'[2 * i], text, rest)
        <4>1. 0 \in 0 .. Len(text)
          BY <1>4
        <4>2. Begun(stored', entry'[2 * i], text, 0) /\ escaped' = FALSE /\ Left' = Ahead(text, 0, rest)
          BY <1>2, <1>5, <2>2, <2>3, PlaceAdded DEF more
        <4> HIDE DEF text, rest
        <4>3. QED
          BY <4>1, <4>2 DEF InText
      <3>2. InValue(doc, i, gap)'
        BY <1>2, <1>3, <1>5, <1>7, <2>2, <2>3, <2>4, <3>1 DEF InValue
      <3>3. QED
        BY <3>2
    <2>5. CASE ~(Len(entry') <= entry_max)
      BY <1>5, <2>3, <2>5 DEF Refused
    <2>6. QED
      BY <2>4, <2>5
  <1>8. CASE Left = after /\ doc[i].kind = "word"
    <2> DEFINE more == WordAhead(text, 1, rest)
    <2>1. text \in Seq(WordChar) /\ text # <<>>
      BY <1>8, MembersAre
    <2>2. 0 \in 0 .. Len(text) /\ 0 # Len(text) /\ 1 \in 1 .. Len(text) /\ 0 + 1 = 1 /\ 0 < Len(text)
      BY <2>1
    <2>3. Left = <<text[1]>> \o more /\ IsText(more) /\ text[1] \in WordChar
      <3>1. Left = text \o rest
        BY <1>8, ValueType
      <3>2. WordAhead(text, 0, rest) = text \o rest
        BY <1>4, <2>1, <2>2, WordAheadIs
      <3>3. /\ text[0 + 1] \in WordChar /\ IsText(WordAhead(text, 0 + 1, rest))
            /\ WordAhead(text, 0, rest) = <<text[0 + 1]>> \o WordAhead(text, 0 + 1, rest)
        BY <1>4, <2>1, <2>2, WordAheadIs
      <3>4. QED
        BY <2>2, <3>1, <3>2, <3>3
    <2> HIDE DEF more
    <2>4. /\ a_json_append(text[1]) /\ Left' = more /\ Len(stored') < Len(msg)
          /\ Len(entry) <= entry_max /\ Effect
      BY <2>3, Reads
    <2>5. /\ recur' = recur /\ escaped' = escaped /\ stored' = Append(stored, text[1])
          /\ entry' = Append(entry, Len(stored))
          /\ s' = IF Len(entry') <= entry_max THEN "JSON_VALUE_IN_VAL" ELSE "JSON_BAD"
      BY <1>2, <2>3, <2>4, WordRead
    <2>6. CASE Len(entry') <= entry_max
      <3>1. Begun(stored', entry'[2 * i], text, 1) /\ Left' = WordAhead(text, 1, rest)
        BY <1>4, <1>5, <2>2, <2>4, <2>5, PlaceAdded DEF more
      <3>2. \E j \in 1 .. Len(text) : Begun(stored', entry'[2 * i], text, j) /\ Left' = WordAhead(text, j, rest)
        BY <2>2, <3>1
      <3>3. InWord(doc, i, gap)'
        BY <1>2, <1>3, <1>5, <1>8, <2>4, <2>5, <2>6, <3>2 DEF InWord
      <3>4. QED
        BY <3>3
    <2>7. CASE ~(Len(entry') <= entry_max)
      BY <1>5, <2>5, <2>7 DEF Refused
    <2>8. QED
      BY <2>6, <2>7
  <1>9. CASE Left = after /\ doc[i].kind = "object"
    <2>1. /\ text = <<>> /\ Ending(doc, i) = 0 /\ i + 1 \in DOMAIN doc
          /\ doc[i + 1].depth = doc[i].depth + 1
      BY <1>9, MembersAre
    <2>2. rest = gap \o FromName(doc, i + 1, gap)
      <3>1. i \in 0 .. Len(doc) - 1
        BY <1>1, <2>1
      <3>2. Behind(doc, i, gap) = FromName(doc, i + 1, gap)
        BY <1>9, <3>1, BehindNext
      <3>3. Braces(Ending(doc, i), gap) = <<>>
        <4>1. 0 \in Nat
          OBVIOUS
        <4>2. QED
          BY <2>1, <4>1, BracesAre
      <3>4. <<>> \o FromName(doc, i + 1, gap) = FromName(doc, i + 1, gap)
        <4>1. FromName(doc, i + 1, gap) \in Seq(Letter)
          BY <2>1, PartTypes DEF IsText
        <4>2. QED
          BY <4>1, ConcatEmptyRight
      <3>5. QED
        BY <3>2, <3>3, <3>4 DEF AfterValue
    <2>3. Left = <<"{">> \o rest
      BY <1>9, ValueType
    <2> HIDE DEF rest
    <2>4. a_json_append("{") /\ Left' = rest /\ Len(stored') < Len(msg) /\ Effect
      BY <1>4, <2>3, Reads
    <2>5. /\ recur' = recur + 1 /\ escaped' = escaped
          /\ stored' = Append(stored, sep) /\ entry' = Append(entry, Len(stored))
          /\ s' = IF Len(entry') <= entry_max THEN "JSON_NAME" ELSE "JSON_BAD"
      BY <1>2, <2>4, OpenRead
    <2>6. CASE Len(entry') <= entry_max
      <3>1. Valued(doc, i, entry', stored')
        <4>1. Holds(stored', entry'[2 * i], doc[i].text)
          BY <1>5, <2>1, <2>5, PlaceAdded
        <4>2. QED
          BY <1>1, <1>3, <2>4, <4>1, OneMore
      <3>2. i + 1 - 1 = i /\ 2 * (i + 1) - 2 = 2 * i
        BY <1>1
      <3>3. Spaced(Left', FromName(doc, i + 1, gap))
        BY <2>2, <2>4, SpacedText
      <3>4. recur' = doc[i + 1].depth
        BY <1>2, <2>1, <2>5
      <3>5. AtName(doc, i + 1, gap)'
        <4> DEFINE k == i + 1
        <4>0. k - 1 = i /\ 2 * k - 2 = 2 * i
          BY <3>2
        <4> HIDE DEF k
        <4>1. Len(entry') = 2 * k - 2
          BY <1>5, <2>5, <4>0
        <4>2. Named(doc, k - 1, entry', stored') /\ Valued(doc, k - 1, entry', stored')
          BY <1>3, <2>4, <3>1, <4>0
        <4>3. recur' = doc[k].depth /\ Spaced(Left', FromName(doc, k, gap))
          BY <3>3, <3>4 DEF k
        <4>4. AtName(doc, k, gap)'
          BY <1>2, <2>5, <2>6, <4>1, <4>2, <4>3 DEF AtName
        <4>5. QED
          BY <4>4 DEF k
      <3>6. QED
        BY <2>1, <3>5
    <2>7. CASE ~(Len(entry') <= entry_max)
      BY <1>5, <2>5, <2>7 DEF Refused
    <2>8. QED
      BY <2>6, <2>7
  <1>10. QED
    BY <1>6, <1>7, <1>8, <1>9, MembersAre

\* A text in quotes goes on or ends.
LEMMA InValueStep ==
    ASSUME JsonInv, a_json_append_str_sized, NEW doc, IsDocument(doc), NEW gap \in Seq(Space),
           NEW i \in DOMAIN doc, InValue(doc, i, gap)
    PROVE  InValue(doc, i, gap)' \/ PastValue(doc, i, gap)'
  <1> DEFINE text == doc[i].text
             rest == AfterValue(doc, i, gap)
             p == entry[2 * i]
  <1>1. Len(doc) \in Nat /\ DOMAIN doc = 1 .. Len(doc) /\ i \in Nat \ {0} /\ i - 1 \in 0 .. Len(doc)
        /\ i \in 0 .. Len(doc)
    BY MembersAre
  <1>2. /\ s = "JSON_VALUE_IN_STR" /\ recur = doc[i].depth /\ doc[i].kind = "text"
        /\ Len(entry) = 2 * i
        /\ Named(doc, i, entry, stored) /\ Valued(doc, i - 1, entry, stored)
        /\ InText(Left, escaped, stored, p, text, rest)
    BY DEF InValue
  <1>3. Effect => Named(doc, i, entry', stored') /\ Valued(doc, i - 1, entry', stored')
    <2>1. 2 * i - 1 <= Len(entry) /\ 2 * (i - 1) <= Len(entry)
      BY <1>1, <1>2
    <2>2. QED
      BY <1>1, <1>2, <2>1, Kept
  <1>4. text \in Seq(TextChar) /\ IsText(rest) /\ p = entry[Len(entry)] /\ InString
    BY <1>2, MembersAre, PartTypes DEF InString
  <1>5. PICK q : q = p
    OBVIOUS
  <1> HIDE DEF text, rest, p
  <1>6. /\ recur' = recur /\ entry' = entry /\ Effect
        /\ \/ s' = s /\ InText(Left', escaped', stored', q, text, rest)
           \/ s' = "JSON_VALUE_END" /\ escaped' = FALSE /\ Left' = rest /\ Holds(stored', q, text)
    BY <1>2, <1>4, <1>5, TextRead
  <1>7. q = entry'[2 * i]
    BY <1>5, <1>6 DEF p
  <1>8. CASE s' = s /\ InText(Left', escaped', stored', q, text, rest)
    <2>1. InValue(doc, i, gap)'
      BY <1>2, <1>3, <1>6, <1>7, <1>8 DEF InValue, text, rest
    <2>2. QED
      BY <2>1
  <1>9. CASE s' = "JSON_VALUE_END" /\ escaped' = FALSE /\ Left' = rest /\ Holds(stored', q, text)
    <2>1. \E n \in Nat : recur' = n + NextDepth(doc, i) /\ Spaced(Left', Braces(n, gap) \o Behind(doc, i, gap))
      <3>1. Ending(doc, i) \in Nat /\ doc[i].depth = Ending(doc, i) + NextDepth(doc, i)
        BY <1>2, MembersAre
      <3>2. Spaced(Left', Braces(Ending(doc, i), gap) \o Behind(doc, i, gap))
        BY <1>9, SpacedText DEF rest, AfterValue
      <3>3. QED
        BY <1>2, <1>6, <3>1, <3>2
    <2>2. Holds(stored', entry'[2 * i], doc[i].text)
      BY <1>7, <1>9 DEF text
    <2>3. PastValue(doc, i, gap)'
      BY <1>2, <1>3, <1>6, <1>9, <2>1, <2>2 DEF PastValue
    <2>4. QED
      BY <2>3
  <1>10. QED
    BY <1>6, <1>8, <1>9

\* A value has ended: objects end with it, or the message; or a member follows.
LEMMA PastValueStep ==
    ASSUME JsonInv, a_json_append_str_sized, NEW doc, IsDocument(doc), NEW gap \in Seq(Space),
           NEW i \in DOMAIN doc, PastValue(doc, i, gap)
    PROVE  \/ PastValue(doc, i, gap)' \/ Accepted(doc)'
           \/ i + 1 \in DOMAIN doc /\ AtName(doc, i + 1, gap)'
  <1> DEFINE text == doc[i].text
             behind == Behind(doc, i, gap)
             closed == IF s = "JSON_VALUE_IN_VAL" THEN Append(stored, sep) ELSE stored
  <1>1. Len(doc) \in Nat /\ DOMAIN doc = 1 .. Len(doc) /\ i \in Nat \ {0} /\ i - 1 \in 0 .. Len(doc)
        /\ i \in 0 .. Len(doc) /\ NextDepth(doc, i) \in Nat
    BY MembersAre
  <1>2. /\ s \in {"JSON_VALUE_IN_VAL", "JSON_VALUE_END"} /\ escaped = FALSE /\ doc[i].kind # "object"
        /\ Len(entry) = 2 * i
        /\ Named(doc, i, entry, stored) /\ Valued(doc, i - 1, entry, stored)
    BY DEF PastValue
  <1>3. Effect => Named(doc, i, entry', stored') /\ Valued(doc, i - 1, entry', stored')
    <2>1. 2 * i - 1 <= Len(entry) /\ 2 * (i - 1) <= Len(entry)
      BY <1>1, <1>2
    <2>2. QED
      BY <1>1, <1>2, <2>1, Kept
  <1>4. Holds(closed, entry[2 * i], text)
    <2>1. CASE s = "JSON_VALUE_END"
      <3>1. Holds(stored, entry[2 * i], text)
        BY <2>1 DEF PastValue
      <3>2. QED
        BY <2>1, <3>1
    <2>2. CASE s = "JSON_VALUE_IN_VAL"
      <3>1. Begun(stored, entry[2 * i], text, Len(text))
        BY <2>2 DEF PastValue
      <3>2. text \in Seq(TextChar) /\ Len(text) \in Nat
        BY MembersAre
      <3>3. stored \in Seq(Char \cup {sep})
        BY DEF JsonInv, JsonTypeOK
      <3>4. Holds(Append(stored, sep), entry[2 * i], text)
        BY <3>1, <3>2, <3>3, BegunMore
      <3>5. QED
        BY <2>2, <3>4
    <2>3. QED
      BY <1>2, <2>1, <2>2
  <1>5. PICK n \in Nat : recur = n + NextDepth(doc, i) /\ Spaced(Left, Braces(n, gap) \o behind)
    BY DEF PastValue
  <1>6. IsText(behind) /\ IsText(Braces(n, gap) \o behind)
    BY PartTypes
  <1>7. ASSUME Effect, entry' = entry, stored' = closed
        PROVE  /\ Holds(stored', entry'[2 * i], text)
               /\ Named(doc, i, entry', stored') /\ Valued(doc, i, entry', stored')
    <2>1. Holds(stored', entry'[2 * i], text)
      BY <1>4, <1>7
    <2>2. QED
      BY <1>1, <1>3, <1>7, <2>1, OneMore
  <1> HIDE DEF behind, closed
  <1>8. CASE Left # Braces(n, gap) \o behind
    <2>1. /\ Effect /\ Spaced(Left', Braces(n, gap) \o behind) /\ s' = "JSON_VALUE_END"
          /\ entry' = entry /\ recur' = recur /\ escaped' = escaped /\ stored' = closed
      BY <1>2, <1>5, <1>6, <1>8, GapRead DEF closed
    <2>2. PastValue(doc, i, gap)'
      BY <1>2, <1>3, <1>5, <1>7, <2>1 DEF PastValue, behind
    <2>3. QED
      BY <2>2
  <1>9. CASE Left = Braces(n, gap) \o behind /\ n # 0
    <2> DEFINE m == n - 1
               rest == Braces(m, gap) \o behind
               more == gap \o rest
    <2>1. m \in Nat /\ n = m + 1 /\ recur > 0 /\ recur # 0 /\ recur - 1 = m + NextDepth(doc, i)
      BY <1>1, <1>5, <1>9
    <2>2. IsText(rest) /\ IsText(more)
      <3>1. IsText(rest)
        BY <2>1, PartTypes DEF behind
      <3>2. QED
        BY <3>1, SpacesFirst
    <2>3. Left = <<"}">> \o more
      <3> DEFINE brace == <<"}">>
                 braces == Braces(m, gap)
      <3>1. Braces(n, gap) = brace \o (gap \o braces)
        BY <2>1, BracesAre
      <3>2. IsText(brace) /\ IsText(gap)
        BY Letters DEF IsText
      <3>3. IsText(braces)
        BY <2>1, BracesAre DEF IsText
      <3> HIDE DEF brace, braces
      <3>4. IsText(gap \o braces)
        BY <3>2, <3>3, TextWith
      <3>5. (brace \o (gap \o braces)) \o behind = brace \o ((gap \o braces) \o behind)
        BY <1>6, <3>2, <3>4, TextAgain
      <3>6. (gap \o braces) \o behind = gap \o (braces \o behind)
        BY <1>6, <3>2, <3>3, TextAgain
      <3>7. QED
        BY <1>9, <3>1, <3>5, <3>6 DEF brace, braces
    <2>4. Spaced(more, rest)
      BY SpacedText
    <2> HIDE DEF more
    <2>5. /\ a_json_append("}") /\ Left' = more /\ Len(stored') < Len(msg)
          /\ Len(entry) <= entry_max /\ Effect
      BY <2>2, <2>3, Reads
    <2>6. s' = "JSON_VALUE_END" /\ recur' = recur - 1 /\ UNCHANGED <<entry, escaped>> /\ stored' = closed
      BY <1>2, <2>1, <2>5, CloseInnerRead DEF Ended, closed
    <2>7. \E k \in Nat : recur' = k + NextDepth(doc, i) /\ Spaced(Left', Braces(k, gap) \o Behind(doc, i, gap))
      <3>1. m \in Nat /\ recur' = m + NextDepth(doc, i)
        BY <2>1, <2>6
      <3>2. Spaced(Left', Braces(m, gap) \o Behind(doc, i, gap))
        BY <2>4, <2>5 DEF behind
      <3> HIDE DEF m
      <3>3. QED
        BY <3>1, <3>2
    <2>8. PastValue(doc, i, gap)'
      BY <1>2, <1>3, <1>7, <2>5, <2>6, <2>7 DEF PastValue
    <2>9. QED
      BY <2>8
  <1>10. ASSUME Left = Braces(n, gap) \o behind, n = 0
         PROVE  Left = behind /\ recur = NextDepth(doc, i)
    <2>1. Braces(n, gap) = <<>>
      <3>1. 0 \in Nat
        OBVIOUS
      <3>2. QED
        BY <1>10, <3>1, BracesAre
    <2>2. behind \in Seq(Letter)
      BY <1>6 DEF IsText
    <2>3. <<>> \o behind = behind
      BY <2>2, ConcatEmptyRight
    <2>4. Left = behind
      BY <1>10, <2>1, <2>3
    <2>5. recur = 0 + NextDepth(doc, i)
      BY <1>5, <1>10
    <2>6. QED
      BY <1>1, <2>4, <2>5
  <1>11. CASE Left = Braces(n, gap) \o behind /\ n = 0 /\ i # Len(doc)
    <2> DEFINE more == gap \o FromName(doc, i + 1, gap)
    <2>1. i \in 0 .. Len(doc) - 1 /\ i # 0
      BY <1>1, <1>11
    <2>2. i + 1 \in DOMAIN doc /\ NextDepth(doc, i) = doc[i + 1].depth
      BY <1>11, MembersAre
    <2>3. behind = <<",">> \o more
      BY <1>2, <2>1, BehindNext DEF behind
    <2>4. IsText(more)
      BY <2>2, PartTypes, SpacesFirst
    <2>5. Spaced(more, FromName(doc, i + 1, gap))
      BY SpacedText
    <2> HIDE DEF more
    <2>6. /\ a_json_append(",") /\ Left' = more /\ Len(stored') < Len(msg)
          /\ Len(entry) <= entry_max /\ Effect
      BY <1>10, <1>11, <2>3, <2>4, Reads
    <2>7. s' = "JSON_NAME" /\ UNCHANGED <<recur, entry, escaped>> /\ stored' = closed
      BY <1>2, <2>6, CommaRead DEF Ended, closed
    <2>8. i + 1 - 1 = i /\ 2 * (i + 1) - 2 = 2 * i
      BY <1>1
    <2>9. recur' = doc[i + 1].depth
      BY <1>10, <1>11, <2>2, <2>7
    <2>10. AtName(doc, i + 1, gap)'
      <3> DEFINE k == i + 1
      <3>0. k - 1 = i /\ 2 * k - 2 = 2 * i
        BY <2>8
      <3> HIDE DEF k
      <3>1. Len(entry') = 2 * k - 2
        BY <1>2, <2>7, <3>0
      <3>2. Named(doc, k - 1, entry', stored') /\ Valued(doc, k - 1, entry', stored')
        BY <1>7, <2>6, <2>7, <3>0
      <3>3. recur' = doc[k].depth /\ Spaced(Left', FromName(doc, k, gap))
        BY <2>5, <2>6, <2>9 DEF k
      <3>4. AtName(doc, k, gap)'
        BY <1>2, <2>7, <3>1, <3>2, <3>3 DEF AtName
      <3>5. QED
        BY <3>4 DEF k
    <2>11. QED
      BY <2>2, <2>10
  <1>12. CASE Left = Braces(n, gap) \o behind /\ n = 0 /\ i = Len(doc)
    <2>1. recur = 0 /\ ~(recur > 0)
      BY <1>10, <1>12, MembersAre
    <2>2. Left = <<"}">> \o <<>>
      <3>1. behind = <<"}">>
        BY <1>12, BehindIs DEF behind
      <3>2. <<"}">> \o <<>> = <<"}">>
        OBVIOUS
      <3>3. QED
        BY <1>10, <1>12, <3>1, <3>2
    <2>3. IsText(<<>>)
      BY Letters DEF IsText
    <2>4. a_json_append("}") /\ Effect
      BY <2>2, <2>3, Reads
    <2>5. s' = "JSON_GOOD" /\ UNCHANGED <<recur, entry, escaped>> /\ stored' = closed
      BY <1>2, <2>1, <2>4, CloseLastRead DEF Ended, closed
    <2>6. Accepted(doc)'
      BY <1>2, <1>7, <1>12, <2>4, <2>5 DEF Accepted
    <2>7. QED
      BY <2>6
  <1>13. QED
    BY <1>8, <1>9, <1>11, <1>12

\* A word goes on or is over.
LEMMA InWordStep ==
    ASSUME JsonInv, a_json_append_str_sized, NEW doc, IsDocument(doc), NEW gap \in Seq(Space),
           NEW i \in DOMAIN doc, InWord(doc, i, gap)
    PROVE  InWord(doc, i, gap)' \/ PastValue(doc, i, gap)
  <1> DEFINE text == doc[i].text
             rest == AfterValue(doc, i, gap)
  <1>1. Len(doc) \in Nat /\ DOMAIN doc = 1 .. Len(doc) /\ i \in Nat \ {0} /\ i - 1 \in 0 .. Len(doc)
        /\ i \in 0 .. Len(doc)
    BY MembersAre
  <1>2. /\ s = "JSON_VALUE_IN_VAL" /\ escaped = FALSE /\ recur = doc[i].depth /\ doc[i].kind = "word"
        /\ Len(entry) = 2 * i
        /\ Named(doc, i, entry, stored) /\ Valued(doc, i - 1, entry, stored)
    BY DEF InWord
  <1>3. Effect => Named(doc, i, entry', stored') /\ Valued(doc, i - 1, entry', stored')
    <2>1. 2 * i - 1 <= Len(entry) /\ 2 * (i - 1) <= Len(entry)
      BY <1>1, <1>2
    <2>2. QED
      BY <1>1, <1>2, <2>1, Kept
  <1>4. text \in Seq(WordChar) /\ text \in Seq(TextChar) /\ IsText(rest) /\ Len(text) \in Nat
    BY <1>2, MembersAre, PartTypes
  <1>5. PICK j \in 1 .. Len(text) : Begun(stored, entry[2 * i], text, j) /\ Left = WordAhead(text, j, rest)
    BY DEF InWord
  <1>6. CASE j = Len(text)
    <2>1. Left = rest
      <3>1. 0 \in 0 .. Len(text)
        BY <1>4
      <3>2. QED
        BY <1>4, <1>5, <1>6, <3>1, WordAheadIs
    <2>2. \E n \in Nat : recur = n + NextDepth(doc, i) /\ Spaced(Left, Braces(n, gap) \o Behind(doc, i, gap))
      <3>1. Ending(doc, i) \in Nat /\ doc[i].depth = Ending(doc, i) + NextDepth(doc, i)
        BY <1>2, MembersAre
      <3>2. Spaced(Left, Braces(Ending(doc, i), gap) \o Behind(doc, i, gap))
        BY <2>1, SpacedText DEF AfterValue
      <3>3. QED
        BY <1>2, <3>1, <3>2
    <2>3. PastValue(doc, i, gap)
      BY <1>2, <1>5, <1>6, <2>2 DEF PastValue
    <2>4. QED
      BY <2>3
  <1>7. CASE j # Len(text)
    <2> DEFINE more == WordAhead(text, j + 1, rest)
    <2>1. j \in 0 .. Len(text) /\ j + 1 \in 1 .. Len(text) /\ j \in Nat /\ j < Len(text)
      BY <1>4, <1>7
    <2>2. text[j + 1] \in WordChar /\ Left = <<text[j + 1]>> \o more /\ IsText(more)
      BY <1>4, <1>5, <1>7, <2>1, WordAheadIs
    <2> HIDE DEF more
    <2>3. /\ a_json_append(text[j + 1]) /\ Left' = more /\ Len(stored') < Len(msg)
          /\ Len(entry) <= entry_max /\ Effect
      BY <2>2, Reads
    <2>4. /\ recur' = recur /\ escaped' = escaped /\ stored' = Append(stored, text[j + 1])
          /\ entry' = entry /\ s' = s
      BY <1>2, <2>2, <2>3, WordRead
    <2>5. Begun(stored', entry'[2 * i], text, j + 1)
      <3>1. stored \in Seq(Char \cup {sep})
        BY DEF JsonInv, JsonTypeOK
      <3>2. Begun(Append(stored, text[j + 1]), entry[2 * i], text, j + 1)
        BY <1>4, <1>5, <2>1, <3>1, BegunMore
      <3>3. QED
        BY <2>4, <3>2
    <2>6. \E k \in 1 .. Len(text) : Begun(stored', entry'[2 * i], text, k) /\ Left' = WordAhead(text, k, rest)
      BY <2>1, <2>3, <2>5 DEF more
    <2>7. InWord(doc, i, gap)'
      BY <1>2, <1>3, <2>3, <2>4, <2>6 DEF InWord
    <2>8. QED
      BY <2>7
  <1>8. QED
    BY <1>6, <1>7

(***************************************************************************)
(* At the end: an accepted document's names and values stand in the        *)
(* buffer, where the table says, and are found.                            *)
(***************************************************************************)

LEMMA ConcatNotEmpty == \A p, q : IsText(p) /\ IsText(q) /\ q # <<>> => p \o q # <<>>
  <1> SUFFICES ASSUME NEW p, NEW q, IsText(p), IsText(q), q # <<>> PROVE p \o q # <<>>
    OBVIOUS
  <1>1. p \in Seq(Letter) /\ q \in Seq(Letter) /\ Len(q) # 0
    BY DEF IsText
  <1>2. Len(p \o q) # 0
    BY <1>1
  <1>3. QED
    BY <1>2

\* While a member is being read the text is not at its end.
LEMMA PartsNotEmpty ==
    ASSUME NEW doc, IsDocument(doc), NEW i \in DOMAIN doc, NEW gap \in Seq(Space)
    PROVE  /\ \A n \in Nat : Braces(n, gap) \o Behind(doc, i, gap) # <<>>
           /\ AfterValue(doc, i, gap) # <<>>
           /\ Value(doc[i]) \o AfterValue(doc, i, gap) # <<>>
           /\ <<":">> \o AfterColon(doc, i, gap) # <<>>
           /\ FromName(doc, i, gap) # <<>>
  <1>1. IsText(Behind(doc, i, gap)) /\ Behind(doc, i, gap) # <<>>
    <2>1. i \in 0 .. Len(doc)
      BY MembersAre
    <2>2. QED
      BY <2>1, BehindIs
  <1>2. ASSUME NEW n \in Nat PROVE Braces(n, gap) \o Behind(doc, i, gap) # <<>>
    <2>1. IsText(Braces(n, gap))
      BY BracesAre DEF IsText
    <2>2. QED
      BY <1>1, <2>1, ConcatNotEmpty
  <1>3. IsText(gap) /\ IsText(<<":">>) /\ IsText(Value(doc[i])) /\ IsText(Quoted(doc[i].name))
    <2>1. IsText(gap) /\ IsText(<<":">>)
      BY Letters DEF IsText
    <2>2. IsText(Value(doc[i])) /\ IsText(Quoted(doc[i].name))
      BY MembersAre, ValueType, QuotedIs DEF IsText
    <2>3. QED
      BY <2>1, <2>2
  <1>4. AfterValue(doc, i, gap) # <<>>
    <2>1. IsText(Braces(Ending(doc, i), gap) \o Behind(doc, i, gap))
          /\ Braces(Ending(doc, i), gap) \o Behind(doc, i, gap) # <<>>
      BY <1>2, MembersAre, PartTypes
    <2>2. QED
      BY <1>3, <2>1, ConcatNotEmpty DEF AfterValue
  <1>5. Value(doc[i]) \o AfterValue(doc, i, gap) # <<>>
    BY <1>3, <1>4, PartTypes, ConcatNotEmpty
  <1>6. AfterColon(doc, i, gap) # <<>>
    BY <1>3, <1>5, PartTypes, ConcatNotEmpty DEF AfterColon
  <1>7. <<":">> \o AfterColon(doc, i, gap) # <<>>
    BY <1>3, <1>6, PartTypes, ConcatNotEmpty
  <1>8. AfterName(doc, i, gap) # <<>>
    BY <1>3, <1>7, PartTypes, ConcatNotEmpty DEF AfterName
  <1>9. FromName(doc, i, gap) # <<>>
    BY <1>3, <1>8, PartTypes, ConcatNotEmpty DEF FromName
  <1>10. QED
    BY <1>2, <1>4, <1>5, <1>7, <1>9

\* At a member, in it, or behind its value.
Stage(doc, i, gap) ==
    \/ AtName(doc, i, gap) \/ InName(doc, i, gap) \/ PastName(doc, i, gap)
    \/ AtValue(doc, i, gap) \/ InValue(doc, i, gap) \/ InWord(doc, i, gap)
    \/ PastValue(doc, i, gap)

Progress(doc, gap) ==
    \/ Beginning(doc, gap) \/ Accepted(doc) \/ Refused(doc)
    \/ \E i \in DOMAIN doc : Stage(doc, i, gap)

LEMMA ProgressStep ==
    ASSUME JsonInv, a_json_append_str_sized, NEW doc, IsDocument(doc), NEW gap \in Seq(Space),
           Progress(doc, gap)
    PROVE  Progress(doc, gap)'
  <1>1. s \notin Finished
    BY DEF a_json_append_str_sized
  <1>2. ~Accepted(doc) /\ ~Refused(doc)
    BY <1>1 DEF Accepted, Refused, Finished
  <1>3. CASE Beginning(doc, gap)
    <2>1. AtName(doc, 1, gap)'
      BY <1>3, BeginningStep
    <2>2. 1 \in DOMAIN doc
      BY DEF IsDocument
    <2>3. QED
      BY <2>1, <2>2 DEF Progress, Stage
  <1>4. ASSUME NEW i \in DOMAIN doc, Stage(doc, i, gap) PROVE Progress(doc, gap)'
    <2>1. CASE AtName(doc, i, gap)
      BY <2>1, AtNameStep DEF Progress, Stage
    <2>2. CASE InName(doc, i, gap)
      BY <2>2, InNameStep DEF Progress, Stage
    <2>3. CASE PastName(doc, i, gap)
      BY <2>3, PastNameStep DEF Progress, Stage
    <2>4. CASE AtValue(doc, i, gap)
      BY <2>4, AtValueStep DEF Progress, Stage
    <2>5. CASE InValue(doc, i, gap)
      BY <2>5, InValueStep DEF Progress, Stage
    <2>6. CASE PastValue(doc, i, gap)
      BY <2>6, PastValueStep DEF Progress, Stage
    <2>7. CASE InWord(doc, i, gap)
      <3>1. CASE InWord(doc, i, gap)'
        BY <3>1 DEF Progress, Stage
      <3>2. CASE PastValue(doc, i, gap)
        BY <3>2, PastValueStep DEF Progress, Stage
      <3>3. QED
        BY <2>7, <3>1, <3>2, InWordStep
    <2>8. QED
      BY <1>4, <2>1, <2>2, <2>3, <2>4, <2>5, <2>6, <2>7 DEF Stage
  <1>5. QED
    BY <1>2, <1>3, <1>4 DEF Progress

\* The text of a document begins at least with its brace.
LEMMA RenderNotEmpty ==
    ASSUME NEW doc, IsDocument(doc), NEW gap \in Seq(Space)
    PROVE  Render(doc, gap) # <<>>
  <1>1. IsText(<<"{">>) /\ IsText(gap \o FromName(doc, 1, gap)) /\ gap \o FromName(doc, 1, gap) # <<>>
    <2>1. 1 \in DOMAIN doc
      BY DEF IsDocument
    <2>2. IsText(<<"{">>) /\ IsText(gap)
      BY Letters DEF IsText
    <2>3. IsText(FromName(doc, 1, gap)) /\ FromName(doc, 1, gap) # <<>>
      BY <2>1, PartTypes, PartsNotEmpty
    <2>4. QED
      BY <2>2, <2>3, TextWith, ConcatNotEmpty
  <1>2. <<"{">> \o (gap \o FromName(doc, 1, gap)) # <<>>
    BY <1>1, ConcatNotEmpty
  <1>3. QED
    BY <1>2, RenderIs

\* The text of a document is at its end only when it is decided.
LEMMA ProgressEnds ==
    ASSUME JsonInv, NEW doc, IsDocument(doc), NEW gap \in Seq(Space), Progress(doc, gap),
           taken = Len(msg) \/ s \in Finished
    PROVE  Accepted(doc) \/ Refused(doc)
  <1>1. CASE s \in Finished
    BY <1>1 DEF Progress, Stage, Finished, Beginning, AtName, InName, PastName, AtValue, InValue,
        InWord, PastValue
  <1>2. CASE taken = Len(msg)
    <2>1. Left = <<>>
      BY <1>2 DEF Left, JsonInv, JsonTypeOK
    <2>2. ~Beginning(doc, gap)
      <3>1. Left # <<>> \/ ~Beginning(doc, gap)
        BY RenderNotEmpty DEF Beginning
      <3>2. QED
        BY <2>1, <3>1
    <2>3. ASSUME NEW i \in DOMAIN doc PROVE ~Stage(doc, i, gap)
      <3>1. ASSUME NEW rest, IsText(rest), rest # <<>> PROVE ~Spaced(Left, rest)
        <4>1. \A sp \in Seq(Space) : IsText(sp)
          BY Letters DEF IsText
        <4>2. \A sp \in Seq(Space) : sp \o rest # <<>>
          BY <3>1, <4>1, ConcatNotEmpty
        <4>3. QED
          BY <2>1, <4>2 DEF Spaced
      <3>2. ASSUME NEW text \in Seq(TextChar), NEW behind, NEW buffer, NEW p, NEW rest, IsText(rest)
            PROVE  ~InText(Left, behind, buffer, p, text, rest)
        <4>1. IsText(<<"\"">> \o rest) /\ <<"\"">> \o rest # <<>>
          <5>1. rest \in Seq(Letter)
            BY <3>2 DEF IsText
          <5>2. <<"\"">> \o rest # <<>>
            BY <5>1
          <5>3. IsText(<<"\"">>)
            BY Letters DEF IsText
          <5>4. QED
            BY <3>2, <5>2, <5>3, TextWith
        <4>2. \A j \in 0 .. Len(text) : Ahead(text, j, rest) # <<>> /\ IsText(Ahead(text, j, rest))
          <5>1. \A j \in 0 .. Len(text) : IsText(Escaped(text, j))
            BY EscapedIs DEF IsText
          <5>2. QED
            BY <4>1, <5>1, ConcatNotEmpty, TextWith DEF Ahead
        <4>3. ASSUME NEW j \in 0 .. Len(text), j # Len(text)
              PROVE  <<text[j + 1]>> \o Ahead(text, j + 1, rest) # <<>>
          <5>1. text[j + 1] \in Letter /\ j + 1 \in 0 .. Len(text)
            <6>1. text[j + 1] \in TextChar /\ j + 1 \in 0 .. Len(text)
              BY <4>3
            <6>2. QED
              BY <6>1 DEF TextChar, Letter
          <5>2. QED
            BY <4>2, <5>1, OneIsText, ConcatNotEmpty
        <4>4. QED
          BY <2>1, <4>2, <4>3 DEF InText
      <3>3. ~AtName(doc, i, gap) /\ ~PastName(doc, i, gap) /\ ~AtValue(doc, i, gap)
        BY <3>1, PartTypes, PartsNotEmpty DEF AtName, PastName, AtValue
      <3>4. ~PastValue(doc, i, gap)
        BY <3>1, PartTypes, PartsNotEmpty DEF PastValue
      <3>5. ~InName(doc, i, gap) /\ ~InValue(doc, i, gap)
        <4>1. /\ doc[i].name \in Seq(TextChar) /\ doc[i].text \in Seq(TextChar)
              /\ IsText(AfterName(doc, i, gap)) /\ IsText(AfterValue(doc, i, gap))
          BY MembersAre, PartTypes
        <4>2. QED
          BY <3>2, <4>1 DEF InName, InValue
      <3>6. ~InWord(doc, i, gap)
        <4> DEFINE text == doc[i].text
        <4>1. ASSUME doc[i].kind = "word", NEW j \in 1 .. Len(text)
              PROVE  WordAhead(text, j, AfterValue(doc, i, gap)) # <<>>
          <5>1. text \in Seq(WordChar) /\ j \in 0 .. Len(text)
            BY <4>1, MembersAre
          <5>2. SubSeq(text, j + 1, Len(text)) \in Seq(WordChar)
            BY <5>1
          <5>3. IsText(SubSeq(text, j + 1, Len(text)))
            BY <5>2, Letters DEF IsText
          <5>4. QED
            BY <5>3, PartTypes, PartsNotEmpty, ConcatNotEmpty DEF WordAhead
        <4>2. QED
          BY <2>1, <4>1 DEF InWord
      <3>7. QED
        BY <3>3, <3>4, <3>5, <3>6 DEF Stage
    <2>4. QED
      BY <2>2, <2>3 DEF Progress
  <1>3. QED
    BY <1>1, <1>2

LEMMA MinIs ==
    ASSUME NEW S \in SUBSET Nat, NEW m \in S, \A k \in S : m <= k
    PROVE  Min(S) = m
  <1>1. \E x \in S : \A y \in S : x =< y
    OBVIOUS
  <1>2. Min(S) \in S /\ \A y \in S : Min(S) =< y
    BY <1>1 DEF Min
  <1> DEFINE n == Min(S)
  <1>3. n \in S /\ n <= m /\ m <= n
    BY <1>2
  <1>4. n \in Nat /\ m \in Nat
    BY <1>3
  <1> HIDE DEF n
  <1>5. n = m
    BY <1>3, <1>4
  <1>6. QED
    BY <1>5 DEF n

\* A text in the buffer is the C string that begins where it does.
LEMMA CStringIs ==
    ASSUME JsonTypeOK, NEW p, NEW text \in Seq(TextChar), Holds(stored, p, text)
    PROVE  CString(p) = text
  <1> DEFINE I == {k \in p + 1 .. Len(stored) : stored[k] = sep}
             e == p + Len(text) + 1
  <1>1. /\ Len(stored) \in Nat /\ stored \in Seq(Char \cup {sep}) /\ p \in Nat /\ Len(text) \in Nat
        /\ p + Len(text) < Len(stored)
        /\ \A x \in 1 .. Len(text) : stored[p + x] = text[x]
        /\ stored[e] = sep
    BY DEF JsonTypeOK, Holds
  <1>2. I \in SUBSET Nat /\ e \in I
    BY <1>1
  <1>3. ASSUME NEW k \in I PROVE e <= k
    <2> SUFFICES ASSUME k < e PROVE FALSE
      BY <1>1
    <2>1. k - p \in 1 .. Len(text) /\ p + (k - p) = k /\ stored[k] = sep
      BY <1>1
    <2>2. text[k - p] = sep
      BY <1>1, <2>1
    <2>3. text[k - p] \in TextChar
      BY <2>1
    <2>4. QED
      BY <2>2, <2>3 DEF TextChar
  <1> HIDE DEF I
  <1>4. Min(I) = e
    BY <1>2, <1>3, MinIs
  <1>5. SelectInSubSeq(stored, p + 1, Len(stored), LAMBDA c : c = sep) = e
    <2>1. I # {}
      BY <1>2
    <2>2. SelectInSubSeq(stored, p + 1, Len(stored), LAMBDA c : c = sep) = IF I # {} THEN Min(I) ELSE 0
      BY Zenon DEF SelectInSubSeq, I
    <2>3. QED
      BY <1>4, <2>1, <2>2
  <1>6. CString(p) = SubSeq(stored, p + 1, e - 1)
    BY <1>5 DEF CString
  <1>7. SubSeq(stored, p + 1, p + Len(text)) = text
    <2> DEFINE part == SubSeq(stored, p + 1, p + Len(text))
    <2>1. /\ part \in Seq(Char \cup {sep}) /\ Len(part) = Len(text)
          /\ \A x \in 1 .. Len(text) : part[x] = stored[p + x]
      BY <1>1
    <2> HIDE DEF part
    <2>2. \A x \in 1 .. Len(text) : part[x] = text[x]
      BY <1>1, <2>1
    <2>3. part = text
      BY <2>1, <2>2
    <2>4. QED
      BY <2>3 DEF part
  <1>8. e - 1 = p + Len(text)
    BY <1>1
  <1> HIDE DEF e
  <1>9. QED
    BY <1>6, <1>7, <1>8

\* Each name of an accepted document is found with its value.
Found(doc, i) ==
    a_json_get_prop(doc[i].name) = {doc[SelectInSeq(doc, LAMBDA mem : mem.name = doc[i].name)].text}

Missed(doc, prop) == HasName(doc, prop) \/ a_json_get_prop(prop) = {NotFound, Outside}

\* The names in the table, in their order.
TableNames == [k \in 1 .. Len(entry) \div 2 |-> CString(entry[2 * k - 1])]

LEMMA AcceptedNames ==
    ASSUME JsonTypeOK, NEW doc, IsDocument(doc), Accepted(doc)
    PROVE  /\ Len(TableNames) = Len(doc)
           /\ \A k \in 1 .. Len(doc) : TableNames[k] = doc[k].name /\ CString(entry[2 * k]) = doc[k].text
  <1>1. Len(doc) \in Nat /\ DOMAIN doc = 1 .. Len(doc)
    BY DEF IsDocument
  <1>2. \A k \in 1 .. Len(doc) : doc[k].name \in Seq(TextChar) /\ doc[k].text \in Seq(TextChar)
    BY <1>1, MembersAre
  <1>3. \A k \in 1 .. Len(doc) : /\ CString(entry[2 * k - 1]) = doc[k].name
                                /\ CString(entry[2 * k]) = doc[k].text
    BY <1>2, CStringIs DEF Accepted, Named, Valued
  <1>4. Len(entry) \div 2 = Len(doc)
    <2>1. \A n \in Nat : (2 * n) \div 2 = n
      BY SMT
    <2>2. QED
      BY <1>1, <2>1 DEF Accepted
  <1> DEFINE n == Len(doc)
  <1>5. TableNames = [k \in 1 .. n |-> doc[k].name]
    BY <1>3, <1>4 DEF TableNames
  <1>6. n \in Nat
    BY <1>1
  <1> HIDE DEF n
  <1>7. Len(TableNames) = n /\ \A k \in 1 .. n : TableNames[k] = doc[k].name
    BY <1>5, <1>6
  <1>8. QED
    BY <1>3, <1>7 DEF n

LEMMA AcceptedFinds ==
    ASSUME JsonTypeOK, NEW doc, IsDocument(doc), Accepted(doc), NEW i \in DOMAIN doc
    PROVE  Found(doc, i)
  <1> DEFINE prop == doc[i].name
             I == {k \in 1 .. Len(doc) : doc[k].name = prop}
             N == {k \in 1 .. Len(TableNames) : TableNames[k] = prop}
  <1>1. Len(doc) \in Nat /\ DOMAIN doc = 1 .. Len(doc)
    BY DEF IsDocument
  <1>2. I \in SUBSET Nat /\ I # {}
    BY <1>1
  <1>3. PICK j \in I : \A k \in I : j <= k
    <2> HIDE DEF I
    <2>1. QED
      BY <1>2, LeastOf
  <1>4. Min(I) = j
    <2> HIDE DEF I
    <2>1. QED
      BY <1>2, <1>3, MinIs
  <1>5. SelectInSeq(doc, LAMBDA mem : mem.name = prop) = j
    <2>1. SelectInSeq(doc, LAMBDA mem : mem.name = prop) = IF I # {} THEN Min(I) ELSE 0
      BY Zenon DEF SelectInSeq, I
    <2>2. QED
      BY <1>2, <1>4, <2>1
  <1>6. SelectInSeq(TableNames, LAMBDA name : name = prop) = j
    <2>1. N = I
      BY AcceptedNames
    <2>2. SelectInSeq(TableNames, LAMBDA name : name = prop) = IF N # {} THEN Min(N) ELSE 0
      BY Zenon DEF SelectInSeq, N
    <2> HIDE DEF N, I
    <2>3. QED
      BY <1>2, <1>4, <2>1, <2>2
  <1>7. j \in 1 .. Len(doc) /\ j # 0
    BY <1>1
  <1>8. a_json_get_prop(prop) = {CString(entry[2 * j])}
    BY <1>6, <1>7 DEF a_json_get_prop, TableNames
  <1>9. QED
    BY <1>5, <1>7, <1>8, AcceptedNames DEF Found

\* A name that the document does not have is given no member's value.
LEMMA AcceptedMisses ==
    ASSUME JsonTypeOK, NEW doc, IsDocument(doc), Accepted(doc), NEW prop, ~HasName(doc, prop)
    PROVE  a_json_get_prop(prop) = {NotFound, Outside}
  <1> DEFINE N == {k \in 1 .. Len(TableNames) : TableNames[k] = prop}
  <1>1. DOMAIN doc = 1 .. Len(doc)
    BY DEF IsDocument
  <1>2. N = {}
    BY <1>1, AcceptedNames DEF HasName
  <1>3. SelectInSeq(TableNames, LAMBDA name : name = prop) = IF N # {} THEN Min(N) ELSE 0
    BY Zenon DEF SelectInSeq, N
  <1> HIDE DEF N
  <1>4. SelectInSeq(TableNames, LAMBDA name : name = prop) = 0
    BY <1>2, <1>3
  <1>5. QED
    BY <1>4 DEF a_json_get_prop, TableNames

\* While the text of a document is parsed, the parser is somewhere in it.
InDocument == \A doc \in Doc, gap \in Gap : msg = Render(doc, gap) => Progress(doc, gap)

LEMMA DocumentInv ==
    ASSUME JsonInv, InDocument, [a_json_append_str_sized]_jsonVars
    PROVE  InDocument'
  <1>1. SUFFICES ASSUME NEW doc \in Doc, NEW gap \in Gap, msg' = Render(doc, gap)
                 PROVE  Progress(doc, gap)'
    BY DEF InDocument
  <1>2. IsDocument(doc) /\ gap \in Seq(Space)
    BY DocType, GapType
  <1>3. msg' = msg
    BY DEF a_json_append_str_sized, jsonVars
  <1>4. Progress(doc, gap)
    BY <1>1, <1>3 DEF InDocument
  <1>5. CASE a_json_append_str_sized
    BY <1>2, <1>4, <1>5, ProgressStep
  <1>6. CASE UNCHANGED jsonVars
    BY <1>4, <1>6 DEF jsonVars, Progress, Beginning, Accepted, Refused, Stage, AtName, InName,
        PastName, AtValue, InValue, InWord, PastValue, Left
  <1>7. QED
    BY <1>5, <1>6

LEMMA DocumentInit ==
    ASSUME msg \in Seq(Char), taken = 0, s = "JSON_INIT" \/ msg = <<>>, escaped = FALSE,
           recur = 0, entry = <<>>
    PROVE  InDocument
  <1> SUFFICES ASSUME NEW doc \in Doc, NEW gap \in Gap, msg = Render(doc, gap)
               PROVE  Beginning(doc, gap)
    BY DEF InDocument, Progress
  <1>1. Left = msg /\ Len(entry) = 0
    BY DEF Left
  <1>2. msg # <<>>
    <2>1. IsDocument(doc) /\ gap \in Seq(Space)
      BY DocType, GapType
    <2>2. QED
      BY <2>1, RenderNotEmpty
  <1>3. QED
    BY <1>1, <1>2 DEF Beginning

\* Of every document, however many members it has and however deep its objects
\* are, with any gap between its tokens.
LEMMA DocumentFound == JsonInv /\ InDocument => FindsMembers
  <1> SUFFICES ASSUME JsonInv, InDocument, NEW doc \in Doc, NEW gap \in Gap,
                      taken = Len(msg) \/ s \in Finished, msg = Render(doc, gap)
               PROVE  IF 2 * Len(doc) <= entry_max
                      THEN /\ s = "JSON_GOOD"
                           /\ Len(entry) = 2 * Len(doc)
                           /\ \A i \in DOMAIN doc : Found(doc, i)
                           /\ \A other \in Doc : \A i \in DOMAIN other : Missed(doc, other[i].name)
                      ELSE s = "JSON_BAD"
    BY DEF FindsMembers, Found, Missed
  <1>1. IsDocument(doc) /\ gap \in Seq(Space) /\ Progress(doc, gap)
    BY DocType, GapType DEF InDocument
  <1>2. Accepted(doc) \/ Refused(doc)
    BY <1>1, ProgressEnds
  <1>3. Len(doc) \in Nat /\ entry_max \in Nat
    BY <1>1, JsonConstants DEF IsDocument
  <1>4. CASE Accepted(doc)
    <2>1. s = "JSON_GOOD" /\ Len(entry) = 2 * Len(doc) /\ Len(entry) <= entry_max
      BY <1>4 DEF Accepted, JsonInv, InPlace
    <2>2. \A i \in DOMAIN doc : Found(doc, i)
      <3>1. JsonTypeOK
        BY DEF JsonInv
      <3>2. QED
        BY <1>1, <1>4, <3>1, AcceptedFinds
    <2>3. \A prop : Missed(doc, prop)
      <3>1. JsonTypeOK
        BY DEF JsonInv
      <3>2. QED
        BY <1>1, <1>4, <3>1, AcceptedMisses DEF Missed
    <2>4. QED
      BY <2>1, <2>2, <2>3
  <1>5. CASE Refused(doc)
    BY <1>3, <1>5 DEF Refused
  <1>6. QED
    BY <1>2, <1>4, <1>5

THEOREM FindsMembersHolds == JsonSpec => []FindsMembers
  <1>1. a_json_init => JsonInv /\ InDocument
    BY InitialState, JsonInitInv, DocumentInit
  <1>2. JsonInv /\ InDocument /\ [a_json_append_str_sized]_jsonVars => (JsonInv /\ InDocument)'
    BY JsonStepInv, DocumentInv
  <1>3. QED
    BY <1>1, <1>2, DocumentFound, PTL DEF JsonSpec
=============================================================================

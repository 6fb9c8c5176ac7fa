----------------------------- MODULE Encodings -----------------------------
(***************************************************************************)
(* Two conversions under the field indexes: numbers and offsets become the *)
(* keys of the database (key_encoding.rs), texts and queries become tokens *)
(* (tokenizers.rs).                                                        *)
(*                                                                         *)
(* A word has Width bits in bytes of Radix values.  A float is NaN or its  *)
(* bits: the sign, and a magnitude that grows with the rest of the bits.   *)
(* A character is a member of Chars.                                       *)
(***************************************************************************)
EXTENDS Integers, Sequences, SequencesExt

CONSTANTS Width, Radix,
          NaN,
          Chars,      \* "a", "A", "u" and "U" (two bytes each), "-" and " "
          Inputs,     \* records of a kind and the fields of the kind
          None

VARIABLES input,
          column,     \* keys or tokens that are stored
          answer      \* what was loaded, or the tokens of a query

vars == <<input, column, answer>>

Words == 0 .. 2 ^ Width - 1
SignBit == 2 ^ (Width - 1)

-----------------------------------------------------------------------------
(* Keys                                                                    *)

Bytes == CHOOSE n \in 1 .. Width : Radix ^ n = 2 ^ Width
ToBeBytes(word) == [i \in 1 .. Bytes |-> (word \div Radix ^ (Bytes - i)) % Radix]
FromBeBytes(buf) == FoldLeft(LAMBDA word, byte : word * Radix + byte, 0, buf)
Not(word) == 2 ^ Width - 1 - word
Xor(word) == (word + SignBit) % 2 ^ Width          \* with i64::MIN
ToWord(n) == n % 2 ^ Width
ToInt(word) == IF word >= SignBit THEN word - 2 ^ Width ELSE word
ZeroBytes == [i \in 1 .. Bytes |-> 0]

EncodeI64(n) == ToBeBytes(Xor(ToWord(n)))
DecodeI64(buf) == ToInt(Xor(FromBeBytes(SubSeq(buf, 1, Bytes))))

\* A slip of EncodeF64: the bits of a negative number are not inverted.
EncodeF64Plain(f) ==
    IF f = NaN THEN <<0>> \o ZeroBytes
    ELSE IF f \in {0, SignBit} THEN <<2>> \o ZeroBytes
    ELSE IF f >= SignBit THEN <<1>> \o ToBeBytes(f)
    ELSE <<3>> \o ToBeBytes(f)

EncodeF64(f) ==
    IF f = NaN THEN <<0>> \o ZeroBytes
    ELSE IF f \in {0, SignBit} THEN <<2>> \o ZeroBytes
    ELSE IF f >= SignBit THEN <<1>> \o ToBeBytes(Not(f))
    ELSE <<3>> \o ToBeBytes(f)

DecodeF64(buf) ==
    LET word == FromBeBytes(SubSeq(buf, 2, Bytes + 1))
    IN  CASE buf[1] = 0 -> NaN
          [] buf[1] = 1 -> Not(word)
          [] buf[1] = 2 -> 0
          [] buf[1] = 3 -> word

EncodeKey(kind, value, offset) ==
    (IF kind = "i64" THEN EncodeI64(value) ELSE EncodeF64(value)) \o ToBeBytes(offset)
DecodeKey(kind, buf) ==
    <<FromBeBytes(SubSeq(buf, Len(buf) - Bytes + 1, Len(buf))),
      IF kind = "i64" THEN DecodeI64(buf) ELSE DecodeF64(buf)>>

-----------------------------------------------------------------------------
(* Tokens                                                                  *)

IsSpace(c) == c = " "
IsAlphanumeric(c) == c \in {"a", "A", "u", "U"}
BytesOf(c) == IF c \in {"u", "U"} THEN 2 ELSE 1
Lower(c) == CASE c = "A" -> "a" [] c = "U" -> "u" [] OTHER -> c

Split(text, Separates(_)) ==
    LET parts == FoldLeft(LAMBDA done, c : IF Separates(c) THEN Append(done, <<>>)
                                           ELSE [done EXCEPT ![Len(done)] = Append(@, c)],
                          <<<<>>>>, text)
    IN  ToSet(parts) \ {<<>>}

WhiteSpaceTokens(text) == Split(text, IsSpace)
WordTokens(text) == Split(text, LAMBDA c : ~IsAlphanumeric(c))

\* The first n characters, or the word and no further prefix of it
Prefix(word, n) == IF n < Len(word) THEN SubSeq(word, 1, n) ELSE word

PrefixTokens(text, min, max) ==
    UNION {{Prefix(word, n) : n \in {n \in min .. max : n <= Len(word) \/ n = min}} : word \in WordTokens(text)}

PrefixQueryTokens(text, max) == {Prefix(word, max) : word \in WordTokens(text)}

\* The shortest length is one in bytes, the longest is one in characters.
Kept(token, params) ==
    /\ params.min # None => FoldLeft(LAMBDA k, c : k + BytesOf(c), 0, token) >= params.min
    /\ params.max # None => Len(token) <= params.max
Filtered(tokens, params) ==
    {IF params.lowercase THEN [i \in DOMAIN token |-> Lower(token[i])] ELSE token :
        token \in {t \in tokens : Kept(t, params)}}

OrElse(option, default) == IF option = None THEN default ELSE option
Longest(text) == Len(text) + 1                     \* usize::MAX

TokenizeDoc(text, params) ==
    Filtered(CASE params.tokenizer = "whitespace" -> WhiteSpaceTokens(text)
               [] params.tokenizer = "word" -> WordTokens(text)
               [] params.tokenizer = "prefix" ->
                     PrefixTokens(text, OrElse(params.min, 1), OrElse(params.max, Longest(text))), params)

TokenizeQuery(text, params) ==
    Filtered(CASE params.tokenizer = "whitespace" -> WhiteSpaceTokens(text)
               [] params.tokenizer = "word" -> WordTokens(text)
               [] params.tokenizer = "prefix" ->
                     PrefixQueryTokens(text, OrElse(params.max, Longest(text))), params)

-----------------------------------------------------------------------------
(* Steps                                                                   *)

Init == input \in Inputs /\ column = None /\ answer = None

PutKeys ==
    /\ input.kind # "text" /\ column = None
    /\ column' = {EncodeKey(input.kind, e[1], e[2]) : e \in input.entries}
    /\ UNCHANGED <<input, answer>>

LessBytes(s, t) == \E i \in DOMAIN s : s[i] < t[i] /\ \A j \in 1 .. i - 1 : s[j] = t[j]
LoadKeys ==
    /\ input.kind # "text" /\ column # None /\ answer = None
    /\ answer' = [i \in 1 .. Len(SetToSortSeq(column, LessBytes)) |->
                     DecodeKey(input.kind, SetToSortSeq(column, LessBytes)[i])]
    /\ UNCHANGED <<input, column>>

\* add_many: the document of a value
IndexText ==
    /\ input.kind = "text" /\ column = None
    /\ column' = TokenizeDoc(input.text, input.params)
    /\ UNCHANGED <<input, answer>>

\* A query for one of the words of the text, or for a prefix of it
ParseQuery ==
    /\ input.kind = "text" /\ column # None /\ answer = None
    /\ \E word \in (IF input.params.tokenizer = "whitespace" THEN WhiteSpaceTokens(input.text)
                    ELSE WordTokens(input.text)) :
       \E n \in 1 .. Len(word) :
          /\ input.params.tokenizer # "prefix" => n = Len(word)
          /\ input.params.min # None => n >= input.params.min
          /\ answer' = TokenizeQuery(SubSeq(word, 1, n), input.params)
    /\ UNCHANGED <<input, column>>

Next == PutKeys \/ LoadKeys \/ IndexText \/ ParseQuery
Spec == Init /\ [][Next]_vars

-----------------------------------------------------------------------------
(* Properties                                                              *)

\* The bytes of the keys sort as the numbers do, NaN first, and equal numbers by
\* their offsets; every key that was put is read back, the negative zero as zero.
Number(v) == IF v = NaN THEN -2 ^ Width
             ELSE IF input.kind = "i64" THEN v
             ELSE IF v >= SignBit THEN SignBit - v ELSE v
KeysKeepOrder ==
    input.kind # "text" /\ answer # None =>
        /\ {<<Number(a[2]), a[1]>> : a \in ToSet(answer)} = {<<Number(e[1]), e[2]>> : e \in input.entries}
        /\ \A i, j \in DOMAIN answer : i < j =>
              \/ Number(answer[i][2]) < Number(answer[j][2])
              \/ Number(answer[i][2]) = Number(answer[j][2]) /\ answer[i][1] < answer[j][1]

\* A text is found by each of its words, and with the prefix tokenizer by each
\* prefix of them that is not too short ("Docs. tokens: "hello" -> ["he", "hel",
\* "hell", "hello"], Query tokens: "hel" -> ["hel"]"), however long the query is.
TextIsFound == input.kind = "text" /\ answer # None => answer \subseteq column
=============================================================================

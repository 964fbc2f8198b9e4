----------------------------- MODULE JsonChars -----------------------------
(***************************************************************************)
(* What parson.c does to characters: the escapes of a quoted string, the   *)
(* comments it blanks out before it parses, and its test for UTF-8.        *)
(*                                                                         *)
(* A character is the name of its kind where all of a kind are treated     *)
(* alike.  The four hexadecimal digits of a \u escape are one element of a *)
(* text, named for the character they encode.  A nul ends a C string.      *)
(***************************************************************************)
EXTENDS Integers, Sequences, FiniteSetsExt

CONSTANTS EscapeSlashes,  \* pjson_set_escape_slashes
          TestBytes,      \* the bytes an input of is_valid_utf8 is made of
          MaxLength       \* MaxLength[t]: a bound of the model on the inputs of t

ASSUME JsonCharsAssumption == EscapeSlashes \in BOOLEAN /\ TestBytes \subseteq 0 .. 255

VARIABLES task,    \* what the input is given to: "string", "comments", "utf8"
          input    \* the input so far

charVars == <<task, input>>

\* "newline" stands for the five characters with an escape of one letter, n for
\* that letter; "control" for the others below 0x20; b2, b4 for characters of
\* two and four bytes.
Chars == {"quote", "backslash", "slash", "newline", "control", "nul", "n", "u", "b2", "b4"}
Digits == {"0001", "0000", "006e", "00e9", "d83d", "de00", "00g0"}

Decoded(d) == CASE d = "0001" -> "control" [] d = "0000" -> "nul"
                [] d = "006e" -> "n" [] d = "00e9" -> "b2"

\* How many bytes an element of a text, or a character of a string, takes.
Width(x) == CASE x \in Digits -> 4 [] x = "b2" -> 2 [] x = "b4" -> 4 [] OTHER -> 1
Bytes(t) ==
    LET sum[k \in 0 .. Len(t)] == IF k = 0 THEN 0 ELSE sum[k - 1] + Width(t[k])
    IN  sum[Len(t)]

\* Whether the token stands in t at i.
At(t, i, token) == i + Len(token) - 1 <= Len(t) /\ SubSeq(t, i, i + Len(token) - 1) = token

-----------------------------------------------------------------------------
(* Faulty operators, used by no specification: slips the properties must notice. *)

\* a nul written as it is: strlen in place of the string's length
EscapeCharNoNul(c) ==
    CASE c \in {"quote", "backslash"} -> <<"backslash", c>>
      [] c = "newline" -> <<"backslash", "n">>
      [] c = "control" -> <<"backslash", "u", "0001">>
      [] OTHER -> <<c>>

\* a comment blanked out without its end token
CommentNoEnd(i, close, end) == i .. close - 1

\* no test for encodings longer than needed
OverlongAllowed(cp, n) == FALSE

-----------------------------------------------------------------------------
(* Quoted strings *)

\* pjson_serialize_string, for one character
EscapeChar(c) ==
    CASE c \in {"quote", "backslash"} -> <<"backslash", c>>
      [] c = "slash" /\ EscapeSlashes -> <<"backslash", "slash">>
      [] c = "newline" -> <<"backslash", "n">>
      [] c = "control" -> <<"backslash", "u", "0001">>
      [] c = "nul" -> <<"backslash", "u", "0000">>
      [] OTHER -> <<c>>

Quoted(s) ==
    LET escaped[k \in 0 .. Len(s)] ==
          IF k = 0 THEN <<>> ELSE escaped[k - 1] \o EscapeChar(s[k])
    IN  <<"quote">> \o escaped[Len(s)] \o <<"quote">>

\* skip_quotes: where the string at the start of t ends, 0 if it does not.  A
\* backslash hides the element after it.
SkipQuotes(t) ==
    LET end[i \in 2 .. Len(t) + 1] ==
          IF i > Len(t) \/ t[i] = "nul" THEN 0
          ELSE IF t[i] = "quote" THEN i
          ELSE IF t[i] # "backslash" THEN end[i + 1]
          ELSE IF i = Len(t) \/ t[i + 1] = "nul" THEN 0
          ELSE end[i + 2]
    IN  IF t # <<>> /\ t[1] = "quote" THEN end[2] ELSE 0

\* What a part of a text stands for: a character, and how many elements it takes.
Invalid == [char |-> "none", size |-> 0]

\* parse_utf16, for the digits at i, after a backslash and a u.  A leading
\* surrogate needs the escape of a trailing one.
Utf16(t, i) ==
    IF i > Len(t) \/ t[i] \notin Digits \ {"00g0", "de00"} THEN Invalid
    ELSE IF t[i] # "d83d" THEN [char |-> Decoded(t[i]), size |-> 3]
    ELSE IF At(t, i + 1, <<"backslash", "u", "de00">>) THEN [char |-> "b4", size |-> 6]
    ELSE Invalid

\* What the loop of process_string makes of the element at i.  skip_quotes leaves
\* no backslash at the end.
Character(t, i) ==
    IF t[i] \in {"newline", "control"} THEN Invalid
    ELSE IF t[i] # "backslash" THEN [char |-> t[i], size |-> 1]
    ELSE IF i = Len(t) THEN Invalid
    ELSE CASE t[i + 1] \in {"quote", "backslash", "slash"} -> [char |-> t[i + 1], size |-> 2]
           [] t[i + 1] = "n" -> [char |-> "newline", size |-> 2]
           [] t[i + 1] = "u" -> Utf16(t, i + 2)
           [] OTHER -> Invalid

\* process_string: the string that t stands for between its quotes, or Failure.
Failure == <<"failure">>
Process(t) ==
    LET read[i \in 1 .. Len(t) + 1] ==
          IF i > Len(t) \/ t[i] = "nul" THEN <<>>
          ELSE IF Character(t, i) = Invalid THEN Failure
          ELSE LET rest == read[i + Character(t, i).size]
               IN  IF rest = Failure THEN Failure ELSE <<Character(t, i).char>> \o rest
    IN  read[1]

\* get_quoted_string
QuotedString(t) ==
    IF SkipQuotes(t) = 0 THEN Failure
    ELSE Process(SubSeq(t, 2, SkipQuotes(t) - 1))

-----------------------------------------------------------------------------
(* Comments, over the characters that matter; "." is any other *)

SourceChars == {"quote", "backslash", "slash", "*", "newline", "."}
BlockStart == <<"slash", "*">>
BlockEnd == <<"*", "slash">>
LineStart == <<"slash", "slash">>
LineEnd == <<"newline">>

\* strstr: the first token from i on, or one past the end.
Find(t, i, token) ==
    Min({j \in i .. Len(t) : At(t, j, token)} \cup {Len(t) + 1})

\* The characters of a comment at i whose end token is at `close`.
Comment(i, close, end) == i .. close + Len(end) - 1

\* remove_comments: the characters it blanks out.  A character after a backslash
\* may start a comment and nothing else.  A comment that is not closed loses its
\* start token, and nothing after that is looked at.
Blanked(t, start, end) ==
    LET from[i \in 1 .. Len(t) + 1] == [mode \in {"code", "string"} |->
          LET at == IF i <= Len(t) /\ t[i] = "backslash" THEN i + 1 ELSE i
              close == Find(t, at + Len(start), end)
          IN  IF at > Len(t) THEN {}
              ELSE IF t[i] = "quote"
              THEN from[i + 1][IF mode = "code" THEN "string" ELSE "code"]
              ELSE IF mode # "code" \/ ~At(t, at, start) THEN from[at + 1][mode]
              ELSE IF close > Len(t) THEN at .. at + Len(start) - 1
              ELSE Comment(at, close, end) \cup from[close + Len(end)]["code"]]
    IN  from[1]["code"]

BlankOut(t, S) == [i \in DOMAIN t |-> IF i \in S THEN " " ELSE t[i]]
Strip(t, start, end) == BlankOut(t, Blanked(t, start, end))

\* pjson_parse_string_with_comments: all block comments first, then the lines.
RemoveComments(t) == Strip(Strip(t, BlockStart, BlockEnd), LineStart, LineEnd)

-----------------------------------------------------------------------------
(* UTF-8 *)

IsCont(b) == 128 <= b /\ b <= 191

\* num_bytes_in_utf8_sequence
NumBytes(b) ==
    IF b \in {192, 193} \/ b > 244 \/ IsCont(b) THEN 0
    ELSE IF b < 128 THEN 1
    ELSE IF b < 224 THEN 2
    ELSE IF b < 240 THEN 3
    ELSE 4

\* The code point of a sequence of n bytes from i on.
CodePoint(t, i, n) ==
    LET Add(cp, b) == (cp * 64) + (b % 64)
    IN  CASE n = 1 -> t[i]
          [] n = 2 -> Add(t[i] % 32, t[i + 1])
          [] n = 3 -> Add(Add(t[i] % 16, t[i + 1]), t[i + 2])
          [] n = 4 -> Add(Add(Add(t[i] % 8, t[i + 1]), t[i + 2]), t[i + 3])

Overlong(cp, n) ==
    \/ cp < 128 /\ n > 1
    \/ cp < 2048 /\ n > 2
    \/ cp < 65536 /\ n > 3

LastCodePoint == 1114111
Surrogate(cp) == 55296 <= cp /\ cp <= 57343

\* verify_utf8_sequence; past the input is the nul that ends it.
VerifySequence(t, i) ==
    LET n == NumBytes(t[i])
        cp == CodePoint(t, i, n)
    IN  /\ n > 0
        /\ \A j \in 1 .. n - 1 : i + j <= Len(t) /\ IsCont(t[i + j])
        /\ ~Overlong(cp, n)
        /\ cp <= LastCodePoint
        /\ ~Surrogate(cp)

\* is_valid_utf8 with the length n: the last sequence may reach past n.
IsValidUtf8(t, n) ==
    LET valid[i \in 1 .. Len(t) + 1] ==
          i > n \/ (VerifySequence(t, i) /\ valid[i + NumBytes(t[i])])
    IN  valid[1]

-----------------------------------------------------------------------------
CharInit == task \in {"string", "comments", "utf8"} /\ input = <<>>

\* The elements an input grows by; a \u escape comes as a whole.
Elements(t) ==
    CASE t = "string" -> {<<c>> : c \in Chars} \cup {<<"backslash", "u", d>> : d \in Digits}
      [] t = "comments" -> {<<c>> : c \in SourceChars}
      [] t = "utf8" -> {<<b>> : b \in TestBytes}

CharNext ==
    /\ Len(input) < MaxLength[task]
    /\ \E e \in Elements(task) : input' = input \o e
    /\ UNCHANGED task

CharSpec == CharInit /\ [][CharNext]_charVars

-----------------------------------------------------------------------------
\* A string written by pjson_serialize_string is read back as it was, embedded
\* nuls included, wherever it stands in a text; and the string read from any
\* text fits the buffer process_string makes for it and is read back as well.
StringsSurvive ==
    task = "string" =>
        LET read == QuotedString(<<"quote">> \o input \o <<"quote">>)
        IN  /\ QuotedString(Quoted(input) \o input) = input
            /\ read # Failure => /\ Bytes(read) <= Bytes(input)
                                 /\ QuotedString(Quoted(read)) = read

\* How C reads the element at i, inside what `in` names: what the next elements
\* are part of, how many they are, and what comes after them.
Part(t, i, in) ==
    CASE in = "code" /\ t[i] = "quote" -> [kind |-> "string", size |-> 1, next |-> "string"]
      [] in = "code" /\ At(t, i, BlockStart) -> [kind |-> "block", size |-> 2, next |-> "block"]
      [] in = "code" /\ At(t, i, LineStart) -> [kind |-> "line", size |-> 2, next |-> "line"]
      [] in = "string" /\ t[i] = "backslash" /\ i < Len(t) ->
           [kind |-> "string", size |-> 2, next |-> "string"]
      [] in = "string" /\ t[i] = "quote" -> [kind |-> "string", size |-> 1, next |-> "code"]
      [] in = "block" /\ At(t, i, BlockEnd) -> [kind |-> "block", size |-> 2, next |-> "code"]
      [] in = "line" /\ t[i] = "newline" -> [kind |-> "line", size |-> 1, next |-> "code"]
      [] OTHER -> [kind |-> in, size |-> 1, next |-> in]

\* What each element of t is part of, and, after the last one, what t ends in: no
\* comment starts in a string or in a comment.
Kinds(t) ==
    LET from[i \in 1 .. Len(t) + 1] == [in \in {"code", "string", "block", "line"} |->
          IF i > Len(t) THEN [j \in {i} |-> in]
          ELSE LET part == Part(t, i, in)
                   rest == from[i + part.size][part.next]
               IN  [j \in i .. Len(t) + 1 |-> IF j < i + part.size THEN part.kind ELSE rest[j]]]
    IN  from[1]["code"]

\* Where every comment is closed, holds no quote and no backslash, and no line
\* comment holds the start of a block, exactly the comments are blanked out and
\* no string is touched.
CommentsRemoved ==
    task = "comments" =>
        LET kind == Kinds(input)
            comment == {i \in DOMAIN input : kind[i] \in {"line", "block"}}
            plain ==
                /\ kind[Len(input) + 1] = "code"
                /\ \A i \in comment : input[i] \notin {"quote", "backslash"}
                /\ \A i \in comment : kind[i] = "line" => ~At(input, i, BlockStart)
                /\ \A i \in DOMAIN input : kind[i] = "code" => input[i] # "backslash"
        IN  plain => RemoveComments(input) =
                       [i \in DOMAIN input |-> IF i \in comment THEN " " ELSE input[i]]

\* The well-formed byte sequences of the Unicode standard (table 3-7): the least
\* and the greatest value of each byte.
Forms ==
    {<< <<0, 127>> >>,
     << <<194, 223>>, <<128, 191>> >>,
     << <<224, 224>>, <<160, 191>>, <<128, 191>> >>,
     << <<225, 236>>, <<128, 191>>, <<128, 191>> >>,
     << <<237, 237>>, <<128, 159>>, <<128, 191>> >>,
     << <<238, 239>>, <<128, 191>>, <<128, 191>> >>,
     << <<240, 240>>, <<144, 191>>, <<128, 191>>, <<128, 191>> >>,
     << <<241, 243>>, <<128, 191>>, <<128, 191>>, <<128, 191>> >>,
     << <<244, 244>>, <<128, 143>>, <<128, 191>>, <<128, 191>> >>}

HasForm(t, i, f) ==
    /\ i + Len(f) - 1 <= Len(t)
    /\ \A j \in DOMAIN f : f[j][1] <= t[i + j - 1] /\ t[i + j - 1] <= f[j][2]

WellFormed(t) ==
    LET formed[i \in 1 .. Len(t) + 1] ==
          i > Len(t) \/ \E f \in Forms : HasForm(t, i, f) /\ formed[i + Len(f)]
    IN  formed[1]

\* is_valid_utf8 accepts what is well formed, and, given a length that cuts a
\* sequence, the string that ends in the middle of it.
Utf8Accepted ==
    task = "utf8" =>
        \A n \in 0 .. Len(input) :
            IsValidUtf8(input, n) = \E k \in n .. Len(input) : WellFormed(SubSeq(input, 1, k))
=============================================================================

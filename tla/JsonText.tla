------------------------------ MODULE JsonText ------------------------------
(***************************************************************************)
(* Documents saved to a file and loaded from it (parson.c).  A document is *)
(* a pair of its type and its contents; a text is a sequence of tokens in  *)
(* which a quoted string, a number and a run of blanks are one token each. *)
(* What is inside a string is in JsonChars.                                *)
(*                                                                         *)
(* The parser gives up below MaxNesting levels, the serializer does not,   *)
(* and a save that fails leaves a part of the text in the file.            *)
(***************************************************************************)
EXTENDS Integers, Sequences, SequencesExt

CONSTANTS Documents,   \* the values that are saved
          Strings,     \* quoted strings, as tokens
          Numbers,     \* number tokens; Numbers[i] stands for i half epsilons
          MaxNesting   \* MAX_NESTING (2048 in parson.c)

VARIABLES doc,      \* the document the program has built
          file,     \* the text in the file
          save,     \* how the save of doc ended: "none", "whole" or "cut"
          loaded    \* what the last load returned

textVars == <<doc, file, save, loaded>>

Error == <<"error", <<>>>>
Null == <<"null", <<>>>>
Boolean(b) == <<"boolean", b>>
Number(n) == <<"number", n>>
String(s) == <<"string", s>>
Array(items) == <<"array", items>>
Object(members) == <<"object", members>>   \* a sequence of names and values

Type(v) == v[1]
Items(v) == v[2]
NamesIn(v) == {v[2][i][1] : i \in DOMAIN v[2]}
Get(v, k) == v[2][CHOOSE i \in DOMAIN v[2] : v[2][i][1] = k][2]

-----------------------------------------------------------------------------
(* Faulty operators, used by no specification: slips the properties must notice. *)

\* a comma after every member
SeparatorAlways(i, n) == <<",">>

\* members of b that a does not have are not noticed
SameCountAtMost(a, b) == Len(Items(a)) <= Len(Items(b))

-----------------------------------------------------------------------------
(* Serialization *)

Blank(n) == [i \in 1 .. n |-> " "]
Indent(level, pretty) == IF pretty THEN Blank(4 * level) ELSE <<>>
Newline(pretty) == IF pretty THEN <<" ">> ELSE <<>>
Separator(i, n) == IF i < n THEN <<",">> ELSE <<>>

RECURSIVE Serialize(_, _, _)

\* The members of an array or an object between its brackets.
Body(v, level, pretty) ==
    LET n == Len(v[2])
        text(i) ==
            Indent(level + 1, pretty)
            \o (IF Type(v) = "array" THEN Serialize(v[2][i], level + 1, pretty)
                ELSE <<v[2][i][1], ":">> \o Newline(pretty)
                     \o Serialize(v[2][i][2], level + 1, pretty))
            \o Separator(i, n) \o Newline(pretty)
    IN  IF n = 0 THEN <<>>
        ELSE Newline(pretty) \o FlattenSeq([i \in 1 .. n |-> text(i)])
             \o Indent(level, pretty)

\* pjson_serialize_to_buffer_r
Serialize(v, level, pretty) ==
    CASE Type(v) = "array"   -> <<"[">> \o Body(v, level, pretty) \o <<"]">>
      [] Type(v) = "object"  -> <<"{">> \o Body(v, level, pretty) \o <<"}">>
      [] Type(v) = "string"  -> <<v[2]>>
      [] Type(v) = "boolean" -> <<v[2]>>
      [] Type(v) = "number"  -> <<Numbers[v[2]]>>
      [] Type(v) = "null"    -> <<"null">>

-----------------------------------------------------------------------------
(* Parsing: a value and the text that follows it, or Error *)

Result(v, rest) == [value |-> v, rest |-> rest]
Failed == Result(Error, <<>>)
Ok(r) == r.value # Error

SkipWhitespaces(t) ==
    LET blank == {i \in DOMAIN t : \A j \in 1 .. i : t[j] = " "}
    IN  SubSeq(t, Cardinality(blank) + 1, Len(t))
Starts(t, token) == t # <<>> /\ t[1] = token

RECURSIVE ParseValue(_, _), ParseMembers(_, _, _), ParseItems(_, _, _)

\* The loop of parse_object_value: t is at a name, `members` are those read.
\* pjson_object_add refuses a name that is there already.
ParseMembers(t, nesting, members) ==
    IF t = <<>> \/ t[1] \notin Strings THEN Failed
    ELSE LET colon == SkipWhitespaces(Tail(t))
             v == ParseValue(Tail(colon), nesting)
             rest == SkipWhitespaces(v.rest)
             all == Append(members, <<t[1], v.value>>)
         IN  CASE ~Starts(colon, ":") -> Failed
               [] OTHER ->
                  IF ~Ok(v) \/ t[1] \in NamesIn(Object(members)) THEN Failed
                  ELSE IF Starts(rest, ",")
                  THEN ParseMembers(SkipWhitespaces(Tail(rest)), nesting, all)
                  ELSE IF Starts(rest, "}") THEN Result(Object(all), Tail(rest))
                  ELSE Failed

\* The loop of parse_array_value.
ParseItems(t, nesting, items) ==
    LET v == ParseValue(t, nesting)
        rest == SkipWhitespaces(v.rest)
        all == Append(items, v.value)
    IN  CASE ~Ok(v) -> Failed
          [] Ok(v) /\ Starts(rest, ",") ->
                ParseItems(SkipWhitespaces(Tail(rest)), nesting, all)
          [] Ok(v) /\ Starts(rest, "]") -> Result(Array(all), Tail(rest))
          [] OTHER -> Failed

\* parse_object_value and parse_array_value: `close` ends an empty one.
ParseContainer(t, close, empty, nesting) ==
    LET inside == SkipWhitespaces(Tail(t))
    IN  IF Starts(inside, close) THEN Result(empty, Tail(inside))
        ELSE IF close = "}" THEN ParseMembers(inside, nesting, <<>>)
        ELSE ParseItems(inside, nesting, <<>>)

\* strtod accepts a lone "-" as 0 and leaves it where it is.
ParseNumber(t) ==
    IF t[1] = "-" THEN Result(Number(1), t)
    ELSE Result(Number(CHOOSE i \in DOMAIN Numbers : Numbers[i] = t[1]), Tail(t))

ParseValue(text, nesting) ==
    LET t == SkipWhitespaces(text)
    IN  IF nesting > MaxNesting \/ t = <<>> THEN Failed
        ELSE CASE t[1] = "{" -> ParseContainer(t, "}", Object(<<>>), nesting + 1)
               [] t[1] = "[" -> ParseContainer(t, "]", Array(<<>>), nesting + 1)
               [] t[1] \in Strings -> Result(String(t[1]), Tail(t))
               [] t[1] \in {"true", "false"} -> Result(Boolean(t[1]), Tail(t))
               [] t[1] \in ToSet(Numbers) \cup {"-"} -> ParseNumber(t)
               [] t[1] = "null" -> Result(Null, Tail(t))
               [] OTHER -> Failed

\* pjson_parse_string: what follows the value is not looked at.
Parse(t) == ParseValue(t, 0).value

-----------------------------------------------------------------------------
(* Comparison *)

SameCount(a, b) == Len(Items(a)) = Len(Items(b))

RECURSIVE Validate(_, _), Equals(_, _)

\* pjson_validate: null stands for any value; an array's first item for all.
Validate(s, v) ==
    /\ Type(s) = Type(v) \/ Type(s) = "null"
    /\ Type(s) = "array" /\ Items(s) # <<>> =>
          \A i \in DOMAIN Items(v) : Validate(Items(s)[1], Items(v)[i])
    /\ Type(s) = "object" =>
          /\ Len(Items(v)) >= Len(Items(s))
          /\ \A k \in NamesIn(s) : k \in NamesIn(v) /\ Validate(Get(s, k), Get(v, k))

\* pjson_value_equals: numbers are equal up to an epsilon.
Equals(a, b) ==
    /\ Type(a) = Type(b)
    /\ CASE Type(a) = "array" ->
              /\ SameCount(a, b)
              /\ \A i \in DOMAIN Items(a) : Equals(Items(a)[i], Items(b)[i])
         [] Type(a) = "object" ->
              /\ SameCount(a, b)
              /\ \A k \in NamesIn(a) : k \in NamesIn(b) /\ Equals(Get(a, k), Get(b, k))
         [] Type(a) = "number" -> a[2] - b[2] < 2 /\ b[2] - a[2] < 2
         [] OTHER -> a = b

-----------------------------------------------------------------------------
TextInit ==
    /\ doc \in Documents
    /\ file = <<>>
    /\ save = "none"
    /\ loaded = Error

\* Another document.  What the file holds is of no interest until it is saved:
\* the save empties the file first.
Build(v) ==
    /\ doc' = v
    /\ file' = <<>> /\ save' = "none"
    /\ UNCHANGED loaded

\* pjson_serialize_to_file and _pretty: fopen empties the file, fputs and
\* fclose may write a part of the text only.
Save(pretty) ==
    LET text == Serialize(doc, 0, pretty)
    IN  /\ save = "none"
        /\ \/ file' = text /\ save' = "whole"
           \/ \E n \in 0 .. Len(text) - 1 : file' = SubSeq(text, 1, n) /\ save' = "cut"
        /\ UNCHANGED <<doc, loaded>>

\* pjson_parse_file; an empty file is not read.
Load ==
    /\ loaded' = IF file = <<>> THEN Error ELSE Parse(file)
    /\ UNCHANGED <<doc, file, save>>

TextNext ==
    \/ \E v \in Documents : Build(v)
    \/ \E pretty \in BOOLEAN : Save(pretty)
    \/ Load

TextSpec == TextInit /\ [][TextNext]_textVars

-----------------------------------------------------------------------------
\* How deep the values of a document lie.
RECURSIVE Depth(_)
Depth(v) ==
    IF Type(v) \notin {"array", "object"} \/ Items(v) = <<>> THEN 0
    ELSE LET kids == IF Type(v) = "array" THEN ToSet(Items(v))
                     ELSE {Get(v, k) : k \in NamesIn(v)}
         IN  1 + Max({Depth(k) : k \in kids})

\* A load returns what was saved, compact or pretty, if it is not nested too
\* deeply to be read at all; after a save that failed it never returns an array
\* or an object with a part of its members.
LoadReturnsSaved ==
    [][Load => CASE save = "whole" ->
                      loaded' = IF Depth(doc) <= MaxNesting THEN doc ELSE Error
                 [] save = "cut" /\ Type(doc) \in {"array", "object"} -> loaded' = Error
                 [] OTHER -> TRUE]_textVars

\* pjson_value_equals between a document and an earlier one read back is
\* symmetric, and pjson_validate tells no two documents apart that are equal.
EqualsValidateAlike ==
    loaded # Error =>
        /\ Equals(doc, loaded) = Equals(loaded, doc)
        /\ Equals(doc, loaded) =>
              \A s \in Documents : Validate(s, doc) = Validate(s, loaded)
=============================================================================

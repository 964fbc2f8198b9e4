------------------------------- MODULE MCJson -------------------------------
(***************************************************************************)
(* The models of parson.c side by side.  They share no state: `part` says  *)
(* which of them a behaviour is about, and only that one moves.            *)
(***************************************************************************)
EXTENDS JsonTree, JsonObject, JsonChars

VARIABLES part,                      \* what a behaviour is about
          doc, file, save, loaded    \* of JsonText

JsonParts == {"object", "tree", "text", "chars"}

\* Two names collide when the table has four cells, and still do when it has
\* eight, where the second of them goes around its end to where the third belongs.
MCHash == [n \in Keys |-> CASE n = "a" -> 7 [] n = "b" -> 15 [] n = "c" -> 0]

MCMaxLength == [string |-> 5, comments |-> 6, utf8 |-> 4]

\* Bytes on both sides of every limit of an encoding.
MCTestBytes == {65, 128, 143, 144, 159, 160, 191, 192, 194, 224, 237, 240, 244, 245}

\* Number 1 and 2, and 2 and 3, are within an epsilon of each other; 1 and 3 not.
MCNumbers == <<"1", "2", "3">>

Null == <<"null", <<>>>>
Number(n) == <<"number", n>>
Array(items) == <<"array", items>>
Object(members) == <<"object", members>>

Leaves == {Null, <<"boolean", "true">>, <<"string", "'a'">>} \cup {Number(n) : n \in 1 .. 3}
Pairs == {Array(<<Number(1), Number(3)>>), Array(<<Number(2), Number(2)>>),
          Array(<<Null, Array(<<>>)>>),
          Object(<<<<"'a'", Number(2)>>, <<"'b'", Null>>>>),
          Object(<<<<"'b'", Null>>, <<"'a'", Number(3)>>>>)}
InArray(x) == Array(<<x>>)
InObject(x) == Object(<<<<"'a'", x>>>>)
MCDocuments ==
    Leaves \cup Pairs \cup {Array(<<>>), Object(<<>>)}
    \cup {InArray(x) : x \in Pairs} \cup {InObject(x) : x \in Pairs}
    \cup {InArray(InObject(InArray(x))) : x \in {Null, Array(<<>>)}}

Text == INSTANCE JsonText WITH
          Documents <- MCDocuments, Strings <- {"'a'", "'b'"},
          Numbers <- MCNumbers, MaxNesting <- 2

textVars == <<doc, file, save, loaded>>

JsonInit ==
    /\ ObjInit
    /\ TreeInit
    /\ Text!TextInit /\ (part # "text" => doc = Null)
    /\ CharInit /\ (part # "chars" => task = "string")

ObjectStep ==
    /\ part = "object" /\ ObjNext
    /\ UNCHANGED <<part, treeVars, textVars, charVars>>

TreeStep ==
    /\ part = "tree" /\ TreeNext
    /\ UNCHANGED <<part, objVars, textVars, charVars>>

TextStep ==
    /\ part = "text" /\ Text!TextNext
    /\ UNCHANGED <<part, objVars, treeVars, charVars>>

CharStep ==
    /\ part = "chars" /\ CharNext
    /\ UNCHANGED <<part, objVars, treeVars, textVars>>

JsonNext == ObjectStep \/ TreeStep \/ TextStep \/ CharStep

jsonVars == <<part, objVars, treeVars, textVars, charVars>>

JsonSpec == (part \in JsonParts /\ JsonInit) /\ [][JsonNext]_jsonVars

-----------------------------------------------------------------------------
\* A load returns the document that was saved, or fails.
LoadReturnsSaved == Text!LoadReturnsSaved
\* Equal documents are equal both ways and match the same schemas.
EqualsValidateAlike == Text!EqualsValidateAlike
=============================================================================

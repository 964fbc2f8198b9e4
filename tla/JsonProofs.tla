----------------------------- MODULE JsonProofs -----------------------------
(***************************************************************************)
(* The ownership of JSON values for any number of addresses and names,     *)
(* and the table of an object for any names, hashes and capacity.          *)
(*                                                                         *)
(* Ownership: what holds of a heap and of the caller's values is stated of *)
(* any heap (Tidy), so that a call which changes it in several steps, each *)
(* of them tidy, is tidy.  Two lemmas do the work: Prune, a heap from      *)
(* which whole values are gone, and Attach, one where a container has      *)
(* taken a value of the caller's.                                          *)
(*                                                                         *)
(* A deep copy: nothing there was before it has changed or can reach what  *)
(* has been made since (Underway), and what has been made is like a part   *)
(* of the original, the calls of the recursion being where it is not done  *)
(* (Mirror).  When it fails, Tidy leaves room for no value but the old.    *)
(***************************************************************************)
EXTENDS JsonTree, JsonObject, SequenceTheorems, FiniteSetTheorems, WellFoundedInduction,
        TLAPS

\* The contents of an address in use: the members go with the type.
Shaped(c) ==
    /\ c \in Contents
    /\ c.type = "array" => c.kids \in Seq(Addrs)
    /\ c.type = "object" => DOMAIN c.kids \subseteq Names
    /\ c.type \in {"leaf", "cleared"} => c.kids = <<>>

\* A value with other members, and with another parent.
Filled(c, K) == [c EXCEPT !.kids = K]
Owned(c, o) == [c EXCEPT !.parent = o]

\* A member is the value of one key of one container, which is its parent, and
\* every value is below one the caller owns: no smaller set has all of these and
\* the members of what it has.
Tidy(h, hs) ==
    /\ h \in [Addrs -> Contents \cup {Free}]
    /\ hs \subseteq Allocated(h)
    /\ \A a \in Allocated(h) : Shaped(h[a]) /\ IsInjective(h[a].kids)
    /\ \A a \in Allocated(h) : \A b \in Members(h, a) :
          b \in Allocated(h) /\ h[b].parent = a /\ b \notin hs
    /\ \A b \in Allocated(h) \ hs :
          h[b].parent \in Allocated(h) /\ b \in Members(h, h[b].parent)
    /\ \A S \in SUBSET Allocated(h) : hs \subseteq S /\ Closed(h, S) => S = Allocated(h)

\* The caller's values have no parent, but for what a failed dotset left.
Parents(h, hs, left) == \A v \in hs : h[v].parent = NULL \/ v \in left

\* The caller gives v to the container at o.
MayTake(h, hs, o, v) ==
    Tidy(h, hs) /\ v \in hs /\ o \in Allocated(h) /\ o \notin Below(h, v)

\* The values in S are where they were.
Keeps(h, g, S) == \A a \in S : g[a].parent = h[a].parent

\* The activations of a deep copy, innermost last.  One waits for a copy of the
\* member that the next is called for.
Frame == [of : Addrs, copy : Addrs, at : Names \cup (1 .. MaxItems) \cup {NULL}]

Awaits(h, f, g) ==
    /\ g.at \in DOMAIN h[f.of].kids \ DOMAIN h[f.copy].kids
    /\ h[f.of].kids[g.at] = g.of
    /\ h[f.of].type = "array" => g.at = Len(h[f.copy].kids) + 1

\* What there was before, b, is as it was, and the calls in fs own what has been
\* made since.
Underway(h, hs, fs, b) ==
    /\ Tidy(b.heap, b.held) /\ fs \in Seq(Frame)
    /\ \A a \in Allocated(b.heap) : h[a] = b.heap[a]
    /\ hs = b.held \cup {fs[i].copy : i \in DOMAIN fs}
    /\ \A i \in DOMAIN fs :
          /\ fs[i].of \in Allocated(b.heap) /\ fs[i].copy \notin Allocated(b.heap)
          /\ \A j \in DOMAIN fs : fs[i].copy = fs[j].copy => i = j
          /\ i > 1 => Awaits(h, fs[i - 1], fs[i])

\* f says what each new value is a copy of; only those of the calls in fs lack
\* members.
Mirror(h, fs, g, f) ==
    /\ \A i \in DOMAIN fs : f[fs[i].copy] = fs[i].of
    /\ \A y \in DOMAIN f :
          /\ h[y].type = CopyType(g[f[y]].type)
          /\ DOMAIN h[y].kids \subseteq DOMAIN g[f[y]].kids
          /\ \A k \in DOMAIN h[y].kids : f[h[y].kids[k]] = g[f[y]].kids[k]
          /\ DOMAIN h[y].kids = DOMAIN g[f[y]].kids \/ \E i \in DOMAIN fs : y = fs[i].copy

IInv ==
    /\ Tidy(heap, held) /\ Parents(heap, held, orphaned) /\ orphaned \subseteq held
    /\ status \in {"success", "failure", "copying", "failing"}
    /\ status \in {"copying", "failing"} <=> frames # <<>>
    /\ frames # <<>> =>
          Underway(heap, held, frames, before) /\ orphaned \subseteq before.held
    /\ status = "copying" =>
          LET old == Allocated(before.heap)
          IN  \E f \in [Live \ old -> old] : Mirror(heap, frames, before.heap, f)

-----------------------------------------------------------------------------
(* Members *)

LEMMA KidsAreValues ==
  ASSUME NEW c \in Contents
  PROVE  c.kids \in [DOMAIN c.kids -> Addrs]
<1>1. c.kids \in Kids
  BY DEF Contents
<1>2. c.kids \in UNION {[S -> Addrs] : S \in SUBSET Names} \/ c.kids \in Seq(Addrs)
  BY <1>1 DEF Kids
<1>3. CASE c.kids \in Seq(Addrs)
  BY <1>3
<1>4. CASE c.kids \in UNION {[S -> Addrs] : S \in SUBSET Names}
  BY <1>4
<1> QED
  BY <1>2, <1>3, <1>4

LEMMA FilledOwned ==
  ASSUME NEW c \in Contents, NEW K, NEW o
  PROVE  /\ (K \in Kids => Filled(c, K) \in Contents)
         /\ (o \in Addrs => Owned(c, o) \in Contents)
         /\ Filled(c, K).kids = K /\ Owned(c, o).kids = c.kids
         /\ Filled(c, K).type = c.type /\ Owned(c, o).type = c.type
         /\ Filled(c, K).parent = c.parent /\ Owned(c, o).parent = o
BY DEF Filled, Owned, Contents

LEMMA FilledTwice ==
  ASSUME NEW c \in Contents, NEW K, NEW L
  PROVE  Filled(Filled(c, L), K) = Filled(c, K)
BY DEF Filled, Contents

LEMMA AllocatedShape ==
  ASSUME NEW h, NEW hs, Tidy(h, hs), NEW a \in Allocated(h)
  PROVE  /\ a \in Addrs /\ h[a] \in Contents
         /\ Members(h, a) \subseteq Allocated(h)
         /\ h[a].kids \in [DOMAIN h[a].kids -> Addrs]
<1>1. a \in Addrs /\ h[a] \in Contents
  BY DEF Tidy, Allocated, Shaped
<1> QED
  BY <1>1, KidsAreValues DEF Tidy

\* What is below v: v, and the members of what is below it, and no more.
LEMMA BelowIsClosed ==
  ASSUME NEW h, NEW v \in Allocated(h),
         \A a \in Allocated(h) : Members(h, a) \subseteq Allocated(h)
  PROVE  /\ v \in Below(h, v) /\ Below(h, v) \subseteq Allocated(h)
         /\ Closed(h, Below(h, v))
         /\ \A S \in SUBSET Allocated(h) :
               v \in S /\ Closed(h, S) => Below(h, v) \subseteq S
<1>1. v \in Below(h, v) /\ Below(h, v) \subseteq Allocated(h)
  BY DEF Below
<1>2. Closed(h, Below(h, v))
  <2> SUFFICES ASSUME NEW a \in Below(h, v), NEW b \in Members(h, a)
               PROVE  b \in Below(h, v)
    BY DEF Closed
  <2>1. b \in Allocated(h)
    BY <1>1
  <2>2. ASSUME NEW S \in SUBSET Allocated(h), v \in S, Closed(h, S) PROVE b \in S
    <3>1. a \in S
      BY <2>2 DEF Below
    <3> QED
      BY <2>2, <3>1 DEF Closed
  <2> QED
    BY <2>1, <2>2 DEF Below
<1> QED
  BY <1>1, <1>2 DEF Below

\* What is below v, other than v, is a member of something below v.
LEMMA OwnersBelow ==
  ASSUME NEW h, NEW hs, Tidy(h, hs), NEW v \in Allocated(h)
  PROVE  \A b \in Below(h, v) : b = v \/ (b \notin hs /\ h[b].parent \in Below(h, v))
<1> DEFINE B == Below(h, v)
           S == {b \in B : b = v \/ (b \notin hs /\ h[b].parent \in B)}
<1>1. /\ v \in B /\ B \subseteq Allocated(h) /\ Closed(h, B)
      /\ \A T \in SUBSET Allocated(h) : v \in T /\ Closed(h, T) => B \subseteq T
  BY AllocatedShape, BelowIsClosed
<1>2. ASSUME NEW a \in S, NEW b \in Members(h, a) PROVE b \in S
  <2>1. b \in B
    BY <1>1 DEF Closed
  <2>2. b \notin hs /\ h[b].parent = a
    BY <1>1 DEF Tidy
  <2> QED
    BY <2>1, <2>2
<1>3. v \in S /\ S \in SUBSET Allocated(h) /\ Closed(h, S)
  BY <1>1, <1>2 DEF Closed
<1> QED
  BY <1>1, <1>3

\* A value is not a part of itself.
LEMMA NoCycle ==
  ASSUME NEW h, NEW hs, Tidy(h, hs), NEW a \in Allocated(h), NEW b \in Members(h, a)
  PROVE  a \notin Below(h, b)
<1> SUFFICES ASSUME a \in Below(h, b) PROVE FALSE
  OBVIOUS
<1> DEFINE S == Allocated(h) \ Below(h, b)
<1>1. b \in Allocated(h) /\ b \notin hs /\ h[b].parent = a
  BY DEF Tidy
<1>2. \A c \in Below(h, b) : c = b \/ (c \notin hs /\ h[c].parent \in Below(h, b))
  BY <1>1, OwnersBelow
<1>3. hs \subseteq S
  BY <1>1, <1>2 DEF Tidy
<1>4. ASSUME NEW c \in S, NEW d \in Members(h, c) PROVE d \in S
  <2>1. d \in Allocated(h) /\ h[d].parent = c
    BY DEF Tidy
  <2> QED
    BY <1>1, <1>2, <2>1
<1>5. S = Allocated(h)
  BY <1>3, <1>4 DEF Tidy, Closed
<1>6. b \in Below(h, b)
  BY <1>1, AllocatedShape, BelowIsClosed
<1> QED
  BY <1>1, <1>5, <1>6

-----------------------------------------------------------------------------
(* Changes of a heap *)

\* The values in D are gone, with everything below them, and with them what
\* other values had of them.
LEMMA Prune ==
  ASSUME NEW h, NEW hs, Tidy(h, hs),
         NEW D \in SUBSET Allocated(h), Closed(h, D),
         NEW g \in [Addrs -> Contents \cup {Free}], Allocated(g) = Allocated(h) \ D,
         \A a \in Allocated(g) :
            /\ Shaped(g[a]) /\ IsInjective(g[a].kids)
            /\ g[a].parent = h[a].parent
            /\ Members(g, a) = Members(h, a) \ D
  PROVE  Tidy(g, hs \ D)
<1>1. hs \ D \subseteq Allocated(g)
  BY DEF Tidy
<1>2. ASSUME NEW a \in Allocated(g), NEW b \in Members(g, a)
      PROVE  b \in Allocated(g) /\ g[b].parent = a /\ b \notin hs \ D
  <2>1. b \in Members(h, a) /\ b \notin D
    BY <1>2
  <2>2. b \in Allocated(h) /\ h[b].parent = a /\ b \notin hs
    BY <2>1 DEF Tidy
  <2> QED
    BY <2>1, <2>2
<1>3. ASSUME NEW b \in Allocated(g) \ (hs \ D)
      PROVE  g[b].parent \in Allocated(g) /\ b \in Members(g, g[b].parent)
  <2>1. h[b].parent \in Allocated(h) /\ b \in Members(h, h[b].parent)
    BY DEF Tidy
  <2>2. h[b].parent \notin D
    BY <2>1 DEF Closed
  <2> QED
    BY <2>1, <2>2
<1>4. ASSUME NEW S \in SUBSET Allocated(g), hs \ D \subseteq S, Closed(g, S)
      PROVE  S = Allocated(g)
  <2>1. ASSUME NEW a \in S \cup D, NEW b \in Members(h, a) PROVE b \in S \cup D
    <3>1. CASE a \in D
      BY <3>1 DEF Closed
    <3>2. CASE a \in S
      BY <1>4, <3>2 DEF Closed
    <3> QED
      BY <3>1, <3>2
  <2>2. S \cup D \in SUBSET Allocated(h) /\ hs \subseteq S \cup D /\ Closed(h, S \cup D)
    BY <1>4, <2>1 DEF Closed
  <2>3. S \cup D = Allocated(h)
    BY <2>2 DEF Tidy
  <2> QED
    BY <1>4, <2>3
<1> QED
  BY <1>1, <1>2, <1>3, <1>4 DEF Tidy

\* The container at o has taken v, which the caller owned.
LEMMA Attach ==
  ASSUME NEW h, NEW hs, Tidy(h, hs),
         NEW v \in hs, NEW o \in Allocated(h), o \notin Below(h, v),
         NEW g \in [Addrs -> Contents \cup {Free}], Allocated(g) = Allocated(h),
         \A a \in Allocated(g) :
            /\ Shaped(g[a]) /\ IsInjective(g[a].kids)
            /\ g[a].parent = IF a = v THEN o ELSE h[a].parent
            /\ Members(g, a) = IF a = o THEN Members(h, a) \cup {v} ELSE Members(h, a)
  PROVE  Tidy(g, hs \ {v})
<1>1. v \in Allocated(h) /\ hs \ {v} \subseteq Allocated(g)
  BY DEF Tidy
<1>2. ASSUME NEW a \in Allocated(g), NEW b \in Members(g, a)
      PROVE  b \in Allocated(g) /\ g[b].parent = a /\ b \notin hs \ {v}
  <2>1. CASE b = v
    <3>1. a = o
      BY <1>1, <2>1 DEF Tidy
    <3> QED
      BY <1>1, <2>1, <3>1
  <2>2. CASE b # v
    BY <2>2 DEF Tidy
  <2> QED
    BY <2>1, <2>2
<1>3. ASSUME NEW b \in Allocated(g) \ (hs \ {v})
      PROVE  g[b].parent \in Allocated(g) /\ b \in Members(g, g[b].parent)
  <2>1. CASE b = v
    BY <1>1, <2>1
  <2>2. CASE b # v
    BY <2>2 DEF Tidy
  <2> QED
    BY <2>1, <2>2
<1>4. ASSUME NEW S \in SUBSET Allocated(g), hs \ {v} \subseteq S, Closed(g, S)
      PROVE  S = Allocated(g)
  <2> DEFINE B == Below(h, v)
  <2>1. v \in B /\ B \subseteq Allocated(h) /\ Closed(h, B)
    BY <1>1, AllocatedShape, BelowIsClosed
  <2>2. \A a \in S : Members(h, a) \subseteq S
    BY <1>4 DEF Closed
  <2>3. Closed(h, S \cup B)
    BY <2>1, <2>2 DEF Closed
  <2>4. S \cup B = Allocated(h)
    BY <1>4, <2>1, <2>3 DEF Tidy
  <2>5. v \in S
    BY <1>4, <2>4 DEF Closed
  <2>6. Closed(h, S)
    BY <2>2 DEF Closed
  <2> QED
    BY <1>4, <2>5, <2>6 DEF Tidy
<1> QED
  BY <1>1, <1>2, <1>3, <1>4 DEF Tidy


\* What is below v is within any closed set that has v.
LEMMA BelowWithin ==
  ASSUME NEW h, NEW hs, Tidy(h, hs), NEW v \in Allocated(h),
         NEW S \in SUBSET Allocated(h), v \in S, Closed(h, S)
  PROVE  Below(h, v) \subseteq S
BY DEF Below

LEMMA NoMembers ==
  /\ <<>> \in Kids /\ <<>> \in Seq(Addrs) /\ DOMAIN <<>> = {}
  /\ IsInjective(<<>>) /\ Range(<<>>) = {}
<1>1. <<>> \in Seq(Addrs) /\ DOMAIN <<>> = {}
  BY EmptySeq
<1>2. <<>> \in Kids
  BY <1>1 DEF Kids
<1>3. IsInjective(<<>>) /\ Range(<<>>) = {}
  BY <1>1 DEF IsInjective, Range
<1> QED
  BY <1>1, <1>2, <1>3

\* A value malloc has found room for is the caller's at first.
WithNew(h, a, t, p) == [h EXCEPT ![a] = Value(t, p)]

MadeAt(h, hs, a, g) ==
    /\ Tidy(g, hs \cup {a}) /\ Below(g, a) \subseteq {a}
    /\ Allocated(g) = Allocated(h) \cup {a} /\ a \notin hs
    /\ \A b \in Allocated(h) :
          g[b] = h[b] /\ Members(g, b) = Members(h, b) /\ Below(g, b) = Below(h, b)

LEMMA Made ==
  ASSUME NEW h, NEW hs, Tidy(h, hs), NEW a \in Addrs \ Allocated(h),
         NEW t \in {"object", "array", "leaf"}, NEW p \in Addrs \cup {NULL}
  PROVE  MadeAt(h, hs, a, WithNew(h, a, t, p)) /\ WithNew(h, a, t, p)[a] = Value(t, p)
<1> DEFINE g == WithNew(h, a, t, p)
<1>1. Value(t, p) \in Contents /\ Shaped(Value(t, p))
  BY NoMembers DEF Value, Contents, Shaped
<1>2. g \in [Addrs -> Contents \cup {Free}] /\ g[a] = Value(t, p)
      /\ \A b \in Addrs \ {a} : g[b] = h[b]
  BY <1>1 DEF Tidy, WithNew
<1> HIDE DEF g
<1>3. Allocated(g) = Allocated(h) \cup {a} /\ a \notin hs
  BY <1>1, <1>2, JsonTreeAssumption DEF Allocated, Tidy
<1>4. Members(g, a) = {} /\ IsInjective(g[a].kids)
  BY <1>2, NoMembers DEF Members, Value
<1>5. \A b \in Allocated(h) : g[b] = h[b] /\ Members(g, b) = Members(h, b)
  BY <1>2 DEF Allocated, Members
<1>6. ASSUME NEW b \in Allocated(g), NEW c \in Members(g, b)
      PROVE  c \in Allocated(g) /\ g[c].parent = b /\ c \notin hs \cup {a}
  <2>1. b \in Allocated(h) /\ c \in Members(h, b)
    BY <1>3, <1>4, <1>5
  <2>2. c \in Allocated(h) /\ h[c].parent = b /\ c \notin hs
    BY <2>1 DEF Tidy
  <2> QED
    BY <1>3, <1>5, <2>2
<1>7. ASSUME NEW b \in Allocated(g) \ (hs \cup {a})
      PROVE  g[b].parent \in Allocated(g) /\ b \in Members(g, g[b].parent)
  <2>1. b \in Allocated(h) \ hs
    BY <1>3
  <2>2. h[b].parent \in Allocated(h) /\ b \in Members(h, h[b].parent)
    BY <2>1 DEF Tidy
  <2> QED
    BY <1>3, <1>5, <2>1, <2>2
<1>8. ASSUME NEW S \in SUBSET Allocated(g), hs \cup {a} \subseteq S, Closed(g, S)
      PROVE  S = Allocated(g)
  <2>1. \A b \in S \ {a} : Members(h, b) \subseteq S \ {a}
    <3> SUFFICES ASSUME NEW b \in S \ {a}, NEW c \in Members(h, b) PROVE c \in S \ {a}
      OBVIOUS
    <3>1. b \in Allocated(h) /\ c \in Members(g, b)
      BY <1>3, <1>5
    <3>2. c \in Allocated(h)
      BY <3>1 DEF Tidy
    <3> QED
      BY <1>8, <3>1, <3>2 DEF Closed
  <2>2. S \ {a} \in SUBSET Allocated(h) /\ hs \subseteq S \ {a} /\ Closed(h, S \ {a})
    BY <1>3, <1>8, <2>1 DEF Closed
  <2>3. S \ {a} = Allocated(h)
    BY <2>2 DEF Tidy
  <2> QED
    BY <1>3, <1>8, <2>3
<1>9. hs \cup {a} \subseteq Allocated(g)
      /\ \A b \in Allocated(g) : Shaped(g[b]) /\ IsInjective(g[b].kids)
  BY <1>1, <1>2, <1>3, <1>4, <1>5 DEF Tidy
<1>10. Tidy(g, hs \cup {a})
  BY <1>2, <1>6, <1>7, <1>8, <1>9 DEF Tidy
<1>11. Below(g, a) \subseteq {a}
  BY <1>3, <1>4, <1>10, BelowWithin DEF Closed
<1>12. ASSUME NEW b \in Allocated(h) PROVE Below(g, b) = Below(h, b)
  <2>1. /\ b \in Below(h, b) /\ Below(h, b) \subseteq Allocated(h)
        /\ Closed(h, Below(h, b))
    BY AllocatedShape, BelowIsClosed
  <2>2. Closed(g, Below(h, b))
    BY <1>5, <2>1 DEF Closed
  <2>3. Below(g, b) \subseteq Below(h, b)
    BY <1>3, <1>10, <2>1, <2>2, BelowWithin
  <2>4. b \in Below(g, b) /\ Closed(g, Below(g, b))
    BY <1>3, <1>10, AllocatedShape, BelowIsClosed
  <2>5. Below(g, b) \in SUBSET Allocated(h) /\ Closed(h, Below(g, b))
    BY <1>5, <2>1, <2>3, <2>4 DEF Closed
  <2> QED
    BY <2>3, <2>4, <2>5, BelowWithin
<1> QED
  BY <1>2, <1>3, <1>5, <1>10, <1>11, <1>12 DEF MadeAt, g

\* pjson_value_free on a value of the caller's takes no other value of the caller's.
LEMMA FreeHeld ==
  ASSUME NEW h, NEW hs, Tidy(h, hs), NEW v \in hs
  PROVE  /\ Tidy(Freed(h, v), hs \ {v})
         /\ \A b \in hs \ {v} : Freed(h, v)[b] = h[b]
<1> DEFINE D == Below(h, v)
           g == Freed(h, v)
<1>1. v \in Allocated(h) /\ v \in D /\ D \subseteq Allocated(h) /\ Closed(h, D)
  BY AllocatedShape, BelowIsClosed DEF Tidy
<1>2. \A b \in D : b = v \/ (b \notin hs /\ h[b].parent \in D)
  BY <1>1, OwnersBelow
<1>3. g \in [Addrs -> Contents \cup {Free}]
      /\ \A a \in Addrs : g[a] = IF a \in D THEN Free ELSE h[a]
  BY DEF Freed, Tidy
<1>4. Allocated(g) = Allocated(h) \ D
  BY <1>3 DEF Allocated
<1>5. ASSUME NEW a \in Allocated(g)
      PROVE  g[a] = h[a] /\ Members(g, a) = Members(h, a) /\ Members(h, a) \cap D = {}
  <2>1. g[a] = h[a] /\ a \in Allocated(h) /\ a \notin D
    BY <1>3, <1>4 DEF Allocated
  <2>2. \A b \in Members(h, a) : b \notin hs /\ h[b].parent = a
    BY <2>1 DEF Tidy
  <2> QED
    BY <1>2, <2>1, <2>2 DEF Members
<1>6. \A a \in Allocated(g) :
         /\ Shaped(g[a]) /\ IsInjective(g[a].kids)
         /\ g[a].parent = h[a].parent
         /\ Members(g, a) = Members(h, a) \ D
  BY <1>4, <1>5 DEF Tidy
<1>7. Tidy(g, hs \ D)
  <2> HIDE DEF D, g
  <2> QED
    BY <1>1, <1>3, <1>4, <1>6, Prune
<1>8. hs \ D = hs \ {v}
  BY <1>1, <1>2
<1> QED
  BY <1>3, <1>7, <1>8 DEF Tidy, Allocated

\* The container at o gives up the member m, which is freed; K are the members left.
Less(h, o, m, K) == [a \in Addrs |-> IF a = o THEN Filled(h[o], K) ELSE Freed(h, m)[a]]

LEMMA Cut ==
  ASSUME NEW h, NEW hs, Tidy(h, hs),
         NEW o \in Allocated(h), NEW m \in Members(h, o), NEW K,
         Shaped(Filled(h[o], K)), IsInjective(K),
         Range(K) = Members(h, o) \ {m},
         NEW g, g = Less(h, o, m, K)
  PROVE  /\ Tidy(g, hs)
         /\ Allocated(g) = Allocated(h) \ Below(h, m) /\ o \in Allocated(g)
         /\ \A a \in Allocated(g) :
               g[a] = IF a = o THEN Filled(h[o], K) ELSE h[a]
         /\ Members(g, o) = Members(h, o) \ {m}
         /\ \A a \in Allocated(g) \ {o} : Members(g, a) = Members(h, a)
         /\ \A v \in hs : o \notin Below(h, v) => o \notin Below(g, v)
<1> DEFINE D == Below(h, m)
           c == Filled(h[o], K)
<1>1. m \in Allocated(h) /\ m \notin hs /\ h[m].parent = o
  BY DEF Tidy
<1>2. m \in D /\ D \subseteq Allocated(h) /\ Closed(h, D) /\ o \notin D
  BY <1>1, AllocatedShape, BelowIsClosed, NoCycle
<1>3. \A b \in D : b = m \/ (b \notin hs /\ h[b].parent \in D)
  BY <1>1, OwnersBelow
<1>4. o \in Addrs /\ h[o] \in Contents /\ c \in Contents
  BY AllocatedShape DEF Shaped
<1>5. c.kids = K /\ c.parent = h[o].parent /\ c.type = h[o].type
  BY <1>4, FilledOwned
<1>6. g \in [Addrs -> Contents \cup {Free}]
      /\ \A a \in Addrs : g[a] = IF a = o THEN c ELSE IF a \in D THEN Free ELSE h[a]
  BY <1>2, <1>4 DEF Freed, Tidy, Less
<1>7. Allocated(g) = Allocated(h) \ D /\ o \in Allocated(g)
  BY <1>2, <1>4, <1>6, JsonTreeAssumption DEF Allocated
<1>8. Members(g, o) = Members(h, o) \ {m}
  BY <1>4, <1>5, <1>6 DEF Members
<1>9. ASSUME NEW a \in Allocated(g) \ {o}
      PROVE  g[a] = h[a] /\ Members(g, a) = Members(h, a) /\ Members(h, a) \cap D = {}
  <2>1. g[a] = h[a] /\ a \in Allocated(h) /\ a \notin D
    BY <1>6, <1>7 DEF Allocated
  <2>2. \A b \in Members(h, a) : b \notin hs /\ h[b].parent = a
    BY <2>1 DEF Tidy
  <2> QED
    BY <1>1, <1>3, <2>1, <2>2 DEF Members
<1>10. Members(h, o) \cap D = {m}
  <2>1. \A b \in Members(h, o) : h[b].parent = o
    BY DEF Tidy
  <2> QED
    BY <1>2, <1>3, <2>1
<1>11. \A a \in Allocated(g) :
         /\ Shaped(g[a]) /\ IsInjective(g[a].kids)
         /\ g[a].parent = h[a].parent
         /\ Members(g, a) = Members(h, a) \ D
  <2> SUFFICES ASSUME NEW a \in Allocated(g)
               PROVE  /\ Shaped(g[a]) /\ IsInjective(g[a].kids)
                      /\ g[a].parent = h[a].parent
                      /\ Members(g, a) = Members(h, a) \ D
    OBVIOUS
  <2>1. CASE a = o
    BY <1>4, <1>5, <1>6, <1>8, <1>10, <2>1
  <2>2. CASE a # o
    BY <1>7, <1>9, <2>2 DEF Tidy
  <2> QED
    BY <2>1, <2>2
<1>12. Tidy(g, hs)
  <2>1. hs \ D = hs
    BY <1>1, <1>3
  <2>2. Tidy(g, hs \ D)
    <3> HIDE DEF D
    <3> QED
      BY <1>2, <1>6, <1>7, <1>11, Prune
  <2> QED
    BY <2>1, <2>2
<1>13. ASSUME NEW v \in hs, o \notin Below(h, v) PROVE o \notin Below(g, v)
  <2> DEFINE B == Below(h, v) \ D
  <2>1. v \in Allocated(h)
    BY DEF Tidy
  <2>2. v \in Below(h, v) /\ Below(h, v) \subseteq Allocated(h) /\ Closed(h, Below(h, v))
    BY <2>1, AllocatedShape, BelowIsClosed
  <2>3. v \in B /\ B \in SUBSET Allocated(g)
    BY <1>1, <1>3, <1>7, <2>2
  <2>4. Closed(g, B)
    BY <1>9, <1>13, <2>2, <2>3 DEF Closed
  <2> HIDE DEF B
  <2>5. Below(g, v) \subseteq B
    BY <1>12, <2>3, <2>4, BelowWithin
  <2> QED
    BY <1>13, <2>5 DEF B
<1> QED
  BY <1>6, <1>7, <1>8, <1>9, <1>12, <1>13 DEF Allocated

\* What Attach asks for, of a change of the members of o and the parent of v.
LEMMA Given ==
  ASSUME NEW h, NEW hs, Tidy(h, hs),
         NEW v \in hs, NEW o \in Allocated(h), o \notin Below(h, v), NEW K,
         Shaped(Filled(h[o], K)), IsInjective(K),
         Range(K) = Members(h, o) \cup {v},
         NEW g \in [Addrs -> Contents \cup {Free}],
         \A a \in Addrs : g[a] = IF a = o THEN Filled(h[o], K)
                                 ELSE IF a = v THEN Owned(h[v], o) ELSE h[a]
  PROVE  /\ Tidy(g, hs \ {v}) /\ Allocated(g) = Allocated(h)
         /\ \A a \in hs \ {v} : g[a].parent = h[a].parent
<1>1. v \in Allocated(h) /\ v \in Addrs /\ h[v] \in Contents /\ Shaped(h[v])
      /\ IsInjective(h[v].kids)
  BY DEF Tidy, Shaped, Allocated
<1>2. v \in Below(h, v) /\ v # o
  BY <1>1, AllocatedShape, BelowIsClosed
<1>3. o \in Addrs /\ h[o] \in Contents
  BY AllocatedShape
<1>4. g[o] # Free /\ g[o].kids = K /\ g[o].parent = h[o].parent /\ Shaped(g[o])
  <2>1. g[o] = Filled(h[o], K)
    BY <1>3
  <2>2. g[o] \in Contents
    BY <2>1 DEF Shaped
  <2> QED
    BY <1>3, <2>1, <2>2, FilledOwned, JsonTreeAssumption
<1>5. g[v] = Owned(h[v], o)
  BY <1>1, <1>2
<1>6. /\ g[v] \in Contents /\ g[v].kids = h[v].kids /\ g[v].parent = o
      /\ g[v].type = h[v].type
  BY <1>1, <1>3, <1>5, FilledOwned
<1>7. g[v] # Free /\ Shaped(g[v])
  BY <1>1, <1>6, JsonTreeAssumption DEF Shaped
<1>8. Allocated(g) = Allocated(h)
  BY <1>1, <1>2, <1>3, <1>4, <1>7 DEF Allocated
<1>9. ASSUME NEW a \in Allocated(g)
      PROVE  /\ Shaped(g[a]) /\ IsInjective(g[a].kids)
             /\ g[a].parent = IF a = v THEN o ELSE h[a].parent
             /\ Members(g, a) = IF a = o THEN Members(h, a) \cup {v} ELSE Members(h, a)
  <2>1. CASE a = o
    BY <1>2, <1>4, <2>1 DEF Members
  <2>2. CASE a = v
    BY <1>1, <1>2, <1>6, <1>7, <2>2 DEF Members
  <2>3. CASE a # o /\ a # v
    <3>1. g[a] = h[a] /\ a \in Allocated(h)
      BY <1>8, <2>3 DEF Allocated
    <3> QED
      BY <2>3, <3>1 DEF Members, Tidy
  <2> QED
    BY <2>1, <2>2, <2>3
<1>10. Tidy(g, hs \ {v})
  BY <1>8, <1>9, Attach
<1>11. \A a \in hs \ {v} : g[a].parent = h[a].parent
  BY <1>8, <1>9 DEF Tidy
<1> QED
  BY <1>8, <1>10, <1>11

\* The container at o has v in the place of its member m, which is freed.
Swapped(h, o, m, K, v) ==
    [a \in Addrs |-> IF a = o THEN Filled(Freed(h, m)[o], K)
                     ELSE IF a = v THEN Owned(Freed(h, m)[v], o) ELSE Freed(h, m)[a]]

LEMMA Swap ==
  ASSUME NEW h, NEW hs, Tidy(h, hs),
         NEW v \in hs, NEW o \in Allocated(h), o \notin Below(h, v),
         NEW m \in Members(h, o), NEW L, NEW K,
         Shaped(Filled(h[o], L)), IsInjective(L), Range(L) = Members(h, o) \ {m},
         Shaped(Filled(h[o], K)), IsInjective(K), Range(K) = Range(L) \cup {v}
  PROVE  /\ Tidy(Swapped(h, o, m, K, v), hs \ {v})
         /\ \A a \in hs \ {v} : Swapped(h, o, m, K, v)[a].parent = h[a].parent
<1> DEFINE h1 == Less(h, o, m, L)
           g == Swapped(h, o, m, K, v)
           c == Filled(h[o], K)
           d == Owned(h[v], o)
<1> HIDE DEF h1, g
<1>1. h[o] \in Contents
  BY AllocatedShape
<1>2. Filled(h[o], L).kids = L
  BY <1>1, FilledOwned
<1>3. /\ Tidy(h1, hs) /\ o \in Allocated(h1) /\ Allocated(h1) = Allocated(h) \ Below(h, m)
      /\ \A a \in Allocated(h1) : h1[a] = IF a = o THEN Filled(h[o], L) ELSE h[a]
      /\ Members(h1, o) = Range(L)
      /\ o \notin Below(h1, v)
  BY <1>1, <1>2, Cut DEF h1
<1>4. v \in Allocated(h1) /\ h1[v] \in Contents /\ v # o /\ o \in Addrs
  <2>1. v \in Allocated(h1)
    BY <1>3 DEF Tidy
  <2>2. v \in Below(h1, v)
    BY <1>3, <2>1, AllocatedShape, BelowIsClosed
  <2> QED
    BY <1>3, <2>1, <2>2, AllocatedShape
<1>5. h1[v] = h[v] /\ d \in Contents
  BY <1>3, <1>4, FilledOwned
<1>6. Filled(h1[o], K) = c
  BY <1>1, <1>3, FilledTwice
<1>7. /\ h1 \in [Addrs -> Contents \cup {Free}]
      /\ Freed(h, m)[v] = h[v] /\ Freed(h, m)[o] = h[o]
      /\ \A a \in Addrs \ {o} : h1[a] = Freed(h, m)[a]
  BY <1>3, <1>4 DEF h1, Less, Freed, Tidy, Allocated
<1>8. g \in [Addrs -> Contents \cup {Free}]
      /\ \A a \in Addrs : g[a] = IF a = o THEN Filled(h1[o], K)
                                 ELSE IF a = v THEN Owned(h1[v], o) ELSE h1[a]
  BY <1>4, <1>5, <1>6, <1>7 DEF Shaped, g, Swapped
<1>9. Shaped(Filled(h1[o], K))
  BY <1>6
<1>10. /\ Tidy(g, hs \ {v})
       /\ \A a \in hs \ {v} : g[a].parent = h1[a].parent
  BY <1>3, <1>8, <1>9, Given
<1>11. \A a \in hs : h1[a].parent = h[a].parent
  <2>1. \A a \in hs : a \in Allocated(h1)
    BY <1>3 DEF Tidy
  <2>2. Filled(h[o], L).parent = h[o].parent
    BY <1>1, FilledOwned
  <2> QED
    BY <1>3, <2>1, <2>2
<1> QED
  BY <1>10, <1>11 DEF g

-----------------------------------------------------------------------------
(* Objects *)

LEMMA ObjectKids ==
  ASSUME NEW c \in Contents, c.type = "object", NEW S \in SUBSET Names, NEW K \in [S -> Addrs]
  PROVE  /\ Shaped(Filled(c, K)) /\ Filled(c, K).kids = K
         /\ Filled(c, K).type = "object"
         /\ Filled(c, K).parent = c.parent
<1>1. K \in Kids
  BY DEF Kids
<1> QED
  BY <1>1, FilledOwned DEF Shaped

\* The members of an object with v under the name n.
With(K, n, v) == [m \in DOMAIN K \cup {n} |-> IF m = n THEN v ELSE K[m]]

LEMMA ObjectMembers ==
  ASSUME NEW h, NEW hs, Tidy(h, hs), NEW o \in Allocated(h), h[o].type = "object",
         NEW n \in Names
  PROVE  /\ h[o] \in Contents
         /\ Shaped(Filled(h[o], Without(h[o].kids, n)))
         /\ IsInjective(Without(h[o].kids, n))
         /\ n \in DOMAIN h[o].kids =>
               Range(Without(h[o].kids, n)) = Members(h, o) \ {h[o].kids[n]}
         /\ \A v \in hs :
               /\ Shaped(Filled(h[o], With(h[o].kids, n, v)))
               /\ IsInjective(With(h[o].kids, n, v))
               /\ Range(With(h[o].kids, n, v)) = Range(Without(h[o].kids, n)) \cup {v}
               /\ n \notin DOMAIN h[o].kids =>
                     Range(With(h[o].kids, n, v)) = Members(h, o) \cup {v}
<1> DEFINE K == h[o].kids
           S == DOMAIN K
<1>1. /\ h[o] \in Contents /\ S \subseteq Names /\ K \in [S -> Addrs] /\ IsInjective(K)
      /\ Members(h, o) = Range(K)
  BY AllocatedShape DEF Tidy, Shaped, Members
<1>2. \A v \in hs : v \in Addrs /\ v \notin Range(K)
  BY DEF Tidy, Members, Allocated
<1> HIDE DEF K
<1>3. /\ Without(K, n) \in [S \ {n} -> Addrs] /\ IsInjective(Without(K, n))
      /\ n \in S => Range(Without(K, n)) = Range(K) \ {K[n]}
  BY <1>1 DEF Without, IsInjective, Range
<1>4. \A v \in hs :
         /\ With(K, n, v) \in [S \cup {n} -> Addrs] /\ IsInjective(With(K, n, v))
         /\ Range(With(K, n, v)) = Range(Without(K, n)) \cup {v}
         /\ n \notin S => Range(With(K, n, v)) = Range(K) \cup {v}
  <2> SUFFICES ASSUME NEW v \in hs
               PROVE  /\ With(K, n, v) \in [S \cup {n} -> Addrs]
                      /\ IsInjective(With(K, n, v))
                      /\ Range(With(K, n, v)) = Range(Without(K, n)) \cup {v}
                      /\ n \notin S => Range(With(K, n, v)) = Range(K) \cup {v}
    OBVIOUS
  <2>1. v \in Addrs /\ \A m \in S : K[m] # v
    BY <1>2 DEF Range
  <2>2. With(K, n, v) \in [S \cup {n} -> Addrs]
    BY <1>1, <2>1 DEF With
  <2>3. IsInjective(With(K, n, v))
    BY <1>1, <2>1 DEF With, IsInjective
  <2>4. Range(With(K, n, v)) = Range(Without(K, n)) \cup {v}
    <3>1. /\ \A m \in S \ {n} : With(K, n, v)[m] = K[m] /\ Without(K, n)[m] = K[m]
          /\ With(K, n, v)[n] = v /\ DOMAIN With(K, n, v) = (S \ {n}) \cup {n}
          /\ DOMAIN Without(K, n) = S \ {n}
      BY DEF With, Without
    <3> QED
      BY <3>1 DEF Range
  <2>5. n \notin S => Range(With(K, n, v)) = Range(K) \cup {v}
    BY DEF With, Range
  <2> QED
    BY <2>2, <2>3, <2>4, <2>5
<1>5. Shaped(Filled(h[o], Without(K, n)))
  BY <1>1, <1>3, ObjectKids
<1>6. \A v \in hs : Shaped(Filled(h[o], With(K, n, v)))
  BY <1>1, <1>4, ObjectKids
<1> QED
  BY <1>1, <1>3, <1>4, <1>5, <1>6 DEF K

\* pjson_object_set_value with a new name.
MayAdd(h, hs, o, n, v) ==
    /\ MayTake(h, hs, o, v) /\ h[o].type = "object"
    /\ n \in Names /\ n \notin DOMAIN h[o].kids

\* Nothing but o's members and v's parent has changed.
Added(h, o, n, v, g) ==
    /\ Allocated(g) = Allocated(h)
    /\ g[o].kids = With(h[o].kids, n, v) /\ g[v].kids = h[v].kids
    /\ \A a \in Allocated(h) \ {o, v} : g[a] = h[a]

LEMMA PutNew ==
  ASSUME NEW h, NEW hs, NEW o, NEW n, NEW v, MayAdd(h, hs, o, n, v)
  PROVE  /\ Tidy(Put(h, o, n, v), hs \ {v})
         /\ Keeps(h, Put(h, o, n, v), hs \ {v})
         /\ Added(h, o, n, v, Put(h, o, n, v))
<1>1. /\ Tidy(h, hs) /\ v \in hs /\ o \in Allocated(h) /\ o \notin Below(h, v)
      /\ h[o].type = "object" /\ n \in Names /\ n \notin DOMAIN h[o].kids
  BY DEF MayAdd, MayTake
<1> USE <1>1
<1> DEFINE K == With(h[o].kids, n, v)
           g == Put(h, o, n, v)
           c == Filled(h[o], K)
           d == Owned(h[v], o)
<1>2. h[o] \in Contents
  BY ObjectMembers
<1>3. Shaped(c) /\ IsInjective(K) /\ Range(K) = Members(h, o) \cup {v}
  BY ObjectMembers
<1>4. c.kids = K
  BY <1>2, FilledOwned
<1>5. v \in Allocated(h) /\ h[v] \in Contents /\ v # o /\ o \in Addrs
  <2>1. v \in Allocated(h)
    BY DEF Tidy
  <2> QED
    BY <2>1, AllocatedShape, BelowIsClosed
<1>6. d \in Contents /\ d.kids = h[v].kids
  BY <1>5, FilledOwned
<1>7. g = [h EXCEPT ![o].kids = K, ![v].parent = o]
  BY DEF Put, With
<1> HIDE DEF K, g
<1>8. g \in [Addrs -> Contents \cup {Free}]
      /\ \A a \in Addrs : g[a] = IF a = o THEN c ELSE IF a = v THEN d ELSE h[a]
  BY <1>3, <1>5, <1>6, <1>7 DEF Tidy, Shaped, Filled, Owned
<1>9. /\ Tidy(g, hs \ {v}) /\ Allocated(g) = Allocated(h)
      /\ \A a \in hs \ {v} : g[a].parent = h[a].parent
  <2> HIDE DEF K, g, c, d
  <2>1. Shaped(Filled(h[o], K)) /\ IsInjective(K) /\ Range(K) = Members(h, o) \cup {v}
    BY <1>3 DEF c
  <2>2. g \in [Addrs -> Contents \cup {Free}]
    BY <1>8
  <2>3. \A a \in Addrs : g[a] = IF a = o THEN Filled(h[o], K)
                                 ELSE IF a = v THEN Owned(h[v], o) ELSE h[a]
    BY <1>8 DEF c, d
  <2> QED
    BY <2>1, <2>2, <2>3, Given
<1> QED
  BY <1>4, <1>5, <1>6, <1>8, <1>9 DEF g, K, Allocated, Keeps, Added

\* With a name that has a value: it is freed.
LEMMA PutOld ==
  ASSUME NEW h, NEW hs, NEW o, NEW v, MayTake(h, hs, o, v), h[o].type = "object",
         NEW n \in DOMAIN h[o].kids
  PROVE  /\ Tidy(Put(h, o, n, v), hs \ {v})
         /\ Keeps(h, Put(h, o, n, v), hs \ {v})
<1>1. Tidy(h, hs) /\ v \in hs /\ o \in Allocated(h) /\ o \notin Below(h, v)
  BY DEF MayTake
<1> USE <1>1
<1> DEFINE m == h[o].kids[n]
           L == Without(h[o].kids, n)
           K == With(h[o].kids, n, v)
<1>2. n \in Names /\ m \in Members(h, o)
  BY AllocatedShape DEF Tidy, Shaped, Members, Range
<1>3. /\ Shaped(Filled(h[o], L)) /\ IsInjective(L) /\ Range(L) = Members(h, o) \ {m}
      /\ Shaped(Filled(h[o], K)) /\ IsInjective(K) /\ Range(K) = Range(L) \cup {v}
  BY <1>2, ObjectMembers
<1>4. o # v
  BY AllocatedShape, BelowIsClosed DEF Tidy
<1>5. Put(h, o, n, v) = Swapped(h, o, m, K, v)
  <2>1. Put(h, o, n, v) = [Freed(h, m) EXCEPT ![o].kids = K, ![v].parent = o]
    BY DEF Put, With
  <2> HIDE DEF K, m
  <2> QED
    BY <1>4, <2>1 DEF Swapped, Freed, Filled, Owned
<1> HIDE DEF m, L, K
<1>6. /\ Tidy(Swapped(h, o, m, K, v), hs \ {v})
      /\ \A a \in hs \ {v} : Swapped(h, o, m, K, v)[a].parent = h[a].parent
  BY <1>2, <1>3, Swap
<1> QED
  BY <1>5, <1>6 DEF Keeps

-----------------------------------------------------------------------------
(* Arrays *)

\* A sequence without its i-th element.
Removed(s, i) == SubSeq(s, 1, i - 1) \o SubSeq(s, i + 1, Len(s))

LEMMA Removal ==
  ASSUME NEW S, NEW s \in Seq(S), NEW i \in 1 .. Len(s)
  PROVE  /\ Removed(s, i) \in Seq(S)
         /\ Len(Removed(s, i)) = Len(s) - 1
         /\ \A j \in 1 .. Len(s) - 1 : Removed(s, i)[j] = IF j < i THEN s[j] ELSE s[j + 1]
<1>1. Len(s) \in Nat /\ i \in Nat
  BY LenProperties
<1>2. /\ SubSeq(s, 1, i - 1) \in Seq(S) /\ SubSeq(s, i + 1, Len(s)) \in Seq(S)
      /\ Len(SubSeq(s, 1, i - 1)) = i - 1 /\ Len(SubSeq(s, i + 1, Len(s))) = Len(s) - i
  BY <1>1
<1> DEFINE a == SubSeq(s, 1, i - 1)
           b == SubSeq(s, i + 1, Len(s))
<1>3. /\ \A j \in 1 .. i - 1 : a[j] = s[j]
      /\ \A j \in 1 .. Len(s) - i : b[j] = s[i + j]
  BY <1>1, SubSeqProperties
<1>4. Removed(s, i) = a \o b
  BY DEF Removed
<1> HIDE DEF a, b
<1>5. /\ a \o b \in Seq(S) /\ Len(a \o b) = Len(a) + Len(b)
      /\ \A j \in 1 .. Len(a) + Len(b) :
            (a \o b)[j] = IF j <= Len(a) THEN a[j] ELSE b[j - Len(a)]
  BY <1>2, ConcatProperties DEF a, b
<1>6. Len(a) = i - 1 /\ Len(b) = Len(s) - i
  BY <1>2 DEF a, b
<1>7. ASSUME NEW j \in 1 .. Len(s) - 1
      PROVE  (a \o b)[j] = IF j < i THEN s[j] ELSE s[j + 1]
  <2>1. CASE j < i
    BY <1>1, <1>3, <1>5, <1>6, <2>1
  <2>2. CASE ~(j < i)
    <3>1. j - (i - 1) \in 1 .. Len(s) - i /\ i + (j - (i - 1)) = j + 1
      BY <1>1, <2>2
    <3>2. (a \o b)[j] = b[j - (i - 1)]
      BY <1>1, <1>5, <1>6, <2>2
    <3> QED
      BY <1>3, <2>2, <3>1, <3>2
  <2> QED
    BY <2>1, <2>2
<1>8. Removed(s, i) \in Seq(S) /\ Len(Removed(s, i)) = Len(s) - 1
  BY <1>1, <1>4, <1>5, <1>6
<1>9. \A j \in 1 .. Len(s) - 1 : Removed(s, i)[j] = IF j < i THEN s[j] ELSE s[j + 1]
  BY <1>4, <1>7
<1> QED
  BY <1>8, <1>9

LEMMA ArrayKids ==
  ASSUME NEW c \in Contents, c.type = "array", NEW K \in Seq(Addrs)
  PROVE  Shaped(Filled(c, K))
<1>1. K \in Kids
  BY DEF Kids
<1> QED
  BY <1>1, FilledOwned DEF Shaped

LEMMA ArrayMembers ==
  ASSUME NEW h, NEW hs, Tidy(h, hs), NEW r \in Allocated(h), h[r].type = "array"
  PROVE  /\ h[r] \in Contents /\ h[r].kids \in Seq(Addrs)
         /\ \A i \in 1 .. Len(h[r].kids) :
               /\ h[r].kids[i] \in Members(h, r)
               /\ Shaped(Filled(h[r], Removed(h[r].kids, i)))
               /\ IsInjective(Removed(h[r].kids, i))
               /\ Range(Removed(h[r].kids, i)) = Members(h, r) \ {h[r].kids[i]}
         /\ \A v \in hs :
               /\ Shaped(Filled(h[r], Append(h[r].kids, v)))
               /\ IsInjective(Append(h[r].kids, v))
               /\ Range(Append(h[r].kids, v)) = Members(h, r) \cup {v}
<1> DEFINE K == h[r].kids
<1>1. /\ h[r] \in Contents /\ K \in Seq(Addrs) /\ IsInjective(K) /\ Members(h, r) = Range(K)
  BY AllocatedShape DEF Tidy, Shaped, Members
<1>2. \A v \in hs : v \in Addrs /\ v \notin Range(K)
  BY DEF Tidy, Members, Allocated
<1> HIDE DEF K
<1>3. Len(K) \in Nat /\ DOMAIN K = 1 .. Len(K)
  BY <1>1, LenProperties
<1>4. ASSUME NEW i \in 1 .. Len(K)
      PROVE  /\ K[i] \in Range(K) /\ Removed(K, i) \in Seq(Addrs)
             /\ IsInjective(Removed(K, i)) /\ Range(Removed(K, i)) = Range(K) \ {K[i]}
  <2> DEFINE R == Removed(K, i)
  <2>1. /\ R \in Seq(Addrs) /\ Len(R) = Len(K) - 1
        /\ \A j \in 1 .. Len(K) - 1 : R[j] = IF j < i THEN K[j] ELSE K[j + 1]
    BY <1>1, Removal
  <2>2. DOMAIN R = 1 .. Len(K) - 1
    BY <1>3, <2>1, LenProperties
  <2> HIDE DEF R
  <2>3. IsInjective(R)
    <3> SUFFICES ASSUME NEW j \in DOMAIN R, NEW k \in DOMAIN R, R[j] = R[k] PROVE j = k
      BY DEF IsInjective
    <3>1. \A m \in DOMAIN K, n \in DOMAIN K : K[m] = K[n] => m = n
      BY <1>1 DEF IsInjective
    <3> QED
      BY <1>3, <2>1, <2>2, <3>1
  <2>4. Range(R) \subseteq Range(K) \ {K[i]}
    BY <1>1, <1>3, <2>1, <2>2 DEF IsInjective, Range
  <2>5. ASSUME NEW j \in DOMAIN K, j # i PROVE K[j] \in Range(R)
    <3>1. CASE j < i
      <4>1. j \in DOMAIN R /\ R[j] = K[j]
        BY <1>3, <2>1, <2>2, <3>1
      <4> QED
        BY <4>1 DEF Range
    <3>2. CASE j > i
      <4>1. j - 1 \in DOMAIN R /\ R[j - 1] = K[j]
        BY <1>3, <2>1, <2>2, <3>2
      <4> QED
        BY <4>1 DEF Range
    <3> QED
      BY <1>3, <2>5, <3>1, <3>2
  <2>6. Range(K) \ {K[i]} \subseteq Range(R)
    BY <2>5 DEF Range
  <2> QED
    BY <1>3, <2>1, <2>3, <2>4, <2>6 DEF R, Range
<1>5. ASSUME NEW v \in hs
      PROVE  /\ Append(K, v) \in Seq(Addrs)
             /\ IsInjective(Append(K, v)) /\ Range(Append(K, v)) = Range(K) \cup {v}
  <2>1. /\ v \in Addrs /\ Append(K, v) \in Seq(Addrs)
        /\ DOMAIN Append(K, v) = 1 .. Len(K) + 1 /\ Append(K, v)[Len(K) + 1] = v
        /\ \A j \in 1 .. Len(K) : Append(K, v)[j] = K[j]
    BY <1>1, <1>2, <1>3, AppendProperties
  <2>2. 1 .. Len(K) + 1 = (1 .. Len(K)) \cup {Len(K) + 1}
    BY <1>3
  <2>3. \A j \in 1 .. Len(K) : K[j] # v
    BY <1>2, <1>3 DEF Range
  <2>4. IsInjective(Append(K, v))
    BY <1>1, <1>3, <2>1, <2>2, <2>3 DEF IsInjective
  <2>5. Range(Append(K, v)) = Range(K) \cup {v}
    BY <1>3, <2>1, <2>2 DEF Range
  <2> QED
    BY <2>1, <2>4, <2>5
<1>6. \A i \in 1 .. Len(K) : Shaped(Filled(h[r], Removed(K, i)))
  BY <1>1, <1>4, ArrayKids
<1>7. \A v \in hs : Shaped(Filled(h[r], Append(K, v)))
  BY <1>1, <1>5, ArrayKids
<1> QED
  BY <1>1, <1>4, <1>5, <1>6, <1>7 DEF K

\* pjson_array_add takes a value of the caller's.
LEMMA TakeTidy ==
  ASSUME NEW h, NEW hs, NEW r, NEW v, MayTake(h, hs, r, v), h[r].type = "array"
  PROVE  /\ Tidy(Take(h, r, v), hs \ {v})
         /\ Keeps(h, Take(h, r, v), hs \ {v})
<1>1. Tidy(h, hs) /\ v \in hs /\ r \in Allocated(h) /\ r \notin Below(h, v)
  BY DEF MayTake
<1> USE <1>1
<1> DEFINE K == Append(h[r].kids, v)
           g == Take(h, r, v)
<1>2. Shaped(Filled(h[r], K)) /\ IsInjective(K) /\ Range(K) = Members(h, r) \cup {v}
  BY ArrayMembers
<1>3. v \in Allocated(h) /\ h[v] \in Contents /\ v # r /\ r \in Addrs
  <2>1. v \in Allocated(h)
    BY DEF Tidy
  <2> QED
    BY <2>1, AllocatedShape, BelowIsClosed
<1>4. Owned(h[v], r) \in Contents
  BY <1>3, FilledOwned
<1>5. g = [h EXCEPT ![r].kids = K, ![v].parent = r]
  BY DEF Take
<1> HIDE DEF K, g
<1>6. g \in [Addrs -> Contents \cup {Free}]
      /\ \A a \in Addrs : g[a] = IF a = r THEN Filled(h[r], K)
                                 ELSE IF a = v THEN Owned(h[v], r) ELSE h[a]
  BY <1>2, <1>3, <1>4, <1>5 DEF Tidy, Shaped, Filled, Owned
<1> QED
  BY <1>2, <1>6, Given DEF g, Keeps

\* The members of an array with v in the place of the i-th.
Replaced(K, i, v) == [K EXCEPT ![i] = v]

LEMMA ReplacedMembers ==
  ASSUME NEW h, NEW hs, Tidy(h, hs), NEW r \in Allocated(h), h[r].type = "array",
         NEW i \in 1 .. Len(h[r].kids), NEW v \in hs
  PROVE  /\ Shaped(Filled(h[r], Replaced(h[r].kids, i, v)))
         /\ IsInjective(Replaced(h[r].kids, i, v))
         /\ Range(Replaced(h[r].kids, i, v)) = (Members(h, r) \ {h[r].kids[i]}) \cup {v}
<1> DEFINE K == h[r].kids
           R == Replaced(K, i, v)
<1>1. /\ h[r] \in Contents /\ K \in Seq(Addrs) /\ IsInjective(K) /\ Members(h, r) = Range(K)
      /\ v \in Addrs /\ v \notin Range(K)
  BY AllocatedShape DEF Tidy, Shaped, Members, Allocated
<1>2. i \in DOMAIN K
  BY <1>1, LenProperties
<1>3. R \in Seq(Addrs)
  BY <1>1, <1>2, ExceptSeq DEF Replaced
<1>4. /\ DOMAIN R = DOMAIN K /\ R[i] = v
      /\ \A j \in DOMAIN K : j # i => R[j] = K[j]
  BY <1>2 DEF Replaced
<1> HIDE DEF K, R
<1>5. \A j \in DOMAIN K : K[j] # v
  BY <1>1 DEF Range
<1>6. IsInjective(R)
  BY <1>1, <1>2, <1>4, <1>5 DEF IsInjective
<1>7. Range(R) = (Range(K) \ {K[i]}) \cup {v}
  BY <1>1, <1>2, <1>4 DEF IsInjective, Range
<1>8. Shaped(Filled(h[r], R))
  BY <1>1, <1>3, ArrayKids
<1> QED
  BY <1>1, <1>6, <1>7, <1>8 DEF K, R

\* pjson_array_replace_value: the value of the index is freed.
LEMMA ReplaceTidy ==
  ASSUME NEW h, NEW hs, NEW r, NEW v, MayTake(h, hs, r, v), h[r].type = "array",
         NEW i \in 1 .. Len(h[r].kids)
  PROVE  LET g == Swapped(h, r, h[r].kids[i], Replaced(h[r].kids, i, v), v)
         IN  Tidy(g, hs \ {v}) /\ Keeps(h, g, hs \ {v})
<1>1. Tidy(h, hs) /\ v \in hs /\ r \in Allocated(h) /\ r \notin Below(h, v)
  BY DEF MayTake
<1> USE <1>1
<1> DEFINE m == h[r].kids[i]
           L == Removed(h[r].kids, i)
           K == Replaced(h[r].kids, i, v)
<1>2. /\ m \in Members(h, r)
      /\ Shaped(Filled(h[r], L)) /\ IsInjective(L) /\ Range(L) = Members(h, r) \ {m}
  BY ArrayMembers
<1>3. Shaped(Filled(h[r], K)) /\ IsInjective(K) /\ Range(K) = Range(L) \cup {v}
  BY <1>2, ReplacedMembers
<1> HIDE DEF m, L, K
<1>4. /\ Tidy(Swapped(h, r, m, K, v), hs \ {v})
      /\ \A a \in hs \ {v} : Swapped(h, r, m, K, v)[a].parent = h[a].parent
  BY <1>2, <1>3, Swap
<1> QED
  BY <1>4 DEF m, K, Keeps

-----------------------------------------------------------------------------
(* Clear, the dotted names and the copy *)

\* pjson_object_clear and pjson_array_clear.
LEMMA EmptiedTidy ==
  ASSUME NEW h, NEW hs, Tidy(h, hs), NEW c \in Allocated(h),
         NEW t \in {"array", "cleared"},
         NEW g, g = [a \in Addrs |-> IF a = c THEN [h[c] EXCEPT !.type = t, !.kids = <<>>]
                                     ELSE Freed(h, c)[a]]
  PROVE  Tidy(g, hs) /\ Keeps(h, g, hs)
<1> DEFINE B == Below(h, c)
           D == B \ {c}
           e == [h[c] EXCEPT !.type = t, !.kids = <<>>]
<1>1. c \in B /\ B \subseteq Allocated(h) /\ Closed(h, B)
  BY AllocatedShape, BelowIsClosed
<1>2. \A b \in B : b = c \/ (b \notin hs /\ h[b].parent \in B)
  BY OwnersBelow
<1>3. \A b \in B : c \notin Members(h, b)
  BY <1>1, NoCycle
<1>4. c \in Addrs /\ h[c] \in Contents
  BY AllocatedShape
<1>5. e \in Contents /\ e.kids = <<>> /\ e.type = t /\ e.parent = h[c].parent
  BY <1>4, NoMembers DEF Contents
<1>6. Shaped(e) /\ IsInjective(e.kids) /\ Range(e.kids) = {}
  BY <1>5, NoMembers DEF Shaped
<1> HIDE DEF e
<1>7. g \in [Addrs -> Contents \cup {Free}]
      /\ \A a \in Addrs : g[a] = IF a = c THEN e ELSE IF a \in B THEN Free ELSE h[a]
  BY <1>5 DEF Freed, Tidy, e
<1> HIDE DEF B
<1>8. Allocated(g) = Allocated(h) \ D
  BY <1>1, <1>4, <1>5, <1>7, JsonTreeAssumption DEF Allocated
<1>9. Closed(h, D)
  BY <1>1, <1>3 DEF Closed
<1>10. ASSUME NEW a \in Allocated(g)
       PROVE  /\ Shaped(g[a]) /\ IsInjective(g[a].kids)
              /\ g[a].parent = h[a].parent
              /\ Members(g, a) = Members(h, a) \ D
  <2>1. CASE a = c
    <3>1. Members(h, c) \subseteq D
      BY <1>1, <1>3 DEF Closed
    <3> QED
      BY <1>4, <1>5, <1>6, <1>7, <2>1, <3>1 DEF Members
  <2>2. CASE a # c
    <3>1. a \in Allocated(h) /\ a \notin B /\ g[a] = h[a]
      BY <1>7, <1>8, <2>2 DEF Allocated
    <3>2. \A b \in Members(h, a) : h[b].parent = a /\ b \notin D
      BY <1>2, <3>1 DEF Tidy
    <3> QED
      BY <3>1, <3>2 DEF Members, Tidy
  <2> QED
    BY <2>1, <2>2
<1>11. hs \ D = hs
  BY <1>2
<1>12. Tidy(g, hs \ D)
  <2> HIDE DEF D
  <2>1. D \in SUBSET Allocated(h)
    BY <1>1 DEF D
  <2> QED
    BY <1>7, <1>8, <1>9, <1>10, <2>1, Prune
<1> QED
  BY <1>10, <1>11, <1>12 DEF Tidy, Keeps

\* An object made for a dotted name takes v and is taken by o.
LEMMA DotPut ==
  ASSUME NEW h, NEW hs, Tidy(h, hs), NEW a \in hs, NEW v \in hs, a # v,
         h[a].type = "object", DOMAIN h[a].kids = {}, a \notin Below(h, v),
         NEW o \in Allocated(h), h[o].type = "object", o # a, o \notin Below(h, v),
         NEW m \in Names, NEW n \in Names, n \notin DOMAIN h[o].kids,
         NEW g, g = Put(Put(h, a, m, v), o, n, a)
  PROVE  Tidy(g, hs \ {v, a}) /\ Keeps(h, g, hs \ {v, a})
<1> DEFINE h2 == Put(h, a, m, v)
           B == Below(h, v)
<1>1. a \in Allocated(h) /\ v \in Allocated(h)
  BY DEF Tidy
<1>2. v \in B /\ B \subseteq Allocated(h) /\ Closed(h, B)
  BY <1>1, AllocatedShape, BelowIsClosed
<1>3. m \notin DOMAIN h[a].kids
  OBVIOUS
<1>4. Tidy(h2, hs \ {v}) /\ Keeps(h, h2, hs \ {v}) /\ Added(h, a, m, v, h2)
  <2>1. MayAdd(h, hs, a, m, v)
    BY <1>1, <1>3 DEF MayAdd, MayTake
  <2> QED
    BY <2>1, PutNew
<1>5. Members(h2, a) = {v}
  BY <1>4 DEF Added, With, Members, Range
<1>6. \A b \in B : Members(h2, b) = Members(h, b)
  BY <1>2, <1>4 DEF Added, Members
<1>7. Closed(h2, B \cup {a})
  BY <1>2, <1>5, <1>6 DEF Closed
<1>8. Below(h2, a) \subseteq B \cup {a}
  <2>1. B \cup {a} \in SUBSET Allocated(h2) /\ a \in B \cup {a} /\ a \in Allocated(h2)
    BY <1>1, <1>2, <1>4 DEF Added
  <2> HIDE DEF B, h2
  <2> QED
    BY <1>4, <1>7, <2>1, BelowWithin
<1>9. o \notin Below(h2, a) /\ o \in Allocated(h2) /\ h2[o] = h[o]
  BY <1>2, <1>4, <1>8 DEF Added
<1>10. a \in hs \ {v}
  OBVIOUS
<1>11. /\ Tidy(g, (hs \ {v}) \ {a})
       /\ Keeps(h2, g, (hs \ {v}) \ {a})
  <2> DEFINE hs2 == hs \ {v}
  <2>1. MayAdd(h2, hs2, o, n, a)
    BY <1>4, <1>9, <1>10 DEF MayAdd, MayTake
  <2>2. g = Put(h2, o, n, a)
    OBVIOUS
  <2> HIDE DEF h2, B, hs2
  <2>3. Tidy(g, hs2 \ {a}) /\ Keeps(h2, g, hs2 \ {a})
    BY <2>1, <2>2, PutNew
  <2> QED
    BY <2>3 DEF hs2
<1> QED
  <2>1. (hs \ {v}) \ {a} = hs \ {v, a}
    OBVIOUS
  <2> QED
    BY <1>4, <1>11, <2>1 DEF Keeps

-----------------------------------------------------------------------------
(* The calls *)

LEMMA PutTidy ==
  ASSUME NEW h, NEW hs, NEW o, NEW v, MayTake(h, hs, o, v), h[o].type = "object",
         NEW n \in Names
  PROVE  Tidy(Put(h, o, n, v), hs \ {v}) /\ Keeps(h, Put(h, o, n, v), hs \ {v})
<1>1. CASE n \in DOMAIN h[o].kids
  BY <1>1, PutOld
<1>2. CASE n \notin DOMAIN h[o].kids
  <2>1. MayAdd(h, hs, o, n, v)
    BY <1>2 DEF MayAdd
  <2> QED
    BY <2>1, PutNew
<1> QED
  BY <1>1, <1>2

LEMMA NewAddrIsFree ==
  ASSUME NEW S, Fresh \ S # {}
  PROVE  NewAddr(S) \in Addrs \ Live /\ NewAddr(S) \notin S
BY DEF NewAddr, Fresh

LEMMA SucceedStep ==
  ASSUME IInv, frames = <<>>, NEW g, NEW hs, Succeed(g, hs), Tidy(g, hs),
         \A v \in hs : g[v].parent = NULL \/ (v \in held /\ g[v].parent = heap[v].parent)
  PROVE  IInv'
BY DEF IInv, Succeed, Returns, Parents

LEMMA FailStep ==
  ASSUME IInv, frames = <<>>, FailWith(heap)
  PROVE  IInv'
<1> USE DEF FailWith, Returns
<1>1. UNCHANGED <<heap, held, orphaned, frames>> /\ status' = "failure"
  OBVIOUS
<1>2. Tidy(heap, held)' /\ Parents(heap, held, orphaned)'
  BY <1>1 DEF IInv
<1> QED
  BY <1>1, <1>2 DEF IInv

\* What has just been made is freed: nothing is left of it.
LEMMA FreedMade ==
  ASSUME NEW h \in [Addrs -> Contents \cup {Free}], NEW a \in Addrs \ Allocated(h),
         NEW c \in Contents, Range(c.kids) = {}
  PROVE  Freed([h EXCEPT ![a] = c], a) = h
<1> DEFINE g == [h EXCEPT ![a] = c]
<1>1. g \in [Addrs -> Contents \cup {Free}] /\ g[a] = c /\ h[a] = Free
      /\ \A b \in Addrs \ {a} : g[b] = h[b]
  BY DEF Allocated
<1>2. a \in Allocated(g) /\ Members(g, a) = {}
  BY <1>1, JsonTreeAssumption DEF Allocated, Members
<1> HIDE DEF g
<1>3. Below(g, a) = {a}
  BY <1>2 DEF Below, Closed
<1> QED
  BY <1>1, <1>3 DEF Freed, g

LEMMA NewIsEmpty ==
  ASSUME NEW t \in {"object", "array", "leaf"}, NEW p \in Addrs \cup {NULL}
  PROVE  Value(t, p) \in Contents /\ Range(Value(t, p).kids) = {}
BY NoMembers DEF Value, Contents

LEMMA HalfMade ==
  ASSUME IInv, frames = <<>>, NEW t \in {"object", "array", "leaf"}, Fresh # {},
         FailWith(Freed([heap EXCEPT ![NewAddr({})] = Value(t, NULL)], NewAddr({})))
  PROVE  IInv' /\ FailWith(heap)
<1> DEFINE a == NewAddr({})
<1>1. a \in Addrs \ Allocated(heap)
  BY NewAddrIsFree DEF Live
<1>2. Value(t, NULL) \in Contents /\ Range(Value(t, NULL).kids) = {}
  BY NewIsEmpty
<1>3. heap \in [Addrs -> Contents \cup {Free}]
  BY DEF IInv, Tidy
<1> HIDE DEF a
<1>4. Freed([heap EXCEPT ![a] = Value(t, NULL)], a) = heap
  BY <1>1, <1>2, <1>3, FreedMade
<1>5. FailWith(heap)
  BY <1>4 DEF a
<1> QED
  BY <1>5, FailStep

\* A value without a parent is the caller's.
LEMMA Unowned ==
  ASSUME IInv, frames = <<>>, NEW v \in Live, heap[v].parent = NULL
  PROVE  v \in held
BY JsonTreeAssumption DEF IInv, Tidy, Live, Allocated

LEMMA NewStep ==
  ASSUME IInv, frames = <<>>, NEW t \in {"object", "array", "leaf"}, New(t)
  PROVE  IInv'
<1>1. CASE Fail
  BY <1>1, FailStep DEF Fail
<1>2. ASSUME NEW a, a = NewAddr({}), Fresh # {},
             Succeed([heap EXCEPT ![a] = Value(t, NULL)], held \cup {a})
      PROVE  IInv'
  <2> DEFINE g == WithNew(heap, a, t, NULL)
  <2>1. a \in Addrs \ Allocated(heap) /\ Tidy(heap, held)
    BY <1>2, NewAddrIsFree DEF Live, IInv
  <2>2. MadeAt(heap, held, a, g) /\ g[a] = Value(t, NULL)
    BY <2>1, Made
  <2>3. \A v \in held \cup {a} :
           g[v].parent = NULL \/ (v \in held /\ g[v].parent = heap[v].parent)
    BY <2>1, <2>2 DEF MadeAt, Tidy, Value
  <2>4. Succeed(g, held \cup {a})
    BY <1>2 DEF WithNew
  <2>5. Tidy(g, held \cup {a})
    BY <2>2 DEF MadeAt
  <2> HIDE DEF g
  <2> QED
    BY <2>3, <2>4, <2>5, SucceedStep
<1> QED
  BY <1>1, <1>2 DEF New

LEMMA FreeStep ==
  ASSUME IInv, frames = <<>>, NEW v \in held, ValueFree(v)
  PROVE  IInv'
<1>1. Tidy(Freed(heap, v), held \ {v}) /\ \A b \in held \ {v} : Freed(heap, v)[b] = heap[b]
  BY FreeHeld DEF IInv
<1> QED
  BY <1>1, SucceedStep DEF ValueFree

\* What a container takes leaves the caller, and nothing else does.
LEMMA TakenStep ==
  ASSUME IInv, frames = <<>>, NEW v, NEW g, Succeed(g, held \ {v}),
         Tidy(g, held \ {v}), Keeps(heap, g, held \ {v})
  PROVE  IInv'
BY SucceedStep DEF Keeps

LEMMA SetStep ==
  ASSUME IInv, frames = <<>>, NEW o \in Type("object"), NEW n \in Names, NEW v \in Live,
         Set(o, n, v)
  PROVE  IInv'
<1>1. CASE Fail
  BY <1>1, FailStep DEF Fail
<1>2. CASE heap[v].parent = NULL /\ NotBelow(o, v) /\ Succeed(Put(heap, o, n, v), held \ {v})
  <2>1. MayTake(heap, held, o, v) /\ heap[o].type = "object"
    BY <1>2, Unowned DEF MayTake, IInv, Type, Live, NotBelow
  <2>2. Tidy(Put(heap, o, n, v), held \ {v}) /\ Keeps(heap, Put(heap, o, n, v), held \ {v})
    BY <2>1, PutTidy
  <2> QED
    BY <1>2, <2>2, TakenStep
<1> QED
  BY <1>1, <1>2 DEF Set

\* A leaf that is made for a container.
LEMMA LeafMade ==
  ASSUME IInv, frames = <<>>, NEW a \in Addrs \ Live, NEW o \in Live,
         NEW p \in Addrs \cup {NULL}, NEW h, h = WithNew(heap, a, "leaf", p)
  PROVE  /\ MayTake(h, held \cup {a}, o, a) /\ h[o] = heap[o]
         /\ (held \cup {a}) \ {a} = held
         /\ Keeps(heap, h, held)
<1>1. a \in Addrs \ Allocated(heap) /\ o \in Allocated(heap) /\ Tidy(heap, held)
  BY DEF Live, IInv
<1>2. MadeAt(heap, held, a, h)
  BY <1>1, Made
<1> QED
  BY <1>1, <1>2 DEF MadeAt, MayTake, Keeps, Tidy

LEMMA SetLeafStep ==
  ASSUME IInv, frames = <<>>, NEW o \in Type("object"), NEW n \in Names, SetLeaf(o, n)
  PROVE  IInv'
<1>1. CASE Fail
  BY <1>1, FailStep DEF Fail
<1>2. ASSUME NEW a, a = NewAddr({}), Fresh # {},
             Succeed(Put([heap EXCEPT ![a] = Value("leaf", NULL)], o, n, a), held)
      PROVE  IInv'
  <2> DEFINE h == WithNew(heap, a, "leaf", NULL)
             hs == held \cup {a}
             g == Put(h, o, n, a)
  <2>1. a \in Addrs \ Live /\ o \in Live /\ heap[o].type = "object"
    BY <1>2, NewAddrIsFree DEF Type
  <2>2. MayTake(h, hs, o, a) /\ h[o] = heap[o] /\ hs \ {a} = held /\ Keeps(heap, h, held)
    BY <2>1, LeafMade
  <2> HIDE DEF h, hs
  <2>3. Tidy(g, hs \ {a}) /\ Keeps(h, g, hs \ {a})
    BY <2>1, <2>2, PutTidy
  <2>4. \A v \in held : g[v].parent = heap[v].parent
    BY <2>2, <2>3 DEF Keeps
  <2> HIDE DEF g
  <2> QED
    BY <1>2, <2>2, <2>3, <2>4, SucceedStep DEF g, h, WithNew
<1>3. CASE /\ Fresh # {}
            /\ FailWith(Freed([heap EXCEPT ![NewAddr({})] = Value("leaf", NULL)], NewAddr({})))
  BY <1>3, HalfMade
<1> QED
  BY <1>1, <1>2, <1>3 DEF SetLeaf

\* A member that goes from its container and is freed.
LEMMA CutStep ==
  ASSUME IInv, frames = <<>>, NEW o \in Live, NEW m \in Members(heap, o), NEW K,
         Shaped(Filled(heap[o], K)), IsInjective(K), Range(K) = Members(heap, o) \ {m},
         NEW g, g = [Freed(heap, m) EXCEPT ![o].kids = K], Succeed(g, held)
  PROVE  IInv'
<1> DEFINE f == Freed(heap, m)
           l == Less(heap, o, m, K)
<1>1. o \in Allocated(heap) /\ Tidy(heap, held)
  BY DEF Live, IInv
<1>2. /\ Tidy(l, held) /\ Allocated(l) = Allocated(heap) \ Below(heap, m)
      /\ o \in Allocated(l)
      /\ \A a \in Allocated(l) : l[a] = IF a = o THEN Filled(heap[o], K) ELSE heap[a]
  <2> HIDE DEF l
  <2> QED
    BY <1>1, Cut DEF l
<1>3. f[o] = heap[o]
  BY <1>1, <1>2 DEF Freed, Allocated
<1>4. g = l
  <2>1. f \in [Addrs -> Contents \cup {Free}] /\ o \in Addrs
    BY <1>1 DEF Freed, Tidy, Allocated
  <2> HIDE DEF f
  <2> QED
    BY <1>3, <2>1 DEF Less, Filled, f
<1>5. \A v \in held : l[v].parent = heap[v].parent
  <2>1. Filled(heap[o], K).parent = heap[o].parent
    BY <1>1, AllocatedShape, FilledOwned
  <2> QED
    BY <1>2, <2>1 DEF Tidy
<1>6. Succeed(l, held)
  BY <1>4
<1> HIDE DEF l
<1> QED
  BY <1>2, <1>5, <1>6, SucceedStep

LEMMA RemoveStep ==
  ASSUME IInv, frames = <<>>, NEW o \in Type("object"), NEW n \in Names, ObjectRemove(o, n)
  PROVE  IInv'
<1>1. CASE Fail
  BY <1>1, FailStep DEF Fail
<1>2. CASE n \in DOMAIN heap[o].kids /\ ~Fail
  <2> DEFINE m == heap[o].kids[n]
             K == Without(heap[o].kids, n)
             g == [Freed(heap, m) EXCEPT ![o].kids = K]
  <2>1. o \in Live /\ o \in Allocated(heap) /\ heap[o].type = "object" /\ Tidy(heap, held)
    BY DEF Type, Live, IInv
  <2>2. m \in Members(heap, o)
    BY <1>2 DEF Members, Range
  <2>3. Shaped(Filled(heap[o], K)) /\ IsInjective(K) /\ Range(K) = Members(heap, o) \ {m}
    BY <1>2, <2>1, ObjectMembers
  <2>4. Freed(heap, m)[o] = heap[o]
    BY <2>1, <2>2, NoCycle DEF Freed, Allocated
  <2>5. Succeed(g, held)
    BY <1>2, <2>4 DEF ObjectRemove, Without
  <2> HIDE DEF m, K, g
  <2> QED
    BY <2>1, <2>2, <2>3, <2>5, CutStep DEF g
<1> QED
  BY <1>1, <1>2 DEF ObjectRemove

LEMMA ArrayRemoveStep ==
  ASSUME IInv, frames = <<>>, NEW r \in Type("array"), NEW i \in 1 .. MaxItems,
         ArrayRemove(r, i)
  PROVE  IInv'
<1>1. CASE Fail
  BY <1>1, FailStep DEF Fail
<1>2. CASE i <= Len(heap[r].kids) /\ ~Fail
  <2> DEFINE m == heap[r].kids[i]
             K == Removed(heap[r].kids, i)
             g == [Freed(heap, m) EXCEPT ![r].kids = K]
  <2>1. r \in Live /\ r \in Allocated(heap) /\ heap[r].type = "array" /\ Tidy(heap, held)
    BY DEF Type, Live, IInv
  <2>2. i \in 1 .. Len(heap[r].kids)
    <3>1. heap[r].kids \in Seq(Addrs)
      BY <2>1, ArrayMembers
    <3> QED
      BY <1>2, <3>1, LenProperties, JsonTreeAssumption
  <2>3. /\ m \in Members(heap, r)
        /\ Shaped(Filled(heap[r], K)) /\ IsInjective(K) /\ Range(K) = Members(heap, r) \ {m}
    BY <2>1, <2>2, ArrayMembers
  <2>4. Freed(heap, m)[r] = heap[r]
    BY <2>1, <2>3, NoCycle DEF Freed, Allocated
  <2>5. Succeed(g, held)
    BY <1>2, <2>4 DEF ArrayRemove, Removed
  <2> HIDE DEF m, K, g
  <2> QED
    BY <2>1, <2>3, <2>5, CutStep DEF g
<1> QED
  <2>1. ~(i > Len(heap[r].kids)) => i <= Len(heap[r].kids)
    <3>1. heap[r].kids \in Seq(Addrs)
      BY ArrayMembers DEF Type, Live, IInv
    <3> QED
      BY <3>1, LenProperties, JsonTreeAssumption
  <2> QED
    BY <1>1, <1>2, <2>1 DEF ArrayRemove

LEMMA ClearStep ==
  ASSUME IInv, frames = <<>>, NEW c \in Live, NEW t \in {"array", "cleared"},
         Succeed(Emptied(c, t), held)
  PROVE  IInv'
<1> DEFINE g == Emptied(c, t)
<1>1. Tidy(heap, held) /\ c \in Allocated(heap)
  BY DEF IInv, Live
<1>2. g = [a \in Addrs |-> IF a = c THEN [heap[c] EXCEPT !.type = t, !.kids = <<>>]
                           ELSE Freed(heap, c)[a]]
  <2> DEFINE f == Freed(heap, c)
  <2>1. f = [a \in Addrs |-> f[a]]
    BY DEF Freed
  <2> HIDE DEF f
  <2>2. [f EXCEPT ![c] = [heap[c] EXCEPT !.type = t, !.kids = <<>>]]
           = [a \in Addrs |-> IF a = c THEN [heap[c] EXCEPT !.type = t, !.kids = <<>>]
                              ELSE f[a]]
    BY <2>1
  <2> QED
    BY <2>2 DEF Emptied, f
<1> HIDE DEF g
<1>3. Tidy(g, held) /\ Keeps(heap, g, held)
  BY <1>1, <1>2, EmptiedTidy
<1> QED
  BY <1>3, SucceedStep DEF Keeps, g

LEMMA AppendStep ==
  ASSUME IInv, frames = <<>>, NEW r \in Type("array"), NEW v \in Live, ArrayAppend(r, v)
  PROVE  IInv'
<1>1. CASE Fail
  BY <1>1, FailStep DEF Fail
<1>2. CASE heap[v].parent = NULL /\ NotBelow(r, v) /\ Succeed(Take(heap, r, v), held \ {v})
  <2>1. MayTake(heap, held, r, v) /\ heap[r].type = "array"
    BY <1>2, Unowned DEF MayTake, IInv, Type, Live, NotBelow
  <2>2. Tidy(Take(heap, r, v), held \ {v}) /\ Keeps(heap, Take(heap, r, v), held \ {v})
    BY <2>1, TakeTidy
  <2> QED
    BY <1>2, <2>2, TakenStep
<1> QED
  BY <1>1, <1>2 DEF ArrayAppend

LEMMA AppendLeafStep ==
  ASSUME IInv, frames = <<>>, NEW r \in Type("array"), ArrayAppendLeaf(r)
  PROVE  IInv'
<1>1. CASE Fail
  BY <1>1, FailStep DEF Fail
<1>2. ASSUME NEW a, a = NewAddr({}), Fresh # {},
             Succeed(Take([heap EXCEPT ![a] = Value("leaf", NULL)], r, a), held)
      PROVE  IInv'
  <2> DEFINE h == WithNew(heap, a, "leaf", NULL)
             hs == held \cup {a}
             g == Take(h, r, a)
  <2>1. a \in Addrs \ Live /\ r \in Live /\ heap[r].type = "array"
    BY <1>2, NewAddrIsFree DEF Type
  <2>2. MayTake(h, hs, r, a) /\ h[r] = heap[r] /\ hs \ {a} = held /\ Keeps(heap, h, held)
    BY <2>1, LeafMade
  <2> HIDE DEF h, hs
  <2>3. Tidy(g, hs \ {a}) /\ Keeps(h, g, hs \ {a})
    BY <2>1, <2>2, TakeTidy
  <2>4. \A v \in held : g[v].parent = heap[v].parent
    BY <2>2, <2>3 DEF Keeps
  <2> HIDE DEF g
  <2> QED
    BY <1>2, <2>2, <2>3, <2>4, SucceedStep DEF g, h, WithNew
<1>3. CASE /\ Fresh # {}
            /\ FailWith(Freed([heap EXCEPT ![NewAddr({})] = Value("leaf", NULL)], NewAddr({})))
  BY <1>3, HalfMade
<1> QED
  BY <1>1, <1>2, <1>3 DEF ArrayAppendLeaf

LEMMA ReplaceStep ==
  ASSUME IInv, frames = <<>>, NEW r \in Type("array"), NEW i \in 1 .. MaxItems, NEW v \in Live,
         ArrayReplace(r, i, v)
  PROVE  IInv'
<1>1. CASE Fail
  BY <1>1, FailStep DEF Fail
<1>2. CASE ~Fail
  <2> DEFINE m == heap[r].kids[i]
             K == Replaced(heap[r].kids, i, v)
             g == Swapped(heap, r, m, K, v)
             f == Freed(heap, m)
  <2>1. heap[v].parent = NULL /\ r \notin Below(heap, v) /\ i <= Len(heap[r].kids)
        /\ Succeed([f EXCEPT ![r].kids[i] = v, ![v].parent = r], held \ {v})
    BY <1>2 DEF ArrayReplace, NotBelow
  <2>2. MayTake(heap, held, r, v) /\ heap[r].type = "array"
    BY <2>1, Unowned DEF MayTake, IInv, Type, Live
  <2>3. i \in 1 .. Len(heap[r].kids)
    <3>1. heap[r].kids \in Seq(Addrs)
      BY <2>2, ArrayMembers DEF MayTake
    <3> QED
      BY <2>1, <3>1, LenProperties, JsonTreeAssumption
  <2>4. Tidy(g, held \ {v}) /\ Keeps(heap, g, held \ {v})
    BY <2>2, <2>3, ReplaceTidy
  <2>5. f[r] = heap[r] /\ r # v
    <3>1. m \in Members(heap, r) /\ Tidy(heap, held) /\ r \in Allocated(heap)
          /\ v \in Allocated(heap)
      BY <2>2, <2>3, ArrayMembers DEF MayTake, Tidy
    <3>2. r \notin Below(heap, m) /\ v \in Below(heap, v)
      BY <3>1, NoCycle, AllocatedShape, BelowIsClosed
    <3> QED
      BY <2>1, <3>1, <3>2 DEF Freed, Allocated
  <2>6. [f EXCEPT ![r].kids[i] = v, ![v].parent = r] = g
    <3>1. [f EXCEPT ![r].kids[i] = v, ![v].parent = r]
             = [f EXCEPT ![r].kids = K, ![v].parent = r]
      BY <2>5 DEF Replaced
    <3>2. DOMAIN f = Addrs
      BY DEF Freed
    <3> HIDE DEF K
    <3> QED
      BY <2>5, <3>1, <3>2 DEF Swapped, Filled, Owned, Freed
  <2> HIDE DEF g
  <2> QED
    BY <2>1, <2>4, <2>6, TakenStep
<1> QED
  BY <1>1, <1>2

LEMMA ReplaceLeafStep ==
  ASSUME IInv, frames = <<>>, NEW r \in Type("array"), NEW i \in 1 .. MaxItems,
         ArrayReplaceLeaf(r, i)
  PROVE  IInv'
<1>1. CASE Fail
  BY <1>1, FailStep DEF Fail
<1>2. ASSUME NEW a, a = NewAddr({}), Fresh # {}, i <= Len(heap[r].kids),
             NEW h, h = [heap EXCEPT ![a] = Value("leaf", NULL)],
             Succeed([Freed(h, heap[r].kids[i]) EXCEPT ![a].parent = r, ![r].kids[i] = a], held)
      PROVE  IInv'
  <2> DEFINE hs == held \cup {a}
             m == heap[r].kids[i]
             K == Replaced(heap[r].kids, i, a)
             g == Swapped(h, r, m, K, a)
             f == Freed(h, m)
  <2>1. a \in Addrs \ Live /\ r \in Live /\ heap[r].type = "array" /\ Tidy(heap, held)
        /\ r \in Addrs /\ r \in Allocated(heap) /\ h = WithNew(heap, a, "leaf", NULL)
    BY <1>2, NewAddrIsFree DEF Type, Live, Allocated, IInv, WithNew
  <2>2. MayTake(h, hs, r, a) /\ h[r] = heap[r] /\ hs \ {a} = held /\ Keeps(heap, h, held)
    BY <2>1, LeafMade
  <2>3. i \in 1 .. Len(heap[r].kids) /\ m \in Members(heap, r)
    <3>1. heap[r].kids \in Seq(Addrs)
      BY <2>1, ArrayMembers
    <3>2. i \in 1 .. Len(heap[r].kids)
      BY <1>2, <3>1, LenProperties, JsonTreeAssumption
    <3> QED
      BY <2>1, <3>2, ArrayMembers
  <2>4. MadeAt(heap, held, a, h)
    BY <2>1, Made DEF Live
  <2>5. m \in Allocated(heap) /\ r \notin Below(heap, m)
    BY <2>1, <2>3, NoCycle DEF Tidy
  <2>6. Below(h, m) = Below(heap, m) /\ a \notin Below(heap, m)
    BY <2>1, <2>4, <2>5 DEF MadeAt, Below, Live
  <2>7. f[r] = h[r] /\ f[a] = h[a] /\ a # r
    BY <2>1, <2>5, <2>6 DEF Freed
  <2>8. [f EXCEPT ![a].parent = r, ![r].kids[i] = a] = g
    <3>1. f = [b \in Addrs |-> f[b]] /\ f[r].kids = heap[r].kids
      BY <2>2, <2>7 DEF Freed
    <3>2. \A b \in Addrs : g[b] = IF b = r THEN Filled(f[r], K)
                                  ELSE IF b = a THEN Owned(f[a], r) ELSE f[b]
      BY <2>7 DEF Swapped
    <3>3. g = [b \in Addrs |-> g[b]]
      BY DEF Swapped
    <3> HIDE DEF g, f, K
    <3>4. [f EXCEPT ![a].parent = r, ![r].kids[i] = a]
             = [b \in Addrs |-> IF b = r THEN [f[r] EXCEPT !.kids[i] = a]
                                ELSE IF b = a THEN [f[a] EXCEPT !.parent = r] ELSE f[b]]
      BY <2>1, <2>7, <3>1
    <3>5. [f[r] EXCEPT !.kids[i] = a] = Filled(f[r], K)
      BY <3>1 DEF Filled, Replaced, K
    <3> QED
      BY <3>2, <3>3, <3>4, <3>5 DEF Owned
  <2>9. Tidy(g, hs \ {a}) /\ Keeps(h, g, hs \ {a})
    <3>1. h[r].type = "array" /\ i \in 1 .. Len(h[r].kids)
          /\ g = Swapped(h, r, h[r].kids[i], Replaced(h[r].kids, i, a), a)
      BY <2>1, <2>2, <2>3
    <3> HIDE DEF hs, g
    <3> QED
      BY <2>2, <3>1, ReplaceTidy
  <2>10. \A v \in held : g[v].parent = heap[v].parent
    BY <2>2, <2>9 DEF Keeps
  <2>11. Succeed(g, held)
    BY <1>2, <2>8
  <2> HIDE DEF g, hs
  <2> QED
    BY <2>2, <2>9, <2>10, <2>11, SucceedStep
<1>3. CASE /\ Fresh # {}
            /\ FailWith(Freed([heap EXCEPT ![NewAddr({})] = Value("leaf", NULL)], NewAddr({})))
  BY <1>3, HalfMade
<1> QED
  BY <1>1, <1>2, <1>3 DEF ArrayReplaceLeaf

\* A failed dotset leaves v with the address of the object it made for it.
Left(h, v, a) == [h EXCEPT ![v].parent = a]

LEMMA RollbackLeaves ==
  ASSUME NEW h \in [Addrs -> Contents \cup {Free}], NEW a \in Addrs \ Allocated(h),
         NEW v \in Allocated(h), NEW m
  PROVE  Rollback(Put(WithNew(h, a, "object", NULL), a, m, v), a, m) = Left(h, v, a)
<1> DEFINE o == Value("object", NULL)
           made == WithNew(h, a, "object", NULL)
           filled == Put(made, a, m, v)
           c == Filled(o, Without(With(<<>>, m, v), m))
           l == Left(h, v, a)
           g == [l EXCEPT ![a] = c]
<1>1. h[a] = Free /\ v \in Addrs /\ v # a /\ h[v] \in Contents /\ DOMAIN <<>> = {}
  BY NoMembers DEF Allocated
<1>2. Owned(h[v], a) \in Contents /\ Owned(h[v], a) # Free /\ h[v] # Free
  BY <1>1, FilledOwned, JsonTreeAssumption
<1>3. l \in [Addrs -> Contents \cup {Free}] /\ l[a] = Free /\ a \notin Allocated(l)
  BY <1>1, <1>2 DEF Left, Owned, Allocated
<1>4. made \in [Addrs -> Contents \cup {Free}] /\ made[a] = o /\ made[v] = h[v]
      /\ made = [h EXCEPT ![a] = o]
  BY <1>1, NewIsEmpty DEF WithNew
<1>5. o.kids = <<>> /\ m \notin DOMAIN o.kids
  BY <1>1 DEF Value
<1>6. filled = [made EXCEPT ![a].kids = With(<<>>, m, v), ![v].parent = a]
  <2> HIDE DEF made, o
  <2> QED
    BY <1>4, <1>5 DEF Put, With
<1>7. [filled EXCEPT ![a].kids = Without(@, m)] = g
  <2>1. Filled(Filled(o, With(<<>>, m, v)), Without(With(<<>>, m, v), m)) = c
    BY DEF Filled, Value
  <2>2. filled = [b \in Addrs |-> IF b = a THEN Filled(o, With(<<>>, m, v))
                                  ELSE IF b = v THEN Owned(h[v], a) ELSE h[b]]
    <3> HIDE DEF o
    <3> QED
      BY <1>1, <1>4, <1>6 DEF Filled, Owned
  <2>3. Filled(o, With(<<>>, m, v)).kids = With(<<>>, m, v)
    BY DEF Filled, Value
  <2>4. g = [b \in Addrs |-> IF b = a THEN c
                             ELSE IF b = v THEN Owned(h[v], a) ELSE h[b]]
    <3> HIDE DEF c
    <3> QED
      BY <1>1 DEF Left, Owned
  <2> HIDE DEF o, c, g, filled
  <2>5. [filled EXCEPT ![a].kids = Without(@, m)]
           = [b \in Addrs |-> IF b = a THEN Filled(filled[a], Without(filled[a].kids, m))
                              ELSE filled[b]]
    BY <2>2 DEF Filled
  <2> QED
    BY <2>1, <2>2, <2>3, <2>4, <2>5
<1>8. c \in Contents /\ Range(c.kids) = {}
  <2> DEFINE K == Without(With(<<>>, m, v), m)
  <2>1. DOMAIN K = {}
    BY <1>1 DEF Without, With
  <2>2. K = [k \in {} |-> v] /\ Range(K) = {}
    BY <2>1 DEF Without, Range
  <2>3. K \in Kids
    <3>1. K \in [{} -> Addrs] /\ {} \in SUBSET Names
      BY <2>2
    <3> QED
      BY <3>1 DEF Kids
  <2> HIDE DEF K
  <2> QED
    BY <2>2, <2>3, NewIsEmpty, FilledOwned DEF K
<1>9. Freed(g, a) = l
  <2> HIDE DEF l, c
  <2> QED
    BY <1>3, <1>8, FreedMade
<1> QED
  BY <1>7, <1>9 DEF Rollback

\* A value the caller owns may have any parent.
LEMMA LeftTidy ==
  ASSUME NEW h, NEW hs, Tidy(h, hs), NEW v \in hs, NEW a \in Addrs
  PROVE  /\ Tidy(Left(h, v, a), hs) /\ Keeps(h, Left(h, v, a), hs \ {v})
         /\ Allocated(Left(h, v, a)) = Allocated(h)
         /\ \A b \in Allocated(h) : /\ Left(h, v, a)[b].type = h[b].type
                                   /\ Left(h, v, a)[b].kids = h[b].kids
<1> DEFINE g == Left(h, v, a)
<1>1. v \in Allocated(h) /\ v \in Addrs /\ h[v] \in Contents
  <2>1. v \in Allocated(h)
    BY DEF Tidy
  <2> QED
    BY <2>1, AllocatedShape
<1>2. /\ g \in [Addrs -> Contents \cup {Free}] /\ g[v] = Owned(h[v], a)
      /\ \A b \in Addrs \ {v} : g[b] = h[b]
  <2>1. Owned(h[v], a) \in Contents
    BY <1>1, FilledOwned
  <2> QED
    BY <1>1, <2>1 DEF Left, Owned, Tidy
<1> HIDE DEF g
<1>3. g[v] \in Contents /\ g[v].kids = h[v].kids /\ g[v].type = h[v].type
  BY <1>1, <1>2, FilledOwned
<1>4. Allocated(g) = Allocated(h)
  BY <1>1, <1>2, <1>3, JsonTreeAssumption DEF Allocated
<1>5. \A b \in Allocated(h) : g[b].kids = h[b].kids /\ g[b].type = h[b].type
  BY <1>2, <1>3 DEF Allocated
<1>6. \A b \in Allocated(h) : Members(g, b) = Members(h, b)
  BY <1>5 DEF Members
<1>7. \A b \in Allocated(h) : b # v => g[b] = h[b]
  BY <1>2 DEF Allocated
<1>8. \A b \in Allocated(h) : Shaped(g[b]) /\ IsInjective(g[b].kids)
  <2>1. Shaped(h[v]) /\ IsInjective(h[v].kids)
    BY <1>1 DEF Tidy
  <2>2. Shaped(g[v]) /\ IsInjective(g[v].kids)
    BY <1>3, <2>1 DEF Shaped
  <2> QED
    BY <1>7, <2>2 DEF Tidy
<1>9. ASSUME NEW b \in Allocated(g), NEW c \in Members(g, b)
      PROVE  c \in Allocated(g) /\ g[c].parent = b /\ c \notin hs
  <2>1. c \in Allocated(h) /\ h[c].parent = b /\ c \notin hs
    BY <1>4, <1>6 DEF Tidy
  <2> QED
    BY <1>4, <1>7, <2>1
<1>10. ASSUME NEW b \in Allocated(g) \ hs
       PROVE  g[b].parent \in Allocated(g) /\ b \in Members(g, g[b].parent)
  <2>1. h[b].parent \in Allocated(h) /\ b \in Members(h, h[b].parent)
    BY <1>4 DEF Tidy
  <2> QED
    BY <1>4, <1>6, <1>7, <2>1
<1>11. ASSUME NEW S \in SUBSET Allocated(g), hs \subseteq S, Closed(g, S)
       PROVE  S = Allocated(g)
  <2>1. Closed(h, S)
    BY <1>4, <1>6, <1>11 DEF Closed
  <2> QED
    BY <1>4, <1>11, <2>1 DEF Tidy
<1>12. hs \subseteq Allocated(g)
  BY <1>4 DEF Tidy
<1>13. Tidy(g, hs)
  BY <1>2, <1>4, <1>8, <1>9, <1>10, <1>11, <1>12 DEF Tidy
<1> QED
  BY <1>4, <1>5, <1>7, <1>13 DEF g, Keeps, Tidy

LEMMA DotsetStep ==
  ASSUME IInv, frames = <<>>, NEW o \in Type("object"), NEW n \in Names, NEW m \in Names,
         NEW v \in Live, Dotset(o, n, m, v)
  PROVE  IInv'
<1>1. CASE Fail
  BY <1>1, FailStep DEF Fail
<1>2. CASE heap[o].kids[n] \in Type("object") /\ Set(heap[o].kids[n], m, v)
  BY <1>2, SetStep
<1>3. ASSUME NEW a, a = NewAddr({}), Fresh # {}, n \notin DOMAIN heap[o].kids,
             heap[v].parent = NULL, NotBelow(o, v),
             Succeed(Put(Put([heap EXCEPT ![a] = Value("object", NULL)], a, m, v), o, n, a),
                     held \ {v})
      PROVE  IInv'
  <2> DEFINE h == WithNew(heap, a, "object", NULL)
             hs == held \cup {a}
             g == Put(Put(h, a, m, v), o, n, a)
  <2>1. a \in Addrs \ Allocated(heap) /\ Tidy(heap, held) /\ v \in held
        /\ v \in Allocated(heap)
        /\ o \in Allocated(heap) /\ heap[o].type = "object" /\ o \notin Below(heap, v)
    BY <1>3, NewAddrIsFree, Unowned DEF Live, IInv, Type, NotBelow
  <2>2. MadeAt(heap, held, a, h) /\ h[a] = Value("object", NULL)
    BY <2>1, Made
  <2>3. h[a].type = "object" /\ DOMAIN h[a].kids = {}
    BY <2>2, NoMembers DEF Value
  <2>4. Below(heap, v) \subseteq Allocated(heap)
    BY DEF Below
  <2> HIDE DEF h
  <2>5. /\ Tidy(h, hs) /\ a \in hs /\ v \in hs /\ a # v /\ a \notin Below(h, v)
        /\ o \in Allocated(h) /\ h[o] = heap[o] /\ o # a /\ o \notin Below(h, v)
        /\ hs \ {v, a} = held \ {v}
    BY <2>1, <2>2, <2>4 DEF MadeAt, Tidy
  <2>6. h[o].type = "object" /\ n \notin DOMAIN h[o].kids
    BY <1>3, <2>1, <2>5
  <2> HIDE DEF hs, g
  <2>7. Tidy(g, hs \ {v, a}) /\ Keeps(h, g, hs \ {v, a})
    BY <2>3, <2>5, <2>6, DotPut DEF g
  <2>8. Keeps(heap, g, held \ {v})
    BY <2>1, <2>2, <2>5, <2>7 DEF Keeps, MadeAt, Tidy
  <2>9. Succeed(g, held \ {v})
    BY <1>3 DEF g, h, WithNew
  <2> QED
    BY <2>5, <2>7, <2>8, <2>9, TakenStep
<1>4. ASSUME NEW a, a = NewAddr({}), Fresh # {}, heap[v].parent = NULL,
             Returns(Rollback(Put([heap EXCEPT ![a] = Value("object", NULL)], a, m, v), a, m),
                     held, orphaned \cup {v}, "failure")
      PROVE  IInv'
  <2> DEFINE g == Left(heap, v, a)
  <2>1. a \in Addrs \ Allocated(heap) /\ v \in held /\ Tidy(heap, held) /\ v \in Allocated(heap)
        /\ heap \in [Addrs -> Contents \cup {Free}]
    BY <1>4, NewAddrIsFree, Unowned DEF Live, IInv, Tidy
  <2>2. Tidy(g, held) /\ Keeps(heap, g, held \ {v})
    BY <2>1, LeftTidy
  <2>3. Returns(g, held, orphaned \cup {v}, "failure")
    BY <1>4, <2>1, RollbackLeaves DEF WithNew
  <2> HIDE DEF g
  <2> QED
    BY <2>1, <2>2, <2>3 DEF IInv, Parents, Keeps, Returns
<1>5. CASE /\ Fresh # {}
            /\ FailWith(Freed([heap EXCEPT ![NewAddr({})] = Value("object", NULL)], NewAddr({})))
  BY <1>5, HalfMade
<1> QED
  BY <1>1, <1>2, <1>3, <1>4, <1>5 DEF Dotset

\* A dotted set of a leaf that fails with the leaf and an object for it made.
LEMMA TwoHalfMade ==
  ASSUME IInv, frames = <<>>, NEW m,
         NEW a, a = NewAddr({}), NEW b, b = NewAddr({a}), Fresh # {}, Fresh # {a},
         NEW h, h = [heap EXCEPT ![a] = Value("leaf", NULL), ![b] = Value("object", NULL)],
         \/ FailWith(Freed(Freed(h, b), a))
         \/ FailWith(Freed(Rollback(Put(h, b, m, a), b, m), a))
  PROVE  FailWith(heap)
<1> DEFINE c == Value("leaf", NULL)
           g == [heap EXCEPT ![a] = c]
<1>1. a \in Addrs \ Allocated(heap) /\ b \in Addrs \ Allocated(heap) /\ b # a
      /\ heap \in [Addrs -> Contents \cup {Free}]
  <2>1. Fresh \ {} # {} /\ Fresh \ {a} # {}
    OBVIOUS
  <2> QED
    BY <2>1, NewAddrIsFree DEF Live, IInv, Tidy
<1>2. c \in Contents /\ Range(c.kids) = {} /\ c # Free
  BY NewIsEmpty, JsonTreeAssumption
<1>3. g \in [Addrs -> Contents \cup {Free}] /\ a \in Allocated(g) /\ b \notin Allocated(g)
  BY <1>1, <1>2 DEF Allocated
<1>4. h = [g EXCEPT ![b] = Value("object", NULL)]
  OBVIOUS
<1>5. Freed(g, a) = heap
  <2> HIDE DEF c
  <2> QED
    BY <1>1, <1>2, FreedMade
<1>6. Freed(h, b) = g
  <2> HIDE DEF g
  <2>1. Value("object", NULL) \in Contents /\ Range(Value("object", NULL).kids) = {}
    BY NewIsEmpty
  <2> QED
    BY <1>1, <1>3, <1>4, <2>1, FreedMade
<1>7. Freed(Rollback(Put(h, b, m, a), b, m), a) = heap
  <2>1. Rollback(Put(h, b, m, a), b, m) = Left(g, a, b)
    <3> HIDE DEF g
    <3>1. h = WithNew(g, b, "object", NULL)
      BY <1>4 DEF WithNew
    <3>2. Rollback(Put(WithNew(g, b, "object", NULL), b, m, a), b, m) = Left(g, a, b)
      BY <1>1, <1>3, RollbackLeaves
    <3> QED
      BY <3>1, <3>2
  <2>2. Left(g, a, b) = [heap EXCEPT ![a] = Owned(c, b)]
    BY <1>1 DEF Left, Owned
  <2>3. Owned(c, b) \in Contents /\ Range(Owned(c, b).kids) = {}
    BY <1>1, <1>2, FilledOwned
  <2>4. Freed([heap EXCEPT ![a] = Owned(c, b)], a) = heap
    <3> HIDE DEF c
    <3> QED
      BY <1>1, <2>3, FreedMade
  <2> HIDE DEF c, g
  <2> QED
    BY <2>1, <2>2, <2>4
<1> QED
  BY <1>5, <1>6, <1>7

LEMMA DotsetLeafStep ==
  ASSUME IInv, frames = <<>>, NEW o \in Type("object"), NEW n \in Names, NEW m \in Names,
         DotsetLeaf(o, n, m)
  PROVE  IInv'
<1>1. CASE Fail
  BY <1>1, FailStep DEF Fail
<1>2. CASE heap[o].kids[n] \in Type("object") /\ SetLeaf(heap[o].kids[n], m)
  BY <1>2, SetLeafStep
<1>3. ASSUME NEW a, a = NewAddr({}), NEW b, b = NewAddr({a}), Fresh # {}, Fresh # {a},
             n \notin DOMAIN heap[o].kids,
             Succeed(Put(Put([heap EXCEPT ![a] = Value("leaf", NULL),
                                          ![b] = Value("object", NULL)], b, m, a), o, n, b),
                     held)
      PROVE  IInv'
  <2> DEFINE h1 == WithNew(heap, a, "leaf", NULL)
             h == WithNew(h1, b, "object", NULL)
             hs == (held \cup {a}) \cup {b}
             g == Put(Put(h, b, m, a), o, n, b)
  <2>1. /\ a \in Addrs \ Allocated(heap) /\ b \in Addrs \ Allocated(heap) /\ b # a
        /\ Tidy(heap, held) /\ o \in Allocated(heap) /\ heap[o].type = "object"
    <3>1. Fresh \ {} # {} /\ Fresh \ {a} # {}
      BY <1>3
    <3> QED
      BY <1>3, <3>1, NewAddrIsFree DEF Live, IInv, Type
  <2>2. MadeAt(heap, held, a, h1) /\ h1[a] = Value("leaf", NULL)
    BY <2>1, Made
  <2>3. /\ Tidy(h1, held \cup {a}) /\ b \in Addrs \ Allocated(h1)
        /\ Allocated(h1) = Allocated(heap) \cup {a} /\ h1[o] = heap[o]
        /\ Below(h1, a) \subseteq {a}
    BY <2>1, <2>2 DEF MadeAt
  <2> HIDE DEF h1
  <2>4. MadeAt(h1, held \cup {a}, b, h) /\ h[b] = Value("object", NULL)
    BY <2>3, Made
  <2>5. h[b].type = "object" /\ DOMAIN h[b].kids = {}
    BY <2>4, NoMembers DEF Value
  <2> HIDE DEF h
  <2>6. /\ Tidy(h, hs) /\ b \in hs /\ a \in hs /\ b # a /\ b \notin Below(h, a)
        /\ o \in Allocated(h) /\ h[o] = heap[o] /\ o # b /\ o \notin Below(h, a)
        /\ hs \ {a, b} = held
    BY <2>1, <2>3, <2>4 DEF MadeAt, Tidy
  <2>7. h[o].type = "object" /\ n \notin DOMAIN h[o].kids
    BY <1>3, <2>1, <2>6
  <2> HIDE DEF hs, g
  <2>8. Tidy(g, hs \ {a, b}) /\ Keeps(h, g, hs \ {a, b})
    BY <2>5, <2>6, <2>7, DotPut DEF g
  <2>9. \A v \in held : g[v].parent = heap[v].parent
    <3>1. \A v \in held : v \in Allocated(heap)
      BY <2>1 DEF Tidy
    <3>2. \A v \in held : h[v] = heap[v]
      BY <2>2, <2>3, <2>4, <3>1 DEF MadeAt
    <3> QED
      BY <2>6, <2>8, <3>2 DEF Keeps
  <2>10. Succeed(g, held)
    BY <1>3 DEF g, h, h1, WithNew
  <2> QED
    BY <2>6, <2>8, <2>9, <2>10, SucceedStep
<1>4. CASE /\ Fresh # {}
            /\ FailWith(Freed([heap EXCEPT ![NewAddr({})] = Value("leaf", NULL)], NewAddr({})))
  BY <1>4, HalfMade
<1>5. ASSUME NEW a, a = NewAddr({}), NEW b, b = NewAddr({a}), Fresh # {}, Fresh # {a},
             NEW h, h = [heap EXCEPT ![a] = Value("leaf", NULL), ![b] = Value("object", NULL)],
             \/ FailWith(Freed(Freed(h, b), a))
             \/ FailWith(Freed(Rollback(Put(h, b, m, a), b, m), a))
      PROVE  IInv'
  <2>1. FailWith(heap)
    BY <1>5, TwoHalfMade
  <2> QED
    BY <2>1, FailStep
<1> QED
  BY <1>1, <1>2, <1>3, <1>4, <1>5 DEF DotsetLeaf

LEMMA DotremoveStep ==
  ASSUME IInv, frames = <<>>, NEW o \in Type("object"), NEW n \in Names, NEW m \in Names,
         Dotremove(o, n, m)
  PROVE  IInv'
BY RemoveStep, FailStep DEF Dotremove, Fail

-----------------------------------------------------------------------------
(* A deep copy *)

LEMMA FrontIs ==
  ASSUME NEW S, NEW s \in Seq(S), s # <<>>
  PROVE  /\ Len(s) \in Nat \ {0} /\ DOMAIN s = 1 .. Len(s)
         /\ Front(s) \in Seq(S) /\ DOMAIN Front(s) = 1 .. Len(s) - 1
         /\ Len(Front(s)) = Len(s) - 1 /\ Len(s) \in DOMAIN s
         /\ \A i \in 1 .. Len(s) - 1 : Front(s)[i] = s[i]
         /\ Last(s) = s[Len(s)] /\ Last(s) \in S
         /\ Front(s) = <<>> <=> Len(s) = 1
<1>1. Len(s) \in Nat \ {0} /\ DOMAIN s = 1 .. Len(s)
  BY LenProperties, EmptySeq
<1>2. \A i \in 1 .. Len(s) - 1 : s[i] \in S
  BY <1>1, ElementOfSeq
<1>3. /\ Front(s) \in Seq(S) /\ Len(Front(s)) = Len(s) - 1
      /\ \A i \in 1 .. Len(s) - 1 : Front(s)[i] = s[i]
  BY <1>1, SubSeqProperties, <1>2 DEF Front
<1>4. DOMAIN Front(s) = 1 .. Len(s) - 1
  BY <1>3, LenProperties
<1>5. Front(s) = <<>> <=> Len(s) = 1
  BY <1>1, <1>3, EmptySeq
<1> QED
  BY <1>1, <1>3, <1>4, <1>5, ElementOfSeq DEF Last

\* What was there before is apart from what has been made since.
LEMMA Apart ==
  ASSUME NEW h, NEW hs, NEW fs, NEW b, Tidy(h, hs), Underway(h, hs, fs, b)
  PROVE  /\ Allocated(b.heap) \subseteq Allocated(h)
         /\ \A a \in Allocated(b.heap) : Members(h, a) \subseteq Allocated(b.heap)
         /\ \A a \in Allocated(h) \ Allocated(b.heap) :
               Members(h, a) \subseteq Allocated(h) \ Allocated(b.heap)
         /\ \A i \in DOMAIN fs :
               /\ fs[i].copy \in hs /\ fs[i].copy \in Allocated(h)
               /\ Below(h, fs[i].copy) \subseteq Allocated(h) \ Allocated(b.heap)
<1> DEFINE old == Allocated(b.heap)
<1>1. \A a \in old : h[a] = b.heap[a]
  BY DEF Underway
<1>2. old \subseteq Allocated(h)
  BY <1>1 DEF Allocated
<1>3. \A a \in old : Members(h, a) \subseteq old
  BY <1>1 DEF Underway, Tidy, Members
<1>4. ASSUME NEW a \in Allocated(h) \ old, NEW m \in Members(h, a)
      PROVE  m \in Allocated(h) \ old
  <2>1. m \in Allocated(h) /\ h[m].parent = a /\ m \notin hs
    BY DEF Tidy
  <2>2. m \in old => m \in b.held \/ h[m].parent \in old
    BY <1>1 DEF Underway, Tidy
  <2> QED
    BY <2>1, <2>2 DEF Underway
<1>5. ASSUME NEW i \in DOMAIN fs
      PROVE  /\ fs[i].copy \in hs /\ fs[i].copy \in Allocated(h)
             /\ Below(h, fs[i].copy) \subseteq Allocated(h) \ old
  <2>1. fs[i].copy \in hs /\ fs[i].copy \notin old
    BY DEF Underway
  <2>2. fs[i].copy \in Allocated(h)
    BY <2>1 DEF Tidy
  <2>3. Closed(h, Allocated(h) \ old)
    BY <1>4 DEF Closed
  <2> HIDE DEF old
  <2> QED
    BY <2>1, <2>2, <2>3, BelowWithin
<1> QED
  BY <1>2, <1>3, <1>4, <1>5

\* A call in a copy of what was there in b, the first when frames is empty.
LEMMA CallStep ==
  ASSUME NEW b, Tidy(heap, held), Parents(heap, held, orphaned),
         Underway(heap, held, frames, b), orphaned \subseteq b.held,
         NEW f \in [Live \ Allocated(b.heap) -> Allocated(b.heap)],
         Mirror(heap, frames, b.heap, f),
         NEW v \in Allocated(b.heap), NEW k \in Names \cup (1 .. MaxItems) \cup {NULL},
         frames # <<>> => Awaits(heap, Last(frames), [of |-> v, at |-> k]),
         before' = b, Call(v, k)
  PROVE  IInv'
<1> DEFINE a == NewAddr({})
           t == CopyType(heap[v].type)
           g == WithNew(heap, a, t, NULL)
           r == [of |-> v, copy |-> a, at |-> k]
           fs == Append(frames, r)
           old == Allocated(b.heap)
<1>1. /\ heap' = g /\ held' = held \cup {a} /\ frames' = fs
      /\ status' = "copying" /\ UNCHANGED orphaned
      /\ a \in Addrs \ Allocated(heap)
  BY NewAddrIsFree DEF Call, WithNew, Live
<1>2. /\ old \subseteq Allocated(heap) /\ a \notin old /\ v \in Addrs
      /\ \A y \in Allocated(heap) \ old : Members(heap, y) \subseteq Allocated(heap) \ old
      /\ \A i \in DOMAIN frames : frames[i].copy \in Allocated(heap)
  BY <1>1, Apart DEF Allocated
<1>3. heap[v] = b.heap[v] /\ t \in {"object", "array", "leaf"}
  <2>1. heap[v] \in Contents /\ heap[v] = b.heap[v]
    BY <1>2, AllocatedShape DEF Underway
  <2> QED
    BY <2>1 DEF Contents, CopyType
<1>4. MadeAt(heap, held, a, g) /\ g[a] = Value(t, NULL)
  <2> HIDE DEF t, a
  <2> QED
    BY <1>1, <1>3, Made
<1> HIDE DEF g, a, t
<1>5. /\ Tidy(g, held \cup {a}) /\ Allocated(g) = Allocated(heap) \cup {a}
      /\ \A y \in Allocated(heap) : g[y] = heap[y] /\ Members(g, y) = Members(heap, y)
      /\ g[a].parent = NULL /\ g[a].type = t /\ g[a].kids = <<>> /\ DOMAIN <<>> = {}
  BY <1>4, NoMembers DEF MadeAt, Value
<1>6. Parents(g, held \cup {a}, orphaned)
  BY <1>5 DEF Parents, Tidy
<1>7. /\ fs \in Seq(Frame) /\ DOMAIN fs = (1 .. Len(frames)) \cup {Len(frames) + 1}
      /\ \A i \in 1 .. Len(frames) : fs[i] = frames[i]
      /\ fs[Len(frames) + 1] = r /\ DOMAIN frames = 1 .. Len(frames) /\ Len(frames) \in Nat
      /\ fs # <<>>
  <2>1. r \in Frame
    BY <1>1, <1>2 DEF Frame
  <2>2. frames \in Seq(Frame)
    BY DEF Underway
  <2> HIDE DEF r
  <2>3. /\ fs \in Seq(Frame) /\ fs # <<>> /\ Len(fs) = Len(frames) + 1
        /\ \A i \in 1 .. Len(frames) : fs[i] = frames[i]
        /\ fs[Len(frames) + 1] = r
    BY <2>1, <2>2, AppendProperties
  <2>4. DOMAIN fs = 1 .. Len(fs) /\ DOMAIN frames = 1 .. Len(frames) /\ Len(frames) \in Nat
    BY <2>2, <2>3, LenProperties
  <2> HIDE DEF fs
  <2> QED
    BY <2>3, <2>4
<1> HIDE DEF fs
<1>8. Underway(g, held \cup {a}, fs, b)
  <2>1. \A y \in old : g[y] = b.heap[y]
    BY <1>2, <1>5 DEF Underway
  <2>2. held \cup {a} = b.held \cup {fs[i].copy : i \in DOMAIN fs}
    <3>1. {fs[i].copy : i \in DOMAIN fs} = {frames[i].copy : i \in DOMAIN frames} \cup {a}
      BY <1>7
    <3> QED
      BY <3>1 DEF Underway
  <2>3. ASSUME NEW i \in DOMAIN fs
        PROVE  /\ fs[i].of \in old /\ fs[i].copy \notin old
               /\ \A j \in DOMAIN fs : fs[i].copy = fs[j].copy => i = j
    BY <1>1, <1>2, <1>7 DEF Underway
  <2>4. ASSUME NEW i \in DOMAIN fs, i > 1 PROVE Awaits(g, fs[i - 1], fs[i])
    <3> DEFINE e == fs[i - 1]
    <3>1. i - 1 \in DOMAIN frames /\ e = frames[i - 1]
      BY <1>7, <2>4
    <3>2. g[e.of] = heap[e.of] /\ g[e.copy] = heap[e.copy]
      BY <1>2, <1>5, <3>1 DEF Underway
    <3>3. CASE i \in DOMAIN frames
      <4>1. Awaits(heap, e, fs[i])
        BY <1>7, <2>4, <3>1, <3>3 DEF Underway
      <4> HIDE DEF e
      <4> QED
        BY <3>2, <4>1 DEF Awaits, e
    <3>4. CASE i = Len(frames) + 1
      <4>1. e = Last(frames) /\ frames # <<>>
        BY <1>7, <3>1, <3>4, EmptySeq DEF Last
      <4>2. Awaits(heap, e, [of |-> v, at |-> k])
        BY <4>1
      <4>3. fs[i].of = v /\ fs[i].at = k
        BY <1>7, <3>4
      <4> HIDE DEF e
      <4> QED
        BY <3>2, <4>2, <4>3 DEF Awaits, e
    <3> QED
      BY <1>7, <3>3, <3>4
  <2> HIDE DEF old
  <2> QED
    BY <1>7, <2>1, <2>2, <2>3, <2>4 DEF Underway, old
<1>9. \E e \in [Allocated(g) \ old -> old] : Mirror(g, fs, b.heap, e)
  <2> DEFINE e == [y \in Allocated(g) \ old |-> IF y = a THEN v ELSE f[y]]
  <2>1. Allocated(g) \ old = (Live \ old) \cup {a}
    BY <1>1, <1>2, <1>5 DEF Live
  <2>2. e \in [Allocated(g) \ old -> old] /\ DOMAIN e = (Live \ old) \cup {a}
    BY <2>1
  <2>3. e[a] = v /\ \A y \in Live \ old : e[y] = f[y]
    BY <1>1, <2>1 DEF Live
  <2> HIDE DEF e, old
  <2>4. ASSUME NEW i \in DOMAIN fs PROVE e[fs[i].copy] = fs[i].of
    <3>1. CASE i \in DOMAIN frames
      <4>1. frames[i].copy \in Live \ old
        BY <1>2, <3>1 DEF Underway, Live, old
      <4> QED
        BY <1>7, <2>3, <3>1, <4>1 DEF Mirror
    <3>2. CASE i = Len(frames) + 1
      BY <1>7, <2>3, <3>2
    <3> QED
      BY <1>7, <3>1, <3>2
  <2>5. ASSUME NEW y \in Live \ old
        PROVE  /\ g[y].type = CopyType(b.heap[e[y]].type)
               /\ DOMAIN g[y].kids \subseteq DOMAIN b.heap[e[y]].kids
               /\ \A j \in DOMAIN g[y].kids : e[g[y].kids[j]] = b.heap[e[y]].kids[j]
               /\ \/ DOMAIN g[y].kids = DOMAIN b.heap[e[y]].kids
                  \/ \E i \in DOMAIN fs : y = fs[i].copy
    <3>1. g[y] = heap[y] /\ e[y] = f[y] /\ y \in DOMAIN f
      BY <1>5, <2>3 DEF Live, old
    <3>2. \A j \in DOMAIN heap[y].kids : heap[y].kids[j] \in Live \ old
      BY <1>2 DEF Members, Range, Live, old
    <3>3. \A i \in DOMAIN frames : i \in DOMAIN fs /\ fs[i].copy = frames[i].copy
      BY <1>7
    <3> QED
      BY <2>3, <3>1, <3>2, <3>3 DEF Mirror
  <2>6. /\ g[a].type = CopyType(b.heap[e[a]].type)
        /\ DOMAIN g[a].kids = {} /\ \E i \in DOMAIN fs : a = fs[i].copy
    BY <1>3, <1>5, <1>7, <2>3 DEF t
  <2>7. Mirror(g, fs, b.heap, e)
    BY <2>2, <2>4, <2>5, <2>6 DEF Mirror
  <2> QED
    BY <2>2, <2>7
<1>10. orphaned \subseteq held \cup {a}
  BY DEF Underway
<1> HIDE DEF old
<1> QED
  BY <1>1, <1>5, <1>6, <1>7, <1>8, <1>9, <1>10 DEF IInv, Live, Allocated, old

LEMMA DeepCopyStep ==
  ASSUME IInv, frames = <<>>, NEW v \in Live, DeepCopy(v)
  PROVE  IInv'
<1>1. CASE Fail
  BY <1>1, FailStep DEF Fail
<1>2. CASE Call(v, NULL) /\ before' = [heap |-> heap, held |-> held]
  <2> DEFINE b == [heap |-> heap, held |-> held]
             f == [y \in {} |-> v]
  <2>1. frames \in Seq(Frame) /\ DOMAIN frames = {}
    BY EmptySeq
  <2>2. Underway(heap, held, frames, b)
    BY <2>1 DEF Underway, IInv
  <2>3. Live \ Allocated(b.heap) = {}
    BY DEF Live
  <2>4. f \in [Live \ Allocated(b.heap) -> Allocated(b.heap)] /\ DOMAIN f = {}
    BY <2>3
  <2> HIDE DEF f
  <2>5. Mirror(heap, frames, b.heap, f)
    BY <2>1, <2>4 DEF Mirror
  <2>6. v \in Allocated(b.heap) /\ orphaned \subseteq b.held /\ before' = b
    BY <1>2 DEF Live, IInv
  <2>7. Tidy(heap, held) /\ Parents(heap, held, orphaned)
    BY DEF IInv
  <2> HIDE DEF b
  <2> QED
    BY <1>2, <2>2, <2>4, <2>5, <2>6, <2>7, CallStep
<1> QED
  BY <1>1, <1>2 DEF DeepCopy

\* While a copy goes on, everything is where the lemmas above want it.
LEMMA CopyGoesOn ==
  ASSUME IInv, frames # <<>>
  PROVE  /\ Tidy(heap, held) /\ Parents(heap, held, orphaned)
         /\ Underway(heap, held, frames, before) /\ orphaned \subseteq before.held
         /\ frames \in Seq(Frame) /\ status \in {"copying", "failing"}
         /\ status = "copying" =>
               \E f \in [Live \ Allocated(before.heap) -> Allocated(before.heap)] :
                  Mirror(heap, frames, before.heap, f)
BY DEF IInv, Underway

LEMMA CopyMemberStep ==
  ASSUME IInv, NEW k \in Names \cup (1 .. MaxItems), frames # <<>>, CopyMember(k)
  PROVE  IInv'
<1> DEFINE e == Last(frames)
           v == heap[e.of].kids[k]
<1>1. /\ Tidy(heap, held) /\ Parents(heap, held, orphaned)
      /\ Underway(heap, held, frames, before) /\ orphaned \subseteq before.held
      /\ frames \in Seq(Frame)
  BY CopyGoesOn
<1>2. /\ k \in DOMAIN heap[e.of].kids \ DOMAIN heap[e.copy].kids
      /\ heap[e.of].type = "array" => k = Len(heap[e.copy].kids) + 1
      /\ status = "copying" /\ before' = before
      /\ \/ Call(v, k)
         \/ status' = "failing" /\ UNCHANGED <<heap, held, orphaned, frames>>
  BY DEF CopyMember
<1>3. e \in Frame /\ e.of \in Allocated(before.heap)
  <2>1. Last(frames) = frames[Len(frames)] /\ Len(frames) \in DOMAIN frames
        /\ Last(frames) \in Frame
    BY <1>1, FrontIs
  <2> QED
    BY <1>1, <2>1 DEF Underway
<1>4. v \in Allocated(before.heap)
  <2>1. v \in Members(heap, e.of)
    BY <1>2 DEF Members, Range
  <2> QED
    BY <1>1, <1>3, <2>1, Apart
<1>5. CASE Call(v, k)
  <2>1. PICK f \in [Live \ Allocated(before.heap) -> Allocated(before.heap)] :
           Mirror(heap, frames, before.heap, f)
    BY <1>2, CopyGoesOn
  <2>2. Awaits(heap, e, [of |-> v, at |-> k])
    BY <1>2 DEF Awaits
  <2> HIDE DEF e, v
  <2> QED
    BY <1>1, <1>2, <1>4, <1>5, <2>1, <2>2, CallStep DEF e
<1>6. CASE status' = "failing" /\ UNCHANGED <<heap, held, orphaned, frames>>
  BY <1>1, <1>2, <1>6 DEF IInv
<1> QED
  BY <1>2, <1>5, <1>6

\* pjson_array_add and pjson_object_add with a new member: what becomes of it.
Extended(h, c, k, v) == IF h[c].type = "array" THEN Take(h, c, v) ELSE Put(h, c, k, v)

ExtendedTo(h, hs, c, k, v, g) ==
    /\ Tidy(g, hs \ {v}) /\ Keeps(h, g, hs \ {v}) /\ Allocated(g) = Allocated(h)
    /\ g[c].type = h[c].type /\ g[v].type = h[v].type /\ g[v].kids = h[v].kids
    /\ DOMAIN g[c].kids = DOMAIN h[c].kids \cup {k} /\ g[c].kids[k] = v
    /\ \A j \in DOMAIN h[c].kids : g[c].kids[j] = h[c].kids[j]
    /\ \A a \in Allocated(h) \ {c, v} : g[a] = h[a]

LEMMA Extending ==
  ASSUME NEW h, NEW hs, NEW c, NEW v, MayTake(h, hs, c, v), NEW k,
         \/ h[c].type = "array" /\ k = Len(h[c].kids) + 1
         \/ h[c].type = "object" /\ k \in Names \ DOMAIN h[c].kids
  PROVE  ExtendedTo(h, hs, c, k, v, Extended(h, c, k, v))
<1> DEFINE g == Extended(h, c, k, v)
           K == IF h[c].type = "array" THEN Append(h[c].kids, v) ELSE With(h[c].kids, k, v)
<1>1. /\ Tidy(h, hs) /\ v \in hs /\ c \in Allocated(h) /\ c \notin Below(h, v)
      /\ v \in Allocated(h)
  BY DEF MayTake, Tidy
<1>2. /\ h[c] \in Contents /\ h[v] \in Contents /\ c # v /\ c \in Addrs /\ v \in Addrs
      /\ h \in [Addrs -> Contents \cup {Free}]
  <2>1. /\ h[c] \in Contents /\ h[v] \in Contents /\ c \in Addrs /\ v \in Addrs
        /\ \A a \in Allocated(h) : Members(h, a) \subseteq Allocated(h)
    BY <1>1, AllocatedShape
  <2>2. v \in Below(h, v)
    BY <1>1, <2>1, BelowIsClosed
  <2> QED
    BY <1>1, <2>1, <2>2 DEF Tidy
<1>3. g = [h EXCEPT ![c].kids = K, ![v].parent = c]
  BY DEF Take, Put, With, Extended
<1>4. Tidy(g, hs \ {v}) /\ Keeps(h, g, hs \ {v})
  BY TakeTidy, PutTidy DEF Extended
<1>5. /\ DOMAIN K = DOMAIN h[c].kids \cup {k} /\ K[k] = v
      /\ \A j \in DOMAIN h[c].kids : K[j] = h[c].kids[j]
  <2>1. CASE h[c].type = "array"
    <3>1. h[c].kids \in Seq(Addrs) /\ k = Len(h[c].kids) + 1
      BY <1>1, <2>1 DEF Tidy, Shaped
    <3>2. /\ DOMAIN h[c].kids = 1 .. Len(h[c].kids) /\ Len(h[c].kids) \in Nat
          /\ Append(h[c].kids, v) \in Seq(Addrs)
          /\ Len(Append(h[c].kids, v)) = Len(h[c].kids) + 1
          /\ \A j \in 1 .. Len(h[c].kids) : Append(h[c].kids, v)[j] = h[c].kids[j]
          /\ Append(h[c].kids, v)[k] = v
      BY <1>2, <3>1, LenProperties, AppendProperties
    <3>3. DOMAIN Append(h[c].kids, v) = 1 .. Len(h[c].kids) + 1
      BY <3>2, LenProperties
    <3> QED
      BY <2>1, <3>1, <3>2, <3>3
  <2>2. CASE h[c].type = "object" /\ k \notin DOMAIN h[c].kids
    BY <2>2 DEF With
  <2> QED
    BY <2>1, <2>2
<1> HIDE DEF K, g
<1>6. /\ g[c] = Filled(h[c], K) /\ g[v] = Owned(h[v], c)
      /\ \A a \in Addrs \ {c, v} : g[a] = h[a]
  BY <1>2, <1>3 DEF Filled, Owned
<1>7. /\ g[c].type = h[c].type /\ g[c].kids = K
      /\ g[v].type = h[v].type /\ g[v].kids = h[v].kids
  BY <1>2, <1>6 DEF Filled, Owned, Contents
<1>8. Filled(h[c], K) \in Contents
  <2>1. CASE h[c].type = "array"
    <3>1. Shaped(Filled(h[c], Append(h[c].kids, v)))
      BY <1>1, <2>1, ArrayMembers
    <3> QED
      BY <2>1, <3>1 DEF K, Shaped
  <2>2. CASE h[c].type = "object" /\ k \in Names
    <3>1. Shaped(Filled(h[c], With(h[c].kids, k, v)))
      BY <1>1, <2>2, ObjectMembers
    <3> QED
      BY <2>2, <3>1 DEF K, Shaped
  <2> QED
    BY <2>1, <2>2
<1>9. Allocated(g) = Allocated(h)
  <2>1. g[v] # Free /\ g[c] # Free
    BY <1>2, <1>6, <1>8, FilledOwned, JsonTreeAssumption
  <2> QED
    BY <1>1, <1>6, <2>1 DEF Allocated
<1> QED
  BY <1>1, <1>2, <1>4, <1>5, <1>6, <1>7, <1>9 DEF Allocated, ExtendedTo, g

LEMMA CopyAddStep ==
  ASSUME IInv, frames # <<>>, CopyAdd
  PROVE  IInv'
<1> DEFINE n == Len(frames)
           e == frames[n - 1]
           r == frames[n]
           c == e.copy
           v == r.copy
           k == r.at
           fs == Front(frames)
           old == Allocated(before.heap)
           g == Extended(heap, c, k, v)
<1>1. /\ Tidy(heap, held) /\ Parents(heap, held, orphaned)
      /\ Underway(heap, held, frames, before) /\ orphaned \subseteq before.held
      /\ frames \in Seq(Frame)
  BY CopyGoesOn
<1>2. /\ n \in Nat /\ n > 1 /\ DOMAIN frames = 1 .. n
      /\ fs \in Seq(Frame) /\ DOMAIN fs = 1 .. n - 1 /\ fs # <<>>
      /\ \A i \in 1 .. n - 1 : fs[i] = frames[i]
      /\ Last(frames) = r /\ Last(fs) = e
  <2>1. n > 1
    BY DEF CopyAdd
  <2>2. /\ n \in Nat /\ DOMAIN frames = 1 .. n
        /\ fs \in Seq(Frame) /\ DOMAIN fs = 1 .. n - 1
        /\ \A i \in 1 .. n - 1 : fs[i] = frames[i]
        /\ Last(frames) = r /\ fs # <<>> /\ Len(fs) = n - 1
    BY <1>1, <2>1, FrontIs
  <2>3. Last(fs) = fs[n - 1]
    BY <2>2 DEF Last
  <2>4. n - 1 \in 1 .. n - 1
    BY <2>1, <2>2
  <2> HIDE DEF n, fs, r
  <2> QED
    BY <2>1, <2>2, <2>3, <2>4
<1>3. /\ status = "copying" /\ UNCHANGED <<orphaned, status, before>>
      /\ Complete(r) /\ heap' = g /\ held' = held \ {v} /\ frames' = fs
  BY <1>2 DEF CopyAdd, Extended
<1>4. PICK f \in [Live \ old -> old] : Mirror(heap, frames, before.heap, f)
  BY <1>3, CopyGoesOn
<1>5. n \in DOMAIN frames /\ n - 1 \in DOMAIN frames
  BY <1>2
<1> HIDE DEF fs, g
<1>6. /\ old \subseteq Allocated(heap)
      /\ \A y \in Allocated(heap) \ old : Members(heap, y) \subseteq Allocated(heap) \ old
      /\ \A i \in DOMAIN frames : /\ frames[i].copy \in held
                                 /\ frames[i].copy \in Allocated(heap) \ old
                                 /\ frames[i].of \in old
  <2>1. /\ old \subseteq Allocated(heap)
        /\ \A y \in Allocated(heap) \ old : Members(heap, y) \subseteq Allocated(heap) \ old
        /\ \A i \in DOMAIN frames :
              frames[i].copy \in held /\ frames[i].copy \in Allocated(heap)
    BY <1>1, Apart
  <2>2. \A i \in DOMAIN frames : frames[i].copy \notin old /\ frames[i].of \in old
    BY <1>1 DEF Underway
  <2> HIDE DEF old
  <2> QED
    BY <2>1, <2>2
<1>7. c \in held /\ v \in held /\ c # v /\ c \in Live \ old /\ v \in Live \ old
  BY <1>1, <1>2, <1>5, <1>6 DEF Underway, Live
<1>8. Awaits(heap, e, r) /\ e.of \in old /\ r.of \in old
  BY <1>1, <1>2, <1>5 DEF Underway
<1>9. /\ f[c] = e.of /\ f[v] = r.of
      /\ heap[c].type = CopyType(heap[e.of].type)
      /\ k \in DOMAIN heap[e.of].kids /\ heap[e.of].kids[k] = r.of
  <2>1. f[c] = e.of /\ f[v] = r.of
    BY <1>4, <1>5 DEF Mirror
  <2>2. heap[c].type = CopyType(before.heap[f[c]].type)
    BY <1>4, <1>7 DEF Mirror
  <2>3. before.heap[e.of] = heap[e.of]
    BY <1>1, <1>8 DEF Underway
  <2>4. k \in DOMAIN heap[e.of].kids /\ heap[e.of].kids[k] = r.of
    BY <1>8 DEF Awaits
  <2> QED
    BY <2>1, <2>2, <2>3, <2>4
<1>10. \/ heap[c].type = "array" /\ k = Len(heap[c].kids) + 1
       \/ heap[c].type = "object" /\ k \in Names \ DOMAIN heap[c].kids
  <2>1. Shaped(heap[e.of])
    BY <1>1, <1>6, <1>8 DEF Tidy
  <2>2. heap[e.of].type \in {"array", "object"}
    BY <1>9, <2>1, NoMembers DEF Shaped, Contents
  <2> HIDE DEF c, e, r, k
  <2> QED
    BY <1>8, <1>9, <2>1, <2>2 DEF CopyType, Shaped, Awaits, c, k
<1>11. MayTake(heap, held, c, v)
  <2>1. c \notin Below(heap, v)
    <3> HIDE DEF c, v
    <3> QED
      BY <1>1, <1>7, OwnersBelow DEF Live
  <2> QED
    BY <1>1, <1>7, <2>1 DEF MayTake, Live
<1> HIDE DEF c, v, k, e, r
<1>12. /\ Tidy(g, held \ {v}) /\ Keeps(heap, g, held \ {v}) /\ Allocated(g) = Allocated(heap)
       /\ g[c].type = heap[c].type /\ g[v].type = heap[v].type /\ g[v].kids = heap[v].kids
       /\ DOMAIN g[c].kids = DOMAIN heap[c].kids \cup {k} /\ g[c].kids[k] = v
       /\ \A j \in DOMAIN heap[c].kids : g[c].kids[j] = heap[c].kids[j]
       /\ \A a \in Allocated(heap) \ {c, v} : g[a] = heap[a]
  <2>1. ExtendedTo(heap, held, c, k, v, g)
    BY <1>10, <1>11, Extending DEF g
  <2> QED
    BY <2>1 DEF ExtendedTo
<1>13. Parents(g, held \ {v}, orphaned)
  BY <1>1, <1>12 DEF Parents, Keeps
<1>14. v \notin before.held /\ orphaned \subseteq held \ {v}
  <2>1. before.held \subseteq old /\ before.held \subseteq held
    BY <1>1 DEF Underway, Tidy
  <2> QED
    BY <1>1, <1>7, <2>1
<1>15. Underway(g, held \ {v}, fs, before)
  <2>1. \A a \in old : g[a] = heap[a] /\ g[a] = before.heap[a]
    BY <1>1, <1>6, <1>7, <1>12 DEF Underway
  <2>2. \A i \in 1 .. n - 1 : fs[i] = frames[i] /\ i \in DOMAIN frames /\ frames[i].copy # v
    BY <1>1, <1>2, <1>5 DEF Underway, v, r
  <2>3. held \ {v} = before.held \cup {fs[i].copy : i \in DOMAIN fs}
    <3>1. {frames[i].copy : i \in DOMAIN frames} = {fs[i].copy : i \in DOMAIN fs} \cup {v}
      <4>1. \A i \in DOMAIN frames : i \in DOMAIN fs \/ i = n
        BY <1>2
      <4> QED
        BY <1>2, <1>5, <2>2, <4>1 DEF v, r
    <3>2. v \notin {fs[i].copy : i \in DOMAIN fs}
      BY <1>2, <2>2
    <3> QED
      BY <1>1, <1>14, <3>1, <3>2 DEF Underway
  <2>4. ASSUME NEW i \in DOMAIN fs
        PROVE  /\ fs[i].of \in old /\ fs[i].copy \notin old
               /\ \A j \in DOMAIN fs : fs[i].copy = fs[j].copy => i = j
    BY <1>1, <1>2, <2>2 DEF Underway
  <2>5. ASSUME NEW i \in DOMAIN fs, i > 1 PROVE Awaits(g, fs[i - 1], fs[i])
    <3>1. /\ i \in DOMAIN frames /\ i - 1 \in DOMAIN frames /\ i - 1 \in 1 .. n - 1
          /\ i - 1 # n - 1 /\ fs[i] = frames[i] /\ fs[i - 1] = frames[i - 1]
      BY <1>2, <2>5
    <3>2. Awaits(heap, fs[i - 1], fs[i])
      BY <1>1, <2>5, <3>1 DEF Underway
    <3>3. fs[i - 1].copy # c /\ fs[i - 1].copy # v
      BY <1>1, <1>5, <2>2, <3>1 DEF Underway, c, e
    <3>4. g[fs[i - 1].copy] = heap[fs[i - 1].copy] /\ g[fs[i - 1].of] = heap[fs[i - 1].of]
      BY <1>6, <1>12, <2>1, <3>1, <3>3
    <3> QED
      BY <3>2, <3>4 DEF Awaits
  <2> HIDE DEF old
  <2> QED
    BY <1>1, <1>2, <2>1, <2>3, <2>4, <2>5 DEF Underway, old
<1>16. Mirror(g, fs, before.heap, f)
  <2>1. before.heap[e.of] = heap[e.of] /\ before.heap[r.of] = heap[r.of]
    BY <1>1, <1>8 DEF Underway
  <2>2. \A i \in DOMAIN fs : f[fs[i].copy] = fs[i].of
    BY <1>2, <1>4 DEF Mirror
  <2>3. ASSUME NEW y \in Live \ old
        PROVE  /\ g[y].type = CopyType(before.heap[f[y]].type)
               /\ DOMAIN g[y].kids \subseteq DOMAIN before.heap[f[y]].kids
               /\ \A j \in DOMAIN g[y].kids : f[g[y].kids[j]] = before.heap[f[y]].kids[j]
               /\ \/ DOMAIN g[y].kids = DOMAIN before.heap[f[y]].kids
                  \/ \E i \in DOMAIN fs : y = fs[i].copy
    <3>1. /\ heap[y].type = CopyType(before.heap[f[y]].type)
          /\ DOMAIN heap[y].kids \subseteq DOMAIN before.heap[f[y]].kids
          /\ \A j \in DOMAIN heap[y].kids : f[heap[y].kids[j]] = before.heap[f[y]].kids[j]
          /\ \/ DOMAIN heap[y].kids = DOMAIN before.heap[f[y]].kids
             \/ \E i \in DOMAIN frames : y = frames[i].copy
      BY <1>4 DEF Mirror
    <3>2. CASE y = c
      <4>1. fs[n - 1].copy = c /\ n - 1 \in DOMAIN fs
        BY <1>2 DEF c, e
      <4> QED
        BY <1>9, <1>12, <2>1, <3>1, <3>2, <4>1
    <3>3. CASE y = v
      <4>1. DOMAIN heap[r.of].kids \subseteq DOMAIN heap[v].kids
        BY <1>3 DEF Complete, v
      <4>2. g[y].kids = heap[y].kids /\ g[y].type = heap[y].type /\ f[y] = r.of
        BY <1>9, <1>12, <3>3
      <4>3. DOMAIN heap[y].kids = DOMAIN before.heap[f[y]].kids
        BY <2>1, <3>1, <3>3, <4>1, <4>2
      <4> QED
        BY <3>1, <4>2, <4>3
    <3>4. CASE y \notin {c, v}
      <4>1. g[y] = heap[y]
        BY <1>12, <3>4 DEF Live
      <4>2. \A i \in DOMAIN frames : y = frames[i].copy => i \in DOMAIN fs /\ fs[i] = frames[i]
        BY <1>2, <3>4 DEF v, r
      <4> QED
        BY <3>1, <4>1, <4>2
    <3> QED
      BY <3>2, <3>3, <3>4
  <2> QED
    BY <2>2, <2>3 DEF Mirror
<1>17. f \in [Allocated(g) \ old -> old]
  BY <1>12 DEF Live
<1> HIDE DEF old
<1> QED
  BY <1>2, <1>3, <1>12, <1>13, <1>14, <1>15, <1>16, <1>17 DEF IInv, Live, Allocated, old

\* A copy that is freed takes nothing there was before.
LEMMA CopyGivesUpStep ==
  ASSUME IInv, frames # <<>>, CopyGivesUp
  PROVE  /\ IInv'
         /\ \A a \in Allocated(before.heap) : heap'[a] = before.heap[a]
         /\ frames' = <<>> => held' = before.held
<1> DEFINE n == Len(frames)
           v == frames[n].copy
           fs == Front(frames)
           old == Allocated(before.heap)
           g == Freed(heap, v)
<1>1. /\ Tidy(heap, held) /\ Parents(heap, held, orphaned)
      /\ Underway(heap, held, frames, before) /\ orphaned \subseteq before.held
      /\ frames \in Seq(Frame)
  BY CopyGoesOn
<1>2. /\ n \in Nat \ {0} /\ DOMAIN frames = 1 .. n /\ n \in DOMAIN frames
      /\ fs \in Seq(Frame) /\ DOMAIN fs = 1 .. n - 1
      /\ \A i \in 1 .. n - 1 : fs[i] = frames[i] /\ i \in DOMAIN frames
      /\ Last(frames) = frames[n]
      /\ fs = <<>> <=> n = 1
  <2> HIDE DEF fs
  <2> QED
    BY <1>1, FrontIs DEF fs
<1>3. /\ heap' = g /\ held' = held \ {v} /\ frames' = fs /\ UNCHANGED orphaned
      /\ status' = IF n = 1 THEN "failure" ELSE "failing"
      /\ n # 1 => before' = before
  BY <1>2 DEF CopyGivesUp
<1> HIDE DEF fs, g, v, n
<1>4. /\ old \subseteq Allocated(heap) /\ v \in held /\ v \notin old
      /\ Below(heap, v) \cap old = {} /\ v \in Allocated(heap)
  <2>1. /\ old \subseteq Allocated(heap) /\ v \in held /\ v \in Allocated(heap)
        /\ Below(heap, v) \subseteq Allocated(heap) \ old
    BY <1>1, <1>2, Apart DEF v
  <2>2. v \notin old
    BY <1>1, <1>2 DEF v, Underway
  <2> QED
    BY <2>1, <2>2
<1>5. /\ Tidy(g, held \ {v}) /\ \A b \in held \ {v} : g[b] = heap[b]
      /\ \A a \in Addrs : a \notin Below(heap, v) => g[a] = heap[a]
  BY <1>1, <1>4, FreeHeld DEF g, Freed
<1>6. \A a \in old : g[a] = heap[a] /\ g[a] = before.heap[a]
  BY <1>1, <1>4, <1>5 DEF Underway, Allocated
<1>7. Parents(g, held \ {v}, orphaned)
  BY <1>1, <1>5 DEF Parents
<1>8. v \notin before.held /\ orphaned \subseteq held \ {v}
  <2>1. before.held \subseteq old /\ before.held \subseteq held
    BY <1>1 DEF Underway, Tidy
  <2> QED
    BY <1>1, <1>4, <2>1
<1>9. held \ {v} = before.held \cup {fs[i].copy : i \in DOMAIN fs}
  <2>1. {frames[i].copy : i \in DOMAIN frames} = {fs[i].copy : i \in DOMAIN fs} \cup {v}
    <3>1. \A i \in DOMAIN frames : i \in DOMAIN fs \/ i = n
      BY <1>2
    <3> QED
      BY <1>2, <3>1 DEF v
  <2>2. v \notin {fs[i].copy : i \in DOMAIN fs}
    <3>1. \A i \in 1 .. n - 1 : i # n
      BY <1>2
    <3> QED
      BY <1>1, <1>2, <3>1 DEF Underway, v
  <2> QED
    BY <1>1, <1>8, <2>1, <2>2 DEF Underway
<1>10. Underway(g, held \ {v}, fs, before)
  <2>1. ASSUME NEW i \in DOMAIN fs
        PROVE  /\ fs[i].of \in old /\ fs[i].copy \notin old
               /\ \A j \in DOMAIN fs : fs[i].copy = fs[j].copy => i = j
    BY <1>1, <1>2 DEF Underway
  <2>2. ASSUME NEW i \in DOMAIN fs, i > 1 PROVE Awaits(g, fs[i - 1], fs[i])
    <3>1. /\ i \in DOMAIN frames /\ i - 1 \in DOMAIN fs /\ i - 1 \in DOMAIN frames
          /\ fs[i] = frames[i] /\ fs[i - 1] = frames[i - 1]
      BY <1>2, <2>2
    <3>2. Awaits(heap, fs[i - 1], fs[i])
      BY <1>1, <2>2, <3>1 DEF Underway
    <3>3. fs[i - 1].of \in old /\ fs[i - 1].copy \in held \ {v}
      BY <1>9, <2>1, <3>1
    <3> QED
      BY <1>5, <1>6, <3>2, <3>3 DEF Awaits
  <2> HIDE DEF old
  <2> QED
    BY <1>1, <1>2, <1>6, <1>9, <2>1, <2>2 DEF Underway, old
<1>11. frames' = <<>> => held' = before.held
  <2>1. fs = <<>> => DOMAIN fs = {}
    BY <1>2
  <2> QED
    BY <1>3, <1>9, <2>1
<1>12. IInv'
  <2>1. CASE n = 1
    BY <1>2, <1>3, <1>5, <1>7, <1>8, <2>1 DEF IInv
  <2>2. CASE n # 1
    BY <1>1, <1>2, <1>3, <1>5, <1>7, <1>8, <1>10, <2>2 DEF IInv
  <2> QED
    BY <2>1, <2>2
<1> QED
  BY <1>3, <1>6, <1>11, <1>12

LEMMA CopyStepInv ==
  ASSUME IInv, CopyStep
  PROVE  IInv'
<1>1. frames # <<>>
  <2>1. CASE \E k \in Names \cup (1 .. MaxItems) : CopyMember(k)
    BY <2>1 DEF CopyMember, IInv
  <2>2. CASE CopyAdd \/ CopyReturns
    BY <2>2 DEF CopyAdd, CopyReturns, IInv
  <2>3. CASE CopyGivesUp
    BY <2>3 DEF CopyGivesUp, IInv
  <2> QED
    BY <2>1, <2>2, <2>3 DEF CopyStep
<1>2. CASE \E k \in Names \cup (1 .. MaxItems) : CopyMember(k)
  BY <1>1, <1>2, CopyMemberStep
<1>3. CASE CopyAdd
  BY <1>1, <1>3, CopyAddStep
<1>4. CASE CopyReturns
  BY <1>4 DEF CopyReturns, IInv
<1>5. CASE CopyGivesUp
  BY <1>1, <1>5, CopyGivesUpStep
<1> QED
  BY <1>2, <1>3, <1>4, <1>5 DEF CopyStep

LEMMA InvInit ==
  ASSUME TreeInit
  PROVE  IInv
<1>1. Allocated(heap) = {}
  BY DEF TreeInit, Allocated
<1>2. Tidy(heap, held)
  BY <1>1 DEF Tidy, TreeInit, Closed
<1> QED
  BY <1>2 DEF IInv, TreeInit, Parents

LEMMA CallsStep ==
  ASSUME IInv, frames = <<>>, Calls
  PROVE  IInv'
<1>1. Type("object") \subseteq Live /\ Type("array") \subseteq Live
  BY DEF Type
<1>2. CASE \E t \in {"object", "array", "leaf"} : New(t)
  BY <1>2, NewStep
<1>3. CASE \E v \in Live : DeepCopy(v)
  BY <1>3, DeepCopyStep
<1>4. ASSUME NEW o \in Type("object"), NEW n \in Names,
             \/ SetLeaf(o, n) \/ ObjectRemove(o, n) \/ ObjectClear(o)
             \/ \E m \in Names : DotsetLeaf(o, n, m) \/ Dotremove(o, n, m)
             \/ \E v \in Live : Set(o, n, v) \/ \E m \in Names : Dotset(o, n, m, v)
      PROVE  IInv'
  <2>1. CASE SetLeaf(o, n) \/ ObjectRemove(o, n)
    BY <2>1, SetLeafStep, RemoveStep
  <2>2. CASE ObjectClear(o)
    BY <1>1, <2>2, ClearStep DEF ObjectClear
  <2>3. CASE \E m \in Names : DotsetLeaf(o, n, m) \/ Dotremove(o, n, m)
    BY <2>3, DotsetLeafStep, DotremoveStep
  <2>4. CASE \E v \in Live : Set(o, n, v)
    BY <2>4, SetStep
  <2>5. CASE \E v \in Live : \E m \in Names : Dotset(o, n, m, v)
    BY <2>5, DotsetStep
  <2> QED
    BY <1>4, <2>1, <2>2, <2>3, <2>4, <2>5
<1>5. ASSUME NEW r \in Type("array"), NEW i \in 1 .. MaxItems,
             \/ ArrayRemove(r, i) \/ ArrayAppendLeaf(r) \/ ArrayReplaceLeaf(r, i)
             \/ ArrayClear(r)
             \/ \E v \in Live : ArrayAppend(r, v) \/ ArrayReplace(r, i, v)
      PROVE  IInv'
  <2>1. CASE ArrayRemove(r, i)
    BY <2>1, ArrayRemoveStep
  <2>2. CASE ArrayAppendLeaf(r) \/ ArrayReplaceLeaf(r, i)
    BY <2>2, AppendLeafStep, ReplaceLeafStep
  <2>3. CASE ArrayClear(r)
    BY <1>1, <2>3, ClearStep DEF ArrayClear
  <2>4. CASE \E v \in Live : ArrayAppend(r, v) \/ ArrayReplace(r, i, v)
    BY <2>4, AppendStep, ReplaceStep
  <2> QED
    BY <1>5, <2>1, <2>2, <2>3, <2>4
<1> QED
  BY <1>2, <1>3, <1>4, <1>5 DEF Calls

LEMMA InvStep ==
  ASSUME IInv, [TreeNext]_treeVars
  PROVE  IInv'
<1>1. CASE frames = <<>> /\ \E v \in held : ValueFree(v)
  BY <1>1, FreeStep
<1>2. CASE frames = <<>> /\ Calls
  BY <1>2, CallsStep
<1>3. CASE CopyStep
  BY <1>3, CopyStepInv
<1>4. CASE UNCHANGED treeVars
  BY <1>4 DEF IInv, Live, treeVars
<1> QED
  BY <1>1, <1>2, <1>3, <1>4 DEF TreeNext

\* Every call keeps the invariant, and the calls that follow on what it gives.
THEOREM Invariant == TreeSpec => []IInv
<1>1. TreeInit => IInv
  BY InvInit
<1>2. IInv /\ [TreeNext]_treeVars => IInv'
  BY InvStep
<1> QED
  BY <1>1, <1>2, PTL DEF TreeSpec

-----------------------------------------------------------------------------
(* What the invariant gives *)

LEMMA TypesFollow ==
  ASSUME IInv
  PROVE  TreeTypeOK
<1>1. \A a \in Live : Shaped(heap[a])
  BY DEF IInv, Tidy, Live
<1> QED
  BY <1>1 DEF IInv, Tidy, TreeTypeOK, Shaped, Live

LEMMA PlacesOfHeld ==
  ASSUME IInv, NEW v \in held
  PROVE  Places(v) = {<<"local", v>>}
<1>1. \A c \in Live : v \notin Members(heap, c)
  BY DEF IInv, Tidy, Live
<1>2. \A c \in Live : {k \in DOMAIN heap[c].kids : heap[c].kids[k] = v} = {}
  BY <1>1 DEF Members, Range
<1>3. UNION {{c} \X {k \in DOMAIN heap[c].kids : heap[c].kids[k] = v} : c \in Live} = {}
  BY <1>2
<1>4. {h \in held : h = v} = {v}
  OBVIOUS
<1> QED
  BY <1>3, <1>4 DEF Places

LEMMA PlacesOfMember ==
  ASSUME IInv, NEW v \in Live \ held
  PROVE  \E p : Places(v) = {p}
<1> DEFINE o == heap[v].parent
           At(c) == {k \in DOMAIN heap[c].kids : heap[c].kids[k] = v}
<1>1. o \in Live /\ v \in Members(heap, o) /\ IsInjective(heap[o].kids)
  BY DEF IInv, Tidy, Live
<1>2. \A c \in Live : v \in Members(heap, c) => c = o
  BY DEF IInv, Tidy, Live
<1> HIDE DEF o
<1>3. PICK k \in DOMAIN heap[o].kids : heap[o].kids[k] = v
  BY <1>1 DEF Members, Range
<1>4. At(o) = {k}
  BY <1>1, <1>3 DEF IsInjective
<1>5. \A c \in Live : c # o => At(c) = {}
  BY <1>2 DEF Members, Range
<1>6. {h \in held : h = v} = {}
  OBVIOUS
<1>7. Places(v) = ({"local"} \X {h \in held : h = v}) \cup UNION {{c} \X At(c) : c \in Live}
  BY DEF Places
<1> HIDE DEF At
<1>8. UNION {{c} \X At(c) : c \in Live} = {<<o, k>>}
  BY <1>1, <1>4, <1>5
<1> QED
  BY <1>6, <1>7, <1>8

\* Everything is below the caller's values.
LEMMA AllBelow ==
  ASSUME IInv
  PROVE  Live = UNION {Below(heap, v) : v \in held}
<1> DEFINE S == UNION {Below(heap, v) : v \in held}
<1>1. Tidy(heap, held) /\ held \subseteq Allocated(heap)
  BY DEF IInv, Tidy
<1>2. \A v \in held : /\ v \in Below(heap, v) /\ Below(heap, v) \subseteq Allocated(heap)
                      /\ Closed(heap, Below(heap, v))
  BY <1>1, AllocatedShape, BelowIsClosed
<1>3. S \in SUBSET Allocated(heap) /\ held \subseteq S /\ Closed(heap, S)
  BY <1>2 DEF Closed
<1> HIDE DEF S
<1>4. S = Allocated(heap)
  BY <1>1, <1>3 DEF Tidy
<1> QED
  BY <1>4 DEF Live, S

\* After any calls, failed ones included, every value is in one place, the
\* caller's or a container's, no place names a freed value, and nothing is leaked
\* (pjson_value_free and the set, append, replace, remove and clear functions).
THEOREM ValuesHaveOneOwner == TreeSpec => []OneOwner
<1>1. IInv => OneOwner
  <2> SUFFICES ASSUME IInv PROVE OneOwner
    OBVIOUS
  <2>1. \A v \in Live : Cardinality(Places(v)) = 1
    BY PlacesOfHeld, PlacesOfMember, FS_Singleton
  <2>2. \A v \in Live : Members(heap, v) \subseteq Live
    BY DEF IInv, Tidy, Live
  <2> QED
    BY <2>1, <2>2, TypesFollow, AllBelow DEF OneOwner
<1> QED
  BY <1>1, Invariant, PTL

\* The parent of a value is the container it is in, and NULL, or left by a failed
\* dotset, for a value of the caller's: the test of parent in
\* pjson_object_set_value, pjson_array_append_value and pjson_array_replace_value
\* refuses every value that is owned.
THEOREM ParentsNameOwners == TreeSpec => []ParentIsOwner
<1>1. IInv => ParentIsOwner
  BY DEF IInv, Tidy, Parents, Live, ParentIsOwner
<1> QED
  BY <1>1, Invariant, PTL

\* A failed dotset leaves v with the address of the object it made.
LeftBehind(v) ==
    /\ heap[v].parent = NULL /\ Fresh # {} /\ UNCHANGED held
    /\ heap' = Left(heap, v, NewAddr({}))

\* Whatever a call made before it failed, it ends in one of two ways.
LEMMA HowCallsFail ==
  ASSUME IInv, frames = <<>>, (\E v \in held : ValueFree(v)) \/ Calls, status' = "failure"
  PROVE  FailWith(heap) \/ \E v \in Live : LeftBehind(v)
<1>1. ASSUME NEW g, NEW hs PROVE ~Succeed(g, hs)
  BY DEF Succeed, Returns
<1>2. ASSUME NEW o, NEW n, NEW v \in Live, Set(o, n, v) PROVE FailWith(heap)
  BY <1>1, <1>2 DEF Set, Fail
<1>3. ASSUME NEW o, NEW n, SetLeaf(o, n) \/ ObjectRemove(o, n) PROVE FailWith(heap)
  <2>1. CASE SetLeaf(o, n)
    BY <1>1, <2>1, HalfMade DEF SetLeaf, Fail
  <2>2. CASE ObjectRemove(o, n)
    BY <1>1, <2>2 DEF ObjectRemove, Fail
  <2> QED
    BY <1>3, <2>1, <2>2
<1>4. CASE \E t \in {"object", "array", "leaf"} : New(t)
  BY <1>1, <1>4 DEF New, Fail
<1>5. CASE \E v \in Live : DeepCopy(v)
  BY <1>5 DEF DeepCopy, Fail, Call
<1>6. CASE \E v \in held : ValueFree(v)
  BY <1>1, <1>6 DEF ValueFree
<1>7. ASSUME NEW o \in Type("object"), NEW n \in Names,
             \/ SetLeaf(o, n) \/ ObjectRemove(o, n) \/ ObjectClear(o)
             \/ \E m \in Names : DotsetLeaf(o, n, m) \/ Dotremove(o, n, m)
             \/ \E v \in Live : Set(o, n, v) \/ \E m \in Names : Dotset(o, n, m, v)
      PROVE  FailWith(heap) \/ \E v \in Live : LeftBehind(v)
  <2>1. CASE ObjectClear(o)
    BY <1>1, <2>1 DEF ObjectClear
  <2>2. ASSUME NEW m \in Names, DotsetLeaf(o, n, m) PROVE FailWith(heap)
    <3>1. \A a, b, h :
             /\ a = NewAddr({}) /\ b = NewAddr({a}) /\ Fresh # {} /\ Fresh # {a}
             /\ h = [heap EXCEPT ![a] = Value("leaf", NULL), ![b] = Value("object", NULL)]
             /\ \/ FailWith(Freed(Freed(h, b), a))
                \/ FailWith(Freed(Rollback(Put(h, b, m, a), b, m), a))
             => FailWith(heap)
      BY TwoHalfMade
    <3> QED
      BY <1>1, <1>3, <2>2, <3>1, HalfMade DEF DotsetLeaf, Fail
  <2>3. ASSUME NEW m \in Names, Dotremove(o, n, m) PROVE FailWith(heap)
    BY <1>3, <2>3 DEF Dotremove, Fail
  <2>4. ASSUME NEW m \in Names, NEW v \in Live, Dotset(o, n, m, v)
        PROVE  FailWith(heap) \/ LeftBehind(v)
    <3>1. CASE Fail
      BY <3>1 DEF Fail
    <3>2. CASE Set(heap[o].kids[n], m, v)
      BY <1>2, <3>2
    <3>3. CASE /\ Fresh # {}
               /\ FailWith(Freed([heap EXCEPT ![NewAddr({})] = Value("object", NULL)],
                                 NewAddr({})))
      BY <3>3, HalfMade
    <3>4. ASSUME NEW a, a = NewAddr({}), Fresh # {}, heap[v].parent = NULL,
                 Returns(Rollback(Put([heap EXCEPT ![a] = Value("object", NULL)], a, m, v),
                                  a, m), held, orphaned \cup {v}, "failure")
          PROVE  LeftBehind(v)
      <4>1. a \in Addrs \ Allocated(heap) /\ heap \in [Addrs -> Contents \cup {Free}]
            /\ v \in Allocated(heap)
        BY <3>4, NewAddrIsFree DEF Live, IInv, Tidy
      <4>2. Rollback(Put([heap EXCEPT ![a] = Value("object", NULL)], a, m, v), a, m)
               = Left(heap, v, a)
        BY <4>1, RollbackLeaves DEF WithNew
      <4> QED
        BY <3>4, <4>2 DEF LeftBehind, Returns
    <3> QED
      BY <1>1, <2>4, <3>1, <3>2, <3>3, <3>4 DEF Dotset
  <2> QED
    BY <1>2, <1>3, <1>7, <2>1, <2>2, <2>3, <2>4
<1>8. ASSUME NEW r \in Type("array"), NEW i \in 1 .. MaxItems,
             \/ ArrayRemove(r, i) \/ ArrayAppendLeaf(r) \/ ArrayReplaceLeaf(r, i)
             \/ ArrayClear(r)
             \/ \E v \in Live : ArrayAppend(r, v) \/ ArrayReplace(r, i, v)
      PROVE  FailWith(heap)
  <2>1. CASE ArrayAppendLeaf(r)
    BY <1>1, <2>1, HalfMade DEF ArrayAppendLeaf, Fail
  <2>2. CASE ArrayReplaceLeaf(r, i)
    BY <1>1, <2>2, HalfMade DEF ArrayReplaceLeaf, Fail
  <2> QED
    BY <1>1, <1>8, <2>1, <2>2
    DEF ArrayRemove, ArrayClear, ArrayAppend, ArrayReplace, Fail
<1> QED
  BY <1>4, <1>5, <1>6, <1>7, <1>8 DEF Calls

\* A heap and the caller's values as they were in b, but for parents.
AsBefore(b) ==
    /\ held' = b.held /\ Live' = Allocated(b.heap)
    /\ \A a \in Live' : heap'[a].type = b.heap[a].type /\ heap'[a].kids = b.heap[a].kids

\* When the last call of a failing copy has freed its part, nothing is left of it:
\* no value that was not there before is below the caller's.
LEMMA GivingUpTidy ==
  ASSUME IInv, CopyStep, status' = "failure"
  PROVE  frames # <<>> /\ AsBefore(before)
<1>1. CopyGivesUp
  BY DEF CopyStep, CopyMember, Call, CopyAdd, CopyReturns
<1>2. frames # <<>>
  BY <1>1 DEF CopyGivesUp, IInv
<1>3. /\ IInv' /\ \A a \in Allocated(before.heap) : heap'[a] = before.heap[a]
      /\ frames' = <<>> => held' = before.held
  BY <1>1, <1>2, CopyGivesUpStep
<1>4. frames' = <<>> /\ held' = before.held
  BY <1>3 DEF IInv
<1> DEFINE old == Allocated(before.heap)
<1>5. Tidy(before.heap, before.held)
  BY <1>2 DEF IInv, Underway
<1>6. old \in SUBSET Live' /\ held' \subseteq old /\ Closed(heap', old)
  <2>1. \A a \in old : heap'[a] # Free /\ a \in Addrs
    BY <1>3 DEF Allocated
  <2>2. \A a \in old : Members(before.heap, a) \subseteq old
    BY <1>5 DEF Tidy
  <2> QED
    BY <1>3, <1>4, <1>5, <2>1, <2>2 DEF Live, Allocated, Closed, Members, Tidy
<1>7. Tidy(heap', held') /\ Live' = Allocated(heap')
  BY <1>3 DEF IInv, Live, Allocated
<1>8. Live' = old
  <2> HIDE DEF old
  <2> QED
    BY <1>6, <1>7 DEF Tidy
<1> QED
  BY <1>2, <1>3, <1>4, <1>8 DEF AsBefore

\* A call that fails frees what it has made, be it the leaf of a set, the object of
\* a dotset or the part there is of a copy, and nothing else: every container has
\* the members it had and the caller its values.
THEOREM FailuresChangeNothing == TreeSpec => FailureChangesNothing
<1> DEFINE now == [heap |-> heap, held |-> held]
           then == IF frames = <<>> THEN now ELSE before
<1>1. ASSUME UNCHANGED <<heap, held>> PROVE AsBefore(now)
  BY <1>1 DEF AsBefore, Live, Allocated
<1>2. ASSUME IInv, frames = <<>>, NEW v \in Live, LeftBehind(v) PROVE AsBefore(now)
  <2> DEFINE a == NewAddr({})
             g == Left(heap, v, a)
  <2>1. v \in held /\ a \in Addrs /\ Tidy(heap, held)
    BY <1>2, NewAddrIsFree, Unowned DEF IInv, LeftBehind
  <2>2. heap' = g /\ held' = held
    BY <1>2 DEF LeftBehind
  <2> HIDE DEF a
  <2>3. /\ Allocated(g) = Allocated(heap)
        /\ \A b \in Allocated(heap) : g[b].type = heap[b].type /\ g[b].kids = heap[b].kids
    BY <2>1, LeftTidy
  <2> HIDE DEF g
  <2> QED
    BY <2>2, <2>3 DEF AsBefore, Live, Allocated
<1>3. ASSUME IInv, [TreeNext]_treeVars, status' = "failure" PROVE AsBefore(then)
  <2>1. CASE frames = <<>> /\ ((\E v \in held : ValueFree(v)) \/ Calls)
    <3>1. CASE FailWith(heap)
      BY <1>1, <2>1, <3>1 DEF FailWith, Returns
    <3>2. CASE \E v \in Live : LeftBehind(v)
      BY <1>2, <1>3, <2>1, <3>2
    <3> QED
      BY <1>3, <2>1, <3>1, <3>2, HowCallsFail
  <2>2. CASE CopyStep
    BY <1>3, <2>2, GivingUpTidy
  <2>3. CASE UNCHANGED treeVars
    <3>1. UNCHANGED <<heap, held>> /\ frames = <<>>
      BY <1>3, <2>3 DEF treeVars, IInv
    <3> QED
      BY <1>1, <3>1
  <2> QED
    BY <1>3, <2>1, <2>2, <2>3 DEF TreeNext
<1>4. IInv /\ [TreeNext]_treeVars =>
         [status' = "failure" =>
            LET u == IF frames = <<>> THEN [heap |-> heap, held |-> held] ELSE before
            IN  /\ held' = u.held
                /\ Live' = Allocated(u.heap)
                /\ \A a \in Live' : /\ heap'[a].type = u.heap[a].type
                                    /\ heap'[a].kids = u.heap[a].kids]_treeVars
  BY <1>3 DEF AsBefore
<1> QED
  BY <1>4, Invariant, PTL DEF TreeSpec, FailureChangesNothing

\* The end of a copy: the outermost call has all members of its argument.
LEMMA CopyEnds ==
  ASSUME IInv, [TreeNext]_treeVars, frames # <<>>, status' = "success"
  PROVE  CopyReturns
<1>1. ~UNCHANGED treeVars
  BY DEF treeVars, IInv
<1>2. CopyStep
  BY <1>1 DEF TreeNext
<1> QED
  BY <1>2 DEF CopyStep, CopyMember, Call, CopyAdd, CopyGivesUp

\* What pjson_value_deep_copy has built when its loops are over is equal to its
\* argument, member by member down to the leaves, shares nothing with it, and no
\* value there was before has been touched.
THEOREM CopiesAreEqual == TreeSpec => CopyIsEqual
<1>1. ASSUME IInv, [TreeNext]_treeVars, frames # <<>>, status' = "success"
      PROVE  /\ Same(before.heap, frames[1].of, heap', frames[1].copy)
             /\ Below(heap', frames[1].copy) \cap Allocated(before.heap) = {}
             /\ held' = before.held \cup {frames[1].copy}
             /\ \A a \in Allocated(before.heap) : heap'[a] = before.heap[a]
  <2> DEFINE old == Allocated(before.heap)
             v == frames[1].of
             c == frames[1].copy
             B == Below(heap, c)
  <2>1. /\ Tidy(heap, held) /\ Underway(heap, held, frames, before) /\ frames \in Seq(Frame)
    BY <1>1, CopyGoesOn
  <2>2. /\ DOMAIN frames = {1} /\ Complete(frames[1]) /\ status = "copying"
        /\ heap' = heap /\ held' = held
    <3>1. CopyReturns
      BY <1>1, CopyEnds
    <3>2. /\ Len(frames) = 1 /\ DOMAIN frames = 1 .. Len(frames)
          /\ Last(frames) = frames[Len(frames)]
      BY <1>1, <2>1, <3>1, FrontIs DEF CopyReturns
    <3> QED
      BY <3>1, <3>2 DEF CopyReturns
  <2>3. PICK f \in [Live \ old -> old] : Mirror(heap, frames, before.heap, f)
    BY <1>1, <2>2, CopyGoesOn
  <2>4. /\ c \in Allocated(heap) /\ B \subseteq Live \ old
        /\ v \in old /\ held = before.held \cup {c}
        /\ \A a \in old : heap[a] = before.heap[a]
    <3>1. c \in Allocated(heap) /\ B \subseteq Allocated(heap) \ old
      BY <2>1, <2>2, Apart
    <3> QED
      BY <2>1, <2>2, <3>1 DEF Underway, Live
  <2>5. c \in B /\ Closed(heap, B)
    BY <2>1, <2>4, AllocatedShape, BelowIsClosed
  <2>6. f[c] = v
    BY <2>2, <2>3 DEF Mirror
  <2> HIDE DEF B, v, c
  <2>7. ASSUME NEW y \in B
        PROVE  /\ SameType(heap[y].type, before.heap[f[y]].type)
               /\ DOMAIN heap[y].kids = DOMAIN before.heap[f[y]].kids
               /\ \A k \in DOMAIN heap[y].kids :
                     /\ heap[y].kids[k] \in B
                     /\ f[heap[y].kids[k]] = before.heap[f[y]].kids[k]
    <3>1. y \in Live \ old
      BY <2>4
    <3>2. /\ heap[y].type = CopyType(before.heap[f[y]].type)
          /\ DOMAIN heap[y].kids \subseteq DOMAIN before.heap[f[y]].kids
          /\ \A k \in DOMAIN heap[y].kids : f[heap[y].kids[k]] = before.heap[f[y]].kids[k]
          /\ DOMAIN heap[y].kids = DOMAIN before.heap[f[y]].kids \/ y = c
      BY <2>2, <2>3, <3>1 DEF Mirror, c
    <3>3. DOMAIN before.heap[f[c]].kids \subseteq DOMAIN heap[c].kids
      BY <2>2, <2>4, <2>6 DEF Complete, c, v
    <3>4. \A k \in DOMAIN heap[y].kids : heap[y].kids[k] \in B
      BY <2>5 DEF Closed, Members, Range
    <3> QED
      BY <3>2, <3>3, <3>4 DEF SameType, CopyType
  <2>8. \A y \in B : f[y] \in Below(before.heap, v)
    <3> DEFINE S == {y \in B : f[y] \in Below(before.heap, v)}
    <3>1. /\ v \in Below(before.heap, v) /\ Below(before.heap, v) \subseteq old
          /\ Closed(before.heap, Below(before.heap, v))
      BY <2>1, <2>4, AllocatedShape, BelowIsClosed DEF Underway
    <3>2. c \in S
      BY <2>5, <2>6, <3>1
    <3>3. ASSUME NEW y \in S, NEW d \in Members(heap, y) PROVE d \in S
      <4>1. PICK k \in DOMAIN heap[y].kids : heap[y].kids[k] = d
        BY DEF Members, Range
      <4>2. d \in B /\ f[d] = before.heap[f[y]].kids[k] /\ k \in DOMAIN before.heap[f[y]].kids
        BY <2>7, <4>1
      <4>3. f[d] \in Members(before.heap, f[y])
        BY <4>2 DEF Members, Range
      <4> QED
        BY <3>1, <4>2, <4>3 DEF Closed
    <3>4. S \in SUBSET Allocated(heap) /\ Closed(heap, S)
      BY <2>4, <3>3 DEF Closed, Live
    <3> HIDE DEF S
    <3>5. B \subseteq S
      BY <2>1, <2>4, <3>2, <3>4, BelowWithin DEF B
    <3> QED
      BY <3>5 DEF S
  <2>9. Same(before.heap, v, heap, c)
    <3> DEFINE e == [y \in B |-> f[y]]
    <3>1. e \in [B -> Below(before.heap, v)] /\ \A y \in B : e[y] = f[y]
      BY <2>8
    <3> HIDE DEF e
    <3>2. \A y \in B :
             /\ SameType(heap[y].type, before.heap[e[y]].type)
             /\ DOMAIN heap[y].kids = DOMAIN before.heap[e[y]].kids
             /\ \A k \in DOMAIN heap[y].kids : e[heap[y].kids[k]] = before.heap[e[y]].kids[k]
      BY <2>7, <3>1
    <3>3. e[c] = v
      BY <2>5, <2>6, <3>1
    <3> QED
      BY <3>1, <3>2, <3>3 DEF Same, B
  <2> QED
    BY <2>2, <2>4, <2>9 DEF B, c, v
<1>2. IInv /\ [TreeNext]_treeVars =>
         [frames # <<>> /\ status' = "success" =>
            LET v == frames[1].of
                c == frames[1].copy
            IN  /\ Same(before.heap, v, heap', c)
                /\ Below(heap', c) \cap Allocated(before.heap) = {}
                /\ held' = before.held \cup {c}
                /\ \A a \in Allocated(before.heap) : heap'[a] = before.heap[a]]_treeVars
  BY <1>1
<1> QED
  BY <1>2, Invariant, PTL DEF TreeSpec, CopyIsEqual

-----------------------------------------------------------------------------
(* The table of an object: cells and members are Linked, and every probe   *)
(* Reaches its member.  An insertion, a rehash and a removal keep both;    *)
(* within a removal one cell, the hole, may be in the way (ScanInv).       *)

\* How many cells behind a, around the end of the table, b is.
Dist(cap, a, b) == IF a <= b THEN b - a ELSE b - a + cap

\* Where the probe for n starts.
Start(cap, n) == Hash[n] % cap

\* The name of the member of cell c.
Named(t, c) == t.items[t.cells[c]].name

\* The members and the tables of so many cells.
Entries(cap) == [name : Keys, value : Values, cell : 0 .. cap - 1]
Tables(cap) == [cells : [0 .. cap - 1 -> Nat], items : Seq(Entries(cap)), count : Nat]

\* Cells and members name each other, and no two members have one name.
Linked(t, cap) ==
    /\ t \in Tables(cap)
    /\ t.count = Len(t.items)
    /\ \A i \in 1 .. t.count : t.cells[t.items[i].cell] = i
    /\ \A c \in 0 .. cap - 1 :
          t.cells[c] # NoItem => t.cells[c] \in 1 .. t.count /\ t.items[t.cells[c]].cell = c
    /\ \A i, j \in 1 .. t.count : t.items[i].name = t.items[j].name => i = j

\* The probe for a member finds no empty cell before it, but maybe the hole.
Reaches(t, cap, hole) ==
    \A c, d \in 0 .. cap - 1 :
        /\ t.cells[c] # NoItem
        /\ Dist(cap, Start(cap, Named(t, c)), d) < Dist(cap, Start(cap, Named(t, c)), c)
        => t.cells[d] # NoItem \/ d = hole

\* What every operation of the table relies on and restores.
Sound(t, cap) == cap \in Nat /\ Linked(t, cap) /\ Reaches(t, cap, -1)

\* M is what the members of t say.
Maps(t, M) ==
    /\ M = [n \in DOMAIN M |-> M[n]]
    /\ DOMAIN M = {t.items[i].name : i \in 1 .. t.count}
    /\ \A i \in 1 .. t.count : M[t.items[i].name] = t.items[i].value

-----------------------------------------------------------------------------
(* Numbers, around the end of the table *)

LEMMA LeastNumber ==
  ASSUME NEW S \in SUBSET Nat, S # {}
  PROVE  \E i \in S : \A j \in S : i <= j
<1> DEFINE R == OpToRel(<, Nat)
<1>1. \A i, j \in Nat : i < j => <<i, j>> \in R
  BY DEF OpToRel
<1>2. IsWellFoundedOn(R, Nat)
  BY NatLessThanWellFounded
<1> HIDE DEF R
<1>3. PICK i \in S : \A j \in S : ~(<<j, i>> \in R)
  BY <1>2, WFMin
<1>4. ASSUME NEW j \in S PROVE i <= j
  <2>1. ~(j < i)
    BY <1>1, <1>3
  <2> QED
    BY <2>1
<1> QED
  BY <1>4

LEMMA Remainder ==
  ASSUME NEW h \in Nat, NEW c \in Nat, c > 0
  PROVE  h % c \in 0 .. c - 1
OBVIOUS

LEMMA Multiples ==
  ASSUME NEW c \in Nat, c > 0, NEW q \in Int, NEW r \in 0 .. c - 1
  PROVE  (c * q + r) % c = r
OBVIOUS

\* i cells behind the start of a probe, around the end of the table.
LEMMA Around ==
  ASSUME NEW h \in Nat, NEW c \in Nat, c > 0, NEW i \in 0 .. c - 1
  PROVE  /\ (h + i) % c \in 0 .. c - 1
         /\ Dist(c, h % c, (h + i) % c) = i
<1> DEFINE r == h % c
           q == h \div c
<1>1. r \in 0 .. c - 1 /\ q \in Int /\ h = c * q + r
  OBVIOUS
<1>2. (h + i) % c \in 0 .. c - 1
  OBVIOUS
<1>3. CASE r + i < c
  <2>1. h + i = c * q + (r + i) /\ r + i \in 0 .. c - 1
    BY <1>1, <1>3
  <2>2. (h + i) % c = r + i
    <3> HIDE DEF r, q
    <3> QED
      BY <1>1, <2>1, Multiples
  <2> QED
    BY <1>1, <1>2, <2>2 DEF Dist
<1>4. CASE r + i >= c
  <2>1. h + i = c * (q + 1) + (r + i - c) /\ r + i - c \in 0 .. c - 1 /\ q + 1 \in Int
    BY <1>1, <1>4
  <2>2. (h + i) % c = r + i - c
    <3> HIDE DEF r, q
    <3> QED
      BY <1>1, <2>1, Multiples
  <2> QED
    BY <1>1, <1>2, <1>4, <2>2 DEF Dist
<1> QED
  BY <1>1, <1>3, <1>4

LEMMA Distances ==
  ASSUME NEW c \in Nat, NEW a \in 0 .. c - 1
  PROVE  /\ \A b \in 0 .. c - 1 : Dist(c, a, b) \in 0 .. c - 1
         /\ \A b, d \in 0 .. c - 1 : Dist(c, a, b) = Dist(c, a, d) => b = d
BY DEF Dist

LEMMA Capacity ==
  ASSUME NEW t, NEW cap \in Nat, DOMAIN t.cells = 0 .. cap - 1
  PROVE  CellCapacity(t) = cap
BY FS_Interval DEF CellCapacity

\* What a table has in its cells and members.
LEMMA Shape ==
  ASSUME NEW cap \in Nat, NEW t, Linked(t, cap)
  PROVE  /\ t = [cells |-> t.cells, items |-> t.items, count |-> t.count]
         /\ t.cells \in [0 .. cap - 1 -> Nat] /\ DOMAIN t.cells = 0 .. cap - 1
         /\ t.items \in Seq(Entries(cap)) /\ Len(t.items) = t.count
         /\ t.count \in Nat /\ DOMAIN t.items = 1 .. t.count
         /\ CellCapacity(t) = cap
         /\ \A i \in 1 .. t.count :
               /\ t.items[i] \in Entries(cap) /\ t.items[i].name \in Keys
               /\ t.items[i].value \in Values /\ t.items[i].cell \in 0 .. cap - 1
<1>1. /\ t = [cells |-> t.cells, items |-> t.items, count |-> t.count]
      /\ t.cells \in [0 .. cap - 1 -> Nat] /\ t.items \in Seq(Entries(cap)) /\ t.count \in Nat
      /\ Len(t.items) = t.count
  BY DEF Linked, Tables
<1>2. DOMAIN t.items = 1 .. t.count
  BY <1>1, LenProperties
<1>3. \A i \in 1 .. t.count : t.items[i] \in Entries(cap)
  BY <1>1, <1>2, ElementOfSeq
<1>4. \A i \in 1 .. t.count :
               /\ t.items[i].name \in Keys
               /\ t.items[i].value \in Values /\ t.items[i].cell \in 0 .. cap - 1
  BY <1>3 DEF Entries
<1>5. CellCapacity(t) = cap
  BY <1>1, Capacity
<1> QED
  BY <1>1, <1>2, <1>3, <1>4, <1>5

\* Cells that hold members are fewer than the cells.
LEMMA FreeCell ==
  ASSUME NEW cap \in Nat, NEW t, Linked(t, cap), t.count < cap
  PROVE  \E c \in 0 .. cap - 1 : t.cells[c] = NoItem
<1> SUFFICES ASSUME \A c \in 0 .. cap - 1 : t.cells[c] # NoItem
             PROVE  FALSE
  OBVIOUS
<1>1. t.count \in Nat /\ t.cells \in [0 .. cap - 1 -> 1 .. t.count]
  BY Shape DEF Linked
<1>2. \A c, d \in 0 .. cap - 1 : t.cells[c] = t.cells[d] => c = d
  BY DEF Linked
<1>3. IsFiniteSet(0 .. cap - 1) /\ Cardinality(0 .. cap - 1) = cap
  BY FS_Interval
<1>4. \A n \in Nat : IsFiniteSet(1 .. n) /\ Cardinality(1 .. n) = n
  BY FS_Interval
<1>5. t.cells \in Injection(0 .. cap - 1, 1 .. t.count)
  BY <1>1, <1>2 DEF Injection, IsInjective
<1>6. cap <= t.count
  BY <1>1, <1>3, <1>4, <1>5, FS_Injection DEF ExistsInjection
<1> QED
  BY <1>1, <1>6
-----------------------------------------------------------------------------
(* Probing *)

LEMMA HashIsNat ==
  ASSUME NEW n \in Keys, NEW cap \in Nat, cap > 0
  PROVE  Hash[n] \in Nat /\ Start(cap, n) \in 0 .. cap - 1
<1>1. Hash[n] \in Nat
  BY JsonObjectAssumption
<1> QED
  BY <1>1, Remainder DEF Start

\* Every cell is visited, the one at distance i by the i-th step of the probe.
LEMMA Visits ==
  ASSUME NEW cap \in Nat, cap > 0, NEW t, CellCapacity(t) = cap, NEW n \in Keys
  PROVE  /\ \A i \in 0 .. cap - 1 : /\ Visited(t, n, i) \in 0 .. cap - 1
                                    /\ Dist(cap, Start(cap, n), Visited(t, n, i)) = i
         /\ \A d \in 0 .. cap - 1 : Visited(t, n, Dist(cap, Start(cap, n), d)) = d
<1>1. Hash[n] \in Nat /\ Start(cap, n) \in 0 .. cap - 1
  BY HashIsNat
<1>2. \A i \in 0 .. cap - 1 : /\ Visited(t, n, i) \in 0 .. cap - 1
                              /\ Dist(cap, Start(cap, n), Visited(t, n, i)) = i
  BY <1>1, Around DEF Visited, Start
<1>3. ASSUME NEW d \in 0 .. cap - 1
      PROVE  Visited(t, n, Dist(cap, Start(cap, n), d)) = d
  <2>1. Dist(cap, Start(cap, n), d) \in 0 .. cap - 1
    BY <1>1, Distances
  <2> QED
    BY <1>1, <1>2, <2>1, Distances
<1> QED
  BY <1>2, <1>3

\* The cell a probe is given: the nearest one that is empty or holds the name.
Nearest(t, cap, n, c) ==
    /\ c \in 0 .. cap - 1
    /\ t.cells[c] = NoItem \/ Named(t, c) = n
    /\ \A d \in 0 .. cap - 1 :
          Dist(cap, Start(cap, n), d) < Dist(cap, Start(cap, n), c)
          => t.cells[d] # NoItem /\ Named(t, d) # n

LEMMA ProbeIs ==
  ASSUME NEW cap \in Nat, NEW t, CellCapacity(t) = cap, NEW n \in Keys,
         NEW e \in 0 .. cap - 1, t.cells[e] = NoItem
  PROVE  Nearest(t, cap, n, CellIx(t, n))
<1> DEFINE m == Min(Probes(t, n))
           h == Start(cap, n)
<1>1. cap > 0 /\ h \in 0 .. cap - 1
  BY HashIsNat
<1>2. \A d \in 0 .. cap - 1 : /\ Dist(cap, h, d) \in 0 .. cap - 1
                              /\ Visited(t, n, Dist(cap, h, d)) = d
  <2>1. \A d \in 0 .. cap - 1 : Dist(cap, h, d) \in 0 .. cap - 1
    BY <1>1, Distances
  <2>2. \A d \in 0 .. cap - 1 : Visited(t, n, Dist(cap, h, d)) = d
    BY <1>1, Visits
  <2> QED
    BY <2>1, <2>2
<1>3. \A i \in 0 .. cap - 1 : i \in Probes(t, n) <=> Stops(t, n, i)
  BY DEF Probes
<1>4. \A d \in 0 .. cap - 1 :
          Dist(cap, h, d) \in Probes(t, n) <=> t.cells[d] = NoItem \/ Named(t, d) = n
  BY <1>2, <1>3 DEF Stops, Named
<1>5. Dist(cap, h, e) \in Probes(t, n) /\ Probes(t, n) \in SUBSET Nat
      /\ Probes(t, n) \in SUBSET (0 .. cap - 1)
  BY <1>4 DEF Probes
<1>6. m \in Probes(t, n) /\ \A i \in Probes(t, n) : m <= i
  <2>1. \E i \in Probes(t, n) : \A j \in Probes(t, n) : i <= j
    BY <1>5, LeastNumber
  <2> QED
    BY <2>1 DEF Min
<1> DEFINE c == Visited(t, n, m)
<1>7. CellIx(t, n) = c
  BY <1>6 DEF CellIx
<1>8. c \in 0 .. cap - 1 /\ Dist(cap, h, c) = m /\ m \in 0 .. cap - 1
  BY <1>1, <1>5, <1>6, Visits
<1> HIDE DEF c, m
<1>9. t.cells[c] = NoItem \/ Named(t, c) = n
  BY <1>4, <1>6, <1>8
<1>10. ASSUME NEW d \in 0 .. cap - 1, Dist(cap, h, d) < Dist(cap, h, c)
       PROVE  t.cells[d] # NoItem /\ Named(t, d) # n
  <2>1. Dist(cap, h, d) \notin Probes(t, n)
    <3>1. Dist(cap, h, d) \in 0 .. cap - 1
      BY <1>2
    <3> QED
      BY <1>6, <1>8, <1>10, <3>1
  <2> QED
    BY <1>4, <2>1
<1> QED
  BY <1>7, <1>8, <1>9, <1>10 DEF Nearest

\* A probe for a member ends at its cell.
LEMMA ProbeFinds ==
  ASSUME NEW cap, NEW t, Sound(t, cap), NEW i \in 1 .. t.count,
         NEW c, Nearest(t, cap, t.items[i].name, c)
  PROVE  c = t.items[i].cell
<1> DEFINE n == t.items[i].name
           h == Start(cap, n)
           d == t.items[i].cell
<1>1. cap \in Nat /\ Linked(t, cap) /\ Reaches(t, cap, -1)
  BY DEF Sound
<1>2. d \in 0 .. cap - 1 /\ n \in Keys /\ t.count \in Nat
  BY <1>1, Shape
<1>3. t.cells[d] = i /\ t.cells[d] # NoItem /\ Named(t, d) = n
  BY <1>1, <1>2 DEF Linked, NoItem, Named
<1>4. h \in 0 .. cap - 1 /\ c \in 0 .. cap - 1
  BY <1>1, <1>2, HashIsNat DEF Nearest
<1>5. ~(Dist(cap, h, d) < Dist(cap, h, c))
  BY <1>2, <1>3 DEF Nearest
<1>6. ~(Dist(cap, h, c) < Dist(cap, h, d))
  <2> SUFFICES ASSUME Dist(cap, h, c) < Dist(cap, h, d) PROVE FALSE
    OBVIOUS
  <2>1. t.cells[c] # NoItem
    <3>1. t.cells[c] # NoItem \/ c = -1
      BY <1>1, <1>2, <1>3, <1>4 DEF Reaches
    <3> QED
      BY <1>4, <3>1
  <2>2. Named(t, c) = n
    BY <2>1 DEF Nearest
  <2>3. t.cells[c] \in 1 .. t.count /\ t.items[t.cells[c]].cell = c
    BY <1>1, <1>4, <2>1 DEF Linked
  <2>4. t.cells[c] = i
    BY <1>1, <2>2, <2>3 DEF Linked, Named
  <2>5. c = d
    BY <2>3, <2>4
  <2>6. Dist(cap, h, d) \in Int
    <3>1. \A b \in 0 .. cap - 1 : Dist(cap, h, b) \in 0 .. cap - 1
      BY <1>1, <1>4, Distances
    <3> QED
      BY <1>2, <3>1
  <2> QED
    BY <2>5, <2>6
<1>7. Dist(cap, h, d) \in 0 .. cap - 1 /\ Dist(cap, h, c) \in 0 .. cap - 1
  BY <1>1, <1>2, <1>4, Distances
<1>8. Dist(cap, h, d) = Dist(cap, h, c)
  <2> HIDE DEF h, d
  <2> QED
    BY <1>5, <1>6, <1>7
<1> QED
  BY <1>1, <1>2, <1>4, <1>8, Distances

\* A probe for another name ends at an empty cell.
LEMMA ProbeMisses ==
  ASSUME NEW cap, NEW t, Sound(t, cap), NEW n, NEW c, Nearest(t, cap, n, c),
         \A i \in 1 .. t.count : t.items[i].name # n
  PROVE  t.cells[c] = NoItem
BY DEF Nearest, Sound, Linked, Named

LEMMA NoCells ==
  ASSUME NEW t, CellCapacity(t) = 0, NEW n
  PROVE  CellIx(t, n) = -1 /\ Probes(t, n) = {}
BY DEF CellIx, Probes

\* What the operations ask of a table that is not over-full.
LEMMA FoundIs ==
  ASSUME NEW cap, NEW t, Sound(t, cap), t.count < cap \/ cap = 0, NEW n \in Keys
  PROVE  /\ Found(t, n) <=> \E i \in 1 .. t.count : t.items[i].name = n
         /\ \A i \in 1 .. t.count : t.items[i].name = n =>
               Item(t, n) = i /\ CellIx(t, n) = t.items[i].cell
<1>1. cap \in Nat /\ Linked(t, cap) /\ CellCapacity(t) = cap /\ t.count \in Nat
  BY Shape DEF Sound
<1>2. CASE cap = 0
  <2>1. \A i \in 1 .. t.count : t.items[i].cell \in 0 .. cap - 1
    BY <1>1, Shape
  <2>2. ~(1 \in 1 .. t.count)
    BY <1>2, <2>1
  <2>3. t.count = 0
    BY <1>1, <2>2
  <2> QED
    BY <1>1, <1>2, <2>3, NoCells DEF Found
<1>3. CASE t.count < cap
  <2>1. PICK e \in 0 .. cap - 1 : t.cells[e] = NoItem
    BY <1>1, <1>3, FreeCell
  <2>2. Nearest(t, cap, n, CellIx(t, n))
    BY <1>1, <2>1, ProbeIs
  <2>3. CellIx(t, n) # -1
    BY <2>2 DEF Nearest
  <2>4. ASSUME NEW i \in 1 .. t.count, t.items[i].name = n
        PROVE  Found(t, n) /\ Item(t, n) = i /\ CellIx(t, n) = t.items[i].cell
    <3>1. CellIx(t, n) = t.items[i].cell
      BY <2>2, <2>4, ProbeFinds
    <3>2. t.cells[t.items[i].cell] = i
      BY <1>1 DEF Linked
    <3> QED
      BY <2>3, <3>1, <3>2 DEF Found, Item, NoItem
  <2>5. ASSUME \A i \in 1 .. t.count : t.items[i].name # n
        PROVE  ~Found(t, n)
    <3>1. t.cells[CellIx(t, n)] = NoItem
      BY <2>2, <2>5, ProbeMisses
    <3> QED
      BY <3>1 DEF Found
  <2> QED
    BY <2>4, <2>5
<1> QED
  BY <1>2, <1>3
-----------------------------------------------------------------------------
(* Adding a member *)

\* u is t with a member for n behind the others.
AppendedAs(t, n, v, c, u) ==
    /\ u.count = t.count + 1
    /\ u.cells = [t.cells EXCEPT ![c] = t.count + 1]
    /\ \A i \in 1 .. t.count : u.items[i] = t.items[i]
    /\ u.items[t.count + 1] = [name |-> n, value |-> v, cell |-> c]

LEMMA SubSeqWhole ==
  ASSUME NEW S, NEW s \in Seq(S)
  PROVE  SubSeq(s, 1, Len(s)) = s /\ SubSeq(s, Len(s) + 2, Len(s)) = <<>>
BY SubSeqProperties, LenProperties

LEMMA InsertShape ==
  ASSUME NEW cap \in Nat, NEW t, Linked(t, cap), NEW n \in Keys, NEW v \in Values,
         CellIx(t, n) \in 0 .. cap - 1
  PROVE  /\ Insert(t, n, v) \in Tables(cap)
         /\ Len(Insert(t, n, v).items) = t.count + 1
         /\ AppendedAs(t, n, v, CellIx(t, n), Insert(t, n, v))
<1> DEFINE c == CellIx(t, n)
           item == [name |-> n, value |-> v, cell |-> c]
           u == Insert(t, n, v)
<1>1. /\ t.items \in Seq(Entries(cap)) /\ Len(t.items) = t.count /\ t.count \in Nat
      /\ t.cells \in [0 .. cap - 1 -> Nat]
  BY Shape
<1>2. item \in Entries(cap)
  BY DEF Entries
<1>3. /\ SubSeq(t.items, 1, t.count) = t.items
      /\ SubSeq(t.items, t.count + 2, Len(t.items)) = <<>>
  BY <1>1, SubSeqWhole
<1>4. t.count + 1 + 1 = t.count + 2
  BY <1>1
<1>5. u = [cells |-> [t.cells EXCEPT ![c] = t.count + 1],
           items |-> t.items \o <<item>> \o <<>>, count |-> t.count + 1]
  BY <1>3, <1>4 DEF Insert
<1> HIDE DEF u
<1>6. t.items \o <<item>> \o <<>> = Append(t.items, item)
  <2> HIDE DEF item
  <2>1. t.items \o <<item>> = Append(t.items, item)
    BY <1>1, <1>2, AppendIsConcat
  <2>2. Append(t.items, item) \in Seq(Entries(cap))
    BY <1>1, <1>2, AppendProperties
  <2> QED
    BY <2>1, <2>2, ConcatEmptySeq
<1>7. /\ Append(t.items, item) \in Seq(Entries(cap))
      /\ Len(Append(t.items, item)) = t.count + 1
      /\ \A i \in 1 .. t.count : Append(t.items, item)[i] = t.items[i]
      /\ Append(t.items, item)[t.count + 1] = item
  <2> HIDE DEF item
  <2> QED
    BY <1>1, <1>2, AppendProperties
<1>8. [t.cells EXCEPT ![c] = t.count + 1] \in [0 .. cap - 1 -> Nat] /\ t.count + 1 \in Nat
  BY <1>1
<1> HIDE DEF c
<1>9. u.items = Append(t.items, item) /\ u.count = t.count + 1
      /\ u.cells = [t.cells EXCEPT ![c] = t.count + 1]
  BY <1>5, <1>6
<1>10. u \in Tables(cap)
  BY <1>5, <1>6, <1>7, <1>8 DEF Tables
<1>11. AppendedAs(t, n, v, c, u)
  BY <1>7, <1>9 DEF AppendedAs
<1> QED
  BY <1>7, <1>9, <1>10, <1>11 DEF u, c

LEMMA AppendedSound ==
  ASSUME NEW cap, NEW t, Sound(t, cap), NEW n \in Keys, NEW v, NEW c,
         Nearest(t, cap, n, c), \A i \in 1 .. t.count : t.items[i].name # n,
         NEW u \in Tables(cap), Len(u.items) = t.count + 1, AppendedAs(t, n, v, c, u)
  PROVE  Sound(u, cap)
<1>1. cap \in Nat /\ Linked(t, cap) /\ Reaches(t, cap, -1)
  BY DEF Sound
<1>2. t.cells[c] = NoItem /\ c \in 0 .. cap - 1
  BY ProbeMisses DEF Nearest
<1>3. /\ t.count \in Nat /\ t.cells \in [0 .. cap - 1 -> Nat]
      /\ \A i \in 1 .. t.count : t.items[i].cell \in 0 .. cap - 1
  BY <1>1, Shape
<1>4. /\ u.cells[c] = t.count + 1 /\ \A d \in 0 .. cap - 1 : d # c => u.cells[d] = t.cells[d]
      /\ u.count = t.count + 1
  BY <1>2, <1>3 DEF AppendedAs
<1>5. /\ \A i \in 1 .. t.count : u.items[i] = t.items[i]
      /\ u.items[t.count + 1].name = n /\ u.items[t.count + 1].cell = c
  BY DEF AppendedAs
<1>6. \A i \in 1 .. t.count : t.cells[t.items[i].cell] = i /\ i # NoItem
  BY <1>1, <1>3 DEF Linked, NoItem
<1>7. \A i \in 1 .. u.count : i \in 1 .. t.count \/ i = t.count + 1
  BY <1>3, <1>4
<1>8. \A i \in 1 .. u.count : u.cells[u.items[i].cell] = i
  <2>1. ASSUME NEW i \in 1 .. t.count PROVE u.cells[u.items[i].cell] = i
    <3>1. t.items[i].cell # c /\ t.items[i].cell \in 0 .. cap - 1
      BY <1>2, <1>3, <1>6
    <3> QED
      BY <1>4, <1>5, <1>6, <3>1
  <2> QED
    BY <1>4, <1>5, <1>7, <2>1
<1>9. ASSUME NEW d \in 0 .. cap - 1, u.cells[d] # NoItem
      PROVE  u.cells[d] \in 1 .. u.count /\ u.items[u.cells[d]].cell = d
  <2>1. CASE d = c
    BY <1>3, <1>4, <1>5, <2>1
  <2>2. CASE d # c
    <3>1. u.cells[d] \in 1 .. t.count /\ t.items[u.cells[d]].cell = d
      BY <1>1, <1>4, <1>9, <2>2 DEF Linked
    <3> QED
      BY <1>3, <1>4, <1>5, <3>1
  <2> QED
    BY <2>1, <2>2
<1>10. ASSUME NEW i \in 1 .. u.count, NEW j \in 1 .. u.count, u.items[i].name = u.items[j].name
       PROVE  i = j
  <2>1. CASE i \in 1 .. t.count /\ j \in 1 .. t.count
    BY <1>1, <1>5, <1>10, <2>1 DEF Linked
  <2> QED
    BY <1>5, <1>7, <1>10, <2>1
<1>11. Linked(u, cap)
  BY <1>4, <1>8, <1>9, <1>10 DEF Linked
<1>12. ASSUME NEW b \in 0 .. cap - 1, NEW d \in 0 .. cap - 1, u.cells[b] # NoItem,
              Dist(cap, Start(cap, Named(u, b)), d) < Dist(cap, Start(cap, Named(u, b)), b)
       PROVE  u.cells[d] # NoItem
  <2>1. u.cells[c] # NoItem
    BY <1>3, <1>4 DEF NoItem
  <2>2. CASE b = c
    <3>1. Named(u, b) = n
      BY <1>4, <1>5, <2>2 DEF Named
    <3>2. t.cells[d] # NoItem
      BY <1>12, <2>2, <3>1 DEF Nearest
    <3> QED
      BY <1>4, <2>1, <3>2
  <2>3. CASE b # c
    <3>1. u.cells[b] = t.cells[b] /\ t.cells[b] \in 1 .. t.count
      BY <1>1, <1>4, <1>12, <2>3 DEF Linked
    <3>2. Named(u, b) = Named(t, b)
      BY <1>5, <3>1 DEF Named
    <3>3. t.cells[d] # NoItem \/ d = -1
      BY <1>1, <1>12, <3>1, <3>2 DEF Reaches
    <3> QED
      BY <1>4, <2>1, <3>3
  <2> QED
    BY <2>2, <2>3
<1>13. Reaches(u, cap, -1)
  BY <1>12 DEF Reaches
<1> QED
  BY <1>1, <1>11, <1>13 DEF Sound

LEMMA AppendedMaps ==
  ASSUME NEW t, t.count \in Nat, NEW n, NEW v, NEW c, NEW u, AppendedAs(t, n, v, c, u),
         \A i \in 1 .. t.count : t.items[i].name # n, NEW M, Maps(t, M)
  PROVE  Maps(u, With(M, n, v))
<1>1. /\ u.count = t.count + 1 /\ \A i \in 1 .. t.count : u.items[i] = t.items[i]
      /\ u.items[t.count + 1].name = n /\ u.items[t.count + 1].value = v
  BY DEF AppendedAs
<1>2. /\ DOMAIN M = {t.items[i].name : i \in 1 .. t.count}
      /\ \A i \in 1 .. t.count : M[t.items[i].name] = t.items[i].value
  BY DEF Maps
<1>3. \A i \in 1 .. u.count : i \in 1 .. t.count \/ i = t.count + 1
  BY <1>1
<1>4. \A i : i \in 1 .. t.count \/ i = t.count + 1 => i \in 1 .. u.count
  BY <1>1
<1>5. DOMAIN With(M, n, v) = {u.items[i].name : i \in 1 .. u.count}
  <2>1. DOMAIN With(M, n, v) = DOMAIN M \cup {n}
    BY DEF With
  <2>2. ASSUME NEW i \in 1 .. u.count PROVE u.items[i].name \in DOMAIN M \cup {n}
    BY <1>1, <1>2, <1>3
  <2>3. ASSUME NEW m \in DOMAIN M PROVE m \in {u.items[i].name : i \in 1 .. u.count}
    <3>1. PICK i \in 1 .. t.count : t.items[i].name = m
      BY <1>2
    <3> QED
      BY <1>1, <1>4, <3>1
  <2>4. n \in {u.items[i].name : i \in 1 .. u.count}
    BY <1>1, <1>4
  <2> QED
    BY <2>1, <2>2, <2>3, <2>4
<1>6. ASSUME NEW i \in 1 .. u.count PROVE With(M, n, v)[u.items[i].name] = u.items[i].value
  BY <1>1, <1>2, <1>3 DEF With
<1>7. With(M, n, v) = [m \in DOMAIN With(M, n, v) |-> With(M, n, v)[m]]
  BY DEF With
<1> QED
  BY <1>5, <1>6, <1>7 DEF Maps

\* pjson_object_add puts its member where the probe for it ended.
LEMMA InsertIs ==
  ASSUME NEW cap, NEW t, Sound(t, cap), t.count < cap, NEW n \in Keys, NEW v \in Values,
         \A i \in 1 .. t.count : t.items[i].name # n
  PROVE  /\ CellIx(t, n) # -1
         /\ Sound(Insert(t, n, v), cap)
         /\ AppendedAs(t, n, v, CellIx(t, n), Insert(t, n, v))
<1>1. cap \in Nat /\ Linked(t, cap) /\ CellCapacity(t) = cap
  BY Shape DEF Sound
<1>2. PICK e \in 0 .. cap - 1 : t.cells[e] = NoItem
  BY <1>1, FreeCell
<1>3. Nearest(t, cap, n, CellIx(t, n))
  BY <1>1, <1>2, ProbeIs
<1>4. CellIx(t, n) \in 0 .. cap - 1 /\ CellIx(t, n) # -1
  BY <1>3 DEF Nearest
<1>5. /\ Insert(t, n, v) \in Tables(cap) /\ Len(Insert(t, n, v).items) = t.count + 1
      /\ AppendedAs(t, n, v, CellIx(t, n), Insert(t, n, v))
  BY <1>1, <1>4, InsertShape
<1>6. Sound(Insert(t, n, v), cap)
  BY <1>3, <1>5, AppendedSound
<1> QED
  BY <1>4, <1>5, <1>6
-----------------------------------------------------------------------------
(* Growing *)

LEMMA MakeIs ==
  ASSUME NEW cap \in Nat
  PROVE  Sound(Make(cap), cap) /\ Make(cap).count = 0
<1> DEFINE t == Make(cap)
<1>1. /\ t.cells = [i \in 0 .. cap - 1 |-> NoItem] /\ t.items = <<>> /\ t.count = 0
      /\ t = [cells |-> t.cells, items |-> t.items, count |-> t.count]
  BY DEF Make
<1> HIDE DEF t
<1>2. t.cells \in [0 .. cap - 1 -> Nat] /\ t.items \in Seq(Entries(cap)) /\ t.count \in Nat
  BY <1>1 DEF NoItem
<1>3. t \in Tables(cap)
  BY <1>1, <1>2 DEF Tables
<1>4. Linked(t, cap)
  BY <1>1, <1>3 DEF Linked
<1>5. Reaches(t, cap, -1)
  BY <1>1 DEF Reaches
<1> QED
  BY <1>1, <1>4, <1>5 DEF Sound, t

\* g[k] is the new table of Grow with the first k members of t.
GrownBy(t, cap, g, m) ==
    g = [k \in 0 .. m |-> IF k = 0 THEN Make(cap)
                          ELSE Insert(g[k - 1], t.items[k].name, t.items[k].value)]

LEMMA GrownExists ==
  ASSUME NEW t, NEW cap, NEW m \in Nat
  PROVE  \E g : GrownBy(t, cap, g, m)
<1> DEFINE bad == {n \in Nat : ~\E g : GrownBy(t, cap, g, n)}
<1> SUFFICES ASSUME bad # {} PROVE FALSE
  OBVIOUS
<1>1. PICK n \in bad : \A i \in bad : n <= i
  BY LeastNumber
<1>2. n \in Nat /\ ~\E g : GrownBy(t, cap, g, n)
  OBVIOUS
<1>3. CASE n = 0
  <2> DEFINE g == [k \in 0 .. 0 |-> Make(cap)]
  <2>1. GrownBy(t, cap, g, 0)
    BY DEF GrownBy
  <2> QED
    BY <1>2, <1>3, <2>1
<1>4. CASE n # 0
  <2>1. n - 1 \in Nat /\ n - 1 \notin bad
    BY <1>1, <1>2, <1>4
  <2>2. PICK h : GrownBy(t, cap, h, n - 1)
    BY <2>1
  <2> HIDE DEF bad
  <2> DEFINE g == [k \in 0 .. n |-> IF k = 0 THEN Make(cap)
                                    ELSE Insert(h[k - 1], t.items[k].name, t.items[k].value)]
  <2>3. \A k \in 0 .. n - 1 :
            h[k] = IF k = 0 THEN Make(cap)
                   ELSE Insert(h[k - 1], t.items[k].name, t.items[k].value)
    BY <2>2 DEF GrownBy
  <2>4. \A k \in 0 .. n - 1 : g[k] = h[k]
    BY <1>2, <2>3
  <2>5. ASSUME NEW k \in 0 .. n, k # 0 PROVE g[k - 1] = h[k - 1]
    <3>1. k - 1 \in 0 .. n - 1
      BY <1>2, <2>5
    <3> HIDE DEF g
    <3> QED
      BY <2>4, <3>1
  <2>6. GrownBy(t, cap, g, n)
    BY <2>5 DEF GrownBy
  <2> QED
    BY <1>2, <2>6
<1> QED
  BY <1>3, <1>4

LEMMA GrowIsLast ==
  ASSUME NEW t, t.count \in Nat
  PROVE  \E g : /\ GrownBy(t, Max({2 * CellCapacity(t), StartingCapacity}), g, t.count)
                /\ Grow(t) = g[t.count]
<1> DEFINE cap == Max({2 * CellCapacity(t), StartingCapacity})
           g == CHOOSE g : GrownBy(t, cap, g, t.count)
<1>1. GrownBy(t, cap, g, t.count)
  BY GrownExists
<1>2. Grow(t) = g[t.count]
  BY DEF Grow, GrownBy
<1> QED
  BY <1>1, <1>2

\* u has the names and values of the first k members of t, in their order.
Copies(t, k, u) ==
    /\ u.count = k
    /\ \A i \in 1 .. k : /\ u.items[i].name = t.items[i].name
                         /\ u.items[i].value = t.items[i].value

LEMMA GrownSound ==
  ASSUME NEW cap, NEW t, Sound(t, cap), NEW d \in Nat, t.count < d,
         NEW g, GrownBy(t, d, g, t.count), NEW k \in 0 .. t.count
  PROVE  Sound(g[k], d) /\ Copies(t, k, g[k])
<1> DEFINE good(i) == Sound(g[i], d) /\ Copies(t, i, g[i])
           bad == {i \in Nat : i <= t.count /\ ~good(i)}
<1>1. cap \in Nat /\ Linked(t, cap) /\ t.count \in Nat
  BY Shape DEF Sound
<1> SUFFICES ASSUME bad # {} PROVE FALSE
  BY <1>1
<1>2. PICK i \in bad : \A j \in bad : i <= j
  BY LeastNumber
<1>3. i \in Nat /\ i <= t.count /\ ~good(i)
  OBVIOUS
<1>4. \A j \in 0 .. t.count :
          g[j] = IF j = 0 THEN Make(d)
                 ELSE Insert(g[j - 1], t.items[j].name, t.items[j].value)
  BY DEF GrownBy
<1>5. i # 0
  <2> SUFFICES ASSUME i = 0 PROVE FALSE
    OBVIOUS
  <2>1. g[i] = Make(d)
    BY <1>1, <1>3, <1>4
  <2> QED
    BY <1>3, <2>1, MakeIs DEF Copies
<1>6. i - 1 \in Nat /\ i - 1 \notin bad /\ i - 1 <= t.count
  BY <1>1, <1>2, <1>3, <1>5
<1>7. good(i - 1)
  BY <1>6
<1> HIDE DEF bad
<1> DEFINE u == g[i - 1]
           n == t.items[i].name
           v == t.items[i].value
<1>8. g[i] = Insert(u, n, v)
  BY <1>1, <1>3, <1>4, <1>5
<1>9. Sound(u, d) /\ u.count = i - 1 /\ Copies(t, i - 1, u)
  BY <1>7 DEF Copies
<1>10. i \in 1 .. t.count /\ u.count < d /\ i - 1 + 1 = i
  BY <1>1, <1>3, <1>5, <1>9
<1>11. n \in Keys /\ v \in Values
  BY <1>1, <1>10, Shape
<1>12. ASSUME NEW j \in 1 .. u.count PROVE u.items[j].name # n
  <2>1. j \in 1 .. t.count /\ j # i /\ j \in 1 .. i - 1
    BY <1>1, <1>3, <1>9, <1>10
  <2>2. u.items[j].name = t.items[j].name
    BY <1>9, <2>1 DEF Copies
  <2> QED
    BY <1>1, <1>10, <2>1, <2>2 DEF Linked
<1> HIDE DEF u, n, v
<1>13. Sound(g[i], d) /\ AppendedAs(u, n, v, CellIx(u, n), g[i])
  BY <1>8, <1>9, <1>10, <1>11, <1>12, InsertIs
<1>14. /\ g[i].count = i /\ \A j \in 1 .. i - 1 : g[i].items[j] = u.items[j]
       /\ g[i].items[i].name = n /\ g[i].items[i].value = v
  BY <1>9, <1>10, <1>13 DEF AppendedAs
<1>15. ASSUME NEW j \in 1 .. i
       PROVE  /\ g[i].items[j].name = t.items[j].name
              /\ g[i].items[j].value = t.items[j].value
  <2>1. CASE j \in 1 .. i - 1
    BY <1>9, <1>14, <2>1 DEF Copies
  <2>2. CASE j = i
    BY <1>14, <2>2 DEF n, v
  <2> QED
    BY <1>3, <2>1, <2>2
<1> QED
  BY <1>3, <1>13, <1>14, <1>15 DEF Copies

LEMMA CopiesMap ==
  ASSUME NEW t, NEW u, Copies(t, t.count, u), NEW M, Maps(t, M)
  PROVE  Maps(u, M)
BY DEF Copies, Maps

LEMMA LargerOf ==
  ASSUME NEW a \in Nat, NEW b \in Nat
  PROVE  Max({a, b}) \in Nat /\ Max({a, b}) >= a /\ Max({a, b}) >= b
<1>1. \E x \in {a, b} : \A y \in {a, b} : x >= y
  BY a >= b \/ b >= a
<1>2. Max({a, b}) \in {a, b} /\ \A y \in {a, b} : Max({a, b}) >= y
  BY <1>1 DEF Max
<1> QED
  BY <1>2

\* The members a table takes before it grows.
Room(cap) == (cap * 7) \div 10

LEMMA RoomIs ==
  ASSUME NEW cap \in Nat
  PROVE  /\ Room(cap) \in Nat
         /\ cap > 0 => Room(cap) < cap
         /\ \A d \in Nat : d >= 2 * cap /\ d > 1 => Room(cap) + 1 <= Room(d)
BY DEF Room

\* A table in use: never over-full, so that every probe ends.
Good(t, cap) == Sound(t, cap) /\ t.count <= Room(cap)

LEMMA GoodIs ==
  ASSUME NEW cap, NEW t, Good(t, cap)
  PROVE  /\ cap \in Nat /\ Sound(t, cap) /\ Linked(t, cap) /\ t.count \in Nat
         /\ ItemCapacity(t) = Room(cap) /\ CellCapacity(t) = cap
         /\ t.count < cap \/ cap = 0
<1>1. cap \in Nat /\ Sound(t, cap) /\ Linked(t, cap) /\ t.count <= Room(cap)
  BY DEF Good, Sound
<1>2. t.count \in Nat /\ CellCapacity(t) = cap
  BY <1>1, Shape
<1>3. Room(cap) \in Nat /\ (cap > 0 => Room(cap) < cap)
  BY <1>1, RoomIs
<1>4. t.count < cap \/ cap = 0
  BY <1>1, <1>2, <1>3
<1> QED
  BY <1>1, <1>2, <1>4 DEF ItemCapacity, Room

\* A table that was full has room for another member when it has grown.
LEMMA GrowIs ==
  ASSUME NEW cap, NEW t, Good(t, cap)
  PROVE  \E d \in Nat : /\ Sound(Grow(t), d) /\ Grow(t).count < Room(d)
                        /\ Grow(t).count = t.count
                        /\ \A i \in 1 .. t.count :
                              /\ Grow(t).items[i].name = t.items[i].name
                              /\ Grow(t).items[i].value = t.items[i].value
<1> DEFINE d == Max({2 * CellCapacity(t), StartingCapacity})
<1>1. cap \in Nat /\ Sound(t, cap) /\ t.count \in Nat /\ t.count <= Room(cap)
      /\ CellCapacity(t) = cap
  BY GoodIs DEF Good
<1>2. d \in Nat /\ d >= 2 * cap /\ d > 1
  <2>1. 2 * cap \in Nat /\ StartingCapacity \in Nat /\ StartingCapacity > 1
    BY <1>1, JsonObjectAssumption
  <2>2. d \in Nat /\ d >= 2 * cap /\ d >= StartingCapacity
    BY <1>1, <2>1, LargerOf
  <2> HIDE DEF d
  <2> QED
    BY <2>1, <2>2
<1>3. PICK g : GrownBy(t, d, g, t.count) /\ Grow(t) = g[t.count]
  BY <1>1, GrowIsLast
<1> HIDE DEF d
<1>4. Room(cap) \in Nat /\ Room(cap) + 1 <= Room(d) /\ Room(d) \in Nat /\ Room(d) < d
  BY <1>1, <1>2, RoomIs
<1>5. t.count < d /\ t.count < Room(d) /\ t.count \in 0 .. t.count
  BY <1>1, <1>2, <1>4
<1>6. Sound(Grow(t), d) /\ Copies(t, t.count, Grow(t))
  BY <1>1, <1>2, <1>3, <1>5, GrownSound
<1> QED
  BY <1>2, <1>5, <1>6 DEF Copies
-----------------------------------------------------------------------------
(* Removing a member *)

LEMMA NextCell ==
  ASSUME NEW cap \in Nat, NEW c \in 0 .. cap - 1, NEW j \in 0 .. cap - 1,
         Dist(cap, c, j) + 1 <= cap - 1
  PROVE  /\ (j + 1) % cap \in 0 .. cap - 1
         /\ Dist(cap, c, (j + 1) % cap) = Dist(cap, c, j) + 1
<1>1. (j + 1) % cap = IF j + 1 = cap THEN 0 ELSE j + 1
  OBVIOUS
<1> QED
  BY <1>1 DEF Dist

LEMMA ShiftIsNearer ==
  ASSUME NEW cap \in Nat, NEW k \in 0 .. cap - 1, NEW i \in 0 .. cap - 1,
         NEW j \in 0 .. cap - 1, i # j
  PROVE  \/ j > i /\ (k <= i \/ k > j)
         \/ j < i /\ k <= i /\ k > j
         <=> Dist(cap, k, i) < Dist(cap, k, j)
BY DEF Dist

LEMMA Between ==
  ASSUME NEW cap \in Nat, NEW c \in 0 .. cap - 1, NEW k \in 0 .. cap - 1,
         NEW i \in 0 .. cap - 1, NEW d \in 0 .. cap - 1, NEW j \in 0 .. cap - 1,
         Dist(cap, k, i) < Dist(cap, k, d), ~(Dist(cap, k, j) < Dist(cap, k, d)), j # d,
         Dist(cap, c, i) < Dist(cap, c, j)
  PROVE  Dist(cap, c, i) < Dist(cap, c, d) /\ Dist(cap, c, d) < Dist(cap, c, j)
BY DEF Dist

\* s[x] is the loop of ShiftBack after x turns.
ScannedBy(t, hole, g, m) ==
    g = [x \in 0 .. m |-> IF x = 0 THEN [t |-> t, i |-> hole, j |-> hole, done |-> FALSE]
                          ELSE Scan(g[x - 1])]

LEMMA ScannedExists ==
  ASSUME NEW t, NEW hole, NEW m \in Nat
  PROVE  \E g : ScannedBy(t, hole, g, m)
<1> DEFINE bad == {n \in Nat : ~\E g : ScannedBy(t, hole, g, n)}
           first == [t |-> t, i |-> hole, j |-> hole, done |-> FALSE]
<1> SUFFICES ASSUME bad # {} PROVE FALSE
  OBVIOUS
<1>1. PICK n \in bad : \A i \in bad : n <= i
  BY LeastNumber
<1>2. n \in Nat /\ ~\E g : ScannedBy(t, hole, g, n)
  OBVIOUS
<1>3. CASE n = 0
  <2> DEFINE g == [x \in 0 .. 0 |-> first]
  <2>1. ScannedBy(t, hole, g, 0)
    BY DEF ScannedBy
  <2> QED
    BY <1>2, <1>3, <2>1
<1>4. CASE n # 0
  <2>1. n - 1 \in Nat /\ n - 1 \notin bad
    BY <1>1, <1>2, <1>4
  <2>2. PICK h : ScannedBy(t, hole, h, n - 1)
    BY <2>1
  <2> HIDE DEF bad
  <2> DEFINE g == [x \in 0 .. n |-> IF x = 0 THEN first ELSE Scan(h[x - 1])]
  <2>3. \A x \in 0 .. n - 1 : h[x] = IF x = 0 THEN first ELSE Scan(h[x - 1])
    BY <2>2 DEF ScannedBy
  <2> HIDE DEF first
  <2>4. \A x \in 0 .. n - 1 : g[x] = h[x]
    BY <1>2, <2>3
  <2>5. ASSUME NEW x \in 0 .. n, x # 0 PROVE g[x - 1] = h[x - 1]
    <3>1. x - 1 \in 0 .. n - 1
      BY <1>2, <2>5
    <3> HIDE DEF g
    <3> QED
      BY <2>4, <3>1
  <2>6. ScannedBy(t, hole, g, n)
    BY <2>5 DEF ScannedBy, first
  <2> QED
    BY <1>2, <2>6
<1> QED
  BY <1>3, <1>4

Vacated(t, c) == [t EXCEPT !.cells[c] = NoItem]

LEMMA ShiftBackIsLast ==
  ASSUME NEW t, NEW hole, NEW m \in Nat, CellCapacity(t) - 1 = m
  PROVE  \E g : /\ ScannedBy(t, hole, g, m)
                /\ ShiftBack(t, hole) = Vacated(g[m].t, g[m].i)
<1> DEFINE g == CHOOSE g : ScannedBy(t, hole, g, m)
<1>1. ScannedBy(t, hole, g, m)
  BY ScannedExists
<1>2. ShiftBack(t, hole) = Vacated(g[m].t, g[m].i)
  BY DEF ShiftBack, ScannedBy, Vacated
<1> QED
  BY <1>1, <1>2

\* Cell i of t is as good as empty, and then the others are in order.
Holed(t, cap, i) ==
    t \in Tables(cap) /\ i \in 0 .. cap - 1 /\ Linked(Vacated(t, i), cap)

\* The cells behind c, up to the x-th, are all taken in u, and no probe for one of
\* the members between the hole and that cell passes the hole.
Scanned(u, v, cap, c, i, x) ==
    /\ Dist(cap, c, i) <= x
    /\ \A d \in 0 .. cap - 1 :
          0 < Dist(cap, c, d) /\ Dist(cap, c, d) <= x => u.cells[d] # NoItem
    /\ \A d \in 0 .. cap - 1 :
          Dist(cap, c, d) > x => (v.cells[d] # NoItem <=> u.cells[d] # NoItem)
    /\ \A d \in 0 .. cap - 1 :
          /\ v.cells[d] # NoItem
          /\ Dist(cap, c, i) < Dist(cap, c, d) /\ Dist(cap, c, d) <= x
          => ~(Dist(cap, Start(cap, Named(v, d)), i) < Dist(cap, Start(cap, Named(v, d)), d))

\* The loop of ShiftBack after x turns, from the table u without its hole at c.
ScanInv(u, cap, c, x, s) ==
    /\ s = [t |-> s.t, i |-> s.i, j |-> s.j, done |-> s.done] /\ s.done \in BOOLEAN
    /\ Holed(s.t, cap, s.i)
    /\ Copies(u, u.count, Vacated(s.t, s.i))
    /\ s.done => Reaches(Vacated(s.t, s.i), cap, -1)
    /\ ~s.done => /\ s.j \in 0 .. cap - 1 /\ Dist(cap, c, s.j) = x
                  /\ Reaches(Vacated(s.t, s.i), cap, s.i)
                  /\ Scanned(u, Vacated(s.t, s.i), cap, c, s.i, x)

LEMMA VacatedIs ==
  ASSUME NEW cap \in Nat, NEW t \in Tables(cap), NEW c \in 0 .. cap - 1
  PROVE  /\ Vacated(t, c) \in Tables(cap)
         /\ Vacated(t, c).items = t.items /\ Vacated(t, c).count = t.count
         /\ Vacated(t, c).cells[c] = NoItem
         /\ \A d \in 0 .. cap - 1 : d # c => Vacated(t, c).cells[d] = t.cells[d]
         /\ \A d \in 0 .. cap - 1 : d # c => Named(Vacated(t, c), d) = Named(t, d)
<1>1. t.cells \in [0 .. cap - 1 -> Nat] /\ NoItem \in Nat
  BY DEF Tables, NoItem
<1>2. Vacated(t, c).cells = [t.cells EXCEPT ![c] = NoItem]
      /\ Vacated(t, c).items = t.items /\ Vacated(t, c).count = t.count
  BY DEF Vacated, Tables
<1>3. Vacated(t, c) \in Tables(cap)
  BY <1>1 DEF Vacated, Tables
<1> QED
  BY <1>1, <1>2, <1>3 DEF Named

\* The loop ends at an empty cell j.
LEMMA ScanEnds ==
  ASSUME NEW cap \in Nat, NEW u, NEW v, Linked(v, cap), NEW c \in 0 .. cap - 1,
         NEW i \in 0 .. cap - 1, NEW j \in 0 .. cap - 1, NEW x \in Nat, Reaches(v, cap, i),
         Scanned(u, v, cap, c, i, x), Dist(cap, c, j) = x + 1, v.cells[j] = NoItem
  PROVE  Reaches(v, cap, -1)
<1> SUFFICES ASSUME NEW d \in 0 .. cap - 1, NEW e \in 0 .. cap - 1, v.cells[d] # NoItem,
                    Dist(cap, Start(cap, Named(v, d)), e)
                    < Dist(cap, Start(cap, Named(v, d)), d),
                    v.cells[e] = NoItem
             PROVE  FALSE
  BY DEF Reaches
<1> DEFINE k == Start(cap, Named(v, d))
<1>1. Named(v, d) \in Keys
  BY Shape DEF Linked, Named
<1>2. k \in 0 .. cap - 1
  BY <1>1, HashIsNat
<1>3. e = i
  BY DEF Reaches
<1>4. ~(Dist(cap, k, j) < Dist(cap, k, d))
  <2>1. j # i
    <3>1. Dist(cap, c, i) <= x
      BY DEF Scanned
    <3> QED
      BY <3>1
  <2> QED
    BY <2>1 DEF Reaches
<1>5. Dist(cap, k, i) < Dist(cap, k, d)
  BY <1>3
<1>6. j # d
  OBVIOUS
<1>7. Dist(cap, c, i) <= x /\ Dist(cap, c, i) \in 0 .. cap - 1
  BY Distances DEF Scanned
<1>8. Dist(cap, c, i) < Dist(cap, c, j)
  BY <1>7
<1> HIDE DEF k
<1>9. Dist(cap, c, i) < Dist(cap, c, d) /\ Dist(cap, c, d) < Dist(cap, c, j)
  BY <1>2, <1>4, <1>5, <1>6, <1>8, Between
<1>10. Dist(cap, c, d) <= x
  <2>1. Dist(cap, c, d) \in 0 .. cap - 1
    BY Distances
  <2> QED
    BY <1>9, <2>1
<1> QED
  BY <1>5, <1>9, <1>10 DEF Scanned, k
\* The member of cell j moves to the hole at i.
Shifted(t, i, j) == [t EXCEPT !.items[t.cells[j]].cell = i, !.cells[i] = t.cells[j]]

LEMMA ShiftedIs ==
  ASSUME NEW cap \in Nat, NEW t, NEW i, Holed(t, cap, i),
         NEW j \in 0 .. cap - 1, j # i, t.cells[j] # NoItem,
         NEW v, v = Vacated(t, i), NEW u, u = Vacated(Shifted(t, i, j), j)
  PROVE  /\ Holed(Shifted(t, i, j), cap, j)
         /\ Copies(v, v.count, u)
         /\ u.cells[i] = v.cells[j] /\ u.cells[j] = NoItem
         /\ \A d \in 0 .. cap - 1 : d # i /\ d # j => u.cells[d] = v.cells[d]
         /\ Named(u, i) = Named(v, j)
         /\ \A d \in 0 .. cap - 1 :
               d # i /\ d # j /\ v.cells[d] # NoItem => Named(u, d) = Named(v, d)
<1> DEFINE m == t.cells[j]
           w == Shifted(t, i, j)
<1>1. t \in Tables(cap) /\ i \in 0 .. cap - 1 /\ Linked(v, cap)
  BY DEF Holed
<1>2. /\ v \in Tables(cap) /\ v.items = t.items /\ v.count = t.count /\ v.cells[i] = NoItem
      /\ \A d \in 0 .. cap - 1 : d # i => v.cells[d] = t.cells[d]
  BY <1>1, VacatedIs
<1>3. m = v.cells[j] /\ m \in 1 .. v.count /\ v.items[m].cell = j
  BY <1>1, <1>2 DEF Linked
<1>4. /\ t.cells \in [0 .. cap - 1 -> Nat] /\ t.items \in Seq(Entries(cap)) /\ t.count \in Nat
      /\ Len(t.items) = t.count /\ DOMAIN t.items = 1 .. t.count
      /\ t = [cells |-> t.cells, items |-> t.items, count |-> t.count]
      /\ \A k \in 1 .. t.count : t.items[k] \in Entries(cap)
  <2>1. t.cells \in [0 .. cap - 1 -> Nat]
        /\ t = [cells |-> t.cells, items |-> t.items, count |-> t.count]
    BY <1>1 DEF Tables
  <2> QED
    BY <1>1, <1>2, <2>1, Shape
<1> DEFINE its == [t.items EXCEPT ![m].cell = i]
           cls == [t.cells EXCEPT ![i] = m]
<1>5. w = [cells |-> cls, items |-> its, count |-> t.count]
  <2>1. \A a, b, c, x :
            [[cells |-> a, items |-> b, count |-> c] EXCEPT !.items = x]
            = [cells |-> a, items |-> x, count |-> c]
    OBVIOUS
  <2>2. \A a, b, c, y :
            [[cells |-> a, items |-> b, count |-> c] EXCEPT !.cells = y]
            = [cells |-> y, items |-> b, count |-> c]
    OBVIOUS
  <2>3. w = [[t EXCEPT !.items = its] EXCEPT !.cells = cls]
    BY <1>4 DEF Shifted
  <2> HIDE DEF w, its, cls
  <2>4. [t EXCEPT !.items = its] = [cells |-> t.cells, items |-> its, count |-> t.count]
    BY <1>4, <2>1
  <2> QED
    BY <2>2, <2>3, <2>4
<1>6. m \in 1 .. t.count /\ t.items[m] \in Entries(cap)
  BY <1>2, <1>3, <1>4
<1>7. its \in Seq(Entries(cap)) /\ Len(its) = t.count
      /\ its[m] = [t.items[m] EXCEPT !.cell = i]
      /\ \A k \in 1 .. t.count : k # m => its[k] = t.items[k]
  <2>1. [t.items[m] EXCEPT !.cell = i] \in Entries(cap)
    BY <1>1, <1>6 DEF Entries
  <2>2. its = [t.items EXCEPT ![m] = [t.items[m] EXCEPT !.cell = i]]
    OBVIOUS
  <2> HIDE DEF its
  <2>3. its \in Seq(Entries(cap)) /\ Len(its) = t.count
    BY <1>4, <1>6, <2>1, <2>2, ExceptSeq
  <2> QED
    BY <1>4, <1>6, <2>2, <2>3
<1>8. /\ cls \in [0 .. cap - 1 -> Nat] /\ cls[i] = m
      /\ \A d \in 0 .. cap - 1 : d # i => cls[d] = t.cells[d]
  BY <1>1, <1>4
<1> HIDE DEF its, cls, m
<1>9. w \in Tables(cap) /\ w.items = its /\ w.count = t.count /\ w.cells = cls
  BY <1>4, <1>5, <1>7, <1>8 DEF Tables
<1> HIDE DEF w
<1>10. /\ u \in Tables(cap) /\ u.items = its /\ u.count = t.count /\ u.cells[j] = NoItem
       /\ \A d \in 0 .. cap - 1 : d # j => u.cells[d] = cls[d]
  <2>1. u = Vacated(w, j)
    BY DEF w
  <2>2. /\ Vacated(w, j) \in Tables(cap)
        /\ Vacated(w, j).items = w.items /\ Vacated(w, j).count = w.count
        /\ Vacated(w, j).cells[j] = NoItem
        /\ \A d \in 0 .. cap - 1 : d # j => Vacated(w, j).cells[d] = w.cells[d]
    BY <1>9, VacatedIs
  <2> QED
    BY <1>9, <2>1, <2>2
<1>11. u.cells[i] = m /\ \A d \in 0 .. cap - 1 : d # i /\ d # j => u.cells[d] = v.cells[d]
  BY <1>1, <1>2, <1>8, <1>10
<1>12. /\ \A k \in 1 .. t.count : k # m => u.items[k] = v.items[k]
       /\ u.items[m].cell = i /\ u.items[m].name = v.items[m].name
       /\ u.items[m].value = v.items[m].value
  BY <1>2, <1>6, <1>7, <1>10 DEF Entries
<1>13. \A k \in 1 .. t.count : /\ u.items[k].name = v.items[k].name
                               /\ u.items[k].value = v.items[k].value
  BY <1>12
<1>14. Copies(v, v.count, u)
  BY <1>2, <1>10, <1>13 DEF Copies
<1>15. \A k \in 1 .. t.count : v.items[k].cell \in 0 .. cap - 1 /\ v.cells[v.items[k].cell] = k
       /\ k # NoItem
  <2>1. \A k \in 1 .. v.count : v.items[k].cell \in 0 .. cap - 1
    BY <1>1, Shape
  <2>2. \A k \in 1 .. v.count : v.cells[v.items[k].cell] = k
    BY <1>1 DEF Linked
  <2> QED
    BY <1>2, <1>4, <2>1, <2>2 DEF NoItem
<1>16. ASSUME NEW k \in 1 .. t.count PROVE u.cells[u.items[k].cell] = k
  <2>1. CASE k = m
    BY <1>11, <1>12, <2>1
  <2>2. CASE k # m
    <3>1. v.items[k].cell # i /\ v.items[k].cell # j
      BY <1>2, <1>3, <1>15, <2>2
    <3> QED
      BY <1>11, <1>12, <1>15, <2>2, <3>1
  <2> QED
    BY <2>1, <2>2
<1>17. ASSUME NEW d \in 0 .. cap - 1, u.cells[d] # NoItem
       PROVE  u.cells[d] \in 1 .. t.count /\ u.items[u.cells[d]].cell = d
  <2>1. d # j
    BY <1>10, <1>17
  <2>2. CASE d = i
    BY <1>6, <1>11, <1>12, <2>2
  <2>3. CASE d # i
    <3>1. /\ u.cells[d] = v.cells[d] /\ v.cells[d] \in 1 .. t.count
          /\ v.items[v.cells[d]].cell = d
      BY <1>1, <1>2, <1>11, <1>17, <2>1, <2>3 DEF Linked
    <3>2. u.cells[d] # m
      BY <1>3, <2>1, <3>1 DEF m
    <3> QED
      BY <1>12, <3>1, <3>2
  <2> QED
    BY <2>2, <2>3
<1>18. \A k, l \in 1 .. t.count : u.items[k].name = u.items[l].name => k = l
  BY <1>1, <1>2, <1>13 DEF Linked
<1>19. Linked(u, cap)
  BY <1>7, <1>10, <1>16, <1>17, <1>18 DEF Linked
<1>20. Holed(w, cap, j)
  BY <1>9, <1>19 DEF Holed, w
<1>21. u.cells[i] = v.cells[j]
  BY <1>3, <1>11
<1>22. Named(u, i) = Named(v, j)
  BY <1>3, <1>11, <1>12 DEF Named, m
<1>23. ASSUME NEW d \in 0 .. cap - 1, d # i, d # j, v.cells[d] # NoItem
       PROVE  Named(u, d) = Named(v, d)
  BY <1>1, <1>2, <1>11, <1>13, <1>23 DEF Linked, Named
<1> QED
  BY <1>10, <1>11, <1>14, <1>20, <1>21, <1>22, <1>23 DEF w

\* Every probe that passed the old hole passes a member now.
LEMMA ShiftedReaches ==
  ASSUME NEW cap \in Nat, NEW v, Linked(v, cap), NEW i \in 0 .. cap - 1,
         NEW j \in 0 .. cap - 1, j # i, v.cells[j] # NoItem, v.cells[i] = NoItem,
         Reaches(v, cap, i),
         Dist(cap, Start(cap, Named(v, j)), i) < Dist(cap, Start(cap, Named(v, j)), j),
         NEW u, u.cells[i] = v.cells[j], u.cells[j] = NoItem,
         \A d \in 0 .. cap - 1 : d # i /\ d # j => u.cells[d] = v.cells[d],
         Named(u, i) = Named(v, j),
         \A d \in 0 .. cap - 1 :
            d # i /\ d # j /\ v.cells[d] # NoItem => Named(u, d) = Named(v, d)
  PROVE  Reaches(u, cap, j)
<1> SUFFICES ASSUME NEW d \in 0 .. cap - 1, NEW e \in 0 .. cap - 1, u.cells[d] # NoItem,
                    Dist(cap, Start(cap, Named(u, d)), e)
                    < Dist(cap, Start(cap, Named(u, d)), d),
                    e # j
             PROVE  u.cells[e] # NoItem
  BY DEF Reaches
<1>1. CASE e = i
  BY <1>1
<1>2. CASE e # i
  <2>1. u.cells[e] = v.cells[e]
    BY <1>2
  <2>2. CASE d = i
    <3>1. Named(u, d) = Named(v, j)
      BY <2>2
    <3> DEFINE k == Start(cap, Named(v, j))
    <3>2. Named(v, j) \in Keys
      BY Shape DEF Linked, Named
    <3>3. k \in 0 .. cap - 1
      BY <3>2, HashIsNat
    <3>4. Dist(cap, k, e) < Dist(cap, k, i)
      BY <2>2, <3>1
    <3>5. /\ Dist(cap, k, e) \in 0 .. cap - 1 /\ Dist(cap, k, i) \in 0 .. cap - 1
          /\ Dist(cap, k, j) \in 0 .. cap - 1
      <4> HIDE DEF k
      <4> QED
        BY <3>3, Distances
    <3>6. Dist(cap, k, e) < Dist(cap, k, j)
      BY <3>4, <3>5
    <3> QED
      BY <1>2, <2>1, <3>6 DEF Reaches
  <2>3. CASE d # i
    <3>1. d # j /\ v.cells[d] # NoItem /\ Named(u, d) = Named(v, d)
      BY <2>3
    <3> QED
      BY <1>2, <2>1, <3>1 DEF Reaches
  <2> QED
    BY <2>2, <2>3
<1> QED
  BY <1>1, <1>2

LEMMA CopiesTwice ==
  ASSUME NEW t, NEW v, NEW u, Copies(t, t.count, v), Copies(v, v.count, u)
  PROVE  Copies(t, t.count, u)
BY DEF Copies
\* The range behind the hole grows by the cell j, which stays.
LEMMA ScannedLonger ==
  ASSUME NEW cap \in Nat, NEW u, NEW v, NEW c \in 0 .. cap - 1,
         NEW i \in 0 .. cap - 1, NEW j \in 0 .. cap - 1, NEW x \in Nat,
         Scanned(u, v, cap, c, i, x), Dist(cap, c, j) = x + 1, v.cells[j] # NoItem,
         ~(Dist(cap, Start(cap, Named(v, j)), i) < Dist(cap, Start(cap, Named(v, j)), j))
  PROVE  Scanned(u, v, cap, c, i, x + 1)
<1>1. \A d \in 0 .. cap - 1 : Dist(cap, c, d) \in 0 .. cap - 1
  BY Distances
<1>2. \A d \in 0 .. cap - 1 : Dist(cap, c, d) <= x + 1 => Dist(cap, c, d) <= x \/ d = j
  <2>1. \A d \in 0 .. cap - 1 : Dist(cap, c, d) = x + 1 => d = j
    BY Distances
  <2> QED
    BY <1>1, <2>1
<1>3. \A d \in 0 .. cap - 1 : Dist(cap, c, d) > x + 1 => Dist(cap, c, d) > x
  BY <1>1
<1>4. Dist(cap, c, i) <= x + 1
  BY <1>1 DEF Scanned
<1>5. u.cells[j] # NoItem
  BY DEF Scanned
<1>6. \A d \in 0 .. cap - 1 :
          0 < Dist(cap, c, d) /\ Dist(cap, c, d) <= x + 1 => u.cells[d] # NoItem
  BY <1>2, <1>5 DEF Scanned
<1>7. \A d \in 0 .. cap - 1 :
          Dist(cap, c, d) > x + 1 => (v.cells[d] # NoItem <=> u.cells[d] # NoItem)
  BY <1>3 DEF Scanned
<1>8. ASSUME NEW d \in 0 .. cap - 1, v.cells[d] # NoItem,
             Dist(cap, c, i) < Dist(cap, c, d), Dist(cap, c, d) <= x + 1
      PROVE  ~(Dist(cap, Start(cap, Named(v, d)), i) < Dist(cap, Start(cap, Named(v, d)), d))
  BY <1>2, <1>8 DEF Scanned
<1> QED
  BY <1>4, <1>6, <1>7, <1>8 DEF Scanned

\* The hole is now at j, the cell looked at last.
LEMMA ScannedAnew ==
  ASSUME NEW cap \in Nat, NEW u, NEW v, NEW c \in 0 .. cap - 1,
         NEW i \in 0 .. cap - 1, NEW j \in 0 .. cap - 1, NEW x \in Nat,
         Scanned(u, v, cap, c, i, x), Dist(cap, c, j) = x + 1, v.cells[j] # NoItem,
         NEW w, \A d \in 0 .. cap - 1 : d # i /\ d # j => w.cells[d] = v.cells[d]
  PROVE  Scanned(u, w, cap, c, j, x + 1)
<1>1. \A d \in 0 .. cap - 1 : Dist(cap, c, d) \in 0 .. cap - 1
  BY Distances
<1>2. \A d \in 0 .. cap - 1 : Dist(cap, c, d) <= x + 1 => Dist(cap, c, d) <= x \/ d = j
  <2>1. \A d \in 0 .. cap - 1 : Dist(cap, c, d) = x + 1 => d = j
    BY Distances
  <2> QED
    BY <1>1, <2>1
<1>3. \A d \in 0 .. cap - 1 : Dist(cap, c, d) > x + 1 => Dist(cap, c, d) > x /\ d # i /\ d # j
  <2>1. Dist(cap, c, i) <= x
    BY DEF Scanned
  <2> QED
    BY <1>1, <2>1
<1>4. u.cells[j] # NoItem
  BY DEF Scanned
<1>5. \A d \in 0 .. cap - 1 :
          0 < Dist(cap, c, d) /\ Dist(cap, c, d) <= x + 1 => u.cells[d] # NoItem
  BY <1>2, <1>4 DEF Scanned
<1>6. \A d \in 0 .. cap - 1 :
          Dist(cap, c, d) > x + 1 => (w.cells[d] # NoItem <=> u.cells[d] # NoItem)
  BY <1>3 DEF Scanned
<1>7. \A d \in 0 .. cap - 1 : ~(Dist(cap, c, j) < Dist(cap, c, d) /\ Dist(cap, c, d) <= x + 1)
  BY <1>1
<1>8. Dist(cap, c, j) <= x + 1
  BY <1>1
<1> QED
  BY <1>5, <1>6, <1>7, <1>8 DEF Scanned

LEMMA ScanStep ==
  ASSUME NEW cap \in Nat, NEW u, NEW c \in 0 .. cap - 1, NEW x \in Nat, x + 1 <= cap - 1,
         NEW s, ScanInv(u, cap, c, x, s)
  PROVE  ScanInv(u, cap, c, x + 1, Scan(s))
<1> DEFINE v == Vacated(s.t, s.i)
           j == (s.j + 1) % CellCapacity(s.t)
           n == Named(v, j)
<1>1. /\ s = [t |-> s.t, i |-> s.i, j |-> s.j, done |-> s.done] /\ s.done \in BOOLEAN
      /\ Holed(s.t, cap, s.i) /\ Copies(u, u.count, v)
  BY DEF ScanInv
<1>2. s.t \in Tables(cap) /\ s.i \in 0 .. cap - 1 /\ Linked(v, cap)
  BY <1>1 DEF Holed
<1>3. CASE s.done
  <2>1. Scan(s) = [s EXCEPT !.done = TRUE]
    BY <1>3 DEF Scan
  <2>2. Scan(s) = s
    BY <1>1, <1>3, <2>1
  <2> QED
    BY <1>3, <2>2 DEF ScanInv
<1>4. CASE ~s.done
  <2>1. /\ s.j \in 0 .. cap - 1 /\ Dist(cap, c, s.j) = x /\ Reaches(v, cap, s.i)
        /\ Scanned(u, v, cap, c, s.i, x)
    BY <1>4 DEF ScanInv
  <2>2. CellCapacity(s.t) = cap
    BY <1>2, Capacity DEF Tables
  <2>3. j \in 0 .. cap - 1 /\ Dist(cap, c, j) = x + 1
    BY <2>1, <2>2, NextCell
  <2>4. j # s.i
    <3>1. Dist(cap, c, s.i) <= x
      BY <2>1 DEF Scanned
    <3> HIDE DEF j
    <3> QED
      BY <2>3, <3>1
  <2>5. v.cells[j] = s.t.cells[j] /\ Named(s.t, j) = n /\ v.cells[s.i] = NoItem
    <3> HIDE DEF j
    <3> QED
      BY <1>2, <2>3, <2>4, VacatedIs
  <2>6. CASE s.t.cells[j] = NoItem
    <3>1. Scan(s) = [s EXCEPT !.done = TRUE]
      BY <2>6 DEF Scan
    <3>2. /\ Scan(s).t = s.t /\ Scan(s).i = s.i /\ Scan(s).done = TRUE
          /\ Scan(s) = [t |-> Scan(s).t, i |-> Scan(s).i, j |-> Scan(s).j,
                        done |-> Scan(s).done]
      BY <1>1, <3>1
    <3>3. Reaches(v, cap, -1)
      <4> HIDE DEF j, v
      <4> QED
        BY <1>2, <2>1, <2>3, <2>5, <2>6, ScanEnds
    <3> QED
      BY <1>1, <3>2, <3>3 DEF ScanInv
  <2>7. CASE s.t.cells[j] # NoItem
    <3>1. n \in Keys /\ Start(cap, n) \in 0 .. cap - 1
      <4>1. v.cells[j] # NoItem
        BY <2>5, <2>7
      <4>2. v.cells[j] \in 1 .. v.count
        <5> HIDE DEF j, v
        <5> QED
          BY <1>2, <2>3, <4>1 DEF Linked
      <4>3. n \in Keys
        <5> HIDE DEF j, v
        <5> QED
          BY <1>2, <4>2, Shape DEF Named
      <4> QED
        BY <4>3, <2>3, HashIsNat
    <3>2. Shifts(s.t, s.i, j)
          <=> Dist(cap, Start(cap, n), s.i) < Dist(cap, Start(cap, n), j)
      <4>1. Home(s.t, j) = Start(cap, n)
        BY <2>2, <2>5 DEF Home, Start, Named
      <4> HIDE DEF j, v, n
      <4>2. Start(cap, n) \in Int
        BY <3>1
      <4> QED
        BY <1>2, <2>3, <2>4, <3>1, <4>1, ShiftIsNearer DEF Shifts
    <3>3. CASE ~Shifts(s.t, s.i, j)
      <4>1. Scan(s) = [s EXCEPT !.j = j]
        BY <1>4, <2>7, <3>3 DEF Scan
      <4>2. /\ Scan(s).t = s.t /\ Scan(s).i = s.i /\ Scan(s).j = j /\ Scan(s).done = FALSE
            /\ Scan(s) = [t |-> Scan(s).t, i |-> Scan(s).i, j |-> Scan(s).j,
                          done |-> Scan(s).done]
        <5> HIDE DEF j
        <5> QED
          BY <1>1, <1>4, <4>1
      <4>3. Scanned(u, v, cap, c, s.i, x + 1)
        <5> HIDE DEF j, v
        <5> QED
          BY <1>2, <2>1, <2>3, <2>5, <2>7, <3>2, <3>3, ScannedLonger DEF n
      <4> HIDE DEF j
      <4> QED
        BY <1>1, <2>1, <2>3, <4>2, <4>3 DEF ScanInv
    <3>4. CASE Shifts(s.t, s.i, j)
      <4> DEFINE w == Shifted(s.t, s.i, j)
                 z == Vacated(w, j)
      <4>1. Scan(s) = [t |-> w, i |-> j, j |-> j, done |-> FALSE]
        BY <1>4, <2>7, <3>4 DEF Scan, Shifted
      <4>2. /\ Scan(s).t = w /\ Scan(s).i = j /\ Scan(s).j = j /\ Scan(s).done = FALSE
            /\ Scan(s) = [t |-> Scan(s).t, i |-> Scan(s).i, j |-> Scan(s).j,
                          done |-> Scan(s).done]
        <5> HIDE DEF j, w
        <5> QED
          BY <4>1
      <4> HIDE DEF j
      <4>3. /\ Holed(w, cap, j) /\ Copies(v, v.count, z)
            /\ z.cells[s.i] = v.cells[j] /\ z.cells[j] = NoItem
            /\ \A d \in 0 .. cap - 1 : d # s.i /\ d # j => z.cells[d] = v.cells[d]
            /\ Named(z, s.i) = Named(v, j)
            /\ \A d \in 0 .. cap - 1 :
                  d # s.i /\ d # j /\ v.cells[d] # NoItem => Named(z, d) = Named(v, d)
        BY <1>1, <2>3, <2>4, <2>7, ShiftedIs
      <4> HIDE DEF v, w, z
      <4>4. Copies(u, u.count, z)
        BY <1>1, <4>3, CopiesTwice
      <4>5. v.cells[j] # NoItem
        BY <2>5, <2>7
      <4>6. Reaches(z, cap, j)
        BY <1>2, <2>1, <2>3, <2>4, <2>5, <3>2, <3>4, <4>3, <4>5, ShiftedReaches DEF n
      <4>7. Scanned(u, z, cap, c, j, x + 1)
        BY <1>2, <2>1, <2>3, <4>3, <4>5, ScannedAnew
      <4> QED
        BY <2>3, <4>2, <4>3, <4>4, <4>6, <4>7 DEF ScanInv, z
    <3> QED
      BY <3>3, <3>4
  <2> QED
    BY <2>6, <2>7
<1> QED
  BY <1>3, <1>4
LEMMA ScanKeeps ==
  ASSUME NEW cap \in Nat, NEW u, NEW c \in 0 .. cap - 1, NEW t, Holed(t, cap, c),
         u = Vacated(t, c), Reaches(u, cap, c),
         NEW m \in Nat, m <= cap - 1, NEW g, ScannedBy(t, c, g, m)
  PROVE  \A x \in 0 .. m : ScanInv(u, cap, c, x, g[x])
<1> DEFINE bad == {x \in Nat : x <= m /\ ~ScanInv(u, cap, c, x, g[x])}
<1> SUFFICES ASSUME bad # {} PROVE FALSE
  OBVIOUS
<1>1. PICK x \in bad : \A y \in bad : x <= y
  BY LeastNumber
<1>2. x \in Nat /\ x <= m /\ ~ScanInv(u, cap, c, x, g[x])
  OBVIOUS
<1>3. \A y \in 0 .. m : g[y] = IF y = 0 THEN [t |-> t, i |-> c, j |-> c, done |-> FALSE]
                               ELSE Scan(g[y - 1])
  BY DEF ScannedBy
<1>4. x # 0
  <2> DEFINE s == [t |-> t, i |-> c, j |-> c, done |-> FALSE]
  <2>1. s.t = t /\ s.i = c /\ s.j = c /\ s.done = FALSE
        /\ s = [t |-> s.t, i |-> s.i, j |-> s.j, done |-> s.done]
    OBVIOUS
  <2>2. Dist(cap, c, c) = 0
    BY DEF Dist
  <2>3. \A d \in 0 .. cap - 1 : Dist(cap, c, d) \in 0 .. cap - 1
    BY Distances
  <2>4. Scanned(u, u, cap, c, c, 0)
    BY <2>2, <2>3 DEF Scanned
  <2>5. Copies(u, u.count, u)
    BY DEF Copies
  <2>6. g[0] = s
    <3>1. 0 \in 0 .. m
      OBVIOUS
    <3> HIDE DEF bad
    <3> QED
      BY <1>3, <3>1
  <2> HIDE DEF s
  <2>7. ScanInv(u, cap, c, 0, s)
    BY <2>1, <2>2, <2>4, <2>5 DEF ScanInv
  <2> QED
    BY <1>2, <2>6, <2>7
<1>5. x - 1 \in Nat /\ x - 1 \notin bad /\ x - 1 <= m /\ x - 1 + 1 = x
  BY <1>1, <1>2, <1>4
<1>6. ScanInv(u, cap, c, x - 1, g[x - 1])
  BY <1>5
<1> HIDE DEF bad
<1>7. g[x] = Scan(g[x - 1])
  BY <1>2, <1>3, <1>4
<1>8. x - 1 + 1 <= cap - 1
  BY <1>2, <1>5
<1>9. ScanInv(u, cap, c, x - 1 + 1, Scan(g[x - 1]))
  BY <1>5, <1>6, <1>8, ScanStep
<1> QED
  BY <1>2, <1>5, <1>7, <1>9

\* What the shift leaves is in order, with the same members.
LEMMA ShiftBackIs ==
  ASSUME NEW cap \in Nat, NEW u, NEW c \in 0 .. cap - 1, NEW t, Holed(t, cap, c),
         u = Vacated(t, c), Reaches(u, cap, c),
         NEW e \in 0 .. cap - 1, e # c, u.cells[e] = NoItem
  PROVE  Sound(ShiftBack(t, c), cap) /\ Copies(u, u.count, ShiftBack(t, c))
<1> DEFINE m == cap - 1
<1>1. m \in Nat /\ CellCapacity(t) - 1 = m
  <2>1. CellCapacity(t) = cap
    BY Capacity DEF Holed, Tables
  <2> QED
    BY <2>1
<1>2. PICK g : ScannedBy(t, c, g, m) /\ ShiftBack(t, c) = Vacated(g[m].t, g[m].i)
  BY <1>1, ShiftBackIsLast
<1>3. ScanInv(u, cap, c, m, g[m])
  BY <1>1, <1>2, ScanKeeps
<1>4. g[m].done
  <2> SUFFICES ASSUME ~g[m].done PROVE FALSE
    OBVIOUS
  <2>1. \A d \in 0 .. cap - 1 :
            0 < Dist(cap, c, d) /\ Dist(cap, c, d) <= m => u.cells[d] # NoItem
    BY <1>3 DEF ScanInv, Scanned
  <2>2. 0 < Dist(cap, c, e) /\ Dist(cap, c, e) <= m
    BY DEF Dist
  <2> QED
    BY <2>1, <2>2
<1>5. /\ Linked(Vacated(g[m].t, g[m].i), cap) /\ Reaches(Vacated(g[m].t, g[m].i), cap, -1)
      /\ Copies(u, u.count, Vacated(g[m].t, g[m].i))
  BY <1>3, <1>4 DEF ScanInv, Holed
<1> QED
  BY <1>2, <1>5 DEF Sound

\* t without the member at `item`, whose place the last one has taken.
WithoutItem(t, item) ==
    LET moved == IF item < t.count THEN MoveLast(t, item) ELSE t
    IN  [moved EXCEPT !.items = SubSeq(@, 1, t.count - 1) \o SubSeq(@, t.count + 1, Len(@)),
                      !.count = @ - 1]

LEMMA ClosedIs ==
  ASSUME NEW cap \in Nat, NEW t, Linked(t, cap), NEW item \in 1 .. t.count,
         NEW w, w = WithoutItem(t, item)
  PROVE  /\ w \in Tables(cap) /\ w.count = t.count - 1 /\ Len(w.items) = t.count - 1
         /\ \A k \in 1 .. t.count - 1 :
               w.items[k] = IF k = item THEN t.items[t.count] ELSE t.items[k]
         /\ \A d \in 0 .. cap - 1 :
               d # t.items[item].cell =>
                  w.cells[d] = IF d = t.items[t.count].cell THEN item ELSE t.cells[d]
<1> DEFINE last == t.items[t.count]
           its == IF item < t.count THEN [t.items EXCEPT ![item] = last] ELSE t.items
           cls == IF item < t.count THEN [t.cells EXCEPT ![last.cell] = item] ELSE t.cells
           moved == IF item < t.count THEN MoveLast(t, item) ELSE t
           kept == SubSeq(its, 1, t.count - 1)
           none == SubSeq(its, t.count + 1, Len(its))
<1>1. /\ t = [cells |-> t.cells, items |-> t.items, count |-> t.count]
      /\ t.cells \in [0 .. cap - 1 -> Nat] /\ t.items \in Seq(Entries(cap))
      /\ Len(t.items) = t.count /\ t.count \in Nat /\ DOMAIN t.items = 1 .. t.count
      /\ \A i \in 1 .. t.count : t.items[i] \in Entries(cap) /\ t.items[i].cell \in 0 .. cap - 1
  BY Shape
<1>2. item \in Nat /\ item >= 1 /\ item <= t.count /\ t.count \in 1 .. t.count
      /\ last \in Entries(cap) /\ last.cell \in 0 .. cap - 1
  BY <1>1
<1>3. /\ \A a, b, c, x : [[cells |-> a, items |-> b, count |-> c] EXCEPT !.items = x]
                         = [cells |-> a, items |-> x, count |-> c]
      /\ \A a, b, c, x : [[cells |-> a, items |-> b, count |-> c] EXCEPT !.cells = x]
                         = [cells |-> x, items |-> b, count |-> c]
      /\ \A a, b, c, x : [[cells |-> a, items |-> b, count |-> c] EXCEPT !.count = x]
                         = [cells |-> a, items |-> b, count |-> x]
  OBVIOUS
<1>4. moved = [cells |-> cls, items |-> its, count |-> t.count]
  <2>1. CASE item < t.count
    <3>1. moved = [[t EXCEPT !.items = its] EXCEPT !.cells = cls]
      BY <1>1, <2>1 DEF MoveLast
    <3> HIDE DEF its, cls
    <3>2. [t EXCEPT !.items = its] = [cells |-> t.cells, items |-> its, count |-> t.count]
      BY <1>1, <1>3
    <3> QED
      BY <1>3, <3>1, <3>2
  <2>2. CASE ~(item < t.count)
    BY <1>1, <2>2
  <2> QED
    BY <2>1, <2>2
<1>5. its \in Seq(Entries(cap)) /\ Len(its) = t.count
      /\ \A k \in 1 .. t.count - 1 : its[k] = IF k = item THEN last ELSE t.items[k]
  <2>1. CASE item < t.count
    <3>1. its = [t.items EXCEPT ![item] = last]
      BY <2>1
    <3> HIDE DEF its, last
    <3>2. its \in Seq(Entries(cap)) /\ Len(its) = t.count
      BY <1>1, <1>2, <3>1, ExceptSeq
    <3>3. \A k \in 1 .. t.count : its[k] = IF k = item THEN last ELSE t.items[k]
      BY <1>1, <1>2, <3>1, ExceptSeq
    <3> QED
      BY <1>1, <3>2, <3>3
  <2>2. CASE ~(item < t.count)
    BY <1>1, <1>2, <2>2
  <2> QED
    BY <2>1, <2>2
<1>6. cls \in [0 .. cap - 1 -> Nat]
      /\ \A d \in 0 .. cap - 1 :
            d # t.items[item].cell =>
               cls[d] = IF d = last.cell THEN item ELSE t.cells[d]
  <2>1. CASE item < t.count
    BY <1>1, <1>2, <2>1
  <2>2. CASE ~(item < t.count)
    <3>1. item = t.count
      BY <1>1, <1>2, <2>2
    <3> QED
      BY <1>1, <3>1
  <2> QED
    BY <2>1, <2>2
<1>7. w = [[moved EXCEPT !.items = kept \o none] EXCEPT !.count = t.count - 1]
  <2>1. moved.items = its /\ moved.count = t.count
    BY <1>4
  <2>2. w = [moved EXCEPT !.items = SubSeq(moved.items, 1, t.count - 1)
                                    \o SubSeq(moved.items, t.count + 1, Len(moved.items)),
                          !.count = moved.count - 1]
    BY DEF WithoutItem
  <2> HIDE DEF moved, its
  <2> QED
    BY <2>1, <2>2
<1> HIDE DEF its, cls, moved, last
<1>8. none = <<>>
  BY <1>1, <1>5, SubSeqEmpty
<1>9. kept \in Seq(Entries(cap)) /\ Len(kept) = t.count - 1
      /\ \A k \in 1 .. t.count - 1 : kept[k] = its[k]
  <2>1. \A k \in 1 .. t.count - 1 : its[k] \in Entries(cap)
    BY <1>1, <1>2, <1>5
  <2> QED
    BY <1>1, <1>2, <2>1, SubSeqProperties
<1> HIDE DEF kept, none
<1>10. kept \o none = kept
  BY <1>8, <1>9, ConcatEmptySeq
<1>11. w = [cells |-> cls, items |-> kept, count |-> t.count - 1]
  BY <1>3, <1>4, <1>7, <1>10
<1>12. t.count - 1 \in Nat
  BY <1>1, <1>2
<1>13. w \in Tables(cap)
  BY <1>6, <1>9, <1>11, <1>12 DEF Tables
<1> QED
  BY <1>5, <1>6, <1>9, <1>11, <1>13 DEF last
\* Without the cell of the member too: what the shift has to put in order.
LEMMA RemovedIs ==
  ASSUME NEW cap, NEW t, Sound(t, cap), NEW item \in 1 .. t.count,
         NEW c, c = t.items[item].cell, NEW w, w = WithoutItem(t, item),
         NEW u, u = Vacated(w, c)
  PROVE  /\ Holed(w, cap, c) /\ Reaches(u, cap, c)
         /\ u.count = t.count - 1
         /\ \A d \in 0 .. cap - 1 : t.cells[d] = NoItem => u.cells[d] = NoItem
         /\ \A M : Maps(t, M) => Maps(u, Without(M, t.items[item].name))
<1> DEFINE last == t.items[t.count]
<1>1. cap \in Nat /\ Linked(t, cap) /\ Reaches(t, cap, -1)
  BY DEF Sound
<1>2. /\ t.count \in Nat /\ item \in Nat /\ item >= 1 /\ item <= t.count
      /\ t.count \in 1 .. t.count /\ c \in 0 .. cap - 1
      /\ \A i \in 1 .. t.count : t.items[i].cell \in 0 .. cap - 1
  BY <1>1, Shape
<1>3. /\ \A i \in 1 .. t.count : t.cells[t.items[i].cell] = i /\ i # NoItem
      /\ \A d \in 0 .. cap - 1 :
            t.cells[d] # NoItem => t.cells[d] \in 1 .. t.count /\ t.items[t.cells[d]].cell = d
      /\ \A i, j \in 1 .. t.count : t.items[i].name = t.items[j].name => i = j
  BY <1>1, <1>2 DEF Linked, NoItem
<1>4. /\ w \in Tables(cap) /\ w.count = t.count - 1 /\ Len(w.items) = t.count - 1
      /\ \A k \in 1 .. t.count - 1 : w.items[k] = IF k = item THEN last ELSE t.items[k]
      /\ \A d \in 0 .. cap - 1 :
            d # c => w.cells[d] = IF d = last.cell THEN item ELSE t.cells[d]
  BY <1>1, ClosedIs
<1> HIDE DEF last
<1>5. /\ u \in Tables(cap) /\ u.count = t.count - 1 /\ Len(u.items) = t.count - 1
      /\ \A k \in 1 .. t.count - 1 : u.items[k] = IF k = item THEN last ELSE t.items[k]
      /\ u.cells[c] = NoItem
      /\ \A d \in 0 .. cap - 1 :
            d # c => u.cells[d] = IF d = last.cell THEN item ELSE t.cells[d]
  <2>1. /\ u \in Tables(cap) /\ u.items = w.items /\ u.count = w.count
        /\ u.cells[c] = NoItem /\ \A d \in 0 .. cap - 1 : d # c => u.cells[d] = w.cells[d]
    BY <1>1, <1>2, <1>4, VacatedIs
  <2> QED
    BY <1>4, <2>1
<1>6. /\ last.cell \in 0 .. cap - 1 /\ t.cells[last.cell] = t.count
      /\ item # t.count => last.cell # c
      /\ item = t.count => last.cell = c
  BY <1>2, <1>3 DEF last
<1>7. ASSUME NEW i \in 1 .. t.count - 1 PROVE u.cells[u.items[i].cell] = i
  <2>1. CASE i = item
    <3>1. u.items[i] = last /\ item # t.count
      BY <1>2, <1>5, <2>1
    <3> QED
      BY <1>5, <1>6, <2>1, <3>1
  <2>2. CASE i # item
    <3>1. u.items[i] = t.items[i] /\ i \in 1 .. t.count /\ i # t.count
      BY <1>2, <1>5, <2>2
    <3>2. t.items[i].cell # c /\ t.items[i].cell # last.cell
      BY <1>2, <1>3, <1>6, <2>2, <3>1
    <3>3. t.items[i].cell \in 0 .. cap - 1 /\ t.cells[t.items[i].cell] = i
      BY <1>2, <1>3, <3>1
    <3>4. u.cells[t.items[i].cell] = t.cells[t.items[i].cell]
      BY <1>5, <3>2, <3>3
    <3> QED
      BY <3>1, <3>3, <3>4
  <2> QED
    BY <2>1, <2>2
<1>8. ASSUME NEW d \in 0 .. cap - 1, u.cells[d] # NoItem
      PROVE  /\ u.cells[d] \in 1 .. t.count - 1 /\ u.items[u.cells[d]].cell = d
             /\ Named(u, d) = Named(t, d) /\ t.cells[d] # NoItem
  <2>1. d # c
    BY <1>5, <1>8
  <2>2. CASE d = last.cell
    <3>1. u.cells[d] = item /\ item # t.count
      BY <1>5, <1>6, <2>1, <2>2
    <3>2. item \in 1 .. t.count - 1
      BY <1>2, <3>1
    <3>3. u.items[item] = last
      BY <1>5, <3>2
    <3>4. t.cells[d] = t.count /\ t.cells[d] # NoItem /\ t.items[t.count] = last
      BY <1>2, <1>3, <1>6, <2>2 DEF last
    <3> QED
      BY <2>2, <3>1, <3>2, <3>3, <3>4 DEF Named
  <2>3. CASE d # last.cell
    <3>1. u.cells[d] = t.cells[d]
      BY <1>5, <2>1, <2>3
    <3>2. t.cells[d] \in 1 .. t.count /\ t.items[t.cells[d]].cell = d
      BY <1>3, <1>8, <3>1
    <3>3. t.cells[d] # item /\ t.cells[d] # t.count
      BY <2>1, <2>3, <3>2 DEF last
    <3>4. t.cells[d] \in 1 .. t.count - 1
      BY <1>2, <3>2, <3>3
    <3>5. u.items[t.cells[d]] = t.items[t.cells[d]]
      BY <1>5, <3>3, <3>4
    <3> QED
      BY <1>8, <3>1, <3>2, <3>4, <3>5 DEF Named
  <2> QED
    BY <2>2, <2>3
<1>9. ASSUME NEW i \in 1 .. t.count - 1
      PROVE  \E k \in 1 .. t.count : /\ u.items[i] = t.items[k] /\ k # item
                                     /\ i = IF k = t.count THEN item ELSE k
  <2>1. CASE i = item
    <3>1. u.items[i] = t.items[t.count] /\ t.count # item
      BY <1>2, <1>5, <2>1 DEF last
    <3> QED
      BY <1>2, <2>1, <3>1
  <2>2. CASE i # item
    <3>1. u.items[i] = t.items[i] /\ i \in 1 .. t.count /\ i # t.count
      BY <1>2, <1>5, <2>2
    <3> QED
      BY <2>2, <3>1
  <2> QED
    BY <2>1, <2>2
<1>10. ASSUME NEW i \in 1 .. t.count - 1, NEW j \in 1 .. t.count - 1,
              u.items[i].name = u.items[j].name
       PROVE  i = j
  <2>1. PICK k \in 1 .. t.count : /\ u.items[i] = t.items[k]
                                  /\ i = IF k = t.count THEN item ELSE k
    BY <1>9
  <2>2. PICK l \in 1 .. t.count : /\ u.items[j] = t.items[l]
                                  /\ j = IF l = t.count THEN item ELSE l
    BY <1>9
  <2>3. k = l
    BY <1>3, <1>10, <2>1, <2>2
  <2> QED
    BY <2>1, <2>2, <2>3
<1>11. Linked(u, cap)
  BY <1>5, <1>7, <1>8, <1>10 DEF Linked
<1>12. Holed(w, cap, c)
  BY <1>2, <1>4, <1>11 DEF Holed
<1>13. \A d \in 0 .. cap - 1 : t.cells[d] = NoItem => u.cells[d] = NoItem
  BY <1>8
<1>14. \A d \in 0 .. cap - 1 : d # c /\ t.cells[d] # NoItem => u.cells[d] # NoItem
  <2>1. item # NoItem
    BY <1>3
  <2> QED
    BY <1>5, <2>1
<1>15. Reaches(u, cap, c)
  <2> SUFFICES ASSUME NEW d \in 0 .. cap - 1, NEW e \in 0 .. cap - 1, u.cells[d] # NoItem,
                      Dist(cap, Start(cap, Named(u, d)), e)
                      < Dist(cap, Start(cap, Named(u, d)), d),
                      e # c
               PROVE  u.cells[e] # NoItem
    BY DEF Reaches
  <2>1. Named(u, d) = Named(t, d) /\ t.cells[d] # NoItem
    BY <1>8
  <2>2. t.cells[e] # NoItem \/ e = -1
    BY <1>1, <2>1 DEF Reaches
  <2>3. t.cells[e] # NoItem
    BY <1>1, <2>2
  <2> QED
    BY <1>14, <2>3
<1>16. ASSUME NEW M, Maps(t, M) PROVE Maps(u, Without(M, t.items[item].name))
  <2>8. PICK n : n = t.items[item].name
    OBVIOUS
  <2>9. PICK N : N = Without(M, n)
    OBVIOUS
  <2>1. /\ DOMAIN M = {t.items[i].name : i \in 1 .. t.count}
        /\ \A i \in 1 .. t.count : M[t.items[i].name] = t.items[i].value
    BY <1>16 DEF Maps
  <2>2. /\ DOMAIN N = DOMAIN M \ {n}
        /\ \A m \in DOMAIN N : N[m] = M[m]
        /\ N = [m \in DOMAIN N |-> N[m]]
    BY <2>9 DEF Without
  <2>3. ASSUME NEW i \in 1 .. t.count - 1
        PROVE  u.items[i].name \in DOMAIN N /\ N[u.items[i].name] = u.items[i].value
    <3>1. PICK k \in 1 .. t.count : u.items[i] = t.items[k] /\ k # item
      BY <1>9
    <3>2. t.items[k].name # n
      BY <1>3, <2>8, <3>1
    <3> QED
      BY <2>1, <2>2, <3>1, <3>2
  <2>4. ASSUME NEW m \in DOMAIN N
        PROVE  \E i \in 1 .. t.count - 1 : u.items[i].name = m
    <3>1. m \in DOMAIN M /\ m # n
      BY <2>2
    <3>2. PICK k \in 1 .. t.count : t.items[k].name = m
      BY <2>1, <3>1
    <3>3. k # item
      BY <2>8, <3>1, <3>2
    <3>4. CASE k = t.count
      <4>1. item \in 1 .. t.count - 1
        BY <1>2, <3>3, <3>4
      <4>2. u.items[item] = t.items[k]
        BY <1>5, <3>4, <4>1 DEF last
      <4> QED
        BY <3>2, <4>1, <4>2
    <3>5. CASE k # t.count
      <4>1. k \in 1 .. t.count - 1
        BY <1>2, <3>5
      <4>2. u.items[k] = t.items[k]
        BY <1>5, <3>3, <4>1
      <4> QED
        BY <3>2, <4>1, <4>2
    <3> QED
      BY <3>4, <3>5
  <2>5. DOMAIN N = {u.items[i].name : i \in 1 .. t.count - 1}
    BY <2>3, <2>4
  <2>6. Maps(u, N)
    <3>1. u.count = t.count - 1
      BY <1>5
    <3>2. DOMAIN N = {u.items[i].name : i \in 1 .. u.count}
      BY <2>5, <3>1
    <3>3. \A i \in 1 .. u.count : N[u.items[i].name] = u.items[i].value
      BY <2>3, <3>1
    <3> QED
      BY <2>2, <3>2, <3>3 DEF Maps
  <2> QED
    BY <2>6, <2>8, <2>9
<1> QED
  BY <1>5, <1>12, <1>13, <1>15, <1>16

\* pjson_object_remove_internal
LEMMA DeleteIs ==
  ASSUME NEW cap, NEW t, Good(t, cap), NEW n \in Keys, Found(t, n)
  PROVE  /\ Good(Delete(t, n), cap) /\ Delete(t, n).count = t.count - 1
         /\ \A M : Maps(t, M) => Maps(Delete(t, n), Without(M, n))
<1>1. /\ cap \in Nat /\ Sound(t, cap) /\ Linked(t, cap) /\ t.count \in Nat
      /\ t.count < cap \/ cap = 0
      /\ t.count <= Room(cap)
  BY GoodIs DEF Good
<1>2. PICK item \in 1 .. t.count : t.items[item].name = n
  BY <1>1, FoundIs
<1> DEFINE c == t.items[item].cell
           w == WithoutItem(t, item)
           u == Vacated(w, c)
<1>3. Item(t, n) = item /\ CellIx(t, n) = c
  BY <1>1, <1>2, FoundIs
<1>4. Delete(t, n) = ShiftBack(w, c)
  BY <1>3 DEF Delete, WithoutItem
<1>5. c \in 0 .. cap - 1 /\ t.cells[c] = item /\ item # NoItem
  BY <1>1, Shape DEF Linked, NoItem
<1>6. /\ Holed(w, cap, c) /\ Reaches(u, cap, c) /\ u.count = t.count - 1
      /\ \A d \in 0 .. cap - 1 : t.cells[d] = NoItem => u.cells[d] = NoItem
      /\ \A M : Maps(t, M) => Maps(u, Without(M, n))
  BY <1>1, <1>2, RemovedIs
<1>7. t.count < cap
  BY <1>1, <1>5
<1>8. PICK e \in 0 .. cap - 1 : t.cells[e] = NoItem
  BY <1>1, <1>7, FreeCell
<1> HIDE DEF c, w
<1>9. Sound(ShiftBack(w, c), cap) /\ Copies(u, u.count, ShiftBack(w, c))
  <2>1. e # c /\ u.cells[e] = NoItem
    BY <1>5, <1>6, <1>8
  <2> QED
    BY <1>1, <1>5, <1>6, <2>1, ShiftBackIs
<1>10. Delete(t, n).count = t.count - 1
  BY <1>4, <1>6, <1>9 DEF Copies
<1>11. Room(cap) \in Nat
  BY <1>1, RoomIs
<1>12. t.count - 1 <= Room(cap)
  BY <1>1, <1>11
<1>13. \A M : Maps(t, M) => Maps(Delete(t, n), Without(M, n))
  BY <1>4, <1>6, <1>9, CopiesMap
<1> QED
  BY <1>4, <1>9, <1>10, <1>12, <1>13 DEF Good
-----------------------------------------------------------------------------
(* The calls *)

\* The member `item` takes the value v.
LEMMA ValueIs ==
  ASSUME NEW cap, NEW t, Good(t, cap), NEW item \in 1 .. t.count, NEW v \in Values,
         NEW u, u = [t EXCEPT !.items[item].value = v]
  PROVE  /\ Good(u, cap)
         /\ \A M : Maps(t, M) => Maps(u, With(M, t.items[item].name, v))
<1>1. cap \in Nat /\ Linked(t, cap) /\ Reaches(t, cap, -1) /\ t.count <= Room(cap)
  BY DEF Good, Sound
<1>2. /\ t = [cells |-> t.cells, items |-> t.items, count |-> t.count]
      /\ t.cells \in [0 .. cap - 1 -> Nat] /\ t.items \in Seq(Entries(cap))
      /\ Len(t.items) = t.count /\ t.count \in Nat /\ t.items[item] \in Entries(cap)
  BY <1>1, Shape
<1> DEFINE x == [t.items[item] EXCEPT !.value = v]
           its == [t.items EXCEPT ![item] = x]
<1>3. /\ x \in Entries(cap) /\ x.name = t.items[item].name /\ x.cell = t.items[item].cell
      /\ x.value = v
  BY <1>2 DEF Entries
<1>4. u = [t EXCEPT !.items = its]
  BY <1>2
<1> HIDE DEF x
<1>5. its \in Seq(Entries(cap)) /\ Len(its) = t.count
      /\ \A j \in 1 .. t.count : its[j] = IF j = item THEN x ELSE t.items[j]
  BY <1>2, <1>3, ExceptSeq
<1> HIDE DEF its
<1>6. /\ u.cells = t.cells /\ u.items = its /\ u.count = t.count
      /\ u = [cells |-> t.cells, items |-> its, count |-> t.count]
  BY <1>2, <1>4
<1>7. u \in Tables(cap)
  BY <1>2, <1>5, <1>6 DEF Tables
<1>8. /\ \A j \in 1 .. t.count : /\ u.items[j].name = t.items[j].name
                                 /\ u.items[j].cell = t.items[j].cell
      /\ \A j \in 1 .. t.count : j # item => u.items[j].value = t.items[j].value
      /\ u.items[item].value = v
  BY <1>3, <1>5, <1>6
<1>9. /\ \A i \in 1 .. t.count : t.cells[t.items[i].cell] = i
      /\ \A d \in 0 .. cap - 1 :
            t.cells[d] # NoItem => t.cells[d] \in 1 .. t.count /\ t.items[t.cells[d]].cell = d
      /\ \A i, j \in 1 .. t.count : t.items[i].name = t.items[j].name => i = j
  BY <1>1 DEF Linked
<1>10. Linked(u, cap)
  BY <1>5, <1>6, <1>7, <1>8, <1>9 DEF Linked
<1>11. \A d \in 0 .. cap - 1 : u.cells[d] # NoItem => Named(u, d) = Named(t, d)
  BY <1>6, <1>8, <1>9 DEF Named
<1>12. Reaches(u, cap, -1)
  BY <1>1, <1>6, <1>11 DEF Reaches
<1>13. Good(u, cap)
  BY <1>1, <1>6, <1>10, <1>12 DEF Good, Sound
<1>14. ASSUME NEW M, Maps(t, M) PROVE Maps(u, With(M, t.items[item].name, v))
  <2>1. PICK n : n = t.items[item].name
    OBVIOUS
  <2>2. PICK N : N = With(M, n, v)
    OBVIOUS
  <2>3. /\ DOMAIN M = {t.items[i].name : i \in 1 .. t.count}
        /\ \A i \in 1 .. t.count : M[t.items[i].name] = t.items[i].value
    BY <1>14 DEF Maps
  <2>4. n \in DOMAIN M
    BY <2>1, <2>3
  <2>5. /\ N = [m \in DOMAIN N |-> N[m]] /\ DOMAIN N = DOMAIN M
        /\ \A m \in DOMAIN M : N[m] = IF m = n THEN v ELSE M[m]
    BY <2>2, <2>4 DEF With
  <2>6. DOMAIN N = {u.items[i].name : i \in 1 .. u.count}
    BY <1>6, <1>8, <2>3, <2>5
  <2>7. ASSUME NEW i \in 1 .. u.count PROVE N[u.items[i].name] = u.items[i].value
    <3>1. u.items[i].name = t.items[i].name /\ t.items[i].name \in DOMAIN M
      BY <1>6, <1>8, <2>3
    <3>2. CASE i = item
      BY <1>8, <2>1, <2>5, <3>1, <3>2
    <3>3. CASE i # item
      <4>1. t.items[i].name # n
        BY <1>6, <1>9, <2>1, <3>3
      <4> QED
        BY <1>6, <1>8, <2>3, <2>5, <3>1, <3>3, <4>1
    <3> QED
      BY <3>2, <3>3
  <2>8. Maps(u, N)
    BY <2>5, <2>6, <2>7 DEF Maps
  <2> QED
    BY <2>1, <2>2, <2>8
<1> QED
  BY <1>13, <1>14

LEMMA MapsOnce ==
  ASSUME NEW t, NEW M, NEW N, Maps(t, M), Maps(t, N)
  PROVE  M = N
<1>1. M = [n \in DOMAIN M |-> M[n]] /\ N = [n \in DOMAIN N |-> N[n]] /\ DOMAIN M = DOMAIN N
  BY DEF Maps
<1>2. \A n \in DOMAIN M : M[n] = N[n]
  BY DEF Maps
<1> QED
  BY <1>1, <1>2

\* What the lookups find is what the members say.
LEMMA LookupsMap ==
  ASSUME NEW cap, NEW t, Good(t, cap),
         NEW M, M = [n \in {m \in Keys : Found(t, m)} |-> t.items[Item(t, n)].value]
  PROVE  Maps(t, M)
<1>1. /\ cap \in Nat /\ Sound(t, cap) /\ t.count \in Nat
      /\ t.count < cap \/ cap = 0
      /\ \A i \in 1 .. t.count : t.items[i].name \in Keys
  BY GoodIs, Shape
<1>2. \A n \in Keys : /\ Found(t, n) <=> \E i \in 1 .. t.count : t.items[i].name = n
                      /\ \A i \in 1 .. t.count : t.items[i].name = n => Item(t, n) = i
  BY <1>1, FoundIs
<1>3. DOMAIN M = {t.items[i].name : i \in 1 .. t.count}
  BY <1>1, <1>2
<1>4. \A i \in 1 .. t.count : M[t.items[i].name] = t.items[i].value
  BY <1>1, <1>2
<1>5. M = [n \in DOMAIN M |-> M[n]]
  OBVIOUS
<1> QED
  BY <1>3, <1>4, <1>5 DEF Maps

LEMMA ReadsNothingFreed ==
  ASSUME NEW cap, NEW t, Good(t, cap), NEW n \in Keys
  PROVE  ~ReadsFreed(t, n)
<1>1. cap \in Nat /\ Linked(t, cap) /\ t.count \in Nat /\ CellCapacity(t) = cap
  BY GoodIs
<1> SUFFICES ASSUME NEW i \in 0 .. cap - 1, t.cells[Visited(t, n, i)] > t.count
             PROVE  FALSE
  BY <1>1 DEF ReadsFreed
<1>2. Visited(t, n, i) \in 0 .. cap - 1
  BY <1>1, Visits
<1>3. t.cells[Visited(t, n, i)] \in 0 .. t.count
  BY <1>1, <1>2 DEF Linked, NoItem
<1> QED
  BY <1>1, <1>3

\* A table that has not been cleared is in order and went astray in no call.
TableInv ==
    /\ cleared \in BOOLEAN /\ wild \in BOOLEAN
    /\ ~cleared => /\ ~wild
                   /\ ret \in Values \cup {Nothing, "success", "failure"}
                   /\ \E cap \in Nat : Good(table, cap)

LEMMA ContentsIs ==
  ASSUME ~cleared, NEW cap, Good(table, cap)
  PROVE  /\ Maps(table, contents)
         /\ \A n \in Keys : n \in DOMAIN contents <=> Found(table, n)
         /\ \A n \in Keys : Found(table, n) => contents[n] = table.items[Item(table, n)].value
<1>1. contents = [n \in {m \in Keys : Found(table, m)} |-> table.items[Item(table, n)].value]
  BY DEF contents
<1> HIDE DEF contents
<1> QED
  BY <1>1, LookupsMap

\* The table the member is added to, grown or not.
LEMMA GrownIs ==
  ASSUME NEW cap, Good(table, cap)
  PROVE  \E d \in Nat : /\ Sound(Grown, d) /\ Grown.count < Room(d)
                        /\ Grown.count = table.count /\ Copies(table, table.count, Grown)
<1>1. /\ cap \in Nat /\ Sound(table, cap) /\ table.count \in Nat
      /\ ItemCapacity(table) = Room(cap) /\ Room(cap) \in Nat
  BY GoodIs, RoomIs
<1>2. CASE Full(table)
  BY <1>2, GrowIs DEF Grown, Copies
<1>3. CASE ~Full(table)
  BY <1>1, <1>3 DEF Full, Grown, Copies
<1> QED
  BY <1>2, <1>3

LEMMA GrownGood ==
  ASSUME NEW cap, Good(table, cap)
  PROVE  /\ \E d \in Nat : Good(Grown, d)
         /\ \A M : Maps(table, M) => Maps(Grown, M)
<1>1. PICK d \in Nat : /\ Sound(Grown, d) /\ Grown.count < Room(d)
                       /\ Grown.count = table.count /\ Copies(table, table.count, Grown)
  BY GrownIs
<1>2. Grown.count \in Nat /\ Room(d) \in Nat
  BY <1>1, RoomIs, GoodIs
<1>3. Grown.count <= Room(d)
  BY <1>1, <1>2
<1> QED
  BY <1>1, <1>3, CopiesMap DEF Good

LEMMA AppendIs ==
  ASSUME NEW cap, Good(table, cap), NEW n \in Keys, NEW v \in Values, ~Found(table, n)
  PROVE  /\ CellIx(Grown, n) # -1
         /\ \E d \in Nat : Good(Insert(Grown, n, v), d)
         /\ \A M : Maps(table, M) => Maps(Insert(Grown, n, v), With(M, n, v))
<1>1. /\ cap \in Nat /\ Sound(table, cap) /\ table.count \in Nat
      /\ table.count < cap \/ cap = 0
  BY GoodIs
<1>2. \A i \in 1 .. table.count : table.items[i].name # n
  BY <1>1, FoundIs
<1>3. PICK d \in Nat : /\ Sound(Grown, d) /\ Grown.count < Room(d)
                       /\ Grown.count = table.count /\ Copies(table, table.count, Grown)
  BY GrownIs
<1> DEFINE g == Grown
           u == Insert(Grown, n, v)
<1>4. \A i \in 1 .. g.count : g.items[i].name # n
  BY <1>2, <1>3 DEF Copies
<1>5. Room(d) \in Nat /\ (d > 0 => Room(d) < d) /\ Room(0) = 0
  BY RoomIs DEF Room
<1>6. g.count < d /\ g.count \in Nat
  BY <1>1, <1>3, <1>5
<1>7. CellIx(g, n) # -1 /\ Sound(u, d) /\ AppendedAs(g, n, v, CellIx(g, n), u)
  BY <1>3, <1>4, <1>6, InsertIs
<1>8. u.count <= Room(d)
  BY <1>3, <1>5, <1>6, <1>7 DEF AppendedAs
<1>9. ASSUME NEW M, Maps(table, M) PROVE Maps(u, With(M, n, v))
  <2>1. Maps(g, M)
    BY <1>3, <1>9, CopiesMap
  <2> QED
    BY <1>4, <1>6, <1>7, <2>1, AppendedMaps
<1> QED
  BY <1>7, <1>8, <1>9 DEF Good
\* The next table is in order and says M of the present one's members.
Becomes(M) == \E cap \in Nat : Good(table', cap) /\ Maps(table', M)

InUse == TableInv /\ ~cleared

LEMMA InUseIs ==
  ASSUME InUse
  PROVE  /\ \E cap \in Nat : Good(table, cap)
         /\ Maps(table, contents)
         /\ \A n \in Keys : n \in DOMAIN contents <=> Found(table, n)
         /\ \A n \in Keys : ~ReadsFreed(table, n)
<1>1. PICK cap \in Nat : Good(table, cap)
  BY DEF InUse, TableInv
<1>2. ~cleared
  BY DEF InUse
<1> QED
  BY <1>1, <1>2, ContentsIs, ReadsNothingFreed

LEMMA SameTable ==
  ASSUME InUse, table' = table
  PROVE  Becomes(contents)
BY InUseIs DEF Becomes

LEMMA GetStep ==
  ASSUME InUse, NEW n \in Keys, Get(n)
  PROVE  /\ Becomes(contents) /\ cleared' = cleared /\ wild' = wild
         /\ ret' = IF n \in DOMAIN contents THEN contents[n] ELSE Nothing
         /\ ret' \in Values \cup {Nothing}
<1>1. PICK cap \in Nat : Good(table, cap)
  BY InUseIs
<1>2. /\ ret' = IF Found(table, n) THEN table.items[Item(table, n)].value ELSE Nothing
      /\ table' = table /\ cleared' = cleared /\ wild' = wild
  BY InUseIs DEF Get, Return
<1>3. ~cleared
  BY DEF InUse
<1>4. /\ n \in DOMAIN contents <=> Found(table, n)
      /\ Found(table, n) => contents[n] = table.items[Item(table, n)].value
  BY <1>1, <1>3, ContentsIs
<1>5. ASSUME Found(table, n) PROVE table.items[Item(table, n)].value \in Values
  <2>1. /\ Sound(table, cap) /\ Linked(table, cap) /\ (table.count < cap \/ cap = 0)
    BY <1>1, GoodIs
  <2>2. PICK i \in 1 .. table.count : table.items[i].name = n
    BY <1>5, <2>1, FoundIs
  <2>3. Item(table, n) = i
    BY <2>1, <2>2, FoundIs
  <2> QED
    BY <2>1, <2>2, <2>3, Shape
<1> HIDE DEF contents
<1> QED
  BY <1>2, <1>4, <1>5, SameTable

LEMMA Append1Step ==
  ASSUME InUse, NEW n \in Keys, NEW v \in Values, ~Found(table, n), Append1(n, v)
  PROVE  /\ cleared' = cleared /\ wild' = wild
         /\ \/ ret' = "success" /\ Becomes(With(contents, n, v))
            \/ CanFail /\ ret' = "failure" /\ Becomes(contents)
<1>1. PICK cap \in Nat : Good(table, cap)
  BY InUseIs
<1>2. /\ CellIx(Grown, n) # -1
      /\ \E d \in Nat : Good(Insert(Grown, n, v), d)
      /\ \A M : Maps(table, M) => Maps(Insert(Grown, n, v), With(M, n, v))
  BY <1>1, AppendIs
<1>3. Maps(table, contents)
  BY InUseIs
<1>4. CASE table' = Insert(Grown, n, v) /\ Return("success")
  BY <1>2, <1>3, <1>4 DEF Return, Becomes
<1>5. CASE CanFail /\ UNCHANGED table /\ Return("failure")
  BY <1>5, SameTable DEF Return
<1> QED
  BY <1>2, <1>4, <1>5 DEF Append1

LEMMA SetValueStep ==
  ASSUME InUse, NEW n \in Keys, NEW v \in Values, SetValue(n, v)
  PROVE  /\ cleared' = cleared /\ wild' = wild
         /\ \/ ret' = "success" /\ Becomes(With(contents, n, v))
            \/ CanFail /\ n \notin DOMAIN contents /\ ret' = "failure" /\ Becomes(contents)
<1>1. PICK cap \in Nat : Good(table, cap)
  BY InUseIs
<1>2. Maps(table, contents) /\ ~ReadsFreed(table, n)
      /\ (n \in DOMAIN contents <=> Found(table, n))
  BY InUseIs
<1>3. CASE Found(table, n)
  <2>1. /\ table' = [table EXCEPT !.items[Item(table, n)].value = v]
        /\ Return("success")
    BY <1>2, <1>3 DEF SetValue
  <2>2. /\ Sound(table, cap) /\ (table.count < cap \/ cap = 0)
    BY <1>1, GoodIs
  <2>3. PICK i \in 1 .. table.count : table.items[i].name = n
    BY <1>3, <2>2, FoundIs
  <2>4. Item(table, n) = i
    BY <2>2, <2>3, FoundIs
  <2>5. table' = [table EXCEPT !.items[i].value = v]
    BY <2>1, <2>4
  <2>6. Good(table', cap) /\ \A M : Maps(table, M) => Maps(table', With(M, n, v))
    BY <1>1, <2>3, <2>5, ValueIs
  <2> QED
    BY <1>2, <2>1, <2>6 DEF Return, Becomes
<1>4. CASE ~Found(table, n)
  <2>1. Append1(n, v) \/ CopyFails
    BY <1>2, <1>4 DEF SetValue
  <2>2. CASE Append1(n, v)
    BY <1>2, <1>4, <2>2, Append1Step
  <2>3. CASE CopyFails
    <3>1. CanFail /\ table' = Grown /\ Return("failure")
      BY <2>3 DEF CopyFails
    <3>2. Becomes(contents)
      BY <1>1, <1>2, <3>1, GrownGood DEF Becomes
    <3> QED
      BY <1>2, <1>4, <3>1, <3>2 DEF Return
  <2> QED
    BY <2>1, <2>2, <2>3
<1> QED
  BY <1>3, <1>4

LEMMA AddStep ==
  ASSUME InUse, NEW n \in Keys, NEW v \in Values, Add(n, v)
  PROVE  /\ cleared' = cleared /\ wild' = wild
         /\ \/ /\ n \notin DOMAIN contents
               /\ \/ ret' = "success" /\ Becomes(With(contents, n, v))
                  \/ CanFail /\ ret' = "failure" /\ Becomes(contents)
            \/ n \in DOMAIN contents /\ ret' = "failure" /\ Becomes(contents)
<1>1. ~ReadsFreed(table, n) /\ (n \in DOMAIN contents <=> Found(table, n))
  BY InUseIs
<1>2. CASE Found(table, n)
  BY <1>1, <1>2, SameTable DEF Add, Return
<1>3. CASE ~Found(table, n)
  <2>1. Append1(n, v)
    BY <1>1, <1>3 DEF Add
  <2> QED
    BY <1>1, <1>3, <2>1, Append1Step
<1> QED
  BY <1>2, <1>3

LEMMA RemoveMemberStep ==
  ASSUME InUse, NEW n \in Keys, RemoveMember(n)
  PROVE  /\ cleared' = cleared /\ wild' = wild
         /\ \/ n \in DOMAIN contents /\ ret' = "success" /\ Becomes(Without(contents, n))
            \/ n \notin DOMAIN contents /\ ret' = "failure" /\ Becomes(contents)
<1>1. PICK cap \in Nat : Good(table, cap)
  BY InUseIs
<1>2. Maps(table, contents) /\ ~ReadsFreed(table, n)
      /\ (n \in DOMAIN contents <=> Found(table, n))
  BY InUseIs
<1>3. CASE Found(table, n)
  <2>1. table' = Delete(table, n) /\ Return("success")
    BY <1>2, <1>3 DEF RemoveMember
  <2>2. Good(table', cap) /\ Maps(table', Without(contents, n))
    BY <1>1, <1>2, <1>3, <2>1, DeleteIs
  <2> QED
    BY <1>2, <1>3, <2>1, <2>2 DEF Return, Becomes
<1>4. CASE ~Found(table, n)
  BY <1>2, <1>4, SameTable DEF RemoveMember, Return
<1> QED
  BY <1>3, <1>4

LEMMA ObjInvInit ==
  ASSUME ObjInit
  PROVE  TableInv
<1>1. Good(table, 0)
  <2>1. table = Make(0) /\ 0 \in Nat
    BY DEF ObjInit
  <2>2. Room(0) = 0
    BY DEF Room
  <2> QED
    BY <2>1, <2>2, MakeIs DEF Good
<1> QED
  BY <1>1 DEF ObjInit, TableInv

LEMMA ObjInvStep ==
  ASSUME TableInv, [ObjNext]_objVars
  PROVE  TableInv'
<1>1. CASE UNCHANGED objVars
  BY <1>1 DEF TableInv, objVars
<1>2. CASE Clear
  BY <1>2 DEF Clear, TableInv
<1>3. CASE ~Clear /\ ObjNext /\ cleared
  <2>1. wild' \in BOOLEAN /\ cleared' = cleared
    BY <1>3 DEF ObjNext, Get, RemoveMember, SetValue, Add, Append1, CopyFails, Return,
                Astray, TableInv
  <2> QED
    BY <1>3, <2>1 DEF TableInv
<1>4. CASE ~Clear /\ ObjNext /\ ~cleared
  <2>1. InUse
    BY <1>4 DEF InUse
  <2>2. /\ cleared' = cleared /\ wild' = wild /\ \E M : Becomes(M)
        /\ ret' \in Values \cup {Nothing, "success", "failure"}
    <3>1. CASE \E n \in Keys : Get(n)
      <4>1. PICK n \in Keys : Get(n)
        BY <3>1
      <4> QED
        BY <2>1, <4>1, GetStep
    <3>2. CASE \E n \in Keys : RemoveMember(n)
      <4>1. PICK n \in Keys : RemoveMember(n)
        BY <3>2
      <4> QED
        BY <2>1, <4>1, RemoveMemberStep
    <3>3. CASE \E n \in Keys, v \in Values : SetValue(n, v)
      <4>1. PICK n \in Keys, v \in Values : SetValue(n, v)
        BY <3>3
      <4> QED
        BY <2>1, <4>1, SetValueStep
    <3>4. CASE \E n \in Keys, v \in Values : Add(n, v)
      <4>1. PICK n \in Keys, v \in Values : Add(n, v)
        BY <3>4
      <4> QED
        BY <2>1, <4>1, AddStep
    <3> QED
      BY <1>4, <3>1, <3>2, <3>3, <3>4 DEF ObjNext
  <2> QED
    BY <1>4, <2>2 DEF TableInv, Becomes
<1> QED
  BY <1>1, <1>2, <1>3, <1>4

\* Until it is cleared, an object's table is in order in every state: a probe for
\* a member meets no empty cell before it, whatever was added, removed (with the
\* shift of pjson_object_remove_internal) or rehashed, and no call of parson.c
\* reads a freed name or writes outside the cells.
THEOREM TablesKeepOrder == ObjSpec => []TableInv
<1>1. ObjInit => TableInv
  BY ObjInvInit
<1>2. TableInv /\ [ObjNext]_objVars => TableInv'
  BY ObjInvStep
<1> QED
  BY <1>1, <1>2, PTL DEF ObjSpec

\* cell_ixs and cells name each other and while there are members a cell is free,
\* so that every probe of pjson_object_get_cell_ix ends.
THEOREM CellsAndMembersMatch == ObjSpec => []CellsMatchItems
<1>1. ASSUME TableInv PROVE CellsMatchItems
  <2> SUFFICES ASSUME ~cleared
               PROVE  /\ ObjTypeOK
                      /\ table.count > 0 =>
                            \E c \in DOMAIN table.cells : table.cells[c] = NoItem
                      /\ \A i \in DOMAIN table.items : table.cells[table.items[i].cell] = i
                      /\ \A c \in DOMAIN table.cells :
                            table.cells[c] # NoItem => table.items[table.cells[c]].cell = c
    BY DEF CellsMatchItems
  <2>1. PICK cap \in Nat : Good(table, cap)
    BY <1>1 DEF TableInv
  <2>2. /\ Linked(table, cap) /\ table.count \in Nat /\ (table.count < cap \/ cap = 0)
    BY <2>1, GoodIs
  <2>3. /\ table.cells \in [0 .. cap - 1 -> Nat] /\ DOMAIN table.cells = 0 .. cap - 1
        /\ Len(table.items) = table.count /\ DOMAIN table.items = 1 .. table.count
        /\ \A i \in 1 .. table.count :
              /\ table.items[i].name \in Keys /\ table.items[i].value \in Values
              /\ table.items[i].cell \in 0 .. cap - 1
    BY <2>2, Shape
  <2>4. /\ \A i \in 1 .. table.count : table.cells[table.items[i].cell] = i
        /\ \A c \in 0 .. cap - 1 :
              table.cells[c] # NoItem =>
                 table.cells[c] \in 1 .. table.count /\ table.items[table.cells[c]].cell = c
    BY <2>2 DEF Linked
  <2>5. table.cells \in [DOMAIN table.cells -> 0 .. Len(table.items)]
    <3>1. \A c \in 0 .. cap - 1 : table.cells[c] \in 0 .. table.count
      BY <2>2, <2>4 DEF NoItem
    <3> QED
      BY <2>3, <3>1
  <2>6. ObjTypeOK
    BY <1>1, <2>2, <2>3, <2>5 DEF ObjTypeOK, TableInv
  <2>7. ASSUME table.count > 0
        PROVE  \E c \in DOMAIN table.cells : table.cells[c] = NoItem
    <3>1. cap # 0
      <4>1. 1 \in 1 .. table.count
        BY <2>2, <2>7
      <4>2. table.items[1].cell \in 0 .. cap - 1
        BY <2>3, <4>1
      <4> QED
        BY <4>2
    <3> QED
      BY <2>2, <2>3, <3>1, FreeCell
  <2> QED
    BY <2>3, <2>4, <2>6, <2>7
<1> QED
  BY <1>1, TablesKeepOrder, PTL

LEMMA BecomesIs ==
  ASSUME ~cleared', NEW M, Becomes(M)
  PROVE  contents' = M
<1>1. PICK cap \in Nat : Good(table', cap) /\ Maps(table', M)
  BY DEF Becomes
<1>2. contents' = [n \in {m \in Keys : Found(table', m)} |-> table'.items[Item(table', n)].value]
  BY DEF contents
<1>3. PICK N : N = contents'
  OBVIOUS
<1>4. Maps(table', N)
  <2> HIDE DEF contents
  <2> QED
    BY <1>1, <1>2, <1>3, LookupsMap
<1> HIDE DEF contents
<1> QED
  BY <1>1, <1>3, <1>4, MapsOnce

\* An object, put aside once it is cleared, is the map of names to values that
\* parson.h promises: get, set, add and remove see what was last set under a name,
\* through every collision, shift and rehash, and one that fails changes nothing.
THEOREM TablesImplementMaps ==
  ASSUME ~ClearThenUse
  PROVE  ObjSpec => ImplementsNameMap
<1>1. ASSUME ObjInit PROVE Map!MapInit
  <2>1. ~cleared /\ ret = "success" /\ table = Make(0)
    BY <1>1 DEF ObjInit
  <2>2. CellCapacity(table) = 0
    <3>1. DOMAIN table.cells = 0 .. 0 - 1
      BY <2>1 DEF Make
    <3> QED
      BY <3>1, Capacity
  <2>3. \A n : ~Found(table, n)
    BY <2>2, NoCells DEF Found
  <2>4. contents = [n \in {} |-> Nothing]
    BY <2>1, <2>3 DEF contents
  <2> QED
    BY <2>1, <2>4 DEF Map!MapInit, Map!Empty
<1>2. ASSUME TableInv, [ObjNext]_objVars PROVE [Map!MapNext]_(Map!mapVars)
  <2>1. CASE UNCHANGED objVars
    BY <2>1 DEF objVars, contents, Map!mapVars
  <2>2. CASE Clear
    BY <2>2 DEF Clear, contents, Map!MapNext, Map!Clear, Map!Succeed, Map!Empty
  <2>3. CASE ObjNext /\ ~Clear
    <3>1. InUse
      BY <1>2, <2>3 DEF InUse, ObjNext, Get, RemoveMember, SetValue, Add, Usable
    <3>2. ~cleared
      BY <3>1 DEF InUse
    <3>3. CASE \E n \in Keys : Get(n)
      <4>1. PICK n \in Keys : Get(n)
        BY <3>3
      <4>2. /\ contents' = contents
            /\ ret' = IF n \in DOMAIN contents THEN contents[n] ELSE Nothing
        BY <3>1, <3>2, <4>1, GetStep, BecomesIs
      <4> HIDE DEF contents
      <4> QED
        BY <4>2 DEF Map!MapNext, Map!Get
    <3>4. CASE \E n \in Keys : RemoveMember(n)
      <4>1. PICK n \in Keys : RemoveMember(n)
        BY <3>4
      <4>2. \/ n \in DOMAIN contents /\ ret' = "success" /\ contents' = Without(contents, n)
            \/ n \notin DOMAIN contents /\ ret' = "failure" /\ contents' = contents
        BY <3>1, <3>2, <4>1, RemoveMemberStep, BecomesIs
      <4> HIDE DEF contents
      <4> QED
        BY <4>2 DEF Map!MapNext, Map!Remove, Map!Succeed, Map!Fail, Without
    <3>5. CASE \E n \in Keys, v \in Values : SetValue(n, v)
      <4>1. PICK n \in Keys, v \in Values : SetValue(n, v)
        BY <3>5
      <4>2. \/ ret' = "success" /\ contents' = With(contents, n, v)
            \/ CanFail /\ n \notin DOMAIN contents /\ ret' = "failure" /\ contents' = contents
        BY <3>1, <3>2, <4>1, SetValueStep, BecomesIs
      <4> HIDE DEF contents
      <4>3. Map!Set(n, v)
        BY <4>2 DEF Map!Set, Map!Succeed, Map!Fail, Map!With, With
      <4> QED
        BY <4>3 DEF Map!MapNext
    <3>6. CASE \E n \in Keys, v \in Values : Add(n, v)
      <4>1. PICK n \in Keys, v \in Values : Add(n, v)
        BY <3>6
      <4>2. \/ /\ n \notin DOMAIN contents
               /\ \/ ret' = "success" /\ contents' = With(contents, n, v)
                  \/ CanFail /\ ret' = "failure" /\ contents' = contents
            \/ n \in DOMAIN contents /\ ret' = "failure" /\ contents' = contents
        BY <3>1, <3>2, <4>1, AddStep, BecomesIs
      <4> HIDE DEF contents
      <4>3. Map!Add(n, v)
        BY <4>2 DEF Map!Add, Map!Set, Map!Succeed, Map!Fail, Map!With, With
      <4> QED
        BY <4>3 DEF Map!MapNext
    <3> QED
      BY <2>3, <3>3, <3>4, <3>5, <3>6 DEF ObjNext
  <2> QED
    BY <1>2, <2>1, <2>2, <2>3
<1>3. ObjSpec => []TableInv
  BY TablesKeepOrder
<1> QED
  BY <1>1, <1>2, <1>3, PTL DEF ObjSpec, ImplementsNameMap, Map!MapSpec
=============================================================================

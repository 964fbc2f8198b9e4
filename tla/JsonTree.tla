------------------------------ MODULE JsonTree ------------------------------
(***************************************************************************)
(* Who owns a PJSON_Value (parson.c).  A value the caller made is the      *)
(* caller's until an object or an array takes it; then its parent is that  *)
(* container's value and it is freed with it.  parent # NULL is the only   *)
(* test against giving a value away twice.                                 *)
(*                                                                         *)
(* A value is an address, or Free; malloc returns a free address or fails. *)
(* What a leaf holds is left out.  The caller of the model does what the   *)
(* code does not check: it frees only values it owns, and never puts a     *)
(* value into a part of itself.                                            *)
(***************************************************************************)
EXTENDS Naturals, FiniteSets, Functions, SequencesExt

CONSTANTS Addrs,     \* the addresses malloc may return
          Names,     \* the names members may have
          NULL,      \* no parent
          Free,      \* the contents of an address that is not allocated
          MaxItems,  \* a bound of the model on the length of an array
          MaxHeld,   \* a bound of the model on the values the caller owns
          MaxLive    \* and on those there are when another call is made

\* The members of an array are numbered, those of an object have names.
Kids == (UNION {[S -> Addrs] : S \in SUBSET Names}) \cup Seq(Addrs)
Contents == [type : {"object", "array", "leaf", "cleared"},
             parent : Addrs \cup {NULL}, kids : Kids]

ASSUME JsonTreeAssumption ==
    /\ NULL \notin Addrs /\ Free \notin Contents
    /\ MaxItems \in Nat /\ MaxHeld \in Nat /\ MaxLive \in Nat

VARIABLES heap,      \* heap[a]: the value at a: its type, parent and members
          held,      \* the values a local variable owns, mostly of the caller
          orphaned,  \* those of them that a failed dotset has left with a parent
          status,    \* what the last call returned, or how a deep copy is going
          frames,    \* the calls of pjson_value_deep_copy that are active, outermost
                     \* first: their argument, return_value and place in the next
          before     \* history: heap and held when the outermost was called

treeVars == <<heap, held, orphaned, status, frames, before>>

Allocated(h) == {a \in Addrs : h[a] # Free}
Live == Allocated(heap)
Type(t) == {a \in Live : heap[a].type = t}
Fresh == Addrs \ Live

\* The member values of a, and a with everything below it: what is in every set
\* that has a and the members of what it has.
Members(h, a) == Range(h[a].kids)
Closed(h, S) == \A a \in S : Members(h, a) \subseteq S
Below(h, a) ==
    {b \in Allocated(h) :
        \A S \in SUBSET Allocated(h) : a \in S /\ Closed(h, S) => b \in S}

Value(t, p) == [type |-> t, parent |-> p, kids |-> <<>>]

NoCall == [heap |-> [a \in Addrs |-> Free], held |-> {}]

TreeInit ==
    /\ heap = [a \in Addrs |-> Free]
    /\ held = {}
    /\ orphaned = {}
    /\ status = "success"
    /\ frames = <<>> /\ before = NoCall

-----------------------------------------------------------------------------
(* Faulty steps, used by no specification: slips the properties must notice. *)

\* an old value that is overwritten and not freed
PutNoFree(h, o, n, v) ==
    [h EXCEPT ![o].kids = [m \in DOMAIN @ \cup {n} |-> IF m = n THEN v ELSE @[m]],
              ![v].parent = o]

\* a removal that closes the gap but leaves the value's parent to its free
TakeNoParent(h, r, v) == [h EXCEPT ![r].kids = Append(@, v)]

\* the value stays in the object of a failed dotset, and is freed with it
RollbackFreesAll(h, a, n) ==
    [b \in Addrs |-> IF b \in {a, h[a].kids[n]} THEN Free ELSE h[b]]

\* a loop over the members that ends before the last one
CompleteButOne(f) ==
    \E k \in DOMAIN heap[f.of].kids \cup {NULL} :
        DOMAIN heap[f.of].kids \ {k} \subseteq DOMAIN heap[f.copy].kids

\* a failing copy that returns without freeing what it has made
CopyForgets ==
    /\ frames # <<>>
    /\ held' = held \ {Last(frames).copy}
    /\ frames' = Front(frames)
    /\ status' = IF Len(frames) = 1 THEN "failure" ELSE "failing"
    /\ before' = IF Len(frames) = 1 THEN NoCall ELSE before
    /\ UNCHANGED <<heap, orphaned>>

-----------------------------------------------------------------------------
\* pjson_value_free: a value goes with all its members.
Freed(h, v) ==
    LET gone == Below(h, v) IN [a \in Addrs |-> IF a \in gone THEN Free ELSE h[a]]

\* pjson_object_set_value, once nothing can fail: an old value of the name is
\* freed, the new one gets its parent.
Put(h, o, n, v) ==
    LET old == h[o].kids
        g == IF n \in DOMAIN old THEN Freed(h, old[n]) ELSE h
    IN  [g EXCEPT ![o].kids = [m \in DOMAIN old \cup {n} |-> IF m = n THEN v ELSE old[m]],
                  ![v].parent = o]

\* pjson_array_add
Take(h, r, v) == [h EXCEPT ![r].kids = Append(@, v), ![v].parent = r]

Without(kids, n) == [m \in DOMAIN kids \ {n} |-> kids[m]]

\* The failing end of pjson_object_dotset_value: its value leaves the object made
\* for it at a, which is freed, but keeps it as its parent.
Rollback(h, a, n) == Freed([h EXCEPT ![a].kids = Without(@, n)], a)

\* An address malloc returns after it has returned those in S.
NewAddr(S) == CHOOSE a \in Fresh \ S : TRUE

Returns(h, hs, os, st) ==
    heap' = h /\ held' = hs /\ orphaned' = os /\ status' = st /\ UNCHANGED <<frames, before>>
Succeed(h, hs) == Returns(h, hs, orphaned \cap hs, "success")
FailWith(h) == Returns(h, held, orphaned, "failure")
Fail == FailWith(heap)

\* The caller keeps a value out of what is below it.
NotBelow(o, v) == o \notin Below(heap, v)

-----------------------------------------------------------------------------
\* pjson_value_init_object, _array and, for the leaves, _string to _null
New(t) ==
    \/ /\ Fresh # {}
       /\ LET a == NewAddr({})
          IN  Succeed([heap EXCEPT ![a] = Value(t, NULL)], held \cup {a})
    \/ Fail

ValueFree(v) == v \in held /\ Succeed(Freed(heap, v), held \ {v})

\* pjson_object_set_value: only a new name needs memory.
Set(o, n, v) ==
    \/ heap[v].parent # NULL /\ Fail
    \/ /\ heap[v].parent = NULL /\ NotBelow(o, v)
       /\ \/ Succeed(Put(heap, o, n, v), held \ {v})
          \/ n \notin DOMAIN heap[o].kids /\ Fail

\* pjson_object_set_string to _set_null make the leaf they set, and free it when
\* it is not set.
SetLeaf(o, n) ==
    \/ Fail
    \/ /\ Fresh # {}
       /\ LET a == NewAddr({})
              made == [heap EXCEPT ![a] = Value("leaf", NULL)]
          IN  \/ Succeed(Put(made, o, n, a), held)
              \/ n \notin DOMAIN heap[o].kids /\ FailWith(Freed(made, a))

\* pjson_object_dotset_value with the name n.m: the object n is made when there
\* is none, and m is set in it before it is added.
Dotset(o, n, m, v) ==
    \/ /\ n \in DOMAIN heap[o].kids
       /\ \/ heap[o].kids[n] \notin Type("object") /\ Fail
          \/ heap[o].kids[n] \in Type("object") /\ Set(heap[o].kids[n], m, v)
    \/ n \notin DOMAIN heap[o].kids /\ Fail
    \/ /\ n \notin DOMAIN heap[o].kids /\ Fresh # {}
       /\ LET a == NewAddr({})
              made == [heap EXCEPT ![a] = Value("object", NULL)]
              filled == Put(made, a, m, v)
          IN  \/ FailWith(Freed(made, a))
              \/ /\ heap[v].parent = NULL /\ NotBelow(o, v)
                 /\ \/ Succeed(Put(filled, o, n, a), held \ {v})
                    \/ Returns(Rollback(filled, a, m), held, orphaned \cup {v}, "failure")

\* pjson_object_dotset_string to _null: the leaf is freed when it is not set,
\* and what was made for it as well.
DotsetLeaf(o, n, m) ==
    \/ /\ n \in DOMAIN heap[o].kids /\ heap[o].kids[n] \in Type("object")
       /\ SetLeaf(heap[o].kids[n], m)
    \/ Fail
    \/ /\ Fresh # {}
       /\ FailWith(Freed([heap EXCEPT ![NewAddr({})] = Value("leaf", NULL)], NewAddr({})))
    \/ /\ n \notin DOMAIN heap[o].kids /\ Fresh # {} /\ Fresh # {NewAddr({})}
       /\ LET a == NewAddr({})
              b == NewAddr({a})
              made == [heap EXCEPT ![a] = Value("leaf", NULL), ![b] = Value("object", NULL)]
              filled == Put(made, b, m, a)
          IN  \/ Succeed(Put(filled, o, n, b), held)
              \/ FailWith(Freed(Freed(made, b), a))
              \/ FailWith(Freed(Rollback(filled, b, m), a))

\* pjson_object_remove
ObjectRemove(o, n) ==
    \/ n \notin DOMAIN heap[o].kids /\ Fail
    \/ /\ n \in DOMAIN heap[o].kids
       /\ LET g == Freed(heap, heap[o].kids[n])
          IN  Succeed([g EXCEPT ![o].kids = Without(@, n)], held)

\* pjson_object_dotremove with the name n.m
Dotremove(o, n, m) ==
    IF n \in DOMAIN heap[o].kids /\ heap[o].kids[n] \in Type("object")
    THEN ObjectRemove(heap[o].kids[n], m)
    ELSE Fail

\* pjson_object_clear frees all members.  An object is not used after that (see
\* JsonObject): its type becomes "cleared".
Emptied(c, t) == [Freed(heap, c) EXCEPT ![c] = [heap[c] EXCEPT !.type = t, !.kids = <<>>]]

ObjectClear(o) == Succeed(Emptied(o, "cleared"), held)

ArrayClear(r) == Succeed(Emptied(r, "array"), held)

ArrayAppend(r, v) ==
    \/ heap[v].parent # NULL /\ Fail
    \/ /\ heap[v].parent = NULL /\ NotBelow(r, v)
       /\ \/ Len(heap[r].kids) < MaxItems /\ Succeed(Take(heap, r, v), held \ {v})
          \/ Fail

ArrayReplace(r, i, v) ==
    \/ (heap[v].parent # NULL \/ i > Len(heap[r].kids)) /\ Fail
    \/ /\ heap[v].parent = NULL /\ NotBelow(r, v) /\ i <= Len(heap[r].kids)
       /\ LET g == Freed(heap, heap[r].kids[i])
          IN  Succeed([g EXCEPT ![r].kids[i] = v, ![v].parent = r], held \ {v})

ArrayRemove(r, i) ==
    \/ i > Len(heap[r].kids) /\ Fail
    \/ /\ i <= Len(heap[r].kids)
       /\ LET g == Freed(heap, heap[r].kids[i])
          IN  Succeed([g EXCEPT ![r].kids = SubSeq(@, 1, i - 1) \o SubSeq(@, i + 1, Len(@))],
                      held)

\* pjson_array_append_string to _null make the leaf they append,
ArrayAppendLeaf(r) ==
    \/ Fail
    \/ /\ Fresh # {}
       /\ LET a == NewAddr({})
              made == [heap EXCEPT ![a] = Value("leaf", NULL)]
          IN  \/ Len(heap[r].kids) < MaxItems /\ Succeed(Take(made, r, a), held)
              \/ FailWith(Freed(made, a))

\* and pjson_array_replace_string to _null the leaf they replace a value by.
ArrayReplaceLeaf(r, i) ==
    \/ Fail
    \/ /\ Fresh # {}
       /\ LET a == NewAddr({})
              made == [heap EXCEPT ![a] = Value("leaf", NULL)]
          IN  \/ /\ i <= Len(heap[r].kids)
                 /\ LET g == Freed(made, heap[r].kids[i])
                    IN  Succeed([g EXCEPT ![a].parent = r, ![r].kids[i] = a], held)
              \/ i > Len(heap[r].kids) /\ FailWith(Freed(made, a))

-----------------------------------------------------------------------------
(* pjson_value_deep_copy: the recursion, an activation for each value between *)
(* the one it was called for and the one it is at.                            *)

\* A cleared object is an object without members.
CopyType(t) == IF t = "cleared" THEN "object" ELSE t

\* return_value is made for a copy of v that goes to k in the copy below it.
Call(v, k) ==
    /\ Fresh # {}
    /\ LET a == NewAddr({})
       IN  /\ heap' = [heap EXCEPT ![a] = Value(CopyType(heap[v].type), NULL)]
           /\ held' = held \cup {a}
           /\ frames' = Append(frames, [of |-> v, copy |-> a, at |-> k])
    /\ status' = "copying"
    /\ UNCHANGED orphaned

DeepCopy(v) ==
    \/ Call(v, NULL) /\ before' = [heap |-> heap, held |-> held]
    \/ Fail

\* The loop of an activation is over.
Complete(f) == DOMAIN heap[f.of].kids \subseteq DOMAIN heap[f.copy].kids

\* Another turn of it: an array's members in their order, an object's in any.
\* Where a member cannot be copied, nothing has been made of it.
CopyMember(k) ==
    /\ status = "copying" /\ ~Complete(Last(frames))
    /\ LET f == Last(frames)
           done == heap[f.copy].kids
       IN  /\ k \in DOMAIN heap[f.of].kids \ DOMAIN done
           /\ heap[f.of].type = "array" => k = Len(done) + 1
           /\ \/ Call(heap[f.of].kids[k], k)
              \/ status' = "failing" /\ UNCHANGED <<heap, held, orphaned, frames>>
    /\ UNCHANGED before

\* pjson_array_add, or pjson_object_add with a copy of the name: a complete copy
\* becomes a member of the one below it.
CopyAdd ==
    /\ status = "copying" /\ Len(frames) > 1 /\ Complete(Last(frames))
    /\ LET f == Last(frames)
           c == Last(Front(frames)).copy
       IN  /\ heap' = IF heap[c].type = "array" THEN Take(heap, c, f.copy)
                      ELSE Put(heap, c, f.at, f.copy)
           /\ held' = held \ {f.copy}
           /\ frames' = Front(frames)
    /\ UNCHANGED <<orphaned, status, before>>

CopyReturns ==
    /\ status = "copying" /\ Len(frames) = 1 /\ Complete(Last(frames))
    /\ frames' = <<>> /\ before' = NoCall /\ status' = "success"
    /\ UNCHANGED <<heap, held, orphaned>>

\* The innermost copy is freed: a member of it has failed, or it could not be
\* added to the one below it, which is freed next.
CopyGivesUp ==
    /\ \/ status = "failing"
       \/ status = "copying" /\ Len(frames) > 1 /\ Complete(Last(frames))
    /\ heap' = Freed(heap, Last(frames).copy)
    /\ held' = held \ {Last(frames).copy}
    /\ frames' = Front(frames)
    /\ status' = IF Len(frames) = 1 THEN "failure" ELSE "failing"
    /\ before' = IF Len(frames) = 1 THEN NoCall ELSE before
    /\ UNCHANGED orphaned

CopyStep ==
    \/ \E k \in Names \cup (1 .. MaxItems) : CopyMember(k)
    \/ CopyAdd \/ CopyReturns \/ CopyGivesUp

-----------------------------------------------------------------------------
Calls ==
    \/ /\ Cardinality(held) < MaxHeld
       /\ \/ \E t \in {"object", "array", "leaf"} : New(t)
          \/ \E v \in Live : DeepCopy(v)
    \/ \E o \in Type("object"), n \in Names :
          \/ SetLeaf(o, n) \/ ObjectRemove(o, n) \/ ObjectClear(o)
          \/ \E m \in Names : DotsetLeaf(o, n, m) \/ Dotremove(o, n, m)
          \/ \E v \in Live : Set(o, n, v) \/ \E m \in Names : Dotset(o, n, m, v)
    \/ \E r \in Type("array"), i \in 1 .. MaxItems :
          \/ ArrayRemove(r, i) \/ ArrayAppendLeaf(r) \/ ArrayReplaceLeaf(r, i)
          \/ ArrayClear(r)
          \/ \E v \in Live : ArrayAppend(r, v) \/ ArrayReplace(r, i, v)

TreeNext ==
    \/ frames = <<>> /\ \E v \in held : ValueFree(v)
    \/ frames = <<>> /\ Cardinality(Live) <= MaxLive /\ Calls
    \/ CopyStep

TreeSpec == TreeInit /\ [][TreeNext]_treeVars

-----------------------------------------------------------------------------
TreeTypeOK ==
    /\ heap \in [Addrs -> Contents \cup {Free}]
    /\ \A v \in Live :
          /\ heap[v].type = "array" => heap[v].kids \in Seq(Addrs)
          /\ heap[v].type = "object" => DOMAIN heap[v].kids \subseteq Names
          /\ heap[v].type \in {"leaf", "cleared"} => heap[v].kids = <<>>
    /\ orphaned \subseteq held /\ held \subseteq Live
    /\ status \in {"success", "failure", "copying", "failing"}
    /\ status \in {"copying", "failing"} <=> frames # <<>>

\* Where a value is: with the caller, or under a name or index of a container.
Places(v) ==
    ({"local"} \X {h \in held : h = v})
    \cup UNION {{c} \X {k \in DOMAIN heap[c].kids : heap[c].kids[k] = v} : c \in Live}

\* Every value is in one place, every place holds a value, and all of them are
\* below the caller's: whatever calls succeed or fail, nothing is leaked, shared,
\* or left to be freed twice.
OneOwner ==
    /\ TreeTypeOK
    /\ \A v \in Live : Cardinality(Places(v)) = 1
    /\ \A v \in Live : Members(heap, v) \subseteq Live
    /\ Live = UNION {Below(heap, v) : v \in held}

\* parent is NULL for the caller's values and the owner of all others, so the
\* test of it in pjson_object_set_value, pjson_array_append_value and
\* pjson_array_replace_value refuses what is owned and nothing else.  The value
\* of a failed dotset is the exception: it keeps a parent that was freed, and
\* every container refuses it from then on.
ParentIsOwner ==
    \A v \in Live :
        IF v \in held THEN heap[v].parent = NULL \/ v \in orphaned
        ELSE heap[v].parent \in Live /\ v \in Members(heap, heap[v].parent)

\* A call that fails, at once or after it has made half of what it was to make,
\* leaves every container with the members it had and the caller with its values.
\* For a deep copy, that is what there was when it was called.
FailureChangesNothing ==
    [][status' = "failure" =>
         LET then == IF frames = <<>> THEN [heap |-> heap, held |-> held] ELSE before
         IN  /\ held' = then.held
             /\ Live' = Allocated(then.heap)
             /\ \A a \in Live' : /\ heap'[a].type = then.heap[a].type
                                 /\ heap'[a].kids = then.heap[a].kids
      ]_treeVars

\* pjson_value_equals on the values at a in g and at b in h: what is below b is
\* like what is below a, name by name and index by index.  A cleared object is
\* one without members.
SameType(s, t) == s = t \/ {s, t} = {"cleared", "object"}
Same(g, a, h, b) ==
    \E f \in [Below(h, b) -> Below(g, a)] :
        /\ f[b] = a
        /\ \A y \in Below(h, b) :
              /\ SameType(h[y].type, g[f[y]].type)
              /\ DOMAIN h[y].kids = DOMAIN g[f[y]].kids
              /\ \A k \in DOMAIN h[y].kids : f[h[y].kids[k]] = g[f[y]].kids[k]

\* pjson_value_deep_copy returns a value equal to its argument as it was, shares
\* nothing with it, and leaves every other value and its caller's values alone.
CopyIsEqual ==
    [][frames # <<>> /\ status' = "success" =>
         LET v == frames[1].of
             c == frames[1].copy
         IN  /\ Same(before.heap, v, heap', c)
             /\ Below(heap', c) \cap Allocated(before.heap) = {}
             /\ held' = before.held \cup {c}
             /\ \A a \in Allocated(before.heap) : heap'[a] = before.heap[a]
      ]_treeVars
=============================================================================

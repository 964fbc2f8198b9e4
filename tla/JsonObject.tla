----------------------------- MODULE JsonObject -----------------------------
(***************************************************************************)
(* The table of a PJSON_Object (parson.c): members in an array, found      *)
(* through cells that are probed linearly from the hash of the name.  A    *)
(* removal moves the last member into the hole it leaves and shifts cells  *)
(* back, so that no probe stops early.                                     *)
(*                                                                         *)
(* A cell holds the position of a member, counted from 1; NoItem stands    *)
(* for OBJECT_INVALID_IX.  pjson_object_clear frees the members but leaves *)
(* the cells as they are: what a later call makes of them is outside the   *)
(* map as soon as it reads a freed name or runs out of empty cells, which  *)
(* the model records in `wild` and does not continue from.                 *)
(***************************************************************************)
EXTENDS Integers, Sequences, FiniteSetsExt

CONSTANTS Keys, Values,      \* the names and the values members may have
          Nothing,           \* what a lookup of an absent name returns: NULL
          Hash,              \* Hash[n]: hash_string of the name n
          StartingCapacity,  \* STARTING_CAPACITY, a power of two (16 in parson.c)
          CanFail,           \* whether malloc may fail
          ClearThenUse       \* whether an object is used after a clear

ASSUME JsonObjectAssumption ==
    /\ Hash \in [Keys -> Nat]
    /\ StartingCapacity \in Nat /\ StartingCapacity > 1
    /\ CanFail \in BOOLEAN /\ ClearThenUse \in BOOLEAN

NoItem == 0

VARIABLES table,    \* the PJSON_Object: its cells, its members, its count
          ret,      \* what the last call returned
          cleared,  \* whether pjson_object_clear has been called
          wild      \* whether a call read a freed name or wrote outside cells

objVars == <<table, ret, cleared, wild>>

\* pjson_object_init: no cell holds a member.
Make(capacity) ==
    [cells |-> [i \in 0 .. capacity - 1 |-> NoItem], items |-> <<>>, count |-> 0]

CellCapacity(t) == Cardinality(DOMAIN t.cells)
ItemCapacity(t) == (CellCapacity(t) * 7) \div 10

ObjInit ==
    /\ table = Make(0)
    /\ ret = "success"
    /\ cleared = FALSE
    /\ wild = FALSE

\* pjson_object_get_cell_ix: the cells a probe for n visits, in order; it stops
\* at the first that is empty or holds n.
Visited(t, n, i) == (Hash[n] + i) % CellCapacity(t)
Stops(t, n, i) ==
    LET item == t.cells[Visited(t, n, i)]
    IN  item = NoItem \/ t.items[item].name = n
Probes(t, n) == {i \in 0 .. CellCapacity(t) - 1 : Stops(t, n, i)}

\* The cell it returns, or -1: every cell is taken, by other names.
CellIx(t, n) == IF Probes(t, n) = {} THEN -1 ELSE Visited(t, n, Min(Probes(t, n)))
Found(t, n) == CellIx(t, n) # -1 /\ t.cells[CellIx(t, n)] # NoItem
Item(t, n) == t.cells[CellIx(t, n)]

\* The probe compares n with the name of a member that is gone.
ReadsFreed(t, n) ==
    \E i \in 0 .. CellCapacity(t) - 1 :
        LET item == t.cells[Visited(t, n, i)]
        IN  /\ \A j \in Probes(t, n) : i <= j
            /\ item > t.count
            /\ Hash[t.items[item].name] = Hash[n]

\* The last lines of pjson_object_add and pjson_object_set_value.
Insert(t, n, v) ==
    LET cell == CellIx(t, n)
        last == t.count + 1
        item == [name |-> n, value |-> v, cell |-> cell]
    IN  [cells |-> [t.cells EXCEPT ![cell] = last],
         items |-> SubSeq(t.items, 1, t.count) \o <<item>>
                   \o SubSeq(t.items, last + 1, Len(t.items)),
         count |-> last]

\* pjson_object_grow_and_rehash
Grow(t) ==
    LET grown[k \in 0 .. t.count] ==
            IF k = 0 THEN Make(Max({2 * CellCapacity(t), StartingCapacity}))
            ELSE Insert(grown[k - 1], t.items[k].name, t.items[k].value)
    IN  grown[t.count]

\* Where the probe for the member of cell j starts.
Home(t, j) == Hash[t.items[t.cells[j]].name] % CellCapacity(t)

-----------------------------------------------------------------------------
(* Faulty operators, used by no specification: slips the properties must notice. *)

\* the shift without the cells that wrapped around the end of the table
ShiftsNoWrap(t, i, j) == j > i /\ Home(t, j) <= i

\* the last member is moved without its entry in cell_ixs
MoveLastNoCellIx(t, item) ==
    [t EXCEPT !.items[item] = [t.items[t.count] EXCEPT !.cell = t.items[item].cell],
              !.cells[t.items[t.count].cell] = item]

-----------------------------------------------------------------------------
Full(t) == t.count >= ItemCapacity(t)

\* Whether a removal moves the cell at j into the hole at i: a probe for its
\* member would otherwise stop at the hole.
Shifts(t, i, j) ==
    LET k == Home(t, j)
    IN  \/ j > i /\ (k <= i \/ k > j)
        \/ j < i /\ k <= i /\ k > j

\* The last member takes the place of the one at `item`.
MoveLast(t, item) ==
    [t EXCEPT !.items[item] = t.items[t.count],
              !.cells[t.items[t.count].cell] = item]

\* The loop of pjson_object_remove_internal: the hole is at i, the cell looked
\* at last at j; it ends at an empty cell.
Scan(s) ==
    LET j == (s.j + 1) % CellCapacity(s.t)
    IN  IF s.done \/ s.t.cells[j] = NoItem THEN [s EXCEPT !.done = TRUE]
        ELSE IF ~Shifts(s.t, s.i, j) THEN [s EXCEPT !.j = j]
        ELSE [t |-> [s.t EXCEPT !.items[s.t.cells[j]].cell = s.i,
                                !.cells[s.i] = s.t.cells[j]],
              i |-> j, j |-> j, done |-> FALSE]

ShiftBack(t, hole) ==
    LET scanned[x \in 0 .. CellCapacity(t) - 1] ==
            IF x = 0 THEN [t |-> t, i |-> hole, j |-> hole, done |-> FALSE]
            ELSE Scan(scanned[x - 1])
        end == scanned[CellCapacity(t) - 1]
    IN  [end.t EXCEPT !.cells[end.i] = NoItem]

\* pjson_object_remove_internal
Delete(t, n) ==
    LET item == Item(t, n)
        moved == IF item < t.count THEN MoveLast(t, item) ELSE t
    IN  ShiftBack([moved EXCEPT !.items = SubSeq(@, 1, t.count - 1)
                                          \o SubSeq(@, t.count + 1, Len(@)),
                                !.count = @ - 1],
                  CellIx(t, n))

-----------------------------------------------------------------------------
\* An object in use: any, until a call has gone astray.
Usable == ~wild /\ (cleared => ClearThenUse)

Return(status) == ret' = status /\ UNCHANGED <<cleared, wild>>
Astray == wild' = TRUE /\ UNCHANGED <<table, ret, cleared>>

\* pjson_object_get_value
Get(n) ==
    /\ Usable
    /\ \/ ReadsFreed(table, n) /\ Astray
       \/ /\ ~ReadsFreed(table, n)
          /\ Return(IF Found(table, n) THEN table.items[Item(table, n)].value ELSE Nothing)
          /\ UNCHANGED table

\* The member is appended, after the table has grown if it is full.
Grown == IF Full(table) THEN Grow(table) ELSE table
Append1(n, v) ==
    \/ /\ CellIx(Grown, n) = -1
       /\ Astray
    \/ /\ CellIx(Grown, n) # -1
       /\ table' = Insert(Grown, n, v)
       /\ Return("success")
    \/ /\ CanFail /\ Full(table)
       /\ UNCHANGED table /\ Return("failure")

\* The copy of its name, which only set_value makes, fails after that.
CopyFails == CanFail /\ table' = Grown /\ Return("failure")

\* pjson_object_set_value
SetValue(n, v) ==
    /\ Usable
    /\ \/ ReadsFreed(table, n) /\ Astray
       \/ /\ ~ReadsFreed(table, n) /\ Found(table, n)
          /\ table' = [table EXCEPT !.items[Item(table, n)].value = v]
          /\ Return("success")
       \/ /\ ~ReadsFreed(table, n) /\ ~Found(table, n)
          /\ (Append1(n, v) \/ CopyFails)

\* pjson_object_add, which the parser, dotset and deep_copy call
Add(n, v) ==
    /\ Usable
    /\ \/ ReadsFreed(table, n) /\ Astray
       \/ /\ ~ReadsFreed(table, n) /\ Found(table, n)
          /\ UNCHANGED table /\ Return("failure")
       \/ /\ ~ReadsFreed(table, n) /\ ~Found(table, n)
          /\ Append1(n, v)

\* pjson_object_remove
RemoveMember(n) ==
    /\ Usable
    /\ \/ ReadsFreed(table, n) /\ Astray
       \/ /\ ~ReadsFreed(table, n) /\ Found(table, n)
          /\ table' = Delete(table, n)
          /\ Return("success")
       \/ /\ ~ReadsFreed(table, n) /\ ~Found(table, n)
          /\ UNCHANGED table /\ Return("failure")

\* pjson_object_clear: the members are freed, their cells stay.
Clear ==
    /\ Usable
    /\ table' = [table EXCEPT !.count = 0]
    /\ cleared' = TRUE
    /\ ret' = "success"
    /\ UNCHANGED wild

ObjNext ==
    \/ \E n \in Keys : Get(n) \/ RemoveMember(n)
    \/ \E n \in Keys, v \in Values : SetValue(n, v) \/ Add(n, v)
    \/ Clear

ObjSpec == ObjInit /\ [][ObjNext]_objVars

-----------------------------------------------------------------------------
ObjTypeOK ==
    /\ table.cells \in [DOMAIN table.cells -> 0 .. Len(table.items)]
    /\ table.count \in 0 .. Len(table.items)
    /\ \A i \in DOMAIN table.items :
          /\ table.items[i].name \in Keys /\ table.items[i].value \in Values
          /\ table.items[i].cell \in DOMAIN table.cells
    /\ ret \in Values \cup {Nothing, "success", "failure"}
    /\ cleared \in BOOLEAN /\ wild \in BOOLEAN

\* Cells and members name each other, whatever removals moved: cell_ixs leads
\* the next removal to the right cell, and no cell to a member that is gone.
\* And while there are members a cell is free, so that every probe ends: add and
\* set_value use the cell they are given without looking at it.
CellsMatchItems ==
    ~cleared =>
        /\ ObjTypeOK
        /\ table.count > 0 => \E c \in DOMAIN table.cells : table.cells[c] = NoItem
        /\ \A i \in DOMAIN table.items : table.cells[table.items[i].cell] = i
        /\ \A c \in DOMAIN table.cells :
              table.cells[c] # NoItem => table.items[table.cells[c]].cell = c

(***************************************************************************)
(* The table is the map its callers take it for: a name is found by every  *)
(* lookup from its set to its removal, through collisions, shifts and      *)
(* rehashes.                                                               *)
(***************************************************************************)
contents ==
    IF cleared THEN [n \in {} |-> Nothing]
    ELSE [n \in {m \in Keys : Found(table, m)} |-> table.items[Item(table, n)].value]

Map == INSTANCE NameMap WITH map <- contents, Names <- Keys, NULL <- Nothing

ImplementsNameMap == Map!MapSpec

\* parson.h:187, "Removes all name-value pairs in object": a lookup in a cleared
\* object finds nothing and touches nothing that was freed.
ClearedStaysSound == ~wild
=============================================================================

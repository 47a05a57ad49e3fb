---------------------------- MODULE CowAttributes ----------------------------
(***************************************************************************)
(* Attributes: values that copies share until one of them is modified      *)
(* (datadog::Attribute and dd_attribute_t over CowValue, types/attribute). *)
(*                                                                         *)
(* A CowValue is a heap cell with a count of the attributes that point to  *)
(* it; arrays and objects hold attributes in turn.  Attributes are copied  *)
(* into commands, messages and contexts and end up on other threads, so    *)
(* threads share cells, and nothing but the count is atomic.  An attribute *)
(* itself is only used by one thread at a time (cpp/attribute.cpp:489).    *)
(*                                                                         *)
(* Whatever can hold a pointer is a slot: an attribute of the program, the *)
(* place of an item or a property in a cell, a temporary of a thread.      *)
(* Primitive values live in the attribute itself: such a slot is Nil.      *)
(***************************************************************************)
EXTENDS Integers, FiniteSets

CONSTANTS Threads,
          Handles,     \* attributes of the program, each used by one thread
          Cells,       \* bound: CowValues allocated at a time
          Names,       \* of properties, or the indices of an array
          Data,        \* what strings and UUIDs are made of
          Nil

ASSUME FiniteAssumption ==
  /\ IsFiniteSet(Threads) /\ IsFiniteSet(Handles) /\ IsFiniteSet(Cells) /\ IsFiniteSet(Names)

ASSUME NilAssumption == Nil \notin Cells

VARIABLES ptr,      \* ptr[s]: the cell that slot s points to, or Nil
          count,    \* CowValue::ref_count; 0: no such cell
          value,    \* what a cell holds apart from attributes
          owner,    \* the thread that uses an attribute
          pc,       \* where each thread is in the call it is making
          dying     \* the slots whose references a thread has still to release

cowVars == << ptr, count, value, owner, pc, dying >>

Container == "container"
Types == Data \union {Container}

Handle(h)  == << "handle", h >>
Item(c, n) == << "item", c, n >>
Old(t)     == << "old", t >>
Copy(t)    == << "copy", t >>

ItemsOf(c) == {Item(c, n) : n \in Names}

Slots == {Handle(h) : h \in Handles} \union (UNION {ItemsOf(c) : c \in Cells})
           \union {Old(t) : t \in Threads} \union {Copy(t) : t \in Threads}

Refs(c) == {s \in Slots : ptr[s] = c}

Held(S) == {s \in S : ptr[s] # Nil}

Fresh(c) == count[c] = 0 /\ Held(ItemsOf(c)) = {}

Cell(h) == ptr[Handle(h)]

\* An attribute of thread t that holds a string, or an array or an object.
Uses(t, h) == owner[h] = t
Holds(h)   == Cell(h) # Nil

\* A call goes on when every reference it gave up has been released.
At(t, label) == pc[t].at = label /\ dying[t] = {}

NoCall == [at |-> "idle"]

-----------------------------------------------------------------------------
(***************************************************************************)
(* CowValue::Release: the last one deletes the cell, and that releases     *)
(* every attribute in it, on the thread that got there last.               *)
(***************************************************************************)
Released(t, s) ==
  LET c == ptr[s]
  IN  /\ count' = [count EXCEPT ![c] = @ - 1]
      /\ ptr' = [ptr EXCEPT ![s] = Nil]
      /\ dying' = [dying EXCEPT ![t] = (@ \ {s}) \union
                                         (IF count[c] = 1 THEN Held(ItemsOf(c)) ELSE {})]

Release(t) ==
  \E s \in dying[t] : Released(t, s) /\ UNCHANGED << value, owner, pc >>

-----------------------------------------------------------------------------
(***************************************************************************)
(* Calls that replace what an attribute holds.                             *)
(***************************************************************************)
\* SetNull, SetBool, SetInt and so on, and the destructor.
SetPrimitive(t, h) ==
  /\ At(t, "idle") /\ Uses(t, h) /\ Holds(h)
  /\ dying' = [dying EXCEPT ![t] = {Handle(h)}]
  /\ UNCHANGED << ptr, count, value, owner, pc >>

\* SetString, SetUUID, InitArray and InitObject of an attribute of another type.
SetOther(t, h, v) ==
  /\ At(t, "idle") /\ Uses(t, h)
  /\ Holds(h) => (value[Cell(h)] = Container) # (v = Container)
  /\ dying' = [dying EXCEPT ![t] = Held({Handle(h)})]
  /\ pc' = [pc EXCEPT ![t] = [at |-> "allocate", handle |-> h, value |-> v]]
  /\ UNCHANGED << ptr, count, value, owner >>

Allocate(t) ==
  /\ At(t, "allocate")
  /\ \E c \in Cells :
       /\ Fresh(c)
       /\ count' = [count EXCEPT ![c] = 1]
       /\ value' = [value EXCEPT ![c] = pc[t].value]
       /\ ptr' = [ptr EXCEPT ![Handle(pc[t].handle)] = c]
  /\ pc' = [pc EXCEPT ![t] = NoCall]
  /\ UNCHANGED << owner, dying >>

\* operator=(const Attribute&) of an attribute that holds a cell.
Assign(t, h, g) ==
  /\ At(t, "idle") /\ Uses(t, h) /\ Uses(t, g) /\ h # g /\ Holds(g)
  /\ dying' = [dying EXCEPT ![t] = Held({Handle(h)})]
  /\ pc' = [pc EXCEPT ![t] = [at |-> "addref", handle |-> h, from |-> g]]
  /\ UNCHANGED << ptr, count, value, owner >>

AddRef(t) ==
  /\ At(t, "addref")
  /\ LET c == Cell(pc[t].from)
     IN  /\ count' = [count EXCEPT ![c] = @ + 1]
         /\ ptr' = [ptr EXCEPT ![Handle(pc[t].handle)] = c]
  /\ pc' = [pc EXCEPT ![t] = NoCall]
  /\ UNCHANGED << value, owner, dying >>

\* GetArrayItem, GetObjectProperty: a copy is moved into h, perhaps g itself,
\* which releases what it held.
Get(t, h, g, n) ==
  /\ At(t, "idle") /\ Uses(t, h) /\ Uses(t, g) /\ Holds(g)
  /\ LET c == ptr[Item(Cell(g), n)]
     IN  /\ c # Nil
         /\ count' = [count EXCEPT ![c] = @ + 1]
         /\ ptr' = [ptr EXCEPT ![Old(t)] = Cell(h), ![Handle(h)] = c]
  /\ dying' = [dying EXCEPT ![t] = IF Holds(h) THEN {Old(t)} ELSE {}]
  /\ UNCHANGED << value, owner, pc >>

\* An attribute moves into a command or a message, and is used there.
Send(t, h, u) ==
  /\ At(t, "idle") /\ Uses(t, h) /\ u # t
  /\ owner' = [owner EXCEPT ![h] = u]
  /\ UNCHANGED << ptr, count, value, pc, dying >>

-----------------------------------------------------------------------------
(***************************************************************************)
(* Calls that modify what an attribute holds: GetCowValueForWrite, and the *)
(* change, in three steps.                                                 *)
(***************************************************************************)
Modify(t, h, call) ==
  /\ At(t, "idle") /\ Uses(t, h) /\ Holds(h)
  /\ pc' = [pc EXCEPT ![t] = call]

\* SetString and SetUUID of a string or a UUID.
SetData(t, h, d) ==
  /\ Modify(t, h, [at |-> "check", handle |-> h, op |-> "set", data |-> d])
  /\ value[Cell(h)] # Container
  /\ UNCHANGED << ptr, count, value, owner, dying >>

\* InitArray, InitObject and ArrayClear.
Clear(t, h) ==
  /\ Modify(t, h, [at |-> "check", handle |-> h, op |-> "clear"])
  /\ value[Cell(h)] = Container
  /\ UNCHANGED << ptr, count, value, owner, dying >>

\* ArrayReserve and ReserveObjectPropertyCapacity that need more room.
Reserve(t, h) ==
  /\ Modify(t, h, [at |-> "check", handle |-> h, op |-> "reserve"])
  /\ value[Cell(h)] = Container
  /\ UNCHANGED << ptr, count, value, owner, dying >>

DeleteProperty(t, h, n) ==
  /\ Modify(t, h, [at |-> "check", handle |-> h, op |-> "delete", name |-> n])
  /\ value[Cell(h)] = Container
  /\ UNCHANGED << ptr, count, value, owner, dying >>

\* ArrayPush and SetObjectProperty, in C: a copy of the item is made first,
\* and so it is in C++ if the item is the attribute itself.
PutCopy(t, h, n, g) ==
  /\ Modify(t, h, [at |-> "check", handle |-> h, op |-> "put", name |-> n, item |-> Copy(t)])
  /\ value[Cell(h)] = Container /\ Uses(t, g) /\ Holds(g)
  /\ count' = [count EXCEPT ![Cell(g)] = @ + 1]
  /\ ptr' = [ptr EXCEPT ![Copy(t)] = Cell(g)]
  /\ UNCHANGED << value, owner, dying >>

\* In C++ the item is taken from where it is.
Put(t, h, n, g) ==
  /\ Modify(t, h, [at |-> "check", handle |-> h, op |-> "put", name |-> n, item |-> Handle(g)])
  /\ value[Cell(h)] = Container /\ Uses(t, g) /\ Holds(g) /\ g # h
  /\ UNCHANGED << ptr, count, value, owner, dying >>

IsShared(c) == count[c] > 1

\* Mutant of Check: a container that is shared is modified all the same.
CheckLeafOnly(t) ==
  /\ At(t, "check")
  /\ LET c == Cell(pc[t].handle)
     IN  pc' = [pc EXCEPT ![t].at =
                  IF IsShared(c) /\ value[c] # Container THEN "clone" ELSE "write"]
  /\ UNCHANGED << ptr, count, value, owner, dying >>

Check(t) ==
  /\ At(t, "check")
  /\ pc' = [pc EXCEPT ![t].at = IF IsShared(Cell(pc[t].handle)) THEN "clone" ELSE "write"]
  /\ UNCHANGED << ptr, count, value, owner, dying >>

\* Mutant of Clone: the attributes in the cell are copied bit by bit.
CloneUncounted(t) ==
  /\ At(t, "clone")
  /\ LET h == pc[t].handle
         c == Cell(h)
     IN  \E k \in Cells :
           /\ Fresh(k)
           /\ count' = [count EXCEPT ![k] = 1]
           /\ value' = [value EXCEPT ![k] = value[c]]
           /\ ptr' = [s \in Slots |-> IF s = Old(t) THEN c
                                      ELSE IF s = Handle(h) THEN k
                                      ELSE IF s \in ItemsOf(k) THEN ptr[Item(c, s[3])]
                                      ELSE ptr[s]]
  /\ pc' = [pc EXCEPT ![t].at = "write"]
  /\ dying' = [dying EXCEPT ![t] = {Old(t)}]
  /\ UNCHANGED owner

\* The clone shares the attributes in the cell, whose counts go up; then the
\* reference to the original is released.
Clone(t) ==
  /\ At(t, "clone")
  /\ LET h == pc[t].handle
         c == Cell(h)
         Shared(d) == {n \in Names : ptr[Item(c, n)] = d}
     IN  \E k \in Cells :
           /\ Fresh(k)
           /\ count' = [d \in Cells |-> IF d = k THEN 1 ELSE count[d] + Cardinality(Shared(d))]
           /\ value' = [value EXCEPT ![k] = value[c]]
           /\ ptr' = [s \in Slots |-> IF s = Old(t) THEN c
                                      ELSE IF s = Handle(h) THEN k
                                      ELSE IF s \in ItemsOf(k) THEN ptr[Item(c, s[3])]
                                      ELSE ptr[s]]
  /\ pc' = [pc EXCEPT ![t].at = "write"]
  /\ dying' = [dying EXCEPT ![t] = {Old(t)}]
  /\ UNCHANGED owner

WriteData(t) ==
  /\ At(t, "write") /\ pc[t].op = "set"
  /\ value' = [value EXCEPT ![Cell(pc[t].handle)] = pc[t].data]
  /\ pc' = [pc EXCEPT ![t] = NoCall]
  /\ UNCHANGED << ptr, count, owner, dying >>

WriteClear(t) ==
  /\ At(t, "write") /\ pc[t].op \in {"clear", "reserve"}
  /\ dying' = [dying EXCEPT ![t] =
                 IF pc[t].op = "clear" THEN Held(ItemsOf(Cell(pc[t].handle))) ELSE {}]
  /\ pc' = [pc EXCEPT ![t] = NoCall]
  /\ UNCHANGED << ptr, count, value, owner >>

Place(t) == Item(Cell(pc[t].handle), pc[t].name)

WriteDelete(t) ==
  /\ At(t, "write") /\ pc[t].op = "delete"
  /\ dying' = [dying EXCEPT ![t] = Held({Place(t)})]
  /\ pc' = [pc EXCEPT ![t] = NoCall]
  /\ UNCHANGED << ptr, count, value, owner >>

\* The attribute that was there is assigned to: released first.
WriteOver(t) ==
  /\ At(t, "write") /\ pc[t].op = "put"
  /\ dying' = [dying EXCEPT ![t] = Held({Place(t)})]
  /\ pc' = [pc EXCEPT ![t].at = "put"]
  /\ UNCHANGED << ptr, count, value, owner >>

WriteItem(t) ==
  /\ At(t, "put")
  /\ LET c == ptr[pc[t].item]
     IN  /\ count' = [count EXCEPT ![c] = @ + 1]
         /\ ptr' = [ptr EXCEPT ![Place(t)] = c]
  /\ dying' = [dying EXCEPT ![t] = Held({Copy(t)})]
  /\ pc' = [pc EXCEPT ![t] = NoCall]
  /\ UNCHANGED << value, owner >>

-----------------------------------------------------------------------------
CowInit ==
  /\ ptr = [s \in Slots |-> Nil]
  /\ count = [c \in Cells |-> 0]
  /\ value \in [Cells -> {Container}]
  /\ owner \in [Handles -> Threads]
  /\ pc = [t \in Threads |-> NoCall]
  /\ dying = [t \in Threads |-> {}]

CowNext ==
  \E t \in Threads :
    \/ Release(t) \/ Allocate(t) \/ AddRef(t) \/ Check(t) \/ Clone(t)
    \/ WriteData(t) \/ WriteClear(t) \/ WriteDelete(t) \/ WriteOver(t) \/ WriteItem(t)
    \/ \E h \in Handles :
         \/ SetPrimitive(t, h) \/ Clear(t, h) \/ Reserve(t, h)
         \/ \E v \in Types : SetOther(t, h, v)
         \/ \E d \in Data : SetData(t, h, d)
         \/ \E u \in Threads : Send(t, h, u)
         \/ \E n \in Names : DeleteProperty(t, h, n)
         \/ \E g \in Handles :
              \/ Assign(t, h, g)
              \/ \E n \in Names : Get(t, h, g, n) \/ Put(t, h, n, g) \/ PutCopy(t, h, n, g)

CowSpec == CowInit /\ [][CowNext]_cowVars

-----------------------------------------------------------------------------
(***************************************************************************)
(* Properties.                                                             *)
(***************************************************************************)
CowTypeOK ==
  /\ ptr \in [Slots -> Cells \union {Nil}]
  /\ count \in [Cells -> Nat]
  /\ value \in [Cells -> Types]
  /\ owner \in [Handles -> Threads]
  /\ dying \in [Threads -> SUBSET Slots]
  /\ DOMAIN pc = Threads

\* A count is the number of the slots that point to the cell, at every moment:
\* no cell is deleted while it is referenced, and none is left behind.
CountsExact == \A c \in Cells : count[c] = Cardinality(Refs(c))

\* cow.hpp:57-66, 141-143: between the check and the change nobody else gets to
\* see the cell that is going to be modified.
WritesAlone ==
  \A t \in Threads : pc[t].at \in {"write", "put"} =>
    Refs(Cell(pc[t].handle)) = {Handle(pc[t].handle)}

CountsHold == CowTypeOK /\ CountsExact /\ WritesAlone
=============================================================================

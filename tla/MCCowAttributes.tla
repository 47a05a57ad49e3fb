--------------------------- MODULE MCCowAttributes ---------------------------
(***************************************************************************)
(* Instances of CowAttributes for TLC, and what an attribute means.        *)
(***************************************************************************)
EXTENDS CowAttributes, MCJsonText, TLC

Symmetry == Permutations(Threads) \union Permutations(Handles)
              \union Permutations(Cells) \union Permutations(Data)

\* The tree of values that a slot stands for; no deeper than there are cells,
\* unless it has become a part of itself.
RECURSIVE Meaning(_, _)
Meaning(s, depth) ==
  IF ptr[s] = Nil THEN << >>
  ELSE IF depth = 0 THEN << "endless" >>
  ELSE << value[ptr[s]], [n \in Names |-> Meaning(Item(ptr[s], n), depth - 1)] >>

Value(h) == Meaning(Handle(h), Cardinality(Cells) + 1)

\* The thread that uses h is about to write in its cell, or still releases what
\* it took out of it.
Changing(h) ==
  LET t == owner[h]
  IN  \/ pc[t].at \in {"write", "put"} /\ pc[t].handle = h
      \/ dying[t] \intersect ItemsOf(Cell(h)) # {}

\* It points to another cell, and not because it was cloned.
Assigned(h) == Cell(h)' # Cell(h) /\ pc[owner[h]].at # "clone"

\* cow.hpp:22-24: whatever is done to one attribute, on whatever thread, the value
\* of every other attribute stays as it was, and a clone is worth the original.
Isolated ==
  [][\A h \in Handles : Assigned(h) \/ Changing(h) \/ Value(h)' = Value(h)]_cowVars
=============================================================================

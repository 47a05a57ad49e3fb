\* Two threads, three attributes, three cells with two places for items each.
CONSTANTS
  Threads = {t1, t2}
  Handles = {h1, h2, h3}
  Cells = {c1, c2, c3}
  Names = {n1, n2}
  Data = {d1}
  Nil = Nil
SYMMETRY Symmetry
SPECIFICATION CowSpec
INVARIANTS CountsHold
PROPERTIES Isolated
CHECK_DEADLOCK FALSE

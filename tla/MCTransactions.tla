--------------------------- MODULE MCTransactions ---------------------------
(* Instances of Transactions: cell x under mutex 1, array a under mutex 2. *)
(* Nested: the main context nests transactions over the cell, and locks    *)
(* mutex 2 inside or outside of them.  Flat: both locations, one level.    *)
(* Rewriting: one context that writes the array at both levels.            *)
EXTENDS Transactions

CONSTANTS x, a   \* locations

GuardCellAndArray == [l \in {x, a} |-> IF l = x THEN 1 ELSE 2]

Depth(main, other) == [c \in Contexts |-> IF c = MainThread THEN main ELSE other]

Nested == [cells |-> {x}, arrays |-> {}, depth |-> Depth(2, 1), rewrites |-> FALSE]
Flat == [cells |-> {x}, arrays |-> {a}, depth |-> Depth(1, 1), rewrites |-> FALSE]
Rewriting == [cells |-> {}, arrays |-> {a}, depth |-> Depth(2, 0), rewrites |-> TRUE]

SoundPrograms == {Nested, Flat}
RewritingPrograms == {Rewriting}
=============================================================================

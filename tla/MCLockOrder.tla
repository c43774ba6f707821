---------------------------- MODULE MCLockOrder -----------------------------
(* TLC instance of LockOrder: two threads and three mutexes. *)
EXTENDS LockOrder

Stmt(how, t, x, y) == [how |-> how, t |-> t, x |-> x, y |-> y]
Ordered == {p \in Mutexes \X Mutexes : p[1] < p[2]}
Distinct == {p \in Mutexes \X Mutexes : p[1] # p[2]}
MCStatements ==
    {Stmt(how, t, m, 0) : how \in {"lock", "unlock"}, t \in Spawned, m \in Mutexes} \cup
    {Stmt("join", t, 3 - t, 0) : t \in Spawned} \cup
    {Stmt("import", t, p[1], p[2]) : t \in Spawned, p \in Distinct} \cup
    {Stmt(how, 1, p[1], p[2]) : how \in {"pair", "swapped"}, p \in Ordered} \cup
    {Stmt(how, 2, p[1], p[2]) : how \in {"lambda", "branch"}, p \in Ordered} \cup
    {Stmt("loop", t, 1, 0) : t \in Spawned}
=============================================================================

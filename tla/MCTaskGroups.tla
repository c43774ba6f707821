---------------------------- MODULE MCTaskGroups ----------------------------
(* TLC instance of TaskGroups: three tasks.  t1 awaits and cancels l as    *)
(* main does, and tries to await itself.                                   *)
EXTENDS TaskGroups

CONSTANTS t1, t2, l, main

AllTasks == {t1, t2, l}
MutualAwaits ==
  [w \in AllTasks \cup {main} |->
     CASE w = main -> AllTasks [] w = t1 -> {t1, l} [] w \in {t2, l} -> {}]
=============================================================================

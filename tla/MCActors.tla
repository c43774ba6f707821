------------------------------ MODULE MCActors ------------------------------
(* TLC instance of Actors: two actors and two clients.  The actor a queries *)
(* b, and tries to query itself; the clients query both.                    *)
EXTENDS Actors

CONSTANTS a, b, c1, c2

TwoActors == {a, b}

LayeredQueries ==
  [w \in {a, b, c1, c2} |->
     CASE w = b -> {} [] w \in {a, c1, c2} -> {a, b}]
LayeredPosts == [w \in {a, b, c1, c2} |-> IF w = b THEN 0 ELSE 1]
=============================================================================

------------------------ MODULE NestedTransactions ------------------------
(***************************************************************************)
(* What Aura's transaction(...) promises to programs that touch shared     *)
(* data only inside transactions over its mutex: every transaction works   *)
(* on its own view of the locations it locked, a nested one starts from    *)
(* the view of its parent, a commit hands the view over whole (to the      *)
(* parent, or to the shared data in one step), a rollback drops it.        *)
(***************************************************************************)
EXTENDS Integers, Sequences

CONSTANTS
  Contexts,   \* execution contexts
  Mutexes,    \* mutexes that name shared regions
  Cells,      \* shared locations that are replaced as a whole
  Arrays,     \* shared arrays, updated element by element
  Values,
  GuardOf,    \* GuardOf[x]: the mutex of location x
  MaxLen      \* bound on the length of an array

VARIABLES
  data,    \* the committed value of each location
  levels   \* per context, the stack of [held, view] of its transactions

absVars == <<data, levels>>

Locations == DOMAIN data
Top(s) == s[Len(s)]
Pop(s) == SubSeq(s, 1, Len(s) - 1)

Held(stack) == UNION {stack[i].held : i \in 1 .. Len(stack)}
Guarded(ms) == {x \in Locations : GuardOf[x] \in ms}

(* The value of x that a context with this stack of transactions sees. *)
Visible(stack, x) ==
  IF stack # <<>> /\ x \in DOMAIN Top(stack).view THEN Top(stack).view[x] ELSE data[x]

(* The results of one update of an array: set, push or pop. *)
ArrayUpdates(a) ==
  {[a EXCEPT ![i] = v] : i \in 1 .. Len(a), v \in Values}
    \cup {Append(a, v) : v \in {w \in Values : Len(a) < MaxLen}}
    \cup (IF a = <<>> THEN {} ELSE {Pop(a)})

Updates(x, old) == IF x \in Cells THEN Values ELSE ArrayUpdates(old)

AbsBegin(c, ms) ==
  /\ \A d \in Contexts \ {c} : Held(levels[d]) \cap ms = {}
  /\ levels' = [levels EXCEPT ![c] = Append(@,
       [held |-> ms,
        view |-> [x \in Guarded(Held(levels[c]) \cup ms) |-> Visible(levels[c], x)]])]
  /\ UNCHANGED data

AbsWrite(c, x) ==
  /\ levels[c] # <<>>
  /\ x \in Guarded(Held(levels[c]))
  /\ \E w \in Updates(x, Visible(levels[c], x)) :
       levels' = [levels EXCEPT ![c][Len(levels[c])].view[x] = w]
  /\ UNCHANGED data

AbsCommitNested(c) ==
  /\ Len(levels[c]) > 1
  /\ LET child == Top(levels[c])
         rest == Pop(levels[c])
     IN levels' = [levels EXCEPT ![c] =
          [rest EXCEPT ![Len(rest)] = [held |-> @.held \cup child.held,
                                       view |-> child.view]]]
  /\ UNCHANGED data

AbsCommit(c) ==
  /\ Len(levels[c]) = 1
  /\ data' = [x \in Locations |-> Visible(levels[c], x)]
  /\ levels' = [levels EXCEPT ![c] = <<>>]

AbsRollback(c) ==
  /\ levels[c] # <<>>
  /\ levels' = [levels EXCEPT ![c] = Pop(@)]
  /\ UNCHANGED data

AbsNext ==
  \E c \in Contexts :
    \/ \E ms \in (SUBSET Mutexes) \ {{}} : AbsBegin(c, ms)
    \/ \E x \in Locations : AbsWrite(c, x)
    \/ AbsCommitNested(c)
    \/ AbsCommit(c)
    \/ AbsRollback(c)

AbsInit ==
  /\ \A x \in Locations : IF x \in Cells THEN data[x] \in Values
                                          ELSE data[x] \in Seq(Values)
  /\ levels = [c \in Contexts |-> <<>>]

AbsSpec == AbsInit /\ [][AbsNext]_absVars
=============================================================================

----------------------------- MODULE SymbolTable -----------------------------
(***************************************************************************)
(* Scopes and stack slots of one function under compilation                *)
(* (ast/SymbolTable.cpp).  A table is [scopes, next, saved]: names with    *)
(* their slots, the next slot, and the value next had when each scope was  *)
(* opened.  Slots are bytes.                                               *)
(***************************************************************************)
EXTENDS Naturals, Sequences, SequencesExt, TLC

NoSlot == 256                 \* std::nullopt: not a byte

PushScope(s) == [s EXCEPT !.scopes = Append(@, <<>>), !.saved = Append(@, s.next)]

\* faulty variant: the slots of a closed scope stay taken.
PopScopeKeepsSlots(s) == [s EXCEPT !.scopes = Front(@), !.saved = Front(@)]

PopScope(s) == [scopes |-> Front(s.scopes), next |-> Last(s.saved), saved |-> Front(s.saved)]

\* the slot a definition gets is the value of next before it
Define(s, name) ==
    [s EXCEPT !.scopes[Len(s.scopes)] = (name :> s.next) @@ @, !.next = (@ + 1) % 256]

\* the innermost scope that has the name
Resolve(s, name) ==
    LET found == {i \in DOMAIN s.scopes : name \in DOMAIN s.scopes[i]}
    IN  IF found = {} THEN NoSlot
        ELSE s.scopes[CHOOSE i \in found : \A j \in found : j <= i][name]

Reset == PushScope([scopes |-> <<>>, next |-> 0, saved |-> <<>>])

=============================================================================

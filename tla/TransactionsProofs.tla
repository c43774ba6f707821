------------------------- MODULE TransactionsProofs -------------------------
(***************************************************************************)
(* For any number of contexts, mutexes, locations and levels of nesting:   *)
(* the mutexes a context owns are exactly those of its transactions and of *)
(* the operation it is in, whatever fails half way, and so two contexts    *)
(* are never in transactions that name the same mutex.                     *)
(*                                                                         *)
(* From that follows WriteInv: every buffered write is of a location whose *)
(* mutex is owned, and every prior value is still the one in the heap.  A  *)
(* rollback therefore changes nothing, and the steps are those of          *)
(* NestedTransactions, in the order in which the last mutex is locked, a   *)
(* value is buffered, and a transaction is popped from the stack.          *)
(***************************************************************************)
EXTENDS Transactions, SyncRuntimeProofs, SequenceTheorems

(* Maps with some of the keys D. *)
Maps(D, V) == UNION {[E -> V] : E \in SUBSET D}

Txns(p) ==
  [mutexIds : SUBSET Mutexes, acquiredMutexIds : Seq(Mutexes),
   priorCells : Maps(p.cells, Values), pendingCells : Maps(p.cells, Values),
   priorArrays : Maps(p.arrays, Seq(Values)), pendingArrays : Maps(p.arrays, Seq(Values))]

Locking == {"lock", "wouldDeadlock", "tryLock", "recheck", "giveUp"}
Writing == {"apply", "restore"}

HeapTypes ==
  /\ program \in Programs
  /\ cells \in [program.cells -> Values]
  /\ arrays \in [program.arrays -> Seq(Values)]

ContextTypes ==
  /\ txns \in [Contexts -> Seq(Txns(program))]
  /\ pc \in [Contexts -> {"run", "unwind", "done"} \cup Locking \cup Writing]
  /\ request \in [Contexts -> SUBSET Mutexes]
  /\ acquired \in [Contexts -> Seq(Mutexes)]
  /\ cur \in [Contexts -> Txns(program)]
  /\ base \in [Contexts -> Nat]
  /\ ending \in [Contexts -> {"no", "return", "fail"}]

(* Which locals an operation uses, and what an unwinding that ends the     *)
(* program goes down to.                                                   *)
LocalsOfPhase(l, aq, t, b, e) ==
  /\ l \notin Locking => aq = <<>>
  /\ l \notin Writing => t = NoTxn
  /\ e # "no" => b = 0

Phases == \A c \in Contexts : LocalsOfPhase(pc[c], acquired[c], cur[c], base[c], ending[c])

(* Every buffered write comes with the value that a rollback restores, and *)
(* a begin in progress has a level left for its transaction.               *)
Restorable(t) ==
  /\ DOMAIN t.pendingCells = DOMAIN t.priorCells
  /\ DOMAIN t.pendingArrays = DOMAIN t.priorArrays

Buffers ==
  \A c \in Contexts :
    /\ Len(txns[c]) <= program.depth[c]
    /\ pc[c] \in Locking => Len(txns[c]) < program.depth[c]
    /\ \A i \in 1 .. Len(txns[c]) : Restorable(txns[c][i])

(* The mutexes a stack of transactions names. *)
Named(ts) == UNION {ts[i].mutexIds : i \in 1 .. Len(ts)}

NoRepeat(s) == \A i, j \in 1 .. Len(s) : s[i] = s[j] => i = j

(* No mutex is acquired twice, and a transaction names only mutexes that   *)
(* it or a transaction below it has acquired: so the locks that are left   *)
(* when the top is popped cover what the rest of the stack names.          *)
SoundStack(ts) ==
  /\ \A i \in 1 .. Len(ts) : NoRepeat(ts[i].acquiredMutexIds)
  /\ \A i, j \in 1 .. Len(ts) : \A m \in Mutexes :
       m \in Elems(ts[i].acquiredMutexIds) /\ m \in Elems(ts[j].acquiredMutexIds) => i = j
  /\ \A i \in 1 .. Len(ts) : \A m \in ts[i].mutexIds :
       \E j \in 1 .. i : m \in Elems(ts[j].acquiredMutexIds)

(* What the context with these transactions, these mutexes acquired by a   *)
(* begin in progress, and those of a popped transaction still to be        *)
(* released, must own.                                                     *)
LocksFit(ts, aq, cq, owned) ==
  /\ SoundStack(ts)
  /\ NoRepeat(aq) /\ NoRepeat(cq)
  /\ aq = <<>> \/ cq = <<>>
  /\ TxnLocks(ts) \cap Elems(aq) = {} /\ TxnLocks(ts) \cap Elems(cq) = {}
  /\ owned = TxnLocks(ts) \cup Elems(aq) \cup Elems(cq)

Locks ==
  \A c \in Contexts :
    LocksFit(txns[c], acquired[c], cur[c].acquiredMutexIds, ownedMutexes[c])

TxnInv == SyncInv /\ HeapTypes /\ ContextTypes /\ Phases /\ Buffers /\ Locks

-----------------------------------------------------------------------------
(* Sequences. *)

(* What is left of a sequence when its last element is popped. *)
LEMMA PopFacts ==
  ASSUME NEW S, NEW s \in Seq(S), s # <<>>
  PROVE  /\ Len(s) \in Nat \ {0}
         /\ Top(s) \in S
         /\ Pop(s) \in Seq(S)
         /\ Len(Pop(s)) = Len(s) - 1
         /\ \A i \in 1 .. Len(s) - 1 : Pop(s)[i] = s[i]
<1>1. Len(s) \in Nat \ {0}
  BY EmptySeq, LenProperties
<1>2. s[Len(s)] \in S
  BY <1>1, ElementOfSeq
<1> DEFINE n == Len(s) - 1
<1>3. n \in Int /\ n >= 0 /\ 1 \in Int /\ n = Len(s) - 1 /\ \A i \in 1 .. n : s[i] \in S
  BY <1>1, ElementOfSeq
<1> HIDE DEF n
<1>4. /\ SubSeq(s, 1, n) \in Seq(S)
      /\ Len(SubSeq(s, 1, n)) = IF 1 <= n THEN n - 1 + 1 ELSE 0
      /\ \A i \in 1 .. n - 1 + 1 : SubSeq(s, 1, n)[i] = s[1 + i - 1]
  BY <1>3, SubSeqProperties
<1>5. n - 1 + 1 = n /\ \A i \in 1 .. n : 1 + i - 1 = i
  BY <1>3
<1>6. Len(SubSeq(s, 1, n)) = n
  BY <1>3, <1>4
<1>7. \A i \in 1 .. n : SubSeq(s, 1, n)[i] = s[i]
  BY <1>4, <1>5
<1> QED
  BY <1>1, <1>2, <1>4, <1>6, <1>7 DEF Top, Pop, n

(* Replacing the last element is popping it and appending the new one. *)
LEMMA ReplaceTop ==
  ASSUME NEW S, NEW s \in Seq(S), s # <<>>, NEW v \in S
  PROVE  SetTop(s, v) = Append(Pop(s), v)
<1> DEFINE n == Len(s)
           t == [s EXCEPT ![n] = v]
           u == Append(Pop(s), v)
<1>1. /\ n \in Nat \ {0} /\ Pop(s) \in Seq(S) /\ Len(Pop(s)) = n - 1
      /\ \A i \in 1 .. n - 1 : Pop(s)[i] = s[i]
  BY PopFacts
<1>2. /\ u \in Seq(S) /\ Len(u) = Len(Pop(s)) + 1
      /\ \A i \in 1 .. Len(Pop(s)) : u[i] = Pop(s)[i]
      /\ u[Len(Pop(s)) + 1] = v
  BY <1>1, AppendProperties
<1>3. Len(u) = n /\ u[n] = v /\ \A i \in 1 .. n - 1 : u[i] = s[i]
  BY <1>1, <1>2
<1>4. s \in [1 .. n -> S] /\ t \in [1 .. n -> S]
  BY <1>1, LenProperties
<1>5. t \in Seq(S) /\ Len(t) = n
  BY <1>1, <1>4, SeqDef, LenProperties
<1>6. \A i \in 1 .. n : t[i] = u[i]
  BY <1>1, <1>3, <1>4
<1> HIDE DEF t, u
<1>7. t = u
  BY <1>2, <1>3, <1>5, <1>6, SeqEqual
<1> QED
  BY <1>7 DEF SetTop, t, u, n

(* The elements of an appended, a popped and a concatenated sequence.      *)
LEMMA ElemsAppend ==
  ASSUME NEW S, NEW s \in Seq(S), NEW m \in S
  PROVE  /\ Append(s, m) \in Seq(S)
         /\ Elems(Append(s, m)) = Elems(s) \cup {m}
         /\ NoRepeat(s) /\ m \notin Elems(s) => NoRepeat(Append(s, m))
<1> DEFINE u == Append(s, m)
           n == Len(s)
<1>1. /\ u \in Seq(S) /\ Len(u) = n + 1
      /\ \A i \in 1 .. n : u[i] = s[i]
      /\ u[n + 1] = m
  BY AppendProperties
<1>2. n \in Nat /\ \A i : i \in 1 .. n + 1 <=> i \in 1 .. n \/ i = n + 1
  BY LenProperties
<1> HIDE DEF u, n
<1>3. Elems(u) = Elems(s) \cup {m}
  BY <1>1, <1>2 DEF Elems, n
<1>4. ASSUME NoRepeat(s), m \notin Elems(s) PROVE NoRepeat(u)
  <2>1. \A i \in 1 .. n : s[i] # m
    BY <1>4 DEF Elems, n
  <2>2. \A i, j \in 1 .. n : s[i] = s[j] => i = j
    BY <1>4 DEF NoRepeat, n
  <2> SUFFICES ASSUME NEW i \in 1 .. n + 1, NEW j \in 1 .. n + 1, u[i] = u[j] PROVE i = j
    BY <1>1 DEF NoRepeat
  <2> QED
    BY <1>1, <1>2, <2>1, <2>2
<1> QED
  BY <1>1, <1>3, <1>4 DEF u

(* Releasing the newest of several different locks leaves the others.      *)
LEMMA ElemsPop ==
  ASSUME NEW S, NEW s \in Seq(S), s # <<>>, NoRepeat(s)
  PROVE  /\ NoRepeat(Pop(s))
         /\ Elems(s) = Elems(Pop(s)) \cup {Top(s)}
         /\ Top(s) \notin Elems(Pop(s))
<1> DEFINE u == Pop(s)
           n == Len(s)
<1>1. n \in Nat \ {0} /\ Len(u) = n - 1 /\ \A i \in 1 .. n - 1 : u[i] = s[i]
  BY PopFacts
<1>2. \A i : i \in 1 .. n <=> i \in 1 .. n - 1 \/ i = n
  BY <1>1
<1>3. n \notin 1 .. n - 1
  BY <1>1
<1>4. \A i, j \in 1 .. n : s[i] = s[j] => i = j
  BY DEF NoRepeat
<1>5. Top(s) = s[n]
  BY DEF Top
<1> HIDE DEF u, n
<1>6. Elems(u) = {s[i] : i \in 1 .. n - 1} /\ Elems(s) = {s[i] : i \in 1 .. n}
  BY <1>1 DEF Elems, n
<1>7. NoRepeat(u)
  BY <1>1, <1>2, <1>4 DEF NoRepeat
<1> QED
  BY <1>2, <1>3, <1>4, <1>5, <1>6, <1>7 DEF u

(* A parent that takes over the locks of its child has both.               *)
LEMMA ElemsConcat ==
  ASSUME NEW S, NEW s \in Seq(S), NEW t \in Seq(S)
  PROVE  /\ s \o t \in Seq(S)
         /\ Elems(s \o t) = Elems(s) \cup Elems(t)
         /\ NoRepeat(s) /\ NoRepeat(t) /\ Elems(s) \cap Elems(t) = {} => NoRepeat(s \o t)
<1> DEFINE u == s \o t
           m == Len(s)
           n == Len(t)
<1>1. /\ u \in Seq(S) /\ Len(u) = m + n
      /\ \A i \in 1 .. m + n : u[i] = IF i <= m THEN s[i] ELSE t[i - m]
  BY ConcatProperties
<1>2. m \in Nat /\ n \in Nat
  BY LenProperties
<1> HIDE DEF u, m, n
<1>3. \A i \in 1 .. m : i \in 1 .. m + n /\ u[i] = s[i]
  BY <1>1, <1>2
<1>4. \A i \in 1 .. n : i + m \in 1 .. m + n /\ u[i + m] = t[i]
  BY <1>1, <1>2
<1>5. \A i \in 1 .. m + n : \/ i \in 1 .. m
                            \/ i - m \in 1 .. n /\ i = (i - m) + m
  BY <1>2
<1>6. Elems(u) = {u[i] : i \in 1 .. m + n} /\ Elems(s) = {s[i] : i \in 1 .. m}
        /\ Elems(t) = {t[i] : i \in 1 .. n}
  BY <1>1 DEF Elems, m, n
<1>7. Elems(u) = Elems(s) \cup Elems(t)
  <2>1. \A i \in 1 .. m + n : u[i] \in Elems(s) \cup Elems(t)
    BY <1>3, <1>4, <1>5, <1>6
  <2>2. \A i \in 1 .. m : s[i] \in Elems(u)
    BY <1>3, <1>6
  <2>3. \A i \in 1 .. n : t[i] \in Elems(u)
    BY <1>4, <1>6
  <2> QED
    BY <2>1, <2>2, <2>3, <1>6
<1>8. ASSUME NoRepeat(s), NoRepeat(t), Elems(s) \cap Elems(t) = {} PROVE NoRepeat(u)
  <2>1. \A i, j \in 1 .. m : s[i] = s[j] => i = j
    BY <1>8 DEF NoRepeat, m
  <2>2. \A i, j \in 1 .. n : t[i] = t[j] => i = j
    BY <1>8 DEF NoRepeat, n
  <2>3. \A i \in 1 .. m, j \in 1 .. n : s[i] # t[j]
    BY <1>8, <1>6
  <2> SUFFICES ASSUME NEW i \in 1 .. m + n, NEW j \in 1 .. m + n, u[i] = u[j] PROVE i = j
    BY <1>1 DEF NoRepeat
  <2>4. CASE i \in 1 .. m /\ j \in 1 .. m
    BY <2>4, <2>1, <1>3
  <2>5. CASE i - m \in 1 .. n /\ j - m \in 1 .. n
    <3>1. u[i] = t[i - m] /\ u[j] = t[j - m]
      BY <2>5, <1>4, <1>5, <1>2
    <3>2. i - m = j - m
      BY <2>5, <2>2, <3>1
    <3> QED
      BY <3>2, <1>2
  <2>6. CASE i \in 1 .. m /\ j - m \in 1 .. n
    <3>1. u[i] = s[i] /\ u[j] = t[j - m]
      BY <2>6, <1>3, <1>4, <1>5, <1>2
    <3> QED
      BY <2>6, <2>3, <3>1
  <2>7. CASE i - m \in 1 .. n /\ j \in 1 .. m
    <3>1. u[j] = s[j] /\ u[i] = t[i - m]
      BY <2>7, <1>3, <1>4, <1>5, <1>2
    <3> QED
      BY <2>7, <2>3, <3>1
  <2> QED
    BY <1>5, <2>4, <2>5, <2>6, <2>7
<1> QED
  BY <1>1, <1>7, <1>8 DEF u

-----------------------------------------------------------------------------
(* Stacks of transactions and the locks they stand for. *)

(* T is a set of transactions, of which only the locks matter here. *)
LocksTyped(T) ==
  \A t \in T : t.acquiredMutexIds \in Seq(Mutexes) /\ t.mutexIds \in SUBSET Mutexes

(* A new transaction on top. *)
LEMMA PushStack ==
  ASSUME NEW T, LocksTyped(T), NEW ts \in Seq(T), NEW t \in T
  PROVE  /\ Append(ts, t) \in Seq(T)
         /\ TxnLocks(Append(ts, t)) = TxnLocks(ts) \cup Elems(t.acquiredMutexIds)
         /\ Named(Append(ts, t)) = Named(ts) \cup t.mutexIds
         /\ ( /\ SoundStack(ts) /\ NoRepeat(t.acquiredMutexIds)
              /\ TxnLocks(ts) \cap Elems(t.acquiredMutexIds) = {}
              /\ t.mutexIds \subseteq TxnLocks(ts) \cup Elems(t.acquiredMutexIds) )
            => SoundStack(Append(ts, t))
<1> DEFINE u == Append(ts, t)
           n == Len(ts)
<1>1. /\ u \in Seq(T) /\ Len(u) = n + 1
      /\ \A i \in 1 .. n : u[i] = ts[i]
      /\ u[n + 1] = t
  BY AppendProperties
<1>2. n \in Nat /\ \A i : i \in 1 .. n + 1 <=> i \in 1 .. n \/ i = n + 1
  BY LenProperties
<1>3. \A i \in 1 .. n : n + 1 \notin 1 .. i /\ 1 .. i \subseteq 1 .. n
  BY <1>2
<1> HIDE DEF u, n
<1>4. TxnLocks(u) = TxnLocks(ts) \cup Elems(t.acquiredMutexIds)
  <2>1. /\ \A m : m \in TxnLocks(u) <=> \E i \in 1 .. n + 1 : m \in Elems(u[i].acquiredMutexIds)
        /\ \A m : m \in TxnLocks(ts) <=> \E i \in 1 .. n : m \in Elems(ts[i].acquiredMutexIds)
    BY <1>1 DEF TxnLocks, n
  <2> QED
    BY <2>1, <1>1, <1>2
<1>5. Named(u) = Named(ts) \cup t.mutexIds
  <2>1. /\ \A m : m \in Named(u) <=> \E i \in 1 .. n + 1 : m \in u[i].mutexIds
        /\ \A m : m \in Named(ts) <=> \E i \in 1 .. n : m \in ts[i].mutexIds
    BY <1>1 DEF Named, n
  <2> QED
    BY <2>1, <1>1, <1>2
<1>6. ASSUME SoundStack(ts), NoRepeat(t.acquiredMutexIds),
             TxnLocks(ts) \cap Elems(t.acquiredMutexIds) = {},
             t.mutexIds \subseteq TxnLocks(ts) \cup Elems(t.acquiredMutexIds)
      PROVE  SoundStack(u)
  <2>0. \A m : m \in TxnLocks(ts) <=> \E i \in 1 .. n : m \in Elems(ts[i].acquiredMutexIds)
    BY DEF TxnLocks, n
  <2>1. \A i \in 1 .. n + 1 : NoRepeat(u[i].acquiredMutexIds)
    BY <1>1, <1>2, <1>6 DEF SoundStack, n
  <2>2. ASSUME NEW i \in 1 .. n + 1, NEW j \in 1 .. n + 1, NEW m \in Mutexes,
               m \in Elems(u[i].acquiredMutexIds), m \in Elems(u[j].acquiredMutexIds)
        PROVE  i = j
    <3>1. CASE i \in 1 .. n /\ j \in 1 .. n
      BY <1>1, <1>6, <2>2, <3>1 DEF SoundStack, n
    <3>2. CASE i = n + 1 /\ j \in 1 .. n
      BY <1>1, <1>6, <2>0, <2>2, <3>2
    <3>3. CASE i \in 1 .. n /\ j = n + 1
      BY <1>1, <1>6, <2>0, <2>2, <3>3
    <3> QED
      BY <1>2, <3>1, <3>2, <3>3
  <2>3. ASSUME NEW i \in 1 .. n + 1, NEW m \in u[i].mutexIds
        PROVE  \E j \in 1 .. i : m \in Elems(u[j].acquiredMutexIds)
    <3>1. CASE i \in 1 .. n
      <4>1. PICK j \in 1 .. i : m \in Elems(ts[j].acquiredMutexIds)
        BY <1>1, <1>6, <2>3, <3>1 DEF SoundStack, n
      <4> QED
        BY <1>1, <1>3, <3>1, <4>1
    <3>2. CASE i = n + 1
      <4>1. CASE m \in TxnLocks(ts)
        BY <1>1, <1>2, <2>0, <3>2, <4>1
      <4>2. CASE m \in Elems(t.acquiredMutexIds)
        BY <1>1, <1>2, <3>2, <4>2
      <4> QED
        BY <1>1, <1>6, <3>2, <4>1, <4>2
    <3> QED
      BY <1>2, <3>1, <3>2
  <2> QED
    BY <1>1, <2>1, <2>2, <2>3 DEF SoundStack
<1> QED
  BY <1>1, <1>4, <1>5, <1>6 DEF u

(* The rest of a sound stack is sound: nothing in it needs the top. *)
LEMMA PopStack ==
  ASSUME NEW T, LocksTyped(T), NEW ts \in Seq(T), ts # <<>>, SoundStack(ts)
  PROVE  /\ SoundStack(Pop(ts))
         /\ NoRepeat(Top(ts).acquiredMutexIds)
         /\ TxnLocks(ts) = TxnLocks(Pop(ts)) \cup Elems(Top(ts).acquiredMutexIds)
         /\ TxnLocks(Pop(ts)) \cap Elems(Top(ts).acquiredMutexIds) = {}
         /\ Named(ts) = Named(Pop(ts)) \cup Top(ts).mutexIds
         /\ Top(ts).mutexIds \subseteq TxnLocks(ts)
<1> DEFINE u == Pop(ts)
           n == Len(ts)
<1>1. /\ n \in Nat \ {0} /\ u \in Seq(T) /\ Len(u) = n - 1
      /\ \A i \in 1 .. n - 1 : u[i] = ts[i]
  BY PopFacts
<1>2. \A i : i \in 1 .. n <=> i \in 1 .. n - 1 \/ i = n
  BY <1>1
<1>3. n \notin 1 .. n - 1 /\ \A i \in 1 .. n - 1 : 1 .. i \subseteq 1 .. n - 1
  BY <1>1
<1>4. Top(ts) = ts[n]
  BY DEF Top
<1>5. \A i \in 1 .. n : Elems(ts[i].acquiredMutexIds) \subseteq Mutexes
  <2> SUFFICES ASSUME NEW i \in 1 .. n PROVE Elems(ts[i].acquiredMutexIds) \subseteq Mutexes
    OBVIOUS
  <2>1. ts[i].acquiredMutexIds \in Seq(Mutexes)
    BY ElementOfSeq DEF LocksTyped
  <2> QED
    BY <2>1, ElementOfSeq DEF Elems
<1> HIDE DEF u, n
<1>6. /\ \A m : m \in TxnLocks(u) <=> \E i \in 1 .. n - 1 : m \in Elems(ts[i].acquiredMutexIds)
      /\ \A m : m \in TxnLocks(ts) <=> \E i \in 1 .. n : m \in Elems(ts[i].acquiredMutexIds)
  BY <1>1 DEF TxnLocks, n
<1>7. /\ \A m : m \in Named(u) <=> \E i \in 1 .. n - 1 : m \in ts[i].mutexIds
      /\ \A m : m \in Named(ts) <=> \E i \in 1 .. n : m \in ts[i].mutexIds
  BY <1>1 DEF Named, n
<1>8. TxnLocks(ts) = TxnLocks(u) \cup Elems(Top(ts).acquiredMutexIds)
  BY <1>2, <1>4, <1>6
<1>9. Named(ts) = Named(u) \cup Top(ts).mutexIds
  BY <1>2, <1>4, <1>7
<1>10. /\ \A i \in 1 .. n : NoRepeat(ts[i].acquiredMutexIds)
       /\ \A i, j \in 1 .. n : \A m \in Mutexes :
            m \in Elems(ts[i].acquiredMutexIds) /\ m \in Elems(ts[j].acquiredMutexIds) => i = j
       /\ \A i \in 1 .. n : \A m \in ts[i].mutexIds :
            \E j \in 1 .. i : m \in Elems(ts[j].acquiredMutexIds)
  BY DEF SoundStack, n
<1>11. TxnLocks(u) \cap Elems(Top(ts).acquiredMutexIds) = {}
  BY <1>2, <1>3, <1>4, <1>5, <1>6, <1>10
<1>12. NoRepeat(Top(ts).acquiredMutexIds)
  BY <1>2, <1>4, <1>10
<1>13. Top(ts).mutexIds \subseteq TxnLocks(ts)
  BY <1>2, <1>4, <1>6, <1>10
<1>14. SoundStack(u)
  <2>1. \A i \in 1 .. n - 1 : NoRepeat(u[i].acquiredMutexIds)
    BY <1>1, <1>2, <1>10
  <2>2. \A i, j \in 1 .. n - 1 : \A m \in Mutexes :
          m \in Elems(u[i].acquiredMutexIds) /\ m \in Elems(u[j].acquiredMutexIds) => i = j
    BY <1>1, <1>2, <1>10
  <2>3. ASSUME NEW i \in 1 .. n - 1, NEW m \in u[i].mutexIds
        PROVE  \E j \in 1 .. i : m \in Elems(u[j].acquiredMutexIds)
    <3>1. PICK j \in 1 .. i : m \in Elems(ts[j].acquiredMutexIds)
      BY <1>1, <1>2, <1>10, <2>3
    <3> QED
      BY <1>1, <1>3, <3>1
  <2> QED
    BY <1>1, <2>1, <2>2, <2>3 DEF SoundStack
<1> QED
  BY <1>8, <1>9, <1>11, <1>12, <1>13, <1>14 DEF u

(* Nothing is acquired by the empty sequences that most phases have. *)
LEMMA NothingAcquired == Elems(<<>>) = {} /\ NoRepeat(<<>>) /\ TxnLocks(<<>>) = {}
  BY DEF Elems, NoRepeat, TxnLocks

(* Begun: the mutexes that the call acquired become those of the new       *)
(* transaction.                                                            *)
LEMMA FitBegun ==
  ASSUME NEW T, LocksTyped(T), NEW ts \in Seq(T), NEW t \in T, NEW owned,
         LocksFit(ts, t.acquiredMutexIds, <<>>, owned),
         t.mutexIds \subseteq Named(ts) \cup Elems(t.acquiredMutexIds),
         Named(ts) \subseteq TxnLocks(ts)
  PROVE  LocksFit(Append(ts, t), <<>>, <<>>, owned)
<1>1. /\ TxnLocks(Append(ts, t)) = TxnLocks(ts) \cup Elems(t.acquiredMutexIds)
      /\ SoundStack(Append(ts, t))
  BY PushStack DEF LocksFit
<1> QED
  BY <1>1, NothingAcquired DEF LocksFit

(* EndOutermost and UnwindPop: the popped transaction's mutexes are still  *)
(* to be released.                                                         *)
LEMMA FitPop ==
  ASSUME NEW T, LocksTyped(T), NEW ts \in Seq(T), ts # <<>>, NEW owned,
         LocksFit(ts, <<>>, <<>>, owned)
  PROVE  LocksFit(Pop(ts), <<>>, Top(ts).acquiredMutexIds, owned)
<1>1. /\ SoundStack(Pop(ts)) /\ NoRepeat(Top(ts).acquiredMutexIds)
      /\ TxnLocks(ts) = TxnLocks(Pop(ts)) \cup Elems(Top(ts).acquiredMutexIds)
      /\ TxnLocks(Pop(ts)) \cap Elems(Top(ts).acquiredMutexIds) = {}
  BY PopStack DEF LocksFit
<1> QED
  BY <1>1, NothingAcquired DEF LocksFit

(* LockTry takes a mutex that nobody owns. *)
LEMMA FitAcquire ==
  ASSUME NEW ts, NEW aq \in Seq(Mutexes), NEW m \in Mutexes, NEW owned, m \notin owned,
         LocksFit(ts, aq, <<>>, owned)
  PROVE  LocksFit(ts, Append(aq, m), <<>>, owned \cup {m})
<1>1. m \notin Elems(aq) /\ m \notin TxnLocks(ts) /\ NoRepeat(aq)
  BY DEF LocksFit
<1>2. Elems(Append(aq, m)) = Elems(aq) \cup {m} /\ NoRepeat(Append(aq, m))
  BY <1>1, ElemsAppend
<1> QED
  BY <1>1, <1>2 DEF LocksFit

(* GiveUp releases the mutex that was acquired last. *)
LEMMA FitGiveUp ==
  ASSUME NEW ts, NEW aq \in Seq(Mutexes), aq # <<>>, NEW owned,
         LocksFit(ts, aq, <<>>, owned)
  PROVE  LocksFit(ts, Pop(aq), <<>>, owned \ {Top(aq)})
<1>1. /\ NoRepeat(Pop(aq)) /\ Elems(aq) = Elems(Pop(aq)) \cup {Top(aq)}
      /\ Top(aq) \notin Elems(Pop(aq))
  BY ElemsPop DEF LocksFit
<1> QED
  BY <1>1, NothingAcquired DEF LocksFit

(* So do ReleaseCommitted and ReleaseUnwound. *)
LEMMA FitRelease ==
  ASSUME NEW ts, NEW cq \in Seq(Mutexes), cq # <<>>, NEW owned,
         LocksFit(ts, <<>>, cq, owned)
  PROVE  LocksFit(ts, <<>>, Pop(cq), owned \ {Top(cq)})
<1>1. /\ NoRepeat(Pop(cq)) /\ Elems(cq) = Elems(Pop(cq)) \cup {Top(cq)}
      /\ Top(cq) \notin Elems(Pop(cq))
  BY ElemsPop DEF LocksFit
<1> QED
  BY <1>1, NothingAcquired DEF LocksFit

(* A buffered write changes the top transaction, but not its locks. *)
LEMMA FitRewrite ==
  ASSUME NEW T, LocksTyped(T), NEW ts \in Seq(T), ts # <<>>, NEW t \in T, NEW owned,
         t.acquiredMutexIds = Top(ts).acquiredMutexIds, t.mutexIds = Top(ts).mutexIds,
         LocksFit(ts, <<>>, <<>>, owned)
  PROVE  LocksFit(Append(Pop(ts), t), <<>>, <<>>, owned)
<1>0. Pop(ts) \in Seq(T)
  BY PopFacts
<1>1. /\ SoundStack(Pop(ts)) /\ NoRepeat(t.acquiredMutexIds)
      /\ TxnLocks(ts) = TxnLocks(Pop(ts)) \cup Elems(t.acquiredMutexIds)
      /\ TxnLocks(Pop(ts)) \cap Elems(t.acquiredMutexIds) = {}
      /\ t.mutexIds \subseteq TxnLocks(ts)
  BY PopStack DEF LocksFit
<1>2. /\ TxnLocks(Append(Pop(ts), t)) = TxnLocks(ts)
      /\ SoundStack(Append(Pop(ts), t))
  BY <1>0, <1>1, PushStack
<1> QED
  BY <1>2, NothingAcquired DEF LocksFit

(* A nested commit hands the locks of the child to the parent. *)
LEMMA FitMerge ==
  ASSUME NEW T, LocksTyped(T), NEW ts \in Seq(T), ts # <<>>, Pop(ts) # <<>>,
         NEW t \in T, NEW owned,
         t.acquiredMutexIds = Top(Pop(ts)).acquiredMutexIds \o Top(ts).acquiredMutexIds,
         t.mutexIds = Top(Pop(ts)).mutexIds \cup Top(ts).mutexIds,
         LocksFit(ts, <<>>, <<>>, owned)
  PROVE  LocksFit(Append(Pop(Pop(ts)), t), <<>>, <<>>, owned)
<1> DEFINE rest == Pop(ts)
           parent == Top(rest)
           child == Top(ts)
<1>1. rest \in Seq(T) /\ child \in T
  BY PopFacts
<1>2. Pop(rest) \in Seq(T) /\ parent \in T
  BY <1>1, PopFacts
<1>3. /\ SoundStack(rest) /\ NoRepeat(child.acquiredMutexIds)
      /\ TxnLocks(ts) = TxnLocks(rest) \cup Elems(child.acquiredMutexIds)
      /\ TxnLocks(rest) \cap Elems(child.acquiredMutexIds) = {}
      /\ child.mutexIds \subseteq TxnLocks(ts)
  BY PopStack DEF LocksFit
<1>4. /\ SoundStack(Pop(rest)) /\ NoRepeat(parent.acquiredMutexIds)
      /\ TxnLocks(rest) = TxnLocks(Pop(rest)) \cup Elems(parent.acquiredMutexIds)
      /\ TxnLocks(Pop(rest)) \cap Elems(parent.acquiredMutexIds) = {}
      /\ parent.mutexIds \subseteq TxnLocks(rest)
  BY <1>1, <1>3, PopStack
<1>5. /\ parent.acquiredMutexIds \in Seq(Mutexes) /\ child.acquiredMutexIds \in Seq(Mutexes)
  BY <1>1, <1>2 DEF LocksTyped
<1> HIDE DEF rest, parent, child
<1>6. /\ t.acquiredMutexIds = parent.acquiredMutexIds \o child.acquiredMutexIds
      /\ t.mutexIds = parent.mutexIds \cup child.mutexIds
  BY DEF rest, parent, child
<1>7. /\ Elems(t.acquiredMutexIds)
           = Elems(parent.acquiredMutexIds) \cup Elems(child.acquiredMutexIds)
      /\ NoRepeat(t.acquiredMutexIds)
  <2>1. Elems(parent.acquiredMutexIds) \cap Elems(child.acquiredMutexIds) = {}
    BY <1>3, <1>4
  <2> QED
    BY <2>1, <1>3, <1>4, <1>5, <1>6, ElemsConcat
<1>8. /\ TxnLocks(Pop(rest)) \cap Elems(t.acquiredMutexIds) = {}
      /\ TxnLocks(Pop(rest)) \cup Elems(t.acquiredMutexIds) = TxnLocks(ts)
      /\ t.mutexIds \subseteq TxnLocks(ts)
  BY <1>3, <1>4, <1>6, <1>7
<1>9. /\ TxnLocks(Append(Pop(rest), t)) = TxnLocks(ts)
      /\ SoundStack(Append(Pop(rest), t))
  <2> DEFINE low == Pop(rest)
  <2>1. low \in Seq(T) /\ SoundStack(low)
    BY <1>2, <1>4
  <2>2. /\ TxnLocks(low) \cap Elems(t.acquiredMutexIds) = {}
        /\ TxnLocks(low) \cup Elems(t.acquiredMutexIds) = TxnLocks(ts)
        /\ t.mutexIds \subseteq TxnLocks(low) \cup Elems(t.acquiredMutexIds)
    BY <1>8
  <2> HIDE DEF low
  <2>3. TxnLocks(Append(low, t)) = TxnLocks(low) \cup Elems(t.acquiredMutexIds)
    BY ONLY <2>1, LocksTyped(T), t \in T, PushStack
  <2>4. NoRepeat(t.acquiredMutexIds)
    BY <1>7
  <2>5. SoundStack(Append(low, t))
    BY <2>1, <2>2, <2>4, PushStack
  <2> QED
    BY <2>2, <2>3, <2>5 DEF low
<1> QED
  BY <1>9, NothingAcquired DEF LocksFit, rest

(* What a sound stack names it has locked. *)
LEMMA NamedIsLocked ==
  ASSUME NEW T, NEW ts \in Seq(T), SoundStack(ts)
  PROVE  Named(ts) \subseteq TxnLocks(ts)
<1> SUFFICES ASSUME NEW i \in 1 .. Len(ts), NEW m \in ts[i].mutexIds
             PROVE  \E j \in 1 .. Len(ts) : m \in Elems(ts[j].acquiredMutexIds)
  BY DEF Named, TxnLocks
<1>1. PICK j \in 1 .. i : m \in Elems(ts[j].acquiredMutexIds)
  BY DEF SoundStack
<1>2. j \in 1 .. Len(ts)
  BY LenProperties
<1> QED
  BY <1>1, <1>2

-----------------------------------------------------------------------------
(* Maps. *)

(* A map has keys in D and values in V, and whatever has is a map. *)
LEMMA MapIs ==
  ASSUME NEW D, NEW V, NEW f
  PROVE  f \in Maps(D, V) <=> DOMAIN f \in SUBSET D /\ f \in [DOMAIN f -> V]
  BY DEF Maps

(* The updates of the buffers keep keys and values in range. *)
LEMMA MapEmpty ==
  ASSUME NEW D, NEW V PROVE NoMap \in Maps(D, V) /\ DOMAIN NoMap = {}
<1>1. NoMap \in [{} -> V] /\ DOMAIN NoMap = {}
  BY DEF NoMap
<1> QED
  BY <1>1, MapIs

(* A value that is read from a map.                                        *)
LEMMA MapGet ==
  ASSUME NEW D, NEW V, NEW f \in Maps(D, V), NEW x \in DOMAIN f
  PROVE  x \in D /\ f[x] \in V
  BY MapIs

(* A map less one of its keys.                                             *)
LEMMA MapWithout ==
  ASSUME NEW D, NEW V, NEW f \in Maps(D, V), NEW x \in DOMAIN f
  PROVE  Without(f, x) \in Maps(D, V)
<1>1. DOMAIN f \in SUBSET D /\ f \in [DOMAIN f -> V]
  BY MapIs
<1>2. DOMAIN Without(f, x) = DOMAIN f \ {x} /\ Without(f, x) \in [DOMAIN f \ {x} -> V]
  BY <1>1 DEF Without
<1> QED
  BY <1>1, <1>2, MapIs

(* The keys after one more entry.                                          *)
LEMMA PutKeys ==
  ASSUME NEW f, NEW x, NEW v PROVE DOMAIN Put(f, x, v) = DOMAIN f \cup {x}
  BY DEF Put

(* A map with one more entry.                                              *)
LEMMA MapPut ==
  ASSUME NEW D, NEW V, NEW f \in Maps(D, V), NEW x \in D, NEW v \in V
  PROVE  Put(f, x, v) \in Maps(D, V)
<1>1. DOMAIN f \in SUBSET D /\ f \in [DOMAIN f -> V]
  BY MapIs
<1>2. Put(f, x, v) \in [DOMAIN f \cup {x} -> V]
  BY <1>1 DEF Put
<1>3. DOMAIN f \cup {x} \in SUBSET D
  BY <1>1
<1> QED
  BY <1>2, <1>3 DEF Maps

(* The keys after two maps are joined, whichever of them wins.             *)
LEMMA OverrideKeys ==
  ASSUME NEW f, NEW g
  PROVE  /\ DOMAIN Override(f, g) = DOMAIN f \cup DOMAIN g
         /\ DOMAIN TryEmplace(f, g) = DOMAIN g \cup DOMAIN f
  BY DEF Override, TryEmplace

(* Two maps joined, the second of them winning.                            *)
LEMMA MapOverride ==
  ASSUME NEW D, NEW V, NEW f \in Maps(D, V), NEW g \in Maps(D, V)
  PROVE  Override(f, g) \in Maps(D, V)
<1>1. /\ DOMAIN f \in SUBSET D /\ f \in [DOMAIN f -> V]
      /\ DOMAIN g \in SUBSET D /\ g \in [DOMAIN g -> V]
  BY MapIs
<1>2. Override(f, g) \in [DOMAIN f \cup DOMAIN g -> V]
  BY <1>1 DEF Override
<1>3. DOMAIN f \cup DOMAIN g \in SUBSET D
  BY <1>1
<1> QED
  BY <1>2, <1>3 DEF Maps

(* Two maps joined, the first of them winning.                             *)
LEMMA MapTryEmplace ==
  ASSUME NEW D, NEW V, NEW f \in Maps(D, V), NEW g \in Maps(D, V)
  PROVE  TryEmplace(f, g) \in Maps(D, V)
  BY MapOverride DEF TryEmplace

(* A buffered write and the prior value that it remembers have the same    *)
(* keys.                                                                   *)
LEMMA MapBuffered ==
  ASSUME NEW D, NEW V, NEW f \in Maps(D, V), NEW g \in Maps(D, V), DOMAIN g = DOMAIN f,
         NEW x \in D, NEW v \in V, NEW w \in V
  PROVE  /\ TryEmplace(f, Put(NoMap, x, w)) \in Maps(D, V)
         /\ Put(g, x, v) \in Maps(D, V)
         /\ DOMAIN Put(g, x, v) = DOMAIN TryEmplace(f, Put(NoMap, x, w))
<1> DEFINE one == Put(NoMap, x, w)
<1>1. one \in Maps(D, V)
  BY MapEmpty, MapPut
<1>2. DOMAIN one = {x}
  BY DEF Put, NoMap
<1> HIDE DEF one
<1>3. TryEmplace(f, one) \in Maps(D, V)
  BY <1>1, MapTryEmplace
<1>6. Put(g, x, v) \in Maps(D, V)
  BY MapPut
<1>4. DOMAIN TryEmplace(f, one) = {x} \cup DOMAIN f
  BY <1>2, OverrideKeys
<1>5. DOMAIN Put(g, x, v) = DOMAIN g \cup {x}
  BY PutKeys
<1> QED
  BY <1>3, <1>4, <1>5, <1>6 DEF one

-----------------------------------------------------------------------------
(* The steps. *)

Labels == {"run", "unwind", "done"} \cup Locking \cup Writing

(* The fields of a transaction, one by one. *)
LEMMA TxnFields ==
  ASSUME NEW p
  PROVE  /\ LocksTyped(Txns(p))
         /\ \A t \in Txns(p) :
              /\ t.priorCells \in Maps(p.cells, Values)
              /\ t.pendingCells \in Maps(p.cells, Values)
              /\ t.priorArrays \in Maps(p.arrays, Seq(Values))
              /\ t.pendingArrays \in Maps(p.arrays, Seq(Values))
  BY DEF Txns, LocksTyped

(* The empty transaction. *)
LEMMA EmptyTxn ==
  ASSUME NEW p
  PROVE  NoTxn \in Txns(p) /\ NoTxn.acquiredMutexIds = <<>> /\ Restorable(NoTxn)
<1>1. NoMap \in Maps(p.cells, Values) /\ NoMap \in Maps(p.arrays, Seq(Values))
  BY MapEmpty
<1>2. <<>> \in Seq(Mutexes)
  BY EmptySeq
<1> QED
  BY <1>1, <1>2 DEF NoTxn, Txns, Restorable

(* What holds of the context that takes a step. *)
LEMMA OfContext ==
  ASSUME TxnInv, NEW c \in Contexts
  PROVE  /\ txns[c] \in Seq(Txns(program)) /\ pc[c] \in Labels
         /\ request[c] \in SUBSET Mutexes /\ acquired[c] \in Seq(Mutexes)
         /\ cur[c] \in Txns(program) /\ cur[c].acquiredMutexIds \in Seq(Mutexes)
         /\ base[c] \in Nat /\ ending[c] \in {"no", "return", "fail"}
         /\ LocalsOfPhase(pc[c], acquired[c], cur[c], base[c], ending[c])
         /\ LocksFit(txns[c], acquired[c], cur[c].acquiredMutexIds, ownedMutexes[c])
         /\ program.depth[c] \in Nat /\ Len(txns[c]) <= program.depth[c]
         /\ pc[c] \in Locking => Len(txns[c]) < program.depth[c]
         /\ \A i \in 1 .. Len(txns[c]) : Restorable(txns[c][i])
<1>1. /\ txns[c] \in Seq(Txns(program)) /\ pc[c] \in Labels
      /\ request[c] \in SUBSET Mutexes /\ acquired[c] \in Seq(Mutexes)
      /\ cur[c] \in Txns(program)
      /\ base[c] \in Nat /\ ending[c] \in {"no", "return", "fail"}
  BY DEF TxnInv, ContextTypes, Labels
<1>2. cur[c].acquiredMutexIds \in Seq(Mutexes)
  BY <1>1, TxnFields DEF LocksTyped
<1>3. program.depth[c] \in Nat
  <2>1. program \in [cells : SUBSET Cells, arrays : SUBSET Arrays,
                     depth : [Contexts -> Nat], rewrites : BOOLEAN]
    BY TransactionsAssumption DEF TxnInv, HeapTypes
  <2> QED
    BY <2>1
<1>4. /\ LocalsOfPhase(pc[c], acquired[c], cur[c], base[c], ending[c])
      /\ LocksFit(txns[c], acquired[c], cur[c].acquiredMutexIds, ownedMutexes[c])
      /\ Len(txns[c]) <= program.depth[c]
      /\ pc[c] \in Locking => Len(txns[c]) < program.depth[c]
      /\ \A i \in 1 .. Len(txns[c]) : Restorable(txns[c][i])
  BY DEF TxnInv, Phases, Locks, Buffers
<1> QED
  BY <1>1, <1>2, <1>3, <1>4

(* The state of context c after a step of its own. *)
Moves(c, ts, l, rq, aq, t, b, e) ==
  /\ txns' = [txns EXCEPT ![c] = ts]
  /\ pc' = [pc EXCEPT ![c] = l]
  /\ request' = [request EXCEPT ![c] = rq]
  /\ acquired' = [acquired EXCEPT ![c] = aq]
  /\ cur' = [cur EXCEPT ![c] = t]
  /\ base' = [base EXCEPT ![c] = b]
  /\ ending' = [ending EXCEPT ![c] = e]

(* The variables that a step leaves alone fit that shape too. *)
LEMMA Stays ==
  ASSUME TxnInv, NEW c \in Contexts
  PROVE  /\ txns = [txns EXCEPT ![c] = txns[c]]
         /\ pc = [pc EXCEPT ![c] = pc[c]]
         /\ request = [request EXCEPT ![c] = request[c]]
         /\ acquired = [acquired EXCEPT ![c] = acquired[c]]
         /\ cur = [cur EXCEPT ![c] = cur[c]]
         /\ base = [base EXCEPT ![c] = base[c]]
         /\ ending = [ending EXCEPT ![c] = ending[c]]
         /\ ownedMutexes = [ownedMutexes EXCEPT ![c] = ownedMutexes[c]]
  BY DEF TxnInv, ContextTypes, SyncInv, SyncTypeOK, Contexts

(* What it moves to fits, together with the mutexes it then owns. *)
Fits(c, ts, l, rq, aq, t, b, e, owned) ==
  /\ ts \in Seq(Txns(program)) /\ l \in Labels /\ rq \in SUBSET Mutexes
  /\ aq \in Seq(Mutexes) /\ t \in Txns(program) /\ b \in Nat
  /\ e \in {"no", "return", "fail"}
  /\ LocalsOfPhase(l, aq, t, b, e)
  /\ Len(ts) <= program.depth[c]
  /\ l \in Locking => Len(ts) < program.depth[c]
  /\ \A i \in 1 .. Len(ts) : Restorable(ts[i])
  /\ LocksFit(ts, aq, t.acquiredMutexIds, owned)

(* One context moves to what fits: the invariant is kept. *)
LEMMA MoveKeepsInv ==
  ASSUME TxnInv, NEW c \in Contexts,
         NEW ts, NEW l, NEW rq, NEW aq, NEW t, NEW b, NEW e, NEW owned,
         Moves(c, ts, l, rq, aq, t, b, e),
         Fits(c, ts, l, rq, aq, t, b, e, owned),
         ownedMutexes' = [ownedMutexes EXCEPT ![c] = owned],
         program' = program, HeapTypes', SyncInv'
  PROVE  TxnInv'
<1>1. /\ txns \in [Contexts -> Seq(Txns(program))] /\ pc \in [Contexts -> Labels]
      /\ request \in [Contexts -> SUBSET Mutexes] /\ acquired \in [Contexts -> Seq(Mutexes)]
      /\ cur \in [Contexts -> Txns(program)] /\ base \in [Contexts -> Nat]
      /\ ending \in [Contexts -> {"no", "return", "fail"}]
      /\ ownedMutexes \in [Contexts -> SUBSET Mutexes]
  BY DEF TxnInv, ContextTypes, Labels, SyncInv, SyncTypeOK, Contexts
<1>2. ContextTypes'
  <2>1. /\ txns' \in [Contexts -> Seq(Txns(program))] /\ pc' \in [Contexts -> Labels]
        /\ request' \in [Contexts -> SUBSET Mutexes] /\ acquired' \in [Contexts -> Seq(Mutexes)]
        /\ cur' \in [Contexts -> Txns(program)] /\ base' \in [Contexts -> Nat]
        /\ ending' \in [Contexts -> {"no", "return", "fail"}]
    BY <1>1 DEF Moves, Fits
  <2>2. Txns(program)' = Txns(program)
    BY DEF Txns
  <2> QED
    BY <2>1, <2>2 DEF ContextTypes, Labels
<1>3. /\ txns'[c] = ts /\ pc'[c] = l /\ acquired'[c] = aq /\ cur'[c] = t
      /\ base'[c] = b /\ ending'[c] = e /\ ownedMutexes'[c] = owned
      /\ \A d \in Contexts \ {c} :
           /\ txns'[d] = txns[d] /\ pc'[d] = pc[d] /\ acquired'[d] = acquired[d]
           /\ cur'[d] = cur[d] /\ base'[d] = base[d] /\ ending'[d] = ending[d]
           /\ ownedMutexes'[d] = ownedMutexes[d]
  BY <1>1 DEF Moves
<1>4. Phases'
  BY <1>3 DEF TxnInv, Phases, Fits
<1>5. Locks'
  BY <1>3 DEF TxnInv, Locks, Fits
<1>6. Buffers'
  BY <1>3 DEF TxnInv, Buffers, Fits
<1> QED
  BY <1>2, <1>4, <1>5, <1>6 DEF TxnInv

(* A step of a context acts on the runtime by one of its operations. *)
LEMMA NextIsSyncStep == TxnInv /\ [Next]_vars => [SyncNext]_syncVars
<1> SUFFICES ASSUME TxnInv, [Next]_vars PROVE [SyncNext]_syncVars
  OBVIOUS
<1>0. \A m : MutexExists(m) => m \in Mutexes
  BY IdsInRange DEF TxnInv, SyncInv
<1>1. ASSUME NEW c \in Threads, NEW m, UnlockMutex(c, m) PROVE SyncNext
  BY <1>0, <1>1 DEF UnlockMutex, SyncNext
<1>2. ASSUME NEW c \in Threads, NEW m, TryLockAcquires(c, m) \/ TryLockFails(c, m)
      PROVE  SyncNext
  BY <1>0, <1>2 DEF TryLockAcquires, TryLockFails, TryLockMutex, SyncNext
<1>3. ASSUME NEW c \in Threads, FinishThread(c) PROVE SyncNext
  BY <1>3 DEF SyncNext
<1>4. CASE UNCHANGED vars
  BY <1>4 DEF vars
<1>5. ASSUME NEW c \in Threads, Work(c) PROVE UNCHANGED syncVars
  BY <1>5
  DEF Work, BeginTransaction, SetCell, SetArrayElement, PushArrayElement,
      PopArrayElement, BufferArray, EndNested, EndOutermost, Return, Fail
<1>6. ASSUME NEW c \in Threads, Step(c) PROVE [SyncNext]_syncVars
  <2>1. CASE GiveUp(c)
    BY <2>1, <1>1 DEF GiveUp
  <2>2. CASE LockTry(c)
    BY <2>2, <1>2 DEF LockTry
  <2>3. CASE ReleaseCommitted(c)
    BY <2>3, <1>1 DEF ReleaseCommitted
  <2>4. CASE ReleaseUnwound(c)
    BY <2>4, <1>1 DEF ReleaseUnwound
  <2>5. CASE Unwound(c)
    BY <2>5, <1>3 DEF Unwound
  <2>6. CASE LockReadOwner(c) \/ LockWouldDeadlock(c) \/ LockRecheck(c) \/ Begun(c) \/ UnwindPop(c)
    BY <2>6 DEF LockReadOwner, LockWouldDeadlock, LockRecheck, Begun, UnwindPop
  <2>7. ASSUME NEW x, ApplyCell(c, x) \/ RestoreCell(c, x) \/ ApplyArray(c, x) \/ RestoreArray(c, x)
        PROVE  UNCHANGED syncVars
    BY <2>7 DEF ApplyCell, RestoreCell, ApplyArray, RestoreArray
  <2> QED
    BY <1>6, <2>1, <2>2, <2>3, <2>4, <2>5, <2>6, <2>7 DEF Step
<1> QED
  BY <1>4, <1>5, <1>6 DEF Next, Contexts

(* So the runtime's own invariant comes along. *)
LEMMA NextKeepsSync == TxnInv /\ [Next]_vars => SyncInv'
  BY NextIsSyncStep, StepKeepsInv DEF TxnInv

(* The heap keeps its types when nothing is written to it. *)
LEMMA HeapStays ==
  ASSUME TxnInv, UNCHANGED heapVars PROVE program' = program /\ HeapTypes'
  BY DEF TxnInv, HeapTypes, heapVars

(* The steps of a BeginTransaction that look before they act. *)
LEMMA LockLooksKeepsInv ==
  ASSUME TxnInv, NEW c \in Contexts, SyncInv',
         LockReadOwner(c) \/ LockWouldDeadlock(c) \/ LockRecheck(c)
  PROVE  TxnInv'
<1>1. pc[c] \in Locking /\ \E l \in Locking : Goto(c, l)
  BY DEF LockReadOwner, LockWouldDeadlock, LockRecheck, Locking
<1>2. PICK l \in Locking : Goto(c, l)
  BY <1>1
<1>3. UNCHANGED <<syncVars, heapVars, txns, localVars>>
  BY DEF LockReadOwner, LockWouldDeadlock, LockRecheck
<1>4. /\ Moves(c, txns[c], l, request[c], acquired[c], cur[c], base[c], ending[c])
      /\ ownedMutexes' = [ownedMutexes EXCEPT ![c] = ownedMutexes[c]]
  BY <1>2, <1>3, Stays DEF Moves, Goto, localVars, syncVars
<1>5. LocalsOfPhase(l, acquired[c], cur[c], base[c], ending[c])
  BY <1>1, <1>2, OfContext DEF LocalsOfPhase, Locking, Writing
<1>6. l \in Labels /\ program' = program /\ HeapTypes'
  BY <1>2, <1>3, HeapStays DEF Labels
<1>7. Fits(c, txns[c], l, request[c], acquired[c], cur[c], base[c], ending[c], ownedMutexes[c])
  BY <1>1, <1>5, <1>6, OfContext DEF Fits
<1> QED
  BY <1>4, <1>6, <1>7, MoveKeepsInv

(* BeginTransaction starts with no mutex acquired. *)
LEMMA BeginKeepsInv ==
  ASSUME TxnInv, NEW c \in Contexts, SyncInv', NEW ms \in SUBSET Mutexes,
         BeginTransaction(c, ms)
  PROVE  TxnInv'
<1> USE DEF BeginTransaction
<1>1. /\ Moves(c, txns[c], "lock", ms, <<>>, cur[c], base[c], ending[c])
      /\ ownedMutexes' = [ownedMutexes EXCEPT ![c] = ownedMutexes[c]]
  BY Stays DEF Moves, Goto, syncVars
<1>2. acquired[c] = <<>> /\ cur[c] = NoTxn /\ LocalsOfPhase("lock", <<>>, cur[c], base[c], ending[c])
  BY OfContext DEF LocalsOfPhase, Locking, Writing
<1>3. "lock" \in Labels /\ program' = program /\ HeapTypes' /\ <<>> \in Seq(Mutexes)
  BY HeapStays, EmptySeq DEF Labels, Locking
<1>4. LocksFit(txns[c], <<>>, cur[c].acquiredMutexIds, ownedMutexes[c])
  BY <1>2, OfContext
<1>5. Fits(c, txns[c], "lock", ms, <<>>, cur[c], base[c], ending[c], ownedMutexes[c])
  BY <1>2, <1>3, <1>4, OfContext DEF Fits, Locking
<1> QED
  BY <1>1, <1>3, <1>5, MoveKeepsInv

(* TryLockMutex: a mutex that is free is in no transaction. *)
LEMMA LockTryKeepsInv ==
  ASSUME TxnInv, NEW c \in Contexts, SyncInv', LockTry(c)
  PROVE  TxnInv'
<1>0. /\ pc[c] = "tryLock" /\ UNCHANGED <<heapVars, txns, request, cur, base, ending, error>>
      /\ "lock" \in Labels /\ "recheck" \in Labels
  BY DEF LockTry, Labels, Locking
<1>1. /\ cur[c] = NoTxn /\ cur[c].acquiredMutexIds = <<>>
      /\ LocalsOfPhase("recheck", acquired[c], cur[c], base[c], ending[c])
      /\ \A aq : LocalsOfPhase("lock", aq, cur[c], base[c], ending[c])
  BY <1>0, OfContext, EmptyTxn DEF LocalsOfPhase, Locking, Writing
<1>2. program' = program /\ HeapTypes'
  BY <1>0, HeapStays
<1>3. CASE /\ TryLockAcquires(c, NextMutex(c))
           /\ acquired' = [acquired EXCEPT ![c] = Append(@, NextMutex(c))]
           /\ Goto(c, "lock")
  <2> DEFINE m == NextMutex(c)
             aq == Append(acquired[c], m)
             owned == ownedMutexes[c] \cup {m}
  <2>1. m \in Mutexes /\ ownerThreadId[m] = NoOwner
    BY <1>3, IdsInRange DEF TryLockAcquires, TxnInv, SyncInv
  <2>2. m \notin ownedMutexes[c]
    <3>1. c \in Threads /\ NoOwner \notin Threads
      BY IdsInRange DEF TxnInv, SyncInv, Contexts
    <3> QED
      BY <2>1, <3>1 DEF TxnInv, SyncInv, OwnershipAgrees
  <2>3. /\ Moves(c, txns[c], "lock", request[c], aq, cur[c], base[c], ending[c])
        /\ ownedMutexes' = [ownedMutexes EXCEPT ![c] = owned]
    BY <1>0, <1>3, Stays DEF Moves, Goto, TryLockAcquires
  <2> HIDE DEF m
  <2>4. LocksFit(txns[c], aq, cur[c].acquiredMutexIds, owned)
    BY <1>1, <2>1, <2>2, OfContext, FitAcquire
  <2>5. aq \in Seq(Mutexes)
    BY <2>1, OfContext, ElemsAppend
  <2> HIDE DEF aq, owned
  <2>6. Fits(c, txns[c], "lock", request[c], aq, cur[c], base[c], ending[c], owned)
    BY <1>0, <1>1, <2>4, <2>5, OfContext DEF Fits, Locking
  <2> QED
    BY <1>2, <2>3, <2>6, MoveKeepsInv
<1>4. CASE /\ TryLockFails(c, NextMutex(c))
           /\ UNCHANGED acquired
           /\ Goto(c, "recheck")
  <2>1. /\ Moves(c, txns[c], "recheck", request[c], acquired[c], cur[c], base[c], ending[c])
        /\ ownedMutexes' = [ownedMutexes EXCEPT ![c] = ownedMutexes[c]]
    BY <1>0, <1>4, Stays DEF Moves, Goto, TryLockFails
  <2>2. Fits(c, txns[c], "recheck", request[c], acquired[c], cur[c], base[c], ending[c],
             ownedMutexes[c])
    BY <1>0, <1>1, OfContext DEF Fits, Locking
  <2> QED
    BY <1>2, <2>1, <2>2, MoveKeepsInv
<1> QED
  BY <1>3, <1>4 DEF LockTry

(* A BeginTransaction that fails releases, one by one, all it acquired. *)
LEMMA GiveUpKeepsInv ==
  ASSUME TxnInv, NEW c \in Contexts, SyncInv', GiveUp(c)
  PROVE  TxnInv'
<1>0. /\ pc[c] = "giveUp" /\ UNCHANGED <<heapVars, txns, request, cur, error>>
      /\ "giveUp" \in Labels /\ "unwind" \in Labels
  BY DEF GiveUp, Labels, Locking
<1>1. /\ cur[c] = NoTxn /\ cur[c].acquiredMutexIds = <<>>
      /\ \A aq : LocalsOfPhase("giveUp", aq, cur[c], base[c], ending[c])
      /\ LocalsOfPhase("unwind", <<>>, cur[c], 0, "fail")
  BY <1>0, OfContext, EmptyTxn DEF LocalsOfPhase, Locking, Writing
<1>2. program' = program /\ HeapTypes'
  BY <1>0, HeapStays
<1>3. CASE /\ acquired[c] # <<>>
           /\ UnlockMutex(c, Top(acquired[c]))
           /\ acquired' = [acquired EXCEPT ![c] = Pop(@)]
           /\ UNCHANGED <<pc, base, ending>>
  <2> DEFINE aq == Pop(acquired[c])
             owned == ownedMutexes[c] \ {Top(acquired[c])}
  <2>1. /\ Moves(c, txns[c], "giveUp", request[c], aq, cur[c], base[c], ending[c])
        /\ ownedMutexes' = [ownedMutexes EXCEPT ![c] = owned]
    BY <1>0, <1>3, Stays DEF Moves, UnlockMutex
  <2>2. LocksFit(txns[c], aq, cur[c].acquiredMutexIds, owned)
    BY <1>1, <1>3, OfContext, FitGiveUp
  <2>3. aq \in Seq(Mutexes)
    BY <1>3, OfContext, PopFacts
  <2> HIDE DEF aq, owned
  <2>4. Fits(c, txns[c], "giveUp", request[c], aq, cur[c], base[c], ending[c], owned)
    BY <1>0, <1>1, <2>2, <2>3, OfContext DEF Fits, Locking
  <2> QED
    BY <1>2, <2>1, <2>4, MoveKeepsInv
<1>4. CASE /\ acquired[c] = <<>>
           /\ base' = [base EXCEPT ![c] = 0]
           /\ ending' = [ending EXCEPT ![c] = "fail"]
           /\ Goto(c, "unwind")
           /\ UNCHANGED <<syncVars, acquired>>
  <2>1. /\ Moves(c, txns[c], "unwind", request[c], acquired[c], cur[c], 0, "fail")
        /\ ownedMutexes' = [ownedMutexes EXCEPT ![c] = ownedMutexes[c]]
    BY <1>0, <1>4, Stays DEF Moves, Goto, syncVars
  <2>2. 0 \in Nat /\ "fail" \in {"no", "return", "fail"}
        /\ LocalsOfPhase("unwind", acquired[c], cur[c], 0, "fail")
    BY <1>1, <1>4
  <2>3. Fits(c, txns[c], "unwind", request[c], acquired[c], cur[c], 0, "fail", ownedMutexes[c])
    BY <1>0, <2>2, OfContext DEF Fits, Locking
  <2> QED
    BY <1>2, <2>1, <2>3, MoveKeepsInv
<1> QED
  BY <1>3, <1>4 DEF GiveUp

(* A transaction on top of others that can be rolled back. *)
LEMMA PushRestorable ==
  ASSUME NEW T, NEW ts \in Seq(T), NEW t \in T, Restorable(t),
         \A i \in 1 .. Len(ts) : Restorable(ts[i])
  PROVE  /\ Append(ts, t) \in Seq(T) /\ Len(Append(ts, t)) = Len(ts) + 1
         /\ \A i \in 1 .. Len(Append(ts, t)) : Restorable(Append(ts, t)[i])
<1> DEFINE u == Append(ts, t)
<1>1. /\ u \in Seq(T) /\ Len(u) = Len(ts) + 1
      /\ \A i \in 1 .. Len(ts) : u[i] = ts[i]
      /\ u[Len(ts) + 1] = t
  BY AppendProperties
<1>2. \A i \in 1 .. Len(ts) + 1 : i \in 1 .. Len(ts) \/ i = Len(ts) + 1
  BY LenProperties
<1> HIDE DEF u
<1>3. \A i \in 1 .. Len(ts) + 1 : Restorable(u[i])
  BY <1>1, <1>2
<1> QED
  BY <1>1, <1>3 DEF u

(* The rest of a stack can be rolled back as well. *)
LEMMA PopRestorable ==
  ASSUME NEW T, NEW ts \in Seq(T), ts # <<>>,
         \A i \in 1 .. Len(ts) : Restorable(ts[i])
  PROVE  /\ Restorable(Top(ts))
         /\ \A i \in 1 .. Len(Pop(ts)) : Restorable(Pop(ts)[i])
<1>1. /\ Len(ts) \in Nat \ {0} /\ Len(Pop(ts)) = Len(ts) - 1
      /\ \A i \in 1 .. Len(ts) - 1 : Pop(ts)[i] = ts[i]
  BY PopFacts
<1>2. Len(ts) \in 1 .. Len(ts) /\ \A i \in 1 .. Len(ts) - 1 : i \in 1 .. Len(ts)
  BY <1>1
<1> QED
  BY <1>1, <1>2 DEF Top

(* The new transaction takes over the mutexes of its begin. *)
LEMMA BegunKeepsInv ==
  ASSUME TxnInv, NEW c \in Contexts, SyncInv', Begun(c)
  PROVE  TxnInv'
<1> DEFINE t == [NoTxn EXCEPT !.mutexIds = request[c], !.acquiredMutexIds = acquired[c]]
           ts == Append(txns[c], t)
<1>1. /\ pc[c] = "lock" /\ Remaining(c) = {} /\ program' = program /\ HeapTypes'
      /\ Moves(c, ts, "run", {}, <<>>, cur[c], base[c], ending[c])
      /\ ownedMutexes' = [ownedMutexes EXCEPT ![c] = ownedMutexes[c]]
  BY Stays, HeapStays DEF Begun, Moves, Goto, syncVars
<1>2. /\ t \in Txns(program) /\ Restorable(t)
      /\ t.mutexIds = request[c] /\ t.acquiredMutexIds = acquired[c]
  <2>1. NoMap \in Maps(program.cells, Values) /\ NoMap \in Maps(program.arrays, Seq(Values))
    BY MapEmpty
  <2> QED
    BY <2>1, OfContext DEF NoTxn, Txns, Restorable
<1> HIDE DEF t
<1>3. /\ cur[c] = NoTxn /\ cur[c].acquiredMutexIds = <<>>
      /\ LocalsOfPhase("run", <<>>, cur[c], base[c], ending[c])
  BY <1>1, OfContext, EmptyTxn DEF LocalsOfPhase, Locking, Writing
<1>4. ts \in Seq(Txns(program)) /\ Len(ts) = Len(txns[c]) + 1
      /\ \A i \in 1 .. Len(ts) : Restorable(ts[i])
  BY <1>2, OfContext, PushRestorable
<1>5. LocksFit(ts, <<>>, cur[c].acquiredMutexIds, ownedMutexes[c])
  <2>1. SoundStack(txns[c]) /\ LocksFit(txns[c], t.acquiredMutexIds, <<>>, ownedMutexes[c])
    BY <1>2, <1>3, OfContext DEF LocksFit
  <2>2. Named(txns[c]) \subseteq TxnLocks(txns[c])
    BY <2>1, OfContext, NamedIsLocked
  <2>3. t.mutexIds \subseteq Named(txns[c]) \cup Elems(t.acquiredMutexIds)
    BY <1>1, <1>2 DEF Remaining, HeldMutexIds, Named
  <2> QED
    BY <1>2, <1>3, <2>1, <2>2, <2>3, OfContext, TxnFields, FitBegun
<1>6. Len(ts) <= program.depth[c]
  <2>1. Len(txns[c]) < program.depth[c] /\ Len(txns[c]) \in Nat /\ program.depth[c] \in Nat
    BY <1>1, OfContext, LenProperties DEF Locking
  <2> QED
    BY <1>4, <2>1
<1> HIDE DEF ts
<1>7. Fits(c, ts, "run", {}, <<>>, cur[c], base[c], ending[c], ownedMutexes[c])
  BY <1>3, <1>4, <1>5, <1>6, EmptySeq, OfContext DEF Fits, Labels, Locking
<1> QED
  BY <1>1, <1>7, MoveKeepsInv

(* A step of the program that replaces its stack, with the same locks. *)
LEMMA NewStackKeepsInv ==
  ASSUME TxnInv, NEW c \in Contexts, SyncInv', NEW ts \in Seq(Txns(program)),
         pc[c] = "run", txns' = [txns EXCEPT ![c] = ts],
         UNCHANGED <<syncVars, heapVars, pc, localVars, error>>,
         Len(ts) <= Len(txns[c]),
         \A i \in 1 .. Len(ts) : Restorable(ts[i]),
         LocksFit(txns[c], <<>>, <<>>, ownedMutexes[c])
           => LocksFit(ts, <<>>, <<>>, ownedMutexes[c])
  PROVE  TxnInv'
<1>1. /\ Moves(c, ts, pc[c], request[c], acquired[c], cur[c], base[c], ending[c])
      /\ ownedMutexes' = [ownedMutexes EXCEPT ![c] = ownedMutexes[c]]
      /\ program' = program /\ HeapTypes'
  BY Stays, HeapStays DEF Moves, localVars, syncVars
<1>2. acquired[c] = <<>> /\ cur[c].acquiredMutexIds = <<>>
  BY OfContext, EmptyTxn DEF LocalsOfPhase, Locking, Writing
<1>3. Len(ts) <= program.depth[c]
  <2>1. /\ Len(txns[c]) <= program.depth[c] /\ Len(txns[c]) \in Nat
        /\ program.depth[c] \in Nat /\ Len(ts) \in Nat
    BY OfContext, LenProperties
  <2> QED
    BY <2>1
<1>4. LocksFit(ts, acquired[c], cur[c].acquiredMutexIds, ownedMutexes[c])
  BY <1>2, OfContext
<1>5. Fits(c, ts, pc[c], request[c], acquired[c], cur[c], base[c], ending[c], ownedMutexes[c])
  BY <1>3, <1>4, OfContext DEF Fits, Locking
<1> QED
  BY <1>1, <1>5, MoveKeepsInv

(* A buffered write: one transaction in place of the top one. *)
LEMMA RewriteKeepsInv ==
  ASSUME TxnInv, NEW c \in Contexts, SyncInv', NEW t \in Txns(program),
         pc[c] = "run", txns[c] # <<>>,
         txns' = [txns EXCEPT ![c] = SetTop(txns[c], t)],
         UNCHANGED <<syncVars, heapVars, pc, localVars, error>>,
         Restorable(t),
         t.acquiredMutexIds = Top(txns[c]).acquiredMutexIds,
         t.mutexIds = Top(txns[c]).mutexIds
  PROVE  TxnInv'
<1> DEFINE low == Pop(txns[c])
           ts == Append(low, t)
<1>1. txns' = [txns EXCEPT ![c] = ts]
  <2>1. txns[c] \in Seq(Txns(program))
    BY OfContext
  <2>2. SetTop(txns[c], t) = ts
    BY <2>1, ReplaceTop
  <2> QED
    BY <2>2
<1>2. low \in Seq(Txns(program)) /\ Len(low) = Len(txns[c]) - 1 /\ Len(txns[c]) \in Nat
  BY OfContext, PopFacts
<1>3. \A i \in 1 .. Len(low) : Restorable(low[i])
  BY OfContext, PopRestorable
<1>4. ASSUME LocksFit(txns[c], <<>>, <<>>, ownedMutexes[c])
      PROVE  LocksFit(ts, <<>>, <<>>, ownedMutexes[c])
  <2>1. txns[c] \in Seq(Txns(program)) /\ LocksTyped(Txns(program))
    BY OfContext, TxnFields
  <2> QED
    BY <1>4, <2>1, FitRewrite
<1> HIDE DEF low
<1>5. ts \in Seq(Txns(program)) /\ Len(ts) = Len(low) + 1
      /\ \A i \in 1 .. Len(ts) : Restorable(ts[i])
  BY <1>2, <1>3, PushRestorable
<1>6. Len(ts) <= Len(txns[c])
  BY <1>2, <1>5
<1> HIDE DEF ts
<1> QED
  BY <1>1, <1>4, <1>5, <1>6, NewStackKeepsInv

(* The top transaction after a buffered write of a cell. *)
LEMMA BufferedCell ==
  ASSUME NEW p, NEW o \in Txns(p), Restorable(o),
         NEW x \in p.cells, NEW v \in Values, NEW w \in Values
  PROVE  /\ BufferCell(o, x, w, v) \in Txns(p) /\ Restorable(BufferCell(o, x, w, v))
         /\ BufferCell(o, x, w, v).acquiredMutexIds = o.acquiredMutexIds
         /\ BufferCell(o, x, w, v).mutexIds = o.mutexIds
<1> DEFINE prior == TryEmplace(o.priorCells, Put(NoMap, x, w))
           pending == Put(o.pendingCells, x, v)
<1>1. /\ o.priorCells \in Maps(p.cells, Values) /\ o.pendingCells \in Maps(p.cells, Values)
      /\ DOMAIN o.pendingCells = DOMAIN o.priorCells
  BY TxnFields DEF Restorable
<1>2. /\ prior \in Maps(p.cells, Values) /\ pending \in Maps(p.cells, Values)
      /\ DOMAIN pending = DOMAIN prior
  BY <1>1, MapBuffered
<1>3. BufferCell(o, x, w, v) = [o EXCEPT !.priorCells = prior, !.pendingCells = pending]
  BY DEF BufferCell
<1> HIDE DEF prior, pending
<1> QED
  BY <1>2, <1>3 DEF Txns, Restorable

(* The top transaction after a buffered write of an array. *)
LEMMA BufferedArray ==
  ASSUME NEW p, NEW o \in Txns(p), Restorable(o),
         NEW x \in p.arrays, NEW v \in Seq(Values), NEW w \in Seq(Values)
  PROVE  /\ BufferVector(o, x, w, v) \in Txns(p) /\ Restorable(BufferVector(o, x, w, v))
         /\ BufferVector(o, x, w, v).acquiredMutexIds = o.acquiredMutexIds
         /\ BufferVector(o, x, w, v).mutexIds = o.mutexIds
<1> DEFINE prior == TryEmplace(o.priorArrays, Put(NoMap, x, w))
           pending == Put(o.pendingArrays, x, v)
<1>1. /\ o.priorArrays \in Maps(p.arrays, Seq(Values)) /\ o.pendingArrays \in Maps(p.arrays, Seq(Values))
      /\ DOMAIN o.pendingArrays = DOMAIN o.priorArrays
  BY TxnFields DEF Restorable
<1>2. /\ prior \in Maps(p.arrays, Seq(Values)) /\ pending \in Maps(p.arrays, Seq(Values))
      /\ DOMAIN pending = DOMAIN prior
  BY <1>1, MapBuffered
<1>3. BufferVector(o, x, w, v) = [o EXCEPT !.priorArrays = prior, !.pendingArrays = pending]
  BY DEF BufferVector
<1> HIDE DEF prior, pending
<1> QED
  BY <1>2, <1>3 DEF Txns, Restorable

(* The parent after the commit of its child. *)
LEMMA MergedTxn ==
  ASSUME NEW p, NEW o \in Txns(p), NEW k \in Txns(p), Restorable(o), Restorable(k)
  PROVE  MergeInto(o, k) \in Txns(p) /\ Restorable(MergeInto(o, k))
<1> DEFINE ids == o.mutexIds \cup k.mutexIds
           acq == o.acquiredMutexIds \o k.acquiredMutexIds
           priorC == TryEmplace(o.priorCells, k.priorCells)
           pendC == Override(o.pendingCells, k.pendingCells)
           priorA == TryEmplace(o.priorArrays, k.priorArrays)
           pendA == Override(o.pendingArrays, k.pendingArrays)
<1>1. /\ priorC \in Maps(p.cells, Values) /\ priorA \in Maps(p.arrays, Seq(Values))
  BY TxnFields, MapTryEmplace
<1>2. /\ pendC \in Maps(p.cells, Values) /\ pendA \in Maps(p.arrays, Seq(Values))
  BY TxnFields, MapOverride
<1>3. DOMAIN priorC = DOMAIN pendC /\ DOMAIN priorA = DOMAIN pendA
  <2>1. /\ DOMAIN o.pendingCells = DOMAIN o.priorCells
        /\ DOMAIN o.pendingArrays = DOMAIN o.priorArrays
        /\ DOMAIN k.pendingCells = DOMAIN k.priorCells
        /\ DOMAIN k.pendingArrays = DOMAIN k.priorArrays
    BY DEF Restorable
  <2>2. DOMAIN priorC = DOMAIN k.priorCells \cup DOMAIN o.priorCells
    BY OverrideKeys
  <2>3. DOMAIN priorA = DOMAIN k.priorArrays \cup DOMAIN o.priorArrays
    BY OverrideKeys
  <2>4. DOMAIN pendC = DOMAIN o.pendingCells \cup DOMAIN k.pendingCells
    BY OverrideKeys
  <2>5. DOMAIN pendA = DOMAIN o.pendingArrays \cup DOMAIN k.pendingArrays
    BY OverrideKeys
  <2> HIDE DEF priorC, pendC, priorA, pendA
  <2> QED
    BY <2>1, <2>2, <2>3, <2>4, <2>5
<1>4. ids \in SUBSET Mutexes /\ acq \in Seq(Mutexes)
  <2>1. /\ o.mutexIds \in SUBSET Mutexes /\ k.mutexIds \in SUBSET Mutexes
        /\ o.acquiredMutexIds \in Seq(Mutexes) /\ k.acquiredMutexIds \in Seq(Mutexes)
    BY TxnFields DEF LocksTyped
  <2> QED
    BY <2>1, ConcatProperties
<1>5. MergeInto(o, k) = [mutexIds |-> ids, acquiredMutexIds |-> acq,
        priorCells |-> priorC, pendingCells |-> pendC,
        priorArrays |-> priorA, pendingArrays |-> pendA]
  BY DEF MergeInto
<1> HIDE DEF ids, acq, priorC, pendC, priorA, pendA
<1>6. MergeInto(o, k) \in Txns(p)
  BY <1>1, <1>2, <1>4, <1>5 DEF Txns
<1>7. Restorable(MergeInto(o, k))
  BY <1>3, <1>5 DEF Restorable
<1> QED
  BY <1>6, <1>7

(* SetGlobal, SetInstanceField. *)
LEMMA SetCellKeepsInv ==
  ASSUME TxnInv, NEW c \in Contexts, SyncInv', NEW x \in program.cells, NEW v \in Values,
         SetCell(c, x, v)
  PROVE  TxnInv'
<1> DEFINE t == BufferCell(Top(txns[c]), x, cells[x], v)
<1>1. /\ pc[c] = "run" /\ txns[c] # <<>>
      /\ UNCHANGED <<syncVars, heapVars, pc, localVars, error>>
      /\ txns' = [txns EXCEPT ![c] = SetTop(txns[c], t)]
  BY DEF SetCell
<1>2. Top(txns[c]) \in Txns(program) /\ Restorable(Top(txns[c]))
  BY <1>1, OfContext, PopFacts, PopRestorable
<1>3. cells[x] \in Values
  BY DEF TxnInv, HeapTypes
<1>4. /\ t \in Txns(program) /\ Restorable(t)
      /\ t.acquiredMutexIds = Top(txns[c]).acquiredMutexIds
      /\ t.mutexIds = Top(txns[c]).mutexIds
  BY <1>2, <1>3, BufferedCell
<1> HIDE DEF t
<1> QED
  BY <1>1, <1>4, RewriteKeepsInv

(* Whatever vector an array write leaves in the buffer. *)
LEMMA BufferArrayKeepsInv ==
  ASSUME TxnInv, NEW c \in Contexts, SyncInv', NEW a \in program.arrays, NEW to \in Seq(Values),
         pc[c] = "run", txns[c] # <<>>, BufferArray(c, a, to)
  PROVE  TxnInv'
<1> DEFINE t == BufferVector(Top(txns[c]), a, arrays[a], to)
<1>1. /\ UNCHANGED <<syncVars, heapVars, pc, localVars, error>>
      /\ txns' = [txns EXCEPT ![c] = SetTop(txns[c], t)]
  BY DEF BufferArray
<1>2. Top(txns[c]) \in Txns(program) /\ Restorable(Top(txns[c]))
  BY <1>1, OfContext, PopFacts, PopRestorable
<1>3. arrays[a] \in Seq(Values)
  BY DEF TxnInv, HeapTypes
<1>4. /\ t \in Txns(program) /\ Restorable(t)
      /\ t.acquiredMutexIds = Top(txns[c]).acquiredMutexIds
      /\ t.mutexIds = Top(txns[c]).mutexIds
  BY <1>2, <1>3, BufferedArray
<1> HIDE DEF t
<1> QED
  BY <1>1, <1>4, RewriteKeepsInv

(* The vector that an array write starts from is one of values. *)
LEMMA PendingArrayType ==
  ASSUME TxnInv, NEW c \in Contexts, NEW a \in program.arrays, txns[c] # <<>>
  PROVE  PendingArray(c, a) \in Seq(Values)
<1>1. Top(txns[c]) \in Txns(program)
  BY OfContext, PopFacts
<1>2. Top(txns[c]).pendingArrays \in Maps(program.arrays, Seq(Values))
  BY <1>1, TxnFields
<1>3. arrays[a] \in Seq(Values)
  BY DEF TxnInv, HeapTypes
<1>4. a \in DOMAIN Top(txns[c]).pendingArrays => Top(txns[c]).pendingArrays[a] \in Seq(Values)
  BY <1>2, MapGet
<1> QED
  BY <1>3, <1>4 DEF PendingArray

(* SetArrayElement, PushArrayElement. *)
LEMMA ArrayWriteKeepsInv ==
  ASSUME TxnInv, NEW c \in Contexts, SyncInv', NEW a \in program.arrays, NEW v \in Values,
         \/ \E i \in 1 .. MaxLen : SetArrayElement(c, a, i, v)
         \/ PushArrayElement(c, a, v)
  PROVE  TxnInv'
<1> DEFINE q == PendingArray(c, a)
<1>1. pc[c] = "run" /\ txns[c] # <<>>
  BY DEF SetArrayElement, PushArrayElement, WritesArray
<1>2. q \in Seq(Values)
  BY <1>1, PendingArrayType
<1>3. ASSUME NEW i \in 1 .. MaxLen, SetArrayElement(c, a, i, v) PROVE TxnInv'
  <2>1. i \in 1 .. Len(q) /\ BufferArray(c, a, [q EXCEPT ![i] = v])
    BY <1>3 DEF SetArrayElement
  <2>2. [q EXCEPT ![i] = v] \in Seq(Values)
    BY <1>2, <2>1, ExceptSeq
  <2> HIDE DEF q
  <2> QED
    BY <1>1, <2>1, <2>2, BufferArrayKeepsInv
<1>4. CASE PushArrayElement(c, a, v)
  <2>1. BufferArray(c, a, Append(q, v)) /\ Append(q, v) \in Seq(Values)
    BY <1>2, <1>4, AppendProperties DEF PushArrayElement
  <2> HIDE DEF q
  <2> QED
    BY <1>1, <2>1, BufferArrayKeepsInv
<1> QED
  BY <1>3, <1>4

(* PopArrayElement. *)
LEMMA PopArrayKeepsInv ==
  ASSUME TxnInv, NEW c \in Contexts, SyncInv', NEW a \in program.arrays, PopArrayElement(c, a)
  PROVE  TxnInv'
<1> DEFINE q == PendingArray(c, a)
<1>1. pc[c] = "run" /\ txns[c] # <<>> /\ q # <<>> /\ BufferArray(c, a, Pop(q))
  BY DEF PopArrayElement, WritesArray
<1>2. q \in Seq(Values)
  BY <1>1, PendingArrayType
<1>3. Pop(q) \in Seq(Values)
  BY <1>1, <1>2, PopFacts
<1> HIDE DEF q
<1> QED
  BY <1>1, <1>3, BufferArrayKeepsInv

(* A nested commit: the parent takes over what the child buffered. *)
LEMMA EndNestedKeepsInv ==
  ASSUME TxnInv, NEW c \in Contexts, SyncInv', EndNested(c)
  PROVE  TxnInv'
<1> DEFINE rest == Pop(txns[c])
           parent == Top(rest)
           child == Top(txns[c])
           t == MergeInto(parent, child)
           low == Pop(rest)
           ts == Append(low, t)
<1>1. /\ pc[c] = "run" /\ Len(txns[c]) > 1
      /\ UNCHANGED <<syncVars, heapVars, pc, localVars, error>>
      /\ txns' = [txns EXCEPT ![c] = SetTop(rest, t)]
  BY DEF EndNested
<1>2. txns[c] # <<>>
  BY <1>1
<1>3. /\ rest \in Seq(Txns(program)) /\ child \in Txns(program) /\ Restorable(child)
      /\ Len(rest) = Len(txns[c]) - 1 /\ Len(txns[c]) \in Nat
      /\ \A i \in 1 .. Len(rest) : Restorable(rest[i])
  BY <1>2, OfContext, PopFacts, PopRestorable
<1>4. rest # <<>>
  BY <1>1, <1>3
<1>5. /\ parent \in Txns(program) /\ Restorable(parent)
      /\ low \in Seq(Txns(program)) /\ Len(low) = Len(rest) - 1
      /\ \A i \in 1 .. Len(low) : Restorable(low[i])
  BY <1>3, <1>4, PopFacts, PopRestorable
<1> HIDE DEF parent, child, low
<1>6. /\ t \in Txns(program) /\ Restorable(t)
      /\ t.acquiredMutexIds = parent.acquiredMutexIds \o child.acquiredMutexIds
      /\ t.mutexIds = parent.mutexIds \cup child.mutexIds
  <2>1. t \in Txns(program) /\ Restorable(t)
    BY <1>3, <1>5, MergedTxn
  <2>2. t.acquiredMutexIds = parent.acquiredMutexIds \o child.acquiredMutexIds
    BY DEF MergeInto
  <2>3. t.mutexIds = parent.mutexIds \cup child.mutexIds
    BY DEF MergeInto
  <2> QED
    BY <2>1, <2>2, <2>3
<1> HIDE DEF rest, t
<1>7. SetTop(rest, t) = ts
  BY <1>3, <1>4, <1>6, ReplaceTop DEF low
<1>8. ASSUME LocksFit(txns[c], <<>>, <<>>, ownedMutexes[c])
      PROVE  LocksFit(ts, <<>>, <<>>, ownedMutexes[c])
  <2>1. txns[c] \in Seq(Txns(program)) /\ LocksTyped(Txns(program)) /\ Pop(txns[c]) # <<>>
    BY <1>4, OfContext, TxnFields DEF rest
  <2>2. /\ t.acquiredMutexIds = Top(Pop(txns[c])).acquiredMutexIds \o Top(txns[c]).acquiredMutexIds
        /\ t.mutexIds = Top(Pop(txns[c])).mutexIds \cup Top(txns[c]).mutexIds
    BY <1>6 DEF parent, child, rest
  <2> QED
    BY <1>2, <1>6, <1>8, <2>1, <2>2, FitMerge DEF low, rest
<1>9. /\ ts \in Seq(Txns(program)) /\ Len(ts) = Len(low) + 1
      /\ \A i \in 1 .. Len(ts) : Restorable(ts[i])
  BY <1>5, <1>6, PushRestorable
<1>10. Len(ts) <= Len(txns[c])
  BY <1>3, <1>5, <1>9
<1>11. txns' = [txns EXCEPT ![c] = ts]
  BY <1>1, <1>7
<1> HIDE DEF ts
<1> QED
  BY <1>1, <1>8, <1>9, <1>10, <1>11, NewStackKeepsInv

(* EndOutermost and UnwindPop: the top transaction becomes the one that is *)
(* written to the heap.                                                    *)
LEMMA PopKeepsInv ==
  ASSUME TxnInv, NEW c \in Contexts, SyncInv', EndOutermost(c) \/ UnwindPop(c)
  PROVE  TxnInv'
<1> DEFINE t == Top(txns[c])
           ts == Pop(txns[c])
<1>1. /\ pc[c] \in {"run", "unwind"} /\ Len(txns[c]) > 0
      /\ UNCHANGED <<syncVars, heapVars, request, acquired, base, ending, error>>
      /\ cur' = [cur EXCEPT ![c] = t]
  <2>1. base[c] \in Nat
    BY OfContext
  <2> QED
    BY <2>1 DEF EndOutermost, UnwindPop
<1>2. txns[c] # <<>> /\ txns[c] \in Seq(Txns(program))
  BY <1>1, OfContext
<1>3. /\ t \in Txns(program) /\ ts \in Seq(Txns(program))
      /\ Len(ts) = Len(txns[c]) - 1 /\ Len(txns[c]) \in Nat
  BY <1>2, PopFacts
<1>4. txns' = [txns EXCEPT ![c] = ts]
  <2>1. CASE Len(txns[c]) = 1
    <3>1. Len(ts) = 0
      BY <1>3, <2>1
    <3>2. ts = <<>>
      BY <1>3, <3>1, EmptySeq
    <3> QED
      BY <3>2 DEF EndOutermost, UnwindPop
  <2>2. CASE Len(txns[c]) # 1
    BY <2>2 DEF EndOutermost, UnwindPop
  <2> QED
    BY <2>1, <2>2
<1>5. PICK l \in Writing : pc' = [pc EXCEPT ![c] = l]
  BY DEF EndOutermost, UnwindPop, Goto, Writing
<1>6. acquired[c] = <<>> /\ cur[c].acquiredMutexIds = <<>> /\ (ending[c] # "no" => base[c] = 0)
  BY <1>1, OfContext, EmptyTxn DEF LocalsOfPhase, Locking, Writing
<1>7. LocksFit(ts, acquired[c], t.acquiredMutexIds, ownedMutexes[c])
  BY <1>2, <1>6, OfContext, TxnFields, FitPop
<1>8. \A i \in 1 .. Len(ts) : Restorable(ts[i])
  BY <1>2, OfContext, PopRestorable
<1>9. Len(ts) <= program.depth[c]
  <2>1. Len(txns[c]) <= program.depth[c] /\ program.depth[c] \in Nat
    BY OfContext
  <2> QED
    BY <1>3, <2>1
<1> HIDE DEF t, ts
<1>10. LocalsOfPhase(l, acquired[c], t, base[c], ending[c]) /\ l \in Labels /\ l \notin Locking
  BY <1>5, <1>6 DEF LocalsOfPhase, Labels, Locking, Writing
<1>11. Fits(c, ts, l, request[c], acquired[c], t, base[c], ending[c], ownedMutexes[c])
  BY <1>3, <1>7, <1>8, <1>9, <1>10, OfContext DEF Fits
<1>12. /\ Moves(c, ts, l, request[c], acquired[c], t, base[c], ending[c])
       /\ ownedMutexes' = [ownedMutexes EXCEPT ![c] = ownedMutexes[c]]
       /\ program' = program /\ HeapTypes'
  BY <1>1, <1>4, <1>5, Stays, HeapStays DEF Moves, syncVars
<1> QED
  BY <1>11, <1>12, MoveKeepsInv

(* A step of the transaction that was popped: its locks shrink with those  *)
(* that the context owns, or stay.                                         *)
LEMMA CurKeepsInv ==
  ASSUME TxnInv, NEW c \in Contexts, SyncInv', program' = program, HeapTypes',
         pc[c] \in Writing, NEW t \in Txns(program), NEW l \in Labels \ Locking, NEW owned,
         cur' = [cur EXCEPT ![c] = t], pc' = [pc EXCEPT ![c] = l],
         l \notin Writing => t = NoTxn,
         UNCHANGED <<txns, request, acquired, base, ending>>,
         ownedMutexes' = [ownedMutexes EXCEPT ![c] = owned],
         LocksFit(txns[c], <<>>, t.acquiredMutexIds, owned)
  PROVE  TxnInv'
<1>1. acquired[c] = <<>> /\ (ending[c] # "no" => base[c] = 0)
  BY OfContext DEF LocalsOfPhase, Locking, Writing
<1>2. LocalsOfPhase(l, acquired[c], t, base[c], ending[c])
  BY <1>1 DEF LocalsOfPhase
<1>3. Fits(c, txns[c], l, request[c], acquired[c], t, base[c], ending[c], owned)
  BY <1>1, <1>2, OfContext DEF Fits
<1>4. Moves(c, txns[c], l, request[c], acquired[c], t, base[c], ending[c])
  BY Stays DEF Moves
<1> QED
  BY <1>3, <1>4, MoveKeepsInv

(* The values of a transaction are written to the heap one at a time. *)
LEMMA WriteKeepsInv ==
  ASSUME TxnInv, NEW c \in Contexts, SyncInv',
         \/ \E x \in program.cells : ApplyCell(c, x) \/ RestoreCell(c, x)
         \/ \E a \in program.arrays : ApplyArray(c, a) \/ RestoreArray(c, a)
  PROVE  TxnInv'
<1>0. /\ cur[c] \in Txns(program) /\ cur \in [Contexts -> Txns(program)]
      /\ pc[c] \in Labels /\ pc = [pc EXCEPT ![c] = pc[c]]
      /\ ownedMutexes = [ownedMutexes EXCEPT ![c] = ownedMutexes[c]]
      /\ cells \in [program.cells -> Values] /\ arrays \in [program.arrays -> Seq(Values)]
      /\ program \in Programs
  BY OfContext, Stays DEF TxnInv, ContextTypes, HeapTypes
<1>1. ASSUME NEW t \in Txns(program), cur' = [cur EXCEPT ![c] = t],
             t.acquiredMutexIds = cur[c].acquiredMutexIds,
             pc[c] \in Writing, program' = program, HeapTypes',
             UNCHANGED <<syncVars, txns, pc, request, acquired, base, ending>>
      PROVE  TxnInv'
  <2>1. LocksFit(txns[c], <<>>, t.acquiredMutexIds, ownedMutexes[c])
    BY <1>1, OfContext DEF LocalsOfPhase, Locking, Writing
  <2>2. ownedMutexes' = ownedMutexes
    BY <1>1 DEF syncVars
  <2>3. pc[c] \in Labels \ Locking
    BY <1>0, <1>1 DEF Locking, Writing
  <2>4. /\ ownedMutexes' = [ownedMutexes EXCEPT ![c] = ownedMutexes[c]]
        /\ pc' = [pc EXCEPT ![c] = pc[c]]
        /\ UNCHANGED <<txns, request, acquired, base, ending>>
    BY <1>0, <1>1, <2>2
  <2> QED
    BY <1>1, <2>1, <2>3, <2>4, CurKeepsInv
<1>2. ASSUME NEW x \in program.cells, ApplyCell(c, x) PROVE TxnInv'
  <2> DEFINE f == Without(cur[c].pendingCells, x)
             t == [cur[c] EXCEPT !.pendingCells = f]
  <2>1. /\ cur[c].pendingCells[x] \in Values /\ f \in Maps(program.cells, Values)
    BY <1>0, <1>2, TxnFields, MapGet, MapWithout DEF ApplyCell
  <2>2. cur' = [cur EXCEPT ![c] = t]
    BY <1>2 DEF ApplyCell
  <2> HIDE DEF f
  <2>3. t \in Txns(program) /\ t.acquiredMutexIds = cur[c].acquiredMutexIds
    BY <1>0, <2>1 DEF Txns
  <2>4. program' = program /\ HeapTypes' /\ pc[c] \in Writing
    BY <1>0, <1>2, <2>1 DEF ApplyCell, HeapTypes, Writing
  <2> HIDE DEF t
  <2> QED
    BY <1>1, <1>2, <2>2, <2>3, <2>4 DEF ApplyCell
<1>3. ASSUME NEW x \in program.cells, RestoreCell(c, x) PROVE TxnInv'
  <2> DEFINE f == Without(cur[c].priorCells, x)
             t == [cur[c] EXCEPT !.priorCells = f]
  <2>1. /\ cur[c].priorCells[x] \in Values /\ f \in Maps(program.cells, Values)
    BY <1>0, <1>3, TxnFields, MapGet, MapWithout DEF RestoreCell
  <2>2. cur' = [cur EXCEPT ![c] = t]
    BY <1>3 DEF RestoreCell
  <2> HIDE DEF f
  <2>3. t \in Txns(program) /\ t.acquiredMutexIds = cur[c].acquiredMutexIds
    BY <1>0, <2>1 DEF Txns
  <2>4. program' = program /\ HeapTypes' /\ pc[c] \in Writing
    BY <1>0, <1>3, <2>1 DEF RestoreCell, HeapTypes, Writing
  <2> HIDE DEF t
  <2> QED
    BY <1>1, <1>3, <2>2, <2>3, <2>4 DEF RestoreCell
<1>4. ASSUME NEW a \in program.arrays, ApplyArray(c, a) PROVE TxnInv'
  <2> DEFINE f == Without(cur[c].pendingArrays, a)
             t == [cur[c] EXCEPT !.pendingArrays = f]
  <2>1. /\ cur[c].pendingArrays[a] \in Seq(Values) /\ f \in Maps(program.arrays, Seq(Values))
    BY <1>0, <1>4, TxnFields, MapGet, MapWithout DEF ApplyArray
  <2>2. cur' = [cur EXCEPT ![c] = t]
    BY <1>4 DEF ApplyArray
  <2> HIDE DEF f
  <2>3. t \in Txns(program) /\ t.acquiredMutexIds = cur[c].acquiredMutexIds
    BY <1>0, <2>1 DEF Txns
  <2>4. program' = program /\ HeapTypes' /\ pc[c] \in Writing
    BY <1>0, <1>4, <2>1 DEF ApplyArray, HeapTypes, Writing
  <2> HIDE DEF t
  <2> QED
    BY <1>1, <1>4, <2>2, <2>3, <2>4 DEF ApplyArray
<1>5. ASSUME NEW a \in program.arrays, RestoreArray(c, a) PROVE TxnInv'
  <2> DEFINE f == Without(cur[c].priorArrays, a)
             t == [cur[c] EXCEPT !.priorArrays = f]
  <2>1. /\ cur[c].priorArrays[a] \in Seq(Values) /\ f \in Maps(program.arrays, Seq(Values))
    BY <1>0, <1>5, TxnFields, MapGet, MapWithout DEF RestoreArray
  <2>2. cur' = [cur EXCEPT ![c] = t]
    BY <1>5 DEF RestoreArray
  <2> HIDE DEF f
  <2>3. t \in Txns(program) /\ t.acquiredMutexIds = cur[c].acquiredMutexIds
    BY <1>0, <2>1 DEF Txns
  <2>4. program' = program /\ HeapTypes' /\ pc[c] \in Writing
    BY <1>0, <1>5, <2>1 DEF RestoreArray, HeapTypes, Writing
  <2> HIDE DEF t
  <2> QED
    BY <1>1, <1>5, <2>2, <2>3, <2>4 DEF RestoreArray
<1> QED
  BY <1>2, <1>3, <1>4, <1>5

(* Its mutexes are released one at a time, and then it is forgotten. *)
LEMMA ReleaseKeepsInv ==
  ASSUME TxnInv, NEW c \in Contexts, SyncInv', ReleaseCommitted(c) \/ ReleaseUnwound(c)
  PROVE  TxnInv'
<1> DEFINE cq == cur[c].acquiredMutexIds
<1>0. /\ cur[c] \in Txns(program) /\ cq \in Seq(Mutexes)
      /\ pc[c] \in Labels /\ pc = [pc EXCEPT ![c] = pc[c]]
      /\ ownedMutexes = [ownedMutexes EXCEPT ![c] = ownedMutexes[c]]
  BY OfContext, Stays
<1>1. /\ pc[c] \in Writing /\ UNCHANGED <<heapVars, txns, request, acquired, base, ending, error>>
  BY DEF ReleaseCommitted, ReleaseUnwound, Writing
<1>2. program' = program /\ HeapTypes' /\ acquired[c] = <<>>
      /\ LocksFit(txns[c], <<>>, cq, ownedMutexes[c])
  BY <1>1, HeapStays, OfContext DEF LocalsOfPhase, Locking, Writing
<1>3. CASE /\ cq # <<>> /\ UnlockMutex(c, Top(cq))
           /\ cur' = [cur EXCEPT ![c].acquiredMutexIds = Pop(@)]
           /\ UNCHANGED pc
  <2> DEFINE t == [cur[c] EXCEPT !.acquiredMutexIds = Pop(cq)]
             owned == ownedMutexes[c] \ {Top(cq)}
  <2>1. cur' = [cur EXCEPT ![c] = t] /\ ownedMutexes' = [ownedMutexes EXCEPT ![c] = owned]
    BY <1>3 DEF UnlockMutex
  <2>2. Pop(cq) \in Seq(Mutexes) /\ LocksFit(txns[c], <<>>, Pop(cq), owned)
    BY <1>0, <1>2, <1>3, PopFacts, FitRelease
  <2>3. t \in Txns(program) /\ t.acquiredMutexIds = Pop(cq)
    BY <1>0, <2>2 DEF Txns
  <2>4. pc[c] \in Labels \ Locking
    BY <1>0, <1>1 DEF Locking, Writing
  <2>5. pc' = [pc EXCEPT ![c] = pc[c]] /\ LocksFit(txns[c], <<>>, t.acquiredMutexIds, owned)
    BY <1>0, <1>3, <2>2, <2>3
  <2> HIDE DEF t, owned, cq
  <2> QED
    BY <1>1, <1>2, <2>1, <2>3, <2>4, <2>5, CurKeepsInv
<1>4. CASE /\ cq = <<>> /\ cur' = [cur EXCEPT ![c] = NoTxn]
           /\ Goto(c, "run") \/ Goto(c, "unwind")
           /\ UNCHANGED syncVars
  <2>1. PICK l \in {"run", "unwind"} : pc' = [pc EXCEPT ![c] = l]
    BY <1>4 DEF Goto
  <2>2. l \in Labels \ Locking /\ l \notin Writing
    BY <2>1 DEF Labels, Locking, Writing
  <2>3. NoTxn \in Txns(program) /\ NoTxn.acquiredMutexIds = <<>>
    BY EmptyTxn
  <2>4. LocksFit(txns[c], <<>>, NoTxn.acquiredMutexIds, ownedMutexes[c])
    BY <1>2, <1>4, <2>3
  <2>5. ownedMutexes' = [ownedMutexes EXCEPT ![c] = ownedMutexes[c]]
    BY <1>0, <1>4 DEF syncVars
  <2> QED
    BY <1>1, <1>2, <1>4, <2>1, <2>2, <2>3, <2>4, <2>5, CurKeepsInv
<1> QED
  BY <1>3, <1>4 DEF ReleaseCommitted, ReleaseUnwound

(* HandleReturn and a runtime error start an unwinding. *)
LEMMA LeaveKeepsInv ==
  ASSUME TxnInv, NEW c \in Contexts, SyncInv', NEW depth \in Nat, NEW ends \in {"no", "return"},
         Return(c, depth, ends) \/ Fail(c)
  PROVE  TxnInv'
<1>1. PICK b \in Nat, e \in {"no", "return", "fail"} :
        /\ base' = [base EXCEPT ![c] = b] /\ ending' = [ending EXCEPT ![c] = e]
        /\ e # "no" => b = 0
  BY DEF Return, Fail
<1>2. /\ pc[c] = "run" /\ pc' = [pc EXCEPT ![c] = "unwind"]
      /\ UNCHANGED <<syncVars, heapVars, txns, request, acquired, cur>>
  BY DEF Return, Fail, Goto
<1>3. LocalsOfPhase("unwind", acquired[c], cur[c], b, e)
  BY <1>1, <1>2, OfContext DEF LocalsOfPhase, Locking, Writing
<1>4. Fits(c, txns[c], "unwind", request[c], acquired[c], cur[c], b, e, ownedMutexes[c])
  BY <1>1, <1>3, OfContext DEF Fits, Labels, Locking
<1>5. /\ Moves(c, txns[c], "unwind", request[c], acquired[c], cur[c], b, e)
      /\ ownedMutexes' = [ownedMutexes EXCEPT ![c] = ownedMutexes[c]]
      /\ program' = program /\ HeapTypes'
  BY <1>1, <1>2, Stays, HeapStays DEF Moves, syncVars
<1> QED
  BY <1>4, <1>5, MoveKeepsInv

(* A program ends with nothing left to release. *)
LEMMA UnwoundKeepsInv ==
  ASSUME TxnInv, NEW c \in Contexts, SyncInv', Unwound(c)
  PROVE  TxnInv'
<1>0. pc[c] = "unwind" /\ UNCHANGED <<heapVars, txns, acquired, cur, ending, error>>
  BY DEF Unwound
<1>1. /\ acquired[c] = <<>> /\ cur[c] = NoTxn /\ cur[c].acquiredMutexIds = <<>>
      /\ ending[c] # "no" => base[c] = 0
  BY <1>0, OfContext, EmptyTxn DEF LocalsOfPhase, Locking, Writing
<1>2. PICK l \in {"run", "done"} : pc' = [pc EXCEPT ![c] = l]
  BY DEF Unwound, Goto
<1>3. ownedMutexes' = [ownedMutexes EXCEPT ![c] = ownedMutexes[c]]
  <2>1. CASE ending[c] # "no" /\ FinishThread(c)
    <3>1. Len(txns[c]) <= 0 /\ txns[c] \in Seq(Txns(program))
      BY <1>1, <2>1, OfContext DEF Unwound
    <3>2. txns[c] = <<>>
      BY <3>1, EmptySeq
    <3>3. ownedMutexes[c] = {}
      BY <1>1, <3>2, OfContext, NothingAcquired DEF LocksFit
    <3> QED
      BY <2>1, <3>3 DEF FinishThread
  <2>2. CASE UNCHANGED syncVars
    BY <2>2, Stays DEF syncVars
  <2> QED
    BY <2>1, <2>2 DEF Unwound
<1>4. LocalsOfPhase(l, acquired[c], cur[c], 0, ending[c]) /\ l \in Labels /\ l \notin Locking
  BY <1>1, <1>2 DEF LocalsOfPhase, Labels, Locking
<1>5. Fits(c, txns[c], l, {}, acquired[c], cur[c], 0, ending[c], ownedMutexes[c])
  BY <1>4, OfContext DEF Fits
<1>6. Moves(c, txns[c], l, {}, acquired[c], cur[c], 0, ending[c])
  BY <1>0, <1>2, Stays DEF Unwound, Moves
<1>7. program' = program /\ HeapTypes'
  BY <1>0, HeapStays
<1> QED
  BY <1>3, <1>5, <1>6, <1>7, MoveKeepsInv

-----------------------------------------------------------------------------

(* The invariant holds before the first transaction. *)
LEMMA InitEstablishesTxnInv == Init => TxnInv
<1> SUFFICES ASSUME Init PROVE TxnInv
  OBVIOUS
<1>1. SyncInv
  <2>1. NoOwner \notin Threads /\ MaxThreads \in Nat \ {0} /\ MaxMutexes \in Nat
    BY BoundsAssumption DEF Threads, NoOwner
  <2>2. syncStats \in [threadCount : Nat, mutexCount : Nat, waitEdgeCount : Nat]
    <3>1. active \in SUBSET Threads /\ nextMutexId \in 1 .. MaxMutexes + 1
      BY <2>1 DEF Init
    <3> QED
      BY <3>1, StatsType DEF Init
  <2>3. /\ nextThreadId \in 1 .. MaxThreads /\ nextMutexId \in 1 .. MaxMutexes + 1
        /\ active \in SUBSET (0 .. nextThreadId - 1)
    BY <2>1 DEF Init, Threads
  <2>4. SyncTypeOK
    BY <2>2, <2>3 DEF Init, SyncTypeOK
  <2> QED
    BY <2>1, <2>4 DEF SyncInv, Init, OwnershipAgrees, FinishedThreadsLeaveNothing
<1>2. HeapTypes
  <2>1. PICK v \in Values : /\ cells = [x \in program.cells |-> v]
                            /\ arrays = [a \in program.arrays |-> <<v>>]
    BY DEF Init
  <2>2. <<v>> \in Seq(Values)
    OBVIOUS
  <2> QED
    BY <2>1, <2>2 DEF Init, HeapTypes
<1>3. ContextTypes
  <2>1. /\ <<>> \in Seq(Txns(program)) /\ <<>> \in Seq(Mutexes) /\ NoTxn \in Txns(program)
    BY EmptySeq, EmptyTxn
  <2> QED
    BY <2>1 DEF Init, ContextTypes
<1>4. Phases
  BY DEF Init, Phases, LocalsOfPhase
<1>5. Buffers
  <2>1. /\ program.depth \in [Contexts -> Nat] /\ Len(<<>>) = 0
    <3>1. program \in [cells : SUBSET Cells, arrays : SUBSET Arrays,
                       depth : [Contexts -> Nat], rewrites : BOOLEAN]
      BY TransactionsAssumption DEF Init
    <3> QED
      BY <3>1
  <2> QED
    BY <2>1 DEF Init, Buffers, Locking
<1>6. Locks
  <2>1. SoundStack(<<>>)
    BY DEF SoundStack
  <2> QED
    BY <2>1, NothingAcquired, EmptyTxn DEF Init, Locks, LocksFit, Contexts
<1> QED
  BY <1>1, <1>2, <1>3, <1>4, <1>5, <1>6 DEF TxnInv

(* Every step of every context keeps it. *)
LEMMA NextKeepsTxnInv == TxnInv /\ [Next]_vars => TxnInv'
<1> SUFFICES ASSUME TxnInv, [Next]_vars PROVE TxnInv'
  OBVIOUS
<1>0. SyncInv'
  BY NextKeepsSync
<1>1. ASSUME NEW c \in Contexts, Work(c) PROVE TxnInv'
  <2>1. ASSUME NEW ms \in SUBSET Mutexes, BeginTransaction(c, ms) PROVE TxnInv'
    BY <1>0, <2>1, BeginKeepsInv
  <2>2. ASSUME NEW x \in program.cells, NEW v \in Values, SetCell(c, x, v) PROVE TxnInv'
    BY <1>0, <2>2, SetCellKeepsInv
  <2>3. ASSUME NEW a \in program.arrays, NEW v \in Values,
               \/ \E i \in 1 .. MaxLen : SetArrayElement(c, a, i, v)
               \/ PushArrayElement(c, a, v)
        PROVE  TxnInv'
    BY <1>0, <2>3, ArrayWriteKeepsInv
  <2>4. ASSUME NEW a \in program.arrays, PopArrayElement(c, a) PROVE TxnInv'
    BY <1>0, <2>4, PopArrayKeepsInv
  <2>5. CASE EndNested(c)
    BY <1>0, <2>5, EndNestedKeepsInv
  <2>6. CASE EndOutermost(c)
    BY <1>0, <2>6, PopKeepsInv
  <2>7. ASSUME NEW depth \in 0 .. program.depth[c], NEW ends \in {"no", "return"},
               Return(c, depth, ends)
        PROVE  TxnInv'
    <3>1. depth \in Nat
      BY OfContext
    <3> QED
      BY <1>0, <2>7, <3>1, LeaveKeepsInv
  <2>8. CASE Fail(c)
    BY <1>0, <2>8, LeaveKeepsInv
  <2> QED
    BY <1>1, <2>1, <2>2, <2>3, <2>4, <2>5, <2>6, <2>7, <2>8 DEF Work
<1>2. ASSUME NEW c \in Contexts, Step(c) PROVE TxnInv'
  <2>1. CASE LockReadOwner(c) \/ LockWouldDeadlock(c) \/ LockRecheck(c)
    BY <1>0, <2>1, LockLooksKeepsInv
  <2>2. CASE LockTry(c)
    BY <1>0, <2>2, LockTryKeepsInv
  <2>3. CASE GiveUp(c)
    BY <1>0, <2>3, GiveUpKeepsInv
  <2>4. CASE Begun(c)
    BY <1>0, <2>4, BegunKeepsInv
  <2>5. CASE \/ \E x \in program.cells : ApplyCell(c, x) \/ RestoreCell(c, x)
             \/ \E a \in program.arrays : ApplyArray(c, a) \/ RestoreArray(c, a)
    BY <1>0, <2>5, WriteKeepsInv
  <2>6. CASE ReleaseCommitted(c) \/ ReleaseUnwound(c)
    BY <1>0, <2>6, ReleaseKeepsInv
  <2>7. CASE UnwindPop(c)
    BY <1>0, <2>7, PopKeepsInv
  <2>8. CASE Unwound(c)
    BY <1>0, <2>8, UnwoundKeepsInv
  <2> QED
    BY <1>2, <2>1, <2>2, <2>3, <2>4, <2>5, <2>6, <2>7, <2>8 DEF Step
<1>3. CASE UNCHANGED vars
  <2>1. /\ program' = program /\ cells' = cells /\ arrays' = arrays /\ txns' = txns
        /\ pc' = pc /\ request' = request /\ acquired' = acquired /\ cur' = cur
        /\ base' = base /\ ending' = ending /\ ownedMutexes' = ownedMutexes
    BY <1>3 DEF vars, syncVars, heapVars, localVars
  <2>2. HeapTypes' /\ ContextTypes'
    BY <2>1 DEF TxnInv, HeapTypes, ContextTypes, Txns
  <2>3. Phases' /\ Buffers' /\ Locks'
    BY <2>1 DEF TxnInv, Phases, Buffers, Locks
  <2> QED
    BY <1>0, <2>2, <2>3 DEF TxnInv
<1> QED
  BY <1>1, <1>2, <1>3 DEF Next

(* The invariant in every reachable state, for every number of contexts,   *)
(* mutexes and locations and every depth of nesting.                       *)
THEOREM TxnInvariance == Spec => []TxnInv
  BY InitEstablishesTxnInv, NextKeepsTxnInv, PTL DEF Spec

(* BeginTransaction, EndTransaction and UnwindTransactions leave no mutex  *)
(* locked that no transaction stands for, and release none that one still  *)
(* names: after a commit, a rollback, a begin that failed half way, and at *)
(* the end of the program.                                                 *)
THEOREM LocksTheorem == Spec => []LocksFollowTransactions
<1>1. ASSUME TxnInv, NEW c \in Contexts
      PROVE  /\ ownedMutexes[c] = TxnLocks(txns[c]) \cup Elems(acquired[c])
                  \cup Elems(cur[c].acquiredMutexIds)
             /\ Named(txns[c]) \subseteq ownedMutexes[c]
  <2>1. /\ SoundStack(txns[c])
        /\ ownedMutexes[c] = TxnLocks(txns[c]) \cup Elems(acquired[c])
             \cup Elems(cur[c].acquiredMutexIds)
    BY <1>1, OfContext DEF LocksFit
  <2>2. Named(txns[c]) \subseteq TxnLocks(txns[c])
    BY <1>1, <2>1, OfContext, NamedIsLocked
  <2> QED
    BY <2>1, <2>2
<1>2. ASSUME NEW c \in Contexts PROVE HeldMutexIds(c) = Named(txns[c])
  BY DEF HeldMutexIds, Named
<1>3. TxnInv => LocksFollowTransactions
  <2> SUFFICES ASSUME TxnInv
               PROVE  \A c \in Contexts :
                        /\ ownedMutexes[c] = TxnLocks(txns[c]) \cup Elems(acquired[c])
                             \cup Elems(cur[c].acquiredMutexIds)
                        /\ HeldMutexIds(c) \subseteq ownedMutexes[c]
    BY DEF LocksFollowTransactions
  <2> QED
    BY <1>1, <1>2
<1> QED
  BY <1>3, TxnInvariance, PTL

(* No two contexts are inside transactions over the same mutex. *)
Exclusive ==
  \A c, d \in Contexts : c # d => HeldMutexIds(c) \cap HeldMutexIds(d) = {}

(* The transactions of different contexts exclude each other, although a   *)
(* nested one releases nothing, a failed begin gives back only a part, and *)
(* BeginTransaction reads the owner before it tries to lock.               *)
THEOREM ExclusionTheorem == Spec => []Exclusive
<1>1. TxnInv /\ LocksFollowTransactions => Exclusive
  <2> SUFFICES ASSUME TxnInv, LocksFollowTransactions,
                      NEW c \in Contexts, NEW d \in Contexts, c # d,
                      NEW m \in HeldMutexIds(c), m \in HeldMutexIds(d)
               PROVE  FALSE
    BY DEF Exclusive
  <2>1. m \in ownedMutexes[c] /\ m \in ownedMutexes[d]
    BY DEF LocksFollowTransactions
  <2>2. m \in Mutexes /\ c \in Threads /\ d \in Threads
    BY <2>1 DEF TxnInv, SyncInv, SyncTypeOK, Contexts
  <2> QED
    BY <2>1, <2>2 DEF TxnInv, SyncInv, OwnershipAgrees
<1> QED
  BY <1>1, TxnInvariance, LocksTheorem, PTL

(* The lock attempts of transactions close no cycle of waiting contexts.   *)
THEOREM TxnAcyclicTheorem == Spec => []WaitGraphAcyclic
<1>1. Init => WaitGraphAcyclic
  BY DEF Init, WaitGraphAcyclic, AssertNoDeadlock, HasCycle
<1>2. TxnInv /\ WaitGraphAcyclic /\ [Next]_vars => WaitGraphAcyclic'
  BY NextIsSyncStep, NextKeepsSync, StepKeepsAcyclic DEF TxnInv
<1> QED
  BY <1>1, <1>2, TxnInvariance, PTL DEF Spec

(* Every variable has its type and the buffers of a transaction are        *)
(* complete: what it will overwrite can be restored.                       *)
THEOREM TxnTypeTheorem == Spec => []TxnTypeOK
<1>1. TxnInv => TxnTypeOK
  <2> SUFFICES ASSUME TxnInv PROVE TxnTypeOK
    OBVIOUS
  <2>1. /\ SyncTypeOK /\ cells \in [program.cells -> Values]
        /\ arrays \in [program.arrays -> Seq(Values)]
    BY DEF TxnInv, SyncInv, HeapTypes
  <2>2. pc \in [Contexts -> {"run", "lock", "wouldDeadlock", "tryLock", "recheck",
                             "giveUp", "apply", "unwind", "restore", "done"}]
    BY DEF TxnInv, ContextTypes, Locking, Writing
  <2>3. ASSUME NEW c \in Contexts
        PROVE  /\ Len(txns[c]) <= program.depth[c]
               /\ \A t \in Elems(txns[c]) : Restorable(t)
               /\ pc[c] \in {"run", "done"} => cur[c] = NoTxn /\ acquired[c] = <<>>
    BY OfContext DEF LocalsOfPhase, Locking, Writing, Elems
  <2> QED
    BY <2>1, <2>2, <2>3 DEF TxnTypeOK, Restorable
<1> QED
  BY <1>1, TxnInvariance, PTL

-----------------------------------------------------------------------------
(* The abstract state. *)

(* The abstract stack has a level for every transaction. *)
LEMMA LevelsShape ==
  ASSUME NEW D, NEW T, NEW ts \in Seq(T)
  PROVE  /\ LevelsOf(D, ts) \in Seq({LevelOf(D, ts, i) : i \in 1 .. Len(ts)})
         /\ Len(LevelsOf(D, ts)) = Len(ts)
         /\ \A i \in 1 .. Len(ts) : LevelsOf(D, ts)[i] = LevelOf(D, ts, i)
         /\ LevelsOf(D, ts) = <<>> <=> ts = <<>>
<1> DEFINE n == Len(ts)
           S == {LevelOf(D, ts, i) : i \in 1 .. n}
           f == LevelsOf(D, ts)
<1>1. n \in Nat
  BY LenProperties
<1>2. f \in [1 .. n -> S] /\ \A i \in 1 .. n : f[i] = LevelOf(D, ts, i)
  BY DEF LevelsOf
<1> HIDE DEF S, n, f
<1>3. f \in Seq(S) /\ Len(f) = n
  BY <1>1, <1>2, SeqDef, LenProperties
<1>4. f = <<>> <=> n = 0
  BY <1>3, EmptySeq
<1>5. ts = <<>> <=> n = 0
  BY EmptySeq DEF n
<1> QED
  BY <1>2, <1>3, <1>4, <1>5 DEF S, n, f

(* What a level is depends on the levels below it only, and on the data    *)
(* that it has locked.                                                     *)
LEMMA PrefixLevel ==
  ASSUME NEW D, NEW ts, NEW us, NEW i \in Nat, \A j \in 1 .. i : us[j] = ts[j]
  PROVE  /\ Below(us, i) = Below(ts, i)
         /\ \A x : Written(us, i, x) = Written(ts, i, x)
         /\ \A v, x : Seen(v, us, i, x) = Seen(v, ts, i, x)
         /\ i # 0 => LevelOf(D, us, i) = LevelOf(D, ts, i)
<1>1. Below(us, i) = Below(ts, i)
  BY DEF Below
<1>2. ASSUME NEW x PROVE Written(us, i, x) = Written(ts, i, x)
  BY DEF Written
<1>3. ASSUME NEW v, NEW x PROVE Seen(v, us, i, x) = Seen(v, ts, i, x)
  BY <1>2 DEF Seen
<1>4. i # 0 => us[i] = ts[i]
  OBVIOUS
<1>5. i # 0 => LevelOf(D, us, i) = LevelOf(D, ts, i)
  BY <1>1, <1>3, <1>4 DEF LevelOf
<1> QED
  BY <1>1, <1>2, <1>3, <1>5

(* The mutexes named up to a level. *)
LEMMA BelowFacts ==
  ASSUME NEW T, NEW ts \in Seq(T)
  PROVE  /\ Below(ts, Len(ts)) = Named(ts)
         /\ Below(ts, 0) = {}
         /\ \A i \in 1 .. Len(ts) : /\ Below(ts, i) \subseteq Named(ts)
                                    /\ Below(ts, i) = Below(ts, i - 1) \cup ts[i].mutexIds
<1>0. Len(ts) \in Nat
  BY LenProperties
<1>1. Below(ts, Len(ts)) = Named(ts)
  BY DEF Below, Named
<1>2. Below(ts, 0) = {}
  BY DEF Below
<1>3. ASSUME NEW i \in 1 .. Len(ts)
      PROVE  /\ Below(ts, i) \subseteq Named(ts)
             /\ Below(ts, i) = Below(ts, i - 1) \cup ts[i].mutexIds
  <2>1. 1 .. i = (1 .. i - 1) \cup {i} /\ 1 .. i \subseteq 1 .. Len(ts)
    BY <1>0
  <2> QED
    BY <2>1 DEF Below, Named
<1> QED
  BY <1>1, <1>2, <1>3

(* Reading: the own write of a level, else what the level below sees. *)
LEMMA SeenStep ==
  ASSUME NEW v, NEW ts, NEW i \in Nat \ {0}, NEW x
  PROVE  Seen(v, ts, i, x) = IF x \in DOMAIN Pending(ts[i], x) THEN Pending(ts[i], x)[x]
                                                               ELSE Seen(v, ts, i - 1, x)
<1>0. 1 .. i = (1 .. i - 1) \cup {i} /\ i \notin 1 .. i - 1 /\ \A k \in 1 .. i : k <= i
  OBVIOUS
<1>1. CASE x \in DOMAIN Pending(ts[i], x)
  <2> DEFINE w == Written(ts, i, x)
             j == CHOOSE k \in DOMAIN w : \A l \in DOMAIN w : l <= k
  <2>1. DOMAIN w = {k \in 1 .. i : x \in DOMAIN Pending(ts[k], x)}
        /\ \A k \in DOMAIN w : w[k] = Pending(ts[k], x)[x]
    BY DEF Written
  <2> HIDE DEF w
  <2>2. i \in DOMAIN w /\ \A k \in DOMAIN w : k <= i /\ k \in Nat
    BY <1>0, <1>1, <2>1
  <2>3. j \in DOMAIN w /\ \A l \in DOMAIN w : l <= j
    BY <2>2
  <2> HIDE DEF j
  <2>4. j = i
    BY <2>2, <2>3
  <2>5. Latest(w) = w[i]
    BY <2>4 DEF Latest, j
  <2> QED
    BY <1>1, <2>1, <2>2, <2>5 DEF Seen, w
<1>2. CASE x \notin DOMAIN Pending(ts[i], x)
  <2>1. {k \in 1 .. i : x \in DOMAIN Pending(ts[k], x)}
          = {k \in 1 .. i - 1 : x \in DOMAIN Pending(ts[k], x)}
    BY <1>0, <1>2
  <2>2. Written(ts, i, x) = Written(ts, i - 1, x)
    BY <2>1 DEF Written
  <2> QED
    BY <1>2, <2>2 DEF Seen
<1> QED
  BY <1>1, <1>2

(* With no level below, it is the committed value. *)
LEMMA SeenCommitted ==
  ASSUME NEW v, NEW ts, NEW x PROVE Seen(v, ts, 0, x) = v
  BY DEF Seen, Written

(* A location that no level has locked is read from the committed data. *)
LEMMA UnwrittenSeen ==
  ASSUME NEW v, NEW ts, NEW i \in Nat, NEW x,
         \A j \in 1 .. i : x \notin DOMAIN Pending(ts[j], x)
  PROVE  Seen(v, ts, i, x) = v
  BY DEF Seen, Written

(* Stacks of the same depth whose levels agree are the same. *)
LEMMA SameLevels ==
  ASSUME NEW D, NEW T, NEW ts \in Seq(T), NEW S, NEW ls \in Seq(S),
         Len(ls) = Len(ts), \A i \in 1 .. Len(ts) : ls[i] = LevelOf(D, ts, i)
  PROVE  ls = LevelsOf(D, ts)
<1> DEFINE f == LevelsOf(D, ts)
           U == {LevelOf(D, ts, i) : i \in 1 .. Len(ts)}
<1>1. /\ f \in Seq(U) /\ Len(f) = Len(ts)
      /\ \A i \in 1 .. Len(ts) : f[i] = LevelOf(D, ts, i)
  BY LevelsShape
<1>2. \A i \in 1 .. Len(f) : ls[i] = f[i]
  BY <1>1
<1> HIDE DEF f, U
<1>3. ls \in [1 .. Len(ls) -> S] /\ f \in [1 .. Len(f) -> U] /\ Len(ls) = Len(f)
  BY <1>1, LenProperties
<1>4. ls = f
  BY <1>2, <1>3
<1> QED
  BY <1>4 DEF f

(* A level of a stack is part of the abstract stack of each longer one. *)
LEMMA PushLevels ==
  ASSUME NEW D, NEW T, NEW ts \in Seq(T), NEW t \in T
  PROVE  LevelsOf(D, Append(ts, t))
           = Append(LevelsOf(D, ts), LevelOf(D, Append(ts, t), Len(ts) + 1))
<1> DEFINE us == Append(ts, t)
           n == Len(ts)
           e == LevelOf(D, us, n + 1)
           ls == LevelsOf(D, ts)
           S == {LevelOf(D, ts, i) : i \in 1 .. n} \cup {e}
<1>0. n \in Nat
  BY LenProperties
<1>1. us \in Seq(T) /\ Len(us) = n + 1 /\ \A i \in 1 .. n : us[i] = ts[i]
  BY AppendProperties
<1>2. /\ ls \in Seq({LevelOf(D, ts, i) : i \in 1 .. n}) /\ Len(ls) = n
      /\ \A i \in 1 .. n : ls[i] = LevelOf(D, ts, i)
  BY LevelsShape
<1>3. ls \in Seq(S)
  BY <1>2, SeqMonotonic
<1> HIDE DEF S, ls, e, us
<1>4. e \in S
  BY DEF S
<1>5. /\ Append(ls, e) \in Seq(S) /\ Len(Append(ls, e)) = n + 1
      /\ \A i \in 1 .. n : Append(ls, e)[i] = ls[i]
      /\ Append(ls, e)[n + 1] = e
  BY <1>2, <1>3, <1>4, AppendProperties
<1>6. ASSUME NEW i \in 1 .. n PROVE LevelOf(D, us, i) = LevelOf(D, ts, i)
  <2>1. i \in Nat /\ i # 0 /\ \A j \in 1 .. i : us[j] = ts[j]
    BY <1>0, <1>1
  <2> QED
    BY <2>1, PrefixLevel
<1> HIDE DEF n
<1>7. \A i \in 1 .. n + 1 : i \in 1 .. n \/ i = n + 1
  BY <1>0
<1>8. \A i \in 1 .. n + 1 : Append(ls, e)[i] = LevelOf(D, us, i)
  BY <1>2, <1>5, <1>6, <1>7 DEF e
<1>9. Append(ls, e) = LevelsOf(D, us)
  BY <1>1, <1>5, <1>8, SameLevels
<1> QED
  BY <1>9 DEF ls, e, us, n

(* Popping a transaction pops its level. *)
LEMMA PopLevels ==
  ASSUME NEW D, NEW T, NEW ts \in Seq(T), ts # <<>>
  PROVE  /\ Abs!Pop(LevelsOf(D, ts)) = LevelsOf(D, Pop(ts))
         /\ Abs!Top(LevelsOf(D, ts)) = LevelOf(D, ts, Len(ts))
<1> DEFINE ls == LevelsOf(D, ts)
           n == Len(ts)
           S == {LevelOf(D, ts, i) : i \in 1 .. n}
           us == Pop(ts)
<1>1. /\ n \in Nat \ {0} /\ us \in Seq(T) /\ Len(us) = n - 1
      /\ \A i \in 1 .. n - 1 : us[i] = ts[i]
  BY PopFacts
<1>2. /\ ls \in Seq(S) /\ Len(ls) = n
      /\ \A i \in 1 .. n : ls[i] = LevelOf(D, ts, i)
  BY LevelsShape
<1> HIDE DEF S, ls, us, n
<1>0. ls # <<>>
  BY <1>1, <1>2, EmptySeq
<1>3. /\ Pop(ls) \in Seq(S) /\ Len(Pop(ls)) = n - 1
      /\ \A i \in 1 .. n - 1 : Pop(ls)[i] = ls[i]
  BY <1>0, <1>2, PopFacts
<1>4. ASSUME NEW i \in 1 .. n - 1 PROVE Pop(ls)[i] = LevelOf(D, us, i)
  <2>1. i \in Nat /\ i # 0 /\ i \in 1 .. n /\ \A j \in 1 .. i : us[j] = ts[j]
    BY <1>1
  <2>2. LevelOf(D, us, i) = LevelOf(D, ts, i)
    BY <2>1, PrefixLevel
  <2> QED
    BY <1>2, <1>3, <2>1, <2>2
<1>5. Pop(ls) = LevelsOf(D, us)
  BY <1>1, <1>3, <1>4, SameLevels
<1>6. ls[Len(ls)] = LevelOf(D, ts, n)
  BY <1>1, <1>2
<1> QED
  BY <1>5, <1>6 DEF ls, us, n, Pop, Abs!Pop, Abs!Top

(* A stack is the same over data that agree on what it has locked. *)
LEMMA DataLevels ==
  ASSUME NEW D, NEW E, DOMAIN D = DOMAIN E, NEW T, NEW ts \in Seq(T),
         \A x \in DOMAIN D : GuardOf[x] \in Named(ts) => D[x] = E[x]
  PROVE  LevelsOf(D, ts) = LevelsOf(E, ts)
<1>1. ASSUME NEW i \in 1 .. Len(ts) PROVE LevelOf(D, ts, i) = LevelOf(E, ts, i)
  <2> DEFINE K == {y \in DOMAIN D : GuardOf[y] \in Below(ts, i)}
  <2>1. Below(ts, i) \subseteq Named(ts)
    BY BelowFacts
  <2>2. \A x \in K : D[x] = E[x]
    BY <2>1
  <2>3. [x \in K |-> Seen(D[x], ts, i, x)] = [x \in K |-> Seen(E[x], ts, i, x)]
    BY <2>2
  <2>4. K = {y \in DOMAIN E : GuardOf[y] \in Below(ts, i)}
    OBVIOUS
  <2> QED
    BY <2>3, <2>4 DEF LevelOf
<1> QED
  BY <1>1 DEF LevelsOf

(* The mutexes an abstract stack holds. *)
LEMMA HeldIs ==
  ASSUME NEW D, NEW T, NEW ts \in Seq(T)
  PROVE  Abs!Held(LevelsOf(D, ts)) = Named(ts)
<1>1. /\ Len(LevelsOf(D, ts)) = Len(ts)
      /\ \A i \in 1 .. Len(ts) : LevelsOf(D, ts)[i] = LevelOf(D, ts, i)
  BY LevelsShape
<1>2. \A i : LevelOf(D, ts, i).held = ts[i].mutexIds
  BY DEF LevelOf
<1>3. \A i \in 1 .. Len(ts) : LevelsOf(D, ts)[i].held = ts[i].mutexIds
  BY <1>1, <1>2
<1> QED
  BY <1>1, <1>3 DEF Abs!Held, Named

-----------------------------------------------------------------------------
(* The writes that are buffered, and what a rollback would write back. *)

(* What a step of context c leaves alone. *)
Alone(c) ==
  \A d \in Contexts \ {c} :
    /\ txns'[d] = txns[d] /\ pc'[d] = pc[d] /\ cur'[d] = cur[d]
    /\ request'[d] = request[d] /\ acquired'[d] = acquired[d]

(* A step of a context changes nothing of the other contexts. *)
LEMMA OthersStay ==
  ASSUME TxnInv, TxnInv', NEW c \in Contexts, Work(c) \/ Step(c)
  PROVE  /\ Alone(c)
         /\ \A d \in Contexts \ {c} : ownedMutexes'[d] = ownedMutexes[d]
<1>0. /\ DOMAIN txns = Contexts /\ DOMAIN pc = Contexts /\ DOMAIN cur = Contexts
      /\ DOMAIN request = Contexts /\ DOMAIN acquired = Contexts
  BY DEF TxnInv, ContextTypes
<1>1. Work(c) => Alone(c)
  <2>1. ASSUME NEW ms, BeginTransaction(c, ms) PROVE Alone(c)
    BY <1>0, <2>1 DEF BeginTransaction, Goto, Alone
  <2>2. ASSUME NEW x, NEW v, SetCell(c, x, v) PROVE Alone(c)
    BY <1>0, <2>2 DEF SetCell, localVars, Alone
  <2>3. ASSUME NEW a, NEW to, BufferArray(c, a, to) PROVE Alone(c)
    BY <1>0, <2>3 DEF BufferArray, localVars, Alone
  <2>4. ASSUME NEW a, NEW i, NEW v,
               SetArrayElement(c, a, i, v) \/ PushArrayElement(c, a, v) \/ PopArrayElement(c, a)
        PROVE  Alone(c)
    BY <2>3, <2>4 DEF SetArrayElement, PushArrayElement, PopArrayElement
  <2>5. CASE EndNested(c)
    BY <1>0, <2>5 DEF EndNested, localVars, Alone
  <2>6. CASE EndOutermost(c)
    BY <1>0, <2>6 DEF EndOutermost, Goto, Alone
  <2>7. ASSUME NEW depth, NEW ends, Return(c, depth, ends) PROVE Alone(c)
    BY <1>0, <2>7 DEF Return, Goto, Alone
  <2>8. CASE Fail(c)
    BY <1>0, <2>8 DEF Fail, Goto, Alone
  <2> QED
    BY <2>1, <2>2, <2>4, <2>5, <2>6, <2>7, <2>8 DEF Work
<1>2. Step(c) => Alone(c)
  <2>1. CASE LockReadOwner(c)
    BY <1>0, <2>1 DEF LockReadOwner, Goto, localVars, Alone
  <2>2. CASE LockWouldDeadlock(c)
    BY <1>0, <2>2 DEF LockWouldDeadlock, Goto, localVars, Alone
  <2>3. CASE LockTry(c)
    BY <1>0, <2>3 DEF LockTry, Goto, Alone
  <2>4. CASE LockRecheck(c)
    BY <1>0, <2>4 DEF LockRecheck, Goto, localVars, Alone
  <2>5. CASE GiveUp(c)
    BY <1>0, <2>5 DEF GiveUp, Goto, Alone
  <2>6. CASE Begun(c)
    BY <1>0, <2>6 DEF Begun, Goto, Alone
  <2>7. ASSUME NEW x, ApplyCell(c, x) \/ RestoreCell(c, x) PROVE Alone(c)
    BY <1>0, <2>7 DEF ApplyCell, RestoreCell, Alone
  <2>8. ASSUME NEW x, ApplyArray(c, x) \/ RestoreArray(c, x) PROVE Alone(c)
    BY <1>0, <2>8 DEF ApplyArray, RestoreArray, Alone
  <2>9. CASE ReleaseCommitted(c) \/ ReleaseUnwound(c)
    BY <1>0, <2>9 DEF ReleaseCommitted, ReleaseUnwound, Goto, Alone
  <2>10. CASE UnwindPop(c)
    BY <1>0, <2>10 DEF UnwindPop, Goto, Alone
  <2>11. CASE Unwound(c)
    BY <1>0, <2>11 DEF Unwound, Goto, Alone
  <2> QED
    BY <2>1, <2>2, <2>3, <2>4, <2>5, <2>6, <2>7, <2>8, <2>9, <2>10, <2>11 DEF Step
<1>3. \A d \in Contexts :
        /\ LocksFit(txns[d], acquired[d], cur[d].acquiredMutexIds, ownedMutexes[d])
        /\ LocksFit(txns'[d], acquired'[d], cur'[d].acquiredMutexIds, ownedMutexes'[d])
  BY DEF TxnInv, Locks
<1>4. Alone(c)
  BY <1>1, <1>2
<1>5. ASSUME NEW d \in Contexts \ {c} PROVE ownedMutexes'[d] = ownedMutexes[d]
  <2>1. txns'[d] = txns[d] /\ acquired'[d] = acquired[d] /\ cur'[d] = cur[d]
    BY <1>4 DEF Alone
  <2> DEFINE own == ownedMutexes[d]
             now == ownedMutexes'[d]
             ts == txns[d]
             aq == acquired[d]
             ids == cur[d].acquiredMutexIds
  <2>2. LocksFit(ts, aq, ids, own) /\ LocksFit(ts, aq, ids, now)
    BY <1>3, <2>1
  <2> HIDE DEF own, now, ts, aq, ids
  <2>3. own = now
    BY ONLY <2>2 DEF LocksFit
  <2> QED
    BY ONLY <2>3 DEF own, now
<1> QED
  BY <1>4, <1>5

(* A mutex has one owner. *)
LEMMA OneOwner ==
  ASSUME TxnInv, NEW c \in Contexts, NEW d \in Contexts, c # d, NEW m \in ownedMutexes[c]
  PROVE  m \notin ownedMutexes[d]
<1>1. m \in Mutexes /\ c \in Threads /\ d \in Threads
  BY DEF TxnInv, SyncInv, SyncTypeOK, Contexts
<1> QED
  BY <1>1 DEF TxnInv, SyncInv, OwnershipAgrees

(* A context owns what its transactions name. *)
LEMMA OwnsNamed ==
  ASSUME TxnInv, NEW c \in Contexts
  PROVE  Named(txns[c]) \subseteq ownedMutexes[c]
<1>1. /\ SoundStack(txns[c])
      /\ ownedMutexes[c] = TxnLocks(txns[c]) \cup Elems(acquired[c])
           \cup Elems(cur[c].acquiredMutexIds)
  BY OfContext DEF LocksFit
<1>2. Named(txns[c]) \subseteq TxnLocks(txns[c])
  BY <1>1, OfContext, NamedIsLocked
<1> QED
  BY <1>1, <1>2

-----------------------------------------------------------------------------
(* What is buffered is locked, and what a rollback writes back is what is  *)
(* there.                                                                  *)

PendingKeys(t) == DOMAIN t.pendingCells \cup DOMAIN t.pendingArrays
PriorKeys(t) == DOMAIN t.priorCells \cup DOMAIN t.priorArrays

Covered(ks, ms) == \A x \in ks : GuardOf[x] \in ms

PriorsHold(t) ==
  /\ \A x \in DOMAIN t.priorCells : t.priorCells[x] = cells[x]
  /\ \A a \in DOMAIN t.priorArrays : t.priorArrays[a] = arrays[a]

StackHolds(ts) ==
  \A i \in 1 .. Len(ts) : Covered(PendingKeys(ts[i]), Below(ts, i)) /\ PriorsHold(ts[i])

WritesHold(ts, l, rq, t, owned) ==
  /\ StackHolds(ts)
  /\ l = "apply" => ts = <<>> /\ Covered(PendingKeys(t), owned)
  /\ l = "restore" => Covered(PriorKeys(t), owned) /\ PriorsHold(t)
  /\ l \in Locking => rq # {}

WriteInv ==
  \A c \in Contexts : WritesHold(txns[c], pc[c], request[c], cur[c], ownedMutexes[c])

(* The heap changes only where the stepping context c owns the mutex. *)
HeapOf(c) ==
  /\ program' = program
  /\ \A x \in program.cells : GuardOf[x] \notin ownedMutexes[c] => cells'[x] = cells[x]
  /\ \A a \in program.arrays : GuardOf[a] \notin ownedMutexes[c] => arrays'[a] = arrays[a]

(* The keys of a transaction are locations of the program. *)
LEMMA KeysOf ==
  ASSUME TxnInv, NEW t \in Txns(program)
  PROVE  /\ DOMAIN t.priorCells \subseteq program.cells
         /\ DOMAIN t.pendingCells \subseteq program.cells
         /\ DOMAIN t.priorArrays \subseteq program.arrays
         /\ DOMAIN t.pendingArrays \subseteq program.arrays
         /\ program.cells \subseteq Cells /\ program.arrays \subseteq Arrays
         /\ Cells \cap Arrays = {}
<1>1. \A D, V : \A f \in Maps(D, V) : DOMAIN f \subseteq D
  BY DEF Maps
<1>2. /\ t.priorCells \in Maps(program.cells, Values)
      /\ t.pendingCells \in Maps(program.cells, Values)
      /\ t.priorArrays \in Maps(program.arrays, Seq(Values))
      /\ t.pendingArrays \in Maps(program.arrays, Seq(Values))
  BY TxnFields
<1>3. program \in [cells : SUBSET Cells, arrays : SUBSET Arrays,
                   depth : [Contexts -> Nat], rewrites : BOOLEAN]
  BY TransactionsAssumption DEF TxnInv, HeapTypes
<1>4. program.cells \subseteq Cells /\ program.arrays \subseteq Arrays
  BY <1>3
<1> QED
  BY <1>1, <1>2, <1>4, TransactionsAssumption

(* A step of c keeps the values that others would restore. *)
LEMMA WritesOfOthers ==
  ASSUME TxnInv, WriteInv, NEW c \in Contexts, Alone(c), HeapOf(c),
         \A d \in Contexts \ {c} : ownedMutexes'[d] = ownedMutexes[d],
         WritesHold(txns[c], pc[c], request[c], cur[c], ownedMutexes[c])'
  PROVE  WriteInv'
<1> SUFFICES ASSUME NEW d \in Contexts \ {c}
             PROVE  WritesHold(txns[d], pc[d], request[d], cur[d], ownedMutexes[d])'
  BY DEF WriteInv
<1>1. /\ txns'[d] = txns[d] /\ pc'[d] = pc[d] /\ cur'[d] = cur[d]
      /\ request'[d] = request[d] /\ ownedMutexes'[d] = ownedMutexes[d]
  BY DEF Alone
<1>2. WritesHold(txns[d], pc[d], request[d], cur[d], ownedMutexes[d])
  BY DEF WriteInv
<1>3. ASSUME NEW t \in Txns(program), Covered(PriorKeys(t), ownedMutexes[d]), PriorsHold(t)
      PROVE  PriorsHold(t)'
  <2>1. \A x \in PriorKeys(t) : GuardOf[x] \notin ownedMutexes[c]
    BY <1>3, OneOwner DEF Covered
  <2>2. DOMAIN t.priorCells \subseteq program.cells /\ DOMAIN t.priorArrays \subseteq program.arrays
    BY KeysOf
  <2> QED
    BY <1>3, <2>1, <2>2 DEF HeapOf, PriorKeys, PriorsHold
<1>4. cur[d] \in Txns(program) /\ txns[d] \in Seq(Txns(program))
      /\ \A i \in 1 .. Len(txns[d]) : Restorable(txns[d][i])
  BY OfContext
<1>5. StackHolds(txns[d])'
  <2>1. ASSUME NEW i \in 1 .. Len(txns[d]) PROVE PriorsHold(txns[d][i])'
    <3>1. txns[d][i] \in Txns(program)
      BY <1>4, ElementOfSeq
    <3>2. Below(txns[d], i) \subseteq ownedMutexes[d]
      BY <1>4, BelowFacts, OwnsNamed
    <3>3. PendingKeys(txns[d][i]) = PriorKeys(txns[d][i])
      BY <1>4 DEF Restorable, PendingKeys, PriorKeys
    <3>4. Covered(PriorKeys(txns[d][i]), ownedMutexes[d]) /\ PriorsHold(txns[d][i])
      BY <1>2, <3>2, <3>3 DEF WritesHold, StackHolds, Covered
    <3>5. PriorsHold(txns[d][i])'
      BY <1>1, <1>3, <3>1, <3>4
    <3> QED
      BY <3>5
  <2> QED
    BY <1>1, <1>2, <2>1 DEF WritesHold, StackHolds
<1>6. pc[d] = "restore" => PriorsHold(cur[d])'
  BY <1>1, <1>2, <1>3, <1>4 DEF WritesHold
<1> QED
  BY <1>1, <1>2, <1>5, <1>6 DEF WritesHold

(* The mutexes named by a stack and by the rest of it. *)
LEMMA NamedPop ==
  ASSUME NEW T, NEW ts \in Seq(T), ts # <<>>
  PROVE  /\ Named(ts) = Named(Pop(ts)) \cup Top(ts).mutexIds
         /\ \A i \in 1 .. Len(Pop(ts)) : i \in 1 .. Len(ts) /\ Below(Pop(ts), i) = Below(ts, i)
<1> DEFINE us == Pop(ts)
           n == Len(ts)
<1>1. /\ n \in Nat \ {0} /\ us \in Seq(T) /\ Len(us) = n - 1
      /\ \A i \in 1 .. n - 1 : us[i] = ts[i]
  BY PopFacts
<1> HIDE DEF us, n
<1>2. ASSUME NEW i \in 0 .. n - 1 PROVE Below(us, i) = Below(ts, i)
  <2>1. i \in Nat /\ \A j \in 1 .. i : us[j] = ts[j]
    BY <1>1
  <2> QED
    BY <2>1, PrefixLevel
<1>3. Named(us) = Below(ts, n - 1)
  <2>1. Named(us) = Below(us, n - 1)
    BY <1>1, BelowFacts
  <2> QED
    BY <1>1, <1>2, <2>1
<1>4. Named(ts) = Below(ts, n) /\ n \in 1 .. n
  BY <1>1, BelowFacts DEF n
<1>5. Below(ts, n) = Below(ts, n - 1) \cup ts[n].mutexIds
  BY <1>4, BelowFacts DEF n
<1> QED
  BY <1>1, <1>2, <1>3, <1>4, <1>5 DEF us, n, Top

(* The mutexes named after a push. *)
LEMMA NamedPush ==
  ASSUME NEW T, NEW ts \in Seq(T), NEW t \in T
  PROVE  /\ Named(Append(ts, t)) = Named(ts) \cup t.mutexIds
         /\ Below(Append(ts, t), Len(ts) + 1) = Named(ts) \cup t.mutexIds
         /\ \A i \in 1 .. Len(ts) : Below(Append(ts, t), i) = Below(ts, i)
<1> DEFINE us == Append(ts, t)
           n == Len(ts)
<1>1. /\ n \in Nat /\ us \in Seq(T) /\ Len(us) = n + 1 /\ us[n + 1] = t
      /\ \A i \in 1 .. n : us[i] = ts[i]
  BY AppendProperties, LenProperties
<1> HIDE DEF us, n
<1>2. ASSUME NEW i \in 0 .. n PROVE Below(us, i) = Below(ts, i)
  <2>1. i \in Nat /\ \A j \in 1 .. i : us[j] = ts[j]
    BY <1>1
  <2> QED
    BY <2>1, PrefixLevel
<1>3. Named(ts) = Below(us, n)
  <2>1. Named(ts) = Below(ts, n)
    BY BelowFacts DEF n
  <2> QED
    BY <1>1, <1>2, <2>1
<1>4. Named(us) = Below(us, n + 1) /\ n + 1 \in 1 .. Len(us) /\ (n + 1) - 1 = n
  BY <1>1, BelowFacts
<1>5. Below(us, n + 1) = Below(us, n) \cup t.mutexIds
  BY <1>1, <1>4, BelowFacts
<1> QED
  BY <1>1, <1>2, <1>3, <1>4, <1>5 DEF us, n

(* A stack to which a transaction with locked keys is added. *)
LEMMA HoldsPush ==
  ASSUME NEW T, NEW ts \in Seq(T), NEW t \in T, StackHolds(ts),
         Covered(PendingKeys(t), Named(ts) \cup t.mutexIds), PriorsHold(t)
  PROVE  StackHolds(Append(ts, t))
<1> DEFINE us == Append(ts, t)
           n == Len(ts)
<1>1. /\ n \in Nat /\ us \in Seq(T) /\ Len(us) = n + 1 /\ us[n + 1] = t
      /\ \A i \in 1 .. n : us[i] = ts[i]
  BY AppendProperties, LenProperties
<1>2. /\ Below(us, n + 1) = Named(ts) \cup t.mutexIds
      /\ \A i \in 1 .. n : Below(us, i) = Below(ts, i)
  BY NamedPush
<1>3. \A i \in 1 .. n : Covered(PendingKeys(ts[i]), Below(ts, i)) /\ PriorsHold(ts[i])
  BY DEF StackHolds
<1> HIDE DEF us, n
<1>4. \A i \in 1 .. n + 1 : i \in 1 .. n \/ i = n + 1
  BY <1>1
<1>5. \A i \in 1 .. n + 1 : Covered(PendingKeys(us[i]), Below(us, i)) /\ PriorsHold(us[i])
  BY <1>1, <1>2, <1>3, <1>4
<1> QED
  BY <1>1, <1>5 DEF StackHolds, us

(* The top of a stack and what is left of it. *)
LEMMA HoldsPop ==
  ASSUME NEW T, NEW ts \in Seq(T), ts # <<>>, StackHolds(ts)
  PROVE  /\ StackHolds(Pop(ts))
         /\ Covered(PendingKeys(Top(ts)), Named(ts)) /\ PriorsHold(Top(ts))
<1> DEFINE us == Pop(ts)
           n == Len(ts)
<1>1. /\ n \in Nat \ {0} /\ us \in Seq(T) /\ Len(us) = n - 1
      /\ \A i \in 1 .. n - 1 : us[i] = ts[i]
  BY PopFacts
<1>2. \A i \in 1 .. Len(us) : i \in 1 .. n /\ Below(us, i) = Below(ts, i)
  BY NamedPop
<1>3. \A i \in 1 .. n : Covered(PendingKeys(ts[i]), Below(ts, i)) /\ PriorsHold(ts[i])
  BY DEF StackHolds
<1>4. Named(ts) = Below(ts, n)
  BY BelowFacts
<1> HIDE DEF us, n
<1>5. n \in 1 .. n /\ \A i \in 1 .. Len(us) : us[i] = ts[i]
  BY <1>1
<1>6. \A i \in 1 .. Len(us) : Covered(PendingKeys(us[i]), Below(us, i)) /\ PriorsHold(us[i])
  BY <1>2, <1>3, <1>5
<1> QED
  BY <1>3, <1>4, <1>5, <1>6 DEF StackHolds, us, n, Top

(* Priors with one more location that is as it was. *)
LEMMA PriorsBuffered ==
  ASSUME NEW t \in Txns(program), PriorsHold(t), NEW x, NEW v
  PROVE  /\ PriorsHold(BufferCell(t, x, cells[x], v))
         /\ PendingKeys(BufferCell(t, x, cells[x], v)) = PendingKeys(t) \cup {x}
         /\ PriorsHold(BufferVector(t, x, arrays[x], v))
         /\ PendingKeys(BufferVector(t, x, arrays[x], v)) = PendingKeys(t) \cup {x}
<1>1. ASSUME NEW f, NEW heap, \A y \in DOMAIN f : f[y] = heap[y]
      PROVE  \A y \in DOMAIN TryEmplace(f, Put(NoMap, x, heap[x])) :
               TryEmplace(f, Put(NoMap, x, heap[x]))[y] = heap[y]
  BY <1>1 DEF TryEmplace, Override, Put, NoMap
<1>2. \A f : DOMAIN Put(f, x, v) = DOMAIN f \cup {x}
  BY DEF Put
<1> DEFINE pc1 == TryEmplace(t.priorCells, Put(NoMap, x, cells[x]))
           pa1 == TryEmplace(t.priorArrays, Put(NoMap, x, arrays[x]))
           qc == Put(t.pendingCells, x, v)
           qa == Put(t.pendingArrays, x, v)
<1>3. /\ \A y \in DOMAIN pc1 : pc1[y] = cells[y]
      /\ \A y \in DOMAIN pa1 : pa1[y] = arrays[y]
      /\ DOMAIN qc = DOMAIN t.pendingCells \cup {x}
      /\ DOMAIN qa = DOMAIN t.pendingArrays \cup {x}
  <2>1. \A y \in DOMAIN t.priorCells : t.priorCells[y] = cells[y]
    BY DEF PriorsHold
  <2>2. \A y \in DOMAIN t.priorArrays : t.priorArrays[y] = arrays[y]
    BY DEF PriorsHold
  <2>3. \A y \in DOMAIN pc1 : pc1[y] = cells[y]
    BY <1>1, <2>1
  <2>4. \A y \in DOMAIN pa1 : pa1[y] = arrays[y]
    BY <1>1, <2>2
  <2>5. DOMAIN qc = DOMAIN t.pendingCells \cup {x} /\ DOMAIN qa = DOMAIN t.pendingArrays \cup {x}
    BY <1>2
  <2> QED
    BY <2>3, <2>4, <2>5
<1>4. /\ BufferCell(t, x, cells[x], v) = [t EXCEPT !.priorCells = pc1, !.pendingCells = qc]
      /\ BufferVector(t, x, arrays[x], v) = [t EXCEPT !.priorArrays = pa1, !.pendingArrays = qa]
  BY DEF BufferCell, BufferVector
<1> HIDE DEF pc1, pa1, qc, qa
<1>5. /\ BufferCell(t, x, cells[x], v).priorCells = pc1
      /\ BufferCell(t, x, cells[x], v).pendingCells = qc
      /\ BufferCell(t, x, cells[x], v).priorArrays = t.priorArrays
      /\ BufferCell(t, x, cells[x], v).pendingArrays = t.pendingArrays
  BY <1>4 DEF Txns
<1>6. /\ BufferVector(t, x, arrays[x], v).priorArrays = pa1
      /\ BufferVector(t, x, arrays[x], v).pendingArrays = qa
      /\ BufferVector(t, x, arrays[x], v).priorCells = t.priorCells
      /\ BufferVector(t, x, arrays[x], v).pendingCells = t.pendingCells
  BY <1>4 DEF Txns
<1>7. PriorsHold(BufferCell(t, x, cells[x], v)) /\ PriorsHold(BufferVector(t, x, arrays[x], v))
  BY <1>3, <1>5, <1>6 DEF PriorsHold
<1>8. /\ PendingKeys(BufferCell(t, x, cells[x], v)) = PendingKeys(t) \cup {x}
      /\ PendingKeys(BufferVector(t, x, arrays[x], v)) = PendingKeys(t) \cup {x}
  BY <1>3, <1>5, <1>6 DEF PendingKeys
<1> QED
  BY <1>7, <1>8

(* Priors of a parent that takes over those of its child. *)
LEMMA PriorsMerged ==
  ASSUME NEW o, NEW k, PriorsHold(o), PriorsHold(k)
  PROVE  /\ PriorsHold(MergeInto(o, k))
         /\ PendingKeys(MergeInto(o, k)) = PendingKeys(o) \cup PendingKeys(k)
<1>1. ASSUME NEW f, NEW g, NEW heap, \A y \in DOMAIN f : f[y] = heap[y],
             \A y \in DOMAIN g : g[y] = heap[y]
      PROVE  \A y \in DOMAIN TryEmplace(f, g) : TryEmplace(f, g)[y] = heap[y]
  BY <1>1 DEF TryEmplace, Override
<1>2. \A f, g : DOMAIN Override(f, g) = DOMAIN f \cup DOMAIN g
  BY DEF Override
<1>3. /\ MergeInto(o, k).priorCells = TryEmplace(o.priorCells, k.priorCells)
      /\ MergeInto(o, k).priorArrays = TryEmplace(o.priorArrays, k.priorArrays)
      /\ MergeInto(o, k).pendingCells = Override(o.pendingCells, k.pendingCells)
      /\ MergeInto(o, k).pendingArrays = Override(o.pendingArrays, k.pendingArrays)
  BY DEF MergeInto
<1>4. /\ \A y \in DOMAIN TryEmplace(o.priorCells, k.priorCells) :
           TryEmplace(o.priorCells, k.priorCells)[y] = cells[y]
      /\ \A y \in DOMAIN TryEmplace(o.priorArrays, k.priorArrays) :
           TryEmplace(o.priorArrays, k.priorArrays)[y] = arrays[y]
  BY <1>1 DEF PriorsHold
<1>5. PriorsHold(MergeInto(o, k))
  BY <1>3, <1>4 DEF PriorsHold
<1>6. PendingKeys(MergeInto(o, k)) = PendingKeys(o) \cup PendingKeys(k)
  <2>1. /\ DOMAIN MergeInto(o, k).pendingCells = DOMAIN o.pendingCells \cup DOMAIN k.pendingCells
        /\ DOMAIN MergeInto(o, k).pendingArrays = DOMAIN o.pendingArrays \cup DOMAIN k.pendingArrays
    BY <1>2, <1>3
  <2> QED
    BY <2>1 DEF PendingKeys
<1> QED
  BY <1>5, <1>6

WritesOf(c) == WritesHold(txns[c], pc[c], request[c], cur[c], ownedMutexes[c])

(* The priors are judged against the heap alone. *)
LEMMA SameHeap ==
  ASSUME cells' = cells, arrays' = arrays
  PROVE  /\ \A t : PriorsHold(t)' <=> PriorsHold(t)
         /\ \A ts : StackHolds(ts)' <=> StackHolds(ts)
  BY DEF PriorsHold, StackHolds

(* Steps that neither write nor take up a transaction. *)
LEMMA QuietWrites ==
  ASSUME TxnInv, WriteInv, NEW c \in Contexts, txns'[c] = txns[c], UNCHANGED heapVars,
         pc'[c] \notin Writing, pc'[c] \in Locking => request'[c] # {}
  PROVE  HeapOf(c) /\ WritesOf(c)'
<1>1. cells' = cells /\ arrays' = arrays /\ program' = program
  BY DEF heapVars
<1>2. StackHolds(txns[c])
  BY DEF WriteInv, WritesHold
<1>3. StackHolds(txns[c])'
  BY <1>1, <1>2 DEF StackHolds, PriorsHold
<1> QED
  BY <1>1, <1>3 DEF HeapOf, WritesOf, WritesHold, Writing

(* The steps of BeginTransaction up to its end. *)
LEMMA LockingWrites ==
  ASSUME TxnInv, WriteInv, NEW c \in Contexts,
         \/ \E ms \in (SUBSET Mutexes) \ {{}} : BeginTransaction(c, ms)
         \/ LockReadOwner(c) \/ LockWouldDeadlock(c) \/ LockTry(c) \/ LockRecheck(c)
         \/ GiveUp(c)
  PROVE  HeapOf(c) /\ WritesOf(c)'
<1>0. /\ DOMAIN txns = Contexts /\ DOMAIN pc = Contexts /\ DOMAIN request = Contexts
      /\ pc[c] \in Locking => request[c] # {}
  BY DEF TxnInv, ContextTypes, WriteInv, WritesHold
<1>1. txns' = txns /\ UNCHANGED heapVars
  BY DEF BeginTransaction, LockReadOwner, LockWouldDeadlock, LockTry, LockRecheck, GiveUp
<1>2. pc'[c] \notin Writing /\ (pc'[c] \in Locking => request'[c] # {})
  <2>1. ASSUME NEW ms \in (SUBSET Mutexes) \ {{}}, BeginTransaction(c, ms)
        PROVE  pc'[c] \in Locking /\ request'[c] # {}
    BY <1>0, <2>1 DEF BeginTransaction, Goto, Locking
  <2>2. CASE LockReadOwner(c) \/ LockWouldDeadlock(c) \/ LockRecheck(c)
    <3>1. pc[c] \in Locking /\ pc'[c] \in Locking /\ request' = request
      BY <1>0, <2>2 DEF LockReadOwner, LockWouldDeadlock, LockRecheck, Goto, localVars, Locking
    <3> QED
      BY <1>0, <3>1 DEF Locking, Writing
  <2>3. CASE LockTry(c)
    <3>1. pc[c] \in Locking /\ pc'[c] \in Locking /\ request' = request
      BY <1>0, <2>3 DEF LockTry, Goto, Locking
    <3> QED
      BY <1>0, <3>1 DEF Locking, Writing
  <2>4. CASE GiveUp(c)
    <3>1. /\ pc[c] \in Locking /\ request' = request
          /\ pc'[c] = pc[c] \/ pc'[c] = "unwind"
      BY <1>0, <2>4 DEF GiveUp, Goto, Locking
    <3> QED
      BY <1>0, <3>1 DEF Locking, Writing
  <2>5. \A l \in Locking : l \notin Writing
    BY DEF Locking, Writing
  <2> QED
    BY <2>1, <2>2, <2>3, <2>4, <2>5
<1> QED
  BY <1>0, <1>1, <1>2, QuietWrites

(* Return, an error and the end of an unwinding. *)
LEMMA LeavingWrites ==
  ASSUME TxnInv, WriteInv, NEW c \in Contexts,
         \/ \E depth, ends : Return(c, depth, ends)
         \/ Fail(c) \/ Unwound(c)
  PROVE  HeapOf(c) /\ WritesOf(c)'
<1>0. DOMAIN pc = Contexts
  BY DEF TxnInv, ContextTypes
<1>1. txns' = txns /\ UNCHANGED heapVars
  BY DEF Return, Fail, Unwound
<1>2. pc'[c] \in {"run", "unwind", "done"}
  BY <1>0 DEF Return, Fail, Unwound, Goto
<1>3. pc'[c] \notin Writing /\ pc'[c] \notin Locking
  BY <1>2 DEF Writing, Locking
<1> QED
  BY <1>1, <1>3, QuietWrites

(* A new stack for a running program, which has locked what it buffers. *)
LEMMA StackWrites ==
  ASSUME TxnInv, NEW c \in Contexts, UNCHANGED heapVars,
         pc'[c] = "run", StackHolds(txns'[c])
  PROVE  HeapOf(c) /\ WritesOf(c)'
<1>1. cells' = cells /\ arrays' = arrays /\ program' = program
  BY DEF heapVars
<1>2. StackHolds(txns[c])'
  BY <1>1 DEF StackHolds, PriorsHold
<1> QED
  BY <1>1, <1>2 DEF HeapOf, WritesOf, WritesHold, Locking

(* BeginTransaction ends with empty buffers. *)
LEMMA BegunWrites ==
  ASSUME TxnInv, WriteInv, NEW c \in Contexts, Begun(c)
  PROVE  HeapOf(c) /\ WritesOf(c)'
<1> DEFINE t == [NoTxn EXCEPT !.mutexIds = request[c], !.acquiredMutexIds = acquired[c]]
<1>1. /\ txns'[c] = Append(txns[c], t) /\ pc'[c] = "run" /\ UNCHANGED heapVars
      /\ txns[c] \in Seq(Txns(program)) /\ StackHolds(txns[c])
  BY OfContext DEF Begun, Goto, TxnInv, ContextTypes, WriteInv, WritesHold
<1>2. /\ t.priorCells = NoMap /\ t.pendingCells = NoMap
      /\ t.priorArrays = NoMap /\ t.pendingArrays = NoMap
  BY DEF NoTxn
<1>3. t \in Txns(program)
  <2>1. NoMap \in Maps(program.cells, Values) /\ NoMap \in Maps(program.arrays, Seq(Values))
    BY MapEmpty
  <2> QED
    BY <2>1, OfContext DEF NoTxn, Txns
<1> HIDE DEF t
<1>4. PendingKeys(t) = {} /\ PriorsHold(t)
  BY <1>2, MapEmpty DEF PendingKeys, PriorsHold
<1>5. StackHolds(Append(txns[c], t))
  BY <1>1, <1>3, <1>4, HoldsPush DEF Covered
<1> QED
  BY <1>1, <1>5, StackWrites

(* A buffered write: the context has locked the location. *)
LEMMA BufferWrites ==
  ASSUME TxnInv, WriteInv, NEW c \in Contexts, pc[c] = "run", txns[c] # <<>>,
         NEW x, Guards(c, x), NEW t \in Txns(program), PriorsHold(t),
         PendingKeys(t) = PendingKeys(Top(txns[c])) \cup {x},
         t.mutexIds = Top(txns[c]).mutexIds,
         txns' = [txns EXCEPT ![c] = SetTop(txns[c], t)],
         UNCHANGED <<heapVars, pc>>
  PROVE  HeapOf(c) /\ WritesOf(c)'
<1> DEFINE ts == txns[c]
<1>1. /\ ts \in Seq(Txns(program)) /\ StackHolds(ts) /\ txns'[c] = SetTop(ts, t)
      /\ pc'[c] = "run" /\ UNCHANGED heapVars
  BY OfContext DEF TxnInv, ContextTypes, WriteInv, WritesHold
<1>2. SetTop(ts, t) = Append(Pop(ts), t)
  BY <1>1, ReplaceTop
<1>3. GuardOf[x] \in Named(ts)
  BY DEF Guards, HeldMutexIds, Named
<1> HIDE DEF ts
<1>4. /\ StackHolds(Pop(ts)) /\ Covered(PendingKeys(Top(ts)), Named(ts))
      /\ Named(ts) = Named(Pop(ts)) \cup Top(ts).mutexIds
      /\ Pop(ts) \in Seq(Txns(program))
  BY <1>1, HoldsPop, NamedPop, PopFacts DEF ts
<1>5. Covered(PendingKeys(t), Named(Pop(ts)) \cup t.mutexIds)
  BY <1>3, <1>4 DEF Covered, ts
<1>6. StackHolds(Append(Pop(ts), t))
  BY <1>4, <1>5, HoldsPush
<1> QED
  BY <1>1, <1>2, <1>6, StackWrites

(* SetGlobal, SetInstanceField and the array writes. *)
LEMMA SetWrites ==
  ASSUME TxnInv, WriteInv, NEW c \in Contexts,
         \/ \E x \in program.cells, v \in Values : SetCell(c, x, v)
         \/ \E a \in program.arrays, to \in Seq(Values) : WritesArray(c, a) /\ BufferArray(c, a, to)
  PROVE  HeapOf(c) /\ WritesOf(c)'
<1>1. ASSUME NEW x \in program.cells, NEW v \in Values, SetCell(c, x, v)
      PROVE  HeapOf(c) /\ WritesOf(c)'
  <2> DEFINE o == Top(txns[c])
             t == BufferCell(o, x, cells[x], v)
  <2>1. /\ pc[c] = "run" /\ txns[c] # <<>> /\ Guards(c, x)
        /\ UNCHANGED <<heapVars, pc>>
        /\ txns' = [txns EXCEPT ![c] = SetTop(txns[c], t)]
    BY <1>1 DEF SetCell
  <2>2. o \in Txns(program) /\ Restorable(o) /\ PriorsHold(o)
    <3>1. StackHolds(txns[c]) /\ txns[c] \in Seq(Txns(program))
      BY OfContext DEF WriteInv, WritesHold
    <3> QED
      BY <2>1, <3>1, OfContext, PopFacts, PopRestorable, HoldsPop
  <2>3. cells[x] \in Values
    BY DEF TxnInv, HeapTypes
  <2> HIDE DEF o
  <2>4. t \in Txns(program) /\ t.mutexIds = o.mutexIds
    BY <2>2, <2>3, BufferedCell
  <2>5. PriorsHold(t) /\ PendingKeys(t) = PendingKeys(o) \cup {x}
    BY <2>2, PriorsBuffered
  <2> HIDE DEF t
  <2> QED
    BY <2>1, <2>4, <2>5, BufferWrites DEF o
<1>2. ASSUME NEW a \in program.arrays, NEW to \in Seq(Values),
             WritesArray(c, a), BufferArray(c, a, to)
      PROVE  HeapOf(c) /\ WritesOf(c)'
  <2> DEFINE o == Top(txns[c])
             t == BufferVector(o, a, arrays[a], to)
  <2>1. /\ pc[c] = "run" /\ txns[c] # <<>> /\ Guards(c, a)
        /\ UNCHANGED <<heapVars, pc>>
        /\ txns' = [txns EXCEPT ![c] = SetTop(txns[c], t)]
    BY <1>2 DEF WritesArray, BufferArray
  <2>2. o \in Txns(program) /\ Restorable(o) /\ PriorsHold(o)
    <3>1. StackHolds(txns[c]) /\ txns[c] \in Seq(Txns(program))
      BY OfContext DEF WriteInv, WritesHold
    <3> QED
      BY <2>1, <3>1, OfContext, PopFacts, PopRestorable, HoldsPop
  <2>3. arrays[a] \in Seq(Values)
    BY DEF TxnInv, HeapTypes
  <2> HIDE DEF o
  <2>4. t \in Txns(program) /\ t.mutexIds = o.mutexIds
    BY <2>2, <2>3, BufferedArray
  <2>5. PriorsHold(t) /\ PendingKeys(t) = PendingKeys(o) \cup {a}
    BY <2>2, PriorsBuffered
  <2> HIDE DEF t
  <2> QED
    BY <2>1, <2>4, <2>5, BufferWrites DEF o
<1> QED
  BY <1>1, <1>2

(* What an array write leaves in the buffer. *)
LEMMA ArrayWriteIs ==
  ASSUME TxnInv, NEW c \in Contexts, NEW a \in program.arrays,
         \/ \E i, v : v \in Values /\ SetArrayElement(c, a, i, v)
         \/ \E v \in Values : PushArrayElement(c, a, v)
         \/ PopArrayElement(c, a)
  PROVE  \E to \in Seq(Values) :
           /\ WritesArray(c, a) /\ BufferArray(c, a, to)
           /\ to \in Abs!ArrayUpdates(PendingArray(c, a))
<1> DEFINE q == PendingArray(c, a)
<1>1. WritesArray(c, a)
  BY DEF SetArrayElement, PushArrayElement, PopArrayElement
<1>2. q \in Seq(Values)
  BY <1>1, PendingArrayType DEF WritesArray
<1>3. ASSUME NEW i, NEW v \in Values, SetArrayElement(c, a, i, v)
      PROVE  \E to \in Seq(Values) : BufferArray(c, a, to) /\ to \in Abs!ArrayUpdates(q)
  <2>1. i \in 1 .. Len(q) /\ BufferArray(c, a, [q EXCEPT ![i] = v])
    BY <1>3 DEF SetArrayElement
  <2> HIDE DEF q
  <2>2. [q EXCEPT ![i] = v] \in Seq(Values)
    BY <1>2, <2>1, ExceptSeq
  <2>3. [q EXCEPT ![i] = v] \in Abs!ArrayUpdates(q)
    BY <2>1 DEF Abs!ArrayUpdates
  <2> QED
    BY <2>1, <2>2, <2>3
<1>4. ASSUME NEW v \in Values, PushArrayElement(c, a, v)
      PROVE  \E to \in Seq(Values) : BufferArray(c, a, to) /\ to \in Abs!ArrayUpdates(q)
  <2>1. Len(q) < MaxLen /\ BufferArray(c, a, Append(q, v))
    BY <1>4 DEF PushArrayElement
  <2> HIDE DEF q
  <2>2. Append(q, v) \in Seq(Values)
    BY <1>2, AppendProperties
  <2>3. Append(q, v) \in Abs!ArrayUpdates(q)
    BY <2>1 DEF Abs!ArrayUpdates
  <2> QED
    BY <2>1, <2>2, <2>3
<1>5. ASSUME PopArrayElement(c, a)
      PROVE  \E to \in Seq(Values) : BufferArray(c, a, to) /\ to \in Abs!ArrayUpdates(q)
  <2>1. q # <<>> /\ BufferArray(c, a, Pop(q))
    BY <1>5 DEF PopArrayElement
  <2> HIDE DEF q
  <2>2. Pop(q) \in Seq(Values)
    BY <1>2, <2>1, PopFacts
  <2>3. Pop(q) = Abs!Pop(q)
    BY DEF Pop, Abs!Pop
  <2>4. Pop(q) \in Abs!ArrayUpdates(q)
    BY <2>1, <2>3 DEF Abs!ArrayUpdates
  <2> QED
    BY <2>1, <2>2, <2>4
<1> QED
  BY <1>1, <1>3, <1>4, <1>5

(* The stack after a nested commit. *)
LEMMA MergedStack ==
  ASSUME TxnInv, NEW c \in Contexts, EndNested(c)
  PROVE  LET ts == txns[c]
             t == MergeInto(Top(Pop(ts)), Top(ts))
         IN  /\ ts \in Seq(Txns(program)) /\ ts # <<>>
             /\ Pop(ts) \in Seq(Txns(program)) /\ Pop(ts) # <<>>
             /\ Pop(Pop(ts)) \in Seq(Txns(program))
             /\ Top(ts) \in Txns(program) /\ Top(Pop(ts)) \in Txns(program)
             /\ t \in Txns(program)
             /\ t.mutexIds = Top(Pop(ts)).mutexIds \cup Top(ts).mutexIds
             /\ txns' = [txns EXCEPT ![c] = Append(Pop(Pop(ts)), t)]
<1> DEFINE ts == txns[c]
           t == MergeInto(Top(Pop(ts)), Top(ts))
<1>1. Len(ts) > 1 /\ txns' = [txns EXCEPT ![c] = SetTop(Pop(ts), t)]
  BY DEF EndNested
<1>2. ts \in Seq(Txns(program)) /\ \A i \in 1 .. Len(ts) : Restorable(ts[i])
  BY OfContext
<1>3. ts # <<>>
  BY <1>1
<1> HIDE DEF ts
<1>4. /\ Len(ts) \in Nat /\ Top(ts) \in Txns(program) /\ Pop(ts) \in Seq(Txns(program))
      /\ Len(Pop(ts)) = Len(ts) - 1
      /\ Restorable(Top(ts)) /\ \A i \in 1 .. Len(Pop(ts)) : Restorable(Pop(ts)[i])
  BY <1>2, <1>3, PopFacts, PopRestorable
<1>5. Pop(ts) # <<>>
  BY <1>1, <1>4
<1>6. /\ Top(Pop(ts)) \in Txns(program) /\ Pop(Pop(ts)) \in Seq(Txns(program))
      /\ Restorable(Top(Pop(ts)))
  BY <1>4, <1>5, PopFacts, PopRestorable
<1>7. t \in Txns(program)
  BY <1>4, <1>6, MergedTxn
<1>8. t.mutexIds = Top(Pop(ts)).mutexIds \cup Top(ts).mutexIds
  BY DEF MergeInto
<1> HIDE DEF t
<1>9. SetTop(Pop(ts), t) = Append(Pop(Pop(ts)), t)
  BY <1>4, <1>5, <1>7, ReplaceTop
<1> QED
  BY <1>1, <1>2, <1>3, <1>4, <1>5, <1>6, <1>7, <1>8, <1>9 DEF ts, t

(* A nested commit: the parent takes over locks together with writes. *)
LEMMA NestedWrites ==
  ASSUME TxnInv, WriteInv, NEW c \in Contexts, EndNested(c)
  PROVE  HeapOf(c) /\ WritesOf(c)'
<1> DEFINE ts == txns[c]
           low == Pop(Pop(ts))
           o == Top(Pop(ts))
           k == Top(ts)
           t == MergeInto(o, k)
<1>1. /\ ts \in Seq(Txns(program)) /\ ts # <<>> /\ t \in Txns(program)
      /\ Pop(ts) \in Seq(Txns(program)) /\ Pop(ts) # <<>> /\ low \in Seq(Txns(program))
      /\ t.mutexIds = o.mutexIds \cup k.mutexIds
      /\ txns' = [txns EXCEPT ![c] = Append(low, t)]
  BY MergedStack
<1>2. txns'[c] = Append(low, t) /\ pc'[c] = "run" /\ UNCHANGED heapVars /\ StackHolds(ts)
  BY <1>1 DEF EndNested, TxnInv, ContextTypes, WriteInv, WritesHold
<1> HIDE DEF ts
<1>3. /\ StackHolds(Pop(ts)) /\ Covered(PendingKeys(k), Named(ts)) /\ PriorsHold(k)
      /\ Named(ts) = Named(Pop(ts)) \cup k.mutexIds
  BY <1>1, <1>2, HoldsPop, NamedPop
<1>4. /\ StackHolds(low) /\ Covered(PendingKeys(o), Named(Pop(ts))) /\ PriorsHold(o)
      /\ Named(Pop(ts)) = Named(low) \cup o.mutexIds
  BY <1>1, <1>3, HoldsPop, NamedPop
<1> HIDE DEF low, o, k
<1>5. PriorsHold(t) /\ PendingKeys(t) = PendingKeys(o) \cup PendingKeys(k)
  BY <1>3, <1>4, PriorsMerged
<1> HIDE DEF t
<1>6. Covered(PendingKeys(t), Named(low) \cup t.mutexIds)
  BY <1>1, <1>3, <1>4, <1>5 DEF Covered
<1>7. StackHolds(Append(low, t))
  BY <1>1, <1>4, <1>5, <1>6, HoldsPush
<1> QED
  BY <1>2, <1>7, StackWrites

(* EndOutermost and UnwindPop: what was locked by the stack is still owned *)
(* while the popped transaction is written.                                *)
LEMMA PopWrites ==
  ASSUME TxnInv, WriteInv, NEW c \in Contexts, EndOutermost(c) \/ UnwindPop(c)
  PROVE  HeapOf(c) /\ WritesOf(c)'
<1> DEFINE ts == txns[c]
           t == Top(ts)
<1>1. base[c] \in Nat /\ ts \in Seq(Txns(program)) /\ StackHolds(ts)
      /\ \A i \in 1 .. Len(ts) : Restorable(ts[i])
  BY OfContext DEF WriteInv, WritesHold
<1>2. UNCHANGED <<syncVars, heapVars>> /\ cur'[c] = t
  <2>1. DOMAIN cur = Contexts
    BY DEF TxnInv, ContextTypes
  <2>2. UNCHANGED <<syncVars, heapVars>> /\ cur' = [cur EXCEPT ![c] = t]
    BY DEF EndOutermost, UnwindPop
  <2> QED
    BY <2>1, <2>2
<1>3. /\ EndOutermost(c) => pc'[c] = "apply" /\ txns'[c] = <<>>
      /\ UnwindPop(c) => pc'[c] = "restore" /\ txns'[c] = Pop(ts)
  BY DEF EndOutermost, UnwindPop, Goto, TxnInv, ContextTypes
<1>4. ts # <<>>
  <2>1. Len(ts) = 1 \/ Len(ts) > base[c]
    BY DEF EndOutermost, UnwindPop
  <2> QED
    BY <1>1, <2>1
<1>5. /\ StackHolds(Pop(ts)) /\ Covered(PendingKeys(t), Named(ts)) /\ PriorsHold(t)
      /\ PendingKeys(t) = PriorKeys(t)
  <2>1. Restorable(t)
    BY <1>1, <1>4, PopRestorable
  <2>2. PendingKeys(t) = PriorKeys(t)
    BY <2>1 DEF Restorable, PendingKeys, PriorKeys
  <2> HIDE DEF ts
  <2> QED
    BY <1>1, <1>4, <2>2, HoldsPop
<1>6. Named(ts) \subseteq ownedMutexes[c]
  BY OwnsNamed
<1>7. ownedMutexes' = ownedMutexes /\ cells' = cells /\ arrays' = arrays /\ program' = program
  BY <1>2 DEF syncVars, heapVars
<1> HIDE DEF ts, t
<1>8. Covered(PendingKeys(t), ownedMutexes'[c]) /\ Covered(PriorKeys(t), ownedMutexes'[c])
  BY <1>5, <1>6, <1>7 DEF Covered
<1>9. StackHolds(<<>>) /\ StackHolds(txns'[c])
  BY <1>3, <1>5 DEF StackHolds
<1>10. StackHolds(txns[c])' /\ PriorsHold(cur[c])'
  BY <1>2, <1>5, <1>7, <1>9 DEF StackHolds, PriorsHold
<1>11. Covered(PendingKeys(cur[c]), ownedMutexes[c])' /\ Covered(PriorKeys(cur[c]), ownedMutexes[c])'
  BY <1>2, <1>8 DEF Covered, PendingKeys, PriorKeys
<1>12. WritesOf(c)'
  BY <1>3, <1>10, <1>11 DEF WritesOf, WritesHold, Locking
<1> QED
  BY <1>7, <1>12 DEF HeapOf

(* A commit writes only what its context has locked. *)
LEMMA ApplyWrites ==
  ASSUME TxnInv, WriteInv, NEW c \in Contexts,
         \/ \E x \in program.cells : ApplyCell(c, x)
         \/ \E a \in program.arrays : ApplyArray(c, a)
  PROVE  HeapOf(c) /\ WritesOf(c)'
<1>0. /\ cur[c] \in Txns(program) /\ cur \in [Contexts -> Txns(program)]
      /\ DOMAIN cells = program.cells /\ DOMAIN arrays = program.arrays
  BY OfContext DEF TxnInv, ContextTypes, HeapTypes
<1>1. /\ pc[c] = "apply" /\ pc' = pc /\ txns' = txns /\ ownedMutexes' = ownedMutexes
      /\ program' = program
  BY DEF ApplyCell, ApplyArray, syncVars
<1>2. txns[c] = <<>> /\ Covered(PendingKeys(cur[c]), ownedMutexes[c])
  BY <1>1 DEF WriteInv, WritesHold
<1>3. ASSUME PendingKeys(cur'[c]) \subseteq PendingKeys(cur[c]) PROVE WritesOf(c)'
  <2>1. StackHolds(<<>>)'
    BY DEF StackHolds
  <2>2. Covered(PendingKeys(cur[c]), ownedMutexes[c])'
    BY <1>1, <1>2, <1>3 DEF Covered, PendingKeys
  <2> QED
    BY <1>1, <1>2, <2>1, <2>2 DEF WritesOf, WritesHold, Locking
<1>4. ASSUME NEW x \in program.cells, ApplyCell(c, x) PROVE HeapOf(c) /\ WritesOf(c)'
  <2> DEFINE f == Without(cur[c].pendingCells, x)
  <2>1. DOMAIN f \subseteq DOMAIN cur[c].pendingCells
    BY DEF Without
  <2>2. cur' = [cur EXCEPT ![c] = [cur[c] EXCEPT !.pendingCells = f]]
    BY <1>4 DEF ApplyCell
  <2> HIDE DEF f
  <2>3. cur'[c].pendingCells = f /\ cur'[c].pendingArrays = cur[c].pendingArrays
    BY <1>0, <2>2 DEF Txns
  <2>4. PendingKeys(cur'[c]) \subseteq PendingKeys(cur[c])
    BY <2>1, <2>3 DEF PendingKeys
  <2>5. GuardOf[x] \in ownedMutexes[c]
    BY <1>2, <1>4 DEF ApplyCell, PendingKeys, Covered
  <2>6. arrays' = arrays /\ \A y \in program.cells : y # x => cells'[y] = cells[y]
    BY <1>0, <1>4 DEF ApplyCell
  <2> QED
    BY <1>1, <1>3, <2>4, <2>5, <2>6 DEF HeapOf
<1>5. ASSUME NEW a \in program.arrays, ApplyArray(c, a) PROVE HeapOf(c) /\ WritesOf(c)'
  <2> DEFINE f == Without(cur[c].pendingArrays, a)
  <2>1. DOMAIN f \subseteq DOMAIN cur[c].pendingArrays
    BY DEF Without
  <2>2. cur' = [cur EXCEPT ![c] = [cur[c] EXCEPT !.pendingArrays = f]]
    BY <1>5 DEF ApplyArray
  <2> HIDE DEF f
  <2>3. cur'[c].pendingArrays = f /\ cur'[c].pendingCells = cur[c].pendingCells
    BY <1>0, <2>2 DEF Txns
  <2>4. PendingKeys(cur'[c]) \subseteq PendingKeys(cur[c])
    BY <2>1, <2>3 DEF PendingKeys
  <2>5. GuardOf[a] \in ownedMutexes[c]
    BY <1>2, <1>5 DEF ApplyArray, PendingKeys, Covered
  <2>6. cells' = cells /\ \A y \in program.arrays : y # a => arrays'[y] = arrays[y]
    BY <1>0, <1>5 DEF ApplyArray
  <2> QED
    BY <1>1, <1>3, <2>4, <2>5, <2>6 DEF HeapOf
<1> QED
  BY <1>4, <1>5

(* UnwindTransactions writes back the values that are there. *)
LEMMA RestoreWrites ==
  ASSUME TxnInv, WriteInv, NEW c \in Contexts,
         \/ \E x \in program.cells : RestoreCell(c, x)
         \/ \E a \in program.arrays : RestoreArray(c, a)
  PROVE  /\ UNCHANGED heapVars
         /\ HeapOf(c) /\ WritesOf(c)'
<1>0. /\ cur[c] \in Txns(program) /\ cur \in [Contexts -> Txns(program)]
      /\ cells \in [program.cells -> Values] /\ arrays \in [program.arrays -> Seq(Values)]
  BY OfContext DEF TxnInv, ContextTypes, HeapTypes
<1>1. /\ pc[c] = "restore" /\ pc' = pc /\ txns' = txns /\ ownedMutexes' = ownedMutexes
      /\ program' = program
  BY DEF RestoreCell, RestoreArray, syncVars
<1>2. /\ StackHolds(txns[c]) /\ PriorsHold(cur[c])
      /\ Covered(PriorKeys(cur[c]), ownedMutexes[c])
  BY <1>1 DEF WriteInv, WritesHold
<1>3. ASSUME cells' = cells, arrays' = arrays, PriorsHold(cur'[c]),
             PriorKeys(cur'[c]) \subseteq PriorKeys(cur[c])
      PROVE  UNCHANGED heapVars /\ HeapOf(c) /\ WritesOf(c)'
  <2>1. StackHolds(txns[c])'
    BY <1>1, <1>2, <1>3 DEF StackHolds, PriorsHold
  <2>2. PriorsHold(cur[c])'
    BY <1>3 DEF PriorsHold
  <2>3. Covered(PriorKeys(cur[c]), ownedMutexes[c])'
    BY <1>1, <1>2, <1>3 DEF Covered, PriorKeys
  <2>4. WritesOf(c)'
    BY <1>1, <2>1, <2>2, <2>3 DEF WritesOf, WritesHold, Locking
  <2> QED
    BY <1>1, <1>3, <2>4 DEF HeapOf, heapVars
<1>4. ASSUME NEW x \in program.cells, RestoreCell(c, x)
      PROVE  UNCHANGED heapVars /\ HeapOf(c) /\ WritesOf(c)'
  <2> DEFINE f == Without(cur[c].priorCells, x)
  <2>1. DOMAIN f \subseteq DOMAIN cur[c].priorCells
        /\ \A y \in DOMAIN f : f[y] = cur[c].priorCells[y]
    BY DEF Without
  <2>2. cur' = [cur EXCEPT ![c] = [cur[c] EXCEPT !.priorCells = f]]
    BY <1>4 DEF RestoreCell
  <2> HIDE DEF f
  <2>3. cur'[c].priorCells = f /\ cur'[c].priorArrays = cur[c].priorArrays
    BY <1>0, <2>2 DEF Txns
  <2>4. PriorKeys(cur'[c]) \subseteq PriorKeys(cur[c]) /\ PriorsHold(cur'[c])
    BY <1>2, <2>1, <2>3 DEF PriorKeys, PriorsHold
  <2>5. cur[c].priorCells[x] = cells[x]
    BY <1>2, <1>4 DEF RestoreCell, PriorsHold
  <2>6. cells' = cells /\ arrays' = arrays
    BY <1>0, <1>4, <2>5 DEF RestoreCell
  <2> QED
    BY <1>3, <2>4, <2>6
<1>5. ASSUME NEW a \in program.arrays, RestoreArray(c, a)
      PROVE  UNCHANGED heapVars /\ HeapOf(c) /\ WritesOf(c)'
  <2> DEFINE f == Without(cur[c].priorArrays, a)
  <2>1. DOMAIN f \subseteq DOMAIN cur[c].priorArrays
        /\ \A y \in DOMAIN f : f[y] = cur[c].priorArrays[y]
    BY DEF Without
  <2>2. cur' = [cur EXCEPT ![c] = [cur[c] EXCEPT !.priorArrays = f]]
    BY <1>5 DEF RestoreArray
  <2> HIDE DEF f
  <2>3. cur'[c].priorArrays = f /\ cur'[c].priorCells = cur[c].priorCells
    BY <1>0, <2>2 DEF Txns
  <2>4. PriorKeys(cur'[c]) \subseteq PriorKeys(cur[c]) /\ PriorsHold(cur'[c])
    BY <1>2, <2>1, <2>3 DEF PriorKeys, PriorsHold
  <2>5. cur[c].priorArrays[a] = arrays[a]
    BY <1>2, <1>5 DEF RestoreArray, PriorsHold
  <2>6. cells' = cells /\ arrays' = arrays
    BY <1>0, <1>5, <2>5 DEF RestoreArray
  <2> QED
    BY <1>3, <2>4, <2>6
<1> QED
  BY <1>4, <1>5

(* The mutexes are released when everything is written. *)
LEMMA ReleaseWrites ==
  ASSUME TxnInv, WriteInv, NEW c \in Contexts, ReleaseCommitted(c) \/ ReleaseUnwound(c)
  PROVE  HeapOf(c) /\ WritesOf(c)'
<1>0. /\ cur[c] \in Txns(program) /\ cur \in [Contexts -> Txns(program)] /\ DOMAIN pc = Contexts
      /\ StackHolds(txns[c])
      /\ pc[c] = "apply" => txns[c] = <<>>
  BY OfContext DEF TxnInv, ContextTypes, WriteInv, WritesHold
<1>1. txns' = txns /\ cells' = cells /\ arrays' = arrays /\ program' = program
  BY DEF ReleaseCommitted, ReleaseUnwound, heapVars
<1>2. StackHolds(txns[c])'
  BY <1>0, <1>1 DEF StackHolds, PriorsHold
<1>3. DOMAIN NoMap = {}
  BY MapEmpty
<1>4. CASE pc'[c] = "run" \/ pc'[c] = "unwind"
  BY <1>1, <1>2, <1>4 DEF HeapOf, WritesOf, WritesHold, Locking
<1>5. CASE UNCHANGED pc /\ cur' = [cur EXCEPT ![c].acquiredMutexIds = Pop(@)]
  <2>1. /\ cur'[c].pendingCells = cur[c].pendingCells /\ cur'[c].priorCells = cur[c].priorCells
        /\ cur'[c].pendingArrays = cur[c].pendingArrays /\ cur'[c].priorArrays = cur[c].priorArrays
    BY <1>0, <1>5 DEF Txns
  <2>2. CASE ReleaseCommitted(c)
    <3>1. PendingKeys(cur[c])' = {} /\ pc[c] = "apply"
      BY <1>3, <2>1, <2>2 DEF ReleaseCommitted, PendingKeys
    <3>2. Covered(PendingKeys(cur[c]), ownedMutexes[c])' /\ pc'[c] = "apply" /\ txns'[c] = <<>>
      BY <1>0, <1>1, <1>5, <3>1 DEF Covered
    <3> QED
      BY <1>1, <1>2, <3>2 DEF HeapOf, WritesOf, WritesHold, Locking
  <2>3. CASE ReleaseUnwound(c)
    <3>1. /\ PriorKeys(cur[c])' = {} /\ pc[c] = "restore"
          /\ DOMAIN cur'[c].priorCells = {} /\ DOMAIN cur'[c].priorArrays = {}
      BY <1>3, <2>1, <2>3 DEF ReleaseUnwound, PriorKeys
    <3>2. /\ Covered(PriorKeys(cur[c]), ownedMutexes[c])' /\ pc'[c] = "restore"
          /\ PriorsHold(cur[c])'
      BY <1>5, <3>1 DEF Covered, PriorsHold
    <3> QED
      BY <1>1, <1>2, <3>2 DEF HeapOf, WritesOf, WritesHold, Locking
  <2> QED
    BY <2>2, <2>3
<1> QED
  BY <1>0, <1>4, <1>5 DEF ReleaseCommitted, ReleaseUnwound, Goto

(* Nothing is buffered in the beginning. *)
LEMMA InitEstablishesWrites == Init => WriteInv
<1>1. StackHolds(<<>>)
  BY DEF StackHolds
<1> QED
  BY <1>1 DEF Init, WriteInv, WritesHold, Locking

(* Every step of every context keeps it. *)
LEMMA NextKeepsWrites == TxnInv /\ TxnInv' /\ WriteInv /\ [Next]_vars => WriteInv'
<1> SUFFICES ASSUME TxnInv, TxnInv', WriteInv, [Next]_vars PROVE WriteInv'
  OBVIOUS
<1>1. ASSUME NEW c \in Contexts, Work(c) \/ Step(c), HeapOf(c), WritesOf(c)' PROVE WriteInv'
  BY <1>1, OthersStay, WritesOfOthers DEF WritesOf
<1>2. ASSUME NEW c \in Contexts, Work(c) PROVE HeapOf(c) /\ WritesOf(c)'
  <2>1. ASSUME NEW ms \in (SUBSET Mutexes) \ {{}}, BeginTransaction(c, ms)
        PROVE  HeapOf(c) /\ WritesOf(c)'
    BY <2>1, LockingWrites
  <2>2. ASSUME NEW x \in program.cells, NEW v \in Values, SetCell(c, x, v)
        PROVE  HeapOf(c) /\ WritesOf(c)'
    BY <2>2, SetWrites
  <2>3. ASSUME NEW a \in program.arrays,
               \/ \E i, v : v \in Values /\ SetArrayElement(c, a, i, v)
               \/ \E v \in Values : PushArrayElement(c, a, v)
               \/ PopArrayElement(c, a)
        PROVE  HeapOf(c) /\ WritesOf(c)'
    BY <2>3, ArrayWriteIs, SetWrites
  <2>4. CASE EndNested(c)
    BY <2>4, NestedWrites
  <2>5. CASE EndOutermost(c)
    BY <2>5, PopWrites
  <2>6. CASE Fail(c) \/ \E depth, ends : Return(c, depth, ends)
    BY <2>6, LeavingWrites
  <2> QED
    BY <1>2, <2>1, <2>2, <2>3, <2>4, <2>5, <2>6 DEF Work
<1>3. ASSUME NEW c \in Contexts, Step(c) PROVE HeapOf(c) /\ WritesOf(c)'
  <2>1. CASE \/ LockReadOwner(c) \/ LockWouldDeadlock(c) \/ LockTry(c) \/ LockRecheck(c)
             \/ GiveUp(c)
    BY <2>1, LockingWrites
  <2>2. CASE Begun(c)
    BY <2>2, BegunWrites
  <2>3. CASE \/ \E x \in program.cells : ApplyCell(c, x)
             \/ \E a \in program.arrays : ApplyArray(c, a)
    BY <2>3, ApplyWrites
  <2>4. CASE \/ \E x \in program.cells : RestoreCell(c, x)
             \/ \E a \in program.arrays : RestoreArray(c, a)
    BY <2>4, RestoreWrites
  <2>5. CASE ReleaseCommitted(c) \/ ReleaseUnwound(c)
    BY <2>5, ReleaseWrites
  <2>6. CASE UnwindPop(c)
    BY <2>6, PopWrites
  <2>7. CASE Unwound(c)
    BY <2>7, LeavingWrites
  <2> QED
    BY <1>3, <2>1, <2>2, <2>3, <2>4, <2>5, <2>6, <2>7 DEF Step
<1>4. CASE UNCHANGED vars
  <2>1. /\ cells' = cells /\ arrays' = arrays /\ txns' = txns /\ pc' = pc /\ request' = request
        /\ cur' = cur /\ ownedMutexes' = ownedMutexes
    BY <1>4 DEF vars, syncVars, heapVars, localVars
  <2> QED
    BY <2>1 DEF WriteInv, WritesHold, StackHolds, PriorsHold
<1> QED
  BY <1>1, <1>2, <1>3, <1>4 DEF Next

(* What is buffered is locked and what would be restored is there, in      *)
(* every reachable state.                                                  *)
THEOREM WriteInvariance == Spec => []WriteInv
<1>1. TxnInv /\ TxnInv' /\ WriteInv /\ [Next]_vars => WriteInv'
  BY NextKeepsWrites
<1> QED
  BY <1>1, InitEstablishesWrites, TxnInvariance, PTL DEF Spec

(* Rollbacks leave no trace: when UnwindTransactions writes prior values   *)
(* back, one by one and with other contexts running, the globals, fields   *)
(* and arrays already have these values.                                   *)
RollbackChangesNothing ==
  [][(\E c \in Contexts : pc[c] = "restore" /\ Step(c)) => UNCHANGED <<cells, arrays>>]_vars

(* UnwindTransactions leaves the shared data as they are. *)
THEOREM RollbackTheorem == Spec => RollbackChangesNothing
<1>1. ASSUME TxnInv, WriteInv, NEW c \in Contexts, pc[c] = "restore", Step(c)
      PROVE  UNCHANGED <<cells, arrays>>
  <2>1. CASE \/ \E x \in program.cells : RestoreCell(c, x)
             \/ \E a \in program.arrays : RestoreArray(c, a)
    BY <1>1, <2>1, RestoreWrites DEF heapVars
  <2>2. CASE ReleaseUnwound(c)
    BY <2>2 DEF ReleaseUnwound, heapVars
  <2> QED
    BY <1>1, <2>1, <2>2 DEF Step, LockReadOwner, LockWouldDeadlock, LockTry, LockRecheck,
       GiveUp, Begun, ApplyCell, ApplyArray, ReleaseCommitted, UnwindPop, Unwound
<1>2. TxnInv /\ WriteInv /\ [Next]_vars =>
        [(\E c \in Contexts : pc[c] = "restore" /\ Step(c)) => UNCHANGED <<cells, arrays>>]_vars
  BY <1>1
<1> QED
  BY <1>2, TxnInvariance, WriteInvariance, PTL DEF Spec, RollbackChangesNothing

-----------------------------------------------------------------------------
(* The committed data. *)

(* Only one context at a time has a location still to write. *)
LEMMA OneLate ==
  ASSUME TxnInv, WriteInv, NEW c \in Contexts, NEW d \in Contexts,
         NEW x \in LateKeys(c), x \in LateKeys(d)
  PROVE  c = d
<1>1. \A e \in Contexts : x \in LateKeys(e) => GuardOf[x] \in ownedMutexes[e]
  BY DEF LateKeys, WriteInv, WritesHold, Covered, PendingKeys
<1> QED
  BY <1>1, OneOwner

(* The committed value of a location that a commit has still to write. *)
LEMMA CommittedLate ==
  ASSUME TxnInv, WriteInv, NEW c \in Contexts, NEW x \in LateKeys(c)
  PROVE  Committed(x) = Pending(cur[c], x)[x]
<1>1. c \in Late(x)
  BY DEF Late
<1>2. OneOf(Late(x)) \in Late(x)
  BY <1>1 DEF OneOf
<1>3. OneOf(Late(x)) = c
  BY <1>2, OneLate DEF Late
<1> QED
  BY <1>1, <1>3 DEF Committed

(* Any other location has its value in the heap. *)
LEMMA CommittedHeap ==
  ASSUME NEW x, \A d \in Contexts : x \notin LateKeys(d)
  PROVE  Committed(x) = IF x \in Cells THEN cells[x] ELSE arrays[x]
<1>1. Late(x) = {}
  BY DEF Late
<1> QED
  BY <1>1 DEF Committed

(* The committed value of a location stays when neither the heap nor the   *)
(* commits in progress change it.                                          *)
LEMMA CommittedStays ==
  ASSUME TxnInv, WriteInv, TxnInv', WriteInv', NEW x,
         x \in Cells => cells'[x] = cells[x], x \notin Cells => arrays'[x] = arrays[x],
         \A d \in Contexts : x \in LateKeys(d)' <=> x \in LateKeys(d),
         \A d \in Contexts : x \in LateKeys(d) => Pending(cur'[d], x)[x] = Pending(cur[d], x)[x]
  PROVE  Committed(x)' = Committed(x)
<1>1. CASE \A d \in Contexts : x \notin LateKeys(d)
  <2>1. Committed(x) = IF x \in Cells THEN cells[x] ELSE arrays[x]
    BY <1>1, CommittedHeap
  <2>2. Late(x)' = {}
    BY <1>1 DEF Late
  <2>3. Committed(x)' = IF x \in Cells THEN cells'[x] ELSE arrays'[x]
    BY <2>2 DEF Committed
  <2> QED
    BY <2>1, <2>3
<1>2. ASSUME NEW c \in Contexts, x \in LateKeys(c) PROVE Committed(x)' = Committed(x)
  <2>1. Committed(x) = Pending(cur[c], x)[x]
    BY <1>2, CommittedLate
  <2>2. \A d \in Contexts : x \in LateKeys(d)' => d = c
    BY <1>2, OneLate
  <2>3. Late(x)' = {c}
    BY <1>2, <2>2 DEF Late
  <2>4. Committed(x)' = Pending(cur'[c], x)[x]
    <3>1. OneOf({c}) = c
      BY DEF OneOf
    <3>2. Committed(x)' = Pending(cur'[OneOf(Late(x)')], x)[x]
      BY <2>3 DEF Committed, Pending
    <3> QED
      BY <2>3, <3>1, <3>2
  <2> QED
    BY <1>2, <2>1, <2>4
<1> QED
  BY <1>1, <1>2

(* The committed data, location by location. *)
LEMMA DataIs ==
  /\ DOMAIN CommittedData = program.cells \cup program.arrays
  /\ \A x \in DOMAIN CommittedData : CommittedData[x] = Committed(x)
  BY DEF CommittedData

(* A step of c that neither writes nor commits changes no data. *)
LEMMA SameData ==
  ASSUME TxnInv, WriteInv, TxnInv', WriteInv', NEW c \in Contexts, Alone(c),
         UNCHANGED heapVars, LateKeys(c) = {}, LateKeys(c)' = {}
  PROVE  CommittedData' = CommittedData
<1>1. cells' = cells /\ arrays' = arrays /\ program' = program
  BY DEF heapVars
<1>2. ASSUME NEW d \in Contexts PROVE LateKeys(d)' = LateKeys(d)
  <2>1. CASE d # c
    BY <2>1 DEF Alone, LateKeys
  <2> QED
    BY <2>1
<1>3. ASSUME NEW d \in Contexts, NEW x \in LateKeys(d)
      PROVE  Pending(cur'[d], x)[x] = Pending(cur[d], x)[x]
  <2>1. d # c
    BY <1>3
  <2>2. cur'[d] = cur[d]
    BY <2>1 DEF Alone
  <2> QED
    BY <2>2
<1>4. ASSUME NEW x PROVE Committed(x)' = Committed(x)
  BY <1>1, <1>2, <1>3, CommittedStays
<1> QED
  BY <1>1, <1>4 DEF CommittedData

(* The levels of the others stay, whatever c does to the data it locked. *)
LEMMA LevelsMove ==
  ASSUME TxnInv, NEW c \in Contexts, Alone(c), program' = program,
         \A x \in DOMAIN CommittedData :
           GuardOf[x] \notin ownedMutexes[c] => CommittedData'[x] = CommittedData[x]
  PROVE  Levels' = [Levels EXCEPT ![c] = LevelsOf(CommittedData', txns'[c])]
<1>1. DOMAIN CommittedData' = DOMAIN CommittedData
  BY DEF CommittedData
<1>2. ASSUME NEW d \in Contexts \ {c}
      PROVE  LevelsOf(CommittedData', txns'[d]) = LevelsOf(CommittedData, txns[d])
  <2> DEFINE ts == txns[d]
             D == CommittedData
             E == CommittedData'
  <2>1. txns'[d] = ts /\ ts \in Seq(Txns(program))
    BY OfContext DEF Alone
  <2>2. Named(ts) \subseteq ownedMutexes[d]
    BY OwnsNamed
  <2>3. \A x \in DOMAIN D : GuardOf[x] \in Named(ts) => D[x] = E[x]
    BY <2>2, OneOwner
  <2>4. DOMAIN D = DOMAIN E
    BY <1>1
  <2> HIDE DEF D, E, ts
  <2>5. LevelsOf(D, ts) = LevelsOf(E, ts)
    BY <2>1, <2>3, <2>4, DataLevels
  <2> QED
    BY <2>1, <2>5 DEF D, E, ts
<1> QED
  BY <1>2 DEF Levels

(* The same with data that stay. *)
LEMMA StackMoves ==
  ASSUME TxnInv, NEW c \in Contexts, Alone(c), program' = program, CommittedData' = CommittedData
  PROVE  /\ Levels' = [Levels EXCEPT ![c] = LevelsOf(CommittedData, txns'[c])]
         /\ Levels[c] = LevelsOf(CommittedData, txns[c])
<1>1. Levels' = [Levels EXCEPT ![c] = LevelsOf(CommittedData', txns'[c])]
  BY LevelsMove
<1> QED
  BY <1>1 DEF Levels

(* The abstract state does not see the steps inside of an operation. *)
LEMMA Unseen ==
  ASSUME TxnInv, WriteInv, TxnInv', WriteInv', NEW c \in Contexts, Alone(c),
         UNCHANGED heapVars, txns'[c] = txns[c], LateKeys(c) = {}, LateKeys(c)' = {}
  PROVE  UNCHANGED Abs!absVars
<1>1. CommittedData' = CommittedData
  BY SameData
<1>2. program' = program
  BY DEF heapVars
<1>3. Levels' = [Levels EXCEPT ![c] = Levels[c]]
  BY <1>1, <1>2, StackMoves
<1>4. Levels' = Levels
  BY <1>3 DEF Levels
<1> QED
  BY <1>1, <1>4 DEF Abs!absVars

(* What a context with this stack reads. *)
LEMMA VisibleIs ==
  ASSUME TxnInv, NEW ts \in Seq(Txns(program)), StackHolds(ts), NEW x \in DOMAIN CommittedData
  PROVE  Abs!Visible(LevelsOf(CommittedData, ts), x) = Seen(CommittedData[x], ts, Len(ts), x)
<1> DEFINE D == CommittedData
           n == Len(ts)
           ls == LevelsOf(D, ts)
<1>0. n \in Nat /\ (ls = <<>> <=> ts = <<>>) /\ (ts = <<>> <=> n = 0)
  BY LevelsShape, LenProperties, EmptySeq
<1>1. CASE ts = <<>>
  <2>1. Seen(D[x], ts, n, x) = D[x]
    BY <1>0, <1>1, SeenCommitted
  <2>2. ls = <<>>
    BY <1>0, <1>1
  <2> HIDE DEF ls, D
  <2>3. Abs!Visible(ls, x) = D[x]
    BY <2>2 DEF Abs!Visible, D
  <2> QED
    BY <2>1, <2>3 DEF ls, D
<1>2. CASE ts # <<>>
  <2>1. Abs!Top(ls) = LevelOf(D, ts, n) /\ ls # <<>>
    BY <1>0, <1>2, PopLevels
  <2> DEFINE view == [y \in {z \in DOMAIN D : GuardOf[z] \in Below(ts, n)} |-> Seen(D[y], ts, n, y)]
  <2>2. LevelOf(D, ts, n).view = view
    BY DEF LevelOf
  <2>3. Abs!Visible(ls, x) = IF x \in DOMAIN view THEN view[x] ELSE D[x]
    BY <2>1, <2>2 DEF Abs!Visible
  <2>4. CASE GuardOf[x] \in Below(ts, n)
    BY <2>3, <2>4
  <2>5. CASE GuardOf[x] \notin Below(ts, n)
    <3>1. ASSUME NEW j \in 1 .. n PROVE x \notin DOMAIN Pending(ts[j], x)
      <4>1. Below(ts, j) \subseteq Named(ts) /\ Below(ts, n) = Named(ts)
        BY BelowFacts
      <4>2. x \notin PendingKeys(ts[j])
        BY <2>5, <4>1 DEF StackHolds, Covered
      <4> QED
        BY <4>2 DEF PendingKeys, Pending
    <3>2. Seen(D[x], ts, n, x) = D[x]
      BY <1>0, <3>1, UnwrittenSeen
    <3> QED
      BY <2>3, <2>5, <3>2
  <2> QED
    BY <2>4, <2>5
<1> QED
  BY <1>1, <1>2

-----------------------------------------------------------------------------
(* The steps, as steps of nested transactions. *)

(* Lock attempts, returns, errors, restored values and released mutexes    *)
(* are steps inside of an operation.                                       *)
LEMMA QuietSteps ==
  ASSUME TxnInv, WriteInv, TxnInv', WriteInv', NEW c \in Contexts, Alone(c),
         \/ \E ms : BeginTransaction(c, ms)
         \/ LockReadOwner(c) \/ LockWouldDeadlock(c) \/ LockTry(c) \/ LockRecheck(c)
         \/ GiveUp(c) \/ Fail(c) \/ Unwound(c)
         \/ \E depth, ends : Return(c, depth, ends)
         \/ \E x \in program.cells : RestoreCell(c, x)
         \/ \E a \in program.arrays : RestoreArray(c, a)
         \/ ReleaseCommitted(c) \/ ReleaseUnwound(c)
  PROVE  UNCHANGED Abs!absVars
<1>0. DOMAIN pc = Contexts /\ cur \in [Contexts -> Txns(program)]
  BY DEF TxnInv, ContextTypes
<1>1. ASSUME UNCHANGED heapVars, txns' = txns, pc[c] # "apply", pc'[c] # "apply"
      PROVE  UNCHANGED Abs!absVars
  <2>1. LateKeys(c) = {} /\ LateKeys(c)' = {}
    BY <1>1 DEF LateKeys
  <2> QED
    BY <1>1, <2>1, Unseen
<1>2. CASE \/ \E ms : BeginTransaction(c, ms)
           \/ LockReadOwner(c) \/ LockWouldDeadlock(c) \/ LockTry(c) \/ LockRecheck(c)
           \/ GiveUp(c)
  <2>1. UNCHANGED heapVars /\ txns' = txns
    BY <1>2 DEF BeginTransaction, LockReadOwner, LockWouldDeadlock, LockTry, LockRecheck, GiveUp
  <2>2. ASSUME \E ms : BeginTransaction(c, ms) PROVE pc[c] # "apply" /\ pc'[c] # "apply"
    BY <1>0, <2>2 DEF BeginTransaction, Goto
  <2>3. ASSUME LockReadOwner(c) PROVE pc[c] # "apply" /\ pc'[c] # "apply"
    BY <1>0, <2>3 DEF LockReadOwner, Goto
  <2>4. ASSUME LockWouldDeadlock(c) PROVE pc[c] # "apply" /\ pc'[c] # "apply"
    BY <1>0, <2>4 DEF LockWouldDeadlock, Goto
  <2>5. ASSUME LockTry(c) PROVE pc[c] # "apply" /\ pc'[c] # "apply"
    BY <1>0, <2>5 DEF LockTry, Goto
  <2>6. ASSUME LockRecheck(c) PROVE pc[c] # "apply" /\ pc'[c] # "apply"
    BY <1>0, <2>6 DEF LockRecheck, Goto
  <2>7. ASSUME GiveUp(c) PROVE pc[c] # "apply" /\ pc'[c] # "apply"
    BY <1>0, <2>7 DEF GiveUp, Goto
  <2> QED
    BY <1>1, <1>2, <2>1, <2>2, <2>3, <2>4, <2>5, <2>6, <2>7
<1>3. CASE Fail(c) \/ Unwound(c) \/ \E depth, ends : Return(c, depth, ends)
  <2>1. UNCHANGED heapVars /\ txns' = txns
    BY <1>3 DEF Fail, Unwound, Return
  <2>2. pc[c] # "apply" /\ pc'[c] # "apply"
    BY <1>0, <1>3 DEF Fail, Unwound, Return, Goto
  <2> QED
    BY <1>1, <2>1, <2>2
<1>4. CASE \/ \E x \in program.cells : RestoreCell(c, x)
           \/ \E a \in program.arrays : RestoreArray(c, a)
  <2>1. UNCHANGED heapVars
    BY <1>4, RestoreWrites
  <2>2. txns' = txns /\ pc' = pc /\ pc[c] = "restore"
    BY <1>4 DEF RestoreCell, RestoreArray
  <2> QED
    BY <1>1, <2>1, <2>2
<1>5. CASE ReleaseUnwound(c)
  <2>1. UNCHANGED heapVars /\ txns' = txns
    BY <1>5 DEF ReleaseUnwound
  <2>2. pc[c] # "apply" /\ pc'[c] # "apply"
    BY <1>0, <1>5 DEF ReleaseUnwound, Goto
  <2> QED
    BY <1>1, <2>1, <2>2
<1>6. CASE ReleaseCommitted(c)
  <2>1. UNCHANGED heapVars /\ txns' = txns
    BY <1>6 DEF ReleaseCommitted
  <2>2. cur[c].pendingCells = NoMap /\ cur[c].pendingArrays = NoMap /\ DOMAIN NoMap = {}
    BY <1>6, MapEmpty DEF ReleaseCommitted
  <2>3. LateKeys(c) = {}
    BY <2>2 DEF LateKeys
  <2>4. LateKeys(c)' = {}
    <3>1. CASE cur' = [cur EXCEPT ![c].acquiredMutexIds = Pop(@)]
      <4>1. /\ cur'[c].pendingCells = cur[c].pendingCells
            /\ cur'[c].pendingArrays = cur[c].pendingArrays
        BY <1>0, <3>1 DEF Txns
      <4> QED
        BY <2>2, <4>1 DEF LateKeys
    <3>2. CASE Goto(c, "run")
      BY <1>0, <3>2 DEF Goto, LateKeys
    <3> QED
      BY <1>6, <3>1, <3>2 DEF ReleaseCommitted
  <2> QED
    BY <2>1, <2>3, <2>4, Unseen
<1> QED
  BY <1>2, <1>3, <1>4, <1>5, <1>6

(* The values of a commit were handed over when it began: writing them to  *)
(* the heap one at a time changes nothing any more.                        *)
LEMMA ApplySteps ==
  ASSUME TxnInv, WriteInv, TxnInv', WriteInv', NEW c \in Contexts, Alone(c),
         \/ \E x \in program.cells : ApplyCell(c, x)
         \/ \E a \in program.arrays : ApplyArray(c, a)
  PROVE  UNCHANGED Abs!absVars
<1>0. /\ cur[c] \in Txns(program) /\ cur \in [Contexts -> Txns(program)]
      /\ cells \in [program.cells -> Values] /\ arrays \in [program.arrays -> Seq(Values)]
      /\ DOMAIN cur[c].pendingCells \subseteq Cells
      /\ DOMAIN cur[c].pendingArrays \subseteq Arrays
      /\ program.cells \subseteq Cells /\ program.arrays \subseteq Arrays
      /\ Cells \cap Arrays = {}
  BY OfContext, KeysOf DEF TxnInv, ContextTypes, HeapTypes
<1>1. /\ pc[c] = "apply" /\ pc' = pc /\ txns' = txns /\ program' = program
  BY DEF ApplyCell, ApplyArray
<1>2. ASSUME NEW x \in program.cells \cup program.arrays, x \in LateKeys(c),
             LateKeys(c)' = LateKeys(c) \ {x},
             \A y \in LateKeys(c) \ {x} : Pending(cur'[c], y)[y] = Pending(cur[c], y)[y],
             \A y \in program.cells \ {x} : cells'[y] = cells[y],
             \A y \in program.arrays \ {x} : arrays'[y] = arrays[y],
             (IF x \in Cells THEN cells'[x] ELSE arrays'[x]) = Pending(cur[c], x)[x]
      PROVE  UNCHANGED Abs!absVars
  <2>1. ASSUME NEW d \in Contexts \ {c} PROVE LateKeys(d)' = LateKeys(d) /\ cur'[d] = cur[d]
    BY DEF Alone, LateKeys
  <2>2. ASSUME NEW y \in program.cells \cup program.arrays, y # x
        PROVE  Committed(y)' = Committed(y)
    <3>1. \A d \in Contexts : y \in LateKeys(d)' <=> y \in LateKeys(d)
      BY <1>2, <2>1, <2>2
    <3>2. \A d \in Contexts : y \in LateKeys(d) => Pending(cur'[d], y)[y] = Pending(cur[d], y)[y]
      BY <1>2, <2>1, <2>2
    <3>3. (y \in Cells => cells'[y] = cells[y]) /\ (y \notin Cells => arrays'[y] = arrays[y])
      BY <1>0, <1>2, <2>2
    <3> QED
      BY <3>1, <3>2, <3>3, CommittedStays
  <2>3. Committed(x)' = Committed(x)
    <3>1. Committed(x) = Pending(cur[c], x)[x]
      BY <1>2, CommittedLate
    <3>2. \A d \in Contexts : x \notin LateKeys(d)'
      <4>1. \A d \in Contexts \ {c} : x \notin LateKeys(d)
        BY <1>2, OneLate
      <4> QED
        BY <1>2, <2>1, <4>1
    <3>3. Late(x)' = {}
      BY <3>2 DEF Late
    <3>4. Committed(x)' = IF x \in Cells THEN cells'[x] ELSE arrays'[x]
      BY <3>3 DEF Committed
    <3> QED
      BY <1>2, <3>1, <3>4
  <2>4. CommittedData' = CommittedData
    BY <1>1, <2>2, <2>3 DEF CommittedData
  <2>5. Levels' = Levels
    BY <1>1, <2>4 DEF Levels
  <2> QED
    BY <2>4, <2>5 DEF Abs!absVars
<1>3. ASSUME NEW x \in program.cells, ApplyCell(c, x) PROVE UNCHANGED Abs!absVars
  <2> DEFINE g == cur[c].pendingCells
             f == Without(g, x)
  <2>1. x \in DOMAIN g /\ DOMAIN f = DOMAIN g \ {x} /\ \A y \in DOMAIN f : f[y] = g[y]
    BY <1>3 DEF Without, ApplyCell
  <2>2. cur' = [cur EXCEPT ![c] = [cur[c] EXCEPT !.pendingCells = f]]
    BY <1>3 DEF ApplyCell
  <2> HIDE DEF f
  <2>3. cur'[c].pendingCells = f /\ cur'[c].pendingArrays = cur[c].pendingArrays
    BY <1>0, <2>2 DEF Txns
  <2>4. arrays' = arrays /\ cells' = [cells EXCEPT ![x] = g[x]]
    BY <1>3 DEF ApplyCell
  <2> HIDE DEF g
  <2>5. /\ LateKeys(c) = DOMAIN g \cup DOMAIN cur[c].pendingArrays
        /\ LateKeys(c)' = DOMAIN f \cup DOMAIN cur[c].pendingArrays
    BY <1>1, <2>3 DEF LateKeys, g
  <2>6. x \in Cells /\ x \notin DOMAIN cur[c].pendingArrays
    BY <1>0
  <2>7. x \in LateKeys(c) /\ LateKeys(c)' = LateKeys(c) \ {x}
    BY <2>1, <2>5, <2>6
  <2>8. \A y \in LateKeys(c) \ {x} : Pending(cur'[c], y)[y] = Pending(cur[c], y)[y]
    <3> SUFFICES ASSUME NEW y \in LateKeys(c) \ {x}
                 PROVE  Pending(cur'[c], y)[y] = Pending(cur[c], y)[y]
      OBVIOUS
    <3>1. CASE y \in Cells
      <4>1. y \in DOMAIN f
        BY <1>0, <2>1, <2>5, <3>1
      <4> QED
        BY <2>1, <2>3, <3>1, <4>1 DEF Pending, g
    <3>2. CASE y \notin Cells
      BY <2>3, <3>2 DEF Pending
    <3> QED
      BY <3>1, <3>2
  <2>9. /\ cells'[x] = Pending(cur[c], x)[x]
        /\ \A y \in program.cells \ {x} : cells'[y] = cells[y]
        /\ \A y \in program.arrays \ {x} : arrays'[y] = arrays[y]
    <3>1. cells'[x] = g[x]
      BY <1>0, <2>4
    <3>2. ASSUME NEW y \in program.cells \ {x} PROVE cells'[y] = cells[y]
      BY <1>0, <2>4, <3>2
    <3> QED
      BY <2>4, <2>6, <3>1, <3>2 DEF Pending, g
  <2> QED
    BY <1>2, <2>6, <2>7, <2>8, <2>9
<1>4. ASSUME NEW x \in program.arrays, ApplyArray(c, x) PROVE UNCHANGED Abs!absVars
  <2> DEFINE g == cur[c].pendingArrays
             f == Without(g, x)
  <2>1. x \in DOMAIN g /\ DOMAIN f = DOMAIN g \ {x} /\ \A y \in DOMAIN f : f[y] = g[y]
    BY <1>4 DEF Without, ApplyArray
  <2>2. cur' = [cur EXCEPT ![c] = [cur[c] EXCEPT !.pendingArrays = f]]
    BY <1>4 DEF ApplyArray
  <2> HIDE DEF f
  <2>3. cur'[c].pendingArrays = f /\ cur'[c].pendingCells = cur[c].pendingCells
    BY <1>0, <2>2 DEF Txns
  <2>4. cells' = cells /\ arrays' = [arrays EXCEPT ![x] = g[x]]
    BY <1>4 DEF ApplyArray
  <2> HIDE DEF g
  <2>5. /\ LateKeys(c) = DOMAIN cur[c].pendingCells \cup DOMAIN g
        /\ LateKeys(c)' = DOMAIN cur[c].pendingCells \cup DOMAIN f
    BY <1>1, <2>3 DEF LateKeys, g
  <2>6. x \notin Cells /\ x \notin DOMAIN cur[c].pendingCells
    BY <1>0
  <2>7. x \in LateKeys(c) /\ LateKeys(c)' = LateKeys(c) \ {x}
    BY <2>1, <2>5, <2>6
  <2>8. \A y \in LateKeys(c) \ {x} : Pending(cur'[c], y)[y] = Pending(cur[c], y)[y]
    <3> SUFFICES ASSUME NEW y \in LateKeys(c) \ {x}
                 PROVE  Pending(cur'[c], y)[y] = Pending(cur[c], y)[y]
      OBVIOUS
    <3>1. CASE y \notin Cells
      <4>1. y \in DOMAIN f
        BY <1>0, <2>1, <2>5, <3>1
      <4> QED
        BY <2>1, <2>3, <3>1, <4>1 DEF Pending, g
    <3>2. CASE y \in Cells
      BY <2>3, <3>2 DEF Pending
    <3> QED
      BY <3>1, <3>2
  <2>9. /\ arrays'[x] = Pending(cur[c], x)[x]
        /\ \A y \in program.cells \ {x} : cells'[y] = cells[y]
        /\ \A y \in program.arrays \ {x} : arrays'[y] = arrays[y]
    <3>1. arrays'[x] = g[x]
      BY <1>0, <2>4
    <3>2. ASSUME NEW y \in program.arrays \ {x} PROVE arrays'[y] = arrays[y]
      BY <1>0, <2>4, <3>2
    <3> QED
      BY <2>4, <2>6, <3>1, <3>2 DEF Pending, g
  <2> QED
    BY <1>2, <2>6, <2>7, <2>8, <2>9
<1> QED
  BY <1>3, <1>4

(* There are as many levels as transactions. *)
LEMMA LevelsCount ==
  ASSUME NEW D, NEW ts, Len(ts) \in Nat
  PROVE  Len(LevelsOf(D, ts)) = Len(ts) /\ (LevelsOf(D, ts) = <<>> => Len(ts) = 0)
<1> DEFINE L == LevelsOf(D, ts)
           n == Len(ts)
<1>1. L = [i \in 1 .. n |-> LevelOf(D, ts, i)]
  BY DEF LevelsOf
<1> HIDE DEF L, n
<1>2. DOMAIN L = 1 .. n /\ n \in Nat
  BY <1>1 DEF n
<1>3. Len(L) = n
  <2>1. L \in Seq({LevelOf(D, ts, i) : i \in 1 .. n})
    BY ONLY <1>1, <1>2
  <2> QED
    BY ONLY <1>2, <2>1
<1>4. L = <<>> => n = 0
  BY ONLY <1>3
<1> QED
  BY ONLY <1>3, <1>4 DEF L, n

(* What a level sees, with another stack above it. *)
LEMMA PrefixSeen ==
  ASSUME NEW ts, NEW us, NEW i \in Nat, \A j \in 1 .. i : us[j] = ts[j], NEW v, NEW x
  PROVE  Seen(v, us, i, x) = Seen(v, ts, i, x)
  BY PrefixLevel

(* BeginTransaction takes effect when its last mutex is locked. *)
LEMMA BegunStep ==
  ASSUME TxnInv, WriteInv, TxnInv', WriteInv', NEW c \in Contexts, Alone(c), Begun(c)
  PROVE  Abs!AbsNext
<1> DEFINE t == [NoTxn EXCEPT !.mutexIds = request[c], !.acquiredMutexIds = acquired[c]]
           ts == txns[c]
           us == Append(ts, t)
           ms == request[c]
           D == CommittedData
           n == Len(ts)
           L == LevelsOf(D, ts)
<1>1. /\ pc[c] = "lock" /\ Remaining(c) = {} /\ txns'[c] = us /\ pc'[c] = "run"
      /\ UNCHANGED heapVars /\ program' = program
  BY DEF Begun, Goto, TxnInv, ContextTypes, heapVars
<1>2. /\ ts \in Seq(Txns(program)) /\ StackHolds(ts) /\ n \in Nat
      /\ ms \in (SUBSET Mutexes) \ {{}}
  BY <1>1, OfContext, LenProperties DEF WriteInv, WritesHold, Locking
<1>3. t.pendingCells = NoMap /\ t.pendingArrays = NoMap /\ t.mutexIds = ms /\ t \in Txns(program)
  <2>1. NoMap \in Maps(program.cells, Values) /\ NoMap \in Maps(program.arrays, Seq(Values))
    BY MapEmpty
  <2> QED
    BY <2>1, OfContext DEF NoTxn, Txns
<1>4. D' = D
  <2>1. LateKeys(c) = {} /\ LateKeys(c)' = {}
    BY <1>1 DEF LateKeys
  <2> QED
    BY <1>1, <2>1, SameData
<1>5. Levels' = [Levels EXCEPT ![c] = LevelsOf(D, us)] /\ Levels[c] = L
  BY <1>1, <1>4, StackMoves
<1>6. ASSUME NEW d \in Contexts \ {c} PROVE Abs!Held(Levels[d]) \cap ms = {}
  <2>1. Levels[d] = LevelsOf(D, txns[d]) /\ txns[d] \in Seq(Txns(program))
    BY OfContext DEF Levels
  <2>2. Abs!Held(Levels[d]) = Named(txns[d])
    BY <2>1, HeldIs
  <2>3. Named(txns[d]) \subseteq ownedMutexes[d] /\ Named(ts) \subseteq ownedMutexes[c]
    BY OwnsNamed
  <2>4. ms \subseteq Named(ts) \cup Elems(acquired[c])
    BY <1>1 DEF Remaining, HeldMutexIds, Named
  <2>5. Elems(acquired[c]) \subseteq ownedMutexes[c]
    BY OfContext DEF LocksFit
  <2> HIDE DEF ts, ms
  <2> QED
    BY <2>2, <2>3, <2>4, <2>5, OneOwner
<1> HIDE DEF t, ts, us, ms, D, L, n
<1>7. LevelsOf(D, us) = Append(L, LevelOf(D, us, n + 1))
  BY <1>2, <1>3, PushLevels DEF us, L, n
<1> DEFINE G == Abs!Guarded(Abs!Held(Levels[c]) \cup ms)
           e == [held |-> ms, view |-> [x \in G |-> Abs!Visible(Levels[c], x)]]
<1>8. LevelOf(D, us, n + 1) = e
  <2>1. us[n + 1] = t /\ \A i \in 1 .. n : us[i] = ts[i]
    BY <1>2, <1>3, AppendProperties DEF us, n
  <2>2. Below(us, n + 1) = Named(ts) \cup ms
    BY <1>2, <1>3, NamedPush DEF us, n
  <2>3. G = {x \in DOMAIN D : GuardOf[x] \in Below(us, n + 1)}
    BY <1>2, <1>5, <2>2, HeldIs DEF Abs!Guarded, Abs!Locations, L, D
  <2>4. ASSUME NEW x \in DOMAIN D
        PROVE  Seen(D[x], us, n + 1, x) = Abs!Visible(Levels[c], x)
    <3>1. x \notin DOMAIN Pending(t, x)
      BY <1>3, MapEmpty DEF Pending
    <3>2. n + 1 \in Nat \ {0} /\ (n + 1) - 1 = n
      BY <1>2
    <3>3. Seen(D[x], us, n + 1, x) = Seen(D[x], us, n, x)
      BY <2>1, <3>1, <3>2, SeenStep
    <3>4. Seen(D[x], us, n, x) = Seen(D[x], ts, n, x)
      BY <1>2, <2>1, PrefixSeen
    <3>5. Abs!Visible(L, x) = Seen(D[x], ts, n, x)
      BY <1>2, VisibleIs DEF L, D, n
    <3> QED
      BY <1>5, <3>3, <3>4, <3>5
  <2> HIDE DEF G
  <2>5. [x \in G |-> Seen(D[x], us, n + 1, x)] = [x \in G |-> Abs!Visible(Levels[c], x)]
    BY <2>3, <2>4
  <2> QED
    BY <1>3, <2>1, <2>3, <2>5 DEF LevelOf
<1>9. Levels' = [Levels EXCEPT ![c] = Append(Levels[c], e)]
  BY <1>5, <1>7, <1>8
<1>10. Abs!AbsBegin(c, ms)
  BY <1>4, <1>6, <1>9 DEF Abs!AbsBegin, D
<1> QED
  BY <1>2, <1>10 DEF Abs!AbsNext

(* The buffers of t and o hold the same writes, but for x. *)
SameElsewhere(D, x, t, o) ==
  \A y \in DOMAIN D \ {x} :
    /\ y \in DOMAIN Pending(t, y) <=> y \in DOMAIN Pending(o, y)
    /\ y \in DOMAIN Pending(t, y) => Pending(t, y)[y] = Pending(o, y)[y]

(* One value in the view of the innermost level. *)
LEMMA WriteLevel ==
  ASSUME NEW D, NEW T, NEW ts \in Seq(T), ts # <<>>, NEW t \in T, NEW x \in DOMAIN D, NEW w,
         t.mutexIds = Top(ts).mutexIds, GuardOf[x] \in Named(ts),
         x \in DOMAIN Pending(t, x), Pending(t, x)[x] = w,
         SameElsewhere(D, x, t, Top(ts))
  PROVE  LevelsOf(D, Append(Pop(ts), t))
           = [LevelsOf(D, ts) EXCEPT ![Len(ts)].view[x] = w]
<1> DEFINE us == Append(Pop(ts), t)
           n == Len(ts)
           K == {y \in DOMAIN D : GuardOf[y] \in Below(ts, n)}
           old == [y \in K |-> Seen(D[y], ts, n, y)]
           new == [y \in K |-> Seen(D[y], us, n, y)]
<1>1. /\ n \in Nat \ {0} /\ Pop(ts) \in Seq(T) /\ Len(Pop(ts)) = n - 1
      /\ \A i \in 1 .. n - 1 : Pop(ts)[i] = ts[i]
  BY PopFacts
<1>2. /\ us \in Seq(T) /\ Len(us) = Len(Pop(ts)) + 1 /\ us[Len(Pop(ts)) + 1] = t
      /\ \A i \in 1 .. Len(Pop(ts)) : us[i] = Pop(ts)[i]
  BY <1>1, AppendProperties
<1> HIDE DEF us, n, K, old, new
<1>3. Len(us) = n /\ us[n] = t /\ \A i \in 1 .. n - 1 : us[i] = ts[i]
  BY <1>1, <1>2
<1>4. ASSUME NEW i \in 1 .. n - 1 PROVE LevelOf(D, us, i) = LevelOf(D, ts, i)
  <2>1. i \in Nat /\ i # 0 /\ \A j \in 1 .. i : us[j] = ts[j]
    BY <1>1, <1>3
  <2> QED
    BY <2>1, PrefixLevel
<1>5. Below(us, n) = Below(ts, n) /\ Named(ts) = Below(ts, n)
  <2>1. Named(ts) = Below(ts, n) /\ Named(us) = Below(us, n)
    BY <1>2, <1>3, BelowFacts DEF n
  <2>2. Named(ts) = Named(Pop(ts)) \cup Top(ts).mutexIds
    BY NamedPop
  <2>3. Named(us) = Named(Pop(ts)) \cup t.mutexIds
    BY <1>1, NamedPush DEF us
  <2> QED
    BY <2>1, <2>2, <2>3
<1>6. ASSUME NEW y \in DOMAIN D
      PROVE  Seen(D[y], us, n, y) = IF y = x THEN w ELSE Seen(D[y], ts, n, y)
  <2>1. /\ Seen(D[y], us, n, y) = IF y \in DOMAIN Pending(us[n], y) THEN Pending(us[n], y)[y]
                                                        ELSE Seen(D[y], us, n - 1, y)
        /\ Seen(D[y], ts, n, y) = IF y \in DOMAIN Pending(ts[n], y) THEN Pending(ts[n], y)[y]
                                                        ELSE Seen(D[y], ts, n - 1, y)
    BY ONLY <1>1, SeenStep
  <2> DEFINE m == n - 1
  <2>2. Seen(D[y], us, n - 1, y) = Seen(D[y], ts, n - 1, y)
    <3>1. \A j \in 1 .. m : us[j] = ts[j]
      BY <1>3
    <3> HIDE DEF m
    <3>2. Written(us, m, y) = Written(ts, m, y)
      BY ONLY <3>1 DEF Written
    <3> QED
      BY ONLY <3>2 DEF m, Seen
  <2>3. Top(ts) = ts[n]
    BY DEF Top, n
  <2> QED
    BY <1>3, <2>1, <2>2, <2>3 DEF SameElsewhere
<1>7. new = [old EXCEPT ![x] = w]
  <2>1. x \in K /\ K \subseteq DOMAIN D
    BY <1>5 DEF K
  <2>2. \A y \in K : new[y] = IF y = x THEN w ELSE old[y]
    BY <1>6, <2>1 DEF new, old
  <2>3. DOMAIN old = K /\ new = [y \in K |-> new[y]]
    BY DEF old, new
  <2> QED
    BY <2>1, <2>2, <2>3
<1>8. /\ LevelOf(D, us, n) = [held |-> ts[n].mutexIds, view |-> new]
      /\ LevelOf(D, ts, n) = [held |-> ts[n].mutexIds, view |-> old]
  <2>1. t.mutexIds = ts[n].mutexIds
    BY DEF Top, n
  <2> QED
    BY <1>3, <1>5, <2>1 DEF LevelOf, K, old, new
<1>9. LevelOf(D, us, n) = [LevelOf(D, ts, n) EXCEPT !.view = [old EXCEPT ![x] = w]]
  BY <1>7, <1>8
<1> DEFINE L == LevelsOf(D, ts)
           M == LevelsOf(D, us)
<1>10. /\ DOMAIN L = 1 .. n /\ DOMAIN M = 1 .. n
       /\ \A i \in 1 .. n : L[i] = LevelOf(D, ts, i) /\ M[i] = LevelOf(D, us, i)
  BY <1>3 DEF LevelsOf, n
<1> HIDE DEF L
<1>11. L[n].view = old
  BY <1>1, <1>8, <1>10
<1>12. M = [L EXCEPT ![n] = [L[n] EXCEPT !.view = [L[n].view EXCEPT ![x] = w]]]
  <2> DEFINE e == [L[n] EXCEPT !.view = [L[n].view EXCEPT ![x] = w]]
  <2>1. M[n] = e /\ n \in 1 .. n
    <3>1. n \in 1 .. n
      BY <1>1
    <3>2. M[n] = LevelOf(D, us, n) /\ L[n] = LevelOf(D, ts, n)
      BY ONLY <1>10, <3>1
    <3> QED
      BY ONLY <1>9, <1>11, <3>1, <3>2
  <2>2. \A i \in 1 .. n : i # n => i \in 1 .. n - 1
    BY <1>1
  <2>3. \A i \in 1 .. n : i # n => M[i] = L[i]
    BY <1>4, <1>10, <2>2
  <2>4. M = [i \in 1 .. n |-> M[i]]
    BY <1>10 DEF LevelsOf
  <2> HIDE DEF e, M
  <2>5. M = [L EXCEPT ![n] = e]
    BY <1>10, <2>1, <2>3, <2>4
  <2> QED
    BY <2>5 DEF e
<1> QED
  BY <1>12 DEF L, us, n

(* A buffered write is one update of what the innermost level sees. *)
LEMMA BufferStep ==
  ASSUME TxnInv, WriteInv, TxnInv', WriteInv', NEW c \in Contexts, Alone(c),
         pc[c] = "run", txns[c] # <<>>, NEW x \in DOMAIN CommittedData, Guards(c, x),
         NEW t \in Txns(program), t.mutexIds = Top(txns[c]).mutexIds,
         x \in DOMAIN Pending(t, x), SameElsewhere(CommittedData, x, t, Top(txns[c])),
         Pending(t, x)[x] \in Abs!Updates(x, Abs!Visible(Levels[c], x)),
         txns' = [txns EXCEPT ![c] = SetTop(txns[c], t)], UNCHANGED <<heapVars, pc>>
  PROVE  Abs!AbsNext
<1> DEFINE ts == txns[c]
           us == Append(Pop(ts), t)
           D == CommittedData
           L == LevelsOf(D, ts)
           w == Pending(t, x)[x]
<1>1. /\ ts \in Seq(Txns(program)) /\ ts # <<>> /\ UNCHANGED heapVars /\ program' = program
      /\ pc'[c] = "run"
  BY OfContext DEF heapVars
<1>2. txns'[c] = us
  <2>1. SetTop(ts, t) = us
    BY <1>1, ReplaceTop
  <2> QED
    BY <2>1 DEF TxnInv, ContextTypes
<1>3. D' = D
  <2>1. LateKeys(c) = {} /\ LateKeys(c)' = {}
    BY <1>1 DEF LateKeys
  <2> QED
    BY <1>1, <2>1, SameData
<1>4. Levels' = [Levels EXCEPT ![c] = LevelsOf(D, us)] /\ Levels[c] = L
  BY <1>1, <1>2, <1>3, StackMoves
<1>5. GuardOf[x] \in Named(ts)
  BY DEF Guards, HeldMutexIds, Named
<1> HIDE DEF ts, D
<1>6. LevelsOf(D, us) = [L EXCEPT ![Len(ts)].view[x] = w]
  <2> DEFINE T == Txns(program)
  <2>1. /\ x \in DOMAIN D /\ t.mutexIds = Top(ts).mutexIds
        /\ x \in DOMAIN Pending(t, x) /\ SameElsewhere(D, x, t, Top(ts))
    BY DEF ts, D
  <2>2. ts \in Seq(T) /\ ts # <<>> /\ t \in T
    BY <1>1
  <2> HIDE DEF T
  <2> QED
    BY ONLY <1>5, <2>1, <2>2, WriteLevel
<1>7. Len(L) = Len(ts) /\ L # <<>>
  <2>1. Len(ts) \in Nat \ {0}
    BY <1>1, PopFacts
  <2> QED
    BY ONLY <2>1, LevelsCount
<1>8. x \in Abs!Guarded(Abs!Held(L))
  BY <1>1, <1>5, HeldIs DEF Abs!Guarded, Abs!Locations, D
<1> HIDE DEF us, L, w
<1>9. Levels' = [Levels EXCEPT ![c] = [Levels[c] EXCEPT ![Len(Levels[c])].view[x] = w]]
  BY <1>4, <1>6, <1>7
<1>10. w \in Abs!Updates(x, Abs!Visible(Levels[c], x))
  BY DEF w
<1>11. Abs!AbsWrite(c, x)
  <2>1. Levels[c] # <<>> /\ x \in Abs!Guarded(Abs!Held(Levels[c])) /\ UNCHANGED CommittedData
    BY <1>3, <1>4, <1>7, <1>8 DEF D
  <2> QED
    BY <1>9, <1>10, <2>1 DEF Abs!AbsWrite
<1> QED
  BY <1>11 DEF Abs!AbsNext, Abs!Locations

(* What BufferCell and BufferVector leave in the buffers. *)
LEMMA BufferedPending ==
  ASSUME TxnInv, NEW t \in Txns(program), NEW v, NEW w
  PROVE  /\ \A x \in program.cells :
              LET u == BufferCell(t, x, w, v)
              IN  /\ x \in DOMAIN Pending(u, x) /\ Pending(u, x)[x] = v
                  /\ SameElsewhere(CommittedData, x, u, t)
         /\ \A a \in program.arrays :
              LET u == BufferVector(t, a, w, v)
              IN  /\ a \in DOMAIN Pending(u, a) /\ Pending(u, a)[a] = v
                  /\ SameElsewhere(CommittedData, a, u, t)
<1>1. program.cells \subseteq Cells /\ program.arrays \subseteq Arrays /\ Cells \cap Arrays = {}
  BY KeysOf
<1>2. ASSUME NEW x \in program.cells
      PROVE  LET u == BufferCell(t, x, w, v)
             IN  /\ x \in DOMAIN Pending(u, x) /\ Pending(u, x)[x] = v
                 /\ SameElsewhere(CommittedData, x, u, t)
  <2> DEFINE u == BufferCell(t, x, w, v)
             put == Put(t.pendingCells, x, v)
  <2>1. u.pendingCells = put /\ u.pendingArrays = t.pendingArrays
    BY DEF BufferCell, Txns
  <2>2. /\ DOMAIN put = DOMAIN t.pendingCells \cup {x} /\ put[x] = v
        /\ \A y \in DOMAIN t.pendingCells : y # x => put[y] = t.pendingCells[y]
    BY DEF Put
  <2> HIDE DEF u, put
  <2>3. x \in DOMAIN Pending(u, x) /\ Pending(u, x)[x] = v
    BY <1>1, <2>1, <2>2 DEF Pending
  <2>4. SameElsewhere(CommittedData, x, u, t)
    BY <2>1, <2>2 DEF Pending, SameElsewhere
  <2> QED
    BY <2>3, <2>4 DEF u
<1>3. ASSUME NEW a \in program.arrays
      PROVE  LET u == BufferVector(t, a, w, v)
             IN  /\ a \in DOMAIN Pending(u, a) /\ Pending(u, a)[a] = v
                 /\ SameElsewhere(CommittedData, a, u, t)
  <2> DEFINE u == BufferVector(t, a, w, v)
             put == Put(t.pendingArrays, a, v)
  <2>1. u.pendingArrays = put /\ u.pendingCells = t.pendingCells
    BY DEF BufferVector, Txns
  <2>2. /\ DOMAIN put = DOMAIN t.pendingArrays \cup {a} /\ put[a] = v
        /\ \A y \in DOMAIN t.pendingArrays : y # a => put[y] = t.pendingArrays[y]
    BY DEF Put
  <2> HIDE DEF u, put
  <2>3. a \in DOMAIN Pending(u, a) /\ Pending(u, a)[a] = v
    BY <1>1, <2>1, <2>2 DEF Pending
  <2>4. SameElsewhere(CommittedData, a, u, t)
    BY <2>1, <2>2 DEF Pending, SameElsewhere
  <2> QED
    BY <2>3, <2>4 DEF u
<1> QED
  BY <1>2, <1>3

(* SetGlobal and SetInstanceField. *)
LEMMA SetCellStep ==
  ASSUME TxnInv, WriteInv, TxnInv', WriteInv', NEW c \in Contexts, Alone(c),
         NEW x \in program.cells, NEW v \in Values, SetCell(c, x, v)
  PROVE  Abs!AbsNext
<1> DEFINE o == Top(txns[c])
           t == BufferCell(o, x, cells[x], v)
<1>1. /\ pc[c] = "run" /\ txns[c] # <<>> /\ Guards(c, x) /\ UNCHANGED <<heapVars, pc>>
      /\ txns' = [txns EXCEPT ![c] = SetTop(txns[c], t)]
  BY DEF SetCell
<1>2. o \in Txns(program) /\ Restorable(o) /\ cells[x] \in Values
  <2>1. cells[x] \in Values
    BY DEF TxnInv, HeapTypes
  <2> QED
    BY <1>1, <2>1, OfContext, PopFacts, PopRestorable
<1> HIDE DEF o
<1>3. t \in Txns(program) /\ t.mutexIds = o.mutexIds
  BY <1>2, BufferedCell
<1>4. x \in DOMAIN Pending(t, x) /\ Pending(t, x)[x] = v /\ SameElsewhere(CommittedData, x, t, o)
  BY <1>2, BufferedPending
<1> HIDE DEF t
<1>5. x \in DOMAIN CommittedData /\ x \in Cells
  BY <1>2, KeysOf, DataIs
<1>6. Pending(t, x)[x] \in Abs!Updates(x, Abs!Visible(Levels[c], x))
  BY <1>4, <1>5 DEF Abs!Updates
<1> QED
  BY <1>1, <1>3, <1>4, <1>5, <1>6, BufferStep DEF o

(* The program writes an array in one level of a nest only. *)
NoRewrites == ~program.rewrites

(* No commit in progress writes a location that another context has        *)
(* locked.                                                                 *)
LEMMA NoneLate ==
  ASSUME TxnInv, WriteInv, NEW c \in Contexts, pc[c] # "apply",
         NEW x, GuardOf[x] \in Named(txns[c])
  PROVE  \A d \in Contexts : x \notin LateKeys(d)
<1> SUFFICES ASSUME NEW d \in Contexts, x \in LateKeys(d) PROVE FALSE
  OBVIOUS
<1>1. pc[d] = "apply" /\ x \in PendingKeys(cur[d])
  BY DEF LateKeys, PendingKeys
<1>2. GuardOf[x] \in ownedMutexes[d]
  BY <1>1 DEF WriteInv, WritesHold, Covered
<1>3. GuardOf[x] \in ownedMutexes[c]
  BY OwnsNamed
<1> QED
  BY <1>1, <1>2, <1>3, OneOwner

(* When no enclosing transaction has written the array, an array write     *)
(* starts from what the innermost level sees.                              *)
LEMMA PendingIsVisible ==
  ASSUME TxnInv, WriteInv, NoRewrites, NEW c \in Contexts,
         NEW a \in program.arrays, WritesArray(c, a)
  PROVE  PendingArray(c, a) = Abs!Visible(Levels[c], a)
<1> DEFINE ts == txns[c]
           n == Len(ts)
           D == CommittedData
           v == D[a]
<1>1. /\ ts \in Seq(Txns(program)) /\ ts # <<>> /\ StackHolds(ts) /\ n \in Nat \ {0}
      /\ pc[c] = "run" /\ GuardOf[a] \in Named(ts)
  <2>1. ts \in Seq(Txns(program)) /\ ts # <<>> /\ pc[c] = "run" /\ GuardOf[a] \in Named(ts)
    BY OfContext DEF WritesArray, Guards, HeldMutexIds, Named
  <2> QED
    BY <2>1, PopFacts DEF WriteInv, WritesHold
<1>2. a \notin Cells /\ a \in DOMAIN D /\ program.arrays \subseteq Arrays
  BY OfContext, KeysOf, DataIs
<1>3. \A j \in 1 .. n - 1 : a \notin DOMAIN Pending(ts[j], a)
  <2>1. \A t \in Elems(Pop(ts)) : a \notin DOMAIN t.pendingArrays
    BY DEF WritesArray, NoRewrites
  <2>2. Len(Pop(ts)) = n - 1 /\ \A j \in 1 .. n - 1 : Pop(ts)[j] = ts[j]
    BY <1>1, PopFacts
  <2> HIDE DEF ts, n
  <2> QED
    BY <1>2, <2>1, <2>2 DEF Elems, Pending
<1>4. v = arrays[a]
  <2>1. \A d \in Contexts : a \notin LateKeys(d)
    BY <1>1, NoneLate
  <2> QED
    BY <1>2, <2>1, CommittedHeap, DataIs
<1>5. Levels[c] = LevelsOf(D, ts)
  BY DEF Levels
<1>6. Abs!Visible(Levels[c], a) = Seen(v, ts, n, a)
  BY <1>1, <1>2, <1>5, VisibleIs
<1> HIDE DEF ts, n, D, v
<1>7. Seen(v, ts, n, a) = IF a \in DOMAIN Pending(ts[n], a) THEN Pending(ts[n], a)[a]
                                                          ELSE Seen(v, ts, n - 1, a)
  BY ONLY <1>1, SeenStep
<1>8. Seen(v, ts, n - 1, a) = v
  <2> DEFINE m == n - 1
  <2>1. m \in Nat
    BY ONLY <1>1
  <2> HIDE DEF m
  <2>2. Seen(v, ts, m, a) = v
    BY ONLY <1>3, <2>1, UnwrittenSeen DEF m
  <2> QED
    BY ONLY <2>2 DEF m
<1>9. PendingArray(c, a) = IF a \in DOMAIN ts[n].pendingArrays THEN ts[n].pendingArrays[a]
                                                                ELSE arrays[a]
  BY DEF PendingArray, Top, ts, n
<1>10. Pending(ts[n], a) = ts[n].pendingArrays
  BY <1>2 DEF Pending
<1> QED
  BY ONLY <1>4, <1>6, <1>7, <1>8, <1>9, <1>10

(* SetArrayElement, PushArrayElement and PopArrayElement. *)
LEMMA ArrayStep ==
  ASSUME TxnInv, WriteInv, TxnInv', WriteInv', NoRewrites, NEW c \in Contexts, Alone(c),
         NEW a \in program.arrays,
         \/ \E i, v : v \in Values /\ SetArrayElement(c, a, i, v)
         \/ \E v \in Values : PushArrayElement(c, a, v)
         \/ PopArrayElement(c, a)
  PROVE  Abs!AbsNext
<1>1. PICK to \in Seq(Values) : /\ WritesArray(c, a) /\ BufferArray(c, a, to)
                               /\ to \in Abs!ArrayUpdates(PendingArray(c, a))
  BY ArrayWriteIs
<1> DEFINE o == Top(txns[c])
           t == BufferVector(o, a, arrays[a], to)
<1>2. /\ pc[c] = "run" /\ txns[c] # <<>> /\ Guards(c, a) /\ UNCHANGED <<heapVars, pc>>
      /\ txns' = [txns EXCEPT ![c] = SetTop(txns[c], t)]
  BY <1>1 DEF WritesArray, BufferArray
<1>3. o \in Txns(program) /\ Restorable(o) /\ arrays[a] \in Seq(Values)
  <2>1. arrays[a] \in Seq(Values)
    BY DEF TxnInv, HeapTypes
  <2> QED
    BY <1>2, <2>1, OfContext, PopFacts, PopRestorable
<1> HIDE DEF o
<1>4. t \in Txns(program) /\ t.mutexIds = o.mutexIds
  BY <1>3, BufferedArray
<1>5. a \in DOMAIN Pending(t, a) /\ Pending(t, a)[a] = to /\ SameElsewhere(CommittedData, a, t, o)
  BY <1>3, BufferedPending
<1> HIDE DEF t
<1>6. a \in DOMAIN CommittedData /\ a \notin Cells
  BY <1>3, KeysOf, DataIs
<1>7. Pending(t, a)[a] \in Abs!Updates(a, Abs!Visible(Levels[c], a))
  <2>1. PendingArray(c, a) = Abs!Visible(Levels[c], a)
    BY <1>1, PendingIsVisible
  <2> QED
    BY <1>1, <1>5, <1>6, <2>1 DEF Abs!Updates
<1> QED
  BY <1>2, <1>4, <1>5, <1>6, <1>7, BufferStep DEF o

(* UnwindPop takes effect as the rollback. *)
LEMMA RollbackStep ==
  ASSUME TxnInv, WriteInv, TxnInv', WriteInv', NEW c \in Contexts, Alone(c), UnwindPop(c)
  PROVE  Abs!AbsNext
<1> DEFINE ts == txns[c]
           D == CommittedData
<1>1. /\ pc[c] = "unwind" /\ pc'[c] = "restore" /\ txns'[c] = Pop(ts)
      /\ UNCHANGED heapVars /\ program' = program
  BY DEF UnwindPop, Goto, TxnInv, ContextTypes, heapVars
<1>2. ts \in Seq(Txns(program)) /\ ts # <<>>
  <2>1. ts \in Seq(Txns(program)) /\ base[c] \in Nat /\ Len(ts) > base[c]
    BY OfContext DEF UnwindPop
  <2>2. Len(<<>>) = 0
    OBVIOUS
  <2> HIDE DEF ts
  <2> QED
    BY <2>1, <2>2
<1>3. D' = D
  <2>1. LateKeys(c) = {} /\ LateKeys(c)' = {}
    BY <1>1 DEF LateKeys
  <2> QED
    BY <1>1, <2>1, SameData
<1>4. Levels' = [Levels EXCEPT ![c] = LevelsOf(D, Pop(ts))] /\ Levels[c] = LevelsOf(D, ts)
  BY <1>1, <1>3, StackMoves
<1> HIDE DEF ts, D
<1>5. Levels[c] # <<>> /\ Abs!Pop(Levels[c]) = LevelsOf(D, Pop(ts))
  <2> DEFINE L == LevelsOf(D, ts)
  <2>1. L # <<>>
    <3>1. Len(ts) \in Nat \ {0}
      BY <1>2, PopFacts
    <3> QED
      BY ONLY <3>1, LevelsCount
  <2>2. Abs!Pop(L) = LevelsOf(D, Pop(ts))
    BY ONLY <1>2, PopLevels
  <2> HIDE DEF L
  <2>3. Levels[c] = L
    BY <1>4 DEF L
  <2> QED
    BY ONLY <2>1, <2>2, <2>3
<1>6. Abs!AbsRollback(c)
  BY <1>3, <1>4, <1>5 DEF Abs!AbsRollback, D
<1> QED
  BY <1>6 DEF Abs!AbsNext

(* The stack us is ts with its two top levels merged into t, above m       *)
(* levels that both have.                                                  *)
Merges(us, ts, m, t) ==
  /\ \A i \in 1 .. m : us[i] = ts[i]
  /\ us[m + 1] = t
  /\ \A x : Pending(t, x) = Override(Pending(ts[m + 1], x), Pending(ts[m + 2], x))
  /\ t.mutexIds = ts[m + 1].mutexIds \cup ts[m + 2].mutexIds

(* Reading, from the level above i. *)
LEMMA SeenNext ==
  ASSUME NEW v, NEW ts, NEW i \in Nat, NEW x
  PROVE  Seen(v, ts, i + 1, x) = IF x \in DOMAIN Pending(ts[i + 1], x)
                                   THEN Pending(ts[i + 1], x)[x] ELSE Seen(v, ts, i, x)
<1> DEFINE j == i + 1
<1>1. j \in Nat \ {0} /\ j - 1 = i
  OBVIOUS
<1> HIDE DEF j
<1>2. Seen(v, ts, j, x) = IF x \in DOMAIN Pending(ts[j], x) THEN Pending(ts[j], x)[x]
                                                        ELSE Seen(v, ts, j - 1, x)
  BY ONLY <1>1, SeenStep
<1> QED
  BY ONLY <1>1, <1>2 DEF j

(* The merged level sees what the child saw. *)
LEMMA MergeSeen ==
  ASSUME NEW us, NEW ts, NEW m \in Nat, NEW t, Merges(us, ts, m, t), NEW v, NEW x
  PROVE  Seen(v, us, m + 1, x) = Seen(v, ts, m + 2, x)
<1> DEFINE o == Pending(ts[m + 1], x)
           k == Pending(ts[m + 2], x)
           p == Pending(t, x)
           low == Seen(v, ts, m, x)
<1>1. Seen(v, us, m, x) = low
  <2>1. Written(us, m, x) = Written(ts, m, x)
    BY DEF Merges, Written
  <2> QED
    BY ONLY <2>1 DEF Seen
<1>2. us[m + 1] = t /\ p = Override(o, k)
  BY DEF Merges
<1>4. Seen(v, us, m + 1, x) = IF x \in DOMAIN p THEN p[x] ELSE low
  <2>1. Seen(v, us, m + 1, x) = IF x \in DOMAIN Pending(us[m + 1], x)
                                  THEN Pending(us[m + 1], x)[x] ELSE Seen(v, us, m, x)
    BY ONLY m \in Nat, SeenNext
  <2>2. Pending(us[m + 1], x) = p
    BY ONLY <1>2
  <2> HIDE DEF p, low
  <2> QED
    BY ONLY <1>1, <2>1, <2>2
<1>5. Seen(v, ts, m + 1, x) = IF x \in DOMAIN o THEN o[x] ELSE low
  BY ONLY m \in Nat, SeenNext
<1>6. Seen(v, ts, m + 2, x) = IF x \in DOMAIN k THEN k[x] ELSE Seen(v, ts, m + 1, x)
  <2> DEFINE n == m + 1
  <2>1. n \in Nat /\ n + 1 = m + 2
    OBVIOUS
  <2> HIDE DEF n
  <2>2. Seen(v, ts, n + 1, x) = IF x \in DOMAIN Pending(ts[n + 1], x)
                                  THEN Pending(ts[n + 1], x)[x] ELSE Seen(v, ts, n, x)
    BY ONLY <2>1, SeenNext
  <2> QED
    BY ONLY <2>1, <2>2 DEF n
<1> HIDE DEF o, k, p, low
<1>7. /\ DOMAIN p = DOMAIN o \cup DOMAIN k
      /\ \A y \in DOMAIN p : p[y] = IF y \in DOMAIN k THEN k[y] ELSE o[y]
  BY ONLY <1>2 DEF Override
<1> QED
  BY ONLY <1>4, <1>5, <1>6, <1>7

(* The merged level: the mutexes of both, the view of the child. *)
LEMMA MergeLevel ==
  ASSUME NEW us, NEW ts, NEW m \in Nat, NEW t, Merges(us, ts, m, t), NEW D
  PROVE  LevelOf(D, us, m + 1)
           = [held |-> LevelOf(D, ts, m + 1).held \cup LevelOf(D, ts, m + 2).held,
              view |-> LevelOf(D, ts, m + 2).view]
<1>1. /\ Below(us, m + 1) = Below(us, m) \cup t.mutexIds
      /\ Below(ts, m + 2) = Below(ts, m) \cup ts[m + 1].mutexIds \cup ts[m + 2].mutexIds
  <2>1. /\ 1 .. m + 1 = (1 .. m) \cup {m + 1}
        /\ 1 .. m + 2 = (1 .. m) \cup {m + 1} \cup {m + 2}
    OBVIOUS
  <2>2. us[m + 1] = t
    BY DEF Merges
  <2> QED
    BY ONLY <2>1, <2>2 DEF Below
<1>2. Below(us, m) = Below(ts, m) /\ us[m + 1].mutexIds = t.mutexIds
  BY DEF Merges, Below
<1>3. t.mutexIds = ts[m + 1].mutexIds \cup ts[m + 2].mutexIds
  BY DEF Merges
<1>4. Below(us, m + 1) = Below(ts, m + 2)
  BY ONLY <1>1, <1>2, <1>3
<1> DEFINE K == {y \in DOMAIN D : GuardOf[y] \in Below(ts, m + 2)}
<1> HIDE DEF K
<1>5. [x \in K |-> Seen(D[x], us, m + 1, x)] = [x \in K |-> Seen(D[x], ts, m + 2, x)]
  <2>1. \A x \in K : Seen(D[x], us, m + 1, x) = Seen(D[x], ts, m + 2, x)
    BY MergeSeen
  <2> QED
    BY ONLY <2>1
<1>6. LevelOf(D, us, m + 1) = [held |-> t.mutexIds, view |-> [x \in K |-> Seen(D[x], us, m + 1, x)]]
  BY ONLY <1>2, <1>4 DEF LevelOf, K
<1>7. /\ LevelOf(D, ts, m + 1).held = ts[m + 1].mutexIds
      /\ LevelOf(D, ts, m + 2).held = ts[m + 2].mutexIds
      /\ LevelOf(D, ts, m + 2).view = [x \in K |-> Seen(D[x], ts, m + 2, x)]
  BY ONLY TRUE DEF LevelOf, K
<1> QED
  BY ONLY <1>3, <1>5, <1>6, <1>7
(* The commit of a nested transaction. *)
LEMMA NestedStep ==
  ASSUME TxnInv, WriteInv, TxnInv', WriteInv', NEW c \in Contexts, Alone(c), EndNested(c)
  PROVE  Abs!AbsNext
<1> DEFINE ts == txns[c]
           rest == Pop(ts)
           m == Len(Pop(rest))
           t == MergeInto(Top(rest), Top(ts))
           us == Append(Pop(rest), t)
           D == CommittedData
           L == LevelsOf(D, ts)
           R == LevelsOf(D, rest)
<1>1. /\ ts \in Seq(Txns(program)) /\ ts # <<>>
      /\ rest \in Seq(Txns(program)) /\ rest # <<>>
      /\ Pop(rest) \in Seq(Txns(program)) /\ t \in Txns(program)
      /\ txns' = [txns EXCEPT ![c] = us]
  BY MergedStack
<1>2. /\ pc[c] = "run" /\ pc'[c] = "run" /\ UNCHANGED heapVars /\ program' = program
      /\ txns'[c] = us
  BY <1>1 DEF EndNested, heapVars, TxnInv, ContextTypes
<1>3. D' = D
  <2>1. LateKeys(c) = {} /\ LateKeys(c)' = {}
    BY <1>2 DEF LateKeys
  <2> QED
    BY <1>2, <2>1, SameData
<1>4. Levels' = [Levels EXCEPT ![c] = LevelsOf(D, us)] /\ Levels[c] = L
  BY <1>2, <1>3, StackMoves
<1>5. /\ m \in Nat /\ Len(rest) = m + 1 /\ Len(ts) = m + 2
      /\ Top(rest) = ts[m + 1] /\ Top(ts) = ts[m + 2] /\ rest[m + 1] = ts[m + 1]
      /\ \A i \in 1 .. m : Pop(rest)[i] = ts[i] /\ rest[i] = ts[i]
  <2>1. /\ Len(ts) \in Nat \ {0} /\ Len(rest) = Len(ts) - 1
        /\ \A i \in 1 .. Len(ts) - 1 : rest[i] = ts[i]
    BY <1>1, PopFacts
  <2>2. /\ Len(rest) \in Nat \ {0} /\ m = Len(rest) - 1
        /\ \A i \in 1 .. Len(rest) - 1 : Pop(rest)[i] = rest[i]
    BY <1>1, PopFacts
  <2> HIDE DEF ts, rest, m
  <2>3. m \in Nat /\ Len(rest) = m + 1 /\ Len(ts) = m + 2
    BY ONLY <2>1, <2>2
  <2>4. \A i \in 1 .. m + 1 : rest[i] = ts[i]
    BY ONLY <2>1, <2>3
  <2>5. \A i \in 1 .. m : Pop(rest)[i] = rest[i] /\ i \in 1 .. m + 1
    BY ONLY <2>2, <2>3
  <2>6. m + 1 \in 1 .. m + 1
    BY ONLY <2>3
  <2> QED
    BY ONLY <2>3, <2>4, <2>5, <2>6 DEF Top
<1>6. us \in Seq(Txns(program)) /\ Len(us) = m + 1 /\ Merges(us, ts, m, t)
  <2>1. /\ us \in Seq(Txns(program)) /\ Len(us) = m + 1 /\ us[m + 1] = t
        /\ \A i \in 1 .. m : us[i] = Pop(rest)[i]
    BY <1>1, AppendProperties
  <2>2. \A x : Pending(t, x) = Override(Pending(Top(rest), x), Pending(Top(ts), x))
    BY DEF Pending, MergeInto
  <2>3. t.mutexIds = Top(rest).mutexIds \cup Top(ts).mutexIds
    BY DEF MergeInto
  <2> HIDE DEF us, ts, rest, t, m
  <2> QED
    BY ONLY <1>5, <2>1, <2>2, <2>3 DEF Merges
<1> HIDE DEF ts, rest, m, t, us, D, L, R
<1> DEFINE e == [held |-> R[m + 1].held \cup LevelOf(D, ts, m + 2).held,
                 view |-> LevelOf(D, ts, m + 2).view]
<1>7. /\ DOMAIN R = 1 .. m + 1 /\ Len(R) = m + 1
      /\ \A i \in 1 .. m + 1 : R[i] = LevelOf(D, ts, i)
  <2>1. DOMAIN R = 1 .. m + 1 /\ \A i \in 1 .. m + 1 : R[i] = LevelOf(D, rest, i)
    BY ONLY <1>5 DEF R, LevelsOf
  <2>2. Len(R) = m + 1
    BY <1>1, <1>5, LevelsShape DEF R
  <2>3. ASSUME NEW i \in 1 .. m + 1 PROVE LevelOf(D, rest, i) = LevelOf(D, ts, i)
    <3>1. i \in Nat /\ i # 0
      BY ONLY <1>5, i \in 1 .. m + 1
    <3>2. \A j \in 1 .. i : j \in 1 .. m \/ j = m + 1
      BY ONLY <1>5, i \in 1 .. m + 1
    <3>3. \A j \in 1 .. i : ts[j] = rest[j]
      BY ONLY <1>5, <3>2
    <3> QED
      BY <3>1, <3>3, PrefixLevel
  <2> QED
    BY ONLY <2>1, <2>2, <2>3
<1>8. LevelsOf(D, us) = [R EXCEPT ![m + 1] = e]
  <2> DEFINE U == LevelsOf(D, us)
  <2>1. U = [i \in 1 .. m + 1 |-> LevelOf(D, us, i)]
    BY ONLY <1>6 DEF LevelsOf
  <2>2. m + 1 \in 1 .. m + 1 /\ \A i \in 1 .. m + 1 : i # m + 1 => i \in 1 .. m
    BY ONLY <1>5
  <2>3. LevelOf(D, us, m + 1) = e
    <3>1. R[m + 1] = LevelOf(D, ts, m + 1)
      BY ONLY <1>7, <2>2
    <3> QED
      BY <1>5, <1>6, <3>1, MergeLevel
  <2>4. ASSUME NEW i \in 1 .. m PROVE LevelOf(D, us, i) = R[i]
    <3>1. i \in Nat /\ i # 0 /\ i \in 1 .. m + 1 /\ \A j \in 1 .. i : j \in 1 .. m
      BY ONLY <1>5, i \in 1 .. m
    <3>2. \A j \in 1 .. i : us[j] = ts[j]
      BY ONLY <1>6, <3>1 DEF Merges
    <3>3. LevelOf(D, us, i) = LevelOf(D, ts, i)
      BY <3>1, <3>2, PrefixLevel
    <3> QED
      BY ONLY <1>7, <3>1, <3>3
  <2> HIDE DEF e, U
  <2>5. U = [R EXCEPT ![m + 1] = e]
    BY ONLY <1>7, <2>1, <2>2, <2>3, <2>4
  <2> QED
    BY ONLY <2>5 DEF U
<1>9. Abs!Pop(L) = R /\ Abs!Top(L) = LevelOf(D, ts, m + 2)
  BY <1>1, <1>5, PopLevels DEF L, R, rest
<1>10. Len(L) > 1
  <2>1. Len(L) = m + 2
    BY <1>1, <1>5, LevelsShape DEF L
  <2> QED
    BY ONLY <1>5, <2>1
<1>11. Abs!AbsCommitNested(c)
  <2>1. Levels' = [Levels EXCEPT ![c] = [R EXCEPT ![Len(R)] =
          [held |-> R[Len(R)].held \cup Abs!Top(L).held, view |-> Abs!Top(L).view]]]
    BY <1>4, <1>7, <1>8, <1>9
  <2> QED
    BY <1>3, <1>4, <1>9, <1>10, <2>1 DEF Abs!AbsCommitNested, D
<1> QED
  BY <1>11 DEF Abs!AbsNext

(* What EndOutermost does to the state of its context. *)
LEMMA OutermostIs ==
  ASSUME TxnInv, WriteInv, NEW c \in Contexts, EndOutermost(c)
  PROVE  /\ pc[c] = "run" /\ pc'[c] = "apply" /\ txns'[c] = <<>>
         /\ txns[c] \in Seq(Txns(program)) /\ Len(txns[c]) = 1 /\ StackHolds(txns[c])
         /\ txns[c][1] \in Txns(program) /\ cur'[c] = txns[c][1]
         /\ Covered(PendingKeys(txns[c][1]), Named(txns[c]))
         /\ cells' = cells /\ arrays' = arrays /\ program' = program
<1> DEFINE ts == txns[c]
<1>1. /\ pc[c] = "run" /\ pc'[c] = "apply" /\ txns'[c] = <<>> /\ Len(ts) = 1
      /\ cur'[c] = Top(ts) /\ cells' = cells /\ arrays' = arrays /\ program' = program
  BY DEF EndOutermost, Goto, TxnInv, ContextTypes, heapVars
<1>2. ts \in Seq(Txns(program)) /\ StackHolds(ts)
  BY OfContext DEF WriteInv, WritesHold
<1> HIDE DEF ts
<1>3. Top(ts) = ts[1] /\ 1 \in 1 .. Len(ts)
  BY <1>1 DEF Top
<1>4. ts[1] \in Txns(program)
  BY <1>2, <1>3
<1>5. Covered(PendingKeys(ts[1]), Named(ts))
  <2>1. Covered(PendingKeys(ts[1]), Below(ts, 1))
    BY <1>2, <1>3 DEF StackHolds
  <2>2. Below(ts, Len(ts)) = Named(ts)
    BY <1>2, BelowFacts
  <2> QED
    BY <1>1, <2>1, <2>2
<1> QED
  BY <1>1, <1>2, <1>3, <1>4, <1>5 DEF ts

(* The locations that are still to be written when the commit has begun. *)
LEMMA OutermostLate ==
  ASSUME TxnInv, WriteInv, NEW c \in Contexts, Alone(c), EndOutermost(c)
  PROVE  /\ LateKeys(c) = {} /\ LateKeys(c)' = PendingKeys(txns[c][1])
         /\ \A d \in Contexts \ {c} : LateKeys(d)' = LateKeys(d) /\ cur'[d] = cur[d]
         /\ \A d \in Contexts : \A x \in PendingKeys(txns[c][1]) : x \notin LateKeys(d)
<1>1. LateKeys(c) = {}
  BY OutermostIs DEF LateKeys
<1>2. LateKeys(c)' = PendingKeys(txns[c][1])
  BY OutermostIs DEF LateKeys, PendingKeys
<1>3. \A d \in Contexts \ {c} : LateKeys(d)' = LateKeys(d) /\ cur'[d] = cur[d]
  BY DEF Alone, LateKeys
<1>4. ASSUME NEW x \in PendingKeys(txns[c][1]) PROVE \A d \in Contexts : x \notin LateKeys(d)
  <2>1. GuardOf[x] \in Named(txns[c]) /\ pc[c] # "apply"
    BY OutermostIs DEF Covered
  <2> QED
    BY <2>1, NoneLate
<1> QED
  BY <1>1, <1>2, <1>3, <1>4

(* The commit changes the data to what its one level saw. *)
LEMMA OutermostData ==
  ASSUME TxnInv, WriteInv, TxnInv', WriteInv', NEW c \in Contexts, Alone(c), EndOutermost(c),
         NEW x \in DOMAIN CommittedData
  PROVE  /\ Committed(x)' = Seen(CommittedData[x], txns[c], 1, x)
         /\ x \notin PendingKeys(txns[c][1]) => Committed(x)' = CommittedData[x]
<1> DEFINE ts == txns[c]
           t == ts[1]
           v == CommittedData[x]
<1>1. /\ t \in Txns(program) /\ cur'[c] = t
      /\ cells' = cells /\ arrays' = arrays
  BY OutermostIs
<1>2. x \in DOMAIN Pending(t, x) <=> x \in PendingKeys(t)
  <2>1. x \in program.cells \cup program.arrays
    BY DataIs
  <2> QED
    BY <1>1, <2>1, KeysOf DEF Pending, PendingKeys
<1>3. v = Committed(x)
  BY DataIs
<1>4. Seen(v, ts, 1, x) = IF x \in DOMAIN Pending(t, x) THEN Pending(t, x)[x] ELSE v
  <2>1. 1 \in Nat \ {0} /\ 1 - 1 = 0
    OBVIOUS
  <2>2. Seen(v, ts, 0, x) = v
    BY SeenCommitted
  <2>3. Seen(v, ts, 1, x) = IF x \in DOMAIN Pending(ts[1], x) THEN Pending(ts[1], x)[x]
                                                            ELSE Seen(v, ts, 1 - 1, x)
    BY ONLY <2>1, SeenStep
  <2> QED
    BY ONLY <2>1, <2>2, <2>3
<1>5. CASE x \in PendingKeys(t)
  <2>1. \A d \in Contexts \ {c} : x \notin LateKeys(d)'
    BY <1>5, OutermostLate
  <2>2. x \in LateKeys(c)'
    BY <1>5, OutermostLate
  <2>3. Late(x)' = {c}
    BY <2>1, <2>2 DEF Late
  <2>4. OneOf({c}) = c
    BY DEF OneOf
  <2>5. Committed(x)' = Pending(cur'[OneOf(Late(x)')], x)[x]
    BY <2>3 DEF Committed, Pending
  <2>6. Committed(x)' = Pending(t, x)[x]
    BY <1>1, <2>3, <2>4, <2>5
  <2> QED
    BY <1>2, <1>4, <1>5, <2>6
<1>6. CASE x \notin PendingKeys(t)
  <2>1. \A d \in Contexts : x \in LateKeys(d)' <=> x \in LateKeys(d)
    BY <1>6, OutermostLate
  <2>2. \A d \in Contexts : x \in LateKeys(d) => Pending(cur'[d], x)[x] = Pending(cur[d], x)[x]
    <3> SUFFICES ASSUME NEW d \in Contexts, x \in LateKeys(d)
                 PROVE  Pending(cur'[d], x)[x] = Pending(cur[d], x)[x]
      OBVIOUS
    <3>1. d # c
      BY OutermostLate
    <3>2. cur'[d] = cur[d]
      BY <3>1 DEF Alone
    <3> QED
      BY <3>2
  <2>3. Committed(x)' = Committed(x)
    BY <1>1, <2>1, <2>2, CommittedStays
  <2> QED
    BY <1>2, <1>3, <1>4, <1>6, <2>3
<1> QED
  BY <1>5, <1>6

(* The outermost commit. *)
LEMMA CommitStep ==
  ASSUME TxnInv, WriteInv, TxnInv', WriteInv', NEW c \in Contexts, Alone(c), EndOutermost(c)
  PROVE  Abs!AbsNext
<1> DEFINE ts == txns[c]
           D == CommittedData
           L == LevelsOf(D, ts)
<1>1. /\ ts \in Seq(Txns(program)) /\ Len(ts) = 1 /\ StackHolds(ts) /\ txns'[c] = <<>>
      /\ program' = program
  BY OutermostIs
<1>2. Levels[c] = L
  BY DEF Levels
<1>3. Len(L) = 1
  <2>1. Len(ts) = 1 /\ Len(ts) \in Nat
    BY <1>1
  <2> QED
    BY ONLY <2>1, LevelsCount
<1>4. ASSUME NEW x \in DOMAIN D PROVE Committed(x)' = Abs!Visible(Levels[c], x)
  <2>1. Abs!Visible(L, x) = Seen(D[x], ts, Len(ts), x)
    BY <1>1, VisibleIs
  <2>2. Committed(x)' = Seen(D[x], ts, 1, x)
    BY OutermostData
  <2> QED
    BY <1>1, <1>2, <2>1, <2>2
<1>5. D' = [x \in DOMAIN D |-> Committed(x)']
  BY <1>1 DEF CommittedData
<1>6. D' = [x \in DOMAIN D |-> Abs!Visible(Levels[c], x)]
  BY <1>4, <1>5
<1>7. ASSUME NEW x \in DOMAIN D, GuardOf[x] \notin ownedMutexes[c] PROVE D'[x] = D[x]
  <2>1. x \notin PendingKeys(ts[1])
    BY <1>7, OutermostIs, OwnsNamed DEF Covered
  <2> QED
    BY <1>5, <2>1, OutermostData
<1>8. Levels' = [Levels EXCEPT ![c] = LevelsOf(D', txns'[c])]
  BY <1>1, <1>7, LevelsMove
<1>9. LevelsOf(D', txns'[c]) = <<>>
  BY <1>1 DEF LevelsOf
<1>10. Levels' = [Levels EXCEPT ![c] = <<>>]
  BY <1>8, <1>9
<1> HIDE DEF L, ts
<1>11. Abs!AbsCommit(c)
  BY <1>2, <1>3, <1>6, <1>10 DEF Abs!AbsCommit, Abs!Locations
<1> QED
  BY <1>11 DEF Abs!AbsNext

(* The program starts with data that all have values and no levels. *)
LEMMA InitIsAbsInit == Init => Abs!AbsInit
<1> SUFFICES ASSUME Init PROVE Abs!AbsInit
  OBVIOUS
<1>1. TxnInv
  BY InitEstablishesTxnInv
<1>2. /\ \A c \in Contexts : txns[c] = <<>> /\ pc[c] = "run"
      /\ cells \in [program.cells -> Values] /\ arrays \in [program.arrays -> Seq(Values)]
  <2>1. \A c \in Contexts : txns[c] = <<>> /\ pc[c] = "run"
    BY DEF Init
  <2> QED
    BY <1>1, <2>1 DEF TxnInv, HeapTypes
<1>3. \A x : \A d \in Contexts : x \notin LateKeys(d)
  BY <1>2 DEF LateKeys
<1>4. /\ program.cells \subseteq Cells /\ program.arrays \subseteq Arrays
      /\ Cells \cap Arrays = {}
  BY <1>1, EmptyTxn, KeysOf
<1>5. ASSUME NEW x \in DOMAIN CommittedData
      PROVE  IF x \in Cells THEN CommittedData[x] \in Values ELSE CommittedData[x] \in Seq(Values)
  <2>1. CommittedData[x] = IF x \in Cells THEN cells[x] ELSE arrays[x]
    BY <1>3, CommittedHeap, DataIs
  <2>2. x \in program.cells \/ x \in program.arrays
    BY DataIs
  <2> QED
    BY <1>2, <1>4, <2>1, <2>2
<1>6. Levels = [c \in Contexts |-> <<>>]
  <2>1. \A c \in Contexts : LevelsOf(CommittedData, txns[c]) = <<>>
    BY <1>2 DEF LevelsOf
  <2> QED
    BY <2>1 DEF Levels
<1> QED
  BY <1>5, <1>6 DEF Abs!AbsInit, Abs!Locations

(* Every step is a step of nested transactions or leaves the abstract      *)
(* state alone.                                                            *)
LEMMA NextIsAbsStep ==
  ASSUME TxnInv, WriteInv, TxnInv', WriteInv', NoRewrites, [Next]_vars
  PROVE  [Abs!AbsNext]_(Abs!absVars)
<1>1. ASSUME NEW c \in Contexts, Work(c) PROVE Abs!AbsNext \/ UNCHANGED Abs!absVars
  <2>1. Alone(c)
    BY <1>1, OthersStay
  <2>2. CASE \E ms \in (SUBSET Mutexes) \ {{}} : BeginTransaction(c, ms)
    BY <2>1, <2>2, QuietSteps
  <2>3. CASE \E x \in program.cells, v \in Values : SetCell(c, x, v)
    BY <2>1, <2>3, SetCellStep
  <2>4. CASE \E a \in program.arrays, i \in 1 .. MaxLen, v \in Values : SetArrayElement(c, a, i, v)
    BY <2>1, <2>4, ArrayStep
  <2>5. CASE \E a \in program.arrays, v \in Values : PushArrayElement(c, a, v)
    BY <2>1, <2>5, ArrayStep
  <2>6. CASE \E a \in program.arrays : PopArrayElement(c, a)
    BY <2>1, <2>6, ArrayStep
  <2>7. CASE EndNested(c)
    BY <2>1, <2>7, NestedStep
  <2>8. CASE EndOutermost(c)
    BY <2>1, <2>8, CommitStep
  <2>9. CASE \E depth \in 0 .. program.depth[c], ends \in {"no", "return"} : Return(c, depth, ends)
    BY <2>1, <2>9, QuietSteps
  <2>10. CASE Fail(c)
    BY <2>1, <2>10, QuietSteps
  <2> QED
    BY <1>1, <2>2, <2>3, <2>4, <2>5, <2>6, <2>7, <2>8, <2>9, <2>10 DEF Work
<1>2. ASSUME NEW c \in Contexts, Step(c) PROVE Abs!AbsNext \/ UNCHANGED Abs!absVars
  <2>1. Alone(c)
    BY <1>2, OthersStay
  <2>2. CASE LockReadOwner(c) \/ LockWouldDeadlock(c) \/ LockTry(c) \/ LockRecheck(c) \/ GiveUp(c)
    BY <2>1, <2>2, QuietSteps
  <2>3. CASE Begun(c)
    BY <2>1, <2>3, BegunStep
  <2>4. CASE (\E x \in program.cells : ApplyCell(c, x)) \/ (\E a \in program.arrays : ApplyArray(c, a))
    BY <2>1, <2>4, ApplySteps
  <2>5. CASE \/ \E x \in program.cells : RestoreCell(c, x)
             \/ \E a \in program.arrays : RestoreArray(c, a)
    BY <2>1, <2>5, QuietSteps
  <2>6. CASE ReleaseCommitted(c) \/ ReleaseUnwound(c) \/ Unwound(c)
    BY <2>1, <2>6, QuietSteps
  <2>7. CASE UnwindPop(c)
    BY <2>1, <2>7, RollbackStep
  <2> QED
    BY <1>2, <2>2, <2>3, <2>4, <2>5, <2>6, <2>7 DEF Step
<1>3. CASE UNCHANGED vars
  <2>1. CommittedData' = CommittedData
    BY <1>3 DEF vars, heapVars, localVars, CommittedData, Committed, Late, LateKeys, Pending
  <2>2. Levels' = Levels
    BY <1>3, <2>1 DEF vars, Levels
  <2> QED
    BY <2>1, <2>2 DEF Abs!absVars
<1> QED
  BY <1>1, <1>2, <1>3 DEF Next

(* The program is chosen once. *)
LEMMA ProgramStays == NoRewrites /\ [Next]_vars => NoRewrites'
<1> SUFFICES ASSUME NoRewrites, [Next]_vars PROVE NoRewrites'
  OBVIOUS
<1>1. ASSUME NEW c \in Contexts, Work(c) PROVE program' = program
  <2>1. CASE \/ \E ms \in (SUBSET Mutexes) \ {{}} : BeginTransaction(c, ms)
             \/ \E x \in program.cells, v \in Values : SetCell(c, x, v)
             \/ EndNested(c) \/ EndOutermost(c) \/ Fail(c)
    BY <2>1 DEF BeginTransaction, SetCell, EndNested, EndOutermost, Fail, heapVars
  <2>2. CASE \/ \E a \in program.arrays, i \in 1 .. MaxLen, v \in Values : SetArrayElement(c, a, i, v)
             \/ \E a \in program.arrays, v \in Values : PushArrayElement(c, a, v)
             \/ \E a \in program.arrays : PopArrayElement(c, a)
    BY <2>2 DEF SetArrayElement, PushArrayElement, PopArrayElement, BufferArray, heapVars
  <2>3. CASE \E depth \in 0 .. program.depth[c], ends \in {"no", "return"} : Return(c, depth, ends)
    BY <2>3 DEF Return, heapVars
  <2> QED
    BY <1>1, <2>1, <2>2, <2>3 DEF Work
<1>2. ASSUME NEW c \in Contexts, Step(c) PROVE program' = program
  <2>1. CASE LockReadOwner(c) \/ LockWouldDeadlock(c) \/ LockRecheck(c) \/ Begun(c)
    BY <2>1 DEF LockReadOwner, LockWouldDeadlock, LockRecheck, Begun, heapVars
  <2>2. CASE LockTry(c) \/ GiveUp(c) \/ Unwound(c)
    BY <2>2 DEF LockTry, GiveUp, Unwound, heapVars
  <2>3. CASE ReleaseCommitted(c) \/ ReleaseUnwound(c) \/ UnwindPop(c)
    BY <2>3 DEF ReleaseCommitted, ReleaseUnwound, UnwindPop, heapVars
  <2>4. CASE \/ \E x \in program.cells : ApplyCell(c, x) \/ RestoreCell(c, x)
             \/ \E a \in program.arrays : ApplyArray(c, a) \/ RestoreArray(c, a)
    BY <2>4 DEF ApplyCell, RestoreCell, ApplyArray, RestoreArray
  <2> QED
    BY <1>2, <2>1, <2>2, <2>3, <2>4 DEF Step
<1>3. program' = program
  BY <1>1, <1>2 DEF Next, vars, heapVars
<1> QED
  BY <1>3 DEF NoRewrites

(* Buffering, merging, late writing and unwinding implement nested         *)
(* transactions, for every number of contexts, mutexes, locations and      *)
(* levels, in every program in which a nested transaction leaves alone the *)
(* arrays that an enclosing one has written.                               *)
THEOREM RefinementTheorem == Spec /\ NoRewrites => ImplementsNestedTransactions
<1>1. TxnInv /\ TxnInv' /\ WriteInv /\ WriteInv' /\ NoRewrites /\ [Next]_vars
        => [Abs!AbsNext]_(Abs!absVars)
  BY NextIsAbsStep
<1> QED
  BY <1>1, InitIsAbsInit, ProgramStays, TxnInvariance, WriteInvariance, PTL
     DEF Spec, Abs!AbsSpec, ImplementsNestedTransactions
=============================================================================

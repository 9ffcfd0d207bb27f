--------------------------- MODULE LockOrder_proofs ---------------------------
(***************************************************************************)
(* If every section follows the acquisition order, no number of threads    *)
(* running them ever deadlocks.  The invariant says what a held lock means *)
(* for the rest of its holder's section; the argument then looks at a      *)
(* thread that waits for a lock of the highest rank any thread waits for.  *)
(* The sections of the server do follow it, but for the close of an        *)
(* ignored file.                                                           *)
(***************************************************************************)
EXTENDS ServerLocks, FiniteSetTheorems, TLAPS

\* The thread is inside the scope of a guard on this lock.
Holds(t, l) == t \in readers[l] \/ (writer[l] = t /\ ~Waits(t, l))

\* Whoever holds a lock will drop it, taking only later ones before.
HoldersGoOn == \A t \in Threads, l \in Locks : Holds(t, l) => Guarded(todo[t], 0, l)

LockInv == TypeOK /\ FollowsOrder /\ HoldersGoOn

-----------------------------------------------------------------------------
(* Sections, one operation at a time.                                      *)

\* A section past its first operation.
LEMMA TailFacts ==
  ASSUME NEW s \in Seq(Ops), s # <<>>
  PROVE  /\ Len(s) \in Nat \ {0}
         /\ Head(s) = s[1] /\ Head(s) \in Ops
         /\ Tail(s) \in Seq(Ops)
         /\ Len(Tail(s)) = Len(s) - 1
         /\ \A n \in 1..Len(Tail(s)) : Tail(s)[n] = s[n + 1]
  OBVIOUS

\* At the end of a section nothing is guarded any more.
LEMMA NothingGuarded == \A l : ~Guarded(<<>>, 0, l)
  BY DEF Guarded

\* A guard found past the first i + 1 operations is found past the first i of the rest.
LEMMA TailGuarded ==
  ASSUME NEW s \in Seq(Ops), s # <<>>, NEW i \in Nat, NEW l, Guarded(s, i + 1, l)
  PROVE  Guarded(Tail(s), i, l)
<1>1. PICK k \in ((i + 1) + 1)..Len(s) :
        /\ s[k] = [op |-> "drop", lock |-> l]
        /\ \A n \in ((i + 1) + 1)..(k - 1) :
             /\ s[n] # [op |-> "drop", lock |-> l]
             /\ Acquires(s[n]) => Rank[l] < Rank[s[n].lock]
  BY DEF Guarded
<1>2. k - 1 \in (i + 1)..Len(Tail(s)) /\ Tail(s)[k - 1] = s[k]
  BY <1>1, TailFacts
<1>3. \A n \in (i + 1)..((k - 1) - 1) : n + 1 \in ((i + 1) + 1)..(k - 1) /\ Tail(s)[n] = s[n + 1]
  BY <1>1, TailFacts
<1> QED  BY <1>1, <1>2, <1>3 DEF Guarded

\* Any operation but its own drop leaves a lock guarded, and comes later in the order.
LEMMA StillGuarded ==
  ASSUME NEW s \in Seq(Ops), s # <<>>, NEW l, Guarded(s, 0, l),
         Head(s) # [op |-> "drop", lock |-> l]
  PROVE  Guarded(Tail(s), 0, l) /\ (Acquires(Head(s)) => Rank[l] < Rank[Head(s).lock])
<1>1. Guarded(s, 1, l) /\ (Acquires(Head(s)) => Rank[l] < Rank[Head(s).lock])
  BY TailFacts DEF Guarded
<1> QED  BY <1>1, TailGuarded

\* The rest of an ordered section is ordered, and guards the lock just taken.
LEMMA TailOrdered ==
  ASSUME NEW s \in Seq(Ops), s # <<>>, Ordered(s)
  PROVE  /\ Ordered(Tail(s))
         /\ Acquires(Head(s)) => Guarded(Tail(s), 0, Head(s).lock)
<1>1. Acquires(Head(s)) => Guarded(Tail(s), 0, Head(s).lock)
  BY TailFacts, TailGuarded DEF Ordered
<1>2. ASSUME NEW i \in 1..Len(Tail(s)), Acquires(Tail(s)[i])
      PROVE  Guarded(Tail(s), i, Tail(s)[i].lock)
  <2>1. i + 1 \in 1..Len(s) /\ Tail(s)[i] = s[i + 1] /\ i \in Nat
    BY TailFacts
  <2>2. Guarded(s, i + 1, s[i + 1].lock)
    BY <1>2, <2>1 DEF Ordered
  <2> QED  BY <2>1, <2>2, TailGuarded
<1> QED  BY <1>1, <1>2 DEF Ordered

-----------------------------------------------------------------------------
(* The invariant.                                                          *)

\* Initially nobody is in a section and nobody holds anything.
LEMMA InitInv == Init => LockInv
<1> SUFFICES ASSUME Init PROVE LockInv
  OBVIOUS
<1>1. TypeOK
  BY DEF Init, TypeOK
<1>2. FollowsOrder
  BY DEF Init, FollowsOrder, Ordered
<1>3. HoldersGoOn
  BY LockOrderAssumption DEF Init, HoldersGoOn, Holds
<1> QED  BY <1>1, <1>2, <1>3 DEF LockInv

\* What Advance does to the threads.
LEMMA AdvanceFacts ==
  ASSUME TypeOK, NEW t \in Threads, Busy(t), Advance(t)
  PROVE  /\ todo' \in [Threads -> Seq(Ops)]
         /\ todo'[t] = Tail(todo[t])
         /\ \A u \in Threads \ {t} : todo'[u] = todo[u]
BY TailFacts DEF TypeOK, Busy, Advance

\* Every step keeps the invariant.
LEMMA StepInv ==
  ASSUME Disciplined, LockInv, [Next]_vars
  PROVE  LockInv'
<1> USE DEF LockInv
<1>1. CASE UNCHANGED vars
  BY <1>1 DEF vars, TypeOK, FollowsOrder, HoldersGoOn, Holds, Waits, Busy
<1>2. ASSUME NEW t \in Threads, Begin(t)
      PROVE  LockInv'
  <2>1. PICK s \in Sections : todo' = [todo EXCEPT ![t] = s]
    BY <1>2 DEF Begin
  <2>2. s \in Seq(Ops) /\ s # <<>> /\ Ordered(s)
    BY LockOrderAssumption DEF Disciplined
  <2>3. /\ todo' \in [Threads -> Seq(Ops)] /\ todo'[t] = s
        /\ \A u \in Threads \ {t} : todo'[u] = todo[u]
    BY <2>1, <2>2 DEF TypeOK
  <2>4. todo[t] = <<>> /\ t \notin claiming
    BY <1>2 DEF Begin, Busy, TypeOK
  <2>5. UNCHANGED <<readers, writer, claiming>>
    BY <1>2 DEF Begin
  <2>6. \A l \in Locks : ~Holds(t, l)
    BY <2>4, NothingGuarded DEF HoldersGoOn
  <2>7. TypeOK'
    <3>1. \A u \in claiming : u \in Threads \ {t}
      BY <2>4 DEF TypeOK
    <3> QED  BY <2>3, <2>5, <3>1 DEF TypeOK, Busy, Waits
  <2>8. FollowsOrder'
    BY <2>2, <2>3 DEF FollowsOrder
  <2>9. HoldersGoOn'
    <3> SUFFICES ASSUME NEW u \in Threads, NEW l \in Locks, Holds(u, l)'
                 PROVE  Guarded(todo'[u], 0, l)
      BY DEF HoldersGoOn, Guarded
    <3>1. CASE u = t
      BY <3>1, <2>4, <2>5, <2>6 DEF Holds, Waits
    <3>2. CASE u # t
      BY <3>2, <2>3, <2>5 DEF Holds, Waits, HoldersGoOn
    <3> QED  BY <3>1, <3>2
  <2> QED  BY <2>7, <2>8, <2>9
<1>3. ASSUME NEW t \in Threads, Read(t)
      PROVE  LockInv'
  <2> DEFINE m == Head(todo[t]).lock
  <2>1. /\ Busy(t) /\ todo[t] \in Seq(Ops) /\ todo[t] # <<>> /\ Ordered(todo[t])
        /\ Head(todo[t]).op = "read" /\ m \in Locks /\ writer[m] = Nobody
        /\ readers' = [readers EXCEPT ![m] = @ \cup {t}]
        /\ UNCHANGED <<writer, claiming>> /\ Advance(t)
    BY <1>3, TailFacts DEF Read, TypeOK, Busy, FollowsOrder, Ops
  <2>2. /\ todo' \in [Threads -> Seq(Ops)] /\ todo'[t] = Tail(todo[t])
        /\ \A u \in Threads \ {t} : todo'[u] = todo[u]
    BY <2>1, AdvanceFacts
  <2>3. Ordered(Tail(todo[t])) /\ Guarded(Tail(todo[t]), 0, m)
    BY <2>1, TailOrdered DEF Acquires
  <2>4. t \notin claiming
    BY <2>1 DEF TypeOK
  <2>5. TypeOK'
    <3>1. \A u \in claiming : u \in Threads \ {t}
      BY <2>4 DEF TypeOK
    <3>2. readers' \in [Locks -> SUBSET Threads]
      BY <2>1 DEF TypeOK
    <3>3. \A l \in Locks \ {m} : readers'[l] = readers[l]
      BY <2>1 DEF TypeOK
    <3>4. \A l \in Locks : writer'[l] = Nobody \/ readers'[l] = {} \/ Waits(writer[l], l)'
      BY <2>1, <2>2, <3>1, <3>3 DEF TypeOK, Waits
    <3> QED  BY <2>1, <2>2, <3>1, <3>2, <3>4 DEF TypeOK, Busy, Waits
  <2>6. FollowsOrder'
    BY <2>2, <2>3 DEF FollowsOrder
  <2>7. HoldersGoOn'
    <3> SUFFICES ASSUME NEW u \in Threads, NEW l \in Locks, Holds(u, l)'
                 PROVE  Guarded(todo'[u], 0, l)
      BY DEF HoldersGoOn, Guarded
    <3>1. CASE u = t /\ l = m
      BY <3>1, <2>2, <2>3
    <3>2. CASE u = t /\ l # m
      <4>1. Holds(t, l)
        BY <3>2, <2>1, <2>4 DEF Holds, Waits, TypeOK
      <4>2. Head(todo[t]) # [op |-> "drop", lock |-> l]
        BY <2>1
      <4> QED  BY <3>2, <4>1, <4>2, <2>1, <2>2, StillGuarded DEF HoldersGoOn
    <3>3. CASE u # t
      <4>1. Holds(u, l)
        BY <3>3, <2>1, <2>2 DEF Holds, Waits, TypeOK
      <4> QED  BY <3>3, <4>1, <2>2 DEF HoldersGoOn
    <3> QED  BY <3>1, <3>2, <3>3
  <2> QED  BY <2>5, <2>6, <2>7
<1>4. ASSUME NEW t \in Threads, Claim(t)
      PROVE  LockInv'
  <2> DEFINE m == Head(todo[t]).lock
  <2>1. /\ Busy(t) /\ Head(todo[t]).op = "write" /\ t \notin claiming
        /\ m \in Locks /\ writer[m] = Nobody
        /\ writer' = [writer EXCEPT ![m] = t] /\ claiming' = claiming \cup {t}
        /\ UNCHANGED <<todo, readers>>
    BY <1>4, TailFacts DEF Claim, TypeOK, Busy, Ops
  <2>2. writer'[m] = t /\ \A l \in Locks \ {m} : writer'[l] = writer[l]
    BY <2>1 DEF TypeOK
  <2>3. \A u \in Threads, l \in Locks : Waits(u, l) => Waits(u, l)'
    BY <2>1 DEF Waits
  <2>4. Waits(t, m)'
    BY <2>1 DEF Waits
  <2>5. TypeOK'
    <3>1. ASSUME NEW u \in claiming'
          PROVE  Busy(u)' /\ Head(todo'[u]).op = "write" /\ writer'[Head(todo'[u]).lock] = u
      <4>1. CASE u = t
        BY <4>1, <2>1, <2>2 DEF Busy
      <4>2. CASE u # t
        <5>1. u \in claiming /\ u \in Threads
          BY <4>2, <2>1 DEF TypeOK
        <5>2. Busy(u) /\ Head(todo[u]).op = "write" /\ writer[Head(todo[u]).lock] = u
              /\ Head(todo[u]).lock \in Locks
          BY <5>1, TailFacts DEF TypeOK, Busy, Ops
        <5> QED  BY <5>1, <5>2, <2>1, <2>2, LockOrderAssumption DEF Busy
      <4> QED  BY <4>1, <4>2
    <3>2. ASSUME NEW l \in Locks
          PROVE  (writer[l] = Nobody \/ readers[l] = {} \/ Waits(writer[l], l))'
      <4>1. CASE l = m
        BY <4>1, <2>1, <2>2 DEF Waits
      <4>2. CASE l # m
        BY <4>2, <2>1, <2>2 DEF TypeOK, Waits
      <4> QED  BY <4>1, <4>2
    <3> QED  BY <2>1, <3>1, <3>2 DEF TypeOK
  <2>6. FollowsOrder'
    BY <2>1 DEF FollowsOrder
  <2>7. ASSUME NEW u \in Threads, NEW l \in Locks, Holds(u, l)'
        PROVE  Holds(u, l)
    BY <2>7, <2>1, <2>2, <2>3, <2>4 DEF Holds, Waits
  <2>8. HoldersGoOn'
    BY <2>1, <2>7 DEF HoldersGoOn
  <2> QED  BY <2>5, <2>6, <2>8
<1>5. ASSUME NEW t \in Threads, Enter(t)
      PROVE  LockInv'
  <2> DEFINE m == Head(todo[t]).lock
  <2>1. /\ Busy(t) /\ todo[t] \in Seq(Ops) /\ todo[t] # <<>> /\ Ordered(todo[t])
        /\ Head(todo[t]).op = "write" /\ m \in Locks /\ t \in claiming
        /\ writer[m] = t /\ readers[m] = {} /\ claiming' = claiming \ {t}
        /\ UNCHANGED <<readers, writer>> /\ Advance(t)
    BY <1>5, TailFacts DEF Enter, TypeOK, Busy, FollowsOrder, Ops
  <2>2. /\ todo' \in [Threads -> Seq(Ops)] /\ todo'[t] = Tail(todo[t])
        /\ \A u \in Threads \ {t} : todo'[u] = todo[u]
    BY <2>1, AdvanceFacts
  <2>3. Ordered(Tail(todo[t])) /\ Guarded(Tail(todo[t]), 0, m)
    BY <2>1, TailOrdered DEF Acquires
  <2>4. \A u \in Threads, l \in Locks : u # t => Waits(u, l)' = Waits(u, l)
    BY <2>1, <2>2 DEF Waits
  <2>5. TypeOK'
    <3>1. \A u \in claiming' : /\ u \in claiming /\ u \in Threads \ {t}
                                /\ todo'[u] = todo[u]
      BY <2>1, <2>2 DEF TypeOK
    <3>2. \A l \in Locks : (writer[l] = Nobody \/ readers[l] = {} \/ Waits(writer[l], l))'
      BY <2>1, <2>2 DEF TypeOK, Waits
    <3> QED  BY <2>1, <2>2, <3>1, <3>2 DEF TypeOK, Busy
  <2>6. FollowsOrder'
    BY <2>2, <2>3 DEF FollowsOrder
  <2>7. HoldersGoOn'
    <3> SUFFICES ASSUME NEW u \in Threads, NEW l \in Locks, Holds(u, l)'
                 PROVE  Guarded(todo'[u], 0, l)
      BY DEF HoldersGoOn, Guarded
    <3>1. CASE u = t /\ l = m
      BY <3>1, <2>2, <2>3
    <3>2. CASE u = t /\ l # m
      <4>1. Holds(t, l)
        BY <3>2, <2>1 DEF Holds, Waits
      <4>2. Head(todo[t]) # [op |-> "drop", lock |-> l]
        BY <2>1
      <4> QED  BY <3>2, <4>1, <4>2, <2>1, <2>2, StillGuarded DEF HoldersGoOn
    <3>3. CASE u # t
      BY <3>3, <2>1, <2>2, <2>4 DEF Holds, HoldersGoOn
    <3> QED  BY <3>1, <3>2, <3>3
  <2> QED  BY <2>5, <2>6, <2>7
<1>6. ASSUME NEW t \in Threads, Drop(t)
      PROVE  LockInv'
  <2> DEFINE m == Head(todo[t]).lock
  <2>1. /\ Busy(t) /\ todo[t] \in Seq(Ops) /\ todo[t] # <<>> /\ Ordered(todo[t])
        /\ Head(todo[t]) \in Ops /\ Head(todo[t]).op = "drop" /\ m \in Locks
        /\ readers' = [readers EXCEPT ![m] = @ \ {t}]
        /\ writer' = IF writer[m] = t THEN [writer EXCEPT ![m] = Nobody] ELSE writer
        /\ UNCHANGED claiming /\ Advance(t)
    BY <1>6, TailFacts DEF Drop, TypeOK, Busy, FollowsOrder, Ops
  <2>2. /\ todo' \in [Threads -> Seq(Ops)] /\ todo'[t] = Tail(todo[t])
        /\ \A u \in Threads \ {t} : todo'[u] = todo[u]
    BY <2>1, AdvanceFacts
  <2>3. Ordered(Tail(todo[t]))
    BY <2>1, TailOrdered
  <2>4. t \notin claiming
    BY <2>1 DEF TypeOK
  <2>5. /\ readers' \in [Locks -> SUBSET Threads]
        /\ \A l \in Locks : readers'[l] \subseteq readers[l]
        /\ readers'[m] = readers[m] \ {t}
    BY <2>1 DEF TypeOK
  <2>6. /\ writer' \in [Locks -> Threads \cup {Nobody}]
        /\ \A l \in Locks : writer'[l] = writer[l] \/ writer'[l] = Nobody
        /\ writer'[m] # t
        /\ \A l \in Locks : writer[l] # t => writer'[l] = writer[l]
    BY <2>1, LockOrderAssumption DEF TypeOK
  <2>7. \A u \in claiming : u \in Threads \ {t} /\ todo'[u] = todo[u]
    BY <2>2, <2>4 DEF TypeOK
  <2>8. TypeOK'
    <3>1. \A u \in claiming' : (Busy(u) /\ Head(todo[u]).op = "write"
                                /\ writer[Head(todo[u]).lock] = u)'
      <4> SUFFICES ASSUME NEW u \in claiming
                   PROVE  todo'[u] # <<>> /\ Head(todo'[u]).op = "write"
                          /\ writer'[Head(todo'[u]).lock] = u
        BY <2>1 DEF Busy
      <4>1. /\ u \in Threads \ {t} /\ todo'[u] = todo[u] /\ todo[u] # <<>>
            /\ Head(todo[u]).op = "write" /\ writer[Head(todo[u]).lock] = u
        BY <2>7 DEF TypeOK, Busy
      <4>2. Head(todo[u]).lock \in Locks
        BY <4>1, TailFacts DEF TypeOK, Ops
      <4> QED  BY <4>1, <4>2, <2>6
    <3>2. \A l \in Locks : (writer[l] = Nobody \/ readers[l] = {} \/ Waits(writer[l], l))'
      BY <2>1, <2>2, <2>5, <2>6, <2>7 DEF TypeOK, Waits
    <3> QED  BY <2>1, <2>2, <2>5, <2>6, <3>1, <3>2 DEF TypeOK
  <2>9. FollowsOrder'
    BY <2>2, <2>3 DEF FollowsOrder
  <2>10. HoldersGoOn'
    <3> SUFFICES ASSUME NEW u \in Threads, NEW l \in Locks, Holds(u, l)'
                 PROVE  Guarded(todo'[u], 0, l)
      BY DEF HoldersGoOn, Guarded
    <3>1. Holds(u, l)
      BY <2>1, <2>2, <2>4, <2>5, <2>6, LockOrderAssumption DEF Holds, Waits
    <3>2. CASE u = t
      <4>1. l # m
        BY <3>2, <2>1, <2>5, <2>6 DEF Holds
      <4>2. Head(todo[t]) # [op |-> "drop", lock |-> l]
        BY <4>1
      <4> QED  BY <3>1, <3>2, <4>2, <2>1, <2>2, StillGuarded DEF HoldersGoOn
    <3>3. CASE u # t
      BY <3>1, <3>3, <2>2 DEF HoldersGoOn
    <3> QED  BY <3>2, <3>3
  <2> QED  BY <2>8, <2>9, <2>10
<1> QED  BY <1>1, <1>2, <1>3, <1>4, <1>5, <1>6 DEF Next

\* The shape of the state, with the meaning of an announced write.
THEOREM TypeCorrect == ASSUME Disciplined PROVE Spec => []TypeOK
<1>1. Init => LockInv
  BY InitInv
<1>2. LockInv /\ [Next]_vars => LockInv'
  BY StepInv
<1>3. LockInv => TypeOK
  BY DEF LockInv
<1> QED  BY <1>1, <1>2, <1>3, PTL DEF Spec

\* What remains of a section that follows the order follows it too.
THEOREM OrderKept == ASSUME Disciplined PROVE Spec => []FollowsOrder
<1>1. Init => LockInv
  BY InitInv
<1>2. LockInv /\ [Next]_vars => LockInv'
  BY StepInv
<1>3. LockInv => FollowsOrder
  BY DEF LockInv
<1> QED  BY <1>1, <1>2, <1>3, PTL DEF Spec

-----------------------------------------------------------------------------
(* Deadlock freedom.                                                       *)

Wanted(t) == Head(todo[t]).lock
Above(l) == {m \in Locks : Rank[m] > Rank[l]}

\* Where every thread in a section is blocked, whoever holds a lock wants a later one.
LEMMA HolderWantsMore ==
  ASSUME LockInv, \A t \in Threads : Busy(t) => ~CanMove(t),
         NEW u \in Threads, NEW l \in Locks, Holds(u, l)
  PROVE  Busy(u) /\ Wanted(u) \in Locks /\ Rank[l] < Rank[Wanted(u)]
<1>1. Guarded(todo[u], 0, l)
  BY DEF LockInv, HoldersGoOn
<1>2. Busy(u) /\ todo[u] \in Seq(Ops) /\ Head(todo[u]) \in Ops
  BY <1>1, NothingGuarded, TailFacts DEF Busy, LockInv, TypeOK
<1>3. Acquires(Head(todo[u])) /\ Head(todo[u]) # [op |-> "drop", lock |-> l]
  BY <1>2 DEF CanMove, Acquires, Ops
<1> QED  BY <1>1, <1>2, <1>3, StillGuarded DEF Busy, Wanted, Ops

\* Then every thread in a section has another behind a lock of higher rank.
LEMMA SomebodyWantsMore ==
  ASSUME LockInv, \A t \in Threads : Busy(t) => ~CanMove(t),
         NEW t \in Threads, Busy(t)
  PROVE  \E u \in Threads : Busy(u) /\ Wanted(u) \in Locks /\ Rank[Wanted(t)] < Rank[Wanted(u)]
<1> DEFINE l == Wanted(t)
<1>1. Head(todo[t]) \in Ops /\ l \in Locks /\ ~CanMove(t)
  BY TailFacts DEF LockInv, TypeOK, Busy, Ops, Wanted
<1>2. Acquires(Head(todo[t]))
  BY <1>1 DEF CanMove, Acquires, Ops
<1>3. ASSUME NEW u \in claiming, Waits(u, l)
      PROVE  \E w \in Threads : Holds(w, l)
  <2>1. u \in Threads /\ Busy(u) /\ ~CanMove(u) /\ Head(todo[u]).lock = l
    BY <1>3 DEF LockInv, TypeOK, Waits
  <2>2. readers[l] # {}
    BY <2>1, <1>3 DEF CanMove
  <2> QED  BY <2>2, <1>1 DEF Holds, LockInv, TypeOK
<1>4. \E w \in Threads : Holds(w, l)
  <2>1. CASE t \in claiming
    BY <2>1, <1>3 DEF Waits, Wanted
  <2>2. CASE t \notin claiming
    <3>1. writer[l] \in Threads
      BY <2>2, <1>1, <1>2 DEF CanMove, Wanted, LockInv, TypeOK
    <3> QED  BY <3>1, <1>3 DEF Holds, Waits
  <2> QED  BY <2>1, <2>2
<1> QED  BY <1>1, <1>4, HolderWantsMore

\* A thread that waits for a lock of maximal rank cannot be blocked.
LEMMA InvNoDeadlock == LockInv => NoDeadlock
<1> SUFFICES ASSUME LockInv, \A t \in Threads : Busy(t) => ~CanMove(t),
                    NEW t0 \in Threads, Busy(t0)
             PROVE  FALSE
  BY DEF NoDeadlock
<1> DEFINE Waiting == {t \in Threads : Busy(t)}
           T == {Above(Wanted(t)) : t \in Waiting}
<1>1. T # {} /\ T \subseteq FiniteSubsetsOf(Locks)
  <2>1. \A l : Above(l) \in FiniteSubsetsOf(Locks)
    BY LockOrderAssumption, FS_Subset DEF FiniteSubsetsOf, Above
  <2> QED  BY <2>1
<1>2. PICK x \in T : \A y \in T : <<y, x>> \notin StrictSubsetOrdering(Locks)
  <2>1. IsWellFoundedOn(StrictSubsetOrdering(Locks), FiniteSubsetsOf(Locks))
    BY FS_StrictSubsetOrderingWellFounded
  <2> HIDE DEF T
  <2> QED  BY <1>1, <2>1, WFMin
<1>3. PICK t \in Threads : Busy(t) /\ x = Above(Wanted(t))
  BY DEF Waiting
<1>4. PICK u \in Threads : Busy(u) /\ Wanted(u) \in Locks /\ Rank[Wanted(t)] < Rank[Wanted(u)]
  BY <1>3, SomebodyWantsMore
<1>5. Above(Wanted(u)) \in T
  BY <1>4
<1>6. Wanted(t) \in Locks
  BY <1>3, TailFacts DEF Wanted, LockInv, TypeOK, Busy, Ops
<1>7. /\ Above(Wanted(u)) \subseteq Above(Wanted(t))
      /\ Wanted(u) \in Above(Wanted(t)) /\ Wanted(u) \notin Above(Wanted(u))
  BY <1>4, <1>6, LockOrderAssumption DEF Above
<1>8. <<Above(Wanted(u)), x>> \in StrictSubsetOrdering(Locks)
  BY <1>3, <1>7 DEF StrictSubsetOrdering, Above
<1> QED  BY <1>2, <1>5, <1>8

\* A server whose sections follow the acquisition order never deadlocks, whatever the
\* number of threads: as long as one is in a section, one in a section can go on.
THEOREM DeadlockFree == ASSUME Disciplined PROVE Spec => []NoDeadlock
<1>1. Init => LockInv
  BY InitInv
<1>2. LockInv /\ [Next]_vars => LockInv'
  BY StepInv
<1> QED  BY <1>1, <1>2, InvNoDeadlock, PTL DEF Spec

-----------------------------------------------------------------------------
(* The sections of the server.  Each is built from scopes, one inside the  *)
(* other or one behind the other, and so is the proof that it is ordered.  *)

\* The section is ordered, and all its locks come after the place n.
Fits(s, n) == s \in Seq(Ops) /\ Ordered(s) /\ \A i \in 1..Len(s) : n < Rank[s[i].lock]
Place(l, i) == l \in Locks /\ Rank[l] = i

\* One section behind the other.
LEMMA FitsBoth ==
  ASSUME NEW a, NEW b, NEW n, Fits(a, n), Fits(b, n)
  PROVE  Fits(a \o b, n)
<1> DEFINE c == a \o b
<1>1. a \in Seq(Ops) /\ b \in Seq(Ops)
  BY DEF Fits
<1>2. /\ c \in Seq(Ops) /\ Len(a) \in Nat /\ Len(b) \in Nat /\ Len(c) = Len(a) + Len(b)
      /\ \A i \in 1..Len(a) : c[i] = a[i]
      /\ \A i \in 1..Len(b) : c[Len(a) + i] = b[i]
  BY <1>1
<1> HIDE DEF c
<1>3. ASSUME NEW i \in 1..Len(c) PROVE n < Rank[c[i].lock]
  <2>1. CASE i \in 1..Len(a)
    BY <1>2, <2>1 DEF Fits
  <2>2. CASE i - Len(a) \in 1..Len(b)
    <3>1. c[i] = b[i - Len(a)]
      BY <1>2, <2>2
    <3> QED
      BY <2>2, <3>1 DEF Fits
  <2> QED
    BY <1>2, <2>1, <2>2
<1>4. ASSUME NEW i \in 1..Len(c), Acquires(c[i]) PROVE Guarded(c, i, c[i].lock)
  <2>1. CASE i \in 1..Len(a)
    <3> DEFINE l == a[i].lock
    <3>1. c[i] = a[i] /\ Guarded(a, i, l)
      BY <1>2, <1>4, <2>1 DEF Fits, Ordered
    <3> HIDE DEF l
    <3>2. PICK k \in (i + 1)..Len(a) :
            /\ a[k] = [op |-> "drop", lock |-> l]
            /\ \A m \in (i + 1)..(k - 1) : /\ a[m] # [op |-> "drop", lock |-> l]
                                           /\ Acquires(a[m]) => Rank[l] < Rank[a[m].lock]
      BY <3>1 DEF Guarded
    <3>3. /\ k \in (i + 1)..Len(c) /\ c[k] = a[k]
          /\ \A m \in (i + 1)..(k - 1) : c[m] = a[m]
      BY <1>2, <2>1, <3>2
    <3>4. Guarded(c, i, l)
      BY <3>2, <3>3 DEF Guarded
    <3> QED
      BY <3>1, <3>4 DEF l
  <2>2. CASE i - Len(a) \in 1..Len(b)
    <3> DEFINE j == i - Len(a)
               l == b[j].lock
    <3>1. j \in 1..Len(b) /\ i = Len(a) + j /\ c[i] = b[j]
      BY <1>2, <2>2
    <3>2. Guarded(b, j, l)
      BY <1>4, <3>1 DEF Fits, Ordered
    <3> HIDE DEF l, j
    <3>3. PICK k \in (j + 1)..Len(b) :
            /\ b[k] = [op |-> "drop", lock |-> l]
            /\ \A m \in (j + 1)..(k - 1) : /\ b[m] # [op |-> "drop", lock |-> l]
                                           /\ Acquires(b[m]) => Rank[l] < Rank[b[m].lock]
      BY <3>2 DEF Guarded
    <3>4. Len(a) + k \in (i + 1)..Len(c) /\ c[Len(a) + k] = b[k]
      BY <1>2, <3>1, <3>3
    <3>5. ASSUME NEW m \in (i + 1)..((Len(a) + k) - 1)
          PROVE  m - Len(a) \in (j + 1)..(k - 1) /\ c[m] = b[m - Len(a)]
      <4>1. m - Len(a) \in (j + 1)..(k - 1) /\ m - Len(a) \in 1..Len(b) /\ m = Len(a) + (m - Len(a))
        BY <1>2, <3>1, <3>3
      <4> QED
        BY <1>2, <4>1
    <3>6. Guarded(c, i, l)
      BY <3>3, <3>4, <3>5 DEF Guarded
    <3> QED
      BY <3>1, <3>6 DEF l
  <2> QED
    BY <1>2, <2>1, <2>2
<1> QED
  BY <1>2, <1>3, <1>4 DEF Fits, Ordered, c

\* A guard around a section of later locks.
LEMMA FitsUnder ==
  ASSUME NEW mode \in {"read", "write"}, NEW l, NEW i \in Nat, Place(l, i), NEW n \in Nat, n < i,
         NEW body, Fits(body, i)
  PROVE  Fits(Under(mode, l, body), n)
<1> DEFINE take == [op |-> mode, lock |-> l]
           drop == [op |-> "drop", lock |-> l]
           u == <<take>> \o body \o <<drop>>
           end == Len(body) + 2
<1>1. body \in Seq(Ops) /\ take \in Ops /\ drop \in Ops
  BY DEF Fits, Place, Ops
<1>2. /\ take.op = mode /\ take.lock = l /\ drop.op = "drop" /\ drop.lock = l
      /\ ~Acquires(drop)
  BY DEF Acquires
<1> HIDE DEF take, drop
<1>3. /\ u \in Seq(Ops) /\ Len(body) \in Nat /\ Len(u) = end /\ u[1] = take /\ u[end] = drop
      /\ \A m \in 1..Len(body) : u[m + 1] = body[m]
  BY <1>1
<1>4. u = Under(mode, l, body)
  BY DEF Under, take, drop
<1> HIDE DEF u
<1>5. Rank[l] = i /\ \A m \in 1..Len(body) : i < Rank[body[m].lock]
  BY DEF Fits, Place
<1>6. \A m \in 1..Len(body) : body[m] # drop /\ n < Rank[body[m].lock]
  <2>1. ASSUME NEW m \in 1..Len(body) PROVE body[m] # drop /\ n < Rank[body[m].lock]
    <3>1. i < Rank[body[m].lock] /\ body[m] \in Ops
      BY <1>1, <1>5
    <3>2. body[m].lock \in Locks
      BY <3>1 DEF Ops
    <3>3. Rank[body[m].lock] \in Nat
      BY <3>2, LockOrderAssumption
    <3> QED
      BY <1>2, <1>5, <3>1, <3>3
  <2> QED
    BY <2>1
<1>7. ASSUME NEW m \in 1..Len(u) PROVE m = 1 \/ m = end \/ (m - 1 \in 1..Len(body) /\ u[m] = body[m - 1])
  <2>1. CASE m - 1 \in 1..Len(body)
    <3>1. (m - 1) + 1 = m
      OBVIOUS
    <3> QED
      BY <1>3, <2>1, <3>1
  <2> QED
    BY <1>3, <2>1
<1>8. \A m \in 1..Len(u) : n < Rank[u[m].lock]
  BY <1>2, <1>3, <1>5, <1>6, <1>7
<1>9. Guarded(u, 1, l)
  <2>1. end \in (1 + 1)..Len(u) /\ u[end] = [op |-> "drop", lock |-> l]
    BY <1>3 DEF drop
  <2>2. ASSUME NEW m \in (1 + 1)..(end - 1)
        PROVE  u[m] # [op |-> "drop", lock |-> l] /\ Rank[l] < Rank[u[m].lock]
    <3>1. m - 1 \in 1..Len(body) /\ u[m] = body[m - 1]
      BY <1>3, <1>7
    <3> QED
      BY <1>5, <1>6, <3>1 DEF drop
  <2> QED
    BY <2>1, <2>2 DEF Guarded
<1>10. ASSUME NEW j \in 1..Len(u), Acquires(u[j]) PROVE Guarded(u, j, u[j].lock)
  <2>1. CASE j = 1
    BY <1>2, <1>3, <1>9, <2>1
  <2>2. CASE j = end
    BY <1>2, <1>3, <1>10, <2>2
  <2>3. CASE j - 1 \in 1..Len(body) /\ u[j] = body[j - 1]
    <3> DEFINE h == body[j - 1].lock
    <3>1. Guarded(body, j - 1, h)
      BY <1>10, <2>3 DEF Fits, Ordered
    <3> HIDE DEF h
    <3>2. PICK k \in ((j - 1) + 1)..Len(body) :
            /\ body[k] = [op |-> "drop", lock |-> h]
            /\ \A m \in ((j - 1) + 1)..(k - 1) : /\ body[m] # [op |-> "drop", lock |-> h]
                                                 /\ Acquires(body[m]) => Rank[h] < Rank[body[m].lock]
      BY <3>1 DEF Guarded
    <3>3. k + 1 \in (j + 1)..Len(u) /\ u[k + 1] = body[k]
      BY <1>3, <2>3, <3>2
    <3>4. ASSUME NEW m \in (j + 1)..((k + 1) - 1)
          PROVE  m - 1 \in ((j - 1) + 1)..(k - 1) /\ u[m] = body[m - 1]
      <4>1. m - 1 \in ((j - 1) + 1)..(k - 1) /\ m - 1 \in 1..Len(body) /\ m = (m - 1) + 1
        BY <1>3, <2>3, <3>2
      <4> QED
        BY <1>3, <4>1
    <3>5. Guarded(u, j, h)
      BY <3>2, <3>3, <3>4 DEF Guarded
    <3> QED
      BY <2>3, <3>5 DEF h
  <2> QED
    BY <1>7, <2>1, <2>2, <2>3
<1> QED
  BY <1>3, <1>4, <1>8, <1>10 DEF Fits, Ordered

LEMMA FitsNothing == \A n : Fits(<<>>, n)
  BY DEF Fits, Ordered
LEMMA FitsTouch ==
  ASSUME NEW mode \in {"read", "write"}, NEW l, NEW i \in Nat, Place(l, i), NEW n \in Nat, n < i
  PROVE  Fits(Touch(mode, l), n)
  BY FitsNothing, FitsUnder DEF Touch

\* The server: its locks, their order and its sections but the close of an ignored file.
Server == Locks = ServerLockNames /\ Rank = ServerRank /\ Sections = OrdinarySections

\* No lock is twice in the order.
LEMMA OrderNamesOnce ==
  /\ Len(AcquisitionOrder) = 20
  /\ \A i, j \in 1..20 : AcquisitionOrder[i] = AcquisitionOrder[j] => i = j
  BY DEF AcquisitionOrder
LEMMA OrderRanks ==
  ASSUME Server, NEW i \in 1..20
  PROVE  Place(AcquisitionOrder[i], i)
<1> DEFINE l == AcquisitionOrder[i]
<1>1. Len(AcquisitionOrder) = 20 /\ \A j \in 1..20 : AcquisitionOrder[j] = l => j = i
  BY OrderNamesOnce
<1>2. l \in ServerLockNames
  BY <1>1 DEF ServerLockNames
<1> HIDE DEF l
<1>3. ServerRank[l] = CHOOSE j \in 1..20 : AcquisitionOrder[j] = l
  BY <1>1, <1>2 DEF ServerRank
<1>4. ServerRank[l] = i
  BY <1>1, <1>3 DEF l
<1> QED
  BY <1>2, <1>4 DEF Server, Place, l
LEMMA Places ==
  ASSUME Server
  PROVE  /\ Place("published_rule_uris", 1)
         /\ Place("doc_tokens", 2)
         /\ Place("documents", 3)
         /\ Place("rules", 4)
         /\ Place("vanilla_var_names", 5)
         /\ Place("vanilla_file_paths", 6)
         /\ Place("info_service", 7)
         /\ Place("loc_index", 8)
         /\ Place("loc_text", 9)
         /\ Place("config", 10)
         /\ Place("loc_live_overlay", 11)
         /\ Place("loc_watched_overlay", 12)
         /\ Place("loc_overlay_keys_cache", 13)
         /\ Place("type_uses", 14)
         /\ Place("type_uses_merged", 15)
         /\ Place("pending_changed_names", 16)
         /\ Place("watched_signatures", 17)
         /\ Place("completion_generation", 18)
         /\ Place("fresh_ast_cache", 19)
         /\ Place("fallback_cache", 20)
<1>1. /\ Place(AcquisitionOrder[1], 1)
      /\ Place(AcquisitionOrder[2], 2)
      /\ Place(AcquisitionOrder[3], 3)
      /\ Place(AcquisitionOrder[4], 4)
      /\ Place(AcquisitionOrder[5], 5)
      /\ Place(AcquisitionOrder[6], 6)
      /\ Place(AcquisitionOrder[7], 7)
      /\ Place(AcquisitionOrder[8], 8)
      /\ Place(AcquisitionOrder[9], 9)
      /\ Place(AcquisitionOrder[10], 10)
      /\ Place(AcquisitionOrder[11], 11)
      /\ Place(AcquisitionOrder[12], 12)
      /\ Place(AcquisitionOrder[13], 13)
      /\ Place(AcquisitionOrder[14], 14)
      /\ Place(AcquisitionOrder[15], 15)
      /\ Place(AcquisitionOrder[16], 16)
      /\ Place(AcquisitionOrder[17], 17)
      /\ Place(AcquisitionOrder[18], 18)
      /\ Place(AcquisitionOrder[19], 19)
      /\ Place(AcquisitionOrder[20], 20)
  BY OrderRanks
<1> QED
  BY <1>1 DEF AcquisitionOrder

LEMMA LocOverlayKeysFits ==
  ASSUME Server, NEW n \in 0..10
  PROVE  Fits(LocOverlayKeys, n)
<1>1. n \in Nat
  OBVIOUS
<1>2. /\ Fits(Touch("write", "loc_overlay_keys_cache"), n)
      /\ Fits(Touch("read", "loc_live_overlay"), n)
      /\ Fits(Touch("read", "loc_watched_overlay"), n)
  BY <1>1, Places, FitsTouch
<1> QED
  BY <1>2, FitsBoth DEF LocOverlayKeys
LEMMA RefreshTypeUsesFits ==
  ASSUME Server, NEW n \in 0..13
  PROVE  Fits(RefreshTypeUses, n)
<1>1. n \in Nat
  OBVIOUS
<1>2. /\ Fits(Touch("write", "type_uses"), n)
      /\ Fits(Touch("write", "pending_changed_names"), n)
  BY <1>1, Places, FitsTouch
<1> QED
  BY <1>2, FitsBoth DEF RefreshTypeUses
LEMMA UnusedInstanceErrorsFits ==
  ASSUME Server, NEW n \in 0..13
  PROVE  Fits(UnusedInstanceErrors, n)
<1>1. n \in Nat
  OBVIOUS
<1>2. /\ Fits(Touch("write", "type_uses_merged"), n)
      /\ Fits(Touch("read", "type_uses"), n)
  BY <1>1, Places, FitsTouch
<1> QED
  BY <1>2, RefreshTypeUsesFits, FitsBoth DEF UnusedInstanceErrors
LEMMA ClearIgnoredFileStateFits ==
  ASSUME Server, NEW n \in 0..0
  PROVE  Fits(ClearIgnoredFileState, n)
<1>1. n \in Nat
  OBVIOUS
<1>2. /\ Fits(Touch("read", "config"), n)
      /\ Fits(Touch("write", "info_service"), n)
      /\ Fits(Touch("write", "doc_tokens"), n)
      /\ Fits(Touch("write", "loc_live_overlay"), n)
      /\ Fits(Touch("write", "loc_watched_overlay"), n)
      /\ Fits(Touch("write", "watched_signatures"), n)
  BY <1>1, Places, FitsTouch
<1> QED
  BY <1>2, RefreshTypeUsesFits, FitsBoth DEF ClearIgnoredFileState
LEMMA CloseTailFits ==
  ASSUME Server, NEW n \in 0..3
  PROVE  Fits(CloseTail, n)
<1>1. n \in Nat
  OBVIOUS
<1>2. /\ Fits(Touch("write", "loc_live_overlay"), n)
      /\ Fits(Touch("write", "completion_generation"), n)
      /\ Fits(Touch("write", "fresh_ast_cache"), n)
      /\ Fits(Touch("read", "info_service"), n)
  BY <1>1, Places, FitsTouch
<1> QED
  BY <1>2, FitsBoth DEF CloseTail

\* Both guards of a close, around what it restores.
LEMMA ClosingFits ==
  ASSUME Server, NEW restore, Fits(restore, 3)
  PROVE  Fits(Closing(restore), 0)
<1>1. Fits(restore \o CloseTail, 3)
  BY CloseTailFits, FitsBoth
<1>2. Fits(Under("write", "documents", restore \o CloseTail), 2)
  BY <1>1, Places, FitsUnder
<1> QED
  BY <1>2, Places, FitsUnder DEF Closing

LEMMA ClosesFit ==
  ASSUME Server
  PROVE  Fits(CloseRestored, 0) /\ Fits(CloseAbsent, 0)
<1>1. /\ Fits(Touch("read", "config"), 3) /\ Fits(Touch("read", "rules"), 3)
      /\ Fits(Touch("write", "info_service"), 3) /\ Fits(Touch("write", "pending_changed_names"), 14)
  BY Places, FitsTouch
<1>2. Fits(IndexParsedFile(FALSE), 3)
  BY <1>1, FitsBoth, FitsNothing DEF IndexParsedFile
<1>3. Fits(Under("write", "type_uses", Touch("write", "pending_changed_names")), 3)
  BY <1>1, Places, FitsUnder
<1>4. Fits(Touch("write", "info_service") \o Under("write", "type_uses", Touch("write", "pending_changed_names")), 3)
  BY <1>1, <1>3, FitsBoth
<1> QED
  BY <1>2, <1>4, ClosingFits DEF CloseRestored, CloseAbsent

\* The checks of a file, which a validation and a sweep make under three guards.
Checks == Under("read", "info_service", Under("read", "loc_index", Touch("read", "config") \o UnusedInstanceErrors))
LEMMA ChecksFit ==
  ASSUME Server
  PROVE  Fits(Checks, 4)
<1>1. Fits(Touch("read", "config"), 8) /\ Fits(UnusedInstanceErrors, 8)
  BY Places, FitsTouch, UnusedInstanceErrorsFits
<1>2. Fits(Touch("read", "config") \o UnusedInstanceErrors, 8)
  BY <1>1, FitsBoth
<1>3. Fits(Under("read", "loc_index", Touch("read", "config") \o UnusedInstanceErrors), 7)
  BY <1>2, Places, FitsUnder
<1> QED
  BY <1>3, Places, FitsUnder DEF Checks

LEMMA ValidationsFit ==
  ASSUME Server
  PROVE  /\ Fits(IndexParsedFile(TRUE), 0) /\ Fits(ParseAndValidate, 0) /\ Fits(StoreAst, 0)
         /\ Fits(SweepSnapshot, 0) /\ Fits(SweepValidate, 0) /\ Fits(ClearIgnoredFileState, 0)
<1>1. Fits(IndexParsedFile(TRUE), 0)
  <2>1. /\ Fits(Touch("read", "config"), 0) /\ Fits(Touch("read", "rules"), 0)
        /\ Fits(Touch("write", "documents"), 0) /\ Fits(Touch("write", "info_service"), 0)
    BY Places, FitsTouch
  <2> QED
    BY <2>1, FitsBoth DEF IndexParsedFile
<1>2. Fits(LocOverlayKeys, 0) /\ Fits(LocOverlayKeys, 4) /\ Fits(Checks, 4)
  BY LocOverlayKeysFits, ChecksFit
<1>3. Fits(ParseAndValidate, 0)
  <2>1. Fits(Under("read", "rules", Checks), 0)
    BY <1>2, Places, FitsUnder
  <2> QED
    BY <1>2, <2>1, FitsBoth DEF ParseAndValidate, Checks
<1>4. Fits(StoreAst, 0) /\ Fits(SweepSnapshot, 0)
  <2>1. Fits(Touch("write", "doc_tokens"), 0) /\ Fits(Touch("write", "documents"), 0) /\ Fits(Touch("write", "documents"), 2)
    BY Places, FitsTouch
  <2>2. Fits(Under("read", "doc_tokens", Touch("write", "documents")), 0)
    BY <2>1, Places, FitsUnder
  <2> QED
    BY <2>1, <2>2, FitsBoth DEF StoreAst, SweepSnapshot
<1>5. Fits(SweepValidate, 0)
  <2> DEFINE body == Touch("read", "config") \o LocOverlayKeys \o Checks \o Touch("write", "pending_changed_names")
  <2>1. Fits(Touch("read", "config"), 4) /\ Fits(Touch("write", "pending_changed_names"), 4)
    BY Places, FitsTouch
  <2>2. Fits(body, 4)
    BY <1>2, <2>1, FitsBoth
  <2>3. SweepValidate = Under("read", "rules", body)
    BY DEF SweepValidate, Checks
  <2> HIDE DEF body
  <2> QED
    BY <2>2, <2>3, Places, FitsUnder
<1>6. Fits(ClearIgnoredFileState, 0)
  BY ClearIgnoredFileStateFits
<1> QED
  BY <1>1, <1>3, <1>4, <1>5, <1>6, Zenon

\* Guards around one or two more, as configuration, scans and requests take them.
LEMMA ConfigurationFits ==
  ASSUME Server
  PROVE  /\ Fits(SetRuleset, 0) /\ Fits(RebuildModifierKeys, 0) /\ Fits(SetConfig, 0)
         /\ Fits(PublishRuleDiagnostics, 0) /\ Fits(MergeVanilla, 0) /\ Fits(InstallLocIndex, 0)
         /\ Fits(GenerateMissingLoc, 0)
<1>1. /\ Fits(Touch("write", "info_service"), 4) /\ Fits(Touch("read", "info_service"), 4)
      /\ Fits(Touch("write", "info_service"), 5) /\ Fits(Touch("write", "documents"), 1)
      /\ Fits(Touch("read", "loc_index"), 7) /\ Fits(Touch("write", "config"), 0)
      /\ Fits(Touch("write", "vanilla_file_paths"), 0) /\ Fits(Touch("write", "info_service"), 0)
      /\ Fits(Touch("write", "loc_index"), 0) /\ Fits(Touch("write", "loc_text"), 0)
  BY Places, FitsTouch
<1>2. /\ Fits(Under("write", "rules", Touch("write", "info_service")), 0)
      /\ Fits(Under("write", "rules", Touch("read", "info_service")), 0)
      /\ Fits(Under("write", "published_rule_uris", Touch("write", "documents")), 0)
      /\ Fits(Under("write", "vanilla_var_names", Touch("write", "info_service")), 0)
      /\ Fits(Under("read", "info_service", Touch("read", "loc_index")), 4)
  BY <1>1, Places, FitsUnder
<1>3. Fits(Under("read", "rules", Under("read", "info_service", Touch("read", "loc_index"))), 0)
  BY <1>2, Places, FitsUnder
<1>4. Fits(MergeVanilla, 0) /\ Fits(InstallLocIndex, 0)
  BY <1>1, <1>2, FitsBoth DEF MergeVanilla, InstallLocIndex
<1> QED
  BY <1>1, <1>2, <1>3, <1>4 DEF SetRuleset, RebuildModifierKeys, SetConfig, PublishRuleDiagnostics, GenerateMissingLoc

LEMMA RequestsFit ==
  ASSUME Server
  PROVE  /\ Fits(Hover, 0) /\ Fits(CollectUseSites, 0) /\ Fits(InlayScopes, 0)
         /\ Fits(CompletionLocKeys, 0) /\ Fits(CompletionStart, 0) /\ Fits(CompletionFallback, 0)
<1>1. /\ Fits(Touch("read", "info_service"), 4) /\ Fits(Touch("read", "loc_text"), 4)
      /\ Fits(Touch("read", "loc_text"), 7) /\ Fits(Touch("read", "config"), 4)
      /\ Fits(Touch("read", "config"), 7) /\ Fits(Touch("read", "loc_watched_overlay"), 11)
      /\ Fits(Touch("write", "completion_generation"), 3) /\ Fits(Touch("write", "fallback_cache"), 7)
  BY Places, FitsTouch
<1>2. /\ Fits(Under("read", "info_service", Touch("read", "loc_text")), 4)
      /\ Fits(Under("read", "rules", Touch("read", "config")), 3)
      /\ Fits(Under("read", "info_service", Touch("read", "config")), 4)
      /\ Fits(Under("read", "loc_live_overlay", Touch("read", "loc_watched_overlay")), 0)
      /\ Fits(Under("write", "documents", Touch("write", "completion_generation")), 0)
      /\ Fits(Under("read", "info_service", Touch("write", "fallback_cache")), 0)
  BY <1>1, Places, FitsUnder
<1>3. Fits(Touch("read", "info_service") \o Touch("read", "loc_text")
             \o Under("read", "info_service", Touch("read", "loc_text")), 4)
  BY <1>1, <1>2, FitsBoth
<1>4. Fits(Hover, 0)
  BY <1>3, Places, FitsUnder DEF Hover
<1>5. Fits(CollectUseSites, 0) /\ Fits(InlayScopes, 0)
  BY <1>2, Places, FitsUnder DEF CollectUseSites, InlayScopes
<1> QED
  BY <1>2, <1>4, <1>5 DEF CompletionLocKeys, CompletionStart, CompletionFallback

LEMMA ServerDisciplined == Server => Disciplined
<1> SUFFICES ASSUME Server PROVE Disciplined
  OBVIOUS
<1>1. \A s \in OrdinarySections : Fits(s, 0)
  BY ClosesFit, ValidationsFit, ConfigurationFits, RequestsFit DEF OrdinarySections
<1> QED
  BY <1>1 DEF Server, Disciplined, Fits

\* The sections of the server keep to one acquisition order, the one the comment on
\* DocumentState begins (lsp/src/state.rs), whatever the number of threads,
THEOREM ServerFollowsOrder == ASSUME Server PROVE Spec => []FollowsOrder
  BY ServerDisciplined, OrderKept
\* and so the server never deadlocks, as long as no file is closed that an ignore
\* pattern excludes.
THEOREM ServerDeadlockFree == ASSUME Server PROVE Spec => []NoDeadlock
  BY ServerDisciplined, DeadlockFree
=============================================================================

------------------------------ MODULE LockOrder ------------------------------
(***************************************************************************)
(* Threads of one process that run sections of code over parking_lot       *)
(* locks.  A section is the sequence of lock operations a stretch of code  *)
(* performs while it holds at least one guard: it ends holding nothing.    *)
(* The locks are external to the repository; what is modelled of them is   *)
(* that a write excludes everybody, that they are not reentrant, and that  *)
(* a writer that has announced itself keeps new readers out while it waits *)
(* for the present ones to leave.  A Mutex is a lock that is only written. *)
(***************************************************************************)
EXTENDS Naturals, Sequences, FiniteSets

CONSTANTS
  Threads,  \* the worker threads of the runtime and the blocking threads
  Nobody,   \* no thread
  Locks,    \* the locks of the server state
  Sections, \* the sequences of lock operations of the code
  Rank      \* [Locks -> Nat]: the place of each lock in the acquisition order

Ops == [op : {"read", "write", "drop"}, lock : Locks]

ASSUME LockOrderAssumption ==
  /\ Nobody \notin Threads
  /\ IsFiniteSet(Locks)
  /\ Sections \subseteq Seq(Ops) \ {<<>>}
  /\ Rank \in [Locks -> Nat]

VARIABLES
  todo,     \* what is left of the section each thread is in, <<>> outside one
  readers,  \* the threads reading under each lock
  writer,   \* the thread that owns each lock for writing, or has announced it will
  claiming  \* the announced writers still waiting for readers to leave

vars == <<todo, readers, writer, claiming>>

Acquires(step) == step.op \in {"read", "write"}

\* Past its first i operations the section drops this lock again, and until then it
\* takes only locks of higher rank.
Guarded(section, i, l) ==
  \E k \in (i + 1)..Len(section) :
    /\ section[k] = [op |-> "drop", lock |-> l]
    /\ \A n \in (i + 1)..(k - 1) :
         /\ section[n] # [op |-> "drop", lock |-> l]
         /\ Acquires(section[n]) => Rank[l] < Rank[section[n].lock]

\* Every lock the section takes is guarded by what follows.
Ordered(section) ==
  \A i \in 1..Len(section) :
    Acquires(section[i]) => Guarded(section, i, section[i].lock)

\* The discipline the comment on DocumentState asks for: no section takes an earlier
\* lock, or the same one again, while it holds a later one.
Disciplined == \A s \in Sections : Ordered(s)

-----------------------------------------------------------------------------
Busy(t) == todo[t] # <<>>

Advance(t) == todo' = [todo EXCEPT ![t] = Tail(@)]

\* A thread enters a section.
Begin(t) ==
  /\ ~Busy(t)
  /\ \E s \in Sections : todo' = [todo EXCEPT ![t] = s]
  /\ UNCHANGED <<readers, writer, claiming>>

\* RwLock::read: granted unless somebody writes or has announced a write.
Read(t) ==
  /\ Busy(t) /\ Head(todo[t]).op = "read"
  /\ writer[Head(todo[t]).lock] = Nobody
  /\ readers' = [readers EXCEPT ![Head(todo[t]).lock] = @ \cup {t}]
  /\ Advance(t)
  /\ UNCHANGED <<writer, claiming>>

\* RwLock::write and Mutex::lock, first half: become the one announced writer.
Claim(t) ==
  /\ Busy(t) /\ Head(todo[t]).op = "write"
  /\ t \notin claiming
  /\ writer[Head(todo[t]).lock] = Nobody
  /\ writer' = [writer EXCEPT ![Head(todo[t]).lock] = t]
  /\ claiming' = claiming \cup {t}
  /\ UNCHANGED <<todo, readers>>

\* Second half: the readers have left.
Enter(t) ==
  /\ t \in claiming
  /\ readers[Head(todo[t]).lock] = {}
  /\ claiming' = claiming \ {t}
  /\ Advance(t)
  /\ UNCHANGED <<readers, writer>>

\* A guard goes out of scope.
Drop(t) ==
  LET l == Head(todo[t]).lock IN
  /\ Busy(t) /\ Head(todo[t]).op = "drop"
  /\ readers' = [readers EXCEPT ![l] = @ \ {t}]
  /\ writer' = IF writer[l] = t THEN [writer EXCEPT ![l] = Nobody] ELSE writer
  /\ Advance(t)
  /\ UNCHANGED claiming

Init ==
  /\ todo = [t \in Threads |-> <<>>]
  /\ readers = [l \in Locks |-> {}]
  /\ writer = [l \in Locks |-> Nobody]
  /\ claiming = {}

Next == \E t \in Threads : Begin(t) \/ Read(t) \/ Claim(t) \/ Enter(t) \/ Drop(t)

Spec == Init /\ [][Next]_vars

-----------------------------------------------------------------------------
\* The thread has announced a write of this lock and waits for its readers.
Waits(t, l) == t \in claiming /\ Head(todo[t]).lock = l

\* The shape of the state: an announced writer is about to write what it announced, and
\* readers share a lock with nobody else.
TypeOK ==
  /\ todo \in [Threads -> Seq(Ops)]
  /\ readers \in [Locks -> SUBSET Threads]
  /\ writer \in [Locks -> Threads \cup {Nobody}]
  /\ claiming \in SUBSET Threads
  /\ \A t \in claiming : Busy(t) /\ Head(todo[t]).op = "write"
                          /\ writer[Head(todo[t]).lock] = t
  /\ \A l \in Locks : writer[l] = Nobody \/ readers[l] = {} \/ Waits(writer[l], l)

\* "Never acquire an earlier lock while holding a later one": whatever a thread still
\* has to do, nested calls included, takes only later locks under each lock it takes.
FollowsOrder == \A t \in Threads : Ordered(todo[t])

\* The next operation of a thread in a section is not blocked.
CanMove(t) ==
  LET step == Head(todo[t]) IN
  \/ step.op = "drop"
  \/ t \in claiming /\ readers[step.lock] = {}
  \/ Acquires(step) /\ t \notin claiming /\ writer[step.lock] = Nobody

\* No ABBA deadlock, no thread waiting for a guard of its own: as long as somebody is
\* in a section, somebody in a section can go on.
NoDeadlock == (\E t \in Threads : Busy(t)) => \E t \in Threads : Busy(t) /\ CanMove(t)
=============================================================================

--------------------------- MODULE ConnectionPool ---------------------------
(***************************************************************************)
(* The pool of SQLite connections of src/teredacta/db_pool.py and its lazy *)
(* creation, borrowing, return and shutdown in src/teredacta/unob.py.  The *)
(* callers are the threads that run request handlers; the interpreter may  *)
(* switch threads between any two of the steps below, each of which reads  *)
(* or writes one shared thing, or runs under a lock.                       *)
(*                                                                         *)
(* A thread calls _get_db (acquire), uses the connection and calls         *)
(* _release_db (release); no caller holds two.  The queue.Queue of idle    *)
(* connections is kept as a set: which idle connection is taken does not   *)
(* matter.                                                                 *)
(***************************************************************************)
EXTENDS Naturals, FiniteSets

CONSTANTS Threads, Conns, None, MaxSize

ASSUME PoolAssumption ==
    /\ MaxSize \in Nat \ {0}
    /\ None \notin Conns \union Threads

VARIABLES created,   \* unob._pool is not None
          closed,    \* _closed
          size,      \* _size
          idle,      \* _pool, the queue of idle connections
          lock,      \* the holder of _lock, or None
          open,      \* the connections that are open
          pc,        \* where each thread is
          conn,      \* the connection each thread has, or None
          closer     \* where unob.close() is

vars == <<created, closed, size, idle, lock, open, pc, conn, closer>>

Init ==
    /\ created = FALSE
    /\ closed = FALSE
    /\ size = 0
    /\ idle = {}
    /\ lock = None
    /\ open = {}
    /\ pc = [h \in Threads |-> "out"]
    /\ conn = [h \in Threads |-> None]
    /\ closer = "before"

Goto(h, label) == pc' = [pc EXCEPT ![h] = label]
Has(h, k) == conn' = [conn EXCEPT ![h] = k]

-----------------------------------------------------------------------------
(* _get_db: create the pool once, then acquire. *)

\* if self._pool is None
Call(h) ==
    /\ pc[h] = "out"
    /\ Goto(h, IF created THEN "acquire" ELSE "create")
    /\ UNCHANGED <<created, closed, size, idle, lock, open, conn, closer>>

\* Mutant: no second check under the lock.
CreatePoolUnchecked(h) ==
    /\ pc[h] = "create"
    /\ \E k \in Conns \ open :
          /\ open' = open \union {k}
          /\ idle' = {k}
    /\ size' = 1
    /\ created' = TRUE
    /\ Goto(h, "acquire")
    /\ UNCHANGED <<closed, lock, conn, closer>>

\* Under _pool_lock: somebody else was first, or the pool is made with one
\* idle connection.
CreatePool(h) ==
    /\ pc[h] = "create"
    /\ \/ /\ created
          /\ UNCHANGED <<created, size, idle, open>>
       \/ /\ ~created
          /\ \E k \in Conns \ open :
                /\ open' = open \union {k}
                /\ idle' = {k}
          /\ size' = 1
          /\ created' = TRUE
    /\ Goto(h, "acquire")
    /\ UNCHANGED <<closed, lock, conn, closer>>

\* The database is missing or cannot be opened: _pool stays None.
CreatePoolFails(h) ==
    /\ pc[h] = "create"
    /\ ~created
    /\ Goto(h, "out")
    /\ UNCHANGED <<created, closed, size, idle, lock, open, conn, closer>>

\* acquire: RuntimeError if the pool is closed.
CheckClosed(h) ==
    /\ pc[h] = "acquire"
    /\ Goto(h, IF closed THEN "out" ELSE "take")
    /\ UNCHANGED <<created, closed, size, idle, lock, open, conn, closer>>

\* An idle connection leaves the queue.
TakeIdle(h) ==
    /\ \E k \in idle : idle' = idle \ {k} /\ Has(h, k)
    /\ Goto(h, "using")
    /\ UNCHANGED <<created, closed, size, lock, open, closer>>

\* get_nowait
TryIdle(h) ==
    /\ pc[h] = "take"
    /\ \/ TakeIdle(h)
       \/ /\ idle = {}
          /\ Goto(h, "grow")
          /\ UNCHANGED <<created, closed, size, idle, lock, open, conn, closer>>

Room == size < MaxSize

\* with self._lock: count a new connection, or leave the lock to wait.
Grow(h) ==
    /\ pc[h] = "grow"
    /\ lock = None
    /\ IF Room
       THEN Goto(h, "connect") /\ lock' = h /\ size' = size + 1
       ELSE Goto(h, "wait") /\ UNCHANGED <<lock, size>>
    /\ UNCHANGED <<created, closed, idle, open, conn, closer>>

\* _create_connection, with the lock held.
Connect(h) ==
    /\ pc[h] = "connect"
    /\ \E k \in Conns \ open : open' = open \union {k} /\ Has(h, k)
    /\ lock' = None
    /\ Goto(h, "using")
    /\ UNCHANGED <<created, closed, size, idle, closer>>

\* Mutant: the exception handler forgets the size.
ConnectFailsKeepingSize(h) ==
    /\ pc[h] = "connect"
    /\ lock' = None
    /\ Goto(h, "out")
    /\ UNCHANGED <<created, closed, size, idle, open, conn, closer>>

\* Mutant: the lock is not released on the way out.
ConnectFailsKeepingLock(h) ==
    /\ pc[h] = "connect"
    /\ size' = size - 1
    /\ Goto(h, "out")
    /\ UNCHANGED <<created, closed, lock, idle, open, conn, closer>>

\* sqlite3.connect raises: the count is taken back.
ConnectFails(h) ==
    /\ pc[h] = "connect"
    /\ size' = size - 1
    /\ lock' = None
    /\ Goto(h, "out")
    /\ UNCHANGED <<created, closed, idle, open, conn, closer>>

\* get(timeout) returns a connection, even from a closed pool, or gives up.
Wait(h) ==
    /\ pc[h] = "wait"
    /\ \/ TakeIdle(h)
       \/ /\ idle = {}
          /\ Goto(h, "out")
          /\ UNCHANGED <<created, closed, size, idle, lock, open, conn, closer>>

-----------------------------------------------------------------------------
(* release and close. *)

\* Mutant: no finally clause around the query: an exception skips release.
FinishUnlessRaised(h) ==
    /\ pc[h] = "using"
    /\ IF closed
       THEN /\ Goto(h, "out")
            /\ open' = open \ {conn[h]}
            /\ Has(h, None)
       ELSE \E label \in {"out", "put"} : Goto(h, label) /\ UNCHANGED <<open, conn>>
    /\ UNCHANGED <<created, closed, size, idle, lock, closer>>

\* The caller is done; release looks at _closed.
Finish(h) ==
    /\ pc[h] = "using"
    /\ IF closed
       THEN /\ Goto(h, "out")
            /\ open' = open \ {conn[h]}
            /\ Has(h, None)
       ELSE Goto(h, "put") /\ UNCHANGED <<open, conn>>
    /\ UNCHANGED <<created, closed, size, idle, lock, closer>>

\* put_nowait.  queue.Full, were it raised, would close the connection.
PutBack(h) ==
    /\ pc[h] = "put"
    /\ IF Cardinality(idle) < MaxSize
       THEN idle' = idle \union {conn[h]} /\ UNCHANGED <<open, size>>
       ELSE open' = open \ {conn[h]} /\ size' = size - 1 /\ UNCHANGED idle
    /\ Has(h, None)
    /\ Goto(h, "out")
    /\ UNCHANGED <<created, closed, lock, closer>>

\* unob.close() at shutdown: nothing to close, or the flag first.
StartClose ==
    /\ closer = "before"
    /\ closer' = IF created THEN "draining" ELSE "done"
    /\ closed' = created
    /\ UNCHANGED <<created, size, idle, lock, open, pc, conn>>

\* Mutant: a drained connection is closed but left in the queue.
DrainKeeping ==
    /\ closer = "draining"
    /\ \/ /\ \E k \in idle : open' = open \ {k}
          /\ UNCHANGED <<idle, closer>>
       \/ /\ idle = {}
          /\ closer' = "done"
          /\ UNCHANGED <<idle, open>>
    /\ UNCHANGED <<created, closed, size, lock, pc, conn>>

\* The loop of get_nowait and close, until the queue is empty.
Drain ==
    /\ closer = "draining"
    /\ \/ /\ \E k \in idle : idle' = idle \ {k} /\ open' = open \ {k}
          /\ UNCHANGED closer
       \/ /\ idle = {}
          /\ closer' = "done"
          /\ UNCHANGED <<idle, open>>
    /\ UNCHANGED <<created, closed, size, lock, pc, conn>>

\* One step of an acquire or a release.
Advance(h) ==
    \/ CreatePool(h) \/ CreatePoolFails(h) \/ CheckClosed(h) \/ TryIdle(h)
    \/ Grow(h) \/ Connect(h) \/ ConnectFails(h) \/ Wait(h)
    \/ Finish(h) \/ PutBack(h)

Next ==
    \/ \E h \in Threads : Call(h) \/ Advance(h)
    \/ StartClose \/ Drain

\* Threads are scheduled, the queries of a caller end, get() has a timeout and
\* a lock that is free again and again is obtained.
Fairness ==
    /\ \A h \in Threads : SF_vars(Grow(h)) /\ WF_vars(Advance(h))
    /\ WF_vars(Drain)

Safety == Init /\ [][Next]_vars
Spec == Safety /\ Fairness

-----------------------------------------------------------------------------
Labels == {"out", "create", "acquire", "take", "grow", "connect", "wait", "using", "put"}

TypeOK ==
    /\ created \in BOOLEAN /\ closed \in BOOLEAN
    /\ size \in 0..MaxSize
    /\ idle \subseteq Conns /\ open \subseteq Conns
    /\ lock \in Threads \union {None}
    /\ pc \in [Threads -> Labels]
    /\ conn \in [Threads -> Conns \union {None}]
    /\ closer \in {"before", "draining", "done"}

\* The threads that have a connection, and the one that is making one.
Holders == {h \in Threads : conn[h] # None}
Makers == {h \in Threads : pc[h] = "connect"}

\* Every open connection is in exactly one place, the queue or one thread, and
\* nothing but open connections is lent or idle: no two threads share one, none
\* is lost, none is used after close() or a drain closed it.
Ownership ==
    /\ \A h \in Holders : conn[h] \in open \ idle
    /\ \A g, h \in Holders : conn[g] = conn[h] => g = h
    /\ open = idle \union {conn[h] : h \in Holders}

\* While the pool is open, _size counts the idle, the lent and the one being
\* made, exactly: failures, timeouts and races leave no place lost for ever.
\* (close() leaves it behind, but never below.)
SizeAccounts ==
    LET counted == Cardinality(idle) + Cardinality(Holders) + Cardinality(Makers)
    IN  IF closed THEN counted <= size ELSE counted = size

\* Never more connections than max_size, so a returned one always finds room in
\* the queue and the Full branch of release never runs.
NeverOverCapacity ==
    /\ Cardinality(open) <= MaxSize
    /\ \A h \in Threads : pc[h] = "put" => Cardinality(idle) < MaxSize

\* No call hangs and no lock is held for ever: each acquire returns or raises
\* and each connection comes back, also when the pool is closed under it.
EveryCallEnds == \A h \in Threads : pc[h] # "out" ~> pc[h] = "out"
=============================================================================

------------------------ MODULE ConnectionPoolProofs ------------------------
(***************************************************************************)
(* Proofs about ConnectionPool and RequestTimeout around it, for any       *)
(* number of threads, requests and slots and any max_size.                 *)
(* The counter _size is never read together with what it counts; that it   *)
(* nevertheless counts exactly needs where each thread is (Places) and who *)
(* has the lock (Locking).                                                 *)
(***************************************************************************)
EXTENDS RequestTimeout, FiniteSetTheorems, SequenceTheorems, TLAPS

\* A thread has a connection from the moment it gets one until release is
\* through with it, before the pool exists nobody is inside acquire, and only
\* a closed pool is drained.
Places ==
    /\ \A h \in Threads : conn[h] # None <=> pc[h] \in {"using", "put"}
    /\ ~created => /\ size = 0 /\ open = {} /\ ~closed
                   /\ \A h \in Threads : pc[h] \in {"out", "create"}
    /\ closer = "draining" => closed

\* Whoever is connecting has the lock, and nobody else ever keeps it.
Locking == \A h \in Threads : pc[h] = "connect" <=> lock = h

\* What is counted is finite, and no connection is counted twice.
Counting ==
    /\ IsFiniteSet(idle) /\ IsFiniteSet(Holders) /\ IsFiniteSet(Makers)
    /\ IsFiniteSet(open)
    /\ Cardinality(open) = Cardinality(idle) + Cardinality(Holders)

IndInv == TypeOK /\ Places /\ Locking /\ Counting /\ Ownership /\ SizeAccounts

-----------------------------------------------------------------------------
\* The counts are naturals, and bounded by _size.
LEMMA Counts ==
    ASSUME IndInv
    PROVE  /\ Cardinality(idle) \in Nat /\ Cardinality(Holders) \in Nat
           /\ Cardinality(Makers) \in Nat /\ Cardinality(open) \in Nat
           /\ size \in Nat
           /\ Cardinality(idle) + Cardinality(Holders) + Cardinality(Makers) <= size
<1>1. /\ Cardinality(idle) \in Nat /\ Cardinality(Holders) \in Nat
      /\ Cardinality(Makers) \in Nat /\ Cardinality(open) \in Nat
  BY FS_CardinalityType DEF IndInv, Counting
<1>2. size \in Nat
  BY PoolAssumption DEF IndInv, TypeOK
<1>3. Cardinality(idle) + Cardinality(Holders) + Cardinality(Makers) <= size
  BY <1>1, <1>2 DEF IndInv, SizeAccounts
<1>. QED
  BY <1>1, <1>2, <1>3

\* Steps that only move a thread between places without a connection and
\* without the lock keep everything.
LEMMA MoveKeepsIndInv ==
    ASSUME IndInv, NEW h \in Threads, NEW label \in Labels,
           label \notin {"connect", "using", "put"},
           pc[h] \notin {"connect", "using", "put"},
           created \/ label \in {"out", "create"},
           Goto(h, label),
           UNCHANGED <<created, closed, size, idle, lock, open, conn, closer>>
    PROVE  IndInv'
<1>1. /\ pc' = [pc EXCEPT ![h] = label]
      /\ UNCHANGED <<created, closed, size, idle, lock, open, conn, closer>>
  BY DEF Goto
<1>2. Holders' = Holders /\ Makers' = Makers
  BY <1>1 DEF Holders, Makers, IndInv, TypeOK
<1>3. TypeOK'
  BY <1>1 DEF IndInv, TypeOK
<1>4. Places' /\ Locking'
  BY <1>1 DEF IndInv, TypeOK, Places, Locking
<1>5. Counting' /\ SizeAccounts'
  BY <1>1, <1>2 DEF IndInv, Counting, SizeAccounts
<1>6. Ownership'
  BY <1>1, <1>2 DEF IndInv, Ownership
<1>. QED
  BY <1>3, <1>4, <1>5, <1>6 DEF IndInv

\* The first thread under the lock makes the pool with one idle connection.
LEMMA CreatePoolKeepsIndInv ==
    ASSUME IndInv, NEW h \in Threads, CreatePool(h)
    PROVE  IndInv'
<1>. USE PoolAssumption
<1>1. CASE created
  BY <1>1, MoveKeepsIndInv DEF CreatePool, Labels
<1>2. CASE ~created
  <2>1. PICK k \in Conns \ open : open' = open \union {k} /\ idle' = {k}
    BY <1>2 DEF CreatePool
  <2>2. /\ pc[h] = "create" /\ pc' = [pc EXCEPT ![h] = "acquire"]
        /\ size' = 1 /\ created' = TRUE
        /\ UNCHANGED <<closed, lock, conn, closer>>
    BY <1>2 DEF CreatePool, Goto
  <2>3. /\ size = 0 /\ open = {} /\ closed = FALSE
        /\ \A g \in Threads : pc[g] \in {"out", "create"}
    BY <1>2 DEF IndInv, Places, TypeOK
  <2>4. Holders = {} /\ Makers = {} /\ Holders' = {} /\ Makers' = {}
    BY <2>2, <2>3 DEF Holders, Makers, IndInv, Places, TypeOK
  <2>5. idle' = {k} /\ open' = {k} /\ k \in Conns
    BY <2>1, <2>3
  <2>6. TypeOK'
    BY <2>2, <2>5 DEF IndInv, TypeOK, Labels
  <2>7. Places' /\ Locking'
    BY <2>2, <2>3 DEF IndInv, TypeOK, Places, Locking
  <2>8. /\ IsFiniteSet({k}) /\ Cardinality({k}) = 1
        /\ IsFiniteSet({}) /\ Cardinality({}) = 0
    BY FS_Singleton, FS_EmptySet
  <2>9. Counting' /\ SizeAccounts'
    BY <2>2, <2>3, <2>4, <2>5, <2>8 DEF Counting, SizeAccounts
  <2>10. Ownership'
    BY <2>4, <2>5 DEF Ownership
  <2>. QED
    BY <2>6, <2>7, <2>9, <2>10 DEF IndInv
<1>. QED
  BY <1>1, <1>2

\* A connection moves from the queue to a thread.
LEMMA TakeKeepsIndInv ==
    ASSUME IndInv, NEW h \in Threads, pc[h] \in {"take", "wait"}, TakeIdle(h)
    PROVE  IndInv'
<1>. USE PoolAssumption
<1>1. PICK k \in idle : idle' = idle \ {k} /\ conn' = [conn EXCEPT ![h] = k]
  BY DEF TakeIdle, Has
<1>2. /\ pc' = [pc EXCEPT ![h] = "using"]
      /\ UNCHANGED <<created, closed, size, lock, open, closer>>
  BY DEF TakeIdle, Goto
<1>3. k \in Conns /\ k # None /\ conn[h] = None /\ created /\ k \in open
  BY <1>1 DEF IndInv, TypeOK, Places, Ownership
<1>4. /\ Holders' = Holders \union {h} /\ h \notin Holders /\ Makers' = Makers
      /\ conn'[h] = k /\ \A g \in Holders : conn'[g] = conn[g]
  BY <1>1, <1>2, <1>3 DEF Holders, Makers, IndInv, TypeOK
<1>5. TypeOK'
  BY <1>1, <1>2, <1>3 DEF IndInv, TypeOK, Labels
<1>6. Places' /\ Locking'
  BY <1>1, <1>2, <1>3 DEF IndInv, TypeOK, Places, Locking
<1>7. /\ IsFiniteSet(idle \ {k}) /\ Cardinality(idle \ {k}) = Cardinality(idle) - 1
      /\ IsFiniteSet(Holders \union {h})
      /\ Cardinality(Holders \union {h}) = Cardinality(Holders) + 1
  BY <1>1, <1>4, FS_AddElement, FS_RemoveElement DEF IndInv, Counting
<1>8. Counting' /\ SizeAccounts'
  BY <1>1, <1>2, <1>4, <1>7, Counts DEF IndInv, Counting, SizeAccounts
<1>9. Ownership'
  BY <1>1, <1>2, <1>3, <1>4 DEF IndInv, Ownership
<1>. QED
  BY <1>5, <1>6, <1>8, <1>9 DEF IndInv

\* Under the lock a place in the pool is counted before it is filled.
LEMMA GrowKeepsIndInv ==
    ASSUME IndInv, NEW h \in Threads, Grow(h)
    PROVE  IndInv'
<1>. USE PoolAssumption
<1>0. pc[h] = "grow" /\ lock = None /\ created
  BY DEF Grow, IndInv, Places
<1>1. CASE ~Room
  BY <1>0, <1>1, MoveKeepsIndInv DEF Grow, Labels
<1>2. CASE Room
  <2>1. /\ pc' = [pc EXCEPT ![h] = "connect"] /\ lock' = h /\ size' = size + 1
        /\ size < MaxSize
        /\ UNCHANGED <<created, closed, idle, open, conn, closer>>
    BY <1>2 DEF Grow, Room, Goto
  <2>2. Makers = {}
    BY <1>0 DEF Makers, IndInv, Locking
  <2>3. Holders' = Holders /\ Makers' = {h}
    BY <1>0, <2>1, <2>2 DEF Holders, Makers, IndInv, TypeOK
  <2>4. TypeOK'
    BY <2>1 DEF IndInv, TypeOK, Labels
  <2>5. Places'
    BY <1>0, <2>1 DEF IndInv, TypeOK, Places
  <2>6. Locking'
    BY <2>1, <2>2 DEF IndInv, TypeOK, Locking, Makers
  <2>7. /\ IsFiniteSet({h}) /\ Cardinality({h}) = 1 /\ Cardinality({}) = 0
    BY FS_Singleton, FS_EmptySet
  <2>8. Counting' /\ SizeAccounts'
    BY <2>1, <2>2, <2>3, <2>7, Counts DEF IndInv, Counting, SizeAccounts
  <2>9. Ownership'
    BY <2>1, <2>3 DEF IndInv, Ownership
  <2>. QED
    BY <2>4, <2>5, <2>6, <2>8, <2>9 DEF IndInv
<1>. QED
  BY <1>1, <1>2

\* The place is filled: the maker becomes a holder.
LEMMA ConnectKeepsIndInv ==
    ASSUME IndInv, NEW h \in Threads, Connect(h)
    PROVE  IndInv'
<1>. USE PoolAssumption
<1>1. PICK k \in Conns \ open : open' = open \union {k} /\ conn' = [conn EXCEPT ![h] = k]
  BY DEF Connect, Has
<1>2. /\ pc[h] = "connect" /\ pc' = [pc EXCEPT ![h] = "using"] /\ lock' = None
      /\ UNCHANGED <<created, closed, size, idle, closer>>
  BY DEF Connect, Goto
<1>3. k # None /\ conn[h] = None /\ created
  BY <1>1, <1>2 DEF IndInv, Places
<1>4. Makers = {h}
  BY <1>2 DEF Makers, IndInv, Locking
<1>5. /\ Holders' = Holders \union {h} /\ h \notin Holders /\ Makers' = {}
      /\ conn'[h] = k /\ \A g \in Holders : conn'[g] = conn[g]
  BY <1>1, <1>2, <1>3, <1>4 DEF Holders, Makers, IndInv, TypeOK
<1>6. TypeOK'
  BY <1>1, <1>2 DEF IndInv, TypeOK, Labels
<1>7. Places'
  BY <1>1, <1>2, <1>3 DEF IndInv, TypeOK, Places
<1>8. Locking'
  BY <1>2, <1>4 DEF IndInv, TypeOK, Locking, Makers
<1>9. /\ IsFiniteSet(open \union {k}) /\ Cardinality(open \union {k}) = Cardinality(open) + 1
      /\ IsFiniteSet(Holders \union {h})
      /\ Cardinality(Holders \union {h}) = Cardinality(Holders) + 1
      /\ Cardinality({h}) = 1 /\ IsFiniteSet({}) /\ Cardinality({}) = 0
  BY <1>1, <1>5, FS_AddElement, FS_Singleton, FS_EmptySet DEF IndInv, Counting
<1>10. Counting' /\ SizeAccounts'
  BY <1>1, <1>2, <1>4, <1>5, <1>9, Counts DEF IndInv, Counting, SizeAccounts
<1>11. Ownership'
  BY <1>1, <1>2, <1>5 DEF IndInv, Ownership
<1>. QED
  BY <1>6, <1>7, <1>8, <1>10, <1>11 DEF IndInv

\* A connection that cannot be made gives its place back.
LEMMA ConnectFailsKeepsIndInv ==
    ASSUME IndInv, NEW h \in Threads, ConnectFails(h)
    PROVE  IndInv'
<1>. USE PoolAssumption
<1>1. /\ pc[h] = "connect" /\ pc' = [pc EXCEPT ![h] = "out"] /\ lock' = None
      /\ size' = size - 1
      /\ UNCHANGED <<created, closed, idle, open, conn, closer>>
  BY DEF ConnectFails, Goto
<1>2. Makers = {h} /\ created
  BY <1>1 DEF Makers, IndInv, Locking, Places
<1>3. Holders' = Holders /\ Makers' = {}
  BY <1>1, <1>2 DEF Holders, Makers, IndInv, TypeOK
<1>4. Cardinality({h}) = 1 /\ IsFiniteSet({}) /\ Cardinality({}) = 0
  BY FS_Singleton, FS_EmptySet
<1>5. size' \in 0..MaxSize
  BY <1>1, <1>2, <1>4, Counts DEF IndInv, TypeOK
<1>6. TypeOK'
  BY <1>1, <1>5 DEF IndInv, TypeOK, Labels
<1>7. Places'
  BY <1>1, <1>2 DEF IndInv, TypeOK, Places
<1>8. Locking'
  BY <1>1, <1>2 DEF IndInv, TypeOK, Locking, Makers
<1>9. Counting' /\ SizeAccounts'
  BY <1>1, <1>2, <1>3, <1>4, Counts DEF IndInv, Counting, SizeAccounts
<1>10. Ownership'
  BY <1>1, <1>3 DEF IndInv, Ownership
<1>. QED
  BY <1>6, <1>7, <1>8, <1>9, <1>10 DEF IndInv

\* A thread about to return its connection finds room in the queue.
LEMMA RoomToReturn ==
    ASSUME IndInv, NEW h \in Threads, pc[h] \in {"using", "put"}
    PROVE  Cardinality(idle) < MaxSize
<1>1. h \in Holders
  BY DEF IndInv, Places, Holders
<1>2. Cardinality(Holders) # 0
  BY <1>1, FS_EmptySet DEF IndInv, Counting
<1>. QED
  BY <1>2, Counts, PoolAssumption DEF IndInv, TypeOK

\* A connection leaves its thread: to the queue, or closed.
LEMMA ReturnKeepsIndInv ==
    ASSUME IndInv, NEW h \in Threads, pc[h] \in {"using", "put"},
           Goto(h, "out"), Has(h, None),
           \/ idle' = idle \union {conn[h]} /\ UNCHANGED open
           \/ open' = open \ {conn[h]} /\ UNCHANGED idle /\ closed,
           UNCHANGED <<created, closed, size, lock, closer>>
    PROVE  IndInv'
<1>. USE PoolAssumption
<1>1. /\ pc' = [pc EXCEPT ![h] = "out"] /\ conn' = [conn EXCEPT ![h] = None]
      /\ UNCHANGED <<created, closed, size, lock, closer>>
  BY DEF Goto, Has
<1>2. /\ conn[h] # None /\ h \in Holders /\ conn[h] \in open \ idle /\ created
      /\ conn[h] \in Conns
  BY DEF IndInv, Places, Ownership, Holders, TypeOK
<1>3. /\ Holders' = Holders \ {h} /\ Makers' = Makers
      /\ \A g \in Holders' : conn'[g] = conn[g]
  BY <1>1, <1>2 DEF Holders, Makers, IndInv, TypeOK
<1>4. TypeOK'
  BY <1>1, <1>2 DEF IndInv, TypeOK, Labels
<1>5. Places' /\ Locking'
  BY <1>1, <1>2 DEF IndInv, TypeOK, Places, Locking
<1>6. /\ IsFiniteSet(Holders \ {h})
      /\ Cardinality(Holders \ {h}) = Cardinality(Holders) - 1
      /\ IsFiniteSet(idle \union {conn[h]})
      /\ Cardinality(idle \union {conn[h]}) = Cardinality(idle) + 1
      /\ IsFiniteSet(open \ {conn[h]})
      /\ Cardinality(open \ {conn[h]}) = Cardinality(open) - 1
  BY <1>2, FS_AddElement, FS_RemoveElement DEF IndInv, Counting
<1>7. Counting' /\ SizeAccounts'
  <2>1. CASE idle' = idle \union {conn[h]} /\ UNCHANGED open
    <3>1. /\ Cardinality(idle') = Cardinality(idle) + 1
          /\ Cardinality(Holders') = Cardinality(Holders) - 1
          /\ Cardinality(open') = Cardinality(open)
          /\ Cardinality(Makers') = Cardinality(Makers)
      BY <1>3, <1>6, <2>1
    <3>2. Counting'
      BY <1>3, <1>6, <2>1, <3>1, Counts DEF IndInv, Counting
    <3>3. SizeAccounts'
      BY <1>1, <3>1, Counts DEF IndInv, SizeAccounts
    <3>. QED
      BY <3>2, <3>3
  <2>2. CASE open' = open \ {conn[h]} /\ UNCHANGED idle /\ closed
    <3>1. /\ Cardinality(idle') = Cardinality(idle)
          /\ Cardinality(Holders') = Cardinality(Holders) - 1
          /\ Cardinality(open') = Cardinality(open) - 1
          /\ Cardinality(Makers') = Cardinality(Makers)
      BY <1>3, <1>6, <2>2
    <3>2. Counting'
      BY <1>3, <1>6, <2>2, <3>1, Counts DEF IndInv, Counting
    <3>3. SizeAccounts'
      BY <1>1, <2>2, <3>1, Counts DEF IndInv, SizeAccounts
    <3>. QED
      BY <3>2, <3>3
  <2>. QED
    BY <2>1, <2>2
<1>8. Ownership'
  <2>1. \A g \in Holders' : conn'[g] # conn[h]
    BY <1>2, <1>3 DEF IndInv, Ownership
  <2>. QED
    BY <1>2, <1>3, <2>1 DEF IndInv, Ownership
<1>. QED
  BY <1>4, <1>5, <1>7, <1>8 DEF IndInv

\* release of an open pool leaves the thread with its connection, about to put
\* it back; release of a closed pool closes it.
LEMMA FinishKeepsIndInv ==
    ASSUME IndInv, NEW h \in Threads, Finish(h)
    PROVE  IndInv'
<1>1. CASE closed
  BY <1>1, ReturnKeepsIndInv DEF Finish
<1>2. CASE ~closed
  <2>1. /\ pc[h] = "using" /\ pc' = [pc EXCEPT ![h] = "put"]
        /\ UNCHANGED <<created, closed, size, idle, lock, open, conn, closer>>
    BY <1>2 DEF Finish, Goto
  <2>2. Holders' = Holders /\ Makers' = Makers
    BY <2>1 DEF Holders, Makers, IndInv, TypeOK
  <2>3. TypeOK' /\ Places' /\ Locking'
    BY <2>1 DEF IndInv, TypeOK, Places, Locking, Labels
  <2>4. Counting' /\ SizeAccounts' /\ Ownership'
    BY <2>1, <2>2 DEF IndInv, Counting, SizeAccounts, Ownership
  <2>. QED
    BY <2>3, <2>4 DEF IndInv
<1>. QED
  BY <1>1, <1>2

\* The drain of close() closes the idle connections; _size stays behind.
LEMMA DrainKeepsIndInv ==
    ASSUME IndInv, Drain
    PROVE  IndInv'
<1>. USE PoolAssumption
<1>0. closed
  BY DEF Drain, IndInv, Places
<1>1. CASE idle = {} /\ UNCHANGED <<idle, open>>
  <2>1. /\ closer' = "done"
        /\ UNCHANGED <<created, closed, size, idle, lock, open, pc, conn>>
    BY <1>1 DEF Drain
  <2>2. Holders' = Holders /\ Makers' = Makers
    BY <2>1 DEF Holders, Makers
  <2>. QED
    BY <2>1, <2>2 DEF IndInv, TypeOK, Places, Locking, Counting, SizeAccounts, Ownership
<1>2. ASSUME NEW k \in idle, idle' = idle \ {k}, open' = open \ {k},
             UNCHANGED closer
      PROVE  IndInv'
  <2>1. UNCHANGED <<created, closed, size, lock, pc, conn, closer>>
    BY <1>2 DEF Drain
  <2>2. Holders' = Holders /\ Makers' = Makers
    BY <2>1 DEF Holders, Makers
  <2>3. TypeOK' /\ Locking'
    BY <1>2, <2>1 DEF IndInv, TypeOK, Locking
  <2>4. Places'
    BY <1>2, <2>1 DEF IndInv, Places
  <2>5. k \in open
    BY DEF IndInv, Ownership
  <2>6. /\ IsFiniteSet(idle \ {k}) /\ Cardinality(idle \ {k}) = Cardinality(idle) - 1
        /\ IsFiniteSet(open \ {k}) /\ Cardinality(open \ {k}) = Cardinality(open) - 1
    BY <2>5, FS_RemoveElement DEF IndInv, Counting
  <2>7. Counting' /\ SizeAccounts'
    BY <1>0, <1>2, <2>1, <2>2, <2>6, Counts DEF IndInv, Counting, SizeAccounts
  <2>8. Ownership'
    BY <1>2, <2>1, <2>2 DEF IndInv, Ownership
  <2>. QED
    BY <2>3, <2>4, <2>7, <2>8 DEF IndInv
<1>. QED
  BY <1>1, <1>2 DEF Drain

\* Setting _closed turns the exact count into a bound.
LEMMA StartCloseKeepsIndInv ==
    ASSUME IndInv, StartClose
    PROVE  IndInv'
<1>1. /\ closed' = created /\ closer' = IF created THEN "draining" ELSE "done"
      /\ UNCHANGED <<created, size, idle, lock, open, pc, conn>>
  BY DEF StartClose
<1>2. Holders' = Holders /\ Makers' = Makers
  BY <1>1 DEF Holders, Makers
<1>3. SizeAccounts'
  <2>1. closed => closed'
    BY <1>1 DEF IndInv, Places
  <2>. QED
    BY <1>1, <1>2, <2>1, Counts DEF IndInv, SizeAccounts
<1>4. TypeOK' /\ Places' /\ Locking' /\ Counting' /\ Ownership'
  BY <1>1, <1>2 DEF IndInv, TypeOK, Places, Locking, Counting, Ownership
<1>. QED
  BY <1>3, <1>4 DEF IndInv
-----------------------------------------------------------------------------
\* The worker starts without a pool.
LEMMA InitIndInv == Init => IndInv
<1>. SUFFICES ASSUME Init PROVE IndInv
  OBVIOUS
<1>. USE PoolAssumption DEF Init
<1>1. Holders = {} /\ Makers = {}
  BY DEF Holders, Makers
<1>2. IsFiniteSet({}) /\ Cardinality({}) = 0
  BY FS_EmptySet
<1>3. TypeOK
  <2>1. size \in 0..MaxSize /\ lock \in Threads \union {None}
    OBVIOUS
  <2>2. /\ pc \in [Threads -> Labels] /\ conn \in [Threads -> Conns \union {None}]
    BY DEF Labels
  <2>. QED
    BY <2>1, <2>2 DEF TypeOK
<1>4. Places /\ Locking
  BY DEF Places, Locking
<1>5. Counting /\ SizeAccounts
  BY <1>1, <1>2 DEF Counting, SizeAccounts
<1>6. Ownership
  BY <1>1 DEF Ownership
<1>. QED
  BY <1>3, <1>4, <1>5, <1>6 DEF IndInv

\* Every step of every thread and of close() keeps the invariant.
LEMMA NextIndInv == IndInv /\ [Next]_vars => IndInv'
<1>. SUFFICES ASSUME IndInv, [Next]_vars PROVE IndInv'
  OBVIOUS
<1>1. CASE UNCHANGED vars
  BY <1>1 DEF vars, IndInv, TypeOK, Places, Locking, Counting, Ownership,
              SizeAccounts, Holders, Makers
<1>2. ASSUME NEW h \in Threads, Call(h) PROVE IndInv'
  <2>1. PICK label \in {"acquire", "create"} : Goto(h, label) /\ (created \/ label = "create")
    BY <1>2 DEF Call
  <2>. QED
    BY <1>2, <2>1, MoveKeepsIndInv DEF Call, Labels
<1>3. ASSUME NEW h \in Threads, CreatePool(h) PROVE IndInv'
  BY <1>3, CreatePoolKeepsIndInv
<1>4. ASSUME NEW h \in Threads, CreatePoolFails(h) PROVE IndInv'
  BY <1>4, MoveKeepsIndInv DEF CreatePoolFails, Labels
<1>5. ASSUME NEW h \in Threads, CheckClosed(h) PROVE IndInv'
  <2>1. created
    BY <1>5 DEF CheckClosed, IndInv, Places
  <2>2. PICK label \in {"out", "take"} : Goto(h, label)
    BY <1>5 DEF CheckClosed
  <2>. QED
    BY <1>5, <2>1, <2>2, MoveKeepsIndInv DEF CheckClosed, Labels
<1>6. ASSUME NEW h \in Threads, TryIdle(h) PROVE IndInv'
  <2>1. pc[h] = "take" /\ created
    BY <1>6 DEF TryIdle, IndInv, Places
  <2>2. CASE TakeIdle(h)
    BY <2>1, <2>2, TakeKeepsIndInv
  <2>3. CASE ~TakeIdle(h)
    BY <1>6, <2>1, <2>3, MoveKeepsIndInv DEF TryIdle, Labels
  <2>. QED
    BY <2>2, <2>3
<1>7. ASSUME NEW h \in Threads, Grow(h) PROVE IndInv'
  BY <1>7, GrowKeepsIndInv
<1>8. ASSUME NEW h \in Threads, Connect(h) PROVE IndInv'
  BY <1>8, ConnectKeepsIndInv
<1>9. ASSUME NEW h \in Threads, ConnectFails(h) PROVE IndInv'
  BY <1>9, ConnectFailsKeepsIndInv
<1>10. ASSUME NEW h \in Threads, Wait(h) PROVE IndInv'
  <2>1. pc[h] = "wait"
    BY <1>10 DEF Wait
  <2>2. CASE TakeIdle(h)
    BY <2>1, <2>2, TakeKeepsIndInv
  <2>3. CASE ~TakeIdle(h)
    BY <1>10, <2>1, <2>3, MoveKeepsIndInv DEF Wait, Labels
  <2>. QED
    BY <2>2, <2>3
<1>11. ASSUME NEW h \in Threads, Finish(h) PROVE IndInv'
  BY <1>11, FinishKeepsIndInv
<1>12. ASSUME NEW h \in Threads, PutBack(h) PROVE IndInv'
  <2>1. pc[h] = "put"
    BY <1>12 DEF PutBack
  <2>2. Cardinality(idle) < MaxSize
    BY <2>1, RoomToReturn
  <2>. QED
    BY <1>12, <2>1, <2>2, ReturnKeepsIndInv DEF PutBack
<1>13. CASE StartClose
  BY <1>13, StartCloseKeepsIndInv
<1>14. CASE Drain
  BY <1>14, DrainKeepsIndInv
<1>. QED
  BY <1>1, <1>2, <1>3, <1>4, <1>5, <1>6, <1>7, <1>8, <1>9, <1>10, <1>11, <1>12,
     <1>13, <1>14 DEF Next, Advance

\* The invariant holds of every state the threads can reach together.
THEOREM Inductive == Spec => []IndInv
  BY InitIndInv, NextIndInv, PTL DEF Spec, Safety

\* Type correctness, with _size always between 0 and max_size.
THEOREM TypeCorrect == Spec => []TypeOK
<1>1. IndInv => TypeOK
  BY DEF IndInv
<1>. QED
  BY <1>1, Inductive, PTL

\* A connection is lent to one thread at a time and never used after close().
THEOREM ConnectionsOwned == Spec => []Ownership
<1>1. IndInv => Ownership
  BY DEF IndInv
<1>. QED
  BY <1>1, Inductive, PTL

\* _size counts the pool's connections exactly while the pool is open.
THEOREM SizeCounts == Spec => []SizeAccounts
<1>1. IndInv => SizeAccounts
  BY DEF IndInv
<1>. QED
  BY <1>1, Inductive, PTL

LEMMA FitsInQueue == IndInv => NeverOverCapacity
<1>. SUFFICES ASSUME IndInv PROVE NeverOverCapacity
  OBVIOUS
<1>1. Cardinality(open) <= MaxSize
  BY Counts, PoolAssumption DEF IndInv, Counting, TypeOK
<1>2. \A h \in Threads : pc[h] = "put" => Cardinality(idle) < MaxSize
  BY RoomToReturn
<1>. QED
  BY <1>1, <1>2 DEF NeverOverCapacity

\* There are never more than max_size connections, and a connection that is
\* returned finds room: the queue.Full branch of release never runs.
THEOREM WithinCapacity == Spec => []NeverOverCapacity
  BY FitsInQueue, Inductive, PTL

\* An open pool never closes a connection: it has one from the first call on.
Lasting == created /\ ~closed => open # {}

LEMMA StepKeepsLasting ==
    ASSUME IndInv, Lasting, [Next]_vars
    PROVE  Lasting'
<1>1. ASSUME NEW h \in Threads, CreatePool(h) PROVE Lasting'
  BY <1>1 DEF CreatePool, Lasting
<1>2. ASSUME NEW h \in Threads, Connect(h) PROVE Lasting'
  BY <1>2 DEF Connect, Lasting
<1>3. ASSUME NEW h \in Threads, PutBack(h) PROVE Lasting'
  BY <1>3, RoomToReturn DEF PutBack, Lasting
<1>4. ASSUME NEW h \in Threads, Finish(h) PROVE Lasting'
  BY <1>4 DEF Finish, Lasting
<1>5. CASE UNCHANGED <<created, closed, open>>
  BY <1>5 DEF Lasting
<1>6. CASE StartClose
  BY <1>6 DEF StartClose, Lasting, IndInv, TypeOK
<1>7. CASE Drain
  BY <1>7 DEF Drain, Lasting, IndInv, Places
<1>8. ASSUME NEW h \in Threads,
             \/ Call(h) \/ CreatePoolFails(h) \/ CheckClosed(h) \/ TryIdle(h) \/ Grow(h)
             \/ ConnectFails(h) \/ Wait(h)
      PROVE  UNCHANGED <<created, closed, open>>
  BY <1>8 DEF Call, CreatePoolFails, CheckClosed, TryIdle, TakeIdle, Grow, ConnectFails, Wait
<1>. QED
  BY <1>1, <1>2, <1>3, <1>4, <1>5, <1>6, <1>7, <1>8 DEF Next, Advance, vars

\* Who waits in an open pool waits for a connection that another thread has,
\* also when the connection it might have had could not be made; and who has
\* the lock is about to give it back, whether its connect works or fails.
NobodyInVain ==
    \A h \in Threads : /\ pc[h] = "wait" /\ idle = {} /\ ~closed => Holders # {}
                      /\ lock = h => pc[h] = "connect"

THEOREM NobodyWaitsInVain == Spec => []NobodyInVain
<1>1. Init => Lasting
  BY DEF Init, Lasting
<1>2. ASSUME IndInv, Lasting
      PROVE  NobodyInVain
  <2>1. SUFFICES ASSUME NEW h \in Threads
                 PROVE  /\ pc[h] = "wait" /\ idle = {} /\ ~closed => Holders # {}
                        /\ lock = h => pc[h] = "connect"
    BY DEF NobodyInVain
  <2>2. pc[h] = "wait" => created
    BY <1>2 DEF IndInv, Places
  <2>. QED
    BY <1>2, <2>2 DEF IndInv, Lasting, Ownership, Locking
<1>3. IndInv /\ Lasting => NobodyInVain
  BY <1>2
<1>4. IndInv /\ Lasting /\ [Next]_vars => Lasting'
  BY StepKeepsLasting
<1>. QED
  BY <1>1, <1>3, <1>4, Inductive, PTL DEF Spec, Safety

-----------------------------------------------------------------------------
(* ConnectionPool implements SlotPool too: its slots are max_size, and a   *)
(* thread holds one from the moment the pool counts it until release is    *)
(* through with it; nothing is reserved for anybody.                       *)

Lent == INSTANCE SlotPool WITH Requests <- Threads, Tickets <- {}, Capacity <- MaxSize,
                               held <- Holders \union Makers, reserved <- {}

\* The slots in use are what _size counts beside the idle connections.
LEMMA UsedConnections ==
    ASSUME IndInv
    PROVE  /\ Lent!Used = Cardinality(Holders) + Cardinality(Makers)
           /\ Lent!Used + Cardinality(idle) <= size
<1>1. Holders \intersect Makers = {}
  BY DEF IndInv, Places, Holders, Makers
<1>2. /\ IsFiniteSet(Holders) /\ IsFiniteSet(Makers)
      /\ Cardinality(Holders) \in Nat /\ Cardinality(Makers) \in Nat
      /\ Cardinality({}) = 0
  BY Counts, FS_EmptySet DEF IndInv, Counting
<1>3. Cardinality(Holders \union Makers) = Cardinality(Holders) + Cardinality(Makers)
  <2>1. Cardinality(Holders \union Makers)
           = Cardinality(Holders) + Cardinality(Makers) - Cardinality(Holders \intersect Makers)
    BY <1>2, FS_Union
  <2>2. Cardinality(Holders \intersect Makers) = 0
    BY <1>1, <1>2
  <2>. QED
    BY <1>2, <2>1, <2>2
<1>4. Lent!Used = Cardinality(Holders \union Makers) + Cardinality({})
  BY Zenon DEF Lent!Used, Lent!Cardinality, Cardinality
<1>. QED
  BY <1>2, <1>3, <1>4, Counts

\* A thread that gets an idle connection, or counts a new one, takes a slot
\* that is free.
LEMMA EnteringTakes ==
    ASSUME IndInv, NEW h \in Threads, h \notin Holders \union Makers,
           (Holders \union Makers)' = (Holders \union Makers) \union {h},
           idle # {} \/ size < MaxSize
    PROVE  Lent!Take(h)
<1>1. Lent!Used < MaxSize
  <2>1. Cardinality(idle) = 0 => idle = {}
    BY FS_EmptySet DEF IndInv, Counting
  <2>2. Lent!Used \in Nat /\ size <= MaxSize
    BY UsedConnections, Counts, PoolAssumption DEF IndInv, TypeOK
  <2>. QED
    BY <2>1, <2>2, UsedConnections, Counts, PoolAssumption
<1>. QED
  BY <1>1 DEF Lent!Take

\* Every step is a step of the slot pool, or none.
LEMMA StepIsLending ==
    ASSUME IndInv, IndInv', [Next]_vars
    PROVE  [Lent!Next]_(Lent!poolVars)
<1>. DEFINE inside == Holders \union Makers
<1>1. ASSUME NEW h \in Threads, h \in inside, inside' = inside \ {h}
      PROVE  Lent!Next
  BY <1>1 DEF Lent!Next, Lent!Finish, Lent!Free
<1>2. ASSUME NEW h \in Threads, Lent!Take(h)
      PROVE  Lent!Next
  BY <1>2 DEF Lent!Next
<1>3. ASSUME NEW h \in Threads, pc[h] \in {"take", "wait"}, TakeIdle(h)
      PROVE  Lent!Next
  <2>1. PICK k \in idle : conn' = [conn EXCEPT ![h] = k]
    BY <1>3 DEF TakeIdle, Has
  <2>2. pc' = [pc EXCEPT ![h] = "using"] /\ k # None
    BY <1>3, <2>1, PoolAssumption DEF TakeIdle, Goto, IndInv, TypeOK
  <2>3. h \notin inside /\ inside' = inside \union {h}
    BY <1>3, <2>1, <2>2 DEF IndInv, TypeOK, Places, Holders, Makers
  <2>. QED
    BY <1>2, <2>1, <2>3, EnteringTakes
<1>4. ASSUME NEW h \in Threads, Grow(h)
      PROVE  Lent!Next \/ inside' = inside
  <2>1. pc[h] = "grow" /\ UNCHANGED conn
    BY <1>4 DEF Grow
  <2>2. CASE Room
    <3>1. pc' = [pc EXCEPT ![h] = "connect"] /\ size < MaxSize
      BY <1>4, <2>2 DEF Grow, Goto, Room
    <3>2. h \notin inside /\ inside' = inside \union {h}
      BY <2>1, <3>1 DEF IndInv, TypeOK, Places, Holders, Makers
    <3>. QED
      BY <1>2, <3>1, <3>2, EnteringTakes
  <2>3. CASE ~Room
    <3>1. pc' = [pc EXCEPT ![h] = "wait"]
      BY <1>4, <2>3 DEF Grow, Goto
    <3>. QED
      BY <2>1, <3>1 DEF IndInv, TypeOK, Holders, Makers
  <2>. QED
    BY <2>2, <2>3
<1>5. ASSUME NEW h \in Threads, Connect(h)
      PROVE  inside' = inside
  <2>1. PICK k \in Conns : conn' = [conn EXCEPT ![h] = k]
    BY <1>5 DEF Connect, Has
  <2>2. pc[h] = "connect" /\ pc' = [pc EXCEPT ![h] = "using"] /\ k # None
    BY <1>5, PoolAssumption DEF Connect, Goto
  <2>. QED
    BY <2>1, <2>2 DEF IndInv, TypeOK, Holders, Makers
<1>6. ASSUME NEW h \in Threads, ConnectFails(h)
      PROVE  Lent!Next
  <2>1. pc[h] = "connect" /\ pc' = [pc EXCEPT ![h] = "out"] /\ UNCHANGED conn
    BY <1>6 DEF ConnectFails, Goto
  <2>2. h \in inside /\ inside' = inside \ {h}
    BY <2>1 DEF IndInv, TypeOK, Places, Holders, Makers
  <2>. QED
    BY <1>1, <2>2
<1>7. ASSUME NEW h \in Threads, pc[h] \in {"using", "put"}, Goto(h, "out"), Has(h, None)
      PROVE  Lent!Next
  <2>1. pc' = [pc EXCEPT ![h] = "out"] /\ conn' = [conn EXCEPT ![h] = None]
    BY <1>7 DEF Goto, Has
  <2>2. h \in inside /\ inside' = inside \ {h}
    BY <1>7, <2>1 DEF IndInv, TypeOK, Places, Holders, Makers
  <2>. QED
    BY <1>1, <2>2
<1>8. ASSUME NEW h \in Threads, NEW label, Goto(h, label), UNCHANGED conn,
             pc[h] # "connect", label # "connect"
      PROVE  inside' = inside
  BY <1>8 DEF Goto, IndInv, TypeOK, Holders, Makers
<1>9. ASSUME NEW h \in Threads, Call(h) \/ Advance(h)
      PROVE  Lent!Next \/ inside' = inside
  <2>1. CASE Call(h) \/ CreatePool(h) \/ CreatePoolFails(h) \/ CheckClosed(h)
    BY <1>8, <2>1 DEF Call, CreatePool, CreatePoolFails, CheckClosed
  <2>2. CASE TryIdle(h) \/ Wait(h)
    BY <1>3, <1>8, <2>2 DEF TryIdle, Wait
  <2>3. CASE Finish(h) \/ PutBack(h)
    BY <1>7, <1>8, <2>3 DEF Finish, PutBack
  <2>. QED
    BY <1>4, <1>5, <1>6, <1>9, <2>1, <2>2, <2>3 DEF Advance
<1>10. ASSUME StartClose \/ Drain \/ UNCHANGED vars
       PROVE  inside' = inside
  BY <1>10 DEF StartClose, Drain, vars, Holders, Makers
<1>. QED
  BY <1>9, <1>10 DEF Next, Lent!poolVars

\* Whatever the threads do, the pool keeps what SlotPool promises: a thread gets
\* a connection only when fewer than max_size threads have or make one.
THEOREM ImplementsSlotPool == Spec => Lent!Safety
<1>1. Init => Lent!Init
  BY DEF Init, Lent!Init, Holders, Makers
<1>2. IndInv /\ IndInv' /\ [Next]_vars => [Lent!Next]_(Lent!poolVars)
  BY StepIsLending
<1>. QED
  BY <1>1, <1>2, Inductive, PTL DEF Spec, Safety, Lent!Safety

-----------------------------------------------------------------------------
(* The pool with the request timeout around it: threads that nobody waits  *)
(* for are threads like any other to the pool, so what was proved about it *)
(* carries over, and the slots bound the others.                           *)

\* What a client has got, and the thread its request waits for, follow from
\* where the request is.
AnswerInv(r) ==
    /\ r \in held <=> stage[r] # "out"
    /\ worker[r] # None => stage[r] = "awaiting" /\ worker[r] \in busy
    /\ stage[r] \in {"out", "handler", "awaiting"} => sent[r] = <<>> /\ ~headersSent[r]
    /\ stage[r] = "start" => sent[r] = <<>> /\ headersSent[r]
    /\ stage[r] = "body" => sent[r] = <<Start(200)>> /\ headersSent[r]
    /\ stage[r] = "finished" =>
          \/ headersSent[r] /\ sent[r] \in {<<>>, <<Start(200)>>, <<Start(200), Body(200)>>}
          \/ \E s \in {500, 504} : sent[r] = <<Start(s), Body(s)>>

\* Functions of the requests; a thread is awaited by one request.
RequestTypes ==
    /\ stage \in [Requests -> {"out", "handler", "awaiting", "start", "body", "finished"}]
    /\ headersSent \in [Requests -> BOOLEAN]
    /\ DOMAIN sent = Requests /\ sent = [r \in Requests |-> sent[r]]
    /\ worker \in [Requests -> Workers \union {None}]
    /\ busy \subseteq Workers
    /\ \A q, r \in Requests : worker[q] = worker[r] /\ worker[q] # None => q = r

\* No more slots are held or reserved than there are.
SlotsInv ==
    /\ IsFiniteSet(held) /\ IsFiniteSet(reserved) /\ reserved \subseteq Tickets
    /\ Cardinality(held) + Cardinality(reserved) <= Capacity

\* Only a handler or a thread outside admission is inside the pool.
ThreadsInv == \A t \in Threads : pc[t] # "out" => t \in busy \union Pollers

TimeoutInv ==
    /\ RequestTypes /\ (\A r \in Requests : AnswerInv(r))
    /\ SlotsInv /\ ThreadsInv

\* What the steps do with the slots.
SlotStep ==
    \/ UNCHANGED slotVars
    \/ \E r \in Requests : \/ Slots!Take(r) \/ Slots!Finish(r)
                           \/ \E t \in Tickets : Slots!Redeem(r, t)
    \/ \E S \in SUBSET reserved : Slots!Lapse(S)

LEMMA SlotsKept ==
    ASSUME SlotsInv, SlotStep
    PROVE  SlotsInv'
<1>. USE TimeoutAssumption DEF SlotsInv
<1>1. /\ IsFiniteSet(held) /\ IsFiniteSet(reserved)
      /\ Cardinality(held) \in Nat /\ Cardinality(reserved) \in Nat /\ Capacity \in Nat
  BY FS_CardinalityType
<1>2. CASE UNCHANGED slotVars
  BY <1>2 DEF slotVars
<1>3. ASSUME NEW r, Slots!Take(r) PROVE SlotsInv'
  <2>0. Slots!Used = Cardinality(held) + Cardinality(reserved)
    BY Zenon DEF Slots!Used, Slots!Cardinality, Cardinality
  <2>1. /\ r \notin held /\ held' = held \union {r} /\ reserved' = reserved
        /\ Cardinality(held) + Cardinality(reserved) < Capacity
    BY <1>3, <2>0 DEF Slots!Take
  <2>2. IsFiniteSet(held') /\ Cardinality(held') = Cardinality(held) + 1
    BY <2>1, <1>1, FS_AddElement
  <2>3. QED
    BY <2>1, <2>2, <1>1
<1>4. ASSUME NEW r, NEW t, Slots!Redeem(r, t) PROVE SlotsInv'
  <2>1. /\ r \notin held /\ held' = held \union {r}
        /\ t \in reserved /\ reserved' = reserved \ {t}
    BY <1>4 DEF Slots!Redeem
  <2>2. /\ IsFiniteSet(held') /\ Cardinality(held') = Cardinality(held) + 1
        /\ IsFiniteSet(reserved') /\ Cardinality(reserved') = Cardinality(reserved) - 1
    BY <2>1, <1>1, FS_AddElement, FS_RemoveElement
  <2>3. QED
    BY <2>1, <2>2, <1>1
<1>5. ASSUME NEW r, NEW t \in Tickets, Slots!HandOver(r, t) PROVE SlotsInv'
  <2>1. /\ r \in held /\ held' = held \ {r}
        /\ t \notin reserved /\ reserved' = reserved \union {t}
    BY <1>5 DEF Slots!HandOver
  <2>2. /\ IsFiniteSet(held') /\ Cardinality(held') = Cardinality(held) - 1
        /\ IsFiniteSet(reserved') /\ Cardinality(reserved') = Cardinality(reserved) + 1
    BY <2>1, <1>1, FS_AddElement, FS_RemoveElement
  <2>3. QED
    BY <2>1, <2>2, <1>1
<1>6. ASSUME NEW r, Slots!Free(r) PROVE SlotsInv'
  <2>1. r \in held /\ held' = held \ {r} /\ reserved' = reserved
    BY <1>6 DEF Slots!Free
  <2>2. IsFiniteSet(held') /\ Cardinality(held') = Cardinality(held) - 1
    BY <2>1, <1>1, FS_RemoveElement
  <2>3. QED
    BY <2>1, <2>2, <1>1
<1>7. ASSUME NEW S, Slots!Lapse(S) PROVE SlotsInv'
  <2>1. reserved' \in SUBSET reserved /\ held' = held
    BY <1>7 DEF Slots!Lapse
  <2>2. /\ IsFiniteSet(reserved') /\ Cardinality(reserved') <= Cardinality(reserved)
        /\ Cardinality(reserved') \in Nat
    BY <2>1, <1>1, FS_Subset, FS_CardinalityType
  <2>3. QED
    BY <2>1, <2>2, <1>1
<1>8. QED
  BY <1>2, <1>3, <1>4, <1>5, <1>6, <1>7 DEF SlotStep, Slots!Finish

\* To the pool, the steps around it are stutters.
LEMMA PoolSteps == [TimeoutNext]_timeoutVars => [Next]_vars
BY DEF TimeoutNext, timeoutVars, Enter, CallHandler, SendStart, SendBody, TimesOut, Leave,
       Query, HandlerReturns, PoolStep, Lapse, Next

LEMMA SlotSteps == [TimeoutNext]_timeoutVars => SlotStep
<1>. SUFFICES ASSUME [TimeoutNext]_timeoutVars PROVE SlotStep
  OBVIOUS
<1>. USE DEF SlotStep
<1>1. ASSUME NEW r \in Requests, Enter(r) \/ Leave(r) PROVE SlotStep
  BY <1>1 DEF Enter, Leave
<1>2. ASSUME Lapse PROVE SlotStep
  BY <1>2 DEF Lapse
<1>3. QED
  BY <1>1, <1>2 DEF TimeoutNext, timeoutVars, CallHandler, SendStart, SendBody, TimesOut,
       Query, HandlerReturns, PoolStep

-----------------------------------------------------------------------------
\* The messages of an answer, one after the other.
LEMMA TwoMessages == ASSUME NEW s, NEW u PROVE <<s>> \o <<u>> = <<s, u>>
<1>1. <<s>> \in Seq({s, u}) /\ <<u>> \in Seq({s, u})
  OBVIOUS
<1>2. /\ <<s>> \o <<u>> \in Seq({s, u}) /\ Len(<<s>> \o <<u>>) = 2
      /\ (<<s>> \o <<u>>)[1] = s /\ (<<s>> \o <<u>>)[2] = u
  BY <1>1
<1>3. <<s>> \o <<u>> \in [1..2 -> {s, u}]
  BY <1>2, LenProperties
<1>4. <<s>> \o <<u>> = [i \in 1..2 |-> (<<s>> \o <<u>>)[i]]
  BY <1>3
<1>5. <<s, u>> = [i \in 1..2 |-> <<s, u>>[i]]
  OBVIOUS
<1>6. \A i \in 1..2 : (<<s>> \o <<u>>)[i] = <<s, u>>[i]
  BY <1>2
<1>7. QED
  BY <1>4, <1>5, <1>6

LEMMA FirstMessages ==
    ASSUME NEW s, NEW u PROVE <<>> \o <<s>> = <<s>> /\ <<>> \o <<s, u>> = <<s, u>>
<1>1. <<s>> \in Seq({s, u}) /\ <<s, u>> \in Seq({s, u})
  OBVIOUS
<1>2. QED
  BY <1>1, ConcatEmptySeq

LEMMA RequestSteps ==
    ASSUME TimeoutInv, NEW r \in Requests,
           Enter(r) \/ CallHandler(r) \/ SendStart(r) \/ SendBody(r) \/ TimesOut(r) \/ Leave(r)
    PROVE  RequestTypes' /\ (\A q \in Requests : AnswerInv(q)')
<1>. USE PoolAssumption, TimeoutAssumption DEF TimeoutInv, RequestTypes, At
<1>1. CASE Enter(r)
  BY <1>1 DEF Enter, AnswerInv, Slots!Take, Slots!Redeem
<1>2. CASE CallHandler(r)
  <2>1. ASSUME NEW t \in Workers \ busy, busy' = busy \union {t}, worker' = [worker EXCEPT ![r] = t],
               At(r, "awaiting"), UNCHANGED <<headersSent, sent>>
        PROVE  RequestTypes' /\ (\A q \in Requests : AnswerInv(q)')
    BY <1>2, <2>1 DEF CallHandler, AnswerInv, slotVars
  <2>2. ASSUME GuardedSend(r), UNCHANGED <<worker, busy>>
        PROVE  RequestTypes' /\ (\A q \in Requests : AnswerInv(q)')
    BY <1>2, <2>2 DEF CallHandler, GuardedSend, AnswerInv, slotVars
  <2>3. QED
    BY <1>2, <2>1, <2>2 DEF CallHandler
<1>3. CASE SendStart(r)
  <2>1. sent' = [sent EXCEPT ![r] = <<Start(200)>>]
    <3>1. sent[r] = <<>>
      BY <1>3 DEF SendStart, AnswerInv
    <3>2. sent[r] \o <<Start(200)>> = <<Start(200)>>
      BY <3>1, FirstMessages
    <3>3. QED
      BY <1>3, <3>2 DEF SendStart, Sends
  <2>2. QED
    BY <1>3, <2>1 DEF SendStart, AnswerInv, slotVars
<1>4. CASE SendBody(r)
  <2>1. sent' = [sent EXCEPT ![r] = <<Start(200), Body(200)>>]
    <3>1. sent[r] = <<Start(200)>>
      BY <1>4 DEF SendBody, AnswerInv
    <3>2. sent[r] \o <<Body(200)>> = <<Start(200), Body(200)>>
      BY <3>1, TwoMessages
    <3>3. QED
      BY <1>4, <3>2 DEF SendBody, Sends
  <2>2. QED
    BY <1>4, <2>1 DEF SendBody, AnswerInv, slotVars
<1>5. CASE TimesOut(r)
  <2>1. \/ headersSent[r] /\ UNCHANGED sent
        \/ ~headersSent[r] /\ sent' = [sent EXCEPT ![r] = <<Start(504), Body(504)>>]
    <3>1. ~headersSent[r] => sent[r] = <<>>
      BY <1>5 DEF TimesOut, Cancellable, AnswerInv
    <3>2. ~headersSent[r] => sent[r] \o <<Start(504), Body(504)>> = <<Start(504), Body(504)>>
      BY <3>1, FirstMessages
    <3>3. CASE headersSent[r]
      BY <1>5, <3>3 DEF TimesOut, Refuse
    <3>4. CASE ~headersSent[r]
      BY <1>5, <3>2, <3>4 DEF TimesOut, Refuse, Sends
    <3>5. QED
      BY <3>3, <3>4
  <2>2. RequestTypes'
    BY <1>5, <2>1 DEF TimesOut, slotVars
  <2>3. AnswerInv(r)'
    <3>1. /\ stage[r] \in {"handler", "awaiting", "start", "body"} /\ stage'[r] = "finished"
          /\ worker'[r] = None /\ UNCHANGED <<held, headersSent>> /\ r \in held
      BY <1>5 DEF TimesOut, Cancellable, slotVars, AnswerInv
    <3>2. CASE headersSent[r] /\ UNCHANGED sent
      <4>1. sent[r] = <<>> \/ sent[r] = <<Start(200)>>
        BY <3>1, <3>2 DEF AnswerInv
      <4>2. sent'[r] \in {<<>>, <<Start(200)>>, <<Start(200), Body(200)>>} /\ headersSent'[r]
        BY <3>1, <3>2, <4>1
      <4>3. QED
        BY <3>1, <4>2 DEF AnswerInv
    <3>3. CASE sent' = [sent EXCEPT ![r] = <<Start(504), Body(504)>>]
      BY <3>1, <3>3 DEF AnswerInv
    <3>4. QED
      BY <2>1, <3>2, <3>3
  <2>4. \A q \in Requests \ {r} : AnswerInv(q)'
    BY <1>5, <2>1 DEF TimesOut, AnswerInv, slotVars
  <2>5. QED
    BY <2>2, <2>3, <2>4
<1>6. CASE Leave(r)
  BY <1>6 DEF Leave, AnswerInv, Slots!Finish, Slots!Free, Slots!HandOver
<1>7. QED
  BY <1>1, <1>2, <1>3, <1>4, <1>5, <1>6

LEMMA ThreadSteps ==
    ASSUME TimeoutInv, NEW t \in Threads, HandlerReturns(t)
    PROVE  RequestTypes' /\ (\A q \in Requests : AnswerInv(q)')
<1>. USE PoolAssumption, TimeoutAssumption DEF TimeoutInv, RequestTypes, At
<1>1. CASE Abandoned(t) /\ UNCHANGED requestVars
  BY <1>1 DEF HandlerReturns, Abandoned, requestVars, slotVars, AnswerInv
<1>2. ASSUME NEW r \in Requests, worker[r] = t, worker' = [worker EXCEPT ![r] = None],
             GuardedSend(r) \/ Fails(r)
      PROVE  RequestTypes' /\ (\A q \in Requests : AnswerInv(q)')
  <2>1. CASE GuardedSend(r)
    BY <1>2, <2>1 DEF HandlerReturns, GuardedSend, slotVars, AnswerInv
  <2>2. CASE Fails(r)
    <3>1. /\ \E status \in {500, 504} : sent' = [sent EXCEPT ![r] = <<Start(status), Body(status)>>]
          /\ stage[r] = "awaiting"
      <4>1. stage[r] = "awaiting" /\ sent[r] = <<>> /\ ~headersSent[r]
        BY <1>2 DEF AnswerInv
      <4>2. \A status \in {500, 504} :
               sent[r] \o <<Start(status), Body(status)>> = <<Start(status), Body(status)>>
        BY <4>1, FirstMessages
      <4>3. QED
        BY <2>2, <4>1, <4>2 DEF Fails, Refuse, Sends
    <3>2. QED
      BY <1>2, <2>2, <3>1 DEF HandlerReturns, Fails, slotVars, AnswerInv
  <2>3. QED
    BY <1>2, <2>1, <2>2
<1>3. QED
  BY <1>1, <1>2 DEF HandlerReturns

-----------------------------------------------------------------------------
\* Whoever is inside the pool runs a handler or belongs to the statistics.
LEMMA ThreadsKept ==
    ASSUME TimeoutInv, IndInv, [TimeoutNext]_timeoutVars
    PROVE  ThreadsInv'
<1>. USE DEF TimeoutInv, ThreadsInv, Pollers
<1>1. pc \in [Threads -> Labels]
  BY DEF IndInv, TypeOK
<1>2. ASSUME NEW r \in Requests,
             Enter(r) \/ CallHandler(r) \/ SendStart(r) \/ SendBody(r) \/ TimesOut(r) \/ Leave(r)
      PROVE  ThreadsInv'
  BY <1>2 DEF Enter, CallHandler, SendStart, SendBody, TimesOut, Leave, vars
<1>3. ASSUME NEW t \in Threads, Query(t) PROVE ThreadsInv'
  BY <1>1, <1>3 DEF Query, Call, Goto
<1>4. ASSUME NEW t \in Threads, HandlerReturns(t) PROVE ThreadsInv'
  BY <1>4 DEF HandlerReturns, vars
<1>5. ASSUME NEW t \in Threads, Advance(t), UNCHANGED busy PROVE ThreadsInv'
  <2>1. pc[t] # "out" /\ \E label : pc' = [pc EXCEPT ![t] = label]
    BY <1>5 DEF Advance, CreatePool, CreatePoolFails, CheckClosed, TryIdle, TakeIdle, Grow,
                Connect, ConnectFails, Wait, Finish, PutBack, Goto
  <2>2. QED
    BY <1>1, <1>5, <2>1
<1>6. ASSUME StartClose \/ Drain, UNCHANGED busy PROVE ThreadsInv'
  BY <1>6 DEF StartClose, Drain
<1>7. CASE Lapse \/ UNCHANGED timeoutVars
  BY <1>7 DEF Lapse, timeoutVars, vars
<1>8. QED
  BY <1>2, <1>3, <1>4, <1>5, <1>6, <1>7 DEF TimeoutNext, PoolStep

LEMMA RequestsKept ==
    ASSUME TimeoutInv, [TimeoutNext]_timeoutVars
    PROVE  RequestTypes' /\ (\A q \in Requests : AnswerInv(q)')
<1>1. ASSUME UNCHANGED <<requestVars, busy, held>>
      PROVE  RequestTypes' /\ (\A q \in Requests : AnswerInv(q)')
  BY <1>1 DEF TimeoutInv, requestVars, RequestTypes, AnswerInv
<1>2. ASSUME Lapse PROVE UNCHANGED <<requestVars, busy, held>>
  BY <1>2 DEF Lapse, Slots!Lapse
<1>3. ASSUME NEW t \in Threads, Query(t) PROVE UNCHANGED <<requestVars, busy, held>>
  BY <1>3 DEF Query, slotVars
<1>4. ASSUME PoolStep \/ UNCHANGED timeoutVars PROVE UNCHANGED <<requestVars, busy, held>>
  BY <1>4 DEF PoolStep, timeoutVars, slotVars
<1>5. QED
  BY <1>1, <1>2, <1>3, <1>4, RequestSteps, ThreadSteps DEF TimeoutNext

LEMMA InitTimeout == TimeoutInit => TimeoutInv /\ IndInv
<1>. SUFFICES ASSUME TimeoutInit PROVE TimeoutInv /\ IndInv
  OBVIOUS
<1>. USE DEF TimeoutInit
<1>1. IndInv
  BY InitIndInv
<1>2. held = {} /\ reserved = {}
  BY DEF Slots!Init
<1>3. SlotsInv
  BY <1>2, FS_EmptySet, TimeoutAssumption DEF SlotsInv
<1>4. ThreadsInv
  BY DEF ThreadsInv, Init
<1>5. RequestTypes
  BY PoolAssumption, TimeoutAssumption DEF RequestTypes
<1>6. \A r \in Requests : AnswerInv(r)
  BY <1>2 DEF AnswerInv
<1>7. QED
  BY <1>1, <1>3, <1>4, <1>5, <1>6 DEF TimeoutInv

\* What the timeout does to requests and threads, and the pool under it.
THEOREM TimeoutInductive == TimeoutSpec => [](TimeoutInv /\ IndInv)
<1>1. TimeoutInv /\ IndInv /\ [TimeoutNext]_timeoutVars => (TimeoutInv /\ IndInv)'
  <2> SUFFICES ASSUME TimeoutInv, IndInv, [TimeoutNext]_timeoutVars
               PROVE  TimeoutInv' /\ IndInv'
    OBVIOUS
  <2>1. IndInv'
    BY PoolSteps, NextIndInv
  <2>2. SlotsInv'
    BY SlotSteps, SlotsKept DEF TimeoutInv
  <2>3. QED
    BY <2>1, <2>2, ThreadsKept, RequestsKept DEF TimeoutInv
<1>2. QED
  BY <1>1, InitTimeout, PTL DEF TimeoutSpec

\* The timeout breaks neither side's promise: the slots are those of SlotPool,
\* and the pool behaves as it does alone, though threads that nobody waits for go
\* on using it.
THEOREM TimeoutKeepsBoth == TimeoutSpec => Slots!Safety /\ Safety
<1>1. TimeoutInit => Slots!Init /\ Init
  BY DEF TimeoutInit
<1>2. TimeoutInv /\ [TimeoutNext]_timeoutVars => [Slots!Next]_(Slots!poolVars)
  <2>1. ASSUME TimeoutInv, SlotStep PROVE [Slots!Next]_(Slots!poolVars)
    <3>1. ASSUME NEW S \in SUBSET reserved, Slots!Lapse(S)
          PROVE  Slots!Next
      <4>1. PICK t \in S : t \in Tickets
        BY <2>1, <3>1 DEF Slots!Lapse, TimeoutInv, SlotsInv
      <4>. QED
        BY <3>1, <4>1 DEF Slots!Next, Slots!Settle
    <3>2. ASSUME NEW r \in Requests, Slots!Take(r) \/ Slots!Finish(r) PROVE Slots!Next
      BY <3>2 DEF Slots!Next
    <3>3. ASSUME NEW r \in Requests, NEW t \in Tickets, Slots!Redeem(r, t) PROVE Slots!Next
      BY <3>3 DEF Slots!Next, Slots!Settle
    <3>. QED
      BY <2>1, <3>1, <3>2, <3>3 DEF SlotStep, Slots!poolVars, slotVars
  <2>. QED
    BY <2>1, SlotSteps
<1>. QED
  BY <1>1, <1>2, PoolSteps, TimeoutInductive, PTL DEF TimeoutSpec, Safety, Slots!Safety

\* So the pool's promises hold also where the timeout cancels requests at any await
\* and their threads are left behind.
THEOREM PoolKeepsPromises == TimeoutSpec => [](Ownership /\ SizeAccounts /\ NeverOverCapacity)
<1>1. IndInv => Ownership /\ SizeAccounts
  BY DEF IndInv
<1>. QED
  BY <1>1, FitsInQueue, TimeoutInductive, PTL

\* Every client gets one answer, whichever of the handler, the pool and the timer
\* comes first, for any number of requests and threads.
THEOREM AnsweredOnce == TimeoutSpec => []OneAnswer
<1>1. TimeoutInv => OneAnswer
  <2> SUFFICES ASSUME TimeoutInv, NEW r \in Requests
               PROVE  /\ \/ sent[r] = <<>> /\ (stage[r] = "finished" => headersSent[r])
                         \/ \E status \in {200, 500, 504} :
                              sent[r] \in {<<Start(status)>>, <<Start(status), Body(status)>>}
                      /\ r \in held <=> stage[r] # "out"
    BY DEF OneAnswer
  <2>1. AnswerInv(r) /\ stage[r] \in {"out", "handler", "awaiting", "start", "body", "finished"}
    BY DEF TimeoutInv, RequestTypes
  <2>2. \/ sent[r] = <<>> /\ (stage[r] = "finished" => headersSent[r])
        \/ \E s \in {200, 500, 504} : sent[r] \in {<<Start(s)>>, <<Start(s), Body(s)>>}
    <3>1. CASE stage[r] = "finished"
      <4>1. CASE headersSent[r] /\ sent[r] \in {<<>>, <<Start(200)>>, <<Start(200), Body(200)>>}
        BY <4>1
      <4>2. CASE \E s \in {500, 504} : sent[r] = <<Start(s), Body(s)>>
        BY <4>2
      <4>3. QED
        BY <2>1, <3>1, <4>1, <4>2 DEF AnswerInv
    <3>2. CASE stage[r] = "body"
      <4>1. sent[r] = <<Start(200)>>
        BY <2>1, <3>2 DEF AnswerInv
      <4>2. QED
        BY <4>1
    <3>3. CASE stage[r] \in {"out", "handler", "awaiting", "start"}
      BY <2>1, <3>3 DEF AnswerInv
    <3>4. QED
      BY <2>1, <3>1, <3>2, <3>3
  <2>3. QED
    BY <2>1, <2>2 DEF AnswerInv
<1>2. QED
  BY <1>1, TimeoutInductive, PTL

-----------------------------------------------------------------------------
\* The threads that somebody waits for are no more than the requests that run.
Awaited == {t \in busy : ~Abandoned(t)}

LEMMA AwaitedAreFew ==
    ASSUME TimeoutInv
    PROVE  IsFiniteSet(Awaited) /\ Cardinality(Awaited) <= Cardinality(held)
<1>. DEFINE f == [t \in Awaited |-> CHOOSE r \in Requests : worker[r] = t]
<1>1. \A t \in Awaited : f[t] \in Requests /\ worker[f[t]] = t
  BY DEF Awaited, Abandoned
<1>2. \A t \in Awaited : t # None
  BY PoolAssumption, TimeoutAssumption DEF Awaited, TimeoutInv, RequestTypes
<1>3. \A t \in Awaited : f[t] \in held
  BY <1>1, <1>2 DEF TimeoutInv, AnswerInv
<1>4. f \in Injection(Awaited, held)
  BY <1>1, <1>3 DEF Injection, IsInjective
<1>5. QED
  BY <1>4, FS_Injection DEF TimeoutInv, SlotsInv

\* With a connection for each slot and each thread outside admission, who has to
\* wait in a full pool waits because of a thread that was left behind.
THEOREM OnlyAbandonedBlock == TimeoutSpec => []WaitsForTheAbandoned
<1>1. TimeoutInv /\ IndInv => WaitsForTheAbandoned
  <2>1. SUFFICES ASSUME TimeoutInv, IndInv, NEW t \in Threads, pc[t] = "wait", ~Abandoned(t),
                        idle = {}, size = MaxSize, ~closed,
                        Capacity + Cardinality(Pollers) <= MaxSize,
                        \A u \in Holders \union Makers : ~Abandoned(u)
                 PROVE  FALSE
    BY DEF WaitsForTheAbandoned
  <2>. DEFINE inside == Holders \union Makers
  <2>2. /\ IsFiniteSet(Holders) /\ IsFiniteSet(Makers) /\ Holders \intersect Makers = {}
        /\ Cardinality(Holders) \in Nat /\ Cardinality(Makers) \in Nat
        /\ Cardinality(Holders) + Cardinality(Makers) = MaxSize
    BY <2>1, FS_CardinalityType, FS_EmptySet
       DEF IndInv, Counting, Places, SizeAccounts, Holders, Makers
  <2>3. IsFiniteSet(inside) /\ Cardinality(inside) = MaxSize
    BY <2>2, FS_Union, FS_EmptySet
  <2>4. t \notin inside /\ inside \union {t} \subseteq Awaited \union Pollers
    <3>1. \A u \in inside \union {t} : pc[u] # "out" /\ u \in Threads /\ ~Abandoned(u)
      BY <2>1 DEF IndInv, Places, Holders, Makers
    <3>2. t \notin inside
      BY <2>1 DEF IndInv, Places, Holders, Makers
    <3>3. inside \union {t} \subseteq Awaited \union Pollers
      BY <2>1, <3>1 DEF TimeoutInv, ThreadsInv, Awaited
    <3>4. QED
      BY <3>2, <3>3
  <2>5. IsFiniteSet(inside \union {t}) /\ Cardinality(inside \union {t}) = MaxSize + 1
    BY <2>3, <2>4, FS_AddElement
  <2>6. /\ IsFiniteSet(Awaited) /\ IsFiniteSet(Pollers)
        /\ Cardinality(Awaited) \in Nat /\ Cardinality(Pollers) \in Nat
        /\ Cardinality(Awaited) <= Cardinality(held)
    BY <2>1, AwaitedAreFew, TimeoutAssumption, FS_CardinalityType DEF Pollers
  <2>7. Cardinality(held) <= Capacity /\ Cardinality(held) \in Nat /\ Capacity \in Nat
    BY <2>1, FS_CardinalityType, TimeoutAssumption DEF TimeoutInv, SlotsInv
  <2>8. /\ IsFiniteSet(Awaited \union Pollers)
        /\ Cardinality(Awaited \union Pollers) <= Cardinality(Awaited) + Cardinality(Pollers)
        /\ Cardinality(Awaited \union Pollers) \in Nat
    <3>1. IsFiniteSet(Awaited \intersect Pollers) /\ Cardinality(Awaited \intersect Pollers) \in Nat
      BY <2>6, FS_Subset, FS_CardinalityType
    <3>2. /\ IsFiniteSet(Awaited \union Pollers)
          /\ Cardinality(Awaited \union Pollers)
                = Cardinality(Awaited) + Cardinality(Pollers) - Cardinality(Awaited \intersect Pollers)
      BY <2>6, FS_Union
    <3>3. QED
      BY <2>6, <3>1, <3>2, FS_CardinalityType
  <2>9. Cardinality(inside \union {t}) <= Cardinality(Awaited \union Pollers)
    BY <2>4, <2>8, FS_Subset
  <2>10. QED
    BY <2>1, <2>5, <2>6, <2>7, <2>8, <2>9, PoolAssumption
<1>2. QED
  BY <1>1, TimeoutInductive, PTL
=============================================================================

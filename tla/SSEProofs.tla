----------------------------- MODULE SSEProofs -----------------------------
(* Proofs about SSE.  What a subscriber will have seen when its queue is   *)
(* empty is the last event in it, so that the invariant speaks about that: *)
(* the last event of a queue is the latest broadcast, and a subscriber for *)
(* which there was no room is none any more.                               *)
EXTENDS SSE, FiniteSetTheorems, TLAPS

\* An event of a subscriber that is the last is the latest.
QueuesAreCurrent ==
    \A c \in subscribers : queue[c] # <<>> => queue[c][Len(queue[c])] = lastStats

Base == SSETypeOK /\ IsFiniteSet(subscribers)

-----------------------------------------------------------------------------
(* Types. *)

\* A queue that gets another event, or gives one away.
LEMMA Queues ==
    ASSUME NEW S, NEW q \in Seq(S), NEW e \in S
    PROVE  /\ Append(q, e) \in Seq(S) /\ Len(Append(q, e)) = Len(q) + 1
           /\ Append(q, e)[Len(q) + 1] = e /\ Append(q, e) # <<>>
           /\ q # <<>> => /\ Head(q) \in S /\ Tail(q) \in Seq(S)
                          /\ Len(Tail(q)) = Len(q) - 1
                          /\ Tail(q) # <<>> => Tail(q)[Len(Tail(q))] = q[Len(q)]
                          /\ Tail(q) = <<>> => Head(q) = q[Len(q)]
OBVIOUS

\* Nothing but a subscription makes the subscribers more.
LEMMA FewerSubscribers ==
    ASSUME Base, subscribers' \subseteq subscribers
    PROVE  /\ IsFiniteSet(subscribers') /\ subscribers' \subseteq Clients
           /\ MaxSubscribers # 0 => Cardinality(subscribers') <= MaxSubscribers
<1>1. IsFiniteSet(subscribers') /\ Cardinality(subscribers') <= Cardinality(subscribers)
  BY FS_Subset DEF Base
<1>2. Cardinality(subscribers) \in Nat /\ Cardinality(subscribers') \in Nat
  BY <1>1, FS_CardinalityType DEF Base
<1>3. QED
  BY <1>1, <1>2, SSEAssumption DEF Base, SSETypeOK

LEMMA ClientKeepsType ==
    ASSUME Base, NEW c \in Clients,
           Subscribe(c) \/ Refuse(c) \/ StartStream(c) \/ Abandon(c) \/ Receive(c) \/ Disconnect(c)
    PROVE  Base'
<1> USE SSEAssumption
<1>1. CASE Subscribe(c)
  <2>1. /\ IsFiniteSet(subscribers') /\ subscribers' \subseteq Clients
        /\ Cardinality(subscribers') = Cardinality(subscribers) + 1
    BY <1>1, FS_AddElement DEF Subscribe, Base, SSETypeOK
  <2>2. Cardinality(subscribers) \in Nat
    BY FS_CardinalityType DEF Base
  <2>3. MaxSubscribers # 0 => Cardinality(subscribers') <= MaxSubscribers
    BY <1>1, <2>1, <2>2 DEF Subscribe, Full
  <2>4. queue' \in [Clients -> Seq(Versions)] /\ \A d \in Clients : Len(queue'[d]) <= QueueSize
    BY <1>1 DEF Subscribe, Base, SSETypeOK
  <2>5. QED
    BY <1>1, <2>1, <2>3, <2>4 DEF Subscribe, Base, SSETypeOK
<1>2. CASE Refuse(c)
  BY <1>2 DEF Refuse, sseVars, Base, SSETypeOK
<1>3. CASE StartStream(c) \/ Abandon(c)
  BY <1>3 DEF StartStream, Abandon, Base, SSETypeOK
<1>4. CASE Receive(c)
  <2>1. queue[c] \in Seq(Versions) /\ queue[c] # <<>> /\ Len(queue[c]) <= QueueSize
    BY <1>4 DEF Receive, Base, SSETypeOK
  <2>2. /\ Head(queue[c]) \in Versions /\ Tail(queue[c]) \in Seq(Versions)
        /\ Len(Tail(queue[c])) <= QueueSize
    BY <2>1
  <2>3. queue' \in [Clients -> Seq(Versions)] /\ \A d \in Clients : Len(queue'[d]) <= QueueSize
    BY <1>4, <2>2 DEF Receive, Base, SSETypeOK
  <2>4. seen' \in [Clients -> Versions]
    BY <1>4, <2>2 DEF Receive, Base, SSETypeOK
  <2>5. QED
    BY <1>4, <2>3, <2>4 DEF Receive, Base, SSETypeOK
<1>5. CASE Disconnect(c)
  <2>1. subscribers' \subseteq subscribers
    BY <1>5 DEF Disconnect, Unsubscribe
  <2>2. queue' \in [Clients -> Seq(Versions)] /\ \A d \in Clients : Len(queue'[d]) <= QueueSize
    BY <1>5 DEF Disconnect, Base, SSETypeOK
  <2>3. cancelled' \in BOOLEAN
    BY <1>5 DEF Disconnect, Unsubscribe
  <2>4. seen' \in [Clients -> Versions]
    BY <1>5 DEF Disconnect, Base, SSETypeOK, Versions
  <2>5. QED
    BY <1>5, <2>1, <2>2, <2>3, <2>4, FewerSubscribers DEF Disconnect, Base, SSETypeOK
<1>6. QED
  BY <1>1, <1>2, <1>3, <1>4, <1>5

LEMMA BroadcastKeepsType ==
    ASSUME Base, Broadcast
    PROVE  Base'
<1> USE SSEAssumption
<1>1. subscribers' \subseteq subscribers
  BY DEF Broadcast, PutToAll
<1>2. ASSUME data # lastStats
      PROVE  queue' \in [Clients -> Seq(Versions)] /\ \A c \in Clients : Len(queue'[c]) <= QueueSize
  <2>1. ASSUME NEW c \in Clients PROVE queue'[c] \in Seq(Versions) /\ Len(queue'[c]) <= QueueSize
    <3>1. queue[c] \in Seq(Versions) /\ data \in Versions /\ Len(queue[c]) <= QueueSize
      BY DEF Base, SSETypeOK
    <3>2. CASE HasRoom(c) /\ c \in subscribers
      <4>1. queue'[c] = Append(queue[c], data)
        BY <1>2, <3>2 DEF Broadcast, PutToAll
      <4>2. Append(queue[c], data) \in Seq(Versions) /\ Len(Append(queue[c], data)) = Len(queue[c]) + 1
        BY <3>1, Queues
      <4>3. QED
        BY <3>1, <3>2, <4>1, <4>2 DEF HasRoom
    <3>3. CASE ~(HasRoom(c) /\ c \in subscribers)
      BY <1>2, <3>1, <3>3 DEF Broadcast, PutToAll
    <3>4. QED
      BY <3>2, <3>3
  <2>2. QED
    BY <1>2, <2>1 DEF Broadcast, PutToAll
<1>3. queue' \in [Clients -> Seq(Versions)] /\ \A c \in Clients : Len(queue'[c]) <= QueueSize
  BY <1>2 DEF Broadcast, Base, SSETypeOK
<1>4. QED
  BY <1>1, <1>3, FewerSubscribers DEF Broadcast, Base, SSETypeOK, Versions

LEMMA TypeInductive ==
    /\ SSEInit => Base
    /\ Base /\ [SSENext]_sseVars => Base'
<1> USE SSEAssumption
<1>1. ASSUME SSEInit PROVE Base
  <2>1. IsFiniteSet(subscribers) /\ Cardinality(subscribers) = 0
    BY <1>1, FS_EmptySet DEF SSEInit
  <2>2. queue \in [Clients -> Seq(Versions)] /\ \A c \in Clients : Len(queue[c]) <= QueueSize
    BY <1>1 DEF SSEInit
  <2>3. 0 \in Versions /\ 1 \in 1..MaxVersion /\ 0 \in 0..MaxFailures
    BY DEF Versions
  <2>4. MaxSubscribers # 0 => Cardinality(subscribers) <= MaxSubscribers
    BY <2>1
  <2>5. QED
    BY <1>1, <2>1, <2>2, <2>3, <2>4 DEF SSEInit, Base, SSETypeOK
<1>2. ASSUME Base, [SSENext]_sseVars PROVE Base'
  <2>1. CASE TaskCancelled \/ LoopHead \/ FetchFails
    <3>1. CASE TaskCancelled
      BY <1>2, <3>1 DEF TaskCancelled, Base, SSETypeOK
    <3>2. CASE LoopHead
      BY <1>2, <3>2 DEF LoopHead, Base, SSETypeOK
    <3>3. CASE FetchFails
      <4>1. failures' \in 0..MaxFailures
        BY <1>2, <3>3 DEF FetchFails, Base, SSETypeOK
      <4>2. QED
        BY <1>2, <3>3, <4>1 DEF FetchFails, Base, SSETypeOK
    <3>4. QED
      BY <2>1, <3>1, <3>2, <3>3
  <2>2. CASE Fetch \/ WorldChanges
    BY <1>2, <2>2 DEF Fetch, WorldChanges, Base, SSETypeOK, Versions
  <2>3. CASE UNCHANGED sseVars
    BY <1>2, <2>3 DEF sseVars, Base, SSETypeOK
  <2>4. QED
    BY <1>2, <2>1, <2>2, <2>3, ClientKeepsType, BroadcastKeepsType DEF SSENext
<1>3. QED
  BY <1>1, <1>2

\* Every variable keeps its type: no more subscribers than max_subscribers, no
\* queue longer than its maxsize.
THEOREM TypeCorrect == SSESpec => []SSETypeOK
<1>1. Base => SSETypeOK
  BY DEF Base
<1>2. QED
  BY <1>1, TypeInductive, PTL DEF SSESpec

-----------------------------------------------------------------------------
(* Who is subscribed is caught up, or will be by its queue. *)

LEMMA ReceiveIsCurrent ==
    ASSUME Base, QueuesAreCurrent, CaughtUp, NEW c \in Clients, Receive(c)
    PROVE  QueuesAreCurrent' /\ CaughtUp'
<1>1. queue[c] \in Seq(Versions) /\ queue[c] # <<>> /\ lastStats \in Versions
  BY DEF Receive, Base, SSETypeOK
<1>2. /\ Tail(queue[c]) # <<>> => Tail(queue[c])[Len(Tail(queue[c]))] = queue[c][Len(queue[c])]
      /\ Tail(queue[c]) = <<>> => Head(queue[c]) = queue[c][Len(queue[c])]
  BY <1>1, Queues
<1>3. /\ queue'[c] = Tail(queue[c]) /\ seen'[c] = Head(queue[c])
      /\ \A d \in Clients \ {c} : queue'[d] = queue[d] /\ seen'[d] = seen[d]
      /\ UNCHANGED <<subscribers, stream, lastStats>> /\ subscribers \subseteq Clients
  BY DEF Receive, Base, SSETypeOK
<1>4. ASSUME NEW d \in subscribers
      PROVE  /\ queue'[d] # <<>> => queue'[d][Len(queue'[d])] = lastStats
             /\ stream[d] = "open" /\ queue'[d] = <<>> => seen'[d] = lastStats
  <2>1. CASE d = c
    BY <1>1, <1>2, <1>3, <2>1 DEF QueuesAreCurrent
  <2>2. CASE d # c
    BY <1>3, <2>2 DEF QueuesAreCurrent, CaughtUp
  <2>3. QED
    BY <2>1, <2>2
<1>5. QED
  BY <1>3, <1>4 DEF QueuesAreCurrent, CaughtUp

LEMMA BroadcastIsCurrent ==
    ASSUME Base, QueuesAreCurrent, CaughtUp, Broadcast
    PROVE  QueuesAreCurrent' /\ CaughtUp'
<1>1. CASE data = lastStats
  BY <1>1 DEF Broadcast, QueuesAreCurrent, CaughtUp
<1>2. CASE data # lastStats
  <2>1. ASSUME NEW c \in subscribers'
        PROVE  queue'[c] # <<>> /\ queue'[c][Len(queue'[c])] = lastStats'
    <3>1. c \in Clients /\ c \in subscribers /\ HasRoom(c) /\ lastStats' = data
      BY <1>2, <2>1 DEF Broadcast, PutToAll, Base, SSETypeOK
    <3>2. queue'[c] = Append(queue[c], data)
      BY <1>2, <3>1 DEF Broadcast, PutToAll
    <3>3. queue[c] \in Seq(Versions) /\ data \in Versions
      BY <3>1 DEF Base, SSETypeOK
    <3>4. /\ Append(queue[c], data) # <<>>
          /\ Append(queue[c], data)[Len(queue[c]) + 1] = data
          /\ Len(Append(queue[c], data)) = Len(queue[c]) + 1
      BY <3>3, Queues
    <3>5. QED
      BY <3>1, <3>2, <3>4
  <2>2. QED
    BY <2>1 DEF QueuesAreCurrent, CaughtUp
<1>3. QED
  BY <1>1, <1>2

LEMMA CurrentInductive ==
    /\ SSEInit => QueuesAreCurrent /\ CaughtUp
    /\ Base /\ QueuesAreCurrent /\ CaughtUp /\ [SSENext]_sseVars => QueuesAreCurrent' /\ CaughtUp'
<1>1. SSEInit => QueuesAreCurrent /\ CaughtUp
  BY DEF SSEInit, QueuesAreCurrent, CaughtUp
<1>2. ASSUME Base, QueuesAreCurrent, CaughtUp, [SSENext]_sseVars PROVE QueuesAreCurrent' /\ CaughtUp'
  <2>1. ASSUME NEW c \in Clients, Subscribe(c) PROVE QueuesAreCurrent' /\ CaughtUp'
    BY <1>2, <2>1 DEF Subscribe, QueuesAreCurrent, CaughtUp, Base, SSETypeOK
  <2>2. ASSUME NEW c \in Clients, StartStream(c) PROVE QueuesAreCurrent' /\ CaughtUp'
    BY <1>2, <2>2 DEF StartStream, QueuesAreCurrent, CaughtUp, Base, SSETypeOK
  <2>3. ASSUME NEW c \in Clients, Abandon(c) PROVE QueuesAreCurrent' /\ CaughtUp'
    BY <1>2, <2>3 DEF Abandon, QueuesAreCurrent, CaughtUp, Base, SSETypeOK
  <2>4. ASSUME NEW c \in Clients, Disconnect(c) PROVE QueuesAreCurrent' /\ CaughtUp'
    BY <1>2, <2>4 DEF Disconnect, Unsubscribe, QueuesAreCurrent, CaughtUp, Base, SSETypeOK
  <2>5. CASE UNCHANGED <<subscribers, queue, stream, seen, lastStats>>
    BY <1>2, <2>5 DEF QueuesAreCurrent, CaughtUp
  <2>6. (\E c \in Clients : Refuse(c)) \/ TaskCancelled \/ LoopHead \/ Fetch \/ FetchFails
        \/ WorldChanges \/ UNCHANGED sseVars => UNCHANGED <<subscribers, queue, stream, seen, lastStats>>
    BY DEF Refuse, TaskCancelled, LoopHead, Fetch, FetchFails, WorldChanges, sseVars
  <2>7. QED
    BY <1>2, <2>1, <2>2, <2>3, <2>4, <2>5, <2>6, ReceiveIsCurrent, BroadcastIsCurrent DEF SSENext
<1>3. QED
  BY <1>1, <1>2

\* No subscriber misses the last change: the one event that a full queue loses
\* is followed by no other, for the subscription ends with it.
THEOREM NobodyMissesTheLast == SSESpec => []CaughtUp
<1>1. SSESpec => [](Base /\ QueuesAreCurrent /\ CaughtUp)
  BY TypeInductive, CurrentInductive, PTL DEF SSESpec
<1>2. QED
  BY <1>1, PTL

-----------------------------------------------------------------------------
\* Of all that can happen to the polling task, only the cancel for a last
\* subscriber that left can leave others behind.
THEOREM LostByCancelOnly == SSESpec => OnlyCancelLosesTheLoop
<1>1. [SSENext]_sseVars => [~Unpolled /\ Unpolled' => cancelled]_sseVars
  <2>1. SUFFICES ASSUME SSENext, ~Unpolled, Unpolled' PROVE cancelled
    BY DEF Unpolled, TaskDone, sseVars
  <2>2. ASSUME NEW c \in Clients PROVE ~Subscribe(c) /\ ~Disconnect(c)
    BY <2>1 DEF Subscribe, Disconnect, Unsubscribe, Unpolled, TaskDone
  <2>3. ASSUME NEW c \in Clients PROVE ~(Refuse(c) \/ StartStream(c) \/ Abandon(c) \/ Receive(c))
    BY <2>1 DEF Refuse, StartStream, Abandon, Receive, sseVars, Unpolled, TaskDone
  <2>4. ~(LoopHead \/ Fetch \/ FetchFails \/ Broadcast \/ WorldChanges)
    BY <2>1 DEF LoopHead, Fetch, FetchFails, Broadcast, WorldChanges, Unpolled, TaskDone
  <2>5. TaskCancelled
    BY <2>1, <2>2, <2>3, <2>4 DEF SSENext
  <2>6. QED
    BY <2>5 DEF TaskCancelled
<1>2. QED
  BY <1>1, PTL DEF SSESpec, OnlyCancelLosesTheLoop
=============================================================================

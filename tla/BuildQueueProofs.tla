--------------------------- MODULE BuildQueueProofs ---------------------------
(***************************************************************************)
(* Proofs about BuildQueue for every worker count, every set of requests   *)
(* and every bound: the transport keeps its type and its order, loses      *)
(* nothing silently and repeats nothing unless a crash intervened.         *)
(***************************************************************************)
EXTENDS BuildQueue, FiniteSetTheorems, SequenceTheorems, TLAPS

USE WorkerCountAssumption DEF Workers

\* The initial state is typed.
LEMMA InitTypeOK == QueueInit => QueueTypeOK
BY DEF QueueInit, QueueTypeOK

\* Every step of the transport keeps the type invariant.
LEMMA StepTypeOK == QueueTypeOK /\ [QueueNext]_queueVars => QueueTypeOK'
<1> SUFFICES ASSUME QueueTypeOK, [QueueNext]_queueVars PROVE QueueTypeOK'
  OBVIOUS
<1> USE DEF QueueTypeOK, brokerVars, consumerVars, historyVars
<1>1. ASSUME NEW r \in Requests, Produce(r) PROVE QueueTypeOK'
  BY <1>1 DEF Produce
<1>2. CASE AutoCommit
  BY <1>2 DEF AutoCommit
<1>3. CASE ConsumerPoll \/ ConsumerClose \/ ConsumerTimeout
  BY <1>3 DEF ConsumerPoll, ConsumerClose, ConsumerTimeout
<1>4. CASE ConsumerRead
  BY <1>4 DEF ConsumerRead
<1>5. CASE ConsumerSend
  BY <1>5 DEF ConsumerSend
<1>6. ASSUME NEW w \in Workers, Take(w) PROVE QueueTypeOK'
  <2>1. Head(msgChan) \in Nat /\ Tail(msgChan) \in Seq(Nat)
    BY <1>6, HeadTailProperties DEF Take
  <2> QED
    BY <1>6, <2>1 DEF Take
<1>7. ASSUME NEW w \in Workers, Finish(w) PROVE QueueTypeOK'
  BY <1>7 DEF Finish
<1>8. CASE Signal \/ Exit \/ Restart
  <2>1. CASE Signal
    BY <2>1 DEF Signal
  <2>2. CASE Exit
    BY <2>2 DEF Exit
  <2>3. CASE Restart
    BY <2>3 DEF Restart
  <2> QED
    BY <1>8, <2>1, <2>2, <2>3
<1>9. CASE Crash
  <2>1. Held \in SUBSET Nat
    BY DEF Held, InChannel, AtWorkers
  <2>2. lost' = lost \cup {o \in Held : o <= committed}
        /\ redo' = redo \cup (committed + 1 .. position)
    BY <1>9 DEF Crash
  <2>3. msgChan' = <<>> /\ msgChan' \in Seq(Nat)
    BY <1>9 DEF Crash
  <2>4. lost' \in SUBSET Nat
    BY <2>1, <2>2
  <2>5. redo' \in SUBSET Nat
    BY <2>2
  <2> QED
    BY <1>9, <2>3, <2>4, <2>5 DEF Crash
<1>10. CASE UNCHANGED queueVars
  BY <1>10 DEF queueVars
<1> QED
  BY <1>1, <1>2, <1>3, <1>4, <1>5, <1>6, <1>7, <1>8, <1>9, <1>10
  DEF QueueNext, ConsumerStep

\* The state of the transport is typed in every behaviour.
THEOREM QueueTypeCorrect == QueueSpec => []QueueTypeOK
BY InitTypeOK, StepTypeOK, PTL DEF QueueSpec

-----------------------------------------------------------------------------

\* Nothing has been read at the start.
LEMMA InitDispatchOrder == QueueInit => DispatchOrder
BY DEF QueueInit, DispatchOrder, Sent

\* Every step of the transport keeps the order.
LEMMA StepDispatchOrder ==
    QueueTypeOK /\ DispatchOrder /\ [QueueNext]_queueVars => DispatchOrder'
<1> SUFFICES ASSUME QueueTypeOK, DispatchOrder, [QueueNext]_queueVars
             PROVE DispatchOrder'
  OBVIOUS
<1> USE DEF QueueTypeOK, DispatchOrder, Sent, brokerVars, consumerVars, historyVars
<1>1. ASSUME NEW r \in Requests, Produce(r) PROVE DispatchOrder'
  BY <1>1 DEF Produce
<1>2. CASE AutoCommit
  BY <1>2 DEF AutoCommit
<1>3. CASE ConsumerPoll \/ ConsumerClose \/ ConsumerTimeout
  BY <1>3 DEF ConsumerPoll, ConsumerClose, ConsumerTimeout, Alive
<1>4. CASE ConsumerRead
  BY <1>4 DEF ConsumerRead, Alive
<1>5. CASE ConsumerSend
  <2>1. /\ msgChan' = Append(msgChan, polled)
        /\ Len(msgChan') = Len(msgChan) + 1
        /\ \A i \in 1 .. Len(msgChan) : msgChan'[i] = msgChan[i]
        /\ msgChan'[Len(msgChan) + 1] = polled
    BY <1>5 DEF ConsumerSend
  <2>2. polled = position /\ polled # 0 /\ Sent = position - 1 /\ Sent' = position
    BY <1>5 DEF ConsumerSend
  <2>3. \A i \in 1 .. Len(msgChan') : msgChan'[i] = Sent' - Len(msgChan') + i
    BY <2>1, <2>2
  <2> QED
    BY <1>5, <2>1, <2>2, <2>3 DEF ConsumerSend, Alive
<1>6. ASSUME NEW w \in Workers, Take(w) PROVE DispatchOrder'
  <2>1. /\ Len(msgChan) \in Nat \ {0}
        /\ Head(msgChan) = msgChan[1]
        /\ Len(msgChan') = Len(msgChan) - 1
        /\ \A i \in 1 .. Len(msgChan') : msgChan'[i] = msgChan[i + 1]
    BY <1>6, EmptySeq, HeadTailProperties DEF Take
  <2>2. Sent' = Sent /\ Sent \in Nat /\ worker'[w] = Sent - Len(msgChan) + 1
    BY <1>6, <2>1 DEF Take
  <2>3. \A v \in Workers : v # w => worker'[v] = worker[v] /\ worker[v] # worker'[w]
    BY <1>6, <2>2 DEF Take
  <2>4. /\ \A i \in 1 .. Len(msgChan) : msgChan[i] = Sent - Len(msgChan) + i
        /\ \A v \in Workers : worker[v] \in Nat /\ worker[v] <= Sent - Len(msgChan)
    OBVIOUS
  <2>5. /\ \A i \in 1 .. Len(msgChan') : msgChan'[i] = Sent' - Len(msgChan') + i
        /\ \A v \in Workers : worker'[v] <= Sent' - Len(msgChan')
    <3> HIDE DEF Sent, QueueTypeOK, DispatchOrder
    <3>1. \A i \in 1 .. Len(msgChan') : msgChan'[i] = Sent' - Len(msgChan') + i
      BY <2>1, <2>2, <2>4
    <3>2. \A v \in Workers : worker'[v] <= Sent' - Len(msgChan')
      BY <2>1, <2>2, <2>3, <2>4
    <3> QED
      BY <3>1, <3>2
  <2>6. \A u, v \in Workers : u # v /\ worker'[u] # 0 => worker'[u] # worker'[v]
    BY <2>3
  <2> QED
    BY <1>6, <2>1, <2>2, <2>5, <2>6 DEF Take
<1>7. ASSUME NEW w \in Workers, Finish(w) PROVE DispatchOrder'
  BY <1>7 DEF Finish
<1>8. CASE Signal \/ Exit \/ Restart
  <2>1. CASE Signal
    BY <2>1 DEF Signal
  <2>2. CASE Exit
    BY <2>2 DEF Exit
  <2>3. CASE Restart
    BY <2>3 DEF Restart
  <2> QED
    BY <1>8, <2>1, <2>2, <2>3
<1>9. CASE Crash
  BY <1>9 DEF Crash
<1>10. CASE UNCHANGED queueVars
  BY <1>10 DEF queueVars
<1> QED
  BY <1>1, <1>2, <1>3, <1>4, <1>5, <1>6, <1>7, <1>8, <1>9, <1>10
  DEF QueueNext, ConsumerStep

\* Whatever crashes and restarts happen, the requests reach the workers in
\* the order of the partition and no request is in two places.
THEOREM QueueDispatchOrder == QueueSpec => [](QueueTypeOK /\ DispatchOrder)
<1>1. QueueInit => QueueTypeOK /\ DispatchOrder
  BY InitTypeOK, InitDispatchOrder
<1>2. QueueTypeOK /\ DispatchOrder /\ [QueueNext]_queueVars
      => (QueueTypeOK /\ DispatchOrder)'
  BY StepTypeOK, StepDispatchOrder
<1> QED
  BY <1>1, <1>2, PTL DEF QueueSpec
-----------------------------------------------------------------------------

\* What is held lies in what was read.
LEMMA HeldIsRead ==
    ASSUME QueueTypeOK, DispatchOrder
    PROVE  Held \subseteq 1 .. position
<1> USE DEF QueueTypeOK, DispatchOrder, Sent
<1>1. {polled} \ {0} \subseteq 1 .. position
  OBVIOUS
<1>2. InChannel \subseteq 1 .. position
  <2>1. ASSUME NEW i \in 1 .. Len(msgChan) PROVE msgChan[i] \in 1 .. position
    <3>1. Sent \in Int /\ Sent <= position /\ Len(msgChan) \in Nat /\ i \in Nat
      OBVIOUS
    <3>2. msgChan[i] = Sent - Len(msgChan) + i /\ Len(msgChan) <= Sent
      OBVIOUS
    <3> HIDE DEF QueueTypeOK, DispatchOrder, Sent
    <3>3. position \in Nat
      BY DEF QueueTypeOK
    <3> QED
      BY <3>1, <3>2, <3>3
  <2> QED
    BY <2>1 DEF InChannel
<1>3. AtWorkers \subseteq 1 .. position
  BY DEF AtWorkers
<1> QED
  BY <1>1, <1>2, <1>3 DEF Held

\* A message that is polled enters what is held.
LEMMA HeldByRead ==
    ASSUME QueueTypeOK, DispatchOrder, ConsumerRead
    PROVE  Held' = Held \cup {position + 1}
BY DEF QueueTypeOK, DispatchOrder, ConsumerRead, Held, InChannel, AtWorkers

\* The send moves a message from the consumer to the channel.
LEMMA HeldBySend ==
    ASSUME QueueTypeOK, DispatchOrder, ConsumerSend
    PROVE  Held' = Held
<1>1. InChannel' = InChannel \cup {polled}
  <2>1. /\ Len(msgChan') = Len(msgChan) + 1
        /\ \A i \in 1 .. Len(msgChan) : msgChan'[i] = msgChan[i]
        /\ msgChan'[Len(msgChan) + 1] = polled
        /\ Len(msgChan) \in Nat
    BY DEF QueueTypeOK, ConsumerSend
  <2>2. \A i \in 1 .. Len(msgChan') : i \in 1 .. Len(msgChan) \/ i = Len(msgChan) + 1
    BY <2>1
  <2>3. 1 .. Len(msgChan) \subseteq 1 .. Len(msgChan') /\ Len(msgChan) + 1 \in 1 .. Len(msgChan')
    BY <2>1
  <2> QED
    BY <2>1, <2>2, <2>3 DEF InChannel
<1>2. polled # 0 /\ polled' = 0 /\ AtWorkers' = AtWorkers
  BY DEF DispatchOrder, ConsumerSend, AtWorkers
<1>3. 0 \notin InChannel
  BY HeldIsRead DEF Held, QueueTypeOK
<1> QED
  BY <1>1, <1>2, <1>3 DEF Held

\* The receive moves a message from the channel to a worker.
LEMMA HeldByTake ==
    ASSUME QueueTypeOK, DispatchOrder, NEW w \in Workers, Take(w)
    PROVE  Held' = Held
<1>1. InChannel = InChannel' \cup {Head(msgChan)}
  <2>1. /\ Len(msgChan) \in Nat \ {0}
        /\ Head(msgChan) = msgChan[1]
        /\ Len(msgChan') = Len(msgChan) - 1
        /\ \A i \in 1 .. Len(msgChan') : msgChan'[i] = msgChan[i + 1]
    BY EmptySeq, HeadTailProperties DEF QueueTypeOK, Take
  <2>2. InChannel \subseteq InChannel' \cup {Head(msgChan)}
    <3> SUFFICES ASSUME NEW i \in 1 .. Len(msgChan), i # 1
                 PROVE  msgChan[i] \in InChannel'
      BY <2>1 DEF InChannel
    <3>1. i - 1 \in 1 .. Len(msgChan') /\ (i - 1) + 1 = i
      BY <2>1
    <3> QED
      BY <2>1, <3>1 DEF InChannel
  <2>3. InChannel' \subseteq InChannel
    <3> SUFFICES ASSUME NEW i \in 1 .. Len(msgChan') PROVE msgChan'[i] \in InChannel
      BY DEF InChannel
    <3>1. i + 1 \in 1 .. Len(msgChan)
      BY <2>1
    <3> QED
      BY <2>1, <3>1 DEF InChannel
  <2>4. Head(msgChan) \in InChannel
    BY <2>1 DEF InChannel
  <2> QED
    BY <2>2, <2>3, <2>4
<1>2. AtWorkers' = AtWorkers \cup ({Head(msgChan)} \ {0})
  <2>1. /\ worker'[w] = Head(msgChan)
        /\ \A v \in Workers : v # w => worker'[v] = worker[v]
        /\ worker[w] = 0
    BY DEF QueueTypeOK, Take
  <2> QED
    BY <2>1 DEF AtWorkers
<1>3. 0 \notin InChannel
  BY HeldIsRead DEF Held, QueueTypeOK
<1> QED
  BY <1>1, <1>2, <1>3 DEF Held, Take, consumerVars

\* The end of a handling removes that message and no other.
LEMMA HeldByFinish ==
    ASSUME QueueTypeOK, DispatchOrder, NEW w \in Workers, Finish(w)
    PROVE  Held' = Held \ {worker[w]}
<1>1. AtWorkers' = AtWorkers \ {worker[w]}
  <2>1. /\ worker'[w] = 0
        /\ \A v \in Workers : v # w => worker'[v] = worker[v]
        /\ \A v \in Workers : v # w => worker[v] # worker[w]
    BY DEF QueueTypeOK, DispatchOrder, Finish
  <2> QED
    BY <2>1 DEF AtWorkers
<1>2. worker[w] \notin InChannel /\ worker[w] # polled
  <2>1. /\ worker[w] \in Nat \ {0} /\ worker[w] <= Sent - Len(msgChan)
        /\ Sent \in Nat /\ Len(msgChan) \in Nat /\ (polled # 0 => Sent < polled)
        /\ \A i \in 1 .. Len(msgChan) : msgChan[i] = Sent - Len(msgChan) + i
    BY DEF QueueTypeOK, DispatchOrder, Finish, Sent
  <2>2. \A i \in 1 .. Len(msgChan) : msgChan[i] # worker[w]
    BY <2>1
  <2>3. worker[w] # polled
    BY <2>1 DEF QueueTypeOK
  <2> QED
    BY <2>2, <2>3 DEF InChannel
<1>3. InChannel' = InChannel /\ polled' = polled
  BY DEF Finish, InChannel, consumerVars
<1> QED
  BY <1>1, <1>2, <1>3 DEF Held

\* A crash leaves nothing held.
LEMMA HeldByCrash ==
    ASSUME QueueTypeOK, Crash
    PROVE  Held' = {}
<1>1. msgChan' = <<>> /\ Len(msgChan') = 0 /\ polled' = 0
  BY DEF Crash
<1>2. \A w \in Workers : worker'[w] = 0
  BY DEF Crash
<1>3. InChannel' = {} /\ AtWorkers' = {}
  BY <1>1, <1>2 DEF InChannel, AtWorkers
<1> QED
  BY <1>1, <1>3 DEF Held

\* A process that exits after the drain holds nothing any more.
LEMMA HeldByExit ==
    ASSUME QueueTypeOK, DispatchOrder, Exit
    PROVE  Held = {} /\ Held' = {}
<1>1. polled = 0 /\ msgChan = <<>> /\ Len(msgChan) = 0 /\ AtWorkers = {}
  BY DEF DispatchOrder, Exit
<1>2. polled' = 0 /\ msgChan' = <<>> /\ AtWorkers' = {}
  BY <1>1 DEF Exit, AtWorkers, consumerVars
<1>3. InChannel = {} /\ InChannel' = {}
  BY <1>1, <1>2 DEF InChannel
<1> QED
  BY <1>1, <1>2, <1>3 DEF Held

\* Every other step leaves what is held alone.
LEMMA HeldByOthers ==
    ASSUME \/ \E r \in Requests : Produce(r)
           \/ AutoCommit \/ ConsumerPoll \/ ConsumerClose \/ ConsumerTimeout
           \/ Signal \/ Restart \/ UNCHANGED queueVars
    PROVE  Held' = Held /\ position' = position /\ handled' = handled
           /\ lost' = lost /\ redo' = redo
BY DEF Produce, AutoCommit, ConsumerPoll, ConsumerClose, ConsumerTimeout, Signal,
       Restart, queueVars, brokerVars, consumerVars, historyVars, Held, InChannel,
       AtWorkers

-----------------------------------------------------------------------------

\* Where a message can be handled a second time: it was handled, and a crash
\* put the position before it again.
RepeatsAreRedone == \A o \in handled : o > position => o \in redo

\* The invariant under which nothing is lost silently and nothing is repeated.
DeliveryInv == NoSilentLoss /\ NoRepeatWithoutCrash /\ RepeatsAreRedone

\* Every step of the transport keeps it.
LEMMA StepDelivery ==
    ASSUME QueueTypeOK, DispatchOrder, DeliveryInv, [QueueNext]_queueVars
    PROVE  DeliveryInv'
<1> USE DEF DeliveryInv, NoSilentLoss, NoRepeatWithoutCrash, RepeatsAreRedone
<1>0. /\ position \in Nat /\ committed \in Nat /\ committed <= position
      /\ handled \subseteq Nat /\ Held \subseteq 1 .. position
  BY HeldIsRead DEF QueueTypeOK, DispatchOrder
<1>1. CASE \/ \E r \in Requests : Produce(r)
           \/ AutoCommit \/ ConsumerPoll \/ ConsumerClose \/ ConsumerTimeout
           \/ Signal \/ Restart \/ UNCHANGED queueVars
  BY <1>1, HeldByOthers
<1>2. CASE ConsumerRead
  <2>1. /\ Held' = Held \cup {position + 1} /\ position' = position + 1
        /\ handled' = handled /\ lost' = lost /\ redo' = redo
    BY <1>2, HeldByRead DEF ConsumerRead, historyVars
  <2>2. \A o \in 1 .. position + 1 : o \in 1 .. position \/ o = position + 1
    BY <1>0
  <2>3. NoSilentLoss'
    BY <2>1, <2>2
  <2>4. position + 1 \in handled => position + 1 \in redo
    BY <1>0
  <2>5. NoRepeatWithoutCrash'
    BY <2>1, <2>4
  <2>6. RepeatsAreRedone'
    BY <1>0, <2>1
  <2> QED
    BY <2>3, <2>5, <2>6
<1>3. CASE ConsumerSend
  BY <1>3, HeldBySend DEF ConsumerSend, historyVars
<1>4. ASSUME NEW w \in Workers, Take(w) PROVE DeliveryInv'
  BY <1>4, HeldByTake DEF Take, historyVars, consumerVars
<1>5. ASSUME NEW w \in Workers, Finish(w) PROVE DeliveryInv'
  <2>1. /\ Held' = Held \ {worker[w]} /\ handled' = handled \cup {worker[w]}
        /\ position' = position /\ lost' = lost /\ redo' = redo
    BY <1>5, HeldByFinish DEF Finish, consumerVars
  <2>2. worker[w] \in Held
    BY <1>5 DEF Finish, Held, AtWorkers
  <2>3. NoSilentLoss'
    BY <2>1
  <2>4. NoRepeatWithoutCrash'
    BY <2>1
  <2>5. RepeatsAreRedone'
    <3>1. worker[w] \in 1 .. position
      BY <1>0, <2>2
    <3> QED
      BY <1>0, <2>1, <3>1
  <2> QED
    BY <2>3, <2>4, <2>5
<1>6. CASE Exit
  BY <1>6, HeldByExit DEF Exit, consumerVars, historyVars
<1>7. CASE Crash
  <2>1. /\ Held' = {} /\ position' = committed /\ handled' = handled
        /\ lost' = lost \cup {o \in Held : o <= committed}
        /\ redo' = redo \cup (committed + 1 .. position)
    BY <1>7, HeldByCrash DEF Crash
  <2>2. NoSilentLoss'
    <3> SUFFICES ASSUME NEW o \in 1 .. committed PROVE o \in handled \cup lost'
      BY <2>1
    <3>1. o \in 1 .. position /\ o <= committed
      BY <1>0
    <3> QED
      BY <2>1, <3>1
  <2>3. RepeatsAreRedone'
    BY <1>0, <2>1
  <2> QED
    BY <2>1, <2>2, <2>3
<1> QED
  BY <1>1, <1>2, <1>3, <1>4, <1>5, <1>6, <1>7 DEF QueueNext, ConsumerStep

\* The invariant of the transport, for any number of workers, messages,
\* crashes and restarts.
QueueInv == QueueTypeOK /\ DispatchOrder /\ DeliveryInv

LEMMA QueueInvariant == QueueSpec => []QueueInv
<1>1. QueueInit => QueueInv
  <2> SUFFICES ASSUME QueueInit PROVE DeliveryInv
    BY InitTypeOK, InitDispatchOrder DEF QueueInv
  <2>1. Held = {} /\ handled = {} /\ position = 0
    BY DEF QueueInit, Held, InChannel, AtWorkers
  <2> QED
    BY <2>1 DEF DeliveryInv, NoSilentLoss, NoRepeatWithoutCrash, RepeatsAreRedone
<1>2. QueueInv /\ [QueueNext]_queueVars => QueueInv'
  BY StepTypeOK, StepDispatchOrder, StepDelivery DEF QueueInv
<1> QED
  BY <1>1, <1>2, PTL DEF QueueSpec

\* No request the consumer has read disappears: it is held, was handled, or
\* was held by a process that crashed after its offset had been committed.
THEOREM NothingLostSilently == QueueSpec => []NoSilentLoss
BY QueueInvariant, PTL DEF QueueInv, DeliveryInv

\* A request the pool is about to handle was handled before only if a crash
\* came between its handling and the commit of its offset.
THEOREM NothingRepeated == QueueSpec => []NoRepeatWithoutCrash
BY QueueInvariant, PTL DEF QueueInv, DeliveryInv
-----------------------------------------------------------------------------

Capacity == 2 * WorkerCount + 1

\* The size of a union is bounded by the bounds of its parts.
LEMMA UnionBound ==
    ASSUME NEW S, NEW T, NEW m \in Nat, NEW n \in Nat,
           IsFiniteSet(S), Cardinality(S) <= m,
           IsFiniteSet(T), Cardinality(T) <= n
    PROVE  IsFiniteSet(S \cup T) /\ Cardinality(S \cup T) <= m + n
<1>1. /\ IsFiniteSet(S \cup T)
      /\ Cardinality(S \cup T) = Cardinality(S) + Cardinality(T) - Cardinality(S \cap T)
  BY FS_Union
<1>2. S \cap T \in SUBSET S
  OBVIOUS
<1>3. IsFiniteSet(S \cap T)
  BY <1>2, FS_Subset
<1>4. /\ Cardinality(S) \in Nat /\ Cardinality(T) \in Nat
      /\ Cardinality(S \cap T) \in Nat
  BY <1>3, FS_CardinalityType
<1> QED
  BY <1>1, <1>4

\* The process holds at most a message per worker, a full channel and the
\* message being sent.
LEMMA HeldBounded ==
    ASSUME QueueTypeOK, DispatchOrder
    PROVE  IsFiniteSet(Held) /\ Cardinality(Held) <= Capacity
<1>1. /\ IsFiniteSet({polled} \ {0}) /\ Cardinality({polled} \ {0}) <= 1
  <2>1. IsFiniteSet({polled}) /\ Cardinality({polled}) = 1
    BY FS_Singleton
  <2>2. {polled} \ {0} \in SUBSET {polled}
    OBVIOUS
  <2> QED
    BY <2>1, <2>2, FS_Subset, FS_CardinalityType
<1>2. /\ IsFiniteSet(InChannel) /\ Cardinality(InChannel) <= WorkerCount
  <2> DEFINE n == Len(msgChan)
  <2>1. n \in Nat /\ n <= WorkerCount /\ Sent \in Nat /\ n <= Sent
    BY DEF QueueTypeOK, DispatchOrder, Sent
  <2>2. InChannel \subseteq (Sent - n) + 1 .. Sent
    <3>1. \A i \in 1 .. n : msgChan[i] = (Sent - n) + i
      BY DEF DispatchOrder
    <3>2. \A i \in 1 .. n : (Sent - n) + i \in (Sent - n) + 1 .. Sent
      BY <2>1
    <3> QED
      BY <3>1, <3>2 DEF InChannel
  <2>3. /\ IsFiniteSet((Sent - n) + 1 .. Sent)
        /\ Cardinality((Sent - n) + 1 .. Sent) = n
    <3>1. (Sent - n) + 1 \in Int /\ Sent \in Int
      BY <2>1
    <3> HIDE DEF n
    <3> QED
      BY <2>1, <3>1, FS_Interval
  <2>4. IsFiniteSet(InChannel) /\ Cardinality(InChannel) <= n
    BY <2>2, <2>3, FS_Subset
  <2> QED
    BY <2>1, <2>4, FS_CardinalityType
<1>3. /\ IsFiniteSet(AtWorkers) /\ Cardinality(AtWorkers) <= WorkerCount
  <2> DEFINE R == {worker[w] : w \in Workers}
  <2>1. IsFiniteSet(Workers) /\ Cardinality(Workers) = WorkerCount
    BY FS_Interval
  <2>2. worker \in Surjection(Workers, R)
    BY DEF Surjection, QueueTypeOK
  <2>3. IsFiniteSet(R) /\ Cardinality(R) <= WorkerCount
    <3> HIDE DEF R
    <3> QED
      BY <2>1, <2>2, FS_Surjection
  <2>4. AtWorkers \in SUBSET R
    BY DEF AtWorkers
  <2>5. IsFiniteSet(AtWorkers) /\ Cardinality(AtWorkers) <= Cardinality(R)
    <3> HIDE DEF R
    <3> QED
      BY <2>3, <2>4, FS_Subset
  <2> QED
    BY <2>3, <2>5, FS_CardinalityType
<1>4. /\ IsFiniteSet(({polled} \ {0}) \cup InChannel)
      /\ Cardinality(({polled} \ {0}) \cup InChannel) <= 1 + WorkerCount
  BY <1>1, <1>2, UnionBound
<1>5. IsFiniteSet(Held) /\ Cardinality(Held) <= (1 + WorkerCount) + WorkerCount
  BY <1>3, <1>4, 1 + WorkerCount \in Nat, UnionBound DEF Held
<1>6. Capacity = (1 + WorkerCount) + WorkerCount
  BY DEF Capacity
<1> HIDE DEF Capacity
<1> QED
  BY <1>5, <1>6

\* Only a crash loses, and it loses what was held.
LossInv == IsFiniteSet(lost) /\ Cardinality(lost) <= Crashes * Capacity

LEMMA StepLoss ==
    ASSUME QueueTypeOK, DispatchOrder, LossInv, [QueueNext]_queueVars
    PROVE  LossInv'
<1> DEFINE K == Capacity
<1>1. K \in Nat /\ Crashes \in Nat /\ restarts \in Nat /\ Capacity' = K
  BY DEF Capacity, Crashes, QueueTypeOK
<1>2. CASE lost' = lost /\ (Crashes' = Crashes \/ Crashes' = Crashes + 1)
  <2>1. Cardinality(lost) \in Nat
    BY FS_CardinalityType DEF LossInv
  <2>2. (Crashes + 1) * K = Crashes * K + K /\ Crashes * K \in Nat
    BY <1>1
  <2>3. Crashes' * K = Crashes * K \/ Crashes' * K = Crashes * K + K
    BY <1>2, <2>2
  <2> QED
    <3> HIDE DEF K
    <3>1. IsFiniteSet(lost') /\ Cardinality(lost') <= Crashes' * K
      BY <1>1, <1>2, <2>1, <2>2, <2>3 DEF LossInv, K
    <3> QED
      BY <1>1, <3>1 DEF LossInv
<1>3. CASE Crash
  <2> DEFINE L == {o \in Held : o <= committed}
  <2>1. IsFiniteSet(L) /\ Cardinality(L) <= K
    <3>1. IsFiniteSet(Held) /\ Cardinality(Held) <= K
      BY HeldBounded
    <3>2. L \in SUBSET Held
      OBVIOUS
    <3>3. IsFiniteSet(L) /\ Cardinality(L) <= Cardinality(Held)
      BY <3>1, <3>2, FS_Subset
    <3> QED
      BY <1>1, <3>1, <3>3, FS_CardinalityType
  <2>2. Crashes' = Crashes + 1 /\ lost' = lost \cup L
    BY <1>3 DEF Crash, Crashes, Alive, QueueTypeOK
  <2>3. (Crashes + 1) * K = Crashes * K + K /\ Crashes * K \in Nat
    BY <1>1
  <2> HIDE DEF K, L
  <2>4. IsFiniteSet(lost \cup L) /\ Cardinality(lost \cup L) <= Crashes * K + K
    BY <1>1, <2>1, <2>3, UnionBound DEF LossInv, K
  <2> QED
    BY <1>1, <2>2, <2>3, <2>4 DEF LossInv
<1>4. ASSUME NEW w \in Workers, Take(w) \/ Finish(w)
      PROVE  lost' = lost /\ Crashes' = Crashes
  BY <1>4 DEF Take, Finish, Crashes, historyVars
<1>5. CASE Exit \/ Restart
  BY <1>1, <1>2, <1>5 DEF Exit, Restart, Crashes, historyVars
<1>6. CASE \/ \E r \in Requests : Produce(r)
           \/ AutoCommit \/ ConsumerStep \/ Signal \/ UNCHANGED queueVars
  <2>1. lost' = lost /\ Crashes' = Crashes
    BY <1>6 DEF Produce, AutoCommit, ConsumerStep, ConsumerPoll, ConsumerClose,
       ConsumerRead, ConsumerTimeout, ConsumerSend, Signal, queueVars, Crashes,
       historyVars
  <2> QED
    BY <1>2, <2>1
<1> QED
  BY <1>2, <1>3, <1>4, <1>5, <1>6 DEF QueueNext

\* A crash of the builder-server loses at most 2 * WORKER_COUNT + 1 requests.
THEOREM LossIsBounded == QueueSpec => []LossBounded
<1>1. QueueInit => LossInv
  BY FS_EmptySet, WorkerCountAssumption DEF QueueInit, LossInv, Crashes, Capacity
<1>2. QueueInv /\ LossInv /\ [QueueNext]_queueVars => LossInv'
  BY StepLoss DEF QueueInv
<1>3. LossInv => LossBounded
  BY DEF LossInv, LossBounded, Capacity
<1> QED
  BY QueueInvariant, <1>1, <1>2, <1>3, PTL DEF QueueSpec
=============================================================================

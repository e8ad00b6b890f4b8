------------------------------ MODULE BuildQueue ------------------------------
(***************************************************************************)
(* The path of a request from the main-server to a worker of the           *)
(* builder-server: one partition of the Kafka topic, the consumer          *)
(* goroutine of builder-server/main.go, the buffered channel msgChan and   *)
(* the worker pool, with the builder-server crashing, being terminated by  *)
(* SIGTERM and being started again.                                        *)
(*                                                                         *)
(* A request in the builder-server is named by its offset in the           *)
(* partition.  The consumer keeps the defaults of librdkafka: the offset   *)
(* of a message is stored when ReadMessage returns it, stored offsets are  *)
(* committed in the background and by Close, and a consumer that starts    *)
(* resumes at the committed offset.                                        *)
(***************************************************************************)
EXTENDS Naturals, Sequences, FiniteSets

CONSTANTS
    Requests,       \* what the main-server produces
    WorkerCount,    \* environment variable WORKER_COUNT
    MaxLog,         \* bound: messages ever produced
    MaxRestarts     \* bound: times the builder-server is started again

ASSUME WorkerCountAssumption == WorkerCount \in Nat \ {0}
ASSUME BoundsAssumption == MaxLog \in Nat /\ MaxRestarts \in Nat

Workers == 1 .. WorkerCount

VARIABLES
    log,         \* the partition: every message produced, in order
    committed,   \* offset committed by the consumer group
    position,    \* offset of the last message ReadMessage returned
    process,     \* the builder-server: "up", "draining" after SIGTERM, "down"
    consumer,    \* where the consumer goroutine is
    polled,      \* the message it holds while sending to msgChan, or 0
    msgChan,     \* the buffered channel
    worker,      \* the message each worker handles, or 0
    restarts,    \* history: starts after the first one
    handled,     \* history: messages whose handling ended
    lost,        \* history: committed messages that died with the process
    redo         \* history: messages a new process had to read again

brokerVars == <<log, committed>>
consumerVars == <<position, consumer, polled>>
historyVars == <<restarts, handled, lost, redo>>
queueVars == <<log, committed, position, process, consumer, polled, msgChan,
               worker, restarts, handled, lost, redo>>

Offsets == 1 .. Len(log)
InChannel == {msgChan[i] : i \in 1 .. Len(msgChan)}
AtWorkers == {worker[w] : w \in Workers} \ {0}
\* The messages that live only in the memory of the builder-server.
Held == ({polled} \ {0}) \cup InChannel \cup AtWorkers
Alive == process \in {"up", "draining"}

QueueInit ==
    /\ log = <<>>
    /\ committed = 0
    /\ position = 0
    /\ process = "up"
    /\ consumer = "select"
    /\ polled = 0
    /\ msgChan = <<>>
    /\ worker = [w \in Workers |-> 0]
    /\ restarts = 0
    /\ handled = {}
    /\ lost = {}
    /\ redo = {}

-----------------------------------------------------------------------------
(* The broker *)

\* A handler of the main-server appends r to the topic.
Produce(r) ==
    /\ Len(log) < MaxLog
    /\ log' = Append(log, r)
    /\ UNCHANGED <<committed, consumerVars, process, msgChan, worker, historyVars>>

\* The background commit of the stored offset.
AutoCommit ==
    /\ Alive
    /\ committed # position
    /\ committed' = position
    /\ UNCHANGED <<log, consumerVars, process, msgChan, worker, historyVars>>

-----------------------------------------------------------------------------
(* The consumer goroutine *)

\* The select at the head of the loop, once SIGTERM has not arrived.
ConsumerPoll ==
    /\ process = "up"
    /\ consumer = "select"
    /\ consumer' = "reading"
    /\ UNCHANGED <<brokerVars, position, polled, process, msgChan, worker, historyVars>>

\* The select after SIGTERM: the channel is closed and the goroutine ends.
ConsumerClose ==
    /\ process = "draining"
    /\ consumer = "select"
    /\ consumer' = "closed"
    /\ UNCHANGED <<brokerVars, position, polled, process, msgChan, worker, historyVars>>

\* ReadMessage returns the next message.
ConsumerRead ==
    /\ Alive
    /\ consumer = "reading"
    /\ position < Len(log)
    /\ position' = position + 1
    /\ polled' = position + 1
    /\ consumer' = "sending"
    /\ UNCHANGED <<brokerVars, process, msgChan, worker, historyVars>>

\* Wrong variant: the goroutine ends at the first error of ReadMessage.
ConsumerEndsOnError ==
    /\ Alive
    /\ consumer = "reading"
    /\ consumer' = "closed"
    /\ UNCHANGED <<brokerVars, position, polled, process, msgChan, worker, historyVars>>

\* ReadMessage returns an error: its second elapsed, or the broker failed.
ConsumerTimeout ==
    /\ Alive
    /\ consumer = "reading"
    /\ consumer' = "select"
    /\ UNCHANGED <<brokerVars, position, polled, process, msgChan, worker, historyVars>>

\* Wrong variant: the channel has one place more.
ConsumerSendOver ==
    /\ Alive
    /\ consumer = "sending"
    /\ Len(msgChan) <= WorkerCount
    /\ msgChan' = Append(msgChan, polled)
    /\ polled' = 0
    /\ consumer' = "select"
    /\ UNCHANGED <<brokerVars, position, process, worker, historyVars>>

\* The send on msgChan, which blocks while the channel is full.
ConsumerSend ==
    /\ Alive
    /\ consumer = "sending"
    /\ Len(msgChan) < WorkerCount
    /\ msgChan' = Append(msgChan, polled)
    /\ polled' = 0
    /\ consumer' = "select"
    /\ UNCHANGED <<brokerVars, position, process, worker, historyVars>>

-----------------------------------------------------------------------------
(* The workers *)

\* Wrong variant: the newest message is taken first.
TakeNewest(w) ==
    /\ Alive
    /\ worker[w] = 0
    /\ msgChan # <<>>
    /\ worker' = [worker EXCEPT ![w] = msgChan[Len(msgChan)]]
    /\ msgChan' = SubSeq(msgChan, 1, Len(msgChan) - 1)
    /\ UNCHANGED <<brokerVars, consumerVars, process, historyVars>>

\* Worker w receives from the channel.
Take(w) ==
    /\ Alive
    /\ worker[w] = 0
    /\ msgChan # <<>>
    /\ worker' = [worker EXCEPT ![w] = Head(msgChan)]
    /\ msgChan' = Tail(msgChan)
    /\ UNCHANGED <<brokerVars, consumerVars, process, historyVars>>

\* handleRequest returns in worker w.
Finish(w) ==
    /\ Alive
    /\ worker[w] # 0
    /\ handled' = handled \cup {worker[w]}
    /\ worker' = [worker EXCEPT ![w] = 0]
    /\ UNCHANGED <<brokerVars, consumerVars, process, msgChan, restarts, lost, redo>>

-----------------------------------------------------------------------------
(* The process *)

\* SIGTERM or an interrupt cancels ctx.
Signal ==
    /\ process = "up"
    /\ process' = "draining"
    /\ UNCHANGED <<brokerVars, consumerVars, msgChan, worker, historyVars>>

\* Wrong variants: main returns without wg.Wait; main returns without Close.
ExitWithoutWait ==
    /\ process = "draining"
    /\ consumer = "closed"
    /\ process' = "down"
    /\ committed' = position
    /\ msgChan' = <<>>
    /\ worker' = [w \in Workers |-> 0]
    /\ UNCHANGED <<log, consumerVars, historyVars>>

ExitWithoutClose ==
    /\ process = "draining"
    /\ consumer = "closed"
    /\ msgChan = <<>>
    /\ AtWorkers = {}
    /\ process' = "down"
    /\ position' = committed
    /\ UNCHANGED <<brokerVars, consumer, polled, msgChan, worker, historyVars>>

\* wg.Wait returns when every worker saw the closed channel empty; the
\* deferred Close commits what was read.
Exit ==
    /\ process = "draining"
    /\ consumer = "closed"
    /\ msgChan = <<>>
    /\ AtWorkers = {}
    /\ process' = "down"
    /\ committed' = position
    /\ UNCHANGED <<log, consumerVars, msgChan, worker, historyVars>>

\* Wrong variant: the new process resumes one message too early.
CrashRewindsTooFar ==
    /\ Alive
    /\ process' = "down"
    /\ lost' = lost \cup {o \in Held : o <= committed}
    /\ redo' = redo \cup (committed + 1 .. position)
    /\ position' = committed - 1
    /\ polled' = 0
    /\ consumer' = "closed"
    /\ msgChan' = <<>>
    /\ worker' = [w \in Workers |-> 0]
    /\ UNCHANGED <<brokerVars, restarts, handled>>

\* The process dies with what it holds: a panic of any goroutine, a kill, or
\* the log.Fatalf of a Shutdown that did not end in 5 seconds.
Crash ==
    /\ Alive
    /\ process' = "down"
    /\ lost' = lost \cup {o \in Held : o <= committed}
    /\ redo' = redo \cup (committed + 1 .. position)
    /\ position' = committed
    /\ polled' = 0
    /\ consumer' = "closed"
    /\ msgChan' = <<>>
    /\ worker' = [w \in Workers |-> 0]
    /\ UNCHANGED <<brokerVars, restarts, handled>>

\* Wrong variant: a consumer that starts skips to the end of the partition.
RestartAtLatest ==
    /\ process = "down"
    /\ restarts < MaxRestarts
    /\ restarts' = restarts + 1
    /\ process' = "up"
    /\ consumer' = "select"
    /\ position' = Len(log)
    /\ UNCHANGED <<brokerVars, polled, msgChan, worker, handled, lost, redo>>

\* main runs again and resumes at the committed offset.
Restart ==
    /\ process = "down"
    /\ restarts < MaxRestarts
    /\ restarts' = restarts + 1
    /\ process' = "up"
    /\ consumer' = "select"
    /\ UNCHANGED <<brokerVars, position, polled, msgChan, worker, handled, lost, redo>>

ConsumerStep ==
    ConsumerPoll \/ ConsumerClose \/ ConsumerRead \/ ConsumerTimeout \/ ConsumerSend

QueueNext ==
    \/ \E r \in Requests : Produce(r)
    \/ AutoCommit
    \/ ConsumerStep
    \/ \E w \in Workers : Take(w) \/ Finish(w)
    \/ Signal
    \/ Exit
    \/ Crash
    \/ Restart

QueueSpec == QueueInit /\ [][QueueNext]_queueVars

-----------------------------------------------------------------------------
(* Properties *)

\* Type invariant of the transport's state.
QueueTypeOK ==
    /\ log \in Seq(Requests)
    /\ committed \in Nat
    /\ position \in Nat
    /\ process \in {"up", "draining", "down"}
    /\ consumer \in {"select", "reading", "sending", "closed"}
    /\ polled \in Nat
    /\ msgChan \in Seq(Nat)
    /\ worker \in [Workers -> Nat]
    /\ restarts \in Nat
    /\ handled \in SUBSET Nat
    /\ lost \in SUBSET Nat
    /\ redo \in SUBSET Nat

\* The offset of the last message that entered the channel.
Sent == IF polled = 0 THEN position ELSE position - 1

\* The builder-server holds the end of what it has read of the partition, in
\* order and once: the consumer at most the last message, the channel the ones
\* before it, the workers distinct messages before those (main.go: one
\* goroutine reads and sends, the channel is FIFO and holds WORKER_COUNT).
DispatchOrder ==
    /\ committed <= position
    /\ position <= Len(log)
    /\ process = "down" => consumer = "closed"
    /\ polled # 0 <=> consumer = "sending"
    /\ polled # 0 => polled = position
    /\ Len(msgChan) <= WorkerCount
    /\ Len(msgChan) <= Sent
    /\ \A i \in 1 .. Len(msgChan) : msgChan[i] = Sent - Len(msgChan) + i
    /\ \A w \in Workers : worker[w] <= Sent - Len(msgChan)
    /\ \A v, w \in Workers : v # w /\ worker[v] # 0 => worker[v] # worker[w]

\* Every message the consumer has read is still held, was handled, or is one
\* a crash took after its offset had been committed: neither the channel, nor
\* the drain at SIGTERM, nor a restart drops a request silently.
NoSilentLoss == 1 .. position \subseteq Held \cup handled \cup lost

\* A request is handled again only if a crash came before the commit of its
\* offset: without a crash the pool runs no deployment twice.
NoRepeatWithoutCrash == Held \cap handled \subseteq redo

\* Each crash loses at most what the process can hold: a message per worker,
\* a full channel and the one being sent.
Crashes == restarts + (IF process = "down" THEN 1 ELSE 0)
LossBounded == Cardinality(lost) <= Crashes * (2 * WorkerCount + 1)

\* While the builder-server stays up, every request produced is eventually
\* handled, or had been lost to an earlier crash.
EventuallyHandled ==
    <>[](process = "up") => <>[](\A o \in 1 .. Len(log) : o \in handled \cup lost)

\* A builder-server that got SIGTERM ends: the drain cannot hang on a full
\* channel or on a worker waiting for a message (it may also crash).
DrainEnds == process = "draining" ~> process = "down"

\* The transport neither stalls while it is up nor hangs when it is stopped.
QueueLive == EventuallyHandled /\ DrainEnds
=============================================================================

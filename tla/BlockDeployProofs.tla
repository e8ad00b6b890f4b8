-------------------------- MODULE BlockDeployProofs ---------------------------
(***************************************************************************)
(* Proofs about BlockDeploy for every set of blocks, names, handlers and   *)
(* faults: its requests are not lost on their way, its rows are BlockRows, *)
(* and a deleted row stays deleted; the types of the state, and the work   *)
(* behind a pending status; and, with one worker, that a settled status is *)
(* true for a name no two blocks use at the same time.                     *)
(***************************************************************************)
EXTENDS BlockDeploy, BuildQueueProofs

\* The part of the type invariant the refinement needs: what a handler is
\* doing names a block and an operation.
TaskOK == task \in [Handlers -> Tasks]

TaskSteps == {"pend", "read", "send", "cleanup", "folder", "row"}

LEMMA InitTaskOK == Init => TaskOK
BY DEF Init, TaskOK, Tasks

\* Moving an open handler to another step keeps its operation and its block.
LEMMA GotoKeepsTask ==
    ASSUME TaskOK, NEW h \in Handlers, task[h] # Idle, NEW s \in TaskSteps, Goto(h, s)
    PROVE  TaskOK'
<1>1. task[h] \in [op : {"build", "run", "build_and_run", "stop", "cli", "delete"},
                   block : Blocks, step : TaskSteps]
  BY DEF TaskOK, Tasks, TaskSteps
<1>2. [task[h] EXCEPT !.step = s] \in Tasks
  BY <1>1 DEF Tasks, TaskSteps
<1>3. task' = [task EXCEPT ![h] = [task[h] EXCEPT !.step = s]]
  BY DEF Goto
<1> QED
  BY <1>2, <1>3 DEF TaskOK

LEMMA ReturnKeepsTask ==
    ASSUME TaskOK, NEW h \in Handlers, Return(h)
    PROVE  TaskOK'
BY DEF TaskOK, Return, Tasks

\* Every step keeps it.
LEMMA StepTaskOK == TaskOK /\ [Next]_vars => TaskOK'
<1> SUFFICES ASSUME TaskOK, [Next]_vars PROVE TaskOK'
  OBVIOUS
<1>1. CASE task' = task
  BY <1>1 DEF TaskOK
<1>2. ASSUME NEW h \in Handlers, NEW op \in Ops, NEW b \in Blocks, Begin(h, op, b)
      PROVE  TaskOK'
  <2>1. PICK s \in TaskSteps : task' = [task EXCEPT ![h] = [op |-> op, block |-> b, step |-> s]]
    BY <1>2, OpsAssumption DEF Begin, TaskSteps
  <2>2. [op |-> op, block |-> b, step |-> s] \in Tasks
    BY OpsAssumption DEF Tasks, TaskSteps
  <2> QED
    BY <2>1, <2>2 DEF TaskOK
<1>3. ASSUME NEW h \in Handlers, HandlerStep(h) PROVE TaskOK'
  <2>1. CASE Pend(h)
    BY <2>1, GotoKeepsTask DEF Pend, At, TaskSteps
  <2>2. CASE Read(h)
    BY <2>2, GotoKeepsTask, ReturnKeepsTask DEF Read, At, TaskSteps
  <2>3. CASE Send(h)
    BY <2>3, GotoKeepsTask, ReturnKeepsTask DEF Send, AfterSend, At, TaskSteps
  <2>4. CASE Cleanup(h)
    BY <2>4, GotoKeepsTask DEF Cleanup, At, TaskSteps
  <2>5. CASE DeleteFolder(h)
    BY <2>5, GotoKeepsTask DEF DeleteFolder, At, TaskSteps
  <2>6. CASE DeleteRow(h)
    BY <2>6, ReturnKeepsTask DEF DeleteRow
  <2> QED
    BY <1>3, <2>1, <2>2, <2>3, <2>4, <2>5, <2>6 DEF HandlerStep
<1>4. ASSUME NEW h \in Handlers, HandlerFault(h) PROVE TaskOK'
  <2>1. CASE SendDuplicate(h)
    BY <1>1, <2>1 DEF SendDuplicate
  <2>2. CASE SendFails(h)
    BY <2>2, GotoKeepsTask, ReturnKeepsTask DEF SendFails, AfterSend, At, TaskSteps
  <2>3. CASE Abandon(h)
    BY <2>3, ReturnKeepsTask DEF Abandon
  <2>4. CASE CleanupFails(h)
    BY <2>4, ReturnKeepsTask DEF CleanupFails
  <2>5. CASE AbandonSent(h)
    BY <2>5, ReturnKeepsTask DEF AbandonSent
  <2> QED
    BY <1>4, <2>1, <2>2, <2>3, <2>4, <2>5 DEF HandlerFault
<1>5. ASSUME NEW b \in Blocks, Create(b) PROVE TaskOK'
  BY <1>1, <1>5 DEF Create, CheckName, InsertRow, CreateFails
<1>6. ASSUME NEW w \in Workers, TakeRequest(w) \/ WorkerStep(w) \/ WorkerFault(w)
      PROVE  TaskOK'
  BY <1>1, <1>6 DEF TakeRequest, WorkerStep, PatchBuilding, PatchPending, PatchFinal,
     BuildImage, ExportImage, RemoveImage, StopContainer, RemoveContainer, EndRemove,
     LoadImage, CreateContainer, StartContainer, CallFails, WorkerFault, PatchFails,
     StopContainerFails, StoreFails
<1>7. CASE BuilderCrash \/ TransportStep \/ UNCHANGED vars
  BY <1>1, <1>7 DEF BuilderCrash, TransportStep, vars, deployVars
<1> QED
  BY <1>2, <1>3, <1>4, <1>5, <1>6, <1>7 DEF Next

-----------------------------------------------------------------------------

\* What a handler produces is one of the requests the topic is for.
LEMMA RequestTyped ==
    ASSUME TaskOK, NEW h \in Handlers, task[h] # Idle
    PROVE  Request(h) \in Requests
<1>1. task[h] \in [op : {"build", "run", "build_and_run", "stop", "cli", "delete"},
                   block : Blocks, step : TaskSteps]
  BY DEF TaskOK, Tasks, TaskSteps
<1>2. ActionOf(task[h].op) \in Actions /\ task[h].block \in Blocks
  BY <1>1 DEF ActionOf, Actions
<1> QED
  BY <1>2, RequestsAssumption DEF Request

\* Every step of a deployment is a step of the transport or leaves it alone.
LEMMA StepIsTransportStep == TaskOK /\ [Next]_vars => [QueueNext]_queueVars
<1> SUFFICES ASSUME TaskOK, [Next]_vars PROVE QueueNext \/ UNCHANGED queueVars
  OBVIOUS
<1>1. ASSUME NEW b \in Blocks, Create(b) PROVE UNCHANGED queueVars
  BY <1>1 DEF Create, CheckName, InsertRow, CreateFails
<1>2. ASSUME NEW h \in Handlers, NEW op \in Ops, NEW b \in Blocks, Begin(h, op, b)
      PROVE  UNCHANGED queueVars
  BY <1>2 DEF Begin
<1>3. ASSUME NEW h \in Handlers, HandlerStep(h) \/ HandlerFault(h)
      PROVE  QueueNext \/ UNCHANGED queueVars
  <2>1. CASE Send(h) \/ SendDuplicate(h) \/ AbandonSent(h)
    <3>1. Request(h) \in Requests /\ Produce(Request(h))
      BY <2>1, RequestTyped DEF Send, SendDuplicate, AbandonSent, At
    <3> QED
      BY <3>1 DEF QueueNext
  <2>2. CASE ~ (Send(h) \/ SendDuplicate(h) \/ AbandonSent(h))
    BY <1>3, <2>2 DEF HandlerStep, HandlerFault, Pend, Read, Cleanup, DeleteFolder,
       DeleteRow, SendFails, Abandon, CleanupFails
  <2> QED
    BY <2>1, <2>2
<1>4. ASSUME NEW w \in Workers, TakeRequest(w) PROVE QueueNext
  BY <1>4 DEF TakeRequest, QueueNext
<1>5. ASSUME NEW w \in Workers, WorkerStep(w) \/ WorkerFault(w)
      PROVE  QueueNext \/ UNCHANGED queueVars
  <2>1. Finish(w) \/ UNCHANGED queueVars
    BY <1>5 DEF WorkerStep, PatchBuilding, PatchPending, PatchFinal, BuildImage,
       ExportImage, RemoveImage, StopContainer, RemoveContainer, EndRemove, LoadImage,
       CreateContainer, StartContainer, CallFails, WorkerFault, PatchFails,
       StopContainerFails, StoreFails
  <2> QED
    BY <2>1 DEF QueueNext
<1>6. CASE BuilderCrash \/ TransportStep
  BY <1>6 DEF BuilderCrash, TransportStep, QueueNext
<1>7. CASE UNCHANGED vars
  BY <1>7 DEF vars
<1> QED
  BY <1>1, <1>2, <1>3, <1>4, <1>5, <1>6, <1>7 DEF Next

\* Deployments use the transport only as BuildQueue describes it.
LEMMA DeployUsesTransport == Spec => QueueSpec
<1>1. Init => QueueInit /\ TaskOK
  BY InitTaskOK DEF Init
<1> QED
  BY <1>1, StepTaskOK, StepIsTransportStep, PTL DEF Spec, QueueSpec

\* So no request of a handler disappears on its way, for any number of
\* handlers, workers and crashes.
THEOREM DeployLosesNothingSilently == Spec => []NoSilentLoss
BY DeployUsesTransport, NothingLostSilently, PTL

-----------------------------------------------------------------------------

RowValues == Statuses \cup {"unborn", "deleted"}
RowOK == row \in [Blocks -> RowValues]

\* A row that was inserted stays so, and one that was deleted too.
RowForward ==
    \A b \in Blocks :
        /\ row[b] = "deleted" => row'[b] = "deleted"
        /\ row[b] # "unborn" => row'[b] # "unborn"

\* A row takes a status only if it exists or is being created.
LEMMA PatchKeepsForward ==
    ASSUME RowOK, NEW c, NEW s \in Statuses, Patch(c, s)
    PROVE  RowOK' /\ RowForward
<1>1. CASE ~ Exists(c)
  BY <1>1 DEF Patch, RowOK, RowForward
<1>2. CASE Exists(c)
  <2>1. row' = [row EXCEPT ![c] = s] /\ row[c] # "deleted"
    BY <1>2 DEF Patch, Exists, Statuses
  <2> QED
    BY <2>1 DEF RowOK, RowValues, RowForward, Statuses
<1> QED
  BY <1>1, <1>2

\* No step writes a status into a row that was deleted.
LEMMA StepRowOK ==
    ASSUME RowOK, [Next]_vars
    PROVE  RowOK' /\ RowForward
<1> DEFINE Goal == RowOK' /\ RowForward
<1>1. CASE row' = row
  BY <1>1 DEF RowOK, RowForward
<1>2. ASSUME NEW b \in Blocks, Create(b) PROVE Goal
  <2>1. CASE InsertRow(b)
    BY <2>1 DEF InsertRow, RowOK, RowForward, RowValues, Statuses
  <2> QED
    BY <1>1, <1>2, <2>1 DEF Create, CheckName, CreateFails
<1>3. ASSUME NEW h \in Handlers, HandlerStep(h) PROVE Goal
  <2>1. CASE Pend(h)
    <3>1. Patch(task[h].block, "pending")
      BY <2>1 DEF Pend, Patch
    <3> QED
      BY <3>1, PatchKeepsForward DEF Statuses
  <2>2. CASE DeleteRow(h)
    BY <2>2 DEF DeleteRow, RowOK, RowForward, RowValues
  <2> QED
    BY <1>1, <1>3, <2>1, <2>2 DEF HandlerStep, Read, Send, Cleanup, DeleteFolder
<1>4. ASSUME NEW h \in Handlers, HandlerFault(h) PROVE Goal
  BY <1>1, <1>4 DEF HandlerFault, SendDuplicate, SendFails, Abandon,
     AbandonSent, CleanupFails
<1>5. ASSUME NEW h \in Handlers, NEW op \in Ops, NEW b \in Blocks, Begin(h, op, b)
      PROVE  Goal
  BY <1>1, <1>5 DEF Begin
<1>6. ASSUME NEW w \in Workers, TakeRequest(w) \/ WorkerStep(w) \/ WorkerFault(w)
      PROVE  Goal
  <2>1. CASE PatchBuilding(w) \/ PatchPending(w)
    BY <2>1, PatchKeepsForward DEF PatchBuilding, PatchPending, Statuses
  <2>2. CASE PatchFinal(w)
    <3>1. job[w] \in Statuses /\ Patch(BlockOf(w), job[w])
      BY <2>2 DEF PatchFinal, Statuses
    <3> QED
      BY <3>1, PatchKeepsForward
  <2>3. CASE ~ (PatchBuilding(w) \/ PatchPending(w) \/ PatchFinal(w))
    BY <1>1, <1>6, <2>3 DEF TakeRequest, WorkerStep, BuildImage, ExportImage, RemoveImage,
       StopContainer, RemoveContainer, EndRemove, LoadImage, CreateContainer,
       StartContainer, CallFails, WorkerFault, PatchFails, StopContainerFails, StoreFails
  <2> QED
    BY <2>1, <2>2, <2>3
<1>7. CASE BuilderCrash \/ TransportStep \/ UNCHANGED vars
  BY <1>1, <1>7 DEF BuilderCrash, TransportStep, vars, deployVars
<1> QED
  BY <1>2, <1>3, <1>4, <1>5, <1>6, <1>7 DEF Next

\* No handler, late status write or crash brings a deleted row back.
THEOREM DeletedRowStaysDeleted == Spec => DeletedStaysDeleted
<1>1. Init => RowOK
  BY DEF Init, RowOK, RowValues, Statuses
<1>2. RowOK /\ [Next]_vars => RowOK'
  BY StepRowOK
<1>3. RowOK /\ [Next]_vars
      => [\A b \in Blocks : row[b] = "deleted" => row'[b] = "deleted"]_vars
  BY StepRowOK DEF RowForward
<1> QED
  BY <1>1, <1>2, <1>3, PTL DEF Spec, DeletedStaysDeleted

-----------------------------------------------------------------------------

\* The status written by whoever names a row is a Report of BlockRows, and no
\* step at all without that row.
LEMMA PatchIsReport ==
    ASSUME RowOK, NEW c, NEW s \in Statuses, Patch(c, s)
    PROVE  Rows!Next \/ row' = row
<1>1. CASE Exists(c) /\ c \in Blocks
  BY <1>1 DEF Patch, Exists, Rows!Next, Rows!RowStep, Rows!Report, Rows!Exists
<1>2. CASE c \notin Blocks
  BY <1>2 DEF Patch, RowOK
<1>3. CASE ~ Exists(c)
  BY <1>3 DEF Patch
<1> QED
  BY <1>1, <1>2, <1>3

\* A request concerns a block that has, or had, a row.
TaskBorn == \A h \in Handlers : task[h] # Idle => row[task[h].block] # "unborn"

\* An open request keeps its block; a new one names a row that exists.
LEMMA StepKeepsBlock ==
    ASSUME TaskOK, [Next]_vars, NEW g \in Handlers, task'[g] # Idle
    PROVE  \/ task[g] # Idle /\ task'[g].block = task[g].block
           \/ Exists(task'[g].block) /\ row' = row
<1> DEFINE Kept == task[g] # Idle /\ task'[g].block = task[g].block
<1>1. CASE task' = task
  BY <1>1
<1>2. ASSUME NEW h \in Handlers, NEW s, task[h] # Idle, Goto(h, s) PROVE Kept
  <2>1. task[h].block = [task[h] EXCEPT !.step = s].block
    BY <1>2 DEF TaskOK, Tasks
  <2> QED
    BY <1>2, <2>1 DEF Goto, TaskOK
<1>3. ASSUME NEW h \in Handlers, Return(h) PROVE Kept
  BY <1>3 DEF Return, TaskOK
<1>4. ASSUME NEW h \in Handlers, NEW op \in Ops, NEW b \in Blocks, Begin(h, op, b)
      PROVE  Kept \/ (Exists(task'[g].block) /\ row' = row)
  <2>1. PICK s : task' = [task EXCEPT ![h] = [op |-> op, block |-> b, step |-> s]]
    BY <1>4 DEF Begin
  <2> QED
    BY <1>4, <2>1 DEF Begin, TaskOK
<1>5. ASSUME NEW h \in Handlers, HandlerStep(h) PROVE Kept
  BY <1>2, <1>3, <1>5 DEF HandlerStep, Pend, Read, Send, AfterSend, Cleanup, DeleteFolder,
     DeleteRow, At
<1>6. ASSUME NEW h \in Handlers, HandlerFault(h) PROVE Kept
  BY <1>1, <1>2, <1>3, <1>6 DEF HandlerFault, SendDuplicate, SendFails, AfterSend, Abandon,
     AbandonSent, CleanupFails, At
<1>7. ASSUME NEW b \in Blocks, Create(b) PROVE Kept
  BY <1>1, <1>7 DEF Create, CheckName, InsertRow, CreateFails
<1>8. ASSUME NEW w \in Workers, TakeRequest(w) \/ WorkerStep(w) \/ WorkerFault(w)
      PROVE  Kept
  BY <1>1, <1>8 DEF TakeRequest, WorkerStep, PatchBuilding, PatchPending, PatchFinal,
     BuildImage, ExportImage, RemoveImage, StopContainer, RemoveContainer, EndRemove,
     LoadImage, CreateContainer, StartContainer, CallFails, WorkerFault, PatchFails,
     StopContainerFails, StoreFails
<1>9. CASE BuilderCrash \/ TransportStep \/ UNCHANGED vars
  BY <1>1, <1>9 DEF BuilderCrash, TransportStep, vars, deployVars
<1> QED
  BY <1>4, <1>5, <1>6, <1>7, <1>8, <1>9 DEF Next

LEMMA StepTaskBorn == RowOK /\ TaskOK /\ TaskBorn /\ [Next]_vars => TaskBorn'
<1> SUFFICES ASSUME RowOK, TaskOK, TaskBorn, [Next]_vars,
                    NEW h \in Handlers, task'[h] # Idle
             PROVE  row'[task'[h].block] # "unborn"
  BY DEF TaskBorn, Idle
<1>1. CASE Exists(task'[h].block) /\ row' = row
  BY <1>1 DEF Exists, Statuses
<1>2. CASE task[h] # Idle /\ task'[h].block = task[h].block
  <2>1. task[h].block \in Blocks
    BY <1>2 DEF TaskOK, Tasks
  <2> QED
    BY <1>2, <2>1, StepRowOK DEF TaskBorn, RowForward
<1> QED
  BY <1>1, <1>2, StepKeepsBlock

\* Every step of a deployment is a step of one row or leaves the rows alone.
LEMMA StepIsRowStep ==
    RowOK /\ TaskOK /\ TaskBorn /\ [Next]_vars => [Rows!Next]_row
<1> SUFFICES ASSUME RowOK, TaskOK, TaskBorn, [Next]_vars PROVE Rows!Next \/ row' = row
  OBVIOUS
<1>1. ASSUME NEW b \in Blocks, Create(b) PROVE Rows!Next \/ row' = row
  BY <1>1 DEF Create, CheckName, InsertRow, CreateFails, Rows!Next, Rows!RowStep, Rows!Insert
<1>2. ASSUME NEW h \in Handlers, HandlerStep(h) PROVE Rows!Next \/ row' = row
  <2>1. CASE Pend(h)
    <3>1. Patch(task[h].block, "pending")
      BY <2>1 DEF Pend, Patch
    <3> QED
      BY <3>1, PatchIsReport DEF Statuses
  <2>2. CASE DeleteRow(h)
    <3>1. task[h].block \in Blocks /\ row[task[h].block] # "unborn"
      BY <2>2 DEF DeleteRow, At, TaskOK, TaskBorn, Tasks
    <3>2. row' = [row EXCEPT ![task[h].block] = "deleted"]
      BY <2>2 DEF DeleteRow
    <3>3. CASE row[task[h].block] = "deleted"
      BY <3>1, <3>2, <3>3 DEF RowOK
    <3>4. CASE row[task[h].block] \in Statuses
      BY <3>1, <3>2, <3>4 DEF Rows!Next, Rows!RowStep, Rows!Delete, Rows!Exists
    <3> QED
      BY <3>1, <3>3, <3>4 DEF RowOK, RowValues
  <2> QED
    BY <1>2, <2>1, <2>2 DEF HandlerStep, Read, Send, Cleanup, DeleteFolder
<1>3. ASSUME NEW h \in Handlers, HandlerFault(h) PROVE row' = row
  BY <1>3 DEF HandlerFault, SendDuplicate, SendFails, Abandon,
     AbandonSent, CleanupFails
<1>4. ASSUME NEW h \in Handlers, NEW op \in Ops, NEW b \in Blocks, Begin(h, op, b)
      PROVE  row' = row
  BY <1>4 DEF Begin
<1>5. ASSUME NEW w \in Workers, TakeRequest(w) \/ WorkerStep(w) \/ WorkerFault(w)
      PROVE  Rows!Next \/ row' = row
  <2>1. CASE PatchBuilding(w) \/ PatchPending(w)
    BY <2>1, PatchIsReport DEF PatchBuilding, PatchPending, Statuses
  <2>2. CASE PatchFinal(w)
    <3>1. job[w] \in Statuses /\ Patch(BlockOf(w), job[w])
      BY <2>2 DEF PatchFinal, Statuses
    <3> QED
      BY <3>1, PatchIsReport
  <2>3. CASE ~ (PatchBuilding(w) \/ PatchPending(w) \/ PatchFinal(w))
    BY <1>5, <2>3 DEF TakeRequest, WorkerStep, BuildImage, ExportImage, RemoveImage,
       StopContainer, RemoveContainer, EndRemove, LoadImage, CreateContainer,
       StartContainer, CallFails, WorkerFault, PatchFails, StopContainerFails, StoreFails
  <2> QED
    BY <2>1, <2>2, <2>3
<1>6. CASE BuilderCrash \/ TransportStep \/ UNCHANGED vars
  BY <1>6 DEF BuilderCrash, TransportStep, vars, deployVars
<1> QED
  BY <1>1, <1>2, <1>3, <1>4, <1>5, <1>6 DEF Next

\* The handlers and the workers together implement the rows their readers rely
\* on, for any number of blocks, requests, workers, crashes and faults.
THEOREM DeployImplementsRows == Spec => RowsRefined
<1>1. Init => Rows!Init /\ RowOK /\ TaskOK /\ TaskBorn
  BY InitTaskOK DEF Init, Rows!Init, RowOK, RowValues, Statuses, TaskBorn
<1>2. RowOK /\ [Next]_vars => RowOK'
  BY StepRowOK
<1> QED
  BY <1>1, <1>2, StepTaskOK, StepTaskBorn, StepIsRowStep, PTL DEF Spec, RowsRefined, Rows!Spec

-----------------------------------------------------------------------------
(* The work behind a status *)

\* The call of handleRequest a worker is at belongs to the action of the
\* message it handles.
Fits(call, action) ==
    \/ call \in {"building", "build", "export", "untag"} /\ action \in {"build", "build_and_run"}
    \/ call = "ready" /\ action = "build"
    \/ call = "pending" /\ action = "build_and_run"
    \/ /\ call \in {"docker_stop", "docker_remove"}
       /\ action \in {"run", "build_and_run", "stop", "remove"}
    \/ call = "stopped" /\ action = "stop"
    \/ call = "end" /\ action = "remove"
    \/ /\ call \in {"load", "create", "start", "clean", "running"}
       /\ action \in {"run", "build_and_run"}
    \/ call = "failed" /\ action \in {"build", "run", "build_and_run"}

Working(w) == worker[w] \in Offsets /\ Fits(job[w], Message(w).action)

JobsFit ==
    /\ job \in [Workers -> Steps]
    /\ \A w \in Workers : (worker[w] = 0 /\ job[w] = "idle") \/ Working(w)

\* The transport's part of the invariant.
PathOK == QueueTypeOK /\ DispatchOrder

LEMMA StepPathOK == TaskOK /\ PathOK /\ [Next]_vars => PathOK'
BY StepIsTransportStep, StepTypeOK, StepDispatchOrder DEF PathOK

\* A message of the topic is a request for a block.
LEMMA MessageTyped ==
    ASSUME QueueTypeOK, NEW o \in Offsets
    PROVE  log[o] \in Requests /\ log[o].block \in Blocks /\ log[o].action \in Actions
<1>1. log[o] \in Requests
  BY DEF QueueTypeOK, Offsets
<1> QED
  BY <1>1, RequestsAssumption

\* A busy worker handles one for a block that has a name.
LEMMA WorkTyped ==
    ASSUME QueueTypeOK, NEW w \in Workers, Working(w)
    PROVE  /\ BlockOf(w) \in Blocks
           /\ NameAt(w) \in Names
           /\ Message(w).action \in Actions
BY MessageTyped, NameOfAssumption DEF Working, BlockOf, NameAt, Message

\* The head of the channel is an offset of the topic.
LEMMA HeadIsOffset ==
    ASSUME PathOK, msgChan # <<>>
    PROVE  Head(msgChan) \in Offsets
<1>1. Len(msgChan) \in Nat \ {0} /\ Head(msgChan) = msgChan[1]
  BY EmptySeq DEF PathOK, QueueTypeOK
<1>2. Head(msgChan) \in Held
  BY <1>1 DEF Held, InChannel
<1>3. Held \subseteq 1 .. position /\ position <= Len(log) /\ position \in Nat /\ Len(log) \in Nat
  BY HeldIsRead DEF PathOK, QueueTypeOK, DispatchOrder
<1>4. 1 .. position \subseteq 1 .. Len(log)
  BY <1>3
<1> QED
  BY <1>2, <1>3, <1>4 DEF Offsets

\* The topic only grows, so a worker keeps its message.
LEMMA AppendKeepsWork ==
    ASSUME PathOK, JobsFit, NEW r \in Requests, log' = Append(log, r),
           UNCHANGED <<worker, job>>
    PROVE  JobsFit'
<1>1. Len(log) \in Nat /\ Len(log') = Len(log) + 1
  BY DEF PathOK, QueueTypeOK
<1>2. \A o \in Offsets : o \in Offsets' /\ log'[o] = log[o]
  BY <1>1 DEF PathOK, QueueTypeOK, Offsets
<1> QED
  BY <1>2 DEF JobsFit, Working, Message

\* A worker that goes on to a fitting call keeps JobsFit.
LEMMA ProceedKeepsWork ==
    ASSUME JobsFit, NEW w \in Workers, NEW c \in Steps, Proceed(w, c),
           Fits(c, Message(w).action), worker[w] \in Offsets, UNCHANGED <<log, worker>>
    PROVE  JobsFit'
BY DEF JobsFit, Proceed, Working, Message, Offsets

\* So does one that ends its handling.
LEMMA FinishKeepsWork ==
    ASSUME PathOK, JobsFit, NEW w \in Workers, Proceed(w, "idle"), Finish(w)
    PROVE  JobsFit'
<1>1. log' = log /\ worker' = [worker EXCEPT ![w] = 0] /\ job' = [job EXCEPT ![w] = "idle"]
  BY DEF Finish, Proceed, brokerVars
<1> QED
  BY <1>1 DEF JobsFit, Working, Message, Offsets, Steps, PathOK, QueueTypeOK

\* And one that takes a message.
LEMMA TakeKeepsWork ==
    ASSUME PathOK, JobsFit, NEW w \in Workers, TakeRequest(w)
    PROVE  JobsFit'
<1>1. /\ log' = log
      /\ worker' = [worker EXCEPT ![w] = Head(msgChan)]
      /\ job' = [job EXCEPT ![w] = FirstCall(log[Head(msgChan)].action)]
  BY DEF TakeRequest, Take, brokerVars
<1>2. Head(msgChan) \in Offsets /\ log[Head(msgChan)].action \in Actions
  BY HeadIsOffset, MessageTyped DEF TakeRequest, Take, PathOK
<1>3. FirstCall(log[Head(msgChan)].action) \in Steps
      /\ Fits(FirstCall(log[Head(msgChan)].action), log[Head(msgChan)].action)
  BY <1>2 DEF FirstCall, Actions, Steps, Fits
<1> QED
  BY <1>1, <1>2, <1>3 DEF JobsFit, Working, Message, Offsets, PathOK, QueueTypeOK

\* Every step of a worker takes it to the next call of its action.
LEMMA WorkerKeepsWork ==
    ASSUME PathOK, JobsFit, NEW w \in Workers, WorkerStep(w) \/ WorkerFault(w)
    PROVE  JobsFit'
<1>1. Working(w)
  BY DEF JobsFit, WorkerStep, WorkerFault, PatchBuilding, PatchPending, PatchFinal, BuildImage,
     ExportImage, RemoveImage, StopContainer, RemoveContainer, EndRemove, LoadImage,
     CreateContainer, StartContainer, CallFails, CallFailing, PatchFails,
     StopContainerFails, StoreFails, Calls, Finish
<1>2. Message(w).action \in Actions /\ worker[w] \in Offsets /\ Fits(job[w], Message(w).action)
  BY <1>1, WorkTyped DEF PathOK, Working
<1> DEFINE Moves(c) == Proceed(w, c) /\ UNCHANGED <<log, worker>>
<1>3. ASSUME NEW c \in Steps, Moves(c), Fits(c, Message(w).action) PROVE JobsFit'
  BY <1>2, <1>3, ProceedKeepsWork
<1>4. ASSUME Finish(w), Proceed(w, "idle") PROVE JobsFit'
  BY <1>4, FinishKeepsWork
<1> HIDE DEF Moves
<1>5. CASE PatchBuilding(w)
  <2>1. Moves("build") /\ Fits("build", Message(w).action)
    BY <1>2, <1>5 DEF PatchBuilding, Calls, Moves, Fits, queueVars
  <2> QED
    BY <1>3, <2>1 DEF Steps
<1>6. CASE PatchPending(w) \/ StopContainer(w) \/ StopContainerFails(w)
  <2>1. PICK c \in {"docker_stop", "docker_remove"} : Moves(c)
    BY <1>6 DEF PatchPending, StopContainer, StopContainerFails, Moves, queueVars
  <2>2. job[w] \in {"pending", "docker_stop"}
    BY <1>6 DEF PatchPending, StopContainer, StopContainerFails, Calls
  <2> QED
    BY <1>2, <1>3, <2>1, <2>2 DEF Steps, Fits
<1>7. CASE PatchFinal(w) \/ EndRemove(w)
  BY <1>4, <1>7 DEF PatchFinal, EndRemove
<1>8. CASE BuildImage(w) \/ ExportImage(w)
  <2>1. PICK c \in {"export", "untag"} : Moves(c)
    BY <1>8 DEF BuildImage, ExportImage, Moves, queueVars
  <2>2. job[w] \in {"build", "export"}
    BY <1>8 DEF BuildImage, ExportImage, Calls
  <2> QED
    BY <1>2, <1>3, <2>1, <2>2 DEF Steps, Fits
<1>9. CASE RemoveImage(w)
  <2>1. CASE job[w] = "clean"
    BY <1>2, <1>3, <1>9, <2>1 DEF RemoveImage, Moves, queueVars, Steps, Fits
  <2>2. CASE job[w] = "untag" /\ Message(w).action = "build"
    BY <1>2, <1>3, <1>9, <2>2 DEF RemoveImage, Moves, queueVars, Steps, Fits
  <2>3. CASE job[w] = "untag" /\ Message(w).action = "build_and_run"
    BY <1>2, <1>3, <1>9, <2>3 DEF RemoveImage, Moves, queueVars, Steps, Fits
  <2> QED
    BY <1>2, <1>9, <2>1, <2>2, <2>3 DEF RemoveImage, Calls, Fits
<1>10. CASE RemoveContainer(w)
  <2>1. CASE Message(w).action = "stop"
    BY <1>2, <1>3, <1>10, <2>1 DEF RemoveContainer, Moves, queueVars, Steps, Fits
  <2>2. CASE Message(w).action = "remove"
    BY <1>2, <1>3, <1>10, <2>2 DEF RemoveContainer, Moves, queueVars, Steps, Fits
  <2>3. CASE Message(w).action \in {"run", "build_and_run"}
    <3>1. Moves("load") /\ Fits("load", Message(w).action)
      BY <1>10, <2>3 DEF RemoveContainer, Moves, queueVars, Fits
    <3> QED
      BY <1>3, <3>1 DEF Steps
  <2> QED
    BY <1>2, <1>10, <2>1, <2>2, <2>3 DEF RemoveContainer, Calls, Fits
<1>11. CASE LoadImage(w) \/ CreateContainer(w) \/ StartContainer(w)
  <2>1. PICK c \in {"create", "start", "clean"} : Moves(c)
    BY <1>11 DEF LoadImage, CreateContainer, StartContainer, Moves, queueVars
  <2>2. job[w] \in {"load", "create", "start"}
    BY <1>11 DEF LoadImage, CreateContainer, StartContainer, Calls
  <2> QED
    BY <1>2, <1>3, <2>1, <2>2 DEF Steps, Fits
<1>12. CASE CallFails(w) \/ StoreFails(w)
  <2>1. Moves("failed") /\ job[w] \in {"build", "export", "load", "create", "start"}
    BY <1>12 DEF CallFails, CallFailing, StoreFails, Calls, Moves, queueVars
  <2> QED
    BY <1>2, <1>3, <2>1 DEF Steps, Fits
<1>13. CASE PatchFails(w)
  <2>1. CASE job[w] = "building"
    <3>1. Moves("build") /\ Fits("build", Message(w).action)
      BY <1>2, <1>13, <2>1 DEF PatchFails, Moves, Fits, queueVars
    <3> QED
      BY <1>3, <3>1 DEF Steps
  <2>2. CASE job[w] = "pending"
    <3>1. Moves("docker_stop") /\ Fits("docker_stop", Message(w).action)
      BY <1>2, <1>13, <2>2 DEF PatchFails, Moves, Fits, queueVars
    <3> QED
      BY <1>3, <3>1 DEF Steps
  <2>3. CASE job[w] \notin {"building", "pending"}
    BY <1>4, <1>13, <2>3 DEF PatchFails
  <2> QED
    BY <2>1, <2>2, <2>3
<1> QED
  BY <1>5, <1>6, <1>7, <1>8, <1>9, <1>10, <1>11, <1>12, <1>13 DEF WorkerStep, WorkerFault

\* Every step keeps it.
LEMMA StepJobsFit == TaskOK /\ PathOK /\ JobsFit /\ [Next]_vars => JobsFit'
<1> SUFFICES ASSUME TaskOK, PathOK, JobsFit, [Next]_vars PROVE JobsFit'
  OBVIOUS
<1>1. CASE UNCHANGED <<log, worker, job>>
  BY <1>1 DEF JobsFit, Working, Message, Offsets
<1>2. ASSUME NEW h \in Handlers, HandlerStep(h) \/ HandlerFault(h) PROVE JobsFit'
  <2>1. CASE Send(h) \/ SendDuplicate(h) \/ AbandonSent(h)
    <3>1. Request(h) \in Requests /\ Produce(Request(h)) /\ job' = job
      BY <2>1, RequestTyped DEF Send, SendDuplicate, AbandonSent, At
    <3> QED
      BY <3>1, AppendKeepsWork DEF Produce
  <2>2. CASE ~ (Send(h) \/ SendDuplicate(h) \/ AbandonSent(h))
    BY <1>1, <1>2, <2>2 DEF HandlerStep, HandlerFault, Pend, Read, Cleanup, DeleteFolder,
       DeleteRow, SendFails, Abandon, CleanupFails, queueVars
  <2> QED
    BY <2>1, <2>2
<1>3. ASSUME NEW w \in Workers, TakeRequest(w) \/ WorkerStep(w) \/ WorkerFault(w)
      PROVE  JobsFit'
  BY <1>3, TakeKeepsWork, WorkerKeepsWork
<1>4. CASE BuilderCrash
  BY <1>4 DEF BuilderCrash, Crash, JobsFit, Steps
<1>5. CASE TransportStep
  <2>1. job' = job /\ worker' = worker /\ log' = log
    BY <1>5 DEF TransportStep, AutoCommit, ConsumerStep, ConsumerPoll, ConsumerClose,
       ConsumerRead, ConsumerTimeout, ConsumerSend, Signal, Exit, Restart, deployVars,
       brokerVars
  <2> QED
    BY <1>1, <2>1
<1>6. ASSUME NEW b \in Blocks, Create(b) PROVE JobsFit'
  BY <1>1, <1>6 DEF Create, CheckName, InsertRow, CreateFails, queueVars
<1>7. ASSUME NEW h \in Handlers, NEW op \in Ops, NEW b \in Blocks, Begin(h, op, b)
      PROVE  JobsFit'
  BY <1>1, <1>7 DEF Begin, queueVars
<1>8. CASE UNCHANGED vars
  BY <1>1, <1>8 DEF vars, queueVars, deployVars
<1> QED
  BY <1>2, <1>3, <1>4, <1>5, <1>6, <1>7, <1>8 DEF Next

-----------------------------------------------------------------------------

\* What Docker and the storage hold, and the history of faults.
ThingsOK ==
    /\ container \in [Names -> [state : {"none", "created", "running", "exited"},
                                by : Workers \cup {0}]]
    /\ image \in SUBSET Names
    /\ tar \in [Names -> {"none", "good", "bad"}]
    /\ faults \in Nat
    /\ stranded \in SUBSET Blocks
    /\ halfDeleted \in SUBSET Blocks

\* A block a handler or a worker names may be counted as stranded.
LEMMA HandlerKeepsThings ==
    ASSUME TaskOK, ThingsOK, NEW h \in Handlers, HandlerStep(h) \/ HandlerFault(h)
    PROVE  ThingsOK'
<1>1. task[h] # Idle => task[h].block \in Blocks
  BY DEF TaskOK, Tasks
<1>2. CASE DeleteFolder(h)
  <2>1. NameOf[task[h].block] \in Names
    BY <1>1, <1>2, NameOfAssumption DEF DeleteFolder, At
  <2> QED
    BY <1>2, <2>1 DEF DeleteFolder, ThingsOK, faultVars
<1>3. CASE HandlerFault(h)
  <2>1. UNCHANGED buildVars /\ faults' \in Nat
    BY <1>3 DEF HandlerFault, SendDuplicate, SendFails, Abandon, AbandonSent,
       CleanupFails, Fault, ThingsOK
  <2>2. stranded' \in SUBSET Blocks /\ halfDeleted' \in SUBSET Blocks
    BY <1>1, <1>3 DEF HandlerFault, SendDuplicate, SendFails, Abandon, AbandonSent,
       CleanupFails, At, Strands, ThingsOK
  <2> QED
    BY <2>1, <2>2 DEF ThingsOK, buildVars
<1> QED
  BY <1>2, <1>3 DEF HandlerStep, Pend, Read, Send, Cleanup, DeleteRow, buildVars,
     faultVars, ThingsOK

LEMMA WorkerKeepsThings ==
    ASSUME PathOK, JobsFit, ThingsOK, NEW w \in Workers, WorkerStep(w) \/ WorkerFault(w)
    PROVE  ThingsOK'
<1>1. Working(w)
  BY DEF JobsFit, WorkerStep, WorkerFault, PatchBuilding, PatchPending, PatchFinal, BuildImage,
     ExportImage, RemoveImage, StopContainer, RemoveContainer, EndRemove, LoadImage,
     CreateContainer, StartContainer, CallFails, CallFailing, PatchFails,
     StopContainerFails, StoreFails, Calls, Finish
<1>2. BlockOf(w) \in Blocks /\ NameAt(w) \in Names
  BY <1>1, WorkTyped DEF PathOK
<1>3. CASE UNCHANGED <<buildVars, faultVars>>
  BY <1>3 DEF ThingsOK, buildVars, faultVars
<1>4. CASE PatchFinal(w)
  BY <1>4 DEF PatchFinal, ThingsOK, buildVars
<1>5. CASE BuildImage(w) \/ RemoveImage(w) \/ LoadImage(w)
  BY <1>2, <1>5 DEF BuildImage, RemoveImage, LoadImage, ThingsOK, faultVars
<1>6. CASE ExportImage(w)
  BY <1>2, <1>6 DEF ExportImage, ThingsOK, faultVars
<1>7. CASE StopContainer(w)
  <2>1. PICK s \in {"none", "created", "running", "exited"} :
          container' = [container EXCEPT ![NameAt(w)] = [@ EXCEPT !.state = s]]
    BY <1>2, <1>7 DEF StopContainer, ThingsOK
  <2> QED
    BY <1>2, <1>7, <2>1 DEF StopContainer, ThingsOK, faultVars
<1>8. CASE RemoveContainer(w)
  BY <1>2, <1>8 DEF RemoveContainer, ThingsOK, NoContainer, faultVars
<1>9. CASE CreateContainer(w) \/ StartContainer(w)
  BY <1>2, <1>9 DEF CreateContainer, StartContainer, ThingsOK, faultVars
<1>10. CASE WorkerFault(w)
  BY <1>2, <1>10 DEF WorkerFault, PatchFails, StopContainerFails, StoreFails, Fault,
     ThingsOK, buildVars
<1> QED
  BY <1>3, <1>4, <1>5, <1>6, <1>7, <1>8, <1>9, <1>10
     DEF WorkerStep, PatchBuilding, PatchPending, EndRemove, CallFails

LEMMA StepThingsOK ==
    TaskOK /\ PathOK /\ JobsFit /\ ThingsOK /\ [Next]_vars => ThingsOK'
<1> SUFFICES ASSUME TaskOK, PathOK, JobsFit, ThingsOK, [Next]_vars PROVE ThingsOK'
  OBVIOUS
<1>1. CASE UNCHANGED <<buildVars, faultVars>>
  BY <1>1 DEF ThingsOK, buildVars, faultVars
<1>2. CASE BuilderCrash
  <2>1. {log[o].block : o \in {o \in Held : o <= committed /\ log[o].action # "remove"}}
          \subseteq Blocks
    <3>1. Held \subseteq Offsets
      BY HeldIsRead DEF PathOK, QueueTypeOK, DispatchOrder, Offsets
    <3> QED
      BY <3>1, MessageTyped DEF PathOK
  <2> QED
    BY <1>2, <2>1 DEF BuilderCrash, ThingsOK, buildVars
<1> QED
  BY <1>1, <1>2, HandlerKeepsThings, WorkerKeepsThings
     DEF Next, Create, CheckName, InsertRow, CreateFails, Begin, TakeRequest, TransportStep,
     deployVars, vars

\* The creations past their check, and the history of shared names: a worker
\* and a handler touch neither.
NamesOK == creating \in SUBSET Blocks /\ shared \in SUBSET Names

LEMMA OnlyCreateNames ==
    ASSUME [Next]_vars, ~ (\E b \in Blocks : Create(b))
    PROVE  UNCHANGED nameVars
<1>1. ASSUME NEW h \in Handlers, HandlerStep(h) \/ HandlerFault(h) PROVE UNCHANGED nameVars
  BY <1>1 DEF HandlerStep, HandlerFault, Pend, Read, Send, Cleanup, DeleteFolder, DeleteRow,
     SendDuplicate, SendFails, Abandon, AbandonSent, CleanupFails
<1>2. ASSUME NEW w \in Workers, TakeRequest(w) \/ WorkerStep(w) \/ WorkerFault(w)
      PROVE  UNCHANGED nameVars
  BY <1>2 DEF TakeRequest, WorkerStep, PatchBuilding, PatchPending, PatchFinal, BuildImage,
     ExportImage, RemoveImage, StopContainer, RemoveContainer, EndRemove, LoadImage,
     CreateContainer, StartContainer, CallFails, WorkerFault, PatchFails,
     StopContainerFails, StoreFails
<1> QED
  BY <1>1, <1>2 DEF Next, Begin, BuilderCrash, TransportStep, deployVars, vars

LEMMA StepNamesOK == NamesOK /\ [Next]_vars => NamesOK'
<1> SUFFICES ASSUME NamesOK, [Next]_vars PROVE NamesOK'
  OBVIOUS
<1>1. ASSUME NEW b \in Blocks, Create(b) PROVE NamesOK'
  BY <1>1, NameOfAssumption DEF Create, CheckName, InsertRow, CreateFails, NamesOK
<1> QED
  BY <1>1, OnlyCreateNames DEF NamesOK, nameVars

DeployTyped == TaskOK /\ PathOK /\ RowOK /\ JobsFit /\ ThingsOK /\ NamesOK

LEMMA DeployTypedInvariant == Spec => []DeployTyped
<1>1. Init => DeployTyped
  <2> SUFFICES ASSUME Init PROVE DeployTyped
    OBVIOUS
  <2>1. TaskOK /\ PathOK
    BY InitTaskOK, InitTypeOK, InitDispatchOrder DEF Init, PathOK
  <2>2. RowOK /\ ThingsOK /\ NamesOK
    BY DEF Init, RowOK, RowValues, Statuses, ThingsOK, NoContainer, NamesOK
  <2>3. JobsFit
    BY DEF Init, QueueInit, JobsFit, Steps
  <2> QED
    BY <2>1, <2>2, <2>3 DEF DeployTyped
<1>2. DeployTyped /\ [Next]_vars => DeployTyped'
  BY StepTaskOK, StepPathOK, StepRowOK, StepJobsFit, StepThingsOK,
     StepNamesOK DEF DeployTyped
<1> QED
  BY <1>1, <1>2, PTL DEF Spec

\* The whole state of deployments keeps its types, whatever is repeated, lost,
\* abandoned or refused.
THEOREM DeployTypeCorrect == Spec => []TypeOK
<1>1. DeployTyped => TypeOK
  BY DEF DeployTyped, TypeOK, PathOK, TaskOK, RowOK, RowValues, JobsFit, ThingsOK,
     NamesOK
<1> QED
  BY <1>1, DeployTypedInvariant, PTL

-----------------------------------------------------------------------------

\* A request of the main-server that will write to the topic for block b, and
\* a message of the topic whose handling ends with a status of b.
Asks(h, b) ==
    /\ task[h] # Idle
    /\ task[h].block = b
    /\ task[h].step \in {"read", "send"}
    /\ task[h].op # "delete"
Serves(o, b) == log[o].block = b /\ log[o].action # "remove"
Covered(b) ==
    (\E h \in Handlers : Asks(h, b)) \/ (\E o \in InFlight : Serves(o, b))

\* PendingHasWork leaves a deletion between its reading and its message as the
\* work of a block; it is none, and is excluded here.
PendingCovered ==
    \A b \in Blocks : row[b] \in Unsettled /\ b \notin stranded => Covered(b)

\* A deletion writes no status before it reads.
PendOps == \A h \in Handlers : At(h, "pend") => task[h].op # "delete"

WorkInv == DeployTyped /\ PendOps /\ PendingCovered

LEMMA InFlightIsOffset ==
    ASSUME PathOK
    PROVE  InFlight \subseteq Offsets /\ AtWorkers \subseteq InFlight
<1>1. Held \subseteq 1 .. position /\ position \in Nat /\ position <= Len(log) /\ Len(log) \in Nat
  BY HeldIsRead DEF PathOK, QueueTypeOK, DispatchOrder
<1>2. 1 .. position \subseteq 1 .. Len(log) /\ position + 1 .. Len(log) \subseteq 1 .. Len(log)
  BY <1>1
<1> QED
  BY <1>1, <1>2 DEF InFlight, Offsets, Held

\* A message that is produced is in flight beside the others.
LEMMA ProduceKeepsFlight ==
    ASSUME PathOK, NEW r \in Requests, Produce(r)
    PROVE  /\ InFlight \subseteq InFlight'
           /\ \A o \in InFlight : log'[o] = log[o]
           /\ Len(log) + 1 \in InFlight'
           /\ log'[Len(log) + 1] = r
<1>1. /\ Len(log) \in Nat /\ Len(log') = Len(log) + 1 /\ position \in Nat /\ position <= Len(log)
      /\ \A o \in Offsets : log'[o] = log[o]
      /\ log'[Len(log) + 1] = r
  BY DEF PathOK, QueueTypeOK, DispatchOrder, Produce, Offsets
<1>2. Held' = Held /\ position' = position
  BY HeldByOthers
<1>3. position + 1 .. Len(log) \subseteq position + 1 .. Len(log')
      /\ Len(log) + 1 \in position + 1 .. Len(log')
  BY <1>1
<1>4. \A o \in InFlight : log'[o] = log[o]
  BY <1>1, InFlightIsOffset
<1> QED
  BY <1>1, <1>2, <1>3, <1>4 DEF InFlight

\* The transport's own steps take nothing out of flight.
LEMMA TransportKeepsFlight ==
    ASSUME PathOK, AutoCommit \/ ConsumerStep \/ Signal \/ Exit \/ Restart
    PROVE  InFlight \subseteq InFlight' /\ log' = log
<1>1. log' = log
  BY DEF AutoCommit, ConsumerStep, ConsumerPoll, ConsumerClose, ConsumerRead,
     ConsumerTimeout, ConsumerSend, Signal, Exit, Restart, brokerVars
<1>2. CASE ConsumerRead
  <2>1. Held' = Held \cup {position + 1} /\ position' = position + 1
    BY <1>2, HeldByRead DEF PathOK, ConsumerRead
  <2>2. position \in Nat /\ Len(log) \in Nat
    BY DEF PathOK, QueueTypeOK
  <2>3. position + 1 .. Len(log) \subseteq {position + 1} \cup (position + 1 + 1 .. Len(log))
    BY <2>2
  <2> QED
    BY <1>1, <2>1, <2>3 DEF InFlight
<1>3. CASE ConsumerSend
  BY <1>1, <1>3, HeldBySend DEF PathOK, ConsumerSend, InFlight
<1>4. CASE Exit
  BY <1>1, <1>4, HeldByExit DEF PathOK, Exit, consumerVars, InFlight
<1>5. CASE ~ (ConsumerRead \/ ConsumerSend \/ Exit)
  <2>1. Held' = Held /\ position' = position
    BY <1>5, HeldByOthers DEF ConsumerStep
  <2> QED
    BY <1>1, <2>1 DEF InFlight
<1> QED
  BY <1>1, <1>2, <1>3, <1>4, <1>5

\* A worker that takes a message keeps it in flight; one that ends takes its
\* own out.
LEMMA TakeKeepsFlight ==
    ASSUME PathOK, NEW w \in Workers, Take(w)
    PROVE  InFlight' = InFlight /\ log' = log
BY HeldByTake DEF PathOK, Take, InFlight, brokerVars, consumerVars

LEMMA FinishKeepsFlight ==
    ASSUME PathOK, NEW w \in Workers, Finish(w)
    PROVE  InFlight \ {worker[w]} \subseteq InFlight' /\ log' = log
BY HeldByFinish DEF PathOK, Finish, InFlight, brokerVars, consumerVars

LEMMA SameFlight ==
    ASSUME UNCHANGED queueVars
    PROVE  InFlight' = InFlight /\ log' = log
BY HeldByOthers DEF InFlight, queueVars

\* A step that keeps the rows and whoever serves them keeps PendingCovered.
LEMMA KeepsCovered ==
    ASSUME PendingCovered,
           \A b \in Blocks : row'[b] \in Unsettled /\ b \notin stranded' =>
               \/ Covered(b)'
               \/ /\ row[b] \in Unsettled /\ b \notin stranded
                  /\ \A h \in Handlers : Asks(h, b) => Asks(h, b)'
                  /\ \A o \in InFlight : Serves(o, b) => o \in InFlight' /\ Serves(o, b)'
    PROVE  PendingCovered'
<1> SUFFICES ASSUME NEW b \in Blocks, row'[b] \in Unsettled, b \notin stranded'
             PROVE  Covered(b)'
  BY DEF PendingCovered
<1>1. CASE Covered(b)'
  BY <1>1
<1>2. CASE /\ row[b] \in Unsettled /\ b \notin stranded
           /\ \A h \in Handlers : Asks(h, b) => Asks(h, b)'
           /\ \A o \in InFlight : Serves(o, b) => o \in InFlight' /\ Serves(o, b)'
  <2>1. Covered(b)
    BY <1>2 DEF PendingCovered
  <2> QED
    BY <1>2, <2>1 DEF Covered
<1> QED
  BY <1>1, <1>2

\* Only the handler at work changes its task, and only at "pend" does it begin
\* a request.
LEMMA StepPendOps == TaskOK /\ PendOps /\ [Next]_vars => PendOps'
<1> SUFFICES ASSUME TaskOK, PendOps, [Next]_vars PROVE PendOps'
  OBVIOUS
<1>1. CASE task' = task
  BY <1>1 DEF PendOps, At
<1>2. ASSUME NEW h \in Handlers, NEW s, s # "pend", Goto(h, s), task[h] # Idle PROVE PendOps'
  <2>1. task'[h].step = s
    BY <1>2 DEF Goto, TaskOK, Tasks
  <2>2. \A g \in Handlers : g # h => task'[g] = task[g]
    BY <1>2 DEF Goto, TaskOK
  <2> QED
    BY <1>2, <2>1, <2>2 DEF PendOps, At
<1>3. ASSUME NEW h \in Handlers, Return(h) PROVE PendOps'
  BY <1>3 DEF Return, PendOps, At, TaskOK
<1>4. ASSUME NEW h \in Handlers, NEW op \in Ops, NEW b \in Blocks, Begin(h, op, b)
      PROVE  PendOps'
  <2>1. PICK s \in TaskSteps :
          /\ task' = [task EXCEPT ![h] = [op |-> op, block |-> b, step |-> s]]
          /\ op = "delete" => s # "pend"
    BY <1>4, OpsAssumption DEF Begin, TaskSteps
  <2> QED
    BY <2>1 DEF PendOps, At, TaskOK
<1>5. ASSUME NEW h \in Handlers, HandlerStep(h) \/ HandlerFault(h) PROVE PendOps'
  BY <1>1, <1>2, <1>3, <1>5 DEF HandlerStep, HandlerFault, Pend, Read, Send, AfterSend,
     Cleanup, DeleteFolder, DeleteRow, SendDuplicate, SendFails, Abandon, AbandonSent,
     CleanupFails, At
<1>6. ASSUME NEW b \in Blocks, Create(b) PROVE PendOps'
  BY <1>1, <1>6 DEF Create, CheckName, InsertRow, CreateFails
<1>7. ASSUME NEW w \in Workers, TakeRequest(w) \/ WorkerStep(w) \/ WorkerFault(w)
      PROVE  PendOps'
  BY <1>1, <1>7 DEF TakeRequest, WorkerStep, PatchBuilding, PatchPending, PatchFinal,
     BuildImage, ExportImage, RemoveImage, StopContainer, RemoveContainer, EndRemove,
     LoadImage, CreateContainer, StartContainer, CallFails, WorkerFault, PatchFails,
     StopContainerFails, StoreFails
<1>8. CASE BuilderCrash \/ TransportStep \/ UNCHANGED vars
  BY <1>1, <1>8 DEF BuilderCrash, TransportStep, vars, deployVars
<1> QED
  BY <1>4, <1>5, <1>6, <1>7, <1>8 DEF Next

\* A handler hands the block over: from its pending status to its reading, and
\* from its reading to the message it writes.
LEMMA HandlerKeepsCovered ==
    ASSUME WorkInv, NEW h \in Handlers, HandlerStep(h) \/ HandlerFault(h)
    PROVE  PendingCovered'
<1>1. /\ TaskOK /\ PathOK /\ RowOK /\ PendOps /\ PendingCovered
      /\ task[h] # Idle
      /\ task[h] \in [op : {"build", "run", "build_and_run", "stop", "cli", "delete"},
                      block : Blocks, step : TaskSteps]
  BY DEF WorkInv, DeployTyped, TaskOK, Tasks, TaskSteps, HandlerStep, HandlerFault, Pend, Read,
     Send, Cleanup, DeleteFolder, DeleteRow, SendDuplicate, SendFails, Abandon, AbandonSent,
     CleanupFails, At
<1> DEFINE Kept(b) == /\ row[b] \in Unsettled /\ b \notin stranded
                      /\ \A g \in Handlers : Asks(g, b) => Asks(g, b)'
                      /\ \A o \in InFlight : Serves(o, b) => o \in InFlight' /\ Serves(o, b)'
           Goal == \A b \in Blocks : row'[b] \in Unsettled /\ b \notin stranded' =>
                       Covered(b)' \/ Kept(b)
<1>2. SUFFICES Goal
  BY <1>1, <1>2, KeepsCovered
<1>3. ASSUME NEW s, Goto(h, s) \/ Return(h) PROVE \A g \in Handlers : g # h => task'[g] = task[g]
  BY <1>1, <1>3 DEF Goto, Return, TaskOK
<1>4. ASSUME NEW s, Goto(h, s)
      PROVE  /\ task'[h].step = s /\ task'[h].op = task[h].op /\ task'[h].block = task[h].block
             /\ s \in TaskSteps => task'[h] # Idle
  <2>1. task'[h] = [task[h] EXCEPT !.step = s]
    BY <1>1, <1>4 DEF Goto, TaskOK
  <2>2. task'[h].step = s /\ task'[h].op = task[h].op /\ task'[h].block = task[h].block
    BY <1>1, <2>1
  <2> QED
    BY <2>2 DEF Idle, TaskSteps
<1>5. CASE UNCHANGED queueVars
  <2>1. InFlight' = InFlight /\ log' = log
    BY <1>5, SameFlight
  <2>2. ASSUME NEW b \in Blocks, NEW o \in InFlight, Serves(o, b)
        PROVE  o \in InFlight' /\ Serves(o, b)'
    BY <2>1, <2>2 DEF Serves
  <2>3. CASE Pend(h)
    <3> SUFFICES ASSUME NEW b \in Blocks, row'[b] \in Unsettled, b \notin stranded'
                 PROVE  Covered(b)' \/ Kept(b)
      OBVIOUS
    <3>1. task[h].step = "pend" /\ task[h].op # "delete" /\ Goto(h, "read") /\ stranded' = stranded
      BY <1>1, <2>3 DEF Pend, PendOps, At, faultVars
    <3>2. CASE b = task[h].block
      <4>1. Asks(h, b)'
        BY <1>4, <3>1, <3>2 DEF Asks, TaskSteps
      <4> QED
        BY <4>1 DEF Covered
    <3>3. CASE b # task[h].block
      <4>1. row'[b] = row[b]
        BY <1>1, <2>3, <3>3 DEF Pend, RowOK
      <4>2. \A g \in Handlers : Asks(g, b) => Asks(g, b)'
        BY <1>3, <3>1 DEF Asks
      <4> QED
        BY <2>2, <3>1, <4>1, <4>2
    <3> QED
      BY <3>2, <3>3
  <2>4. CASE Read(h)
    <3> SUFFICES ASSUME NEW b \in Blocks, row'[b] \in Unsettled, b \notin stranded'
                 PROVE  Kept(b)
      OBVIOUS
    <3>1. row' = row /\ stranded' = stranded
      BY <2>4 DEF Read, faultVars
    <3>2. Exists(b)
      BY <3>1 DEF Exists, Unsettled, Statuses
    <3>3. ASSUME NEW g \in Handlers, Asks(g, b) PROVE Asks(g, b)'
      <4>1. CASE g = h
        <5>1. Goto(h, "send")
          BY <2>4, <3>2, <3>3, <4>1 DEF Read, Asks
        <5> QED
          BY <1>4, <3>3, <4>1, <5>1 DEF Asks, TaskSteps
      <4>2. CASE g # h
        <5>1. task'[g] = task[g]
          BY <1>3, <2>4, <4>2 DEF Read
        <5> QED
          BY <3>3, <5>1 DEF Asks
      <4> QED
        BY <4>1, <4>2
    <3> QED
      BY <2>2, <3>1, <3>3
  <2>5. CASE ~ (Pend(h) \/ Read(h))
    <3> SUFFICES ASSUME NEW b \in Blocks, row'[b] \in Unsettled, b \notin stranded'
                 PROVE  Kept(b)
      OBVIOUS
    <3>1. ~ Send(h) /\ ~ SendDuplicate(h) /\ ~ AbandonSent(h)
      <4>1. Len(log) \in Nat
        BY <1>1 DEF PathOK, QueueTypeOK
      <4>2. ASSUME Produce(Request(h)) PROVE FALSE
        <5>1. log' = Append(log, Request(h)) /\ log \in Seq(Requests) /\ Request(h) \in Requests
          BY <1>1, <4>2, RequestTyped DEF Produce, PathOK, QueueTypeOK
        <5>2. Len(log') = Len(log) + 1
          BY <5>1
        <5> QED
          BY <1>5, <4>1, <5>2 DEF queueVars
      <4> QED
        BY <4>2 DEF Send, SendDuplicate, AbandonSent
    <3>2. row[b] \in Unsettled /\ b \notin stranded
      BY <1>1, <2>5, <3>1 DEF HandlerStep, HandlerFault, Cleanup, DeleteFolder, DeleteRow,
         SendFails, Abandon, CleanupFails, faultVars, RowOK, Unsettled
    <3>3. ASSUME NEW g \in Handlers, Asks(g, b) PROVE Asks(g, b)'
      <4>1. CASE g = h
        <5>1. CASE task[h].step \in {"cleanup", "folder", "row"}
          BY <3>3, <4>1, <5>1 DEF Asks
        <5>2. CASE SendFails(h) \/ Abandon(h)
          BY <1>1, <1>5, <2>5, <3>3, <4>1, <5>2 DEF Asks, SendFails, Abandon, Strands, At
        <5> QED
          BY <2>5, <3>1, <5>1, <5>2 DEF HandlerStep, HandlerFault, Cleanup, DeleteFolder,
             DeleteRow, CleanupFails, At
      <4>2. CASE g # h
        <5>1. task'[g] = task[g]
          BY <1>3, <2>5, <3>1, <4>2 DEF HandlerStep, HandlerFault, Cleanup, DeleteFolder,
             DeleteRow, SendFails, AfterSend, Abandon, CleanupFails
        <5> QED
          BY <3>3, <5>1 DEF Asks
      <4> QED
        BY <4>1, <4>2
    <3> QED
      BY <2>2, <3>2, <3>3
  <2> QED
    BY <2>3, <2>4, <2>5
<1>6. CASE Send(h) \/ SendDuplicate(h) \/ AbandonSent(h)
  <2>1. Produce(Request(h)) /\ Request(h) \in Requests
    BY <1>1, <1>6, RequestTyped DEF Send, SendDuplicate, AbandonSent
  <2>2. /\ InFlight \subseteq InFlight'
        /\ \A o \in InFlight : log'[o] = log[o]
        /\ Len(log) + 1 \in InFlight'
        /\ log'[Len(log) + 1] = Request(h)
    BY <1>1, <2>1, ProduceKeepsFlight
  <2> SUFFICES ASSUME NEW b \in Blocks, row'[b] \in Unsettled, b \notin stranded'
               PROVE  Covered(b)' \/ Kept(b)
    OBVIOUS
  <2>3. row' = row /\ stranded' = stranded
    BY <1>6 DEF Send, SendDuplicate, AbandonSent, faultVars
  <2>4. \A o \in InFlight : Serves(o, b) => o \in InFlight' /\ Serves(o, b)'
    BY <2>2 DEF Serves
  <2>5. CASE Asks(h, b)
    <3>1. Request(h).block = b /\ Request(h).action # "remove"
      BY <1>1, <2>5 DEF Asks, Request, ActionOf
    <3>2. \E o \in InFlight' : log'[o].block = b /\ log'[o].action # "remove"
      BY <2>2, <3>1
    <3> QED
      BY <3>2 DEF Covered, Serves
  <2>6. CASE ~ Asks(h, b)
    <3>1. \A g \in Handlers : g # h => task'[g] = task[g]
      BY <1>3, <1>6 DEF Send, SendDuplicate, AbandonSent, AfterSend
    <3>2. \A g \in Handlers : Asks(g, b) => Asks(g, b)'
      BY <2>6, <3>1 DEF Asks
    <3> QED
      BY <2>3, <2>4, <3>2
  <2> QED
    BY <2>5, <2>6
<1> QED
  BY <1>5, <1>6 DEF HandlerStep, HandlerFault, Pend, Read, Cleanup, DeleteFolder, DeleteRow,
     SendFails, Abandon, CleanupFails

\* A status written for one block leaves the rows of the others alone, and is
\* what the block then shows if it has a row.
LEMMA PatchTouchesOne ==
    ASSUME RowOK, NEW c, NEW s, Patch(c, s), NEW b \in Blocks
    PROVE  /\ b # c => row'[b] = row[b]
           /\ row'[c] \in Unsettled /\ c \in Blocks => s \in Unsettled
<1>1. CASE Exists(c)
  BY <1>1 DEF Patch, RowOK
<1>2. CASE ~ Exists(c)
  BY <1>2 DEF Patch, Exists, Unsettled, Statuses
<1> QED
  BY <1>1, <1>2

\* A worker writes an unsettled status only of the block it works for, and its
\* message leaves the flight with a settled one, a fault, or as a removal.
LEMMA WorkerKeepsCovered ==
    ASSUME WorkInv, NEW w \in Workers, WorkerStep(w) \/ WorkerFault(w)
    PROVE  PendingCovered'
<1>1. PathOK /\ RowOK /\ JobsFit /\ PendingCovered
  BY DEF WorkInv, DeployTyped
<1>2. Working(w) /\ task' = task
  BY <1>1 DEF JobsFit, WorkerStep, WorkerFault, PatchBuilding, PatchPending, PatchFinal,
     BuildImage, ExportImage, RemoveImage, StopContainer, RemoveContainer, EndRemove, LoadImage,
     CreateContainer, StartContainer, CallFails, CallFailing, PatchFails,
     StopContainerFails, StoreFails, Calls, Finish
<1>3. worker[w] \in InFlight /\ worker[w] # 0 /\ Fits(job[w], Message(w).action)
  BY <1>1, <1>2, InFlightIsOffset DEF Working, AtWorkers, Offsets
<1> DEFINE Kept(b) == /\ row[b] \in Unsettled /\ b \notin stranded
                      /\ \A g \in Handlers : Asks(g, b) => Asks(g, b)'
                      /\ \A o \in InFlight : Serves(o, b) => o \in InFlight' /\ Serves(o, b)'
           Goal == \A b \in Blocks : row'[b] \in Unsettled /\ b \notin stranded' =>
                       Covered(b)' \/ Kept(b)
<1>4. SUFFICES Goal
  BY <1>1, <1>4, KeepsCovered
<1>5. SUFFICES ASSUME NEW b \in Blocks, row'[b] \in Unsettled, b \notin stranded'
               PROVE  Covered(b)' \/ Kept(b)
  BY <1>5
<1>6. \A g \in Handlers : Asks(g, b) => Asks(g, b)'
  BY <1>2 DEF Asks
<1>7. CASE UNCHANGED queueVars
  <2>1. InFlight' = InFlight /\ log' = log /\ worker' = worker
    BY <1>7, SameFlight DEF queueVars
  <2>2. \A o \in InFlight : Serves(o, b) => o \in InFlight' /\ Serves(o, b)'
    BY <2>1 DEF Serves
  <2>3. ~ PatchFinal(w) /\ stranded \subseteq stranded'
    <3>1. ~ Finish(w)
      BY <1>1, <1>7 DEF Finish, queueVars, PathOK, QueueTypeOK
    <3>2. ~ PatchFinal(w)
      BY <3>1 DEF PatchFinal
    <3> QED
      BY <3>2 DEF WorkerStep, WorkerFault, PatchBuilding, PatchPending, BuildImage,
         ExportImage, RemoveImage, StopContainer, RemoveContainer, EndRemove, LoadImage,
         CreateContainer, StartContainer, CallFails, PatchFails, StopContainerFails,
         StoreFails, faultVars
  <2>4. CASE b = BlockOf(w) /\ (PatchBuilding(w) \/ PatchPending(w))
    <3>1. Serves(worker[w], b)
      BY <1>3, <2>4 DEF Serves, BlockOf, Message, PatchBuilding, PatchPending, Calls, Fits
    <3>2. Serves(worker[w], b)' /\ worker[w] \in InFlight'
      BY <1>3, <2>1, <3>1 DEF Serves
    <3>3. \E o \in InFlight' : log'[o].block = b /\ log'[o].action # "remove"
      BY <2>1, <3>1, <3>2 DEF Serves
    <3> QED
      BY <3>3 DEF Covered, Serves
  <2>5. CASE ~ (b = BlockOf(w) /\ (PatchBuilding(w) \/ PatchPending(w)))
    <3>1. CASE PatchBuilding(w) \/ PatchPending(w)
      <4>1. row'[b] = row[b]
        BY <1>1, <2>5, <3>1, PatchTouchesOne DEF PatchBuilding, PatchPending
      <4> QED
        BY <1>5, <1>6, <2>2, <2>3, <4>1
    <3>2. CASE ~ (PatchBuilding(w) \/ PatchPending(w))
      <4>1. row' = row
        BY <2>3, <3>2 DEF WorkerStep, WorkerFault, BuildImage, ExportImage, RemoveImage,
           StopContainer, RemoveContainer, EndRemove, LoadImage, CreateContainer,
           StartContainer, CallFails, PatchFails, StopContainerFails, StoreFails
      <4> QED
        BY <1>5, <1>6, <2>2, <2>3, <4>1
    <3> QED
      BY <3>1, <3>2
  <2> QED
    BY <2>4, <2>5
<1>8. CASE Finish(w)
  <2>1. InFlight \ {worker[w]} \subseteq InFlight' /\ log' = log
    BY <1>1, <1>8, FinishKeepsFlight
  <2>2. /\ row'[b] = row[b]
        /\ b \notin stranded
        /\ b = BlockOf(w) => Message(w).action = "remove"
    <3>1. CASE PatchFinal(w)
      <4>1. Patch(BlockOf(w), job[w]) /\ job[w] \notin Unsettled
            /\ stranded' = stranded \ {BlockOf(w)}
        BY <3>1 DEF PatchFinal, Unsettled
      <4>2. b # BlockOf(w)
        BY <1>1, <1>5, <4>1, PatchTouchesOne
      <4>3. row'[b] = row[b]
        BY <1>1, <4>1, <4>2, PatchTouchesOne
      <4> QED
        BY <1>5, <4>1, <4>2, <4>3
    <3>2. CASE PatchFails(w)
      BY <1>5, <3>2 DEF PatchFails
    <3>3. CASE EndRemove(w)
      BY <1>3, <1>5, <3>3 DEF EndRemove, faultVars, Fits
    <3>4. CASE ~ (PatchFinal(w) \/ PatchFails(w) \/ EndRemove(w))
      <4>1. worker' = worker
        BY <3>4 DEF WorkerStep, WorkerFault, PatchBuilding, PatchPending,
           BuildImage, ExportImage, RemoveImage, StopContainer, RemoveContainer,
           LoadImage, CreateContainer, StartContainer, CallFails,
           StopContainerFails, StoreFails, queueVars
      <4> QED
        BY <1>1, <1>8, <4>1 DEF Finish, PathOK, QueueTypeOK
    <3> QED
      BY <3>1, <3>2, <3>3, <3>4
  <2>3. ~ Serves(worker[w], b)
    BY <2>2 DEF Serves, BlockOf, Message
  <2>4. \A o \in InFlight : Serves(o, b) => o \in InFlight' /\ Serves(o, b)'
    BY <2>1, <2>3 DEF Serves
  <2> QED
    BY <1>5, <1>6, <2>2, <2>4
<1> QED
  BY <1>7, <1>8 DEF WorkerStep, WorkerFault, PatchBuilding, PatchPending, PatchFinal,
     BuildImage, ExportImage, RemoveImage, StopContainer, RemoveContainer, EndRemove, LoadImage,
     CreateContainer, StartContainer, CallFails, PatchFails, StopContainerFails, StoreFails

\* A crash takes out of flight what was committed, and strands its blocks; the
\* rest is read again.
LEMMA CrashFlight ==
    ASSUME PathOK, BuilderCrash, NEW o \in InFlight
    PROVE  \/ o \in InFlight' /\ log'[o] = log[o]
           \/ log[o].action = "remove"
           \/ log[o].block \in stranded'
<1>1. /\ log' = log
      /\ position' = committed
      /\ stranded' = stranded \cup
             {log[p].block : p \in {p \in Held : p <= committed /\ log[p].action # "remove"}}
  BY DEF BuilderCrash, Crash, brokerVars
<1>2. Held' = {}
  BY HeldByCrash DEF BuilderCrash, PathOK
<1>3. /\ Held \subseteq 1 .. position /\ position <= Len(log)
      /\ committed <= position /\ position \in Nat /\ committed \in Nat /\ Len(log) \in Nat
  BY HeldIsRead DEF PathOK, QueueTypeOK, DispatchOrder
<1>4. o \in InFlight' \/ (o \in Held /\ o <= committed)
  <2>1. CASE o \in Held
    <3>1. o \in Nat /\ o <= Len(log)
      BY <1>3, <2>1
    <3> QED
      BY <1>1, <1>3, <2>1, <3>1 DEF InFlight
  <2>2. CASE o \in position + 1 .. Len(log)
    BY <1>1, <1>3, <2>2 DEF InFlight
  <2> QED
    BY <2>1, <2>2 DEF InFlight
<1> QED
  BY <1>1, <1>4

LEMMA CrashKeepsCovered ==
    ASSUME WorkInv, BuilderCrash
    PROVE  PendingCovered'
<1>1. PathOK /\ PendingCovered
  BY DEF WorkInv, DeployTyped
<1>2. row' = row /\ task' = task /\ stranded \subseteq stranded'
  BY DEF BuilderCrash
<1>3. ASSUME NEW b \in Blocks, row'[b] \in Unsettled, b \notin stranded'
      PROVE  /\ row[b] \in Unsettled /\ b \notin stranded
             /\ \A h \in Handlers : Asks(h, b) => Asks(h, b)'
             /\ \A o \in InFlight : Serves(o, b) => o \in InFlight' /\ Serves(o, b)'
  BY <1>1, <1>2, <1>3, CrashFlight DEF Asks, Serves
<1> QED
  BY <1>1, <1>3, KeepsCovered

LEMMA StepPendingCovered == WorkInv /\ [Next]_vars => PendingCovered'
<1> SUFFICES ASSUME WorkInv, [Next]_vars PROVE PendingCovered'
  OBVIOUS
<1>1. PathOK /\ RowOK /\ TaskOK /\ PendingCovered
  BY DEF WorkInv, DeployTyped
<1>2. ASSUME InFlight \subseteq InFlight', \A o \in InFlight : log'[o] = log[o],
             stranded' = stranded,
             \A b \in Blocks : row'[b] \in Unsettled => row[b] \in Unsettled,
             \A h \in Handlers : task[h] # Idle => task'[h] = task[h]
      PROVE  PendingCovered'
  <2>1. \A b \in Blocks, h \in Handlers : Asks(h, b) => Asks(h, b)'
    BY <1>2 DEF Asks
  <2>2. \A b \in Blocks, o \in InFlight : Serves(o, b) => o \in InFlight' /\ Serves(o, b)'
    BY <1>2 DEF Serves
  <2> QED
    BY <1>1, <1>2, <2>1, <2>2, KeepsCovered
<1>3. ASSUME NEW b \in Blocks, Create(b) PROVE PendingCovered'
  <2>1. \A c \in Blocks : row'[c] \in Unsettled => row[c] \in Unsettled
    BY <1>1, <1>3 DEF Create, CheckName, InsertRow, CreateFails, RowOK, Unsettled
  <2> QED
    BY <1>2, <1>3, <2>1, SameFlight DEF Create, CheckName, InsertRow,
       CreateFails, faultVars
<1>4. ASSUME NEW h \in Handlers, NEW op \in Ops, NEW b \in Blocks, Begin(h, op, b)
      PROVE  PendingCovered'
  <2>1. \A g \in Handlers : task[g] # Idle => task'[g] = task[g]
    BY <1>1, <1>4 DEF Begin, TaskOK
  <2> QED
    BY <1>2, <1>4, <2>1, SameFlight DEF Begin, faultVars
<1>5. ASSUME NEW w \in Workers, TakeRequest(w) PROVE PendingCovered'
  BY <1>1, <1>2, <1>5, TakeKeepsFlight DEF TakeRequest, faultVars
<1>6. CASE TransportStep
  BY <1>1, <1>2, <1>6, TransportKeepsFlight DEF TransportStep, deployVars, faultVars
<1>7. CASE UNCHANGED vars
  BY <1>2, <1>7, SameFlight DEF vars, deployVars, faultVars
<1> QED
  BY <1>3, <1>4, <1>5, <1>6, <1>7, HandlerKeepsCovered, WorkerKeepsCovered,
     CrashKeepsCovered DEF Next

\* No block is left with "pending" or "building" and nobody to settle it, for
\* any number of handlers, workers, messages, crashes and faults, unless a
\* fault stranded it.
THEOREM PendingIsServed == Spec => []PendingHasWork
<1>1. Init => PendOps /\ PendingCovered
  BY DEF Init, PendOps, At, PendingCovered, Unsettled
<1>2. DeployTyped /\ PendOps /\ PendingCovered /\ [Next]_vars => PendOps' /\ PendingCovered'
  BY StepPendOps, StepPendingCovered DEF WorkInv, DeployTyped
<1>3. PendingCovered => PendingHasWork
  BY DEF PendingCovered, PendingHasWork, Covered, Asks, Serves, Busy
<1> QED
  BY <1>1, <1>2, <1>3, DeployTypedInvariant, PTL DEF Spec

-----------------------------------------------------------------------------
(***************************************************************************)
(* What a row says of its block is so once nobody works on the block, for  *)
(* every set of blocks and names, any number of handlers, messages,        *)
(* crashes, redeliveries and faults, where the builder-server has one      *)
(* worker and the name of the block is not shared: without either the runs *)
(* find it violated.                                                       *)
(*                                                                         *)
(* A status is only as true as the container was when the worker wrote it, *)
(* so the invariant adds what the calls of a worker know of its container  *)
(* (WorkTrue), and that from then on a block that runs, or rests, differs  *)
(* from its row only while a message of the topic that may have touched it *)
(* is in flight or was a removal (RunsServed, RestsServed); and a removal  *)
(* is always the trace of a deletion that is open, done or half done       *)
(* (Removals).  What a worker does to a container concerns no other block  *)
(* of the name, because two blocks that use one name have made it shared   *)
(* (OneUser).                                                              *)
(***************************************************************************)

\* Docker stops the container it is asked to stop.
DockerStops == "docker" \notin FaultKinds

Up(n) == container[n].state = "running"

\* The worker that is about to report "running" has started the container, and
\* between the stop of a container and the report nobody starts it.
WorkTrue ==
    \A w \in Workers : worker[w] # 0 =>
        /\ job[w] \in {"clean", "running"} => Up(NameAt(w))
        /\ DockerStops /\ job[w] \in {"docker_remove", "stopped"} => ~ Up(NameAt(w))

\* A message that is to be handled, or a removal that was ever produced.
Served(b) == \E o \in InFlight : Serves(o, b)
Removes(o, b) == log[o].block = b /\ log[o].action = "remove"
Removing(b) == \E o \in Offsets : Removes(o, b)

RunsServed ==
    \A b \in Blocks :
        /\ row[b] = "running" /\ b \notin stranded \cup halfDeleted
        /\ NameOf[b] \notin shared
        => Up(NameOf[b]) \/ Served(b) \/ Removing(b)

RestsServed ==
    DockerStops =>
        \A b \in Blocks :
            row[b] = "stopped" /\ b \notin stranded /\ NameOf[b] \notin shared
                => ~ Up(NameOf[b]) \/ Served(b)

\* A deletion that has produced its removal, or is about to.
Deletes(h, b) ==
    /\ task[h] # Idle
    /\ task[h].block = b
    /\ task[h].op = "delete"
    /\ task[h].step \in {"send", "cleanup", "folder", "row"}

Removals ==
    \A b \in Blocks : Removing(b) =>
        \/ row[b] = "deleted"
        \/ b \in halfDeleted
        \/ \E h \in Handlers : Deletes(h, b)

\* Two blocks that are in use have different names, or share theirs.
OneUser ==
    \A b, c \in Blocks :
        NameOf[b] = NameOf[c] /\ b # c /\ Uses(b) /\ Uses(c) => NameOf[b] \in shared

StatusInv == DeployTyped /\ WorkTrue /\ RunsServed /\ RestsServed /\ Removals /\ OneUser

-----------------------------------------------------------------------------

LEMMA OneWorker ==
    ASSUME WorkerCount = 1, NEW v \in Workers, NEW w \in Workers
    PROVE  v = w
BY DEF Workers

\* The topic keeps every message it has.
LEMMA ProduceKeepsTopic ==
    ASSUME PathOK, NEW r \in Requests, Produce(r)
    PROVE  /\ \A o \in Offsets : o \in Offsets' /\ log'[o] = log[o]
           /\ \A o \in Offsets' : o \in Offsets \/ log'[o] = r
<1>1. Len(log) \in Nat /\ Len(log') = Len(log) + 1 /\ log'[Len(log) + 1] = r
  BY DEF PathOK, QueueTypeOK, Produce
<1>2. \A o \in Offsets : log'[o] = log[o]
  BY DEF PathOK, QueueTypeOK, Produce, Offsets
<1>3. \A o \in Offsets' : o \in Offsets \/ o = Len(log) + 1
  BY <1>1 DEF Offsets
<1>4. Offsets \subseteq Offsets'
  BY <1>1 DEF Offsets
<1> QED
  BY <1>1, <1>2, <1>3, <1>4

\* A step that writes neither status nor container and takes no message away
\* keeps what the rows say.
LEMMA KeepsStatus ==
    ASSUME StatusInv,
           container' = container, stranded \subseteq stranded', halfDeleted \subseteq halfDeleted',
           shared \subseteq shared',
           \A b \in Blocks : row'[b] \in {"running", "stopped"} => row[b] = row'[b],
           \A b \in Blocks, o \in InFlight : Serves(o, b) /\ b \notin stranded' =>
               o \in InFlight' /\ Serves(o, b)',
           \A o \in Offsets : o \in Offsets' /\ log'[o] = log[o]
    PROVE  RunsServed' /\ RestsServed'
<1>1. \A b \in Blocks : b \notin stranded' /\ Served(b) => Served(b)'
  BY DEF Served
<1>2. \A b \in Blocks : Removing(b) => Removing(b)'
  BY DEF Removing, Removes
<1>3. \A n : Up(n)' <=> Up(n)
  BY DEF Up
<1>4. RunsServed'
  <2> SUFFICES ASSUME NEW b \in Blocks, row'[b] = "running",
                      b \notin stranded' \cup halfDeleted', NameOf[b] \notin shared'
               PROVE  Up(NameOf[b])' \/ Served(b)' \/ Removing(b)'
    BY DEF RunsServed
  <2>1. Up(NameOf[b]) \/ Served(b) \/ Removing(b)
    BY DEF StatusInv, RunsServed
  <2> QED
    BY <1>1, <1>2, <1>3, <2>1
<1>5. RestsServed'
  <2> SUFFICES ASSUME DockerStops, NEW b \in Blocks, row'[b] = "stopped", b \notin stranded',
                      NameOf[b] \notin shared'
               PROVE  ~ Up(NameOf[b])' \/ Served(b)'
    BY DEF RestsServed, DockerStops
  <2>1. ~ Up(NameOf[b]) \/ Served(b)
    BY DEF StatusInv, RestsServed
  <2> QED
    BY <1>1, <1>3, <2>1
<1> QED
  BY <1>4, <1>5

-----------------------------------------------------------------------------
(* Who uses a block *)

LEMMA LiveIsOffset ==
    ASSUME PathOK
    PROVE  Live \subseteq Offsets
<1>1. Held \subseteq 1 .. position /\ position \in Nat /\ committed \in Nat
      /\ position <= Len(log) /\ Len(log) \in Nat
  BY HeldIsRead DEF PathOK, QueueTypeOK, DispatchOrder
<1>2. 1 .. position \subseteq 1 .. Len(log) /\ committed + 1 .. Len(log) \subseteq 1 .. Len(log)
  BY <1>1
<1> QED
  BY <1>1, <1>2 DEF Live, Offsets

\* Only a handler adds to the messages that are, or may be, handled.
LEMMA QueueShrinksLive ==
    ASSUME PathOK,
           \/ AutoCommit \/ ConsumerStep \/ Signal \/ Exit \/ Restart \/ Crash
           \/ UNCHANGED queueVars
           \/ \E w \in Workers : Take(w) \/ Finish(w)
    PROVE  log' = log /\ Live' \subseteq Live
<1>1. log' = log
  BY DEF AutoCommit, ConsumerStep, ConsumerPoll, ConsumerClose, ConsumerRead, ConsumerTimeout,
     ConsumerSend, Signal, Exit, Restart, Crash, Take, Finish, brokerVars, queueVars
<1>2. /\ committed \in Nat /\ position \in Nat /\ Len(log) \in Nat
      /\ committed <= position /\ position <= Len(log)
  BY DEF PathOK, QueueTypeOK, DispatchOrder
<1>3. committed' = committed \/ committed' = position
  BY DEF AutoCommit, ConsumerStep, ConsumerPoll, ConsumerClose, ConsumerRead, ConsumerTimeout,
     ConsumerSend, Signal, Exit, Restart, Crash, Take, Finish, brokerVars, queueVars
<1>4. committed' + 1 .. Len(log') \subseteq committed + 1 .. Len(log)
  BY <1>1, <1>2, <1>3
<1>5. Held' \subseteq Held \cup (committed + 1 .. Len(log))
  <2>1. CASE ConsumerRead
    <3>1. position < Len(log)
      BY <2>1 DEF ConsumerRead
    <3>2. position + 1 \in committed + 1 .. Len(log)
      BY <1>2, <3>1
    <3> QED
      BY <2>1, <3>2, HeldByRead DEF PathOK
  <2>2. CASE ConsumerSend \/ \E w \in Workers : Take(w)
    BY <2>2, HeldBySend, HeldByTake DEF PathOK
  <2>3. CASE Exit
    BY <2>3, HeldByExit DEF PathOK
  <2>4. CASE Crash
    BY <2>4, HeldByCrash DEF PathOK
  <2>5. CASE \E w \in Workers : Finish(w)
    BY <2>5, HeldByFinish DEF PathOK
  <2>6. CASE \/ AutoCommit \/ ConsumerPoll \/ ConsumerClose \/ ConsumerTimeout
             \/ Signal \/ Restart \/ UNCHANGED queueVars
    BY <2>6, HeldByOthers
  <2> QED
    BY <2>1, <2>2, <2>3, <2>4, <2>5, <2>6 DEF ConsumerStep
<1> QED
  BY <1>1, <1>4, <1>5 DEF Live

LEMMA ProduceGrowsLive ==
    ASSUME PathOK, NEW r \in Requests, Produce(r)
    PROVE  \A o \in Live' : (o \in Live /\ log'[o] = log[o]) \/ log'[o] = r
<1>1. Held' = Held /\ committed' = committed
  BY HeldByOthers DEF Produce
<1>2. /\ Len(log) \in Nat /\ Len(log') = Len(log) + 1 /\ log'[Len(log) + 1] = r
      /\ committed \in Nat
  BY DEF PathOK, QueueTypeOK, Produce
<1>3. \A o \in committed + 1 .. Len(log') : o \in committed + 1 .. Len(log) \/ o = Len(log) + 1
  BY <1>2
<1>4. \A o \in Live : log'[o] = log[o]
  BY LiveIsOffset, ProduceKeepsTopic
<1> QED
  BY <1>1, <1>2, <1>3, <1>4 DEF Live

\* A message of the topic came from a handler of its block.
LEMMA StepLive ==
    ASSUME TaskOK, PathOK, [Next]_vars, NEW o \in Live'
    PROVE  \/ o \in Live /\ log'[o] = log[o]
           \/ \E h \in Busy : log'[o].block = task[h].block
<1>1. ASSUME NEW h \in Handlers, Send(h) \/ SendDuplicate(h) \/ AbandonSent(h)
      PROVE  \/ o \in Live /\ log'[o] = log[o]
             \/ \E g \in Busy : log'[o].block = task[g].block
  <2>1. Request(h) \in Requests /\ Produce(Request(h)) /\ h \in Busy
    BY <1>1, RequestTyped DEF Send, SendDuplicate, AbandonSent, At, Busy
  <2>2. CASE log'[o] = Request(h)
    BY <2>1, <2>2 DEF Request
  <2> QED
    BY <2>1, <2>2, ProduceGrowsLive
<1>2. ASSUME NEW h \in Handlers, HandlerStep(h) \/ HandlerFault(h),
             ~ (Send(h) \/ SendDuplicate(h) \/ AbandonSent(h))
      PROVE  UNCHANGED queueVars
  BY <1>2 DEF HandlerStep, HandlerFault, Pend, Read, Cleanup, DeleteFolder, DeleteRow,
     SendFails, Abandon, CleanupFails
<1>3. ASSUME NEW w \in Workers, TakeRequest(w) \/ WorkerStep(w) \/ WorkerFault(w)
      PROVE  Take(w) \/ Finish(w) \/ UNCHANGED queueVars
  BY <1>3 DEF TakeRequest, WorkerStep, PatchBuilding, PatchPending, PatchFinal, BuildImage,
     ExportImage, RemoveImage, StopContainer, RemoveContainer, EndRemove, LoadImage,
     CreateContainer, StartContainer, CallFails, WorkerFault, PatchFails,
     StopContainerFails, StoreFails
<1>4. CASE \E b \in Blocks : Create(b) \/ \E h \in Handlers, op \in Ops : Begin(h, op, b)
  <2>1. UNCHANGED queueVars
    BY <1>4 DEF Create, CheckName, InsertRow, CreateFails, Begin
  <2> QED
    BY <2>1, QueueShrinksLive
<1>5. CASE BuilderCrash \/ TransportStep \/ UNCHANGED vars
  BY <1>5, QueueShrinksLive DEF BuilderCrash, TransportStep, vars
<1> QED
  BY <1>1, <1>2, <1>3, <1>4, <1>5, QueueShrinksLive DEF Next

\* A row begins to exist only with its INSERT.
LEMMA StepExists ==
    ASSUME RowOK, TaskOK, [Next]_vars, NEW b \in Blocks, ~ InsertRow(b), row'[b] \in Statuses
    PROVE  Exists(b)
<1>1. CASE row' = row
  BY <1>1 DEF Exists
<1>2. ASSUME NEW c, NEW s, Patch(c, s) PROVE Exists(b)
  BY <1>2 DEF Patch, Exists, RowOK
<1>3. ASSUME NEW h \in Handlers, HandlerStep(h) PROVE Exists(b)
  <2>1. CASE Pend(h)
    <3>1. Patch(task[h].block, "pending")
      BY <2>1 DEF Pend, Patch
    <3> QED
      BY <1>2, <3>1
  <2>2. CASE DeleteRow(h)
    BY <2>2 DEF DeleteRow, RowOK, Exists, Statuses
  <2> QED
    BY <1>1, <1>3, <2>1, <2>2 DEF HandlerStep, Read, Send, Cleanup, DeleteFolder
<1>4. ASSUME NEW h \in Handlers, HandlerFault(h) PROVE Exists(b)
  BY <1>1, <1>4 DEF HandlerFault, SendDuplicate, SendFails, Abandon, AbandonSent, CleanupFails
<1>5. ASSUME NEW c \in Blocks, Create(c) PROVE Exists(b)
  BY <1>1, <1>5 DEF Create, CheckName, InsertRow, CreateFails, Exists, RowOK
<1>6. ASSUME NEW h \in Handlers, NEW op \in Ops, NEW c \in Blocks, Begin(h, op, c)
      PROVE  Exists(b)
  BY <1>1, <1>6 DEF Begin
<1>7. ASSUME NEW w \in Workers, TakeRequest(w) \/ WorkerStep(w) \/ WorkerFault(w)
      PROVE  Exists(b)
  <2>1. row' = row \/ \E c, s : Patch(c, s)
    BY <1>7 DEF TakeRequest, WorkerStep, PatchBuilding, PatchPending, PatchFinal, BuildImage,
       ExportImage, RemoveImage, StopContainer, RemoveContainer, EndRemove, LoadImage,
       CreateContainer, StartContainer, CallFails, WorkerFault, PatchFails,
       StopContainerFails, StoreFails
  <2> QED
    BY <1>1, <1>2, <2>1
<1>8. CASE BuilderCrash \/ TransportStep \/ UNCHANGED vars
  BY <1>1, <1>8 DEF BuilderCrash, TransportStep, deployVars, vars
<1> QED
  BY <1>3, <1>4, <1>5, <1>6, <1>7, <1>8 DEF Next

\* So nobody comes to use a block that was not in use, but by its INSERT.
LEMMA StepUses ==
    ASSUME RowOK, TaskOK, PathOK, [Next]_vars, NEW b \in Blocks, ~ InsertRow(b), Uses(b)'
    PROVE  Uses(b)
<1>1. CASE row'[b] \in Statuses
  BY <1>1, StepExists DEF Uses
<1>2. ASSUME NEW h \in Handlers, task'[h] # Idle, task'[h].block = b PROVE Uses(b)
  BY <1>2, StepKeepsBlock DEF Uses, Busy
<1>3. ASSUME NEW o \in Live', log'[o].block = b PROVE Uses(b)
  BY <1>3, StepLive DEF Uses
<1> QED
  BY <1>1, <1>2, <1>3 DEF Uses, Exists, Busy, Idle

LEMMA InitOneUser == Init => OneUser
<1> SUFFICES ASSUME Init, NEW b \in Blocks, NEW c \in Blocks,
                    NameOf[b] = NameOf[c], b # c, Uses(b), Uses(c)
             PROVE  FALSE
  BY DEF OneUser
<1>1. Len(log) = 0 /\ committed = 0 /\ polled = 0 /\ Len(msgChan) = 0
      /\ \A w \in Workers : worker[w] = 0
  BY DEF Init, QueueInit
<1>2. Live = {} /\ Busy = {}
  BY <1>1 DEF Live, Held, InChannel, AtWorkers, Busy, Init
<1>3. \A d \in Blocks : Uses(d) => d \in FirstBlocks
  BY <1>2 DEF Uses, Exists, Statuses, Init
<1> QED
  BY <1>3, FirstBlocksAssumption

LEMMA StepOneUser ==
    ASSUME DeployTyped, OneUser, [Next]_vars
    PROVE  OneUser' /\ shared \subseteq shared'
<1>1. RowOK /\ TaskOK /\ PathOK
  BY DEF DeployTyped
<1>2. shared \subseteq shared'
  BY OnlyCreateNames DEF nameVars, Create, CheckName, InsertRow, CreateFails
<1>3. ASSUME NEW b \in Blocks, NEW c \in Blocks, NameOf[b] = NameOf[c], b # c,
             Uses(b)', Uses(c)'
      PROVE  NameOf[b] \in shared'
  <2>1. CASE InsertRow(b)
    <3>1. ~ InsertRow(c)
      BY <1>1, <1>3, <2>1 DEF InsertRow, RowOK
    <3>2. Uses(c)
      BY <1>1, <1>3, <3>1, StepUses
    <3> QED
      BY <1>3, <2>1, <3>2 DEF InsertRow
  <2>2. CASE InsertRow(c)
    <3>1. ~ InsertRow(b)
      BY <1>1, <1>3, <2>2 DEF InsertRow, RowOK
    <3>2. Uses(b)
      BY <1>1, <1>3, <3>1, StepUses
    <3> QED
      BY <1>3, <2>2, <3>2 DEF InsertRow
  <2>3. CASE ~ InsertRow(b) /\ ~ InsertRow(c)
    <3>1. Uses(b) /\ Uses(c)
      BY <1>1, <1>3, <2>3, StepUses
    <3> QED
      BY <1>2, <1>3, <3>1 DEF OneUser
  <2> QED
    BY <2>1, <2>2, <2>3
<1> QED
  BY <1>2, <1>3 DEF OneUser

-----------------------------------------------------------------------------
(* The handlers *)

\* What a handler does to the topic: nothing, or its request at the end.
LEMMA HandlerTopic ==
    ASSUME TaskOK, PathOK, NEW h \in Handlers, HandlerStep(h) \/ HandlerFault(h)
    PROVE  /\ InFlight \subseteq InFlight'
           /\ \A o \in Offsets : o \in Offsets' /\ log'[o] = log[o]
           /\ \A o \in Offsets' :
                  o \in Offsets \/ (At(h, "send") /\ log'[o] = Request(h))
           /\ UNCHANGED <<worker, job>>
<1>1. CASE Send(h) \/ SendDuplicate(h) \/ AbandonSent(h)
  <2>1. Request(h) \in Requests /\ Produce(Request(h)) /\ At(h, "send") /\ job' = job
    BY <1>1, RequestTyped DEF Send, SendDuplicate, AbandonSent, At
  <2> QED
    BY <2>1, ProduceKeepsFlight, ProduceKeepsTopic DEF Produce
<1>2. CASE UNCHANGED <<queueVars, job>>
  BY <1>2, SameFlight DEF Offsets, queueVars
<1> QED
  BY <1>1, <1>2 DEF HandlerStep, HandlerFault, Pend, Read, Cleanup, DeleteFolder,
     DeleteRow, SendFails, Abandon, CleanupFails

\* A handler writes no status of a container and touches none.
LEMMA HandlerRows ==
    ASSUME RowOK, TaskOK, NEW h \in Handlers, HandlerStep(h) \/ HandlerFault(h)
    PROVE  /\ container' = container
           /\ stranded \subseteq stranded' /\ halfDeleted \subseteq halfDeleted'
           /\ shared' = shared
           /\ \A b \in Blocks : row'[b] \in {"running", "stopped"} => row[b] = row'[b]
<1>1. container' = container
  BY DEF HandlerStep, HandlerFault, Pend, Read, Send, Cleanup, DeleteFolder, DeleteRow,
     SendDuplicate, SendFails, Abandon, AbandonSent, CleanupFails, buildVars
<1>2. stranded \subseteq stranded' /\ halfDeleted \subseteq halfDeleted' /\ shared' = shared
  BY DEF HandlerStep, HandlerFault, Pend, Read, Send, Cleanup, DeleteFolder, DeleteRow,
     SendDuplicate, SendFails, Abandon, AbandonSent, CleanupFails, faultVars, nameVars
<1>3. row' = row \/ Pend(h) \/ DeleteRow(h)
  BY DEF HandlerStep, HandlerFault, Read, Send, Cleanup, DeleteFolder,
     SendDuplicate, SendFails, Abandon, AbandonSent, CleanupFails
<1>4. Pend(h) \/ DeleteRow(h) =>
        \A b \in Blocks : row'[b] \in {"running", "stopped"} => row[b] = row'[b]
  BY DEF RowOK, Pend, DeleteRow
<1> QED
  BY <1>1, <1>2, <1>3, <1>4

\* A deletion that has produced its removal stays open until it ends with the
\* row, or half done.
LEMMA HandlerKeepsRemovals ==
    ASSUME StatusInv, [Next]_vars, NEW h \in Handlers, HandlerStep(h) \/ HandlerFault(h)
    PROVE  Removals'
<1>1. /\ TaskOK /\ PathOK /\ RowOK /\ Removals
      /\ task[h] # Idle
      /\ task[h] \in [op : {"build", "run", "build_and_run", "stop", "cli", "delete"},
                      block : Blocks, step : TaskSteps]
  BY DEF StatusInv, DeployTyped, TaskOK, Tasks, TaskSteps, HandlerStep, HandlerFault, Pend, Read,
     Send, Cleanup, DeleteFolder, DeleteRow, SendDuplicate, SendFails, Abandon, AbandonSent,
     CleanupFails, At
<1> SUFFICES ASSUME NEW b \in Blocks, Removing(b)', row'[b] # "deleted", b \notin halfDeleted'
             PROVE  \E g \in Handlers : Deletes(g, b)'
  BY DEF Removals
<1>2. ASSUME NEW s, Goto(h, s) \/ Return(h) PROVE \A g \in Handlers : g # h => task'[g] = task[g]
  BY <1>1, <1>2 DEF Goto, Return, TaskOK
<1>3. ASSUME NEW s, Goto(h, s)
      PROVE  /\ task'[h].step = s /\ task'[h].op = task[h].op /\ task'[h].block = task[h].block
             /\ s \in TaskSteps => task'[h] # Idle
  <2>1. task'[h] = [task[h] EXCEPT !.step = s]
    BY <1>1, <1>3 DEF Goto, TaskOK
  <2>2. task'[h].step = s /\ task'[h].op = task[h].op /\ task'[h].block = task[h].block
    BY <1>1, <2>1
  <2> QED
    BY <2>2 DEF Idle, TaskSteps
<1>4. \E g \in Handlers : Deletes(g, b)
  <2>1. PICK o \in Offsets' : log'[o].block = b /\ log'[o].action = "remove"
    BY DEF Removing, Removes
  <2>2. CASE o \in Offsets
    <3>1. Removing(b)
      BY <1>1, <2>1, <2>2, HandlerTopic DEF Removing, Removes
    <3>2. row[b] # "deleted" /\ b \notin halfDeleted
      BY <1>1, StepRowOK, HandlerRows DEF RowForward
    <3> QED
      BY <1>1, <3>1, <3>2 DEF Removals
  <2>3. CASE o \notin Offsets
    <3>1. At(h, "send") /\ Request(h).block = b /\ Request(h).action = "remove"
      BY <1>1, <2>1, <2>3, HandlerTopic
    <3>2. task[h].block = b /\ task[h].op = "delete"
      BY <1>1, <3>1 DEF Request, ActionOf
    <3> QED
      BY <3>1, <3>2 DEF Deletes, At
  <2> QED
    BY <2>2, <2>3
<1>5. PICK g \in Handlers : Deletes(g, b)
  BY <1>4
<1>6. CASE g # h
  <2>1. task'[g] = task[g]
    BY <1>2, <1>6 DEF HandlerStep, HandlerFault, Pend, Read, Send, AfterSend, Cleanup,
       DeleteFolder, DeleteRow, SendDuplicate, SendFails, Abandon, AbandonSent, CleanupFails
  <2> QED
    BY <1>5, <2>1 DEF Deletes
<1>7. CASE g = h
  <2>1. Goto(h, "cleanup") \/ Goto(h, "folder") \/ Goto(h, "row") \/ task' = task
    <3>1. ~ DeleteRow(h)
      BY <1>1, <1>5, <1>7 DEF DeleteRow, Deletes, RowOK
    <3>2. ~ CleanupFails(h) /\ ~ Abandon(h) /\ ~ AbandonSent(h)
      BY <1>5, <1>7 DEF CleanupFails, Abandon, AbandonSent, Deletes, At
    <3> QED
      BY <1>5, <1>7, <3>1, <3>2 DEF HandlerStep, HandlerFault, Deletes, At, Pend, Read, Send,
         AfterSend, SendDuplicate, SendFails, Cleanup, DeleteFolder
  <2>2. Deletes(h, b)'
    BY <1>3, <1>5, <1>7, <2>1 DEF Deletes, TaskSteps
  <2> QED
    BY <2>2
<1> QED
  BY <1>6, <1>7

-----------------------------------------------------------------------------
(* The worker *)

\* The containers of the other blocks in use are not the worker's.
LEMMA OtherContainers ==
    ASSUME DeployTyped, OneUser, NEW w \in Workers, WorkerStep(w) \/ WorkerFault(w),
           Working(w), worker[w] # 0, BlockOf(w) \in Blocks,
           NEW b \in Blocks, b # BlockOf(w), Exists(b), NameOf[b] \notin shared
    PROVE  Up(NameOf[b])' <=> Up(NameOf[b])
<1>1. NameOf[b] # NameAt(w)
  <2>1. worker[w] \in Live
    BY DEF Live, Held, AtWorkers
  <2>2. Uses(BlockOf(w)) /\ Uses(b)
    BY <2>1 DEF Uses, BlockOf, Message
  <2> QED
    BY <2>2 DEF OneUser, NameAt
<1>2. PICK c : container' = [container EXCEPT ![NameAt(w)] = c] \/ container' = container
  BY DEF WorkerStep, WorkerFault, PatchBuilding, PatchPending, PatchFinal, BuildImage,
     ExportImage, RemoveImage, StopContainer, RemoveContainer, EndRemove, LoadImage,
     CreateContainer, StartContainer, CallFails, PatchFails, StopContainerFails, StoreFails,
     buildVars
<1>3. container'[NameOf[b]] = container[NameOf[b]]
  BY <1>1, <1>2, NameOfAssumption DEF DeployTyped, ThingsOK
<1> QED
  BY <1>3 DEF Up

\* What one call does to the container of its block.
LEMMA OwnContainer ==
    ASSUME DeployTyped, NEW w \in Workers, WorkerStep(w) \/ WorkerFault(w),
           NEW n \in Names, n = NameAt(w)
    PROVE  /\ Up(n)' => Up(n) \/ StartContainer(w)
           /\ Up(n) => Up(n)' \/ StopContainer(w)
           /\ StopContainer(w) => ~ Up(n)'
           /\ StartContainer(w) => Up(n)'
<1>1. CASE container' = container
  <2>1. Up(n)' <=> Up(n)
    BY <1>1 DEF Up
  <2>2. ~ StartContainer(w)
    <3>1. ASSUME StartContainer(w) PROVE FALSE
      <4>1. container[n].state = "created" /\ container'[n].state = "running"
        BY <3>1 DEF StartContainer, DeployTyped, ThingsOK
      <4> QED
        BY <1>1, <4>1
    <3> QED
      BY <3>1
  <2>3. StopContainer(w) => ~ Up(n)
    <3>1. ASSUME StopContainer(w) PROVE container'[n].state # "running"
      BY <3>1 DEF StopContainer, DeployTyped, ThingsOK
    <3> QED
      BY <1>1, <3>1 DEF Up
  <2> QED
    BY <2>1, <2>2, <2>3
<1>2. CASE StopContainer(w)
  <2>1. container'[n].state # "running"
    BY <1>2 DEF StopContainer, DeployTyped, ThingsOK
  <2>2. ~ StartContainer(w)
    BY <1>2 DEF StopContainer, StartContainer, Calls
  <2> QED
    BY <1>2, <2>1, <2>2 DEF Up
<1>3. CASE StartContainer(w)
  <2>1. container[n].state = "created" /\ container'[n].state = "running"
    BY <1>3 DEF StartContainer, DeployTyped, ThingsOK
  <2>2. ~ StopContainer(w)
    BY <1>3 DEF StopContainer, StartContainer, Calls
  <2> QED
    BY <1>3, <2>1, <2>2 DEF Up
<1>4. CASE (RemoveContainer(w) \/ CreateContainer(w)) /\ container' # container
  <2>1. container[n].state # "running" /\ container'[n].state # "running"
    BY <1>4 DEF RemoveContainer, CreateContainer, NoContainer, DeployTyped, ThingsOK
  <2>2. ~ StopContainer(w) /\ ~ StartContainer(w)
    BY <1>4 DEF RemoveContainer, CreateContainer, StopContainer, StartContainer, Calls
  <2> QED
    BY <2>1, <2>2 DEF Up
<1> QED
  BY <1>1, <1>2, <1>3, <1>4 DEF WorkerStep, WorkerFault, PatchBuilding, PatchPending,
     PatchFinal, BuildImage, ExportImage, RemoveImage, EndRemove, LoadImage, CallFails,
     PatchFails, StopContainerFails, StoreFails, buildVars

\* A step of the worker either goes on with its message or ends it, in one of
\* three ways.
LEMMA WorkerEnds ==
    ASSUME StatusInv, NEW w \in Workers, WorkerStep(w) \/ WorkerFault(w)
    PROVE  /\ Working(w) /\ worker[w] \in InFlight /\ worker[w] # 0
           /\ BlockOf(w) \in Blocks /\ NameAt(w) \in Names
           /\ task' = task /\ log' = log /\ halfDeleted' = halfDeleted /\ shared' = shared
           /\ \/ /\ UNCHANGED queueVars
                 /\ ~ PatchFinal(w) /\ ~ EndRemove(w)
                 /\ \E c \in Steps : Proceed(w, c)
              \/ Finish(w) /\ (PatchFinal(w) \/ EndRemove(w) \/ PatchFails(w))
<1>1. PathOK /\ RowOK /\ JobsFit
  BY DEF StatusInv, DeployTyped
<1>2. Working(w) /\ task' = task /\ halfDeleted' = halfDeleted /\ shared' = shared
  BY <1>1 DEF JobsFit, WorkerStep, WorkerFault, PatchBuilding, PatchPending, PatchFinal,
     BuildImage, ExportImage, RemoveImage, StopContainer, RemoveContainer, EndRemove, LoadImage,
     CreateContainer, StartContainer, CallFails, CallFailing, PatchFails,
     StopContainerFails, StoreFails, Calls, Finish, faultVars, nameVars
<1>3. worker[w] \in InFlight /\ worker[w] # 0
  BY <1>1, <1>2, InFlightIsOffset DEF Working, AtWorkers, Offsets
<1>4. BlockOf(w) \in Blocks /\ NameAt(w) \in Names
  BY <1>1, <1>2, WorkTyped DEF PathOK
<1>5. Finish(w) => log' = log /\ ~ UNCHANGED queueVars
  BY <1>1 DEF Finish, brokerVars, queueVars, PathOK, QueueTypeOK
<1>6. JobsFit'
  BY <1>1, WorkerKeepsWork
<1>7. CASE UNCHANGED queueVars
  <2>1. ~ PatchFinal(w) /\ ~ EndRemove(w)
    BY <1>5, <1>7 DEF PatchFinal, EndRemove
  <2>2. PICK c : Proceed(w, c)
    BY <1>7, <1>5, <2>1 DEF WorkerStep, WorkerFault, PatchBuilding, PatchPending,
       BuildImage, ExportImage, RemoveImage, StopContainer, RemoveContainer, LoadImage,
       CreateContainer, StartContainer, CallFails, PatchFails, StopContainerFails, StoreFails
  <2>3. c \in Steps
    BY <1>1, <1>6, <2>2 DEF JobsFit, Proceed
  <2> QED
    BY <1>2, <1>3, <1>4, <1>7, <2>1, <2>2, <2>3 DEF queueVars
<1>8. CASE Finish(w) /\ (PatchFinal(w) \/ EndRemove(w) \/ PatchFails(w))
  BY <1>2, <1>3, <1>4, <1>5, <1>8
<1> QED
  BY <1>7, <1>8 DEF WorkerStep, WorkerFault, PatchBuilding, PatchPending, PatchFinal,
     BuildImage, ExportImage, RemoveImage, StopContainer, RemoveContainer, EndRemove, LoadImage,
     CreateContainer, StartContainer, CallFails, PatchFails, StopContainerFails, StoreFails

\* A worker keeps what it knows while nobody touches its container.
LEMMA KeepsWorkTrue ==
    ASSUME StatusInv, UNCHANGED <<worker, job, container>>,
           \A o \in Offsets : log'[o] = log[o]
    PROVE  WorkTrue'
<1> SUFFICES ASSUME NEW w \in Workers, worker[w] # 0
             PROVE  /\ job[w] \in {"clean", "running"} => Up(NameAt(w))'
                    /\ DockerStops /\ job[w] \in {"docker_remove", "stopped"} => ~ Up(NameAt(w))'
  BY DEF WorkTrue, DockerStops
<1>1. worker[w] \in Offsets
  BY DEF StatusInv, DeployTyped, JobsFit, Working
<1>2. Up(NameAt(w))' <=> Up(NameAt(w))
  BY <1>1 DEF Up, NameAt, BlockOf, Message
<1> QED
  BY <1>2 DEF StatusInv, WorkTrue

\* What a worker knows of its container, it has from the call before.
LEMMA WorkerKnows ==
    ASSUME WorkerCount = 1, StatusInv, NEW w \in Workers, WorkerStep(w) \/ WorkerFault(w)
    PROVE  WorkTrue'
<1>1. CASE Finish(w)
  <2>1. worker'[w] = 0
    BY <1>1 DEF Finish, StatusInv, DeployTyped, PathOK, QueueTypeOK
  <2> QED
    BY <2>1, OneWorker DEF WorkTrue
<1>2. CASE ~ Finish(w)
  <2>1. /\ UNCHANGED queueVars /\ ~ PatchFinal(w) /\ ~ EndRemove(w)
        /\ Working(w) /\ NameAt(w) \in Names
    BY <1>2, WorkerEnds
  <2>2. PICK c \in Steps : Proceed(w, c)
    BY <1>2, WorkerEnds
  <2>3. job'[w] = c
    BY <2>2 DEF Proceed, StatusInv, DeployTyped, JobsFit
  <2>4. PICK n \in Names : n = NameAt(w)
    BY <2>1
  <2>5. NameAt(w)' = n
    BY <2>1, <2>4 DEF NameAt, BlockOf, Message, queueVars
  <2>6. /\ Up(n)' => Up(n) \/ StartContainer(w)
        /\ Up(n) => Up(n)' \/ StopContainer(w)
        /\ StopContainer(w) => ~ Up(n)'
        /\ StartContainer(w) => Up(n)'
    BY <2>4, OwnContainer DEF StatusInv
  <2>7. worker[w] # 0 /\ Fits(job[w], Message(w).action) /\ Message(w).action \in Actions
    BY <2>1, WorkTyped DEF StatusInv, DeployTyped, PathOK, Working, Offsets
  <2>8. ASSUME c \in {"clean", "running"} PROVE Up(n)'
    <3>1. StartContainer(w) \/ (RemoveImage(w) /\ job[w] = "clean")
      BY <2>1, <2>3, <2>7, <2>8 DEF WorkerStep, WorkerFault, PatchBuilding, PatchPending,
         BuildImage, ExportImage, RemoveImage, StopContainer, RemoveContainer, LoadImage,
         CreateContainer, CallFails, PatchFails, StopContainerFails, StoreFails, Proceed,
         StatusInv, DeployTyped, JobsFit, Fits, Calls, Actions
    <3>2. ASSUME RemoveImage(w), job[w] = "clean" PROVE Up(n)'
      <4>1. Up(n) /\ ~ StopContainer(w)
        BY <2>4, <2>7, <3>2 DEF StatusInv, WorkTrue, StopContainer, Calls
      <4> QED
        BY <2>6, <4>1
    <3> QED
      BY <2>6, <3>1, <3>2
  <2>9. ASSUME DockerStops, c \in {"docker_remove", "stopped"} PROVE ~ Up(n)'
    <3>1. StopContainer(w) \/ RemoveContainer(w)
      BY <2>1, <2>3, <2>7, <2>9 DEF WorkerStep, WorkerFault, PatchBuilding, PatchPending,
         BuildImage, ExportImage, RemoveImage, StartContainer, LoadImage, DockerStops, Fault,
         CreateContainer, CallFails, PatchFails, StopContainerFails, StoreFails, Proceed,
         StatusInv, DeployTyped, JobsFit, Fits, Calls, Actions
    <3>2. ASSUME RemoveContainer(w) PROVE ~ Up(n)'
      <4>1. ~ Up(n) /\ ~ StartContainer(w)
        BY <2>4, <2>7, <2>9, <3>2 DEF StatusInv, WorkTrue, StartContainer, RemoveContainer, Calls
      <4> QED
        BY <2>6, <4>1
    <3> QED
      BY <2>6, <3>1, <3>2
  <2>10. ASSUME NEW v \in Workers, worker'[v] # 0
         PROVE  /\ job'[v] \in {"clean", "running"} => Up(NameAt(v))'
                /\ DockerStops /\ job'[v] \in {"docker_remove", "stopped"} => ~ Up(NameAt(v))'
    <3>1. v = w
      BY OneWorker
    <3>2. Up(NameAt(v))' <=> Up(n)'
      BY <2>5, <3>1 DEF Up
    <3> QED
      BY <2>3, <2>8, <2>9, <3>1, <3>2
  <2> QED
    BY <2>10 DEF WorkTrue, DockerStops
<1> QED
  BY <1>1, <1>2

\* A status a worker writes of its block is what its container is, and until
\* it does its message answers for the block.
LEMMA WorkerKeepsStatus ==
    ASSUME WorkerCount = 1, StatusInv, NEW w \in Workers, WorkerStep(w) \/ WorkerFault(w)
    PROVE  RunsServed' /\ RestsServed'
<1>1. /\ Working(w) /\ worker[w] \in InFlight /\ worker[w] # 0
      /\ BlockOf(w) \in Blocks /\ NameAt(w) \in Names
      /\ task' = task /\ log' = log /\ halfDeleted' = halfDeleted /\ shared' = shared
  BY WorkerEnds
<1>2. /\ PathOK /\ RowOK /\ JobsFit
      /\ Fits(job[w], Message(w).action) /\ worker[w] \in Offsets
      /\ WorkTrue /\ RunsServed /\ RestsServed
  BY <1>1 DEF StatusInv, DeployTyped, Working
<1>3. Offsets' = Offsets
  BY <1>1 DEF Offsets
<1>4. ASSUME NEW o \in InFlight, o # worker[w] \/ UNCHANGED queueVars PROVE o \in InFlight'
  BY <1>2, <1>4, SameFlight, FinishKeepsFlight, WorkerEnds
<1>5. ASSUME NEW b \in Blocks, b # BlockOf(w)
      PROVE  /\ row'[b] = row[b] /\ (b \in stranded' <=> b \in stranded)
             /\ row[b] \in {"running", "stopped"} /\ NameOf[b] \notin shared =>
                    (Up(NameOf[b])' <=> Up(NameOf[b]))
             /\ Served(b) => Served(b)'
             /\ Removing(b) => Removing(b)'
  <2>1. row'[b] = row[b]
    <3>1. row' = row \/ \E s : Patch(BlockOf(w), s)
      BY DEF WorkerStep, WorkerFault, PatchBuilding, PatchPending, PatchFinal, BuildImage,
         ExportImage, RemoveImage, StopContainer, RemoveContainer, EndRemove, LoadImage,
         CreateContainer, StartContainer, CallFails, PatchFails, StopContainerFails, StoreFails
    <3> QED
      BY <1>2, <1>5, <3>1, PatchTouchesOne
  <2>2. b \in stranded' <=> b \in stranded
    BY <1>5 DEF WorkerStep, WorkerFault, PatchBuilding, PatchPending, PatchFinal, BuildImage,
       ExportImage, RemoveImage, StopContainer, RemoveContainer, EndRemove, LoadImage,
       CreateContainer, StartContainer, CallFails, PatchFails, StopContainerFails, StoreFails,
       faultVars
  <2>3. row[b] \in {"running", "stopped"} /\ NameOf[b] \notin shared =>
            (Up(NameOf[b])' <=> Up(NameOf[b]))
    BY <1>1, <1>5, OtherContainers DEF StatusInv, Exists, Statuses
  <2>4. Served(b) => Served(b)'
    <3>1. \A o \in InFlight : Serves(o, b) => o # worker[w]
      BY <1>5 DEF Serves, BlockOf, Message
    <3>2. \A o \in InFlight : Serves(o, b) => o \in InFlight' /\ Serves(o, b)'
      BY <1>1, <1>4, <3>1 DEF Serves
    <3> QED
      BY <3>2 DEF Served
  <2>5. Removing(b) => Removing(b)'
    BY <1>1, <1>3 DEF Removing, Removes
  <2> QED
    BY <2>1, <2>2, <2>3, <2>4, <2>5
<1>6. PICK b \in Blocks : b = BlockOf(w)
  BY <1>1
<1>7. PICK n \in Names : n = NameAt(w)
  BY <1>1
<1>8. n = NameOf[b]
  BY <1>6, <1>7 DEF NameAt
<1>9. /\ Up(n)' => Up(n) \/ StartContainer(w)
      /\ Up(n) => Up(n)' \/ StopContainer(w)
  BY <1>7, OwnContainer DEF StatusInv
<1>10. Message(w).action = "remove" => Removing(b)'
  BY <1>1, <1>2, <1>3, <1>6 DEF Removing, Removes, Message, BlockOf
<1>11. ASSUME row'[b] = "running", b \notin stranded' \cup halfDeleted',
              NameOf[b] \notin shared'
       PROVE  Up(n)' \/ Served(b)' \/ Removing(b)'
  <2>1. CASE UNCHANGED queueVars
    <3>1. CASE Message(w).action = "remove"
      BY <1>10, <3>1
    <3>2. CASE Message(w).action # "remove"
      <4>1. worker[w] \in InFlight' /\ Serves(worker[w], b)
        BY <1>1, <1>4, <1>6, <2>1, <3>2 DEF Serves, Message, BlockOf
      <4>2. log'[worker[w]].block = b /\ log'[worker[w]].action # "remove"
        BY <1>1, <4>1 DEF Serves
      <4>3. \E o \in InFlight' : log'[o].block = b /\ log'[o].action # "remove"
        BY <4>1, <4>2
      <4> QED
        BY <4>3 DEF Served, Serves
    <3> QED
      BY <3>1, <3>2
  <2>2. CASE PatchFinal(w)
    <3>1. Exists(b) /\ job[w] = "running"
      BY <1>2, <1>6, <1>11, <2>2 DEF PatchFinal, Patch, Exists, Statuses, RowOK
    <3>2. Up(n) /\ ~ StopContainer(w)
      BY <1>1, <1>2, <1>7, <3>1 DEF WorkTrue, StopContainer, Calls
    <3> QED
      BY <1>9, <3>2
  <2>3. CASE PatchFails(w)
    BY <1>6, <1>11, <2>3 DEF PatchFails
  <2>4. CASE EndRemove(w)
    BY <1>2, <1>10, <2>4 DEF EndRemove, Fits
  <2> QED
    BY <2>1, <2>2, <2>3, <2>4, WorkerEnds
<1>12. ASSUME DockerStops, row'[b] = "stopped", b \notin stranded', NameOf[b] \notin shared'
       PROVE  ~ Up(n)' \/ Served(b)'
  <2>1. CASE Message(w).action = "remove"
    <3>1. ~ PatchBuilding(w) /\ ~ PatchPending(w) /\ ~ PatchFinal(w) /\ ~ StartContainer(w)
      BY <1>2, <2>1 DEF PatchBuilding, PatchPending, PatchFinal, StartContainer, Calls, Fits
    <3>2. row' = row /\ stranded \subseteq stranded'
      BY <3>1 DEF WorkerStep, WorkerFault, BuildImage, ExportImage, RemoveImage,
         StopContainer, RemoveContainer, EndRemove, LoadImage, CreateContainer, CallFails,
         PatchFails, StopContainerFails, StoreFails, faultVars
    <3>3. ~ Up(n) \/ Served(b)
      BY <1>1, <1>2, <1>8, <1>12, <3>2 DEF RestsServed
    <3>4. \A o \in InFlight : Serves(o, b) => o # worker[w]
      BY <2>1 DEF Serves, Message
    <3>5. \A o \in InFlight : Serves(o, b) => o \in InFlight' /\ Serves(o, b)'
      BY <1>1, <1>4, <3>4 DEF Serves
    <3> QED
      BY <1>9, <3>1, <3>3, <3>5 DEF Served
  <2>2. CASE Message(w).action # "remove" /\ UNCHANGED queueVars
    <3>1. worker[w] \in InFlight' /\ Serves(worker[w], b)
      BY <1>1, <1>4, <1>6, <2>2 DEF Serves, Message, BlockOf
    <3>2. log'[worker[w]].block = b /\ log'[worker[w]].action # "remove"
      BY <1>1, <3>1 DEF Serves
    <3>3. \E o \in InFlight' : log'[o].block = b /\ log'[o].action # "remove"
      BY <3>1, <3>2
    <3> QED
      BY <3>3 DEF Served, Serves
  <2>3. CASE PatchFinal(w)
    <3>1. Exists(b) /\ job[w] = "stopped"
      BY <1>2, <1>6, <1>12, <2>3 DEF PatchFinal, Patch, Exists, Statuses, RowOK
    <3>2. ~ Up(n) /\ ~ StartContainer(w)
      BY <1>1, <1>2, <1>7, <1>12, <3>1 DEF WorkTrue, StartContainer, Calls
    <3> QED
      BY <1>9, <3>2
  <2>4. CASE PatchFails(w)
    BY <1>6, <1>12, <2>4 DEF PatchFails
  <2>5. CASE EndRemove(w)
    BY <1>2, <2>1, <2>5 DEF EndRemove, Fits
  <2> QED
    BY <2>1, <2>2, <2>3, <2>4, <2>5, WorkerEnds
<1>13. ASSUME NEW c \in Blocks, row'[c] = "running", c \notin stranded' \cup halfDeleted',
              NameOf[c] \notin shared'
       PROVE  Up(NameOf[c])' \/ Served(c)' \/ Removing(c)'
  <2>1. CASE c = b
    BY <1>8, <1>11, <1>13, <2>1
  <2>2. CASE c # b
    BY <1>1, <1>2, <1>5, <1>6, <1>13, <2>2 DEF RunsServed
  <2> QED
    BY <2>1, <2>2
<1>14. ASSUME DockerStops, NEW c \in Blocks, row'[c] = "stopped", c \notin stranded',
              NameOf[c] \notin shared'
       PROVE  ~ Up(NameOf[c])' \/ Served(c)'
  <2>1. CASE c = b
    BY <1>8, <1>12, <1>14, <2>1
  <2>2. CASE c # b
    BY <1>1, <1>2, <1>5, <1>6, <1>14, <2>2 DEF RestsServed
  <2> QED
    BY <2>1, <2>2
<1> QED
  BY <1>13, <1>14 DEF RunsServed, RestsServed, DockerStops

-----------------------------------------------------------------------------
(* The transport, the crashes and the whole step *)

\* Whoever is not a handler leaves open deletions, and the topic, as they are.
LEMMA KeepsRemovals ==
    ASSUME StatusInv, [Next]_vars, log' = log, halfDeleted' = halfDeleted,
           \A h \in Handlers : task[h] # Idle => task'[h] = task[h]
    PROVE  Removals'
<1>1. \A b \in Blocks : Removing(b)' => Removing(b)
  BY DEF Removing, Removes, Offsets
<1>2. \A b \in Blocks : row[b] = "deleted" => row'[b] = "deleted"
  BY StepRowOK DEF StatusInv, DeployTyped, RowForward
<1>3. \A b \in Blocks, h \in Handlers : Deletes(h, b) => Deletes(h, b)'
  BY DEF Deletes
<1> QED
  BY <1>1, <1>2, <1>3 DEF StatusInv, Removals

\* Every step keeps the invariant.
LEMMA StepStatusInv ==
    ASSUME WorkerCount = 1, StatusInv, [Next]_vars
    PROVE  WorkTrue' /\ RunsServed' /\ RestsServed' /\ Removals'
<1>1. /\ TaskOK /\ PathOK /\ RowOK /\ JobsFit
      /\ WorkTrue /\ RunsServed /\ RestsServed /\ Removals
  BY DEF StatusInv, DeployTyped
<1> DEFINE Goal == WorkTrue' /\ RunsServed' /\ RestsServed' /\ Removals'
<1>2. ASSUME InFlight \subseteq InFlight', log' = log, UNCHANGED <<container, faultVars>>,
             shared \subseteq shared',
             \A b \in Blocks : row'[b] \in {"running", "stopped"} => row[b] = row'[b],
             \A h \in Handlers : task[h] # Idle => task'[h] = task[h]
      PROVE  RunsServed' /\ RestsServed' /\ Removals'
  <2>1. \A b \in Blocks, o \in InFlight : Serves(o, b) => o \in InFlight' /\ Serves(o, b)'
    BY <1>2 DEF Serves
  <2>2. \A o \in Offsets : o \in Offsets' /\ log'[o] = log[o]
    BY <1>2 DEF Offsets
  <2> QED
    BY <1>2, <2>1, <2>2, KeepsStatus, KeepsRemovals DEF faultVars
<1>3. ASSUME NEW b \in Blocks, Create(b) PROVE Goal
  <2>1. \A c \in Blocks : row'[c] \in {"running", "stopped"} => row[c] = row'[c]
    BY <1>1, <1>3 DEF Create, CheckName, InsertRow, CreateFails, RowOK
  <2> QED
    BY <1>2, <1>3, <2>1, SameFlight, KeepsWorkTrue
       DEF Create, CheckName, InsertRow, CreateFails, buildVars, queueVars
<1>4. ASSUME NEW h \in Handlers, NEW op \in Ops, NEW b \in Blocks, Begin(h, op, b) PROVE Goal
  <2>1. \A g \in Handlers : task[g] # Idle => task'[g] = task[g]
    BY <1>1, <1>4 DEF Begin, TaskOK
  <2> QED
    BY <1>2, <1>4, <2>1, SameFlight, KeepsWorkTrue DEF Begin, buildVars, queueVars, nameVars
<1>5. ASSUME NEW h \in Handlers, HandlerStep(h) \/ HandlerFault(h) PROVE Goal
  <2>1. \A b \in Blocks, o \in InFlight : Serves(o, b) => o \in InFlight' /\ Serves(o, b)'
    BY <1>1, <1>5, HandlerTopic, InFlightIsOffset DEF Serves
  <2>2. RunsServed' /\ RestsServed'
    BY <1>1, <1>5, <2>1, HandlerTopic, HandlerRows, KeepsStatus
  <2>3. WorkTrue'
    BY <1>1, <1>5, HandlerTopic, HandlerRows, KeepsWorkTrue
  <2> QED
    BY <1>5, <2>2, <2>3, HandlerKeepsRemovals
<1>6. ASSUME NEW w \in Workers, TakeRequest(w) PROVE Goal
  <2>1. WorkTrue'
    <3>1. PICK o \in Offsets : job' = [job EXCEPT ![w] = FirstCall(log[o].action)]
      BY <1>1, <1>6, HeadIsOffset DEF TakeRequest, Take
    <3>2. job'[w] \in {"building", "docker_stop"}
      BY <1>1, <3>1, MessageTyped DEF FirstCall, Actions, PathOK, JobsFit
    <3>3. \A v \in Workers : job'[v] \in {"building", "docker_stop"}
      BY <3>2, OneWorker
    <3> QED
      BY <3>3 DEF WorkTrue
  <2> QED
    BY <1>1, <1>2, <1>6, <2>1, TakeKeepsFlight DEF TakeRequest, buildVars, nameVars
<1>7. ASSUME NEW w \in Workers, WorkerStep(w) \/ WorkerFault(w) PROVE Goal
  BY <1>7, WorkerKnows, WorkerKeepsStatus, WorkerEnds, KeepsRemovals
<1>8. CASE BuilderCrash
  <2>1. /\ log' = log /\ row' = row /\ task' = task /\ container' = container
        /\ stranded \subseteq stranded' /\ halfDeleted' = halfDeleted /\ shared' = shared
        /\ \A w \in Workers : worker'[w] = 0
    BY <1>8 DEF BuilderCrash, Crash, brokerVars, buildVars, nameVars
  <2>2. \A b \in Blocks, o \in InFlight : Serves(o, b) /\ b \notin stranded' =>
            o \in InFlight' /\ Serves(o, b)'
    BY <1>1, <1>8, CrashFlight DEF Serves
  <2>3. \A o \in Offsets : o \in Offsets' /\ log'[o] = log[o]
    BY <2>1 DEF Offsets
  <2>4. RunsServed' /\ RestsServed'
    BY <2>1, <2>2, <2>3, KeepsStatus
  <2> QED
    BY <2>1, <2>4, KeepsRemovals DEF WorkTrue
<1>9. CASE TransportStep
  <2>1. worker' = worker
    BY <1>9 DEF TransportStep, AutoCommit, ConsumerStep, ConsumerPoll, ConsumerClose,
       ConsumerRead, ConsumerTimeout, ConsumerSend, Signal, Exit, Restart
  <2> QED
    BY <1>1, <1>2, <1>9, <2>1, TransportKeepsFlight, KeepsWorkTrue
       DEF TransportStep, deployVars, buildVars, nameVars
<1>10. CASE UNCHANGED vars
  BY <1>2, <1>10, SameFlight, KeepsWorkTrue DEF vars, deployVars, buildVars, queueVars,
     nameVars
<1> QED
  BY <1>3, <1>4, <1>5, <1>6, <1>7, <1>8, <1>9, <1>10 DEF Next

LEMMA StatusInvariant ==
    ASSUME WorkerCount = 1
    PROVE  Spec => []StatusInv
<1>1. Init => WorkTrue /\ RunsServed /\ RestsServed /\ Removals /\ OneUser
  <2> SUFFICES ASSUME Init PROVE WorkTrue /\ RunsServed /\ RestsServed /\ Removals /\ OneUser
    OBVIOUS
  <2>1. log = <<>> /\ \A w \in Workers : worker[w] = 0
    BY DEF Init, QueueInit
  <2>2. Offsets = {}
    BY <2>1 DEF Offsets
  <2>3. OneUser
    BY InitOneUser
  <2> QED
    BY <2>1, <2>2, <2>3 DEF Init, WorkTrue, RunsServed, RestsServed, Removals, Removing
<1>2. StatusInv /\ DeployTyped' /\ [Next]_vars => StatusInv'
  BY StepStatusInv, StepOneUser DEF StatusInv
<1> QED
  BY <1>1, <1>2, DeployTypedInvariant, PTL DEF Spec, StatusInv

\* Once nobody works on a name, no message serves its block and no deletion of
\* it is open.
LEMMA QuietIsServed ==
    ASSUME StatusInv, NEW b \in Blocks, Quiet(NameOf[b])
    PROVE  /\ ~ Served(b)
           /\ Removing(b) => row[b] = "deleted" \/ b \in halfDeleted
BY DEF StatusInv, Quiet, Busy, Served, Serves, Removals, Deletes

\* With one worker, a block that shows "running" runs once nobody works on its
\* name, whatever was repeated, lost, refused or dropped before, whenever the
\* builder-server crashed, and whoever used the name before: only a name that
\* two blocks used at the same time is left out.
THEOREM RunningBlocksRun ==
    ASSUME WorkerCount = 1
    PROVE  Spec => []RunningRuns
<1>1. StatusInv => RunningRuns
  <2> SUFFICES ASSUME StatusInv, NEW b \in Blocks, row[b] = "running",
                      b \notin stranded \cup halfDeleted, Quiet(NameOf[b]),
                      NameOf[b] \notin shared
               PROVE  Up(NameOf[b])
    BY DEF RunningRuns, Up
  <2> QED
    BY QuietIsServed DEF StatusInv, RunsServed
<1> QED
  BY <1>1, StatusInvariant, PTL

\* And where Docker stops what it is asked to stop, every status is so: what
\* shows "running" runs, what shows "stopped" does not, and what shows
\* "pending" or "building" has somebody to settle it.
THEOREM StatusIsTrue ==
    ASSUME WorkerCount = 1, DockerStops
    PROVE  Spec => []StatusTrue
<1>1. StatusInv => StoppedDoesNotRun
  <2> SUFFICES ASSUME StatusInv, NEW b \in Blocks, row[b] = "stopped", b \notin stranded,
                      Quiet(NameOf[b]), NameOf[b] \notin shared
               PROVE  ~ Up(NameOf[b])
    BY DEF StoppedDoesNotRun, Up
  <2> QED
    BY QuietIsServed DEF StatusInv, RestsServed
<1>2. PendingHasWork /\ RunningRuns /\ StoppedDoesNotRun => StatusTrue
  BY DEF StatusTrue
<1> QED
  BY <1>1, <1>2, StatusInvariant, RunningBlocksRun, PendingIsServed, PTL
==============================================================================

----------------------------- MODULE BlockDeploy ------------------------------
(***************************************************************************)
(* Deploying, stopping and deleting blocks: the handlers of the            *)
(* main-server (modules/block/handler.rs) write the row of the block and   *)
(* produce a request; the workers of the builder-server handle it          *)
(* (handleRequest, lib/actions.go) against Docker and the object storage   *)
(* and write the status back with a PATCH.  The transport between them is  *)
(* BuildQueue, whose variables this module extends.                        *)
(*                                                                         *)
(* A container, a local image and a stored image tar are named by          *)
(* bucket, version and block name, so they outlive a block and belong to   *)
(* the next block of the same name: NameOf gives the name of a block.  No  *)
(* lock joins the check of a new name to the INSERT of its row, so two     *)
(* blocks can also have one name at the same time.                         *)
(* Every call to Docker, to the storage or to the other server is a step.  *)
(***************************************************************************)
EXTENDS BuildQueue

CONSTANTS
    Blocks,         \* block ids
    Names,          \* bucket-version-blockname
    NameOf,         \* the name of a block
    FirstBlocks,    \* the blocks that exist at the start
    Handlers,       \* concurrent requests to the main-server
    Ops,            \* the operations users ask for in this instance
    BadUploads,     \* may a user's Dockerfile or luidium-config.json be wrong?
    FaultKinds,     \* the faults that may happen in this instance
    MaxFaults       \* bound: how many of them

Actions == {"build", "run", "build_and_run", "stop", "remove"}

ASSUME RequestsAssumption == Requests = [block : Blocks, action : Actions]
ASSUME NameOfAssumption == NameOf \in [Blocks -> Names]
ASSUME FirstBlocksAssumption ==
    /\ FirstBlocks \subseteq Blocks
    /\ \A b, c \in FirstBlocks : NameOf[b] = NameOf[c] => b = c
ASSUME OpsAssumption ==
    Ops \subseteq {"build", "run", "build_and_run", "stop", "cli", "delete"}
ASSUME FaultsAssumption ==
    /\ BadUploads \in BOOLEAN
    /\ FaultKinds \subseteq {"produce", "duplicate", "abandon", "patch", "docker", "delete"}
    /\ MaxFaults \in Nat

Statuses == {"failed", "stopped", "ready", "pending", "running", "building"}

VARIABLES
    row,        \* status column of the block's row, "unborn" or "deleted"
    creating,   \* the blocks whose creation is past the check of the name
    task,       \* what each handler of the main-server is doing
    job,        \* the next call of each worker
    container,  \* Docker: the container of each name
    image,      \* Docker: the names tagged on a local image
    tar,        \* storage: what <blockname>-image.tar holds
    faults,     \* history: faults so far
    stranded,   \* history: blocks a fault left without the end of an operation
    halfDeleted,\* history: blocks whose deletion ended when its "remove" may be sent
    shared      \* history: names a block got while another of that name was in use

buildVars == <<container, image, tar>>
faultVars == <<faults, stranded, halfDeleted>>
nameVars == <<creating, shared>>
deployVars == <<row, task, job, buildVars, faultVars, nameVars>>
vars == <<queueVars, deployVars>>

Idle == [op |-> "none", step |-> "idle"]
NoContainer == [state |-> "none", by |-> 0]
Exists(b) == row[b] \in Statuses
ActionOf(op) == IF op = "cli" THEN "build_and_run"
                ELSE IF op = "delete" THEN "remove" ELSE op
Message(w) == log[worker[w]]
BlockOf(w) == Message(w).block
NameAt(w) == NameOf[BlockOf(w)]
Busy == {h \in Handlers : task[h] # Idle}
\* The requests of the topic that are handled or may be, after a restart too.
Live == Held \cup (committed + 1 .. Len(log))
\* A block is in use while its row is there or anybody may still work on it.
Uses(b) ==
    \/ Exists(b)
    \/ \E h \in Busy : task[h].block = b
    \/ \E o \in Live : log[o].block = b
Fault(kind) == kind \in FaultKinds /\ faults < MaxFaults /\ faults' = faults + 1

Init ==
    /\ QueueInit
    /\ row = [b \in Blocks |-> IF b \in FirstBlocks THEN "ready" ELSE "unborn"]
    /\ task = [h \in Handlers |-> Idle]
    /\ job = [w \in Workers |-> "idle"]
    /\ container = [n \in Names |-> NoContainer]
    /\ image = {}
    /\ tar = [n \in Names |-> "none"]
    /\ faults = 0
    /\ stranded = {}
    /\ halfDeleted = {}
    /\ creating = {}
    /\ shared = {}

-----------------------------------------------------------------------------
(* The handlers of the main-server *)

\* handle_create_block finds no row of the name.  The authority and the
\* capacity of the user, the port and the domain are awaited before the INSERT.
CheckName(b) ==
    /\ row[b] = "unborn"
    /\ b \notin creating
    /\ \A c \in Blocks : NameOf[c] = NameOf[b] => ~ Exists(c)
    /\ creating' = creating \cup {b}
    /\ UNCHANGED <<queueVars, row, task, job, buildVars, faultVars, shared>>

\* create_block inserts the row under a fresh id, its status "ready".
InsertRow(b) ==
    /\ b \in creating
    /\ row[b] = "unborn"
    /\ row' = [row EXCEPT ![b] = "ready"]
    /\ creating' = creating \ {b}
    /\ shared' = IF \E c \in Blocks \ {b} : NameOf[c] = NameOf[b] /\ Uses(c)
                 THEN shared \cup {NameOf[b]} ELSE shared
    /\ UNCHANGED <<queueVars, task, job, buildVars, faultVars>>

\* Anything between the two refuses, fails or is dropped: no row.
CreateFails(b) ==
    /\ b \in creating
    /\ creating' = creating \ {b}
    /\ UNCHANGED <<queueVars, row, task, job, buildVars, faultVars, shared>>

Create(b) == CheckName(b) \/ InsertRow(b) \/ CreateFails(b)

\* A request arrives and its user may write the block.  The CLI's handler has
\* read the row by then, the others read it later.
Begin(h, op, b) ==
    /\ task[h] = Idle
    /\ Exists(b)
    /\ Len(log) + Cardinality(Busy) < MaxLog
    /\ task' = [task EXCEPT ![h] =
                  [op |-> op, block |-> b,
                   step |-> CASE op \in {"build", "run", "build_and_run"} -> "pend"
                              [] op \in {"stop", "delete"} -> "read"
                              [] op = "cli" -> "send"]]
    /\ UNCHANGED <<queueVars, row, job, buildVars, faultVars, nameVars>>

At(h, step) == task[h] # Idle /\ task[h].step = step
Goto(h, step) == task' = [task EXCEPT ![h].step = step]
\* Wrong variant: the handler's slot keeps the operation.
ReturnKeepsOp(h) == Goto(h, "idle")
Return(h) == task' = [task EXCEPT ![h] = Idle]

\* update_block_status(PENDING): UPDATE ... IF EXISTS, true when no row exists.
Pend(h) ==
    /\ At(h, "pend")
    /\ LET b == task[h].block
       IN  row' = IF Exists(b) THEN [row EXCEPT ![b] = "pending"] ELSE row
    /\ Goto(h, "read")
    /\ UNCHANGED <<queueVars, job, buildVars, faultVars, nameVars>>

\* read_block: without a row the unwrap panics, or the deletion returns.
Read(h) ==
    /\ At(h, "read")
    /\ IF Exists(task[h].block) THEN Goto(h, "send") ELSE Return(h)
    /\ UNCHANGED <<queueVars, row, job, buildVars, faultVars, nameVars>>

Request(h) == [block |-> task[h].block, action |-> ActionOf(task[h].op)]
AfterSend(h) == IF task[h].op = "delete" THEN Goto(h, "cleanup") ELSE Return(h)

\* produce_builder_server_request reaches the topic.
Send(h) ==
    /\ At(h, "send")
    /\ Produce(Request(h))
    /\ AfterSend(h)
    /\ UNCHANGED <<row, job, buildVars, faultVars, nameVars>>

\* The producer, which is not idempotent, sends the message once more.
SendDuplicate(h) ==
    /\ At(h, "send")
    /\ Fault("duplicate")
    /\ Produce(Request(h))
    /\ UNCHANGED <<row, task, job, buildVars, stranded, halfDeleted, nameVars>>

\* A handler that ends without its message strands the block; a deletion has
\* no status to write.
Strands(h) == IF task[h].op = "delete" THEN {} ELSE {task[h].block}

\* message.timeout.ms elapses and the message is not in the topic.  The status
\* stays as it is; the deletion goes on.
SendFails(h) ==
    /\ At(h, "send")
    /\ Fault("produce")
    /\ AfterSend(h)
    /\ stranded' = stranded \cup Strands(h)
    /\ UNCHANGED <<queueVars, row, job, buildVars, halfDeleted, nameVars>>

\* The main-server dies, the handler panics, or the client disconnects and the
\* server drops the handler at its next await.  A deletion at "send" may have
\* sent its request before, and after that has.
Abandon(h) ==
    /\ task[h] # Idle
    /\ Fault("abandon")
    /\ stranded' = stranded \cup (IF task[h].step \in {"read", "send"} THEN Strands(h) ELSE {})
    /\ halfDeleted' = halfDeleted \cup
           (IF task[h].op = "delete" /\ ~ At(h, "read") THEN {task[h].block} ELSE {})
    /\ Return(h)
    /\ UNCHANGED <<queueVars, row, job, buildVars, nameVars>>

\* The same while the handler waits for the broker's answer: the message
\* reaches the topic.
AbandonSent(h) ==
    /\ At(h, "send")
    /\ Fault("abandon")
    /\ Produce(Request(h))
    /\ Return(h)
    /\ halfDeleted' = halfDeleted \cup
           (IF task[h].op = "delete" THEN {task[h].block} ELSE {})
    /\ UNCHANGED <<row, job, buildVars, stranded, nameVars>>

\* The deletion gives the user's authority and capacity back.
Cleanup(h) ==
    /\ At(h, "cleanup")
    /\ Goto(h, "folder")
    /\ UNCHANGED <<queueVars, row, job, buildVars, faultVars, nameVars>>

\* One of those calls fails: the handler returns and the row stays.
CleanupFails(h) ==
    /\ At(h, "cleanup")
    /\ Fault("delete")
    /\ Return(h)
    /\ halfDeleted' = halfDeleted \cup {task[h].block}
    /\ UNCHANGED <<queueVars, row, job, buildVars, stranded, nameVars>>

\* delete_folder removes the files of the block, its image tar included.
DeleteFolder(h) ==
    /\ At(h, "folder")
    /\ tar' = [tar EXCEPT ![NameOf[task[h].block]] = "none"]
    /\ Goto(h, "row")
    /\ UNCHANGED <<queueVars, row, job, container, image, faultVars, nameVars>>

\* delete_block removes the row.
DeleteRow(h) ==
    /\ At(h, "row")
    /\ row' = [row EXCEPT ![task[h].block] = "deleted"]
    /\ Return(h)
    /\ UNCHANGED <<queueVars, job, buildVars, faultVars, nameVars>>

HandlerStep(h) ==
    Pend(h) \/ Read(h) \/ Send(h) \/ Cleanup(h) \/ DeleteFolder(h) \/ DeleteRow(h)

HandlerFault(h) ==
    SendDuplicate(h) \/ SendFails(h) \/ Abandon(h) \/ AbandonSent(h) \/ CleanupFails(h)

-----------------------------------------------------------------------------
(* The workers of the builder-server *)

FirstCall(action) ==
    CASE action \in {"build", "build_and_run"} -> "building"
      [] action \in {"run", "stop", "remove"} -> "docker_stop"

\* The worker receives a message and handleRequest starts.
TakeRequest(w) ==
    /\ Take(w)
    /\ job' = [job EXCEPT ![w] = FirstCall(log[Head(msgChan)].action)]
    /\ UNCHANGED <<row, task, buildVars, faultVars, nameVars>>

Calls(w, call) == Alive /\ worker[w] # 0 /\ job[w] = call
Proceed(w, call) == job' = [job EXCEPT ![w] = call]

\* Wrong variant: UPDATE without IF EXISTS.
PatchUpserts(b, status) == row' = [row EXCEPT ![b] = status]
\* UpdateBlockStatus: the PATCH of the main-server updates a row that exists.
Patch(b, status) == row' = IF Exists(b) THEN [row EXCEPT ![b] = status] ELSE row

\* The PATCHes in the middle of a build.
PatchBuilding(w) ==
    /\ Calls(w, "building")
    /\ Patch(BlockOf(w), "building")
    /\ Proceed(w, "build")
    /\ UNCHANGED <<queueVars, task, buildVars, faultVars, nameVars>>

PatchPending(w) ==
    /\ Calls(w, "pending")
    /\ Patch(BlockOf(w), "pending")
    /\ Proceed(w, "docker_stop")
    /\ UNCHANGED <<queueVars, task, buildVars, faultVars, nameVars>>

\* The PATCH with which handleRequest ends.
PatchFinal(w) ==
    /\ job[w] \in {"ready", "running", "stopped", "failed"}
    /\ Patch(BlockOf(w), job[w])
    /\ stranded' = stranded \ {BlockOf(w)}
    /\ Finish(w)
    /\ Proceed(w, "idle")
    /\ UNCHANGED <<task, buildVars, faults, halfDeleted, nameVars>>

\* The main-server answers 500 to any of them; UpdateBlockStatus ignores it.
PatchFails(w) ==
    /\ Alive
    /\ worker[w] # 0
    /\ Fault("patch")
    /\ \/ job[w] = "building" /\ Proceed(w, "build") /\ UNCHANGED queueVars
       \/ job[w] = "pending" /\ Proceed(w, "docker_stop") /\ UNCHANGED queueVars
       \/ job[w] \in {"ready", "running", "stopped", "failed"} /\ Proceed(w, "idle") /\ Finish(w)
    /\ stranded' = stranded \cup {BlockOf(w)}
    /\ UNCHANGED <<row, task, buildVars, halfDeleted, nameVars>>

\* DownloadBlockAsset and BuildImage: the files of the block become an image
\* under its name.
BuildImage(w) ==
    /\ Calls(w, "build")
    /\ image' = image \cup {NameAt(w)}
    /\ Proceed(w, "export")
    /\ UNCHANGED <<queueVars, row, task, container, tar, faultVars, nameVars>>

\* ExportImage into PutObject.  The export of a name without an image ends the
\* pipe early, its error is only printed, and the object is stored as it is.
ExportImage(w) ==
    /\ Calls(w, "export")
    /\ tar' = [tar EXCEPT ![NameAt(w)] = IF NameAt(w) \in image THEN "good" ELSE "bad"]
    /\ Proceed(w, "untag")
    /\ UNCHANGED <<queueVars, row, task, container, image, faultVars, nameVars>>

\* RemoveImageExtended after the export, and after the start of the container.
RemoveImage(w) ==
    /\ \/ Calls(w, "untag")
       \/ Calls(w, "clean")
    /\ image' = image \ {NameAt(w)}
    /\ Proceed(w, CASE job[w] = "clean" -> "running"
                  [] job[w] = "untag" /\ Message(w).action = "build" -> "ready"
                  [] job[w] = "untag" /\ Message(w).action = "build_and_run" -> "pending")
    /\ UNCHANGED <<queueVars, row, task, container, tar, faultVars, nameVars>>

\* StopContainer: an error, such as no container, is ignored.
StopContainer(w) ==
    /\ Calls(w, "docker_stop")
    /\ container' = [container EXCEPT ![NameAt(w)].state =
                        IF @ = "running" THEN "exited" ELSE @]
    /\ Proceed(w, "docker_remove")
    /\ UNCHANGED <<queueVars, row, task, image, tar, faultVars, nameVars>>

\* A running container that Docker does not stop: the error is ignored too.
StopContainerFails(w) ==
    /\ Calls(w, "docker_stop")
    /\ container[NameAt(w)].state = "running"
    /\ Fault("docker")
    /\ Proceed(w, "docker_remove")
    /\ UNCHANGED <<queueVars, row, task, buildVars, stranded, halfDeleted, nameVars>>

\* RemoveContainer, which Docker refuses for a running container.  A stop then
\* reports "stopped", a removal ends, a run goes on.
RemoveContainer(w) ==
    /\ Calls(w, "docker_remove")
    /\ container' = IF container[NameAt(w)].state = "running" THEN container
                    ELSE [container EXCEPT ![NameAt(w)] = NoContainer]
    /\ Proceed(w, CASE Message(w).action = "stop" -> "stopped"
                  [] Message(w).action = "remove" -> "end"
                  [] Message(w).action \in {"run", "build_and_run"} -> "load")
    /\ UNCHANGED <<queueVars, row, task, image, tar, faultVars, nameVars>>

\* StopAndRemoveContainerAndVolume returns: a removal writes no status.
EndRemove(w) ==
    /\ job[w] = "end"
    /\ Finish(w)
    /\ Proceed(w, "idle")
    /\ UNCHANGED <<row, task, buildVars, faultVars, nameVars>>

\* GetObject of the config and the tar, LoadImage: an image under the name.
LoadImage(w) ==
    /\ Calls(w, "load")
    /\ tar[NameAt(w)] = "good"
    /\ image' = image \cup {NameAt(w)}
    /\ Proceed(w, "create")
    /\ UNCHANGED <<queueVars, row, task, container, tar, faultVars, nameVars>>

\* CreateContainer: the name must be free and the image there.
CreateContainer(w) ==
    /\ Calls(w, "create")
    /\ container[NameAt(w)] = NoContainer
    /\ NameAt(w) \in image
    /\ container' = [container EXCEPT ![NameAt(w)] = [state |-> "created", by |-> w]]
    /\ Proceed(w, "start")
    /\ UNCHANGED <<queueVars, row, task, image, tar, faultVars, nameVars>>

\* StartContainer of the container this worker created.
StartContainer(w) ==
    /\ Calls(w, "start")
    /\ container[NameAt(w)] = [state |-> "created", by |-> w]
    /\ container' = [container EXCEPT ![NameAt(w)].state = "running"]
    /\ Proceed(w, "clean")
    /\ UNCHANGED <<queueVars, row, task, image, tar, faultVars, nameVars>>

CallFailing(w) ==
    LET n == NameAt(w)
        own == [state |-> "created", by |-> w]
    IN  \/ Calls(w, "build") /\ BadUploads
        \/ Calls(w, "load") /\ (BadUploads \/ tar[n] # "good")
        \/ Calls(w, "create") /\ (BadUploads \/ container[n] # NoContainer \/ n \notin image)
        \/ Calls(w, "start") /\ (BadUploads \/ container[n] # own)

\* Wrong variant: the error of StartContainer is not looked at.
CallFailsUnseen(w) ==
    /\ CallFailing(w)
    /\ Proceed(w, IF job[w] = "start" THEN "clean" ELSE "failed")
    /\ UNCHANGED <<queueVars, row, task, buildVars, faultVars, nameVars>>

\* Wrong variant: handleRequest returns without a status.
CallFailsSilently(w) ==
    /\ CallFailing(w)
    /\ Proceed(w, "end")
    /\ UNCHANGED <<queueVars, row, task, buildVars, faultVars, nameVars>>

\* A call of a build or a run fails, and handleRequest reports "failed": the
\* upload of the user is bad, or the call finds no tar, no image, the name
\* taken or its container gone.
CallFails(w) ==
    /\ CallFailing(w)
    /\ Proceed(w, "failed")
    /\ UNCHANGED <<queueVars, row, task, buildVars, faultVars, nameVars>>

\* PutObject fails; the image keeps its name.
StoreFails(w) ==
    /\ Calls(w, "export")
    /\ Fault("docker")
    /\ Proceed(w, "failed")
    /\ UNCHANGED <<queueVars, row, task, buildVars, stranded, halfDeleted, nameVars>>

WorkerStep(w) ==
    \/ PatchBuilding(w) \/ PatchPending(w) \/ PatchFinal(w)
    \/ BuildImage(w) \/ ExportImage(w) \/ RemoveImage(w)
    \/ StopContainer(w) \/ RemoveContainer(w) \/ EndRemove(w)
    \/ LoadImage(w) \/ CreateContainer(w) \/ StartContainer(w) \/ CallFails(w)

WorkerFault(w) == PatchFails(w) \/ StopContainerFails(w) \/ StoreFails(w)

-----------------------------------------------------------------------------
(* The transport and the process *)

\* The process dies in the middle of whatever its workers do; containers,
\* images and objects stay.
BuilderCrash ==
    /\ Crash
    /\ job' = [w \in Workers |-> "idle"]
    /\ stranded' = stranded \cup
           {log[o].block : o \in {o \in Held : o <= committed /\ log[o].action # "remove"}}
    /\ UNCHANGED <<row, task, buildVars, faults, halfDeleted, nameVars>>

TransportStep ==
    /\ AutoCommit \/ ConsumerStep \/ Signal \/ Exit \/ Restart
    /\ UNCHANGED deployVars

Next ==
    \/ \E b \in Blocks : Create(b)
    \/ \E h \in Handlers, op \in Ops, b \in Blocks : Begin(h, op, b)
    \/ \E h \in Handlers : HandlerStep(h) \/ HandlerFault(h)
    \/ \E w \in Workers : TakeRequest(w) \/ WorkerStep(w) \/ WorkerFault(w)
    \/ BuilderCrash
    \/ TransportStep

Spec == Init /\ [][Next]_vars

\* The runtimes schedule every handler and goroutine that can run, the calls
\* of a worker return, and a broker that holds an unread message delivers it
\* to a consumer that keeps polling.  No fault, restart or user is fair.
Fairness ==
    /\ \A h \in Handlers : WF_vars(HandlerStep(h))
    /\ \A w \in Workers : WF_vars(TakeRequest(w)) /\ WF_vars(WorkerStep(w))
    /\ WF_vars((ConsumerPoll \/ ConsumerClose \/ ConsumerTimeout \/ ConsumerSend)
               /\ UNCHANGED deployVars)
    /\ SF_vars(ConsumerRead /\ UNCHANGED deployVars)
    /\ WF_vars(Exit /\ UNCHANGED deployVars)

FairSpec == Spec /\ Fairness

-----------------------------------------------------------------------------
(* Properties *)

Steps == {"idle", "building", "build", "export", "untag", "ready", "pending",
          "docker_stop", "docker_remove", "stopped", "end", "load", "create",
          "start", "clean", "running", "failed"}

Tasks == {Idle} \cup
    [op : {"build", "run", "build_and_run", "stop", "cli", "delete"}, block : Blocks,
     step : {"pend", "read", "send", "cleanup", "folder", "row"}]

\* Type invariant of the deployment's state.
TypeOK ==
    /\ QueueTypeOK
    /\ row \in [Blocks -> Statuses \cup {"unborn", "deleted"}]
    /\ task \in [Handlers -> Tasks]
    /\ job \in [Workers -> Steps]
    /\ container \in [Names -> [state : {"none", "created", "running", "exited"},
                                by : Workers \cup {0}]]
    /\ image \in SUBSET Names
    /\ tar \in [Names -> {"none", "good", "bad"}]
    /\ faults \in Nat
    /\ stranded \in SUBSET Blocks
    /\ halfDeleted \in SUBSET Blocks
    /\ creating \in SUBSET Blocks
    /\ shared \in SUBSET Names

\* The requests in the topic that are still to be read, or that are held.
InFlight == Held \cup (position + 1 .. Len(log))

\* A block that shows "pending" or "building" has a request on its way that
\* will settle it, whatever the handlers, the workers, the crashes and the
\* redeliveries interleave, unless a fault stranded it: a handler that wrote
\* "pending" and has not produced yet, or a request of the topic not handled.
Unsettled == {"pending", "building"}
PendingHasWork ==
    \A b \in Blocks : row[b] \in Unsettled /\ b \notin stranded =>
        \/ \E h \in Busy : task[h].block = b /\ task[h].step \in {"read", "send"}
        \/ \E o \in InFlight : log[o].block = b /\ log[o].action # "remove"

\* Nobody works on the name n: no request to the main-server is open and no
\* request of the topic is still to be handled.
Quiet(n) ==
    /\ \A h \in Busy : NameOf[task[h].block] # n
    /\ \A o \in InFlight : NameOf[log[o].block] # n

\* Once nobody works on its name, a block that shows "running" runs, whatever
\* crashed, was repeated or failed before, unless a fault stranded it or its
\* deletion stopped after the removal of the container.  A name may be used
\* again and again: it is as good as new for a block whose row was inserted
\* when no other block of the name had a row, an open request or a message that
\* is handled or may be delivered.  It takes one worker.
RunningRuns ==
    \A b \in Blocks :
        /\ row[b] = "running" /\ b \notin stranded \cup halfDeleted
        /\ Quiet(NameOf[b]) /\ NameOf[b] \notin shared
        => container[NameOf[b]].state = "running"

\* And a block that shows "stopped" does not run, where Docker stops what it is
\* asked to: StopAndRemoveContainer ignores the error (actions.go:202).
StoppedDoesNotRun ==
    \A b \in Blocks :
        /\ row[b] = "stopped" /\ b \notin stranded
        /\ Quiet(NameOf[b]) /\ NameOf[b] \notin shared
        => container[NameOf[b]].state # "running"

\* What a row says of its block is so, or will be settled.
StatusTrue == PendingHasWork /\ RunningRuns /\ StoppedDoesNotRun

\* The rows are what BlockRows promises to their readers, such as the
\* web-client: one row changes at a time, a status is written only to a row
\* that exists, and no late status makes a row out of a deleted one.
Rows == INSTANCE BlockRows
RowsRefined == Rows!Spec

\* The id of a deleted block never names a row again: a late status of a worker
\* or of a handler that read the block before cannot bring the row back
\* (service.rs:194, UPDATE ... IF EXISTS).
DeletedStaysDeleted ==
    [][\A b \in Blocks : row[b] = "deleted" => row'[b] = "deleted"]_vars

\* While the builder-server stays up, a block that shows "pending" or
\* "building" leaves that status, or a fault has stranded it.
PendingSettles ==
    \A b \in Blocks :
        <>[](process = "up") =>
            (row[b] \in Unsettled ~> row[b] \notin Unsettled \/ b \in stranded)
=============================================================================

------------------------ MODULE BlockProvisioningProofs ------------------------
(***************************************************************************)
(* The port of a block is its own, the record a row names exists, and      *)
(* without faults no port is lost: proofs for every set of handlers, ids,  *)
(* forms and ports.                                                        *)
(*                                                                         *)
(* PortsOwned is not inductive. A creation takes a port it read as         *)
(* available, and a deletion frees the port of a row it has just deleted:  *)
(* both are right only because the session is locked meanwhile, and        *)
(* because an id is the id of one creation. Locked and Taken say the       *)
(* first, Fresh the second.                                                *)
(*                                                                         *)
(* RecordsExist and NoPortLost rest on it. The first needs what a creation *)
(* knows of its record before there is a row, and that a deletion which    *)
(* removes a record has removed the row (Known); the second that the       *)
(* session is held only by a handler in it (Held) and that no id has two   *)
(* ports (OnePort).                                                        *)
(***************************************************************************)
EXTENDS BlockProvisioning, TLAPS

\* The steps of a creation before its row is written.
Unwritten == {"cap", "name", "charge", "application", "activate", "dns", "lock", "select",
              "take", "insert"}
Creating(h) == task[h].kind = "create" /\ task[h].step \in Unwritten

\* The session is held by the one handler that is between its statements.
Locked == \A h \in Handlers : task[h].step \in InSession => mutex = h

\* The id of a creation that has not written its row is its own, and no port
\* is taken for it before TakePort.
Fresh ==
    /\ \A i \in Existing : i \in asked
    /\ \A p \in Ports : ports[p] # NoId => ports[p] \in asked
    /\ \A h \in Handlers : Working(h) => task[h].id \in asked
    /\ \A h \in Handlers : Creating(h) =>
         /\ ~ Exists(task[h].id)
         /\ task[h].id \notin undeleted
         /\ task[h].step # "insert" => \A p \in Ports : ports[p] # task[h].id
         /\ \A g \in Handlers : g # h /\ Working(g) => task[g].id # task[h].id
    /\ \A i \in undeleted : i \in asked

\* What the handler in the session knows.
TakenBy(h) ==
    /\ At(h, "create", "take") => task[h].port \in Ports /\ ports[task[h].port] = NoId
    /\ At(h, "create", "insert") => task[h].port \in Ports /\ ports[task[h].port] = task[h].id
    /\ At(h, "delete", "free") => ~ Exists(task[h].id) \/ task[h].id \in undeleted
Taken == \A h \in Handlers : TakenBy(h)

PortInv == TypeOK /\ PortsOwned /\ Locked /\ Fresh /\ Taken

-----------------------------------------------------------------------------
(* Types *)

Tasks == {Idle} \cup Task("create", CreateSteps) \cup Task("delete", DeleteSteps)

LEMMA CreateTask ==
    ASSUME TypeOK, NEW h \in Handlers, task[h].kind = "create"
    PROVE  task[h] \in Task("create", CreateSteps)
BY DEF TypeOK, Task, Idle

LEMMA DeleteTask ==
    ASSUME TypeOK, NEW h \in Handlers, task[h].kind = "delete"
    PROVE  task[h] \in Task("delete", DeleteSteps)
BY DEF TypeOK, Task, Idle

LEMMA WorkingTask ==
    ASSUME TypeOK, NEW h \in Handlers, Working(h)
    PROVE  /\ task[h] \in Task("create", CreateSteps) \/ task[h] \in Task("delete", DeleteSteps)
           /\ task[h].id \in Ids
BY DEF TypeOK, Task, Idle, Working

LEMMA ConfNameInZone == \A f \in Forms : ConfName(f) \in Subdomains
BY DEF Subdomains

LEMMA RowTyped ==
    ASSUME TypeOK, NEW i \in Ids, Exists(i)
    PROVE  rows[i] \in Row
BY DEF TypeOK, Exists

\* A working handler that only changes its local record.
LEMMA Moved ==
    ASSUME TypeOK, NEW h \in Handlers, NEW t \in Tasks, task' = [task EXCEPT ![h] = t]
    PROVE  task' \in [Handlers -> Tasks]
BY DEF TypeOK, Tasks

LEMMA InitType == Init => TypeOK
<1> SUFFICES ASSUME Init PROVE TypeOK
  OBVIOUS
<1>1. task \in [Handlers -> {Idle} \cup Task("create", CreateSteps) \cup Task("delete", DeleteSteps)]
  BY DEF Init
<1>2. FirstCap \in Int
  BY ProvisioningBounds DEF ProvisioningBounds
<1>3. cap \in [Versions -> Int]
  BY <1>2 DEF Init
<1>4. rows \in [Ids -> {NoRow} \cup Row] /\ ports \in [Ports -> Ids \cup {NoId}]
  BY DEF Init
<1>5. dns \in [Subdomains -> Ids \cup {NoId}] /\ prime \in BOOLEAN
  BY DEF Init
<1>6. /\ conf \subseteq Section
      /\ mutex \in Handlers \cup {Free}
      /\ asked \subseteq Ids
      /\ undeleted \subseteq Ids
      /\ faults \in Nat
  BY DEF Init
<1> QED
  BY <1>1, <1>3, <1>4, <1>5, <1>6 DEF TypeOK

LEMMA CreateMoves ==
    ASSUME TypeOK, NEW h \in Handlers, task[h].kind = "create", NEW s \in CreateSteps
    PROVE  /\ [task[h] EXCEPT !.step = s] \in Tasks
           /\ Goto(h, s) => task' \in [Handlers -> Tasks]
<1>1. [task[h] EXCEPT !.step = s] \in Task("create", CreateSteps)
  BY CreateTask DEF Task
<1>2. Goto(h, s) => task' = [task EXCEPT ![h] = [task[h] EXCEPT !.step = s]]
  BY DEF Goto
<1> QED
  BY <1>1, <1>2, Moved DEF Tasks

LEMMA DeleteMoves ==
    ASSUME TypeOK, NEW h \in Handlers, task[h].kind = "delete", NEW s \in DeleteSteps
    PROVE  /\ [task[h] EXCEPT !.step = s] \in Tasks
           /\ Goto(h, s) => task' \in [Handlers -> Tasks]
<1>1. [task[h] EXCEPT !.step = s] \in Task("delete", DeleteSteps)
  BY DeleteTask DEF Task
<1>2. Goto(h, s) => task' = [task EXCEPT ![h] = [task[h] EXCEPT !.step = s]]
  BY DEF Goto
<1> QED
  BY <1>1, <1>2, Moved DEF Tasks

LEMMA ReturnTyped ==
    ASSUME TypeOK, NEW h \in Handlers, Return(h)
    PROVE  task' \in [Handlers -> Tasks]
BY Moved DEF Return, Tasks

\* What the type invariant says of the tables and of the histories.
TablesOK ==
    /\ rows \in [Ids -> {NoRow} \cup Row]
    /\ ports \in [Ports -> Ids \cup {NoId}]
    /\ cap \in [Versions -> Int]
    /\ prime \in BOOLEAN
    /\ dns \in [Subdomains -> Ids \cup {NoId}]
    /\ conf \subseteq Section
    /\ mutex \in Handlers \cup {Free}
    /\ asked \subseteq Ids
    /\ undeleted \subseteq Ids
    /\ faults \in Nat

LEMMA TypeParts == TypeOK <=> task \in [Handlers -> Tasks] /\ TablesOK
BY DEF TypeOK, TablesOK, Tasks

LEMMA TypePartsNext == TypeOK' <=> (task \in [Handlers -> Tasks])' /\ TablesOK'
BY DEF TypeOK, TablesOK, Tasks, Idle, Task, Section, Subdomains, ConfName, PrimeDomain

LEMMA CreateStepType ==
    ASSUME TypeOK, Taken, NEW h \in Handlers, CreateStep(h)
    PROVE  TypeOK'
<1> USE TypeParts, TypePartsNext
<1>1. CASE ReadCap(h)
  <2>1. task[h] \in Task("create", CreateSteps)
    BY <1>1, CreateTask DEF ReadCap, At
  <2>2. cap[task[h].form.version] \in Int
    BY <2>1, FormsAssumption DEF Task, TypeOK
  <2> DEFINE t == [task[h] EXCEPT !.step = "name", !.cap = cap[task[h].form.version]]
  <2>3. t \in Tasks
    BY <2>1, <2>2 DEF Task, Tasks, CreateSteps
  <2>4. Return(h) \/ task' = [task EXCEPT ![h] = t]
    BY <1>1 DEF ReadCap
  <2>5. task' \in [Handlers -> Tasks]
    BY <2>3, <2>4, Moved, ReturnTyped
  <2> QED
    BY <1>1, <2>5 DEF ReadCap, TablesOK, tables, history
<1>2. CASE CheckName(h)
  <2>1. task' \in [Handlers -> Tasks]
    BY <1>2, CreateMoves, ReturnTyped DEF CheckName, At, CreateSteps
  <2> QED
    BY <1>2, <2>1 DEF CheckName, TablesOK, tables, history
<1>3. CASE ChargeCap(h)
  <2>1. task[h] \in Task("create", CreateSteps)
    BY <1>3, CreateTask DEF ChargeCap, At
  <2>4. task[h].cap \in Int
    BY <2>1 DEF Task
  <2>5. task[h].cap - 1 \in Int
    BY <2>4
  <2>2. cap' \in [Versions -> Int]
    BY <1>3, <2>5 DEF ChargeCap, TypeOK
  <2>3. task' \in [Handlers -> Tasks]
    BY <1>3, CreateMoves DEF ChargeCap, At, CreateSteps
  <2> QED
    BY <1>3, <2>2, <2>3 DEF ChargeCap, TablesOK, history
<1>4. CASE ReadApplication(h)
  <2>1. task' \in [Handlers -> Tasks]
    BY <1>4, CreateMoves DEF ReadApplication, At, CreateSteps
  <2> QED
    BY <1>4, <2>1 DEF ReadApplication, TablesOK, tables, history
<1>5. CASE Activate(h)
  <2>1. task[h] \in Task("create", CreateSteps)
    BY <1>5, CreateTask DEF Activate, At
  <2> DEFINE t == [task[h] EXCEPT !.sub = PrimeDomain, !.step = "dns"]
  <2>2. t \in Tasks
    BY <2>1 DEF Task, Tasks, CreateSteps, Subdomains
  <2>3. task' = [task EXCEPT ![h] = t]
    BY <1>5 DEF Activate
  <2>4. task' \in [Handlers -> Tasks]
    BY <2>2, <2>3, Moved
  <2> QED
    BY <1>5, <2>4 DEF Activate, TablesOK, history
<1>6. CASE CreateDnsRecord(h)
  <2>1. task[h] \in Task("create", CreateSteps)
    BY <1>6, CreateTask DEF CreateDnsRecord, At
  <2>2. dns' \in [Subdomains -> Ids \cup {NoId}]
    BY <1>6, <2>1 DEF CreateDnsRecord, Task, TypeOK
  <2> DEFINE t == [task[h] EXCEPT !.rec = ~ (dns[task[h].sub] # NoId), !.step = "lock"]
  <2>3. t \in Tasks
    BY <2>1 DEF Task, Tasks, CreateSteps
  <2>4. task' = [task EXCEPT ![h] = t]
    BY <1>6 DEF CreateDnsRecord
  <2>5. task' \in [Handlers -> Tasks]
    BY <2>3, <2>4, Moved
  <2> QED
    BY <1>6, <2>2, <2>5 DEF CreateDnsRecord, TablesOK, history
<1>7. CASE LockForCreate(h)
  <2>1. task' \in [Handlers -> Tasks]
    BY <1>7, CreateMoves DEF LockForCreate, At, CreateSteps
  <2> QED
    BY <1>7, <2>1 DEF LockForCreate, TablesOK, tables, history
<1>8. CASE SelectPort(h)
  <2>1. task[h] \in Task("create", CreateSteps)
    BY <1>8, CreateTask DEF SelectPort, At
  <2>2. \A p \in Ports : [task[h] EXCEPT !.port = p, !.step = "take"] \in Tasks
    BY <2>1 DEF Task, Tasks, CreateSteps
  <2>3. \/ Return(h)
        \/ \E p \in Ports : task' = [task EXCEPT ![h] = [task[h] EXCEPT !.port = p, !.step = "take"]]
    BY <1>8 DEF SelectPort
  <2>4. task' \in [Handlers -> Tasks]
    BY <2>2, <2>3, Moved, ReturnTyped
  <2>5. mutex' \in Handlers \cup {Free}
    BY <1>8 DEF SelectPort, TypeOK
  <2> QED
    BY <1>8, <2>4, <2>5 DEF SelectPort, TablesOK, tables, history
<1>9. CASE TakePort(h)
  <2>1. task[h] \in Task("create", CreateSteps)
    BY <1>9, CreateTask DEF TakePort, At
  <2>2. ports' \in [Ports -> Ids \cup {NoId}]
    BY <1>9, <2>1 DEF TakePort, Task, TypeOK
  <2>3. task' \in [Handlers -> Tasks]
    BY <1>9, CreateMoves DEF TakePort, At, CreateSteps
  <2> QED
    BY <1>9, <2>2, <2>3 DEF TakePort, TablesOK, history
<1>10. CASE InsertRow(h)
  <2>1. task[h] \in Task("create", CreateSteps)
    BY <1>10, CreateTask DEF InsertRow, At
  <2> DEFINE r == [form |-> task[h].form, port |-> task[h].port, sub |-> task[h].sub,
                   rec |-> task[h].rec]
  <2>2. task[h].port \in Ports
    BY <1>10 DEF Taken, TakenBy, InsertRow
  <2>3. r \in Row
    BY <2>1, <2>2 DEF Task, Row
  <2>4. rows' = [rows EXCEPT ![task[h].id] = r]
    BY <1>10 DEF InsertRow
  <2>5. rows' \in [Ids -> {NoRow} \cup Row]
    BY <2>3, <2>4 DEF TypeOK
  <2>6. task' \in [Handlers -> Tasks]
    BY <1>10, CreateMoves DEF InsertRow, At, CreateSteps
  <2> QED
    BY <1>10, <2>5, <2>6 DEF InsertRow, TablesOK, history
<1>11. CASE GenerateConf(h)
  <2>1. task[h] \in Task("create", CreateSteps)
    BY <1>11, CreateTask DEF GenerateConf, At
  <2>2. [name |-> ConfName(task[h].form), sub |-> task[h].sub, port |-> task[h].port] \in Section
    BY <2>1 DEF Task, Section
  <2>3. conf' \subseteq Section
    BY <1>11, <2>1, <2>2 DEF GenerateConf, Task
  <2>4. task' \in [Handlers -> Tasks]
    BY <1>11, CreateMoves, ReturnTyped DEF GenerateConf, At, CreateSteps
  <2> QED
    BY <1>11, <2>3, <2>4 DEF GenerateConf, TablesOK, history
<1>12. CASE CreateAuthority(h)
  <2>1. task' \in [Handlers -> Tasks]
    BY <1>12, ReturnTyped DEF CreateAuthority
  <2> QED
    BY <1>12, <2>1 DEF CreateAuthority, TablesOK, tables, history
<1> QED
  BY <1>1, <1>2, <1>3, <1>4, <1>5, <1>6, <1>7, <1>8, <1>9, <1>10, <1>11, <1>12 DEF CreateStep

LEMMA DeleteStepType ==
    ASSUME TypeOK, NEW h \in Handlers, DeleteStep(h)
    PROVE  TypeOK'
<1> USE TypeParts, TypePartsNext
<1>1. CASE Deactivate(h)
  <2>1. task' \in [Handlers -> Tasks]
    BY <1>1, DeleteMoves DEF Deactivate, At, DeleteSteps
  <2> QED
    BY <1>1, <2>1 DEF Deactivate, TablesOK, history
<1>2. CASE RemoveConf(h)
  <2>1. task[h] \in Task("delete", DeleteSteps)
    BY <1>2, DeleteTask DEF RemoveConf, At
  <2>2. conf' \subseteq Section
    BY <1>2, <2>1 DEF RemoveConf, Task
  <2>3. task' \in [Handlers -> Tasks]
    BY <1>2, DeleteMoves DEF RemoveConf, At, DeleteSteps
  <2> QED
    BY <1>2, <2>2, <2>3 DEF RemoveConf, TablesOK, history
<1>3. CASE ReadCapToRefund(h)
  <2>1. task[h] \in Task("delete", DeleteSteps)
    BY <1>3, DeleteTask DEF ReadCapToRefund, At
  <2>2. cap[task[h].form.version] \in Int
    BY <2>1, FormsAssumption DEF Task, TypeOK
  <2> DEFINE t == [task[h] EXCEPT !.cap = cap[task[h].form.version], !.step = "refund"]
  <2>3. t \in Tasks
    BY <2>1, <2>2 DEF Task, Tasks, DeleteSteps
  <2>4. task' \in [Handlers -> Tasks]
    BY <1>3, <2>3, Moved DEF ReadCapToRefund
  <2> QED
    BY <1>3, <2>4 DEF ReadCapToRefund, TablesOK, tables, history
<1>4. CASE RefundCap(h)
  <2>1. task[h].cap \in Int
    BY <1>4, DeleteTask DEF RefundCap, At, Task
  <2>2. task[h].cap + 1 \in Int
    BY <2>1
  <2>3. cap' \in [Versions -> Int]
    BY <1>4, <2>2 DEF RefundCap, TypeOK
  <2>4. task' \in [Handlers -> Tasks]
    BY <1>4, DeleteMoves DEF RefundCap, At, DeleteSteps
  <2> QED
    BY <1>4, <2>3, <2>4 DEF RefundCap, TablesOK, history
<1>5. CASE LockForDelete(h)
  <2>1. task' \in [Handlers -> Tasks]
    BY <1>5, DeleteMoves DEF LockForDelete, At, DeleteSteps
  <2> QED
    BY <1>5, <2>1 DEF LockForDelete, TablesOK, tables, history
<1>6. CASE DeleteRow(h)
  <2>1. rows' \in [Ids -> {NoRow} \cup Row]
    BY <1>6 DEF DeleteRow, TypeOK
  <2>2. task' \in [Handlers -> Tasks]
    BY <1>6, DeleteMoves DEF DeleteRow, At, DeleteSteps
  <2> QED
    BY <1>6, <2>1, <2>2 DEF DeleteRow, TablesOK, history
<1>7. CASE FreePort(h)
  <2>1. ports' \in [Ports -> Ids \cup {NoId}]
    BY <1>7 DEF FreePort, TypeOK
  <2>2. task' \in [Handlers -> Tasks]
    BY <1>7, DeleteMoves, ReturnTyped DEF FreePort, At, DeleteSteps
  <2> QED
    BY <1>7, <2>1, <2>2 DEF FreePort, TablesOK, history
<1>8. CASE RemoveDnsRecord(h)
  <2>1. dns' \in [Subdomains -> Ids \cup {NoId}]
    BY <1>8 DEF RemoveDnsRecord, TypeOK
  <2>2. task' \in [Handlers -> Tasks]
    BY <1>8, ReturnTyped DEF RemoveDnsRecord
  <2> QED
    BY <1>8, <2>1, <2>2 DEF RemoveDnsRecord, TablesOK, history
<1> QED
  BY <1>1, <1>2, <1>3, <1>4, <1>5, <1>6, <1>7, <1>8 DEF DeleteStep

LEMMA FaultStepType ==
    ASSUME TypeOK, NEW h \in Handlers, FaultStep(h)
    PROVE  TypeOK'
<1> USE TypeParts, TypePartsNext
<1>0. ASSUME NEW kind, Fault(kind) PROVE faults' \in Nat
  BY <1>0 DEF Fault, TypeOK
<1>1. CASE CheckNameFails(h)
  <2>1. task' \in [Handlers -> Tasks]
    BY <1>1, CreateMoves DEF CheckNameFails, At, CreateSteps
  <2> QED
    BY <1>0, <1>1, <2>1 DEF CheckNameFails, TablesOK, tables, history
<1>2. CASE ActivateFails(h)
  <2>1. task[h] \in Task("create", CreateSteps)
    BY <1>2, CreateTask DEF ActivateFails, At
  <2> DEFINE t == [task[h] EXCEPT !.sub = PrimeDomain, !.step = "dns"]
  <2>2. t \in Tasks
    BY <2>1 DEF Task, Tasks, CreateSteps, Subdomains
  <2>3. task' \in [Handlers -> Tasks]
    BY <1>2, <2>2, Moved DEF ActivateFails
  <2> QED
    BY <1>0, <1>2, <2>3 DEF ActivateFails, TablesOK, tables, history
<1>3. CASE CreateDnsRecordFails(h)
  <2>1. task[h] \in Task("create", CreateSteps)
    BY <1>3, CreateTask DEF CreateDnsRecordFails, At
  <2>2. dns' \in [Subdomains -> Ids \cup {NoId}]
    BY <1>3, <2>1 DEF CreateDnsRecordFails, Task, TypeOK
  <2>3. task' \in [Handlers -> Tasks]
    BY <1>3, CreateMoves DEF CreateDnsRecordFails, At, CreateSteps
  <2> QED
    BY <1>0, <1>3, <2>2, <2>3 DEF CreateDnsRecordFails, TablesOK, history
<1>4. CASE CreateBlockFails(h)
  <2>1. task[h] \in Task("create", CreateSteps)
    BY <1>4, CreateTask DEF CreateBlockFails
  <2> DEFINE t == [task[h] EXCEPT !.port = -1, !.step = "read_conf"]
  <2>2. t \in Tasks
    BY <2>1 DEF Task, Tasks, CreateSteps
  <2>3. task' \in [Handlers -> Tasks]
    BY <1>4, <2>2, Moved DEF CreateBlockFails
  <2> QED
    BY <1>0, <1>4, <2>3 DEF CreateBlockFails, TablesOK, tables, history
<1>5. CASE DeactivateFails(h)
  <2>1. task' \in [Handlers -> Tasks]
    BY <1>5, DeleteMoves DEF DeactivateFails, At, DeleteSteps
  <2> QED
    BY <1>0, <1>5, <2>1 DEF DeactivateFails, TablesOK, tables, history
<1>6. CASE DeleteRowFails(h)
  <2>1. task[h] \in Task("delete", DeleteSteps)
    BY <1>6, DeleteTask DEF DeleteRowFails, At
  <2> DEFINE t == [task[h] EXCEPT !.step = "free", !.rec = FALSE]
  <2>2. t \in Tasks /\ task[h].id \in Ids
    BY <2>1 DEF Task, Tasks, DeleteSteps
  <2>3. task' \in [Handlers -> Tasks]
    BY <1>6, <2>2, Moved DEF DeleteRowFails
  <2> QED
    BY <1>0, <1>6, <2>2, <2>3 DEF DeleteRowFails, TablesOK, tables
<1>7. CASE FreePortFails(h)
  <2>1. task' \in [Handlers -> Tasks]
    BY <1>7, DeleteMoves DEF FreePortFails, At, DeleteSteps
  <2> QED
    BY <1>0, <1>7, <2>1 DEF FreePortFails, TablesOK, tables, history
<1>8. CASE CreateFails(h) \/ DeleteFails(h) \/ RemoveDnsRecordFails(h) \/ Abandon(h)
  <2>1. task' \in [Handlers -> Tasks]
    BY <1>8, ReturnTyped DEF CreateFails, DeleteFails, RemoveDnsRecordFails, Abandon
  <2>2. mutex' \in Handlers \cup {Free} /\ faults' \in Nat /\ UNCHANGED <<tables, history>>
    BY <1>0, <1>8 DEF CreateFails, DeleteFails, RemoveDnsRecordFails, Abandon, TypeOK
  <2> QED
    BY <2>1, <2>2 DEF TablesOK, tables, history
<1>9. CASE ChargeCapRefused(h)
  <2>1. task' \in [Handlers -> Tasks]
    BY <1>9, CreateMoves DEF ChargeCapRefused, At, CreateSteps
  <2> QED
    BY <1>0, <1>9, <2>1 DEF ChargeCapRefused, TablesOK, tables, history
<1>10. CASE RefundCapRefused(h)
  <2>1. task' \in [Handlers -> Tasks]
    BY <1>10, DeleteMoves DEF RefundCapRefused, At, DeleteSteps
  <2> QED
    BY <1>0, <1>10, <2>1 DEF RefundCapRefused, TablesOK, tables, history
<1> QED
  BY <1>1, <1>2, <1>3, <1>4, <1>5, <1>6, <1>7, <1>8, <1>9, <1>10 DEF FaultStep

LEMMA StepType ==
    ASSUME TypeOK, Taken, [Next]_vars
    PROVE  TypeOK'
<1> USE TypeParts, TypePartsNext
<1>1. ASSUME NEW h \in Handlers, NEW i \in Ids, NEW f \in Forms, BeginCreate(h, i, f)
      PROVE  TypeOK'
  <2> DEFINE t == [kind |-> "create", step |-> "cap", id |-> i, form |-> f, cap |-> 0,
                   sub |-> ConfName(f), rec |-> FALSE, port |-> -1, file |-> {}]
  <2>1. t \in Tasks
    BY ConfNameInZone DEF Tasks, Task, CreateSteps
  <2>2. task' \in [Handlers -> Tasks]
    BY <1>1, <2>1, Moved DEF BeginCreate
  <2>3. asked' \subseteq Ids
    BY <1>1 DEF BeginCreate, TypeOK
  <2> QED
    BY <1>1, <2>2, <2>3 DEF BeginCreate, TablesOK, tables
<1>2. ASSUME NEW h \in Handlers, NEW i \in Ids, BeginDelete(h, i)
      PROVE  TypeOK'
  <2>1. rows[i] \in Row
    BY <1>2, RowTyped DEF BeginDelete
  <2> DEFINE t == [kind |-> "delete", id |-> i, form |-> rows[i].form, cap |-> 0,
                   rec |-> rows[i].rec, sub |-> rows[i].sub, file |-> {}, port |-> -1,
                   step |-> IF rows[i].sub = PrimeDomain THEN "deactivate" ELSE "read_conf"]
  <2>2. t \in Tasks
    BY <2>1 DEF Tasks, Task, DeleteSteps, Row
  <2>3. task' \in [Handlers -> Tasks]
    BY <1>2, <2>2, Moved DEF BeginDelete
  <2> QED
    BY <1>2, <2>3 DEF BeginDelete, TablesOK, tables, history
<1>3. ASSUME NEW h \in Handlers, ReadConf(h) PROVE TypeOK'
  <2> DEFINE t == [task[h] EXCEPT !.file = conf, !.step = "write_conf"]
  <2>1. t \in Tasks
    BY <1>3, WorkingTask DEF ReadConf, Tasks, Task, CreateSteps, DeleteSteps, TypeOK
  <2>2. task' \in [Handlers -> Tasks]
    BY <1>3, <2>1, Moved DEF ReadConf
  <2> QED
    BY <1>3, <2>2 DEF ReadConf, TablesOK, tables, history
<1>4. CASE UNCHANGED vars
  BY <1>4 DEF vars, tables, history, TablesOK
<1> QED
  BY <1>1, <1>2, <1>3, <1>4, CreateStepType, DeleteStepType, FaultStepType DEF Next

-----------------------------------------------------------------------------
(* The invariant *)

\* A step of handler h that writes neither the tables of blocks and ports nor
\* the histories, leaves h out of the session and starts no creation.
Quiet(h) ==
    /\ UNCHANGED <<rows, ports, history>>
    /\ mutex' = mutex \/ (mutex' = Free /\ mutex = h)
    /\ \E t \in Tasks :
         /\ task' = [task EXCEPT ![h] = t]
         /\ t.step \notin InSession
         /\ \/ t = Idle
            \/ /\ Working(h)
               /\ t.id = task[h].id
               /\ t.kind = "create" /\ t.step \in Unwritten =>
                    Creating(h) /\ task[h].step # "insert"

LEMMA QuietKeeps ==
    ASSUME PortInv, NEW h \in Handlers, Quiet(h)
    PROVE  (PortsOwned /\ Locked /\ Fresh /\ Taken)'
<1> PICK t \in Tasks :
      /\ task' = [task EXCEPT ![h] = t]
      /\ t.step \notin InSession
      /\ \/ t = Idle
         \/ /\ Working(h)
            /\ t.id = task[h].id
            /\ t.kind = "create" /\ t.step \in Unwritten =>
                    Creating(h) /\ task[h].step # "insert"
  BY DEF Quiet
<1>1. task'[h] = t /\ \A g \in Handlers : g # h => task'[g] = task[g]
  BY DEF PortInv, TypeOK
<1>2. UNCHANGED <<rows, ports, asked, undeleted>>
  BY DEF Quiet, history
<1>3. PortsOwned'
  BY <1>2 DEF PortInv, PortsOwned, Existing, Exists
<1>4. Locked'
  <2> SUFFICES ASSUME NEW g \in Handlers, task'[g].step \in InSession PROVE mutex' = g
    BY DEF Locked
  <2>1. g # h /\ mutex = g
    BY <1>1 DEF PortInv, Locked
  <2> QED
    BY <2>1 DEF Quiet
<1>5. Taken'
  BY <1>1, <1>2 DEF PortInv, Taken, TakenBy, At, Exists, InSession
<1>6. Fresh'
  <2>1. \A g \in Handlers : Working(g)' => Working(g) /\ task'[g].id = task[g].id
    BY <1>1 DEF Working, Idle
  <2>2. \A g \in Handlers : Creating(g)' => Creating(g)
    BY <1>1 DEF Creating, Idle
  <2>3. \A g \in Handlers : Creating(g)' => Working(g)'
    BY DEF Creating, Working, Unwritten
  <2>4. \A g \in Handlers : Creating(g)' /\ task[g].step = "insert" => task'[g].step = "insert"
    BY <1>1 DEF Creating, Idle
  <2> QED
    BY <1>2, <2>1, <2>2, <2>3, <2>4 DEF PortInv, Fresh, Existing, Exists
<1> QED
  BY <1>3, <1>4, <1>5, <1>6

\* The part of it that is not about the handler.
Silent(h) ==
    /\ UNCHANGED <<rows, ports, asked, undeleted>>
    /\ mutex' = mutex \/ (mutex' = Free /\ mutex = h)

LEMMA ReturnQuiet ==
    ASSUME NEW h \in Handlers, Return(h), Silent(h)
    PROVE  Quiet(h)
BY DEF Quiet, Return, Tasks, Idle, InSession, Silent, history

LEMMA GotoQuiet ==
    ASSUME PortInv, NEW h \in Handlers, Working(h), NEW t \in Tasks,
           task' = [task EXCEPT ![h] = t], t.id = task[h].id, t.kind = task[h].kind,
           t.step \notin InSession,
           t.kind = "create" /\ t.step \in Unwritten =>
               task[h].step \in Unwritten /\ task[h].step # "insert",
           Silent(h)
    PROVE  Quiet(h)
BY DEF Quiet, Creating, Silent, history

\* Moving to another step of the same request.
LEMMA CreateStepQuiet ==
    ASSUME PortInv, NEW h \in Handlers, task[h].kind = "create",
           NEW s \in CreateSteps \ InSession, Goto(h, s),
           s \notin Unwritten \/ task[h].step \in Unwritten \ {"insert"},
           Silent(h)
    PROVE  Quiet(h)
<1> DEFINE t == [task[h] EXCEPT !.step = s]
<1>1. t \in Tasks
  BY CreateMoves DEF PortInv
<1>2. task[h] \in Task("create", CreateSteps)
  BY CreateTask DEF PortInv
<1>3. t.id = task[h].id /\ t.kind = task[h].kind /\ t.step = s
  BY <1>2 DEF Task
<1>4. Working(h)
  BY <1>2 DEF Task, Working, CreateSteps
<1>5. task' = [task EXCEPT ![h] = t]
  BY DEF Goto
<1> HIDE DEF t
<1> QED
  BY <1>1, <1>3, <1>4, <1>5, GotoQuiet

LEMMA DeleteStepQuiet ==
    ASSUME PortInv, NEW h \in Handlers, task[h].kind = "delete",
           NEW s \in DeleteSteps \ InSession, Goto(h, s), Silent(h)
    PROVE  Quiet(h)
<1> DEFINE t == [task[h] EXCEPT !.step = s]
<1>1. t \in Tasks
  BY DeleteMoves DEF PortInv
<1>2. task[h] \in Task("delete", DeleteSteps)
  BY DeleteTask DEF PortInv
<1>3. t.id = task[h].id /\ t.kind = task[h].kind /\ t.step = s
  BY <1>2 DEF Task
<1>4. Working(h)
  BY <1>2 DEF Task, Working, DeleteSteps
<1>5. task' = [task EXCEPT ![h] = t]
  BY DEF Goto
<1> HIDE DEF t
<1> QED
  BY <1>1, <1>3, <1>4, <1>5, GotoQuiet

\* The steps of a creation that are quiet.
LEMMA CreateQuiet ==
    ASSUME PortInv, NEW h \in Handlers,
           \/ ReadCap(h) \/ CheckName(h) \/ ChargeCap(h) \/ ReadApplication(h) \/ Activate(h)
           \/ CreateDnsRecord(h) \/ GenerateConf(h) \/ CreateAuthority(h)
    PROVE  Quiet(h)
<1>1. task[h].kind = "create"
  BY DEF ReadCap, CheckName, ChargeCap, ReadApplication, Activate, CreateDnsRecord,
         GenerateConf, CreateAuthority, At
<1>2. task[h] \in Task("create", CreateSteps)
  BY <1>1, CreateTask DEF PortInv
<1>3. Working(h)
  BY <1>2 DEF Task, Working, CreateSteps
<1>4. Silent(h)
  BY DEF ReadCap, CheckName, ChargeCap, ReadApplication, Activate, CreateDnsRecord,
         GenerateConf, CreateAuthority, Silent, tables, history
<1>5. CASE ReadCap(h)
  <2> DEFINE t == [task[h] EXCEPT !.step = "name", !.cap = cap[task[h].form.version]]
  <2>1. cap[task[h].form.version] \in Int
    BY <1>2, FormsAssumption DEF Task, TypeOK, PortInv
  <2>2. t \in Tasks /\ t.id = task[h].id /\ t.kind = task[h].kind /\ t.step = "name"
    BY <1>2, <2>1 DEF Task, Tasks, CreateSteps
  <2>3. Return(h) \/ task' = [task EXCEPT ![h] = t]
    BY <1>5 DEF ReadCap
  <2>4. task[h].step \in Unwritten \ {"insert"} /\ "name" \notin InSession
    BY <1>5 DEF ReadCap, At, Unwritten, InSession
  <2> HIDE DEF t
  <2> QED
    BY <1>3, <1>4, <2>2, <2>3, <2>4, GotoQuiet, ReturnQuiet
<1>6. CASE CheckName(h)
  <2>1. task[h].step \in Unwritten \ {"insert"} /\ "charge" \in CreateSteps \ InSession
    BY <1>6 DEF CheckName, At, Unwritten, CreateSteps, InSession
  <2>2. Return(h) \/ Goto(h, "charge")
    BY <1>6 DEF CheckName
  <2> QED
    BY <1>1, <1>4, <2>1, <2>2, ReturnQuiet, CreateStepQuiet
<1>7. CASE ChargeCap(h)
  <2>1. task[h].step \in Unwritten \ {"insert"} /\ "application" \in CreateSteps \ InSession
    BY <1>7 DEF ChargeCap, At, Unwritten, CreateSteps, InSession
  <2>2. Goto(h, "application")
    BY <1>7 DEF ChargeCap
  <2> QED
    BY <1>1, <1>4, <2>1, <2>2, CreateStepQuiet
<1>8. CASE ReadApplication(h)
  <2>1. task[h].step \in Unwritten \ {"insert"} /\ {"activate", "dns"} \subseteq CreateSteps \ InSession
    BY <1>8 DEF ReadApplication, At, Unwritten, CreateSteps, InSession
  <2>2. Goto(h, "activate") \/ Goto(h, "dns")
    BY <1>8 DEF ReadApplication
  <2> QED
    BY <1>1, <1>4, <2>1, <2>2, CreateStepQuiet
<1>9. CASE Activate(h)
  <2> DEFINE t == [task[h] EXCEPT !.sub = PrimeDomain, !.step = "dns"]
  <2>1. t \in Tasks /\ t.id = task[h].id /\ t.kind = task[h].kind /\ t.step = "dns"
    BY <1>2 DEF Task, Tasks, Subdomains, CreateSteps
  <2>2. task' = [task EXCEPT ![h] = t]
    BY <1>9 DEF Activate
  <2>3. task[h].step \in Unwritten \ {"insert"} /\ "dns" \notin InSession
    BY <1>9 DEF Activate, At, Unwritten, InSession
  <2> HIDE DEF t
  <2> QED
    BY <1>3, <1>4, <2>1, <2>2, <2>3, GotoQuiet
<1>10. CASE CreateDnsRecord(h)
  <2> DEFINE t == [task[h] EXCEPT !.rec = ~ (dns[task[h].sub] # NoId), !.step = "lock"]
  <2>1. t \in Tasks /\ t.id = task[h].id /\ t.kind = task[h].kind /\ t.step = "lock"
    BY <1>2 DEF Task, Tasks, CreateSteps
  <2>2. task' = [task EXCEPT ![h] = t]
    BY <1>10 DEF CreateDnsRecord
  <2>3. task[h].step \in Unwritten \ {"insert"} /\ "lock" \notin InSession
    BY <1>10 DEF CreateDnsRecord, At, Unwritten, InSession
  <2> HIDE DEF t
  <2> QED
    BY <1>3, <1>4, <2>1, <2>2, <2>3, GotoQuiet
<1>11. CASE GenerateConf(h)
  <2>1. "authority" \in CreateSteps \ InSession /\ "authority" \notin Unwritten
    BY DEF CreateSteps, InSession, Unwritten
  <2>2. Return(h) \/ Goto(h, "authority")
    BY <1>11 DEF GenerateConf
  <2> QED
    BY <1>1, <1>4, <2>1, <2>2, ReturnQuiet, CreateStepQuiet
<1>12. CASE CreateAuthority(h)
  BY <1>4, <1>12, ReturnQuiet DEF CreateAuthority
<1> QED
  BY <1>5, <1>6, <1>7, <1>8, <1>9, <1>10, <1>11, <1>12

\* The steps of a deletion that are quiet.
LEMMA DeleteQuiet ==
    ASSUME PortInv, NEW h \in Handlers,
           \/ Deactivate(h) \/ RemoveConf(h) \/ ReadCapToRefund(h) \/ RefundCap(h)
           \/ RemoveDnsRecord(h)
    PROVE  Quiet(h)
<1>1. task[h].kind = "delete"
  BY DEF Deactivate, RemoveConf, ReadCapToRefund, RefundCap, RemoveDnsRecord, At
<1>2. task[h] \in Task("delete", DeleteSteps)
  BY <1>1, DeleteTask DEF PortInv
<1>3. Silent(h)
  BY DEF Deactivate, RemoveConf, ReadCapToRefund, RefundCap, RemoveDnsRecord, Silent,
         tables, history
<1>4. {"read_conf", "cap", "lock"} \subseteq DeleteSteps \ InSession
  BY DEF DeleteSteps, InSession
<1>5. CASE Goto(h, "read_conf") \/ Goto(h, "cap") \/ Goto(h, "lock")
  BY <1>1, <1>3, <1>4, <1>5, DeleteStepQuiet
<1>6. CASE ReadCapToRefund(h)
  <2> DEFINE t == [task[h] EXCEPT !.cap = cap[task[h].form.version], !.step = "refund"]
  <2>1. cap[task[h].form.version] \in Int
    BY <1>2, FormsAssumption DEF Task, TypeOK, PortInv
  <2>2. t \in Tasks /\ t.id = task[h].id /\ t.kind = "delete" /\ t.step = "refund"
    BY <1>2, <2>1 DEF Task, Tasks, DeleteSteps
  <2>3. Working(h) /\ "refund" \notin InSession
    BY <1>2 DEF Task, Working, DeleteSteps, InSession
  <2>4. task' = [task EXCEPT ![h] = t]
    BY <1>6 DEF ReadCapToRefund
  <2> HIDE DEF t
  <2> QED
    BY <1>1, <1>3, <2>2, <2>3, <2>4, GotoQuiet
<1>7. CASE RemoveDnsRecord(h)
  BY <1>3, <1>7, ReturnQuiet DEF RemoveDnsRecord
<1> QED
  BY <1>5, <1>6, <1>7 DEF Deactivate, RemoveConf, RefundCap

LEMMA ReadConfQuiet ==
    ASSUME PortInv, NEW h \in Handlers, ReadConf(h)
    PROVE  Quiet(h)
<1> DEFINE t == [task[h] EXCEPT !.file = conf, !.step = "write_conf"]
<1>1. task[h] \in Task("create", CreateSteps) \/ task[h] \in Task("delete", DeleteSteps)
  BY WorkingTask DEF ReadConf, PortInv
<1>2. t \in Tasks /\ t.id = task[h].id /\ t.kind = task[h].kind /\ t.step = "write_conf"
  BY <1>1 DEF Task, Tasks, CreateSteps, DeleteSteps, TypeOK, PortInv
<1>3. "write_conf" \notin Unwritten /\ "write_conf" \notin InSession
  BY DEF Unwritten, InSession
<1>4. Silent(h) /\ Working(h) /\ task' = [task EXCEPT ![h] = t]
  BY DEF ReadConf, Silent, tables, history
<1> HIDE DEF t
<1> QED
  BY <1>2, <1>3, <1>4, GotoQuiet

\* The faults, of which only DeleteRowFails is not quiet.
LEMMA FaultQuiet ==
    ASSUME PortInv, NEW h \in Handlers, FaultStep(h), ~ DeleteRowFails(h)
    PROVE  Quiet(h)
<1>1. CASE CheckNameFails(h)
  <2>1. task[h].kind = "create" /\ task[h].step \in Unwritten \ {"insert"} /\ Goto(h, "charge")
    BY <1>1 DEF CheckNameFails, At, Unwritten
  <2>2. "charge" \in CreateSteps \ InSession /\ Silent(h)
    BY <1>1 DEF CheckNameFails, CreateSteps, InSession, Silent, tables, history
  <2> QED
    BY <2>1, <2>2, CreateStepQuiet
<1>2. CASE ActivateFails(h)
  <2>1. task[h] \in Task("create", CreateSteps)
    BY <1>2, CreateTask DEF ActivateFails, At, PortInv
  <2> DEFINE t == [task[h] EXCEPT !.sub = PrimeDomain, !.step = "dns"]
  <2>2. t \in Tasks /\ t.id = task[h].id /\ t.kind = task[h].kind /\ t.step = "dns"
    BY <2>1 DEF Task, Tasks, Subdomains, CreateSteps
  <2>3. task[h].step \in Unwritten \ {"insert"} /\ "dns" \notin InSession /\ Working(h)
    BY <1>2 DEF ActivateFails, At, Unwritten, InSession, Working
  <2>4. task' = [task EXCEPT ![h] = t] /\ Silent(h)
    BY <1>2 DEF ActivateFails, Silent, tables, history
  <2> HIDE DEF t
  <2> QED
    BY <2>2, <2>3, <2>4, GotoQuiet
<1>3. CASE CreateDnsRecordFails(h)
  <2>1. task[h].kind = "create" /\ task[h].step \in Unwritten \ {"insert"} /\ Goto(h, "lock")
    BY <1>3 DEF CreateDnsRecordFails, At, Unwritten
  <2>2. "lock" \in CreateSteps \ InSession /\ Silent(h)
    BY <1>3 DEF CreateDnsRecordFails, CreateSteps, InSession, Silent, history
  <2> QED
    BY <2>1, <2>2, CreateStepQuiet
<1>4. CASE CreateBlockFails(h)
  <2>1. task[h] \in Task("create", CreateSteps)
    BY <1>4, CreateTask DEF CreateBlockFails, PortInv
  <2> DEFINE t == [task[h] EXCEPT !.port = -1, !.step = "read_conf"]
  <2>2. t \in Tasks /\ t.id = task[h].id /\ t.kind = task[h].kind /\ t.step = "read_conf"
    BY <2>1 DEF Task, Tasks, CreateSteps
  <2>3. mutex = h /\ Working(h)
    BY <1>4 DEF CreateBlockFails, PortInv, Locked, InSession, Working
  <2>4. task' = [task EXCEPT ![h] = t] /\ Silent(h)
    BY <1>4, <2>3 DEF CreateBlockFails, Silent, tables, history
  <2>5. "read_conf" \notin Unwritten /\ "read_conf" \notin InSession
    BY DEF Unwritten, InSession
  <2> HIDE DEF t
  <2> QED
    BY <2>2, <2>3, <2>4, <2>5, GotoQuiet
<1>5. CASE DeactivateFails(h)
  <2>1. task[h].kind = "delete" /\ Goto(h, "read_conf")
    BY <1>5 DEF DeactivateFails, At
  <2>2. "read_conf" \in DeleteSteps \ InSession /\ Silent(h)
    BY <1>5 DEF DeactivateFails, DeleteSteps, InSession, Silent, tables, history
  <2> QED
    BY <2>1, <2>2, DeleteStepQuiet
<1>6. CASE FreePortFails(h)
  <2>1. task[h].kind = "delete" /\ Goto(h, "dns") /\ mutex = h
    BY <1>6 DEF FreePortFails, At, PortInv, Locked, InSession
  <2>2. "dns" \in DeleteSteps \ InSession /\ Silent(h)
    BY <1>6, <2>1 DEF FreePortFails, DeleteSteps, InSession, Silent, tables, history
  <2> QED
    BY <2>1, <2>2, DeleteStepQuiet
<1>7. CASE CreateFails(h) \/ DeleteFails(h) \/ RemoveDnsRecordFails(h) \/ Abandon(h)
  <2>1. Return(h) /\ Silent(h)
    BY <1>7 DEF CreateFails, DeleteFails, RemoveDnsRecordFails, Abandon, Silent, tables, history
  <2> QED
    BY <2>1, ReturnQuiet
<1>8. CASE ChargeCapRefused(h)
  <2>1. task[h].kind = "create" /\ task[h].step \in Unwritten \ {"insert"} /\ Goto(h, "application")
    BY <1>8 DEF ChargeCapRefused, At, Unwritten
  <2>2. "application" \in CreateSteps \ InSession /\ Silent(h)
    BY <1>8 DEF ChargeCapRefused, CreateSteps, InSession, Silent, tables, history
  <2> QED
    BY <2>1, <2>2, CreateStepQuiet
<1>9. CASE RefundCapRefused(h)
  <2>1. task[h].kind = "delete" /\ Goto(h, "lock")
    BY <1>9 DEF RefundCapRefused, At
  <2>2. "lock" \in DeleteSteps \ InSession /\ Silent(h)
    BY <1>9 DEF RefundCapRefused, DeleteSteps, InSession, Silent, tables, history
  <2> QED
    BY <2>1, <2>2, DeleteStepQuiet
<1> QED
  BY <1>1, <1>2, <1>3, <1>4, <1>5, <1>6, <1>7, <1>8, <1>9 DEF FaultStep

\* A handler that locks the session goes to the first statement.
LEMMA LockKeeps ==
    ASSUME PortInv, NEW h \in Handlers, LockForCreate(h) \/ LockForDelete(h)
    PROVE  (PortsOwned /\ Locked /\ Fresh /\ Taken)'
<1> DEFINE s == task'[h].step
<1>1. /\ task'[h].kind = task[h].kind /\ task'[h].id = task[h].id
      /\ task[h].kind = "create" => task[h].step = "lock" /\ s = "select"
      /\ task[h].kind # "create" => s = "delete_row"
      /\ Working(h) /\ task[h].kind \in {"create", "delete"}
  <2>1. task[h] \in Task("create", CreateSteps) \/ task[h] \in Task("delete", DeleteSteps)
    BY CreateTask, DeleteTask DEF LockForCreate, LockForDelete, At, PortInv
  <2>2. task' = [task EXCEPT ![h] = [task[h] EXCEPT !.step = IF LockForCreate(h) THEN "select" ELSE "delete_row"]]
    BY DEF LockForCreate, LockForDelete, Goto
  <2> QED
    BY <2>1, <2>2 DEF LockForCreate, LockForDelete, At, Task, Working, PortInv, TypeOK
<1>2. \A g \in Handlers : g # h => task'[g] = task[g]
  BY DEF LockForCreate, LockForDelete, Goto, PortInv, TypeOK
<1>3. UNCHANGED <<rows, ports, asked, undeleted>> /\ mutex = Free /\ mutex' = h
  BY DEF LockForCreate, LockForDelete, tables, history
<1> HIDE DEF s
<1>4. PortsOwned'
  BY <1>3 DEF PortInv, PortsOwned, Existing, Exists
<1>5. Locked'
  BY <1>2, <1>3, FreeAssumption DEF PortInv, Locked
<1>6. Taken'
  BY <1>1, <1>2, <1>3 DEF PortInv, Taken, TakenBy, At, Exists, s
<1>7. Fresh'
  <2>1. \A g \in Handlers : (Working(g)' => Working(g)) /\ task'[g].id = task[g].id
    BY <1>1, <1>2 DEF Working, s
  <2>2. \A g \in Handlers : Creating(g)' => Creating(g) /\ (task[g].step = "insert" => task'[g].step = "insert")
    BY <1>1, <1>2 DEF Creating, Unwritten, s
  <2> QED
    BY <1>3, <2>1, <2>2 DEF PortInv, Fresh, Existing, Exists
<1> QED
  BY <1>4, <1>5, <1>6, <1>7

\* A port read as available is available until TakePort: nobody else is in
\* the session.
LEMMA SelectPortKeeps ==
    ASSUME PortInv, NEW h \in Handlers, SelectPort(h)
    PROVE  (PortsOwned /\ Locked /\ Fresh /\ Taken)'
<1>0. At(h, "create", "select") /\ mutex = h /\ task[h] \in Task("create", CreateSteps)
  BY CreateTask DEF SelectPort, At, PortInv, Locked, InSession
<1>1. CASE Return(h) /\ mutex' = Free
  <2>1. Silent(h)
    BY <1>0, <1>1 DEF SelectPort, Silent, tables, history
  <2> QED
    BY <1>1, <2>1, ReturnQuiet, QuietKeeps
<1>2. ASSUME NEW p \in Ports, ports[p] = NoId,
             task' = [task EXCEPT ![h].port = p, ![h].step = "take"], mutex' = mutex
      PROVE  (PortsOwned /\ Locked /\ Fresh /\ Taken)'
  <2>1. /\ task'[h].kind = "create" /\ task'[h].id = task[h].id
        /\ task'[h].step = "take" /\ task'[h].port = p
    BY <1>0, <1>2 DEF At, Task, PortInv, TypeOK
  <2>2. \A g \in Handlers : g # h => task'[g] = task[g]
    BY <1>2 DEF PortInv, TypeOK
  <2>3. UNCHANGED <<rows, ports, asked, undeleted, mutex>>
    BY <1>2 DEF SelectPort, tables, history
  <2>4. PortsOwned'
    BY <2>3 DEF PortInv, PortsOwned, Existing, Exists
  <2>5. Locked'
    BY <1>0, <2>1, <2>2, <2>3 DEF PortInv, Locked
  <2>6. Taken'
    <3> SUFFICES ASSUME NEW g \in Handlers PROVE TakenBy(g)'
      BY DEF Taken
    <3>1. CASE g = h
      BY <1>2, <2>1, <2>3, <3>1 DEF TakenBy, At
    <3>2. CASE g # h
      BY <2>2, <2>3, <3>2 DEF PortInv, Taken, TakenBy, At, Exists
    <3> QED
      BY <3>1, <3>2
  <2>7. \A g \in Handlers : Working(g)' => Working(g)
    BY <1>0, <2>1, <2>2 DEF Working, At
  <2>8. \A g \in Handlers : Creating(g)' => Creating(g) /\ (task[g].step = "insert" => task'[g].step = "insert")
    BY <1>0, <2>1, <2>2 DEF Creating, Unwritten, At
  <2>9. Fresh'
    BY <2>1, <2>2, <2>3, <2>7, <2>8 DEF PortInv, Fresh, Existing, Exists
  <2> QED
    BY <2>4, <2>5, <2>6, <2>9
<1> QED
  BY <1>1, <1>2 DEF SelectPort

LEMMA TakePortKeeps ==
    ASSUME PortInv, NEW h \in Handlers, TakePort(h)
    PROVE  (PortsOwned /\ Locked /\ Fresh /\ Taken)'
<1> DEFINE p == task[h].port
           i == task[h].id
<1>0. /\ task[h].kind = "create" /\ task[h].step = "take"
      /\ task[h] \in Task("create", CreateSteps) /\ i \in Ids /\ mutex = h
  BY CreateTask DEF TakePort, At, PortInv, Locked, InSession, Task
<1>1. /\ p \in Ports /\ ports[p] = NoId
      /\ ports' = [ports EXCEPT ![p] = i]
  BY DEF TakePort, PortInv, Taken, TakenBy
<1>2. task'[h].kind = "create" /\ task'[h].id = i /\ task'[h].step = "insert" /\ task'[h].port = p
  BY <1>0 DEF TakePort, Goto, Task, PortInv, TypeOK
<1>3. \A g \in Handlers : g # h => task'[g] = task[g]
  BY DEF TakePort, Goto, PortInv, TypeOK
<1>4. UNCHANGED <<rows, asked, undeleted, mutex>>
  BY DEF TakePort, history
<1>5. ports'[p] = i /\ \A q \in Ports : q # p => ports'[q] = ports[q]
  BY <1>1 DEF PortInv, TypeOK
<1>6. Creating(h) /\ Working(h)
  BY <1>0 DEF Creating, Unwritten, Working
<1> HIDE DEF p, i
<1>7. PortsOwned'
  <2> SUFFICES ASSUME NEW j \in Existing, j \notin undeleted
               PROVE  ports'[rows[j].port] = j
    BY <1>4 DEF PortsOwned, Existing, Exists
  <2>1. rows[j].port \in Ports /\ ports[rows[j].port] = j /\ j # NoId
    BY RowTyped, NoIdAssumption DEF PortInv, PortsOwned, Existing, Row
  <2> QED
    BY <1>1, <1>5, <2>1
<1>8. Locked'
  BY <1>0, <1>2, <1>3, <1>4 DEF PortInv, Locked
<1>9. Taken'
  <2> SUFFICES ASSUME NEW g \in Handlers PROVE TakenBy(g)'
    BY DEF Taken
  <2>1. CASE g = h
    BY <1>1, <1>2, <1>5, <2>1 DEF TakenBy, At
  <2>2. CASE g # h
    <3>1. task'[g] = task[g] /\ task[g].step \notin InSession
      BY <1>0, <1>3, <2>2 DEF PortInv, Locked
    <3> QED
      BY <3>1 DEF TakenBy, At, InSession
  <2> QED
    BY <2>1, <2>2
<1>10. Fresh'
  <2>1. i \in asked
    BY <1>6 DEF PortInv, Fresh, i
  <2>2. \A g \in Handlers : g # h /\ Creating(g) => task[g].id # i
    BY <1>6 DEF PortInv, Fresh, i
  <2>3. \A g \in Handlers : Working(g)' => Working(g) /\ task'[g].id = task[g].id
    BY <1>2, <1>3, <1>6 DEF i, Working
  <2>4. \A g \in Handlers : Creating(g)' => Creating(g) /\ task'[g].id = task[g].id
    BY <1>2, <1>3, <1>6 DEF Creating, i
  <2>5. \A q \in Ports : ports'[q] # NoId => ports'[q] \in asked
    BY <1>5, <2>1 DEF PortInv, Fresh
  <2>6. \A g \in Handlers : Creating(g)' /\ task'[g].step # "insert" => \A q \in Ports : ports'[q] # task'[g].id
    <3> SUFFICES ASSUME NEW g \in Handlers, Creating(g)', task'[g].step # "insert", NEW q \in Ports
                 PROVE  ports'[q] # task'[g].id
      OBVIOUS
    <3>1. g # h /\ task'[g] = task[g] /\ Creating(g) /\ task[g].step # "insert"
      BY <1>2, <1>3, <2>4
    <3>2. ports[q] # task[g].id
      BY <3>1 DEF PortInv, Fresh
    <3> QED
      BY <1>5, <2>2, <3>1, <3>2
  <2> QED
    BY <1>4, <2>3, <2>4, <2>5, <2>6 DEF PortInv, Fresh, Existing, Exists
<1> QED
  BY <1>7, <1>8, <1>9, <1>10

\* The row that is written names the port taken for it.
LEMMA InsertRowKeeps ==
    ASSUME PortInv, NEW h \in Handlers, InsertRow(h)
    PROVE  (PortsOwned /\ Locked /\ Fresh /\ Taken)'
<1> DEFINE p == task[h].port
           i == task[h].id
           r == [form |-> task[h].form, port |-> p, sub |-> task[h].sub, rec |-> task[h].rec]
<1>0. /\ task[h].kind = "create" /\ task[h].step = "insert"
      /\ task[h] \in Task("create", CreateSteps) /\ i \in Ids /\ mutex = h
  BY CreateTask DEF InsertRow, At, PortInv, Locked, InSession, Task
<1>1. p \in Ports /\ ports[p] = i /\ rows' = [rows EXCEPT ![i] = r]
  BY DEF InsertRow, PortInv, Taken, TakenBy
<1>2. task'[h].kind = "create" /\ task'[h].id = i /\ task'[h].step = "read_conf"
  BY <1>0 DEF InsertRow, Goto, Task, PortInv, TypeOK
<1>3. \A g \in Handlers : g # h => task'[g] = task[g]
  BY DEF InsertRow, Goto, PortInv, TypeOK
<1>4. UNCHANGED <<ports, asked, undeleted>> /\ mutex' = Free
  BY DEF InsertRow, history
<1>5. rows'[i] = r /\ r.port = p /\ \A j \in Ids : j # i => rows'[j] = rows[j]
  BY <1>0, <1>1 DEF PortInv, TypeOK
<1>6. Creating(h) /\ Working(h) /\ i \in asked
  BY <1>0 DEF Creating, Unwritten, Working, PortInv, Fresh
<1>7. \A g \in Handlers : g # h => task[g].step \notin InSession
  BY <1>0 DEF PortInv, Locked
<1> HIDE DEF p, i, r
<1>8. PortsOwned'
  BY <1>1, <1>4, <1>5 DEF PortInv, PortsOwned, Existing, Exists
<1>9. Locked'
  BY <1>2, <1>3, <1>7 DEF Locked, InSession
<1>10. Taken'
  BY <1>2, <1>3, <1>7 DEF Taken, TakenBy, At, InSession
<1>11. Fresh'
  <2>1. \A g \in Handlers : Working(g)' => Working(g) /\ task'[g].id = task[g].id
    BY <1>2, <1>3, <1>6 DEF i, Working
  <2>2. \A g \in Handlers : Creating(g)' => g # h /\ Creating(g) /\ task'[g] = task[g]
    BY <1>2, <1>3 DEF Creating, Unwritten
  <2>3. \A g \in Handlers : g # h /\ Creating(g) => task[g].id # i /\ ~ Exists(task[g].id)
    BY <1>6 DEF PortInv, Fresh, i
  <2>4. \A g \in Handlers : Creating(g)' => ~ Exists(task[g].id)'
    <3> SUFFICES ASSUME NEW g \in Handlers, Creating(g)' PROVE ~ Exists(task[g].id)'
      OBVIOUS
    <3>1. task'[g] = task[g] /\ task[g].id # i /\ ~ Exists(task[g].id) /\ task[g].id \in Ids
      BY <2>2, <2>3, WorkingTask DEF Creating, Working, Unwritten, PortInv
    <3> QED
      BY <1>5, <3>1 DEF Exists
  <2>5. \A j \in Existing' : j \in asked
    BY <1>5, <1>6 DEF Existing, Exists, PortInv, Fresh
  <2> QED
    BY <1>4, <2>1, <2>2, <2>4, <2>5 DEF PortInv, Fresh
<1> QED
  BY <1>8, <1>9, <1>10, <1>11

\* A deletion removes its row, or fails to.
LEMMA DeleteRowKeeps ==
    ASSUME PortInv, NEW h \in Handlers, DeleteRow(h) \/ DeleteRowFails(h)
    PROVE  (PortsOwned /\ Locked /\ Fresh /\ Taken)'
<1> DEFINE i == task[h].id
<1>0. /\ task[h].kind = "delete" /\ task[h].step = "delete_row"
      /\ task[h] \in Task("delete", DeleteSteps) /\ i \in Ids /\ mutex = h
  BY DeleteTask DEF DeleteRow, DeleteRowFails, At, PortInv, Locked, InSession, Task
<1>1. task'[h].kind = "delete" /\ task'[h].id = i /\ task'[h].step = "free"
  BY <1>0 DEF DeleteRow, DeleteRowFails, Goto, Task, PortInv, TypeOK
<1>2. \A g \in Handlers : g # h => task'[g] = task[g]
  BY DEF DeleteRow, DeleteRowFails, Goto, PortInv, TypeOK
<1>3. UNCHANGED <<ports, asked, mutex>>
  BY DEF DeleteRow, DeleteRowFails, tables, history
<1>4. \/ rows' = [rows EXCEPT ![i] = NoRow] /\ undeleted' = undeleted
      \/ rows' = rows /\ undeleted' = undeleted \cup {i}
  BY DEF DeleteRow, DeleteRowFails, tables, history
<1>5. \A g \in Handlers : g # h => task[g].step \notin InSession
  BY <1>0 DEF PortInv, Locked
<1>6. Working(h) /\ ~ Creating(h) /\ i \in asked
  BY <1>0 DEF Working, Creating, PortInv, Fresh
<1> HIDE DEF i
<1>7. /\ \A j \in Ids : rows'[j] # NoRow => rows'[j] = rows[j] /\ rows[j] # NoRow
      /\ undeleted \subseteq undeleted' /\ undeleted' \subseteq undeleted \cup {i}
      /\ rows'[i] = NoRow \/ i \in undeleted'
  BY <1>0, <1>4 DEF PortInv, TypeOK, i
<1>8. PortsOwned'
  BY <1>3, <1>7 DEF PortInv, PortsOwned, Existing, Exists
<1>9. Locked'
  BY <1>0, <1>1, <1>2, <1>3, <1>5 DEF Locked
<1>10. Taken'
  BY <1>1, <1>2, <1>5, <1>7 DEF Taken, TakenBy, At, InSession, Exists
<1>11. Fresh'
  <2>1. \A g \in Handlers : Working(g)' => Working(g) /\ task'[g].id = task[g].id
    BY <1>1, <1>2, <1>6 DEF i, Working
  <2>2. \A g \in Handlers : Creating(g)' => g # h /\ Creating(g) /\ task'[g] = task[g]
    BY <1>1, <1>2 DEF Creating, Unwritten
  <2>3. \A g \in Handlers : Creating(g) => task[g].id # i /\ task[g].id \in Ids
    BY <1>6, WorkingTask DEF PortInv, Fresh, i, Creating, Working, Unwritten
  <2>4. \A j \in Existing' : j \in Existing
    BY <1>7 DEF Existing, Exists
  <2>5. \A g \in Handlers : Creating(g)' => ~ Exists(task[g].id)' /\ task'[g].id \notin undeleted'
    BY <1>7, <2>2, <2>3 DEF PortInv, Fresh, Exists
  <2> QED
    BY <1>3, <1>6, <1>7, <2>1, <2>2, <2>4, <2>5 DEF PortInv, Fresh
<1> QED
  BY <1>8, <1>9, <1>10, <1>11

\* The port of a deleted block, which nobody's row names, becomes available.
LEMMA FreePortKeeps ==
    ASSUME PortInv, NEW h \in Handlers, FreePort(h)
    PROVE  (PortsOwned /\ Locked /\ Fresh /\ Taken)'
<1>0. /\ task[h].kind = "delete" /\ task[h].step = "free"
      /\ task[h] \in Task("delete", DeleteSteps) /\ mutex = h /\ mutex' = Free
  BY DeleteTask DEF FreePort, At, PortInv, Locked, InSession
<1>1. CASE Return(h) /\ UNCHANGED ports
  <2>1. Silent(h)
    BY <1>0, <1>1 DEF FreePort, Silent, history
  <2> QED
    BY <1>1, <2>1, ReturnQuiet, QuietKeeps
<1>2. ASSUME NEW p \in Ports, ports[p] = task[h].id, ports' = [ports EXCEPT ![p] = NoId],
             Goto(h, "dns")
      PROVE  (PortsOwned /\ Locked /\ Fresh /\ Taken)'
  <2>1. task'[h].kind = "delete" /\ task'[h].id = task[h].id /\ task'[h].step = "dns"
    BY <1>0, <1>2 DEF Goto, Task, PortInv, TypeOK
  <2>2. \A g \in Handlers : g # h => task'[g] = task[g]
    BY <1>2 DEF Goto, PortInv, TypeOK
  <2>3. UNCHANGED <<rows, asked, undeleted>>
    BY DEF FreePort, history
  <2>4. \A q \in Ports : ports'[q] = IF q = p THEN NoId ELSE ports[q]
    BY <1>2 DEF PortInv, TypeOK
  <2>5. \A g \in Handlers : g # h => task[g].step \notin InSession
    BY <1>0 DEF PortInv, Locked
  <2>6. ~ Exists(task[h].id) \/ task[h].id \in undeleted
    BY <1>0 DEF PortInv, Taken, TakenBy, At
  <2>7. PortsOwned'
    <3> SUFFICES ASSUME NEW j \in Existing, j \notin undeleted
                 PROVE  ports'[rows[j].port] = j
      BY <2>3 DEF PortsOwned, Existing, Exists
    <3>1. rows[j].port \in Ports /\ ports[rows[j].port] = j
      BY RowTyped DEF PortInv, PortsOwned, Existing, Row
    <3>2. j # task[h].id
      BY <2>6 DEF Existing
    <3> QED
      BY <1>2, <2>4, <3>1, <3>2
  <2>8. Locked'
    BY <2>1, <2>2, <2>5 DEF Locked, InSession
  <2>9. Taken'
    BY <2>1, <2>2, <2>5 DEF Taken, TakenBy, At, InSession
  <2>10. Fresh'
    <3>1. \A g \in Handlers : Working(g)' => Working(g) /\ task'[g].id = task[g].id
      BY <1>0, <2>1, <2>2 DEF Working
    <3>2. \A g \in Handlers : Creating(g)' => g # h /\ Creating(g) /\ task'[g] = task[g]
      BY <2>1, <2>2 DEF Creating
    <3>3. \A g \in Handlers : Creating(g) => task[g].id # NoId
      BY WorkingTask, NoIdAssumption DEF Creating, Working, Unwritten, PortInv
    <3> QED
      BY <2>3, <2>4, <3>1, <3>2, <3>3 DEF PortInv, Fresh, Existing, Exists
  <2> QED
    BY <2>7, <2>8, <2>9, <2>10
<1> QED
  BY <1>1, <1>2 DEF FreePort

\* A new request: a creation has an id nobody had, a deletion the id of a row.
LEMMA BeginKeeps ==
    ASSUME PortInv, NEW h \in Handlers, NEW i \in Ids,
           \/ \E f \in Forms : BeginCreate(h, i, f)
           \/ BeginDelete(h, i)
    PROVE  (PortsOwned /\ Locked /\ Fresh /\ Taken)'
<1>1. \A g \in Handlers : g # h => task'[g] = task[g]
  BY DEF BeginCreate, BeginDelete, PortInv, TypeOK
<1>2. UNCHANGED <<rows, ports, undeleted, mutex>> /\ ~ Working(h)
  BY DEF BeginCreate, BeginDelete, tables, history
<1>3. PortsOwned'
  BY <1>2 DEF PortInv, PortsOwned, Existing, Exists
<1>4. CASE \E f \in Forms : BeginCreate(h, i, f)
  <2>1. /\ task'[h].kind = "create" /\ task'[h].step = "cap" /\ task'[h].id = i
        /\ i \notin asked /\ asked' = asked \cup {i}
    BY <1>4 DEF BeginCreate, PortInv, TypeOK
  <2>2. Locked'
    BY <1>1, <1>2, <2>1 DEF PortInv, Locked, InSession
  <2>3. Taken'
    BY <1>1, <1>2, <2>1 DEF PortInv, Taken, TakenBy, At, Exists
  <2>4. i # NoId
    BY NoIdAssumption
  <2>5. \A g \in Handlers : g # h =>
          /\ Creating(g)' = Creating(g)
          /\ Working(g)' = Working(g)
          /\ Working(g) => task[g].id # i
    BY <1>1, <2>1 DEF Creating, Working, PortInv, Fresh
  <2>6. \A g \in Handlers : Creating(g) => Working(g)
    BY DEF Creating, Working, Unwritten
  <2>7. i \notin undeleted /\ ~ Exists(i) /\ \A p \in Ports : ports[p] # i
    BY <2>1, <2>4 DEF PortInv, Fresh, Existing
  <2>8. \A g \in Handlers : Working(g)' => task'[g].id \in asked'
    BY <1>1, <2>1, <2>5 DEF PortInv, Fresh
  <2>9. ASSUME NEW g \in Handlers, Creating(g)'
        PROVE  /\ rows'[task'[g].id] = NoRow
               /\ task'[g].id \notin undeleted'
               /\ task'[g].step # "insert" => \A p \in Ports : ports'[p] # task'[g].id
               /\ \A k \in Handlers : k # g /\ Working(k)' => task'[k].id # task'[g].id
    <3>1. CASE g = h
      BY <1>1, <1>2, <2>1, <2>5, <2>7, <3>1 DEF Exists
    <3>2. CASE g # h
      <4>1. Creating(g) /\ task'[g] = task[g] /\ task[g].id # i
        BY <1>1, <2>5, <2>6, <2>9, <3>2
      <4>2. \A k \in Handlers : k # g /\ k # h /\ Working(k) => task[k].id # task[g].id
        BY <4>1 DEF PortInv, Fresh
      <4>3. \A k \in Handlers : k # g /\ Working(k)' => task'[k].id # task'[g].id
        BY <1>1, <2>1, <2>5, <4>1, <4>2
      <4> QED
        BY <1>2, <4>1, <4>3 DEF PortInv, Fresh, Exists
    <3> QED
      BY <3>1, <3>2
  <2>10. Fresh'
    BY <1>2, <2>1, <2>8, <2>9 DEF PortInv, Fresh, Existing, Exists
  <2> QED
    BY <1>3, <2>2, <2>3, <2>10
<1>5. CASE BeginDelete(h, i)
  <2>1. /\ task'[h].kind = "delete" /\ task'[h].id = i /\ asked' = asked
        /\ task'[h].step \in {"deactivate", "read_conf"} /\ Exists(i)
    BY <1>5 DEF BeginDelete, PortInv, TypeOK, history
  <2>2. Locked'
    BY <1>1, <1>2, <2>1 DEF PortInv, Locked, InSession
  <2>3. Taken'
    BY <1>1, <1>2, <2>1 DEF PortInv, Taken, TakenBy, At, Exists
  <2>4. \A g \in Handlers : Creating(g)' => g # h /\ Creating(g) /\ task'[g] = task[g]
    BY <1>1, <2>1 DEF Creating
  <2>5. \A g \in Handlers : Creating(g) => task[g].id # i
    BY <2>1 DEF PortInv, Fresh
  <2>6. \A g \in Handlers : Working(g)' => g = h \/ (Working(g) /\ task'[g] = task[g])
    BY <1>1 DEF Working
  <2>7. i \in asked
    BY <2>1 DEF PortInv, Fresh, Existing
  <2>8. ASSUME NEW g \in Handlers, Creating(g)'
        PROVE  /\ rows'[task'[g].id] = NoRow
               /\ task'[g].id \notin undeleted'
               /\ task'[g].step # "insert" => \A p \in Ports : ports'[p] # task'[g].id
               /\ \A k \in Handlers : k # g /\ Working(k)' => task'[k].id # task'[g].id
    BY <1>2, <2>1, <2>4, <2>5, <2>6, <2>8 DEF PortInv, Fresh, Exists
  <2>9. Fresh'
    BY <1>2, <2>1, <2>6, <2>7, <2>8 DEF PortInv, Fresh, Existing, Exists
  <2> QED
    BY <1>3, <2>2, <2>3, <2>9
<1> QED
  BY <1>4, <1>5

-----------------------------------------------------------------------------
(* The theorems *)

LEMMA PortInvInit == Init => PortInv
<1> SUFFICES ASSUME Init PROVE PortInv
  OBVIOUS
<1>1. TypeOK
  BY InitType
<1>2. \A h \in Handlers : task[h] = Idle
  BY DEF Init
<1>3. Locked /\ Taken
  BY <1>2 DEF Locked, Taken, TakenBy, At, Idle, InSession
<1>4. Existing = {} /\ undeleted = {} /\ \A p \in Ports : ports[p] = NoId
  BY DEF Init, Existing, Exists
<1>5. \A h \in Handlers : ~ Working(h) /\ ~ Creating(h)
  BY <1>2 DEF Working, Creating, Idle
<1> QED
  BY <1>1, <1>3, <1>4, <1>5 DEF PortInv, PortsOwned, Fresh

LEMMA PortInvStep == PortInv /\ [Next]_vars => PortInv'
<1> SUFFICES ASSUME PortInv, [Next]_vars PROVE PortInv'
  OBVIOUS
<1>1. TypeOK'
  BY StepType DEF PortInv
<1> SUFFICES (PortsOwned /\ Locked /\ Fresh /\ Taken)'
  BY <1>1 DEF PortInv
<1>2. CASE UNCHANGED vars
  BY <1>2 DEF vars, tables, history, PortInv, PortsOwned, Locked, Fresh, Taken, TakenBy, At,
              Existing, Exists, Working, Creating
<1>3. ASSUME NEW h \in Handlers, CreateStep(h)
      PROVE  (PortsOwned /\ Locked /\ Fresh /\ Taken)'
  BY <1>3, CreateQuiet, QuietKeeps, LockKeeps, SelectPortKeeps, TakePortKeeps, InsertRowKeeps
     DEF CreateStep
<1>4. ASSUME NEW h \in Handlers, DeleteStep(h)
      PROVE  (PortsOwned /\ Locked /\ Fresh /\ Taken)'
  BY <1>4, DeleteQuiet, QuietKeeps, LockKeeps, DeleteRowKeeps, FreePortKeeps DEF DeleteStep
<1>5. ASSUME NEW h \in Handlers, FaultStep(h)
      PROVE  (PortsOwned /\ Locked /\ Fresh /\ Taken)'
  BY <1>5, FaultQuiet, QuietKeeps, DeleteRowKeeps
<1>6. ASSUME NEW h \in Handlers, ReadConf(h)
      PROVE  (PortsOwned /\ Locked /\ Fresh /\ Taken)'
  BY <1>6, ReadConfQuiet, QuietKeeps
<1> QED
  BY <1>2, <1>3, <1>4, <1>5, <1>6, BeginKeeps DEF Next

LEMMA PortInvariant == Spec => []PortInv
BY PortInvInit, PortInvStep, PTL DEF Spec

\* Type correctness of the sagas, local variables of the handlers included.
THEOREM ProvisioningTypeCorrect == Spec => []TypeOK
<1>1. PortInv => TypeOK
  BY DEF PortInv
<1> QED
  BY <1>1, PortInvariant, PTL

\* The port a block's row names is held by that block, for any number of
\* concurrent creations and deletions and whatever fails on the way: the lock
\* of create_block and delete_block (service.rs:14-53, 206-221) makes the read
\* and the write of get_available_port one step, and the only rows left out
\* are those whose DELETE failed.
THEOREM BlocksOwnTheirPorts == Spec => []PortsOwned
<1>1. PortInv => PortsOwned
  BY DEF PortInv
<1> QED
  BY <1>1, PortInvariant, PTL


-----------------------------------------------------------------------------
(* The records behind a row, and the ports behind the blocks *)

\* The steps of a creation up to its call of the zone, and those of a deletion
\* after its DELETE.
Unrecorded == {"cap", "name", "charge", "application", "activate", "dns"}
Removed == {"free", "dns"}

KnownBy(h) ==
    /\ Creating(h) /\ task[h].rec => dns[task[h].sub] = task[h].id
    /\ Creating(h) /\ task[h].step \in Unrecorded => ~ task[h].rec
    /\ task[h].kind = "delete" /\ task[h].step \in Removed /\ task[h].rec => ~ Exists(task[h].id)
Known == \A h \in Handlers : KnownBy(h)

Held == mutex # Free => task[mutex].step \in InSession

OnePort == \A p, q \in Ports : ports[p] = ports[q] /\ ports[p] # NoId => p = q

RecordInv == PortInv /\ RecordsExist /\ Known
LossInv == PortInv /\ Held /\ OnePort /\ NoPortLost

-----------------------------------------------------------------------------
(* Records *)

\* A step of handler h that leaves rows and records alone and learns nothing
\* of them.
Moves(h) ==
    /\ UNCHANGED <<rows, dns>>
    /\ \A g \in Handlers : g # h => task'[g] = task[g]
    /\ \/ task'[h] = Idle
       \/ /\ task'[h].kind = task[h].kind
          /\ task'[h].id = task[h].id
          /\ task'[h].rec = task[h].rec
          /\ task'[h].sub = task[h].sub \/ (Creating(h) /\ task[h].step \in Unrecorded)
          /\ Creating(h)' => Creating(h)
          /\ Creating(h)' /\ task'[h].step \in Unrecorded => task[h].step \in Unrecorded
          /\ task'[h].kind = "delete" /\ task'[h].step \in Removed => task[h].step \in Removed

LEMMA MovesKeep ==
    ASSUME RecordInv, NEW h \in Handlers, Moves(h)
    PROVE  (RecordsExist /\ Known)'
<1>1. RecordsExist'
  BY DEF Moves, RecordInv, RecordsExist, Existing, Exists
<1>2. \A g \in Handlers : g # h => KnownBy(g)'
  BY DEF Moves, RecordInv, Known, KnownBy, Creating, Exists
<1>3. KnownBy(h)'
  <2>1. CASE task'[h] = Idle
    BY <2>1 DEF KnownBy, Creating, Idle
  <2>2. CASE task'[h] # Idle
    BY <2>2 DEF Moves, RecordInv, Known, KnownBy, Creating, Exists
  <2> QED
    BY <2>1, <2>2
<1> QED
  BY <1>1, <1>2, <1>3 DEF Known

\* A handler that returns, or goes to another step of its request.
LEMMA ReturnMoves ==
    ASSUME TypeOK, NEW h \in Handlers, Return(h), UNCHANGED <<rows, dns>>
    PROVE  Moves(h)
BY DEF Return, Moves, TypeOK

LEMMA GotoMoves ==
    ASSUME TypeOK, NEW h \in Handlers, Working(h), NEW s, Goto(h, s), UNCHANGED <<rows, dns>>,
           task[h].kind = "create" /\ s \in Unwritten => task[h].step \in Unwritten,
           task[h].kind = "create" /\ s \in Unrecorded => task[h].step \in Unrecorded,
           task[h].kind = "delete" /\ s \in Removed => task[h].step \in Removed
    PROVE  Moves(h)
<1>1. task[h] \in Task("create", CreateSteps) \/ task[h] \in Task("delete", DeleteSteps)
  BY WorkingTask
<1>2. task'[h] = [task[h] EXCEPT !.step = s] /\ \A g \in Handlers : g # h => task'[g] = task[g]
  BY DEF Goto, TypeOK
<1>3. /\ task'[h].kind = task[h].kind /\ task'[h].id = task[h].id
      /\ task'[h].rec = task[h].rec /\ task'[h].sub = task[h].sub /\ task'[h].step = s
  BY <1>1, <1>2 DEF Task
<1> QED
  BY <1>2, <1>3 DEF Moves, Creating

\* The steps that set more than the step.
LEMMA OthersMove ==
    ASSUME TypeOK, NEW h \in Handlers,
           \/ ReadCap(h) \/ Activate(h) \/ ActivateFails(h) \/ SelectPort(h) \/ CreateBlockFails(h)
           \/ ReadConf(h) \/ ReadCapToRefund(h)
    PROVE  Moves(h)
<1>0. UNCHANGED <<rows, dns>>
  BY DEF ReadCap, Activate, ActivateFails, SelectPort, CreateBlockFails, ReadConf, ReadCapToRefund, tables
<1>1. Working(h)
  BY DEF ReadCap, Activate, ActivateFails, SelectPort, CreateBlockFails, ReadConf, ReadCapToRefund,
         At, Working
<1>2. task[h] \in Task("create", CreateSteps) \/ task[h] \in Task("delete", DeleteSteps)
  BY <1>1, WorkingTask
<1>3. CASE ReadCap(h)
  <2>1. Return(h) \/ task' = [task EXCEPT ![h].step = "name", ![h].cap = cap[task[h].form.version]]
    BY <1>3 DEF ReadCap
  <2> QED
    BY <1>0, <1>2, <1>3, <2>1, ReturnMoves
       DEF ReadCap, At, Moves, Creating, Unwritten, Unrecorded, Removed, Task, TypeOK
<1>4. CASE Activate(h) \/ ActivateFails(h)
  BY <1>0, <1>2, <1>4
     DEF Activate, ActivateFails, At, Moves, Creating, Unwritten, Unrecorded, Removed, Task, TypeOK
<1>5. CASE SelectPort(h)
  <2>1. \/ Return(h)
        \/ \E p \in Ports : task' = [task EXCEPT ![h].port = p, ![h].step = "take"]
    BY <1>5 DEF SelectPort
  <2>2. CASE Return(h)
    BY <1>0, <2>2, ReturnMoves
  <2>3. ASSUME NEW p \in Ports, task' = [task EXCEPT ![h].port = p, ![h].step = "take"]
        PROVE  Moves(h)
    BY <1>0, <1>2, <1>5, <2>3
       DEF SelectPort, At, Moves, Creating, Unwritten, Unrecorded, Removed, Task, TypeOK
  <2> QED
    BY <2>1, <2>2, <2>3
<1>6. CASE CreateBlockFails(h)
  BY <1>0, <1>2, <1>6
     DEF CreateBlockFails, Moves, Creating, Unwritten, Unrecorded, Removed, Task, TypeOK
<1>7. CASE ReadConf(h)
  BY <1>0, <1>2, <1>7 DEF ReadConf, Moves, Creating, Unwritten, Unrecorded, Removed, Task, TypeOK
<1>8. CASE ReadCapToRefund(h)
  BY <1>0, <1>2, <1>8
     DEF ReadCapToRefund, At, Moves, Creating, Unwritten, Unrecorded, Removed, Task, TypeOK
<1> QED
  BY <1>3, <1>4, <1>5, <1>6, <1>7, <1>8

\* The steps that only go on, or return.
LEMMA CreateMovesOn ==
    ASSUME TypeOK, NEW h \in Handlers,
           \/ CheckName(h) \/ CheckNameFails(h) \/ ChargeCap(h) \/ ChargeCapRefused(h)
           \/ ReadApplication(h) \/ LockForCreate(h) \/ TakePort(h) \/ GenerateConf(h)
           \/ CreateAuthority(h) \/ CreateFails(h)
    PROVE  Moves(h)
<1>1. UNCHANGED <<rows, dns>>
  BY DEF CheckName, CheckNameFails, ChargeCap, ChargeCapRefused, ReadApplication, LockForCreate,
         TakePort, GenerateConf, CreateAuthority, CreateFails, tables
<1>2. CASE Return(h)
  BY <1>1, <1>2, ReturnMoves
<1>3. CASE CheckName(h) /\ Goto(h, "charge")
  BY <1>1, <1>3, GotoMoves DEF CheckName, At, Working, Unwritten, Unrecorded, Removed
<1>4. CASE CheckNameFails(h)
  BY <1>1, <1>4, GotoMoves DEF CheckNameFails, At, Working, Unwritten, Unrecorded, Removed
<1>5. CASE ChargeCap(h) \/ ChargeCapRefused(h)
  BY <1>1, <1>5, GotoMoves DEF ChargeCap, ChargeCapRefused, At, Working, Unwritten, Unrecorded, Removed
<1>6. CASE ReadApplication(h)
  <2>1. Goto(h, "activate") \/ Goto(h, "dns")
    BY <1>6 DEF ReadApplication
  <2> QED
    BY <1>1, <1>6, <2>1, GotoMoves DEF ReadApplication, At, Working, Unwritten, Unrecorded, Removed
<1>7. CASE LockForCreate(h)
  BY <1>1, <1>7, GotoMoves DEF LockForCreate, At, Working, Unwritten, Unrecorded, Removed
<1>8. CASE TakePort(h)
  BY <1>1, <1>8, GotoMoves DEF TakePort, At, Working, Unwritten, Unrecorded, Removed
<1>9. CASE GenerateConf(h) /\ Goto(h, "authority")
  BY <1>1, <1>9, GotoMoves DEF GenerateConf, At, Working, Unwritten, Unrecorded, Removed
<1> QED
  BY <1>2, <1>3, <1>4, <1>5, <1>6, <1>7, <1>8, <1>9 DEF CheckName, GenerateConf, CreateAuthority, CreateFails

LEMMA DeleteMovesOn ==
    ASSUME TypeOK, NEW h \in Handlers,
           \/ Deactivate(h) \/ DeactivateFails(h) \/ RemoveConf(h) \/ RefundCap(h)
           \/ RefundCapRefused(h) \/ LockForDelete(h) \/ FreePort(h) \/ FreePortFails(h)
           \/ DeleteFails(h) \/ RemoveDnsRecordFails(h) \/ Abandon(h)
    PROVE  Moves(h)
<1>1. UNCHANGED <<rows, dns>>
  BY DEF Deactivate, DeactivateFails, RemoveConf, RefundCap, RefundCapRefused, LockForDelete,
         FreePort, FreePortFails, DeleteFails, RemoveDnsRecordFails, Abandon, tables
<1>2. CASE Return(h)
  BY <1>1, <1>2, ReturnMoves
<1>3. CASE Deactivate(h) \/ DeactivateFails(h)
  BY <1>1, <1>3, GotoMoves DEF Deactivate, DeactivateFails, At, Working, Removed
<1>4. CASE RemoveConf(h)
  BY <1>1, <1>4, GotoMoves DEF RemoveConf, At, Working, Removed
<1>5. CASE RefundCap(h) \/ RefundCapRefused(h)
  BY <1>1, <1>5, GotoMoves DEF RefundCap, RefundCapRefused, At, Working, Removed
<1>6. CASE LockForDelete(h)
  BY <1>1, <1>6, GotoMoves DEF LockForDelete, At, Working, Removed
<1>7. CASE FreePort(h) /\ Goto(h, "dns")
  BY <1>1, <1>7, GotoMoves DEF FreePort, At, Working, Removed
<1>8. CASE FreePortFails(h)
  BY <1>1, <1>8, GotoMoves DEF FreePortFails, At, Working, Removed
<1> QED
  BY <1>2, <1>3, <1>4, <1>5, <1>6, <1>7, <1>8
     DEF FreePort, DeleteFails, RemoveDnsRecordFails, Abandon

\* A record is made only where the zone has none.
LEMMA CreateRecordKeeps ==
    ASSUME RecordInv, NEW h \in Handlers, CreateDnsRecord(h) \/ CreateDnsRecordFails(h)
    PROVE  (RecordsExist /\ Known)'
<1>0. /\ task[h] \in Task("create", CreateSteps) /\ Creating(h) /\ task[h].step = "dns"
      /\ ~ task[h].rec
  BY CreateTask DEF CreateDnsRecord, CreateDnsRecordFails, At, Creating, Unwritten, RecordInv, PortInv,
                    Known, KnownBy, Unrecorded
<1>1. \A s \in Subdomains : dns[s] # NoId => dns'[s] = dns[s]
  BY DEF CreateDnsRecord, CreateDnsRecordFails, RecordInv, PortInv, TypeOK
<1>2. rows' = rows /\ \A g \in Handlers : g # h => task'[g] = task[g]
  BY DEF CreateDnsRecord, CreateDnsRecordFails, Goto, RecordInv, PortInv, TypeOK
<1>3. /\ task'[h].kind = "create" /\ task'[h].step = "lock"
      /\ task'[h].id = task[h].id /\ task'[h].sub = task[h].sub
  BY <1>0 DEF CreateDnsRecord, CreateDnsRecordFails, Goto, Task, RecordInv, PortInv, TypeOK
<1>4. task'[h].rec => dns'[task[h].sub] = task[h].id
  <2>1. CASE CreateDnsRecord(h)
    BY <1>0, <2>1 DEF CreateDnsRecord, Task, RecordInv, PortInv, TypeOK
  <2>2. CASE CreateDnsRecordFails(h)
    BY <1>0, <2>2 DEF CreateDnsRecordFails, Goto, Task, RecordInv, PortInv, TypeOK
  <2> QED
    BY <2>1, <2>2
<1>5. RecordsExist'
  <2> SUFFICES ASSUME NEW i \in Existing, rows[i].rec PROVE dns'[rows[i].sub] = i
    BY <1>2 DEF RecordsExist, Existing, Exists
  <2>1. rows[i].sub \in Subdomains /\ dns[rows[i].sub] = i /\ i # NoId
    BY RowTyped, NoIdAssumption DEF RecordInv, PortInv, RecordsExist, Existing, Row
  <2> QED
    BY <1>1, <2>1
<1>6. KnownBy(h)'
  BY <1>3, <1>4 DEF KnownBy, Creating, Unrecorded
<1>7. ASSUME NEW g \in Handlers, g # h PROVE KnownBy(g)'
  <2>1. task'[g] = task[g] /\ (Creating(g)' <=> Creating(g)) /\ KnownBy(g)
    BY <1>2, <1>7 DEF Creating, RecordInv, Known
  <2>2. Creating(g) => task[g].sub \in Subdomains /\ task[g].id # NoId
    BY CreateTask, NoIdAssumption DEF Creating, Task, RecordInv, PortInv
  <2> QED
    BY <1>1, <1>2, <2>1, <2>2 DEF KnownBy, Exists
<1> QED
  BY <1>5, <1>6, <1>7 DEF Known

\* The row that is written names the record that was made.
LEMMA RecordedRow ==
    ASSUME RecordInv, NEW h \in Handlers, InsertRow(h)
    PROVE  (RecordsExist /\ Known)'
<1> DEFINE i == task[h].id
           r == [form |-> task[h].form, port |-> task[h].port, sub |-> task[h].sub, rec |-> task[h].rec]
<1>0. task[h] \in Task("create", CreateSteps) /\ Creating(h) /\ Working(h) /\ i \in Ids
  BY CreateTask DEF InsertRow, At, Creating, Unwritten, Working, Task, RecordInv, PortInv
<1>1. rows' = [rows EXCEPT ![i] = r] /\ dns' = dns
  BY DEF InsertRow
<1>2. \A g \in Handlers : g # h => task'[g] = task[g]
  BY DEF InsertRow, Goto, RecordInv, PortInv, TypeOK
<1>3. task'[h].kind = "create" /\ task'[h].step = "read_conf"
  BY <1>0 DEF InsertRow, At, Goto, Task, RecordInv, PortInv, TypeOK
<1>4. rows'[i] = r /\ \A j \in Ids : j # i => rows'[j] = rows[j]
  BY <1>0, <1>1 DEF RecordInv, PortInv, TypeOK
<1>5. r.rec => dns[r.sub] = i
  BY <1>0 DEF RecordInv, Known, KnownBy
<1>6. \A g \in Handlers : g # h /\ Working(g) => task[g].id # i /\ task[g].id \in Ids
  BY <1>0, WorkingTask DEF RecordInv, PortInv, Fresh
<1> HIDE DEF i, r
<1>7. RecordsExist'
  <2> SUFFICES ASSUME NEW j \in Ids, rows'[j] # NoRow, rows'[j].rec PROVE dns[rows'[j].sub] = j
    BY <1>1 DEF RecordsExist, Existing, Exists
  <2>1. CASE j = i
    BY <1>4, <1>5, <2>1
  <2>2. CASE j # i
    BY <1>4, <2>2 DEF RecordInv, RecordsExist, Existing, Exists
  <2> QED
    BY <2>1, <2>2
<1>8. KnownBy(h)'
  BY <1>3 DEF KnownBy, Creating, Unwritten
<1>9. ASSUME NEW g \in Handlers, g # h PROVE KnownBy(g)'
  <2>1. task'[g] = task[g] /\ (Creating(g)' <=> Creating(g)) /\ KnownBy(g)
    BY <1>2, <1>9 DEF Creating, RecordInv, Known
  <2>2. task[g].step \in Removed => rows'[task[g].id] = rows[task[g].id]
    BY <1>4, <1>6, <1>9 DEF Removed, Working
  <2> QED
    BY <1>1, <2>1, <2>2 DEF KnownBy, Exists
<1> QED
  BY <1>7, <1>8, <1>9 DEF Known

\* A deletion whose DELETE succeeded has no row, one whose DELETE failed keeps
\* the record.
LEMMA DeletedRow ==
    ASSUME RecordInv, NEW h \in Handlers, DeleteRow(h) \/ DeleteRowFails(h)
    PROVE  (RecordsExist /\ Known)'
<1> DEFINE i == task[h].id
<1>0. task[h] \in Task("delete", DeleteSteps) /\ i \in Ids
  BY DeleteTask DEF DeleteRow, DeleteRowFails, At, Task, RecordInv, PortInv
<1>1. dns' = dns /\ \A g \in Handlers : g # h => task'[g] = task[g]
  BY DEF DeleteRow, DeleteRowFails, Goto, tables, RecordInv, PortInv, TypeOK
<1>2. task'[h].kind = "delete" /\ task'[h].id = i
  BY <1>0 DEF DeleteRow, DeleteRowFails, Goto, Task, RecordInv, PortInv, TypeOK
<1>3. rows'[i] = NoRow \/ ~ task'[h].rec
  BY <1>0 DEF DeleteRow, DeleteRowFails, Task, RecordInv, PortInv, TypeOK
<1>4. \A j \in Ids : rows'[j] = rows[j] \/ rows'[j] = NoRow
  BY <1>0 DEF DeleteRow, DeleteRowFails, tables, RecordInv, PortInv, TypeOK
<1> HIDE DEF i
<1>5. RecordsExist'
  BY <1>1, <1>4 DEF RecordInv, RecordsExist, Existing, Exists
<1>6. KnownBy(h)'
  BY <1>2, <1>3 DEF KnownBy, Creating, Exists
<1>7. ASSUME NEW g \in Handlers, g # h PROVE KnownBy(g)'
  <2>1. task'[g] = task[g] /\ (Creating(g)' <=> Creating(g)) /\ KnownBy(g)
    BY <1>1, <1>7 DEF Creating, RecordInv, Known
  <2>2. task[g].step \in Removed => task[g].id \in Ids
    BY WorkingTask DEF Removed, Working, RecordInv, PortInv
  <2> QED
    BY <1>1, <1>4, <2>1, <2>2 DEF KnownBy, Exists
<1> QED
  BY <1>5, <1>6, <1>7 DEF Known

\* The record that is removed is named by no row, and made by no creation.
LEMMA RemovedRecord ==
    ASSUME RecordInv, NEW h \in Handlers, RemoveDnsRecord(h)
    PROVE  (RecordsExist /\ Known)'
<1>0. /\ task[h] \in Task("delete", DeleteSteps) /\ Working(h) /\ ~ Creating(h)
      /\ task[h].rec => ~ Exists(task[h].id)
  BY DeleteTask DEF RemoveDnsRecord, At, Working, Creating, Removed, RecordInv, PortInv, Known, KnownBy
<1>1. rows' = rows /\ \A g \in Handlers : g # h => task'[g] = task[g]
  BY DEF RemoveDnsRecord, Return, RecordInv, PortInv, TypeOK
<1>2. task'[h] = Idle
  BY DEF RemoveDnsRecord, Return, RecordInv, PortInv, TypeOK
<1>3. \A s \in Subdomains : dns'[s] = dns[s] \/ (dns[s] = task[h].id /\ task[h].rec)
  BY <1>0 DEF RemoveDnsRecord, Task, RecordInv, PortInv, TypeOK
<1>4. RecordsExist'
  <2> SUFFICES ASSUME NEW i \in Existing, rows[i].rec PROVE dns'[rows[i].sub] = i
    BY <1>1 DEF RecordsExist, Existing, Exists
  <2>1. rows[i].sub \in Subdomains /\ dns[rows[i].sub] = i
    BY RowTyped DEF RecordInv, PortInv, RecordsExist, Existing, Row
  <2> QED
    BY <1>0, <1>3, <2>1 DEF Existing
<1>5. KnownBy(h)'
  BY <1>2 DEF KnownBy, Creating, Idle
<1>6. ASSUME NEW g \in Handlers, g # h PROVE KnownBy(g)'
  <2>1. task'[g] = task[g] /\ (Creating(g)' <=> Creating(g)) /\ KnownBy(g)
    BY <1>1, <1>6 DEF Creating, RecordInv, Known
  <2>2. Creating(g) => task[g].sub \in Subdomains /\ task[g].id # task[h].id
    BY <1>0, <1>6, CreateTask DEF Creating, Task, RecordInv, PortInv, Fresh
  <2> QED
    BY <1>1, <1>3, <2>1, <2>2 DEF KnownBy, Exists
<1> QED
  BY <1>4, <1>5, <1>6 DEF Known

LEMMA BegunKnown ==
    ASSUME RecordInv, NEW h \in Handlers, NEW i \in Ids,
           \/ \E f \in Forms : BeginCreate(h, i, f)
           \/ BeginDelete(h, i)
    PROVE  (RecordsExist /\ Known)'
<1>1. UNCHANGED <<rows, dns>> /\ \A g \in Handlers : g # h => task'[g] = task[g]
  BY DEF BeginCreate, BeginDelete, tables, RecordInv, PortInv, TypeOK
<1>2. \/ task'[h].kind = "create" /\ task'[h].step = "cap" /\ ~ task'[h].rec
      \/ task'[h].kind = "delete" /\ task'[h].step \in {"deactivate", "read_conf"}
  BY DEF BeginCreate, BeginDelete, RecordInv, PortInv, TypeOK
<1>3. RecordsExist'
  BY <1>1 DEF RecordInv, RecordsExist, Existing, Exists
<1>4. KnownBy(h)'
  BY <1>2 DEF KnownBy, Creating, Removed
<1>5. \A g \in Handlers : g # h => KnownBy(g)'
  BY <1>1 DEF RecordInv, Known, KnownBy, Creating, Exists
<1> QED
  BY <1>3, <1>4, <1>5 DEF Known

LEMMA RecordInvStep == RecordInv /\ [Next]_vars => RecordInv'
<1> SUFFICES ASSUME RecordInv, [Next]_vars PROVE RecordInv'
  OBVIOUS
<1>1. PortInv'
  BY PortInvStep DEF RecordInv
<1> SUFFICES (RecordsExist /\ Known)'
  BY <1>1 DEF RecordInv
<1>2. TypeOK
  BY DEF RecordInv, PortInv
<1>3. CASE UNCHANGED vars
  BY <1>3 DEF vars, tables, RecordInv, RecordsExist, Existing, Exists, Known, KnownBy, Creating
<1>4. ASSUME NEW h \in Handlers, Moves(h) PROVE (RecordsExist /\ Known)'
  BY <1>4, MovesKeep
<1>5. ASSUME NEW h \in Handlers, CreateStep(h) PROVE (RecordsExist /\ Known)'
  BY <1>2, <1>4, <1>5, OthersMove, CreateMovesOn, CreateRecordKeeps, RecordedRow DEF CreateStep
<1>6. ASSUME NEW h \in Handlers, DeleteStep(h) PROVE (RecordsExist /\ Known)'
  BY <1>2, <1>4, <1>6, OthersMove, DeleteMovesOn, DeletedRow, RemovedRecord DEF DeleteStep
<1>7. ASSUME NEW h \in Handlers, FaultStep(h) PROVE (RecordsExist /\ Known)'
  BY <1>2, <1>4, <1>7, OthersMove, CreateMovesOn, DeleteMovesOn, CreateRecordKeeps, DeletedRow
     DEF FaultStep
<1>8. ASSUME NEW h \in Handlers, ReadConf(h) PROVE (RecordsExist /\ Known)'
  BY <1>2, <1>4, <1>8, OthersMove
<1> QED
  BY <1>3, <1>5, <1>6, <1>7, <1>8, BegunKnown DEF Next

LEMMA RecordInvInit == Init => RecordInv
<1> SUFFICES ASSUME Init PROVE RecordInv
  OBVIOUS
<1>1. \A h \in Handlers : task[h] = Idle
  BY DEF Init
<1>2. Known
  BY <1>1 DEF Known, KnownBy, Creating, Idle
<1>3. RecordsExist
  BY DEF Init, RecordsExist, Existing, Exists
<1> QED
  BY <1>2, <1>3, PortInvInit DEF RecordInv

\* The DNS record a row names is in the zone as long as the row is there, for
\* any number of concurrent requests and whatever fails: a creation makes the
\* record before the row, a deletion removes it after (handler.rs:781-803).
THEOREM RowsHaveRecords == Spec => []RecordsExist
<1>1. RecordInv => RecordsExist
  BY DEF RecordInv
<1> QED
  BY <1>1, RecordInvInit, RecordInvStep, PTL DEF Spec

-----------------------------------------------------------------------------
(* Ports without faults *)

\* Only TakePort takes a port, for an id that has none.
LEMMA OnePortStep ==
    ASSUME LossInv, [Next]_vars
    PROVE  OnePort'
<1> USE DEF LossInv
<1>1. CASE UNCHANGED ports
  BY <1>1 DEF OnePort
<1>2. ASSUME NEW h \in Handlers, TakePort(h) PROVE OnePort'
  <2>1. /\ ports' = [ports EXCEPT ![task[h].port] = task[h].id]
        /\ \A p \in Ports : ports[p] # task[h].id
    BY <1>2 DEF TakePort, At, PortInv, Fresh, Creating, Unwritten
  <2>2. task[h].port \in Ports
    BY <1>2 DEF TakePort, PortInv, Taken, TakenBy
  <2> QED
    BY <2>1, <2>2 DEF OnePort, PortInv, TypeOK
<1>3. ASSUME NEW h \in Handlers, FreePort(h) PROVE OnePort'
  <2>1. ports' = ports \/ \E p \in Ports : ports' = [ports EXCEPT ![p] = NoId]
    BY <1>3 DEF FreePort
  <2> QED
    BY <2>1 DEF OnePort, PortInv, TypeOK
<1>4. ASSUME NEW h \in Handlers, CreateStep(h) \/ DeleteStep(h) \/ FaultStep(h), ~ TakePort(h), ~ FreePort(h)
      PROVE  UNCHANGED ports
  <2>1. CASE CreateStep(h)
    BY <1>4, <2>1 DEF CreateStep, ReadCap, CheckName, ChargeCap, ReadApplication, Activate,
       CreateDnsRecord, LockForCreate, SelectPort, InsertRow, GenerateConf, CreateAuthority, tables
  <2>2. CASE DeleteStep(h)
    BY <1>4, <2>2 DEF DeleteStep, Deactivate, RemoveConf, ReadCapToRefund, RefundCap, LockForDelete,
       DeleteRow, RemoveDnsRecord, tables
  <2>3. CASE FaultStep(h)
    BY <2>3, FaultQuiet DEF Quiet, DeleteRowFails, tables
  <2> QED
    BY <1>4, <2>1, <2>2, <2>3
<1>5. ASSUME NEW h \in Handlers, NEW i \in Ids,
             ReadConf(h) \/ BeginDelete(h, i) \/ \E f \in Forms : BeginCreate(h, i, f)
      PROVE  UNCHANGED ports
  BY <1>5 DEF ReadConf, BeginDelete, BeginCreate, tables
<1>6. ASSUME NEW h \in Handlers, ReadConf(h) PROVE UNCHANGED ports
  BY <1>6 DEF ReadConf, tables
<1> QED
  BY <1>1, <1>2, <1>3, <1>4, <1>5, <1>6 DEF Next, vars, tables

\* A quiet step by a handler out of the session, or one that leaves it.
LEMMA QuietHeld ==
    ASSUME LossInv, NEW h \in Handlers, Quiet(h),
           task[h].step \notin InSession \/ mutex' = Free
    PROVE  Held' /\ (mutex' # Free => mutex' = mutex /\ task'[mutex] = task[mutex])
<1>1. \A g \in Handlers : g # h => task'[g] = task[g]
  BY DEF Quiet, LossInv, PortInv, TypeOK
<1>2. mutex' # Free => mutex' = mutex /\ mutex # h /\ mutex \in Handlers
  BY DEF Quiet, LossInv, Held, PortInv, TypeOK
<1> QED
  BY <1>1, <1>2 DEF LossInv, Held

\* It loses no port either, if what it leaves has none.
LEMMA QuietAccounts ==
    ASSUME LossInv, NEW h \in Handlers, Quiet(h),
           task[h].step \notin InSession \/ mutex' = Free,
           faults' = 0 => faults = 0 /\ (mutex' = mutex \/ \A p \in Ports : ports[p] # task[h].id)
    PROVE  (Held /\ NoPortLost)'
<1>1. Held' /\ (mutex' # Free => mutex' = mutex /\ task'[mutex] = task[mutex])
  BY QuietHeld
<1>2. UNCHANGED <<rows, ports>> /\ (mutex' = mutex \/ mutex = h)
  BY DEF Quiet
<1> SUFFICES ASSUME faults' = 0, NEW p \in Ports, ports[p] # NoId
             PROVE  Exists(ports[p]) \/ (mutex' # Free /\ task'[mutex'].id = ports[p])
  BY <1>1, <1>2 DEF NoPortLost, Exists
<1>3. Exists(ports[p]) \/ (mutex # Free /\ task[mutex].id = ports[p])
  BY DEF LossInv, NoPortLost
<1>4. mutex # Free /\ task[mutex].id = ports[p] => mutex' = mutex
  BY <1>2
<1> QED
  BY <1>1, <1>3, <1>4

LEMMA FaultsCount ==
    ASSUME TypeOK, NEW kind, Fault(kind)
    PROVE  faults' # 0
BY DEF Fault, TypeOK

LEMMA FaultAccounts ==
    ASSUME LossInv, NEW h \in Handlers, FaultStep(h)
    PROVE  (Held /\ NoPortLost)'
<1>1. faults' # 0
  BY FaultsCount DEF LossInv, PortInv, FaultStep, CheckNameFails, ActivateFails, CreateDnsRecordFails,
     CreateBlockFails, CreateFails, DeactivateFails, DeleteFails, DeleteRowFails, FreePortFails,
     RemoveDnsRecordFails, Abandon, ChargeCapRefused, RefundCapRefused
<1>2. CASE DeleteRowFails(h)
  <2>1. /\ task[h] \in Task("delete", DeleteSteps) /\ task[h].step = "delete_row"
        /\ mutex' = mutex /\ mutex = h
    BY <1>2, DeleteTask DEF DeleteRowFails, At, LossInv, PortInv, Locked, InSession
  <2>2. task'[h].step = "free"
    BY <1>2, <2>1 DEF DeleteRowFails, Task, LossInv, PortInv, TypeOK
  <2> QED
    BY <1>1, <2>1, <2>2 DEF Held, NoPortLost, InSession
<1>3. CASE ~ DeleteRowFails(h)
  <2>1. Quiet(h)
    BY <1>3, FaultQuiet DEF LossInv
  <2>2. task[h].step \notin InSession \/ mutex' = Free
    BY <1>3 DEF LossInv, PortInv, Locked, FaultStep, CheckNameFails, ActivateFails,
       CreateDnsRecordFails, CreateBlockFails, CreateFails, DeactivateFails, DeleteFails,
       FreePortFails, RemoveDnsRecordFails, Abandon, ChargeCapRefused, RefundCapRefused, At, InSession
  <2> QED
    BY <1>1, <2>1, <2>2, QuietAccounts
<1> QED
  BY <1>2, <1>3

\* The quiet steps outside the session.
LEMMA OutsideAccounts ==
    ASSUME LossInv, NEW h \in Handlers,
           \/ ReadCap(h) \/ CheckName(h) \/ ChargeCap(h) \/ ReadApplication(h) \/ Activate(h)
           \/ CreateDnsRecord(h) \/ GenerateConf(h) \/ CreateAuthority(h)
           \/ Deactivate(h) \/ RemoveConf(h) \/ ReadCapToRefund(h) \/ RefundCap(h)
           \/ RemoveDnsRecord(h) \/ ReadConf(h)
    PROVE  (Held /\ NoPortLost)'
<1>1. Quiet(h)
  BY CreateQuiet, DeleteQuiet, ReadConfQuiet DEF LossInv
<1>2. task[h].step \notin InSession /\ faults' = faults /\ mutex' = mutex
  BY DEF ReadCap, CheckName, ChargeCap, ReadApplication, Activate, CreateDnsRecord, GenerateConf,
     CreateAuthority, Deactivate, RemoveConf, ReadCapToRefund, RefundCap, RemoveDnsRecord, ReadConf,
     At, InSession
<1> QED
  BY <1>1, <1>2, QuietAccounts

\* The steps of the session: what its handler has taken or deleted is its own.
LEMMA SessionAccounts ==
    ASSUME LossInv, NEW h \in Handlers,
           \/ LockForCreate(h) \/ SelectPort(h) \/ TakePort(h) \/ InsertRow(h)
           \/ LockForDelete(h) \/ DeleteRow(h) \/ FreePort(h)
    PROVE  (Held /\ NoPortLost)'
<1> USE DEF LossInv
<1>0. /\ task[h] \in Task("create", CreateSteps) \/ task[h] \in Task("delete", DeleteSteps)
      /\ faults' = faults /\ h # Free /\ task[h].id \in Ids
  BY CreateTask, DeleteTask, FreeAssumption
     DEF LockForCreate, SelectPort, TakePort, InsertRow, LockForDelete, DeleteRow, FreePort, At,
         PortInv, Task
<1>1. CASE LockForCreate(h) \/ LockForDelete(h)
  <2>1. mutex = Free /\ mutex' = h /\ UNCHANGED <<rows, ports>>
    BY <1>1 DEF LockForCreate, LockForDelete, tables
  <2>2. task'[h].step \in {"select", "delete_row"}
    BY <1>0, <1>1 DEF LockForCreate, LockForDelete, Goto, Task, PortInv, TypeOK
  <2> QED
    BY <1>0, <2>1, <2>2 DEF Held, NoPortLost, Exists, InSession
<1>2. CASE SelectPort(h)
  <2>1. mutex = h /\ Creating(h) /\ UNCHANGED <<rows, ports>>
        /\ \A p \in Ports : ports[p] # task[h].id
    BY <1>2 DEF SelectPort, At, PortInv, Locked, InSession, Creating, Unwritten, Fresh, tables
  <2>2. CASE mutex' = Free
    BY <1>0, <2>1, <2>2 DEF Held, NoPortLost, Exists
  <2>3. ASSUME NEW p \in Ports, task' = [task EXCEPT ![h].port = p, ![h].step = "take"], mutex' = mutex
        PROVE  (Held /\ NoPortLost)'
    <3>1. task'[h].step = "take" /\ task'[h].id = task[h].id
      BY <1>0, <2>3 DEF Task, PortInv, TypeOK
    <3> QED
      BY <1>0, <2>1, <2>3, <3>1 DEF Held, NoPortLost, Exists, InSession
  <2> QED
    BY <1>2, <2>2, <2>3 DEF SelectPort
<1>3. CASE TakePort(h)
  <2>1. mutex = h /\ mutex' = h /\ rows' = rows
    BY <1>3 DEF TakePort, At, PortInv, Locked, InSession
  <2>2. task'[h].step = "insert" /\ task'[h].id = task[h].id
    BY <1>0, <1>3 DEF TakePort, Goto, Task, PortInv, TypeOK
  <2>3. \A p \in Ports : ports'[p] = ports[p] \/ ports'[p] = task[h].id
    BY <1>3 DEF TakePort, PortInv, TypeOK
  <2> QED
    BY <1>0, <2>1, <2>2, <2>3 DEF Held, NoPortLost, Exists, InSession
<1>4. CASE InsertRow(h)
  <2>1. mutex = h /\ mutex' = Free /\ ports' = ports
    BY <1>4 DEF InsertRow, At, PortInv, Locked, InSession
  <2> DEFINE r == [form |-> task[h].form, port |-> task[h].port, sub |-> task[h].sub,
                   rec |-> task[h].rec]
  <2>2. r # NoRow
    <3>1. r.port \in Ports
      BY <1>4 DEF InsertRow, PortInv, Taken, TakenBy
    <3> QED
      BY <3>1, PortsAssumption DEF NoRow
  <2>3. rows' = [rows EXCEPT ![task[h].id] = r]
    BY <1>4 DEF InsertRow
  <2> HIDE DEF r
  <2>4. \A i \in Ids : Exists(i) \/ i = task[h].id => Exists(i)'
    BY <1>0, <2>2, <2>3 DEF Exists, PortInv, TypeOK
  <2>5. \A p \in Ports : ports[p] # NoId => ports[p] \in Ids
    BY DEF PortInv, TypeOK
  <2> QED
    BY <1>0, <2>1, <2>4, <2>5 DEF Held, NoPortLost
<1>5. CASE DeleteRow(h)
  <2>1. mutex = h /\ mutex' = h /\ ports' = ports
    BY <1>5 DEF DeleteRow, At, PortInv, Locked, InSession
  <2>2. task'[h].step = "free" /\ task'[h].id = task[h].id
    BY <1>0, <1>5 DEF DeleteRow, Goto, Task, PortInv, TypeOK
  <2>3. \A i \in Ids : Exists(i) /\ i # task[h].id => Exists(i)'
    BY <1>5 DEF DeleteRow, Exists, PortInv, TypeOK
  <2>4. \A p \in Ports : ports[p] # NoId => ports[p] \in Ids
    BY DEF PortInv, TypeOK
  <2> QED
    BY <1>0, <2>1, <2>2, <2>3, <2>4 DEF Held, NoPortLost, InSession
<1>6. CASE FreePort(h)
  <2>1. mutex = h /\ mutex' = Free /\ rows' = rows
    BY <1>6 DEF FreePort, At, PortInv, Locked, InSession
  <2>2. \A p \in Ports : ports'[p] # NoId => ports'[p] = ports[p] /\ ports[p] # task[h].id
    <3>1. CASE \A p \in Ports : ports[p] # task[h].id
      BY <1>6, <3>1 DEF FreePort
    <3>2. ASSUME NEW p \in Ports, ports[p] = task[h].id
          PROVE  \A q \in Ports : ports'[q] # NoId => ports'[q] = ports[q] /\ ports[q] # task[h].id
      <4>1. PICK q \in Ports : ports[q] = task[h].id /\ ports' = [ports EXCEPT ![q] = NoId]
        BY <1>6, <3>2 DEF FreePort
      <4>2. \A k \in Ports : ports[k] = task[h].id => k = q
        BY <1>0, <4>1, NoIdAssumption DEF OnePort
      <4> QED
        BY <4>1, <4>2 DEF PortInv, TypeOK
    <3> QED
      BY <3>1, <3>2
  <2> QED
    BY <1>0, <2>1, <2>2 DEF Held, NoPortLost, Exists
<1> QED
  BY <1>1, <1>2, <1>3, <1>4, <1>5, <1>6

LEMMA BeginAccounts ==
    ASSUME LossInv, NEW h \in Handlers, NEW i \in Ids,
           \/ \E f \in Forms : BeginCreate(h, i, f)
           \/ BeginDelete(h, i)
    PROVE  (Held /\ NoPortLost)'
<1>1. UNCHANGED <<rows, ports, mutex, faults>> /\ ~ Working(h)
  BY DEF BeginCreate, BeginDelete, tables
<1>2. \A g \in Handlers : g # h => task'[g] = task[g]
  BY DEF BeginCreate, BeginDelete, LossInv, PortInv, TypeOK
<1>3. mutex # Free => mutex \in Handlers /\ mutex # h
  BY <1>1 DEF LossInv, Held, PortInv, TypeOK, Working, InSession
<1> QED
  BY <1>1, <1>2, <1>3 DEF LossInv, Held, NoPortLost, Exists

LEMMA LossInvStep == LossInv /\ [Next]_vars => LossInv'
<1> SUFFICES ASSUME LossInv, [Next]_vars PROVE LossInv'
  OBVIOUS
<1>1. PortInv' /\ OnePort'
  BY PortInvStep, OnePortStep DEF LossInv
<1> SUFFICES (Held /\ NoPortLost)'
  BY <1>1 DEF LossInv
<1>2. CASE UNCHANGED vars
  BY <1>2 DEF vars, tables, LossInv, Held, NoPortLost, Exists
<1>3. ASSUME NEW h \in Handlers, CreateStep(h) PROVE (Held /\ NoPortLost)'
  BY <1>3, OutsideAccounts, SessionAccounts DEF CreateStep
<1>4. ASSUME NEW h \in Handlers, DeleteStep(h) PROVE (Held /\ NoPortLost)'
  BY <1>4, OutsideAccounts, SessionAccounts DEF DeleteStep
<1>5. ASSUME NEW h \in Handlers, FaultStep(h) PROVE (Held /\ NoPortLost)'
  BY <1>5, FaultAccounts
<1>6. ASSUME NEW h \in Handlers, ReadConf(h) PROVE (Held /\ NoPortLost)'
  BY <1>6, OutsideAccounts
<1> QED
  BY <1>2, <1>3, <1>4, <1>5, <1>6, BeginAccounts DEF Next

LEMMA LossInvInit == Init => LossInv
<1> SUFFICES ASSUME Init PROVE LossInv
  OBVIOUS
<1>1. mutex = Free /\ \A p \in Ports : ports[p] = NoId
  BY DEF Init
<1> QED
  BY <1>1, PortInvInit DEF LossInv, Held, OnePort, NoPortLost

\* Until something fails, every taken port belongs to a block or to the handler
\* in the session, for any number of creations and deletions and whatever order
\* they run in, two deletions of one block included (service.rs:274-333).
THEOREM PortsAccounted == Spec => []NoPortLost
<1>1. LossInv => NoPortLost
  BY DEF LossInv
<1> QED
  BY <1>1, LossInvInit, LossInvStep, PTL DEF Spec
=============================================================================

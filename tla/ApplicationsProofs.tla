--------------------------- MODULE ApplicationsProofs ---------------------------
(***************************************************************************)
(* Proofs about Applications, for every number of users, requests and      *)
(* faults: types, the authority of every finished application, and the     *)
(* block caps of its versions; and, while requests have not overlapped,    *)
(* that the caps fit the lists, the active version is listed, names are    *)
(* unique and nothing outlives an application.                             *)
(***************************************************************************)
EXTENDS Applications, TLAPS, FiniteSetTheorems

\* Requests come from the owner of the application they are about.
Owners ==
    /\ \A h \in Handlers : Working(h) => maker[task[h].id] = task[h].user
    /\ \A h \in Handlers : task[h].kind = "delete" => task[h].id \in deleting
    /\ \A i \in Rows : maker[i] \in Users /\ apps[i].owner \in {maker[i], Nobody}
    /\ \A i \in created \cup deleting : maker[i] \in Users

\* An id has one creation, which is over when it is reported.
Creations ==
    /\ \A h, g \in Handlers :
         task[h].kind = "create" /\ task[g].kind = "create" /\ task[h].id = task[g].id => h = g
    /\ \A h \in Handlers : task[h].kind = "create" => task[h].id \notin created

\* From create_authority on, the owner has the authority.
WithAuthority == {"version_cap", "block_cap", "bucket"}
Writers ==
    /\ WriterExists
    /\ \A h \in Handlers : task[h].kind = "create" /\ task[h].step \in WithAuthority =>
         task[h].id \in deleting \/ <<task[h].user, task[h].id>> \in authority

\* Only the first version of an unfinished application is listed without cap.
AfterInsert == {"authority"} \cup WithAuthority
Capped ==
    /\ \A i \in created : maker[i] \notin Purgers => i \in Rows
    /\ \A i \in Rows : maker[i] \notin Purgers =>
         \A v \in apps[i].versions : blockCaps[i][v] > 0 \/ (v = FirstVersion /\ i \notin created)
    /\ \A h \in Handlers : task[h].user \notin Purgers =>
         /\ task[h].kind = "create" /\ task[h].step \in AfterInsert => task[h].id \in Rows
         /\ At(h, "create", "bucket") => blockCaps[task[h].id][FirstVersion] > 0
         /\ At(h, "version", "append") => blockCaps[task[h].id][task[h].version] > 0

AppInv == TypeOK /\ Owners /\ Creations /\ Writers /\ Capped

-----------------------------------------------------------------------------
(* Types *)

TablesOK ==
    /\ apps \in [Ids -> Row \cup {NoApp}]
    /\ appCap \in [Users -> Int]
    /\ versionCap \in [Ids -> Int]
    /\ blockCaps \in [Ids -> [Versions -> Nat]]
    /\ authority \subseteq Users \X Ids
    /\ buckets \subseteq Names

HistoryOK ==
    /\ maker \in [Ids -> Users \cup {Nobody}]
    /\ created \subseteq Ids /\ deleting \subseteq Ids
    /\ requests \in Nat
    /\ overlap \in BOOLEAN

LEMMA TypeParts == TypeOK <=> task \in [Handlers -> Tasks] /\ TablesOK /\ HistoryOK /\ faults \in Nat
BY DEF TypeOK, TablesOK, HistoryOK

LEMMA TypePartsNext ==
    TypeOK' <=> (task \in [Handlers -> Tasks])' /\ TablesOK' /\ HistoryOK' /\ faults' \in Nat
BY DEF TypeOK, TablesOK, HistoryOK, Tasks, Task, Idle, Row

LEMMA WorkingTask ==
    ASSUME TypeOK, NEW h \in Handlers, task[h].kind # "none"
    PROVE  /\ task[h].user \in Users /\ task[h].id \in Ids /\ task[h].cap \in Int
           /\ Working(h)
           /\ task[h].kind = "create" => task[h].name \in Names /\ task[h].version = FirstVersion
           /\ task[h].kind \in {"version", "remove", "activate"} => task[h].version \in Versions
BY DEF TypeOK, Tasks, Task, Idle, Working

LEMMA Kept ==
    ASSUME TypeOK, NEW h \in Handlers, NEW t \in Tasks, task' = [task EXCEPT ![h] = t]
    PROVE  /\ task' \in [Handlers -> Tasks]
           /\ task'[h] = t
           /\ \A g \in Handlers : g # h => task'[g] = task[g]
BY DEF TypeOK

LEMMA Moved ==
    ASSUME TypeOK, NEW h \in Handlers, task[h].kind # "none", NEW s \in Steps, NEW c \in Int
    PROVE  /\ [task[h] EXCEPT !.step = s] \in Tasks
           /\ [task[h] EXCEPT !.step = s, !.cap = c] \in Tasks
<1>1. \A K, N, V : task[h] \in Task(K, N, V) =>
        /\ [task[h] EXCEPT !.step = s] \in Task(K, N, V)
        /\ [task[h] EXCEPT !.step = s, !.cap = c] \in Task(K, N, V)
  BY DEF Task
<1>2. task[h] \in Tasks /\ task[h] # Idle
  BY DEF TypeOK, Idle
<1> QED
  BY <1>1, <1>2 DEF Tasks

LEMMA GotoTyped ==
    ASSUME TypeOK, NEW h \in Handlers, task[h].kind # "none", NEW s \in Steps, Goto(h, s)
    PROVE  task' \in [Handlers -> Tasks]
<1>1. [task[h] EXCEPT !.step = s] \in Tasks
  <2>1. 0 \in Int
    OBVIOUS
  <2> QED
    BY <2>1, Moved
<1>2. task' = [task EXCEPT ![h] = [task[h] EXCEPT !.step = s]]
  BY DEF Goto
<1> QED
  BY <1>1, <1>2, Kept

LEMMA GotoWithTyped ==
    ASSUME TypeOK, NEW h \in Handlers, task[h].kind # "none", NEW s \in Steps, NEW c \in Int,
           GotoWith(h, s, c)
    PROVE  task' \in [Handlers -> Tasks]
<1>1. [task[h] EXCEPT !.step = s, !.cap = c] \in Tasks
  BY Moved
<1>2. task' = [task EXCEPT ![h] = [task[h] EXCEPT !.step = s, !.cap = c]]
  BY DEF GotoWith
<1> QED
  BY <1>1, <1>2, Kept

LEMMA ReturnTyped ==
    ASSUME TypeOK, NEW h \in Handlers, Return(h)
    PROVE  task' \in [Handlers -> Tasks]
BY Kept DEF Return, Tasks

LEMMA RowExists == NoApp \notin Row
BY NullAssumption DEF NoApp, Row, NoOwner, Nobody

LEMMA InitType == Init => TypeOK
<1> SUFFICES ASSUME Init PROVE TypeOK
  OBVIOUS
<1>1. task \in [Handlers -> Tasks]
  BY DEF Init, Tasks
<1>2. TablesOK
  BY TiersAssumption DEF Init, TablesOK, NoCap
<1>3. HistoryOK /\ faults \in Nat
  BY DEF Init, HistoryOK
<1> QED
  BY <1>1, <1>2, <1>3, TypeParts

LEMMA BeginType ==
    ASSUME TypeOK, NEW h \in Handlers, NEW kind, NEW first \in Steps, NEW u \in Users,
           NEW i \in Ids, NEW n, NEW v, Begin(h, kind, first, u, i, n, v),
           \/ kind = "create" /\ n \in Names /\ v = FirstVersion
           \/ kind \in {"version", "remove", "activate"} /\ n = Nobody /\ v \in Versions
           \/ kind = "delete" /\ n = Nobody /\ v = Nobody,
           maker' \in [Ids -> Users \cup {Nobody}], deleting' \subseteq Ids
    PROVE  TypeOK'
<1> DEFINE t == [kind |-> kind, step |-> first, user |-> u, id |-> i, name |-> n,
                 version |-> v, cap |-> 0]
<1>1. t \in Tasks
  BY DEF Tasks, Task
<1>2. task' \in [Handlers -> Tasks]
  BY <1>1, Kept DEF Begin
<1>3. TablesOK'
  BY TypeParts DEF Begin, TablesOK, tables
<1>4. HistoryOK' /\ faults' \in Nat
  BY TypeParts DEF Begin, HistoryOK
<1> QED
  BY <1>2, <1>3, <1>4, TypePartsNext

LEMMA CreateStepType ==
    ASSUME TypeOK, NEW h \in Handlers, CreateStep(h)
    PROVE  TypeOK'
<1> USE TypeParts, TypePartsNext
<1>1. CASE ReadAppCap(h)
  <2>1. task[h].kind # "none" /\ appCap[task[h].user] \in Int
    BY <1>1, WorkingTask DEF ReadAppCap, At, TypeOK
  <2>2. task' \in [Handlers -> Tasks]
    BY <1>1, <2>1, ReturnTyped, GotoWithTyped DEF ReadAppCap, Steps
  <2> QED
    BY <1>1, <2>2 DEF ReadAppCap, TablesOK, HistoryOK, tables, history
<1>2. CASE CheckName(h)
  <2>1. task' \in [Handlers -> Tasks]
    BY <1>2, ReturnTyped, GotoTyped DEF CheckName, At, Steps
  <2> QED
    BY <1>2, <2>1 DEF CheckName, TablesOK, HistoryOK, tables, history
<1>3. CASE ChargeApp(h)
  <2>1. task' \in [Handlers -> Tasks]
    BY <1>3, GotoTyped DEF ChargeApp, At, Steps
  <2>2. task[h].user \in Users /\ task[h].cap \in Int
    BY <1>3, WorkingTask DEF ChargeApp, At
  <2>3. appCap' \in [Users -> Int]
    BY <1>3, <2>2 DEF ChargeApp, TypeOK
  <2> QED
    BY <1>3, <2>1, <2>3 DEF ChargeApp, TablesOK, HistoryOK, history
<1>4. CASE InsertRow(h)
  <2>1. task' \in [Handlers -> Tasks]
    BY <1>4, GotoTyped DEF InsertRow, At, Steps
  <2>2. task[h].user \in Users /\ task[h].name \in Names /\ task[h].id \in Ids
    BY <1>4, WorkingTask DEF InsertRow, At
  <2>3. [owner |-> task[h].user, name |-> task[h].name,
          versions |-> {FirstVersion}, active |-> FirstVersion] \in Row
    BY <2>2, VersionsAssumption DEF Row
  <2>4. apps' \in [Ids -> Row \cup {NoApp}]
    BY <1>4, <2>2, <2>3 DEF InsertRow, TypeOK
  <2> QED
    BY <1>4, <2>1, <2>4 DEF InsertRow, TablesOK, HistoryOK, history
<1>5. CASE CreateAuthority(h)
  <2>1. task' \in [Handlers -> Tasks]
    BY <1>5, GotoTyped DEF CreateAuthority, At, Steps
  <2>2. task[h].user \in Users /\ task[h].id \in Ids
    BY <1>5, WorkingTask DEF CreateAuthority, At
  <2>3. authority' \subseteq Users \X Ids
    BY <1>5, <2>2 DEF CreateAuthority, TypeOK
  <2> QED
    BY <1>5, <2>1, <2>3 DEF CreateAuthority, TablesOK, HistoryOK, history
<1>6. CASE CreateVersionCap(h)
  <2>1. task' \in [Handlers -> Tasks]
    BY <1>6, GotoTyped DEF CreateVersionCap, At, Steps
  <2>2. versionCap' \in [Ids -> Int]
    <3>1. VersionTier - 1 \in Int
      BY TiersAssumption
    <3> QED
      BY <1>6, <3>1 DEF CreateVersionCap, TypeOK
  <2> QED
    BY <1>6, <2>1, <2>2 DEF CreateVersionCap, TablesOK, HistoryOK, history
<1>7. CASE CreateBlockCap(h)
  <2>1. task[h].kind \in {"create", "version"}
    BY <1>7 DEF CreateBlockCap, At
  <2>2. task' \in [Handlers -> Tasks]
    BY <1>7, <2>1, GotoTyped DEF CreateBlockCap, Steps
  <2>3. task[h].id \in Ids /\ task[h].version \in Versions
    BY <2>1, WorkingTask, VersionsAssumption
  <2>4. blockCaps' \in [Ids -> [Versions -> Nat]]
    BY <1>7, <2>3 DEF CreateBlockCap, TypeOK
  <2> QED
    BY <1>7, <2>2, <2>4 DEF CreateBlockCap, TablesOK, HistoryOK, history
<1>8. CASE CreateBucket(h)
  <2>1. task' \in [Handlers -> Tasks]
    BY <1>8, ReturnTyped DEF CreateBucket
  <2>2. task[h].name \in Names /\ task[h].id \in Ids
    BY <1>8, WorkingTask DEF CreateBucket, At
  <2>3. buckets' \subseteq Names /\ created' \subseteq Ids
    BY <1>8, <2>2 DEF CreateBucket, TypeOK
  <2> QED
    BY <1>8, <2>1, <2>3 DEF CreateBucket, TablesOK, HistoryOK
<1> QED
  BY <1>1, <1>2, <1>3, <1>4, <1>5, <1>6, <1>7, <1>8 DEF CreateStep

LEMMA UpsertTyped ==
    ASSUME TypeOK, NEW i \in Ids
    PROVE  Upsert(i) \in Row
BY DEF TypeOK, Upsert, Rows, Ghost, Row

LEMMA VersionStepType ==
    ASSUME TypeOK, NEW h \in Handlers, VersionStep(h)
    PROVE  TypeOK'
<1> USE TypeParts, TypePartsNext
<1>0. /\ task[h].kind \in {"version", "remove", "activate"}
      /\ task[h].id \in Ids /\ task[h].version \in Versions /\ task[h].cap \in Int
  BY WorkingTask DEF VersionStep, ReadVersionCap, ChargeVersion, AppendVersion, DeleteVersion,
                     UpdateActiveVersion, At
<1>1. CASE ReadVersionCap(h)
  <2>1. versionCap[task[h].id] \in Int
    BY <1>0 DEF TypeOK
  <2>2. task' \in [Handlers -> Tasks]
    BY <1>0, <1>1, <2>1, ReturnTyped, GotoWithTyped DEF ReadVersionCap, Steps
  <2> QED
    BY <1>1, <2>2 DEF ReadVersionCap, TablesOK, HistoryOK, tables, history
<1>2. CASE ChargeVersion(h)
  <2>1. task' \in [Handlers -> Tasks]
    BY <1>0, <1>2, GotoTyped DEF ChargeVersion, Steps
  <2>2. versionCap' \in [Ids -> Int]
    BY <1>0, <1>2 DEF ChargeVersion, TypeOK
  <2> QED
    BY <1>2, <2>1, <2>2 DEF ChargeVersion, TablesOK, HistoryOK, history
<1>3. CASE AppendVersion(h)
  <2>1. task' \in [Handlers -> Tasks]
    BY <1>3, ReturnTyped DEF AppendVersion
  <2>2. [Upsert(task[h].id) EXCEPT !.versions = @ \cup {task[h].version}] \in Row
    BY <1>0, UpsertTyped DEF Row
  <2>3. apps' \in [Ids -> Row \cup {NoApp}]
    BY <1>0, <1>3, <2>2 DEF AppendVersion, TypeOK
  <2> QED
    BY <1>3, <2>1, <2>3 DEF AppendVersion, TablesOK, HistoryOK, history
<1>4. CASE DeleteVersion(h)
  <2>1. task' \in [Handlers -> Tasks]
    BY <1>4, ReturnTyped DEF DeleteVersion
  <2>2. task[h].id \in Rows => apps[task[h].id] \in Row
    BY <1>0 DEF TypeOK, Rows
  <2>3. task[h].id \in Rows =>
          [apps[task[h].id] EXCEPT !.versions = @ \ {task[h].version}] \in Row
    BY <2>2 DEF Row
  <2>4. task[h].id \in Rows => apps' = [apps EXCEPT ![task[h].id] =
          [apps[task[h].id] EXCEPT !.versions = @ \ {task[h].version}]]
    BY <1>4 DEF DeleteVersion
  <2>5. task[h].id \notin Rows => apps' = apps
    BY <1>4 DEF DeleteVersion
  <2>6. apps' \in [Ids -> Row \cup {NoApp}]
    BY <1>0, <2>3, <2>4, <2>5 DEF TypeOK
  <2> QED
    BY <1>4, <2>1, <2>6 DEF DeleteVersion, TablesOK, HistoryOK, history
<1>5. CASE UpdateActiveVersion(h)
  <2>1. task' \in [Handlers -> Tasks]
    BY <1>5, ReturnTyped DEF UpdateActiveVersion
  <2>2. [Upsert(task[h].id) EXCEPT !.active = task[h].version] \in Row
    BY <1>0, UpsertTyped DEF Row
  <2>3. apps' \in [Ids -> Row \cup {NoApp}]
    BY <1>0, <1>5, <2>2 DEF UpdateActiveVersion, TypeOK
  <2> QED
    BY <1>5, <2>1, <2>3 DEF UpdateActiveVersion, TablesOK, HistoryOK, history
<1> QED
  BY <1>1, <1>2, <1>3, <1>4, <1>5 DEF VersionStep

LEMMA DeleteStepType ==
    ASSUME TypeOK, NEW h \in Handlers, DeleteStep(h)
    PROVE  TypeOK'
<1> USE TypeParts, TypePartsNext
<1>0. task[h].kind = "delete" /\ task[h].user \in Users /\ task[h].id \in Ids /\ task[h].cap \in Int
  BY WorkingTask DEF DeleteStep, CheckAuthority, ReadAppCapToRefund, RefundApp, DeleteAuthority,
                     DeleteVersionCaps, DeleteBlockCaps, ReadRow, DeleteRow, DeleteBucket, At
<1>1. CASE CheckAuthority(h)
  <2>1. task' \in [Handlers -> Tasks]
    BY <1>0, <1>1, ReturnTyped, GotoTyped DEF CheckAuthority, Steps
  <2> QED
    BY <1>1, <2>1 DEF CheckAuthority, TablesOK, HistoryOK, tables, history
<1>2. CASE ReadAppCapToRefund(h)
  <2>1. appCap[task[h].user] \in Int
    BY <1>0 DEF TypeOK
  <2>2. task' \in [Handlers -> Tasks]
    BY <1>0, <1>2, <2>1, GotoWithTyped DEF ReadAppCapToRefund, Steps
  <2> QED
    BY <1>2, <2>2 DEF ReadAppCapToRefund, TablesOK, HistoryOK, tables, history
<1>3. CASE RefundApp(h)
  <2>1. task' \in [Handlers -> Tasks]
    BY <1>0, <1>3, GotoTyped DEF RefundApp, Steps
  <2>2. appCap' \in [Users -> Int]
    BY <1>0, <1>3 DEF RefundApp, TypeOK
  <2> QED
    BY <1>3, <2>1, <2>2 DEF RefundApp, TablesOK, HistoryOK, history
<1>4. CASE DeleteAuthority(h)
  <2>1. task' \in [Handlers -> Tasks]
    BY <1>0, <1>4, GotoTyped DEF DeleteAuthority, Steps
  <2>2. authority' \subseteq Users \X Ids
    BY <1>4 DEF DeleteAuthority, TypeOK
  <2> QED
    BY <1>4, <2>1, <2>2 DEF DeleteAuthority, TablesOK, HistoryOK, history
<1>5. CASE DeleteVersionCaps(h)
  <2>1. task' \in [Handlers -> Tasks]
    BY <1>0, <1>5, GotoTyped DEF DeleteVersionCaps, Steps
  <2>2. versionCap' \in [Ids -> Int]
    BY <1>5 DEF DeleteVersionCaps, TypeOK, NoCap
  <2> QED
    BY <1>5, <2>1, <2>2 DEF DeleteVersionCaps, TablesOK, HistoryOK, history
<1>6. CASE DeleteBlockCaps(h)
  <2>1. task' \in [Handlers -> Tasks]
    BY <1>0, <1>6, GotoTyped DEF DeleteBlockCaps, Steps
  <2>2. blockCaps' \in [Ids -> [Versions -> Nat]]
    BY <1>6 DEF DeleteBlockCaps, TypeOK
  <2> QED
    BY <1>6, <2>1, <2>2 DEF DeleteBlockCaps, TablesOK, HistoryOK, history
<1>7. CASE ReadRow(h)
  <2> DEFINE t == [task[h] EXCEPT !.name = apps[task[h].id].name, !.step = "row"]
  <2>1. task[h] \in Task({"delete"}, Names \cup {Nobody}, {Nobody})
    BY <1>0 DEF TypeOK, Tasks, Task, Idle
  <2>2. task[h].id \in Rows => apps[task[h].id].name \in Names \cup {Nobody}
    BY <1>0 DEF TypeOK, Rows, Row
  <2>3. task[h].id \in Rows => t \in Tasks
    BY <2>1, <2>2 DEF Tasks, Task, Steps
  <2>4. Return(h) \/ (task[h].id \in Rows /\ task' = [task EXCEPT ![h] = t])
    BY <1>7 DEF ReadRow
  <2> HIDE DEF t
  <2>5. task' \in [Handlers -> Tasks]
    BY <2>3, <2>4, ReturnTyped, Kept
  <2> QED
    BY <1>7, <2>5 DEF ReadRow, TablesOK, HistoryOK, tables, history
<1>8. CASE DeleteRow(h)
  <2>1. task' \in [Handlers -> Tasks]
    BY <1>0, <1>8, GotoTyped DEF DeleteRow, Steps
  <2>2. apps' \in [Ids -> Row \cup {NoApp}]
    BY <1>0, <1>8 DEF DeleteRow, TypeOK
  <2> QED
    BY <1>8, <2>1, <2>2 DEF DeleteRow, TablesOK, HistoryOK, history
<1>9. CASE DeleteBucket(h)
  <2>1. task' \in [Handlers -> Tasks] /\ buckets' \subseteq Names
    BY <1>9, ReturnTyped DEF DeleteBucket, TypeOK
  <2> QED
    BY <1>9, <2>1 DEF DeleteBucket, TablesOK, HistoryOK, history
<1> QED
  BY <1>1, <1>2, <1>3, <1>4, <1>5, <1>6, <1>7, <1>8, <1>9 DEF DeleteStep

\* The steps of Next that are faults.
FaultStep(h) == CheckNameFails(h) \/ Stops(h) \/ CapRefused(h)

LEMMA FaultStepType ==
    ASSUME TypeOK, NEW h \in Handlers, FaultStep(h)
    PROVE  TypeOK'
<1> USE TypeParts, TypePartsNext
<1>0. Fault => faults' \in Nat
  BY DEF Fault, TypeOK
<1>1. CASE CheckNameFails(h)
  <2>1. task' \in [Handlers -> Tasks]
    BY <1>1, GotoTyped DEF CheckNameFails, At, Steps
  <2> QED
    BY <1>0, <1>1, <2>1 DEF CheckNameFails, TablesOK, HistoryOK, tables, history
<1>2. CASE Stops(h)
  <2>1. task' \in [Handlers -> Tasks]
    BY <1>2, ReturnTyped DEF Stops
  <2> QED
    BY <1>0, <1>2, <2>1 DEF Stops, TablesOK, HistoryOK, tables, history
<1>3. CASE CapRefused(h)
  <2>1. task' \in [Handlers -> Tasks]
    BY <1>3, GotoTyped DEF CapRefused, At, Steps
  <2> QED
    BY <1>0, <1>3, <2>1 DEF CapRefused, TablesOK, HistoryOK, tables, history
<1> QED
  BY <1>1, <1>2, <1>3 DEF FaultStep

-----------------------------------------------------------------------------
(* What a step of a request does to the parts of the invariant *)

\* It goes on with the same request or ends it, and writes its own row only.
Follows(h) ==
    /\ Working(h)
    /\ UNCHANGED <<maker, deleting>>
    /\ \/ created' = created
       \/ At(h, "create", "bucket") /\ created' = created \cup {task[h].id} /\ Return(h)
    /\ \E t \in Tasks :
         /\ task' = [task EXCEPT ![h] = t]
         /\ t = Idle \/ (t.kind = task[h].kind /\ t.user = task[h].user /\ t.id = task[h].id)
    /\ \A i \in Rows' :
         \/ i \in Rows /\ apps'[i].owner = apps[i].owner
         \/ i = task[h].id /\ apps'[i].owner \in {task[h].user, Nobody}

\* It takes no authority but one that is being deleted.
KeepsAuthority(h) ==
    /\ \A u \in Users, i \in Ids : <<u, i>> \in authority => <<u, i>> \in authority' \/ i \in deleting
    /\ task'[h].kind = "create" /\ task'[h].step \in WithAuthority =>
         task[h].step \in WithAuthority \/ <<task[h].user, task[h].id>> \in authority'

\* It takes no row and no cap of a user who deletes nothing, and lists no version
\* without a cap but the first of a new application.
KeepsCaps(h) ==
    /\ \A i \in Rows : maker[i] \notin Purgers => i \in Rows'
    /\ \A i \in Ids, v \in Versions :
         maker[i] \notin Purgers /\ blockCaps[i][v] > 0 => blockCaps'[i][v] > 0
    /\ \A i \in Rows' : maker[i] \notin Purgers => \A v \in apps'[i].versions :
         \/ i \in Rows /\ v \in apps[i].versions
         \/ blockCaps'[i][v] > 0
         \/ v = FirstVersion /\ i \notin created'
    /\ task[h].user \notin Purgers =>
         /\ task'[h].kind = "create" /\ task'[h].step \in AfterInsert =>
              task[h].step \in AfterInsert \/ task[h].id \in Rows'
         /\ task'[h].kind = "create" /\ task'[h].step = "bucket" =>
              blockCaps'[task[h].id][FirstVersion] > 0
         /\ task'[h].kind = "version" /\ task'[h].step = "append" =>
              blockCaps'[task[h].id][task'[h].version] > 0

\* The local variables of the handlers after such a step.
LEMMA Followed ==
    ASSUME AppInv, NEW h \in Handlers, Follows(h)
    PROVE  /\ \A g \in Handlers : g # h => task'[g] = task[g]
           /\ task'[h] \in Tasks
           /\ task'[h] = Idle \/ (/\ task'[h].kind = task[h].kind
                                  /\ task'[h].user = task[h].user
                                  /\ task'[h].id = task[h].id)
           /\ task[h].user \in Users /\ task[h].id \in Ids
           /\ maker[task[h].id] = task[h].user
<1>1. task[h].kind # "none"
  BY DEF Follows, Working, AppInv, TypeOK, Tasks, Task
<1>2. task[h].user \in Users /\ task[h].id \in Ids
  BY <1>1, WorkingTask DEF AppInv
<1> QED
  BY <1>2, Kept DEF Follows, AppInv, Owners

LEMMA FollowsOwners ==
    ASSUME AppInv, NEW h \in Handlers, Follows(h)
    PROVE  Owners' /\ Creations'
<1> USE Followed
<1>1. \A g \in Handlers : Working(g)' =>
        Working(g) /\ task'[g].kind = task[g].kind /\ task'[g].user = task[g].user
                   /\ task'[g].id = task[g].id
  BY DEF Follows, Working, Idle
<1>2. \A g \in Handlers : task'[g].kind \in {"create", "delete"} => Working(g)'
  BY DEF Working, Idle
<1>3. \A g \in Handlers : Working(g)' => maker'[task'[g].id] = task'[g].user
  BY <1>1 DEF Follows, AppInv, Owners
<1>4. \A g \in Handlers : task'[g].kind = "delete" => task'[g].id \in deleting'
  BY <1>1, <1>2 DEF Follows, AppInv, Owners
<1>5. \A i \in Rows' : maker'[i] \in Users /\ apps'[i].owner \in {maker'[i], Nobody}
  BY DEF Follows, AppInv, Owners
<1>6. \A i \in (created \cup deleting)' : maker'[i] \in Users
  BY DEF Follows, AppInv, Owners
<1>7. \A g, k \in Handlers :
        task'[g].kind = "create" /\ task'[k].kind = "create" /\ task'[g].id = task'[k].id => g = k
  BY <1>1, <1>2 DEF AppInv, Creations
<1>8. \A g \in Handlers : task'[g].kind = "create" => task'[g].id \notin created'
  <2> SUFFICES ASSUME NEW g \in Handlers, task'[g].kind = "create" PROVE task'[g].id \notin created'
    OBVIOUS
  <2>1. task[g].kind = "create" /\ task'[g].id = task[g].id /\ task[g].id \notin created
    BY <1>1, <1>2 DEF AppInv, Creations
  <2>2. CASE created' = created
    BY <2>1, <2>2
  <2>3. CASE At(h, "create", "bucket") /\ created' = created \cup {task[h].id} /\ Return(h)
    <3>1. g # h
      BY <2>3, Kept DEF Return, Idle, AppInv, Tasks
    <3>2. task[g].id # task[h].id
      BY <2>1, <2>3, <3>1 DEF At, AppInv, Creations
    <3> QED
      BY <2>1, <2>3, <3>2
  <2> QED
    BY <2>2, <2>3 DEF Follows
<1>9. Owners'
  BY <1>3, <1>4, <1>5, <1>6 DEF Owners
<1> QED
  BY <1>7, <1>8, <1>9 DEF Creations

LEMMA FollowsWriters ==
    ASSUME AppInv, NEW h \in Handlers, Follows(h), KeepsAuthority(h)
    PROVE  Writers'
<1> USE Followed
<1>1. \A i \in created' \ deleting' : <<maker'[i], i>> \in authority'
  <2> SUFFICES ASSUME NEW i \in created' \ deleting' PROVE <<maker'[i], i>> \in authority'
    OBVIOUS
  <2>1. maker'[i] = maker[i] /\ i \notin deleting
    BY DEF Follows
  <2>2. <<maker[i], i>> \in authority
    <3>1. CASE i \in created
      BY <2>1, <3>1 DEF AppInv, Writers, WriterExists
    <3>2. CASE i \notin created
      <4>1. i = task[h].id /\ At(h, "create", "bucket")
        BY <3>2 DEF Follows
      <4> QED
        BY <2>1, <4>1 DEF At, WithAuthority, AppInv, Writers
    <3> QED
      BY <3>1, <3>2
  <2>3. maker[i] \in Users /\ i \in Ids
    BY <2>2 DEF AppInv, TypeOK
  <2> QED
    BY <2>1, <2>2, <2>3 DEF KeepsAuthority
<1>2. \A g \in Handlers : task'[g].kind = "create" /\ task'[g].step \in WithAuthority =>
        task'[g].id \in deleting' \/ <<task'[g].user, task'[g].id>> \in authority'
  <2> SUFFICES ASSUME NEW g \in Handlers, task'[g].kind = "create", task'[g].step \in WithAuthority,
                      task'[g].id \notin deleting'
               PROVE  <<task'[g].user, task'[g].id>> \in authority'
    OBVIOUS
  <2>1. deleting' = deleting
    BY DEF Follows
  <2>2. task[g].kind = "create" /\ task'[g].user = task[g].user /\ task'[g].id = task[g].id
    BY DEF Idle
  <2>3. task[g].user \in Users /\ task[g].id \in Ids
    BY <2>2, WorkingTask DEF AppInv
  <2>4. CASE task[g].step \in WithAuthority
    <3>1. <<task[g].user, task[g].id>> \in authority
      BY <2>1, <2>2, <2>4 DEF AppInv, Writers
    <3> QED
      BY <2>1, <2>2, <2>3, <3>1 DEF KeepsAuthority
  <2>5. CASE task[g].step \notin WithAuthority
    <3>1. g = h
      BY <2>5
    <3> QED
      BY <2>2, <2>5, <3>1 DEF KeepsAuthority
  <2> QED
    BY <2>4, <2>5
<1> QED
  BY <1>1, <1>2 DEF Writers, WriterExists

LEMMA FollowsCapped ==
    ASSUME AppInv, NEW h \in Handlers, Follows(h), KeepsCaps(h), TypeOK'
    PROVE  Capped'
<1> USE Followed
<1>0. Purgers' = Purgers /\ maker' = maker
  BY DEF Follows, Purgers
<1>1. ASSUME NEW i \in created', maker[i] \notin Purgers PROVE i \in Rows'
  <2>1. CASE i \in created
    BY <1>1, <2>1 DEF AppInv, Capped, KeepsCaps
  <2>2. CASE i \notin created
    <3>1. i = task[h].id /\ At(h, "create", "bucket")
      BY <2>2 DEF Follows
    <3>2. i \in Rows
      BY <1>1, <3>1 DEF At, AppInv, Capped, AfterInsert, WithAuthority
    <3> QED
      BY <1>1, <3>2 DEF KeepsCaps
  <2> QED
    BY <2>1, <2>2
<1>2. ASSUME NEW i \in Rows', maker[i] \notin Purgers, NEW v \in apps'[i].versions
      PROVE  blockCaps'[i][v] > 0 \/ (v = FirstVersion /\ i \notin created')
  <2> SUFFICES ASSUME i \in Rows, v \in apps[i].versions
               PROVE  blockCaps'[i][v] > 0 \/ (v = FirstVersion /\ i \notin created')
    BY <1>2 DEF KeepsCaps
  <2>1. i \in Ids /\ v \in Versions
    BY RowExists DEF Rows, AppInv, TypeOK, Row
  <2>2. CASE blockCaps[i][v] > 0
    BY <1>2, <2>1, <2>2 DEF KeepsCaps
  <2>3. CASE v = FirstVersion /\ i \notin created
    <3> SUFFICES ASSUME i \in created' PROVE blockCaps'[i][v] > 0
      BY <2>3
    <3>1. i = task[h].id /\ At(h, "create", "bucket")
      BY <2>3 DEF Follows
    <3>2. blockCaps[i][v] > 0
      BY <1>2, <2>3, <3>1 DEF AppInv, Capped
    <3> QED
      BY <1>2, <2>1, <3>2 DEF KeepsCaps
  <2> QED
    BY <1>2, <2>2, <2>3 DEF AppInv, Capped
<1>3. ASSUME NEW g \in Handlers, task'[g].user \notin Purgers
      PROVE  /\ task'[g].kind = "create" /\ task'[g].step \in AfterInsert => task'[g].id \in Rows'
             /\ task'[g].kind = "create" /\ task'[g].step = "bucket" =>
                  blockCaps'[task'[g].id][FirstVersion] > 0
             /\ task'[g].kind = "version" /\ task'[g].step = "append" =>
                  blockCaps'[task'[g].id][task'[g].version] > 0
  <2> SUFFICES ASSUME task'[g].kind \in {"create", "version"}
               PROVE  /\ task'[g].kind = "create" /\ task'[g].step \in AfterInsert => task'[g].id \in Rows'
                      /\ task'[g].kind = "create" /\ task'[g].step = "bucket" =>
                           blockCaps'[task'[g].id][FirstVersion] > 0
                      /\ task'[g].kind = "version" /\ task'[g].step = "append" =>
                           blockCaps'[task'[g].id][task'[g].version] > 0
    OBVIOUS
  <2>1. task'[g].user = task[g].user /\ task'[g].id = task[g].id /\ task'[g].kind = task[g].kind
    BY DEF Idle
  <2>2. /\ task[g].id \in Ids /\ maker[task[g].id] = task[g].user
        /\ task[g].kind = "version" => task[g].version \in Versions
    BY <2>1, WorkingTask DEF AppInv, Owners
  <2>3. CASE g = h
    <3>1. task[h].step \in AfterInsert /\ task[h].kind = "create" => task[h].id \in Rows'
      BY <1>3, <2>1, <2>2, <2>3 DEF AppInv, Capped, KeepsCaps
    <3> QED
      BY <1>3, <2>1, <2>3, <3>1 DEF KeepsCaps
  <2>4. CASE g # h
    BY <1>3, <2>2, <2>4, VersionsAssumption DEF AppInv, Capped, KeepsCaps, At
  <2> QED
    BY <2>3, <2>4
<1> QED
  BY <1>0, <1>1, <1>2, <1>3 DEF Capped, At

\* The steps that touch neither rows, authorities nor block caps.
Quiet(h) ==
    /\ Working(h)
    /\ UNCHANGED <<apps, blockCaps, authority, maker, created, deleting>>
    /\ \E t \in Tasks :
         /\ task' = [task EXCEPT ![h] = t]
         /\ \/ t = Idle
            \/ /\ t.kind = task[h].kind /\ t.user = task[h].user /\ t.id = task[h].id
               /\ t.kind = "create" => t.step \notin AfterInsert
               /\ t.kind = "version" => t.step # "append"

LEMMA QuietKeeps ==
    ASSUME AppInv, NEW h \in Handlers, Quiet(h)
    PROVE  Follows(h) /\ KeepsAuthority(h) /\ KeepsCaps(h)
<1>1. PICK t \in Tasks :
         /\ task' = [task EXCEPT ![h] = t]
         /\ \/ t = Idle
            \/ /\ t.kind = task[h].kind /\ t.user = task[h].user /\ t.id = task[h].id
               /\ t.kind = "create" => t.step \notin AfterInsert
               /\ t.kind = "version" => t.step # "append"
  BY DEF Quiet
<1>2. task'[h] = t
  BY <1>1, Kept DEF AppInv
<1>3. Rows' = Rows
  BY DEF Quiet, Rows
<1>4. Follows(h)
  BY <1>1, <1>3 DEF Quiet, Follows
<1>5. KeepsAuthority(h)
  BY <1>1, <1>2 DEF Quiet, KeepsAuthority, AfterInsert, Idle
<1>6. KeepsCaps(h)
  BY <1>1, <1>2, <1>3 DEF Quiet, KeepsCaps, Idle, AfterInsert, WithAuthority
<1> QED
  BY <1>4, <1>5, <1>6

-----------------------------------------------------------------------------
(* The steps, one by one *)

LEMMA GotoMoves ==
    ASSUME TypeOK, NEW h \in Handlers, task[h].kind # "none", NEW s \in Steps,
           Goto(h, s) \/ \E c \in Int : GotoWith(h, s, c)
    PROVE  /\ Working(h)
           /\ \E t \in Tasks :
                /\ task' = [task EXCEPT ![h] = t]
                /\ t.kind = task[h].kind /\ t.user = task[h].user /\ t.id = task[h].id
                /\ t.version = task[h].version /\ t.step = s
<1>1. \A K, N, V : task[h] \in Task(K, N, V) =>
        LET t == [task[h] EXCEPT !.step = s]
        IN  /\ t.kind = task[h].kind /\ t.user = task[h].user /\ t.id = task[h].id
            /\ t.version = task[h].version /\ t.step = s
  BY DEF Task
<1>2. \A K, N, V : task[h] \in Task(K, N, V) => \A c \in Int :
        LET t == [task[h] EXCEPT !.step = s, !.cap = c]
        IN  /\ t.kind = task[h].kind /\ t.user = task[h].user /\ t.id = task[h].id
            /\ t.version = task[h].version /\ t.step = s
  BY DEF Task
<1>3. task[h] \in Tasks /\ task[h] # Idle
  BY DEF TypeOK, Idle
<1>4. CASE Goto(h, s)
  <2>1. 0 \in Int
    OBVIOUS
  <2>2. [task[h] EXCEPT !.step = s] \in Tasks
    BY <2>1, Moved
  <2> QED
    BY <1>1, <1>3, <1>4, <2>2 DEF Goto, Tasks, Working
<1>5. ASSUME NEW c \in Int, GotoWith(h, s, c)
      PROVE  \E t \in Tasks :
                /\ task' = [task EXCEPT ![h] = t]
                /\ t.kind = task[h].kind /\ t.user = task[h].user /\ t.id = task[h].id
                /\ t.version = task[h].version /\ t.step = s
  <2>1. [task[h] EXCEPT !.step = s, !.cap = c] \in Tasks
    BY Moved
  <2> QED
    BY <1>2, <1>3, <1>5, <2>1 DEF GotoWith, Tasks
<1> QED
  BY <1>3, <1>4, <1>5 DEF Working

LEMMA ReturnQuiet ==
    ASSUME NEW h \in Handlers, Working(h), Return(h),
           UNCHANGED <<apps, blockCaps, authority, maker, created, deleting>>
    PROVE  Quiet(h)
BY DEF Quiet, Return, Tasks

LEMMA GotoQuiet ==
    ASSUME TypeOK, NEW h \in Handlers, task[h].kind # "none", NEW s \in Steps,
           Goto(h, s) \/ \E c \in Int : GotoWith(h, s, c),
           task[h].kind = "create" => s \notin AfterInsert,
           task[h].kind = "version" => s # "append",
           UNCHANGED <<apps, blockCaps, authority, maker, created, deleting>>
    PROVE  Quiet(h)
BY GotoMoves DEF Quiet

LEMMA CreateQuiet ==
    ASSUME AppInv, NEW h \in Handlers,
           ReadAppCap(h) \/ CheckName(h) \/ CheckNameFails(h) \/ ChargeApp(h)
    PROVE  Quiet(h)
<1>1. TypeOK /\ task[h].kind = "create" /\ task[h].kind # "none" /\ Working(h)
  BY WorkingTask DEF AppInv, ReadAppCap, CheckName, CheckNameFails, ChargeApp, At
<1>2. UNCHANGED <<apps, blockCaps, authority, maker, created, deleting>>
  BY DEF ReadAppCap, CheckName, CheckNameFails, ChargeApp, tables, history
<1>3. appCap[task[h].user] \in Int
  BY <1>1, WorkingTask DEF TypeOK
<1>4. \/ Return(h)
      \/ \E s \in {"name", "charge", "insert"} : Goto(h, s) \/ \E c \in Int : GotoWith(h, s, c)
  BY <1>3 DEF ReadAppCap, CheckName, CheckNameFails, ChargeApp
<1>5. {"name", "charge", "insert"} \subseteq Steps \ AfterInsert
  BY DEF Steps, AfterInsert, WithAuthority
<1> QED
  BY <1>1, <1>2, <1>4, <1>5, ReturnQuiet, GotoQuiet

LEMMA VersionQuiet ==
    ASSUME AppInv, NEW h \in Handlers, ReadVersionCap(h) \/ ChargeVersion(h)
    PROVE  Quiet(h)
<1>1. TypeOK /\ task[h].kind \in {"version", "remove"} /\ task[h].kind # "none" /\ Working(h)
  BY WorkingTask DEF AppInv, ReadVersionCap, ChargeVersion
<1>2. UNCHANGED <<apps, blockCaps, authority, maker, created, deleting>>
  BY DEF ReadVersionCap, ChargeVersion, tables, history
<1>3. versionCap[task[h].id] \in Int
  BY <1>1, WorkingTask DEF TypeOK
<1>4. \/ Return(h)
      \/ \E s \in {"charge", "block_cap", "list"} : Goto(h, s) \/ \E c \in Int : GotoWith(h, s, c)
  BY <1>3 DEF ReadVersionCap, ChargeVersion
<1>5. {"charge", "block_cap", "list"} \subseteq Steps \ {"append"}
  BY DEF Steps
<1> QED
  BY <1>1, <1>2, <1>4, <1>5, ReturnQuiet, GotoQuiet

LEMMA DeleteQuiet ==
    ASSUME AppInv, NEW h \in Handlers,
           CheckAuthority(h) \/ ReadAppCapToRefund(h) \/ RefundApp(h) \/ DeleteVersionCaps(h)
    PROVE  Quiet(h)
<1>1. TypeOK /\ task[h].kind = "delete" /\ task[h].kind # "none" /\ Working(h)
  BY WorkingTask DEF AppInv, CheckAuthority, ReadAppCapToRefund, RefundApp, DeleteVersionCaps, At
<1>2. UNCHANGED <<apps, blockCaps, authority, maker, created, deleting>>
  BY DEF CheckAuthority, ReadAppCapToRefund, RefundApp, DeleteVersionCaps, tables, history
<1>3. appCap[task[h].user] \in Int
  BY <1>1, WorkingTask DEF TypeOK
<1>4. \/ Return(h)
      \/ \E s \in {"cap", "refund", "authority", "block_caps"} :
            Goto(h, s) \/ \E c \in Int : GotoWith(h, s, c)
  BY <1>3 DEF CheckAuthority, ReadAppCapToRefund, RefundApp, DeleteVersionCaps
<1>5. {"cap", "refund", "authority", "block_caps"} \subseteq Steps
  BY DEF Steps
<1> QED
  BY <1>1, <1>2, <1>4, <1>5, ReturnQuiet, GotoQuiet

LEMMA ReadRowQuiet ==
    ASSUME AppInv, NEW h \in Handlers, ReadRow(h)
    PROVE  Quiet(h)
<1>1. TypeOK /\ task[h].kind = "delete" /\ task[h].id \in Ids /\ Working(h)
  BY WorkingTask DEF AppInv, ReadRow, At
<1>2. UNCHANGED <<apps, blockCaps, authority, maker, created, deleting>>
  BY DEF ReadRow, tables, history
<1> DEFINE t == [task[h] EXCEPT !.name = apps[task[h].id].name, !.step = "row"]
<1>3. task[h] \in Task({"delete"}, Names \cup {Nobody}, {Nobody})
  BY <1>1 DEF TypeOK, Tasks, Task, Idle
<1>4. task[h].id \in Rows => apps[task[h].id].name \in Names \cup {Nobody}
  BY <1>1 DEF TypeOK, Rows, Row
<1>5. task[h].id \in Rows => t \in Task({"delete"}, Names \cup {Nobody}, {Nobody})
  BY <1>3, <1>4 DEF Task, Steps
<1>6. task[h].id \in Rows =>
        t \in Tasks /\ t.kind = "delete" /\ t.user = task[h].user /\ t.id = task[h].id
  BY <1>3, <1>5 DEF Task, Tasks
<1>7. Return(h) \/ (task[h].id \in Rows /\ task' = [task EXCEPT ![h] = t])
  BY DEF ReadRow
<1> HIDE DEF t
<1>8. CASE Return(h)
  BY <1>1, <1>2, <1>8, ReturnQuiet
<1>9. CASE task[h].id \in Rows /\ task' = [task EXCEPT ![h] = t]
  BY <1>1, <1>2, <1>6, <1>9 DEF Quiet
<1> QED
  BY <1>7, <1>8, <1>9

LEMMA OtherQuiet ==
    ASSUME AppInv, NEW h \in Handlers, DeleteBucket(h) \/ Stops(h) \/ CapRefused(h)
    PROVE  Quiet(h)
<1>1. TypeOK /\ Working(h)
  BY WorkingTask DEF AppInv, DeleteBucket, Stops, CapRefused, At
<1>2. UNCHANGED <<apps, blockCaps, authority, maker, created, deleting>>
  BY DEF DeleteBucket, Stops, CapRefused, tables, history
<1>3. CASE DeleteBucket(h) \/ Stops(h)
  BY <1>1, <1>2, <1>3, ReturnQuiet DEF DeleteBucket, Stops
<1>4. CASE CapRefused(h)
  BY <1>1, <1>2, <1>4, GotoQuiet DEF CapRefused, At, Steps, AfterInsert, WithAuthority
<1> QED
  BY <1>3, <1>4

Keeps(h) == Follows(h) /\ KeepsAuthority(h) /\ KeepsCaps(h)

LEMMA InsertRowKeeps ==
    ASSUME AppInv, NEW h \in Handlers, InsertRow(h)
    PROVE  Keeps(h)
<1>1. TypeOK /\ At(h, "create", "insert") /\ task[h].id \in Ids /\ task[h].user \in Users
  BY WorkingTask DEF AppInv, InsertRow, At
<1>2. PICK t \in Tasks :
        /\ task' = [task EXCEPT ![h] = t]
        /\ t.kind = task[h].kind /\ t.user = task[h].user /\ t.id = task[h].id /\ t.step = "authority"
  BY <1>1, GotoMoves DEF InsertRow, At, Steps
<1>3. task'[h] = t /\ Working(h)
  BY <1>1, <1>2, Kept, WorkingTask DEF At
<1>4. /\ UNCHANGED <<blockCaps, authority, maker, created, deleting>>
      /\ \A i \in Ids \ {task[h].id} : apps'[i] = apps[i]
      /\ apps'[task[h].id] = [owner |-> task[h].user, name |-> task[h].name,
                              versions |-> {FirstVersion}, active |-> FirstVersion]
  BY <1>1 DEF InsertRow, history, TypeOK
<1>5. task[h].id \in Rows'
  BY <1>1, <1>4, NullAssumption DEF Rows, NoApp
<1>6. \A i \in Ids \ {task[h].id} : i \in Rows' <=> i \in Rows
  BY <1>4 DEF Rows
<1>7. Rows \subseteq Ids /\ Rows' \subseteq Ids
  BY DEF Rows
<1>8. Follows(h)
  <2>1. \A i \in Rows' :
          \/ i \in Rows /\ apps'[i].owner = apps[i].owner
          \/ i = task[h].id /\ apps'[i].owner \in {task[h].user, Nobody}
    BY <1>4, <1>6, <1>7
  <2> QED
    BY <1>2, <1>3, <1>4, <2>1 DEF Follows
<1>9. KeepsAuthority(h)
  BY <1>2, <1>3, <1>4 DEF KeepsAuthority, WithAuthority
<1>10. task[h].id \notin created'
  BY <1>1, <1>4 DEF AppInv, Creations, At
<1>11. KeepsCaps(h)
  <2>1. \A i \in Rows : i \in Rows'
    BY <1>5, <1>6, <1>7
  <2>2. \A i \in Rows' : \A v \in apps'[i].versions :
          (i \in Rows /\ v \in apps[i].versions) \/ (v = FirstVersion /\ i \notin created')
    BY <1>4, <1>6, <1>7, <1>10
  <2> QED
    BY <1>1, <1>2, <1>3, <1>4, <1>5, <2>1, <2>2 DEF KeepsCaps, At
<1> QED
  BY <1>8, <1>9, <1>11 DEF Keeps

LEMMA CreateAuthorityKeeps ==
    ASSUME AppInv, NEW h \in Handlers, CreateAuthority(h)
    PROVE  Keeps(h)
<1>1. TypeOK /\ At(h, "create", "authority")
  BY DEF AppInv, CreateAuthority
<1>2. PICK t \in Tasks :
        /\ task' = [task EXCEPT ![h] = t]
        /\ t.kind = task[h].kind /\ t.user = task[h].user /\ t.id = task[h].id /\ t.step = "version_cap"
  BY <1>1, GotoMoves DEF CreateAuthority, At, Steps
<1>3. task'[h] = t /\ Working(h)
  BY <1>1, <1>2, Kept, WorkingTask DEF At
<1>4. UNCHANGED <<apps, blockCaps, maker, created, deleting>> /\ Rows' = Rows
  BY DEF CreateAuthority, history, Rows
<1>5. Follows(h)
  BY <1>2, <1>3, <1>4 DEF Follows
<1>6. KeepsAuthority(h)
  BY DEF CreateAuthority, KeepsAuthority
<1>7. KeepsCaps(h)
  BY <1>1, <1>2, <1>3, <1>4 DEF KeepsCaps, At, AfterInsert
<1> QED
  BY <1>5, <1>6, <1>7 DEF Keeps

LEMMA CreateVersionCapKeeps ==
    ASSUME AppInv, NEW h \in Handlers, CreateVersionCap(h)
    PROVE  Keeps(h)
<1>1. TypeOK /\ At(h, "create", "version_cap")
  BY DEF AppInv, CreateVersionCap
<1>2. PICK t \in Tasks :
        /\ task' = [task EXCEPT ![h] = t]
        /\ t.kind = task[h].kind /\ t.user = task[h].user /\ t.id = task[h].id /\ t.step = "block_cap"
  BY <1>1, GotoMoves DEF CreateVersionCap, At, Steps
<1>3. task'[h] = t /\ Working(h)
  BY <1>1, <1>2, Kept, WorkingTask DEF At
<1>4. UNCHANGED <<apps, blockCaps, authority, maker, created, deleting>> /\ Rows' = Rows
  BY DEF CreateVersionCap, history, Rows
<1>5. Follows(h)
  BY <1>2, <1>3, <1>4 DEF Follows
<1>6. KeepsAuthority(h)
  BY <1>1, <1>4 DEF KeepsAuthority, At, WithAuthority
<1>7. KeepsCaps(h)
  BY <1>1, <1>2, <1>3, <1>4 DEF KeepsCaps, At, AfterInsert, WithAuthority
<1> QED
  BY <1>5, <1>6, <1>7 DEF Keeps

LEMMA CreateBlockCapKeeps ==
    ASSUME AppInv, NEW h \in Handlers, CreateBlockCap(h)
    PROVE  Keeps(h)
<1>1. /\ TypeOK /\ task[h].kind \in {"create", "version"} /\ task[h].step = "block_cap"
      /\ task[h].id \in Ids /\ task[h].version \in Versions /\ Working(h)
      /\ task[h].kind = "create" => task[h].version = FirstVersion
  BY WorkingTask, VersionsAssumption DEF AppInv, CreateBlockCap, At
<1> DEFINE s == IF task[h].kind = "create" THEN "bucket" ELSE "append"
<1>2. s \in Steps /\ Goto(h, s)
  BY DEF CreateBlockCap, Steps
<1>3. PICK t \in Tasks :
        /\ task' = [task EXCEPT ![h] = t]
        /\ t.kind = task[h].kind /\ t.user = task[h].user /\ t.id = task[h].id
        /\ t.version = task[h].version /\ t.step = s
  BY <1>1, <1>2, GotoMoves
<1>4. task'[h] = t
  BY <1>1, <1>3, Kept
<1>5. UNCHANGED <<apps, authority, maker, created, deleting>> /\ Rows' = Rows
  BY DEF CreateBlockCap, history, Rows
<1>6. /\ \A i \in Ids, v \in Versions : blockCaps[i][v] > 0 => blockCaps'[i][v] > 0
      /\ blockCaps'[task[h].id][task[h].version] > 0
  BY <1>1 DEF CreateBlockCap, TypeOK
<1>7. Follows(h)
  BY <1>1, <1>3, <1>5 DEF Follows
<1>8. KeepsAuthority(h)
  BY <1>1, <1>5 DEF KeepsAuthority, WithAuthority
<1>9. KeepsCaps(h)
  BY <1>1, <1>3, <1>4, <1>5, <1>6 DEF KeepsCaps, AfterInsert, WithAuthority
<1> QED
  BY <1>7, <1>8, <1>9 DEF Keeps

LEMMA CreateBucketKeeps ==
    ASSUME AppInv, NEW h \in Handlers, CreateBucket(h)
    PROVE  Keeps(h)
<1>1. TypeOK /\ At(h, "create", "bucket") /\ Working(h)
  BY WorkingTask DEF AppInv, CreateBucket, At
<1>2. task'[h] = Idle /\ task' = [task EXCEPT ![h] = Idle] /\ Idle \in Tasks
  BY Kept DEF CreateBucket, Return, Tasks, AppInv
<1>3. UNCHANGED <<apps, blockCaps, authority, maker, deleting>> /\ Rows' = Rows
  BY DEF CreateBucket, Rows
<1>4. Follows(h)
  BY <1>1, <1>2, <1>3 DEF Follows, CreateBucket
<1>5. KeepsAuthority(h)
  BY <1>2, <1>3 DEF KeepsAuthority, Idle
<1>6. KeepsCaps(h)
  BY <1>2, <1>3 DEF KeepsCaps, Idle
<1> QED
  BY <1>4, <1>5, <1>6 DEF Keeps

LEMMA ListKeeps ==
    ASSUME AppInv, NEW h \in Handlers,
           AppendVersion(h) \/ DeleteVersion(h) \/ UpdateActiveVersion(h)
    PROVE  Keeps(h)
<1>1. /\ TypeOK /\ task[h].kind \in {"version", "remove", "activate"} /\ Working(h)
      /\ task[h].id \in Ids /\ task[h].user \in Users /\ maker[task[h].id] = task[h].user
  BY WorkingTask DEF AppInv, Owners, AppendVersion, DeleteVersion, UpdateActiveVersion, At
<1>2. task'[h] = Idle /\ task' = [task EXCEPT ![h] = Idle] /\ Idle \in Tasks
  BY Kept DEF AppendVersion, DeleteVersion, UpdateActiveVersion, Return, Tasks, AppInv
<1>3. UNCHANGED <<blockCaps, authority, maker, created, deleting>>
  BY DEF AppendVersion, DeleteVersion, UpdateActiveVersion, history
<1>4. \A i \in Ids \ {task[h].id} : apps'[i] = apps[i]
  BY <1>1 DEF AppendVersion, DeleteVersion, UpdateActiveVersion, TypeOK
<1> DEFINE j == task[h].id
<1>5. /\ j \in Rows => apps'[j].owner = apps[j].owner
      /\ j \in Rows' => j \in Rows \/ apps'[j].owner = Nobody
      /\ j \in Rows => j \in Rows'
      /\ \A v \in apps'[j].versions : j \in Rows' =>
           (j \in Rows /\ v \in apps[j].versions) \/ (AppendVersion(h) /\ v = task[h].version)
  <2>1. CASE AppendVersion(h)
    <3>1. apps'[j] = [Upsert(j) EXCEPT !.versions = @ \cup {task[h].version}]
      BY <1>1, <2>1 DEF AppendVersion, TypeOK
    <3>2. Upsert(j) \in Row /\ (j \in Rows => Upsert(j) = apps[j]) /\ (j \notin Rows => Upsert(j) = Ghost)
      BY <1>1, UpsertTyped DEF Upsert
    <3>3. /\ apps'[j] \in Row
          /\ apps'[j].owner = Upsert(j).owner
          /\ apps'[j].versions = Upsert(j).versions \cup {task[h].version}
      BY <1>1, <2>1, <3>1, <3>2, WorkingTask DEF Row, AppendVersion, At
    <3>4. j \in Rows'
      BY <1>1, <3>3, RowExists DEF Rows
    <3> QED
      BY <2>1, <3>2, <3>3, <3>4 DEF Ghost
  <2>2. CASE DeleteVersion(h)
    <3>1. CASE j \notin Rows
      BY <2>2, <3>1 DEF DeleteVersion, Rows
    <3>2. CASE j \in Rows
      <4>1. apps[j] \in Row
        BY <1>1, <3>2 DEF Rows, TypeOK
      <4>2. apps'[j] = [apps[j] EXCEPT !.versions = @ \ {task[h].version}]
        BY <1>1, <2>2, <3>2 DEF DeleteVersion, TypeOK
      <4>3. /\ apps'[j] \in Row /\ apps'[j].owner = apps[j].owner
            /\ apps'[j].versions \subseteq apps[j].versions
        BY <4>1, <4>2 DEF Row
      <4>4. j \in Rows'
        BY <1>1, <4>3, RowExists DEF Rows
      <4> QED
        BY <3>2, <4>3, <4>4
    <3> QED
      BY <3>1, <3>2
  <2>3. CASE UpdateActiveVersion(h)
    <3>1. apps'[j] = [Upsert(j) EXCEPT !.active = task[h].version]
      BY <1>1, <2>3 DEF UpdateActiveVersion, TypeOK
    <3>2. Upsert(j) \in Row /\ (j \in Rows => Upsert(j) = apps[j]) /\ (j \notin Rows => Upsert(j) = Ghost)
      BY <1>1, UpsertTyped DEF Upsert
    <3>3. /\ apps'[j] \in Row
          /\ apps'[j].owner = Upsert(j).owner /\ apps'[j].versions = Upsert(j).versions
      BY <1>1, <2>3, <3>1, <3>2, WorkingTask DEF Row, UpdateActiveVersion, At
    <3>4. j \in Rows'
      BY <1>1, <3>3, RowExists DEF Rows
    <3> QED
      BY <3>2, <3>3, <3>4 DEF Ghost
  <2> QED
    BY <2>1, <2>2, <2>3
<1>6. \A i \in Ids \ {j} : i \in Rows' <=> i \in Rows
  BY <1>4 DEF Rows
<1>7. Rows \subseteq Ids /\ Rows' \subseteq Ids
  BY DEF Rows
<1>8. Follows(h)
  <2>1. \A i \in Rows' :
          \/ i \in Rows /\ apps'[i].owner = apps[i].owner
          \/ i = j /\ apps'[i].owner \in {task[h].user, Nobody}
    BY <1>4, <1>5, <1>6, <1>7
  <2> QED
    BY <1>1, <1>2, <1>3, <2>1 DEF Follows
<1>9. KeepsAuthority(h)
  BY <1>2, <1>3 DEF KeepsAuthority, Idle
<1>10. AppendVersion(h) /\ maker[j] \notin Purgers => blockCaps[j][task[h].version] > 0
  BY <1>1 DEF AppendVersion, AppInv, Capped
<1>11. KeepsCaps(h)
  <2>1. \A i \in Rows : i \in Rows'
    BY <1>5, <1>6, <1>7
  <2>2. \A i \in Rows' : maker[i] \notin Purgers => \A v \in apps'[i].versions :
          (i \in Rows /\ v \in apps[i].versions) \/ blockCaps'[i][v] > 0
    BY <1>3, <1>4, <1>5, <1>6, <1>7, <1>10
  <2> QED
    BY <1>2, <1>3, <2>1, <2>2 DEF KeepsCaps, Idle
<1> QED
  BY <1>8, <1>9, <1>11 DEF Keeps

\* What the deletion of an application takes belongs to a user who deletes.
LEMMA DeleterPurges ==
    ASSUME AppInv, NEW h \in Handlers, task[h].kind = "delete"
    PROVE  /\ task[h].id \in deleting /\ task[h].user \in Purgers
           /\ maker[task[h].id] = task[h].user
           /\ Working(h) /\ task[h].id \in Ids
BY WorkingTask DEF AppInv, Owners, Purgers

LEMMA DeleteAuthorityKeeps ==
    ASSUME AppInv, NEW h \in Handlers, DeleteAuthority(h)
    PROVE  Keeps(h)
<1>1. TypeOK /\ task[h].kind = "delete"
  BY DEF AppInv, DeleteAuthority, At
<1>2. PICK t \in Tasks :
        /\ task' = [task EXCEPT ![h] = t]
        /\ t.kind = task[h].kind /\ t.user = task[h].user /\ t.id = task[h].id /\ t.step = "version_caps"
  BY <1>1, GotoMoves DEF DeleteAuthority, Steps
<1>3. task'[h] = t /\ Working(h)
  BY <1>1, <1>2, Kept, WorkingTask
<1>4. UNCHANGED <<apps, blockCaps, maker, created, deleting>> /\ Rows' = Rows
  BY DEF DeleteAuthority, history, Rows
<1>5. Follows(h)
  BY <1>2, <1>3, <1>4 DEF Follows
<1>6. KeepsAuthority(h)
  BY <1>1, <1>2, <1>3, DeleterPurges DEF DeleteAuthority, KeepsAuthority
<1>7. KeepsCaps(h)
  BY <1>1, <1>2, <1>3, <1>4 DEF KeepsCaps
<1> QED
  BY <1>5, <1>6, <1>7 DEF Keeps

LEMMA DeleteBlockCapsKeeps ==
    ASSUME AppInv, NEW h \in Handlers, DeleteBlockCaps(h)
    PROVE  Keeps(h)
<1>1. TypeOK /\ task[h].kind = "delete"
  BY DEF AppInv, DeleteBlockCaps, At
<1>2. PICK t \in Tasks :
        /\ task' = [task EXCEPT ![h] = t]
        /\ t.kind = task[h].kind /\ t.user = task[h].user /\ t.id = task[h].id /\ t.step = "read"
  BY <1>1, GotoMoves DEF DeleteBlockCaps, Steps
<1>3. task'[h] = t /\ Working(h)
  BY <1>1, <1>2, Kept, WorkingTask
<1>4. UNCHANGED <<apps, authority, maker, created, deleting>> /\ Rows' = Rows
  BY DEF DeleteBlockCaps, history, Rows
<1>5. Follows(h)
  BY <1>2, <1>3, <1>4 DEF Follows
<1>6. KeepsAuthority(h)
  BY <1>1, <1>2, <1>3, <1>4 DEF KeepsAuthority
<1>7. \A i \in Ids, v \in Versions : maker[i] \notin Purgers => blockCaps'[i][v] = blockCaps[i][v]
  BY <1>1, DeleterPurges DEF DeleteBlockCaps
<1>8. KeepsCaps(h)
  BY <1>1, <1>2, <1>3, <1>4, <1>7 DEF KeepsCaps
<1> QED
  BY <1>5, <1>6, <1>8 DEF Keeps

LEMMA DeleteRowKeeps ==
    ASSUME AppInv, NEW h \in Handlers, DeleteRow(h)
    PROVE  Keeps(h)
<1>1. TypeOK /\ task[h].kind = "delete"
  BY DEF AppInv, DeleteRow, At
<1>2. PICK t \in Tasks :
        /\ task' = [task EXCEPT ![h] = t]
        /\ t.kind = task[h].kind /\ t.user = task[h].user /\ t.id = task[h].id /\ t.step = "bucket"
  BY <1>1, GotoMoves DEF DeleteRow, Steps
<1>3. task'[h] = t /\ Working(h)
  BY <1>1, <1>2, Kept, WorkingTask
<1>4. /\ UNCHANGED <<blockCaps, authority, maker, created, deleting>>
      /\ \A i \in Ids \ {task[h].id} : apps'[i] = apps[i]
      /\ apps'[task[h].id] = NoApp
  BY <1>1, DeleterPurges DEF DeleteRow, history, TypeOK
<1>5. \A i \in Rows' : i \in Rows /\ apps'[i] = apps[i]
  BY <1>4 DEF Rows
<1>6. \A i \in Rows : maker[i] \notin Purgers => i \in Rows'
  BY <1>1, <1>4, DeleterPurges DEF Rows
<1>7. Follows(h)
  BY <1>2, <1>3, <1>4, <1>5 DEF Follows
<1>8. KeepsAuthority(h)
  BY <1>1, <1>2, <1>3, <1>4 DEF KeepsAuthority
<1>9. KeepsCaps(h)
  BY <1>1, <1>2, <1>3, <1>4, <1>5, <1>6 DEF KeepsCaps
<1> QED
  BY <1>7, <1>8, <1>9 DEF Keeps

-----------------------------------------------------------------------------
(* New requests *)

LEMMA BeginKeeps ==
    ASSUME AppInv, NEW h \in Handlers, NEW kind, NEW first \in {"cap", "check", "active"},
           NEW u \in Users, NEW i \in Ids, NEW n, NEW v, Begin(h, kind, first, u, i, n, v),
           \/ maker[i] = Nobody /\ maker' = [maker EXCEPT ![i] = u] /\ kind = "create"
           \/ maker[i] = u /\ maker' = maker /\ kind # "create",
           deleting \subseteq deleting', deleting' \subseteq deleting \cup {i},
           kind = "delete" => i \in deleting', kind = "create" => deleting' = deleting
    PROVE  (Owners /\ Creations /\ Writers /\ Capped)'
<1> DEFINE t == [kind |-> kind, step |-> first, user |-> u, id |-> i, name |-> n,
                 version |-> v, cap |-> 0]
<1>1. task'[h] = t /\ \A g \in Handlers : g # h => task'[g] = task[g]
  BY DEF Begin, AppInv, TypeOK
<1>2. /\ t.kind = kind /\ t.user = u /\ t.id = i
      /\ t.step \notin AfterInsert /\ t.step # "append" /\ t.step \notin WithAuthority
  BY DEF AfterInsert, WithAuthority
<1> HIDE DEF t
<1>3. UNCHANGED <<apps, blockCaps, authority, created>> /\ Rows' = Rows
  BY DEF Begin, tables, Rows
<1>4. maker'[i] = u /\ \A j \in Ids : maker[j] # Nobody => maker'[j] = maker[j]
  BY DEF AppInv, TypeOK
<1>5. Nobody \notin Users
  BY NullAssumption
<1>6. \A g \in Handlers : Working(g)' /\ g # h =>
        /\ Working(g) /\ maker[task[g].id] = task[g].user /\ task[g].user \in Users
        /\ task[g].id \in Ids /\ maker'[task[g].id] = task[g].user
  <2> SUFFICES ASSUME NEW g \in Handlers, Working(g)', g # h
               PROVE  /\ Working(g) /\ maker[task[g].id] = task[g].user /\ task[g].user \in Users
                      /\ task[g].id \in Ids /\ maker'[task[g].id] = task[g].user
    OBVIOUS
  <2>1. Working(g) /\ task[g].kind # "none"
    BY <1>1 DEF Working, AppInv, TypeOK, Tasks, Task
  <2> QED
    BY <1>4, <1>5, <2>1, WorkingTask DEF AppInv, Owners
<1>7. \A j \in created \cup deleting : maker[j] \in Users /\ maker'[j] = maker[j]
  BY <1>4, <1>5 DEF AppInv, Owners, TypeOK
<1>8. \A j \in Rows : maker[j] \in Users /\ maker'[j] = maker[j]
  BY <1>4, <1>5 DEF AppInv, Owners, Rows
<1>9. Purgers \subseteq Purgers'
  BY <1>7 DEF Purgers
<1>10. Owners'
  <2>1. \A g \in Handlers : Working(g)' => maker'[task'[g].id] = task'[g].user
    BY <1>1, <1>2, <1>4, <1>6
  <2>2. \A g \in Handlers : task'[g].kind = "delete" => task'[g].id \in deleting'
    BY <1>1, <1>2 DEF AppInv, Owners
  <2>3. \A j \in Rows' : maker'[j] \in Users /\ apps'[j].owner \in {maker'[j], Nobody}
    BY <1>3, <1>8 DEF AppInv, Owners
  <2>4. \A j \in (created \cup deleting)' : maker'[j] \in Users
    BY <1>3, <1>4, <1>7
  <2> QED
    BY <2>1, <2>2, <2>3, <2>4 DEF Owners
<1>11. Creations'
  <2>1. kind = "create" => \A g \in Handlers : g # h /\ task[g].kind = "create" => task[g].id # i
    <3> SUFFICES ASSUME kind = "create", NEW g \in Handlers, g # h, task[g].kind = "create"
                 PROVE  task[g].id # i
      OBVIOUS
    <3>1. maker[task[g].id] \in Users
      BY WorkingTask DEF AppInv, Owners
    <3> QED
      BY <1>5, <3>1
  <2>2. kind = "create" => i \notin created
    BY <1>5, <1>7
  <2> QED
    BY <1>1, <1>2, <1>3, <2>1, <2>2 DEF AppInv, Creations
<1>12. Writers'
  <2>1. \A j \in created' \ deleting' : <<maker'[j], j>> \in authority'
    BY <1>3, <1>7 DEF AppInv, Writers, WriterExists
  <2> QED
    BY <1>1, <1>2, <1>3, <2>1 DEF AppInv, Writers, WriterExists
<1>13. Capped'
  <2>1. \A j \in created' : maker'[j] \notin Purgers' => j \in Rows'
    BY <1>3, <1>7, <1>9 DEF AppInv, Capped
  <2>2. \A j \in Rows' : maker'[j] \notin Purgers' => \A w \in apps'[j].versions :
          blockCaps'[j][w] > 0 \/ (w = FirstVersion /\ j \notin created')
    BY <1>3, <1>8, <1>9 DEF AppInv, Capped
  <2>3. ASSUME NEW g \in Handlers, task'[g].user \notin Purgers'
        PROVE  /\ task'[g].kind = "create" /\ task'[g].step \in AfterInsert => task'[g].id \in Rows'
               /\ task'[g].kind = "create" /\ task'[g].step = "bucket" =>
                    blockCaps'[task'[g].id][FirstVersion] > 0
               /\ task'[g].kind = "version" /\ task'[g].step = "append" =>
                    blockCaps'[task'[g].id][task'[g].version] > 0
    <3>1. CASE g = h
      BY <1>1, <1>2, <3>1 DEF AfterInsert, WithAuthority
    <3>2. CASE g # h
      BY <1>1, <1>3, <1>9, <2>3, <3>2 DEF AppInv, Capped, At
    <3> QED
      BY <3>1, <3>2
  <2> QED
    BY <2>1, <2>2, <2>3 DEF Capped, At
<1> QED
  BY <1>10, <1>11, <1>12, <1>13
\* The invariant starts true: there is nothing yet.
LEMMA InitInv == Init => AppInv
<1> SUFFICES ASSUME Init PROVE AppInv
  OBVIOUS
<1>1. Rows = {} /\ \A h \in Handlers : task[h] = Idle
  BY DEF Init, Rows
<1>2. Owners /\ Creations /\ Writers
  BY <1>1 DEF Init, Owners, Creations, Writers, WriterExists, Working, Idle
<1>3. Capped
  BY <1>1 DEF Init, Capped, At, Idle
<1> QED
  BY <1>2, <1>3, InitType DEF AppInv

\* A user's own application was made by that user.
LEMMA OwnedMade ==
    ASSUME AppInv, NEW u \in Users, NEW i \in OwnedBy(u)
    PROVE  maker[i] = u
BY NullAssumption DEF OwnedBy, AppInv, Owners

\* A request that begins.
Begins(h) ==
    \/ \E u \in Users, i \in Ids, n \in Names : BeginCreate(h, u, i, n)
    \/ \E u \in Users, i \in Ids, v \in Versions : BeginVersion(h, u, i, v)
    \/ \E u \in Users, i \in Ids, v \in Versions : BeginRemove(h, u, i, v)
    \/ \E u \in Users, i \in Ids, v \in Versions : BeginActivate(h, u, i, v)
    \/ \E u \in Users, i \in Ids : BeginDelete(h, u, i)

LEMMA BeginsInv ==
    ASSUME AppInv, NEW h \in Handlers, Begins(h)
    PROVE  AppInv'
<1>0. TypeOK /\ {"cap", "check", "active"} \subseteq Steps
  BY DEF AppInv, Steps
<1>1. ASSUME NEW u \in Users, NEW i \in Ids, NEW n \in Names, BeginCreate(h, u, i, n)
      PROVE  AppInv'
  <2>1. /\ Begin(h, "create", "cap", u, i, n, FirstVersion) /\ deleting' = deleting
        /\ maker[i] = Nobody /\ maker' = [maker EXCEPT ![i] = u]
    BY <1>1 DEF BeginCreate
  <2>2. maker' \in [Ids -> Users \cup {Nobody}] /\ deleting' \subseteq Ids
    BY <1>0, <2>1 DEF TypeOK
  <2>3. TypeOK'
    BY <1>0, <2>1, <2>2, BeginType
  <2>4. /\ deleting \subseteq deleting' /\ deleting' \subseteq deleting \cup {i}
        /\ "create" # "delete" /\ "cap" \in {"cap", "check", "active"}
    BY <2>1
  <2>5. (Owners /\ Creations /\ Writers /\ Capped)'
    BY <2>1, <2>4, BeginKeeps
  <2> QED
    BY <2>3, <2>5 DEF AppInv
<1>2. ASSUME NEW u \in Users, NEW i \in Ids, NEW v \in Versions,
             NEW kind \in {"version", "remove", "activate"}, NEW first \in {"cap", "active"},
             Begin(h, kind, first, u, i, Nobody, v), i \in OwnedBy(u),
             UNCHANGED <<maker, deleting>>
      PROVE  AppInv'
  <2>1. maker[i] = u
    BY <1>2, OwnedMade
  <2>2. maker' \in [Ids -> Users \cup {Nobody}] /\ deleting' \subseteq Ids
    BY <1>0, <1>2 DEF TypeOK
  <2>3. TypeOK'
    BY <1>0, <1>2, <2>2, BeginType
  <2>4. /\ deleting \subseteq deleting' /\ deleting' \subseteq deleting \cup {i}
        /\ kind # "create" /\ kind # "delete" /\ first \in {"cap", "check", "active"}
    BY <1>2
  <2>5. (Owners /\ Creations /\ Writers /\ Capped)'
    BY <1>2, <2>1, <2>4, BeginKeeps
  <2> QED
    BY <2>3, <2>5 DEF AppInv
<1>3. ASSUME NEW u \in Users, NEW i \in Ids, BeginDelete(h, u, i)
      PROVE  AppInv'
  <2>1. /\ Begin(h, "delete", "check", u, i, Nobody, Nobody)
        /\ deleting' = deleting \cup {i} /\ maker' = maker /\ maker[i] = u
    BY <1>3, OwnedMade DEF BeginDelete
  <2>2. maker' \in [Ids -> Users \cup {Nobody}] /\ deleting' \subseteq Ids
    BY <1>0, <2>1 DEF TypeOK
  <2>3. TypeOK'
    BY <1>0, <2>1, <2>2, BeginType
  <2>4. (Owners /\ Creations /\ Writers /\ Capped)'
    BY <2>1, BeginKeeps
  <2> QED
    BY <2>3, <2>4 DEF AppInv
<1>4. ASSUME NEW u \in Users, NEW i \in Ids, NEW v \in Versions,
             BeginVersion(h, u, i, v) \/ BeginRemove(h, u, i, v) \/ BeginActivate(h, u, i, v)
      PROVE  AppInv'
  <2>1. i \in OwnedBy(u) /\ UNCHANGED <<maker, deleting>>
    BY <1>4 DEF BeginVersion, BeginRemove, BeginActivate
  <2>2. \/ Begin(h, "version", "cap", u, i, Nobody, v)
        \/ Begin(h, "remove", "cap", u, i, Nobody, v)
        \/ Begin(h, "activate", "active", u, i, Nobody, v)
    BY <1>4 DEF BeginVersion, BeginRemove, BeginActivate
  <2> QED
    BY <1>2, <2>1, <2>2
<1> QED
  BY <1>1, <1>3, <1>4 DEF Begins

\* A step that keeps authorities and caps, and types, keeps the invariant.
LEMMA KeepsInv ==
    ASSUME AppInv, TypeOK', NEW h \in Handlers, Keeps(h)
    PROVE  AppInv'
BY FollowsOwners, FollowsWriters, FollowsCapped DEF Keeps, AppInv

LEMMA StepsKeep ==
    ASSUME AppInv, NEW h \in Handlers,
           CreateStep(h) \/ VersionStep(h) \/ DeleteStep(h) \/ FaultStep(h)
    PROVE  Keeps(h)
<1>1. Quiet(h) => Keeps(h)
  BY QuietKeeps DEF Keeps
<1>2. CASE CreateStep(h)
  BY <1>1, <1>2, CreateQuiet, InsertRowKeeps, CreateAuthorityKeeps, CreateVersionCapKeeps,
     CreateBlockCapKeeps, CreateBucketKeeps DEF CreateStep
<1>3. CASE VersionStep(h)
  BY <1>1, <1>3, VersionQuiet, ListKeeps DEF VersionStep
<1>4. CASE DeleteStep(h)
  BY <1>1, <1>4, DeleteQuiet, DeleteAuthorityKeeps, DeleteBlockCapsKeeps, ReadRowQuiet,
     DeleteRowKeeps, OtherQuiet DEF DeleteStep
<1>5. CASE FaultStep(h)
  BY <1>1, <1>5, CreateQuiet, OtherQuiet DEF FaultStep
<1> QED
  BY <1>2, <1>3, <1>4, <1>5

LEMMA NextInv == AppInv /\ [Next]_vars => AppInv'
<1> SUFFICES ASSUME AppInv, [Next]_vars PROVE AppInv'
  OBVIOUS
<1>1. ASSUME NEW h \in Handlers,
             CreateStep(h) \/ VersionStep(h) \/ DeleteStep(h) \/ FaultStep(h)
      PROVE  AppInv'
  <2>1. TypeOK'
    BY <1>1, CreateStepType, VersionStepType, DeleteStepType, FaultStepType DEF AppInv
  <2> QED
    BY <1>1, <2>1, StepsKeep, KeepsInv
<1>2. CASE UNCHANGED vars
  <2>1. TypeOK'
    BY <1>2, TypeParts, TypePartsNext
       DEF AppInv, vars, tables, history, TablesOK, HistoryOK
  <2>2. UNCHANGED <<apps, blockCaps, authority, task, maker, created, deleting>> /\ Rows' = Rows
    BY <1>2 DEF vars, tables, history, Rows
  <2>3. Owners' /\ Creations' /\ Writers'
    BY <2>2 DEF AppInv, Owners, Creations, Writers, WriterExists, Working
  <2>4. Capped'
    BY <2>2 DEF AppInv, Capped, Purgers, At
  <2> QED
    BY <2>1, <2>3, <2>4 DEF AppInv
<1> QED
  BY <1>1, <1>2, BeginsInv DEF Next, Begins, FaultStep

LEMMA AppInvariant == Spec => []AppInv
BY InitInv, NextInv, PTL DEF Spec

-----------------------------------------------------------------------------

\* Type correctness: the tables, the requests and the storage hold what they
\* may hold, whatever the handlers of modules/application do.
THEOREM ApplicationsTypeCorrect == Spec => []TypeOK
<1>1. AppInv => TypeOK
  BY DEF AppInv
<1> QED
  BY <1>1, AppInvariant, PTL

\* handle_create_application reports a success only after create_authority, and
\* only a deletion of the application takes the authority: until one begins the
\* owner can write it, for any number of concurrent and failing requests.
THEOREM FinishedHaveWriter == Spec => []WriterExists
<1>1. AppInv => WriterExists
  BY DEF AppInv, Writers
<1> QED
  BY <1>1, AppInvariant, PTL

\* create_usage_cap_block comes before the version is listed, in both handlers
\* that list one, so that no version of a finished application lacks its row,
\* unless its owner deletes an application.
THEOREM ListedVersionsUsable == Spec => []VersionsUsable
<1>1. AppInv => VersionsUsable
  BY DEF AppInv, Capped, VersionsUsable
<1> QED
  BY <1>1, AppInvariant, PTL

-----------------------------------------------------------------------------
(***************************************************************************)
(* Requests that have not overlapped have one working handler (Lone), and  *)
(* what is said of the tables is said of them and of its request, Current: *)
(* a cap is charged before the row or the version it counts is written,    *)
(* and given back before it is removed.                                    *)
(***************************************************************************)

-----------------------------------------------------------------------------
(* The request under way *)

\* What the one working handler does.
Current == IF Busy = {} THEN Idle ELSE task[CHOOSE h \in Busy : TRUE]
Doing(kind, steps) == Current.kind = kind /\ Current.step \in steps

\* Requests that have not overlapped are one at a time.
Lone == ~ overlap => \A h, g \in Busy : h = g

\* What holds while they are, whatever fails.
Listed ==
    /\ \A i \in Rows : /\ apps[i].owner \in Users
                       /\ apps[i].name \in Names
                       /\ apps[i].active \in apps[i].versions
    /\ Current.kind \in {"version", "remove", "activate"} => Current.id \in Rows
    /\ Current.kind = "remove" => Current.version # apps[Current.id].active
    /\ Current.kind = "activate" => Current.version \in apps[Current.id].versions
ListedInv == Lone /\ (~ overlap => Listed)

\* It goes on to another step.
Goes(s) ==
    /\ Current'.kind = Current.kind
    /\ Current'.user = Current.user
    /\ Current'.id = Current.id
    /\ Current'.name = Current.name
    /\ Current'.version = Current.version
    /\ Current'.step = s

\* A step of handler h, of requests that have not overlapped.
InTurn(h) == TypeOK /\ Lone /\ ~ overlap /\ overlap' = overlap /\ h \in Handlers

LEMMA Now ==
    ASSUME NEW h, InTurn(h), Working(h)
    PROVE  Current = task[h]
<1>1. Busy = {h}
  BY DEF InTurn, Lone, Busy
<1> QED
  BY <1>1 DEF Current

LEMMA CurrentTyped ==
    ASSUME TypeOK, Current.kind # "none"
    PROVE  /\ Current.user \in Users /\ Current.id \in Ids /\ Current.cap \in Int
           /\ Current.kind = "create" => Current.name \in Names /\ Current.version = FirstVersion
           /\ Current.kind \in {"version", "remove", "activate"} => Current.version \in Versions
<1>1. \E h \in Handlers : Current = task[h]
  BY DEF Current, Busy, Idle
<1> QED
  BY <1>1, WorkingTask

LEMMA Then ==
    ASSUME NEW h, InTurn(h), Working(h), NEW t, task' = [task EXCEPT ![h] = t]
    PROVE  Current' = t /\ Lone'
<1>1. Busy = {h} /\ h \in Handlers
  BY DEF InTurn, Lone, Busy
<1>2. task'[h] = t /\ \A g \in Handlers : g # h => task'[g] = Idle
  BY <1>1 DEF Busy, Working, InTurn, TypeOK
<1>3. Busy' = IF t = Idle THEN {} ELSE {h}
  BY <1>1, <1>2 DEF Busy, Working, Idle
<1> QED
  BY <1>2, <1>3 DEF Current, Lone, Idle

LEMMA GotoGoes ==
    ASSUME NEW h, InTurn(h), Working(h), NEW s
    PROVE  /\ Goto(h, s) => Goes(s) /\ Current'.cap = Current.cap /\ Lone'
           /\ \A c : GotoWith(h, s, c) => Goes(s) /\ Current'.cap = c /\ Lone'
           /\ Return(h) => Current' = Idle /\ Lone'
<1>1. Current = task[h]
  BY Now
<1>2. PICK K, N, V : Current \in Task(K, N, V)
  BY <1>1 DEF InTurn, TypeOK, Tasks, Working
<1>3. Goto(h, s) => Current' = [Current EXCEPT !.step = s] /\ Lone'
  BY <1>1, Then DEF Goto
<1>4. ASSUME NEW c, GotoWith(h, s, c)
      PROVE  Current' = [Current EXCEPT !.step = s, !.cap = c] /\ Lone'
  BY <1>1, <1>4, Then DEF GotoWith
<1>5. Return(h) => Current' = Idle /\ Lone'
  BY Then DEF Return
<1>6. Goto(h, s) => Goes(s) /\ Current'.cap = Current.cap
  BY <1>2, <1>3 DEF Goes, Task
<1>7. \A c : GotoWith(h, s, c) => Goes(s) /\ Current'.cap = c
  BY <1>2, <1>4 DEF Goes, Task
<1> QED
  BY <1>3, <1>4, <1>5, <1>6, <1>7

Steady(h) == CreateStep(h) \/ VersionStep(h) \/ DeleteStep(h)

LEMMA CreateFlow ==
    ASSUME NEW h, InTurn(h)
    PROVE  /\ ReadAppCap(h) => /\ Doing("create", {"cap"})
                               /\ \/ Current' = Idle
                                  \/ Goes("name") /\ Current'.cap = appCap[Current.user]
           /\ CheckName(h) => /\ Doing("create", {"name"})
                              /\ \/ Current' = Idle
                                 \/ /\ Goes("charge") /\ Current'.cap = Current.cap
                                    /\ \A i \in Rows : apps[i].name # Current.name
           /\ ChargeApp(h) => Doing("create", {"charge"}) /\ Goes("insert")
           /\ InsertRow(h) => Doing("create", {"insert"}) /\ Goes("authority")
           /\ CreateAuthority(h) => Doing("create", {"authority"}) /\ Goes("version_cap")
           /\ CreateVersionCap(h) => Doing("create", {"version_cap"}) /\ Goes("block_cap")
           /\ CreateBlockCap(h) => \/ Doing("create", {"block_cap"}) /\ Goes("bucket")
                                   \/ Doing("version", {"block_cap"}) /\ Goes("append")
           /\ CreateBucket(h) => Doing("create", {"bucket"}) /\ Current' = Idle
           /\ CreateStep(h) => Working(h) /\ Current = task[h] /\ Lone'
<1>1. ASSUME CreateStep(h)
      PROVE  Working(h) /\ Current = task[h]
  <2>1. task[h].kind # "none"
    BY <1>1 DEF CreateStep, ReadAppCap, CheckName, ChargeApp, InsertRow, CreateAuthority,
       CreateVersionCap, CreateBlockCap, CreateBucket, At
  <2> QED
    BY <2>1, WorkingTask, Now DEF InTurn
<1>2. ReadAppCap(h) => /\ Doing("create", {"cap"}) /\ Lone'
                       /\ \/ Current' = Idle
                          \/ Goes("name") /\ Current'.cap = appCap[Current.user]
  BY <1>1, GotoGoes DEF CreateStep, ReadAppCap, At, Doing
<1>3. CheckName(h) => /\ Doing("create", {"name"}) /\ Lone'
                      /\ \/ Current' = Idle
                         \/ /\ Goes("charge") /\ Current'.cap = Current.cap
                            /\ \A i \in Rows : apps[i].name # Current.name
  BY <1>1, GotoGoes DEF CreateStep, CheckName, At, Doing
<1>4. /\ ChargeApp(h) => Doing("create", {"charge"}) /\ Goes("insert") /\ Lone'
      /\ InsertRow(h) => Doing("create", {"insert"}) /\ Goes("authority") /\ Lone'
      /\ CreateAuthority(h) => Doing("create", {"authority"}) /\ Goes("version_cap") /\ Lone'
      /\ CreateVersionCap(h) => Doing("create", {"version_cap"}) /\ Goes("block_cap") /\ Lone'
      /\ CreateBucket(h) => Doing("create", {"bucket"}) /\ Current' = Idle /\ Lone'
  BY <1>1, GotoGoes DEF CreateStep, ChargeApp, InsertRow, CreateAuthority, CreateVersionCap,
     CreateBucket, At, Doing
<1>5. CreateBlockCap(h) => /\ \/ Doing("create", {"block_cap"}) /\ Goes("bucket")
                              \/ Doing("version", {"block_cap"}) /\ Goes("append")
                           /\ Lone'
  BY <1>1, GotoGoes DEF CreateStep, CreateBlockCap, At, Doing
<1> QED
  BY <1>1, <1>2, <1>3, <1>4, <1>5 DEF CreateStep

LEMMA VersionFlow ==
    ASSUME NEW h, InTurn(h)
    PROVE  /\ ReadVersionCap(h) =>
                /\ Doing("version", {"cap"}) \/ Doing("remove", {"cap"})
                /\ \/ Current' = Idle
                   \/ Goes("charge") /\ Current'.cap = versionCap[Current.id]
           /\ ChargeVersion(h) => \/ Doing("version", {"charge"}) /\ Goes("block_cap")
                                  \/ Doing("remove", {"charge"}) /\ Goes("list")
           /\ AppendVersion(h) => Doing("version", {"append"}) /\ Current' = Idle
           /\ DeleteVersion(h) => Doing("remove", {"list"}) /\ Current' = Idle
           /\ UpdateActiveVersion(h) => Doing("activate", {"active"}) /\ Current' = Idle
           /\ VersionStep(h) => Working(h) /\ Current = task[h] /\ Lone'
<1>1. ASSUME VersionStep(h)
      PROVE  Working(h) /\ Current = task[h]
  <2>1. task[h].kind # "none"
    BY <1>1 DEF VersionStep, ReadVersionCap, ChargeVersion, AppendVersion, DeleteVersion,
       UpdateActiveVersion, At
  <2> QED
    BY <2>1, WorkingTask, Now DEF InTurn
<1>2. ReadVersionCap(h) => /\ Doing("version", {"cap"}) \/ Doing("remove", {"cap"})
                           /\ Lone'
                           /\ \/ Current' = Idle
                              \/ Goes("charge") /\ Current'.cap = versionCap[Current.id]
  BY <1>1, GotoGoes DEF VersionStep, ReadVersionCap, Doing
<1>3. ChargeVersion(h) => /\ \/ Doing("version", {"charge"}) /\ Goes("block_cap")
                             \/ Doing("remove", {"charge"}) /\ Goes("list")
                          /\ Lone'
  BY <1>1, GotoGoes DEF VersionStep, ChargeVersion, Doing
<1>4. /\ AppendVersion(h) => Doing("version", {"append"}) /\ Current' = Idle /\ Lone'
      /\ DeleteVersion(h) => Doing("remove", {"list"}) /\ Current' = Idle /\ Lone'
      /\ UpdateActiveVersion(h) => Doing("activate", {"active"}) /\ Current' = Idle /\ Lone'
  BY <1>1, GotoGoes DEF VersionStep, AppendVersion, DeleteVersion, UpdateActiveVersion, At, Doing
<1> QED
  BY <1>1, <1>2, <1>3, <1>4 DEF VersionStep

LEMMA DeleteFlow ==
    ASSUME NEW h, InTurn(h)
    PROVE  /\ CheckAuthority(h) => Doing("delete", {"check"}) /\ (Current' = Idle \/ Goes("cap"))
           /\ ReadAppCapToRefund(h) =>
                Doing("delete", {"cap"}) /\ Goes("refund") /\ Current'.cap = appCap[Current.user]
           /\ RefundApp(h) => Doing("delete", {"refund"}) /\ Goes("authority")
           /\ DeleteAuthority(h) => Doing("delete", {"authority"}) /\ Goes("version_caps")
           /\ DeleteVersionCaps(h) => Doing("delete", {"version_caps"}) /\ Goes("block_caps")
           /\ DeleteBlockCaps(h) => Doing("delete", {"block_caps"}) /\ Goes("read")
           /\ ReadRow(h) =>
                /\ Doing("delete", {"read"})
                /\ \/ Current' = Idle /\ ~ (Current.id \in Rows /\ apps[Current.id].name # Nobody)
                   \/ /\ Current'.kind = "delete" /\ Current'.step = "row"
                      /\ Current'.id = Current.id /\ Current'.user = Current.user
                      /\ Current'.name = apps[Current.id].name
           /\ DeleteRow(h) => Doing("delete", {"row"}) /\ Goes("bucket")
           /\ DeleteBucket(h) => Doing("delete", {"bucket"}) /\ Current' = Idle
           /\ DeleteStep(h) => Working(h) /\ Current = task[h] /\ Lone'
<1>1. ASSUME DeleteStep(h)
      PROVE  Working(h) /\ Current = task[h]
  <2>1. task[h].kind # "none"
    BY <1>1 DEF DeleteStep, CheckAuthority, ReadAppCapToRefund, RefundApp, DeleteAuthority,
       DeleteVersionCaps, DeleteBlockCaps, ReadRow, DeleteRow, DeleteBucket, At
  <2> QED
    BY <2>1, WorkingTask, Now DEF InTurn
<1>2. /\ CheckAuthority(h) => /\ Doing("delete", {"check"}) /\ Lone'
                              /\ Current' = Idle \/ Goes("cap")
      /\ ReadAppCapToRefund(h) => /\ Doing("delete", {"cap"}) /\ Goes("refund") /\ Lone'
                                  /\ Current'.cap = appCap[Current.user]
  BY <1>1, GotoGoes DEF DeleteStep, CheckAuthority, ReadAppCapToRefund, At, Doing
<1>3. /\ RefundApp(h) => Doing("delete", {"refund"}) /\ Goes("authority") /\ Lone'
      /\ DeleteAuthority(h) => Doing("delete", {"authority"}) /\ Goes("version_caps") /\ Lone'
      /\ DeleteVersionCaps(h) => Doing("delete", {"version_caps"}) /\ Goes("block_caps") /\ Lone'
      /\ DeleteBlockCaps(h) => Doing("delete", {"block_caps"}) /\ Goes("read") /\ Lone'
      /\ DeleteRow(h) => Doing("delete", {"row"}) /\ Goes("bucket") /\ Lone'
      /\ DeleteBucket(h) => Doing("delete", {"bucket"}) /\ Current' = Idle /\ Lone'
  BY <1>1, GotoGoes DEF DeleteStep, RefundApp, DeleteAuthority, DeleteVersionCaps, DeleteBlockCaps,
     DeleteRow, DeleteBucket, At, Doing
<1>4. ASSUME ReadRow(h)
      PROVE  /\ Doing("delete", {"read"}) /\ Lone'
             /\ \/ Current' = Idle /\ ~ (Current.id \in Rows /\ apps[Current.id].name # Nobody)
                \/ /\ Current'.kind = "delete" /\ Current'.step = "row"
                   /\ Current'.id = Current.id /\ Current'.user = Current.user
                   /\ Current'.name = apps[Current.id].name
  <2>1. Working(h) /\ Current = task[h] /\ Doing("delete", {"read"})
    BY <1>1, <1>4 DEF DeleteStep, ReadRow, At, Doing
  <2>2. Current \in Task({"delete"}, Names \cup {Nobody}, {Nobody})
    BY <2>1 DEF InTurn, TypeOK, Tasks, Task, Idle, Doing
  <2>3. CASE Current.id \in Rows /\ apps[Current.id].name # Nobody
    <3> DEFINE t == [Current EXCEPT !.name = apps[Current.id].name, !.step = "row"]
    <3>1. task' = [task EXCEPT ![h] = t]
      BY <1>4, <2>1, <2>3 DEF ReadRow
    <3>2. Current' = t /\ Lone'
      <4> HIDE DEF t
      <4> QED
        BY <2>1, <3>1, Then
    <3> QED
      BY <2>1, <2>2, <3>2 DEF Task
  <2>4. CASE ~ (Current.id \in Rows /\ apps[Current.id].name # Nobody)
    BY <1>4, <2>1, <2>4, GotoGoes DEF ReadRow
  <2> QED
    BY <2>3, <2>4
<1> QED
  BY <1>1, <1>2, <1>3, <1>4 DEF DeleteStep

\* The faults: a request ends, or goes on.
LEMMA FaultFlow ==
    ASSUME NEW h, InTurn(h), FaultStep(h)
    PROVE  /\ UNCHANGED <<tables, maker>> /\ faults' # 0 /\ Lone'
           /\ \/ Current' = Idle
              \/ Doing("create", {"name"}) /\ Goes("charge")
              \/ Doing("create", {"charge"}) /\ Goes("insert")
              \/ Doing("version", {"charge"}) /\ Goes("block_cap")
              \/ Doing("remove", {"charge"}) /\ Goes("list")
              \/ Doing("delete", {"refund"}) /\ Goes("authority")
<1>1. UNCHANGED <<tables, maker>> /\ faults' # 0
  BY DEF FaultStep, CheckNameFails, Stops, CapRefused, Fault, history, InTurn, TypeOK
<1>2. Working(h) /\ Current = task[h]
  BY WorkingTask, Now DEF InTurn, FaultStep, CheckNameFails, Stops, CapRefused, At
<1>3. CASE CheckNameFails(h)
  BY <1>1, <1>2, <1>3, GotoGoes DEF CheckNameFails, At, Doing
<1>4. CASE Stops(h)
  BY <1>1, <1>2, <1>4, GotoGoes DEF Stops
<1>5. CASE CapRefused(h)
  BY <1>1, <1>2, <1>5, GotoGoes DEF CapRefused, At, Doing
<1> QED
  BY <1>3, <1>4, <1>5 DEF FaultStep

\* A request that begins finds no other, or they overlap.
LEMMA BeginFlow ==
    ASSUME TypeOK, Lone, ~ overlap', NEW h \in Handlers,
           NEW kind, NEW first, NEW u, NEW i, NEW n, NEW v, Begin(h, kind, first, u, i, n, v)
    PROVE  /\ ~ overlap /\ Current = Idle /\ Lone' /\ UNCHANGED <<tables, faults>>
           /\ Current' = [kind |-> kind, step |-> first, user |-> u, id |-> i,
                          name |-> n, version |-> v, cap |-> 0]
<1>1. ~ overlap /\ Busy = {} /\ UNCHANGED <<tables, faults>>
  BY DEF Begin
<1> DEFINE t == [kind |-> kind, step |-> first, user |-> u, id |-> i,
                 name |-> n, version |-> v, cap |-> 0]
<1>2. task'[h] = t /\ \A g \in Handlers : g # h => task'[g] = Idle
  BY <1>1 DEF Begin, Busy, Working, TypeOK
<1>3. Busy' = IF t = Idle THEN {} ELSE {h}
  BY <1>2 DEF Busy, Working, Idle
<1> QED
  BY <1>1, <1>2, <1>3 DEF Current, Lone, Idle

\* Which steps write what.
LEMMA Writes ==
    ASSUME NEW h, Steady(h)
    PROVE  /\ UNCHANGED <<maker, overlap, faults>>
           /\ ~ InsertRow(h) /\ ~ AppendVersion(h) /\ ~ DeleteVersion(h)
              /\ ~ UpdateActiveVersion(h) /\ ~ DeleteRow(h) => apps' = apps
           /\ ~ ChargeApp(h) /\ ~ RefundApp(h) => appCap' = appCap
           /\ ~ CreateVersionCap(h) /\ ~ ChargeVersion(h) /\ ~ DeleteVersionCaps(h) =>
                versionCap' = versionCap
           /\ ~ CreateBlockCap(h) /\ ~ DeleteBlockCaps(h) => blockCaps' = blockCaps
           /\ ~ CreateAuthority(h) /\ ~ DeleteAuthority(h) => authority' = authority
           /\ ~ CreateBucket(h) /\ ~ DeleteBucket(h) => buckets' = buckets
<1>1. CASE CreateStep(h)
  BY <1>1 DEF CreateStep, ReadAppCap, CheckName, ChargeApp, InsertRow, CreateAuthority,
     CreateVersionCap, CreateBlockCap, CreateBucket, tables, history
<1>2. CASE VersionStep(h)
  BY <1>2 DEF VersionStep, ReadVersionCap, ChargeVersion, AppendVersion, DeleteVersion,
     UpdateActiveVersion, tables, history
<1>3. CASE DeleteStep(h)
  BY <1>3 DEF DeleteStep, CheckAuthority, ReadAppCapToRefund, RefundApp, DeleteAuthority,
     DeleteVersionCaps, DeleteBlockCaps, ReadRow, DeleteRow, DeleteBucket, tables, history
<1> QED
  BY <1>1, <1>2, <1>3 DEF Steady

\* What the writes of the table of applications do.
LEMMA AppInserted ==
    ASSUME NEW h, InTurn(h), InsertRow(h)
    PROVE  /\ Current.id \in Ids /\ Rows' = Rows \cup {Current.id}
           /\ apps'[Current.id] = [owner |-> Current.user, name |-> Current.name,
                                   versions |-> {FirstVersion}, active |-> FirstVersion]
           /\ \A i \in Ids : i # Current.id => apps'[i] = apps[i]
<1>1. Current = task[h] /\ Current.id \in Ids /\ Current.user \in Users
  BY CreateFlow, CurrentTyped DEF CreateStep, Doing, InTurn
<1>2. apps' = [apps EXCEPT ![Current.id] =
                [owner |-> Current.user, name |-> Current.name,
                 versions |-> {FirstVersion}, active |-> FirstVersion]]
  BY <1>1 DEF InsertRow
<1>3. Current.user # NoOwner
  BY <1>1, NullAssumption
<1> QED
  BY <1>1, <1>2, <1>3 DEF Rows, NoApp, InTurn, TypeOK

LEMMA AppRemoved ==
    ASSUME NEW h, InTurn(h), DeleteRow(h)
    PROVE  /\ Current.id \in Ids /\ Rows' = Rows \ {Current.id}
           /\ \A i \in Ids : i # Current.id => apps'[i] = apps[i]
<1>1. Current = task[h] /\ Current.id \in Ids
  BY DeleteFlow, CurrentTyped DEF DeleteStep, Doing, InTurn
<1> QED
  BY <1>1 DEF DeleteRow, Rows, InTurn, TypeOK

LEMMA AppChanged ==
    ASSUME NEW h, InTurn(h), Current.id \in Rows,
           AppendVersion(h) \/ DeleteVersion(h) \/ UpdateActiveVersion(h)
    PROVE  /\ Rows' = Rows
           /\ \A i \in Ids : i # Current.id => apps'[i] = apps[i]
           /\ apps'[Current.id].owner = apps[Current.id].owner
           /\ apps'[Current.id].name = apps[Current.id].name
           /\ AppendVersion(h) =>
                /\ apps'[Current.id].versions = apps[Current.id].versions \cup {Current.version}
                /\ apps'[Current.id].active = apps[Current.id].active
           /\ DeleteVersion(h) =>
                /\ apps'[Current.id].versions = apps[Current.id].versions \ {Current.version}
                /\ apps'[Current.id].active = apps[Current.id].active
           /\ UpdateActiveVersion(h) =>
                /\ apps'[Current.id].versions = apps[Current.id].versions
                /\ apps'[Current.id].active = Current.version
<1> DEFINE i == Current.id
<1>1. Current = task[h] /\ i \in Ids /\ apps[i] \in Row /\ i \in Rows
  BY VersionFlow DEF VersionStep, Rows, InTurn, TypeOK
<1>2. AppendVersion(h) =>
        apps' = [apps EXCEPT ![i] = [apps[i] EXCEPT !.versions = @ \cup {Current.version}]]
  BY <1>1 DEF AppendVersion, Upsert
<1>3. DeleteVersion(h) =>
        apps' = [apps EXCEPT ![i] = [apps[i] EXCEPT !.versions = @ \ {Current.version}]]
  BY <1>1 DEF DeleteVersion
<1>4. UpdateActiveVersion(h) => apps' = [apps EXCEPT ![i] = [apps[i] EXCEPT !.active = Current.version]]
  BY <1>1 DEF UpdateActiveVersion, Upsert
<1>5. PICK r : /\ apps' = [apps EXCEPT ![i] = r]
               /\ r.owner = apps[i].owner /\ r.name = apps[i].name
               /\ AppendVersion(h) => /\ r.versions = apps[i].versions \cup {Current.version}
                                      /\ r.active = apps[i].active
               /\ DeleteVersion(h) => /\ r.versions = apps[i].versions \ {Current.version}
                                      /\ r.active = apps[i].active
               /\ UpdateActiveVersion(h) => r.versions = apps[i].versions /\ r.active = Current.version
  <2>0. ~ (AppendVersion(h) /\ DeleteVersion(h)) /\ ~ (AppendVersion(h) /\ UpdateActiveVersion(h))
        /\ ~ (DeleteVersion(h) /\ UpdateActiveVersion(h))
    BY DEF AppendVersion, DeleteVersion, UpdateActiveVersion, At
  <2>1. CASE AppendVersion(h)
    BY <1>1, <1>2, <2>0, <2>1 DEF Row
  <2>2. CASE DeleteVersion(h)
    BY <1>1, <1>3, <2>0, <2>2 DEF Row
  <2>3. CASE UpdateActiveVersion(h)
    BY <1>1, <1>4, <2>0, <2>3 DEF Row
  <2> QED
    BY <2>1, <2>2, <2>3
<1>6. r.owner # NoOwner
  BY <1>1, <1>5, NullAssumption DEF Row, NoOwner, Nobody
<1>7. r # NoApp
  BY <1>6 DEF NoApp
<1> QED
  BY <1>1, <1>5, <1>7 DEF Rows, InTurn, TypeOK

-----------------------------------------------------------------------------
(* The list of versions *)

\* A step that leaves the table of applications.
LEMMA ListedKept ==
    ASSUME Listed, apps' = apps,
           \/ Current' = Idle
           \/ Current'.kind = "create" \/ Current'.kind = "delete"
           \/ /\ Current'.kind = Current.kind /\ Current'.id = Current.id
              /\ Current'.version = Current.version
    PROVE  Listed'
<1>1. Rows' = Rows
  BY DEF Rows
<1> QED
  BY <1>1 DEF Listed, Idle

LEMMA ListedWrites ==
    ASSUME NEW h, InTurn(h), Listed,
           \/ InsertRow(h) \/ AppendVersion(h) \/ DeleteVersion(h) \/ UpdateActiveVersion(h)
           \/ DeleteRow(h)
    PROVE  Listed'
<1>1. CASE InsertRow(h)
  <2>1. /\ Current.user \in Users /\ Current.name \in Names /\ Current'.kind = "create"
    BY <1>1, CreateFlow, CurrentTyped DEF Doing, Goes, InTurn
  <2> QED
    BY <1>1, <2>1, AppInserted DEF Listed, Rows
<1>2. CASE AppendVersion(h) \/ DeleteVersion(h) \/ UpdateActiveVersion(h)
  <2>1. /\ Current' = Idle /\ Current.id \in Rows
        /\ DeleteVersion(h) => Current.version # apps[Current.id].active
        /\ UpdateActiveVersion(h) => Current.version \in apps[Current.id].versions
    BY <1>2, VersionFlow DEF Doing, Listed
  <2>2. /\ Rows' = Rows
        /\ \A i \in Ids : i # Current.id => apps'[i] = apps[i]
        /\ apps'[Current.id].owner = apps[Current.id].owner
        /\ apps'[Current.id].name = apps[Current.id].name
        /\ apps'[Current.id].active \in apps'[Current.id].versions
    BY <1>2, <2>1, AppChanged DEF Listed
  <2> QED
    BY <2>1, <2>2 DEF Listed, Rows, Idle
<1>3. CASE DeleteRow(h)
  <2>1. Current'.kind = "delete"
    BY <1>3, DeleteFlow DEF Doing, Goes
  <2> QED
    BY <1>3, <2>1, AppRemoved DEF Listed, Rows
<1> QED
  BY <1>1, <1>2, <1>3

LEMMA SteadyFlow ==
    ASSUME NEW h, InTurn(h), Steady(h)
    PROVE  /\ Lone' /\ Working(h) /\ Current = task[h]
           /\ \/ Current' = Idle
              \/ \E s : Goes(s)
              \/ Current'.kind = "delete"
<1>1. CASE CreateStep(h)
  BY <1>1, CreateFlow DEF CreateStep
<1>2. CASE VersionStep(h)
  BY <1>2, VersionFlow DEF VersionStep
<1>3. CASE DeleteStep(h)
  BY <1>3, DeleteFlow DEF DeleteStep
<1> QED
  BY <1>1, <1>2, <1>3 DEF Steady

LEMMA SteadyListed ==
    ASSUME NEW h, InTurn(h), Steady(h), Listed
    PROVE  Listed'
<1>1. \/ Current' = Idle
      \/ Current'.kind = "delete"
      \/ /\ Current'.kind = Current.kind /\ Current'.id = Current.id
         /\ Current'.version = Current.version
  BY SteadyFlow DEF Goes
<1> QED
  BY <1>1, Writes, ListedKept, ListedWrites

LEMMA BegunListed ==
    ASSUME TypeOK, Lone, ~ overlap', Listed, NEW h \in Handlers, Begins(h)
    PROVE  Lone' /\ Listed'
<1>1. ASSUME NEW u \in Users, NEW i \in Ids, NEW n \in Names, BeginCreate(h, u, i, n)
      PROVE  Lone' /\ Listed'
  <2>1. Begin(h, "create", "cap", u, i, n, FirstVersion)
    BY <1>1 DEF BeginCreate
  <2>2. Lone' /\ apps' = apps /\ Current'.kind = "create"
    BY <2>1, BeginFlow DEF tables
  <2> QED
    BY <2>2, ListedKept
<1>2. ASSUME NEW u \in Users, NEW i \in Ids, BeginDelete(h, u, i)
      PROVE  Lone' /\ Listed'
  <2>1. Begin(h, "delete", "check", u, i, Nobody, Nobody)
    BY <1>2 DEF BeginDelete
  <2>2. Lone' /\ apps' = apps /\ Current'.kind = "delete"
    BY <2>1, BeginFlow DEF tables
  <2> QED
    BY <2>2, ListedKept
<1>3. ASSUME NEW u \in Users, NEW i \in Ids, NEW v \in Versions,
             BeginVersion(h, u, i, v) \/ BeginRemove(h, u, i, v) \/ BeginActivate(h, u, i, v)
      PROVE  Lone' /\ Listed'
  <2>1. /\ \/ Begin(h, "version", "cap", u, i, Nobody, v)
           \/ /\ Begin(h, "remove", "cap", u, i, Nobody, v)
              /\ v # apps[i].active
           \/ /\ Begin(h, "activate", "active", u, i, Nobody, v)
              /\ v \in apps[i].versions
        /\ i \in Rows
    BY <1>3 DEF BeginVersion, BeginRemove, BeginActivate, OwnedBy
  <2>2. /\ Lone' /\ apps' = apps
        /\ Current'.id = i /\ Current'.version = v
        /\ \/ Current'.kind = "version"
           \/ Current'.kind = "remove" /\ v # apps[i].active
           \/ Current'.kind = "activate" /\ v \in apps[i].versions
    BY <2>1, BeginFlow DEF tables
  <2>3. Rows' = Rows
    BY <2>2 DEF Rows
  <2> QED
    BY <2>1, <2>2, <2>3 DEF Listed
<1> QED
  BY <1>1, <1>2, <1>3 DEF Begins

LEMMA StutterCurrent ==
    ASSUME UNCHANGED vars
    PROVE  Current' = Current /\ Busy' = Busy /\ Rows' = Rows
BY DEF vars, tables, Current, Busy, Working, Rows

LEMMA ListedInvStep ==
    ASSUME TypeOK, ListedInv, [Next]_vars
    PROVE  ListedInv'
<1>1. CASE UNCHANGED vars
  <2>1. Current' = Current /\ Busy' = Busy /\ UNCHANGED <<apps, overlap>>
    BY <1>1, StutterCurrent DEF vars, tables, history
  <2> QED
    BY <2>1, ListedKept DEF ListedInv, Lone
<1>2. ASSUME NEW h \in Handlers, Begins(h), ~ overlap' PROVE ListedInv'
  <2>1. ~ overlap
    BY <1>2 DEF Begins, BeginCreate, BeginVersion, BeginRemove, BeginActivate, BeginDelete, Begin
  <2> QED
    BY <1>2, <2>1, BegunListed DEF ListedInv
<1>3. ASSUME NEW h \in Handlers, Steady(h), ~ overlap' PROVE ListedInv'
  <2>1. InTurn(h)
    BY <1>3, Writes DEF InTurn, ListedInv
  <2> QED
    BY <1>3, <2>1, SteadyFlow, SteadyListed DEF ListedInv, InTurn
<1>4. ASSUME NEW h \in Handlers, FaultStep(h), ~ overlap' PROVE ListedInv'
  <2>1. InTurn(h)
    BY <1>4 DEF InTurn, ListedInv, FaultStep, CheckNameFails, Stops, CapRefused, history
  <2>2. /\ apps' = apps /\ Lone'
        /\ \/ Current' = Idle
           \/ /\ Current'.kind = Current.kind /\ Current'.id = Current.id
              /\ Current'.version = Current.version
    BY <1>4, <2>1, FaultFlow DEF tables, Goes
  <2> QED
    BY <2>1, <2>2, ListedKept DEF ListedInv, InTurn
<1>5. CASE overlap'
  BY <1>5 DEF ListedInv, Lone
<1> QED
  BY <1>1, <1>2, <1>3, <1>4, <1>5 DEF Next, Begins, Steady, FaultStep

LEMMA ListedInvariant == Spec => []ListedInv
<1>1. Init => ListedInv
  <2> SUFFICES ASSUME Init PROVE ListedInv
    OBVIOUS
  <2>1. Busy = {} /\ Rows = {}
    BY DEF Init, Busy, Working, Rows
  <2> QED
    BY <2>1 DEF ListedInv, Lone, Listed, Current, Idle
<1>2. AppInv /\ ListedInv /\ [Next]_vars => ListedInv'
  BY ListedInvStep DEF AppInv
<1> QED
  BY <1>1, <1>2, AppInvariant, PTL DEF Spec

-----------------------------------------------------------------------------
(* What holds whatever interleaves and fails *)

\* An authority is of the user who made the application: a deletion takes them all.
OwnAuthority == \A u \in Users, i \in Ids : <<u, i>> \in authority => u = maker[i]
\* There are finitely many applications, each with finitely many versions.
Made == {i \in Ids : maker[i] # Nobody}
Finite == IsFiniteSet(Made) /\ \A i \in Ids : IsFiniteSet(apps[i].versions)
Grounded == OwnAuthority /\ Finite

LEMMA ListsStayFinite ==
    ASSUME TypeOK, NEW h \in Handlers, Steady(h), \A i \in Ids : IsFiniteSet(apps[i].versions)
    PROVE  \A i \in Ids : IsFiniteSet(apps'[i].versions)
<1> DEFINE a == task[h].id
<1>0. IsFiniteSet({}) /\ IsFiniteSet({FirstVersion})
  BY FS_EmptySet, FS_Singleton
<1>1. CASE InsertRow(h)
  BY <1>0, <1>1 DEF InsertRow, TypeOK
<1>2. CASE DeleteRow(h)
  BY <1>0, <1>2 DEF DeleteRow, TypeOK, NoApp
<1>3. CASE AppendVersion(h) \/ DeleteVersion(h) \/ UpdateActiveVersion(h)
  <2>1. task[h].kind # "none"
    BY <1>3 DEF AppendVersion, DeleteVersion, UpdateActiveVersion, At
  <2>2. a \in Ids
    BY <2>1, WorkingTask
  <2>3. Upsert(a) \in Row /\ IsFiniteSet(Upsert(a).versions)
    BY <1>0, <2>2, UpsertTyped DEF Upsert, Ghost
  <2>4. PICK r : /\ apps' = [apps EXCEPT ![a] = r]
                 /\ \/ r.versions = Upsert(a).versions \cup {task[h].version}
                    \/ r.versions = apps[a].versions \ {task[h].version}
                    \/ r.versions = Upsert(a).versions
                    \/ r = apps[a]
    <3>1. CASE AppendVersion(h)
      <4> DEFINE q == [Upsert(a) EXCEPT !.versions = @ \cup {task[h].version}]
      <4>1. apps' = [apps EXCEPT ![a] = q]
        BY <3>1 DEF AppendVersion
      <4>2. q.versions = Upsert(a).versions \cup {task[h].version}
        BY <2>3 DEF Row
      <4> HIDE DEF q
      <4> QED
        BY <4>1, <4>2
    <3>2. CASE UpdateActiveVersion(h)
      <4> DEFINE q == [Upsert(a) EXCEPT !.active = task[h].version]
      <4>1. apps' = [apps EXCEPT ![a] = q]
        BY <3>2 DEF UpdateActiveVersion
      <4>2. q.versions = Upsert(a).versions
        BY <2>3 DEF Row
      <4> HIDE DEF q
      <4> QED
        BY <4>1, <4>2
    <3>3. CASE DeleteVersion(h) /\ a \in Rows
      <4> DEFINE q == [apps[a] EXCEPT !.versions = @ \ {task[h].version}]
      <4>1. apps' = [apps EXCEPT ![a] = q]
        BY <3>3 DEF DeleteVersion
      <4>2. apps[a] \in Row
        BY <3>3 DEF TypeOK, Rows
      <4>3. q.versions = apps[a].versions \ {task[h].version}
        BY <4>2 DEF Row
      <4> HIDE DEF q
      <4> QED
        BY <4>1, <4>3
    <3>4. CASE DeleteVersion(h) /\ a \notin Rows
      <4>1. apps' = [apps EXCEPT ![a] = apps[a]]
        BY <2>2, <3>4 DEF DeleteVersion, TypeOK
      <4> QED
        BY <4>1
    <3> QED
      BY <1>3, <3>1, <3>2, <3>3, <3>4
  <2>5. IsFiniteSet(r.versions)
    BY <2>2, <2>3, <2>4, FS_AddElement, FS_RemoveElement
  <2>6. \A i \in Ids : apps'[i] = IF i = a THEN r ELSE apps[i]
    BY <2>4 DEF TypeOK
  <2> QED
    BY <2>5, <2>6
<1>4. CASE apps' = apps
  BY <1>4
<1> QED
  BY <1>1, <1>2, <1>3, <1>4, Writes

LEMMA AuthorityStaysOwn ==
    ASSUME AppInv, OwnAuthority, NEW h \in Handlers, Steady(h)
    PROVE  OwnAuthority'
<1>1. maker' = maker /\ TypeOK
  BY Writes DEF AppInv
<1>2. CASE CreateAuthority(h)
  <2>1. task[h].kind # "none"
    BY <1>2 DEF CreateAuthority, At
  <2>2. maker[task[h].id] = task[h].user
    BY <1>1, <2>1, WorkingTask DEF AppInv, Owners
  <2> QED
    BY <1>1, <1>2, <2>2 DEF CreateAuthority, OwnAuthority
<1>3. CASE DeleteAuthority(h)
  BY <1>1, <1>3 DEF DeleteAuthority, OwnAuthority
<1>4. CASE authority' = authority
  BY <1>1, <1>4 DEF OwnAuthority
<1> QED
  BY <1>2, <1>3, <1>4, Writes

LEMMA GroundedInvariant == Spec => []Grounded
<1>1. Init => Grounded
  <2> SUFFICES ASSUME Init PROVE Grounded
    OBVIOUS
  <2>1. Made = {} /\ \A i \in Ids : apps[i].versions = {}
    BY DEF Init, Made, NoApp
  <2> QED
    BY <2>1, FS_EmptySet DEF Init, Grounded, OwnAuthority, Finite
<1>2. AppInv /\ Grounded /\ [Next]_vars => Grounded'
  <2> SUFFICES ASSUME AppInv, Grounded, [Next]_vars PROVE Grounded'
    OBVIOUS
  <2>1. ASSUME NEW h \in Handlers, Steady(h) PROVE Grounded'
    <3>1. maker' = maker /\ Made' = Made
      BY <2>1, Writes DEF Made
    <3> QED
      BY <2>1, <3>1, ListsStayFinite, AuthorityStaysOwn DEF AppInv, Grounded, Finite
  <2>2. ASSUME UNCHANGED <<tables, maker>> PROVE Grounded'
    BY <2>2 DEF tables, Grounded, OwnAuthority, Finite, Made
  <2>3. ASSUME NEW h \in Handlers, Begins(h) PROVE Grounded'
    <3>1. CASE \E u \in Users, i \in Ids, n \in Names : BeginCreate(h, u, i, n)
      <4>1. PICK u \in Users, i \in Ids, n \in Names : BeginCreate(h, u, i, n)
        BY <3>1
      <4>2. maker[i] = Nobody /\ maker' = [maker EXCEPT ![i] = u] /\ UNCHANGED tables
        BY <4>1 DEF BeginCreate, Begin
      <4>3. Nobody \notin Users
        BY NullAssumption
      <4>4. \A j \in Ids : maker'[j] = IF j = i THEN u ELSE maker[j]
        BY <4>2 DEF AppInv, TypeOK
      <4>5. Made' = Made \cup {i}
        BY <4>3, <4>4 DEF Made
      <4>6. OwnAuthority'
        BY <4>2, <4>3, <4>4 DEF tables, Grounded, OwnAuthority
      <4> QED
        BY <4>2, <4>5, <4>6, FS_AddElement DEF tables, Grounded, Finite
    <3>2. CASE ~ \E u \in Users, i \in Ids, n \in Names : BeginCreate(h, u, i, n)
      <4>1. UNCHANGED <<tables, maker>>
        BY <2>3, <3>2 DEF Begins, BeginVersion, BeginRemove, BeginActivate, BeginDelete, Begin
      <4> QED
        BY <2>2, <4>1
    <3> QED
      BY <3>1, <3>2
  <2>4. ASSUME NEW h \in Handlers, FaultStep(h) PROVE Grounded'
    <3>1. UNCHANGED <<tables, maker>>
      BY <2>4 DEF FaultStep, CheckNameFails, Stops, CapRefused, history
    <3> QED
      BY <2>2, <3>1
  <2>5. CASE UNCHANGED vars
    BY <2>2, <2>5 DEF vars, history
  <2> QED
    BY <2>1, <2>3, <2>4, <2>5 DEF Next, Begins, Steady, FaultStep
<1> QED
  BY <1>1, <1>2, AppInvariant, PTL DEF Spec

-----------------------------------------------------------------------------
(* What holds while requests have neither overlapped nor failed *)

\* The steps of a creation without its row and with it, and of a deletion.
Unborn == {"cap", "name", "charge", "insert"}
Born == {"authority", "version_cap", "block_cap", "bucket"}
Living == {"check", "cap", "refund", "authority", "version_caps", "block_caps", "read", "row"}

\* What the request knows of its application.
KnownApp ==
    /\ Doing("create", Unborn) => Current.id \notin Rows
    /\ Doing("create", Born) =>
         /\ Current.id \in Rows
         /\ apps[Current.id].name = Current.name
         /\ apps[Current.id].versions = {FirstVersion}
    /\ Doing("create", {"authority", "version_cap"}) => versionCap[Current.id] = NoCap
    /\ Current.kind = "version" => Current.version \notin apps[Current.id].versions
    /\ Current.kind = "remove" => Current.version \in apps[Current.id].versions
    /\ Doing("delete", Living) => Current.id \in Rows
    /\ Doing("delete", {"row"}) => Current.name = apps[Current.id].name

\* The cap of a user.
Refunded == {"authority", "version_caps", "block_caps", "read", "row"}
CountsApp(u, i) ==
    \/ i \in Rows /\ apps[i].owner = u /\ ~ (Doing("delete", Refunded) /\ i = Current.id)
    \/ Doing("create", {"insert"}) /\ i = Current.id /\ Current.user = u
ChargedApps(u) == {i \in Ids : CountsApp(u, i)}
AppsCounted ==
    /\ \A u \in Users : appCap[u] + Cardinality(ChargedApps(u)) = AppTier
    /\ Doing("create", {"name", "charge"}) \/ Doing("delete", {"refund"}) =>
          Current.cap = appCap[Current.user]

\* The cap of the versions of an application.
CountsVersion(i, v) ==
    \/ v \in apps[i].versions /\ ~ (Doing("remove", {"list"}) /\ i = Current.id /\ v = Current.version)
    \/ Doing("version", {"block_cap", "append"}) /\ i = Current.id /\ v = Current.version
ChargedVersions(i) == {v \in Versions : CountsVersion(i, v)}
VersionsCounted ==
    /\ \A i \in Rows : versionCap[i] # NoCap =>
          versionCap[i] + Cardinality(ChargedVersions(i)) = VersionTier
    /\ Doing("version", {"charge"}) \/ Doing("remove", {"charge"}) =>
          Current.cap = versionCap[Current.id]

\* Names.
NamesApart ==
    /\ \A i, j \in Rows : apps[i].name = apps[j].name => i = j
    /\ Doing("create", {"charge", "insert"}) \/ Doing("delete", {"bucket"}) =>
          \A i \in Rows : apps[i].name # Current.name

\* What is left.
Unbucketed == {i \in Rows : Doing("create", Born) /\ i = Current.id}
Leftover == {n \in Names : Doing("delete", {"bucket"}) /\ n = Current.name}
Tidy ==
    /\ \A i \in Ids \ Rows :
          /\ \A u \in Users : <<u, i>> \notin authority
          /\ versionCap[i] = NoCap
          /\ \A v \in Versions : blockCaps[i][v] = 0
    /\ Doing("delete", {"version_caps", "block_caps", "read", "row"}) =>
          \A u \in Users : <<u, Current.id>> \notin authority
    /\ Doing("delete", {"block_caps", "read", "row"}) => versionCap[Current.id] = NoCap
    /\ Doing("delete", {"read", "row"}) => \A v \in Versions : blockCaps[Current.id][v] = 0
    /\ buckets = {apps[i].name : i \in Rows \ Unbucketed} \cup Leftover

Counted == KnownApp /\ AppsCounted /\ VersionsCounted /\ NamesApart /\ Tidy
Clean == ~ overlap /\ faults = 0
CleanInv == Clean => Counted

InClean(h) == InTurn(h) /\ Steady(h) /\ AppInv /\ Grounded /\ Listed /\ Counted

LEMMA CurrentOwned ==
    ASSUME NEW h, InClean(h)
    PROVE  /\ Current.kind # "none" /\ Current = task[h]
           /\ Current.id \in Ids /\ Current.user \in Users
           /\ maker[Current.id] = Current.user
           /\ Current.id \in Rows => apps[Current.id].owner = Current.user
<1>1. Working(h) /\ Current = task[h] /\ h \in Handlers
  BY SteadyFlow DEF InClean, InTurn
<1>2. Current.kind # "none"
  BY <1>1 DEF Working, InClean, InTurn, TypeOK, Tasks, Task
<1>3. Current.id \in Ids /\ Current.user \in Users /\ maker[Current.id] = Current.user
  BY <1>1, <1>2, WorkingTask DEF InClean, AppInv, Owners
<1>4. Current.id \in Rows => apps[Current.id].owner \in Users
                             /\ apps[Current.id].owner \in {Current.user, Nobody}
  BY <1>3 DEF InClean, Listed, AppInv, Owners
<1> QED
  BY <1>1, <1>2, <1>3, <1>4, NullAssumption

\* What the request knows of its application.
LEMMA KnownAppCreate ==
    ASSUME NEW h, InClean(h), CreateStep(h)
    PROVE  KnownApp'
<1>0. InTurn(h) /\ KnownApp /\ Listed
  BY DEF InClean, Counted
<1>1. CASE Current' = Idle
  BY <1>1 DEF KnownApp, Doing, Idle
<1>2. CASE ReadAppCap(h) \/ CheckName(h) \/ ChargeApp(h)
  <2>1. apps' = apps /\ Rows' = Rows
    BY <1>2, Writes DEF InClean, Rows, ReadAppCap, CheckName, ChargeApp, InsertRow, AppendVersion, DeleteVersion,
       UpdateActiveVersion, DeleteRow, At
  <2>2. Current' = Idle \/ (/\ Doing("create", Unborn)
                            /\ Current'.kind = "create" /\ Current'.id = Current.id
                            /\ Current'.step \in {"name", "charge", "insert"})
    BY <1>0, <1>2, CreateFlow DEF Doing, Goes, Unborn
  <2> QED
    BY <1>0, <1>1, <2>1, <2>2 DEF KnownApp, Doing, Born
<1>3. CASE InsertRow(h)
  <2>1. /\ Doing("create", {"insert"}) /\ Goes("authority")
        /\ Current.id \in Rows' /\ Current.id \in Ids \ Rows
        /\ apps'[Current.id].name = Current.name
        /\ apps'[Current.id].versions = {FirstVersion}
    BY <1>0, <1>3, CreateFlow, AppInserted DEF KnownApp, Doing, Unborn
  <2>2. versionCap'[Current.id] = NoCap
    BY <1>3, <2>1 DEF InsertRow, InClean, Counted, Tidy
  <2> QED
    BY <2>1, <2>2 DEF KnownApp, Doing, Goes, Unborn
<1>4. CASE CreateAuthority(h) \/ CreateVersionCap(h) \/ CreateBlockCap(h)
  <2>1. apps' = apps /\ Rows' = Rows
    BY <1>4 DEF Rows, CreateAuthority, CreateVersionCap, CreateBlockCap
  <2>2. CASE Current.kind = "create"
    <3>1. /\ Doing("create", Born)
          /\ Current'.kind = "create" /\ Current'.id = Current.id /\ Current'.name = Current.name
          /\ \/ Current'.step = "version_cap" /\ versionCap' = versionCap
                /\ Doing("create", {"authority"})
             \/ Current'.step \in {"block_cap", "bucket"}
      BY <1>0, <1>4, <2>2, CreateFlow DEF Doing, Goes, Born, CreateAuthority
    <3> QED
      BY <1>0, <2>1, <3>1 DEF KnownApp, Doing, Born, Unborn
  <2>3. CASE Current.kind # "create"
    <3>1. /\ Current.kind = "version" /\ Current'.kind = "version"
          /\ Current'.id = Current.id /\ Current'.version = Current.version
      BY <1>0, <1>4, <2>3, CreateFlow DEF Doing, Goes
    <3> QED
      BY <1>0, <2>1, <3>1 DEF KnownApp, Doing
  <2> QED
    BY <2>2, <2>3
<1>5. CASE CreateBucket(h)
  BY <1>0, <1>1, <1>5, CreateFlow
<1> QED
  BY <1>2, <1>3, <1>4, <1>5 DEF CreateStep

LEMMA KnownAppVersion ==
    ASSUME NEW h, InClean(h), VersionStep(h)
    PROVE  KnownApp'
<1>0. InTurn(h) /\ KnownApp
  BY DEF InClean, Counted
<1>1. CASE Current' = Idle
  BY <1>1 DEF KnownApp, Doing, Idle
<1>2. CASE Current' # Idle
  <2>1. ReadVersionCap(h) \/ ChargeVersion(h)
    BY <1>0, <1>2, VersionFlow DEF VersionStep
  <2>2. apps' = apps
    BY <2>1 DEF ReadVersionCap, ChargeVersion, tables
  <2>3. /\ Current.kind \in {"version", "remove"} /\ Current'.kind = Current.kind
        /\ Current'.id = Current.id /\ Current'.version = Current.version
    BY <1>0, <1>2, <2>1, VersionFlow DEF Doing, Goes
  <2> QED
    BY <1>0, <2>2, <2>3 DEF KnownApp, Doing
<1> QED
  BY <1>1, <1>2

LEMMA KnownAppDelete ==
    ASSUME NEW h, InClean(h), DeleteStep(h)
    PROVE  KnownApp'
<1>0. InTurn(h) /\ KnownApp
  BY DEF InClean, Counted
<1>1. CASE Current' = Idle
  BY <1>1 DEF KnownApp, Doing, Idle
<1>2. CASE DeleteRow(h)
  <2>1. Current'.kind = "delete" /\ Current'.step = "bucket"
    BY <1>0, <1>2, DeleteFlow DEF Doing, Goes
  <2> QED
    BY <2>1 DEF KnownApp, Doing, Living
<1>3. CASE Current' # Idle /\ ~ DeleteRow(h)
  <2>1. apps' = apps /\ Rows' = Rows
    BY <1>3 DEF DeleteStep, Rows, CheckAuthority, ReadAppCapToRefund, RefundApp, DeleteAuthority,
       DeleteVersionCaps, DeleteBlockCaps, ReadRow, DeleteBucket, tables
  <2>2. /\ Doing("delete", Living)
        /\ Current'.kind = "delete" /\ Current'.id = Current.id
        /\ Current'.step = "row" => Current'.name = apps[Current.id].name
    BY <1>0, <1>3, DeleteFlow DEF DeleteStep, Doing, Goes, Living
  <2> QED
    BY <1>0, <2>1, <2>2 DEF KnownApp, Doing
<1> QED
  BY <1>1, <1>2, <1>3

\* The cap of a user: what one step adds to what is charged, or takes from it.
LEMMA ChargedAppsFinite ==
    ASSUME NEW h, InClean(h), NEW u \in Users
    PROVE  /\ IsFiniteSet(ChargedApps(u)) /\ Cardinality(ChargedApps(u)) \in Nat
           /\ appCap[u] = AppTier - Cardinality(ChargedApps(u)) /\ appCap[u] \in Int
<1>1. ChargedApps(u) \subseteq Made
  BY CurrentOwned, NullAssumption DEF ChargedApps, CountsApp, Made, InClean, AppInv, Owners
<1>2. IsFiniteSet(ChargedApps(u)) /\ Cardinality(ChargedApps(u)) \in Nat
  BY <1>1, FS_Subset, FS_CardinalityType DEF InClean, Grounded, Finite
<1>3. appCap[u] + Cardinality(ChargedApps(u)) = AppTier /\ appCap[u] \in Int
  BY DEF InClean, Counted, AppsCounted, InTurn, TypeOK
<1> QED
  BY <1>2, <1>3, TiersAssumption

LEMMA AppsRecounted ==
    ASSUME NEW h, InClean(h),
           \A u \in Users :
             \/ /\ appCap'[u] = appCap[u]
                /\ \A i \in Ids : CountsApp(u, i)' <=> CountsApp(u, i)
             \/ /\ appCap'[u] = appCap[u] - 1
                /\ \E i \in Ids : ~ CountsApp(u, i)
                     /\ \A j \in Ids : CountsApp(u, j)' <=> CountsApp(u, j) \/ j = i
             \/ /\ appCap'[u] = appCap[u] + 1
                /\ \E i \in Ids : CountsApp(u, i)
                     /\ \A j \in Ids : CountsApp(u, j)' <=> CountsApp(u, j) /\ j # i
    PROVE  \A u \in Users : appCap'[u] + Cardinality(ChargedApps(u)') = AppTier
<1> SUFFICES ASSUME NEW u \in Users
             PROVE  appCap'[u] + Cardinality(ChargedApps(u)') = AppTier
  OBVIOUS
<1>0. /\ IsFiniteSet(ChargedApps(u)) /\ Cardinality(ChargedApps(u)) \in Nat
      /\ appCap[u] = AppTier - Cardinality(ChargedApps(u)) /\ appCap[u] \in Int
  BY ChargedAppsFinite
<1>1. CASE /\ appCap'[u] = appCap[u]
           /\ \A i \in Ids : CountsApp(u, i)' <=> CountsApp(u, i)
  <2>1. ChargedApps(u)' = ChargedApps(u)
    BY <1>1 DEF ChargedApps
  <2> QED
    BY <1>0, <1>1, <2>1, TiersAssumption
<1>2. CASE /\ appCap'[u] = appCap[u] - 1
           /\ \E i \in Ids : ~ CountsApp(u, i)
                /\ \A j \in Ids : CountsApp(u, j)' <=> CountsApp(u, j) \/ j = i
  <2>1. PICK i \in Ids : ~ CountsApp(u, i)
                /\ \A j \in Ids : CountsApp(u, j)' <=> CountsApp(u, j) \/ j = i
    BY <1>2
  <2>2. ChargedApps(u)' = ChargedApps(u) \cup {i} /\ i \notin ChargedApps(u)
    BY <2>1 DEF ChargedApps
  <2>3. Cardinality(ChargedApps(u)') = Cardinality(ChargedApps(u)) + 1
    BY <1>0, <2>2, FS_AddElement
  <2> QED
    BY <1>0, <1>2, <2>3, TiersAssumption
<1>3. CASE /\ appCap'[u] = appCap[u] + 1
           /\ \E i \in Ids : CountsApp(u, i)
                /\ \A j \in Ids : CountsApp(u, j)' <=> CountsApp(u, j) /\ j # i
  <2>1. PICK i \in Ids : CountsApp(u, i)
                /\ \A j \in Ids : CountsApp(u, j)' <=> CountsApp(u, j) /\ j # i
    BY <1>3
  <2>2. ChargedApps(u)' = ChargedApps(u) \ {i} /\ i \in ChargedApps(u)
    BY <2>1 DEF ChargedApps
  <2>3. Cardinality(ChargedApps(u)') = Cardinality(ChargedApps(u)) - 1
    BY <1>0, <2>2, FS_RemoveElement
  <2> QED
    BY <1>0, <1>3, <2>3, TiersAssumption
<1> QED
  BY <1>1, <1>2, <1>3

LEMMA AppsCountKept ==
    ASSUME NEW h, InClean(h), appCap' = appCap, Rows' = Rows,
           \A i \in Rows : apps'[i].owner = apps[i].owner,
           ~ Doing("create", {"insert"}), ~ Doing("create", {"insert"})',
           Doing("delete", Refunded)' <=> Doing("delete", Refunded),
           Doing("delete", Refunded) => Current'.id = Current.id,
           (Doing("create", {"name", "charge"}) \/ Doing("delete", {"refund"}))' =>
               Current'.cap = appCap[Current'.user]
    PROVE  AppsCounted'
<1>1. \A u \in Users : \A i \in Ids : CountsApp(u, i)' <=> CountsApp(u, i)
  BY DEF CountsApp
<1> QED
  BY <1>1, AppsRecounted DEF AppsCounted

LEMMA AppsCountedCreate ==
    ASSUME NEW h, InClean(h), CreateStep(h)
    PROVE  AppsCounted'
<1>0. InTurn(h) /\ KnownApp /\ AppsCounted /\ Current.id \in Ids /\ Current.user \in Users
  BY CurrentOwned DEF InClean, Counted
<1>1. CASE ChargeApp(h)
  <2>1. /\ Doing("create", {"charge"}) /\ Goes("insert") /\ Current.id \notin Rows
        /\ Current.cap = appCap[Current.user] /\ Current = task[h]
    BY <1>0, <1>1, CreateFlow DEF Doing, KnownApp, AppsCounted, CreateStep, Unborn
  <2>2. apps' = apps /\ Rows' = Rows
    BY <1>1 DEF ChargeApp, Rows
  <2>3. \A u \in Users : appCap'[u] = IF u = Current.user THEN appCap[u] - 1 ELSE appCap[u]
    BY <1>0, <1>1, <2>1 DEF ChargeApp, InTurn, TypeOK
  <2>4. \A u \in Users : \A i \in Ids :
          CountsApp(u, i)' <=> CountsApp(u, i) \/ (u = Current.user /\ i = Current.id)
    BY <2>1, <2>2 DEF CountsApp, Doing, Goes
  <2>5. ~ CountsApp(Current.user, Current.id)
    BY <2>1 DEF CountsApp, Doing
  <2>6. \A u \in Users : appCap'[u] + Cardinality(ChargedApps(u)') = AppTier
    BY <1>0, <2>3, <2>4, <2>5, AppsRecounted
  <2> QED
    BY <2>1, <2>6 DEF AppsCounted, Doing, Goes
<1>2. CASE InsertRow(h)
  <2>1. /\ Doing("create", {"insert"}) /\ Goes("authority") /\ Current.id \notin Rows
    BY <1>0, <1>2, CreateFlow DEF Doing, KnownApp, Unborn
  <2>0. appCap' = appCap
    BY <1>2 DEF InsertRow
  <2>2. /\ Rows' = Rows \cup {Current.id} /\ appCap' = appCap
        /\ apps'[Current.id].owner = Current.user
        /\ \A i \in Ids : i # Current.id => apps'[i] = apps[i]
    BY <1>0, <1>2, <2>0, AppInserted
  <2>3. \A u \in Users : \A i \in Ids : CountsApp(u, i)' <=> CountsApp(u, i)
    BY <2>1, <2>2 DEF CountsApp, Doing, Goes
  <2>4. \A u \in Users : appCap'[u] + Cardinality(ChargedApps(u)') = AppTier
    BY <2>2, <2>3, AppsRecounted
  <2> QED
    BY <2>1, <2>4 DEF AppsCounted, Doing, Goes
<1>3. CASE ~ ChargeApp(h) /\ ~ InsertRow(h)
  <2>1. apps' = apps /\ Rows' = Rows /\ appCap' = appCap
    BY <1>3 DEF CreateStep, Rows, ReadAppCap, CheckName, CreateAuthority,
       CreateVersionCap, CreateBlockCap, CreateBucket, tables
  <2>2. /\ ~ Doing("create", {"insert"}) /\ ~ Doing("delete", Refunded)
        /\ ~ Doing("create", {"insert"})' /\ ~ Doing("delete", Refunded)'
        /\ ~ Doing("delete", {"refund"})'
    BY <1>0, <1>3, CreateFlow DEF CreateStep, Doing, Goes, Idle
  <2>3. Doing("create", {"name", "charge"})' => Current'.cap = appCap[Current'.user]
    BY <1>0, <1>3, CreateFlow DEF CreateStep, Doing, Goes, Idle, AppsCounted
  <2> QED
    BY <2>1, <2>2, <2>3, AppsCountKept
<1> QED
  BY <1>1, <1>2, <1>3

LEMMA AppsCountedVersion ==
    ASSUME NEW h, InClean(h), VersionStep(h)
    PROVE  AppsCounted'
<1>0. InTurn(h) /\ Listed
  BY DEF InClean
<1>1. /\ Current.kind \in {"version", "remove", "activate"} /\ Current.id \in Rows
      /\ Current' = Idle \/ Current'.kind = Current.kind
  BY <1>0, VersionFlow DEF VersionStep, Doing, Goes, Listed
<1>2. Rows' = Rows /\ \A i \in Rows : apps'[i].owner = apps[i].owner
  <2>1. CASE AppendVersion(h) \/ DeleteVersion(h) \/ UpdateActiveVersion(h)
    BY <1>0, <1>1, <2>1, AppChanged DEF Rows
  <2>2. CASE ReadVersionCap(h) \/ ChargeVersion(h)
    BY <2>2 DEF ReadVersionCap, ChargeVersion, tables, Rows
  <2> QED
    BY <2>1, <2>2 DEF VersionStep
<1>3. appCap' = appCap
  BY DEF VersionStep, ReadVersionCap, ChargeVersion, AppendVersion, DeleteVersion,
     UpdateActiveVersion, tables
<1>4. ~ \E s : Doing("create", s) \/ Doing("delete", s) \/ Doing("create", s)' \/ Doing("delete", s)'
  BY <1>1 DEF Doing, Idle
<1> QED
  BY <1>2, <1>3, <1>4, AppsCountKept

LEMMA AppsCountedDelete ==
    ASSUME NEW h, InClean(h), DeleteStep(h)
    PROVE  AppsCounted'
<1>0. /\ InTurn(h) /\ KnownApp /\ AppsCounted /\ Current.id \in Ids /\ Current.user \in Users
      /\ Current.id \in Rows => apps[Current.id].owner = Current.user /\ apps[Current.id].name # Nobody
  BY CurrentOwned, NullAssumption DEF InClean, Counted, Listed
<1>1. CASE RefundApp(h)
  <2>1. /\ Doing("delete", {"refund"}) /\ Goes("authority") /\ Current.id \in Rows
        /\ Current.cap = appCap[Current.user] /\ Current = task[h]
    BY <1>0, <1>1, DeleteFlow DEF Doing, KnownApp, AppsCounted, DeleteStep, Living
  <2>2. apps' = apps /\ Rows' = Rows
    BY <1>1 DEF RefundApp, Rows
  <2>3. \A u \in Users : appCap'[u] = IF u = Current.user THEN appCap[u] + 1 ELSE appCap[u]
    BY <1>0, <1>1, <2>1 DEF RefundApp, InTurn, TypeOK
  <2>4. \A u \in Users : \A i \in Ids :
          CountsApp(u, i)' <=> CountsApp(u, i) /\ i # Current.id
    BY <2>1, <2>2 DEF CountsApp, Doing, Goes, Refunded
  <2>5. \A u \in Users : CountsApp(u, Current.id) <=> u = Current.user
    BY <1>0, <2>1 DEF CountsApp, Doing, Refunded
  <2>6. \A u \in Users : u # Current.user =>
          \A i \in Ids : CountsApp(u, i)' <=> CountsApp(u, i)
    BY <2>4, <2>5
  <2>7. \A u \in Users : appCap'[u] + Cardinality(ChargedApps(u)') = AppTier
    BY <1>0, <2>3, <2>4, <2>5, <2>6, AppsRecounted
  <2> QED
    BY <2>1, <2>7 DEF AppsCounted, Doing, Goes
<1>2. CASE DeleteRow(h)
  <2>1. /\ Doing("delete", {"row"}) /\ Goes("bucket") /\ Current.id \in Rows
    BY <1>0, <1>2, DeleteFlow DEF Doing, KnownApp, Living
  <2>2. /\ Rows' = Rows \ {Current.id} /\ appCap' = appCap
        /\ \A i \in Ids : i # Current.id => apps'[i] = apps[i]
    BY <1>0, <1>2, AppRemoved DEF DeleteRow
  <2>3. \A u \in Users : \A i \in Ids : CountsApp(u, i)' <=> CountsApp(u, i)
    BY <2>1, <2>2 DEF CountsApp, Doing, Goes, Refunded
  <2>4. \A u \in Users : appCap'[u] + Cardinality(ChargedApps(u)') = AppTier
    BY <2>2, <2>3, AppsRecounted
  <2> QED
    BY <2>1, <2>4 DEF AppsCounted, Doing, Goes
<1>3. CASE ~ RefundApp(h) /\ ~ DeleteRow(h)
  <2>1. apps' = apps /\ Rows' = Rows /\ appCap' = appCap
    BY <1>3 DEF DeleteStep, Rows, CheckAuthority, ReadAppCapToRefund, DeleteAuthority,
       DeleteVersionCaps, DeleteBlockCaps, ReadRow, DeleteBucket, tables
  <2>2. /\ ~ Doing("create", {"insert"}) /\ ~ Doing("create", {"insert"})'
        /\ ~ Doing("create", {"name", "charge"})'
    BY <1>0, <1>3, DeleteFlow DEF DeleteStep, Doing, Goes, Idle
  <2>3. CASE ReadRow(h)
    <3>1. /\ Doing("delete", {"read"}) /\ Current.id \in Rows
          /\ Current'.kind = "delete" /\ Current'.step = "row" /\ Current'.id = Current.id
      BY <1>0, <2>3, DeleteFlow DEF KnownApp, Doing, Living
    <3> QED
      BY <2>1, <2>2, <3>1, AppsCountKept DEF Doing, Refunded
  <2>4. CASE ~ ReadRow(h)
    <3>1. /\ Doing("delete", Refunded)' <=> Doing("delete", Refunded)
          /\ Doing("delete", Refunded) => Current'.id = Current.id
          /\ Doing("delete", {"refund"})' => Current'.cap = appCap[Current'.user]
      BY <1>0, <1>3, <2>4, DeleteFlow DEF DeleteStep, Doing, Goes, Idle, Refunded
    <3> QED
      BY <2>1, <2>2, <3>1, AppsCountKept
  <2> QED
    BY <2>3, <2>4
<1> QED
  BY <1>1, <1>2, <1>3

\* The cap of an application's versions.
LEMMA ChargedVersionsFinite ==
    ASSUME NEW h, InClean(h), NEW i \in Rows, versionCap[i] # NoCap
    PROVE  /\ IsFiniteSet(ChargedVersions(i)) /\ Cardinality(ChargedVersions(i)) \in Nat
           /\ versionCap[i] = VersionTier - Cardinality(ChargedVersions(i)) /\ versionCap[i] \in Int
<1>1. ChargedVersions(i) \subseteq apps[i].versions \cup {Current.version}
  BY DEF ChargedVersions, CountsVersion
<1>2. IsFiniteSet(apps[i].versions \cup {Current.version})
  BY FS_AddElement DEF InClean, Grounded, Finite, Rows
<1>3. IsFiniteSet(ChargedVersions(i)) /\ Cardinality(ChargedVersions(i)) \in Nat
  BY <1>1, <1>2, FS_Subset, FS_CardinalityType
<1>4. versionCap[i] + Cardinality(ChargedVersions(i)) = VersionTier /\ versionCap[i] \in Int
  BY DEF InClean, Counted, VersionsCounted, InTurn, TypeOK, Rows
<1> QED
  BY <1>3, <1>4, TiersAssumption

LEMMA VersionsRecounted ==
    ASSUME NEW h, InClean(h),
           \A i \in Rows' : versionCap'[i] # NoCap =>
             \/ /\ versionCap'[i] = VersionTier - 1
                /\ \E v \in Versions : \A w \in Versions : CountsVersion(i, w)' <=> w = v
             \/ /\ i \in Rows /\ versionCap'[i] = versionCap[i]
                /\ \A v \in Versions : CountsVersion(i, v)' <=> CountsVersion(i, v)
             \/ /\ i \in Rows /\ versionCap[i] # NoCap /\ versionCap'[i] = versionCap[i] - 1
                /\ \E v \in Versions : ~ CountsVersion(i, v)
                     /\ \A w \in Versions : CountsVersion(i, w)' <=> CountsVersion(i, w) \/ w = v
             \/ /\ i \in Rows /\ versionCap[i] # NoCap /\ versionCap'[i] = versionCap[i] + 1
                /\ \E v \in Versions : CountsVersion(i, v)
                     /\ \A w \in Versions : CountsVersion(i, w)' <=> CountsVersion(i, w) /\ w # v
    PROVE  \A i \in Rows' : versionCap'[i] # NoCap =>
              versionCap'[i] + Cardinality(ChargedVersions(i)') = VersionTier
<1> SUFFICES ASSUME NEW i \in Rows', versionCap'[i] # NoCap
             PROVE  versionCap'[i] + Cardinality(ChargedVersions(i)') = VersionTier
  OBVIOUS
<1>0. i \in Rows /\ versionCap[i] # NoCap =>
        /\ IsFiniteSet(ChargedVersions(i)) /\ Cardinality(ChargedVersions(i)) \in Nat
        /\ versionCap[i] = VersionTier - Cardinality(ChargedVersions(i)) /\ versionCap[i] \in Int
  BY ChargedVersionsFinite
<1>1. CASE /\ versionCap'[i] = VersionTier - 1
           /\ \E v \in Versions : \A w \in Versions : CountsVersion(i, w)' <=> w = v
  <2>1. PICK v \in Versions : \A w \in Versions : CountsVersion(i, w)' <=> w = v
    BY <1>1
  <2>2. ChargedVersions(i)' = {v}
    BY <2>1 DEF ChargedVersions
  <2>3. Cardinality(ChargedVersions(i)') = 1
    BY <2>2, FS_Singleton
  <2> QED
    BY <1>1, <2>3, TiersAssumption
<1>2. CASE /\ i \in Rows /\ versionCap'[i] = versionCap[i]
           /\ \A v \in Versions : CountsVersion(i, v)' <=> CountsVersion(i, v)
  <2>1. ChargedVersions(i)' = ChargedVersions(i)
    BY <1>2 DEF ChargedVersions
  <2> QED
    BY <1>0, <1>2, <2>1, TiersAssumption
<1>3. CASE /\ i \in Rows /\ versionCap[i] # NoCap /\ versionCap'[i] = versionCap[i] - 1
           /\ \E v \in Versions : ~ CountsVersion(i, v)
                /\ \A w \in Versions : CountsVersion(i, w)' <=> CountsVersion(i, w) \/ w = v
  <2>1. PICK v \in Versions : ~ CountsVersion(i, v)
                /\ \A w \in Versions : CountsVersion(i, w)' <=> CountsVersion(i, w) \/ w = v
    BY <1>3
  <2>2. ChargedVersions(i)' = ChargedVersions(i) \cup {v} /\ v \notin ChargedVersions(i)
    BY <2>1 DEF ChargedVersions
  <2>3. Cardinality(ChargedVersions(i)') = Cardinality(ChargedVersions(i)) + 1
    BY <1>0, <1>3, <2>2, FS_AddElement
  <2> QED
    BY <1>0, <1>3, <2>3, TiersAssumption
<1>4. CASE /\ i \in Rows /\ versionCap[i] # NoCap /\ versionCap'[i] = versionCap[i] + 1
           /\ \E v \in Versions : CountsVersion(i, v)
                /\ \A w \in Versions : CountsVersion(i, w)' <=> CountsVersion(i, w) /\ w # v
  <2>1. PICK v \in Versions : CountsVersion(i, v)
                /\ \A w \in Versions : CountsVersion(i, w)' <=> CountsVersion(i, w) /\ w # v
    BY <1>4
  <2>2. ChargedVersions(i)' = ChargedVersions(i) \ {v} /\ v \in ChargedVersions(i)
    BY <2>1 DEF ChargedVersions
  <2>3. Cardinality(ChargedVersions(i)') = Cardinality(ChargedVersions(i)) - 1
    BY <1>0, <1>4, <2>2, FS_RemoveElement
  <2> QED
    BY <1>0, <1>4, <2>3, TiersAssumption
<1> QED
  BY <1>1, <1>2, <1>3, <1>4

LEMMA VersionsCountedCreate ==
    ASSUME NEW h, InClean(h), CreateStep(h)
    PROVE  VersionsCounted'
<1>0. InTurn(h) /\ KnownApp /\ Tidy /\ Current.id \in Ids
  BY CurrentOwned DEF InClean, Counted
<1>1. /\ ~ Doing("version", {"charge"})' /\ ~ Doing("remove", {"charge"})'
      /\ ~ Doing("remove", {"list"}) /\ ~ Doing("remove", {"list"})'
  BY <1>0, CreateFlow DEF CreateStep, Doing, Goes, Idle
<1>2. CASE InsertRow(h)
  <2>0. versionCap' = versionCap
    BY <1>2 DEF InsertRow
  <2>1. /\ Doing("create", {"insert"}) /\ Goes("authority") /\ Current.id \notin Rows
    BY <1>0, <1>2, CreateFlow DEF Doing, KnownApp, Unborn
  <2>2. /\ Rows' = Rows \cup {Current.id}
        /\ \A i \in Ids : i # Current.id => apps'[i] = apps[i]
    BY <1>0, <1>2, AppInserted
  <2>3. versionCap'[Current.id] = NoCap
    BY <1>0, <2>0, <2>1 DEF Tidy
  <2>4. ~ Doing("version", {"block_cap", "append"}) /\ ~ Doing("version", {"block_cap", "append"})'
    BY <2>1 DEF Doing, Goes
  <2>5. \A i \in Rows : i # Current.id =>
          \A v \in Versions : CountsVersion(i, v)' <=> CountsVersion(i, v)
    BY <1>1, <2>2, <2>4 DEF CountsVersion, Rows
  <2> QED
    BY <1>1, <2>0, <2>2, <2>3, <2>5, VersionsRecounted DEF VersionsCounted
<1>3. CASE CreateVersionCap(h)
  <2>1. /\ Doing("create", {"version_cap"}) /\ Goes("block_cap")
        /\ Current = task[h] /\ apps[Current.id].versions = {FirstVersion}
    BY <1>0, <1>3, CreateFlow DEF Doing, KnownApp, CreateStep, Born
  <2>2. apps' = apps /\ Rows' = Rows
    BY <1>3 DEF CreateVersionCap, Rows
  <2>3. \A i \in Ids : versionCap'[i] = IF i = Current.id THEN VersionTier - 1 ELSE versionCap[i]
    BY <1>0, <1>3, <2>1 DEF CreateVersionCap, InTurn, TypeOK
  <2>4. ~ Doing("version", {"block_cap", "append"}) /\ ~ Doing("version", {"block_cap", "append"})'
    BY <2>1 DEF Doing, Goes
  <2>5. \A i \in Ids : \A v \in Versions :
          /\ CountsVersion(i, v)' <=> CountsVersion(i, v)
          /\ CountsVersion(i, v) <=> v \in apps[i].versions
    BY <1>1, <2>2, <2>4 DEF CountsVersion
  <2>6. \A i \in Ids : i = Current.id =>
          \A v \in Versions : CountsVersion(i, v)' <=> v = FirstVersion
    BY <2>1, <2>5
  <2>7. \A i \in Rows' : versionCap'[i] # NoCap =>
              versionCap'[i] + Cardinality(ChargedVersions(i)') = VersionTier
    BY <2>2, <2>3, <2>5, <2>6, VersionsAssumption, VersionsRecounted DEF Rows
  <2> QED
    BY <1>1, <2>7 DEF VersionsCounted
<1>4. CASE ~ InsertRow(h) /\ ~ CreateVersionCap(h)
  <2>1. apps' = apps /\ Rows' = Rows /\ versionCap' = versionCap
    BY <1>4 DEF CreateStep, Rows, ReadAppCap, CheckName, ChargeApp, CreateAuthority,
       CreateBlockCap, CreateBucket, tables
  <2>2. CASE Doing("version", {"block_cap"})
    <3>1. CreateBlockCap(h)
      BY <1>0, <2>2, CreateFlow DEF CreateStep, Doing
    <3>2. Goes("append") /\ Current'.kind = "version"
      BY <1>0, <2>2, <3>1, CreateFlow DEF Doing, Goes
    <3>3. \A i \in Rows : \A v \in Versions : CountsVersion(i, v)' <=> CountsVersion(i, v)
      BY <1>1, <2>1, <2>2, <3>2 DEF CountsVersion, Doing, Goes
    <3> QED
      BY <1>1, <2>1, <3>3, VersionsRecounted DEF VersionsCounted
  <2>3. CASE ~ Doing("version", {"block_cap"})
    <3>1. ~ Doing("version", {"block_cap", "append"}) /\ ~ Doing("version", {"block_cap", "append"})'
      BY <1>0, <2>3, CreateFlow DEF CreateStep, Doing, Goes, Idle
    <3>2. \A i \in Rows : \A v \in Versions : CountsVersion(i, v)' <=> CountsVersion(i, v)
      BY <1>1, <2>1, <3>1 DEF CountsVersion
    <3> QED
      BY <1>1, <2>1, <3>2, VersionsRecounted DEF VersionsCounted
  <2> QED
    BY <2>2, <2>3
<1> QED
  BY <1>2, <1>3, <1>4

LEMMA VersionsCountedVersion ==
    ASSUME NEW h, InClean(h), VersionStep(h)
    PROVE  VersionsCounted'
<1>0. /\ InTurn(h) /\ KnownApp /\ Listed /\ VersionsCounted /\ Current.id \in Ids
      /\ Current = task[h] /\ Current.kind \in {"version", "remove", "activate"}
      /\ Current.id \in Rows /\ Current.version \in Versions
  <2>1. Current.kind \in {"version", "remove", "activate"}
    BY VersionFlow DEF InClean, VersionStep, Doing
  <2> QED
    BY <2>1, CurrentOwned, CurrentTyped DEF InClean, Counted, Listed, InTurn
<1>1. CASE ReadVersionCap(h)
  <2>1. apps' = apps /\ Rows' = Rows /\ versionCap' = versionCap
    BY <1>1 DEF ReadVersionCap, tables, Rows
  <2>2. /\ Current.step = "cap"
        /\ \/ Current' = Idle
           \/ Current'.step = "charge" /\ Current'.cap = versionCap'[Current'.id]
    BY <1>0, <1>1, <2>1, VersionFlow DEF Doing, Goes
  <2>3. \A i \in Rows : \A v \in Versions : CountsVersion(i, v)' <=> CountsVersion(i, v)
    BY <2>1, <2>2 DEF CountsVersion, Doing, Idle
  <2>4. \A i \in Rows' : versionCap'[i] # NoCap =>
              versionCap'[i] + Cardinality(ChargedVersions(i)') = VersionTier
    BY <2>1, <2>3, VersionsRecounted
  <2> QED
    BY <2>2, <2>4 DEF VersionsCounted, Doing, Idle
<1>2. CASE ChargeVersion(h)
  <2>1. apps' = apps /\ Rows' = Rows
    BY <1>2 DEF ChargeVersion, Rows
  <2>2. \/ Doing("version", {"charge"}) /\ Goes("block_cap")
        \/ Doing("remove", {"charge"}) /\ Goes("list")
    BY <1>0, <1>2, VersionFlow
  <2>3. Current.cap = versionCap[Current.id]
    BY <1>0, <2>2 DEF VersionsCounted
  <2>4. \A i \in Ids : versionCap'[i] = IF i # Current.id \/ versionCap[i] = NoCap THEN versionCap[i]
                         ELSE IF Current.kind = "version" THEN versionCap[i] - 1 ELSE versionCap[i] + 1
    BY <1>0, <1>2, <2>3 DEF ChargeVersion, InTurn, TypeOK
  <2>5. \A i \in Ids : i # Current.id => \A v \in Versions : CountsVersion(i, v)' <=> CountsVersion(i, v)
    BY <2>1, <2>2 DEF CountsVersion, Doing, Goes
  <2>6. ASSUME Doing("version", {"charge"}) /\ Goes("block_cap")
        PROVE  \A i \in Rows' : versionCap'[i] # NoCap =>
                  versionCap'[i] + Cardinality(ChargedVersions(i)') = VersionTier
    <3>1. ~ CountsVersion(Current.id, Current.version)
      BY <1>0, <2>6 DEF CountsVersion, KnownApp, Doing
    <3>2. \A i \in Ids : i = Current.id => \A v \in Versions :
            CountsVersion(i, v)' <=> CountsVersion(i, v) \/ v = Current.version
      BY <2>1, <2>6 DEF CountsVersion, Doing, Goes
    <3>3. Current.kind = "version"
      BY <2>6 DEF Doing
    <3> QED
      BY <1>0, <2>1, <2>4, <2>5, <3>1, <3>2, <3>3, VersionsRecounted DEF Rows
  <2>7. ASSUME Doing("remove", {"charge"}) /\ Goes("list")
        PROVE  \A i \in Rows' : versionCap'[i] # NoCap =>
                  versionCap'[i] + Cardinality(ChargedVersions(i)') = VersionTier
    <3>1. CountsVersion(Current.id, Current.version)
      BY <1>0, <2>7 DEF CountsVersion, KnownApp, Doing
    <3>2. \A i \in Ids : i = Current.id => \A v \in Versions :
            CountsVersion(i, v)' <=> CountsVersion(i, v) /\ v # Current.version
      BY <2>1, <2>7 DEF CountsVersion, Doing, Goes
    <3>3. Current.kind = "remove"
      BY <2>7 DEF Doing
    <3> QED
      BY <1>0, <2>1, <2>4, <2>5, <3>1, <3>2, <3>3, VersionsRecounted DEF Rows
  <2>8. \A i \in Rows' : versionCap'[i] # NoCap =>
              versionCap'[i] + Cardinality(ChargedVersions(i)') = VersionTier
    BY <2>2, <2>6, <2>7
  <2>9. ~ Doing("version", {"charge"})' /\ ~ Doing("remove", {"charge"})'
    BY <2>2 DEF Doing, Goes
  <2> QED
    BY <2>8, <2>9 DEF VersionsCounted
<1>3. CASE AppendVersion(h) \/ DeleteVersion(h) \/ UpdateActiveVersion(h)
  <2>1. versionCap' = versionCap
    BY <1>3 DEF AppendVersion, DeleteVersion, UpdateActiveVersion
  <2>2. /\ Current' = Idle
        /\ AppendVersion(h) => Doing("version", {"append"})
        /\ DeleteVersion(h) => Doing("remove", {"list"})
        /\ UpdateActiveVersion(h) => Current.kind = "activate"
    BY <1>0, <1>3, VersionFlow DEF Doing
  <2>3. /\ Rows' = Rows
        /\ \A i \in Ids : i # Current.id => apps'[i] = apps[i]
        /\ AppendVersion(h) =>
             apps'[Current.id].versions = apps[Current.id].versions \cup {Current.version}
        /\ DeleteVersion(h) =>
             apps'[Current.id].versions = apps[Current.id].versions \ {Current.version}
        /\ UpdateActiveVersion(h) => apps'[Current.id].versions = apps[Current.id].versions
    BY <1>0, <1>3, AppChanged
  <2>4. ~ Doing("version", {"charge", "block_cap", "append"})' /\ ~ Doing("remove", {"charge", "list"})'
    BY <2>2 DEF Doing, Idle
  <2>5. \A i \in Ids : \A v \in Versions : CountsVersion(i, v)' <=> v \in apps'[i].versions
    BY <2>4 DEF CountsVersion, Doing
  <2>6. \A i \in Ids : \A v \in Versions : v \in apps'[i].versions <=> CountsVersion(i, v)
    <3>1. CASE AppendVersion(h)
      BY <2>2, <2>3, <3>1 DEF CountsVersion, Doing
    <3>2. CASE DeleteVersion(h)
      BY <2>2, <2>3, <3>2 DEF CountsVersion, Doing
    <3>3. CASE UpdateActiveVersion(h)
      BY <2>2, <2>3, <3>3 DEF CountsVersion, Doing
    <3> QED
      BY <1>3, <3>1, <3>2, <3>3
  <2>7. \A i \in Rows' : versionCap'[i] # NoCap =>
              versionCap'[i] + Cardinality(ChargedVersions(i)') = VersionTier
    BY <2>1, <2>3, <2>5, <2>6, VersionsRecounted DEF Rows
  <2> QED
    BY <2>4, <2>7 DEF VersionsCounted, Doing
<1> QED
  BY <1>1, <1>2, <1>3 DEF VersionStep

LEMMA VersionsCountedDelete ==
    ASSUME NEW h, InClean(h), DeleteStep(h)
    PROVE  VersionsCounted'
<1>1. Current.kind = "delete" /\ (Current' = Idle \/ Current'.kind = "delete")
  BY DeleteFlow DEF InClean, DeleteStep, Doing, Goes
<1>2. /\ Rows' \subseteq Rows /\ \A i \in Rows' : apps'[i] = apps[i]
  <2>1. CASE DeleteRow(h)
    BY <2>1, AppRemoved DEF InClean, Rows
  <2>2. CASE ~ DeleteRow(h)
    BY <2>2 DEF DeleteStep, Rows, CheckAuthority, ReadAppCapToRefund, RefundApp, DeleteAuthority,
       DeleteVersionCaps, DeleteBlockCaps, ReadRow, DeleteBucket, tables
  <2> QED
    BY <2>1, <2>2
<1>3. \A i \in Ids : versionCap'[i] = NoCap \/ versionCap'[i] = versionCap[i]
  BY DEF DeleteStep, CheckAuthority, ReadAppCapToRefund, RefundApp, DeleteAuthority,
       DeleteVersionCaps, DeleteBlockCaps, ReadRow, DeleteRow, DeleteBucket, tables
<1>4. \A i \in Rows' : \A v \in Versions : CountsVersion(i, v)' <=> CountsVersion(i, v)
  BY <1>1, <1>2 DEF CountsVersion, Doing, Idle
<1>5. \A i \in Rows' : versionCap'[i] # NoCap =>
              versionCap'[i] + Cardinality(ChargedVersions(i)') = VersionTier
  BY <1>2, <1>3, <1>4, VersionsRecounted DEF Rows
<1> QED
  BY <1>1, <1>5 DEF VersionsCounted, Doing, Idle

\* Names: compared before the row, and free again with it.
LEMMA NamesKept ==
    ASSUME NEW h, InClean(h), Rows' = Rows, \A i \in Rows : apps'[i].name = apps[i].name,
           (Doing("create", {"charge", "insert"}) \/ Doing("delete", {"bucket"}))' =>
               \A i \in Rows : apps[i].name # Current'.name
    PROVE  NamesApart'
BY DEF InClean, Counted, NamesApart

LEMMA NamesApartCreate ==
    ASSUME NEW h, InClean(h), CreateStep(h)
    PROVE  NamesApart'
<1>0. InTurn(h) /\ NamesApart
  BY DEF InClean, Counted
<1>1. CASE InsertRow(h)
  <2>1. /\ Doing("create", {"insert"}) /\ Goes("authority")
        /\ \A i \in Rows : apps[i].name # Current.name
    BY <1>0, <1>1, CreateFlow DEF Doing, NamesApart
  <2>2. /\ Rows' = Rows \cup {Current.id} /\ apps'[Current.id].name = Current.name
        /\ \A i \in Ids : i # Current.id => apps'[i] = apps[i]
    BY <1>0, <1>1, AppInserted
  <2>3. \A i, j \in Rows' : apps'[i].name = apps'[j].name => i = j
    BY <1>0, <2>1, <2>2 DEF NamesApart, Rows
  <2> QED
    BY <2>1, <2>3 DEF NamesApart, Doing, Goes
<1>2. CASE ~ InsertRow(h)
  <2>1. apps' = apps /\ Rows' = Rows
    BY <1>2 DEF CreateStep, Rows, ReadAppCap, CheckName, ChargeApp, CreateAuthority,
       CreateVersionCap, CreateBlockCap, CreateBucket, tables
  <2>2. ~ Doing("delete", {"bucket"})'
    BY <1>0, CreateFlow DEF CreateStep, Doing, Goes, Idle
  <2>3. Doing("create", {"charge", "insert"})' => \A i \in Rows : apps[i].name # Current'.name
    BY <1>0, <1>2, CreateFlow DEF CreateStep, Doing, Goes, Idle, NamesApart
  <2> QED
    BY <2>1, <2>2, <2>3, NamesKept
<1> QED
  BY <1>1, <1>2

LEMMA NamesApartVersion ==
    ASSUME NEW h, InClean(h), VersionStep(h)
    PROVE  NamesApart'
<1>0. InTurn(h) /\ Listed
  BY DEF InClean
<1>1. /\ Current.id \in Rows
      /\ Current' = Idle \/ Current'.kind \in {"version", "remove"}
  BY <1>0, VersionFlow DEF VersionStep, Doing, Goes, Listed
<1>2. Rows' = Rows /\ \A i \in Rows : apps'[i].name = apps[i].name
  <2>1. CASE AppendVersion(h) \/ DeleteVersion(h) \/ UpdateActiveVersion(h)
    BY <1>0, <1>1, <2>1, AppChanged DEF Rows
  <2>2. CASE ReadVersionCap(h) \/ ChargeVersion(h)
    BY <2>2 DEF ReadVersionCap, ChargeVersion, tables, Rows
  <2> QED
    BY <2>1, <2>2 DEF VersionStep
<1>3. ~ Doing("create", {"charge", "insert"})' /\ ~ Doing("delete", {"bucket"})'
  BY <1>1 DEF Doing, Idle
<1> QED
  BY <1>2, <1>3, NamesKept

LEMMA NamesApartDelete ==
    ASSUME NEW h, InClean(h), DeleteStep(h)
    PROVE  NamesApart'
<1>0. InTurn(h) /\ NamesApart /\ KnownApp
  BY DEF InClean, Counted
<1>1. CASE DeleteRow(h)
  <2>1. /\ Doing("delete", {"row"}) /\ Goes("bucket")
        /\ Current.id \in Rows /\ Current.name = apps[Current.id].name
    BY <1>0, <1>1, DeleteFlow DEF Doing, KnownApp, Living
  <2>2. /\ Rows' = Rows \ {Current.id}
        /\ \A i \in Ids : i # Current.id => apps'[i] = apps[i]
    BY <1>0, <1>1, AppRemoved
  <2>3. \A i \in Rows' : i \in Rows /\ i # Current.id /\ apps'[i] = apps[i]
    BY <2>2 DEF Rows
  <2>4. Current'.name = Current.name /\ Current'.kind = "delete"
    BY <2>1 DEF Doing, Goes
  <2> QED
    BY <1>0, <2>1, <2>3, <2>4 DEF NamesApart, Doing
<1>2. CASE ~ DeleteRow(h)
  <2>1. apps' = apps /\ Rows' = Rows
    BY <1>2 DEF DeleteStep, Rows, CheckAuthority, ReadAppCapToRefund, RefundApp, DeleteAuthority,
       DeleteVersionCaps, DeleteBlockCaps, ReadRow, DeleteBucket, tables
  <2>2. ~ Doing("create", {"charge", "insert"})' /\ ~ Doing("delete", {"bucket"})'
    BY <1>0, <1>2, DeleteFlow DEF DeleteStep, Doing, Goes, Idle
  <2> QED
    BY <2>1, <2>2, NamesKept
<1> QED
  BY <1>1, <1>2

\* What is left of an application, but for its bucket.
Emptied ==
    /\ \A i \in Ids \ Rows :
          /\ \A u \in Users : <<u, i>> \notin authority
          /\ versionCap[i] = NoCap
          /\ \A v \in Versions : blockCaps[i][v] = 0
    /\ Doing("delete", {"version_caps", "block_caps", "read", "row"}) =>
          \A u \in Users : <<u, Current.id>> \notin authority
    /\ Doing("delete", {"block_caps", "read", "row"}) => versionCap[Current.id] = NoCap
    /\ Doing("delete", {"read", "row"}) => \A v \in Versions : blockCaps[Current.id][v] = 0
Stored == buckets = {apps[i].name : i \in Rows \ Unbucketed} \cup Leftover

LEMMA TidyParts == (Tidy <=> Emptied /\ Stored) /\ (Tidy' <=> Emptied' /\ Stored')
BY DEF Tidy, Emptied, Stored

LEMMA EmptiedCreate ==
    ASSUME NEW h, InClean(h), CreateStep(h)
    PROVE  Emptied'
<1>0. InTurn(h) /\ KnownApp /\ Listed /\ Emptied /\ Current = task[h] /\ Current.id \in Ids
  BY CurrentOwned, TidyParts DEF InClean, Counted
<1>1. \A s : ~ Doing("delete", s)'
  BY <1>0, CreateFlow DEF CreateStep, Doing, Goes, Idle
<1>2. Rows \subseteq Rows'
  <2>1. CASE InsertRow(h)
    BY <1>0, <2>1, AppInserted
  <2>2. CASE ~ InsertRow(h)
    BY <2>2 DEF CreateStep, Rows, ReadAppCap, CheckName, ChargeApp, CreateAuthority,
       CreateVersionCap, CreateBlockCap, CreateBucket, tables
  <2> QED
    BY <2>1, <2>2
<1>3. \A i \in Ids \ Rows :
          /\ \A u \in Users : <<u, i>> \notin authority'
          /\ versionCap'[i] = NoCap
          /\ \A v \in Versions : blockCaps'[i][v] = 0
  <2>1. CASE CreateAuthority(h) \/ CreateVersionCap(h) \/ CreateBlockCap(h)
    <3>1. Current.id \in Rows
      BY <1>0, <2>1, CreateFlow DEF KnownApp, Listed, Doing, Born
    <3>2. \A i \in Ids \ Rows :
          /\ \A u \in Users : <<u, i>> \in authority' => <<u, i>> \in authority
          /\ versionCap'[i] = versionCap[i]
          /\ blockCaps'[i] = blockCaps[i]
      BY <1>0, <2>1, <3>1 DEF CreateAuthority, CreateVersionCap, CreateBlockCap, InTurn, TypeOK
    <3> QED
      BY <1>0, <3>2 DEF Emptied
  <2>2. CASE ~ (CreateAuthority(h) \/ CreateVersionCap(h) \/ CreateBlockCap(h))
    <3>1. UNCHANGED <<authority, versionCap, blockCaps>>
      BY <2>2 DEF CreateStep, ReadAppCap, CheckName, ChargeApp, InsertRow, CreateBucket, tables
    <3> QED
      BY <1>0, <3>1 DEF Emptied
  <2> QED
    BY <2>1, <2>2
<1> QED
  BY <1>1, <1>2, <1>3 DEF Emptied

LEMMA EmptiedVersion ==
    ASSUME NEW h, InClean(h), VersionStep(h)
    PROVE  Emptied'
<1>0. InTurn(h) /\ Emptied /\ Listed /\ Current = task[h]
  BY CurrentOwned, TidyParts DEF InClean, Counted
<1>1. Current.id \in Rows /\ \A s : ~ Doing("delete", s)'
  BY <1>0, VersionFlow DEF VersionStep, Doing, Goes, Listed, Idle
<1>2. Rows' = Rows
  <2>1. CASE AppendVersion(h) \/ DeleteVersion(h) \/ UpdateActiveVersion(h)
    BY <1>0, <1>1, <2>1, AppChanged
  <2>2. CASE ReadVersionCap(h) \/ ChargeVersion(h)
    BY <2>2 DEF ReadVersionCap, ChargeVersion, tables, Rows
  <2> QED
    BY <2>1, <2>2 DEF VersionStep
<1>3. authority' = authority /\ blockCaps' = blockCaps
  BY DEF VersionStep, ReadVersionCap, ChargeVersion, AppendVersion, DeleteVersion,
     UpdateActiveVersion, tables
<1>4. \A i \in Ids \ Rows : versionCap'[i] = versionCap[i]
  <2>1. CASE ChargeVersion(h)
    BY <1>0, <1>1, <2>1 DEF ChargeVersion, InTurn, TypeOK
  <2>2. CASE ~ ChargeVersion(h)
    BY <2>2 DEF VersionStep, ReadVersionCap, AppendVersion, DeleteVersion,
       UpdateActiveVersion, tables
  <2> QED
    BY <2>1, <2>2
<1> QED
  BY <1>0, <1>1, <1>2, <1>3, <1>4 DEF Emptied

LEMMA EmptiedDelete ==
    ASSUME NEW h, InClean(h), DeleteStep(h)
    PROVE  Emptied'
<1>0. /\ InTurn(h) /\ Emptied /\ KnownApp /\ Current = task[h] /\ OwnAuthority
      /\ Current.id \in Ids /\ Current.user \in Users /\ maker[Current.id] = Current.user
  BY CurrentOwned, TidyParts DEF InClean, Counted, Grounded
<1>1. CASE DeleteRow(h)
  <2>1. Doing("delete", {"row"}) /\ Goes("bucket")
    BY <1>0, <1>1, DeleteFlow
  <2>2. Rows' = Rows \ {Current.id}
    BY <1>0, <1>1, AppRemoved
  <2>3. UNCHANGED <<authority, versionCap, blockCaps>>
    BY <1>1 DEF DeleteRow
  <2>4. /\ \A u \in Users : <<u, Current.id>> \notin authority
        /\ versionCap[Current.id] = NoCap
        /\ \A v \in Versions : blockCaps[Current.id][v] = 0
    BY <1>0, <2>1 DEF Emptied, Doing
  <2> QED
    BY <1>0, <2>1, <2>2, <2>3, <2>4 DEF Emptied, Doing, Goes
<1>2. CASE ~ DeleteRow(h)
  <2>0. Rows' = Rows
    BY <1>2 DEF DeleteStep, Rows, CheckAuthority, ReadAppCapToRefund, RefundApp, DeleteAuthority,
       DeleteVersionCaps, DeleteBlockCaps, ReadRow, DeleteBucket, tables
  <2>1. CASE DeleteAuthority(h)
    <3>1. Doing("delete", {"authority"}) /\ Goes("version_caps")
      BY <1>0, <2>1, DeleteFlow
    <3>2. /\ authority' = authority \ {<<Current.user, Current.id>>}
          /\ versionCap' = versionCap /\ blockCaps' = blockCaps
      BY <1>0, <2>1 DEF DeleteAuthority
    <3>3. \A u \in Users : <<u, Current.id>> \notin authority'
      BY <1>0, <3>2 DEF OwnAuthority
    <3> QED
      BY <1>0, <2>0, <3>1, <3>2, <3>3 DEF Emptied, Doing, Goes
  <2>2. CASE DeleteVersionCaps(h)
    <3>1. Doing("delete", {"version_caps"}) /\ Goes("block_caps")
      BY <1>0, <2>2, DeleteFlow
    <3>2. /\ authority' = authority /\ blockCaps' = blockCaps
          /\ \A i \in Ids : versionCap'[i] = NoCap \/ versionCap'[i] = versionCap[i]
          /\ versionCap'[Current.id] = NoCap
      BY <1>0, <2>2 DEF DeleteVersionCaps
    <3> QED
      BY <1>0, <2>0, <3>1, <3>2 DEF Emptied, Doing, Goes
  <2>3. CASE DeleteBlockCaps(h)
    <3>1. Doing("delete", {"block_caps"}) /\ Goes("read")
      BY <1>0, <2>3, DeleteFlow
    <3>2. /\ authority' = authority /\ versionCap' = versionCap
          /\ \A i \in Ids : \A v \in Versions : blockCaps'[i][v] = 0 \/ blockCaps'[i][v] = blockCaps[i][v]
          /\ \A v \in Versions : blockCaps'[Current.id][v] = 0
      BY <1>0, <2>3 DEF DeleteBlockCaps
    <3> QED
      BY <1>0, <2>0, <3>1, <3>2 DEF Emptied, Doing, Goes
  <2>4. CASE ~ DeleteAuthority(h) /\ ~ DeleteVersionCaps(h) /\ ~ DeleteBlockCaps(h)
    <3>1. UNCHANGED <<authority, versionCap, blockCaps>>
      BY <1>2, <2>4 DEF DeleteStep, CheckAuthority, ReadAppCapToRefund, RefundApp, ReadRow,
         DeleteBucket, tables
    <3>2. \/ Current' = Idle
          \/ Current'.kind = "delete" /\ Current'.step \in {"cap", "refund", "authority"}
          \/ /\ Doing("delete", {"read"}) /\ Current'.step = "row" /\ Current'.id = Current.id
      BY <1>0, <1>2, <2>4, DeleteFlow DEF DeleteStep, Doing, Goes
    <3> QED
      BY <1>0, <2>0, <3>1, <3>2 DEF Emptied, Doing, Idle
  <2> QED
    BY <2>1, <2>2, <2>3, <2>4
<1> QED
  BY <1>1, <1>2

\* The buckets: one after its row, and one before the end of a deletion.
LEMMA StoredCreate ==
    ASSUME NEW h, InClean(h), CreateStep(h)
    PROVE  Stored'
<1>0. InTurn(h) /\ KnownApp /\ Stored /\ Current = task[h] /\ Current.id \in Ids
  BY CurrentOwned, TidyParts DEF InClean, Counted
<1>1. Leftover = {} /\ Leftover' = {}
  BY <1>0, CreateFlow DEF CreateStep, Leftover, Doing, Goes, Idle
<1>2. CASE InsertRow(h)
  <2>1. /\ Doing("create", {"insert"}) /\ Goes("authority") /\ Current.id \notin Rows
    BY <1>0, <1>2, CreateFlow DEF Doing, KnownApp, Unborn
  <2>2. /\ Rows' = Rows \cup {Current.id}
        /\ \A i \in Ids : i # Current.id => apps'[i] = apps[i]
    BY <1>0, <1>2, AppInserted
  <2>3. buckets' = buckets
    BY <1>2 DEF InsertRow
  <2>4. Unbucketed = {} /\ Unbucketed' = {Current.id}
    BY <2>1, <2>2 DEF Unbucketed, Doing, Goes, Born
  <2>5. Rows' \ Unbucketed' = Rows \ Unbucketed /\ \A i \in Rows \ Unbucketed : apps'[i] = apps[i]
    BY <2>1, <2>2, <2>4 DEF Rows
  <2> QED
    BY <1>0, <1>1, <2>3, <2>5 DEF Stored
<1>3. CASE CreateBucket(h)
  <2>1. /\ Doing("create", {"bucket"}) /\ Current' = Idle
        /\ Current.id \in Rows /\ apps[Current.id].name = Current.name
    BY <1>0, <1>3, CreateFlow DEF Doing, KnownApp, Born
  <2>2. apps' = apps /\ Rows' = Rows /\ buckets' = buckets \cup {Current.name}
    BY <1>0, <1>3 DEF CreateBucket, Rows
  <2>3. Unbucketed = {Current.id} /\ Unbucketed' = {}
    BY <2>1 DEF Unbucketed, Doing, Idle, Born
  <2> QED
    BY <1>0, <1>1, <2>1, <2>2, <2>3 DEF Stored
<1>4. CASE ~ InsertRow(h) /\ ~ CreateBucket(h)
  <2>1. apps' = apps /\ Rows' = Rows /\ buckets' = buckets
    BY <1>4 DEF CreateStep, Rows, ReadAppCap, CheckName, ChargeApp, CreateAuthority,
       CreateVersionCap, CreateBlockCap, tables
  <2>2. /\ Doing("create", Born)' <=> Doing("create", Born)
        /\ Doing("create", Born) => Current'.id = Current.id
    BY <1>0, <1>4, CreateFlow DEF CreateStep, Doing, Goes, Born, Idle
  <2>3. Unbucketed' = Unbucketed
    BY <2>1, <2>2 DEF Unbucketed
  <2> QED
    BY <1>0, <1>1, <2>1, <2>3 DEF Stored
<1> QED
  BY <1>2, <1>3, <1>4

LEMMA StoredVersion ==
    ASSUME NEW h, InClean(h), VersionStep(h)
    PROVE  Stored'
<1>0. InTurn(h) /\ Stored /\ Listed
  BY TidyParts DEF InClean, Counted
<1>1. /\ Current.id \in Rows /\ Unbucketed = {} /\ Leftover = {}
      /\ Unbucketed' = {} /\ Leftover' = {}
  BY <1>0, VersionFlow DEF VersionStep, Doing, Goes, Listed, Idle, Unbucketed, Leftover
<1>2. Rows' = Rows /\ \A i \in Rows : apps'[i].name = apps[i].name
  <2>1. CASE AppendVersion(h) \/ DeleteVersion(h) \/ UpdateActiveVersion(h)
    BY <1>0, <1>1, <2>1, AppChanged DEF Rows
  <2>2. CASE ReadVersionCap(h) \/ ChargeVersion(h)
    BY <2>2 DEF ReadVersionCap, ChargeVersion, tables, Rows
  <2> QED
    BY <2>1, <2>2 DEF VersionStep
<1>3. buckets' = buckets
  BY DEF VersionStep, ReadVersionCap, ChargeVersion, AppendVersion, DeleteVersion,
     UpdateActiveVersion, tables
<1> QED
  BY <1>0, <1>1, <1>2, <1>3 DEF Stored

LEMMA StoredDelete ==
    ASSUME NEW h, InClean(h), DeleteStep(h)
    PROVE  Stored'
<1>0. InTurn(h) /\ KnownApp /\ NamesApart /\ Listed /\ Stored /\ Current = task[h]
  BY CurrentOwned, TidyParts DEF InClean, Counted
<1>1. Unbucketed = {} /\ Unbucketed' = {}
  BY <1>0, DeleteFlow DEF DeleteStep, Unbucketed, Doing, Goes, Idle
<1>2. CASE DeleteRow(h)
  <2>1. /\ Doing("delete", {"row"}) /\ Goes("bucket")
        /\ Current.id \in Rows /\ Current.name = apps[Current.id].name
    BY <1>0, <1>2, DeleteFlow DEF Doing, KnownApp, Living
  <2>2. /\ Rows' = Rows \ {Current.id}
        /\ \A i \in Ids : i # Current.id => apps'[i] = apps[i]
    BY <1>0, <1>2, AppRemoved
  <2>3. buckets' = buckets
    BY <1>2 DEF DeleteRow
  <2>4. Current.name \in Names
    BY <1>0, <2>1 DEF Listed
  <2>5. Leftover = {} /\ Leftover' = {Current.name}
    BY <2>1, <2>4 DEF Leftover, Doing, Goes
  <2>6. \A i \in Rows' : i \in Rows /\ i # Current.id /\ apps'[i] = apps[i]
    BY <2>2 DEF Rows
  <2>7. {apps[i].name : i \in Rows} = {apps'[i].name : i \in Rows'} \cup {Current.name}
    BY <2>1, <2>2, <2>6
  <2> QED
    BY <1>0, <1>1, <2>3, <2>5, <2>7 DEF Stored
<1>3. CASE DeleteBucket(h)
  <2>1. Doing("delete", {"bucket"}) /\ Current' = Idle
    BY <1>0, <1>3, DeleteFlow
  <2>2. \A i \in Rows : apps[i].name # Current.name
    BY <1>0, <2>1 DEF NamesApart
  <2>3. apps' = apps /\ Rows' = Rows /\ buckets' = buckets \ {Current.name}
    BY <1>0, <1>3 DEF DeleteBucket, Rows
  <2>4. Leftover \subseteq {Current.name} /\ Leftover' = {}
    BY <2>1 DEF Leftover, Doing, Idle
  <2> QED
    BY <1>0, <1>1, <2>2, <2>3, <2>4 DEF Stored
<1>4. CASE ~ DeleteRow(h) /\ ~ DeleteBucket(h)
  <2>1. apps' = apps /\ Rows' = Rows /\ buckets' = buckets
    BY <1>4 DEF DeleteStep, Rows, CheckAuthority, ReadAppCapToRefund, RefundApp, DeleteAuthority,
       DeleteVersionCaps, DeleteBlockCaps, ReadRow, tables
  <2>2. Leftover = {} /\ Leftover' = {}
    BY <1>0, <1>4, DeleteFlow DEF DeleteStep, Leftover, Doing, Goes, Idle
  <2> QED
    BY <1>0, <1>1, <2>1, <2>2 DEF Stored
<1> QED
  BY <1>2, <1>3, <1>4

-----------------------------------------------------------------------------
(* The invariant *)

LEMMA SteadyCounted ==
    ASSUME NEW h, InClean(h)
    PROVE  Counted'
BY KnownAppCreate, KnownAppVersion, KnownAppDelete, AppsCountedCreate, AppsCountedVersion,
   AppsCountedDelete, VersionsCountedCreate, VersionsCountedVersion, VersionsCountedDelete,
   NamesApartCreate, NamesApartVersion, NamesApartDelete, EmptiedCreate, EmptiedVersion,
   EmptiedDelete, StoredCreate, StoredVersion, StoredDelete, TidyParts
   DEF InClean, Steady, Counted

\* Of a request that begins nothing is counted yet.
LEMMA BegunCounted ==
    ASSUME AppInv, Lone, ~ overlap', Counted, NEW h \in Handlers, Begins(h)
    PROVE  Counted'
<1>1. PICK kind, first, u, i, n, v :
        /\ Begin(h, kind, first, u, i, n, v) /\ first \in {"cap", "check", "active"}
        /\ \/ kind = "create" /\ first = "cap" /\ i \in Ids /\ maker[i] = Nobody
           \/ kind = "version" /\ i \in Rows /\ v \notin apps[i].versions
           \/ kind \in {"remove", "activate"} /\ i \in Rows /\ v \in apps[i].versions
           \/ kind = "delete" /\ first = "check" /\ i \in Rows
  <2>1. CASE \E u \in Users, i \in Ids, n \in Names : BeginCreate(h, u, i, n)
    BY <2>1 DEF BeginCreate
  <2>2. CASE \E u \in Users, i \in Ids, v \in Versions : BeginVersion(h, u, i, v)
    BY <2>2 DEF BeginVersion, OwnedBy
  <2>3. CASE \E u \in Users, i \in Ids, v \in Versions : BeginRemove(h, u, i, v)
    BY <2>3 DEF BeginRemove, OwnedBy
  <2>4. CASE \E u \in Users, i \in Ids, v \in Versions : BeginActivate(h, u, i, v)
    BY <2>4 DEF BeginActivate, OwnedBy
  <2>5. CASE \E u \in Users, i \in Ids : BeginDelete(h, u, i)
    BY <2>5 DEF BeginDelete, OwnedBy
  <2> QED
    BY <2>1, <2>2, <2>3, <2>4, <2>5 DEF Begins
<1>2. /\ Current = Idle /\ UNCHANGED tables
      /\ Current' = [kind |-> kind, step |-> first, user |-> u, id |-> i,
                     name |-> n, version |-> v, cap |-> 0]
  BY <1>1, BeginFlow DEF AppInv
<1>3. /\ Current'.kind = kind /\ Current'.step = first /\ Current'.id = i /\ Current'.version = v
      /\ Current.kind = "none"
      /\ UNCHANGED <<apps, appCap, versionCap, blockCaps, authority, buckets>> /\ Rows' = Rows
  BY <1>2 DEF tables, Rows, Idle
<1>4. KnownApp'
  <2>1. kind = "create" => i \notin Rows
    BY <1>1, NullAssumption DEF AppInv, Owners
  <2> QED
    BY <1>1, <1>3, <2>1 DEF KnownApp, Doing, Born
<1>5. AppsCounted'
  <2>1. \A w \in Users : \A j \in Ids : CountsApp(w, j)' <=> CountsApp(w, j)
    BY <1>1, <1>3 DEF CountsApp, Doing, Refunded
  <2>2. \A w \in Users : ChargedApps(w)' = ChargedApps(w)
    BY <2>1 DEF ChargedApps
  <2>3. ~ Doing("create", {"name", "charge"})' /\ ~ Doing("delete", {"refund"})'
    BY <1>1, <1>3 DEF Doing
  <2> QED
    BY <1>3, <2>2, <2>3 DEF Counted, AppsCounted
<1>6. VersionsCounted'
  <2>1. \A j \in Ids : \A w \in Versions : CountsVersion(j, w)' <=> CountsVersion(j, w)
    BY <1>1, <1>3 DEF CountsVersion, Doing
  <2>2. \A j \in Ids : ChargedVersions(j)' = ChargedVersions(j)
    BY <2>1 DEF ChargedVersions
  <2>3. ~ Doing("version", {"charge"})' /\ ~ Doing("remove", {"charge"})'
    BY <1>1, <1>3 DEF Doing
  <2> QED
    BY <1>3, <2>2, <2>3 DEF Counted, VersionsCounted, Rows
<1>7. NamesApart'
  BY <1>1, <1>3 DEF Counted, NamesApart, Doing
<1>8. Tidy'
  <2>1. Unbucketed' = Unbucketed /\ Leftover' = Leftover
    BY <1>1, <1>3 DEF Unbucketed, Leftover, Doing, Born
  <2>2. Stored'
    BY <1>3, <2>1, TidyParts DEF Counted, Stored
  <2>3. Emptied'
    BY <1>1, <1>3, TidyParts DEF Counted, Emptied, Doing
  <2> QED
    BY <2>2, <2>3, TidyParts
<1> QED
  BY <1>4, <1>5, <1>6, <1>7, <1>8 DEF Counted

LEMMA InitCounted == Init => Counted
<1> SUFFICES ASSUME Init PROVE Counted
  OBVIOUS
<1>1. Busy = {} /\ Rows = {}
  BY DEF Init, Busy, Working, Rows
<1>2. Current = Idle /\ Current.kind = "none"
  BY <1>1 DEF Current, Idle
<1>3. \A u \in Users : ChargedApps(u) = {}
  BY <1>1, <1>2 DEF ChargedApps, CountsApp, Doing
<1>4. KnownApp /\ VersionsCounted /\ NamesApart
  BY <1>1, <1>2 DEF KnownApp, VersionsCounted, NamesApart, Doing
<1>5. AppsCounted
  BY <1>2, <1>3, FS_EmptySet, TiersAssumption DEF AppsCounted, Init, Doing
<1>6. Tidy
  BY <1>1, <1>2 DEF Tidy, Init, Unbucketed, Leftover, Doing
<1> QED
  BY <1>4, <1>5, <1>6 DEF Counted

LEMMA CleanInvStep ==
    ASSUME AppInv, Grounded, ListedInv, CleanInv, [Next]_vars
    PROVE  CleanInv'
<1>1. CASE UNCHANGED vars
  <2>1. /\ Current' = Current /\ Rows' = Rows
        /\ UNCHANGED <<apps, appCap, versionCap, blockCaps, authority, buckets, overlap, faults>>
    BY <1>1, StutterCurrent DEF vars, tables, history
  <2>2. \A u \in Users : ChargedApps(u)' = ChargedApps(u)
    BY <2>1 DEF ChargedApps, CountsApp, Doing
  <2>3. \A i \in Ids : ChargedVersions(i)' = ChargedVersions(i)
    BY <2>1 DEF ChargedVersions, CountsVersion, Doing
  <2>4. AppsCounted <=> AppsCounted'
    BY <2>1, <2>2 DEF AppsCounted, Doing
  <2>5. VersionsCounted <=> VersionsCounted'
    BY <2>1, <2>3 DEF VersionsCounted, Doing, Rows
  <2>6. /\ KnownApp <=> KnownApp'
        /\ NamesApart <=> NamesApart'
    BY <2>1 DEF KnownApp, NamesApart, Doing
  <2>7. Tidy <=> Tidy'
    BY <2>1 DEF Tidy, Unbucketed, Leftover, Doing
  <2> QED
    BY <2>1, <2>4, <2>5, <2>6, <2>7 DEF CleanInv, Clean, Counted
<1>2. ASSUME NEW h \in Handlers, Begins(h), Clean' PROVE CleanInv'
  <2>1. Clean /\ ~ overlap'
    BY <1>2 DEF Begins, BeginCreate, BeginVersion, BeginRemove, BeginActivate, BeginDelete, Begin,
       Clean
  <2> QED
    BY <1>2, <2>1, BegunCounted DEF CleanInv, ListedInv
<1>3. ASSUME NEW h \in Handlers, Steady(h), Clean' PROVE CleanInv'
  <2>1. Clean /\ UNCHANGED overlap
    BY <1>3, Writes DEF Clean
  <2>2. InClean(h)
    BY <1>3, <2>1 DEF InClean, InTurn, AppInv, ListedInv, CleanInv, Clean
  <2> QED
    BY <2>2, SteadyCounted DEF CleanInv
<1>4. ASSUME NEW h \in Handlers, FaultStep(h) PROVE CleanInv'
  <2>1. faults' # 0
    BY <1>4 DEF FaultStep, CheckNameFails, Stops, CapRefused, Fault, AppInv, TypeOK
  <2> QED
    BY <2>1 DEF CleanInv, Clean
<1> QED
  BY <1>1, <1>2, <1>3, <1>4 DEF Next, Begins, Steady, FaultStep, CleanInv

LEMMA CleanInvariant == Spec => []CleanInv
<1>1. Init => CleanInv
  BY InitCounted DEF CleanInv
<1>2. AppInv /\ Grounded /\ ListedInv /\ CleanInv /\ [Next]_vars => CleanInv'
  BY CleanInvStep
<1> QED
  BY <1>1, <1>2, AppInvariant, GroundedInvariant, ListedInvariant, PTL DEF Spec

\* Between requests nothing is under way.
LEMMA AtRest ==
    ASSUME Sequential
    PROVE  Clean /\ \A kind, s : kind # "none" => ~ Doing(kind, s)
BY DEF Sequential, Clean, Current, Doing, Idle

-----------------------------------------------------------------------------

\* The handlers of modules/application charge one for each application and
\* version they add and give one back for each they remove, whatever a refused
\* request has read before; and the active version is one of the list, even
\* where requests fail, as the web-client never offers to remove it.
THEOREM CapsFitTheLists == Spec => []ListsCounted
<1>1. AppInv /\ ListedInv /\ CleanInv => ListsCounted
  <2> SUFFICES ASSUME AppInv, ListedInv, CleanInv PROVE ListsCounted
    OBVIOUS
  <2>1. ASSUME Sequential PROVE CapsCount
    <3>1. Counted
      BY <2>1, AtRest DEF CleanInv
    <3>2. \A u \in Users : ChargedApps(u) = OwnedBy(u)
      BY <2>1, AtRest DEF ChargedApps, CountsApp, OwnedBy, Rows
    <3>3. \A i \in Rows : ChargedVersions(i) = apps[i].versions
      <4>1. \A i \in Rows : apps[i].versions \subseteq Versions
        BY DEF AppInv, TypeOK, Rows, Row
      <4>2. \A i \in Rows : \A v \in Versions : CountsVersion(i, v) <=> v \in apps[i].versions
        BY <2>1, AtRest DEF CountsVersion
      <4> QED
        BY <4>1, <4>2 DEF ChargedVersions
    <3> QED
      BY <3>1, <3>2, <3>3 DEF CapsCount, Counted, AppsCounted, VersionsCounted
  <2>2. ActiveListed
    BY NullAssumption DEF ActiveListed, ListedInv, Listed, Ghost
  <2> QED
    BY <2>1, <2>2 DEF ListsCounted, CapsCount
<1> QED
  BY <1>1, AppInvariant, ListedInvariant, CleanInvariant, PTL

\* check_app_name_duplicate looks at the applications of all users, so that no
\* two share a bucket and a domain; handle_delete_application removes what its
\* creation wrote in the three servers, and a refused creation has written
\* nothing.
THEOREM DeletedLeaveNothing == Spec => []NothingOutlives
<1>1. CleanInv => NothingOutlives
  <2> SUFFICES ASSUME CleanInv, Sequential PROVE NothingOutlives
    BY DEF NothingOutlives, NamesUnique, NothingLeft
  <2>1. Counted
    BY AtRest DEF CleanInv
  <2>2. Unbucketed = {} /\ Leftover = {}
    BY AtRest DEF Unbucketed, Leftover
  <2> QED
    BY <2>1, <2>2 DEF Counted, NamesApart, Tidy, NothingOutlives, NamesUnique, NothingLeft
<1> QED
  BY <1>1, CleanInvariant, PTL
==============================================================================

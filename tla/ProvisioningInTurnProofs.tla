----------------------- MODULE ProvisioningInTurnProofs ------------------------
(***************************************************************************)
(* Proofs of what BlockProvisioning keeps when its requests come one at a  *)
(* time and, but for the names, at most the DNS provider fails: the cap    *)
(* counts the blocks, one block at most has the prime domain, no two web   *)
(* blocks share a name and every domain is routed, for every set of ids,   *)
(* forms, versions and ports. The runs find the names violated by two      *)
(* requests at once.                                                       *)
(*                                                                         *)
(* A saga writes one table after the other, so none of the four is         *)
(* inductive. Each is stated here over the tables as they will be when the *)
(* request under way has ended: Counted and PrimeBlocks are the blocks     *)
(* with the one that is charged, and without the one that is given back.   *)
(***************************************************************************)
EXTENDS BlockProvisioningProofs, FiniteSetTheorems

\* The one handler, and what it is doing.
Only == CHOOSE h : h \in Handlers
OneAtATime == Handlers = {Only}
Mine == task[Only]
MineAt(kind, steps) == Mine.kind = kind /\ Mine.step \in steps

\* The steps of a creation that is charged, and of one that has its domain.
Charged == {"application", "activate", "dns", "lock", "select", "take", "insert"}
Placed == {"dns", "lock", "select", "take", "insert"}
\* The steps of a deletion whose row is still there.
Undone == DeleteSteps \ {"free", "dns"}

-----------------------------------------------------------------------------
(* The request under way *)

\* It goes on to another step, or ends.
Goes(s) ==
    /\ Mine'.kind = Mine.kind
    /\ Mine'.id = Mine.id
    /\ Mine'.form = Mine.form
    /\ Mine'.step = s
Stays == Mine'.sub = Mine.sub /\ Mine'.file = Mine.file

LEMMA GotoGoes ==
    ASSUME TypeOK, OneAtATime, Working(Only), NEW s, Goto(Only, s)
    PROVE  Goes(s) /\ Stays /\ Mine'.cap = Mine.cap /\ Mine'.port = Mine.port
<1>1. Only \in Handlers
  BY DEF OneAtATime
<1>2. Mine \in Task("create", CreateSteps) \/ Mine \in Task("delete", DeleteSteps)
  BY <1>1, WorkingTask DEF Mine
<1>3. Mine' = [Mine EXCEPT !.step = s]
  BY <1>1 DEF Goto, Mine, TypeOK
<1> QED
  BY <1>2, <1>3 DEF Goes, Stays, Task

LEMMA ReturnEnds ==
    ASSUME TypeOK, OneAtATime, Return(Only)
    PROVE  Mine' = Idle
BY DEF Return, Mine, TypeOK, OneAtATime

\* The steps of a creation.
LEMMA CreateFlow ==
    ASSUME TypeOK, OneAtATime
    PROVE  /\ ReadCap(Only) => \/ Mine' = Idle
                               \/ Goes("name") /\ Stays /\ Mine'.cap = cap[Mine.form.version]
           /\ CheckName(Only) => \/ Mine' = Idle
                                 \/ /\ Goes("charge") /\ Stays /\ Mine'.cap = Mine.cap
                                    /\ ~ Duplicate(Mine.form)
           /\ ChargeCap(Only) => Goes("application") /\ Stays
           /\ ReadApplication(Only) => /\ Stays
                                      /\ \/ Goes("activate") /\ ~ prime
                                         \/ Goes("dns")
           /\ Activate(Only) => Goes("dns") /\ Mine'.sub = PrimeDomain /\ Mine'.file = Mine.file
           /\ CreateDnsRecord(Only) => Goes("lock") /\ Stays
           /\ LockForCreate(Only) => Goes("select") /\ Stays
           /\ SelectPort(Only) => \/ Goes("take") /\ Stays
                                  \/ Mine' = Idle /\ \A p \in Ports : ports[p] # NoId
           /\ TakePort(Only) => Goes("insert") /\ Stays
           /\ InsertRow(Only) => Goes("read_conf") /\ Stays
           /\ ReadConf(Only) => Goes("write_conf") /\ Mine'.sub = Mine.sub /\ Mine'.file = conf
           /\ GenerateConf(Only) => Mine' = Idle \/ (Goes("authority") /\ Stays)
           /\ CreateAuthority(Only) => Mine' = Idle
<1>1. Only \in Handlers
  BY DEF OneAtATime
<1>2. Mine.kind = "create" => Mine \in Task("create", CreateSteps)
  BY <1>1, CreateTask DEF Mine
<1>3. ReadCap(Only) => \/ Mine' = Idle
                       \/ Goes("name") /\ Stays /\ Mine'.cap = cap[Mine.form.version]
  <2> SUFFICES ASSUME ReadCap(Only), ~ Return(Only)
               PROVE  Goes("name") /\ Stays /\ Mine'.cap = cap[Mine.form.version]
    BY ReturnEnds
  <2>1. Mine' = [Mine EXCEPT !.step = "name", !.cap = cap[Mine.form.version]]
    BY <1>1 DEF ReadCap, Mine, TypeOK
  <2>2. Mine \in Task("create", CreateSteps)
    BY <1>2 DEF ReadCap, At, Mine
  <2> QED
    BY <2>1, <2>2 DEF Goes, Stays, Task
<1>4. Activate(Only) => Goes("dns") /\ Mine'.sub = PrimeDomain /\ Mine'.file = Mine.file
  <2> SUFFICES ASSUME Activate(Only)
               PROVE  Goes("dns") /\ Mine'.sub = PrimeDomain /\ Mine'.file = Mine.file
    OBVIOUS
  <2>1. Mine' = [Mine EXCEPT !.sub = PrimeDomain, !.step = "dns"]
    BY <1>1 DEF Activate, Mine, TypeOK
  <2>2. Mine \in Task("create", CreateSteps)
    BY <1>2 DEF Activate, At, Mine
  <2> QED
    BY <2>1, <2>2 DEF Goes, Task
<1>5. CreateDnsRecord(Only) => Goes("lock") /\ Stays
  <2> SUFFICES ASSUME CreateDnsRecord(Only) PROVE Goes("lock") /\ Stays
    OBVIOUS
  <2>1. PICK r : Mine' = [Mine EXCEPT !.rec = r, !.step = "lock"]
    BY <1>1 DEF CreateDnsRecord, Mine, TypeOK
  <2>2. Mine \in Task("create", CreateSteps)
    BY <1>2 DEF CreateDnsRecord, At, Mine
  <2> QED
    BY <2>1, <2>2 DEF Goes, Stays, Task
<1>6. SelectPort(Only) => \/ Goes("take") /\ Stays
                          \/ Mine' = Idle /\ \A p \in Ports : ports[p] # NoId
  <2> SUFFICES ASSUME SelectPort(Only), ~ (Return(Only) /\ \A p \in Ports : ports[p] # NoId)
               PROVE  Goes("take") /\ Stays
    BY ReturnEnds
  <2>1. PICK p : Mine' = [Mine EXCEPT !.port = p, !.step = "take"]
    BY <1>1 DEF SelectPort, Mine, TypeOK
  <2>2. Mine \in Task("create", CreateSteps)
    BY <1>2 DEF SelectPort, At, Mine
  <2> QED
    BY <2>1, <2>2 DEF Goes, Stays, Task
<1>7. ReadConf(Only) => Goes("write_conf") /\ Mine'.sub = Mine.sub /\ Mine'.file = conf
  <2> SUFFICES ASSUME ReadConf(Only)
               PROVE  Goes("write_conf") /\ Mine'.sub = Mine.sub /\ Mine'.file = conf
    OBVIOUS
  <2>1. Mine' = [Mine EXCEPT !.file = conf, !.step = "write_conf"]
    BY <1>1 DEF ReadConf, Mine, TypeOK
  <2>2. CASE Mine \in Task("create", CreateSteps)
    BY <2>1, <2>2 DEF Goes, Task
  <2>3. CASE Mine \in Task("delete", DeleteSteps)
    BY <2>1, <2>3 DEF Goes, Task
  <2> QED
    BY <1>1, <2>2, <2>3, WorkingTask DEF ReadConf, Mine
<1>8. CheckName(Only) => \/ Mine' = Idle
                         \/ /\ Goes("charge") /\ Stays /\ Mine'.cap = Mine.cap
                            /\ ~ Duplicate(Mine.form)
  BY ReturnEnds, GotoGoes DEF CheckName, At, Working, Mine
<1>9. ReadApplication(Only) => ((Goes("activate") /\ ~ prime) \/ Goes("dns")) /\ Stays
  <2> SUFFICES ASSUME ReadApplication(Only)
               PROVE  ((Goes("activate") /\ ~ prime) \/ Goes("dns")) /\ Stays
    OBVIOUS
  <2>1. Working(Only) /\ ((Goto(Only, "activate") /\ ~ prime) \/ Goto(Only, "dns"))
    BY DEF ReadApplication, At, Working
  <2> QED
    BY <2>1, GotoGoes
<1>10. /\ ChargeCap(Only) => Goes("application") /\ Stays
       /\ LockForCreate(Only) => Goes("select") /\ Stays
       /\ TakePort(Only) => Goes("insert") /\ Stays
       /\ InsertRow(Only) => Goes("read_conf") /\ Stays
  BY GotoGoes DEF ChargeCap, LockForCreate, TakePort, InsertRow, At, Working
<1>11. /\ GenerateConf(Only) => Mine' = Idle \/ (Goes("authority") /\ Stays)
       /\ CreateAuthority(Only) => Mine' = Idle
  BY GotoGoes, ReturnEnds DEF GenerateConf, CreateAuthority, At, Working
<1> QED
  BY <1>3, <1>4, <1>5, <1>6, <1>7, <1>8, <1>9, <1>10, <1>11

\* And of a deletion.
LEMMA DeleteFlow ==
    ASSUME TypeOK, OneAtATime
    PROVE  /\ Deactivate(Only) => Goes("read_conf") /\ Stays
           /\ RemoveConf(Only) => Goes("cap") /\ Stays
           /\ ReadCapToRefund(Only) =>
                  Goes("refund") /\ Stays /\ Mine'.cap = cap[Mine.form.version]
           /\ RefundCap(Only) => Goes("lock") /\ Stays
           /\ LockForDelete(Only) => Goes("delete_row") /\ Stays
           /\ DeleteRow(Only) => Goes("free") /\ Stays
           /\ FreePort(Only) => Mine' = Idle \/ (Goes("dns") /\ Stays)
           /\ RemoveDnsRecord(Only) => Mine' = Idle
<1>1. ReadCapToRefund(Only) => Goes("refund") /\ Stays /\ Mine'.cap = cap[Mine.form.version]
  <2> SUFFICES ASSUME ReadCapToRefund(Only)
               PROVE  Goes("refund") /\ Stays /\ Mine'.cap = cap[Mine.form.version]
    OBVIOUS
  <2>1. Only \in Handlers
    BY DEF OneAtATime
  <2>2. Mine \in Task("delete", DeleteSteps)
    BY <2>1, DeleteTask DEF ReadCapToRefund, At, Mine
  <2>3. Mine' = [Mine EXCEPT !.cap = cap[Mine.form.version], !.step = "refund"]
    BY <2>1 DEF ReadCapToRefund, Mine, TypeOK
  <2> QED
    BY <2>2, <2>3 DEF Goes, Stays, Task
<1>2. /\ Deactivate(Only) => Goes("read_conf") /\ Stays
      /\ RemoveConf(Only) => Goes("cap") /\ Stays
      /\ RefundCap(Only) => Goes("lock") /\ Stays
      /\ LockForDelete(Only) => Goes("delete_row") /\ Stays
      /\ DeleteRow(Only) => Goes("free") /\ Stays
  BY GotoGoes DEF Deactivate, RemoveConf, RefundCap, LockForDelete, DeleteRow, At, Working
<1>3. /\ FreePort(Only) => Mine' = Idle \/ (Goes("dns") /\ Stays)
      /\ RemoveDnsRecord(Only) => Mine' = Idle
  BY GotoGoes, ReturnEnds DEF FreePort, RemoveDnsRecord, At, Working
<1> QED
  BY <1>1, <1>2, <1>3

\* The two requests that begin.
LEMMA BeginFlow ==
    ASSUME TypeOK, OneAtATime, NEW i \in Ids
    PROVE  /\ \A f \in Forms : BeginCreate(Only, i, f) =>
                  /\ Mine'.kind = "create" /\ Mine'.step = "cap" /\ Mine'.id = i
                  /\ Mine'.form = f /\ Mine'.sub = ConfName(f)
           /\ BeginDelete(Only, i) =>
                  /\ Mine'.kind = "delete" /\ Mine'.id = i
                  /\ Mine'.form = rows[i].form /\ Mine'.sub = rows[i].sub
                  /\ Mine'.step = IF rows[i].sub = PrimeDomain THEN "deactivate" ELSE "read_conf"
<1>1. Only \in Handlers
  BY DEF OneAtATime
<1>2. ASSUME NEW f \in Forms, BeginCreate(Only, i, f)
      PROVE  /\ Mine'.kind = "create" /\ Mine'.step = "cap" /\ Mine'.id = i
             /\ Mine'.form = f /\ Mine'.sub = ConfName(f)
  <2>1. Mine' = [kind |-> "create", step |-> "cap", id |-> i, form |-> f, cap |-> 0,
                 sub |-> ConfName(f), rec |-> FALSE, port |-> -1, file |-> {}]
    BY <1>1, <1>2 DEF BeginCreate, Mine, TypeOK
  <2> QED
    BY <2>1
<1>3. ASSUME BeginDelete(Only, i)
      PROVE  /\ Mine'.kind = "delete" /\ Mine'.id = i
             /\ Mine'.form = rows[i].form /\ Mine'.sub = rows[i].sub
             /\ Mine'.step = IF rows[i].sub = PrimeDomain THEN "deactivate" ELSE "read_conf"
  <2>1. Mine' = [kind |-> "delete", id |-> i, form |-> rows[i].form, cap |-> 0,
                 rec |-> rows[i].rec, sub |-> rows[i].sub, file |-> {}, port |-> -1,
                 step |-> IF rows[i].sub = PrimeDomain THEN "deactivate" ELSE "read_conf"]
    BY <1>1, <1>3 DEF BeginDelete, Mine, TypeOK
  <2> QED
    BY <2>1
<1> QED
  BY <1>2, <1>3

\* A call to the DNS provider that fails writes no table but the zone, and the
\* request goes on as after one that succeeds.
DnsFails(h) == CreateDnsRecordFails(h) \/ RemoveDnsRecordFails(h)

LEMMA DnsFlow ==
    ASSUME TypeOK, OneAtATime, DnsFails(Only)
    PROVE  /\ UNCHANGED <<rows, ports, cap, prime, conf, mutex, asked>>
           /\ \/ MineAt("create", {"dns"}) /\ Goes("lock") /\ Stays
              \/ MineAt("delete", {"dns"}) /\ Mine' = Idle
<1>1. CASE CreateDnsRecordFails(Only)
  BY <1>1, GotoGoes DEF CreateDnsRecordFails, At, Working, Mine, MineAt, history
<1>2. CASE RemoveDnsRecordFails(Only)
  BY <1>2, ReturnEnds DEF RemoveDnsRecordFails, At, Mine, MineAt, tables, history
<1> QED
  BY <1>1, <1>2 DEF DnsFails

\* The one handler takes every step, and only the DNS provider fails.
LEMMA InTurn ==
    ASSUME OneAtATime, FaultKinds \subseteq {"dns"}, Next
    PROVE  \/ \E i \in Ids, f \in Forms : BeginCreate(Only, i, f)
           \/ \E i \in Ids : BeginDelete(Only, i)
           \/ CreateStep(Only) \/ DeleteStep(Only) \/ ReadConf(Only) \/ DnsFails(Only)
<1>1. PICK h \in Handlers :
          \/ \E i \in Ids, f \in Forms : BeginCreate(h, i, f)
          \/ \E i \in Ids : BeginDelete(h, i)
          \/ CreateStep(h) \/ DeleteStep(h) \/ ReadConf(h) \/ FaultStep(h)
  BY DEF Next
<1>2. h = Only
  BY DEF OneAtATime
<1>3. FaultStep(h) => DnsFails(h)
  BY DEF FaultStep, CheckNameFails, ActivateFails, CreateBlockFails, CreateFails, DeactivateFails,
     DeleteFails, DeleteRowFails, FreePortFails, Abandon, ChargeCapRefused, RefundCapRefused, Fault,
     DnsFails
<1> QED
  BY <1>1, <1>2, <1>3

-----------------------------------------------------------------------------
(* Names *)

\* No two blocks share a name in the configuration, and a creation that has
\* looked for its name keeps it free.
NamesApart ==
    \A i, j \in Existing : ConfName(rows[i].form) = ConfName(rows[j].form) => i = j
NameFree == MineAt("create", {"charge"} \cup Charged) => ~ Duplicate(Mine.form)
NamesInv == NamesApart /\ NameFree

\* Names that are the same in the configuration are duplicates.
LEMMA SameName ==
    ASSUME NEW f \in Forms, NEW g \in Forms, ConfName(f) = ConfName(g)
    PROVE  f.name = g.name /\ f.web = g.web /\ (~ f.web => f.version = g.version)
<1>1. f.web \in BOOLEAN /\ g.web \in BOOLEAN
  BY FormsAssumption
<1>2. \A a, b, c : <<a>> # <<b, c>>
  OBVIOUS
<1>3. f.web <=> g.web
  BY <1>2 DEF ConfName
<1>4. CASE f.web
  BY <1>3, <1>4, <1>1 DEF ConfName
<1>5. CASE ~ f.web
  BY <1>3, <1>5, <1>1 DEF ConfName
<1> QED
  BY <1>4, <1>5

LEMMA NamesKept ==
    ASSUME NamesInv, rows' = rows,
           MineAt("create", {"charge"} \cup Charged)' => ~ Duplicate(Mine'.form)
    PROVE  NamesInv'
<1>1. Duplicate(Mine.form)' <=> Duplicate(Mine'.form)
  BY DEF Duplicate, Existing, Exists
<1> QED
  BY <1>1 DEF NamesInv, NamesApart, NameFree, Existing, Exists

\* The block that is inserted had its name looked for, and nobody inserted
\* another one since.
LEMMA InsertedName ==
    ASSUME PortInv, OneAtATime, NamesInv, InsertRow(Only)
    PROVE  NamesInv'
<1>1. /\ TypeOK /\ Goes("read_conf") /\ Only \in Handlers
      /\ Mine \in Task("create", CreateSteps)
  BY CreateFlow, CreateTask DEF PortInv, OneAtATime, InsertRow, At, Mine
<1>2. NameFree'
  BY <1>1 DEF NameFree, MineAt, Goes, Charged
<1>3. ~ Duplicate(Mine.form) /\ Mine.form \in Forms /\ Mine.id \in Ids
  BY <1>1 DEF NamesInv, NameFree, MineAt, InsertRow, At, Mine, Charged, Task
<1>4. \A i \in Ids : i # Mine.id => rows'[i] = rows[i]
  BY <1>1 DEF InsertRow, Mine, TypeOK
<1>5. rows'[Mine.id].form = Mine.form
  BY <1>1, <1>3 DEF InsertRow, Mine, TypeOK
<1>6. ASSUME NEW i \in Existing, ConfName(rows[i].form) = ConfName(Mine.form) PROVE FALSE
  <2>1. rows[i].form \in Forms
    BY <1>1, <1>6, RowTyped DEF Existing, Row
  <2>2. Duplicate(Mine.form)
    BY <1>3, <1>6, <2>1, SameName DEF Duplicate
  <2> QED
    BY <1>3, <2>2
<1>7. NamesApart'
  <2> SUFFICES ASSUME NEW i \in Existing', NEW j \in Existing',
                      ConfName(rows'[i].form) = ConfName(rows'[j].form)
               PROVE  i = j
    BY DEF NamesApart, ConfName
  <2>1. /\ i # Mine.id => i \in Existing /\ rows'[i] = rows[i]
        /\ j # Mine.id => j \in Existing /\ rows'[j] = rows[j]
    BY <1>4 DEF Existing, Exists
  <2> QED
    BY <1>5, <1>6, <2>1 DEF NamesInv, NamesApart
<1> QED
  BY <1>2, <1>7 DEF NamesInv

LEMMA DeletedName ==
    ASSUME PortInv, OneAtATime, NamesInv, DeleteRow(Only)
    PROVE  NamesInv'
<1>1. TypeOK /\ Mine'.kind = "delete" /\ Mine.id \in Ids
  BY DeleteFlow, DeleteTask DEF PortInv, OneAtATime, DeleteRow, At, Mine, Goes, Task
<1>2. \A i \in Ids : Exists(i)' => Exists(i) /\ rows'[i] = rows[i]
  BY <1>1 DEF DeleteRow, Exists, TypeOK, Mine
<1> QED
  BY <1>1, <1>2 DEF NamesInv, NamesApart, NameFree, MineAt, Existing

\* Even failing calls and dropped requests keep the names apart, but not a
\* query that fails: it finds no duplicate.
LEMMA NamesInvStep ==
    ASSUME OneAtATime, "database" \notin FaultKinds, PortInv, NamesInv, [Next]_vars
    PROVE  NamesInv'
<1> USE DEF PortInv
<1>1. CASE UNCHANGED vars
  BY <1>1, NamesKept DEF vars, tables, NamesInv, NameFree, MineAt, Mine
<1>2. ASSUME NEW i \in Ids, NEW f \in Forms, BeginCreate(Only, i, f) PROVE NamesInv'
  BY <1>2, BeginFlow, NamesKept DEF BeginCreate, tables, MineAt, Charged
<1>3. ASSUME NEW i \in Ids, BeginDelete(Only, i) PROVE NamesInv'
  BY <1>3, BeginFlow, NamesKept DEF BeginDelete, tables, MineAt
<1>4. CASE CreateStep(Only)
  <2>1. CASE ReadCap(Only) \/ CheckName(Only)
    BY <2>1, CreateFlow, NamesKept DEF ReadCap, CheckName, tables, Goes, MineAt, Charged, Idle
  <2>2. CASE ChargeCap(Only) \/ ReadApplication(Only) \/ Activate(Only) \/ CreateDnsRecord(Only)
             \/ LockForCreate(Only) \/ SelectPort(Only) \/ TakePort(Only)
    <3>1. /\ rows' = rows /\ MineAt("create", {"charge"} \cup Charged)
          /\ Mine' = Idle \/ Mine'.form = Mine.form
      BY <2>2, CreateFlow DEF ChargeCap, ReadApplication, Activate, CreateDnsRecord, LockForCreate,
         SelectPort, TakePort, tables, Goes, MineAt, Charged, At, Mine
    <3> QED
      BY <3>1, NamesKept DEF NamesInv, NameFree, MineAt, Idle
  <2>3. CASE GenerateConf(Only) \/ CreateAuthority(Only)
    BY <2>3, CreateFlow, NamesKept DEF GenerateConf, CreateAuthority, tables, Goes, MineAt,
       Charged, Idle
  <2> QED
    BY <1>4, <2>1, <2>2, <2>3, InsertedName DEF CreateStep
<1>5. CASE DeleteStep(Only)
  <2>1. CASE ~ DeleteRow(Only)
    <3>1. rows' = rows /\ Mine.kind = "delete" /\ (Mine' = Idle \/ Mine'.kind = Mine.kind)
      BY <1>5, <2>1, DeleteFlow DEF DeleteStep, Deactivate, RemoveConf, ReadCapToRefund, RefundCap,
         LockForDelete, FreePort, RemoveDnsRecord, tables, Goes, At, Mine
    <3> QED
      BY <3>1, NamesKept DEF MineAt, Idle
  <2> QED
    BY <2>1, DeletedName
<1>6. CASE ReadConf(Only)
  BY <1>6, CreateFlow, NamesKept DEF ReadConf, tables, Goes, MineAt, Charged
<1>7. CASE FaultStep(Only)
  <2>1. rows' = rows
    BY <1>7 DEF FaultStep, CheckNameFails, ActivateFails, CreateDnsRecordFails, CreateBlockFails,
       CreateFails, DeactivateFails, DeleteFails, DeleteRowFails, FreePortFails,
       RemoveDnsRecordFails, Abandon, ChargeCapRefused, RefundCapRefused, tables
  <2>2. CASE Return(Only)
    BY <2>1, <2>2, ReturnEnds, NamesKept DEF MineAt, Idle
  <2>3. CASE ~ Return(Only)
    <3>1. \/ MineAt("create", {"charge"} \cup Charged) /\ \E s : Goto(Only, s)
          \/ Mine.kind = "delete" /\ \E s : Goto(Only, s)
      BY <1>7, <2>3 DEF FaultStep, CheckNameFails, ActivateFails, CreateDnsRecordFails,
         CreateBlockFails, CreateFails, DeactivateFails, DeleteFails, DeleteRowFails, FreePortFails,
         RemoveDnsRecordFails, Abandon, ChargeCapRefused, RefundCapRefused, Fault, At, Mine,
         MineAt, Charged
    <3>2. Mine'.kind = Mine.kind /\ Mine'.form = Mine.form
      <4>1. Working(Only)
        BY <3>1, ReturnEnds DEF Working, MineAt, Charged, Mine, OneAtATime, TypeOK, Task, DeleteSteps, Idle
      <4> QED
        BY <3>1, <4>1, GotoGoes DEF Goes
    <3> QED
      BY <2>1, <3>1, <3>2, NamesKept DEF MineAt, NamesInv, NameFree
  <2> QED
    BY <2>2, <2>3
<1> QED
  BY <1>1, <1>2, <1>3, <1>4, <1>5, <1>6, <1>7 DEF Next, OneAtATime

LEMMA NamesInvariant ==
    ASSUME OneAtATime, "database" \notin FaultKinds
    PROVE  Spec => []NamesInv
<1>1. Init => NamesInv
  BY DEF Init, NamesInv, NamesApart, NameFree, MineAt, Mine, Existing, Exists, OneAtATime, Idle
<1>2. PortInv /\ NamesInv /\ [Next]_vars => NamesInv'
  BY NamesInvStep
<1> QED
  BY <1>1, <1>2, PortInvariant, PTL DEF Spec

\* "if type is web, it should not be duplicated in the same application no
\* matter the version": so it is where requests come one at a time and the
\* query for the name does not fail, whatever else fails.
THEOREM WebNamesAreUnique ==
    ASSUME OneAtATime, "database" \notin FaultKinds
    PROVE  Spec => []WebNameUnique
<1>1. PortInv /\ NamesInv => WebNameUnique
  <2> SUFFICES ASSUME NamesInv, NEW i \in Existing, NEW j \in Existing,
                      rows[i].form.web, rows[j].form.web, rows[i].form.name = rows[j].form.name
               PROVE  i = j
    BY DEF WebNameUnique
  <2>1. ConfName(rows[i].form) = ConfName(rows[j].form)
    BY DEF ConfName
  <2> QED
    BY <2>1 DEF NamesInv, NamesApart
<1> QED
  BY <1>1, PortInvariant, NamesInvariant, PTL

-----------------------------------------------------------------------------
(* What a deletion knows of its row *)

KnownRow ==
    MineAt("delete", Undone) =>
        /\ Exists(Mine.id)
        /\ rows[Mine.id].form = Mine.form
        /\ rows[Mine.id].sub = Mine.sub

\* Only two steps write the table of blocks.
LEMMA RowsKept ==
    /\ CreateStep(Only) /\ ~ InsertRow(Only) => rows' = rows
    /\ DeleteStep(Only) /\ ~ DeleteRow(Only) => rows' = rows
    /\ ReadConf(Only) => rows' = rows
<1>1. CreateStep(Only) /\ ~ InsertRow(Only) => rows' = rows
  BY DEF CreateStep, ReadCap, CheckName, ChargeCap, ReadApplication, Activate, CreateDnsRecord,
     LockForCreate, SelectPort, TakePort, GenerateConf, CreateAuthority, tables
<1>2. DeleteStep(Only) /\ ~ DeleteRow(Only) => rows' = rows
  BY DEF DeleteStep, Deactivate, RemoveConf, ReadCapToRefund, RefundCap, LockForDelete, FreePort,
     RemoveDnsRecord, tables
<1> QED
  BY <1>1, <1>2 DEF ReadConf, tables

\* The row a creation writes, where none was.
LEMMA NewRow ==
    ASSUME PortInv, OneAtATime, InsertRow(Only)
    PROVE  /\ MineAt("create", {"insert"}) /\ Goes("read_conf") /\ Stays
           /\ ~ Exists(Mine.id) /\ Mine.id \in Ids
           /\ rows'[Mine.id] # NoRow
           /\ rows'[Mine.id].form = Mine.form
           /\ rows'[Mine.id].sub = Mine.sub
           /\ rows'[Mine.id].port = Mine.port
           /\ \A i \in Ids : i # Mine.id => rows'[i] = rows[i]
<1>1. /\ Only \in Handlers /\ TypeOK /\ MineAt("create", {"insert"})
      /\ Mine \in Task("create", CreateSteps) /\ Mine.port \in Ports
  BY CreateTask DEF OneAtATime, PortInv, InsertRow, At, MineAt, Mine, Taken, TakenBy
<1>2. Goes("read_conf") /\ Stays
  BY <1>1, CreateFlow
<1>3. ~ Exists(Mine.id)
  BY <1>1 DEF PortInv, Fresh, Creating, Unwritten, Mine, MineAt
<1> DEFINE r == [form |-> Mine.form, port |-> Mine.port, sub |-> Mine.sub, rec |-> Mine.rec]
<1>4. rows' = [rows EXCEPT ![Mine.id] = r] /\ Mine.id \in Ids
  BY <1>1 DEF InsertRow, Mine, Task
<1>5. r # NoRow
  BY <1>1, PortsAssumption DEF NoRow
<1> QED
  BY <1>1, <1>2, <1>3, <1>4, <1>5 DEF TypeOK

\* And the one a deletion removes.
LEMMA OldRow ==
    ASSUME PortInv, OneAtATime, DeleteRow(Only)
    PROVE  /\ MineAt("delete", {"delete_row"}) /\ Goes("free") /\ Stays
           /\ Mine.id \in Ids
           /\ rows'[Mine.id] = NoRow
           /\ \A i \in Ids : i # Mine.id => rows'[i] = rows[i]
<1>1. /\ Only \in Handlers /\ TypeOK /\ MineAt("delete", {"delete_row"})
      /\ Mine \in Task("delete", DeleteSteps)
  BY DeleteTask DEF OneAtATime, PortInv, DeleteRow, At, MineAt, Mine
<1>2. Goes("free") /\ Stays
  BY <1>1, DeleteFlow
<1>3. rows' = [rows EXCEPT ![Mine.id] = NoRow] /\ Mine.id \in Ids
  BY <1>1 DEF DeleteRow, Mine, Task
<1> QED
  BY <1>1, <1>2, <1>3 DEF TypeOK

\* A creation stays one until it ends, and so does a deletion.
LEMMA StaysCreation ==
    ASSUME TypeOK, OneAtATime, CreateStep(Only)
    PROVE  Mine.kind = "create" /\ (Mine' = Idle \/ Mine'.kind = "create")
<1>1. Mine.kind = "create"
  BY DEF CreateStep, ReadCap, CheckName, ChargeCap, ReadApplication, Activate, CreateDnsRecord,
     LockForCreate, SelectPort, TakePort, InsertRow, GenerateConf, CreateAuthority, At, Mine
<1> QED
  BY <1>1, CreateFlow DEF Goes, CreateStep

LEMMA KnownRowStep ==
    ASSUME OneAtATime, FaultKinds \subseteq {"dns"}, TypeOK, KnownRow, [Next]_vars
    PROVE  KnownRow'
<1>1. CASE UNCHANGED vars
  BY <1>1 DEF vars, tables, KnownRow, MineAt, Mine, Exists
<1>2. ASSUME NEW i \in Ids, NEW f \in Forms, BeginCreate(Only, i, f) PROVE KnownRow'
  BY <1>2, BeginFlow DEF KnownRow, MineAt
<1>3. ASSUME NEW i \in Ids, BeginDelete(Only, i) PROVE KnownRow'
  <2>1. rows' = rows /\ Exists(i)
    BY <1>3 DEF BeginDelete, tables
  <2> QED
    BY <1>3, <2>1, BeginFlow DEF KnownRow, Exists
<1>4. CASE CreateStep(Only)
  BY <1>4, StaysCreation DEF KnownRow, MineAt, Idle
<1>5. CASE DeleteStep(Only) /\ ~ DeleteRow(Only)
  <2>1. CASE FreePort(Only) \/ RemoveDnsRecord(Only)
    BY <2>1, DeleteFlow DEF KnownRow, MineAt, Idle, Goes, Undone
  <2>2. CASE ~ (FreePort(Only) \/ RemoveDnsRecord(Only))
    <3>1. MineAt("delete", Undone)
      BY <1>5, <2>2 DEF DeleteStep, Deactivate, RemoveConf, ReadCapToRefund, RefundCap,
         LockForDelete, At, Mine, MineAt, Undone, DeleteSteps
    <3>2. Mine'.id = Mine.id /\ Mine'.form = Mine.form /\ Mine'.sub = Mine.sub
      BY <1>5, <2>2, DeleteFlow DEF DeleteStep, Goes, Stays
    <3> QED
      BY <1>5, <3>1, <3>2, RowsKept DEF KnownRow, Exists
  <2> QED
    BY <2>1, <2>2
<1>6. CASE DeleteRow(Only)
  BY <1>6, DeleteFlow DEF KnownRow, MineAt, Goes, Undone
<1>7. CASE ReadConf(Only)
  <2>1. /\ rows' = rows /\ Mine.step = "read_conf"
        /\ Mine'.kind = Mine.kind /\ Mine'.id = Mine.id /\ Mine'.form = Mine.form /\ Mine'.sub = Mine.sub
    BY <1>7, RowsKept, CreateFlow DEF ReadConf, Goes, Mine
  <2> QED
    BY <2>1 DEF KnownRow, MineAt, Exists, Undone, DeleteSteps
<1>8. CASE DnsFails(Only)
  BY <1>8, DnsFlow DEF KnownRow, MineAt, Goes, Idle
<1> QED
  BY <1>1, <1>2, <1>3, <1>4, <1>5, <1>6, <1>7, <1>8, InTurn

-----------------------------------------------------------------------------
(* The usage cap *)

\* The blocks a version is charged for: its rows but the one whose charge is
\* given back, and the creation that is charged.
GivenBack == MineAt("delete", {"lock", "delete_row"})
Counts(i, v) ==
    \/ Exists(i) /\ rows[i].form.version = v /\ ~ (GivenBack /\ i = Mine.id)
    \/ MineAt("create", Charged) /\ i = Mine.id /\ Mine.form.version = v
Counted(v) == {i \in Ids : Counts(i, v)}
CapIsCount ==
    PortsSuffice => \A v \in Versions : cap[v] + Cardinality(Counted(v)) = FirstCap

\* The value a request writes is the one it read: nobody wrote since.
CapRead ==
    MineAt("create", {"name", "charge"}) \/ MineAt("delete", {"refund"}) =>
        Mine.cap = cap[Mine.form.version]

CapInv == CapIsCount /\ CapRead /\ KnownRow /\ IsFiniteSet(asked)

LEMMA CountedFinite ==
    ASSUME PortInv, OneAtATime, IsFiniteSet(asked), NEW v
    PROVE  IsFiniteSet(Counted(v)) /\ Cardinality(Counted(v)) \in Nat
<1>1. Counted(v) \subseteq asked
  <2>1. \A i \in Ids : Exists(i) => i \in asked
    BY DEF PortInv, Fresh, Existing
  <2>2. MineAt("create", Charged) => Mine.id \in asked
    BY DEF MineAt, Charged, PortInv, Fresh, OneAtATime, Mine, Working
  <2> QED
    BY <2>1, <2>2 DEF Counted, Counts
<1> QED
  BY <1>1, FS_Subset, FS_CardinalityType

\* A port is left for every creation that has not taken one.
LEMMA FreePortLeft ==
    ASSUME LossInv, OneAtATime, IsFiniteSet(Ports), IsFiniteSet(asked), PortsSuffice,
           Creating(Only), Mine.step # "insert"
    PROVE  \E p \in Ports : ports[p] = NoId
<1> SUFFICES ASSUME \A p \in Ports : ports[p] # NoId PROVE FALSE
  OBVIOUS
<1> DEFINE others == asked \ {Mine.id}
<1>1. Only \in Handlers /\ Working(Only)
  BY DEF OneAtATime, Creating, Working, Unwritten
<1>2. Mine.id \in asked /\ \A p \in Ports : ports[p] # Mine.id /\ ports[p] \in asked
  BY <1>1 DEF LossInv, PortInv, Fresh, Mine
<1>3. IsFiniteSet(others) /\ Cardinality(others) = Cardinality(asked) - 1
  BY <1>2, FS_RemoveElement
<1>4. Cardinality(others) < Cardinality(Ports)
  BY <1>3, FS_CardinalityType DEF PortsSuffice
<1>5. ports \in [Ports -> others]
  BY <1>2 DEF LossInv, PortInv, TypeOK
<1>6. PICK p \in Ports, q \in Ports : p # q /\ ports[p] = ports[q]
  <2> HIDE DEF others
  <2> QED
    BY <1>3, <1>4, <1>5, FS_PigeonHole
<1> QED
  BY <1>6 DEF LossInv, OnePort

\* A step that neither charges nor gives back.
LEMMA CountedKept ==
    ASSUME UNCHANGED <<rows, cap, asked>>, CapIsCount,
           GivenBack' <=> GivenBack,
           MineAt("create", Charged)' <=> MineAt("create", Charged),
           GivenBack \/ MineAt("create", Charged) => Mine'.id = Mine.id /\ Mine'.form = Mine.form
    PROVE  CapIsCount'
<1>1. ASSUME NEW v PROVE Counted(v)' = Counted(v)
  BY DEF Counted, Counts, Exists
<1>2. PortsSuffice' <=> PortsSuffice
  BY DEF PortsSuffice
<1> QED
  BY <1>1, <1>2 DEF CapIsCount

\* The charge counts one block more, which no row has yet.
LEMMA Charge ==
    ASSUME PortInv, OneAtATime, CapInv, ChargeCap(Only)
    PROVE  CapIsCount'
<1>1. /\ TypeOK /\ Only \in Handlers /\ Goes("application")
      /\ Mine \in Task("create", CreateSteps) /\ MineAt("create", {"charge"})
  BY CreateFlow, CreateTask DEF PortInv, OneAtATime, ChargeCap, At, Mine, MineAt
<1> DEFINE w == Mine.form.version
<1>2. ~ Exists(Mine.id) /\ Mine.id \in Ids /\ w \in Versions
  BY <1>1, FormsAssumption DEF PortInv, Fresh, Creating, Unwritten, Mine, MineAt, Task
<1>3. rows' = rows /\ asked' = asked /\ cap' = [cap EXCEPT ![w] = cap[w] - 1]
  BY <1>1 DEF ChargeCap, Mine, CapInv, CapRead, MineAt, history
<1>4. \A v : Counted(v)' = IF v = w THEN Counted(v) \cup {Mine.id} ELSE Counted(v)
  <2>1. \A i, v : Counts(i, v)' <=> Counts(i, v) \/ (i = Mine.id /\ v = w)
    BY <1>1, <1>2, <1>3 DEF Counts, GivenBack, MineAt, Charged, Goes, Exists
  <2> QED
    BY <1>2, <2>1 DEF Counted
<1>5. Mine.id \notin Counted(w)
  BY <1>1, <1>2 DEF Counted, Counts, MineAt, Charged
<1> SUFFICES ASSUME PortsSuffice', NEW v \in Versions
             PROVE  cap'[v] + Cardinality(Counted(v)') = FirstCap
  BY DEF CapIsCount
<1>6. cap[v] + Cardinality(Counted(v)) = FirstCap /\ cap[v] \in Int
  BY <1>3 DEF CapInv, CapIsCount, PortsSuffice, PortInv, TypeOK
<1>7. IsFiniteSet(Counted(v)) /\ Cardinality(Counted(v)) \in Nat
  BY CountedFinite DEF CapInv
<1>8. CASE v = w
  <2>1. Cardinality(Counted(v)') = Cardinality(Counted(v)) + 1
    BY <1>4, <1>5, <1>7, <1>8, FS_AddElement
  <2>2. cap'[v] = cap[v] - 1
    BY <1>1, <1>2, <1>3, <1>8 DEF TypeOK
  <2> QED
    BY <1>6, <1>7, <2>1, <2>2
<1>9. CASE v # w
  BY <1>1, <1>3, <1>4, <1>6, <1>9 DEF TypeOK
<1> QED
  BY <1>8, <1>9

\* The refund takes the block it is for out of the count.
LEMMA Refund ==
    ASSUME PortInv, OneAtATime, CapInv, RefundCap(Only)
    PROVE  CapIsCount'
<1>1. /\ TypeOK /\ Only \in Handlers /\ Goes("lock")
      /\ Mine \in Task("delete", DeleteSteps) /\ MineAt("delete", {"refund"})
  BY DeleteFlow, DeleteTask DEF PortInv, OneAtATime, RefundCap, At, Mine, MineAt
<1> DEFINE w == Mine.form.version
<1>2. Mine.id \in Ids /\ w \in Versions
  BY <1>1, FormsAssumption DEF Task
<1>3. rows' = rows /\ asked' = asked /\ cap' = [cap EXCEPT ![w] = cap[w] + 1]
  BY <1>1 DEF RefundCap, Mine, CapInv, CapRead, MineAt, history
<1>4. Exists(Mine.id) /\ rows[Mine.id].form.version = w
  BY <1>1 DEF CapInv, KnownRow, MineAt, Undone, DeleteSteps
<1>5. \A v : Counted(v)' = IF v = w THEN Counted(v) \ {Mine.id} ELSE Counted(v)
  <2>1. \A i, v : Counts(i, v)' <=> Counts(i, v) /\ ~ (i = Mine.id /\ v = w)
    BY <1>1, <1>3, <1>4 DEF Counts, GivenBack, MineAt, Goes, Exists
  <2> QED
    BY <2>1 DEF Counted
<1>6. Mine.id \in Counted(w)
  BY <1>1, <1>2, <1>4 DEF Counted, Counts, GivenBack, MineAt
<1> SUFFICES ASSUME PortsSuffice', NEW v \in Versions
             PROVE  cap'[v] + Cardinality(Counted(v)') = FirstCap
  BY DEF CapIsCount
<1>7. cap[v] + Cardinality(Counted(v)) = FirstCap /\ cap[v] \in Int
  BY <1>3 DEF CapInv, CapIsCount, PortsSuffice, PortInv, TypeOK
<1>8. IsFiniteSet(Counted(v)) /\ Cardinality(Counted(v)) \in Nat
  BY CountedFinite DEF CapInv
<1>9. CASE v = w
  <2>1. Cardinality(Counted(v)') = Cardinality(Counted(v)) - 1
    BY <1>5, <1>6, <1>8, <1>9, FS_RemoveElement
  <2>2. cap'[v] = cap[v] + 1
    BY <1>1, <1>2, <1>3, <1>9 DEF TypeOK
  <2> QED
    BY <1>7, <1>8, <2>1, <2>2
<1>10. CASE v # w
  BY <1>1, <1>3, <1>5, <1>7, <1>10 DEF TypeOK
<1> QED
  BY <1>9, <1>10

\* The two writes of the table of blocks change nothing that is counted: the
\* new row was charged, and the old one given back.
LEMMA Written ==
    ASSUME PortInv, OneAtATime, CapInv, InsertRow(Only) \/ DeleteRow(Only)
    PROVE  CapIsCount'
<1>1. cap' = cap /\ asked' = asked
  BY DEF InsertRow, DeleteRow, history
<1>2. \A v : \A i \in Ids : Counts(i, v)' <=> Counts(i, v)
  <2>1. CASE InsertRow(Only)
    BY <2>1, NewRow DEF Counts, GivenBack, MineAt, Charged, Goes, Exists, NoRow
  <2>2. CASE DeleteRow(Only)
    BY <2>2, OldRow DEF Counts, GivenBack, MineAt, Charged, Goes, Exists, NoRow
  <2> QED
    BY <2>1, <2>2
<1>3. \A v : Counted(v)' = Counted(v)
  BY <1>2 DEF Counted
<1> QED
  BY <1>1, <1>3 DEF CapInv, CapIsCount, PortsSuffice

\* One more creation asked for.
LEMMA AskedGrows ==
    ASSUME IsFiniteSet(asked), NEW i, asked' = asked \cup {i}, IsFiniteSet(Ports)
    PROVE  IsFiniteSet(asked') /\ (PortsSuffice' => PortsSuffice)
<1>1. /\ IsFiniteSet(asked') /\ Cardinality(asked') >= Cardinality(asked)
      /\ Cardinality(asked') \in Nat /\ Cardinality(asked) \in Nat /\ Cardinality(Ports) \in Nat
  BY FS_AddElement, FS_CardinalityType
<1> QED
  BY <1>1 DEF PortsSuffice

LEMMA BegunCounted ==
    ASSUME PortInv, OneAtATime, CapInv, IsFiniteSet(Ports), NEW i \in Ids,
           \/ \E f \in Forms : BeginCreate(Only, i, f)
           \/ BeginDelete(Only, i)
    PROVE  CapIsCount' /\ CapRead' /\ IsFiniteSet(asked')
<1>1. /\ rows' = rows /\ cap' = cap /\ ~ Working(Only)
      /\ \/ Mine'.kind = "create" /\ Mine'.step = "cap"
         \/ Mine'.kind = "delete" /\ Mine'.step \in {"deactivate", "read_conf"}
  <2>1. CASE \E f \in Forms : BeginCreate(Only, i, f)
    BY <2>1, BeginFlow DEF BeginCreate, tables, PortInv
  <2>2. CASE BeginDelete(Only, i)
    BY <2>2, BeginFlow DEF BeginDelete, tables, PortInv
  <2> QED
    BY <2>1, <2>2
<1>2. /\ ~ GivenBack /\ ~ MineAt("create", Charged)
      /\ ~ GivenBack' /\ ~ MineAt("create", Charged)'
  BY <1>1 DEF GivenBack, MineAt, Charged, Working, Mine
<1>3. IsFiniteSet(asked') /\ (PortsSuffice' => PortsSuffice)
  BY AskedGrows DEF BeginCreate, BeginDelete, CapInv, history, PortsSuffice
<1>4. \A v : Counted(v)' = Counted(v)
  BY <1>1, <1>2 DEF Counted, Counts, Exists
<1>5. CapIsCount'
  BY <1>1, <1>3, <1>4 DEF CapInv, CapIsCount
<1> QED
  BY <1>1, <1>3, <1>5 DEF CapRead, MineAt

LEMMA CreateCounted ==
    ASSUME LossInv, OneAtATime, CapInv, IsFiniteSet(Ports), CreateStep(Only)
    PROVE  CapIsCount' /\ CapRead' /\ asked' = asked
<1> USE DEF LossInv, PortInv
<1>0. asked' = asked /\ (~ ChargeCap(Only) => cap' = cap)
  BY DEF CreateStep, ReadCap, CheckName, ChargeCap, ReadApplication, Activate, CreateDnsRecord,
     LockForCreate, SelectPort, TakePort, InsertRow, GenerateConf, CreateAuthority, tables, history
<1>1. CASE ReadCap(Only) \/ CheckName(Only) \/ GenerateConf(Only) \/ CreateAuthority(Only)
  <2>1. /\ ~ GivenBack /\ ~ MineAt("create", Charged) /\ Mine.kind = "create"
        /\ ~ GivenBack' /\ ~ MineAt("create", Charged)'
    BY <1>1, CreateFlow DEF ReadCap, CheckName, GenerateConf, CreateAuthority, At, GivenBack, MineAt,
       Charged, Mine, Goes, Idle
  <2>2. rows' = rows /\ cap' = cap
    BY <1>1 DEF ReadCap, CheckName, GenerateConf, CreateAuthority, tables
  <2>3. CapIsCount'
    BY <1>0, <2>1, <2>2, CountedKept DEF CapInv
  <2>4. CapRead'
    <3>1. CASE ReadCap(Only)
      BY <2>2, <3>1, CreateFlow DEF CapRead, MineAt, Goes, Idle
    <3>2. CASE CheckName(Only)
      BY <2>2, <3>2, CreateFlow DEF CapInv, CapRead, MineAt, Goes, Idle, CheckName, At, Mine
    <3>3. CASE GenerateConf(Only) \/ CreateAuthority(Only)
      BY <3>3, CreateFlow DEF CapRead, MineAt, Goes, Idle
    <3> QED
      BY <1>1, <3>1, <3>2, <3>3
  <2> QED
    BY <1>0, <2>3, <2>4
<1>2. CASE ReadApplication(Only) \/ Activate(Only) \/ CreateDnsRecord(Only) \/ LockForCreate(Only)
           \/ SelectPort(Only) \/ TakePort(Only)
  <2>1. Mine.kind = "create" /\ Mine.step \in Charged \ {"insert"} /\ rows' = rows /\ cap' = cap
    BY <1>2 DEF ReadApplication, Activate, CreateDnsRecord, LockForCreate, SelectPort, TakePort,
       At, Mine, Charged, tables
  <2>2. CASE \E s \in Charged : Goes(s)
    <3>1. MineAt("create", Charged)' /\ ~ GivenBack' /\ MineAt("create", Charged) /\ ~ GivenBack
      BY <2>1, <2>2 DEF MineAt, GivenBack, Goes
    <3>2. CapIsCount'
      BY <1>0, <2>1, <2>2, <3>1, CountedKept DEF CapInv, Goes
    <3> QED
      BY <1>0, <3>1, <3>2 DEF CapRead, MineAt, Charged
  <2>3. CASE Mine' = Idle /\ \A p \in Ports : ports[p] # NoId
    <3>1. Creating(Only) /\ Mine.step # "insert"
      BY <2>1 DEF Creating, Unwritten, Charged, Mine
    <3>2. ~ PortsSuffice'
      BY <1>0, <2>3, <3>1, FreePortLeft DEF CapInv, PortsSuffice
    <3> QED
      BY <1>0, <2>3, <3>2 DEF CapIsCount, CapRead, MineAt, Idle
  <2> QED
    BY <1>2, <2>2, <2>3, CreateFlow DEF Charged
<1>3. CASE ChargeCap(Only)
  BY <1>0, <1>3, Charge, CreateFlow DEF CapRead, MineAt, Goes
<1>4. CASE InsertRow(Only)
  BY <1>0, <1>4, Written, CreateFlow DEF CapRead, MineAt, Goes
<1> QED
  BY <1>1, <1>2, <1>3, <1>4 DEF CreateStep

LEMMA DeleteCounted ==
    ASSUME PortInv, OneAtATime, CapInv, DeleteStep(Only)
    PROVE  CapIsCount' /\ CapRead' /\ asked' = asked
<1> USE DEF PortInv
<1>0. asked' = asked /\ (~ RefundCap(Only) => cap' = cap)
  BY DEF DeleteStep, Deactivate, RemoveConf, ReadCapToRefund, RefundCap, LockForDelete, DeleteRow,
     FreePort, RemoveDnsRecord, tables, history
<1>1. CASE Deactivate(Only) \/ RemoveConf(Only) \/ ReadCapToRefund(Only) \/ FreePort(Only)
           \/ RemoveDnsRecord(Only)
  <2>0. /\ Mine.kind = "delete" /\ Mine.step \in {"deactivate", "write_conf", "cap", "free", "dns"}
        /\ Mine' = Idle \/ \E s \in {"read_conf", "cap", "refund", "dns"} : Goes(s)
    BY <1>1, DeleteFlow DEF Deactivate, RemoveConf, ReadCapToRefund, FreePort, RemoveDnsRecord, At, Mine
  <2>1. /\ ~ GivenBack /\ ~ MineAt("create", Charged)
        /\ ~ GivenBack' /\ ~ MineAt("create", Charged)'
    BY <2>0 DEF GivenBack, MineAt, Goes, Idle
  <2>2. rows' = rows /\ cap' = cap
    BY <1>1 DEF Deactivate, RemoveConf, ReadCapToRefund, FreePort, RemoveDnsRecord, tables
  <2>3. CapIsCount'
    BY <1>0, <2>1, <2>2, CountedKept DEF CapInv
  <2>4. CapRead'
    <3>1. CASE ReadCapToRefund(Only)
      BY <2>2, <3>1, DeleteFlow DEF CapRead, MineAt, Goes
    <3>2. CASE ~ ReadCapToRefund(Only)
      <4>1. Mine' = Idle \/ \E s \in {"read_conf", "cap", "dns"} : Mine'.step = s /\ Mine'.kind = "delete"
        BY <1>1, <2>0, <3>2, DeleteFlow DEF Goes
      <4> QED
        BY <4>1 DEF CapRead, MineAt, Idle
    <3> QED
      BY <3>1, <3>2
  <2> QED
    BY <1>0, <2>3, <2>4
<1>2. CASE LockForDelete(Only)
  <2>1. /\ GivenBack /\ ~ MineAt("create", Charged) /\ Mine'.id = Mine.id /\ Mine'.form = Mine.form
        /\ GivenBack' /\ ~ MineAt("create", Charged)' /\ Mine'.step = "delete_row"
    BY <1>2, DeleteFlow DEF LockForDelete, At, GivenBack, MineAt, Mine, Goes
  <2>2. rows' = rows /\ cap' = cap
    BY <1>2 DEF LockForDelete, tables
  <2> QED
    BY <1>0, <2>1, <2>2, CountedKept DEF CapInv, CapRead, MineAt
<1>3. CASE RefundCap(Only)
  BY <1>0, <1>3, Refund, DeleteFlow DEF CapRead, MineAt, Goes
<1>4. CASE DeleteRow(Only)
  BY <1>0, <1>4, Written, DeleteFlow DEF CapRead, MineAt, Goes
<1> QED
  BY <1>1, <1>2, <1>3, <1>4 DEF DeleteStep

LEMMA CapInvStep ==
    ASSUME OneAtATime, FaultKinds \subseteq {"dns"}, IsFiniteSet(Ports), LossInv, CapInv, [Next]_vars
    PROVE  CapInv'
<1>0. PortInv /\ TypeOK
  BY DEF LossInv, PortInv
<1>1. KnownRow'
  BY <1>0, KnownRowStep DEF CapInv
<1>2. CASE UNCHANGED vars
  <2>1. CapIsCount' /\ CapRead'
    BY <1>2, CountedKept DEF vars, tables, history, CapInv, CapRead, GivenBack, MineAt, Mine
  <2> QED
    BY <1>1, <1>2, <2>1 DEF vars, history, CapInv
<1>3. CASE ReadConf(Only)
  <2>1. UNCHANGED <<rows, cap, asked>> /\ Goes("write_conf") /\ Mine.step = "read_conf"
    BY <1>0, <1>3, CreateFlow DEF ReadConf, tables, history, Mine
  <2>2. CapIsCount' /\ CapRead'
    BY <2>1, CountedKept DEF CapInv, CapRead, GivenBack, MineAt, Charged, Goes
  <2> QED
    BY <1>1, <2>1, <2>2 DEF CapInv
<1>4. CASE DnsFails(Only)
  <2>1. /\ UNCHANGED <<rows, cap, asked>>
        /\ \/ MineAt("create", {"dns"}) /\ Goes("lock")
           \/ MineAt("delete", {"dns"}) /\ Mine' = Idle
    BY <1>0, <1>4, DnsFlow
  <2>2. CapIsCount' /\ CapRead'
    BY <2>1, CountedKept DEF CapInv, CapRead, GivenBack, MineAt, Charged, Goes, Idle
  <2> QED
    BY <1>1, <2>1, <2>2 DEF CapInv
<1> QED
  BY <1>0, <1>1, <1>2, <1>3, <1>4, InTurn, BegunCounted, CreateCounted, DeleteCounted DEF CapInv

LEMMA CapInvariant ==
    ASSUME OneAtATime, FaultKinds \subseteq {"dns"}, IsFiniteSet(Ports)
    PROVE  Spec => []CapInv
<1>1. Init => CapInv
  <2> SUFFICES ASSUME Init PROVE CapInv
    OBVIOUS
  <2>1. Mine = Idle /\ \A i \in Ids : ~ Exists(i)
    BY DEF Init, Mine, OneAtATime, Exists
  <2>2. \A v : Counted(v) = {}
    BY <2>1 DEF Counted, Counts, MineAt, Idle
  <2>3. CapIsCount
    BY <2>2, FS_EmptySet, ProvisioningBounds DEF Init, CapIsCount
  <2> QED
    BY <2>1, <2>3, FS_EmptySet DEF Init, CapInv, CapRead, KnownRow, MineAt, Idle
<1>2. LossInv /\ CapInv /\ [Next]_vars => CapInv'
  BY CapInvStep
<1> QED
  BY <1>1, <1>2, LossInvInit, LossInvStep, PTL DEF Spec

\* The cap of a version is what its blocks leave of the first one, where
\* requests come one at a time, at most the DNS provider fails and a port is
\* left for each creation: one that is charged ends with a row, and a deletion
\* gives back what its block was charged (handler.rs:404-468 and 736-772).
THEOREM CapCountsTheBlocks ==
    ASSUME OneAtATime, FaultKinds \subseteq {"dns"}, IsFiniteSet(Ports)
    PROVE  Spec => []CapCountsBlocks
<1>1. CapInv => CapCountsBlocks
  <2> SUFFICES ASSUME CapInv, Busy = {}, PortsSuffice, NEW v \in Versions
               PROVE  cap[v] + Cardinality({i \in Existing : rows[i].form.version = v}) = FirstCap
    BY DEF CapCountsBlocks
  <2>1. Mine.step = "idle"
    BY DEF Busy, Working, Mine, OneAtATime
  <2>2. Counted(v) = {i \in Existing : rows[i].form.version = v}
    BY <2>1 DEF Counted, Counts, Existing, GivenBack, MineAt, Charged
  <2> QED
    BY <2>2 DEF CapInv, CapIsCount
<1> QED
  BY <1>1, CapInvariant, PTL

-----------------------------------------------------------------------------
(* The prime domain *)

\* The blocks with the domain of the application: the rows that have it but the
\* one whose domain is given back, and the creation that took it.
Deactivated == MineAt("delete", Undone \ {"deactivate"})
Placing == MineAt("create", Placed) /\ Mine.sub = PrimeDomain
HasPrime(i) ==
    \/ Exists(i) /\ rows[i].sub = PrimeDomain /\ ~ (Deactivated /\ i = Mine.id)
    \/ Placing /\ i = Mine.id
PrimeBlocks == {i \in Ids : HasPrime(i)}
PrimeIsTaken ==
    PortsSuffice => IF prime THEN \E i : PrimeBlocks = {i} ELSE PrimeBlocks = {}

\* What the request under way knows of its domain.
Unplaced == {"cap", "name", "charge", "application", "activate"}
PrimeRead ==
    /\ MineAt("create", {"activate"}) => ~ prime
    /\ MineAt("create", Unplaced) => Mine.sub # PrimeDomain
    /\ MineAt("delete", {"deactivate"}) => Mine.sub = PrimeDomain

PrimeInv == PrimeIsTaken /\ PrimeRead

LEMMA PrimeKept ==
    ASSUME PrimeIsTaken, prime' = prime, PortsSuffice' => PortsSuffice,
           \A i \in Ids : HasPrime(i)' <=> HasPrime(i)
    PROVE  PrimeIsTaken'
<1>1. PrimeBlocks' = PrimeBlocks
  BY DEF PrimeBlocks
<1> QED
  BY <1>1 DEF PrimeIsTaken

\* A step that leaves the rows and does not change whether its request has the
\* domain.
LEMMA PrimeStays ==
    ASSUME PrimeIsTaken, UNCHANGED <<rows, prime, asked>>,
           Deactivated' <=> Deactivated, Placing' <=> Placing,
           Deactivated \/ Placing => Mine'.id = Mine.id
    PROVE  PrimeIsTaken'
<1>1. \A i \in Ids : HasPrime(i)' <=> HasPrime(i)
  BY DEF HasPrime, Exists
<1> QED
  BY <1>1, PrimeKept DEF PortsSuffice

LEMMA BegunPrime ==
    ASSUME TypeOK, OneAtATime, PrimeIsTaken, IsFiniteSet(asked), IsFiniteSet(Ports), NEW i \in Ids,
           \/ \E f \in Forms : BeginCreate(Only, i, f)
           \/ BeginDelete(Only, i)
    PROVE  PrimeIsTaken' /\ PrimeRead'
<1>1. rows' = rows /\ prime' = prime /\ ~ Deactivated /\ ~ Placing
  BY DEF BeginCreate, BeginDelete, tables, Deactivated, Placing, MineAt, Working, Mine, Undone,
     DeleteSteps, Placed
<1>2. ASSUME NEW f \in Forms, BeginCreate(Only, i, f) PROVE PrimeIsTaken' /\ PrimeRead'
  <2>1. Mine'.kind = "create" /\ Mine'.step = "cap" /\ Mine'.sub = ConfName(f)
    BY <1>2, BeginFlow
  <2>2. PortsSuffice' => PortsSuffice
    BY <1>2, AskedGrows DEF BeginCreate
  <2>3. \A j \in Ids : HasPrime(j)' <=> HasPrime(j)
    BY <1>1, <2>1 DEF HasPrime, Exists, Deactivated, Placing, MineAt, Placed
  <2>4. ConfName(f) # PrimeDomain
    BY DEF ConfName, PrimeDomain
  <2> QED
    BY <1>1, <2>1, <2>2, <2>3, <2>4, PrimeKept DEF PrimeRead, MineAt, PrimeDomain
<1>3. ASSUME BeginDelete(Only, i) PROVE PrimeIsTaken' /\ PrimeRead'
  <2>1. /\ Mine'.kind = "delete" /\ Mine'.id = i /\ Mine'.sub = rows[i].sub
        /\ Mine'.step = IF rows[i].sub = PrimeDomain THEN "deactivate" ELSE "read_conf"
    BY <1>3, BeginFlow
  <2>2. PortsSuffice' => PortsSuffice
    BY <1>3 DEF BeginDelete, history, PortsSuffice
  <2>3. \A j \in Ids : HasPrime(j)' <=> HasPrime(j)
    BY <1>1, <2>1 DEF HasPrime, Exists, Deactivated, Placing, MineAt, Undone, PrimeDomain
  <2> QED
    BY <1>1, <2>1, <2>2, <2>3, PrimeKept DEF PrimeRead, MineAt, PrimeDomain
<1> QED
  BY <1>2, <1>3

\* The creation that read the application as inactive takes its domain.
LEMMA Activated ==
    ASSUME TypeOK, OneAtATime, PrimeInv, Activate(Only)
    PROVE  PrimeIsTaken'
<1>1. /\ Goes("dns") /\ Mine'.sub = PrimeDomain /\ MineAt("create", {"activate"})
      /\ UNCHANGED <<rows, asked>> /\ prime' = TRUE /\ ~ prime /\ Mine.id \in Ids
  BY CreateFlow, CreateTask DEF Activate, At, MineAt, Mine, PrimeInv, PrimeRead, history, OneAtATime, Task
<1>2. \A i \in Ids : HasPrime(i)' <=> HasPrime(i) \/ i = Mine.id
  BY <1>1 DEF HasPrime, Exists, Deactivated, Placing, MineAt, Placed, Goes, PrimeDomain
<1>3. PrimeBlocks' = PrimeBlocks \cup {Mine.id}
  BY <1>1, <1>2 DEF PrimeBlocks
<1>4. PortsSuffice' => PrimeBlocks = {}
  BY <1>1 DEF PrimeInv, PrimeIsTaken, PortsSuffice
<1> QED
  BY <1>1, <1>3, <1>4 DEF PrimeIsTaken

\* The deletion of the block that has the domain gives it back.
LEMMA DeactivatedPrime ==
    ASSUME TypeOK, OneAtATime, PrimeInv, KnownRow, Deactivate(Only)
    PROVE  PrimeIsTaken'
<1>1. /\ Goes("read_conf") /\ MineAt("delete", {"deactivate"}) /\ Mine.sub = PrimeDomain
      /\ UNCHANGED <<rows, asked>> /\ prime' = FALSE /\ Mine.id \in Ids
  BY DeleteFlow, DeleteTask DEF Deactivate, At, MineAt, Mine, PrimeInv, PrimeRead, history, OneAtATime,
     Task
<1>2. Exists(Mine.id) /\ rows[Mine.id].sub = PrimeDomain
  BY <1>1 DEF KnownRow, MineAt, Undone, DeleteSteps
<1>3. \A i \in Ids : HasPrime(i)' <=> HasPrime(i) /\ i # Mine.id
  BY <1>1, <1>2 DEF HasPrime, Exists, Deactivated, Placing, MineAt, Undone, DeleteSteps, Goes,
     PrimeDomain
<1>4. HasPrime(Mine.id)
  BY <1>1, <1>2 DEF HasPrime, Deactivated, MineAt, Undone
<1>5. PortsSuffice' => \E i : PrimeBlocks = {i}
  <2>1. Mine.id \in PrimeBlocks
    BY <1>1, <1>4 DEF PrimeBlocks
  <2> QED
    BY <1>1, <2>1 DEF PrimeInv, PrimeIsTaken, PortsSuffice
<1>6. PrimeBlocks' = PrimeBlocks \ {Mine.id} /\ Mine.id \in PrimeBlocks
  BY <1>1, <1>3, <1>4 DEF PrimeBlocks
<1> QED
  BY <1>1, <1>5, <1>6 DEF PrimeIsTaken

\* The row that is written has the domain its creation had, and the row that is
\* deleted had given it back.
LEMMA WrittenPrime ==
    ASSUME PortInv, OneAtATime, PrimeIsTaken, InsertRow(Only) \/ DeleteRow(Only)
    PROVE  PrimeIsTaken'
<1>1. prime' = prime /\ (PortsSuffice' => PortsSuffice)
  BY DEF InsertRow, DeleteRow, history, PortsSuffice
<1>2. \A i \in Ids : HasPrime(i)' <=> HasPrime(i)
  <2>1. CASE InsertRow(Only)
    BY <2>1, NewRow DEF HasPrime, Deactivated, Placing, MineAt, Placed, Goes, Exists, NoRow, PrimeDomain
  <2>2. CASE DeleteRow(Only)
    BY <2>2, OldRow DEF HasPrime, Deactivated, Placing, MineAt, Undone, DeleteSteps, Goes, Exists,
       NoRow, PrimeDomain
  <2> QED
    BY <2>1, <2>2
<1> QED
  BY <1>1, <1>2, PrimeKept

LEMMA CreatePrime ==
    ASSUME LossInv, OneAtATime, IsFiniteSet(asked), IsFiniteSet(Ports), PrimeInv, CreateStep(Only)
    PROVE  PrimeInv'
<1> USE DEF LossInv, PortInv
<1>0. asked' = asked /\ (~ Activate(Only) => prime' = prime)
  BY DEF CreateStep, ReadCap, CheckName, ChargeCap, ReadApplication, Activate, CreateDnsRecord,
     LockForCreate, SelectPort, TakePort, InsertRow, GenerateConf, CreateAuthority, tables, history
<1>1. CASE ReadCap(Only) \/ CheckName(Only) \/ ChargeCap(Only) \/ ReadApplication(Only)
           \/ GenerateConf(Only) \/ CreateAuthority(Only)
  <2>1. /\ Mine.kind = "create" /\ Mine.step \in {"cap", "name", "charge", "application",
                                                  "write_conf", "authority"}
        /\ rows' = rows /\ prime' = prime
    BY <1>1 DEF ReadCap, CheckName, ChargeCap, ReadApplication, GenerateConf, CreateAuthority, At,
       Mine, tables
  <2>2. \/ Mine' = Idle
        \/ Goes("authority")
        \/ /\ MineAt("create", Unplaced) /\ Mine'.sub = Mine.sub
           /\ \/ \E s \in {"name", "charge", "application", "dns"} : Goes(s)
              \/ Goes("activate") /\ ~ prime
    BY <1>1, <2>1, CreateFlow DEF Stays, MineAt, Unplaced, ReadCap, CheckName, ChargeCap, ReadApplication,
       At, Mine
  <2>3. ~ Deactivated /\ ~ Placing
    BY <2>1 DEF Deactivated, Placing, MineAt, Placed
  <2>4. ~ Deactivated' /\ ~ Placing'
    BY <2>1, <2>2 DEF Deactivated, Placing, MineAt, Placed, Goes, Idle, PrimeInv, PrimeRead, PrimeDomain
  <2>5. PrimeIsTaken'
    BY <1>0, <2>1, <2>3, <2>4, PrimeStays DEF PrimeInv
  <2>6. PrimeRead'
    BY <2>1, <2>2 DEF PrimeInv, PrimeRead, MineAt, Unplaced, Goes, Idle, PrimeDomain
  <2> QED
    BY <2>5, <2>6 DEF PrimeInv
<1>2. CASE Activate(Only)
  BY <1>2, Activated, CreateFlow DEF PrimeInv, PrimeRead, MineAt, Unplaced, Goes, Activate, At, Mine
<1>3. CASE CreateDnsRecord(Only) \/ LockForCreate(Only) \/ SelectPort(Only) \/ TakePort(Only)
  <2>1. Mine.kind = "create" /\ Mine.step \in Placed \ {"insert"} /\ rows' = rows
    BY <1>3 DEF CreateDnsRecord, LockForCreate, SelectPort, TakePort, At, Mine, Placed, tables
  <2>2. CASE Stays /\ \E s \in {"lock", "select", "take", "insert"} : Goes(s)
    <3>1. ~ Deactivated /\ ~ Deactivated' /\ (Placing' <=> Placing) /\ Mine'.id = Mine.id
      BY <2>1, <2>2 DEF Deactivated, Placing, MineAt, Placed, Goes, Stays, PrimeDomain
    <3>2. PrimeIsTaken'
      BY <1>0, <1>3, <2>1, <3>1, PrimeStays DEF PrimeInv, Activate, CreateDnsRecord, LockForCreate,
         SelectPort, TakePort, tables
    <3> QED
      BY <2>1, <2>2, <3>2 DEF PrimeInv, PrimeRead, MineAt, Unplaced, Goes
  <2>3. CASE Mine' = Idle /\ \A p \in Ports : ports[p] # NoId
    <3>1. Creating(Only) /\ Mine.step # "insert"
      BY <2>1 DEF Creating, Unwritten, Placed, Mine
    <3>2. ~ PortsSuffice'
      BY <1>0, <2>3, <3>1, FreePortLeft DEF PortsSuffice
    <3> QED
      BY <2>3, <3>2 DEF PrimeInv, PrimeIsTaken, PrimeRead, MineAt, Idle
  <2> QED
    BY <1>3, <2>2, <2>3, CreateFlow
<1>4. CASE InsertRow(Only)
  BY <1>4, WrittenPrime, CreateFlow DEF PrimeInv, PrimeRead, MineAt, Unplaced, Goes
<1> QED
  BY <1>1, <1>2, <1>3, <1>4 DEF CreateStep

LEMMA DeletePrime ==
    ASSUME PortInv, OneAtATime, KnownRow, PrimeInv, DeleteStep(Only)
    PROVE  PrimeInv'
<1> USE DEF PortInv
<1>0. PrimeRead'
  <2>1. Mine' = Idle \/ (Mine'.kind = "delete" /\ Mine'.step # "deactivate")
    BY DeleteFlow DEF DeleteStep, Goes, Deactivate, RemoveConf, ReadCapToRefund, RefundCap,
       LockForDelete, DeleteRow, FreePort, RemoveDnsRecord, At, Mine
  <2> QED
    BY <2>1 DEF PrimeRead, MineAt, Idle
<1>1. CASE RemoveConf(Only) \/ ReadCapToRefund(Only) \/ RefundCap(Only) \/ LockForDelete(Only)
  <2>1. /\ Mine.kind = "delete" /\ Mine.step \in {"write_conf", "cap", "refund", "lock"}
        /\ \E s \in {"cap", "refund", "lock", "delete_row"} : Goes(s)
    BY <1>1, DeleteFlow DEF RemoveConf, ReadCapToRefund, RefundCap, LockForDelete, At, Mine
  <2>2. Deactivated /\ Deactivated' /\ ~ Placing /\ ~ Placing' /\ Mine'.id = Mine.id
    BY <2>1 DEF Deactivated, Placing, MineAt, Undone, DeleteSteps, Goes
  <2>3. UNCHANGED <<rows, prime, asked>>
    BY <1>1 DEF RemoveConf, ReadCapToRefund, RefundCap, LockForDelete, tables, history
  <2> QED
    BY <1>0, <2>2, <2>3, PrimeStays DEF PrimeInv
<1>2. CASE FreePort(Only) \/ RemoveDnsRecord(Only)
  <2>1. /\ Mine.kind = "delete" /\ Mine.step \in {"free", "dns"}
        /\ Mine' = Idle \/ Goes("dns")
    BY <1>2, DeleteFlow DEF FreePort, RemoveDnsRecord, At, Mine
  <2>2. ~ Deactivated /\ ~ Deactivated' /\ ~ Placing /\ ~ Placing'
    BY <2>1 DEF Deactivated, Placing, MineAt, Undone, Goes, Idle
  <2>3. UNCHANGED <<rows, prime, asked>>
    BY <1>2 DEF FreePort, RemoveDnsRecord, tables, history
  <2> QED
    BY <1>0, <2>2, <2>3, PrimeStays DEF PrimeInv
<1> QED
  BY <1>0, <1>1, <1>2, DeactivatedPrime, WrittenPrime DEF DeleteStep, PrimeInv

LEMMA PrimeInvStep ==
    ASSUME OneAtATime, FaultKinds \subseteq {"dns"}, IsFiniteSet(Ports), LossInv, CapInv, PrimeInv,
           [Next]_vars
    PROVE  PrimeInv'
<1>0. PortInv /\ TypeOK /\ KnownRow /\ IsFiniteSet(asked)
  BY DEF LossInv, PortInv, CapInv
<1>1. CASE UNCHANGED vars
  <2>1. Mine' = Mine /\ UNCHANGED <<rows, prime, asked>>
    BY <1>1 DEF vars, tables, history, Mine
  <2>2. (Deactivated' <=> Deactivated) /\ (Placing' <=> Placing)
    BY <2>1 DEF Deactivated, Placing, MineAt, PrimeDomain
  <2> QED
    BY <2>1, <2>2, PrimeStays DEF PrimeInv, PrimeRead, MineAt, PrimeDomain
<1>2. CASE ReadConf(Only)
  <2>1. /\ UNCHANGED <<rows, prime, asked>> /\ Goes("write_conf") /\ Mine.step = "read_conf"
    BY <1>0, <1>2, CreateFlow DEF ReadConf, tables, history, Mine
  <2>2. (Deactivated' <=> Deactivated) /\ ~ Placing /\ ~ Placing' /\ Mine'.id = Mine.id
    BY <2>1 DEF Deactivated, Placing, MineAt, Placed, Undone, DeleteSteps, Goes
  <2> QED
    BY <2>1, <2>2, PrimeStays DEF PrimeInv, PrimeRead, MineAt, Goes, Unplaced
<1>3. CASE DnsFails(Only)
  <2>1. /\ UNCHANGED <<rows, prime, asked>>
        /\ \/ MineAt("create", {"dns"}) /\ Goes("lock") /\ Stays
           \/ MineAt("delete", {"dns"}) /\ Mine' = Idle
    BY <1>0, <1>3, DnsFlow
  <2>2. ~ Deactivated /\ ~ Deactivated' /\ (Placing' <=> Placing) /\ (Placing => Mine'.id = Mine.id)
    BY <2>1 DEF Deactivated, Placing, MineAt, Placed, Undone, Goes, Stays, Idle, PrimeDomain
  <2> QED
    BY <2>1, <2>2, PrimeStays DEF PrimeInv, PrimeRead, MineAt, Goes, Unplaced, Idle
<1> QED
  BY <1>0, <1>1, <1>2, <1>3, InTurn, BegunPrime, CreatePrime, DeletePrime DEF PrimeInv

\* "Only one block can be prime domain in one application": the application is
\* active exactly while one of its blocks has its domain, where requests come
\* one at a time, at most the DNS provider fails and a port is left for each
\* creation (handler.rs:480-490 and 686-688).
THEOREM PrimeIsOneBlockOnly ==
    ASSUME OneAtATime, FaultKinds \subseteq {"dns"}, IsFiniteSet(Ports)
    PROVE  Spec => []PrimeIsOneBlock
<1>1. Init => PrimeInv
  <2> SUFFICES ASSUME Init PROVE PrimeInv
    OBVIOUS
  <2>1. Mine = Idle /\ (\A i \in Ids : ~ Exists(i)) /\ prime = FALSE
    BY DEF Init, Mine, OneAtATime, Exists
  <2>2. PrimeBlocks = {}
    BY <2>1 DEF PrimeBlocks, HasPrime, Placing, MineAt, Idle
  <2> QED
    BY <2>1, <2>2 DEF PrimeInv, PrimeIsTaken, PrimeRead, MineAt, Idle
<1>2. LossInv /\ CapInv /\ PrimeInv /\ [Next]_vars => PrimeInv'
  BY PrimeInvStep
<1>3. PrimeInv => PrimeIsOneBlock
  <2> SUFFICES ASSUME PrimeInv, Busy = {}, PortsSuffice
               PROVE  Cardinality({i \in Existing : rows[i].sub = PrimeDomain})
                          = IF prime THEN 1 ELSE 0
    BY DEF PrimeIsOneBlock
  <2>1. Mine.step = "idle"
    BY DEF Busy, Working, Mine, OneAtATime
  <2>2. PrimeBlocks = {i \in Existing : rows[i].sub = PrimeDomain}
    BY <2>1 DEF PrimeBlocks, HasPrime, Existing, Deactivated, Placing, MineAt, Placed, Undone,
       DeleteSteps
  <2> QED
    BY <2>2, FS_EmptySet, FS_Singleton DEF PrimeInv, PrimeIsTaken
<1> QED
  BY <1>1, <1>2, <1>3, CapInvariant, LossInvInit, LossInvStep, PTL DEF Spec

-----------------------------------------------------------------------------
(* The routes *)

\* No name is a part of another one.
Flat == \A f, g \in Forms : <<ConfName(f), ConfName(g)>> \notin Inside

\* Every block has its section, but the one whose section is to be written or
\* is removed.
Routed(i) ==
    [name |-> ConfName(rows[i].form), sub |-> rows[i].sub, port |-> rows[i].port] \in conf
Unrouted ==
    \/ MineAt("create", {"read_conf", "write_conf"})
    \/ MineAt("delete", {"cap", "refund", "lock", "delete_row"})
AllRouted == \A i \in Existing : Routed(i) \/ (Unrouted /\ i = Mine.id)

\* What is written is the file as it is, and the row as it is.
FileRead == Mine.step = "write_conf" => Mine.file = conf
RowRead ==
    MineAt("create", {"read_conf", "write_conf"}) =>
        /\ rows[Mine.id].form = Mine.form
        /\ rows[Mine.id].sub = Mine.sub
        /\ rows[Mine.id].port = Mine.port

RouteInv == AllRouted /\ FileRead /\ RowRead

\* A step that leaves the rows and the file.
LEMMA RoutesStay ==
    ASSUME AllRouted, UNCHANGED <<rows, conf>>,
           Unrouted => Unrouted' /\ Mine'.id = Mine.id
    PROVE  AllRouted'
BY DEF AllRouted, Routed, Existing, Exists, ConfName

\* The steps that neither touch the file nor the rows.
LEMMA RoutesLeft ==
    ASSUME TypeOK, OneAtATime, RouteInv, CreateStep(Only) \/ DeleteStep(Only),
           ~ InsertRow(Only), ~ GenerateConf(Only), ~ RemoveConf(Only), ~ DeleteRow(Only)
    PROVE  RouteInv'
<1>1. UNCHANGED <<rows, conf>>
  BY DEF CreateStep, ReadCap, CheckName, ChargeCap, ReadApplication, Activate, CreateDnsRecord,
     LockForCreate, SelectPort, TakePort, CreateAuthority, DeleteStep, Deactivate, ReadCapToRefund,
     RefundCap, LockForDelete, FreePort, RemoveDnsRecord, tables
<1>2. CASE CreateStep(Only)
  <2>1. /\ Mine.kind = "create" /\ Mine.step \notin {"read_conf", "write_conf"}
        /\ \/ Mine' = Idle
           \/ Mine'.kind = "create" /\ Mine'.step \notin {"read_conf", "write_conf"}
    BY <1>2, CreateFlow DEF CreateStep, ReadCap, CheckName, ChargeCap, ReadApplication, Activate,
       CreateDnsRecord, LockForCreate, SelectPort, TakePort, CreateAuthority, At, Mine, Goes
  <2>2. ~ Unrouted
    BY <2>1 DEF Unrouted, MineAt
  <2> QED
    BY <1>1, <2>1, <2>2, RoutesStay DEF RouteInv, FileRead, RowRead, MineAt, Idle
<1>3. CASE DeleteStep(Only)
  <2>1. CASE ReadCapToRefund(Only) \/ RefundCap(Only) \/ LockForDelete(Only)
    <3>1. /\ Mine.kind = "delete" /\ \E s \in {"refund", "lock", "delete_row"} : Goes(s)
      BY <2>1, DeleteFlow DEF ReadCapToRefund, RefundCap, LockForDelete, At, Mine
    <3>2. Unrouted' /\ Mine'.id = Mine.id
      BY <3>1 DEF Unrouted, MineAt, Goes
    <3> QED
      BY <1>1, <3>1, <3>2, RoutesStay DEF RouteInv, FileRead, RowRead, MineAt, Goes
  <2>2. CASE Deactivate(Only) \/ FreePort(Only) \/ RemoveDnsRecord(Only)
    <3>1. /\ Mine.kind = "delete" /\ Mine.step \in {"deactivate", "free", "dns"}
          /\ Mine' = Idle \/ Goes("read_conf") \/ Goes("dns")
      BY <2>2, DeleteFlow DEF Deactivate, FreePort, RemoveDnsRecord, At, Mine
    <3>2. ~ Unrouted
      BY <3>1 DEF Unrouted, MineAt
    <3> QED
      BY <1>1, <3>1, <3>2, RoutesStay DEF RouteInv, FileRead, RowRead, MineAt, Goes, Idle
  <2> QED
    BY <1>3, <2>1, <2>2 DEF DeleteStep
<1> QED
  BY <1>2, <1>3

\* The row that is written is still to be routed.
LEMMA NewRowUnrouted ==
    ASSUME PortInv, OneAtATime, RouteInv, InsertRow(Only)
    PROVE  RouteInv'
<1>1. /\ Goes("read_conf") /\ Mine.kind = "create" /\ Mine.id \in Ids /\ conf' = conf
      /\ rows'[Mine.id].form = Mine.form /\ rows'[Mine.id].sub = Mine.sub
      /\ rows'[Mine.id].port = Mine.port
      /\ \A i \in Ids : i # Mine.id => rows'[i] = rows[i]
      /\ ~ Unrouted
  BY NewRow DEF InsertRow, Unrouted, MineAt
<1>2. Unrouted' /\ Mine'.id = Mine.id
  BY <1>1 DEF Unrouted, MineAt, Goes
<1>3. AllRouted'
  BY <1>1, <1>2 DEF RouteInv, AllRouted, Routed, Existing, Exists, ConfName
<1>4. Mine'.port = Mine.port /\ Mine'.sub = Mine.sub
  <2>1. TypeOK /\ Working(Only) /\ Goto(Only, "read_conf")
    BY DEF PortInv, InsertRow, At, Working
  <2> QED
    BY <2>1, GotoGoes DEF Stays
<1>5. RowRead'
  BY <1>1, <1>4 DEF RowRead, Goes
<1>6. FileRead'
  BY <1>1 DEF FileRead, Goes
<1> QED
  BY <1>3, <1>5, <1>6 DEF RouteInv

\* The section that is written is the one the row needs.
LEMMA SectionWritten ==
    ASSUME TypeOK, OneAtATime, RouteInv, GenerateConf(Only)
    PROVE  RouteInv'
<1>1. /\ MineAt("create", {"write_conf"}) /\ rows' = rows
      /\ conf' = Mine.file \cup {[name |-> ConfName(Mine.form), sub |-> Mine.sub, port |-> Mine.port]}
      /\ Mine' = Idle \/ Goes("authority")
  BY CreateFlow DEF GenerateConf, At, MineAt, Mine
<1>2. Mine.file = conf
  BY <1>1 DEF RouteInv, FileRead, MineAt
<1>3. Mine.id \in Existing =>
          [name |-> ConfName(rows[Mine.id].form), sub |-> rows[Mine.id].sub,
           port |-> rows[Mine.id].port] \in conf'
  BY <1>1, <1>2 DEF RouteInv, RowRead, MineAt, ConfName
<1>4. \A i \in Existing : i # Mine.id => Routed(i)
  BY DEF RouteInv, AllRouted
<1>5. AllRouted'
  BY <1>1, <1>2, <1>3, <1>4 DEF AllRouted, Routed, Existing, Exists, ConfName
<1> QED
  BY <1>1, <1>5 DEF RouteInv, FileRead, RowRead, MineAt, Goes, Idle

\* The sections that are removed are those of the block that goes: no other
\* block has its name, nor a name its own is a part of.
LEMMA SectionRemoved ==
    ASSUME TypeOK, OneAtATime, Flat, NamesApart, KnownRow, RouteInv, RemoveConf(Only)
    PROVE  RouteInv'
<1>1. /\ MineAt("delete", {"write_conf"}) /\ rows' = rows /\ Goes("cap") /\ Mine.id \in Ids
      /\ conf' = {s \in Mine.file : ~ Contains(s.name, ConfName(Mine.form))}
  BY DeleteFlow, DeleteTask DEF RemoveConf, At, MineAt, Mine, Task, OneAtATime
<1>2. Mine.file = conf /\ Exists(Mine.id) /\ rows[Mine.id].form = Mine.form
  BY <1>1 DEF RouteInv, FileRead, MineAt, KnownRow, Undone, DeleteSteps
<1>3. ASSUME NEW i \in Existing, i # Mine.id
      PROVE  Routed(i) /\ ~ Contains(ConfName(rows[i].form), ConfName(Mine.form))
  <2>1. Routed(i)
    BY <1>3 DEF RouteInv, AllRouted
  <2>2. ConfName(rows[i].form) # ConfName(Mine.form)
    BY <1>1, <1>2, <1>3 DEF NamesApart, Existing
  <2>3. rows[i].form \in Forms /\ Mine.form \in Forms
    BY <1>1, <1>2, <1>3, RowTyped DEF Existing, Row
  <2> QED
    BY <2>1, <2>2, <2>3 DEF Contains, Flat
<1>4. \A i \in Existing : i # Mine.id =>
          [name |-> ConfName(rows[i].form), sub |-> rows[i].sub, port |-> rows[i].port] \in conf'
  BY <1>1, <1>2, <1>3 DEF Routed
<1>5. Unrouted' /\ Mine'.id = Mine.id
  BY <1>1 DEF Unrouted, MineAt, Goes
<1>6. AllRouted'
  BY <1>1, <1>4, <1>5 DEF AllRouted, Routed, Existing, Exists, ConfName
<1> QED
  BY <1>1, <1>6 DEF RouteInv, FileRead, RowRead, MineAt, Goes

LEMMA OldRowGone ==
    ASSUME PortInv, OneAtATime, RouteInv, DeleteRow(Only)
    PROVE  RouteInv'
<1>1. /\ MineAt("delete", {"delete_row"}) /\ Goes("free") /\ rows'[Mine.id] = NoRow /\ conf' = conf
      /\ \A i \in Ids : i # Mine.id => rows'[i] = rows[i]
  BY OldRow DEF DeleteRow
<1>2. AllRouted'
  BY <1>1 DEF RouteInv, AllRouted, Routed, Existing, Exists, NoRow, ConfName
<1> QED
  BY <1>1, <1>2 DEF RouteInv, FileRead, RowRead, MineAt, Goes

LEMMA FileIsRead ==
    ASSUME TypeOK, OneAtATime, RouteInv, ReadConf(Only)
    PROVE  RouteInv'
<1>1. /\ UNCHANGED <<rows, conf>> /\ Goes("write_conf") /\ Mine.step = "read_conf"
      /\ Mine'.file = conf /\ Mine'.sub = Mine.sub
  BY CreateFlow DEF ReadConf, tables, Mine
<1>2. Mine'.port = Mine.port
  <2>1. Only \in Handlers /\ Working(Only)
    BY DEF OneAtATime, ReadConf
  <2>2. Mine' = [Mine EXCEPT !.file = conf, !.step = "write_conf"]
    BY <2>1 DEF ReadConf, Mine, TypeOK
  <2>3. CASE Mine \in Task("create", CreateSteps)
    BY <2>2, <2>3 DEF Task
  <2>4. CASE Mine \in Task("delete", DeleteSteps)
    BY <2>2, <2>4 DEF Task
  <2> QED
    BY <2>1, <2>3, <2>4, WorkingTask DEF Mine
<1>3. AllRouted'
  BY <1>1, RoutesStay DEF RouteInv, Unrouted, MineAt, Goes
<1>4. RowRead'
  BY <1>1, <1>2 DEF RouteInv, RowRead, MineAt, Goes
<1> QED
  BY <1>1, <1>3, <1>4 DEF RouteInv, FileRead

LEMMA RouteInvStep ==
    ASSUME OneAtATime, FaultKinds \subseteq {"dns"}, Flat, PortInv, NamesInv, KnownRow, RouteInv,
           [Next]_vars
    PROVE  RouteInv'
<1>0. TypeOK /\ NamesApart
  BY DEF PortInv, NamesInv
<1>1. CASE UNCHANGED vars
  <2>1. Mine' = Mine /\ UNCHANGED <<rows, conf>>
    BY <1>1 DEF vars, tables, Mine
  <2> QED
    BY <2>1, RoutesStay DEF RouteInv, Unrouted, MineAt, FileRead, RowRead
<1>2. ASSUME NEW i \in Ids, \/ \E f \in Forms : BeginCreate(Only, i, f)
                            \/ BeginDelete(Only, i)
      PROVE  RouteInv'
  <2>1. UNCHANGED <<rows, conf>> /\ ~ Unrouted
    BY <1>2 DEF BeginCreate, BeginDelete, tables, Unrouted, MineAt, Working, Mine
  <2>2. \/ Mine'.kind = "create" /\ Mine'.step = "cap"
        \/ Mine'.kind = "delete" /\ Mine'.step \in {"deactivate", "read_conf"}
    <3>1. CASE \E f \in Forms : BeginCreate(Only, i, f)
      BY <1>0, <3>1, BeginFlow
    <3>2. CASE BeginDelete(Only, i)
      BY <1>0, <3>2, BeginFlow
    <3> QED
      BY <1>2, <3>1, <3>2
  <2> QED
    BY <2>1, <2>2, RoutesStay DEF RouteInv, FileRead, RowRead, MineAt
<1>3. CASE DnsFails(Only)
  <2>1. /\ UNCHANGED <<rows, conf>>
        /\ \/ MineAt("create", {"dns"}) /\ Goes("lock")
           \/ MineAt("delete", {"dns"}) /\ Mine' = Idle
    BY <1>0, <1>3, DnsFlow
  <2>2. AllRouted'
    <3>1. ~ Unrouted
      BY <2>1 DEF Unrouted, MineAt
    <3> QED
      BY <2>1, <3>1, RoutesStay DEF RouteInv
  <2>3. Mine' = Idle \/ (Mine'.kind = "create" /\ Mine'.step = "lock")
    BY <2>1 DEF MineAt, Goes
  <2> QED
    BY <2>2, <2>3 DEF RouteInv, FileRead, RowRead, MineAt, Idle
<1> QED
  BY <1>0, <1>1, <1>2, <1>3, InTurn, RoutesLeft, NewRowUnrouted, SectionWritten, SectionRemoved,
     OldRowGone, FileIsRead

\* "Deploying a block publishes it to an accessible domain": between requests
\* that come one at a time, every block has its section in the configuration,
\* where at most the DNS provider fails and no name is a part of another one,
\* for then remove_nginx_conf would remove both (nginx.rs:59-78).
THEOREM EveryDomainRouted ==
    ASSUME OneAtATime, FaultKinds \subseteq {"dns"}, Flat
    PROVE  Spec => []DomainsRouted
<1>1. Init => KnownRow /\ RouteInv
  BY DEF Init, KnownRow, RouteInv, AllRouted, FileRead, RowRead, Existing, Exists, MineAt, Mine,
     OneAtATime, Idle
<1>2. PortInv /\ NamesInv /\ KnownRow /\ RouteInv /\ [Next]_vars => KnownRow' /\ RouteInv'
  BY KnownRowStep, RouteInvStep DEF PortInv
<1>3. RouteInv => DomainsRouted
  <2> SUFFICES ASSUME RouteInv, Busy = {}, NEW i \in Existing
               PROVE  \E s \in conf : s.sub = rows[i].sub /\ s.port = rows[i].port
    BY DEF DomainsRouted
  <2>1. Mine.step = "idle"
    BY DEF Busy, Working, Mine, OneAtATime
  <2>2. Routed(i)
    BY <2>1 DEF RouteInv, AllRouted, Unrouted, MineAt
  <2> QED
    BY <2>2 DEF Routed
<1>4. "database" \notin FaultKinds
  OBVIOUS
<1> QED
  BY <1>1, <1>2, <1>3, <1>4, PortInvariant, NamesInvariant, PTL DEF Spec
==============================================================================

--------------------------- MODULE BlockProvisioning ---------------------------
(***************************************************************************)
(* Creating and deleting the blocks of one application: the sagas          *)
(* handle_create_block and handle_delete_block of the main-server          *)
(* (modules/block/handler.rs), which write in turn the usage cap, the      *)
(* prime flag of the application, the DNS zone, the port table, the block  *)
(* table and the nginx configuration file.  Every await between two of     *)
(* them lets another request run.  The session mutex of app_state is held  *)
(* over the statements of create_block and delete_block; every other query *)
(* takes it for itself.                                                    *)
(*                                                                         *)
(* The id of a block stands for its DNS record id too: both are made once  *)
(* per request and never reused.                                           *)
(***************************************************************************)
EXTENDS Integers, FiniteSets

CONSTANTS
    Handlers,    \* concurrent requests to the main-server
    Ids,         \* block ids, each made by one creation
    Names,       \* block names
    Versions,    \* versions of the application
    Forms,       \* the blocks users ask for
    Inside,      \* <<m, n>>: the nginx name m is a proper part of the name n
    Ports,       \* the port table
    FirstCap,    \* blocks a user may create in a version
    FaultKinds,  \* the faults that may happen in this instance
    MaxFaults    \* bound: how many of them

ASSUME FormsAssumption ==
    Forms \subseteq [name : Names, version : Versions, web : BOOLEAN, prime : BOOLEAN]
ASSUME PortsAssumption == Ports \subseteq Nat \ {0}
ASSUME ProvisioningBounds ==
    /\ FirstCap \in Nat
    /\ MaxFaults \in Nat
    /\ FaultKinds \subseteq {"sentinel", "dns", "database", "abandon"}

VARIABLES
    rows,     \* table blocks
    ports,    \* table ports: the block that holds each, or NoId
    cap,      \* usage cap left in each version
    prime,    \* is_active of the application: its domain is taken
    dns,      \* the zone: the record of each subdomain, or NoId
    conf,     \* the server sections of the nginx configuration file
    mutex,    \* the handler that holds the session over several statements
    task,     \* what each handler is doing
    asked,    \* history: ids given to a creation
    undeleted,\* history: blocks of which a DELETE failed
    faults    \* history: faults so far

tables == <<rows, ports, cap, prime, dns, conf>>
history == <<asked, undeleted>>
vars == <<tables, mutex, task, history, faults>>

NoId == "none"
ASSUME NoIdAssumption == NoId \notin Ids
NoRow == [port |-> 0]
Free == "free"
ASSUME FreeAssumption == Free \notin Handlers
PrimeDomain == <<>>

\* generate_nginx_conf_block_name: a web block's name has no version in it.
\* Every name begins with that of the application, which is left out.
ConfName(f) == IF f.web THEN <<f.name>> ELSE <<f.version, f.name>>
Contains(n, m) == n = m \/ <<m, n>> \in Inside
Subdomains == {PrimeDomain} \cup {ConfName(f) : f \in Forms}

Exists(i) == rows[i] # NoRow
Existing == {i \in Ids : Exists(i)}
Working(h) == task[h].step # "idle"
Busy == {h \in Handlers : Working(h)}
Idle == [kind |-> "none", step |-> "idle", id |-> NoId, form |-> "none", cap |-> 0,
         sub |-> PrimeDomain, rec |-> FALSE, port |-> -1, file |-> {}]
At(h, kind, step) == task[h].step = step /\ task[h].kind = kind
Goto(h, step) == task' = [task EXCEPT ![h].step = step]
Return(h) == task' = [task EXCEPT ![h] = Idle]
Fault(kind) == kind \in FaultKinds /\ faults < MaxFaults /\ faults' = faults + 1

Init ==
    /\ rows = [i \in Ids |-> NoRow]
    /\ ports = [p \in Ports |-> NoId]
    /\ cap = [v \in Versions |-> FirstCap]
    /\ prime = FALSE
    /\ dns = [s \in Subdomains |-> NoId]
    /\ conf = {}
    /\ mutex = Free
    /\ task = [h \in Handlers |-> Idle]
    /\ asked = {}
    /\ undeleted = {}
    /\ faults = 0

-----------------------------------------------------------------------------
(* handle_create_block *)

\* A request for the block f by a user who may write the application.
BeginCreate(h, i, f) ==
    /\ ~ Working(h)
    /\ i \notin asked
    /\ asked' = asked \cup {i}
    /\ task' = [task EXCEPT ![h] =
                  [kind |-> "create", step |-> "cap", id |-> i, form |-> f, cap |-> 0,
                   sub |-> ConfName(f), rec |-> FALSE, port |-> -1,
                   file |-> {}]]
    /\ UNCHANGED <<tables, mutex, undeleted, faults>>

\* get_usage_cap_block; nothing left ends the request.
ReadCap(h) ==
    /\ At(h, "create", "cap")
    /\ LET left == cap[task[h].form.version]
       IN  IF left <= 0 THEN Return(h)
           ELSE task' = [task EXCEPT ![h].step = "name", ![h].cap = left]
    /\ UNCHANGED <<tables, mutex, history, faults>>

\* Wrong variant: a web block's name is compared in its version only.
DuplicateInVersion(f) ==
    \E i \in Existing : rows[i].form.name = f.name /\ rows[i].form.version = f.version

\* check_block_name_duplicate_strict for a web block, in any version of the
\* application; check_block_name_duplicate for the others, in their version.
Duplicate(f) ==
    \E i \in Existing :
        /\ rows[i].form.name = f.name
        /\ f.web \/ rows[i].form.version = f.version

CheckName(h) ==
    /\ At(h, "create", "name")
    /\ mutex = Free
    /\ IF Duplicate(task[h].form) THEN Return(h) ELSE Goto(h, "charge")
    /\ UNCHANGED <<tables, mutex, history, faults>>

\* A query that fails finds no duplicate.
CheckNameFails(h) ==
    /\ At(h, "create", "name")
    /\ mutex = Free
    /\ Fault("database")
    /\ Goto(h, "charge")
    /\ UNCHANGED <<tables, mutex, history>>

\* update_usage_cap_block with the value read before.
ChargeCap(h) ==
    /\ At(h, "create", "charge")
    /\ cap' = [cap EXCEPT ![task[h].form.version] = task[h].cap - 1]
    /\ Goto(h, "application")
    /\ UNCHANGED <<rows, ports, prime, dns, conf, mutex, history, faults>>

\* Wrong variant: a block that asks for the domain always gets it.
ReadApplicationIgnoresPrime(h) ==
    /\ At(h, "create", "application")
    /\ mutex = Free
    /\ Goto(h, IF task[h].form.prime THEN "activate" ELSE "dns")
    /\ UNCHANGED <<tables, mutex, history, faults>>

\* read_application_by_id.
ReadApplication(h) ==
    /\ At(h, "create", "application")
    /\ mutex = Free
    /\ Goto(h, IF task[h].form.prime /\ ~ prime THEN "activate" ELSE "dns")
    /\ UNCHANGED <<tables, mutex, history, faults>>

\* The application had no prime block when it was read: this one takes its
\* domain, whether update_application_is_active(true) is written or not.
Activate(h) ==
    /\ At(h, "create", "activate")
    /\ mutex = Free
    /\ prime' = TRUE
    /\ task' = [task EXCEPT ![h].sub = PrimeDomain, ![h].step = "dns"]
    /\ UNCHANGED <<rows, ports, cap, dns, conf, mutex, history, faults>>

ActivateFails(h) ==
    /\ At(h, "create", "activate")
    /\ mutex = Free
    /\ Fault("database")
    /\ task' = [task EXCEPT ![h].sub = PrimeDomain, ![h].step = "dns"]
    /\ UNCHANGED <<tables, mutex, history>>

\* create_dns_record through the host-server: the zone refuses a record it
\* has; the id is then empty and the creation goes on.
CreateDnsRecord(h) ==
    /\ At(h, "create", "dns")
    /\ LET s == task[h].sub
           refused == dns[s] # NoId
       IN  /\ dns' = IF refused THEN dns ELSE [dns EXCEPT ![s] = task[h].id]
           /\ task' = [task EXCEPT ![h].rec = ~ refused, ![h].step = "lock"]
    /\ UNCHANGED <<rows, ports, cap, prime, conf, mutex, history, faults>>

\* The call fails, before the zone has the record or after.
CreateDnsRecordFails(h) ==
    /\ At(h, "create", "dns")
    /\ Fault("dns")
    /\ Goto(h, "lock")
    /\ \/ UNCHANGED dns
       \/ dns[task[h].sub] = NoId /\ dns' = [dns EXCEPT ![task[h].sub] = task[h].id]
    /\ UNCHANGED <<rows, ports, cap, prime, conf, mutex, history>>

\* Wrong variant: every statement locks the session for itself.
LockForCreateUnheld(h) ==
    /\ At(h, "create", "lock")
    /\ mutex = Free
    /\ Goto(h, "select")
    /\ UNCHANGED <<tables, mutex, history, faults>>

\* create_block locks the session.
LockForCreate(h) ==
    /\ At(h, "create", "lock")
    /\ mutex = Free
    /\ mutex' = h
    /\ Goto(h, "select")
    /\ UNCHANGED <<tables, history, faults>>

\* get_available_port reads an available port; without one, indexing the empty
\* result panics and the request dies.
SelectPort(h) ==
    /\ At(h, "create", "select")
    /\ \/ \E p \in Ports :
            /\ ports[p] = NoId
            /\ task' = [task EXCEPT ![h].port = p, ![h].step = "take"]
            /\ UNCHANGED mutex
       \/ /\ \A p \in Ports : ports[p] # NoId
          /\ Return(h)
          /\ mutex' = Free
    /\ UNCHANGED <<tables, history, faults>>

\* UPDATE ports with the block's id.
TakePort(h) ==
    /\ At(h, "create", "take")
    /\ ports' = [ports EXCEPT ![task[h].port] = task[h].id]
    /\ Goto(h, "insert")
    /\ UNCHANGED <<rows, cap, prime, dns, conf, mutex, history, faults>>

\* INSERT INTO blocks; the session is unlocked.
InsertRow(h) ==
    /\ At(h, "create", "insert")
    /\ rows' = [rows EXCEPT ![task[h].id] =
                  [form |-> task[h].form, port |-> task[h].port, sub |-> task[h].sub,
                   rec |-> task[h].rec]]
    /\ mutex' = Free
    /\ Goto(h, "read_conf")
    /\ UNCHANGED <<ports, cap, prime, dns, conf, history, faults>>

\* Wrong variant: create_block does not look at the port it was given.
CreateBlockIgnoresPort(h) ==
    /\ At(h, "create", "take")
    /\ Fault("database")
    /\ task' = [task EXCEPT ![h].port = -1, ![h].step = "insert"]
    /\ UNCHANGED <<tables, mutex, history>>

\* A statement of create_block fails: it answers ("", -1), the section of port
\* -1 is written all the same, and the request fails after it.
CreateBlockFails(h) ==
    /\ task[h].kind = "create"
    /\ task[h].step \in {"select", "take", "insert"}
    /\ Fault("database")
    /\ mutex' = Free
    /\ task' = [task EXCEPT ![h].port = -1, ![h].step = "read_conf"]
    /\ UNCHANGED <<tables, history>>

\* generate_nginx_conf reads the file, and writes it with one section more.
ReadConf(h) ==
    /\ task[h].step = "read_conf"
    /\ Working(h)
    /\ task' = [task EXCEPT ![h].file = conf, ![h].step = "write_conf"]
    /\ UNCHANGED <<tables, mutex, history, faults>>

\* Wrong variant: the file is written with the new section alone.
GenerateConfOver(h) ==
    /\ At(h, "create", "write_conf")
    /\ conf' = {[name |-> ConfName(task[h].form), sub |-> task[h].sub, port |-> task[h].port]}
    /\ IF task[h].port = -1 THEN Return(h) ELSE Goto(h, "authority")
    /\ UNCHANGED <<rows, ports, cap, prime, dns, mutex, history, faults>>

GenerateConf(h) ==
    /\ At(h, "create", "write_conf")
    /\ conf' = task[h].file \cup
                {[name |-> ConfName(task[h].form), sub |-> task[h].sub, port |-> task[h].port]}
    /\ IF task[h].port = -1 THEN Return(h) ELSE Goto(h, "authority")
    /\ UNCHANGED <<rows, ports, cap, prime, dns, mutex, history, faults>>

\* create_authority; its failure is reported, the block stays.
CreateAuthority(h) ==
    /\ At(h, "create", "authority")
    /\ Return(h)
    /\ UNCHANGED <<tables, mutex, history, faults>>

-----------------------------------------------------------------------------
(* handle_delete_block *)

\* A request to delete block i by a user who may write it: read_block and
\* read_application_by_id.
BeginDelete(h, i) ==
    /\ ~ Working(h)
    /\ mutex = Free
    /\ Exists(i)
    /\ task' = [task EXCEPT ![h] =
                  [kind |-> "delete", id |-> i, form |-> rows[i].form, cap |-> 0,
                   rec |-> rows[i].rec, sub |-> rows[i].sub, file |-> {}, port |-> -1,
                   step |-> IF rows[i].sub = PrimeDomain THEN "deactivate" ELSE "read_conf"]]
    /\ UNCHANGED <<tables, mutex, history, faults>>

\* update_application_is_active(false) for the block with the prime domain.
Deactivate(h) ==
    /\ At(h, "delete", "deactivate")
    /\ mutex = Free
    /\ prime' = FALSE
    /\ Goto(h, "read_conf")
    /\ UNCHANGED <<rows, ports, cap, dns, conf, mutex, history, faults>>

DeactivateFails(h) ==
    /\ At(h, "delete", "deactivate")
    /\ mutex = Free
    /\ Fault("database")
    /\ Goto(h, "read_conf")
    /\ UNCHANGED <<tables, mutex, history>>

\* Wrong variant: the DNS record goes here, as in the lines commented out.
RemoveConfAndRecord(h) ==
    /\ At(h, "delete", "write_conf")
    /\ conf' = {s \in task[h].file : ~ Contains(s.name, ConfName(task[h].form))}
    /\ dns' = IF task[h].rec /\ dns[task[h].sub] = task[h].id
              THEN [dns EXCEPT ![task[h].sub] = NoId] ELSE dns
    /\ Goto(h, "cap")
    /\ UNCHANGED <<rows, ports, cap, prime, mutex, history, faults>>

\* remove_nginx_conf drops every section that contains the block's name.
RemoveConf(h) ==
    /\ At(h, "delete", "write_conf")
    /\ conf' = {s \in task[h].file : ~ Contains(s.name, ConfName(task[h].form))}
    /\ Goto(h, "cap")
    /\ UNCHANGED <<rows, ports, cap, prime, dns, mutex, history, faults>>

\* The removal is produced, the authority deleted, and the cap read.
ReadCapToRefund(h) ==
    /\ At(h, "delete", "cap")
    /\ task' = [task EXCEPT ![h].cap = cap[task[h].form.version], ![h].step = "refund"]
    /\ UNCHANGED <<tables, mutex, history, faults>>

\* One of those calls fails and ends the deletion: the row stays.
DeleteFails(h) ==
    /\ task[h].kind = "delete"
    /\ task[h].step \in {"cap", "refund"}
    /\ Fault("sentinel")
    /\ Return(h)
    /\ UNCHANGED <<tables, mutex, history>>

\* Wrong variant: the cap is written back as it was read.
RefundNothing(h) ==
    /\ At(h, "delete", "refund")
    /\ cap' = [cap EXCEPT ![task[h].form.version] = task[h].cap]
    /\ Goto(h, "lock")
    /\ UNCHANGED <<rows, ports, prime, dns, conf, mutex, history, faults>>

RefundCap(h) ==
    /\ At(h, "delete", "refund")
    /\ cap' = [cap EXCEPT ![task[h].form.version] = task[h].cap + 1]
    /\ Goto(h, "lock")
    /\ UNCHANGED <<rows, ports, prime, dns, conf, mutex, history, faults>>

\* delete_block locks the session.
LockForDelete(h) ==
    /\ At(h, "delete", "lock")
    /\ mutex = Free
    /\ mutex' = h
    /\ Goto(h, "delete_row")
    /\ UNCHANGED <<tables, history, faults>>

DeleteRow(h) ==
    /\ At(h, "delete", "delete_row")
    /\ rows' = [rows EXCEPT ![task[h].id] = NoRow]
    /\ Goto(h, "free")
    /\ UNCHANGED <<ports, cap, prime, dns, conf, mutex, history, faults>>

\* The DELETE fails: the row stays, and so does the record, but free_port is
\* called all the same.
DeleteRowFails(h) ==
    /\ At(h, "delete", "delete_row")
    /\ Fault("database")
    /\ undeleted' = undeleted \cup {task[h].id}
    /\ task' = [task EXCEPT ![h].step = "free", ![h].rec = FALSE]
    /\ UNCHANGED <<tables, mutex, asked>>

\* Wrong variant: the port is never given back.
FreePortNever(h) ==
    /\ At(h, "delete", "free")
    /\ Goto(h, "dns")
    /\ mutex' = Free
    /\ UNCHANGED <<tables, history, faults>>

\* free_port: the port of the block becomes available; without one, indexing
\* the empty result panics and the request dies.
FreePort(h) ==
    /\ At(h, "delete", "free")
    /\ \/ \E p \in Ports :
            /\ ports[p] = task[h].id
            /\ ports' = [ports EXCEPT ![p] = NoId]
            /\ Goto(h, "dns")
       \/ /\ \A p \in Ports : ports[p] # task[h].id
          /\ Return(h)
          /\ UNCHANGED ports
    /\ mutex' = Free
    /\ UNCHANGED <<rows, cap, prime, dns, conf, history, faults>>

\* A statement of free_port fails: nobody looks at its result.
FreePortFails(h) ==
    /\ At(h, "delete", "free")
    /\ Fault("database")
    /\ Goto(h, "dns")
    /\ mutex' = Free
    /\ UNCHANGED <<tables, history>>

\* remove_dns_record of the id the row had, if the row was deleted.
RemoveDnsRecord(h) ==
    /\ At(h, "delete", "dns")
    /\ dns' = IF task[h].rec /\ dns[task[h].sub] = task[h].id
              THEN [dns EXCEPT ![task[h].sub] = NoId] ELSE dns
    /\ Return(h)
    /\ UNCHANGED <<rows, ports, cap, prime, conf, mutex, history, faults>>

-----------------------------------------------------------------------------

\* The result of remove_dns_record is not looked at.
RemoveDnsRecordFails(h) ==
    /\ At(h, "delete", "dns")
    /\ Fault("dns")
    /\ Return(h)
    /\ UNCHANGED <<tables, mutex, history>>

\* A call of the sentinel-server fails before the creation changed anything,
\* or after the cap was read, or when the block is there already.
CreateFails(h) ==
    /\ task[h].kind = "create"
    /\ task[h].step \in {"cap", "charge", "authority"}
    /\ Fault("sentinel")
    /\ Return(h)
    /\ UNCHANGED <<tables, mutex, history>>

\* The sentinel-server answers the write of the cap with an error: every answer
\* is taken for a success (Ok(_) => ()), and the request goes on.
ChargeCapRefused(h) ==
    /\ At(h, "create", "charge")
    /\ Fault("sentinel")
    /\ Goto(h, "application")
    /\ UNCHANGED <<tables, mutex, history>>

RefundCapRefused(h) ==
    /\ At(h, "delete", "refund")
    /\ Fault("sentinel")
    /\ Goto(h, "lock")
    /\ UNCHANGED <<tables, mutex, history>>

\* The main-server dies, the handler panics, or the client disconnects and the
\* handler is dropped: the session is unlocked, nothing is undone.
Abandon(h) ==
    /\ Working(h)
    /\ Fault("abandon")
    /\ Return(h)
    /\ mutex' = IF mutex = h THEN Free ELSE mutex
    /\ UNCHANGED <<tables, history>>

CreateStep(h) ==
    \/ ReadCap(h) \/ CheckName(h) \/ ChargeCap(h) \/ ReadApplication(h)
    \/ Activate(h) \/ CreateDnsRecord(h) \/ LockForCreate(h) \/ SelectPort(h)
    \/ TakePort(h) \/ InsertRow(h) \/ GenerateConf(h) \/ CreateAuthority(h)

DeleteStep(h) ==
    \/ Deactivate(h) \/ RemoveConf(h) \/ ReadCapToRefund(h) \/ RefundCap(h)
    \/ LockForDelete(h) \/ DeleteRow(h) \/ FreePort(h) \/ RemoveDnsRecord(h)

FaultStep(h) ==
    \/ CheckNameFails(h) \/ ActivateFails(h) \/ CreateDnsRecordFails(h)
    \/ CreateBlockFails(h) \/ CreateFails(h) \/ DeactivateFails(h) \/ DeleteFails(h)
    \/ DeleteRowFails(h) \/ FreePortFails(h) \/ RemoveDnsRecordFails(h) \/ Abandon(h)
    \/ ChargeCapRefused(h) \/ RefundCapRefused(h)

Next ==
    \E h \in Handlers :
        \/ \E i \in Ids, f \in Forms : BeginCreate(h, i, f)
        \/ \E i \in Ids : BeginDelete(h, i)
        \/ CreateStep(h)
        \/ DeleteStep(h)
        \/ ReadConf(h)
        \/ FaultStep(h)

Spec == Init /\ [][Next]_vars

-----------------------------------------------------------------------------
(* Properties *)

Section == [name : {ConfName(f) : f \in Forms}, sub : Subdomains, port : Ports \cup {-1}]
Row == [form : Forms, port : Ports, sub : Subdomains, rec : BOOLEAN]
CreateSteps == {"cap", "name", "charge", "application", "activate", "dns", "lock", "select",
                "take", "insert", "read_conf", "write_conf", "authority"}
DeleteSteps == {"deactivate", "read_conf", "write_conf", "cap", "refund", "lock",
                "delete_row", "free", "dns"}
InSession == {"select", "take", "insert", "delete_row", "free"}
Task(kind, steps) ==
    [kind : {kind}, step : steps, id : Ids, form : Forms, cap : Int, sub : Subdomains,
     rec : BOOLEAN, port : Ports \cup {-1}, file : SUBSET Section]

\* Type invariant.
TypeOK ==
    /\ task \in [Handlers -> {Idle} \cup Task("create", CreateSteps) \cup Task("delete", DeleteSteps)]
    /\ rows \in [Ids -> {NoRow} \cup Row]
    /\ ports \in [Ports -> Ids \cup {NoId}]
    /\ cap \in [Versions -> Int]
    /\ prime \in BOOLEAN
    /\ dns \in [Subdomains -> Ids \cup {NoId}]
    /\ conf \subseteq Section
    /\ mutex \in Handlers \cup {Free}
    /\ asked \subseteq Ids
    /\ undeleted \subseteq Ids
    /\ faults \in Nat

\* Every block owns the port its row names, so no two blocks share one,
\* whatever creations and deletions run, fail or die (service.rs:14-53 and
\* 206-221 keep the session locked over the read and the writes), except a
\* block whose DELETE failed: delete_block freed its port all the same.
PortsOwned == \A i \in Existing \ undeleted : ports[rows[i].port] = i

\* The DNS record a row names is in the zone until the row is gone: the
\* deletion removes the row first (handler.rs:781-803).
RecordsExist == \A i \in Existing : rows[i].rec => dns[rows[i].sub] = i

\* Without faults no port is lost, whatever requests interleave, two deletions
\* of one block included: a port that is taken belongs to a block, or to the
\* handler in the session (service.rs:274-333).
NoPortLost ==
    faults = 0 => \A p \in Ports : ports[p] # NoId =>
        Exists(ports[p]) \/ (mutex # Free /\ task[mutex].id = ports[p])

\* A creation that finds no port left panics after it was charged and after it
\* took the prime domain: not while there were no more creations than ports.
PortsSuffice == Cardinality(asked) <= Cardinality(Ports)

\* With requests one at a time, the cap of a version counts its blocks: what a
\* creation charges the deletion gives back, and a refused creation is free.
CapCountsBlocks ==
    Busy = {} /\ PortsSuffice => \A v \in Versions :
        cap[v] + Cardinality({i \in Existing : rows[i].form.version = v}) = FirstCap

\* With requests one at a time, the application is active exactly while one
\* of its blocks has the prime domain: "Only one block can be prime domain in
\* one application."
PrimeIsOneBlock ==
    Busy = {} /\ PortsSuffice =>
        Cardinality({i \in Existing : rows[i].sub = PrimeDomain}) = IF prime THEN 1 ELSE 0

\* "if type is web, it should not be duplicated in the same application no
\* matter the version"
WebNameUnique == \A i, j \in Existing :
    rows[i].form.web /\ rows[j].form.web /\ rows[i].form.name = rows[j].form.name => i = j

\* "Deploying a block publishes it to an accessible domain": between requests
\* the configuration routes the subdomain of every block to its port.
DomainsRouted ==
    Busy = {} => \A i \in Existing :
        \E s \in conf : s.sub = rows[i].sub /\ s.port = rows[i].port
=============================================================================

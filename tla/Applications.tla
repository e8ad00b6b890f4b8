------------------------------ MODULE Applications ------------------------------
(***************************************************************************)
(* Applications and their versions: the handlers of the main-server        *)
(* (modules/application/handler.rs) and the rows they write one await      *)
(* after another in the main database (applications), in the               *)
(* sentinel-server (usage caps and authorities) and in the storage-server  *)
(* (one bucket for each application name).  No lock or transaction spans   *)
(* two of these calls.                                                     *)
(*                                                                         *)
(* The requests are those the web-client offers: it lists a user's own     *)
(* applications, adds versions that are not in the list and removes or     *)
(* activates listed ones that are not active; the state may have changed   *)
(* when the handler runs.  (Users the application is shared with have no   *)
(* cap in it: a version they add or remove stops at the first read.)  A    *)
(* version list is kept as a set: removing an element removes all its      *)
(* copies.                                                                 *)
(***************************************************************************)
EXTENDS Integers, FiniteSets

CONSTANTS
    Handlers,      \* concurrent requests to the main-server
    Users,
    Ids,           \* application ids, each made by one creation
    Names,         \* application names, unique by intent; also the buckets' names
    Versions,
    FirstVersion,  \* the version every application starts with
    AppTier,       \* USAGE_CAP_APPLICATION_FREE_TIER
    VersionTier,   \* USAGE_CAP_VERSION_FREE_TIER
    MaxRequests,   \* bound: requests
    MaxFaults      \* bound: failing calls and dropped handlers

ASSUME VersionsAssumption == FirstVersion \in Versions
ASSUME TiersAssumption == AppTier \in Nat /\ VersionTier \in Nat \ {0}
ASSUME ApplicationsBounds == MaxRequests \in Nat /\ MaxFaults \in Nat

VARIABLES
    apps,        \* table applications
    appCap,      \* table usage_cap_application: what is left to each user
    versionCap,  \* table usage_cap_version: what its owner has left in each application
    blockCaps,   \* table usage_cap_block: the rows each version has there
    authority,   \* table authority: <<user, application>>
    buckets,     \* the buckets of the storage
    task,        \* what each handler is doing
    maker,       \* history: the user who maker for each id, or Nobody
    created,     \* history: ids whose creation was answered with success
    deleting,    \* history: ids somebody began to delete
    requests,    \* history: requests so far
    faults,      \* history: faults so far
    overlap      \* history: two requests have run at the same time

tables == <<apps, appCap, versionCap, blockCaps, authority, buckets>>
history == <<maker, created, deleting, requests, overlap>>
vars == <<tables, task, history, faults>>

Nobody == "null"
NoOwner == "no row"
NoApp == [owner |-> NoOwner, name |-> Nobody, versions |-> {}, active |-> Nobody]
NoCap == -1
\* What an UPDATE makes of a row that is not there: the other columns are null.
Ghost == [owner |-> Nobody, name |-> Nobody, versions |-> {}, active |-> Nobody]
ASSUME NullAssumption == Nobody \notin Users \cup Names \cup Versions /\ NoOwner \notin Users

Rows == {i \in Ids : apps[i] # NoApp}
OwnedBy(u) == {i \in Rows : apps[i].owner = u}
Upsert(i) == IF i \in Rows THEN apps[i] ELSE Ghost

Idle == [kind |-> "none", step |-> "idle", user |-> Nobody, id |-> Nobody,
         name |-> Nobody, version |-> Nobody, cap |-> 0]
Working(h) == task[h] # Idle
Busy == {h \in Handlers : Working(h)}
At(h, kind, step) == task[h].kind = kind /\ task[h].step = step
Goto(h, step) == task' = [task EXCEPT ![h].step = step]
GotoWith(h, step, left) == task' = [task EXCEPT ![h].step = step, ![h].cap = left]
Return(h) == task' = [task EXCEPT ![h] = Idle]
Fault == faults < MaxFaults /\ faults' = faults + 1

Begin(h, kind, first, u, i, n, v) ==
    /\ ~ Working(h)
    /\ requests < MaxRequests
    /\ requests' = requests + 1
    /\ overlap' = (overlap \/ Busy # {})
    /\ task' = [task EXCEPT ![h] = [kind |-> kind, step |-> first, user |-> u, id |-> i,
                                    name |-> n, version |-> v, cap |-> 0]]
    /\ UNCHANGED <<tables, created, faults>>

\* Registered users with their cap, and no applications yet.
Init ==
    /\ apps = [i \in Ids |-> NoApp]
    /\ appCap = [u \in Users |-> AppTier]
    /\ versionCap = [i \in Ids |-> NoCap]
    /\ blockCaps = [i \in Ids |-> [v \in Versions |-> 0]]
    /\ authority = {}
    /\ buckets = {}
    /\ task = [h \in Handlers |-> Idle]
    /\ maker = [i \in Ids |-> Nobody]
    /\ created = {} /\ deleting = {}
    /\ requests = 0 /\ faults = 0
    /\ overlap = FALSE

-----------------------------------------------------------------------------
(* handle_create_application *)

BeginCreate(h, u, i, n) ==
    /\ maker[i] = Nobody
    /\ maker' = [maker EXCEPT ![i] = u]
    /\ Begin(h, "create", "cap", u, i, n, FirstVersion)
    /\ UNCHANGED deleting

\* get_usage_cap_application; nothing left ends the request.
ReadAppCap(h) ==
    /\ At(h, "create", "cap")
    /\ LET left == appCap[task[h].user]
       IN  IF left <= 0 THEN Return(h) ELSE GotoWith(h, "name", left)
    /\ UNCHANGED <<tables, history, faults>>

\* Wrong variant: the name is compared with the user's own applications.
CheckNameOfUser(h) ==
    /\ At(h, "create", "name")
    /\ IF \E i \in OwnedBy(task[h].user) : apps[i].name = task[h].name
       THEN Return(h) ELSE Goto(h, "charge")
    /\ UNCHANGED <<tables, history, faults>>

\* check_app_name_duplicate, over the applications of every user.
CheckName(h) ==
    /\ At(h, "create", "name")
    /\ IF \E i \in Rows : apps[i].name = task[h].name THEN Return(h) ELSE Goto(h, "charge")
    /\ UNCHANGED <<tables, history, faults>>

\* A query that fails finds no duplicate.
CheckNameFails(h) ==
    /\ At(h, "create", "name")
    /\ Fault
    /\ Goto(h, "charge")
    /\ UNCHANGED <<tables, history>>

\* update_usage_cap_application with the value read before.
ChargeApp(h) ==
    /\ At(h, "create", "charge")
    /\ appCap' = [appCap EXCEPT ![task[h].user] = task[h].cap - 1]
    /\ Goto(h, "insert")
    /\ UNCHANGED <<apps, versionCap, blockCaps, authority, buckets, history, faults>>

\* Wrong variant: two values of the INSERT are bound in each other's place.
InsertRowSwapped(h) ==
    /\ At(h, "create", "insert")
    /\ apps' = [apps EXCEPT ![task[h].id] =
                  [owner |-> task[h].user, name |-> FirstVersion,
                   versions |-> {FirstVersion}, active |-> task[h].name]]
    /\ Goto(h, "authority")
    /\ UNCHANGED <<appCap, versionCap, blockCaps, authority, buckets, history, faults>>

\* create_application.
InsertRow(h) ==
    /\ At(h, "create", "insert")
    /\ apps' = [apps EXCEPT ![task[h].id] =
                  [owner |-> task[h].user, name |-> task[h].name,
                   versions |-> {FirstVersion}, active |-> FirstVersion]]
    /\ Goto(h, "authority")
    /\ UNCHANGED <<appCap, versionCap, blockCaps, authority, buckets, history, faults>>

\* create_authority as the owner.
CreateAuthority(h) ==
    /\ At(h, "create", "authority")
    /\ authority' = authority \cup {<<task[h].user, task[h].id>>}
    /\ Goto(h, "version_cap")
    /\ UNCHANGED <<apps, appCap, versionCap, blockCaps, buckets, history, faults>>

\* create_usage_cap_version: the first version is charged already.
CreateVersionCap(h) ==
    /\ At(h, "create", "version_cap")
    /\ versionCap' = [versionCap EXCEPT ![task[h].id] = VersionTier - 1]
    /\ Goto(h, "block_cap")
    /\ UNCHANGED <<apps, appCap, blockCaps, authority, buckets, history, faults>>

\* create_usage_cap_block for a new version of an old or a new application: an
\* INSERT, and the table has no key.
CreateBlockCap(h) ==
    /\ At(h, "create", "block_cap") \/ At(h, "version", "block_cap")
    /\ blockCaps' = [blockCaps EXCEPT ![task[h].id][task[h].version] = @ + 1]
    /\ Goto(h, IF task[h].kind = "create" THEN "bucket" ELSE "append")
    /\ UNCHANGED <<apps, appCap, versionCap, authority, buckets, history, faults>>

\* create_bucket: the storage refuses a name it has, the application stays.
CreateBucket(h) ==
    /\ At(h, "create", "bucket")
    /\ buckets' = buckets \cup {task[h].name}
    /\ created' = IF task[h].name \in buckets THEN created ELSE created \cup {task[h].id}
    /\ Return(h)
    /\ UNCHANGED <<apps, appCap, versionCap, blockCaps, authority, maker, deleting,
                   requests, overlap, faults>>
-----------------------------------------------------------------------------
(* Versions: handle_create_application_version,                            *)
(* handle_delete_application_version and                                   *)
(* handle_update_application_active_version.  None looks at an authority.  *)

BeginVersion(h, u, i, v) ==
    /\ i \in OwnedBy(u)
    /\ v \notin apps[i].versions
    /\ Begin(h, "version", "cap", u, i, Nobody, v)
    /\ UNCHANGED <<maker, deleting>>

\* Wrong variant: every listed version may be removed.
BeginRemoveActive(h, u, i, v) ==
    /\ i \in OwnedBy(u)
    /\ v \in apps[i].versions
    /\ Begin(h, "remove", "cap", u, i, Nobody, v)
    /\ UNCHANGED <<maker, deleting>>

BeginRemove(h, u, i, v) ==
    /\ i \in OwnedBy(u)
    /\ v \in apps[i].versions /\ v # apps[i].active
    /\ Begin(h, "remove", "cap", u, i, Nobody, v)
    /\ UNCHANGED <<maker, deleting>>

BeginActivate(h, u, i, v) ==
    /\ i \in OwnedBy(u)
    /\ v \in apps[i].versions /\ v # apps[i].active
    /\ Begin(h, "activate", "active", u, i, Nobody, v)
    /\ UNCHANGED <<maker, deleting>>

\* get_usage_cap_version; a user with no row has no cap to read, and a new
\* version needs something left.
ReadVersionCap(h) ==
    /\ task[h].kind \in {"version", "remove"} /\ task[h].step = "cap"
    /\ LET left == versionCap[task[h].id]
       IN  IF left = NoCap \/ (task[h].kind = "version" /\ left <= 0)
           THEN Return(h) ELSE GotoWith(h, "charge", left)
    /\ UNCHANGED <<tables, history, faults>>

\* update_usage_cap_version: an UPDATE, of no row when the caps are gone.
ChargeVersion(h) ==
    /\ task[h].kind \in {"version", "remove"} /\ task[h].step = "charge"
    /\ versionCap' = IF versionCap[task[h].id] = NoCap THEN versionCap
                     ELSE [versionCap EXCEPT ![task[h].id] =
                             IF task[h].kind = "version" THEN task[h].cap - 1
                             ELSE task[h].cap + 1]
    /\ Goto(h, IF task[h].kind = "version" THEN "block_cap" ELSE "list")
    /\ UNCHANGED <<apps, appCap, blockCaps, authority, buckets, history, faults>>

\* create_application_version: version_list + [v], which inserts a row.
AppendVersion(h) ==
    /\ At(h, "version", "append")
    /\ LET i == task[h].id
       IN  apps' = [apps EXCEPT ![i] = [Upsert(i) EXCEPT !.versions = @ \cup {task[h].version}]]
    /\ Return(h)
    /\ UNCHANGED <<appCap, versionCap, blockCaps, authority, buckets, history, faults>>

\* delete_application_version: version_list - [v], which inserts none.
DeleteVersion(h) ==
    /\ At(h, "remove", "list")
    /\ LET i == task[h].id
       IN  apps' = IF i \in Rows
                   THEN [apps EXCEPT ![i].versions = @ \ {task[h].version}] ELSE apps
    /\ Return(h)
    /\ UNCHANGED <<appCap, versionCap, blockCaps, authority, buckets, history, faults>>

\* update_application_active_version, which inserts a row.
UpdateActiveVersion(h) ==
    /\ At(h, "activate", "active")
    /\ LET i == task[h].id
       IN  apps' = [apps EXCEPT ![i] = [Upsert(i) EXCEPT !.active = task[h].version]]
    /\ Return(h)
    /\ UNCHANGED <<appCap, versionCap, blockCaps, authority, buckets, history, faults>>

-----------------------------------------------------------------------------
(* handle_delete_application *)

BeginDelete(h, u, i) ==
    /\ i \in OwnedBy(u)
    /\ deleting' = deleting \cup {i}
    /\ Begin(h, "delete", "check", u, i, Nobody, Nobody)
    /\ UNCHANGED maker

\* check_authority_writable.
CheckAuthority(h) ==
    /\ At(h, "delete", "check")
    /\ IF <<task[h].user, task[h].id>> \in authority THEN Goto(h, "cap") ELSE Return(h)
    /\ UNCHANGED <<tables, history, faults>>

ReadAppCapToRefund(h) ==
    /\ At(h, "delete", "cap")
    /\ GotoWith(h, "refund", appCap[task[h].user])
    /\ UNCHANGED <<tables, history, faults>>

RefundApp(h) ==
    /\ At(h, "delete", "refund")
    /\ appCap' = [appCap EXCEPT ![task[h].user] = task[h].cap + 1]
    /\ Goto(h, "authority")
    /\ UNCHANGED <<apps, versionCap, blockCaps, authority, buckets, history, faults>>

\* Wrong variant: the DELETE looks at the user only, as the one of the caps.
DeleteAllAuthority(h) ==
    /\ At(h, "delete", "authority")
    /\ authority' = {a \in authority : a[1] # task[h].user}
    /\ Goto(h, "version_caps")
    /\ UNCHANGED <<apps, appCap, versionCap, blockCaps, buckets, history, faults>>

\* delete_authority.
DeleteAuthority(h) ==
    /\ At(h, "delete", "authority")
    /\ authority' = authority \ {<<task[h].user, task[h].id>>}
    /\ Goto(h, "version_caps")
    /\ UNCHANGED <<apps, appCap, versionCap, blockCaps, buckets, history, faults>>

\* DeleteAllUsageCap of the sentinel-server: the caps of every application of
\* the user, those of versions first.
DeleteVersionCaps(h) ==
    /\ At(h, "delete", "version_caps")
    /\ versionCap' = [i \in Ids |-> IF maker[i] = task[h].user THEN NoCap ELSE versionCap[i]]
    /\ Goto(h, "block_caps")
    /\ UNCHANGED <<apps, appCap, blockCaps, authority, buckets, history, faults>>

\* Wrong variant: the DELETE has no condition on the user.
DeleteBlockCapsOfAll(h) ==
    /\ At(h, "delete", "block_caps")
    /\ blockCaps' = [i \in Ids |-> [v \in Versions |-> 0]]
    /\ Goto(h, "read")
    /\ UNCHANGED <<apps, appCap, versionCap, authority, buckets, history, faults>>

DeleteBlockCaps(h) ==
    /\ At(h, "delete", "block_caps")
    /\ blockCaps' = [i \in Ids |-> IF maker[i] = task[h].user THEN [v \in Versions |-> 0]
                                   ELSE blockCaps[i]]
    /\ Goto(h, "read")
    /\ UNCHANGED <<apps, appCap, versionCap, authority, buckets, history, faults>>

\* read_application_by_id, for the name of the bucket: no row ends the request,
\* a row with nulls panics.
ReadRow(h) ==
    /\ At(h, "delete", "read")
    /\ LET i == task[h].id
       IN  IF i \in Rows /\ apps[i].name # Nobody
           THEN task' = [task EXCEPT ![h].name = apps[i].name, ![h].step = "row"]
           ELSE Return(h)
    /\ UNCHANGED <<tables, history, faults>>

\* delete_application.
DeleteRow(h) ==
    /\ At(h, "delete", "row")
    /\ apps' = [apps EXCEPT ![task[h].id] = NoApp]
    /\ Goto(h, "bucket")
    /\ UNCHANGED <<appCap, versionCap, blockCaps, authority, buckets, history, faults>>

\* delete_bucket, with what it holds.
DeleteBucket(h) ==
    /\ At(h, "delete", "bucket")
    /\ buckets' = buckets \ {task[h].name}
    /\ Return(h)
    /\ UNCHANGED <<apps, appCap, versionCap, blockCaps, authority, history, faults>>

-----------------------------------------------------------------------------

\* A call fails and ends the request, or the main-server dies, the handler
\* panics or is dropped: nothing is undone.
Stops(h) ==
    /\ Working(h)
    /\ Fault
    /\ Return(h)
    /\ UNCHANGED <<tables, history>>

\* The sentinel-server answers the write of a cap with an error: the handlers
\* take every answer for a success (Ok(_) => ()) and go on.
CapRefused(h) ==
    /\ Fault
    /\ \/ At(h, "create", "charge") /\ Goto(h, "insert")
       \/ At(h, "version", "charge") /\ Goto(h, "block_cap")
       \/ At(h, "remove", "charge") /\ Goto(h, "list")
       \/ At(h, "delete", "refund") /\ Goto(h, "authority")
    /\ UNCHANGED <<tables, history>>

CreateStep(h) ==
    \/ ReadAppCap(h) \/ CheckName(h) \/ ChargeApp(h) \/ InsertRow(h) \/ CreateAuthority(h)
    \/ CreateVersionCap(h) \/ CreateBlockCap(h) \/ CreateBucket(h)

VersionStep(h) ==
    \/ ReadVersionCap(h) \/ ChargeVersion(h) \/ AppendVersion(h)
    \/ DeleteVersion(h) \/ UpdateActiveVersion(h)

DeleteStep(h) ==
    \/ CheckAuthority(h) \/ ReadAppCapToRefund(h) \/ RefundApp(h) \/ DeleteAuthority(h)
    \/ DeleteVersionCaps(h) \/ DeleteBlockCaps(h) \/ ReadRow(h) \/ DeleteRow(h)
    \/ DeleteBucket(h)

Next ==
    \E h \in Handlers :
        \/ \E u \in Users, i \in Ids, n \in Names : BeginCreate(h, u, i, n)
        \/ \E u \in Users, i \in Ids, v \in Versions : BeginVersion(h, u, i, v)
        \/ \E u \in Users, i \in Ids, v \in Versions : BeginRemove(h, u, i, v)
        \/ \E u \in Users, i \in Ids, v \in Versions : BeginActivate(h, u, i, v)
        \/ \E u \in Users, i \in Ids : BeginDelete(h, u, i)
        \/ CreateStep(h)
        \/ VersionStep(h)
        \/ DeleteStep(h)
        \/ CheckNameFails(h)
        \/ Stops(h)
        \/ CapRefused(h)

Spec == Init /\ [][Next]_vars

-----------------------------------------------------------------------------
(* Properties *)

Steps == {"cap", "name", "charge", "insert", "authority", "version_cap", "block_cap",
          "bucket", "append", "list", "active", "check", "refund", "version_caps",
          "block_caps", "read", "row"}
Task(kinds, names, versions) ==
    [kind : kinds, step : Steps, user : Users, id : Ids, name : names, version : versions,
     cap : Int]
Tasks == {Idle} \cup Task({"create"}, Names, {FirstVersion})
                \cup Task({"version", "remove", "activate"}, {Nobody}, Versions)
                \cup Task({"delete"}, Names \cup {Nobody}, {Nobody})
Row == [owner : Users \cup {Nobody}, name : Names \cup {Nobody},
        versions : SUBSET Versions, active : Versions \cup {Nobody}]

\* Type invariant.
TypeOK ==
    /\ apps \in [Ids -> Row \cup {NoApp}]
    /\ appCap \in [Users -> Int]
    /\ versionCap \in [Ids -> Int]
    /\ blockCaps \in [Ids -> [Versions -> Nat]]
    /\ authority \subseteq Users \X Ids
    /\ buckets \subseteq Names
    /\ task \in [Handlers -> Tasks]
    /\ maker \in [Ids -> Users \cup {Nobody}]
    /\ created \subseteq Ids /\ deleting \subseteq Ids
    /\ requests \in Nat /\ faults \in Nat
    /\ overlap \in BOOLEAN

\* The users who began to delete one of their applications.
Purgers == {maker[i] : i \in deleting}
Sequential == ~ overlap /\ faults = 0 /\ Busy = {}

\* Whatever requests interleave and fail, an application whose creation was
\* reported and that nobody began to delete keeps its owner's authority, so its
\* owner can still write and delete it.
WriterExists == \A i \in created \ deleting : <<maker[i], i>> \in authority

\* Whatever requests interleave and fail, every version in the list of such an
\* application has a cap of its blocks, written before the list is, so blocks
\* can be created in it (without the row handle_create_block always fails) --
\* as long as its owner has deleted no application: the deletion of one takes
\* the caps of all.
VersionsUsable ==
    \A i \in created : maker[i] \notin Purgers =>
        \A v \in apps[i].versions : blockCaps[i][v] > 0

\* With requests one at a time the caps count the rows: what a creation charges
\* its deletion gives back, and a refused creation is free.
CapsCount ==
    Sequential =>
        /\ \A u \in Users : appCap[u] + Cardinality(OwnedBy(u)) = AppTier
        /\ \A i \in Rows : versionCap[i] # NoCap =>
              versionCap[i] + Cardinality(apps[i].versions) = VersionTier

\* With requests one at a time an application that is not there, be it deleted
\* or refused, leaves no authority, no cap and no bucket behind.
NothingLeft ==
    Sequential =>
        /\ \A i \in Ids \ Rows :
              /\ \A u \in Users : <<u, i>> \notin authority
              /\ versionCap[i] = NoCap
              /\ \A v \in Versions : blockCaps[i][v] = 0
        /\ buckets = {apps[i].name : i \in Rows}

\* With requests one at a time no two applications share a name, which is the
\* name of their bucket and their domain.
NamesUnique ==
    Sequential => \A i, j \in Rows : apps[i].name = apps[j].name => i = j

\* With requests one at a time, even failing ones, the active version is in
\* the list, and no row is one that an UPDATE made after the deletion.
ActiveListed ==
    ~ overlap => \A i \in Rows :
        apps[i] # Ghost /\ apps[i].active \in apps[i].versions

\* The caps and the active version fit the lists of applications and versions.
ListsCounted == CapsCount /\ ActiveListed

\* A name is of one application, and nothing outlives it.
NothingOutlives == NamesUnique /\ NothingLeft
=============================================================================

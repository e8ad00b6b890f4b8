---------------------------- MODULE BlockCreator -----------------------------
(***************************************************************************)
(* The form that creates a block (BlockCreatorScreen.tsx) and the saga     *)
(* behind its button: the row, a template and the configuration are made   *)
(* by requests of their own, the version they are for is read twice, and   *)
(* the upload of the configuration is not waited for.                      *)
(*                                                                         *)
(* A loading modal is drawn over the form, but the fields and the button   *)
(* below it keep the keyboard: the form can be edited and submitted again  *)
(* while a creation is under way, and every click runs a callback of its   *)
(* own with what the form held then.  Types, frameworks and the cross are  *)
(* no buttons and take the mouse only.                                     *)
(*                                                                         *)
(* Rows are BlockRows; others delete blocks and activate versions          *)
(* meanwhile.  The prime domain's checkbox is left out.                    *)
(***************************************************************************)
EXTENDS Modals, Naturals

CONSTANTS
    Blocks, Statuses,
    Versions,       \* versions of the application
    Types,          \* BLOCK_TYPE_*
    Frameworks,     \* the frameworks offered for each type
    DefaultPort,    \* the port of each framework
    Ports,          \* what a user types as port; 0 is an empty field
    FirstType,      \* BLOCK_TYPE_SERVER
    FirstPort,      \* 8080
    Sagas,          \* the clicks on Create: each is a run of handleCreateBlock
    MaxChanges,     \* bound: what others do to the server
    MaxFaults       \* bound: requests that fail

AllFrameworks == UNION {Frameworks[t] : t \in Types}

CreatorAssumption ==
    /\ {"ready", "pending"} \subseteq Statuses
    /\ {"unborn", "deleted"} \cap Statuses = {}
    /\ FirstType \in Types /\ FirstPort \in Ports
    /\ Frameworks \in [Types -> SUBSET AllFrameworks] /\ "none" \notin AllFrameworks
    /\ DefaultPort \in [AllFrameworks -> Ports \ {0}]
    /\ Ports \subseteq Nat
    /\ {MaxChanges, MaxFaults} \subseteq Nat

VARIABLES
    row,        \* the server: status column
    home,       \* the server: version of each row
    active,     \* the server: active_version
    template,   \* storage: the templates copied to each block, and to which version
    config,     \* storage: luidium-config.json of each block
    puts,       \* uploads of a configuration on their way
    builds,     \* requests to build and run on their way
    form,       \* what the fields hold, empty while the screen is not mounted
    modals,     \* "creator" and the loading modal "creating"
    saga,       \* where each run of handleCreateBlock is, or NoSaga
    changes, faults,    \* history: for the bounds
    switched,   \* history: blocks during whose creation another version was activated
    bare        \* history: blocks whose creation, or whose upload, failed

server == <<row, home, active, template, config>>
net == <<puts, builds>>
history == <<switched, bare>>
vars == <<server, net, form, modals, saga, changes, faults, history>>

Rows == INSTANCE BlockRows

\* What the closure of a click keeps: framework and port; and whether the
\* screen it was made in is still the one that is mounted.
NoSaga == [at |-> "idle", block |-> "none", version |-> "none", copyTo |-> "none",
           framework |-> "none", port |-> 0, here |-> FALSE]
Ended == [NoSaga EXCEPT !.at = "done"]
NoConfig == [version |-> "none", framework |-> "none", port |-> 0]
\* filled: a name of the pattern and a description.
EmptyForm == [type |-> FirstType, framework |-> "none", port |-> FirstPort, filled |-> FALSE]

\* The blocks being created.
Creating == {saga[s].block : s \in Sagas} \cap Blocks

Init ==
    /\ row = [b \in Blocks |-> "unborn"]
    /\ home = [b \in Blocks |-> "none"]
    /\ active \in Versions
    /\ template = [b \in Blocks |-> {}]
    /\ config = [b \in Blocks |-> NoConfig]
    /\ puts = {}
    /\ builds = {}
    /\ form = EmptyForm
    /\ modals = <<>>
    /\ saga = [s \in Sagas |-> NoSaga]
    /\ changes = 0
    /\ faults = 0
    /\ switched = {}
    /\ bare = {}

-----------------------------------------------------------------------------
(* The server, by others *)

Others == changes < MaxChanges /\ changes' = changes + 1

\* The status, which deployments change too, is not read here.
RowChanges(b) ==
    /\ Others
    /\ Rows!Delete(b)
    /\ UNCHANGED <<home, active, template, config, net, form, modals, saga, faults, history>>

ActivateVersion(v) ==
    /\ Others
    /\ v # active
    /\ active' = v
    /\ switched' = switched \cup Creating
    /\ UNCHANGED <<row, home, template, config, net, form, modals, saga, faults, bare>>

-----------------------------------------------------------------------------
(* The form *)

\* By mouse what lies on top is reached, by keyboard whatever is mounted.
Pointed == Top(modals) = "creator"
Mounted == IsOpen(modals, "creator")

Edited(f) ==
    /\ form' = f
    /\ UNCHANGED <<server, net, modals, saga, changes, faults, history>>

\* The screen goes, with its fields and its loading modal; a run that still
\* awaits goes on, one that has thrown is gone.
Unmount ==
    /\ modals' = Closed(modals, {"creator", "creating"})
    /\ form' = EmptyForm
    /\ saga' = [s \in Sagas |-> IF saga[s].at = "thrown" THEN Ended
                                ELSE [saga[s] EXCEPT !.here = FALSE]]

\* "Create new block": the screen is mounted, its form is empty.
ClickCreator ==
    /\ Top(modals) = "page"
    /\ modals' = Opened(modals, "creator")
    /\ UNCHANGED <<server, net, form, saga, changes, faults, history>>

\* The cross closes it without asking.
ClickClose ==
    /\ Pointed
    /\ Unmount
    /\ UNCHANGED <<server, net, changes, faults, history>>

\* The framework of the other type is given up.
ClickType(t) == Pointed /\ Edited([form EXCEPT !.type = t, !.framework = "none"])

\* The chosen one is given up; another one brings its port.
ClickFramework(f) ==
    /\ Pointed
    /\ f \in Frameworks[form.type]
    /\ Edited(IF form.framework = f THEN [form EXCEPT !.framework = "none"]
              ELSE [form EXCEPT !.framework = f, !.port = DefaultPort[f]])

\* The field is disabled while a framework is chosen.
TypePort(p) == Mounted /\ form.framework = "none" /\ Edited([form EXCEPT !.port = p])
\* The name and the description.
TypeText(given) == Mounted /\ Edited([form EXCEPT !.filled = given])

\* When the button Create is enabled.
Complete == form.filled /\ form.port # 0

-----------------------------------------------------------------------------
(* handleCreateBlock *)

At(s, step) == saga[s].at = step
Goto(s, step) == saga' = [saga EXCEPT ![s].at = step]
\* The callback ends there; nobody sees it if its screen is gone.
Throw(s) == saga' = [saga EXCEPT ![s] = IF @.here THEN [@ EXCEPT !.at = "thrown"] ELSE Ended]

\* By mouse, or by Enter on the button that kept the focus: one more run.
ClickCreate ==
    /\ Mounted /\ Complete
    /\ \E s \in Sagas : At(s, "idle")
    /\ LET free == CHOOSE s \in Sagas : At(s, "idle")
       IN  saga' = [saga EXCEPT ![free] =
               [NoSaga EXCEPT !.at = "application", !.here = TRUE,
                              !.framework = form.framework, !.port = form.port]]
    /\ modals' = Opened(modals, "creating")
    /\ UNCHANGED <<server, net, form, changes, faults, history>>

ReadApplication(s) ==
    /\ At(s, "application")
    /\ saga' = [saga EXCEPT ![s].at = "create", ![s].version = active]
    /\ UNCHANGED <<server, net, form, modals, changes, faults, history>>

\* createBlock: the main-server inserts a row with a new id.
CreateRow(s, b) ==
    /\ At(s, "create")
    /\ Rows!Insert(b)
    /\ home' = [home EXCEPT ![b] = saga[s].version]
    /\ saga' = [saga EXCEPT ![s].at = "wait", ![s].block = b]
    /\ switched' = IF active = saga[s].version THEN switched ELSE switched \cup {b}
    /\ UNCHANGED <<active, template, config, net, form, modals, changes, faults, bare>>

\* It refuses (the name, the cap): a toast, and the form of this screen is
\* back, whatever else is under way.  Wrong variant: closeLoadingModal is left
\* out.
CreateRefusedCovered(s) ==
    /\ At(s, "create")
    /\ saga' = [saga EXCEPT ![s] = Ended]
    /\ UNCHANGED <<server, net, form, modals, changes, faults, history>>
CreateRefused(s) ==
    /\ At(s, "create")
    /\ saga' = [saga EXCEPT ![s] = Ended]
    /\ modals' = IF saga[s].here THEN Closed(modals, {"creating"}) ELSE modals
    /\ UNCHANGED <<server, net, form, changes, faults, history>>

\* Five seconds later the row is read; a row deleted meanwhile gives an answer
\* without content, on which the callback throws.
ReadBlock(s) ==
    /\ At(s, "wait")
    /\ IF Rows!Exists(saga[s].block)
       THEN Goto(s, IF saga[s].framework = "none" THEN "config" ELSE "template") /\ UNCHANGED bare
       ELSE Throw(s) /\ bare' = bare \cup {saga[s].block}
    /\ UNCHANGED <<server, net, form, modals, changes, faults, switched>>

\* handleCopyFromTemplate reads the application again.
ReadAgain(s) ==
    /\ At(s, "template")
    /\ saga' = [saga EXCEPT ![s].at = "copy", ![s].copyTo = active]
    /\ UNCHANGED <<server, net, form, modals, changes, faults, history>>

CopyTemplate(s) ==
    /\ At(s, "copy")
    /\ template' = [template EXCEPT ![saga[s].block] =
           @ \cup {[version |-> saga[s].copyTo, framework |-> saga[s].framework]}]
    /\ Goto(s, "config")
    /\ UNCHANGED <<row, home, active, config, net, form, modals, changes, faults, history>>

Fault == faults < MaxFaults /\ faults' = faults + 1

\* copyTemplate catches its errors.
CopyFails(s) ==
    /\ At(s, "copy")
    /\ Fault
    /\ Goto(s, "config")
    /\ UNCHANGED <<server, net, form, modals, changes, history>>

\* The upload is sent and not awaited, nor is the request to build and run;
\* the list is refreshed and the screen closed, even one that was mounted
\* since.
ConfigureFor(s, v, p) ==
    /\ At(s, "config")
    /\ puts' = puts \cup {[block |-> saga[s].block, version |-> v,
                           framework |-> saga[s].framework, port |-> p]}
    /\ builds' = builds \cup {saga[s].block}
    /\ modals' = Closed(modals, {"creator", "creating"})
    /\ form' = EmptyForm
    /\ saga' = [r \in Sagas |-> IF r = s \/ saga[r].at = "thrown" THEN Ended
                                ELSE [saga[r] EXCEPT !.here = FALSE]]
    /\ UNCHANGED <<server, changes, faults, history>>
\* Wrong variant: the port is read from the fields, not from the closure.
ConfigureFromForm(s) == ConfigureFor(s, saga[s].version, form.port)
Configure(s) == ConfigureFor(s, saga[s].version, saga[s].port)

\* A request rejects outside any try: the callback ends, the modal stays.
SagaFails(s) ==
    /\ saga[s].at \in {"application", "create", "wait", "template"}
    /\ Fault
    /\ Throw(s)
    /\ bare' = bare \cup ({saga[s].block} \cap Blocks)
    /\ UNCHANGED <<server, net, form, modals, changes, switched>>

\* The page is loaded again.
Reload ==
    /\ Others
    /\ modals' = <<>>
    /\ form' = EmptyForm
    /\ saga' = [s \in Sagas |-> IF saga[s].at = "idle" THEN NoSaga ELSE Ended]
    /\ bare' = bare \cup Creating
    /\ UNCHANGED <<server, net, faults, switched>>

-----------------------------------------------------------------------------
(* What was sent and not awaited *)

PutArrives(p) ==
    /\ config' = [config EXCEPT ![p.block] =
           [version |-> p.version, framework |-> p.framework, port |-> p.port]]
    /\ puts' = puts \ {p}
    /\ UNCHANGED <<row, home, active, template, builds, form, modals, saga, changes, faults, history>>

PutLost(p) ==
    /\ Fault
    /\ puts' = puts \ {p}
    /\ bare' = bare \cup {p.block}
    /\ UNCHANGED <<server, builds, form, modals, saga, changes, switched>>

BuildArrives(b) ==
    /\ builds' = builds \ {b}
    /\ IF Rows!Exists(b) THEN Rows!Report(b, "pending") ELSE UNCHANGED row
    /\ UNCHANGED <<home, active, template, config, puts, form, modals, saga, changes, faults, history>>

UserStep ==
    \/ ClickCreator \/ ClickClose \/ ClickCreate \/ Reload
    \/ \E t \in Types : ClickType(t)
    \/ \E f \in AllFrameworks : ClickFramework(f)
    \/ \E p \in Ports : TypePort(p)
    \/ \E given \in BOOLEAN : TypeText(given)

SagaStep(s) ==
    \/ ReadApplication(s) \/ (\E b \in Blocks : CreateRow(s, b)) \/ CreateRefused(s)
    \/ ReadBlock(s) \/ ReadAgain(s) \/ CopyTemplate(s) \/ Configure(s)

\* What happens by itself: the callbacks and the requests go on.
Progress ==
    \/ \E s \in Sagas : SagaStep(s)
    \/ \E p \in puts : PutArrives(p)
    \/ \E b \in builds : BuildArrives(b)

Next ==
    \/ UserStep
    \/ Progress
    \/ \E s \in Sagas : SagaFails(s) \/ CopyFails(s)
    \/ \E p \in puts : PutLost(p)
    \/ \E b \in Blocks : RowChanges(b)
    \/ \E v \in Versions : ActivateVersion(v)

Spec == Init /\ [][Next]_vars

\* Requests that do not fail are answered.
FairSpec == Spec /\ WF_vars(Progress)

-----------------------------------------------------------------------------
(* Properties *)

Chosen == AllFrameworks \cup {"none"}
Runs == [at : {"idle", "application", "create", "wait", "template", "copy", "config",
               "thrown", "done"},
         block : Blocks \cup {"none"}, version : Versions \cup {"none"},
         copyTo : Versions \cup {"none"}, framework : Chosen, port : Ports \cup {0},
         here : BOOLEAN]

\* Type invariant of the form, the runs and what is on its way.
TypeOK ==
    /\ row \in [Blocks -> Statuses \cup {"unborn", "deleted"}]
    /\ home \in [Blocks -> Versions \cup {"none"}]
    /\ active \in Versions
    /\ template \in [Blocks -> SUBSET [version : Versions, framework : AllFrameworks]]
    /\ config \in [Blocks -> [version : Versions, framework : Chosen, port : Ports]
                             \cup {NoConfig}]
    /\ puts \subseteq [block : Blocks, version : Versions, framework : Chosen, port : Ports]
    /\ builds \subseteq Blocks
    /\ form \in [type : Types, framework : Chosen, port : Ports, filled : BOOLEAN]
    /\ modals \in ModalStacks({"creator", "creating"})
    /\ saga \in [Sagas -> Runs]
    /\ changes \in 0..MaxChanges /\ faults \in 0..MaxFaults
    /\ switched \subseteq Blocks /\ bare \subseteq Blocks

\* A framework that is chosen, by the form, the run of a click or a stored
\* configuration, has its own port: the block made from a template exposes the
\* port the template listens on.
Fits(c) == c.framework # "none" => c.port = DefaultPort[c.framework]

\* A chosen framework is one of the chosen type, whatever was clicked and typed
\* before; and a template lies only below a configuration of its framework, or
\* that is still to come.  The fields may change, and a second click may start,
\* while a creation is under way: each is made of what its own click submitted.
TemplateFits ==
    /\ form.framework # "none" => form.framework \in Frameworks[form.type]
    /\ Fits(form)
    /\ \A b \in Blocks :
           config[b] # NoConfig =>
               /\ Fits(config[b])
               /\ \A t \in template[b] : t.framework = config[b].framework

\* A row, its template and its configuration are all of one version, although
\* the active version is read twice; only an activation during the creation
\* sends the template elsewhere.
OneVersion ==
    \A b \in Blocks :
        /\ config[b] # NoConfig => config[b].version = home[b] /\ config[b].port # 0
        /\ \A p \in puts : p.block = b => p.version = home[b]
        /\ \A t \in template[b] : t.version = home[b] \/ b \in switched

\* A block that is not being created has its configuration, or it is on its
\* way, unless a request of its creation failed or the page was left.
NoBareBlock ==
    \A b \in Blocks :
        Rows!Exists(b) /\ b \notin Creating \cup bare =>
            config[b] # NoConfig \/ \E p \in puts : p.block = b

\* What is created is what its click submitted, of one version and whole, for
\* any number of clicks that overlap.
CreatedWhole == TemplateFits /\ OneVersion /\ NoBareBlock

\* The modal over the form, and the failure of a request that keeps it there.
Covered == IsOpen(modals, "creating")
Thrown == \E s \in Sagas : saga[s].at = "thrown"
=============================================================================

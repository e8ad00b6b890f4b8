-------------------------------- MODULE Forge ---------------------------------
(***************************************************************************)
(* The screen of an application's blocks in the web-client (Forge.tsx):    *)
(* the list is polled every two seconds, a click on a settled block opens  *)
(* its browser after a short delay, and the browser's buttons send the     *)
(* commands of the overview and the deletion (BlockBrowser.tsx).           *)
(*                                                                         *)
(* The server is BlockRows, driven by anybody: other windows, the CLI and  *)
(* the builder-server.  A request reads the server when it is sent; its    *)
(* answer arrives later, and answers overtake each other.  One window is   *)
(* modelled; NoList also stands for the list that is not there yet.        *)
(***************************************************************************)
EXTENDS Modals, FiniteSets, Naturals

CONSTANTS
    Blocks, Statuses,
    Unsettled,      \* BLOCK_STATUS_PENDING and BLOCK_STATUS_BUILDING
    Versions,       \* versions of the application
    VersionOf,      \* the version each block belongs to
    Commands,       \* the buttons users press in this instance
    MaxPolls,       \* bound: polls of the interval under way
    MaxChanges,     \* bound: what others do to the server, and reloads
    MaxFaults       \* bound: requests that fail

AllCommands == {"build_and_run", "run", "build", "stop", "delete"}

ASSUME ForgeAssumption ==
    /\ {"ready", "pending", "stopped"} \subseteq Statuses
    /\ Unsettled \subseteq Statuses
    /\ VersionOf \in [Blocks -> Versions]
    /\ Commands \subseteq AllCommands
    /\ {MaxPolls, MaxChanges, MaxFaults} \subseteq Nat

VARIABLES
    row,        \* the server: status column
    active,     \* the server: active_version
    shown,      \* applicationData: the version in the title, or "none"
    list,       \* blocks: status of each block shown, or NoList
    polls,      \* answers on their way to handleGetBlocks
    selected,   \* selectedBlock: a copy of a row, or NoBlock
    timer,      \* is the timeout of handleSelectBlock running?
    modals,     \* the modals of Forge and of the browser that are open
    command,    \* the request of the browser's button, or NoCommand
    changes, faults     \* history: for the bounds

vars == <<row, active, shown, list, polls, selected, timer, modals, command, changes, faults>>
server == <<row, active>>

Rows == INSTANCE BlockRows

NoList == [b \in {} |-> "none"]
NoBlock == [block |-> "none", status |-> "none"]
NoCommand == [op |-> "none", block |-> "none", at |-> "idle"]

\* What /block/read answers for a version.
RowsIn(v) == [b \in {c \in Blocks : Rows!Exists(c) /\ VersionOf[c] = v} |-> row[b]]

\* The answers a poll waits for: of getApplicationInfo, then of the list.
InfoAnswer(v) == [at |-> "info", version |-> v, list |-> NoList]
ApplicationAnswer(v) == [at |-> "application", version |-> v, list |-> NoList]
ListAnswer(v, l) == [at |-> "list", version |-> v, list |-> l]
NewPoll == ApplicationAnswer(active)

Mounted == {InfoAnswer(active), NewPoll}

Init ==
    /\ Rows!Init
    /\ active \in Versions
    /\ shown = "none"
    /\ list = NoList
    /\ polls = Mounted
    /\ selected = NoBlock
    /\ timer = FALSE
    /\ modals = <<>>
    /\ command = NoCommand
    /\ changes = 0
    /\ faults = 0

-----------------------------------------------------------------------------
(* The server, by others *)

Others == changes < MaxChanges /\ changes' = changes + 1

RowChanges ==
    /\ Others
    /\ Rows!Next
    /\ UNCHANGED <<active, shown, list, polls, selected, timer, modals, command, faults>>

ActivateVersion(v) ==
    /\ Others
    /\ active' = v
    /\ UNCHANGED <<row, shown, list, polls, selected, timer, modals, command, faults>>

-----------------------------------------------------------------------------
(* The list *)

\* setInterval(handleGetBlocks, 2000): it does not wait for the last poll.
Interval ==
    /\ Cardinality(polls) < MaxPolls
    /\ polls' = polls \cup {NewPoll}
    /\ UNCHANGED <<server, shown, list, selected, timer, modals, command, changes, faults>>

\* getApplicationInfo called by the effect alone.
DeliverInfo(p) ==
    /\ p.at = "info"
    /\ shown' = p.version
    /\ polls' = polls \ {p}
    /\ UNCHANGED <<server, list, selected, timer, modals, command, changes, faults>>

\* getApplicationInfo: the list is asked for with the version of the answer.
DeliverApplication(p) ==
    /\ p.at = "application"
    /\ shown' = p.version
    /\ polls' = (polls \ {p}) \cup {ListAnswer(p.version, RowsIn(p.version))}
    /\ UNCHANGED <<server, list, selected, timer, modals, command, changes, faults>>

\* setBlocks.  Wrong variant: only the first answer is shown.
DeliverListOnce(p) ==
    /\ p.at = "list"
    /\ list' = IF list = NoList THEN p.list ELSE list
    /\ polls' = polls \ {p}
    /\ UNCHANGED <<server, shown, selected, timer, modals, command, changes, faults>>
DeliverList(p) ==
    /\ p.at = "list"
    /\ list' = p.list
    /\ polls' = polls \ {p}
    /\ UNCHANGED <<server, shown, selected, timer, modals, command, changes, faults>>

Fault == faults < MaxFaults /\ faults' = faults + 1

\* A request rejects: nobody catches it and the state stays.
PollFails(p) ==
    /\ Fault
    /\ polls' = polls \ {p}
    /\ UNCHANGED <<server, shown, list, selected, timer, modals, command, changes>>

-----------------------------------------------------------------------------
(* The user *)

\* handleSelectBlock.  Wrong variant: nothing covers the list meanwhile.
SelectUncovered(b) ==
    /\ Top(modals) = "page"
    /\ b \in DOMAIN list
    /\ selected' = [block |-> b, status |-> list[b]]
    /\ timer' = (timer \/ list[b] \notin Unsettled)
    /\ UNCHANGED <<server, shown, list, polls, modals, command, changes, faults>>
\* Wrong variant: the row is looked at instead of its copy in the list.
SelectLive(b) ==
    /\ Top(modals) = "page"
    /\ b \in DOMAIN list
    /\ selected' = [block |-> b, status |-> row[b]]
    /\ modals' = Opened(modals, "opening")
    /\ timer' = TRUE
    /\ UNCHANGED <<server, shown, list, polls, command, changes, faults>>
Select(b) ==
    /\ Top(modals) = "page"
    /\ b \in DOMAIN list
    /\ selected' = [block |-> b, status |-> list[b]]
    /\ IF list[b] \in Unsettled
       THEN UNCHANGED <<modals, timer>>
       ELSE modals' = Opened(modals, "opening") /\ timer' = TRUE
    /\ UNCHANGED <<server, shown, list, polls, command, changes, faults>>

\* After 1.4 seconds the browser opens on the block selected.
OpenBrowser ==
    /\ timer
    /\ timer' = FALSE
    /\ modals' = Closed(Opened(modals, "browser"), {"opening"})
    /\ UNCHANGED <<server, shown, list, polls, selected, command, changes, faults>>

BrowserModals == {"browser", "confirm", "loading"}

\* handleCloseBrowserModal: the browser goes and the list is asked for.
CloseBrowser ==
    /\ modals' = Closed(modals, BrowserModals)
    /\ polls' = polls \cup {NewPoll}

ClickClose ==
    /\ Top(modals) = "browser"
    /\ modals' = Opened(modals, "confirm")
    /\ UNCHANGED <<server, shown, list, polls, selected, timer, command, changes, faults>>

\* The dialog "Are you sure you want to close?".
ConfirmClose ==
    /\ Top(modals) = "confirm"
    /\ CloseBrowser
    /\ UNCHANGED <<server, shown, list, selected, timer, command, changes, faults>>

CancelClose ==
    /\ Top(modals) = "confirm"
    /\ modals' = Closed(modals, {"confirm"})
    /\ UNCHANGED <<server, shown, list, polls, selected, timer, command, changes, faults>>

\* A button of the overview, or Delete Block once confirmed.  Stop is disabled
\* on a stopped block.
Click(op) ==
    /\ Top(modals) = "browser"
    /\ op = "stop" => selected.status # "stopped"
    /\ command' = [op |-> op, block |-> selected.block, at |-> "sent"]
    /\ modals' = Opened(modals, "loading")
    /\ UNCHANGED <<server, shown, list, polls, selected, timer, changes, faults>>

\* The main-server handles the request.  A deployment writes "pending"; without
\* a row its handler panics and the connection drops.  A stop writes nothing.
\* The deletion fails when others were first, and its client catches that.
Serve ==
    /\ command.at = "sent"
    /\ LET b == command.block
           here == Rows!Exists(b)
       IN  /\ command' = [command EXCEPT !.at =
                  IF here \/ command.op = "delete" THEN "answered" ELSE "thrown"]
           /\ CASE command.op = "delete" /\ here -> Rows!Delete(b)
                [] command.op \in AllCommands \ {"stop", "delete"} /\ here ->
                       Rows!Report(b, "pending")
                [] OTHER -> UNCHANGED row
    /\ UNCHANGED <<active, shown, list, polls, selected, timer, modals, changes, faults>>

\* The request fails: only handleDeleteBlock goes on, in its finally.
CommandFails ==
    /\ command.at = "sent"
    /\ Fault
    /\ command' = [command EXCEPT !.at = IF command.op = "delete" THEN "answered" ELSE "thrown"]
    /\ UNCHANGED <<server, shown, list, polls, selected, timer, modals, changes>>

\* The answer arrives: closeLoadingModal, close.  Wrong variant: the modal of
\* the browser alone is closed.
DeliverKeepsLoading ==
    /\ command.at = "answered"
    /\ command' = NoCommand
    /\ polls' = polls \cup {NewPoll}
    /\ UNCHANGED <<server, shown, list, selected, timer, modals, changes, faults>>
Deliver ==
    /\ command.at = "answered"
    /\ command' = NoCommand
    /\ CloseBrowser
    /\ UNCHANGED <<server, shown, list, selected, timer, changes, faults>>

\* The page is loaded again, the way out of a modal that stays.
Reload ==
    /\ Others
    /\ shown' = "none"
    /\ list' = NoList
    /\ polls' = Mounted
    /\ selected' = NoBlock
    /\ timer' = FALSE
    /\ modals' = <<>>
    /\ command' = NoCommand
    /\ UNCHANGED <<server, faults>>

UserStep ==
    \/ \E b \in Blocks : Select(b)
    \/ \E op \in Commands : Click(op)
    \/ ClickClose \/ ConfirmClose \/ CancelClose \/ Reload

Next ==
    \/ RowChanges
    \/ \E v \in Versions : ActivateVersion(v)
    \/ Interval
    \/ \E p \in polls : DeliverInfo(p) \/ DeliverApplication(p) \/ DeliverList(p) \/ PollFails(p)
    \/ OpenBrowser
    \/ Serve \/ CommandFails \/ Deliver
    \/ UserStep

Spec == Init /\ [][Next]_vars

\* Timers fire, and requests that do not fail are answered.
Fairness ==
    /\ WF_vars(Interval)
    /\ WF_vars(\E p \in polls : DeliverInfo(p) \/ DeliverApplication(p))
    /\ WF_vars(\E p \in polls : DeliverList(p))
    /\ WF_vars(OpenBrowser)
    /\ WF_vars(Serve \/ Deliver)

FairSpec == Spec /\ Fairness

-----------------------------------------------------------------------------
(* Properties *)

Lists == UNION {[bs -> Statuses] : bs \in SUBSET Blocks}

\* Type invariant of the window and of the requests under way.
TypeOK ==
    /\ row \in [Blocks -> Statuses \cup {"unborn", "deleted"}]
    /\ active \in Versions
    /\ shown \in Versions \cup {"none"}
    /\ list \in Lists
    /\ polls \subseteq [at : {"info", "application", "list"}, version : Versions, list : Lists]
    /\ selected \in [block : Blocks, status : Statuses] \cup {NoBlock}
    /\ timer \in BOOLEAN
    /\ modals \in ModalStacks(BrowserModals \cup {"opening"})
    /\ command \in [op : AllCommands, block : Blocks, at : {"sent", "answered", "thrown"}]
                     \cup {NoCommand}
    /\ changes \in 0..MaxChanges
    /\ faults \in 0..MaxFaults

\* The browser never stands open on a block that the list showed as pending or
\* building when it was clicked, although the selection is written before the
\* status is looked at (Forge.tsx:63-70) and the browser opens only 1.4 seconds
\* later on whatever is selected then.
BrowserOnSettled ==
    IsOpen(modals, "browser") => selected.status \in Statuses \ Unsettled

\* When the server stops changing, the title and the list end up at its active
\* version and its rows, whatever order the answers of overlapping polls come
\* in and whichever requests fail.
ListConverges ==
    <>[][FALSE]_<<row, active, changes, faults>>
        => <>[](shown = active /\ list = RowsIn(active))

\* A modal that waits for something goes away, unless the request behind it
\* failed: then it stays until the page is loaded again.
OverlaysEnd ==
    /\ IsOpen(modals, "opening") ~> ~ IsOpen(modals, "opening")
    /\ IsOpen(modals, "loading") ~> ~ IsOpen(modals, "loading") \/ command.at = "thrown"
=============================================================================

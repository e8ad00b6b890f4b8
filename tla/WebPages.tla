------------------------------ MODULE WebPages -------------------------------
(***************************************************************************)
(* The pages of the web-client that share no state.  A browser tab shows   *)
(* one of them, and the variables of the others are idle: each page is     *)
(* explored by itself.  Variables of one name stand for the page that is   *)
(* shown; constants are explained in the modules of the pages.             *)
(***************************************************************************)
EXTENDS Naturals

CONSTANTS
    \* BlockCreator
    Blocks, Statuses, AppVersions, Types, Frameworks, DefaultPort, Ports,
    FirstType, FirstPort, Sagas, MaxChanges, MaxFaults,
    \* BlockFiles
    FileBlocks, Me, Extending, FileNames, Vars, Mounts, FirstFiles, Uploads,
    Calls, MaxFileEvents,
    \* FileTree
    Parts, RootName, Inherited, Paths, MaxPaths,
    \* Accounts
    Emails, Tokens, CliTokens, MaxAccountEvents,
    \* Dashboard
    TypedNames, NameOf, FirstApps, MaxDashboardEvents,
    \* Versions
    Windows, Valid, FirstVersion, Tier, MaxVersionEvents

VARIABLES
    tab,    \* the page
    row, home, active, template, builds, saga, changes, faults, switched, bare,
    files, tree, conf, text, activeTab, answers, calls, wanted, late, rushed, missed,
    listing, path, part, items, met, folders, phase,
    users, caps, sessions, cliTokens, cookie, page, stage, registers, logins,
    tokens, tokenCall, free, racing, uncapped, ended,
    apps, listed, marked, people, peopleReads, deleting, name, filled,
    available, creating, changed, found,
    app, left, shown, field, checked, call, screens, leftover,
    config, puts, form, modals, selected, events, mixed, checks, lists,
    crossed

creatorVars == <<row, home, active, template, builds, saga, changes, faults,
    switched, bare>>
filesVars == <<files, tree, conf, text, activeTab, answers, calls, wanted, late,
    rushed, missed>>
treeVars == <<listing, path, part, items, met, folders, phase>>
accountsVars == <<users, caps, sessions, cliTokens, cookie, page, stage,
    registers, logins, tokens, tokenCall, free, racing, uncapped, ended>>
dashboardVars == <<apps, listed, marked, people, peopleReads, deleting, name,
    filled, available, creating, changed, found>>
versionsVars == <<app, left, shown, field, checked, call, screens, leftover>>
vars == <<tab, creatorVars, filesVars, treeVars, accountsVars, dashboardVars, versionsVars,
          config, puts, form, modals, selected, events, mixed, checks, lists, crossed>>

-----------------------------------------------------------------------------
(* The instances *)

Creator == INSTANCE BlockCreator WITH Versions <- AppVersions
Files == INSTANCE BlockFiles WITH
    Blocks <- FileBlocks, Paths <- FileNames, MaxEvents <- MaxFileEvents
Tree == INSTANCE FileTree
Accounts == INSTANCE Accounts WITH MaxEvents <- MaxAccountEvents
Dashboard == INSTANCE Dashboard WITH Typed <- TypedNames, MaxEvents <- MaxDashboardEvents
Versions == INSTANCE Versions WITH MaxEvents <- MaxVersionEvents, modals <- screens

ASSUME PagesAssumption ==
    /\ Creator!CreatorAssumption /\ Files!FilesAssumption /\ Tree!TreeAssumption
    /\ Accounts!AccountsAssumption /\ Dashboard!DashboardAssumption /\ Versions!VersionsAssumption

-----------------------------------------------------------------------------
(* A page that is not shown *)

CreatorIdle ==
    /\ row = "idle" /\ home = "idle" /\ active = "idle" /\ template = "idle"
    /\ builds = "idle" /\ saga = [s \in Sagas |-> Creator!NoSaga] /\ changes = "idle"
    /\ faults = "idle" /\ switched = "idle" /\ bare = "idle"
FilesIdle ==
    /\ files = "idle" /\ tree = "idle" /\ conf = "idle" /\ text = "idle"
    /\ activeTab = "idle" /\ answers = "idle" /\ calls = [c \in Calls |-> Files!Done]
    /\ wanted = "idle" /\ late = "idle" /\ rushed = "idle" /\ missed = "idle"
TreeIdle ==
    /\ listing = "idle" /\ path = "idle" /\ part = "idle" /\ items = "idle"
    /\ met = "idle" /\ folders = "idle" /\ phase = "idle"
AccountsIdle ==
    /\ users = "idle" /\ caps = "idle" /\ sessions = "idle"
    /\ cliTokens = "idle" /\ cookie = "none" /\ page = "none" /\ stage = "idle"
    /\ registers = {} /\ logins = "idle" /\ tokens = "idle"
    /\ tokenCall = "none" /\ free = "idle" /\ racing = "idle"
    /\ uncapped = "idle" /\ ended = "idle"
DashboardIdle ==
    /\ apps = "idle" /\ listed = "idle" /\ marked = "idle" /\ people = "idle"
    /\ peopleReads = "idle" /\ deleting = "idle" /\ name = "idle"
    /\ filled = "idle" /\ available = "idle" /\ creating = "none"
    /\ changed = "idle" /\ found = "idle"
VersionsIdle ==
    /\ app = "idle" /\ left = "idle" /\ shown = "idle" /\ field = "idle"
    /\ checked = "idle" /\ call = [w \in Windows |-> Versions!Idle]
    /\ screens = [w \in Windows |-> <<>>] /\ leftover = "idle"

Init ==
    \/ /\ tab = "creator" /\ Creator!Init
       /\ FilesIdle /\ TreeIdle /\ AccountsIdle /\ DashboardIdle /\ VersionsIdle
       /\ selected = "idle" /\ events = "idle" /\ mixed = "idle"
       /\ checks = "idle" /\ lists = {} /\ crossed = FALSE
    \/ /\ tab = "files" /\ Files!Init
       /\ CreatorIdle /\ TreeIdle /\ AccountsIdle /\ DashboardIdle /\ VersionsIdle
       /\ form = "idle" /\ checks = "idle" /\ lists = {} /\ crossed = FALSE
    \/ /\ tab = "tree" /\ Tree!Init
       /\ CreatorIdle /\ FilesIdle /\ AccountsIdle /\ DashboardIdle /\ VersionsIdle
       /\ config = "idle" /\ puts = "idle" /\ form = "idle" /\ modals = <<>>
       /\ selected = "idle" /\ events = "idle" /\ mixed = "idle"
       /\ checks = "idle" /\ lists = {} /\ crossed = FALSE
    \/ /\ tab = "accounts" /\ Accounts!Init
       /\ CreatorIdle /\ FilesIdle /\ TreeIdle /\ DashboardIdle /\ VersionsIdle
       /\ config = "idle" /\ puts = "idle" /\ selected = "idle"
       /\ mixed = "idle"
    \/ /\ tab = "dashboard" /\ Dashboard!Init
       /\ CreatorIdle /\ FilesIdle /\ TreeIdle /\ AccountsIdle /\ VersionsIdle
       /\ config = "idle" /\ puts = "idle" /\ form = "idle"
    \/ /\ tab = "versions" /\ Versions!Init
       /\ CreatorIdle /\ FilesIdle /\ TreeIdle /\ AccountsIdle /\ DashboardIdle
       /\ config = "idle" /\ puts = "idle" /\ form = "idle" /\ modals = <<>>
       /\ selected = "idle" /\ mixed = "idle" /\ checks = "idle" /\ lists = {}

\* What the pages that are not shown keep.
CreatorAlone ==
    UNCHANGED <<tab, filesVars, treeVars, accountsVars, dashboardVars, versionsVars,
                selected, events, mixed, checks, lists, crossed>>
FilesAlone ==
    UNCHANGED <<tab, creatorVars, treeVars, accountsVars, dashboardVars, versionsVars,
                form, checks, lists, crossed>>
TreeAlone ==
    UNCHANGED <<tab, creatorVars, filesVars, accountsVars, dashboardVars, versionsVars,
                config, puts, form, modals, selected, events, mixed, checks, lists, crossed>>
AccountsAlone ==
    UNCHANGED <<tab, creatorVars, filesVars, treeVars, dashboardVars, versionsVars,
                config, puts, selected, mixed>>
DashboardAlone ==
    UNCHANGED <<tab, creatorVars, filesVars, treeVars, accountsVars, versionsVars,
                config, puts, form>>
VersionsAlone ==
    UNCHANGED <<tab, creatorVars, filesVars, treeVars, accountsVars, dashboardVars,
                config, puts, form, modals, selected, mixed, checks, lists>>

Next ==
    \/ tab = "creator" /\ Creator!Next /\ CreatorAlone
    \/ tab = "files" /\ Files!Next /\ FilesAlone
    \/ tab = "tree" /\ Tree!Next /\ TreeAlone
    \/ tab = "accounts" /\ Accounts!Next /\ AccountsAlone
    \/ tab = "dashboard" /\ Dashboard!Next /\ DashboardAlone
    \/ tab = "versions" /\ Versions!Next /\ VersionsAlone

Progress ==
    \/ tab = "creator" /\ Creator!Progress /\ CreatorAlone
    \/ tab = "files" /\ Files!Progress /\ FilesAlone
    \/ tab = "accounts" /\ Accounts!Progress /\ AccountsAlone
    \/ tab = "dashboard" /\ Dashboard!Progress /\ DashboardAlone
    \/ tab = "versions" /\ Versions!Progress /\ VersionsAlone

Spec == Init /\ [][Next]_vars

\* A page is shown for good: this is the fairness of the page that is shown.
FairSpec == Spec /\ WF_vars(Progress)

-----------------------------------------------------------------------------
(* The properties of the pages *)

\* Type invariants of the pages.
TypeOK ==
    /\ tab = "creator" => Creator!TypeOK
    /\ tab = "files" => Files!TypeOK
    /\ tab = "tree" => Tree!TypeOK
    /\ tab = "accounts" => Accounts!TypeOK
    /\ tab = "dashboard" => Dashboard!TypeOK
    /\ tab = "versions" => Versions!TypeOK

\* What is created is what its click submitted, of one version and whole.
CreatedWhole == tab = "creator" => Creator!CreatedWhole

\* What the browser of files shows is what the server has, of what was selected.
ViewCurrent == tab = "files" => Files!ViewCurrent

\* No edit and no clearing loses what another one, or another block, has.
FilesKept == tab = "files" => Files!FilesKept

\* The tree of a listing is complete, has nothing twice, and is there.
TreeCorrect == tab = "tree" => Tree!TreeCorrect

\* Only checked registrations are sent, and they leave whole, distinct users.
AccountsSound == tab = "accounts" => Accounts!AccountsSound

\* The page of the application is of the session the browser has.
SessionShown == tab = "accounts" => Accounts!SessionShown

\* What is sent to be created is a name that is not empty and that a check
\* found available, although one flag says so for all names typed: unless two
\* checks overlapped, one did not come back, or Create was clicked before it did.
CreatedChecked == tab = "dashboard" => Dashboard!CreatedChecked

\* The list and the panel of applications show what the server has.
DashboardCurrent == tab = "dashboard" => Dashboard!DashboardCurrent

\* What the windows do to the list of versions keeps it as if there were one
\* window, unless one acted on old data.
VersionsKept == tab = "versions" => Versions!VersionsKept

\* A modal that covers a page while something is under way.
Covered ==
    CASE tab = "creator"   -> Creator!Covered
      [] tab = "files"     -> Files!Covered
      [] tab = "accounts"  -> Accounts!Covered
      [] tab = "dashboard" -> Dashboard!Covered
      [] tab = "versions"  -> \E w \in Windows : Versions!Covered(w)
      [] tab = "tree"      -> FALSE

Thrown ==
    CASE tab = "creator"   -> Creator!Thrown
      [] tab = "files"     -> Files!Thrown
      [] tab = "accounts"  -> Accounts!Thrown
      [] tab = "dashboard" -> Dashboard!Thrown
      [] tab = "versions"  -> \E w \in Windows : Versions!Thrown(w)
      [] tab = "tree"      -> FALSE

\* A modal always goes away again, or a request of the callback that opened it failed:
\* then nothing but a reload takes it away.
OverlaysEnd == []<>(~ Covered \/ Thrown)
=============================================================================

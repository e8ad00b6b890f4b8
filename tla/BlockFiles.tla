------------------------------ MODULE BlockFiles ------------------------------
(***************************************************************************)
(* The tabs Files and Settings of the browser of one block                 *)
(* (BlockBrowser.tsx) against the storage: a set of files per block and    *)
(* its luidium-config.json, which holds a volume binding and environment   *)
(* variables.  The storage lists and clears by a prefix that has no slash  *)
(* at its end, so it reaches every block whose name begins with that of    *)
(* this one.                                                               *)
(*                                                                         *)
(* Uploads are sent and not awaited (service/storage/api.ts); the browser  *)
(* reads again after 1.4 seconds.  An edit of the configuration reads it,  *)
(* changes it and uploads it whole.  A loading modal is drawn over the     *)
(* browser meanwhile, which keeps the mouse away and not the keyboard: the *)
(* buttons of the tab and of the dialogs below it still take Enter, and a  *)
(* second edit can start.  The tabs and the label that uploads are no      *)
(* buttons and take the mouse only.                                        *)
(*                                                                         *)
(* Contents of files, other windows, the tabs Info and Logs and the order  *)
(* of two answers that only show the configuration are left out.           *)
(***************************************************************************)
EXTENDS FiniteSets, Naturals

CONSTANTS
    Blocks,         \* the blocks of the version
    Me,             \* the block the browser shows
    Extending,      \* the blocks whose names begin with the name of Me
    Paths,          \* file names
    Vars,           \* environment variables, "KEY=value"
    Mounts,         \* volume bindings
    FirstFiles,     \* the files of each block at the start
    Uploads,        \* the sets of files a user uploads in this instance
    Calls,          \* callbacks that upload, told apart
    MaxEvents       \* bound: what the user starts or opens, and what fails

FilesAssumption ==
    /\ Me \in Extending /\ Extending \subseteq Blocks
    /\ FirstFiles \in [Blocks -> SUBSET Paths]
    /\ Uploads \subseteq SUBSET Paths \ {{}}
    /\ IsFiniteSet(Blocks) /\ IsFiniteSet(Paths)
    /\ "missing" \notin Mounts
    /\ MaxEvents \in Nat

VARIABLES
    files,      \* storage: the files of each block
    config,     \* storage: luidium-config.json of each block, or Missing
    puts,       \* uploads on their way
    tree,       \* fileItems: the file names shown
    conf,       \* luidiumConfig
    selected,   \* selectedFile
    text,       \* the file fileText is the content of, or "none"
    answers,    \* requests of the Files tab on their way
    calls,      \* what each callback that uploads does, and where it is
    activeTab,  \* the tab that is mounted
    modals,     \* the modals that are open: a dialog, or the loading modal
    events,     \* history: for the bound
    wanted,     \* history: the configuration as this window edited it
    late,       \* history: did an answer or an upload come late, or never?
    mixed,      \* history: did two reads of files overlap, or one fail?
    rushed,     \* history: did a click come under the loading modal, or while an edit ended?
    missed      \* history: did an edit read what another one was replacing, or get lost?

storage == <<files, config>>
shown == <<tree, conf, selected, text, activeTab>>
edits == <<wanted, rushed, missed>>
history == <<edits, late, mixed>>
vars == <<storage, puts, shown, answers, calls, modals, events, history>>

Missing == [volume |-> "missing", env |-> {}]
NewConfig == [volume |-> "", env |-> {}]
Done == [does |-> "nothing", with |-> "none", at |-> "done"]
Call(does, with, at) == [does |-> does, with |-> with, at |-> at]
At(step) == {c \in Calls : calls[c].at = step}

\* GET /file/browse: by prefix; the configuration itself is filtered out.
Listing == UNION {files[b] : b \in Extending}

Answer(kind, names) == [kind |-> kind, names |-> names]
Refreshing == \E a \in answers : a.kind \in {"list", "config"}

\* handleGetBlockFiles has asked for the list.
Refresh == answers \cup {Answer("list", Listing)}

\* The browser opens at the tab Info: activeTab is the first one clicked then.
Init ==
    /\ files = FirstFiles
    /\ config \in {[b \in Blocks |-> NewConfig], [b \in Blocks |-> Missing]}
    /\ puts = {}
    /\ tree = {}
    /\ conf = Missing
    /\ selected = "none"
    /\ text = "none"
    /\ answers = {Answer("list", UNION {FirstFiles[b] : b \in Extending}), Answer("show", {})}
    /\ calls = [c \in Calls |-> Done]
    /\ activeTab \in {"files", "settings"}
    /\ modals = {}
    /\ events = 0
    /\ wanted = config[Me]
    /\ late = FALSE
    /\ mixed = FALSE
    /\ rushed = FALSE
    /\ missed = FALSE

Event == events < MaxEvents /\ events' = events + 1

\* A click that starts a callback under the loading modal.
Starts(call) ==
    /\ Event
    /\ At("done") # {}
    /\ calls' = [calls EXCEPT ![CHOOSE c \in At("done") : TRUE] = call]
    /\ modals' = modals \cup {"loading"}
    /\ rushed' = (rushed \/ "loading" \in modals \/ At("tail") # {})

\* The mouse reaches what no modal covers.
Uncovered == modals = {}

ClickTab(t) ==
    /\ Uncovered
    /\ activeTab # t
    /\ Event
    /\ activeTab' = t
    /\ UNCHANGED <<storage, puts, tree, conf, selected, text, answers, calls, modals, history>>

-----------------------------------------------------------------------------
(* The Files tab *)

\* The list is there: the configuration is asked for.
DeliverList(a) ==
    /\ a.kind = "list"
    /\ answers' = (answers \ {a}) \cup {Answer("config", a.names)}
    /\ UNCHANGED <<storage, puts, shown, calls, modals, events, history>>

\* setLuidiumConfig, and setFileItems with what the ignore list leaves.  An
\* empty answer for a missing configuration does not parse and the rest of the
\* callback does not happen.
DeliverConfig(a) ==
    /\ a.kind \in {"config", "show"}
    /\ answers' = answers \ {a}
    /\ conf' = IF config[Me] = Missing THEN conf ELSE config[Me]
    /\ tree' = IF a.kind = "show" \/ config[Me] = Missing THEN tree ELSE a.names
    /\ late' = (late \/ config[Me] = Missing)
    /\ UNCHANGED <<storage, puts, selected, text, activeTab, calls, modals, events, edits, mixed>>

\* onSelectItems: the name is noted and the file read.
ClickFile(p) ==
    /\ activeTab = "files"
    /\ p \in tree
    /\ Event
    /\ selected' = p
    /\ answers' = answers \cup {Answer("text", {p})}
    /\ mixed' = (mixed \/ \E a \in answers : a.kind \in {"text", "clear"})
    /\ UNCHANGED <<storage, puts, tree, conf, text, activeTab, calls, modals, edits, late>>

\* setFileText: of the file, of a notice when it is too large, or nothing when
\* it is gone.  Wrong variant: the text is put together with what is there.
DeliverTextLater(a) ==
    /\ a.kind = "text"
    /\ answers' = answers \ {a}
    /\ text' = IF text = "none" /\ a.names \subseteq files[Me] THEN CHOOSE p \in a.names : TRUE ELSE text
    /\ UNCHANGED <<storage, puts, tree, conf, selected, activeTab, calls, modals, events, history>>
DeliverText(a) ==
    /\ a.kind = "text"
    /\ answers' = answers \ {a}
    /\ text' = IF a.names \subseteq files[Me] THEN CHOOSE p \in a.names : TRUE ELSE "none"
    /\ UNCHANGED <<storage, puts, tree, conf, selected, activeTab, calls, modals, events, history>>

\* handleClearFolder: no modal covers the browser meanwhile.
ClickClear ==
    /\ activeTab = "files"
    /\ Event
    /\ answers' = answers \cup {Answer("clear", {})}
    /\ mixed' = (mixed \/ \E a \in answers : a.kind = "text")
    /\ UNCHANGED <<storage, puts, shown, calls, modals, edits, late>>

\* The storage deletes all the prefix lists but the configuration of Me.
ClearConfig(b) == IF b = Me \/ b \notin Extending THEN config[b] ELSE Missing

\* The answer: the list is asked for, and the text emptied.
DeliverClear(a) ==
    /\ a.kind = "clear"
    /\ files' = [b \in Blocks |-> IF b \in Extending THEN {} ELSE files[b]]
    /\ config' = [b \in Blocks |-> ClearConfig(b)]
    /\ late' = (late \/ Refreshing)
    /\ answers' = (answers \ {a}) \cup {Answer("list", {})}
    /\ text' = "none"
    /\ UNCHANGED <<puts, tree, conf, selected, activeTab, calls, modals, events, edits, mixed>>

\* The objects go one by one: it may stop midway, and the callback throws, as
\* every other request that fails.
ClearFails(a, gone) ==
    /\ a.kind = "clear"
    /\ Event
    /\ files' = [b \in Blocks |-> IF b \in Extending THEN files[b] \ gone ELSE files[b]]
    /\ config' \in {config, [b \in Blocks |-> ClearConfig(b)]}
    /\ late' = TRUE
    /\ answers' = answers \ {a}
    /\ UNCHANGED <<puts, shown, calls, modals, edits, mixed>>

AnswerFails(a) ==
    /\ a.kind # "clear"
    /\ Event
    /\ answers' = answers \ {a}
    /\ late' = TRUE
    /\ mixed' = TRUE
    /\ UNCHANGED <<storage, puts, shown, calls, modals, edits>>

\* handleUploadFiles: every file is sent, none awaited.
ClickUpload(ps) ==
    /\ activeTab = "files" /\ Uncovered
    /\ Starts(Call("upload", "none", "delay"))
    /\ puts' = puts \cup {[path |-> p, conf |-> Missing] : p \in ps}
    /\ UNCHANGED <<storage, shown, answers, wanted, late, mixed, missed>>

PutArrives(p) ==
    /\ puts' = puts \ {p}
    /\ IF p.conf = Missing
       THEN files' = [files EXCEPT ![Me] = @ \cup {p.path}] /\ UNCHANGED config
       ELSE config' = [config EXCEPT ![Me] = p.conf] /\ UNCHANGED files
    /\ late' = (late \/ (p.conf = Missing /\ Refreshing))
    /\ UNCHANGED <<shown, answers, calls, modals, events, edits, mixed>>

PutLost(p) ==
    /\ Event
    /\ puts' = puts \ {p}
    /\ late' = TRUE
    /\ missed' = (missed \/ p.conf # Missing)
    /\ UNCHANGED <<storage, shown, answers, calls, modals, wanted, mixed, rushed>>

-----------------------------------------------------------------------------
(* The Settings tab *)

OpenDialog(d) ==
    /\ activeTab = "settings"
    /\ d \notin modals
    /\ Event
    /\ modals' = modals \cup {d}
    /\ UNCHANGED <<storage, puts, shown, answers, calls, history>>

Cancel(d) ==
    /\ d \in modals
    /\ modals' = modals \ {d}
    /\ UNCHANGED <<storage, puts, shown, answers, calls, events, history>>

\* handleCreateVolume and handleCreateEnvVar, from their dialogs, and
\* handleRemoveEnvVar: a button that kept the focus starts one more.
Edit(does, with) ==
    /\ Starts(Call(does, with, "read"))
    /\ UNCHANGED <<storage, puts, shown, answers, wanted, late, mixed, missed>>

ClickEdit ==
    \/ "volume" \in modals /\ \E m \in Mounts : Edit("volume", m)
    \/ "env" \in modals /\ \E v \in Vars : Edit("add", v)
    \/ activeTab = "settings" /\ \E v \in conf.env : Edit("remove", v)

Applied(call, cfg) ==
    CASE call.does = "volume" -> [cfg EXCEPT !.volume = call.with]
      [] call.does = "add"    -> [cfg EXCEPT !.env = @ \cup {call.with}]
      [] call.does = "remove" -> [cfg EXCEPT !.env = @ \ {call.with}]

\* The configuration is read and shown, and the changed one sent; one that is
\* missing does not parse, and the callback throws under its modal.
\* Wrong variant: the rest of the configuration is not taken over.
ReadAndSendOver(c, cfg) ==
    /\ c \in At("read")
    /\ IF config[Me] = Missing
       THEN /\ calls' = [calls EXCEPT ![c].at = "thrown"]
            /\ UNCHANGED <<puts, conf, wanted, missed>>
       ELSE /\ conf' = config[Me]
            /\ puts' = puts \cup {[path |-> "none", conf |-> Applied(calls[c], cfg)]}
            /\ calls' = [calls EXCEPT ![c].at = "delay"]
            /\ wanted' = Applied(calls[c], wanted)
            /\ missed' = (missed \/ \E p \in puts : p.conf # Missing)
    /\ UNCHANGED <<storage, tree, selected, text, activeTab, answers, modals, events, late, mixed, rushed>>
ReadAndSendAlone(c) == ReadAndSendOver(c, NewConfig)
ReadAndSend(c) == ReadAndSendOver(c, config[Me])

\* After 1.4 seconds: an upload asks for the list and ends.
UploadEnds(c) ==
    /\ c \in At("delay") /\ calls[c].does = "upload"
    /\ calls' = [calls EXCEPT ![c] = Done]
    /\ answers' = Refresh
    /\ modals' = modals \ {"loading"}
    /\ late' = (late \/ puts # {} \/ Refreshing)
    /\ UNCHANGED <<storage, puts, shown, events, edits, mixed>>

\* An edit of the volume closes the modal first and does not wait for what it
\* reads; the others read first.
EditWaited(c) ==
    /\ c \in At("delay") /\ calls[c].does # "upload"
    /\ late' = (late \/ puts # {})
    /\ IF calls[c].does = "volume"
       THEN /\ calls' = [calls EXCEPT ![c].at = "tail"]
            /\ answers' = answers \cup {Answer("show", {})}
            /\ modals' = modals \ {"loading"}
       ELSE /\ calls' = [calls EXCEPT ![c].at = "reread"]
            /\ UNCHANGED <<answers, modals>>
    /\ UNCHANGED <<storage, puts, shown, events, edits, mixed>>

Reread(c) ==
    /\ c \in At("reread")
    /\ conf' = config[Me]
    /\ calls' = [calls EXCEPT ![c] = IF @.does = "add" THEN [@ EXCEPT !.at = "tail"] ELSE Done]
    /\ modals' = modals \ {"loading"}
    /\ UNCHANGED <<storage, puts, tree, selected, text, activeTab, answers, events, history>>

\* The dialogs read once more, and go.  The dialog of the variables closes the
\* loading modal again, whosever it is by now.
DialogEnds(c) ==
    /\ c \in At("tail")
    /\ conf' = config[Me]
    /\ calls' = [calls EXCEPT ![c] = Done]
    /\ modals' = modals \ IF calls[c].does = "add" THEN {"loading", "env"} ELSE {"volume"}
    /\ UNCHANGED <<storage, puts, tree, selected, text, activeTab, answers, events, history>>

\* A request of an edit rejects: nothing catches it.
EditFails(c) ==
    /\ c \in At("read") \cup At("reread") \cup At("tail")
    /\ Event
    /\ calls' = [calls EXCEPT ![c].at = "thrown"]
    /\ UNCHANGED <<storage, puts, shown, answers, modals, history>>

UserStep ==
    \/ \E p \in Paths : ClickFile(p)
    \/ ClickClear
    \/ \E ps \in Uploads : ClickUpload(ps)
    \/ \E t \in {"files", "settings"} : ClickTab(t)
    \/ \E d \in {"volume", "env"} : OpenDialog(d) \/ Cancel(d)
    \/ ClickEdit

\* What happens by itself.
Progress ==
    \/ \E a \in answers : DeliverList(a) \/ DeliverConfig(a) \/ DeliverText(a) \/ DeliverClear(a)
    \/ \E p \in puts : PutArrives(p)
    \/ \E c \in Calls : ReadAndSend(c) \/ UploadEnds(c) \/ EditWaited(c) \/ Reread(c) \/ DialogEnds(c)

Next ==
    \/ UserStep
    \/ Progress
    \/ \E a \in answers : AnswerFails(a) \/ \E gone \in SUBSET Paths : ClearFails(a, gone)
    \/ \E p \in puts : PutLost(p)
    \/ \E c \in Calls : EditFails(c)

Spec == Init /\ [][Next]_vars

\* Requests that do not fail are answered, and timers fire.
FairSpec == Spec /\ WF_vars(Progress)

-----------------------------------------------------------------------------
(* Properties *)

Configs == [volume : Mounts \cup {""}, env : SUBSET Vars] \cup {Missing}

\* Type invariant of the storage, of what is shown and of what is under way.
TypeOK ==
    /\ files \in [Blocks -> SUBSET Paths]
    /\ config \in [Blocks -> Configs]
    /\ puts \subseteq [path : Paths \cup {"none"}, conf : Configs]
    /\ tree \subseteq Paths
    /\ conf \in Configs
    /\ selected \in Paths \cup {"none"} /\ text \in Paths \cup {"none"}
    /\ answers \subseteq [kind : {"list", "config", "show", "text", "clear"}, names : SUBSET Paths]
    /\ calls \in [Calls -> [does : {"nothing", "upload", "volume", "add", "remove"},
                            with : Vars \cup Mounts \cup {"none"},
                            at : {"done", "read", "delay", "reread", "tail", "thrown"}]]
    /\ activeTab \in {"files", "settings"}
    /\ modals \subseteq {"loading", "volume", "env"}
    /\ wanted \in Configs

\* Once the edits of this window are through, the configuration holds every one
\* of them, although each reads it, changes it and writes it back whole, and
\* nobody waits for the write: also of edits that overlap, unless one read while
\* the upload of another one was on its way, or an upload was lost.
EditsKept ==
    puts = {} /\ ~ missed => config[Me] = wanted

\* That takes an upload slower than the timer, or lost, or a click by keyboard
\* under the loading modal, or one that comes while a dialog is ending: whoever
\* only uses the mouse and waits for the dialog to go loses no edit.
EditsApart ==
    missed => late \/ rushed

\* The text is of the file selected last: an answer to an earlier click replaces
\* it only when the two overlapped.
TextOfSelected ==
    text # "none" /\ ~ mixed /\ (\A a \in answers : a.kind # "text") => text = selected

\* When all is answered, the tree shows what the storage lists, after uploads
\* and clearings, unless one of them overtook the list.
TreeCurrent ==
    answers = {} /\ puts = {} /\ At("delay") = {} /\ ~ late => tree = Listing

\* What the browser shows is what the server has, of what was selected.
ViewCurrent == TextOfSelected /\ TreeCurrent

\* Whatever is cleared, this block keeps its configuration, and no block whose
\* name does not begin with its name loses a file or its configuration.
ClearedWithin ==
    wanted # Missing =>
        /\ config[Me] # Missing
        /\ \A b \in Blocks \ Extending : files[b] = FirstFiles[b] /\ config[b] # Missing

\* No edit and no clearing loses what another one, or another block, has.
FilesKept == EditsKept /\ EditsApart /\ ClearedWithin

\* The modal over the browser, and the failure of a request that keeps it there.
Covered == "loading" \in modals
Thrown == At("thrown") # {}
=============================================================================

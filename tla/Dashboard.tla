------------------------------ MODULE Dashboard ------------------------------
(***************************************************************************)
(* The list of applications (MyAppScreen.tsx, AppBlock.tsx) and the form   *)
(* that creates one (AppCreatorScreen.tsx).  The name of an application is *)
(* made from what is typed: letters and digits, in lower case, cut off.    *)
(* Every keystroke asks whether the name is taken; every selection asks    *)
(* for the collaborators; every answer is taken as it comes.               *)
(*                                                                         *)
(* The handlers of the main-server are one step here; Applications has     *)
(* their interleavings.  An application stands for its name, and the       *)
(* collaborators for their application.  Pictures are left out.            *)
(***************************************************************************)
EXTENDS Modals, Naturals

CONSTANTS
    Typed,          \* what is typed as name, "" among it
    NameOf,         \* generateAppNameFromDisplayName
    FirstApps,      \* the applications at the start
    MaxEvents       \* bound: what the user sends, what others do, what fails

AppNames == {NameOf[d] : d \in Typed}

DashboardAssumption ==
    /\ "" \in Typed /\ NameOf[""] = "" /\ DOMAIN NameOf = Typed
    /\ FirstApps \subseteq AppNames \ {""}
    /\ "none" \notin AppNames
    /\ MaxEvents \in Nat

VARIABLES
    apps,       \* the server: applications of the user
    listed,     \* applications
    lists,      \* reads of the list on their way, and what they have read
    selected,   \* selectedApplication
    marked,     \* selectedAppId
    people,     \* collaborators: the application they are of
    peopleReads,    \* reads of collaborators on their way
    deleting,   \* deletions on their way
    name,       \* appDisplayName
    filled,     \* description and picture are there
    available,  \* isAppNameAvailable
    checks,     \* names whose check is on its way
    creating,   \* the name handleCreateApplication sent, or "none", or "thrown"
    modals,     \* "creator", "leave", "creating", "delete"
    events,     \* history: for the bound
    changed,    \* history: did others change the server, or two lists overlap?
    mixed,      \* history: did two reads of collaborators overlap, or one fail?
    crossed,    \* history: did a check overlap with another or with the click, or not come back?
    found       \* history: names a check found available

panel == <<selected, marked, people, peopleReads, deleting, mixed>>
form == <<name, filled, available, checks, crossed, found>>
list == <<listed, lists>>
vars == <<apps, list, panel, form, creating, modals, events, changed>>

Asked(deletes) == [read |-> FALSE, got |-> {}, deletes |-> deletes]

Init ==
    /\ apps = FirstApps
    /\ listed = {}
    /\ lists = {Asked(FALSE)}
    /\ selected = "none"
    /\ marked = "none"
    /\ people = "none"
    /\ peopleReads = {}
    /\ deleting = {}
    /\ name = ""
    /\ filled = FALSE
    /\ available = FALSE
    /\ checks = {}
    /\ creating = "none"
    /\ modals = <<>>
    /\ events = 0
    /\ changed = FALSE
    /\ mixed = FALSE
    /\ crossed = FALSE
    /\ found = {}

Event == events < MaxEvents /\ events' = events + 1

\* getApplications, for a deletion that waits for it or by itself.
AskList(deletes) ==
    /\ lists' = lists \cup {Asked(deletes)}
    /\ changed' = (changed \/ lists # {})

OthersChange(n) ==
    /\ Event
    /\ apps' \in {apps \cup {n}, apps \ {n}}
    /\ changed' = TRUE
    /\ UNCHANGED <<list, panel, form, creating, modals>>

ServeList(a) ==
    /\ ~ a.read
    /\ lists' = (lists \ {a}) \cup {[a EXCEPT !.read = TRUE, !.got = apps]}
    /\ UNCHANGED <<apps, listed, panel, form, creating, modals, events, changed>>

-----------------------------------------------------------------------------
(* The panel of the selected application *)

\* setSelectedApplication and the effect after it, which does not run for the
\* application that is selected already and was not read again.
Select(n) ==
    /\ selected' = n
    /\ \/ n = selected /\ UNCHANGED <<people, peopleReads, mixed>>
       \/ n = "none" /\ people' = "none" /\ mixed' = (mixed \/ peopleReads # {}) /\ UNCHANGED peopleReads
       \/ /\ n # "none"
          /\ peopleReads' = peopleReads \cup {n}
          /\ mixed' = (mixed \/ peopleReads # {})
          /\ UNCHANGED people

\* setApplications.  A deletion then closes the panel and the dialog, whoever
\* has opened them by now.  Wrong variant: the panel stays.
DeliverListThen(a, panelAfter) ==
    /\ a.read
    /\ lists' = lists \ {a}
    /\ listed' = a.got
    /\ IF a.deletes
       THEN panelAfter /\ modals' = Closed(modals, {"delete"})
       ELSE UNCHANGED <<selected, people, peopleReads, mixed, modals>>
    /\ UNCHANGED <<apps, marked, deleting, form, creating, events, changed>>
DeliverListStays(a) == DeliverListThen(a, UNCHANGED <<selected, people, peopleReads, mixed>>)
DeliverList(a) == DeliverListThen(a, Select("none"))

\* handleSelectApplication
ClickApp(n) ==
    /\ Top(modals) = "page"
    /\ n \in listed
    /\ Event
    /\ marked' = IF marked = n THEN "none" ELSE n
    /\ Select(IF marked = n THEN "none" ELSE n)
    /\ UNCHANGED <<apps, list, deleting, form, creating, modals, changed>>

\* setCollaborators
DeliverPeople(n) ==
    /\ n \in peopleReads
    /\ peopleReads' = peopleReads \ {n}
    /\ people' = n
    /\ UNCHANGED <<apps, list, selected, marked, deleting, mixed, form, creating, modals, events, changed>>

OpenDelete ==
    /\ Top(modals) = "page" /\ selected # "none"
    /\ modals' = Opened(modals, "delete")
    /\ UNCHANGED <<apps, list, panel, form, creating, events, changed>>

CancelDelete ==
    /\ Top(modals) = "delete"
    /\ modals' = Closed(modals, {"delete"})
    /\ UNCHANGED <<apps, list, panel, form, creating, events, changed>>

\* handleDeleteApplication: the dialog stays open, and may be cancelled.  The
\* panel may be gone from behind it: then no route answers.
ClickDelete ==
    /\ Top(modals) = "delete"
    /\ Event
    /\ deleting' = deleting \cup {[name |-> n, gone |-> FALSE] : n \in {selected} \ {"none"}}
    /\ UNCHANGED <<apps, list, selected, marked, people, peopleReads, mixed, form, creating, modals, changed>>

ServeDelete(d) ==
    /\ ~ d.gone /\ d.name \in apps
    /\ apps' = apps \ {d.name}
    /\ deleting' = (deleting \ {d}) \cup {[d EXCEPT !.gone = TRUE]}
    /\ changed' = (changed \/ lists # {})
    /\ UNCHANGED <<list, selected, marked, people, peopleReads, mixed, form, creating, modals, events>>

\* The list is read, and only then does the panel close.
Deleted(d) ==
    /\ d.gone
    /\ deleting' = deleting \ {d}
    /\ marked' = "none"
    /\ AskList(TRUE)
    /\ UNCHANGED <<apps, listed, selected, people, peopleReads, mixed, form, creating, modals, events>>

\* A second click, or an application that is gone: the server refuses, and the
\* callback throws.
DeleteRefused(d) ==
    /\ ~ d.gone /\ d.name \notin apps
    /\ deleting' = deleting \ {d}
    /\ UNCHANGED <<apps, list, selected, marked, people, peopleReads, mixed, form, creating, modals, events, changed>>

-----------------------------------------------------------------------------
(* The form *)

ClickCreator ==
    /\ Top(modals) = "page"
    /\ modals' = Opened(modals, "creator")
    /\ name' = "" /\ filled' = FALSE /\ available' = FALSE
    /\ checks' = {} /\ crossed' = FALSE /\ found' = {}
    /\ UNCHANGED <<apps, list, panel, creating, events, changed>>

\* checkAppNameAvailability: an empty field answers itself, later answers
\* nevertheless arrive.
TypeName(d) ==
    /\ Top(modals) = "creator"
    /\ Event
    /\ name' = d
    /\ IF d = ""
       THEN available' = FALSE /\ crossed' = (crossed \/ checks # {}) /\ UNCHANGED checks
       ELSE /\ checks' = checks \cup {NameOf[d]}
            /\ crossed' = (crossed \/ checks # {})
            /\ UNCHANGED available
    /\ UNCHANGED <<apps, list, panel, filled, found, creating, modals, changed>>

\* Wrong variant: once available, always available.
DeliverCheckOnce(n) ==
    /\ n \in checks \ {""}
    /\ checks' = checks \ {n}
    /\ available' = (available \/ n \notin apps)
    /\ found' = IF n \in apps THEN found \ {n} ELSE found \cup {n}
    /\ UNCHANGED <<apps, list, panel, name, filled, crossed, creating, modals, events, changed>>
DeliverCheck(n) ==
    /\ n \in checks \ {""}
    /\ checks' = checks \ {n}
    /\ available' = (n \notin apps)
    /\ found' = IF n \in apps THEN found \ {n} ELSE found \cup {n}
    /\ UNCHANGED <<apps, list, panel, name, filled, crossed, creating, modals, events, changed>>

\* No route answers for a name of which nothing is left: the callback throws,
\* and what the check before said stays.
CheckUnanswered ==
    /\ "" \in checks
    /\ checks' = checks \ {""}
    /\ crossed' = TRUE
    /\ UNCHANGED <<apps, list, panel, name, filled, available, found, creating, modals, events, changed>>

Fill ==
    /\ Top(modals) = "creator"
    /\ filled' = TRUE
    /\ UNCHANGED <<apps, list, panel, name, available, checks, crossed, found, creating, modals, events, changed>>

\* handleCreateApplication
ClickCreate ==
    /\ Top(modals) = "creator"
    /\ name # "" /\ filled /\ available
    /\ Event
    /\ creating' = NameOf[name]
    /\ modals' = Opened(modals, "creating")
    /\ crossed' = (crossed \/ checks # {})
    /\ UNCHANGED <<apps, list, panel, name, filled, available, checks, found, changed>>

\* Created, or refused because the name is taken or empty: nothing looks at the
\* difference.  The form closes, which reads the list.
CreateEnds ==
    /\ creating \notin {"none", "thrown"}
    /\ apps' = apps \cup ({creating} \ {""})
    /\ creating' = "none"
    /\ modals' = Closed(modals, {"creator", "creating"})
    /\ AskList(FALSE)
    /\ UNCHANGED <<listed, panel, form, events>>

\* The cross asks first.
AskLeave ==
    /\ Top(modals) = "creator"
    /\ modals' = Opened(modals, "leave")
    /\ UNCHANGED <<apps, list, panel, form, creating, events, changed>>

Stay ==
    /\ Top(modals) = "leave"
    /\ modals' = Closed(modals, {"leave"})
    /\ UNCHANGED <<apps, list, panel, form, creating, events, changed>>

Leave ==
    /\ Top(modals) = "leave"
    /\ AskList(FALSE)
    /\ modals' = Closed(modals, {"leave", "creator"})
    /\ UNCHANGED <<apps, listed, panel, form, creating, events>>

\* A request that fails: the callback throws, except createApplication, which
\* catches answers but not their absence.
Fails ==
    /\ Event
    /\ \/ /\ \E a \in lists : lists' = lists \ {a}
          /\ changed' = TRUE
          /\ UNCHANGED <<panel, form, creating>>
       \/ /\ \E n \in peopleReads : peopleReads' = peopleReads \ {n}
          /\ mixed' = TRUE
          /\ UNCHANGED <<lists, changed, selected, marked, people, deleting, form, creating>>
       \/ /\ \E d \in deleting : deleting' = deleting \ {d}
          /\ changed' = TRUE
          /\ UNCHANGED <<lists, selected, marked, people, peopleReads, mixed, form, creating>>
       \/ /\ \E n \in checks : checks' = checks \ {n}
          /\ crossed' = TRUE
          /\ UNCHANGED <<lists, changed, panel, name, filled, available, found, creating>>
       \/ /\ creating \notin {"none", "thrown"}
          /\ creating' = "thrown"
          /\ UNCHANGED <<lists, changed, panel, form>>
    /\ UNCHANGED <<apps, listed, modals>>

UserStep ==
    \/ \E n \in AppNames : ClickApp(n)
    \/ OpenDelete \/ CancelDelete \/ ClickDelete
    \/ ClickCreator \/ (\E d \in Typed : TypeName(d)) \/ Fill \/ ClickCreate
    \/ AskLeave \/ Stay \/ Leave

\* What happens by itself.
Progress ==
    \/ \E a \in lists : ServeList(a) \/ DeliverList(a)
    \/ \E n \in AppNames : DeliverPeople(n) \/ DeliverCheck(n)
    \/ \E d \in deleting : ServeDelete(d) \/ Deleted(d) \/ DeleteRefused(d)
    \/ CheckUnanswered
    \/ CreateEnds

Next ==
    \/ UserStep
    \/ Progress
    \/ \E n \in AppNames \ {""} : OthersChange(n)
    \/ Fails

Spec == Init /\ [][Next]_vars

\* Requests that do not fail are answered.
FairSpec == Spec /\ WF_vars(Progress)

-----------------------------------------------------------------------------
(* Properties *)

\* Type invariant of the server, the list, the panel and the form.
TypeOK ==
    /\ apps \subseteq AppNames \ {""} /\ listed \subseteq AppNames \ {""}
    /\ lists \subseteq [read : BOOLEAN, got : SUBSET AppNames, deletes : BOOLEAN]
    /\ {selected, marked, people} \subseteq (AppNames \ {""}) \cup {"none"}
    /\ peopleReads \subseteq AppNames
    /\ deleting \subseteq [name : AppNames, gone : BOOLEAN]
    /\ name \in Typed /\ filled \in BOOLEAN /\ available \in BOOLEAN
    /\ checks \subseteq AppNames /\ found \subseteq AppNames
    /\ creating \in AppNames \cup {"none", "thrown"}
    /\ modals \in ModalStacks({"creator", "leave", "creating", "delete"})

\* What is sent to be created is a name that is not empty and that a check
\* found available, although one flag says so for all names typed: unless two
\* checks overlapped, one did not come back, or Create was clicked before it did.
CreatedChecked ==
    creating \notin {"none", "thrown"} /\ ~ crossed =>
        creating \in found \ {""}

\* The collaborators shown are those of the selected application, unless two
\* reads of them overlapped or one failed.
PeopleOfSelected ==
    peopleReads = {} /\ ~ mixed => people = selected

\* The list is what the server has once creations, deletions and reads are
\* through, unless two reads overlapped or others changed it.
ListCurrent ==
    lists = {} /\ deleting = {} /\ creating = "none" /\ ~ changed => listed = apps

\* The panel does not go on showing an application that this window deleted.
DeletedLeaves ==
    lists = {} /\ deleting = {} /\ ~ changed => selected \in listed \cup {"none"}

\* The list and the panel show what the server has.
DashboardCurrent == PeopleOfSelected /\ ListCurrent /\ DeletedLeaves

\* The modal over the form, and the failure of a request that keeps it there.
Covered == IsOpen(modals, "creating")
Thrown == creating = "thrown"
=============================================================================

------------------------------ MODULE Versions -------------------------------
(***************************************************************************)
(* The version managers (VersionManager.tsx) that several windows show of  *)
(* one application.  A call reads the application again and then does what *)
(* was clicked without looking at what it read.  The handlers of the       *)
(* main-server are one step here; Applications has their interleavings.    *)
(***************************************************************************)
EXTENDS Modals, FiniteSets, Integers

CONSTANTS
    Windows,
    Valid,          \* what the expression ^[0-9]+\.[0-9]+\.[0-9]+$ accepts
    FirstVersion,   \* the version an application is created with
    Tier,           \* versions that may be added
    MaxEvents       \* bound: calls that are started and requests that fail

VersionsAssumption ==
    /\ FirstVersion \in Valid /\ Valid \cap {"", "odd"} = {}
    /\ Tier \in Nat
    /\ MaxEvents \in Nat

VARIABLES
    app,        \* the server: version_list and active_version
    left,       \* the server: usage cap
    shown,      \* applicationData of each window, or Nothing
    field,      \* newVersion
    checked,    \* isVersionValid, and if it is TRUE the data it was computed from
    call,       \* the callback that runs in each window, or Idle
    modals,     \* "creator" and "loading"
    events,     \* history: for the bound
    crossed,    \* history: was a call based on data that was out of date?
    leftover    \* history: was the button used after the field was emptied?

vars == <<app, left, shown, field, checked, call, modals, events, crossed, leftover>>

Nothing == [list |-> {}, active |-> "none"]
Unchecked == [valid |-> FALSE, seen |-> Nothing]
Idle == [does |-> "nothing", with |-> "none", seen |-> Nothing, at |-> "idle"]

Init ==
    /\ app = [list |-> {FirstVersion}, active |-> FirstVersion]
    /\ left = Tier
    /\ shown = [w \in Windows |-> Nothing]
    /\ field = [w \in Windows |-> ""]
    /\ checked = [w \in Windows |-> Unchecked]
    /\ call = [w \in Windows |-> Idle]
    /\ modals = [w \in Windows |-> <<>>]
    /\ events = 0
    /\ crossed = FALSE
    /\ leftover = FALSE

Reach(w, screen) == Top(modals[w]) = screen
Cover(w, m) == modals' = [modals EXCEPT ![w] = Opened(@, m)]
Uncover(w, ms) == modals' = [modals EXCEPT ![w] = Closed(@, ms)]
At(w, step) == call[w].at = step
Goto(w, step) == call' = [call EXCEPT ![w].at = step]
\* What the server looks at: create_version refuses when no version is left.
\* Wrong variant: off by one.
CapLeftOrNone(w) == call[w].does # "create" \/ left >= 0
CapLeft(w) == call[w].does # "create" \/ left > 0
Event == events < MaxEvents /\ events' = events + 1

\* The first reads of the page, which nothing covers.
Mount(w) ==
    /\ shown[w] = Nothing
    /\ shown' = [shown EXCEPT ![w] = app]
    /\ UNCHANGED <<app, left, field, checked, call, modals, events, crossed, leftover>>

OpenCreator(w) ==
    /\ Reach(w, "page")
    /\ Cover(w, "creator")
    /\ UNCHANGED <<app, left, shown, field, checked, call, events, crossed, leftover>>

Cancel(w) ==
    /\ Reach(w, "creator")
    /\ Uncover(w, {"creator"})
    /\ UNCHANGED <<app, left, shown, field, checked, call, events, crossed, leftover>>

\* handleCheckVersionValid
TypeVersion(w, v) ==
    /\ Reach(w, "creator")
    /\ field' = [field EXCEPT ![w] = v]
    /\ checked' = [checked EXCEPT ![w] =
           IF v \in Valid \ shown[w].list THEN [valid |-> TRUE, seen |-> shown[w]] ELSE Unchecked]
    /\ UNCHANGED <<app, left, shown, call, modals, events, crossed, leftover>>

Start(w, does, with, seen) ==
    /\ Event
    /\ call' = [call EXCEPT ![w] = [does |-> does, with |-> with, seen |-> seen, at |-> "read"]]
    /\ Cover(w, "loading")
    /\ UNCHANGED <<app, left, shown, field, checked, crossed>>

\* The button is there while isVersionValid; the field may have been emptied
\* by the creation before.
ClickCreate(w) ==
    /\ Reach(w, "creator") /\ checked[w].valid
    /\ Start(w, "create", field[w], checked[w].seen)
    /\ leftover' = (leftover \/ field[w] = "")

\* Only versions that are not active have the buttons.  Wrong variant: every
\* version has them.
ClickVersionAny(w, does, v) ==
    /\ Reach(w, "page")
    /\ v \in shown[w].list
    /\ Start(w, does, v, shown[w])
    /\ UNCHANGED leftover
ClickVersion(w, does, v) ==
    /\ Reach(w, "page")
    /\ v \in shown[w].list \ {shown[w].active}
    /\ Start(w, does, v, shown[w])
    /\ UNCHANGED leftover

\* getApplicationInfo, before and after the change.
Read(w) ==
    /\ call[w].at \in {"read", "reread"}
    /\ shown' = [shown EXCEPT ![w] = app]
    /\ Goto(w, IF At(w, "read") THEN "act" ELSE "cap")
    /\ UNCHANGED <<app, left, field, checked, modals, events, crossed, leftover>>

\* The handlers of the server do what they are told: an active version is
\* deleted, and one that is not in the list activated.
Act(w) ==
    /\ At(w, "act")
    /\ CapLeft(w)
    /\ app' = CASE call[w].does = "create"   -> [app EXCEPT !.list = @ \cup {call[w].with}]
                [] call[w].does = "remove"   -> [app EXCEPT !.list = @ \ {call[w].with}]
                [] call[w].does = "activate" -> [app EXCEPT !.active = call[w].with]
    /\ left' = CASE call[w].does = "create"   -> left - 1
                 [] call[w].does = "remove"   -> left + 1
                 [] call[w].does = "activate" -> left
    /\ crossed' = (crossed \/ call[w].seen # app)
    /\ field' = IF call[w].does = "create" THEN [field EXCEPT ![w] = ""] ELSE field
    /\ Goto(w, "reread")
    /\ UNCHANGED <<shown, checked, modals, events, leftover>>

\* No version is left: a toast, and the dialog is back.
Refused(w) ==
    /\ At(w, "act")
    /\ ~ CapLeft(w)
    /\ call' = [call EXCEPT ![w] = Idle]
    /\ Uncover(w, {"loading"})
    /\ UNCHANGED <<app, left, shown, field, checked, events, crossed, leftover>>

\* handleReadUsageCapVersion reads the application once more.
ReadCap(w) ==
    /\ At(w, "cap")
    /\ shown' = [shown EXCEPT ![w] = app]
    /\ call' = [call EXCEPT ![w] = Idle]
    /\ Uncover(w, IF call[w].does = "create" THEN {"loading", "creator"} ELSE {"loading"})
    /\ UNCHANGED <<app, left, field, checked, events, crossed, leftover>>

\* A request rejects, or the catch of service/application/api.ts reads the
\* status of an answer there is none of: nothing catches that.  A change that is
\* answered with an error is caught there: a toast, and the modal goes.
CallFails(w) ==
    /\ call[w].at \notin {"idle", "thrown"}
    /\ Event
    /\ \/ Goto(w, "thrown") /\ UNCHANGED modals
       \/ At(w, "act") /\ call' = [call EXCEPT ![w] = Idle] /\ Uncover(w, {"loading"})
    /\ UNCHANGED <<app, left, shown, field, checked, crossed, leftover>>

UserStep ==
    \E w \in Windows :
        \/ OpenCreator(w) \/ Cancel(w) \/ ClickCreate(w)
        \/ \E v \in Valid \cup {"", "odd"} : TypeVersion(w, v)
        \/ \E v \in Valid \cup {""}, does \in {"remove", "activate"} : ClickVersion(w, does, v)

\* What happens by itself.
Progress == \E w \in Windows : Mount(w) \/ Read(w) \/ Act(w) \/ Refused(w) \/ ReadCap(w)

Next == UserStep \/ Progress \/ \E w \in Windows : CallFails(w)

Spec == Init /\ [][Next]_vars

\* Requests that do not fail are answered.
FairSpec == Spec /\ WF_vars(Progress)

-----------------------------------------------------------------------------
(* Properties *)

Names == Valid \cup {"", "odd"}
Data == [list : SUBSET Names, active : Names \cup {"none"}]

\* Type invariant of the server and of the windows.
TypeOK ==
    /\ app \in Data
    /\ left \in Nat
    /\ shown \in [Windows -> Data]
    /\ field \in [Windows -> Names]
    /\ checked \in [Windows -> [valid : BOOLEAN, seen : Data]]
    /\ call \in [Windows -> [does : {"nothing", "create", "remove", "activate"}, with : Names \cup {"none"},
                            seen : Data, at : {"idle", "read", "act", "reread", "cap", "thrown"}]]
    /\ modals \in [Windows -> ModalStacks({"creator", "loading"})]
    /\ events \in 0 .. MaxEvents
    /\ crossed \in BOOLEAN /\ leftover \in BOOLEAN

\* Every version is a well-formed one, or the empty one that the button left
\* by the creation before sends.
VersionsWellFormed ==
    app.list \cup {app.active} \subseteq Valid \cup (IF leftover THEN {""} ELSE {})

\* The active version is in the list although the server checks neither what
\* is deleted nor what is activated, unless a window acted on old data.
ActiveListed == ~ crossed => app.active \in app.list

\* The cap counts the versions: none is created that is there, and none
\* deleted that is not, unless a window acted on old data or on the emptied
\* field.
CapCounts == ~ crossed /\ ~ leftover => left + Cardinality(app.list) = Tier + 1

\* What the windows do to the list keeps it as if there were one window, unless
\* one acted on old data.
VersionsKept == VersionsWellFormed /\ ActiveListed /\ CapCounts

\* The modal over a window, and the failure of a request that keeps it there.
Covered(w) == IsOpen(modals[w], "loading")
Thrown(w) == At(w, "thrown")
=============================================================================

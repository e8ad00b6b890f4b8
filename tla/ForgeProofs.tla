------------------------------ MODULE ForgeProofs ------------------------------
(***************************************************************************)
(* Proofs about Forge for every set of blocks, versions and statuses, and  *)
(* any number of polls, changes and failing requests: the types of the     *)
(* window, that the browser never stands open on a block that was pending  *)
(* when it was clicked, and that a list which is current stays so.         *)
(***************************************************************************)
EXTENDS Forge, TLAPS, FiniteSetTheorems, SequenceTheorems

-----------------------------------------------------------------------------
(* Modals *)

\* Closing all modals that are open, and one of two.
LEMMA ClosedAll ==
    ASSUME NEW s, NEW ms, \A i \in DOMAIN s : s[i] \in ms
    PROVE  Closed(s, ms) = <<>>
<1>1. {i \in DOMAIN s : s[i] \notin ms} = {}
  OBVIOUS
<1>2. Cardinality({}) = 0
  BY FS_EmptySet
<1> DEFINE kept == {i \in DOMAIN s : s[i] \notin ms}
           Position(j) == CHOOSE i \in kept : Cardinality({k \in kept : k <= i}) = j
<1>3. Closed(s, ms) = [j \in 1..Cardinality(kept) |-> s[Position(j)]]
  BY DEF Closed
<1>4. 1..Cardinality(kept) = {}
  BY <1>1, <1>2
<1>5. [j \in 1..Cardinality(kept) |-> s[Position(j)]] = [j \in {} |-> s[Position(j)]]
  BY <1>4
<1>6. \A f : DOMAIN f = {} /\ f = [i \in DOMAIN f |-> f[i]] => f = <<>>
  OBVIOUS
<1>7. [j \in {} |-> s[Position(j)]] = <<>>
  OBVIOUS
<1> QED
  BY <1>3, <1>5, <1>7

LEMMA ClosedOne ==
    ASSUME NEW s, NEW ms, NEW n, {i \in DOMAIN s : s[i] \notin ms} = {n}, n \in Nat
    PROVE  Closed(s, ms) = <<s[n]>>
<1> DEFINE kept == {i \in DOMAIN s : s[i] \notin ms}
           Position(j) == CHOOSE i \in kept : Cardinality({k \in kept : k <= i}) = j
<1>0. kept = {n}
  OBVIOUS
<1>1. Cardinality(kept) = 1
  BY <1>0, FS_Singleton
<1> HIDE DEF kept
<1>4. {k \in kept : k <= n} = kept
  BY <1>0
<1>2. Position(1) = n
  BY <1>0, <1>1, <1>4
<1>3. Closed(s, ms) = [j \in 1..1 |-> s[Position(j)]]
  BY <1>1 DEF Closed, kept
<1> HIDE DEF Position
<1>5. \A j \in 1..1 : s[Position(j)] = s[n]
  <2>1. \A j \in 1..1 : j = 1
    OBVIOUS
  <2> QED
    BY <1>2, <2>1
<1>6. [j \in 1..1 |-> s[Position(j)]] = [j \in 1..1 |-> s[n]]
  BY <1>5
<1>7. [j \in 1..1 |-> s[n]] = <<s[n]>>
  OBVIOUS
<1> QED
  BY <1>3, <1>6, <1>7

LEMMA ClosedTop ==
    ASSUME NEW a, NEW b, a # b
    PROVE  /\ Closed(<<a, b>>, {b}) = <<a>>
           /\ Closed(<<a, b>>, {a}) = <<b>>
<1>1. DOMAIN <<a, b>> = {1, 2}
  OBVIOUS
<1>2. {i \in DOMAIN <<a, b>> : <<a, b>>[i] \notin {b}} = {1}
  BY <1>1
<1>3. {i \in DOMAIN <<a, b>> : <<a, b>>[i] \notin {a}} = {2}
  BY <1>1
<1> QED
  BY <1>2, <1>3, ClosedOne
\* One modal over another.
LEMMA OpenedOver ==
    /\ \A m : Opened(<<>>, m) = <<m>>
    /\ \A a, b : a # b => Opened(<<a>>, b) = <<a, b>>
<1>1. \A m : ~ IsOpen(<<>>, m)
  BY DEF IsOpen
<1>2. \A a, b : a # b => ~ IsOpen(<<a>>, b)
  BY DEF IsOpen
<1>3. \A m : Append(<<>>, m) = <<m>>
  OBVIOUS
<1>4. ASSUME NEW a, NEW b PROVE Append(<<a>>, b) = <<a, b>>
  <2>1. <<a>> \in Seq({a, b}) /\ Len(<<a>>) = 1
    OBVIOUS
  <2>2. /\ Append(<<a>>, b) \in Seq({a, b}) /\ Len(Append(<<a>>, b)) = 2
        /\ Append(<<a>>, b)[1] = a /\ Append(<<a>>, b)[2] = b
    BY <2>1
  <2>3. <<a, b>> \in Seq({a, b}) /\ Len(<<a, b>>) = 2
    OBVIOUS
  <2>4. \A i \in 1..2 : Append(<<a>>, b)[i] = <<a, b>>[i]
    <3>1. \A i \in 1..2 : i = 1 \/ i = 2
      OBVIOUS
    <3> QED
      BY <2>2, <3>1
  <2> QED
    BY <2>2, <2>3, <2>4, SeqEqual
<1>5. \A m : Opened(<<>>, m) = <<m>>
  BY <1>1, <1>3 DEF Opened
<1>6. \A a, b : a # b => Opened(<<a>>, b) = <<a, b>>
  BY <1>2, <1>4 DEF Opened
<1> QED
  BY <1>5, <1>6

-----------------------------------------------------------------------------
(* The window *)

\* What can lie over the page.
Screens == {<<>>, <<"opening">>, <<"browser">>, <<"browser", "confirm">>, <<"browser", "loading">>}
Settled == [block : Blocks, status : Statuses \ Unsettled]

\* The timer runs under its modal, a command under the one of the browser, and
\* whatever covers the page is about a block that was settled: a click on
\* another one needs the page.
ScreenInv ==
    /\ modals \in Screens
    /\ timer \in BOOLEAN /\ (timer => modals = <<"opening">>)
    /\ command # NoCommand => modals = <<"browser", "loading">>
    /\ modals # <<>> => selected \in Settled

\* What the user reaches on each screen.
LEMMA ScreenTops ==
    /\ Top(<<>>) = "page"
    /\ Top(<<"opening">>) = "opening"
    /\ Top(<<"browser">>) = "browser"
    /\ Top(<<"browser", "confirm">>) = "confirm"
    /\ Top(<<"browser", "loading">>) = "loading"
BY DEF Top

\* How the screens follow each other.
LEMMA ScreenMoves ==
    /\ Opened(<<>>, "opening") = <<"opening">>
    /\ Closed(Opened(<<"opening">>, "browser"), {"opening"}) = <<"browser">>
    /\ Opened(<<"browser">>, "confirm") = <<"browser", "confirm">>
    /\ Opened(<<"browser">>, "loading") = <<"browser", "loading">>
    /\ Closed(<<"browser", "confirm">>, {"confirm"}) = <<"browser">>
    /\ Closed(<<"browser", "confirm">>, BrowserModals) = <<>>
    /\ Closed(<<"browser", "loading">>, BrowserModals) = <<>>
<1>1. \A m \in {"confirm", "loading"} : \A i \in DOMAIN <<"browser", m>> :
        <<"browser", m>>[i] \in BrowserModals
  <2>1. \A m : DOMAIN <<"browser", m>> = {1, 2}
    OBVIOUS
  <2> QED
    BY <2>1 DEF BrowserModals
<1>2. \A m \in {"confirm", "loading"} :
        /\ Opened(<<"browser">>, m) = <<"browser", m>>
        /\ Closed(<<"browser", m>>, BrowserModals) = <<>>
  BY <1>1, OpenedOver, ClosedAll
<1>3. Opened(<<>>, "opening") = <<"opening">>
  BY OpenedOver
<1>4. Closed(Opened(<<"opening">>, "browser"), {"opening"}) = <<"browser">>
  <2>1. Opened(<<"opening">>, "browser") = <<"opening", "browser">>
    BY OpenedOver
  <2>2. Closed(<<"opening", "browser">>, {"opening"}) = <<"browser">>
    BY ClosedTop
  <2> QED
    BY <2>1, <2>2
<1>5. Closed(<<"browser", "confirm">>, {"confirm"}) = <<"browser">>
  BY ClosedTop
<1> QED
  BY <1>2, <1>3, <1>4, <1>5

\* A list, and the server's answer for it.
LEMMA AnswersTyped ==
    ASSUME row \in [Blocks -> Statuses \cup {"unborn", "deleted"}], NEW v \in Versions
    PROVE  /\ NoList \in Lists /\ RowsIn(v) \in Lists
           /\ {InfoAnswer(v), ApplicationAnswer(v), ListAnswer(v, RowsIn(v))} \subseteq
                 [at : {"info", "application", "list"}, version : Versions, list : Lists]
<1>1. NoList \in Lists
  <2>1. NoList \in [{} -> Statuses] /\ {} \in SUBSET Blocks
    BY DEF NoList
  <2> QED
    BY <2>1 DEF Lists
<1>2. RowsIn(v) \in Lists
  <2> DEFINE bs == {c \in Blocks : Rows!Exists(c) /\ VersionOf[c] = v}
  <2>1. bs \in SUBSET Blocks /\ \A b \in bs : row[b] \in Statuses
    BY DEF Rows!Exists
  <2>2. RowsIn(v) \in [bs -> Statuses]
    BY <2>1 DEF RowsIn
  <2> QED
    BY <2>1, <2>2 DEF Lists
<1> QED
  BY <1>1, <1>2 DEF InfoAnswer, ApplicationAnswer, ListAnswer

-----------------------------------------------------------------------------
(* The screens follow each other *)

\* Opening needs the page, and the timer its modal.
LEMMA SelectKeepsScreen ==
    ASSUME TypeOK, ScreenInv, NEW b \in Blocks, Select(b)
    PROVE  ScreenInv'
<1>1. modals = <<>> /\ ~ timer /\ command = NoCommand
  BY ScreenTops DEF Select, ScreenInv, Screens
<1>2. list[b] \in Statuses
  BY DEF Select, TypeOK, Lists
<1>3. CASE list[b] \in Unsettled
  BY <1>1, <1>3 DEF Select, ScreenInv
<1>4. CASE list[b] \notin Unsettled
  <2>1. modals' = <<"opening">> /\ timer' /\ command' = NoCommand
    BY <1>1, <1>4, ScreenMoves DEF Select
  <2>2. selected' \in Settled
    BY <1>2, <1>4 DEF Select, Settled
  <2> QED
    BY <2>1, <2>2 DEF ScreenInv, Screens, Select
<1> QED
  BY <1>3, <1>4

LEMMA OpenKeepsScreen ==
    ASSUME TypeOK, ScreenInv, OpenBrowser
    PROVE  ScreenInv'
<1>1. modals = <<"opening">> /\ selected \in Settled /\ command = NoCommand
  <2>1. modals = <<"opening">>
    BY DEF OpenBrowser, ScreenInv
  <2>2. <<"opening">> # <<>> /\ <<"opening">> # <<"browser", "loading">>
    OBVIOUS
  <2> QED
    BY <2>1, <2>2 DEF ScreenInv
<1>2. modals' = <<"browser">> /\ timer' = FALSE /\ UNCHANGED <<selected, command>>
  BY <1>1, ScreenMoves DEF OpenBrowser
<1> QED
  BY <1>1, <1>2 DEF ScreenInv, Screens

LEMMA BrowserKeepsScreen ==
    ASSUME TypeOK, ScreenInv,
           ClickClose \/ ConfirmClose \/ CancelClose \/ (\E op \in Commands : Click(op)) \/ Deliver
    PROVE  ScreenInv'
<1>1. modals \in Screens /\ UNCHANGED <<selected, timer>>
  BY DEF ScreenInv, ClickClose, ConfirmClose, CancelClose, Click, Deliver
<1>2. CASE ClickClose
  <2>1. modals = <<"browser">> /\ command = NoCommand
    BY <1>1, <1>2, ScreenTops DEF ClickClose, ScreenInv, Screens
  <2>2. modals' = <<"browser", "confirm">> /\ command' = NoCommand /\ ~ timer
    BY <1>2, <2>1, ScreenMoves DEF ClickClose, ScreenInv
  <2> QED
    BY <1>1, <2>1, <2>2 DEF ScreenInv, Screens
<1>3. CASE ConfirmClose \/ CancelClose
  <2>1. modals = <<"browser", "confirm">> /\ command = NoCommand
    BY <1>1, <1>3, ScreenTops DEF ConfirmClose, CancelClose, ScreenInv, Screens
  <2>2. modals' \in {<<>>, <<"browser">>} /\ command' = NoCommand /\ ~ timer
    BY <1>3, <2>1, ScreenMoves DEF ConfirmClose, CancelClose, CloseBrowser, ScreenInv
  <2> QED
    BY <1>1, <2>1, <2>2 DEF ScreenInv, Screens
<1>4. CASE \E op \in Commands : Click(op)
  <2>1. modals = <<"browser">>
    BY <1>1, <1>4, ScreenTops DEF Click, Screens
  <2>2. modals' = <<"browser", "loading">> /\ ~ timer
    BY <1>4, <2>1, ScreenMoves DEF Click, ScreenInv
  <2> QED
    BY <1>1, <2>1, <2>2 DEF ScreenInv, Screens
<1>5. CASE Deliver
  <2>1. modals = <<"browser", "loading">>
    BY <1>5 DEF Deliver, ScreenInv, NoCommand
  <2>2. modals' = <<>> /\ command' = NoCommand /\ ~ timer
    BY <1>5, <2>1, ScreenMoves DEF Deliver, CloseBrowser, ScreenInv
  <2> QED
    BY <1>1, <2>2 DEF ScreenInv, Screens
<1> QED
  BY <1>2, <1>3, <1>4, <1>5

LEMMA ScreenStep == TypeOK /\ ScreenInv /\ [Next]_vars => ScreenInv'
<1> SUFFICES ASSUME TypeOK, ScreenInv, [Next]_vars
             PROVE  ScreenInv'
  OBVIOUS
<1>1. ASSUME UNCHANGED <<modals, timer, selected, command>> PROVE ScreenInv'
  BY <1>1 DEF ScreenInv
<1>2. CASE RowChanges \/ (\E v \in Versions : ActivateVersion(v)) \/ Interval
  BY <1>1, <1>2 DEF RowChanges, ActivateVersion, Interval
<1>3. CASE \E p \in polls : DeliverInfo(p) \/ DeliverApplication(p) \/ DeliverList(p) \/ PollFails(p)
  BY <1>1, <1>3 DEF DeliverInfo, DeliverApplication, DeliverList, PollFails
<1>4. CASE Serve \/ CommandFails
  <2>1. command # NoCommand /\ UNCHANGED <<modals, timer, selected>>
    BY <1>4 DEF Serve, CommandFails, NoCommand
  <2> QED
    BY <2>1 DEF ScreenInv
<1>5. CASE Reload
  BY <1>5 DEF Reload, ScreenInv, Screens
<1>6. CASE UNCHANGED vars
  BY <1>1, <1>6 DEF vars
<1> QED
  BY <1>2, <1>3, <1>4, <1>5, <1>6, SelectKeepsScreen, OpenKeepsScreen, BrowserKeepsScreen
     DEF Next, UserStep

-----------------------------------------------------------------------------
(* Types *)

LEMMA ScreensAreStacks == Screens \subseteq ModalStacks(BrowserModals \cup {"opening"})
<1> DEFINE ms == BrowserModals \cup {"opening"}
<1>1. ASSUME NEW n \in 0..3, NEW s \in [1..n -> ms],
             \A i, j \in DOMAIN s : s[i] = s[j] => i = j
      PROVE  s \in ModalStacks(ms)
  BY <1>1 DEF ModalStacks
<1>2. <<>> \in [1..0 -> ms]
  OBVIOUS
<1>3. <<"opening">> \in [1..1 -> ms] /\ <<"browser">> \in [1..1 -> ms]
  BY DEF BrowserModals
<1>4. <<"browser", "confirm">> \in [1..2 -> ms] /\ <<"browser", "loading">> \in [1..2 -> ms]
  BY DEF BrowserModals
<1> HIDE DEF ms
<1>5. {0, 1, 2} \subseteq 0..3
  OBVIOUS
<1>6. ASSUME NEW s \in Screens PROVE s \in ModalStacks(ms)
  <2>1. \A i, j \in DOMAIN s : s[i] = s[j] => i = j
    BY DEF Screens
  <2> QED
    BY <1>1, <1>2, <1>3, <1>4, <1>5, <2>1 DEF Screens
<1> QED
  BY <1>6 DEF ms

Answers == [at : {"info", "application", "list"}, version : Versions, list : Lists]
Selections == [block : Blocks, status : Statuses] \cup {NoBlock}
Requests ==
    [op : AllCommands, block : Blocks, at : {"sent", "answered", "thrown"}] \cup {NoCommand}
RowValues == Statuses \cup {"unborn", "deleted"}
Stacks == ModalStacks(BrowserModals \cup {"opening"})

\* The type invariant, with a name for each set.
Typed ==
    /\ row \in [Blocks -> RowValues]
    /\ active \in Versions
    /\ shown \in Versions \cup {"none"}
    /\ list \in Lists
    /\ polls \subseteq Answers
    /\ selected \in Selections
    /\ timer \in BOOLEAN
    /\ modals \in Stacks
    /\ command \in Requests
    /\ changes \in 0..MaxChanges
    /\ faults \in 0..MaxFaults

LEMMA TypeIsTyped == (TypeOK <=> Typed) /\ (TypeOK' <=> Typed')
BY DEF TypeOK, Typed, Answers, Selections, Requests, RowValues, Stacks

LEMMA TypeStep == TypeOK /\ ScreenInv /\ [Next]_vars => TypeOK'
<1> SUFFICES ASSUME TypeOK, ScreenInv, [Next]_vars
             PROVE  Typed'
  BY TypeIsTyped
<1>0. Typed
  BY TypeIsTyped
<1> USE ForgeAssumption DEF server
<1>1. modals' \in Stacks /\ timer' \in BOOLEAN
  BY ScreenStep, ScreensAreStacks DEF ScreenInv, Stacks
<1>2. \A v \in Versions :
        /\ NoList \in Lists
        /\ {InfoAnswer(v), ApplicationAnswer(v), ListAnswer(v, RowsIn(v))} \subseteq Answers
  BY AnswersTyped DEF TypeOK, Answers
<1>3. Others => changes' \in 0..MaxChanges
  BY DEF Others, TypeOK
<1>4. Fault => faults' \in 0..MaxFaults
  BY DEF Fault, TypeOK
<1>5. CASE RowChanges
  <2>1. row' \in [Blocks -> RowValues]
    BY <1>0, <1>5
    DEF RowChanges, Rows!Next, Rows!RowStep, Rows!Insert, Rows!Report, Rows!Delete, Typed, RowValues
  <2> QED
    BY <1>0, <1>1, <1>3, <1>5, <2>1 DEF RowChanges, Typed
<1>6. CASE \E v \in Versions : ActivateVersion(v)
  BY <1>0, <1>1, <1>3, <1>6 DEF ActivateVersion, Typed
<1>7. CASE Interval
  BY <1>0, <1>1, <1>2, <1>7 DEF Interval, NewPoll, Typed
<1>8. CASE \E p \in polls : DeliverInfo(p) \/ DeliverApplication(p) \/ DeliverList(p) \/ PollFails(p)
  <2>1. PICK p \in polls : DeliverInfo(p) \/ DeliverApplication(p) \/ DeliverList(p) \/ PollFails(p)
    BY <1>8
  <2>2. p.version \in Versions /\ p.list \in Lists
    BY <1>0 DEF Typed, Answers
  <2>3. CASE DeliverInfo(p)
    BY <1>0, <1>1, <2>2, <2>3 DEF DeliverInfo, Typed
  <2>4. CASE DeliverApplication(p)
    BY <1>0, <1>1, <1>2, <2>2, <2>4 DEF DeliverApplication, Typed
  <2>5. CASE DeliverList(p)
    BY <1>0, <1>1, <2>2, <2>5 DEF DeliverList, Typed
  <2>6. CASE PollFails(p)
    BY <1>0, <1>1, <1>4, <2>6 DEF PollFails, Typed
  <2> QED
    BY <2>1, <2>3, <2>4, <2>5, <2>6
<1>9. CASE OpenBrowser
  BY <1>0, <1>1, <1>9 DEF OpenBrowser, Typed
<1>10. CASE Serve
  <2>1. command' \in Requests
    BY <1>10 DEF Serve, TypeOK, NoCommand, Requests
  <2>2. command.block \in Blocks
    BY <1>10 DEF Serve, TypeOK, NoCommand
  <2>3. row' \in [Blocks -> RowValues]
    BY <1>0, <1>10, <2>2 DEF Serve, Rows!Report, Rows!Delete, Typed, RowValues
  <2> QED
    BY <1>0, <1>1, <1>10, <2>1, <2>3 DEF Serve, Typed
<1>11. CASE CommandFails
  <2>1. command' \in Requests
    BY <1>11 DEF CommandFails, TypeOK, NoCommand, Requests
  <2> QED
    BY <1>0, <1>1, <1>4, <1>11, <2>1 DEF CommandFails, Typed
<1>12. CASE Deliver \/ ConfirmClose
  BY <1>0, <1>1, <1>2, <1>12 DEF Deliver, ConfirmClose, CloseBrowser, NewPoll, Typed, Requests
<1>13. CASE \E b \in Blocks : Select(b)
  <2>1. PICK b \in Blocks : Select(b)
    BY <1>13
  <2>2. list[b] \in Statuses
    BY <2>1 DEF Select, TypeOK, Lists
  <2>3. selected' \in Selections
    BY <2>1, <2>2 DEF Select, Selections
  <2> QED
    BY <1>0, <1>1, <2>1, <2>3 DEF Select, Typed
<1>14. CASE \E op \in Commands : Click(op)
  <2>1. PICK op \in Commands : Click(op)
    BY <1>14
  <2>2. selected.block \in Blocks
    <3>1. modals # <<>>
      BY <2>1, ScreenTops DEF Click
    <3> QED
      BY <3>1 DEF ScreenInv, Settled
  <2>3. command' \in Requests
    BY <2>1, <2>2 DEF Click, Requests
  <2> QED
    BY <1>0, <1>1, <2>1, <2>3 DEF Click, Typed
<1>15. CASE ClickClose \/ CancelClose
  BY <1>0, <1>1, <1>15 DEF ClickClose, CancelClose, Typed
<1>16. CASE Reload
  BY <1>0, <1>1, <1>2, <1>3, <1>16
     DEF Reload, Mounted, NewPoll, Typed, Requests, Selections
<1>17. CASE UNCHANGED vars
  BY <1>0, <1>17 DEF vars, Typed
<1> QED
  BY <1>5, <1>6, <1>7, <1>8, <1>9, <1>10, <1>11, <1>12, <1>13, <1>14, <1>15, <1>16, <1>17
     DEF Next, UserStep

LEMMA ForgeInit == Init => TypeOK /\ ScreenInv
<1> SUFFICES ASSUME Init PROVE TypeOK /\ ScreenInv
  OBVIOUS
<1> USE ForgeAssumption
<1>1. ScreenInv
  BY DEF Init, ScreenInv, Screens
<1>2. row \in [Blocks -> Statuses \cup {"unborn", "deleted"}]
  BY DEF Init, Rows!Init
<1>3. /\ NoList \in Lists
      /\ polls \subseteq [at : {"info", "application", "list"}, version : Versions, list : Lists]
  BY <1>2, AnswersTyped DEF Init, Mounted, NewPoll
<1>4. modals \in ModalStacks(BrowserModals \cup {"opening"})
  BY <1>1, ScreensAreStacks DEF ScreenInv
<1>5. /\ selected \in Selections /\ command \in Requests
      /\ changes \in 0..MaxChanges /\ faults \in 0..MaxFaults
  BY DEF Init, Selections, Requests
<1>6. Typed
  BY <1>2, <1>3, <1>4, <1>5 DEF Init, Typed, Answers, Stacks, RowValues
<1> QED
  BY <1>1, <1>6, TypeIsTyped

LEMMA ForgeInvariant == Spec => [](TypeOK /\ ScreenInv)
BY ForgeInit, ScreenStep, TypeStep, PTL DEF Spec

-----------------------------------------------------------------------------
(* The list *)

\* The title and the list show what the server has, and every answer on its way
\* will bring that again.
ListCurrent ==
    /\ shown = active /\ list = RowsIn(active)
    /\ \A p \in polls :
          /\ p.version = active
          /\ p.at = "list" => p.list = RowsIn(active)

\* Nobody changes the server or loads the page again.
Undisturbed == UNCHANGED <<row, active, changes>>

LEMMA RowsUndisturbed ==
    ASSUME UNCHANGED row, NEW v
    PROVE  RowsIn(v)' = RowsIn(v)
BY DEF RowsIn, Rows!Exists

LEMMA ListStaysCurrent ==
    ASSUME TypeOK, ListCurrent, [Next]_vars, Undisturbed
    PROVE  ListCurrent'
<1>0. /\ active' = active
      /\ \A v : RowsIn(v)' = RowsIn(v)
  BY RowsUndisturbed DEF Undisturbed
<1>1. ASSUME UNCHANGED <<shown, list>>, polls' \subseteq polls \cup {NewPoll}
      PROVE  ListCurrent'
  BY <1>0, <1>1 DEF ListCurrent, NewPoll, ApplicationAnswer
<1>2. ASSUME NEW p \in polls, DeliverInfo(p) PROVE ListCurrent'
  BY <1>0, <1>2 DEF ListCurrent, DeliverInfo
<1>3. ASSUME NEW p \in polls, DeliverApplication(p) PROVE ListCurrent'
  BY <1>0, <1>3 DEF ListCurrent, DeliverApplication, ListAnswer
<1>4. ASSUME NEW p \in polls, DeliverList(p) PROVE ListCurrent'
  BY <1>0, <1>4 DEF ListCurrent, DeliverList
<1>5. ASSUME NEW p \in polls, PollFails(p) PROVE ListCurrent'
  BY <1>1, <1>5 DEF PollFails
<1>6. CASE Interval \/ ConfirmClose \/ Deliver
  BY <1>1, <1>6 DEF Interval, ConfirmClose, Deliver, CloseBrowser
<1>7. CASE OpenBrowser \/ ClickClose \/ CancelClose \/ Serve \/ CommandFails
  BY <1>1, <1>7 DEF OpenBrowser, ClickClose, CancelClose, Serve, CommandFails
<1>8. ASSUME NEW b \in Blocks, Select(b) PROVE ListCurrent'
  BY <1>1, <1>8 DEF Select
<1>9. ASSUME NEW op \in Commands, Click(op) PROVE ListCurrent'
  BY <1>1, <1>9 DEF Click
<1>10. ~ Others
  <2>1. changes \in Nat /\ changes' = changes
    BY ForgeAssumption DEF TypeOK, Undisturbed
  <2> QED
    BY <2>1 DEF Others
<1>11. CASE RowChanges \/ Reload \/ \E v \in Versions : ActivateVersion(v)
  BY <1>10, <1>11 DEF RowChanges, Reload, ActivateVersion
<1>12. CASE UNCHANGED vars
  BY <1>1, <1>12 DEF vars
<1> QED
  BY <1>2, <1>3, <1>4, <1>5, <1>6, <1>7, <1>8, <1>9, <1>11, <1>12 DEF Next, UserStep

-----------------------------------------------------------------------------

\* The window holds what it may hold, in whatever order the answers of its
\* polls come in and whatever others do to the server; at most one modal lies
\* over the browser.
THEOREM ForgeTypeCorrect == Spec => []TypeOK
BY ForgeInvariant, PTL

\* handleSelectBlock writes the selection before it looks at the status and
\* opens the browser 1.4 seconds later on whatever is selected then
\* (Forge.tsx:63-70): its modal keeps the user from selecting another block
\* meanwhile, so that the browser stands open on none that was pending or
\* building when it was clicked.
THEOREM BrowserOpensOnSettled == Spec => []BrowserOnSettled
<1>1. ScreenInv => BrowserOnSettled
  <2> SUFFICES ASSUME ScreenInv, IsOpen(modals, "browser")
               PROVE  selected.status \in Statuses \ Unsettled
    BY DEF BrowserOnSettled
  <2>1. modals # <<>>
    BY DEF IsOpen
  <2> QED
    BY <2>1 DEF ScreenInv, Settled
<1> QED
  BY <1>1, ForgeInvariant, PTL

\* Once the title, the list and the answers on their way are those of the
\* server, they stay so, although polls go on overlapping (Forge.tsx:112), the user goes
\* on clicking and requests fail, until somebody changes the server: what is safe
\* about ListConverges.
THEOREM CurrentListStays == Spec /\ [][Undisturbed]_vars => [](ListCurrent => []ListCurrent)
<1>1. TypeOK /\ ListCurrent /\ [Next]_vars /\ [Undisturbed]_vars => ListCurrent'
  <2>1. UNCHANGED vars => Undisturbed
    BY DEF vars, Undisturbed
  <2> QED
    BY <2>1, ListStaysCurrent
<1> QED
  BY <1>1, ForgeTypeCorrect, PTL DEF Spec
==============================================================================

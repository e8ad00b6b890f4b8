---------------------------- MODULE WebPagesProofs -----------------------------
(***************************************************************************)
(* Proofs about the pages of the web-client, for every value of their      *)
(* constants: what all pages share, and the accounts, the versions and the *)
(* applications.  BlockPagesProofs has the pages of a block.               *)
(*                                                                         *)
(* A page takes no step while another is shown (PageStarts, PageSteps), so *)
(* the invariant of a page is proved of its own module.  None of the       *)
(* properties is inductive, because an answer says nothing of what it is   *)
(* about and the server does what it is told:                              *)
(*   - FormKnown ties the answers of the sign-up page to its field;        *)
(*   - Shown says what the reads of the tokens on their way will bring;    *)
(*   - ChecksKnown and CallsKnown say what a window knows of the list when *)
(*     it sends, each of the data that was computed from;                  *)
(*   - FormChecked, PeopleKnown and ListKnown do so for the applications.  *)
(***************************************************************************)
EXTENDS WebPages, FiniteSetTheorems, SequenceTheorems, TLAPS

-----------------------------------------------------------------------------
(* A tab *)

\* A page starts as its module says, and no other is shown.
LEMMA PageStarts ==
    ASSUME Init
    PROVE  /\ tab \in {"creator", "files", "tree", "accounts", "dashboard", "versions"}
           /\ tab = "creator" => Creator!Init
           /\ tab = "files" => Files!Init
           /\ tab = "tree" => Tree!Init
           /\ tab = "accounts" => Accounts!Init
           /\ tab = "dashboard" => Dashboard!Init
           /\ tab = "versions" => Versions!Init
<1>1. \/ tab = "creator" /\ Creator!Init
      \/ tab = "files" /\ Files!Init
      \/ tab = "tree" /\ Tree!Init
      \/ tab = "accounts" /\ Accounts!Init
      \/ tab = "dashboard" /\ Dashboard!Init
      \/ tab = "versions" /\ Versions!Init
  BY DEF Init
<1> QED
  BY <1>1

\* A tab keeps its page, and a step is one of the page or leaves it alone.
LEMMA PageSteps ==
    ASSUME [Next]_vars
    PROVE  /\ tab' = tab
           /\ tab = "creator" => [Creator!Next]_(Creator!vars)
           /\ tab = "files" => [Files!Next]_(Files!vars)
           /\ tab = "tree" => [Tree!Next]_(Tree!vars)
           /\ tab = "accounts" => [Accounts!Next]_(Accounts!vars)
           /\ tab = "dashboard" => [Dashboard!Next]_(Dashboard!vars)
           /\ tab = "versions" => [Versions!Next]_(Versions!vars)
<1>1. CASE UNCHANGED vars
  <2>1. UNCHANGED <<tab, creatorVars, config, puts, form, modals>>
        /\ UNCHANGED <<filesVars, treeVars, selected, events, mixed, checks>>
        /\ UNCHANGED <<accountsVars, dashboardVars, versionsVars, lists, crossed>>
    BY <1>1 DEF vars
  <2>2. UNCHANGED Creator!vars
    BY <2>1 DEF creatorVars, Creator!vars, Creator!server, Creator!net, Creator!history
  <2>3. UNCHANGED Files!vars
    BY <2>1 DEF filesVars, Files!vars, Files!storage, Files!shown, Files!edits, Files!history
  <2>4. UNCHANGED Tree!vars
    BY <2>1 DEF treeVars, Tree!vars
  <2>5. UNCHANGED Accounts!vars
    BY <2>1 DEF accountsVars, Accounts!vars, Accounts!db, Accounts!fields, Accounts!cli
  <2>6. UNCHANGED Dashboard!vars
    BY <2>1 DEF dashboardVars, Dashboard!vars, Dashboard!list, Dashboard!panel, Dashboard!form
  <2>7. UNCHANGED Versions!vars
    BY <2>1 DEF versionsVars, Versions!vars
  <2> QED
    BY <2>1, <2>2, <2>3, <2>4, <2>5, <2>6, <2>7
<1>2. CASE Next
  <2>1. tab' = tab
    BY <1>2 DEF Next, CreatorAlone, FilesAlone, TreeAlone, AccountsAlone, DashboardAlone, VersionsAlone
  <2>2. /\ tab = "creator" => Creator!Next
        /\ tab = "files" => Files!Next
        /\ tab = "tree" => Tree!Next
        /\ tab = "accounts" => Accounts!Next
        /\ tab = "dashboard" => Dashboard!Next
        /\ tab = "versions" => Versions!Next
    BY <1>2 DEF Next
  <2> QED
    BY <2>1, <2>2
<1> QED
  BY <1>1, <1>2

-----------------------------------------------------------------------------
(* Modals *)

Screen == INSTANCE Modals

\* The pages and the lemmas below count by the same operator.
LEMMA CardinalitiesAgree ==
    \A S : Screen!Cardinality(S) = Cardinality(S) /\ Versions!Cardinality(S) = Cardinality(S)
          /\ Files!Cardinality(S) = Cardinality(S)
BY DEF Screen!Cardinality, Versions!Cardinality, Files!Cardinality, Cardinality

\* They stack modals by the same operators.
LEMMA CreatorModals ==
    /\ \A s, ms : Creator!Closed(s, ms) = Screen!Closed(s, ms)
    /\ \A s, m : Creator!Opened(s, m) = Screen!Opened(s, m)
    /\ \A s : Creator!Top(s) = Screen!Top(s)
    /\ \A ms : Creator!ModalStacks(ms) = Screen!ModalStacks(ms)
BY DEF Creator!Closed, Creator!Opened, Creator!Top, Creator!ModalStacks, Creator!IsOpen, Creator!Cardinality,
   Screen!Closed, Screen!Opened, Screen!Top, Screen!ModalStacks, Screen!IsOpen, Screen!Cardinality

LEMMA AccountsModals ==
    /\ \A s, ms : Accounts!Closed(s, ms) = Screen!Closed(s, ms)
    /\ \A s, m : Accounts!Opened(s, m) = Screen!Opened(s, m)
    /\ \A s : Accounts!Top(s) = Screen!Top(s)
    /\ \A ms : Accounts!ModalStacks(ms) = Screen!ModalStacks(ms)
BY DEF Accounts!Closed, Accounts!Opened, Accounts!Top, Accounts!ModalStacks, Accounts!IsOpen, Accounts!Cardinality,
   Screen!Closed, Screen!Opened, Screen!Top, Screen!ModalStacks, Screen!IsOpen, Screen!Cardinality

LEMMA DashboardModals ==
    /\ \A s, ms : Dashboard!Closed(s, ms) = Screen!Closed(s, ms)
    /\ \A s, m : Dashboard!Opened(s, m) = Screen!Opened(s, m)
    /\ \A s : Dashboard!Top(s) = Screen!Top(s)
    /\ \A ms : Dashboard!ModalStacks(ms) = Screen!ModalStacks(ms)
BY DEF Dashboard!Closed, Dashboard!Opened, Dashboard!Top, Dashboard!ModalStacks, Dashboard!IsOpen, Dashboard!Cardinality,
   Screen!Closed, Screen!Opened, Screen!Top, Screen!ModalStacks, Screen!IsOpen, Screen!Cardinality

LEMMA VersionsModals ==
    /\ \A s, ms : Versions!Closed(s, ms) = Screen!Closed(s, ms)
    /\ \A s, m : Versions!Opened(s, m) = Screen!Opened(s, m)
    /\ \A s : Versions!Top(s) = Screen!Top(s)
    /\ \A ms : Versions!ModalStacks(ms) = Screen!ModalStacks(ms)
BY DEF Versions!Closed, Versions!Opened, Versions!Top, Versions!ModalStacks, Versions!IsOpen, Versions!Cardinality,
   Screen!Closed, Screen!Opened, Screen!Top, Screen!ModalStacks, Screen!IsOpen, Screen!Cardinality

\* Closing all modals that are open, and all but one.
LEMMA ClosedAll ==
    ASSUME NEW s, NEW ms, \A i \in DOMAIN s : s[i] \in ms
    PROVE  Screen!Closed(s, ms) = <<>>
<1>1. {i \in DOMAIN s : s[i] \notin ms} = {}
  OBVIOUS
<1>2. Cardinality({}) = 0
  BY FS_EmptySet
<1> DEFINE kept == {i \in DOMAIN s : s[i] \notin ms}
           Position(j) == CHOOSE i \in kept : Cardinality({k \in kept : k <= i}) = j
<1>3. Screen!Closed(s, ms) = [j \in 1..Cardinality(kept) |-> s[Position(j)]]
  BY DEF Screen!Closed, Screen!Cardinality, Cardinality
<1>4. 1..Cardinality(kept) = {}
  BY <1>1, <1>2
<1>5. [j \in 1..Cardinality(kept) |-> s[Position(j)]] = [j \in {} |-> s[Position(j)]]
  BY <1>4
<1>6. \A f : DOMAIN f = {} /\ f = [i \in DOMAIN f |-> f[i]] => f = <<>>
  OBVIOUS
<1>7. [j \in {} |-> s[Position(j)]] = <<>>
  OBVIOUS
<1> QED
  BY <1>3, <1>5, <1>7

LEMMA ClosedOne ==
    ASSUME NEW s, NEW ms, NEW n, {i \in DOMAIN s : s[i] \notin ms} = {n}, n \in Nat
    PROVE  Screen!Closed(s, ms) = <<s[n]>>
<1> DEFINE kept == {i \in DOMAIN s : s[i] \notin ms}
           Position(j) == CHOOSE i \in kept : Cardinality({k \in kept : k <= i}) = j
<1>0. kept = {n}
  OBVIOUS
<1>1. Cardinality(kept) = 1
  BY <1>0, FS_Singleton
<1>9. Screen!Closed(s, ms) = [j \in 1..Cardinality(kept) |-> s[Position(j)]]
  BY DEF Screen!Closed, Screen!Cardinality, Cardinality
<1> HIDE DEF kept
<1>4. {k \in kept : k <= n} = kept
  BY <1>0
<1>2. Position(1) = n
  BY <1>0, <1>1, <1>4
<1>3. Screen!Closed(s, ms) = [j \in 1..1 |-> s[Position(j)]]
  BY <1>1, <1>9
<1> HIDE DEF Position
<1>5. \A j \in 1..1 : s[Position(j)] = s[n]
  <2>1. \A j \in 1..1 : j = 1
    OBVIOUS
  <2> QED
    BY <1>2, <2>1
<1>6. [j \in 1..1 |-> s[Position(j)]] = [j \in 1..1 |-> s[n]]
  BY <1>5
<1>7. [j \in 1..1 |-> s[n]] = <<s[n]>>
  OBVIOUS
<1> QED
  BY <1>3, <1>6, <1>7

\* One modal over another.
LEMMA OpenedOver ==
    /\ \A m : Screen!Opened(<<>>, m) = <<m>>
    /\ \A a, b : a # b => Screen!Opened(<<a>>, b) = <<a, b>>
<1>1. \A m : ~ Screen!IsOpen(<<>>, m)
  BY DEF Screen!IsOpen
<1>2. \A a, b : a # b => ~ Screen!IsOpen(<<a>>, b)
  BY DEF Screen!IsOpen
<1>3. \A m : Append(<<>>, m) = <<m>>
  OBVIOUS
<1>4. ASSUME NEW a, NEW b PROVE Append(<<a>>, b) = <<a, b>>
  <2>1. <<a>> \in Seq({a, b}) /\ Len(<<a>>) = 1
    OBVIOUS
  <2>2. /\ Append(<<a>>, b) \in Seq({a, b}) /\ Len(Append(<<a>>, b)) = 2
        /\ Append(<<a>>, b)[1] = a /\ Append(<<a>>, b)[2] = b
    BY <2>1
  <2>3. <<a, b>> \in Seq({a, b}) /\ Len(<<a, b>>) = 2
    OBVIOUS
  <2>4. \A i \in 1..2 : Append(<<a>>, b)[i] = <<a, b>>[i]
    <3>1. \A i \in 1..2 : i = 1 \/ i = 2
      OBVIOUS
    <3> QED
      BY <2>2, <3>1
  <2> QED
    BY <2>2, <2>3, <2>4, SeqEqual
<1>5. \A m : Screen!Opened(<<>>, m) = <<m>>
  BY <1>1, <1>3 DEF Screen!Opened
<1>6. \A a, b : a # b => Screen!Opened(<<a>>, b) = <<a, b>>
  BY <1>2, <1>4 DEF Screen!Opened
<1> QED
  BY <1>5, <1>6

\* Two modals that stay.
LEMMA ClosedNeither ==
    ASSUME NEW a, NEW b, NEW ms, a \notin ms, b \notin ms
    PROVE  Screen!Closed(<<a, b>>, ms) = <<a, b>>
<1> DEFINE s == <<a, b>>
           kept == {i \in DOMAIN s : s[i] \notin ms}
           Position(j) == CHOOSE i \in kept : Cardinality({k \in kept : k <= i}) = j
<1>1. kept = {1, 2}
  OBVIOUS
<1>2. Cardinality(kept) = 2 /\ Cardinality({1}) = 1
  <2>1. IsFiniteSet({1}) /\ Cardinality({1}) = 1
    BY FS_Singleton
  <2>2. Cardinality({1} \cup {2}) = 2
    BY <2>1, FS_AddElement
  <2>3. {1} \cup {2} = {1, 2}
    OBVIOUS
  <2> QED
    BY <1>1, <2>1, <2>2, <2>3
<1>3. Screen!Closed(s, ms) = [j \in 1..Cardinality(kept) |-> s[Position(j)]]
  BY DEF Screen!Closed, Screen!Cardinality, Cardinality
<1> HIDE DEF kept
<1>4. Cardinality({k \in kept : k <= 1}) = 1 /\ Cardinality({k \in kept : k <= 2}) = 2
  <2>1. {k \in kept : k <= 1} = {1} /\ {k \in kept : k <= 2} = kept
    BY <1>1
  <2> QED
    BY <1>2, <2>1
<1>5. Position(1) = 1 /\ Position(2) = 2
  BY <1>1, <1>4
<1> HIDE DEF Position
<1>6. Screen!Closed(s, ms) = [j \in 1..2 |-> s[Position(j)]]
  BY <1>2, <1>3
<1>7. \A j \in 1..2 : s[Position(j)] = s[j]
  <2>1. \A j \in 1..2 : j = 1 \/ j = 2
    OBVIOUS
  <2> QED
    BY <1>5, <2>1
<1>8. [j \in 1..2 |-> s[Position(j)]] = [j \in 1..2 |-> s[j]]
  BY <1>7
<1>9. [j \in 1..2 |-> s[j]] = s
  OBVIOUS
<1> QED
  BY <1>6, <1>8, <1>9

\* Up to two modals lie over a page: what closing leaves of them, what opening
\* makes of them, and what the user reaches.
LEMMA StacksClose ==
    ASSUME NEW ms
    PROVE  /\ Screen!Closed(<<>>, ms) = <<>>
           /\ \A a : Screen!Closed(<<a>>, ms) = IF a \in ms THEN <<>> ELSE <<a>>
           /\ \A a, b : a # b =>
                Screen!Closed(<<a, b>>, ms) =
                    IF a \in ms THEN IF b \in ms THEN <<>> ELSE <<b>>
                    ELSE IF b \in ms THEN <<a>> ELSE <<a, b>>
<1>1. Screen!Closed(<<>>, ms) = <<>>
  BY ClosedAll
<1>2. ASSUME NEW a PROVE Screen!Closed(<<a>>, ms) = IF a \in ms THEN <<>> ELSE <<a>>
  <2>1. DOMAIN <<a>> = {1} /\ <<a>>[1] = a
    OBVIOUS
  <2>2. CASE a \in ms
    BY <2>1, <2>2, ClosedAll
  <2>3. CASE a \notin ms
    <3>1. {i \in DOMAIN <<a>> : <<a>>[i] \notin ms} = {1}
      BY <2>1, <2>3
    <3> QED
      BY <2>1, <2>3, <3>1, ClosedOne
  <2> QED
    BY <2>2, <2>3
<1>3. ASSUME NEW a, NEW b, a # b
      PROVE  Screen!Closed(<<a, b>>, ms) =
                IF a \in ms THEN IF b \in ms THEN <<>> ELSE <<b>>
                ELSE IF b \in ms THEN <<a>> ELSE <<a, b>>
  <2> DEFINE s == <<a, b>>
  <2>1. DOMAIN s = {1, 2} /\ s[1] = a /\ s[2] = b
    OBVIOUS
  <2> HIDE DEF s
  <2>2. CASE a \in ms /\ b \in ms
    BY <2>1, <2>2, ClosedAll DEF s
  <2>3. CASE a \in ms /\ b \notin ms
    <3>1. {i \in DOMAIN s : s[i] \notin ms} = {2}
      BY <2>1, <2>3
    <3>2. Screen!Closed(s, ms) = <<s[2]>>
      BY <3>1, ClosedOne
    <3> QED
      BY <2>1, <2>3, <3>2 DEF s
  <2>4. CASE a \notin ms /\ b \in ms
    <3>1. {i \in DOMAIN s : s[i] \notin ms} = {1}
      BY <2>1, <2>4
    <3>2. Screen!Closed(s, ms) = <<s[1]>>
      BY <3>1, ClosedOne
    <3> QED
      BY <2>1, <2>4, <3>2 DEF s
  <2>5. CASE a \notin ms /\ b \notin ms
    BY <2>5, ClosedNeither
  <2> QED
    BY <2>2, <2>3, <2>4, <2>5
<1> QED
  BY <1>1, <1>2, <1>3

LEMMA StacksOpen ==
    /\ \A m : Screen!Opened(<<>>, m) = <<m>>
    /\ \A a, m : Screen!Opened(<<a>>, m) = IF m = a THEN <<a>> ELSE <<a, m>>
    /\ \A a, b, m : m \in {a, b} => Screen!Opened(<<a, b>>, m) = <<a, b>>
<1>1. ASSUME NEW a PROVE Screen!Opened(<<a>>, a) = <<a>>
  BY DEF Screen!Opened, Screen!IsOpen
<1>2. ASSUME NEW a, NEW b, NEW m \in {a, b} PROVE Screen!Opened(<<a, b>>, m) = <<a, b>>
  <2>1. DOMAIN <<a, b>> = {1, 2} /\ <<a, b>>[1] = a /\ <<a, b>>[2] = b
    OBVIOUS
  <2>2. \E i \in DOMAIN <<a, b>> : <<a, b>>[i] = m
    BY <2>1
  <2> QED
    BY <2>2 DEF Screen!Opened, Screen!IsOpen
<1> QED
  BY <1>1, <1>2, OpenedOver

LEMMA StacksTop ==
    /\ Screen!Top(<<>>) = "page"
    /\ \A a : Screen!Top(<<a>>) = a
    /\ \A a, b : Screen!Top(<<a, b>>) = b
BY DEF Screen!Top

LEMMA StacksTyped ==
    ASSUME NEW ms
    PROVE  /\ <<>> \in Screen!ModalStacks(ms)
           /\ \A a \in ms : <<a>> \in Screen!ModalStacks(ms)
           /\ \A a, b \in ms : a # b => <<a, b>> \in Screen!ModalStacks(ms)
<1> DEFINE Longest == UNION {[1..n -> ms] : n \in 0..3}
           Once(s) == \A i, j \in DOMAIN s : s[i] = s[j] => i = j
<1>0. Screen!ModalStacks(ms) = {s \in Longest : Once(s)}
  BY DEF Screen!ModalStacks
<1>1. ASSUME NEW n \in 0..3, NEW s \in [1..n -> ms] PROVE s \in Longest
  OBVIOUS
<1> HIDE DEF Longest
<1>2. <<>> \in Longest /\ Once(<<>>)
  <2>1. <<>> \in [1..0 -> ms] /\ 0 \in 0..3
    OBVIOUS
  <2>2. <<>> \in Longest
    BY <1>1, <2>1
  <2>3. DOMAIN <<>> = {}
    OBVIOUS
  <2> QED
    BY <2>2, <2>3
<1>3. ASSUME NEW a \in ms PROVE <<a>> \in Longest /\ Once(<<a>>)
  <2>1. <<a>> \in [1..1 -> ms]
    OBVIOUS
  <2> QED
    BY <1>1, <2>1
<1>4. ASSUME NEW a \in ms, NEW b \in ms, a # b PROVE <<a, b>> \in Longest /\ Once(<<a, b>>)
  <2>1. <<a, b>> \in [1..2 -> ms]
    OBVIOUS
  <2>2. DOMAIN <<a, b>> = {1, 2} /\ <<a, b>>[1] = a /\ <<a, b>>[2] = b
    OBVIOUS
  <2> QED
    BY <1>1, <1>4, <2>1, <2>2
<1> QED
  BY <1>0, <1>2, <1>3, <1>4

-----------------------------------------------------------------------------
(* Accounts *)

Addresses == Emails \cup {"", "malformed"}
Passwords == {"", "short", "long", "theirs"}
Registrations == [id : Accounts!Ids, email : Addresses, password : Passwords,
                  at : {"select", "insert", "cap", "login", "thrown"}]

\* The part of the type invariant the proof needs.
FormOK ==
    /\ form = [email |-> form.email, password |-> form.password,
               confirmed |-> form.confirmed, name |-> form.name]
    /\ form.email \in Addresses /\ form.password \in Passwords
AccountsOK ==
    /\ FormOK
    /\ registers \subseteq Registrations

\* Off the sign-up page there are no checks; on it, what is on its way is about
\* the address in the field, and what leads on was found free.
FormKnown ==
    /\ page # "signup" => stage = 1 /\ checks = {}
    /\ stage \in 1 .. 3
    /\ racing \/ \A e \in checks : e = form.email
    /\ stage # 1 => racing \/ form.email \in free
    /\ stage = 3 => form.password = "long" /\ form.confirmed

AccountsInv == AccountsOK /\ FormKnown /\ Accounts!EmailsUnique /\ Accounts!UsersCapped

-----------------------------------------------------------------------------

LEMMA InitAccountsInv ==
    ASSUME Accounts!Init
    PROVE  AccountsInv
<1>1. AccountsOK
  BY DEF Accounts!Init, AccountsOK, FormOK, Accounts!EmptyForm, Addresses, Passwords
<1>2. FormKnown
  BY DEF Accounts!Init, FormKnown
<1>3. Accounts!EmailsUnique /\ Accounts!UsersCapped
  BY DEF Accounts!Init, Accounts!EmailsUnique, Accounts!UsersCapped, Accounts!Registered
<1> QED
  BY <1>1, <1>2, <1>3 DEF AccountsInv

\* A page that is shown anew has an empty form and no checks.
LEMMA VisitKnown ==
    ASSUME AccountsInv, NEW p \in {"signin", "signup", "app"}, Accounts!Visit(p)
    PROVE  FormOK' /\ FormKnown'
<1>1. FormOK'
  BY DEF Accounts!Visit, Accounts!EmptyForm, FormOK, Addresses, Passwords
<1>2. stage' = 1 /\ checks' = {}
  BY DEF Accounts!Visit
<1>3. FormKnown'
  BY <1>2 DEF FormKnown
<1> QED
  BY <1>1, <1>3

\* A registration that takes its next step is the one it was.
LEMMA MoveToOK ==
    ASSUME registers \subseteq Registrations, NEW r \in registers,
           NEW step \in {"select", "insert", "cap", "login", "thrown"}
    PROVE  /\ [r EXCEPT !.at = step] \in Registrations
           /\ [r EXCEPT !.at = step].id = r.id
           /\ [r EXCEPT !.at = step].at = step
           /\ Accounts!MoveTo(r, step) = (registers \ {r}) \cup {[r EXCEPT !.at = step]}
           /\ Accounts!MoveTo(r, step) \subseteq Registrations
BY DEF Registrations, Accounts!MoveTo

\* The registrations that have made the user and not the cap.
Uncharged(id) == \E r \in registers : r.at = "cap" /\ r.id = id

LEMMA UsersCappedAgain ==
    Accounts!UsersCapped <=> \A u \in users : u.id \in caps \/ u.id \in uncapped \/ Uncharged(u.id)
BY DEF Accounts!UsersCapped, Uncharged

\* A step that touches no registration and no user.
LEMMA TablesUntouched ==
    ASSUME AccountsInv, UNCHANGED <<users, caps, registers, uncapped>>
    PROVE  Accounts!EmailsUnique' /\ Accounts!UsersCapped' /\ registers' \subseteq Registrations
BY DEF AccountsInv, AccountsOK, Accounts!EmailsUnique, Accounts!UsersCapped, Registrations

\* A step of a registration keeps the form and takes the tables a step further.
LEMMA RegisterKeeps ==
    ASSUME AccountsInv, NEW r \in registers,
           Accounts!SelectEmail(r) \/ Accounts!InsertUser(r) \/ Accounts!CreateCap(r) \/ Accounts!CapFails(r)
    PROVE  registers' \subseteq Registrations /\ Accounts!EmailsUnique' /\ Accounts!UsersCapped'
<1> USE DEF AccountsInv
<1>1. registers \subseteq Registrations /\ r.id \in Accounts!Ids
  BY DEF AccountsOK, Registrations
<1>2. PICK step \in {"insert", "cap", "login", "thrown"} :
         \/ registers' = Accounts!MoveTo(r, step)
         \/ registers' = registers \ {r}
  BY DEF Accounts!SelectEmail, Accounts!InsertUser, Accounts!CreateCap, Accounts!CapFails, Accounts!Refused
<1>3. registers' \subseteq Registrations
  <2>1. Accounts!MoveTo(r, step) \subseteq Registrations
    BY <1>1, MoveToOK
  <2> QED
    BY <1>1, <1>2, <2>1
<1>4. CASE Accounts!SelectEmail(r) \/ (Accounts!InsertUser(r) /\ users' = users)
  <2>1. UNCHANGED <<users, caps, uncapped>> /\ r.at # "cap"
    BY <1>4 DEF Accounts!SelectEmail, Accounts!InsertUser, Accounts!db
  <2>2. \A q \in registers : q # r => q \in registers'
    BY <1>2 DEF Accounts!MoveTo
  <2>3. \A id \in Accounts!Ids \cup {u.id : u \in users} : Uncharged(id) => Uncharged(id)'
    BY <2>1, <2>2 DEF Uncharged
  <2>4. Accounts!UsersCapped'
    BY <2>1, <2>3 DEF Accounts!UsersCapped, Uncharged
  <2> QED
    BY <1>3, <2>1, <2>4 DEF Accounts!EmailsUnique
<1>5. CASE Accounts!InsertUser(r) /\ users' # users
  <2>1. /\ users' = users \cup {Accounts!Registered(r.id, r.email, r.password)}
        /\ ~ \E u \in users : u.email = r.email
        /\ registers' = Accounts!MoveTo(r, "cap") /\ r.at = "insert"
        /\ UNCHANGED <<caps, uncapped>>
    BY <1>5 DEF Accounts!InsertUser
  <2>2. Accounts!EmailsUnique'
    BY <2>1 DEF Accounts!EmailsUnique, Accounts!Registered
  <2>3. /\ [r EXCEPT !.at = "cap"] \in registers'
        /\ [r EXCEPT !.at = "cap"].id = r.id /\ [r EXCEPT !.at = "cap"].at = "cap"
    BY <1>1, <2>1, MoveToOK
  <2>4. \A q \in registers : q.at = "cap" => q \in registers'
    BY <2>1 DEF Accounts!MoveTo
  <2>5. \A u \in users' : u \in users \/ u.id = r.id
    BY <2>1 DEF Accounts!Registered
  <2>6. Accounts!UsersCapped'
    <3> SUFFICES ASSUME NEW u \in users' PROVE u.id \in caps \cup uncapped \/ Uncharged(u.id)'
      BY <2>1 DEF Accounts!UsersCapped, Uncharged
    <3>1. CASE u \in users
      BY <2>4, <3>1, UsersCappedAgain DEF Uncharged
    <3>2. CASE u.id = r.id
      BY <2>3, <3>2 DEF Uncharged
    <3> QED
      BY <2>5, <3>1, <3>2
  <2> QED
    BY <1>3, <2>2, <2>6
<1>6. CASE Accounts!CreateCap(r) \/ Accounts!CapFails(r)
  <2>1. /\ users' = users /\ caps \cup uncapped \subseteq caps' \cup uncapped'
        /\ r.id \in caps' \cup uncapped'
    BY <1>6 DEF Accounts!CreateCap, Accounts!CapFails, Accounts!db
  <2>2. \A q \in registers : q # r => q \in registers'
    BY <1>2 DEF Accounts!MoveTo
  <2>3. Accounts!UsersCapped'
    BY <2>1, <2>2 DEF Accounts!UsersCapped
  <2> QED
    BY <1>3, <2>1, <2>3 DEF Accounts!EmailsUnique
<1> QED
  BY <1>4, <1>5, <1>6

\* A registration that ends, or one that begins, is none that has made a user
\* without a cap.
LEMMA RegistersChange ==
    ASSUME AccountsInv, UNCHANGED <<users, caps, uncapped>>,
           registers' \subseteq Registrations,
           \A q \in registers : q.at = "cap" => q \in registers'
    PROVE  Accounts!EmailsUnique' /\ Accounts!UsersCapped'
BY DEF AccountsInv, Accounts!EmailsUnique, Accounts!UsersCapped

-----------------------------------------------------------------------------

LEMMA StepAccountsInv ==
    ASSUME AccountsInv, [Accounts!Next]_(Accounts!vars)
    PROVE  AccountsInv'
<1> USE DEF AccountsInv
<1> DEFINE Tables == <<users, caps, registers, uncapped>>
           Fields == <<page, stage, form, checks, free, racing>>
\* What steps leave alone that are about neither page nor tables.
<1>1. ASSUME UNCHANGED Fields
      PROVE  FormKnown' /\ FormOK'
  BY <1>1 DEF FormKnown, AccountsOK, FormOK
<1>2. CASE UNCHANGED Accounts!vars
  BY <1>1, <1>2, TablesUntouched DEF Accounts!vars, Accounts!db, Accounts!fields, AccountsOK
<1>3. ASSUME NEW e \in Emails \cup {"malformed"}, Accounts!TypeEmail(e) PROVE AccountsInv'
  <2>1. FormKnown' /\ FormOK'
    BY <1>3 DEF Accounts!TypeEmail, Accounts!On, FormKnown, AccountsOK, FormOK, Addresses
  <2> QED
    BY <1>3, <2>1, TablesUntouched DEF Accounts!TypeEmail, Accounts!db, AccountsOK
<1>4. CASE Accounts!CheckEmail \/ Accounts!CheckPassword
  <2>1. FormKnown' /\ form' = form
    BY <1>4 DEF Accounts!CheckEmail, Accounts!CheckPassword, Accounts!On, FormKnown
  <2> QED
    BY <1>4, <2>1, TablesUntouched DEF Accounts!CheckEmail, Accounts!CheckPassword, Accounts!db, AccountsOK, FormOK
<1>5. ASSUME NEW e \in checks, Accounts!DeliverCheck(e) PROVE AccountsInv'
  <2>1. FormKnown' /\ form' = form
    BY <1>5 DEF Accounts!DeliverCheck, FormKnown
  <2> QED
    BY <1>5, <2>1, TablesUntouched DEF Accounts!DeliverCheck, Accounts!db, AccountsOK, FormOK
<1>6. ASSUME NEW p \in {"short", "long"}, NEW same \in BOOLEAN, Accounts!TypePassword(p, same)
      PROVE  AccountsInv'
  <2>1. /\ form' = [form EXCEPT !.password = p, !.confirmed = same]
        /\ stage' = 2 /\ UNCHANGED <<page, checks, free, racing>>
    BY <1>6 DEF Accounts!TypePassword, Accounts!On
  <2>2. FormOK' /\ form'.email = form.email
    BY <2>1 DEF AccountsOK, FormOK, Passwords
  <2>3. FormKnown'
    BY <1>6, <2>1, <2>2 DEF FormKnown, Accounts!TypePassword, Accounts!On
  <2> QED
    BY <1>6, <2>2, <2>3, TablesUntouched DEF Accounts!TypePassword, Accounts!db, AccountsOK
<1>7. ASSUME NEW n \in {"odd", "fine"}, Accounts!TypeName(n) PROVE AccountsInv'
  <2>1. FormKnown' /\ FormOK'
    BY <1>7 DEF Accounts!TypeName, Accounts!On, FormKnown, AccountsOK, FormOK
  <2> QED
    BY <1>7, <2>1, TablesUntouched DEF Accounts!TypeName, Accounts!db, AccountsOK
<1>8. ASSUME NEW e \in Emails, NEW p \in {"long", "theirs"}, Accounts!TypeCredentials(e, p)
      PROVE  AccountsInv'
  <2>1. /\ form' = [form EXCEPT !.email = e, !.password = p]
        /\ stage = 1 /\ checks = {} /\ UNCHANGED <<page, stage, checks>>
    BY <1>8 DEF Accounts!TypeCredentials, FormKnown
  <2>2. FormOK'
    BY <2>1 DEF AccountsOK, FormOK, Addresses, Passwords
  <2>3. FormKnown'
    BY <2>1 DEF FormKnown
  <2> QED
    BY <1>8, <2>2, <2>3, TablesUntouched DEF Accounts!TypeCredentials, Accounts!db, AccountsOK
<1>9. ASSUME Accounts!ClickSignUp \/ \E e \in Emails : Accounts!OtherSignsUp(e) PROVE AccountsInv'
  <2>1. UNCHANGED <<Fields, users, caps, uncapped>>
    BY <1>9 DEF Accounts!ClickSignUp, Accounts!OtherSignsUp, Accounts!fields, Accounts!db
  <2>2. PICK new \in Registrations : registers' = registers \cup {new}
    <3>1. CASE Accounts!ClickSignUp
      BY <3>1 DEF Accounts!ClickSignUp, AccountsOK, FormOK, Registrations, Accounts!Ids
    <3>2. ASSUME NEW e \in Emails, Accounts!OtherSignsUp(e)
          PROVE  \E new \in Registrations : registers' = registers \cup {new}
      BY <3>2 DEF Accounts!OtherSignsUp, Registrations, Accounts!Ids, Addresses, Passwords
    <3> QED
      BY <1>9, <3>1, <3>2
  <2>3. registers' \subseteq Registrations
    BY <2>2 DEF AccountsOK
  <2> QED
    BY <1>1, <2>1, <2>2, <2>3, RegistersChange DEF AccountsOK
<1>10. ASSUME NEW r \in registers, Accounts!SelectEmail(r) \/ Accounts!InsertUser(r) \/ Accounts!CreateCap(r) \/ Accounts!CapFails(r)
       PROVE  AccountsInv'
  <2>1. UNCHANGED Fields
    BY <1>10 DEF Accounts!SelectEmail, Accounts!InsertUser, Accounts!CreateCap, Accounts!CapFails, Accounts!fields
  <2> QED
    BY <1>1, <1>10, <2>1, RegisterKeeps DEF AccountsOK
<1>11. ASSUME NEW r \in registers, Accounts!LoginAfterSignUp(r) \/ Accounts!LoginAfterSignUpFails(r) PROVE AccountsInv'
  <2>1. /\ Accounts!Visit("app") /\ r.at = "login" /\ registers' = registers \ {r}
        /\ UNCHANGED <<users, caps, uncapped>>
    BY <1>11 DEF Accounts!LoginAfterSignUp, Accounts!LoginAfterSignUpFails, Accounts!db
  <2>2. registers' \subseteq Registrations
    BY <2>1 DEF AccountsOK
  <2>3. Accounts!EmailsUnique' /\ Accounts!UsersCapped'
    BY <2>1, <2>2, RegistersChange
  <2> QED
    BY <2>1, <2>2, <2>3, VisitKnown DEF AccountsOK
<1>12. ASSUME UNCHANGED Tables, (UNCHANGED Fields) \/ \E p \in {"signin", "signup", "app"} : Accounts!Visit(p)
       PROVE  AccountsInv'
  BY <1>1, <1>12, VisitKnown, TablesUntouched DEF AccountsOK
<1>13. CASE Accounts!SignIn \/ Accounts!Logout \/ Accounts!OtherLogout \/ Accounts!Unauthorized \/ Accounts!TokenServed \/ Accounts!ServeList \/ Accounts!RequestFails
  <2>1. UNCHANGED Tables
    BY <1>13 DEF Accounts!SignIn, Accounts!Logout, Accounts!OtherLogout, Accounts!Unauthorized, Accounts!TokenServed, Accounts!ServeList, Accounts!RequestFails, Accounts!db
  <2>2. (UNCHANGED Fields) \/ Accounts!Visit("signin")
    BY <1>13 DEF Accounts!SignIn, Accounts!Logout, Accounts!OtherLogout, Accounts!Unauthorized, Accounts!TokenServed, Accounts!ServeList, Accounts!RequestFails, Accounts!fields
  <2> QED
    BY <1>12, <2>1, <2>2
<1>14. ASSUME NEW l \in logins, Accounts!LoginServed(l) \/ Accounts!LoginRefused(l) PROVE AccountsInv'
  <2>1. UNCHANGED Tables
    BY <1>14 DEF Accounts!LoginServed, Accounts!LoginRefused, Accounts!db
  <2>2. (UNCHANGED Fields) \/ Accounts!Visit("app")
    BY <1>14 DEF Accounts!LoginServed, Accounts!LoginRefused, Accounts!fields
  <2> QED
    BY <1>12, <2>1, <2>2
<1>15. ASSUME NEW p \in {"signin", "signup"}, Accounts!FollowLink(p) PROVE AccountsInv'
  BY <1>12, <1>15 DEF Accounts!FollowLink, Accounts!db
<1>16. ASSUME NEW c \in CliTokens \cup {"create"}, Accounts!ClickToken(c) PROVE AccountsInv'
  BY <1>12, <1>16 DEF Accounts!ClickToken, Accounts!db, Accounts!fields
<1>17. ASSUME NEW a \in lists, Accounts!DeliverList(a) PROVE AccountsInv'
  BY <1>12, <1>17 DEF Accounts!DeliverList, Accounts!db, Accounts!fields
<1> QED
  BY <1>2, <1>3, <1>4, <1>5, <1>6, <1>7, <1>8, <1>9, <1>10, <1>11, <1>13, <1>14, <1>15, <1>16, <1>17
     DEF Accounts!Next, Accounts!UserStep, Accounts!Progress

\* For any number of addresses and requests: what the last stage of the sign-up
\* page sends was checked, no two users have one address, and every user has a
\* cap for applications unless it was reported that it could not be made.
THEOREM RegistrationsSound == Spec => []AccountsSound
<1> DEFINE Inv == tab = "accounts" => AccountsInv
<1>1. Init => Inv
  BY PageStarts, InitAccountsInv
<1>2. Inv /\ [Next]_vars => Inv'
  BY PageSteps, StepAccountsInv
<1>3. Inv => AccountsSound
  BY DEF AccountsInv, FormKnown, AccountsSound, Accounts!AccountsSound, Accounts!RegistrationChecked
<1> QED
  BY <1>1, <1>2, <1>3, PTL DEF Spec

-----------------------------------------------------------------------------
(* The page of the application *)

\* The page is about the session as it is read: until something crossed there is
\* one read of the tokens at most, what it has read is what the user has, so is
\* what the page shows when none is under way, and a page without a session has
\* asked for something, or asked before the session ended.
Shown ==
    /\ \A a, b \in lists : a = b
    /\ Accounts!User(cookie) # "none" =>
          /\ \A a \in lists : a.read => a.found = Accounts!Owned(Accounts!User(cookie))
          /\ lists = {} => tokens = Accounts!Owned(Accounts!User(cookie))
    /\ Accounts!User(cookie) = "none" => Accounts!Asked \in lists \/ ended
ShownInv == page = "app" /\ ~ crossed => Shown

\* A page that is shown anew asks for its tokens.
LEMMA VisitShows ==
    ASSUME NEW p, Accounts!Visit(p)
    PROVE  ShownInv'
<1>1. p = "app" => lists' = {Accounts!Asked}
  BY DEF Accounts!Visit
<1>2. Accounts!Asked.read = FALSE
  BY DEF Accounts!Asked
<1>3. page' = p
  BY DEF Accounts!Visit
<1> QED
  BY <1>1, <1>2, <1>3 DEF ShownInv, Shown

\* The session of the browser, and the tokens of its user.
Session == <<sessions, cliTokens, cookie>>

LEMMA SameUser ==
    ASSUME UNCHANGED Session
    PROVE  Accounts!User(cookie)' = Accounts!User(cookie) /\ Accounts!Owned(Accounts!User(cookie))' = Accounts!Owned(Accounts!User(cookie))
BY DEF Session, Accounts!User, Accounts!Owned

\* A step that touches neither the session nor the page.
LEMMA ShownStays ==
    ASSUME ShownInv, UNCHANGED <<Session, page, lists, tokens, crossed, ended>>
    PROVE  ShownInv'
BY SameUser DEF ShownInv, Shown, Session

\* Another device signs the user out: what has not been asked for yet will not
\* be answered, and the rest is of a session that ended.
LEMMA OtherLogoutShows ==
    ASSUME ShownInv, Accounts!OtherLogout
    PROVE  ShownInv'
<1>1. UNCHANGED <<cliTokens, cookie, page, lists, tokens, crossed>>
  BY DEF Accounts!OtherLogout
<1>2. Accounts!User(cookie)' = Accounts!User(cookie) \/ Accounts!User(cookie)' = "none"
  BY <1>1 DEF Accounts!OtherLogout, Accounts!User, Accounts!Ids
<1>3. \A i : Accounts!Owned(i)' = Accounts!Owned(i)
  BY <1>1 DEF Accounts!Owned
<1>4. /\ Accounts!User(cookie)' = "none" => Accounts!Asked \in lists \/ ended'
  BY DEF Accounts!OtherLogout
<1>5. Accounts!User(cookie)' # "none" => Accounts!User(cookie)' = Accounts!User(cookie) /\ Accounts!Owned(Accounts!User(cookie))' = Accounts!Owned(Accounts!User(cookie))
  BY <1>1, <1>2 DEF Accounts!Owned
<1> QED
  BY <1>1, <1>4, <1>5 DEF ShownInv, Shown

\* The requests of the page.
LEMMA RequestShows ==
    ASSUME ShownInv, Accounts!TokenServed \/ Accounts!ServeList \/ (\E a \in lists : Accounts!DeliverList(a)) \/ Accounts!RequestFails
    PROVE  ShownInv'
<1> SUFFICES ASSUME page' = "app", ~ crossed'
             PROVE  Shown'
  BY DEF ShownInv
<1>1. UNCHANGED <<page, sessions, cookie>> /\ Accounts!User(cookie)' = Accounts!User(cookie)
  BY DEF Accounts!TokenServed, Accounts!ServeList, Accounts!DeliverList, Accounts!RequestFails, Accounts!db, Accounts!User
<1>2. ~ crossed /\ Shown
  <2>1. crossed' = crossed \/ crossed' = (crossed \/ lists # {}) \/ crossed' = TRUE
    BY DEF Accounts!TokenServed, Accounts!ServeList, Accounts!DeliverList, Accounts!RequestFails
  <2>2. ~ crossed
    BY <2>1, Zenon
  <2> QED
    BY <1>1, <2>2 DEF ShownInv
<1>3. CASE Accounts!TokenServed
  <2>1. lists' = {Accounts!Asked}
    <3>1. lists = {}
      BY <1>3, Zenon DEF Accounts!TokenServed
    <3> QED
      BY <1>3, <3>1 DEF Accounts!TokenServed
  <2>2. Accounts!Asked.read = FALSE
    BY DEF Accounts!Asked
  <2> QED
    BY <2>1, <2>2 DEF Shown
<1>4. CASE Accounts!ServeList
  <2>1. lists \ {Accounts!Asked} = {}
    BY <1>2, <1>4 DEF Accounts!ServeList, Shown
  <2>2. lists' = {[read |-> TRUE, found |-> Accounts!Owned(Accounts!User(cookie))]}
    BY <1>4, <2>1 DEF Accounts!ServeList
  <2>3. Accounts!User(cookie) # "none" /\ UNCHANGED Session
    BY <1>4 DEF Accounts!ServeList, Session, Accounts!db
  <2>4. Accounts!User(cookie)' = Accounts!User(cookie) /\ Accounts!Owned(Accounts!User(cookie))' = Accounts!Owned(Accounts!User(cookie))
    BY <2>3, SameUser
  <2>5. \A a \in lists' : a.found = Accounts!Owned(Accounts!User(cookie))
    BY <2>2
  <2> QED
    BY <2>2, <2>3, <2>4, <2>5 DEF Shown
<1>5. CASE \E a \in lists : Accounts!DeliverList(a)
  <2>1. PICK a \in lists : Accounts!DeliverList(a)
    BY <1>5
  <2>2. lists' = {} /\ lists = {a} /\ a.read /\ tokens' = a.found /\ ended' = ended
    BY <1>2, <2>1 DEF Accounts!DeliverList, Shown
  <2>3. a # Accounts!Asked /\ UNCHANGED Session
    BY <2>1, <2>2 DEF Accounts!DeliverList, Accounts!Asked, Session, Accounts!db
  <2> QED
    BY <1>2, <2>2, <2>3, SameUser DEF Shown
<1>6. CASE Accounts!RequestFails
  <2>1. UNCHANGED <<Session, lists, tokens, ended>>
    BY <1>6 DEF Accounts!RequestFails, Session, Accounts!db
  <2> QED
    BY <1>2, <2>1, SameUser DEF Shown
<1> QED
  BY <1>3, <1>4, <1>5, <1>6

LEMMA StepShownInv ==
    ASSUME ShownInv, [Accounts!Next]_(Accounts!vars)
    PROVE  ShownInv'
<1> DEFINE Page == <<Session, page, lists, tokens, crossed, ended>>
<1>1. CASE \/ \E e \in Emails \cup {"malformed"} : Accounts!TypeEmail(e)
           \/ Accounts!CheckEmail \/ Accounts!CheckPassword \/ Accounts!ClickSignUp \/ Accounts!SignIn
           \/ \E p \in {"short", "long"}, same \in BOOLEAN : Accounts!TypePassword(p, same)
           \/ \E n \in {"odd", "fine"} : Accounts!TypeName(n)
           \/ \E e \in Emails, p \in {"long", "theirs"} : Accounts!TypeCredentials(e, p)
           \/ \E e \in checks : Accounts!DeliverCheck(e)
           \/ \E e \in Emails : Accounts!OtherSignsUp(e)
  <2>1. UNCHANGED Page
    BY <1>1 DEF Accounts!TypeEmail, Accounts!CheckEmail, Accounts!CheckPassword, Accounts!ClickSignUp, Accounts!SignIn, Accounts!TypePassword, Accounts!TypeName,
       Accounts!TypeCredentials, Accounts!DeliverCheck, Accounts!OtherSignsUp, Session, Accounts!db, Accounts!cli
  <2> QED
    BY <2>1, ShownStays
<1>2. CASE \/ \E c \in CliTokens \cup {"create"} : Accounts!ClickToken(c)
           \/ \E r \in registers : Accounts!SelectEmail(r) \/ Accounts!InsertUser(r) \/ Accounts!CreateCap(r) \/ Accounts!CapFails(r)
           \/ \E l \in logins : Accounts!LoginRefused(l)
  <2>1. UNCHANGED Page
    BY <1>2 DEF Accounts!ClickToken, Accounts!SelectEmail, Accounts!InsertUser, Accounts!CreateCap, Accounts!CapFails, Accounts!LoginRefused, Session, Accounts!db, Accounts!cli
  <2> QED
    BY <2>1, ShownStays
<1>3. CASE \/ Accounts!Logout \/ Accounts!Unauthorized
           \/ \E p \in {"signin", "signup"} : Accounts!FollowLink(p)
           \/ \E r \in registers : Accounts!LoginAfterSignUp(r) \/ Accounts!LoginAfterSignUpFails(r)
  <2>1. \E p \in {"signin", "signup", "app"} : Accounts!Visit(p)
    BY <1>3 DEF Accounts!Logout, Accounts!Unauthorized, Accounts!FollowLink, Accounts!LoginAfterSignUp, Accounts!LoginAfterSignUpFails
  <2> QED
    BY <2>1, VisitShows
<1>4. ASSUME NEW l \in logins, Accounts!LoginServed(l) PROVE ShownInv'
  <2>1. crossed' \/ Accounts!Visit("app")
    BY <1>4 DEF Accounts!LoginServed
  <2> QED
    BY <2>1, VisitShows DEF ShownInv
<1>5. CASE UNCHANGED Accounts!vars
  BY <1>5, ShownStays DEF Accounts!vars, Accounts!db, Accounts!cli, Session
<1> QED
  BY <1>1, <1>2, <1>3, <1>4, <1>5, OtherLogoutShows, RequestShows DEF Accounts!Next, Accounts!UserStep, Accounts!Progress

\* For any number of tokens, sign-ins, sign-outs elsewhere and failing requests:
\* the tokens on the page are those of the user whose session the browser sends,
\* unless two reads of them crossed, one failed or a second sign-in ended on the
\* page; and without a session the browser is still there only because the
\* session ended after its last request.
THEOREM SessionIsShown == Spec => []SessionShown
<1> DEFINE Inv == tab = "accounts" => ShownInv
<1>1. Init => Inv
  BY PageStarts DEF Accounts!Init, ShownInv
<1>2. Inv /\ [Next]_vars => Inv'
  BY PageSteps, StepShownInv
<1>3. Inv => SessionShown
  BY DEF ShownInv, Shown, SessionShown, Accounts!SessionShown, Accounts!TokensOwn, Accounts!GuestsLeave
<1> QED
  BY <1>1, <1>2, <1>3, PTL DEF Spec


-----------------------------------------------------------------------------
(* Versions *)

CallRecords == [does : {"nothing", "create", "remove", "activate"}, with : Versions!Names \cup {"none"},
          seen : Versions!Data, at : {"idle", "read", "act", "reread", "cap", "thrown"}]

\* The part of the type invariant the proof needs.
WindowsOK ==
    /\ app \in Versions!Data /\ IsFiniteSet(app.list)
    /\ left \in Nat
    /\ shown \in [Windows -> Versions!Data]
    /\ field \in [Windows -> Versions!Names]
    /\ checked \in [Windows -> [valid : BOOLEAN, seen : Versions!Data]]
    /\ call \in [Windows -> CallRecords]
    /\ crossed \in BOOLEAN /\ leftover \in BOOLEAN

\* What may stand in the list.
Admitted == Valid \cup (IF leftover THEN {""} ELSE {})

ShownAdmitted == \A w \in Windows : shown[w].list \subseteq Admitted

\* What the button creates was not in the list it was checked against.
ChecksKnown ==
    \A w \in Windows : checked[w].valid =>
        field[w] = "" \/ field[w] \in Valid \ checked[w].seen.list

\* What a call creates was not in the list that was shown; what it deletes or
\* activates was, and was not active.
CallKnown(w) ==
    /\ call[w].does \in {"create", "remove", "activate"}
    /\ call[w].does = "create" =>
        call[w].with \in Valid \ call[w].seen.list \/ (call[w].with = "" /\ leftover)
    /\ call[w].does # "create" =>
        /\ call[w].with \in call[w].seen.list \ {call[w].seen.active}
        /\ call[w].with \in Admitted
CallsKnown == \A w \in Windows : ~ Versions!At(w, "idle") => CallKnown(w)

VersionsInv ==
    /\ WindowsOK
    /\ ShownAdmitted
    /\ ChecksKnown
    /\ CallsKnown
    /\ Versions!VersionsKept

-----------------------------------------------------------------------------

LEMMA InitVersionsInv ==
    ASSUME Versions!VersionsAssumption, Versions!Init
    PROVE  VersionsInv
<1>1. WindowsOK
  BY FS_Singleton DEF Versions!VersionsAssumption, Versions!Init, WindowsOK, Versions!Data, Versions!Names, Versions!Nothing, Versions!Unchecked, Versions!Idle, CallRecords
<1>2. ShownAdmitted /\ ChecksKnown /\ CallsKnown
  BY DEF Versions!Init, ShownAdmitted, Versions!Nothing, ChecksKnown, Versions!Unchecked, CallsKnown, Versions!At, Versions!Idle
<1>3. Versions!VersionsWellFormed /\ Versions!ActiveListed
  BY DEF Versions!VersionsAssumption, Versions!Init, Versions!VersionsWellFormed, Versions!ActiveListed
<1>4. Versions!CapCounts
  BY FS_Singleton, CardinalitiesAgree DEF Versions!VersionsAssumption, Versions!Init, Versions!CapCounts
<1> QED
  BY <1>1, <1>2, <1>3, <1>4 DEF VersionsInv, Versions!VersionsKept

\* What the steps of a call make of it is a call.
LEMMA CallsOK ==
    ASSUME call \in [Windows -> CallRecords], NEW w \in Windows,
           NEW s \in {"idle", "read", "act", "reread", "cap", "thrown"}
    PROVE  /\ [call EXCEPT ![w] = Versions!Idle] \in [Windows -> CallRecords]
           /\ [call EXCEPT ![w].at = s] \in [Windows -> CallRecords]
<1>1. Versions!Idle \in CallRecords
  BY DEF Versions!Idle, CallRecords, Versions!Data, Versions!Nothing, Versions!Names
<1>2. [call[w] EXCEPT !.at = s] \in CallRecords
  BY DEF CallRecords
<1> QED
  BY <1>1, <1>2

\* A step that leaves the server alone keeps what is said of the server.
LEMMA ServerUntouched ==
    ASSUME VersionsInv, app' = app, left' = left, crossed' = crossed,
           leftover' \in BOOLEAN, leftover => leftover'
    PROVE  Versions!VersionsKept'
<1>1. Admitted \subseteq Admitted'
  BY DEF Admitted
<1>2. (Versions!VersionsWellFormed /\ Versions!ActiveListed)'
  BY DEF VersionsInv, Versions!VersionsKept, Versions!VersionsWellFormed, Versions!ActiveListed
<1>3. Versions!CapCounts'
  BY DEF VersionsInv, Versions!VersionsKept, Versions!CapCounts
<1> QED
  BY <1>2, <1>3 DEF Versions!VersionsKept

\* Reading the application again shows what the server has.
LEMMA RereadKeeps ==
    ASSUME VersionsInv, NEW w \in Windows,
           shown' = [shown EXCEPT ![w] = app],
           NEW s \in {"idle", "read", "act", "reread", "cap", "thrown"},
           call' = call \/ Versions!Goto(w, s) \/ call' = [call EXCEPT ![w] = Versions!Idle],
           call' = call \/ ~ Versions!At(w, "idle"),
           UNCHANGED <<app, left, field, checked, crossed, leftover>>
    PROVE  VersionsInv'
<1> USE DEF VersionsInv
<1>1. WindowsOK'
  <2>1. call' \in [Windows -> CallRecords]
    <3>1. call \in [Windows -> CallRecords]
      BY DEF WindowsOK
    <3>2. CASE Versions!Goto(w, s)
      BY <3>1, <3>2, CallsOK DEF Versions!Goto
    <3>3. CASE call' = [call EXCEPT ![w] = Versions!Idle]
      BY <3>1, <3>3, CallsOK
    <3> QED
      BY <3>1, <3>2, <3>3
  <2>2. shown' \in [Windows -> Versions!Data]
    BY DEF WindowsOK
  <2> QED
    BY <2>1, <2>2 DEF WindowsOK
<1>2. ShownAdmitted'
  BY DEF WindowsOK, ShownAdmitted, Admitted, Versions!VersionsKept, Versions!VersionsWellFormed
<1>3. ChecksKnown'
  BY DEF ChecksKnown
<1>4. CallsKnown'
  <2> SUFFICES ASSUME NEW v \in Windows, ~ Versions!At(v, "idle")' PROVE CallKnown(v)'
    BY DEF CallsKnown
  <2>1. ~ Versions!At(v, "idle") /\ call'[v] = [call[v] EXCEPT !.at = call'[v].at]
    BY DEF WindowsOK, CallRecords, Versions!Goto, Versions!Idle, Versions!At
  <2>2. CallKnown(v)
    BY <2>1 DEF CallsKnown
  <2>3. /\ call'[v].does = call[v].does
        /\ call'[v].with = call[v].with
        /\ call'[v].seen = call[v].seen
    BY <2>1 DEF WindowsOK, CallRecords
  <2> QED
    BY <2>2, <2>3 DEF CallKnown, Admitted
<1>5. Versions!VersionsKept'
  BY ServerUntouched DEF WindowsOK
<1> QED
  BY <1>1, <1>2, <1>3, <1>4, <1>5

\* A click starts a call that knows what it does.
LEMMA StartKeeps ==
    ASSUME VersionsInv, NEW w \in Windows,
           NEW does \in {"create", "remove", "activate"}, NEW with \in Versions!Names, NEW seen \in Versions!Data,
           Versions!Start(w, does, with, seen), leftover' \in BOOLEAN, leftover => leftover',
           does = "create" => with \in Valid \ seen.list \/ (with = "" /\ leftover'),
           does # "create" => with \in (seen.list \ {seen.active}) \cap Admitted
    PROVE  VersionsInv'
<1> USE DEF VersionsInv
<1> DEFINE new == [does |-> does, with |-> with, seen |-> seen, at |-> "read"]
<1>1. call' = [call EXCEPT ![w] = new] /\ UNCHANGED <<app, left, shown, field, checked, crossed>>
  BY DEF Versions!Start
<1>2. new \in CallRecords
  BY DEF CallRecords
<1>3. WindowsOK'
  BY <1>1, <1>2 DEF WindowsOK
<1>4. Admitted \subseteq Admitted'
  BY DEF Admitted
<1>5. ShownAdmitted' /\ ChecksKnown'
  BY <1>1, <1>4 DEF ShownAdmitted, ChecksKnown
<1>6. CallsKnown'
  <2> SUFFICES ASSUME NEW v \in Windows, ~ Versions!At(v, "idle")' PROVE CallKnown(v)'
    BY DEF CallsKnown
  <2>1. CASE v = w
    <3>1. call'[v].does = does /\ call'[v].with = with /\ call'[v].seen = seen
      BY <1>1, <2>1 DEF WindowsOK
    <3>2. CASE does = "create"
      BY <3>1, <3>2 DEF CallKnown
    <3>3. CASE does # "create"
      BY <3>1, <3>3, <1>4 DEF CallKnown
    <3> QED
      BY <3>2, <3>3
  <2>2. CASE v # w
    <3>1. call'[v] = call[v]
      BY <1>1, <2>2 DEF WindowsOK
    <3>2. CallKnown(v)
      BY <3>1 DEF CallsKnown, Versions!At
    <3> QED
      BY <3>1, <3>2, <1>4 DEF CallKnown, WindowsOK
  <2> QED
    BY <2>1, <2>2
<1>7. Versions!VersionsKept'
  BY <1>1, ServerUntouched
<1> QED
  BY <1>3, <1>5, <1>6, <1>7

\* The server does what a call says, and the call knows enough.
LEMMA ActKeeps ==
    ASSUME VersionsInv, NEW w \in Windows, Versions!Act(w)
    PROVE  VersionsInv'
<1> USE DEF VersionsInv
<1> DEFINE c == call[w]
<1>1. c \in CallRecords /\ CallKnown(w)
  BY DEF WindowsOK, CallsKnown, Versions!Act, Versions!At
<1>2. c.with \in Versions!Names /\ c.with \in Admitted
  BY <1>1 DEF CallKnown, CallRecords, Admitted, Versions!Names
<1>3. /\ app' \in Versions!Data /\ IsFiniteSet(app'.list) /\ left' \in Nat
      /\ app'.list \cup {app'.active} \subseteq Admitted
      /\ crossed' \in BOOLEAN
      /\ ~ crossed' => ~ crossed /\ c.seen = app
      /\ ~ crossed' /\ ~ leftover => left' + Cardinality(app'.list) = Tier + 1
      /\ ~ crossed' => app'.active \in app'.list
  <2>0. crossed' \in BOOLEAN /\ (~ crossed' => ~ crossed /\ c.seen = app)
    BY DEF Versions!Act, WindowsOK
  <2>1. CASE c.does = "create"
    <3>1. app' = [app EXCEPT !.list = @ \cup {c.with}] /\ left' = left - 1 /\ left > 0
      BY <2>1 DEF Versions!Act, Versions!CapLeft
    <3>2. /\ IsFiniteSet(app.list \cup {c.with})
          /\ Cardinality(app.list \cup {c.with})
                = IF c.with \in app.list THEN Cardinality(app.list) ELSE Cardinality(app.list) + 1
      BY FS_AddElement DEF WindowsOK
    <3>3. app' \in Versions!Data /\ app'.list = app.list \cup {c.with} /\ app'.active = app.active
      BY <3>1, <1>2 DEF WindowsOK, Versions!Data
    <3>4. ~ crossed' /\ ~ leftover => c.with \notin app.list
      BY <2>0, <2>1, <1>1 DEF CallKnown
    <3>5. Cardinality(app.list) \in Nat
      BY FS_CardinalityType DEF WindowsOK
    <3>6. ~ crossed' /\ ~ leftover => left' + Cardinality(app'.list) = Tier + 1
      BY <2>0, <3>1, <3>2, <3>3, <3>4, <3>5, CardinalitiesAgree DEF Versions!VersionsKept, Versions!CapCounts, WindowsOK
    <3>7. left' \in Nat /\ IsFiniteSet(app'.list)
      BY <3>1, <3>2, <3>3 DEF WindowsOK
    <3> QED
      BY <2>0, <3>3, <3>6, <3>7, <1>2 DEF Versions!VersionsKept, Versions!VersionsWellFormed, Versions!ActiveListed, Admitted
  <2>2. CASE c.does = "remove"
    <3>1. app' = [app EXCEPT !.list = @ \ {c.with}] /\ left' = left + 1
      BY <2>2 DEF Versions!Act
    <3>2. /\ IsFiniteSet(app.list \ {c.with})
          /\ Cardinality(app.list \ {c.with})
                = IF c.with \in app.list THEN Cardinality(app.list) - 1 ELSE Cardinality(app.list)
      BY FS_RemoveElement DEF WindowsOK
    <3>3. app' \in Versions!Data /\ app'.list = app.list \ {c.with} /\ app'.active = app.active
      BY <3>1 DEF WindowsOK, Versions!Data
    <3>4. ~ crossed' => c.with \in app.list \ {app.active}
      BY <2>0, <2>2, <1>1 DEF CallKnown
    <3>5. Cardinality(app.list) \in Nat
      BY FS_CardinalityType DEF WindowsOK
    <3>6. ~ crossed' /\ ~ leftover => left' + Cardinality(app'.list) = Tier + 1
      <4> SUFFICES ASSUME ~ crossed', ~ leftover
                   PROVE  left' + Cardinality(app'.list) = Tier + 1
        OBVIOUS
      <4>1. left + Cardinality(app.list) = Tier + 1
        BY <2>0, CardinalitiesAgree DEF Versions!VersionsKept, Versions!CapCounts
      <4>2. Cardinality(app'.list) = Cardinality(app.list) - 1
        BY <3>2, <3>3, <3>4
      <4> QED
        BY <3>1, <3>5, <4>1, <4>2 DEF WindowsOK
    <3>7. left' \in Nat /\ IsFiniteSet(app'.list)
      BY <3>1, <3>2, <3>3 DEF WindowsOK
    <3> QED
      BY <2>0, <3>3, <3>4, <3>6, <3>7 DEF Versions!VersionsKept, Versions!VersionsWellFormed, Versions!ActiveListed, Admitted
  <2>3. CASE c.does = "activate"
    <3>1. app' = [app EXCEPT !.active = c.with] /\ left' = left
      BY <2>3 DEF Versions!Act
    <3>2. app' \in Versions!Data /\ app'.list = app.list /\ app'.active = c.with
      BY <3>1, <1>2 DEF WindowsOK, Versions!Data
    <3>3. ~ crossed' => c.with \in app.list
      BY <2>0, <2>3, <1>1 DEF CallKnown
    <3>4. ~ crossed' /\ ~ leftover => left' + Cardinality(app'.list) = Tier + 1
      BY <2>0, <3>1, <3>2, CardinalitiesAgree DEF Versions!VersionsKept, Versions!CapCounts
    <3> QED
      BY <2>0, <3>1, <3>2, <3>3, <3>4, <1>2
         DEF WindowsOK, Versions!VersionsKept, Versions!VersionsWellFormed, Admitted
  <2> QED
    BY <2>1, <2>2, <2>3, <1>1 DEF CallKnown
<1>4. UNCHANGED <<shown, checked, leftover>> /\ call' = [call EXCEPT ![w].at = "reread"]
  BY DEF Versions!Act, Versions!Goto
<1>5. field' \in [Windows -> Versions!Names] /\ \A v \in Windows : field'[v] \in {field[v], ""}
  BY DEF Versions!Act, WindowsOK, Versions!Names
<1>6. WindowsOK'
  <2>1. call' \in [Windows -> CallRecords]
    <3>1. call \in [Windows -> CallRecords]
      BY DEF WindowsOK
    <3> QED
      BY <1>4, <3>1, CallsOK
  <2>2. shown' \in [Windows -> Versions!Data] /\ leftover' \in BOOLEAN
    BY <1>4 DEF WindowsOK
  <2>3. checked' \in [Windows -> [valid : BOOLEAN, seen : Versions!Data]]
    BY <1>4 DEF WindowsOK
  <2>4. app' \in Versions!Data /\ IsFiniteSet(app'.list) /\ left' \in Nat /\ crossed' \in BOOLEAN
    BY <1>3
  <2>5. field' \in [Windows -> Versions!Names]
    BY <1>5
  <2> QED
    BY <2>1, <2>2, <2>3, <2>4, <2>5 DEF WindowsOK
<1>7. ShownAdmitted' /\ ChecksKnown'
  BY <1>4, <1>5 DEF ShownAdmitted, ChecksKnown, Admitted
<1>8. CallsKnown'
  <2> SUFFICES ASSUME NEW v \in Windows, ~ Versions!At(v, "idle")' PROVE CallKnown(v)'
    BY DEF CallsKnown
  <2>1. /\ call'[v].does = call[v].does
        /\ call'[v].with = call[v].with
        /\ call'[v].seen = call[v].seen
    BY <1>4 DEF WindowsOK, CallRecords
  <2>2. CallKnown(v)
    BY <1>4 DEF WindowsOK, CallRecords, CallsKnown, Versions!Act, Versions!At
  <2> QED
    BY <1>4, <2>1, <2>2 DEF CallKnown, Admitted
<1>9. Versions!VersionsKept'
  BY <1>3, <1>4, CardinalitiesAgree DEF Versions!VersionsKept, Versions!VersionsWellFormed, Versions!ActiveListed, Versions!CapCounts, Admitted
<1> QED
  BY <1>6, <1>7, <1>8, <1>9

-----------------------------------------------------------------------------

LEMMA StepVersionsInv ==
    ASSUME Versions!VersionsAssumption, VersionsInv, [Versions!Next]_(Versions!vars)
    PROVE  VersionsInv'
<1> USE DEF VersionsInv
\* What a step without a call, a check or a read leaves.
<1>0. ASSUME UNCHANGED <<app, left, shown, field, checked, call, crossed, leftover>>
      PROVE  VersionsInv'
  BY <1>0 DEF WindowsOK, ShownAdmitted, Admitted, ChecksKnown, CallsKnown, CallKnown, Versions!At,
     Versions!VersionsKept, Versions!VersionsWellFormed, Versions!ActiveListed, Versions!CapCounts
<1>1. CASE UNCHANGED Versions!vars
  BY <1>0, <1>1 DEF Versions!vars
<1>2. ASSUME NEW w \in Windows, Versions!OpenCreator(w) \/ Versions!Cancel(w) PROVE VersionsInv'
  BY <1>0, <1>2 DEF Versions!OpenCreator, Versions!Cancel
<1>3. ASSUME NEW w \in Windows, Versions!ClickCreate(w) PROVE VersionsInv'
  <2>1. /\ Versions!Start(w, "create", field[w], checked[w].seen)
        /\ leftover' = (leftover \/ field[w] = "")
        /\ field[w] = "" \/ field[w] \in Valid \ checked[w].seen.list
    BY <1>3 DEF Versions!ClickCreate, ChecksKnown
  <2>2. field[w] \in Versions!Names /\ checked[w].seen \in Versions!Data
    BY DEF WindowsOK
  <2> QED
    BY <2>1, <2>2, StartKeeps DEF WindowsOK
<1>4. ASSUME NEW w \in Windows, NEW v \in Valid \cup {"", "odd"}, Versions!TypeVersion(w, v)
      PROVE  VersionsInv'
  <2>1. /\ field' = [field EXCEPT ![w] = v]
        /\ UNCHANGED <<app, left, shown, call, crossed, leftover>>
    BY <1>4 DEF Versions!TypeVersion
  <2>6. PICK new \in {[valid |-> TRUE, seen |-> shown[w]], Versions!Unchecked} :
               /\ checked' = [checked EXCEPT ![w] = new]
               /\ new.valid => v \in Valid \ new.seen.list
    <3>1. CASE v \in Valid \ shown[w].list
      <4>1. checked' = [checked EXCEPT ![w] = [valid |-> TRUE, seen |-> shown[w]]]
        BY <1>4, <3>1 DEF Versions!TypeVersion
      <4> QED
        BY <3>1, <4>1
    <3>2. CASE v \notin Valid \ shown[w].list
      <4>1. checked' = [checked EXCEPT ![w] = Versions!Unchecked]
        BY <1>4, <3>2 DEF Versions!TypeVersion
      <4>2. ~ Versions!Unchecked.valid
        BY DEF Versions!Unchecked
      <4> QED
        BY <4>1, <4>2
    <3> QED
      BY <3>1, <3>2
  <2>7. new \in [valid : BOOLEAN, seen : Versions!Data]
    <3>1. [valid |-> TRUE, seen |-> shown[w]] \in [valid : BOOLEAN, seen : Versions!Data]
      BY DEF WindowsOK
    <3>2. Versions!Unchecked \in [valid : BOOLEAN, seen : Versions!Data]
      BY DEF Versions!Unchecked, Versions!Nothing, Versions!Data, Versions!Names
    <3> QED
      BY <2>6, <3>1, <3>2
  <2>2. WindowsOK'
    BY <2>1, <2>6, <2>7 DEF WindowsOK, Versions!Names
  <2>3. ChecksKnown'
    BY <2>1, <2>6 DEF ChecksKnown, WindowsOK
  <2>4. ShownAdmitted' /\ CallsKnown'
    BY <2>1 DEF ShownAdmitted, Admitted, CallsKnown, CallKnown, Versions!At
  <2>5. Versions!VersionsKept'
    BY <2>1, ServerUntouched DEF WindowsOK
  <2> QED
    BY <2>2, <2>3, <2>4, <2>5
<1>5. ASSUME NEW w \in Windows, NEW v \in Valid \cup {""}, NEW does \in {"remove", "activate"},
             Versions!ClickVersion(w, does, v)
      PROVE  VersionsInv'
  <2>1. Versions!Start(w, does, v, shown[w]) /\ leftover' = leftover /\ v \in shown[w].list \ {shown[w].active}
    BY <1>5 DEF Versions!ClickVersion
  <2>2. v \in Versions!Names /\ v \in Admitted /\ shown[w] \in Versions!Data
    BY <2>1 DEF ShownAdmitted, Versions!Names, WindowsOK
  <2>3. does \in {"create", "remove", "activate"} /\ does # "create" /\ leftover' \in BOOLEAN
    BY <2>1 DEF WindowsOK
  <2> QED
    BY <2>1, <2>2, <2>3, StartKeeps
<1>6. ASSUME NEW w \in Windows, Versions!Mount(w) PROVE VersionsInv'
  BY <1>6, RereadKeeps DEF Versions!Mount
<1>7. ASSUME NEW w \in Windows, Versions!Read(w) PROVE VersionsInv'
  <2>1. PICK s \in {"act", "cap"} : Versions!Goto(w, s)
    BY <1>7 DEF Versions!Read
  <2> QED
    BY <1>7, <2>1, RereadKeeps DEF Versions!Read, Versions!At
<1>8. ASSUME NEW w \in Windows, Versions!ReadCap(w) PROVE VersionsInv'
  BY <1>8, RereadKeeps DEF Versions!ReadCap, Versions!At
<1>9. ASSUME NEW w \in Windows, Versions!Act(w) PROVE VersionsInv'
  BY <1>9, ActKeeps
<1>10. ASSUME NEW w \in Windows, Versions!Refused(w) \/ Versions!CallFails(w) PROVE VersionsInv'
  <2>1. UNCHANGED <<app, left, shown, field, checked, crossed, leftover>>
    BY <1>10 DEF Versions!Refused, Versions!CallFails
  <2>2. \/ call' = [call EXCEPT ![w] = Versions!Idle]
        \/ ~ Versions!At(w, "idle") /\ call' = [call EXCEPT ![w].at = "thrown"]
    BY <1>10 DEF Versions!Refused, Versions!CallFails, Versions!Goto, Versions!At
  <2>3. WindowsOK'
    <3>1. CASE call' = [call EXCEPT ![w] = Versions!Idle]
      <4>1. call' \in [Windows -> CallRecords]
        BY <3>1, CallsOK DEF WindowsOK
      <4> QED
        BY <4>1, <2>1 DEF WindowsOK
    <3>2. CASE call' = [call EXCEPT ![w].at = "thrown"]
      <4>1. [call[w] EXCEPT !.at = "thrown"] \in CallRecords
        BY DEF WindowsOK, CallRecords
      <4>2. call' \in [Windows -> CallRecords]
        BY <3>2, <4>1 DEF WindowsOK
      <4> QED
        BY <4>2, <2>1 DEF WindowsOK
    <3> QED
      BY <2>2, <3>1, <3>2
  <2>4. ShownAdmitted' /\ ChecksKnown'
    BY <2>1 DEF ShownAdmitted, Admitted, ChecksKnown
  <2>5. CallsKnown'
    <3> SUFFICES ASSUME NEW v \in Windows, ~ Versions!At(v, "idle")' PROVE CallKnown(v)'
      BY DEF CallsKnown
    <3>1. /\ ~ Versions!At(v, "idle")
          /\ call'[v].does = call[v].does
          /\ call'[v].with = call[v].with
          /\ call'[v].seen = call[v].seen
      BY <2>2 DEF WindowsOK, CallRecords, Versions!Idle, Versions!At
    <3>2. CallKnown(v)
      BY <3>1 DEF CallsKnown
    <3> QED
      BY <2>1, <3>1, <3>2 DEF CallKnown, Admitted
  <2>6. Versions!VersionsKept'
    BY <2>1, ServerUntouched DEF WindowsOK
  <2> QED
    BY <2>3, <2>4, <2>5, <2>6
<1> QED
  BY <1>1, <1>2, <1>3, <1>4, <1>5, <1>6, <1>7, <1>8, <1>9, <1>10 DEF Versions!Next, Versions!UserStep, Versions!Progress

LEMMA VersionsAlways == Spec => [](tab = "versions" => VersionsInv)
<1> DEFINE Inv == tab = "versions" => VersionsInv
<1>0. Versions!VersionsAssumption
  BY PagesAssumption
<1>1. Init => Inv
  BY <1>0, PageStarts, InitVersionsInv
<1>2. Inv /\ [Next]_vars => Inv'
  BY <1>0, PageSteps, StepVersionsInv
<1> QED
  BY <1>1, <1>2, PTL DEF Spec

\* For any number of windows, and whatever requests fail: the list holds
\* well-formed versions, the active one among them, and the cap counts them,
\* unless a window acted on data that was out of date (VersionManager.tsx
\* reads the application again, but sends what was clicked before).
THEOREM WindowsKeepVersions == Spec => []VersionsKept
<1> DEFINE Inv == tab = "versions" => VersionsInv
<1>1. Inv => VersionsKept
  BY DEF VersionsInv, VersionsKept
<1> QED
  BY <1>1, VersionsAlways, PTL

-----------------------------------------------------------------------------
(* Dashboard *)

\* What an application can be called.
RealNames == Dashboard!AppNames \ {""}

\* What lies over the list.
DashboardStacks ==
    {<<>>, <<"creator">>, <<"creator", "leave">>, <<"creator", "creating">>, <<"delete">>}

\* The part of the type invariant that is needed, and more of what is typed.
DashboardOK ==
    /\ apps \subseteq RealNames /\ listed \subseteq RealNames
    /\ lists \subseteq [read : BOOLEAN, got : SUBSET RealNames, deletes : BOOLEAN]
    /\ {selected, marked, people} \subseteq RealNames \cup {"none"}
    /\ peopleReads \subseteq RealNames
    /\ deleting \subseteq [name : RealNames, gone : BOOLEAN]
    /\ name \in TypedNames /\ filled \in BOOLEAN /\ available \in BOOLEAN
    /\ checks \subseteq Dashboard!AppNames /\ found \subseteq Dashboard!AppNames
    /\ creating \in Dashboard!AppNames \cup {"none", "thrown"}
    /\ modals \in DashboardStacks
    /\ changed \in BOOLEAN /\ mixed \in BOOLEAN /\ crossed \in BOOLEAN

\* The answer on its way is about the name in the field, and so is the one that
\* came last: what the flag says is of the name in the field when no answer is
\* on its way, and what is sent stays found while the form is covered.
FormChecked ==
    /\ creating # "none" => modals = <<"creator", "creating">>
    /\ ~ crossed =>
        /\ checks \subseteq {NameOf[name]}
        /\ checks = {} /\ available => NameOf[name] \in found \ {""}
        /\ creating \notin {"none", "thrown"} => checks = {} /\ creating \in found \ {""}

\* The collaborators on their way are those of the selection.
PeopleKnown ==
    ~ mixed => IF peopleReads = {} THEN people = selected ELSE peopleReads = {selected}

\* A deletion that was served and not answered, and a list that will close the
\* panel.
Gone == \E d \in deleting : d.gone
Closing == \E a \in lists : a.deletes

\* One read of the list at a time, and what it has read is what the server has;
\* what is listed is, when none is under way and no deletion waits to ask for
\* one; and a selection that the server does not have is about to go.
ListKnown ==
    ~ changed =>
        /\ \A a, b \in lists : a = b
        /\ \A a \in lists : a.read => a.got = apps
        /\ lists = {} /\ ~ Gone => listed = apps
        /\ Gone \/ Closing \/ (listed \subseteq apps /\ selected \in apps \cup {"none"})

DashboardInv == DashboardOK /\ FormChecked /\ PeopleKnown /\ ListKnown

\* How the modals follow each other, and what the user reaches.
LEMMA DashboardMoves ==
    /\ Dashboard!Opened(<<>>, "delete") = <<"delete">>
    /\ Dashboard!Opened(<<>>, "creator") = <<"creator">>
    /\ Dashboard!Opened(<<"creator">>, "creating") = <<"creator", "creating">>
    /\ Dashboard!Opened(<<"creator">>, "leave") = <<"creator", "leave">>
    /\ Dashboard!Closed(<<"delete">>, {"delete"}) = <<>>
    /\ \A s \in {<<>>, <<"creator">>, <<"creator", "leave">>, <<"creator", "creating">>} :
          Dashboard!Closed(s, {"delete"}) = s
    /\ Dashboard!Closed(<<"creator", "leave">>, {"leave"}) = <<"creator">>
    /\ Dashboard!Closed(<<"creator", "leave">>, {"leave", "creator"}) = <<>>
    /\ Dashboard!Closed(<<"creator", "creating">>, {"creator", "creating"}) = <<>>
    /\ \A s \in DashboardStacks :
          /\ Dashboard!Top(s) = "page" => s = <<>>
          /\ Dashboard!Top(s) = "creator" => s = <<"creator">>
          /\ Dashboard!Top(s) = "leave" => s = <<"creator", "leave">>
          /\ Dashboard!Top(s) = "delete" => s = <<"delete">>
<1>1. /\ Dashboard!Opened(<<>>, "delete") = <<"delete">>
      /\ Dashboard!Opened(<<>>, "creator") = <<"creator">>
      /\ Dashboard!Opened(<<"creator">>, "creating") = <<"creator", "creating">>
      /\ Dashboard!Opened(<<"creator">>, "leave") = <<"creator", "leave">>
  BY DashboardModals, StacksOpen
<1>2. /\ Dashboard!Closed(<<"delete">>, {"delete"}) = <<>>
      /\ Dashboard!Closed(<<>>, {"delete"}) = <<>>
      /\ Dashboard!Closed(<<"creator">>, {"delete"}) = <<"creator">>
  BY DashboardModals, StacksClose
<1>5. ASSUME NEW m \in {"leave", "creating"}
      PROVE  Dashboard!Closed(<<"creator", m>>, {"delete"}) = <<"creator", m>>
  <2>1. "creator" # m /\ "creator" \notin {"delete"} /\ m \notin {"delete"}
    OBVIOUS
  <2>2. Screen!Closed(<<"creator", m>>, {"delete"}) = <<"creator", m>>
    BY <2>1, ClosedNeither
  <2> QED
    BY <2>2, DashboardModals
<1>3. /\ Dashboard!Closed(<<"creator", "leave">>, {"leave"}) = <<"creator">>
      /\ Dashboard!Closed(<<"creator", "leave">>, {"leave", "creator"}) = <<>>
      /\ Dashboard!Closed(<<"creator", "creating">>, {"creator", "creating"}) = <<>>
  BY DashboardModals, StacksClose
<1>4. ASSUME NEW s \in DashboardStacks
      PROVE  /\ Dashboard!Top(s) = "page" => s = <<>>
             /\ Dashboard!Top(s) = "creator" => s = <<"creator">>
             /\ Dashboard!Top(s) = "leave" => s = <<"creator", "leave">>
             /\ Dashboard!Top(s) = "delete" => s = <<"delete">>
  <2>1. Dashboard!Top(s) = Screen!Top(s)
    BY DashboardModals
  <2> QED
    BY <2>1, StacksTop DEF DashboardStacks
<1> QED
  BY <1>1, <1>2, <1>3, <1>4, <1>5

\* Nothing is created while the dialog or nothing lies over the list.
LEMMA StacksDiffer ==
    <<"creator", "creating">> \notin {<<>>, <<"creator">>, <<"creator", "leave">>, <<"delete">>}
<1>1. /\ Screen!Top(<<"creator", "creating">>) = "creating" /\ Screen!Top(<<>>) = "page"
      /\ Screen!Top(<<"creator">>) = "creator" /\ Screen!Top(<<"creator", "leave">>) = "leave"
      /\ Screen!Top(<<"delete">>) = "delete"
  BY StacksTop
<1> QED
  BY <1>1

LEMMA InitDashboardInv ==
    ASSUME Dashboard!DashboardAssumption, Dashboard!Init
    PROVE  DashboardInv
<1>1. DashboardOK
  <2>1. apps \subseteq RealNames /\ listed \subseteq RealNames
    <3>1. apps = FirstApps /\ listed = {}
      BY DEF Dashboard!Init
    <3>2. FirstApps \subseteq RealNames
      BY DEF Dashboard!DashboardAssumption, RealNames
    <3> QED
      BY <3>1, <3>2
  <2>2. lists \subseteq [read : BOOLEAN, got : SUBSET RealNames, deletes : BOOLEAN]
    <3>1. lists = {[read |-> FALSE, got |-> {}, deletes |-> FALSE]}
      BY DEF Dashboard!Init, Dashboard!Asked
    <3> QED
      BY <3>1
  <2>3. name \in TypedNames
    BY DEF Dashboard!DashboardAssumption, Dashboard!Init
  <2> QED
    BY <2>1, <2>2, <2>3 DEF Dashboard!Init, DashboardOK, DashboardStacks
<1>2. FormChecked
  BY DEF Dashboard!Init, FormChecked
<1>3. PeopleKnown
  BY DEF Dashboard!Init, PeopleKnown
<1>4. ListKnown
  <2>1. /\ lists = {Dashboard!Asked(FALSE)} /\ ~ Dashboard!Asked(FALSE).read
        /\ deleting = {} /\ listed = {} /\ selected = "none"
    BY DEF Dashboard!Init, Dashboard!Asked
  <2> QED
    BY <2>1 DEF ListKnown, Gone, Closing
<1> QED
  BY <1>1, <1>2, <1>3, <1>4 DEF DashboardInv

\* What one part of the page does leaves what is said of the others.
LEMMA FormAside ==
    ASSUME FormChecked, DashboardOK,
           UNCHANGED <<name, available, checks, crossed, found>>,
           creating' = creating \/ creating' \in {"none", "thrown"},
           creating' # "none" => creating # "none" /\ modals' = modals
    PROVE  FormChecked'
BY DEF FormChecked

LEMMA PanelAside ==
    ASSUME PeopleKnown, UNCHANGED <<selected, people, peopleReads, mixed>>
    PROVE  PeopleKnown'
BY DEF PeopleKnown

LEMMA ListAside ==
    ASSUME ListKnown, UNCHANGED <<apps, listed, lists, selected, deleting, changed>>
    PROVE  ListKnown'
BY DEF ListKnown, Gone, Closing

\* An application is selected, or none: the types, and the collaborators.
LEMMA SelectKeeps ==
    ASSUME PeopleKnown, DashboardOK, NEW n \in RealNames \cup {"none"}, Dashboard!Select(n)
    PROVE  /\ PeopleKnown'
           /\ selected' = n /\ {people'} \subseteq RealNames \cup {"none"}
           /\ peopleReads' \subseteq RealNames /\ mixed' \in BOOLEAN
<1>1. selected' = n
  BY DEF Dashboard!Select
<1>2. CASE n = selected /\ UNCHANGED <<people, peopleReads, mixed>>
  BY <1>1, <1>2 DEF PeopleKnown, DashboardOK
<1>3. CASE n = "none" /\ people' = "none" /\ mixed' = (mixed \/ peopleReads # {}) /\ UNCHANGED peopleReads
  BY <1>1, <1>3 DEF PeopleKnown, DashboardOK
<1>4. CASE n # "none" /\ peopleReads' = peopleReads \cup {n} /\ mixed' = (mixed \/ peopleReads # {})
           /\ UNCHANGED people
  BY <1>1, <1>4 DEF PeopleKnown, DashboardOK
<1> QED
  BY <1>2, <1>3, <1>4 DEF Dashboard!Select

\* The list is asked for: it is the only read, or the reads overlap.
LEMMA AskListKeeps ==
    ASSUME DashboardOK, NEW deletes \in BOOLEAN, Dashboard!AskList(deletes)
    PROVE  /\ lists' \subseteq [read : BOOLEAN, got : SUBSET RealNames, deletes : BOOLEAN]
           /\ changed' \in BOOLEAN
           /\ ~ changed' => /\ ~ changed /\ lists = {}
                            /\ lists' = {Dashboard!Asked(deletes)}
<1>1. Dashboard!Asked(deletes) \in [read : BOOLEAN, got : SUBSET RealNames, deletes : BOOLEAN]
  BY DEF Dashboard!Asked
<1>2. lists' = lists \cup {Dashboard!Asked(deletes)} /\ changed' = (changed \/ lists # {})
  BY DEF Dashboard!AskList
<1>3. changed' \in BOOLEAN /\ (~ changed' => ~ changed /\ lists = {})
  BY <1>2 DEF DashboardOK
<1> QED
  BY <1>1, <1>2, <1>3 DEF DashboardOK

\* The steps of the list and the panel.
LEMMA PanelSteps ==
    ASSUME Dashboard!DashboardAssumption, DashboardInv,
           \/ \E n \in RealNames : Dashboard!OthersChange(n)
           \/ \E n \in Dashboard!AppNames : Dashboard!ClickApp(n) \/ Dashboard!DeliverPeople(n)
           \/ Dashboard!OpenDelete \/ Dashboard!CancelDelete \/ Dashboard!ClickDelete
    PROVE  DashboardInv'
<1> USE DEF DashboardInv
<1>1. ASSUME NEW n \in RealNames, Dashboard!OthersChange(n)
      PROVE  DashboardInv'
  <2>1. /\ apps' \subseteq RealNames /\ changed' = TRUE
        /\ UNCHANGED <<listed, lists, selected, marked, people, peopleReads, deleting, mixed,
                       name, filled, available, checks, crossed, found, creating, modals>>
    BY <1>1 DEF Dashboard!OthersChange, Dashboard!list, Dashboard!panel, Dashboard!form, DashboardOK
  <2>2. DashboardOK'
    BY <2>1 DEF DashboardOK
  <2>3. FormChecked' /\ PeopleKnown'
    BY <2>1, FormAside, PanelAside
  <2>4. ListKnown'
    BY <2>1 DEF ListKnown
  <2> QED
    BY <2>2, <2>3, <2>4
<1>2. ASSUME NEW n \in Dashboard!AppNames, Dashboard!ClickApp(n)
      PROVE  DashboardInv'
  <2>1. PICK m \in {n, "none"} : marked' = m /\ Dashboard!Select(m)
    BY <1>2 DEF Dashboard!ClickApp
  <2>2. /\ n \in listed
        /\ UNCHANGED <<apps, listed, lists, deleting, changed,
                       name, filled, available, checks, crossed, found, creating, modals>>
    BY <1>2 DEF Dashboard!ClickApp, Dashboard!list, Dashboard!form
  <2>3. m \in RealNames \cup {"none"} /\ n \in RealNames
    BY <2>1, <2>2 DEF DashboardOK
  <2>4. /\ PeopleKnown' /\ selected' = m /\ {people'} \subseteq RealNames \cup {"none"}
        /\ peopleReads' \subseteq RealNames /\ mixed' \in BOOLEAN
    BY <2>1, <2>3, SelectKeeps
  <2>5. DashboardOK'
    BY <2>1, <2>2, <2>3, <2>4 DEF DashboardOK
  <2>6. FormChecked'
    BY <2>2, FormAside
  <2>7. ListKnown'
    BY <2>1, <2>2, <2>4 DEF ListKnown, Gone, Closing
  <2> QED
    BY <2>4, <2>5, <2>6, <2>7
<1>3. ASSUME NEW n \in Dashboard!AppNames, Dashboard!DeliverPeople(n)
      PROVE  DashboardInv'
  <2>1. /\ n \in peopleReads /\ peopleReads' = peopleReads \ {n} /\ people' = n
        /\ UNCHANGED <<apps, listed, lists, selected, marked, deleting, mixed, changed,
                       name, filled, available, checks, crossed, found, creating, modals>>
    BY <1>3 DEF Dashboard!DeliverPeople, Dashboard!list, Dashboard!form
  <2>2. DashboardOK'
    BY <2>1 DEF DashboardOK
  <2>3. FormChecked' /\ ListKnown'
    BY <2>1, FormAside, ListAside
  <2>4. PeopleKnown'
    BY <2>1 DEF PeopleKnown
  <2> QED
    BY <2>2, <2>3, <2>4
<1>4. CASE Dashboard!OpenDelete \/ Dashboard!CancelDelete
  <2>1. UNCHANGED <<apps, listed, lists, selected, marked, people, peopleReads, deleting, mixed,
                    name, filled, available, checks, crossed, found, creating, changed>>
    BY <1>4 DEF Dashboard!OpenDelete, Dashboard!CancelDelete, Dashboard!list, Dashboard!panel, Dashboard!form
  <2>2. /\ modals \in {<<>>, <<"delete">>} /\ modals' \in {<<>>, <<"delete">>}
        /\ creating # "none" => modals = <<"creator", "creating">>
    BY <1>4, DashboardMoves DEF Dashboard!OpenDelete, Dashboard!CancelDelete, DashboardOK, FormChecked
  <2>3. creating = "none"
    BY <2>2, StacksDiffer
  <2>4. DashboardOK'
    BY <2>1, <2>2 DEF DashboardOK, DashboardStacks
  <2> QED
    BY <2>1, <2>3, <2>4, FormAside, PanelAside, ListAside
<1>5. CASE Dashboard!ClickDelete
  <2>1. /\ deleting' = deleting \cup {[name |-> n, gone |-> FALSE] : n \in {selected} \ {"none"}}
        /\ UNCHANGED <<apps, listed, lists, selected, marked, people, peopleReads, mixed, changed,
                       name, filled, available, checks, crossed, found, creating, modals>>
    BY <1>5 DEF Dashboard!ClickDelete, Dashboard!list, Dashboard!form
  <2>2. DashboardOK'
    <3>1. selected \in RealNames \cup {"none"} /\ deleting \subseteq [name : RealNames, gone : BOOLEAN]
      BY DEF DashboardOK
    <3>2. \A n \in {selected} \ {"none"} :
            [name |-> n, gone |-> FALSE] \in [name : RealNames, gone : BOOLEAN]
      BY <3>1
    <3>3. {[name |-> n, gone |-> FALSE] : n \in {selected} \ {"none"}}
            \subseteq [name : RealNames, gone : BOOLEAN]
      BY <3>2
    <3>4. deleting' \subseteq [name : RealNames, gone : BOOLEAN]
      BY <2>1, <3>1, <3>3
    <3> QED
      BY <2>1, <3>4 DEF DashboardOK
  <2>3. FormChecked' /\ PeopleKnown'
    BY <2>1, FormAside, PanelAside
  <2>4. Gone' <=> Gone
    BY <2>1 DEF Gone
  <2>5. ListKnown'
    BY <2>1, <2>4 DEF ListKnown, Closing
  <2> QED
    BY <2>2, <2>3, <2>5
<1> QED
  BY <1>1, <1>2, <1>3, <1>4, <1>5

\* The steps of the reads of the list and of the deletions.
LEMMA ListSteps ==
    ASSUME DashboardInv,
           \/ \E a \in lists : Dashboard!ServeList(a) \/ Dashboard!DeliverList(a)
           \/ \E d \in deleting :
                Dashboard!ServeDelete(d) \/ Dashboard!Deleted(d) \/ Dashboard!DeleteRefused(d)
    PROVE  DashboardInv'
<1> USE DEF DashboardInv
<1> DEFINE Reads == [read : BOOLEAN, got : SUBSET RealNames, deletes : BOOLEAN]
           Deletions == [name : RealNames, gone : BOOLEAN]
<1>0. lists \subseteq Reads /\ deleting \subseteq Deletions
  BY DEF DashboardOK
<1>1. ASSUME NEW a \in lists, Dashboard!ServeList(a)
      PROVE  DashboardInv'
  <2> DEFINE served == [a EXCEPT !.read = TRUE, !.got = apps]
  <2>1. /\ lists' = (lists \ {a}) \cup {served}
        /\ UNCHANGED <<apps, listed, selected, marked, people, peopleReads, deleting, mixed, changed,
                       name, filled, available, checks, crossed, found, creating, modals>>
    BY <1>1 DEF Dashboard!ServeList, Dashboard!panel, Dashboard!form
  <2>2. served \in Reads /\ served.got = apps /\ served.deletes = a.deletes
    BY <1>0 DEF DashboardOK
  <2> HIDE DEF served
  <2>3. DashboardOK'
    <3>1. lists' \subseteq Reads
      BY <1>0, <2>1, <2>2
    <3> QED
      BY <2>1, <3>1 DEF DashboardOK
  <2>4. FormChecked' /\ PeopleKnown'
    BY <2>1, FormAside, PanelAside
  <2>5. ListKnown'
    <3> SUFFICES ASSUME ~ changed' PROVE ListKnown'
      BY DEF ListKnown
    <3>1. lists = {a} /\ lists' = {served}
      BY <2>1 DEF ListKnown
    <3>2. (Gone' <=> Gone) /\ (Closing' <=> Closing)
      BY <2>1, <2>2, <3>1 DEF Gone, Closing
    <3> QED
      BY <2>1, <2>2, <3>1, <3>2 DEF ListKnown
  <2> QED
    BY <2>3, <2>4, <2>5
<1>2. ASSUME NEW a \in lists, Dashboard!DeliverList(a)
      PROVE  DashboardInv'
  <2>1. /\ a.read /\ lists' = lists \ {a} /\ listed' = a.got
        /\ UNCHANGED <<apps, marked, deleting, changed,
                       name, filled, available, checks, crossed, found, creating>>
        /\ IF a.deletes
           THEN Dashboard!Select("none") /\ modals' = Dashboard!Closed(modals, {"delete"})
           ELSE UNCHANGED <<selected, people, peopleReads, mixed, modals>>
    BY <1>2 DEF Dashboard!DeliverList, Dashboard!DeliverListThen, Dashboard!form
  <2>2. /\ PeopleKnown' /\ selected' \in RealNames \cup {"none"}
        /\ {people'} \subseteq RealNames \cup {"none"}
        /\ peopleReads' \subseteq RealNames /\ mixed' \in BOOLEAN
        /\ a.deletes => selected' = "none"
    <3>1. CASE a.deletes
      <4>1. Dashboard!Select("none")
        BY <2>1, <3>1
      <4> QED
        BY <4>1, SelectKeeps
    <3>2. CASE ~ a.deletes
      BY <2>1, <3>2, PanelAside DEF DashboardOK
    <3> QED
      BY <3>1, <3>2
  <2>3. /\ modals' \in DashboardStacks
        /\ creating # "none" => modals' = modals
    <3>1. CASE modals = <<"delete">>
      <4>1. creating = "none"
        BY <3>1, StacksDiffer DEF FormChecked
      <4> QED
        BY <2>1, <3>1, <4>1, DashboardMoves DEF DashboardStacks
    <3>2. CASE modals \in {<<>>, <<"creator">>, <<"creator", "leave">>, <<"creator", "creating">>}
      BY <2>1, <3>2, DashboardMoves DEF DashboardStacks
    <3> QED
      BY <3>1, <3>2 DEF DashboardOK, DashboardStacks
  <2>4. DashboardOK'
    <3>1. a.got \subseteq RealNames
      BY <1>0
    <3> QED
      BY <2>1, <2>2, <2>3, <3>1 DEF DashboardOK
  <2>5. FormChecked'
    BY <2>1, <2>3, FormAside
  <2>6. ListKnown'
    <3> SUFFICES ASSUME ~ changed' PROVE ListKnown'
      BY DEF ListKnown
    <3>1. lists = {a} /\ lists' = {} /\ a.got = apps
      BY <2>1 DEF ListKnown
    <3>2. Gone' <=> Gone
      BY <2>1 DEF Gone
    <3>3. Gone \/ selected' \in apps \cup {"none"}
      BY <2>1, <2>2, <3>1 DEF ListKnown, Closing
    <3> QED
      BY <2>1, <3>1, <3>2, <3>3 DEF ListKnown
  <2> QED
    BY <2>2, <2>4, <2>5, <2>6
<1>3. ASSUME NEW d \in deleting, Dashboard!ServeDelete(d)
      PROVE  DashboardInv'
  <2> DEFINE gone == [d EXCEPT !.gone = TRUE]
  <2>1. /\ apps' = apps \ {d.name} /\ deleting' = (deleting \ {d}) \cup {gone}
        /\ changed' = (changed \/ lists # {})
        /\ UNCHANGED <<listed, lists, selected, marked, people, peopleReads, mixed,
                       name, filled, available, checks, crossed, found, creating, modals>>
    BY <1>3 DEF Dashboard!ServeDelete, Dashboard!list, Dashboard!form
  <2>2. gone \in Deletions /\ gone.gone
    BY <1>0
  <2> HIDE DEF gone
  <2>3. DashboardOK'
    <3>1. deleting' \subseteq Deletions /\ changed' \in BOOLEAN
      BY <1>0, <2>1, <2>2 DEF DashboardOK
    <3> QED
      BY <2>1, <3>1 DEF DashboardOK
  <2>4. FormChecked' /\ PeopleKnown'
    BY <2>1, FormAside, PanelAside
  <2>5. Gone' /\ (~ changed' => lists' = {})
    BY <2>1, <2>2 DEF Gone
  <2> QED
    BY <2>3, <2>4, <2>5 DEF ListKnown
<1>4. ASSUME NEW d \in deleting, Dashboard!Deleted(d)
      PROVE  DashboardInv'
  <2>1. /\ deleting' = deleting \ {d} /\ marked' = "none" /\ Dashboard!AskList(TRUE)
        /\ UNCHANGED <<apps, listed, selected, people, peopleReads, mixed,
                       name, filled, available, checks, crossed, found, creating, modals>>
    BY <1>4 DEF Dashboard!Deleted, Dashboard!form
  <2>2. /\ lists' \subseteq Reads /\ changed' \in BOOLEAN
        /\ ~ changed' => lists' = {Dashboard!Asked(TRUE)}
    BY <2>1, AskListKeeps
  <2>3. DashboardOK'
    BY <2>1, <2>2 DEF DashboardOK
  <2>4. FormChecked' /\ PeopleKnown'
    BY <2>1, FormAside, PanelAside
  <2>5. Dashboard!Asked(TRUE).deletes /\ ~ Dashboard!Asked(TRUE).read
    BY DEF Dashboard!Asked
  <2> QED
    BY <2>2, <2>3, <2>4, <2>5 DEF ListKnown, Closing
<1>5. ASSUME NEW d \in deleting, Dashboard!DeleteRefused(d)
      PROVE  DashboardInv'
  <2>1. /\ ~ d.gone /\ deleting' = deleting \ {d}
        /\ UNCHANGED <<apps, listed, lists, selected, marked, people, peopleReads, mixed, changed,
                       name, filled, available, checks, crossed, found, creating, modals>>
    BY <1>5 DEF Dashboard!DeleteRefused, Dashboard!list, Dashboard!form
  <2>2. DashboardOK'
    BY <2>1 DEF DashboardOK
  <2>3. FormChecked' /\ PeopleKnown'
    BY <2>1, FormAside, PanelAside
  <2>4. Gone' <=> Gone
    BY <2>1 DEF Gone
  <2>5. ListKnown'
    BY <2>1, <2>4 DEF ListKnown, Closing
  <2> QED
    BY <2>2, <2>3, <2>5
<1> QED
  BY <1>1, <1>2, <1>3, <1>4, <1>5

\* The steps of the form.
LEMMA FormSteps ==
    ASSUME Dashboard!DashboardAssumption, DashboardInv,
           \/ Dashboard!ClickCreator \/ (\E d \in TypedNames : Dashboard!TypeName(d)) \/ Dashboard!Fill
           \/ Dashboard!ClickCreate \/ Dashboard!AskLeave \/ Dashboard!Stay \/ Dashboard!Leave
           \/ \E n \in Dashboard!AppNames : Dashboard!DeliverCheck(n)
           \/ Dashboard!CheckUnanswered \/ Dashboard!CreateEnds
    PROVE  DashboardInv'
<1> USE DEF DashboardInv
<1> DEFINE Page == <<apps, listed, lists, changed>>
           Panel == <<selected, marked, people, peopleReads, deleting, mixed>>
<1>0. NameOf[name] \in Dashboard!AppNames
  BY DEF DashboardOK, Dashboard!AppNames
<1>1. CASE Dashboard!ClickCreator
  <2>1. /\ modals' = <<"creator">> /\ creating = "none"
        /\ name' = "" /\ filled' = FALSE /\ available' = FALSE
        /\ checks' = {} /\ crossed' = FALSE /\ found' = {} /\ creating' = creating
        /\ UNCHANGED <<Page, Panel>>
    <3>1. modals = <<>>
      BY <1>1, DashboardMoves DEF Dashboard!ClickCreator, DashboardOK
    <3>2. creating = "none"
      BY <3>1, StacksDiffer DEF FormChecked
    <3> QED
      BY <1>1, <3>1, <3>2, DashboardMoves DEF Dashboard!ClickCreator, Dashboard!list, Dashboard!panel
  <2>2. DashboardOK'
    BY <2>1 DEF DashboardOK, DashboardStacks, Dashboard!DashboardAssumption
  <2>3. FormChecked'
    BY <2>1 DEF FormChecked
  <2> QED
    BY <2>1, <2>2, <2>3, PanelAside, ListAside
<1>2. ASSUME NEW d \in TypedNames, Dashboard!TypeName(d) PROVE DashboardInv'
  <2>1. modals = <<"creator">> /\ creating = "none"
    <3>1. modals = <<"creator">>
      BY <1>2, DashboardMoves DEF Dashboard!TypeName, DashboardOK
    <3> QED
      BY <3>1, StacksDiffer DEF FormChecked
  <2>2. /\ name' = d /\ crossed' = (crossed \/ checks # {})
        /\ \/ available' = FALSE /\ checks' = checks
           \/ available' = available /\ checks' = checks \cup {NameOf[d]}
        /\ UNCHANGED <<Page, Panel, filled, found, creating, modals>>
    BY <1>2 DEF Dashboard!TypeName, Dashboard!list, Dashboard!panel
  <2>3. DashboardOK'
    <3>1. NameOf[d] \in Dashboard!AppNames
      BY DEF Dashboard!AppNames
    <3> QED
      BY <2>2, <3>1 DEF DashboardOK
  <2>4. FormChecked'
    BY <2>1, <2>2 DEF FormChecked, DashboardOK
  <2> QED
    BY <2>2, <2>3, <2>4, PanelAside, ListAside
<1>3. ASSUME NEW n \in Dashboard!AppNames, Dashboard!DeliverCheck(n) PROVE DashboardInv'
  <2>1. /\ n \in checks \ {""} /\ checks' = checks \ {n} /\ available' = (n \notin apps)
        /\ found' = IF n \in apps THEN found \ {n} ELSE found \cup {n}
        /\ UNCHANGED <<Page, Panel, name, filled, crossed, creating, modals>>
    BY <1>3 DEF Dashboard!DeliverCheck, Dashboard!list, Dashboard!panel
  <2>2. DashboardOK'
    BY <2>1 DEF DashboardOK
  <2>3. FormChecked'
    BY <2>1 DEF FormChecked
  <2> QED
    BY <2>1, <2>2, <2>3, PanelAside, ListAside
<1>4. CASE Dashboard!CheckUnanswered
  <2>1. /\ checks' = checks \ {""} /\ crossed' = TRUE
        /\ UNCHANGED <<Page, Panel, name, filled, available, found, creating, modals>>
    BY <1>4 DEF Dashboard!CheckUnanswered, Dashboard!list, Dashboard!panel
  <2>2. DashboardOK' /\ FormChecked'
    BY <2>1 DEF DashboardOK, FormChecked
  <2> QED
    BY <2>1, <2>2, PanelAside, ListAside
<1>5. CASE Dashboard!Fill
  <2>1. /\ filled' = TRUE
        /\ UNCHANGED <<Page, Panel, name, available, checks, crossed, found, creating, modals>>
    BY <1>5 DEF Dashboard!Fill, Dashboard!list, Dashboard!panel
  <2>2. DashboardOK' /\ FormChecked'
    BY <2>1 DEF DashboardOK, FormChecked
  <2> QED
    BY <2>1, <2>2, PanelAside, ListAside
<1>6. CASE Dashboard!ClickCreate
  <2>1. /\ available /\ creating' = NameOf[name] /\ crossed' = (crossed \/ checks # {})
        /\ UNCHANGED <<Page, Panel, name, filled, available, checks, found>>
    BY <1>6 DEF Dashboard!ClickCreate, Dashboard!list, Dashboard!panel
  <2>2. modals' = <<"creator", "creating">>
    BY <1>6, DashboardMoves DEF Dashboard!ClickCreate, DashboardOK
  <2>3. DashboardOK'
    BY <1>0, <2>1, <2>2 DEF DashboardOK, DashboardStacks
  <2>4. FormChecked'
    BY <2>1, <2>2 DEF FormChecked, DashboardOK
  <2> QED
    BY <2>1, <2>3, <2>4, PanelAside, ListAside
<1>7. CASE Dashboard!CreateEnds
  <2>1. /\ creating \notin {"none", "thrown"} /\ apps' = apps \cup ({creating} \ {""})
        /\ creating' = "none" /\ Dashboard!AskList(FALSE)
        /\ UNCHANGED <<Panel, listed, name, filled, available, checks, crossed, found>>
    BY <1>7 DEF Dashboard!CreateEnds, Dashboard!panel, Dashboard!form
  <2>2. modals' = <<>>
    BY <1>7, <2>1, DashboardMoves DEF Dashboard!CreateEnds, FormChecked
  <2>3. /\ lists' \subseteq [read : BOOLEAN, got : SUBSET RealNames, deletes : BOOLEAN]
        /\ changed' \in BOOLEAN
        /\ ~ changed' => ~ changed /\ lists = {} /\ lists' = {Dashboard!Asked(FALSE)}
    BY <2>1, AskListKeeps
  <2>4. DashboardOK'
    BY <2>1, <2>2, <2>3 DEF DashboardOK, DashboardStacks, RealNames
  <2>5. FormChecked' /\ PeopleKnown'
    BY <2>1, FormAside, PanelAside
  <2>6. ListKnown'
    <3>1. ~ Dashboard!Asked(FALSE).read
      BY DEF Dashboard!Asked
    <3> QED
      BY <2>1, <2>3, <3>1 DEF ListKnown, Gone, Closing
  <2> QED
    BY <2>4, <2>5, <2>6
<1>8. CASE Dashboard!AskLeave \/ Dashboard!Stay
  <2>1. UNCHANGED <<Page, Panel, name, filled, available, checks, crossed, found, creating>>
    BY <1>8 DEF Dashboard!AskLeave, Dashboard!Stay, Dashboard!list, Dashboard!panel, Dashboard!form
  <2>2. /\ modals \in {<<"creator">>, <<"creator", "leave">>}
        /\ modals' \in {<<"creator">>, <<"creator", "leave">>}
    BY <1>8, DashboardMoves DEF Dashboard!AskLeave, Dashboard!Stay, DashboardOK
  <2>3. creating = "none"
    BY <2>2, StacksDiffer DEF FormChecked
  <2>4. DashboardOK'
    BY <2>1, <2>2 DEF DashboardOK, DashboardStacks
  <2> QED
    BY <2>1, <2>3, <2>4, FormAside, PanelAside, ListAside
<1>9. CASE Dashboard!Leave
  <2>1. /\ Dashboard!AskList(FALSE)
        /\ UNCHANGED <<Panel, apps, listed, name, filled, available, checks, crossed, found, creating>>
    BY <1>9 DEF Dashboard!Leave, Dashboard!panel, Dashboard!form
  <2>2. modals = <<"creator", "leave">> /\ modals' = <<>>
    BY <1>9, DashboardMoves DEF Dashboard!Leave, DashboardOK
  <2>3. creating = "none"
    BY <2>2, StacksDiffer DEF FormChecked
  <2>4. /\ lists' \subseteq [read : BOOLEAN, got : SUBSET RealNames, deletes : BOOLEAN]
        /\ changed' \in BOOLEAN
        /\ ~ changed' => ~ changed /\ lists = {} /\ lists' = {Dashboard!Asked(FALSE)}
    BY <2>1, AskListKeeps
  <2>5. DashboardOK'
    BY <2>1, <2>2, <2>4 DEF DashboardOK, DashboardStacks
  <2>6. FormChecked' /\ PeopleKnown'
    BY <2>1, <2>3, FormAside, PanelAside
  <2>7. ListKnown'
    <3>1. ~ Dashboard!Asked(FALSE).read
      BY DEF Dashboard!Asked
    <3> QED
      BY <2>1, <2>4, <3>1 DEF ListKnown, Gone, Closing
  <2> QED
    BY <2>5, <2>6, <2>7
<1> QED
  BY <1>1, <1>2, <1>3, <1>4, <1>5, <1>6, <1>7, <1>8, <1>9

\* A request that fails says so in the history of its part.
LEMMA FailsKeeps ==
    ASSUME DashboardInv, Dashboard!Fails
    PROVE  DashboardInv'
<1> USE DEF DashboardInv
<1>0. UNCHANGED <<apps, listed, modals>>
  BY DEF Dashboard!Fails
<1>1. CASE /\ \E a \in lists : lists' = lists \ {a}
           /\ changed' = TRUE
           /\ UNCHANGED <<Dashboard!panel, Dashboard!form, creating>>
  <2>1. DashboardOK' /\ ListKnown'
    BY <1>0, <1>1 DEF DashboardOK, ListKnown, Dashboard!panel, Dashboard!form
  <2>2. FormChecked' /\ PeopleKnown'
    BY <1>0, <1>1, FormAside, PanelAside DEF Dashboard!panel, Dashboard!form
  <2> QED
    BY <2>1, <2>2
<1>2. CASE /\ \E n \in peopleReads : peopleReads' = peopleReads \ {n}
           /\ mixed' = TRUE
           /\ UNCHANGED <<lists, changed, selected, marked, people, deleting, Dashboard!form, creating>>
  <2>1. DashboardOK' /\ PeopleKnown'
    BY <1>0, <1>2 DEF DashboardOK, PeopleKnown, Dashboard!form
  <2>2. FormChecked' /\ ListKnown'
    BY <1>0, <1>2, FormAside, ListAside DEF Dashboard!form
  <2> QED
    BY <2>1, <2>2
<1>3. CASE /\ \E d \in deleting : deleting' = deleting \ {d}
           /\ changed' = TRUE
           /\ UNCHANGED <<lists, selected, marked, people, peopleReads, mixed, Dashboard!form, creating>>
  <2>1. DashboardOK' /\ ListKnown'
    BY <1>0, <1>3 DEF DashboardOK, ListKnown, Dashboard!form
  <2>2. FormChecked' /\ PeopleKnown'
    BY <1>0, <1>3, FormAside, PanelAside DEF Dashboard!form
  <2> QED
    BY <2>1, <2>2
<1>4. CASE /\ \E n \in checks : checks' = checks \ {n}
           /\ crossed' = TRUE
           /\ UNCHANGED <<lists, changed, Dashboard!panel, name, filled, available, found, creating>>
  <2>1. DashboardOK' /\ FormChecked'
    BY <1>0, <1>4 DEF DashboardOK, FormChecked, Dashboard!panel
  <2>2. PeopleKnown' /\ ListKnown'
    BY <1>0, <1>4, PanelAside, ListAside DEF Dashboard!panel
  <2> QED
    BY <2>1, <2>2
<1>5. CASE /\ creating \notin {"none", "thrown"}
           /\ creating' = "thrown"
           /\ UNCHANGED <<lists, changed, Dashboard!panel, Dashboard!form>>
  <2>1. UNCHANGED <<lists, changed, name, filled, available, checks, crossed, found,
                    selected, marked, people, peopleReads, deleting, mixed>>
    BY <1>5 DEF Dashboard!panel, Dashboard!form
  <2>2. DashboardOK'
    BY <1>0, <1>5, <2>1 DEF DashboardOK
  <2>3. FormChecked'
    BY <1>0, <1>5, <2>1 DEF FormChecked
  <2> QED
    BY <1>0, <2>1, <2>2, <2>3, PanelAside, ListAside
<1> QED
  BY <1>1, <1>2, <1>3, <1>4, <1>5 DEF Dashboard!Fails

LEMMA StepDashboardInv ==
    ASSUME Dashboard!DashboardAssumption, DashboardInv, [Dashboard!Next]_(Dashboard!vars)
    PROVE  DashboardInv'
<1>1. CASE UNCHANGED Dashboard!vars
  <2>1. UNCHANGED <<apps, listed, lists, selected, marked, people, peopleReads, deleting, mixed,
                    name, filled, available, checks, crossed, found, creating, modals, changed>>
    BY <1>1 DEF Dashboard!vars, Dashboard!list, Dashboard!panel, Dashboard!form
  <2>2. DashboardOK'
    BY <2>1 DEF DashboardInv, DashboardOK
  <2> QED
    BY <2>1, <2>2, FormAside, PanelAside, ListAside DEF DashboardInv
<1>2. CASE \/ \E n \in RealNames : Dashboard!OthersChange(n)
           \/ \E n \in Dashboard!AppNames : Dashboard!ClickApp(n) \/ Dashboard!DeliverPeople(n)
           \/ Dashboard!OpenDelete \/ Dashboard!CancelDelete \/ Dashboard!ClickDelete
  BY <1>2, PanelSteps
<1>3. CASE \/ \E a \in lists : Dashboard!ServeList(a) \/ Dashboard!DeliverList(a)
           \/ \E d \in deleting :
                Dashboard!ServeDelete(d) \/ Dashboard!Deleted(d) \/ Dashboard!DeleteRefused(d)
  BY <1>3, ListSteps
<1>4. CASE \/ Dashboard!ClickCreator \/ (\E d \in TypedNames : Dashboard!TypeName(d)) \/ Dashboard!Fill
           \/ Dashboard!ClickCreate \/ Dashboard!AskLeave \/ Dashboard!Stay \/ Dashboard!Leave
           \/ \E n \in Dashboard!AppNames : Dashboard!DeliverCheck(n)
           \/ Dashboard!CheckUnanswered \/ Dashboard!CreateEnds
  BY <1>4, FormSteps
<1> QED
  BY <1>1, <1>2, <1>3, <1>4, FailsKeeps
     DEF Dashboard!Next, Dashboard!UserStep, Dashboard!Progress, RealNames

LEMMA DashboardAlways == Spec => [](tab = "dashboard" => DashboardInv)
<1> DEFINE Inv == tab = "dashboard" => DashboardInv
<1>0. Dashboard!DashboardAssumption
  BY PagesAssumption
<1>1. Init => Inv
  BY <1>0, PageStarts, InitDashboardInv
<1>2. Inv /\ [Next]_vars => Inv'
  BY <1>0, PageSteps, StepDashboardInv
<1> QED
  BY <1>1, <1>2, PTL DEF Spec

\* For any number of applications, keystrokes, selections, deletions and
\* failing requests: what is sent to be created is a name a check found
\* available, although one flag says so for every name that was typed
\* (AppCreatorScreen.tsx), unless checks overlapped, failed or were overtaken.
THEOREM CreationIsChecked == Spec => []CreatedChecked
<1> DEFINE Inv == tab = "dashboard" => DashboardInv
<1>1. Inv => CreatedChecked
  BY DEF DashboardInv, FormChecked, CreatedChecked, Dashboard!CreatedChecked
<1> QED
  BY <1>1, DashboardAlways, PTL

\* Likewise: the list of applications and the panel show what the server has
\* and what was selected, and an application that was deleted here leaves the
\* panel (MyAppScreen.tsx), unless reads overlapped, failed, or others changed
\* the applications meanwhile.
THEOREM DashboardIsCurrent == Spec => []DashboardCurrent
<1> DEFINE Inv == tab = "dashboard" => DashboardInv
<1>1. Inv => DashboardCurrent
  <2> SUFFICES ASSUME tab = "dashboard", PeopleKnown, ListKnown PROVE Dashboard!DashboardCurrent
    BY DEF DashboardInv, DashboardCurrent
  <2>1. Dashboard!PeopleOfSelected
    BY DEF PeopleKnown, Dashboard!PeopleOfSelected
  <2>2. Dashboard!ListCurrent /\ Dashboard!DeletedLeaves
    BY DEF ListKnown, Gone, Closing, Dashboard!ListCurrent, Dashboard!DeletedLeaves
  <2> QED
    BY <2>1, <2>2 DEF Dashboard!DashboardCurrent
<1> QED
  BY <1>1, DashboardAlways, PTL

-----------------------------------------------------------------------------
(* The types of the pages *)

\* What lies over a window, and the bound on what its user does.
WindowStacks == {<<>>, <<"creator">>, <<"loading">>, <<"creator", "loading">>}
WindowsTyped == screens \in [Windows -> WindowStacks] /\ events \in 0 .. MaxVersionEvents

LEMMA WindowMoves ==
    ASSUME NEW s \in WindowStacks
    PROVE  /\ \A ms \in {{"loading"}, {"loading", "creator"}} : Versions!Closed(s, ms) \in WindowStacks
           /\ Versions!Top(s) = "creator" => Versions!Closed(s, {"creator"}) \in WindowStacks
           /\ Versions!Top(s) \in {"page", "creator"} => Versions!Opened(s, "loading") \in WindowStacks
           /\ Versions!Top(s) = "page" => Versions!Opened(s, "creator") \in WindowStacks
<1>1. /\ Versions!Top(s) = Screen!Top(s)
      /\ \A m : Versions!Opened(s, m) = Screen!Opened(s, m)
      /\ \A ms : Versions!Closed(s, ms) = Screen!Closed(s, ms)
  BY VersionsModals
<1>2. ASSUME NEW ms \in {{"loading"}, {"loading", "creator"}}
      PROVE  Screen!Closed(s, ms) \in WindowStacks
  <2>1. "creator" # "loading" /\ "loading" \in ms
    OBVIOUS
  <2>2. /\ Screen!Closed(<<>>, ms) = <<>>
        /\ Screen!Closed(<<"creator">>, ms) \in {<<>>, <<"creator">>}
        /\ Screen!Closed(<<"loading">>, ms) = <<>>
        /\ Screen!Closed(<<"creator", "loading">>, ms) \in {<<>>, <<"creator">>}
    BY <2>1, StacksClose
  <2> QED
    BY <2>2 DEF WindowStacks
<1>3. Screen!Top(s) = "page" => s = <<>>
  BY StacksTop DEF WindowStacks
<1>4. Screen!Top(s) = "creator" => s = <<"creator">>
  BY StacksTop DEF WindowStacks
<1>5. /\ Screen!Opened(<<>>, "loading") = <<"loading">>
      /\ Screen!Opened(<<>>, "creator") = <<"creator">>
      /\ Screen!Opened(<<"creator">>, "loading") = <<"creator", "loading">>
  BY StacksOpen
<1>6. Screen!Closed(<<"creator">>, {"creator"}) = <<>>
  BY StacksClose
<1> QED
  BY <1>1, <1>2, <1>3, <1>4, <1>5, <1>6 DEF WindowStacks

LEMMA StepWindowsTyped ==
    ASSUME Versions!VersionsAssumption, WindowsTyped, [Versions!Next]_(Versions!vars)
    PROVE  WindowsTyped'
<1>0. MaxVersionEvents \in Nat
  BY DEF Versions!VersionsAssumption
<1>1. CASE UNCHANGED <<screens, events>>
  BY <1>1 DEF WindowsTyped
<1>2. ASSUME NEW w \in Windows, NEW ms \in {{"loading"}, {"loading", "creator"}},
             Versions!Uncover(w, ms), UNCHANGED events
      PROVE  WindowsTyped'
  BY <1>2, WindowMoves DEF WindowsTyped, Versions!Uncover
<1>3. ASSUME Versions!Event PROVE events' \in 0 .. MaxVersionEvents
  BY <1>0, <1>3 DEF WindowsTyped, Versions!Event
<1>4. ASSUME NEW w \in Windows, Versions!Reach(w, "page") \/ Versions!Reach(w, "creator"),
             Versions!Cover(w, "loading")
      PROVE  screens' \in [Windows -> WindowStacks]
  BY <1>4, WindowMoves DEF WindowsTyped, Versions!Cover, Versions!Reach
<1>5. ASSUME NEW w \in Windows, Versions!OpenCreator(w) PROVE WindowsTyped'
  BY <1>5, WindowMoves DEF WindowsTyped, Versions!OpenCreator, Versions!Cover, Versions!Reach
<1>6. ASSUME NEW w \in Windows, Versions!Cancel(w) PROVE WindowsTyped'
  BY <1>6, WindowMoves DEF WindowsTyped, Versions!Cancel, Versions!Uncover, Versions!Reach
<1>7. ASSUME NEW w \in Windows, NEW v, NEW does, Versions!ClickCreate(w) \/ Versions!ClickVersion(w, does, v)
      PROVE  WindowsTyped'
  BY <1>3, <1>4, <1>7 DEF WindowsTyped, Versions!ClickCreate, Versions!ClickVersion, Versions!Start
<1>8. ASSUME NEW w \in Windows, NEW v,
             \/ Versions!TypeVersion(w, v) \/ Versions!Mount(w) \/ Versions!Read(w) \/ Versions!Act(w)
      PROVE  WindowsTyped'
  BY <1>1, <1>8 DEF Versions!TypeVersion, Versions!Mount, Versions!Read, Versions!Act
<1>9. ASSUME NEW w \in Windows, Versions!Refused(w) \/ Versions!ReadCap(w) PROVE WindowsTyped'
  BY <1>2, <1>9 DEF Versions!Refused, Versions!ReadCap
<1>10. ASSUME NEW w \in Windows, Versions!CallFails(w) PROVE WindowsTyped'
  <2>1. Versions!Uncover(w, {"loading"}) => screens' \in [Windows -> WindowStacks]
    BY WindowMoves DEF WindowsTyped, Versions!Uncover
  <2> QED
    BY <1>3, <1>10, <2>1 DEF WindowsTyped, Versions!CallFails
<1>11. CASE UNCHANGED Versions!vars
  BY <1>1, <1>11 DEF Versions!vars
<1> QED
  BY <1>5, <1>6, <1>7, <1>8, <1>9, <1>10, <1>11 DEF Versions!Next, Versions!UserStep, Versions!Progress

LEMMA WindowsTypedSays ==
    ASSUME VersionsInv, WindowsTyped
    PROVE  Versions!TypeOK
<1>1. WindowStacks \subseteq Versions!ModalStacks({"creator", "loading"})
  <2>1. /\ <<>> \in Screen!ModalStacks({"creator", "loading"})
        /\ <<"creator">> \in Screen!ModalStacks({"creator", "loading"})
        /\ <<"loading">> \in Screen!ModalStacks({"creator", "loading"})
        /\ <<"creator", "loading">> \in Screen!ModalStacks({"creator", "loading"})
    BY StacksTyped
  <2> QED
    BY <2>1, VersionsModals DEF WindowStacks
<1> QED
  BY <1>1 DEF VersionsInv, WindowsOK, CallRecords, WindowsTyped, Versions!TypeOK

LEMMA VersionsTyped == Spec => [](tab = "versions" => Versions!TypeOK)
<1> DEFINE Inv == tab = "versions" => VersionsInv /\ WindowsTyped
<1>0. Versions!VersionsAssumption
  BY PagesAssumption
<1>1. Init => Inv
  <2>1. MaxVersionEvents \in Nat /\ <<>> \in WindowStacks
    BY <1>0 DEF Versions!VersionsAssumption, WindowStacks
  <2>2. MaxVersionEvents \in Nat => 0 \in 0 .. MaxVersionEvents
    OBVIOUS
  <2>3. Versions!Init => screens = [w \in Windows |-> <<>>] /\ events = 0
    BY DEF Versions!Init
  <2>4. screens = [w \in Windows |-> <<>>] => screens \in [Windows -> WindowStacks]
    BY <2>1
  <2> QED
    BY <1>0, <2>1, <2>2, <2>3, <2>4, PageStarts, InitVersionsInv DEF WindowsTyped
<1>2. Inv /\ [Next]_vars => Inv'
  BY <1>0, PageSteps, StepVersionsInv, StepWindowsTyped
<1>3. Inv => (tab = "versions" => Versions!TypeOK)
  BY WindowsTypedSays
<1> QED
  BY <1>1, <1>2, <1>3, PTL DEF Spec

LEMMA DashboardTyped == Spec => [](tab = "dashboard" => Dashboard!TypeOK)
<1>1. DashboardInv => Dashboard!TypeOK
  <2>1. DashboardStacks \subseteq Dashboard!ModalStacks({"creator", "leave", "creating", "delete"})
    <3> DEFINE ms == {"creator", "leave", "creating", "delete"}
    <3>1. \A a \in ms : <<a>> \in Screen!ModalStacks(ms)
      BY StacksTyped
    <3>2. \A a, b \in ms : a # b => <<a, b>> \in Screen!ModalStacks(ms)
      BY StacksTyped
    <3>3. <<>> \in Screen!ModalStacks(ms)
      BY StacksTyped
    <3>4. {"creator", "leave", "creating", "delete"} \subseteq ms /\ "creator" # "leave" /\ "creator" # "creating"
      OBVIOUS
    <3> HIDE DEF ms
    <3>5. DashboardStacks \subseteq Screen!ModalStacks(ms)
      BY <3>1, <3>2, <3>3, <3>4 DEF DashboardStacks
    <3> QED
      BY <3>5, DashboardModals DEF ms
  <2>2. RealNames \subseteq Dashboard!AppNames
    BY DEF RealNames
  <2> QED
    BY <2>1, <2>2 DEF DashboardInv, DashboardOK, Dashboard!TypeOK, RealNames
<1> DEFINE Inv == tab = "dashboard" => DashboardInv
<1>2. Inv => (tab = "dashboard" => Dashboard!TypeOK)
  BY <1>1
<1> QED
  BY <1>2, DashboardAlways, PTL

\* What is in the tables, in the forms and in what is sent.  The page to
\* sign in offers what the user knows, and what a stage sends went through the
\* stages before it: so FormKnown is needed for what is registered.
RegistrationsMade == [id : Accounts!Ids, email : Emails \cup {"malformed"}, password : {"long", "theirs"},
                      at : {"select", "insert", "cap", "login", "thrown"}]
LoginsMade == [email : Emails \cup {""}, password : {"", "long", "theirs"}]
ListsMade == [read : BOOLEAN, found : SUBSET CliTokens]
Tables ==
    /\ users \subseteq [id : Accounts!Ids, email : Emails \cup {"malformed"}, password : {"long", "theirs"}]
    /\ caps \subseteq Accounts!Ids /\ uncapped \subseteq Accounts!Ids
    /\ sessions \in [Tokens -> Accounts!Ids \cup {"unused", "ended"}]
    /\ cliTokens \in [CliTokens -> Accounts!Ids \cup {"unused", "ended"}]
    /\ cookie \in Tokens \cup {"none"}
Forms ==
    /\ page \in {"signin", "signup", "app"}
    /\ form \in [email : Addresses, password : Passwords, confirmed : BOOLEAN, name : {"", "odd", "fine"}]
    /\ page = "signin" => form.email \in Emails \cup {""} /\ form.password \in {"", "long", "theirs"}
    /\ checks \subseteq Emails /\ free \subseteq Emails
Sent ==
    /\ registers \subseteq RegistrationsMade
    /\ logins \subseteq LoginsMade
Tokened ==
    /\ tokens \subseteq CliTokens
    /\ tokenCall \in CliTokens \cup {"none", "create", "thrown"}
    /\ lists \subseteq ListsMade
    /\ crossed \in BOOLEAN /\ ended \in BOOLEAN
    /\ modals \in {<<>>, <<"loading">>}
AccountsTyped == Tables /\ Forms /\ Sent /\ Tokened

LEMMA LoadingMoves ==
    /\ Accounts!Opened(<<>>, "loading") = <<"loading">>
    /\ Accounts!Opened(<<"loading">>, "loading") = <<"loading">>
    /\ Accounts!Closed(<<>>, {"loading"}) = <<>>
    /\ Accounts!Closed(<<"loading">>, {"loading"}) = <<>>
<1>1. /\ Screen!Opened(<<>>, "loading") = <<"loading">>
      /\ Screen!Opened(<<"loading">>, "loading") = <<"loading">>
  BY StacksOpen
<1>2. /\ Screen!Closed(<<>>, {"loading"}) = <<>>
      /\ Screen!Closed(<<"loading">>, {"loading"}) = <<>>
  BY StacksClose
<1> QED
  BY <1>1, <1>2, AccountsModals

\* A page that is shown anew.
LEMMA VisitTyped ==
    ASSUME NEW p \in {"signin", "signup", "app"}, Accounts!Visit(p)
    PROVE  Forms' /\ Tokened'
<1>1. Forms'
  BY DEF Accounts!Visit, Accounts!EmptyForm, Forms, Addresses, Passwords
<1>2. lists' \subseteq ListsMade
  <2>1. [read |-> FALSE, found |-> {}] \in ListsMade
    BY DEF ListsMade
  <2>2. lists' \subseteq {[read |-> FALSE, found |-> {}]}
    BY DEF Accounts!Visit, Accounts!Asked
  <2> QED
    BY <2>1, <2>2
<1>3. Tokened'
  BY <1>2 DEF Accounts!Visit, Tokened
<1> QED
  BY <1>1, <1>3

\* What an action leaves alone keeps its types.
LEMMA TypesAside ==
    /\ Tables /\ UNCHANGED <<users, caps, uncapped, sessions, cliTokens, cookie>> => Tables'
    /\ Forms /\ UNCHANGED <<page, form, checks, free>> => Forms'
    /\ Sent /\ UNCHANGED <<registers, logins>> => Sent'
    /\ Tokened /\ UNCHANGED <<tokens, tokenCall, lists, crossed, ended, modals>> => Tokened'
BY DEF Tables, Forms, Sent, Tokened

LEMMA EnterTyped ==
    ASSUME Tables, NEW e, NEW p, Accounts!Enter(e, p), UNCHANGED <<users, caps, uncapped, cliTokens>>
    PROVE  Tables'
<1> DEFINE unused == {t \in Tokens : sessions[t] = "unused"}
<1>1. PICK u \in Accounts!Matches(e, p) :
        /\ unused # {}
        /\ cookie' = CHOOSE t \in unused : TRUE
        /\ sessions' = [sessions EXCEPT ![cookie'] = u.id]
  BY DEF Accounts!Enter
<1>2. cookie' \in Tokens
  BY <1>1
<1>3. u.id \in Accounts!Ids
  BY DEF Accounts!Matches, Tables
<1> QED
  BY <1>1, <1>2, <1>3 DEF Tables

\* The steps of the user.
LEMMA UserTyped ==
    ASSUME AccountsInv, AccountsTyped, Accounts!UserStep
    PROVE  AccountsTyped'
<1>1. ASSUME NEW e \in Emails \cup {"malformed"}, Accounts!TypeEmail(e) PROVE AccountsTyped'
  <2>1. Forms'
    BY <1>1 DEF AccountsTyped, Forms, Accounts!TypeEmail, Accounts!On, Addresses
  <2> QED
    BY <1>1, <2>1, TypesAside DEF AccountsTyped, Accounts!TypeEmail, Accounts!db, Accounts!cli
<1>2. ASSUME Accounts!CheckEmail PROVE AccountsTyped'
  <2>1. Forms'
    BY <1>2 DEF AccountsTyped, Forms, Accounts!CheckEmail
  <2> QED
    BY <1>2, <2>1, TypesAside DEF AccountsTyped, Accounts!CheckEmail, Accounts!db, Accounts!cli
<1>3. ASSUME Accounts!CheckPassword PROVE AccountsTyped'
  BY <1>3, TypesAside DEF AccountsTyped, Accounts!CheckPassword, Accounts!db, Accounts!cli
<1>4. ASSUME NEW q \in {"short", "long"}, NEW same \in BOOLEAN, Accounts!TypePassword(q, same)
      PROVE  AccountsTyped'
  <2>1. Forms'
    BY <1>4 DEF AccountsTyped, Forms, Accounts!TypePassword, Accounts!On, Passwords
  <2> QED
    BY <1>4, <2>1, TypesAside DEF AccountsTyped, Accounts!TypePassword, Accounts!db, Accounts!cli
<1>5. ASSUME NEW n \in {"odd", "fine"}, Accounts!TypeName(n) PROVE AccountsTyped'
  <2>1. Forms'
    BY <1>5 DEF AccountsTyped, Forms, Accounts!TypeName, Accounts!On
  <2> QED
    BY <1>5, <2>1, TypesAside DEF AccountsTyped, Accounts!TypeName, Accounts!db, Accounts!cli
<1>6. ASSUME NEW e \in Emails, NEW q \in {"long", "theirs"}, Accounts!TypeCredentials(e, q)
      PROVE  AccountsTyped'
  <2>1. Forms'
    BY <1>6 DEF AccountsTyped, Forms, Accounts!TypeCredentials, Addresses, Passwords
  <2> QED
    BY <1>6, <2>1, TypesAside DEF AccountsTyped, Accounts!TypeCredentials, Accounts!db, Accounts!cli
<1>7. ASSUME Accounts!ClickSignUp PROVE AccountsTyped'
  <2>1. form.email \in Emails \cup {"malformed"} /\ form.password = "long"
    BY <1>7 DEF AccountsTyped, Forms, AccountsInv, FormKnown, Accounts!ClickSignUp, Accounts!On, Addresses
  <2>2. Sent'
    <3>1. [id |-> "me", email |-> form.email, password |-> form.password, at |-> "select"] \in RegistrationsMade
      BY <2>1 DEF RegistrationsMade, Accounts!Ids
    <3> QED
      BY <1>7, <3>1 DEF AccountsTyped, Sent, Accounts!ClickSignUp
  <2>3. Tokened'
    BY <1>7, LoadingMoves DEF AccountsTyped, Tokened, Accounts!ClickSignUp, Accounts!On, Accounts!cli
  <2> QED
    BY <1>7, <2>2, <2>3, TypesAside DEF AccountsTyped, Accounts!ClickSignUp, Accounts!db, Accounts!fields
<1>8. ASSUME Accounts!SignIn PROVE AccountsTyped'
  <2>1. Sent'
    <3>1. [email |-> form.email, password |-> form.password] \in LoginsMade
      BY <1>8 DEF AccountsTyped, Forms, Accounts!SignIn, LoginsMade
    <3> QED
      BY <1>8, <3>1 DEF AccountsTyped, Sent, Accounts!SignIn
  <2>2. Tokened'
    BY <1>8, LoadingMoves DEF AccountsTyped, Tokened, Accounts!SignIn, Accounts!cli
  <2> QED
    BY <1>8, <2>1, <2>2, TypesAside DEF AccountsTyped, Accounts!SignIn, Accounts!db, Accounts!fields
<1>9. ASSUME Accounts!Logout PROVE AccountsTyped'
  <2>1. Tables'
    BY <1>9 DEF AccountsTyped, Tables, Accounts!Logout
  <2> QED
    BY <1>9, <2>1, VisitTyped, TypesAside DEF AccountsTyped, Accounts!Logout
<1>10. ASSUME NEW p \in {"signin", "signup"}, Accounts!FollowLink(p) PROVE AccountsTyped'
  BY <1>10, VisitTyped, TypesAside DEF AccountsTyped, Accounts!FollowLink, Accounts!db
<1>11. ASSUME NEW c \in CliTokens \cup {"create"}, Accounts!ClickToken(c) PROVE AccountsTyped'
  <2>1. Tokened'
    BY <1>11, LoadingMoves DEF AccountsTyped, Tokened, Accounts!ClickToken
  <2> QED
    BY <1>11, <2>1, TypesAside DEF AccountsTyped, Accounts!ClickToken, Accounts!db, Accounts!fields
<1> QED
  BY <1>1, <1>2, <1>3, <1>4, <1>5, <1>6, <1>7, <1>8, <1>9, <1>10, <1>11 DEF Accounts!UserStep

\* The registrations and the sign-ins under way, and the other client's.
LEMMA RegistrationTyped ==
    ASSUME AccountsTyped, NEW r \in registers,
           \/ Accounts!SelectEmail(r) \/ Accounts!InsertUser(r) \/ Accounts!CreateCap(r) \/ Accounts!CapFails(r)
           \/ Accounts!LoginAfterSignUp(r) \/ Accounts!LoginAfterSignUpFails(r)
    PROVE  AccountsTyped'
<1>0. r \in RegistrationsMade
  BY DEF AccountsTyped, Sent
<1>1. ASSUME UNCHANGED logins,
             \/ registers' = registers \ {r}
             \/ \E step \in {"insert", "cap", "login", "thrown"} : registers' = Accounts!MoveTo(r, step)
      PROVE  Sent'
  <2>1. \A step \in {"insert", "cap", "login", "thrown"} : [r EXCEPT !.at = step] \in RegistrationsMade
    BY <1>0 DEF RegistrationsMade
  <2> QED
    BY <1>1, <2>1 DEF AccountsTyped, Sent, Accounts!MoveTo
<1>2. CASE Accounts!SelectEmail(r)
  <2>1. Sent'
    BY <1>1, <1>2 DEF Accounts!SelectEmail, Accounts!Refused
  <2> QED
    BY <1>2, <2>1, TypesAside DEF AccountsTyped, Accounts!SelectEmail, Accounts!db, Accounts!fields, Accounts!cli
<1>3. CASE Accounts!InsertUser(r)
  <2>1. Sent'
    BY <1>1, <1>3 DEF Accounts!InsertUser, Accounts!Refused
  <2>2. Tables'
    BY <1>0, <1>3 DEF RegistrationsMade, AccountsTyped, Tables, Accounts!InsertUser, Accounts!Registered
  <2> QED
    BY <1>3, <2>1, <2>2, TypesAside DEF AccountsTyped, Accounts!InsertUser, Accounts!fields, Accounts!cli
<1>4. CASE Accounts!CreateCap(r)
  <2>1. Sent'
    BY <1>1, <1>4 DEF Accounts!CreateCap
  <2>2. Tables'
    BY <1>0, <1>4 DEF RegistrationsMade, AccountsTyped, Tables, Accounts!CreateCap
  <2> QED
    BY <1>4, <2>1, <2>2, TypesAside DEF AccountsTyped, Accounts!CreateCap, Accounts!fields, Accounts!cli
<1>5. CASE Accounts!CapFails(r)
  <2>1. Sent'
    BY <1>1, <1>5 DEF Accounts!CapFails, Accounts!Refused
  <2>2. Tables'
    BY <1>0, <1>5 DEF RegistrationsMade, AccountsTyped, Tables, Accounts!CapFails, Accounts!db
  <2> QED
    BY <1>5, <2>1, <2>2, TypesAside DEF AccountsTyped, Accounts!CapFails, Accounts!fields, Accounts!cli
<1>6. CASE Accounts!LoginAfterSignUp(r)
  <2>1. Sent'
    BY <1>1, <1>6 DEF Accounts!LoginAfterSignUp
  <2>2. Tables'
    BY <1>6, EnterTyped DEF AccountsTyped, Accounts!LoginAfterSignUp
  <2> QED
    BY <1>6, <2>1, <2>2, VisitTyped DEF AccountsTyped, Accounts!LoginAfterSignUp
<1>7. CASE Accounts!LoginAfterSignUpFails(r)
  <2>1. Sent'
    BY <1>1, <1>7 DEF Accounts!LoginAfterSignUpFails
  <2> QED
    BY <1>7, <2>1, VisitTyped, TypesAside DEF AccountsTyped, Accounts!LoginAfterSignUpFails, Accounts!db
<1> QED
  BY <1>2, <1>3, <1>4, <1>5, <1>6, <1>7

LEMMA OthersTyped ==
    ASSUME AccountsTyped,
           \/ \E e \in Emails : Accounts!OtherSignsUp(e)
           \/ Accounts!OtherLogout
           \/ \E e \in checks : Accounts!DeliverCheck(e)
           \/ \E l \in logins : Accounts!LoginServed(l) \/ Accounts!LoginRefused(l)
    PROVE  AccountsTyped'
<1>1. ASSUME NEW e \in Emails, Accounts!OtherSignsUp(e) PROVE AccountsTyped'
  <2>1. Sent'
    <3>1. [id |-> "other", email |-> e, password |-> "theirs", at |-> "select"] \in RegistrationsMade
      BY DEF RegistrationsMade, Accounts!Ids
    <3> QED
      BY <1>1, <3>1 DEF AccountsTyped, Sent, Accounts!OtherSignsUp
  <2> QED
    BY <1>1, <2>1, TypesAside DEF AccountsTyped, Accounts!OtherSignsUp, Accounts!db, Accounts!fields, Accounts!cli
<1>2. ASSUME Accounts!OtherLogout PROVE AccountsTyped'
  <2>1. Tables'
    BY <1>2 DEF AccountsTyped, Tables, Accounts!OtherLogout
  <2>2. Tokened'
    BY <1>2 DEF AccountsTyped, Tokened, Accounts!OtherLogout
  <2> QED
    BY <1>2, <2>1, <2>2, TypesAside DEF AccountsTyped, Accounts!OtherLogout, Accounts!fields
<1>3. ASSUME NEW e \in checks, Accounts!DeliverCheck(e) PROVE AccountsTyped'
  <2>1. Forms'
    BY <1>3 DEF AccountsTyped, Forms, Accounts!DeliverCheck
  <2> QED
    BY <1>3, <2>1, TypesAside DEF AccountsTyped, Accounts!DeliverCheck, Accounts!db, Accounts!cli
<1>4. ASSUME NEW l \in logins, Accounts!LoginServed(l) PROVE AccountsTyped'
  <2>1. Sent'
    BY <1>4 DEF AccountsTyped, Sent, Accounts!LoginServed
  <2>2. Tables'
    BY <1>4, EnterTyped DEF AccountsTyped, Accounts!LoginServed
  <2>3. CASE page = "app"
    <3>1. Tokened'
      BY <1>4, <2>3 DEF AccountsTyped, Tokened, Accounts!LoginServed
    <3>2. Forms'
      BY <1>4, <2>3, TypesAside DEF AccountsTyped, Accounts!LoginServed, Accounts!fields
    <3> QED
      BY <2>1, <2>2, <3>1, <3>2 DEF AccountsTyped
  <2>4. CASE page # "app"
    BY <1>4, <2>1, <2>2, <2>4, VisitTyped DEF AccountsTyped, Accounts!LoginServed
  <2> QED
    BY <2>3, <2>4
<1>5. ASSUME NEW l \in logins, Accounts!LoginRefused(l) PROVE AccountsTyped'
  <2>1. Sent'
    BY <1>5 DEF AccountsTyped, Sent, Accounts!LoginRefused
  <2>2. Tokened'
    BY <1>5, LoadingMoves DEF AccountsTyped, Tokened, Accounts!LoginRefused, Accounts!cli
  <2> QED
    BY <1>5, <2>1, <2>2, TypesAside DEF AccountsTyped, Accounts!LoginRefused, Accounts!db, Accounts!fields
<1> QED
  BY <1>1, <1>2, <1>3, <1>4, <1>5

\* The page of the application.
LEMMA TokensTyped ==
    ASSUME AccountsTyped,
           \/ Accounts!TokenServed \/ Accounts!ServeList \/ Accounts!Unauthorized \/ Accounts!RequestFails
           \/ \E a \in lists : Accounts!DeliverList(a)
    PROVE  AccountsTyped'
<1>0. /\ Accounts!Asked \in ListsMade
      /\ \A id : Accounts!Owned(id) \subseteq CliTokens
      /\ \A id : [read |-> TRUE, found |-> Accounts!Owned(id)] \in ListsMade
      /\ Accounts!User(cookie) \in Accounts!Ids \cup {"none"}
  BY DEF AccountsTyped, Tables, ListsMade, Accounts!Asked, Accounts!Owned, Accounts!User
<1>1. CASE Accounts!TokenServed
  <2>1. Tables'
    <3>1. Accounts!User(cookie) \in Accounts!Ids
      BY <1>0, <1>1 DEF Accounts!TokenServed
    <3> QED
      BY <1>1, <3>1 DEF AccountsTyped, Tables, Accounts!TokenServed
  <2>2. Tokened'
    BY <1>0, <1>1, LoadingMoves DEF AccountsTyped, Tokened, Accounts!TokenServed
  <2> QED
    BY <1>1, <2>1, <2>2, TypesAside DEF AccountsTyped, Accounts!TokenServed, Accounts!fields
<1>2. CASE Accounts!ServeList
  <2>1. Tokened'
    BY <1>0, <1>2 DEF AccountsTyped, Tokened, Accounts!ServeList
  <2> QED
    BY <1>2, <2>1, TypesAside DEF AccountsTyped, Accounts!ServeList, Accounts!db, Accounts!fields
<1>3. CASE Accounts!Unauthorized
  BY <1>3, VisitTyped, TypesAside DEF AccountsTyped, Accounts!Unauthorized, Accounts!db
<1>4. CASE Accounts!RequestFails
  <2>1. Tokened'
    BY <1>4 DEF AccountsTyped, Tokened, Accounts!RequestFails
  <2> QED
    BY <1>4, <2>1, TypesAside DEF AccountsTyped, Accounts!RequestFails, Accounts!db, Accounts!fields
<1>5. ASSUME NEW a \in lists, Accounts!DeliverList(a) PROVE AccountsTyped'
  <2>1. Tokened'
    BY <1>5 DEF AccountsTyped, Tokened, ListsMade, Accounts!DeliverList
  <2> QED
    BY <1>5, <2>1, TypesAside DEF AccountsTyped, Accounts!DeliverList, Accounts!db, Accounts!fields
<1> QED
  BY <1>1, <1>2, <1>3, <1>4, <1>5

LEMMA StepAccountsTyped ==
    ASSUME AccountsInv, AccountsTyped, [Accounts!Next]_(Accounts!vars)
    PROVE  AccountsTyped'
<1>1. CASE UNCHANGED Accounts!vars
  BY <1>1, TypesAside DEF AccountsTyped, Accounts!vars, Accounts!db, Accounts!fields, Accounts!cli
<1> QED
  BY <1>1, UserTyped, RegistrationTyped, OthersTyped, TokensTyped DEF Accounts!Next, Accounts!Progress

LEMMA InitAccountsTyped ==
    ASSUME Accounts!Init
    PROVE  AccountsTyped
<1>1. users \subseteq [id : Accounts!Ids, email : Emails \cup {"malformed"}, password : {"long", "theirs"}]
  BY DEF Accounts!Init, Accounts!Registered, Accounts!Ids
<1>2. Tables
  BY <1>1 DEF Accounts!Init, Tables
<1>3. Forms /\ Sent /\ Tokened
  BY DEF Accounts!Init, Accounts!EmptyForm, Forms, Sent, Tokened, Addresses, Passwords, ListsMade
<1> QED
  BY <1>2, <1>3 DEF AccountsTyped

LEMMA AccountsAreTyped == Spec => [](tab = "accounts" => Accounts!TypeOK)
<1> DEFINE Inv == tab = "accounts" => AccountsInv /\ AccountsTyped
<1>1. Init => Inv
  BY PageStarts, InitAccountsInv, InitAccountsTyped
<1>2. Inv /\ [Next]_vars => Inv'
  BY PageSteps, StepAccountsInv, StepAccountsTyped
<1>3. AccountsInv /\ AccountsTyped => Accounts!TypeOK
  <2>1. modals \in {<<>>, <<"loading">>} => modals \in Accounts!ModalStacks({"loading"})
    BY StacksTyped, AccountsModals
  <2> QED
    BY <2>1 DEF AccountsInv, FormKnown, AccountsTyped, Tables, Forms, Sent, Tokened, Addresses, Passwords,
       RegistrationsMade, LoginsMade, ListsMade, Accounts!TypeOK
<1>4. Inv => (tab = "accounts" => Accounts!TypeOK)
  BY <1>3
<1> QED
  BY <1>1, <1>2, <1>4, PTL DEF Spec
=============================================================================

------------------------------ MODULE Accounts -------------------------------
(***************************************************************************)
(* Accounts and sessions: the sign-up and sign-in pages and the tokens of  *)
(* the command line in the web-client, the auth handlers of the            *)
(* main-server, and the tables users and sessions of the sentinel-server.  *)
(*                                                                         *)
(* One browser and another client that signs up, too.  A password is       *)
(* empty, too short, or long enough; a name that the form warns of is      *)
(* submitted as well as any other, because an effect offers the button     *)
(* for every name that is not empty.  Pictures are left out.               *)
(***************************************************************************)
EXTENDS Modals, FiniteSets, Naturals

CONSTANTS
    Emails,         \* well-formed addresses
    Tokens,         \* session tokens, drawn at random: never twice the same
    CliTokens,      \* tokens of the command line, likewise
    MaxEvents       \* bound: what the user sends, the other client and what fails

AccountsAssumption ==
    /\ Emails \cap {"", "malformed"} = {}
    /\ "none" \notin Tokens \cup CliTokens
    /\ MaxEvents \in Nat

VARIABLES
    users,      \* table users: who registered them, address, password
    caps,       \* the users with a usage cap for applications
    sessions,   \* table sessions: token -> user, or "unused", "ended"
    cliTokens,  \* table cli_tokens: token -> user, or "unused", "ended"
    cookie,     \* the session the browser sends
    page,       \* "signin", "signup" or "app"
    stage,      \* the stage of the sign-up page that is scrolled to
    form,       \* its fields, or those of the sign-in page
    checks,     \* addresses whose check is on its way
    registers,  \* registrations under way
    logins,     \* sign-ins under way
    tokens,     \* tokens, of APIPage
    tokenCall,  \* handleCreateCliToken or handleDeleteCliToken, or "none"
    lists,      \* reads of the tokens on their way, and what they have read
    modals,
    events,     \* history: for the bound
    free,       \* history: addresses a check found free
    racing,     \* history: was the address edited during its check?
    uncapped,   \* history: users whose cap could not be made
    crossed,    \* history: did two reads of the tokens overlap, one fail, or a
                \* sign-in end on the page?
    ended       \* history: did the session end after the last request?

db == <<users, caps, sessions, cliTokens>>
fields == <<stage, form, checks, free, racing>>
cli == <<tokens, tokenCall, lists, crossed, ended>>
vars == <<db, cookie, page, fields, registers, logins, cli, modals, events, uncapped>>

Ids == {"me", "other"}
EmptyForm == [email |-> "", password |-> "", confirmed |-> FALSE, name |-> ""]
Registered(id, email, password) == [id |-> id, email |-> email, password |-> password]
Asked == [read |-> FALSE, found |-> {}]
Owned(id) == {t \in CliTokens : cliTokens[t] = id}

\* ValidateToken: the user of a session, "none" for any other token.
User(token) == IF token \in Tokens /\ sessions[token] \in Ids THEN sessions[token] ELSE "none"

Init ==
    /\ users \in {{}} \cup {{Registered("me", p[1], "long"), Registered("other", p[2], "theirs")} :
                            p \in {p \in Emails \X Emails : p[1] # p[2]}}
    /\ caps = {u.id : u \in users}
    /\ sessions = [t \in Tokens |-> "unused"]
    /\ cliTokens = [t \in CliTokens |-> "unused"]
    /\ cookie = "none"
    /\ page = "signin"
    /\ stage = 1
    /\ form = EmptyForm
    /\ checks = {}
    /\ registers = {}
    /\ logins = {}
    /\ tokens = {}
    /\ tokenCall = "none"
    /\ lists = {}
    /\ modals = <<>>
    /\ events = 0
    /\ free = {}
    /\ racing = FALSE
    /\ uncapped = {}
    /\ crossed = FALSE
    /\ ended = FALSE

Event == events < MaxEvents /\ events' = events + 1

\* A page that is left takes its state along.
Visit(p) ==
    /\ page' = p
    /\ stage' = 1
    /\ form' = EmptyForm
    /\ checks' = {}
    /\ free' = {}
    /\ racing' = FALSE
    /\ tokens' = {}
    /\ tokenCall' = "none"
    /\ lists' = IF p = "app" THEN {Asked} ELSE {}
    /\ crossed' = FALSE
    /\ ended' = FALSE
    /\ modals' = <<>>

-----------------------------------------------------------------------------
(* The sign-up page: its stages are scrolled to, never back by the user *)

On(p, s) == page = p /\ stage = s /\ modals = <<>>

TypeEmail(e) ==
    /\ On("signup", 1)
    /\ form' = [form EXCEPT !.email = e]
    /\ racing' = (racing \/ checks # {})
    /\ UNCHANGED <<db, cookie, page, stage, checks, free, registers, logins, cli, modals, events, uncapped>>

\* handleCheckEmail: nothing covers the field meanwhile.
CheckEmail ==
    /\ On("signup", 1)
    /\ form.email \in Emails
    /\ Event
    /\ checks' = checks \cup {form.email}
    /\ UNCHANGED <<db, cookie, page, stage, form, free, racing, registers, logins, cli, modals, uncapped>>

\* The next stage, if the address is not taken; also when the user is further.
DeliverCheck(e) ==
    /\ e \in checks
    /\ checks' = checks \ {e}
    /\ IF \E u \in users : u.email = e
       THEN UNCHANGED <<stage, free>>
       ELSE stage' = 2 /\ free' = free \cup {e}
    /\ UNCHANGED <<db, cookie, page, form, racing, registers, logins, cli, modals, events, uncapped>>

TypePassword(p, same) ==
    /\ On("signup", 2)
    /\ form' = [form EXCEPT !.password = p, !.confirmed = same]
    /\ UNCHANGED <<db, cookie, page, stage, checks, free, racing, registers, logins, cli, modals, events, uncapped>>

\* handleCheckPassword
CheckPassword ==
    /\ On("signup", 2)
    /\ form.password = "long" /\ form.confirmed
    /\ stage' = 3
    /\ UNCHANGED <<db, cookie, page, form, checks, free, racing, registers, logins, cli, modals, events, uncapped>>

TypeName(n) ==
    /\ On("signup", 3)
    /\ form' = [form EXCEPT !.name = n]
    /\ UNCHANGED <<db, cookie, page, stage, checks, free, racing, registers, logins, cli, modals, events, uncapped>>

\* handleSignUp, while signUpAvailable.
ClickSignUp ==
    /\ On("signup", 3)
    /\ ~ \E u \in users : u.id = "me"
    /\ "" \notin {form.email, form.password, form.name}
    /\ Event
    /\ registers' = registers \cup {[id |-> "me", email |-> form.email, password |-> form.password, at |-> "select"]}
    /\ modals' = Opened(modals, "loading")
    /\ UNCHANGED <<db, cookie, page, fields, logins, cli, uncapped>>

-----------------------------------------------------------------------------
(* Registration, in the main-server and the sentinel-server *)

OtherSignsUp(e) ==
    /\ Event
    /\ ~ \E r \in registers : r.id = "other"
    /\ ~ \E u \in users : u.id = "other"
    /\ registers' = registers \cup {[id |-> "other", email |-> e, password |-> "theirs", at |-> "select"]}
    /\ UNCHANGED <<db, cookie, page, fields, logins, cli, modals, uncapped>>

MoveTo(r, step) == (registers \ {r}) \cup {[r EXCEPT !.at = step]}
Refused(r) == IF r.id = "me" THEN MoveTo(r, "thrown") ELSE registers \ {r}

\* RegisterUser: SELECT ...
SelectEmail(r) ==
    /\ r.at = "select"
    /\ registers' = IF \E u \in users : u.email = r.email THEN Refused(r) ELSE MoveTo(r, "insert")
    /\ UNCHANGED <<db, cookie, page, fields, logins, cli, modals, events, uncapped>>

\* ... and INSERT into a table whose addresses are UNIQUE.  Wrong variant: the
\* table does not say so.
InsertAny(r) ==
    /\ r.at = "insert"
    /\ users' = users \cup {Registered(r.id, r.email, r.password)}
    /\ registers' = MoveTo(r, "cap")
    /\ UNCHANGED <<caps, sessions, cliTokens, cookie, page, fields, logins, cli, modals, events, uncapped>>
InsertUser(r) ==
    /\ r.at = "insert"
    /\ IF \E u \in users : u.email = r.email
       THEN registers' = Refused(r) /\ UNCHANGED users
       ELSE /\ users' = users \cup {Registered(r.id, r.email, r.password)}
            /\ registers' = MoveTo(r, "cap")
    /\ UNCHANGED <<caps, sessions, cliTokens, cookie, page, fields, logins, cli, modals, events, uncapped>>

\* create_usage_cap_appcliation, and the answer: the browser signs in.
CreateCap(r) ==
    /\ r.at = "cap"
    /\ caps' = caps \cup {r.id}
    /\ registers' = IF r.id = "me" THEN MoveTo(r, "login") ELSE registers \ {r}
    /\ UNCHANGED <<users, sessions, cliTokens, cookie, page, fields, logins, cli, modals, events, uncapped>>

\* The user stays without one; register rejects, and the modal stays.
CapFails(r) ==
    /\ r.at = "cap"
    /\ Event
    /\ uncapped' = uncapped \cup {r.id}
    /\ registers' = Refused(r)
    /\ UNCHANGED <<db, cookie, page, fields, logins, cli, modals>>

-----------------------------------------------------------------------------
(* Sessions *)

\* LoginUser: a session more for the user, whatever sessions there are.
Matches(email, password) == {u \in users : u.email = email /\ u.password = password}
Enter(email, password) ==
    LET unused == {t \in Tokens : sessions[t] = "unused"}
    IN \E u \in Matches(email, password) :
        /\ unused # {}
        /\ cookie' = CHOOSE t \in unused : TRUE
        /\ sessions' = [sessions EXCEPT ![cookie'] = u.id]

\* The sign-up page goes on to the application whether login succeeds or not.
LoginAfterSignUp(r) ==
    /\ r.at = "login"
    /\ registers' = registers \ {r}
    /\ Enter(r.email, r.password)
    /\ Visit("app")
    /\ UNCHANGED <<users, caps, cliTokens, logins, events, uncapped>>

LoginAfterSignUpFails(r) ==
    /\ r.at = "login"
    /\ Event
    /\ registers' = registers \ {r}
    /\ Visit("app")
    /\ UNCHANGED <<db, cookie, logins, uncapped>>

\* The keyboard reaches the form below the modal, and so does the Enter key.
TypeCredentials(e, p) ==
    /\ page = "signin"
    /\ form' = [form EXCEPT !.email = e, !.password = p]
    /\ UNCHANGED <<db, cookie, page, stage, checks, free, racing, registers, logins, cli, modals, events, uncapped>>

\* handleSignIn
SignIn ==
    /\ page = "signin"
    /\ Event
    /\ logins' = logins \cup {[email |-> form.email, password |-> form.password]}
    /\ modals' = Opened(modals, "loading")
    /\ UNCHANGED <<db, cookie, page, fields, registers, cli, uncapped>>

\* The browser goes to the application, from wherever it is by now.
LoginServed(l) ==
    /\ l \in logins
    /\ logins' = logins \ {l}
    /\ Enter(l.email, l.password)
    /\ IF page = "app"
       THEN crossed' = TRUE /\ UNCHANGED <<page, fields, tokens, tokenCall, lists, ended, modals>>
       ELSE Visit("app")
    /\ UNCHANGED <<users, caps, cliTokens, registers, events, uncapped>>

\* login catches every error.
LoginRefused(l) ==
    /\ l \in logins
    /\ Matches(l.email, l.password) = {}
    /\ logins' = logins \ {l}
    /\ modals' = IF page = "signin" THEN Closed(modals, {"loading"}) ELSE modals
    /\ UNCHANGED <<db, cookie, page, fields, registers, cli, events, uncapped>>

FollowLink(p) ==
    /\ <<page, p>> \in {<<"signin", "signup">>, <<"signup", "signin">>}
    /\ modals = <<>>
    /\ Visit(p)
    /\ UNCHANGED <<db, cookie, registers, logins, events, uncapped>>

\* GET /logout ends all sessions of the user.
Logout ==
    /\ page = "app" /\ modals = <<>>
    /\ User(cookie) # "none"
    /\ Event
    /\ sessions' = [t \in Tokens |-> IF sessions[t] = User(cookie) THEN "ended" ELSE sessions[t]]
    /\ cookie' = "none"
    /\ Visit("signin")
    /\ UNCHANGED <<users, caps, cliTokens, registers, logins, uncapped>>

\* The same user signs out on another device.
OtherLogout ==
    /\ Event
    /\ sessions' = [t \in Tokens |-> IF sessions[t] = "me" THEN "ended" ELSE sessions[t]]
    /\ ended' = (ended \/ Asked \notin lists)
    /\ UNCHANGED <<users, caps, cliTokens, cookie, page, fields, registers, logins, tokens, tokenCall, lists, crossed, modals, uncapped>>

-----------------------------------------------------------------------------
(* APIPage: every request passes validate_user_token *)

\* A 401 takes the browser to the sign-in page.  Wrong variant: it is an error
\* like others.
UnauthorizedStays ==
    /\ page = "app"
    /\ User(cookie) = "none"
    /\ Asked \in lists
    /\ lists' = lists \ {Asked}
    /\ UNCHANGED <<db, cookie, page, fields, registers, logins, tokens, tokenCall, crossed, ended, modals, events, uncapped>>
Unauthorized ==
    /\ page = "app"
    /\ User(cookie) = "none"
    /\ tokenCall \notin {"none", "thrown"} \/ Asked \in lists
    /\ Visit("signin")
    /\ UNCHANGED <<db, cookie, registers, logins, events, uncapped>>

ClickToken(call) ==
    /\ page = "app" /\ modals = <<>>
    /\ call = "create" \/ call \in tokens
    /\ Event
    /\ tokenCall' = call
    /\ modals' = Opened(modals, "loading")
    /\ UNCHANGED <<db, cookie, page, fields, registers, logins, tokens, lists, crossed, ended, uncapped>>

\* It is done; the list is asked for and the modal closed.
TokenServed ==
    /\ tokenCall \notin {"none", "thrown"} /\ User(cookie) # "none"
    /\ IF tokenCall = "create"
       THEN \E t \in {t \in CliTokens : cliTokens[t] = "unused"} : cliTokens' = [cliTokens EXCEPT ![t] = User(cookie)]
       ELSE cliTokens' = [cliTokens EXCEPT ![tokenCall] = "ended"]
    /\ tokenCall' = "none"
    /\ lists' = lists \cup {Asked}
    /\ crossed' = (crossed \/ lists # {})
    /\ modals' = Closed(modals, {"loading"})
    /\ UNCHANGED <<users, caps, sessions, cookie, page, fields, registers, logins, tokens, ended, events, uncapped>>

ServeList ==
    /\ Asked \in lists /\ User(cookie) # "none"
    /\ lists' = (lists \ {Asked}) \cup {[read |-> TRUE, found |-> Owned(User(cookie))]}
    /\ ended' = FALSE
    /\ UNCHANGED <<db, cookie, page, fields, registers, logins, tokens, tokenCall, crossed, modals, events, uncapped>>

DeliverList(a) ==
    /\ a.read
    /\ lists' = lists \ {a}
    /\ tokens' = a.found
    /\ UNCHANGED <<db, cookie, page, fields, registers, logins, tokenCall, crossed, ended, modals, events, uncapped>>

\* Any other error: the callback throws, under its modal if it has one.
RequestFails ==
    /\ Event
    /\ page = "app"
    /\ \/ tokenCall \notin {"none", "thrown"} /\ tokenCall' = "thrown" /\ UNCHANGED <<lists, crossed>>
       \/ \E a \in lists : lists' = lists \ {a} /\ crossed' = TRUE /\ UNCHANGED tokenCall
    /\ UNCHANGED <<db, cookie, page, fields, registers, logins, tokens, ended, modals, uncapped>>

UserStep ==
    \/ \E e \in Emails \cup {"malformed"} : TypeEmail(e)
    \/ CheckEmail \/ CheckPassword \/ ClickSignUp \/ SignIn \/ Logout
    \/ \E p \in {"short", "long"}, same \in BOOLEAN : TypePassword(p, same)
    \/ \E n \in {"odd", "fine"} : TypeName(n)
    \/ \E e \in Emails, p \in {"long", "theirs"} : TypeCredentials(e, p)
    \/ \E p \in {"signin", "signup"} : FollowLink(p)
    \/ \E call \in CliTokens \cup {"create"} : ClickToken(call)

\* What happens by itself.
Progress ==
    \/ \E e \in checks : DeliverCheck(e)
    \/ \E r \in registers : SelectEmail(r) \/ InsertUser(r) \/ CreateCap(r) \/ LoginAfterSignUp(r)
    \/ \E l \in logins : LoginServed(l) \/ LoginRefused(l)
    \/ TokenServed \/ ServeList \/ Unauthorized
    \/ \E a \in lists : DeliverList(a)

Next ==
    \/ UserStep
    \/ Progress
    \/ \E e \in Emails : OtherSignsUp(e)
    \/ OtherLogout
    \/ \E r \in registers : CapFails(r) \/ LoginAfterSignUpFails(r)
    \/ RequestFails

Spec == Init /\ [][Next]_vars

\* Requests that do not fail are answered.
FairSpec == Spec /\ WF_vars(Progress)

-----------------------------------------------------------------------------
(* Properties *)

\* Type invariant of the tables, the pages and what is under way.
TypeOK ==
    /\ users \subseteq [id : Ids, email : Emails \cup {"malformed"}, password : {"long", "theirs"}]
    /\ caps \subseteq Ids /\ uncapped \subseteq Ids
    /\ sessions \in [Tokens -> Ids \cup {"unused", "ended"}]
    /\ cliTokens \in [CliTokens -> Ids \cup {"unused", "ended"}]
    /\ cookie \in Tokens \cup {"none"}
    /\ page \in {"signin", "signup", "app"} /\ stage \in 1 .. 3
    /\ form \in [email : Emails \cup {"", "malformed"}, password : {"", "short", "long", "theirs"},
                 confirmed : BOOLEAN, name : {"", "odd", "fine"}]
    /\ checks \subseteq Emails /\ free \subseteq Emails
    /\ registers \subseteq [id : Ids, email : Emails \cup {"malformed"}, password : {"short", "long", "theirs"},
                            at : {"select", "insert", "cap", "login", "thrown"}]
    /\ logins \subseteq [email : Emails \cup {""}, password : {"", "long", "theirs"}]
    /\ tokens \subseteq CliTokens
    /\ tokenCall \in CliTokens \cup {"none", "create", "thrown"}
    /\ lists \subseteq [read : BOOLEAN, found : SUBSET CliTokens]
    /\ crossed \in BOOLEAN /\ ended \in BOOLEAN
    /\ modals \in ModalStacks({"loading"})

\* What the last stage sends went through the checks of the stages before, which
\* a late answer may scroll back to: a password that is long enough and was typed
\* twice, and an address found free, unless it was edited during a check.
RegistrationChecked ==
    page = "signup" /\ stage = 3 =>
        /\ form.password = "long" /\ form.confirmed
        /\ form.email \in free \/ racing

\* No two users have one address, although RegisterUser looks for it and
\* inserts it in two statements.
EmailsUnique ==
    \A u, v \in users : u.email = v.email => u = v

\* Every user has a cap for applications, but for those whose registration was
\* answered with an error after the user was inserted.
UsersCapped ==
    \A u \in users : u.id \in caps \cup uncapped \cup {r.id : r \in {q \in registers : q.at = "cap"}}

\* Only checked registrations are sent, and they leave whole, distinct users.
AccountsSound == RegistrationChecked /\ EmailsUnique /\ UsersCapped

\* The tokens on the page are those of the signed-in user once they are read,
\* unless two reads crossed or a second sign-in ended on the page.
TokensOwn ==
    page = "app" /\ lists = {} /\ tokenCall = "none" /\ ~ crossed /\ User(cookie) # "none" =>
        tokens = Owned(User(cookie))

\* A browser without a session stays in the application only until it asks for
\* something: its session ended after the last request.
GuestsLeave ==
    page = "app" /\ lists = {} /\ tokenCall = "none" /\ ~ crossed /\ User(cookie) = "none" => ended

\* The page of the application is of the session the browser has.
SessionShown == TokensOwn /\ GuestsLeave

\* The modal over a page, and the failure of a request that keeps it there.
Covered == IsOpen(modals, "loading")
Thrown == tokenCall = "thrown" \/ \E r \in registers : r.at = "thrown"
=============================================================================

----------------------------- MODULE Workspace ------------------------------
(***************************************************************************)
(* One tab of the web application: AuthProvider with its login form and    *)
(* its sign-out button, AppProvider with the lists it loads for who is     *)
(* signed in, and the page of roles.  A request is sent with the session   *)
(* the browser has, handled by the API and answered; requests overtake     *)
(* each other, and none is cancelled.  Effects of a change of user or      *)
(* permissions run with it.                                                *)
(*                                                                         *)
(* Of the API it takes what Sessions and RoleGrants show: a session is of  *)
(* one user, and a route answers who has its permission when it is asked.  *)
(***************************************************************************)
EXTENDS Integers, FiniteSets

CONSTANTS
    User,
    List,           \* lists of AppProvider, each with its permission to view
    Kept,           \* those its effect leaves alone while nobody is signed in
    Assignments,    \* what the roles of the school may grant: User -> permissions
    Row,            \* rows entered from this tab
    ListOf,         \* Row -> the list it goes to
    LoadSlots,      \* bound: loads of one list under way at once
    None

Permission == List \cup {"team"}

ASSUME ListAssumption == Kept \subseteq List /\ "team" \notin List
ASSUME AssignmentsAssumption == Assignments \subseteq [User -> SUBSET Permission]
ASSUME RowAssumption == ListOf \in [Row -> List]
ASSUME SlotsAssumption == LoadSlots \in Nat \ {0}
ASSUME NoneAssumption == None \notin User

VARIABLES
    user, permissions, loading,     \* state of AuthProvider
    cookie,         \* whose session the browser has
    roles,          \* what the roles grant in the database
    call,           \* the requests of AuthProvider and of the page of roles
    add,            \* Row -> the request that enters it, and its page
    load,           \* List -> slot -> the request that loads it
    shown,          \* List -> it has rows on the screen
    carried,        \* lists a request is about that a change of user crossed
    revived         \* the user has left while the identity was being read

vars == <<user, permissions, loading, cookie, roles, call, add, load, shown, carried, revived>>

Slot == 1 .. LoadSlots
Who == User \cup {None}
Kind == {"me", "refresh", "login", "logout", "identity", "role"}
Step == {"idle", "sent", "answered"}
CallState == [step : Step, as : Who, permissions : SUBSET Permission]
Entry == [step : {"idle", "sent", "stored", "done"}, as : Who, page : SUBSET Permission]
LoadState == [step : Step, as : Who]

Idle == [step |-> "idle", as |-> None, permissions |-> {}]
Sent(as) == [step |-> "sent", as |-> as, permissions |-> {}]
Granted(who) == IF who = None THEN {} ELSE roles[who]
(* The user, with its permissions, as presentUser gives it.                *)
Answer(who) == [step |-> "answered", as |-> who, permissions |-> Granted(who)]
NotEntered == [step |-> "idle", as |-> None, page |-> {}]
Over == [step |-> "done", as |-> None, page |-> {}]
Free == [step |-> "idle", as |-> None]

(* loading is set exactly while one request that may sign in is under way. *)
SigningIn == {k \in {"me", "refresh", "login"} : call[k].step # "idle"}
TypeOK ==
    /\ user \in Who /\ cookie \in Who
    /\ permissions \in SUBSET Permission
    /\ {loading, revived} \subseteq BOOLEAN
    /\ roles \in Assignments
    /\ call \in [Kind -> CallState]
    /\ add \in [Row -> Entry]
    /\ load \in [List -> [Slot -> LoadState]]
    /\ shown \in [List -> BOOLEAN]
    /\ carried \in SUBSET List
    /\ Cardinality(SigningIn) = IF loading THEN 1 ELSE 0

(* The tab opens, with or without a session, and asks who it is of.        *)
Init ==
    /\ user = None /\ permissions = {} /\ loading = TRUE
    /\ cookie \in Who
    /\ roles \in Assignments
    /\ call = [k \in Kind |-> IF k = "me" THEN Sent(cookie) ELSE Idle]
    /\ add = [r \in Row |-> NotEntered]
    /\ load = [l \in List |-> [n \in Slot |-> Free]]
    /\ shown = [l \in List |-> FALSE]
    /\ carried = {} /\ revived = FALSE

Loading(l) == \E n \in Slot : load[l][n].step # "idle"
HasSlot(l) == \E n \in Slot : load[l][n].step = "idle"
Begin(l, jar) ==
    LET n == CHOOSE m \in Slot : load[l][m].step = "idle"
    IN  [load[l] EXCEPT ![n] = [step |-> "sent", as |-> jar]]

(* recordPayment loads the students when it is done, if the page it was    *)
(* called on may see them.                                                 *)
LoadsStudents(r) == ListOf[r] = "payments" /\ "students" \in add[r].page
Entering(r) == add[r].step \in {"sent", "stored"}
UnderWay ==
    {l \in List : \/ Loading(l)
                  \/ \E r \in Row : Entering(r) /\ (l = ListOf[r] \/ (l = "students" /\ LoadsStudents(r)))}

Calling(k) == call[k].step # "idle"
Set(k, state) == call' = [call EXCEPT ![k] = state]

(* FAULT: the lists are left to the next load.                             *)
ApplyKeeping(who, granted, jar) ==
    /\ \A l \in granted \cap List : HasSlot(l)
    /\ user' = who /\ permissions' = granted
    /\ load' = [l \in List |-> IF l \in granted THEN Begin(l, jar) ELSE load[l]]
    /\ carried' = UnderWay \cap IF <<who, granted>> = <<user, permissions>> THEN carried ELSE List
    /\ revived' = (revived \/ (who = None /\ (Calling("identity") \/ Calling("role"))))
    /\ UNCHANGED shown

(* applyUser, or both set to nothing, and the effects that follow: lists   *)
(* are loaded for who may see them, and emptied for who may not, except    *)
(* those whose effect returns at once while nobody is signed in.           *)
Apply(who, granted, jar) ==
    /\ \A l \in granted \cap List : HasSlot(l)
    /\ user' = who /\ permissions' = granted
    /\ load' = [l \in List |-> IF l \in granted THEN Begin(l, jar) ELSE load[l]]
    /\ shown' = [l \in List |-> shown[l] /\ l \in IF who = None THEN Kept ELSE granted]
    /\ carried' = UnderWay \cap IF <<who, granted>> = <<user, permissions>> THEN carried ELSE List
    /\ revived' = (revived \/ (who = None /\ (Calling("identity") \/ Calling("role"))))

SignedIn(k, jar) == Apply(call[k].as, call[k].permissions, jar)
SignedOut == Apply(None, {}, cookie)
NoChange == UNCHANGED <<user, permissions, load, shown, carried, revived>>

-----------------------------------------------------------------------------
(* FAULT: the form may be sent while the session is being restored.        *)
LoginWhileLoading(u) ==
    /\ user = None /\ ~Calling("login")
    /\ loading' = TRUE
    /\ Set("login", Sent(u))
    /\ NoChange /\ UNCHANGED <<cookie, roles, add>>

(* The submit button is disabled while loading, and the form only there    *)
(* while nobody is signed in.                                              *)
Login(u) ==
    /\ user = None /\ ~loading
    /\ loading' = TRUE
    /\ Set("login", Sent(u))
    /\ NoChange /\ UNCHANGED <<cookie, roles, add>>

(* The pages and their buttons are behind ProtectedRoute.                  *)
OnPage == user # None /\ ~loading

Logout ==
    /\ OnPage /\ ~Calling("logout")
    /\ Set("logout", Sent(cookie))
    /\ NoChange /\ UNCHANGED <<loading, cookie, roles, add>>

(* One save of a role at a time is followed.                               *)
SaveRole ==
    /\ OnPage /\ "team" \in permissions /\ ~Calling("role") /\ ~Calling("identity")
    /\ Set("role", Sent(cookie))
    /\ NoChange /\ UNCHANGED <<loading, cookie, roles, add>>

(* The API answers 401 to who has no session, or an access token no more,  *)
(* and to a login with a wrong password.                                   *)
Handle(k) ==
    /\ call[k].step = "sent"
    /\ \E who \in {None, call[k].as} : Set(k, Answer(who))
    /\ NoChange /\ UNCHANGED <<loading, cookie, roles, add>>

HandleLogout ==
    /\ call["logout"].step = "sent"
    /\ Set("logout", Answer(None))
    /\ cookie' = None
    /\ NoChange /\ UNCHANGED <<loading, roles, add>>

(* A saved role changes what its members may do, or is refused.            *)
HandleRole ==
    /\ call["role"].step = "sent"
    /\ \/ /\ "team" \in Granted(call["role"].as)
          /\ roles' \in Assignments
          /\ Set("role", [call["role"] EXCEPT !.step = "answered"])
       \/ UNCHANGED roles /\ Set("role", Answer(None))
    /\ NoChange /\ UNCHANGED <<loading, cookie, add>>

(* Restoring: a 401 of /auth/me is followed by /auth/refresh, any other    *)
(* error is not.                                                           *)
AnswerMe ==
    /\ call["me"].step = "answered"
    /\ \/ call["me"].as # None /\ SignedIn("me", cookie) /\ Set("me", Idle) /\ loading' = FALSE
       \/ /\ call["me"].as = None
          /\ call' = [call EXCEPT !["me"] = Idle, !["refresh"] = Sent(cookie)]
          /\ NoChange /\ UNCHANGED loading
    /\ UNCHANGED <<cookie, roles, add>>

AnswerRefresh ==
    /\ call["refresh"].step = "answered"
    /\ SignedIn("refresh", cookie)
    /\ Set("refresh", Idle)
    /\ loading' = FALSE
    /\ UNCHANGED <<cookie, roles, add>>

(* FAULT: only a login that succeeds ends the loading.                     *)
AnswerLoginStuck ==
    LET who == call["login"].as
    IN  /\ call["login"].step = "answered"
        /\ IF who = None THEN NoChange /\ UNCHANGED cookie ELSE SignedIn("login", who) /\ cookie' = who
        /\ Set("login", Idle)
        /\ loading' = (who = None)
        /\ UNCHANGED <<roles, add>>

AnswerLogin ==
    LET who == call["login"].as
    IN  /\ call["login"].step = "answered"
        /\ IF who = None THEN NoChange /\ UNCHANGED cookie ELSE SignedIn("login", who) /\ cookie' = who
        /\ Set("login", Idle)
        /\ loading' = FALSE
        /\ UNCHANGED <<roles, add>>

AnswerIdentity ==
    /\ call["identity"].step = "answered"
    /\ IF call["identity"].as = None THEN NoChange ELSE SignedIn("identity", cookie)
    /\ Set("identity", Idle)
    /\ UNCHANGED <<loading, cookie, roles, add>>

(* persistRole: a saved role is followed by refreshIdentity, whoever is on *)
(* the screen by then.                                                     *)
AnswerRole ==
    /\ call["role"].step = "answered"
    /\ call' = [call EXCEPT !["role"] = Idle,
                            !["identity"] = IF call["role"].as = None THEN @ ELSE Sent(cookie)]
    /\ NoChange /\ UNCHANGED <<loading, cookie, roles, add>>

LoseRole ==
    /\ Calling("role")
    /\ Set("role", Idle)
    /\ NoChange /\ UNCHANGED <<loading, cookie, roles, add>>

(* Answered or failed, the user is taken off the screen.                   *)
AnswerLogout ==
    /\ Calling("logout")
    /\ SignedOut
    /\ Set("logout", Idle)
    /\ UNCHANGED <<loading, cookie, roles, add>>

LoseMe ==
    /\ Calling("me")
    /\ Set("me", Idle)
    /\ loading' = FALSE
    /\ NoChange /\ UNCHANGED <<cookie, roles, add>>

-----------------------------------------------------------------------------
AuthUnchanged == UNCHANGED <<user, permissions, loading, cookie, roles, call, carried, revived>>
SetLoad(l, n, state) == load' = [load EXCEPT ![l][n] = state]

(* A search or another page of the students.                               *)
Search ==
    /\ OnPage /\ "students" \in permissions /\ HasSlot("students")
    /\ load' = [load EXCEPT !["students"] = Begin("students", cookie)]
    /\ AuthUnchanged /\ UNCHANGED <<add, shown>>

HandleLoad(l, n) ==
    /\ load[l][n].step = "sent" /\ l \in Granted(load[l][n].as)
    /\ SetLoad(l, n, [step |-> "answered", as |-> None])
    /\ AuthUnchanged /\ UNCHANGED <<add, shown>>

(* Refused, or lost.                                                       *)
FailLoad(l, n) ==
    /\ load[l][n].step # "idle"
    /\ SetLoad(l, n, Free)
    /\ AuthUnchanged /\ UNCHANGED <<add, shown>>

(* The page that is answered replaces the list; it may be empty.           *)
AnswerLoad(l, n) ==
    /\ load[l][n].step = "answered"
    /\ \E found \in BOOLEAN : shown' = [shown EXCEPT ![l] = found]
    /\ SetLoad(l, n, Free)
    /\ AuthUnchanged /\ UNCHANGED add

Add(r) ==
    /\ OnPage /\ ListOf[r] \in permissions /\ add[r] = NotEntered
    /\ add' = [add EXCEPT ![r] = [step |-> "sent", as |-> cookie, page |-> permissions]]
    /\ AuthUnchanged /\ UNCHANGED <<load, shown>>

HandleAdd(r) ==
    /\ add[r].step = "sent" /\ ListOf[r] \in Granted(add[r].as)
    /\ add' = [add EXCEPT ![r] = [step |-> "stored", as |-> None, page |-> @.page]]
    /\ AuthUnchanged /\ UNCHANGED <<load, shown>>

FailAdd(r) ==
    /\ Entering(r)
    /\ add' = [add EXCEPT ![r] = Over]
    /\ AuthUnchanged /\ UNCHANGED <<load, shown>>

(* The new row goes before what the list then has.                         *)
AnswerAdd(r) ==
    /\ add[r].step = "stored"
    /\ add' = [add EXCEPT ![r] = Over]
    /\ shown' = [shown EXCEPT ![ListOf[r]] = TRUE]
    /\ IF LoadsStudents(r)
       THEN HasSlot("students") /\ load' = [load EXCEPT !["students"] = Begin("students", cookie)]
       ELSE UNCHANGED load
    /\ AuthUnchanged

Next ==
    \/ \E u \in User : Login(u)
    \/ Logout \/ SaveRole
    \/ \E k \in {"me", "refresh", "login", "identity"} : Handle(k)
    \/ HandleLogout \/ HandleRole
    \/ AnswerMe \/ AnswerRefresh \/ AnswerLogin \/ AnswerIdentity \/ AnswerRole \/ AnswerLogout
    \/ LoseMe \/ LoseRole \/ Search
    \/ \E l \in List, n \in Slot : HandleLoad(l, n) \/ FailLoad(l, n) \/ AnswerLoad(l, n)
    \/ \E r \in Row : Add(r) \/ HandleAdd(r) \/ FailAdd(r) \/ AnswerAdd(r)

Spec == Init /\ [][Next]_vars
-----------------------------------------------------------------------------
(* A list has rows only for who may see them: they leave the screen with   *)
(* the user or the permission, except expenses and budgets, which wait for *)
(* the next user; unless the change has crossed a request about that list. *)
ShownToPermitted ==
    \A l \in List \ carried : shown[l] => l \in IF user = None THEN Kept ELSE permissions

(* Who is on the screen has the session that requests are sent with: the   *)
(* restored session does not undo a login, nor a login that failed one     *)
(* that stands; unless the user left while the identity was being read     *)
(* again, or was about to be, which puts it back.                          *)
IdentityIsSession ==
    ~revived /\ user # None => cookie = user \/ Calling("logout")
-----------------------------------------------------------------------------
(* Requests that no change of user has crossed are about lists that who is *)
(* on the screen may see.                                                  *)
OwnRequests == UnderWay \ carried \subseteq permissions

(* Who signs in is not on the screen yet; whose identity is read, whose    *)
(* role is saved or who signs out is; and a request about the session is   *)
(* sent with the one that stands, unless it is being ended.                *)
SessionInv ==
    ~revived =>
        /\ SigningIn # {} => user = None
        /\ \A k \in {"identity", "role", "logout"} : Calling(k) => user # None
        /\ \A k \in {"me", "refresh", "identity"} :
                Calling(k) => call[k].as \in {None, cookie} \/ Calling("logout")

(* Nobody has no permissions.                                              *)
NobodyInv ==
    /\ user = None => permissions = {}
    /\ \A k \in Kind : call[k].as = None => call[k].permissions = {}

IInv == TypeOK /\ NobodyInv /\ OwnRequests /\ ShownToPermitted /\ SessionInv /\ IdentityIsSession
=============================================================================

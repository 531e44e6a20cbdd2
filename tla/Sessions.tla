------------------------------ MODULE Sessions ------------------------------
(***************************************************************************)
(* AuthService and AuthController for one active account, with the cookies *)
(* of the browsers it is used from.  Every statement of the service names  *)
(* one user, so accounts do not interact.  One process per HTTP request,   *)
(* with a step for each await on the database; a session, its refresh      *)
(* token and a reset token are named by the request that inserted them.    *)
(*                                                                         *)
(*   pc[r]:  new -> granted | failing -> counting -> missed     (login)    *)
(*           new -> rotating | reusing                          (refresh)  *)
(*           new -> leaving                                     (logout)   *)
(*           new -> issuing                                     (forgot)   *)
(*           new -> resetting                                   (reset)    *)
(*           new -> admitted -> changing                        (change)   *)
(*   and then signed or cleared, with cookies in the answer, or refused,   *)
(*   and done.  idle: not sent yet.                                        *)
(*                                                                         *)
(* met keeps which interleavings and losses a behaviour has met, for the   *)
(* properties to say what they rest on.                                    *)
(***************************************************************************)
EXTENDS Integers, FiniteSets

CONSTANTS
    Request, Browser, Password,
    Body,               \* bodies of the requests to /auth
    FirstPassword,
    MaxAttempts,        \* AUTH_MAX_ATTEMPTS
    None

LoginDto == [kind : {"login"}, password : Password]
BareRequest == [kind : {"refresh", "logout", "forgot"}]
ResetPasswordDto == [kind : {"reset"}, token : Request, password : Password]
ChangePasswordDto == [kind : {"change"}, current : Password, password : Password]

ASSUME BodyAssumption ==
    Body \subseteq LoginDto \cup BareRequest \cup ResetPasswordDto \cup ChangePasswordDto
ASSUME PasswordAssumption == FirstPassword \in Password
ASSUME AttemptsAssumption == MaxAttempts \in Nat /\ MaxAttempts >= 3
ASSUME NoneAssumption == None \notin Request

VARIABLES
    account,        \* its password, failedLoginAttempts, and whether lockedUntil is ahead
    session,        \* Request -> AuthSession, or None while not inserted
    token,          \* Request -> "none", "unused" or "used" password reset token
    lapsed,         \* sessions (by their login) and reset tokens whose expiresAt is past
    jar,            \* Browser -> the session of each cookie it holds
    req,            \* the body request r arrived with, its browser and its cookies
    pc,             \* where the handler of r is, or how it ended
    attempts,       \* failedLoginAttempts as registerFailedLogin of r has read it
    scanned,        \* the unused reset tokens that the updateMany of r found
    met

vars == <<account, session, token, lapsed, jar, req, pc, attempts, scanned, met>>

AuthSession == [family : Request, from : Request \cup {None}, revoked : BOOLEAN]
Cookies == [access : Request \cup {None}, refresh : Request \cup {None}]
Sent == [body : Body, by : Browser, cookies : Cookies]
ASSUME NoRowAssumption == None \notin AuthSession /\ None \notin Sent
Stage ==
    {"idle", "new", "granted", "failing", "counting", "missed", "rotating", "reusing",
     "leaving", "issuing", "resetting", "admitted", "changing",
     "signed", "cleared", "refused", "done"}
Kind == {"rotation", "revocation", "password", "token", "attempt", "answer"}

Inserted == {s \in Request : session[s] # None}
Live == {s \in Inserted : ~session[s].revoked}
Usable(s) == s \in Live /\ session[s].family \notin lapsed
At(stages) == {r \in Request : pc[r] \in stages}
KindOf(r) == req[r].body.kind

(* Every session and every cookie goes back to a login.                    *)
TypeOK ==
    /\ account \in [password : Password, failed : 0 .. MaxAttempts - 1, locked : BOOLEAN]
    /\ session \in [Request -> AuthSession \cup {None}]
    /\ token \in [Request -> {"none", "unused", "used"}]
    /\ lapsed \subseteq Request
    /\ jar \in [Browser -> Cookies]
    /\ req \in [Request -> Sent \cup {None}]
    /\ pc \in [Request -> Stage]
    /\ attempts \in [Request -> 0 .. MaxAttempts - 1]
    /\ scanned \in [Request -> SUBSET Request]
    /\ met \subseteq Kind
    /\ \A b \in Browser : {jar[b].access, jar[b].refresh} \subseteq Inserted \cup {None}
    /\ \A s \in Inserted :
        /\ session[s].family \in Inserted
        /\ KindOf(session[s].family) = "login"

Init ==
    /\ account = [password |-> FirstPassword, failed |-> 0, locked |-> FALSE]
    /\ session = [s \in Request |-> None]
    /\ token = [t \in Request |-> "none"]
    /\ lapsed = {}
    /\ jar = [b \in Browser |-> [access |-> None, refresh |-> None]]
    /\ req = [r \in Request |-> None]
    /\ pc = [r \in Request |-> "idle"]
    /\ attempts = [r \in Request |-> 0]
    /\ scanned = [r \in Request |-> {}]
    /\ met = {}

Goto(r, stage) == pc' = [pc EXCEPT ![r] = stage]
DbUnchanged == UNCHANGED <<account, session, token>>
Revoke(s) == [session EXCEPT ![s].revoked = TRUE]
RevokeAll ==
    [s \in Request |-> IF s \in Live THEN [session[s] EXCEPT !.revoked = TRUE] ELSE session[s]]

(* A browser sends a request with the cookies it holds now; the token of a *)
(* reset is one that was issued.                                           *)
Send(r, b) ==
    /\ pc[r] = "idle"
    /\ \E body \in Body :
        /\ body.kind = "reset" => token[body.token] # "none"
        /\ req' = [req EXCEPT ![r] = [body |-> body, by |-> b, cookies |-> jar[b]]]
    /\ Goto(r, "new")
    /\ DbUnchanged
    /\ UNCHANGED <<lapsed, jar, attempts, scanned>>

-----------------------------------------------------------------------------
Arrives(r, kind) == pc[r] = "new" /\ KindOf(r) = kind
NoWrite == DbUnchanged /\ UNCHANGED <<lapsed, jar, req, attempts, scanned>>
Wrote == UNCHANGED <<lapsed, jar, req, attempts, scanned>>

(* FAULT: the lock is not looked at.                                       *)
LoginReadUnlocked(r) ==
    /\ Arrives(r, "login")
    /\ Goto(r, IF req[r].body.password # account.password THEN "failing" ELSE "granted")
    /\ NoWrite

LoginRead(r) ==
    /\ Arrives(r, "login")
    /\ Goto(r, IF req[r].body.password # account.password THEN "failing"
               ELSE IF account.locked THEN "refused" ELSE "granted")
    /\ NoWrite

LoginCommit(r) ==
    /\ pc[r] = "granted"
    /\ account' = [account EXCEPT !.failed = 0, !.locked = FALSE]
    /\ session' = [session EXCEPT ![r] = [family |-> r, from |-> None, revoked |-> FALSE]]
    /\ Goto(r, "signed")
    /\ UNCHANGED token /\ Wrote

FailedLoginRead(r) ==
    /\ pc[r] = "failing"
    /\ attempts' = [attempts EXCEPT ![r] = account.failed]
    /\ Goto(r, "counting")
    /\ DbUnchanged
    /\ UNCHANGED <<lapsed, jar, req, scanned>>

(* FAULT: the count locks at one attempt less.                             *)
FailedLoginCommitEarly(r) ==
    /\ pc[r] = "counting"
    /\ account' = IF attempts[r] + 1 >= MaxAttempts - 1
                  THEN [account EXCEPT !.failed = 0, !.locked = TRUE]
                  ELSE [account EXCEPT !.failed = attempts[r] + 1]
    /\ Goto(r, "missed")
    /\ UNCHANGED <<session, token>> /\ Wrote

(* The last attempt locks and starts the count anew; any other leaves      *)
(* lockedUntil as it is.                                                   *)
FailedLoginCommit(r) ==
    /\ pc[r] = "counting"
    /\ account' = IF attempts[r] + 1 >= MaxAttempts
                  THEN [account EXCEPT !.failed = 0, !.locked = TRUE]
                  ELSE [account EXCEPT !.failed = attempts[r] + 1]
    /\ Goto(r, "missed")
    /\ UNCHANGED <<session, token>> /\ Wrote

(* FAULT: a revoked session is not told from a live one.                   *)
RefreshReadRevoked(r) ==
    LET t == req[r].cookies.refresh
    IN  /\ Arrives(r, "refresh")
        /\ Goto(r, IF t = None THEN "refused"
                   ELSE IF session[t].family \in lapsed THEN "refused" ELSE "rotating")
        /\ NoWrite

RefreshRead(r) ==
    LET t == req[r].cookies.refresh
    IN  /\ Arrives(r, "refresh")
        /\ Goto(r, IF t = None THEN "refused"
                   ELSE IF session[t].revoked THEN "reusing"
                   ELSE IF session[t].family \in lapsed THEN "refused" ELSE "rotating")
        /\ NoWrite

ReuseCommit(r) ==
    /\ pc[r] = "reusing"
    /\ session' = RevokeAll
    /\ Goto(r, "refused")
    /\ UNCHANGED <<account, token>> /\ Wrote

(* FAULT: the session that is replaced stays live.                         *)
RefreshCommitBeside(r) ==
    LET t == req[r].cookies.refresh
    IN  /\ pc[r] = "rotating"
        /\ session' =
            [session EXCEPT ![r] = [family |-> session[t].family, from |-> t, revoked |-> FALSE]]
        /\ Goto(r, "signed")
        /\ UNCHANGED <<account, token>> /\ Wrote

(* The replacement inherits expiresAt, so it lapses with its family.       *)
RefreshCommit(r) ==
    LET t == req[r].cookies.refresh
    IN  /\ pc[r] = "rotating"
        /\ session' =
            [Revoke(t) EXCEPT
                ![r] = [family |-> session[t].family, from |-> t, revoked |-> FALSE]]
        /\ Goto(r, "signed")
        /\ UNCHANGED <<account, token>> /\ Wrote

LogoutRead(r) ==
    LET t == req[r].cookies.refresh
    IN  /\ Arrives(r, "logout")
        /\ Goto(r, IF t \in Live THEN "leaving" ELSE "cleared")
        /\ NoWrite

LogoutCommit(r) ==
    /\ pc[r] = "leaving"
    /\ session' = Revoke(req[r].cookies.refresh)
    /\ Goto(r, "cleared")
    /\ UNCHANGED <<account, token>> /\ Wrote

(* READ COMMITTED: the updateMany marks the tokens its scan found, and     *)
(* both statements show at the commit.                                     *)
ForgotScan(r) ==
    /\ Arrives(r, "forgot")
    /\ scanned' = [scanned EXCEPT ![r] = {t \in Request : token[t] = "unused"}]
    /\ Goto(r, "issuing")
    /\ DbUnchanged
    /\ UNCHANGED <<lapsed, jar, req, attempts>>

(* FAULT: earlier tokens stay usable.                                      *)
ForgotCommitBeside(r) ==
    /\ pc[r] = "issuing"
    /\ token' = [token EXCEPT ![r] = "unused"]
    /\ Goto(r, "done")
    /\ UNCHANGED <<account, session>> /\ Wrote

ForgotCommit(r) ==
    /\ pc[r] = "issuing"
    /\ token' = [t \in Request |->
                    IF t = r THEN "unused" ELSE IF t \in scanned[r] THEN "used" ELSE token[t]]
    /\ Goto(r, "done")
    /\ UNCHANGED <<account, session>> /\ Wrote

ResetRead(r) ==
    LET t == req[r].body.token
    IN  /\ Arrives(r, "reset")
        /\ Goto(r, IF token[t] = "unused" /\ t \notin lapsed
                      /\ req[r].body.password # account.password
                   THEN "resetting" ELSE "refused")
        /\ NoWrite

ResetCommit(r) ==
    /\ pc[r] = "resetting"
    /\ account' = [password |-> req[r].body.password, failed |-> 0, locked |-> FALSE]
    /\ token' = [token EXCEPT ![req[r].body.token] = "used"]
    /\ session' = RevokeAll
    /\ Goto(r, "cleared")
    /\ Wrote

(* AuthenticationGuard.  Of the routes behind it only change-password      *)
(* touches this state.                                                     *)
ChangeAdmit(r) ==
    /\ Arrives(r, "change")
    /\ Goto(r, IF Usable(req[r].cookies.access) THEN "admitted" ELSE "refused")
    /\ NoWrite

ChangeRead(r) ==
    LET dto == req[r].body
    IN  /\ pc[r] = "admitted"
        /\ Goto(r, IF dto.current = account.password /\ dto.password # account.password
                   THEN "changing" ELSE "refused")
        /\ NoWrite

(* FAULT: only the session the password is changed from is revoked.        *)
ChangeCommitOwn(r) ==
    /\ pc[r] = "changing"
    /\ account' = [account EXCEPT !.password = req[r].body.password]
    /\ session' = Revoke(req[r].cookies.access)
    /\ Goto(r, "cleared")
    /\ UNCHANGED token /\ Wrote

ChangeCommit(r) ==
    /\ pc[r] = "changing"
    /\ account' = [account EXCEPT !.password = req[r].body.password]
    /\ session' = RevokeAll
    /\ Goto(r, "cleared")
    /\ UNCHANGED token /\ Wrote

-----------------------------------------------------------------------------
(* FAULT: an answer sets the access cookie alone.                          *)
DeliverAccess(r) ==
    /\ pc[r] \in {"signed", "cleared"}
    /\ jar' = [jar EXCEPT ![req[r].by] =
                IF pc[r] = "signed"
                THEN [access |-> r, refresh |-> IF @.refresh = None THEN r ELSE @.refresh]
                ELSE [access |-> None, refresh |-> None]]
    /\ Goto(r, "done")
    /\ DbUnchanged
    /\ UNCHANGED <<lapsed, req, attempts, scanned>>

(* setCookies and clearCookies act when the answer reaches the browser;    *)
(* answers overtake each other.                                            *)
Deliver(r) ==
    /\ pc[r] \in {"signed", "cleared"}
    /\ jar' = [jar EXCEPT ![req[r].by] =
                IF pc[r] = "signed" THEN [access |-> r, refresh |-> r]
                ELSE [access |-> None, refresh |-> None]]
    /\ Goto(r, "done")
    /\ DbUnchanged
    /\ UNCHANGED <<lapsed, req, attempts, scanned>>

LoseAnswer(r) ==
    /\ pc[r] \in {"signed", "cleared"}
    /\ Goto(r, "done")
    /\ NoWrite

(* Time: the access cookie and its JWT last minutes, a session days, a     *)
(* reset token thirty minutes, a lock AUTH_LOCK_MINUTES.                   *)
AccessLapses(b) ==
    /\ jar[b].access # None
    /\ jar' = [jar EXCEPT ![b].access = None]
    /\ DbUnchanged
    /\ UNCHANGED <<lapsed, req, pc, attempts, scanned>>

Lapse(t) ==
    /\ t \notin lapsed
    /\ token[t] = "unused" \/ \E s \in Live : session[s].family = t
    /\ lapsed' = lapsed \cup {t}
    /\ DbUnchanged
    /\ UNCHANGED <<jar, req, pc, attempts, scanned>>

LockLapses ==
    /\ account.locked
    /\ account' = [account EXCEPT !.locked = FALSE]
    /\ UNCHANGED <<session, token, lapsed, jar, req, pc, attempts, scanned>>

(* Two handlers at once, by what each has read and is going to write:      *)
(* rotation, two of one session; revocation, a rotation while sessions are *)
(* being revoked; password, a login or a change while the password is      *)
(* changed; token, two uses or issues of reset tokens; attempt, two logins *)
(* of which one has failed.                                                *)
Revoking == {"reusing", "leaving", "resetting", "changing"}
Racing ==
    [rotation |-> <<{"rotating"}, {"rotating"}>>,
     revocation |-> <<{"rotating"}, Revoking>>,
     password |-> <<{"granted", "resetting", "changing"}, {"resetting", "changing"}>>,
     token |-> <<{"issuing", "resetting"}, {"issuing", "resetting"}>>,
     attempt |-> <<{"granted", "failing", "counting"}, {"counting"}>>]
Conflicts ==
    {k \in DOMAIN Racing : \E r \in At(Racing[k][1]) : \E s \in At(Racing[k][2]) \ {r} :
        k = "rotation" => req[r].cookies.refresh = req[s].cookies.refresh}

Handle(r) ==
    \/ LoginRead(r) \/ LoginCommit(r) \/ FailedLoginRead(r) \/ FailedLoginCommit(r)
    \/ RefreshRead(r) \/ ReuseCommit(r) \/ RefreshCommit(r)
    \/ LogoutRead(r) \/ LogoutCommit(r)
    \/ ForgotScan(r) \/ ForgotCommit(r) \/ ResetRead(r) \/ ResetCommit(r)
    \/ ChangeAdmit(r) \/ ChangeRead(r) \/ ChangeCommit(r)
    \/ Deliver(r)

Step ==
    \/ \E r \in Request : Handle(r) \/ LoseAnswer(r) \/ Lapse(r) \/ \E b \in Browser : Send(r, b)
    \/ \E b \in Browser : AccessLapses(b)
    \/ LockLapses

Lost == \E r \in Request : LoseAnswer(r)
Next == Step /\ met' = met \cup Conflicts' \cup (IF Lost THEN {"answer"} ELSE {})

Spec == Init /\ [][Next]_vars
-----------------------------------------------------------------------------
(* What is signed out stays signed out: once a reuse, a logout, a reset or *)
(* a change of password has left a login without a live session, no        *)
(* refresh makes one again, save one that was already rotating.            *)
Ended(f) == f \in Inserted /\ \A s \in Live : session[s].family # f
EndedForGood ==
    [][\A f \in Request : Ended(f) /\ "revocation" \notin met' => Ended(f)']_vars

(* A session is rotated into one successor, so that a login has one live   *)
(* refresh token, unless two refreshes have read it unrevoked at once.     *)
OneLiveToken ==
    "rotation" \notin met =>
        \A s, t \in Inserted : s # t =>
            /\ session[s].from = session[t].from => session[s].from = None
            /\ s \in Live /\ t \in Live => session[s].family # session[t].family

(* A reset or change of password leaves no session of an earlier password, *)
(* however often it has been rotated, unless a login or a rotation was     *)
(* decided before it and written after.                                    *)
SessionsMatchPassword ==
    met \cap {"password", "revocation"} = {} =>
        \A s \in Live : req[session[s].family].body.password = account.password

(* A reset token works once, and not after a newer one is issued.          *)
ResetsOnce ==
    [][\A r \in Request :
        pc[r] = "resetting" /\ pc'[r] # "resetting" /\ "token" \notin met' =>
            \A t \in Request : token'[t] # "unused"]_vars

(* Lost increments may delay a lock, but it takes MaxAttempts failed       *)
(* logins, and only time, a reset or a login that was granted before it    *)
(* lifts it.                                                               *)
Missed == {r \in At({"missed"}) : KindOf(r) = "login"}
LockEarned ==
    /\ account.failed <= Cardinality(Missed)
    /\ account.locked => Cardinality(Missed) >= MaxAttempts
LockHolds ==
    [][account.locked /\ ~account'.locked /\ "attempt" \notin met' =>
        LockLapses \/ \E r \in Request : pc[r] = "resetting"]_vars

(* A browser that gets every answer is never left with a rotated token     *)
(* while its login has a live one, whatever else it has under way: once no *)
(* new cookies are on their way to it, its next refresh is not taken for a *)
(* reuse, unless two refreshes have read one session unrevoked at once.    *)
JarCurrent ==
    met \cap {"answer", "rotation"} = {} =>
        \A b \in Browser :
            LET t == jar[b].refresh
            IN  t # None /\ (\A r \in At({"signed"}) : req[r].by # b) =>
                    t \in Live \/ Ended(session[t].family)
-----------------------------------------------------------------------------
(* What the stage of a handler tells of its request and its session.       *)
StageInv ==
    /\ \A r \in Request : pc[r] # "idle" => req[r] # None
    /\ \A r \in Request : req[r] # None =>
            {req[r].cookies.access, req[r].cookies.refresh} \subseteq Inserted \cup {None}
    /\ \A r \in At({"granted", "failing", "counting"}) : KindOf(r) = "login"
    /\ \A r \in At({"rotating", "reusing", "leaving"}) : req[r].cookies.refresh \in Inserted
    /\ \A r \in At({"resetting"}) : KindOf(r) = "reset"
    /\ \A r \in At({"admitted", "changing"}) : KindOf(r) = "change"
    /\ \A r \in At({"signed"}) : r \in Inserted
    /\ \A s \in Inserted : pc[s] \in {"signed", "done"}

MetInv == Conflicts \subseteq met

(* A replaced session is revoked, and hands its login on.                  *)
Replaced(s) == \E t \in Inserted : session[t].from = s
ReplacedInv ==
    \A s \in Inserted : LET f == session[s].from
        IN  f # None => f \in Inserted /\ session[f].revoked /\ session[f].family = session[s].family

(* The sessions of a login form a chain, of which a rotation under way     *)
(* holds the end.                                                          *)
ChainInv ==
    "rotation" \notin met =>
        /\ \A r \in At({"rotating"}) : ~Replaced(req[r].cookies.refresh)
        /\ \A s, t \in Inserted : session[s].from = session[t].from /\ session[s].from # None => s = t
        /\ \A s, t \in Inserted :
            session[s].family = session[t].family /\ ~Replaced(s) /\ ~Replaced(t) => s = t

(* The login of a rotation under way still has a live session.             *)
RotatingInv ==
    "revocation" \notin met =>
        \A r \in At({"rotating"}) : \E s \in Live :
            session[s].family = session[req[r].cookies.refresh].family

(* A login that is granted has the password of the account.                *)
GrantedInv ==
    "password" \notin met =>
        \A r \in At({"granted"}) : req[r].body.password = account.password

(* There is one unused reset token, the one that a handler under way knows.*)
Unused == {t \in Request : token[t] = "unused"}
TokenInv ==
    "token" \notin met =>
        /\ \A t, u \in Unused : t = u
        /\ \A r \in At({"issuing"}) : Unused \subseteq scanned[r]
        /\ \A r \in At({"resetting"}) : Unused \subseteq {req[r].body.token}

(* A login is not granted while the account is locked.                     *)
LockInv == "attempt" \notin met /\ account.locked => At({"granted"}) = {}

(* What a failing login has read is not more than the logins that failed.  *)
CountInv ==
    /\ IsFiniteSet(Missed)
    /\ \A r \in At({"counting"}) : attempts[r] <= Cardinality(Missed)

(* Refresh cookies are from answers that have reached this browser.        *)
Holds(b, t) == t # None => pc[t] = "done" /\ req[t].by = b
HolderInv ==
    /\ \A b \in Browser : Holds(b, jar[b].refresh)
    /\ \A r \in Request : req[r] # None => Holds(req[r].by, req[r].cookies.refresh)

(* A browser that has a replaced session gets cookies of another one, and  *)
(* none are on their way that have been replaced.                          *)
JarInv ==
    "answer" \notin met =>
        /\ \A r \in At({"signed"}) : ~Replaced(r)
        /\ \A b \in Browser :
            jar[b].refresh # None /\ Replaced(jar[b].refresh) =>
                \E r \in At({"signed"}) : req[r].by = b

IInv ==
    /\ TypeOK /\ StageInv /\ MetInv
    /\ ReplacedInv /\ ChainInv /\ RotatingInv /\ GrantedInv /\ SessionsMatchPassword
    /\ TokenInv /\ LockInv /\ CountInv /\ LockEarned
    /\ HolderInv /\ JarInv
=============================================================================

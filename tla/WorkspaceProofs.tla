-------------------------- MODULE WorkspaceProofs ---------------------------
(***************************************************************************)
(* Proofs about Workspace, for every set of users, lists and rows, every   *)
(* set of assignments of permissions and any number of loads under way.    *)
(***************************************************************************)
EXTENDS Workspace, FiniteSetTheorems, TLAPS

(* Counting the requests that may sign in, there are none or one.          *)
LEMMA OneOrNone ==
    /\ Cardinality(SigningIn) = 0 <=> SigningIn = {}
    /\ Cardinality(SigningIn) = 1 <=> \E k : SigningIn = {k}
    /\ Cardinality(SigningIn)' = 0 <=> SigningIn' = {}
    /\ Cardinality(SigningIn)' = 1 <=> \E k : SigningIn' = {k}
<1>1. IsFiniteSet({"me", "refresh", "login"})
  <2>1. IsFiniteSet({"me"})
    BY FS_Singleton
  <2>2. IsFiniteSet({"me"} \cup {"refresh"})
    BY <2>1, FS_AddElement
  <2>3. IsFiniteSet(({"me"} \cup {"refresh"}) \cup {"login"})
    BY <2>2, FS_AddElement
  <2>. QED
    BY <2>3, Zenon
<1>2. SigningIn \subseteq {"me", "refresh", "login"} /\ SigningIn' \subseteq {"me", "refresh", "login"}
  BY DEF SigningIn
<1>3. IsFiniteSet(SigningIn) /\ IsFiniteSet(SigningIn')
  BY <1>1, <1>2, FS_Subset
<1>. QED
  BY <1>3, FS_EmptySet, FS_Singleton

LEMMA LoadingCounts ==
    /\ TypeOK => IF loading THEN \E k : SigningIn = {k} ELSE SigningIn = {}
    /\ loading' \in BOOLEAN =>
          ((Cardinality(SigningIn) = IF loading THEN 1 ELSE 0)'
              <=> IF loading' THEN \E k : SigningIn' = {k} ELSE SigningIn' = {})
  BY OneOrNone DEF TypeOK

(* What is under way after one request has been sent, answered or lost.    *)
LEMMA SigningAfter ==
    ASSUME TypeOK, NEW k \in Kind, NEW state \in CallState, Set(k, state)
    PROVE  /\ call' \in [Kind -> CallState] /\ call'[k] = state
           /\ \A o \in Kind \ {k} : call'[o] = call[o]
           /\ k \notin {"me", "refresh", "login"} => SigningIn' = SigningIn
           /\ k \in {"me", "refresh", "login"} =>
                SigningIn' = IF state.step = "idle" THEN SigningIn \ {k} ELSE SigningIn \cup {k}
  BY DEF TypeOK, Set, CallState, SigningIn, Kind

LEMMA BeginTypes ==
    ASSUME TypeOK, NEW l \in List, NEW jar \in Who
    PROVE  Begin(l, jar) \in [Slot -> LoadState]
  BY DEF TypeOK, Begin, LoadState, Step

LEMMA ApplyTypes ==
    ASSUME TypeOK, NEW who \in Who, NEW granted \in SUBSET Permission, NEW jar \in Who,
           Apply(who, granted, jar)
    PROVE  /\ user' \in Who /\ permissions' \in SUBSET Permission
           /\ carried' \in SUBSET List /\ revived' \in BOOLEAN
           /\ load' \in [List -> [Slot -> LoadState]]
           /\ shown' \in [List -> BOOLEAN]
<1>1. load' \in [List -> [Slot -> LoadState]]
  BY BeginTypes DEF TypeOK, Apply
<1>2. carried' \in SUBSET List
  BY DEF Apply, UnderWay
<1>3. shown' \in [List -> BOOLEAN]
  BY DEF Apply, TypeOK
<1>. QED
  BY <1>1, <1>2, <1>3 DEF TypeOK, Apply

LEMMA CallTypes ==
    ASSUME TypeOK
    PROVE  /\ \A k \in Kind : call[k] \in CallState /\ call[k].as \in Who
                              /\ call[k].permissions \in SUBSET Permission
           /\ Idle \in CallState
           /\ \A who \in Who : Sent(who) \in CallState /\ Answer(who) \in CallState
                              /\ Granted(who) \in SUBSET Permission
<1>1. roles \in [User -> SUBSET Permission]
  BY AssignmentsAssumption DEF TypeOK
<1>2. \A who \in Who : Granted(who) \in SUBSET Permission
  BY <1>1 DEF Granted, Who
<1>. QED
  BY <1>2 DEF TypeOK, CallState, Step, Who, Idle, Sent, Answer

LEMMA TypeInit == Init => TypeOK
<1>. SUFFICES ASSUME Init PROVE TypeOK
  OBVIOUS
<1>1. call \in [Kind -> CallState] /\ SigningIn = {"me"}
  BY DEF Init, CallState, Step, Kind, Who, Sent, Idle, SigningIn
<1>2. Cardinality(SigningIn) = 1
  BY <1>1, FS_Singleton
<1>3. /\ add \in [Row -> Entry] /\ load \in [List -> [Slot -> LoadState]]
      /\ shown \in [List -> BOOLEAN]
  BY DEF Init, Entry, LoadState, Step, NotEntered, Free, Who
<1>. QED
  BY <1>1, <1>2, <1>3 DEF Init, TypeOK, Who

LEMMA TypeNext == TypeOK /\ [Next]_vars => TypeOK'
<1>. SUFFICES ASSUME TypeOK, [Next]_vars PROVE TypeOK'
  OBVIOUS
<1> DEFINE Counted == IF loading' THEN \E k : SigningIn' = {k} ELSE SigningIn' = {}
           Typed == /\ user' \in Who /\ cookie' \in Who /\ permissions' \in SUBSET Permission
                    /\ loading' \in BOOLEAN /\ carried' \in SUBSET List /\ revived' \in BOOLEAN
                    /\ roles' \in Assignments
                    /\ call' \in [Kind -> CallState] /\ add' \in [Row -> Entry]
                    /\ load' \in [List -> [Slot -> LoadState]] /\ shown' \in [List -> BOOLEAN]
<1>1. /\ user \in Who /\ cookie \in Who /\ permissions \in SUBSET Permission
      /\ loading \in BOOLEAN /\ carried \in SUBSET List /\ revived \in BOOLEAN
      /\ roles \in Assignments
      /\ call \in [Kind -> CallState] /\ add \in [Row -> Entry]
      /\ load \in [List -> [Slot -> LoadState]] /\ shown \in [List -> BOOLEAN]
  BY DEF TypeOK
<1>2. Typed /\ Counted => TypeOK'
  BY LoadingCounts DEF TypeOK
<1>3. /\ loading => \E k : SigningIn = {k}
      /\ ~loading => SigningIn = {}
  BY LoadingCounts
<1>4. \A k \in {"me", "refresh", "login"} : Calling(k) => loading /\ SigningIn = {k}
  BY <1>3 DEF Calling, SigningIn
<1>5. NoChange => UNCHANGED <<user, permissions, load, shown, carried, revived>>
  BY DEF NoChange
<1>6. None \in Who /\ \A who \in User : who \in Who
  BY DEF Who
<1>7. ASSUME NEW u \in User, Login(u) PROVE Typed /\ Counted
  <2>1. SigningIn' = {"login"}
    BY <1>3, <1>6, <1>7, CallTypes, SigningAfter DEF Login, Sent, Kind
  <2>. QED
    BY <1>1, <1>5, <1>6, <1>7, <2>1, CallTypes, SigningAfter DEF Login, Kind
<1>8. ASSUME NEW k \in {"logout", "role", "identity"}, NEW state \in CallState, Set(k, state), NoChange,
             cookie' \in {None, cookie}, roles' \in Assignments, UNCHANGED <<loading, add>>
      PROVE  Typed /\ Counted
  <2>1. call' \in [Kind -> CallState] /\ SigningIn' = SigningIn
    BY <1>8, SigningAfter DEF Kind
  <2>. QED
    BY <1>1, <1>3, <1>5, <1>6, <1>8, <2>1
<1>9. ASSUME Logout \/ SaveRole \/ HandleLogout \/ HandleRole \/ LoseRole PROVE Typed /\ Counted
  <2>1. "role" \in Kind /\ "logout" \in Kind
    BY DEF Kind
  <2>2. [call["role"] EXCEPT !.step = "answered"] \in CallState
    BY <2>1, CallTypes DEF CallState, Step
  <2>3. \E k \in {"logout", "role"}, state \in CallState : Set(k, state)
    BY <1>1, <1>6, <1>9, <2>2, CallTypes DEF Logout, SaveRole, HandleLogout, HandleRole, LoseRole
  <2>4. /\ NoChange /\ cookie' \in {None, cookie} /\ roles' \in Assignments
        /\ UNCHANGED <<loading, add>>
    BY <1>1, <1>9 DEF Logout, SaveRole, HandleLogout, HandleRole, LoseRole
  <2>. QED
    BY <1>8, <2>3, <2>4
<1>10. ASSUME NEW k \in {"me", "refresh", "login", "identity"}, Handle(k) PROVE Typed /\ Counted
  <2>1. k \in Kind
    BY DEF Kind
  <2>2. PICK who \in Who : Set(k, Answer(who))
    BY <1>6, <1>10, <2>1, CallTypes DEF Handle
  <2>3. call' \in [Kind -> CallState] /\ SigningIn' = SigningIn
    BY <1>10, <2>1, <2>2, CallTypes, SigningAfter DEF Handle, Answer, SigningIn
  <2>. QED
    BY <1>1, <1>3, <1>5, <1>10, <2>3 DEF Handle
<1>11. ASSUME NEW k \in Kind, NEW jar \in Who, SignedIn(k, jar)
       PROVE  /\ user' \in Who /\ permissions' \in SUBSET Permission
              /\ carried' \in SUBSET List /\ revived' \in BOOLEAN
              /\ load' \in [List -> [Slot -> LoadState]] /\ shown' \in [List -> BOOLEAN]
  BY <1>11, CallTypes, ApplyTypes DEF SignedIn
<1>12. ASSUME NEW k \in {"me", "refresh", "login"}, Calling(k), Set(k, Idle), loading' = FALSE
       PROVE  Counted /\ call' \in [Kind -> CallState]
  <2>1. k \in Kind /\ SigningIn = {k}
    BY <1>4, <1>12 DEF Kind
  <2>. QED
    BY <1>12, <2>1, CallTypes, SigningAfter DEF Idle
<1>13. ASSUME AnswerMe PROVE Typed /\ Counted
  <2>1. "me" \in Kind /\ "refresh" \in Kind /\ "login" \in Kind /\ Calling("me") /\ SigningIn = {"me"}
    BY <1>4, <1>13 DEF AnswerMe, Calling, Kind
  <2>2. CASE SignedIn("me", cookie) /\ Set("me", Idle) /\ loading' = FALSE
    BY <1>1, <1>11, <1>12, <1>13, <2>1, <2>2 DEF AnswerMe
  <2>3. CASE /\ call' = [call EXCEPT !["me"] = Idle, !["refresh"] = Sent(cookie)]
             /\ NoChange /\ UNCHANGED loading
    <3>1. call["login"].step = "idle"
      BY <2>1 DEF SigningIn
    <3>2. /\ call' \in [Kind -> CallState]
          /\ call'["me"] = Idle /\ call'["refresh"] = Sent(cookie) /\ call'["login"] = call["login"]
      BY <1>1, <2>1, <2>3, CallTypes
    <3>3. SigningIn' = {"refresh"}
      BY <3>1, <3>2 DEF SigningIn, Idle, Sent
    <3>. QED
      BY <1>1, <1>4, <1>5, <1>13, <2>1, <2>3, <3>2, <3>3 DEF AnswerMe
  <2>. QED
    BY <1>13, <2>2, <2>3 DEF AnswerMe
<1>14. ASSUME AnswerRefresh PROVE Typed /\ Counted
  BY <1>1, <1>11, <1>12, <1>14 DEF AnswerRefresh, Calling, Kind
<1>15. ASSUME AnswerLogin PROVE Typed /\ Counted
  <2>1. "login" \in Kind /\ call["login"].as \in Who /\ Calling("login")
    BY <1>15, CallTypes DEF AnswerLogin, Calling, Kind
  <2>2. Counted /\ call' \in [Kind -> CallState]
    BY <1>12, <1>15, <2>1 DEF AnswerLogin
  <2>3. CASE NoChange /\ UNCHANGED cookie
    BY <1>1, <1>5, <1>15, <2>2, <2>3 DEF AnswerLogin
  <2>4. CASE SignedIn("login", call["login"].as) /\ cookie' = call["login"].as
    BY <1>1, <1>11, <1>15, <2>1, <2>2, <2>4 DEF AnswerLogin
  <2>. QED
    BY <1>15, <2>3, <2>4 DEF AnswerLogin
<1>16. ASSUME AnswerIdentity PROVE Typed /\ Counted
  <2>1. "identity" \in Kind /\ Counted /\ call' \in [Kind -> CallState]
    BY <1>3, <1>16, CallTypes, SigningAfter DEF AnswerIdentity, Kind
  <2>2. CASE NoChange
    BY <1>1, <1>5, <1>16, <2>1, <2>2 DEF AnswerIdentity
  <2>3. CASE SignedIn("identity", cookie)
    BY <1>1, <1>11, <1>16, <2>1, <2>3 DEF AnswerIdentity
  <2>. QED
    BY <1>16, <2>2, <2>3 DEF AnswerIdentity
<1>17. ASSUME AnswerRole PROVE Typed /\ Counted
  <2>1. "role" \in Kind /\ "identity" \in Kind
    BY DEF Kind
  <2>2. PICK state \in CallState : call' = [call EXCEPT !["role"] = Idle, !["identity"] = state]
    BY <1>1, <1>17, <2>1, CallTypes DEF AnswerRole
  <2>3. call' \in [Kind -> CallState] /\ \A o \in {"me", "refresh", "login"} : call'[o] = call[o]
    <3>1. Idle \in CallState
      BY CallTypes
    <3>2. [call EXCEPT !["role"] = Idle] \in [Kind -> CallState]
      BY <1>1, <3>1
    <3>3. call' = [[call EXCEPT !["role"] = Idle] EXCEPT !["identity"] = state]
      BY <2>2
    <3>4. call' \in [Kind -> CallState]
      BY <2>1, <3>2, <3>3
    <3>5. ASSUME NEW o \in {"me", "refresh", "login"} PROVE call'[o] = call[o]
      BY <1>1, <2>2 DEF Kind
    <3>. QED
      BY <3>4, <3>5
  <2>4. SigningIn' = SigningIn
    BY <2>3 DEF SigningIn
  <2>. QED
    BY <1>1, <1>3, <1>5, <1>17, <2>3, <2>4 DEF AnswerRole
<1>18. ASSUME AnswerLogout PROVE Typed /\ Counted
  <2>1. call' \in [Kind -> CallState] /\ SigningIn' = SigningIn
    BY <1>18, CallTypes, SigningAfter DEF AnswerLogout, Kind
  <2>2. {} \in SUBSET Permission
    OBVIOUS
  <2>. QED
    BY <1>1, <1>3, <1>6, <1>18, <2>1, <2>2, ApplyTypes DEF AnswerLogout, SignedOut
<1>19. ASSUME LoseMe PROVE Typed /\ Counted
  BY <1>1, <1>5, <1>12, <1>19 DEF LoseMe
<1>20. AuthUnchanged =>
          /\ UNCHANGED <<user, permissions, cookie, roles, loading, carried, revived, call>> /\ Counted
  BY <1>3 DEF AuthUnchanged, SigningIn
<1>21. ASSUME Search PROVE Typed /\ Counted
  <2>1. "students" \in List
    BY <1>1, <1>21 DEF Search, Permission
  <2>. QED
    BY <1>1, <1>20, <1>21, <2>1, BeginTypes DEF Search
<1>22. ASSUME NEW l \in List, NEW n \in Slot, HandleLoad(l, n) \/ FailLoad(l, n) \/ AnswerLoad(l, n)
       PROVE  Typed /\ Counted
  <2>1. PICK state \in LoadState : load' = [load EXCEPT ![l][n] = state]
    BY <1>6, <1>22 DEF HandleLoad, FailLoad, AnswerLoad, SetLoad, Free, LoadState, Step
  <2>2. load' \in [List -> [Slot -> LoadState]]
    <3>1. [load[l] EXCEPT ![n] = state] \in [Slot -> LoadState]
      BY <1>1
    <3>2. load' = [load EXCEPT ![l] = [load[l] EXCEPT ![n] = state]]
      BY <2>1
    <3>. QED
      BY <1>1, <3>1, <3>2
  <2>3. shown' \in [List -> BOOLEAN] /\ AuthUnchanged /\ add' = add
    BY <1>1, <1>22 DEF HandleLoad, FailLoad, AnswerLoad
  <2>. QED
    BY <1>1, <1>20, <2>2, <2>3
<1>23. ASSUME NEW r \in Row, Add(r) \/ HandleAdd(r) \/ FailAdd(r) \/ AnswerAdd(r)
       PROVE  Typed /\ Counted
  <2>1. PICK entry \in Entry : add' = [add EXCEPT ![r] = entry]
    BY <1>1, <1>6, <1>23 DEF Add, HandleAdd, FailAdd, AnswerAdd, Entry, Over
  <2>2. shown' \in [List -> BOOLEAN]
    BY <1>1, <1>23, RowAssumption DEF Add, HandleAdd, FailAdd, AnswerAdd
  <2>3. load' \in [List -> [Slot -> LoadState]]
    <3>1. LoadsStudents(r) => "students" \in List
      BY <1>1 DEF LoadsStudents, Entry, Permission
    <3>. QED
      BY <1>1, <1>23, <3>1, BeginTypes DEF Add, HandleAdd, FailAdd, AnswerAdd
  <2>. QED
    BY <1>1, <1>20, <1>23, <2>1, <2>2, <2>3 DEF Add, HandleAdd, FailAdd, AnswerAdd
<1>24. CASE UNCHANGED vars
  BY <1>24 DEF vars, TypeOK, SigningIn
<1>25. CASE Next
  <2>. HIDE DEF Typed, Counted
  <2>. QED
    BY <1>2, <1>7, <1>9, <1>10, <1>13, <1>14, <1>15, <1>16, <1>17, <1>18, <1>19, <1>21, <1>22, <1>23,
       <1>25 DEF Next
<1>. QED
  BY <1>24, <1>25

-----------------------------------------------------------------------------
(* Requests of who is on the screen, and the lists it may see.             *)

(* A change of user or permissions, and the loads it begins.               *)
LEMMA ApplyOwn ==
    ASSUME TypeOK, OwnRequests, NEW who, NEW granted, NEW jar, Apply(who, granted, jar), add' = add
    PROVE  OwnRequests' /\ ShownToPermitted'
<1>1. UnderWay' \subseteq UnderWay \cup granted
  <2>. SUFFICES ASSUME NEW l \in List, l \notin granted, l \in UnderWay' PROVE l \in UnderWay
    BY DEF UnderWay
  <2>1. load'[l] = load[l]
    BY DEF Apply
  <2>. QED
    BY <2>1 DEF UnderWay, Loading, Entering, LoadsStudents
<1>2. UnderWay' \ carried' \subseteq granted
  <2>1. CASE <<who, granted>> = <<user, permissions>>
    BY <1>1, <2>1 DEF Apply, OwnRequests
  <2>2. CASE <<who, granted>> # <<user, permissions>>
    <3>1. carried' = UnderWay \cap List /\ UnderWay \subseteq List
      BY <2>2 DEF Apply, UnderWay
    <3>. QED
      BY <1>1, <3>1
  <2>. QED
    BY <2>1, <2>2
<1>3. \A l \in List : shown'[l] => l \in IF who = None THEN Kept ELSE granted
  BY DEF Apply
<1>. QED
  BY <1>2, <1>3 DEF OwnRequests, ShownToPermitted, Apply

(* A request that goes on, or begins about a list the user may see.        *)
LEMMA StepOwn ==
    ASSUME NobodyInv, OwnRequests, ShownToPermitted,
           UNCHANGED <<user, permissions, carried>>,
           UnderWay' \subseteq UnderWay \cup permissions,
           \A l \in List : shown'[l] => shown[l] \/ l \in UnderWay
    PROVE  OwnRequests' /\ ShownToPermitted'
  BY DEF NobodyInv, OwnRequests, ShownToPermitted

LEMMA NobodyNext == TypeOK /\ NobodyInv /\ [Next]_vars => NobodyInv'
<1>. SUFFICES ASSUME TypeOK, NobodyInv, [Next]_vars PROVE NobodyInv'
  OBVIOUS
<1> DEFINE Clear == \A k \in Kind : call'[k].as = None => call'[k].permissions = {}
           Same == UNCHANGED <<user, permissions>>
           Given == \E k \in Kind : user' = call[k].as /\ permissions' = call[k].permissions
<1>1. /\ user = None => permissions = {}
      /\ \A k \in Kind : call[k].as = None => call[k].permissions = {}
  BY DEF NobodyInv
<1>2. call \in [Kind -> CallState]
  BY DEF TypeOK
<1>3. Clear /\ (Same \/ Given \/ (user' = None /\ permissions' = {})) => NobodyInv'
  BY <1>1 DEF NobodyInv
<1>4. NoChange => Same
  BY DEF NoChange
<1>5. \A k, jar : SignedIn(k, jar) => user' = call[k].as /\ permissions' = call[k].permissions
  BY DEF SignedIn, Apply
<1>6. ASSUME NEW k, NEW state \in CallState, state.as = None => state.permissions = {}, Set(k, state)
      PROVE  Clear
  BY <1>1, <1>2, <1>6 DEF Set
<1>7. /\ Idle.permissions = {} /\ \A who : Sent(who).permissions = {} /\ Answer(None).permissions = {}
      /\ \A who : Answer(who).as = who
  BY DEF Idle, Sent, Answer, Granted
<1>8. None \in Who /\ \A u \in User : u \in Who
  BY DEF Who
<1>9. cookie \in Who
  BY DEF TypeOK
<1>10. ASSUME \/ (\E u \in User : Login(u)) \/ Logout \/ SaveRole \/ HandleLogout \/ LoseMe \/ LoseRole
       PROVE  Clear /\ Same
  <2>1. \E k \in Kind, state \in CallState : Set(k, state) /\ state.permissions = {}
    BY <1>7, <1>8, <1>9, <1>10, CallTypes
       DEF Login, Logout, SaveRole, HandleLogout, LoseMe, LoseRole, Kind
  <2>. QED
    BY <1>4, <1>6, <1>10, <2>1 DEF Login, Logout, SaveRole, HandleLogout, LoseMe, LoseRole
<1>11. ASSUME NEW k \in {"me", "refresh", "login", "identity"}, Handle(k) PROVE Clear /\ Same
  <2>1. PICK who \in Who : Set(k, Answer(who))
    BY <1>8, <1>11, CallTypes DEF Handle, Kind
  <2>2. Answer(who) \in CallState /\ (Answer(who).as = None => Answer(who).permissions = {})
    BY <1>7, CallTypes
  <2>. QED
    BY <1>4, <1>6, <1>11, <2>1, <2>2 DEF Handle
<1>12. ASSUME HandleRole PROVE Clear /\ Same
  <2>1. "role" \in Kind /\ call["role"] \in CallState
    BY <1>2 DEF Kind
  <2>2. [call["role"] EXCEPT !.step = "answered"] \in CallState
        /\ [call["role"] EXCEPT !.step = "answered"].as = call["role"].as
        /\ [call["role"] EXCEPT !.step = "answered"].permissions = call["role"].permissions
    BY <2>1 DEF CallState, Step
  <2>3. \E state \in CallState : Set("role", state) /\ (state.as = None => state.permissions = {})
    BY <1>1, <1>7, <1>8, <1>12, <2>1, <2>2, CallTypes DEF HandleRole
  <2>. QED
    BY <1>4, <1>6, <1>12, <2>3 DEF HandleRole
<1>13. ASSUME AnswerMe PROVE Clear /\ (Same \/ Given)
  <2>1. CASE SignedIn("me", cookie) /\ Set("me", Idle)
    BY <1>5, <1>6, <1>7, <2>1, CallTypes DEF Kind
  <2>2. CASE call' = [call EXCEPT !["me"] = Idle, !["refresh"] = Sent(cookie)] /\ NoChange
    <3>1. \A k \in Kind : call'[k] \in {call[k], Idle, Sent(cookie)}
      BY <1>2, <2>2
    <3>. QED
      BY <1>1, <1>4, <1>7, <2>2, <3>1
  <2>. QED
    BY <1>13, <2>1, <2>2 DEF AnswerMe
<1>14. ASSUME AnswerRefresh \/ AnswerLogin \/ AnswerIdentity PROVE Clear /\ (Same \/ Given)
  <2>1. PICK k \in {"refresh", "login", "identity"} : Set(k, Idle) /\ (NoChange \/ \E jar : SignedIn(k, jar))
    BY <1>14 DEF AnswerRefresh, AnswerLogin, AnswerIdentity
  <2>. QED
    BY <1>4, <1>5, <1>6, <1>7, <2>1, CallTypes DEF Kind
<1>15. ASSUME AnswerRole PROVE Clear /\ Same
  <2>1. \A k \in Kind : call'[k] \in {call[k], Idle, Sent(cookie)}
    BY <1>2, <1>15 DEF AnswerRole
  <2>. QED
    BY <1>1, <1>4, <1>7, <1>15, <2>1 DEF AnswerRole
<1>16. ASSUME AnswerLogout PROVE Clear /\ user' = None /\ permissions' = {}
  BY <1>6, <1>7, <1>16, CallTypes DEF AnswerLogout, SignedOut, Apply
<1>17. AuthUnchanged \/ UNCHANGED vars => Clear /\ Same
  BY <1>1 DEF AuthUnchanged, vars
<1>18. ASSUME Search \/ (\E l \in List, n \in Slot : HandleLoad(l, n) \/ FailLoad(l, n) \/ AnswerLoad(l, n))
              \/ (\E r \in Row : Add(r) \/ HandleAdd(r) \/ FailAdd(r) \/ AnswerAdd(r))
       PROVE  AuthUnchanged
  BY <1>18 DEF Search, HandleLoad, FailLoad, AnswerLoad, Add, HandleAdd, FailAdd, AnswerAdd
<1>. HIDE DEF Clear, Same, Given
<1>. QED
  BY <1>3, <1>10, <1>11, <1>12, <1>13, <1>14, <1>15, <1>16, <1>17, <1>18 DEF Next

LEMMA OwnInit == Init => NobodyInv /\ OwnRequests /\ ShownToPermitted
<1>. SUFFICES ASSUME Init PROVE NobodyInv /\ OwnRequests /\ ShownToPermitted
  OBVIOUS
<1>1. UnderWay = {}
  BY DEF Init, UnderWay, Loading, Entering, Free, NotEntered
<1>. QED
  BY <1>1 DEF Init, NobodyInv, OwnRequests, ShownToPermitted, Idle, Sent

LEMMA OwnNext ==
    ASSUME TypeOK, NobodyInv, OwnRequests, ShownToPermitted, [Next]_vars
    PROVE  OwnRequests' /\ ShownToPermitted'
<1> DEFINE Goal == OwnRequests' /\ ShownToPermitted'
<1>1. /\ add \in [Row -> Entry] /\ load \in [List -> [Slot -> LoadState]]
      /\ shown \in [List -> BOOLEAN] /\ permissions \in SUBSET Permission
  BY DEF TypeOK
<1>2. ASSUME UNCHANGED <<user, permissions, load, shown, carried, add>> PROVE Goal
  BY <1>2 DEF OwnRequests, ShownToPermitted, UnderWay, Loading, Entering, LoadsStudents
<1>3. NoChange => UNCHANGED <<user, permissions, load, shown, carried>>
  BY DEF NoChange
<1>4. ASSUME \/ (\E u \in User : Login(u)) \/ Logout \/ SaveRole
             \/ (\E k \in {"me", "refresh", "login", "identity"} : Handle(k))
             \/ HandleLogout \/ HandleRole \/ AnswerRole \/ LoseMe \/ LoseRole
      PROVE  Goal
  BY <1>2, <1>3, <1>4
     DEF Login, Logout, SaveRole, Handle, HandleLogout, HandleRole, AnswerRole, LoseMe, LoseRole
<1>5. ASSUME AnswerMe \/ AnswerRefresh \/ AnswerLogin \/ AnswerIdentity \/ AnswerLogout
      PROVE  Goal
  <2>1. add' = add /\ (NoChange \/ \E who, granted, jar : Apply(who, granted, jar))
    BY <1>5 DEF AnswerMe, AnswerRefresh, AnswerLogin, AnswerIdentity, AnswerLogout, SignedIn, SignedOut
  <2>. QED
    BY <1>2, <1>3, <2>1, ApplyOwn
<1>6. AuthUnchanged => UNCHANGED <<user, permissions, carried>>
  BY DEF AuthUnchanged
<1>7. \A l \in List : load'[l] = load[l] => (Loading(l)' <=> Loading(l))
  BY DEF Loading
<1>8. ASSUME NEW jar, load' = [load EXCEPT !["students"] = Begin("students", jar)]
      PROVE  \A l \in List : Loading(l)' => Loading(l) \/ l = "students"
  BY <1>1, <1>7, <1>8
<1>9. ASSUME add' = add
      PROVE  \A l \in List : l \in UnderWay' => l \in UnderWay \/ Loading(l)'
  BY <1>9 DEF UnderWay, Entering, LoadsStudents
<1>10. ASSUME Search PROVE Goal
  <2>1. \A l \in List : Loading(l)' => Loading(l) \/ l = "students"
    BY <1>8, <1>10 DEF Search
  <2>2. UnderWay' \subseteq UnderWay \cup permissions
    BY <1>9, <1>10, <2>1 DEF Search, UnderWay
  <2>. QED
    BY <1>6, <1>10, <2>2, StepOwn DEF Search
<1>11. ASSUME NEW l \in List, NEW n \in Slot, HandleLoad(l, n) \/ FailLoad(l, n) \/ AnswerLoad(l, n)
       PROVE  Goal
  <2>1. PICK state : load' = [load EXCEPT ![l] = [load[l] EXCEPT ![n] = state]]
    BY <1>11 DEF HandleLoad, FailLoad, AnswerLoad, SetLoad
  <2>2. load[l][n].step # "idle" /\ Loading(l) /\ add' = add
    BY <1>11 DEF HandleLoad, FailLoad, AnswerLoad, Loading
  <2>3. \A k \in List : Loading(k)' => Loading(k)
    BY <1>1, <1>7, <2>1, <2>2
  <2>4. UnderWay' \subseteq UnderWay /\ l \in UnderWay
    BY <1>9, <2>2, <2>3 DEF UnderWay
  <2>5. \A k \in List : shown'[k] => shown[k] \/ k \in UnderWay
    BY <1>1, <1>11, <2>4 DEF HandleLoad, FailLoad, AnswerLoad
  <2>. QED
    BY <1>6, <1>11, <2>4, <2>5, StepOwn DEF HandleLoad, FailLoad, AnswerLoad
<1>12. ASSUME NEW r \in Row, \A q \in Row \ {r} : add'[q] = add[q]
       PROVE  \A l \in List : l \in UnderWay' =>
                l \in UnderWay \/ Loading(l)' \/ (Entering(r)' /\ (l = ListOf[r] \/ (l = "students" /\ LoadsStudents(r)')))
  BY <1>12 DEF UnderWay, Entering, LoadsStudents
<1>13. ASSUME NEW r \in Row, Add(r) PROVE Goal
  <2>1. /\ \A q \in Row \ {r} : add'[q] = add[q]
        /\ add'[r].page = permissions /\ ListOf[r] \in permissions
        /\ UNCHANGED <<load, shown>> /\ AuthUnchanged
    BY <1>1, <1>13 DEF Add
  <2>2. LoadsStudents(r)' => "students" \in permissions
    BY <2>1 DEF LoadsStudents
  <2>3. UnderWay' \subseteq UnderWay \cup permissions
    BY <1>7, <1>12, <2>1, <2>2 DEF UnderWay
  <2>. QED
    BY <1>6, <2>1, <2>3, StepOwn
<1>14. ASSUME NEW r \in Row, HandleAdd(r) \/ FailAdd(r) \/ AnswerAdd(r) PROVE Goal
  <2>1. ListOf[r] \in List /\ Entering(r) /\ AuthUnchanged
    BY <1>14, RowAssumption DEF HandleAdd, FailAdd, AnswerAdd, Entering
  <2>2. /\ \A q \in Row \ {r} : add'[q] = add[q]
        /\ add'[r].page \in {add[r].page, {}}
    BY <1>1, <1>14 DEF HandleAdd, FailAdd, AnswerAdd, Over
  <2>3. LoadsStudents(r)' => LoadsStudents(r)
    BY <2>2 DEF LoadsStudents
  <2>4. \A l \in List : Loading(l)' => Loading(l) \/ (l = "students" /\ LoadsStudents(r))
    BY <1>7, <1>8, <1>14 DEF HandleAdd, FailAdd, AnswerAdd
  <2>5. UnderWay' \subseteq UnderWay /\ ListOf[r] \in UnderWay
    BY <1>12, <2>1, <2>2, <2>3, <2>4 DEF UnderWay
  <2>6. \A l \in List : shown'[l] => shown[l] \/ l \in UnderWay
    BY <1>1, <1>14, <2>5 DEF HandleAdd, FailAdd, AnswerAdd
  <2>. QED
    BY <1>6, <2>1, <2>5, <2>6, StepOwn
<1>15. CASE UNCHANGED vars
  BY <1>2, <1>15 DEF vars
<1>16. ASSUME Next PROVE Goal
  <2>1. CASE \E l \in List, n \in Slot : HandleLoad(l, n) \/ FailLoad(l, n) \/ AnswerLoad(l, n)
    BY <1>11, <2>1
  <2>2. CASE \E r \in Row : Add(r) \/ HandleAdd(r) \/ FailAdd(r) \/ AnswerAdd(r)
    BY <1>13, <1>14, <2>2
  <2>. HIDE DEF Goal
  <2>. QED
    BY <1>4, <1>5, <1>10, <1>16, <2>1, <2>2 DEF Next
<1>. QED
  BY <1>15, <1>16

-----------------------------------------------------------------------------
(* Whose session it is.                                                    *)

LEMMA SessionInit == Init => SessionInv /\ IdentityIsSession
  BY DEF Init, SessionInv, IdentityIsSession, Calling, Idle, Sent, Kind, SigningIn

LEMMA SessionNext ==
    ASSUME TypeOK, SessionInv, IdentityIsSession, [Next]_vars
    PROVE  SessionInv' /\ IdentityIsSession'
<1> DEFINE Goal == /\ SigningIn' # {} => user' = None
                   /\ \A k \in {"identity", "role", "logout"} : Calling(k)' => user' # None
                   /\ \A k \in {"me", "refresh", "identity"} : Calling(k)' =>
                          call'[k].as \in {None, cookie'} \/ Calling("logout")'
                   /\ user' # None => cookie' = user' \/ Calling("logout")'
<1>. SUFFICES ASSUME ~revived' PROVE Goal
  BY DEF SessionInv, IdentityIsSession
<1>1. ~revived
  BY DEF Next, vars, NoChange, AuthUnchanged, Apply, SignedIn, SignedOut, TypeOK, Login, Logout, SaveRole,
     Handle, HandleLogout, HandleRole, AnswerMe, AnswerRefresh, AnswerLogin, AnswerIdentity, AnswerRole,
     AnswerLogout, LoseMe, LoseRole, Search, HandleLoad, FailLoad, AnswerLoad, Add, HandleAdd, FailAdd, AnswerAdd
<1>2. /\ SigningIn # {} => user = None
      /\ \A k \in {"identity", "role", "logout"} : Calling(k) => user # None
      /\ \A k \in {"me", "refresh", "identity"} : Calling(k) => call[k].as \in {None, cookie} \/ Calling("logout")
      /\ user # None => cookie = user \/ Calling("logout")
  BY <1>1 DEF SessionInv, IdentityIsSession
<1>3. /\ call \in [Kind -> CallState] /\ cookie \in Who /\ user \in Who
      /\ Kind = {"me", "refresh", "login", "logout", "identity", "role"}
  BY DEF TypeOK, Kind
<1>4. \A k \in {"me", "refresh", "login"} : Calling(k) =>
          loading /\ SigningIn = {k} /\ user = None
          /\ ~Calling("logout") /\ ~Calling("identity") /\ ~Calling("role")
  BY <1>2, LoadingCounts DEF Calling, SigningIn
<1>5. \A k \in Kind : k \in SigningIn <=> k \in {"me", "refresh", "login"} /\ Calling(k)
  BY DEF SigningIn, Calling
<1>6. \A k \in Kind : /\ k \in SigningIn' <=> k \in {"me", "refresh", "login"} /\ Calling(k)'
                      /\ Calling(k)' <=> call'[k].step # "idle"
                      /\ Calling(k) <=> call[k].step # "idle"
  BY DEF SigningIn, Calling
<1>7. SigningIn' \subseteq Kind /\ SigningIn \subseteq Kind
  BY DEF SigningIn, Kind
<1>8. NoChange => user' = user
  BY DEF NoChange
<1>9. ASSUME NEW k, NEW jar, SignedIn(k, jar)
      PROVE  user' = call[k].as /\ (user' = None => ~Calling("identity") /\ ~Calling("role"))
  BY <1>9, <1>1 DEF SignedIn, Apply
<1>10. ASSUME UNCHANGED <<user, cookie, call>> PROVE Goal
  BY <1>2, <1>10 DEF Calling, SigningIn
<1>11. ASSUME NEW u \in User, Login(u) PROVE Goal
  BY <1>2, <1>3, <1>6, <1>8, <1>11 DEF Login, Set, Sent
<1>12. ASSUME Logout \/ SaveRole PROVE Goal
  <2>1. PICK k \in {"logout", "role"} : call' = [call EXCEPT ![k] = Sent(cookie)]
    BY <1>12 DEF Logout, SaveRole, Set
  <2>2. SigningIn = {} /\ user # None /\ user' = user /\ cookie' = cookie
    BY <1>2, <1>8, <1>12 DEF Logout, SaveRole, OnPage
  <2>3. \A o \in Kind \ {k} : call'[o] = call[o] /\ (Calling(o)' <=> Calling(o))
    BY <1>3, <1>6, <2>1
  <2>4. SigningIn' = {}
    BY <1>3, <1>5, <1>6, <1>7, <2>2, <2>3
  <2>5. Calling("logout") => Calling("logout")'
    BY <1>3, <1>6, <2>1 DEF Sent
  <2>. QED
    BY <1>2, <1>3, <2>2, <2>3, <2>4, <2>5
<1>13. ASSUME NEW k \in {"me", "refresh", "login", "identity"}, Handle(k) PROVE Goal
  <2>1. PICK who \in {None, call[k].as} : call' = [call EXCEPT ![k] = Answer(who)]
    BY <1>13 DEF Handle, Set
  <2>2. UNCHANGED <<user, cookie>> /\ call[k].step = "sent"
    BY <1>8, <1>13 DEF Handle
  <2>3. /\ \A o \in Kind : Calling(o)' <=> Calling(o)
        /\ \A o \in Kind : call'[o].as \in {None, call[o].as}
    BY <1>3, <1>6, <2>1, <2>2 DEF Answer
  <2>4. SigningIn' = SigningIn
    BY <1>5, <1>6, <1>7, <2>3
  <2>. QED
    BY <1>2, <1>3, <2>2, <2>3, <2>4
<1>14. ASSUME HandleLogout PROVE Goal
  <2>1. /\ call' = [call EXCEPT !["logout"] = Answer(None)] /\ user' = user
        /\ call["logout"].step = "sent"
    BY <1>8, <1>14 DEF HandleLogout, Set
  <2>2. Calling("logout") /\ Calling("logout")'
    BY <1>3, <1>6, <2>1 DEF Answer
  <2>3. \A o \in Kind : Calling(o)' <=> Calling(o)
    BY <1>3, <1>6, <2>1, <2>2
  <2>4. SigningIn' = SigningIn
    BY <1>5, <1>6, <1>7, <2>3
  <2>. QED
    BY <1>2, <1>3, <2>1, <2>2, <2>3, <2>4
<1>15. ASSUME HandleRole \/ LoseRole PROVE Goal
  <2>1. /\ UNCHANGED <<user, cookie>> /\ Calling("role")
        /\ \A o \in Kind \ {"role"} : call'[o] = call[o]
    BY <1>3, <1>8, <1>15 DEF HandleRole, LoseRole, Set, Calling
  <2>2. \A o \in Kind \ {"role"} : Calling(o)' <=> Calling(o)
    BY <1>6, <2>1
  <2>3. SigningIn' = SigningIn
    BY <1>3, <1>5, <1>6, <1>7, <2>2
  <2>. QED
    BY <1>2, <1>3, <2>1, <2>2, <2>3
<1>16. ASSUME NEW k \in {"me", "refresh", "login"}, Calling(k), Set(k, Idle)
       PROVE  \A o \in Kind : ~Calling(o)'
  BY <1>3, <1>4, <1>5, <1>6, <1>16 DEF Set, Idle
<1>17. ASSUME \A o \in Kind : ~Calling(o)', user' # None => cookie' = user' PROVE Goal
  BY <1>3, <1>6, <1>7, <1>17
<1>18. ASSUME AnswerMe PROVE Goal
  <2>1. Calling("me") /\ user = None /\ cookie' = cookie /\ ~Calling("logout") /\ ~Calling("identity")
        /\ ~Calling("role") /\ ~Calling("refresh") /\ ~Calling("login")
    BY <1>3, <1>4, <1>5, <1>18 DEF AnswerMe, Calling
  <2>2. CASE SignedIn("me", cookie) /\ Set("me", Idle)
    BY <1>2, <1>9, <1>16, <1>17, <2>1, <2>2
  <2>3. CASE /\ call' = [call EXCEPT !["me"] = Idle, !["refresh"] = Sent(cookie)]
             /\ NoChange
    <3>1. \A o \in Kind \ {"refresh"} : ~Calling(o)'
      BY <1>3, <1>6, <2>1, <2>3 DEF Idle
    <3>2. call'["refresh"].as = cookie'
      BY <1>3, <2>1, <2>3 DEF Sent
    <3>. QED
      BY <1>3, <1>8, <2>1, <2>3, <3>1, <3>2
  <2>. QED
    BY <1>18, <2>2, <2>3 DEF AnswerMe
<1>19. ASSUME AnswerRefresh PROVE Goal
  <2>1. Calling("refresh") /\ cookie' = cookie /\ Set("refresh", Idle) /\ SignedIn("refresh", cookie)
    BY <1>19 DEF AnswerRefresh, Calling
  <2>. QED
    BY <1>2, <1>4, <1>9, <1>16, <1>17, <2>1
<1>20. ASSUME AnswerLogin PROVE Goal
  <2>1. Calling("login") /\ Set("login", Idle) /\ user = None
    BY <1>4, <1>20 DEF AnswerLogin, Calling
  <2>2. user' = None \/ cookie' = user'
    BY <1>8, <1>9, <1>20, <2>1 DEF AnswerLogin
  <2>. QED
    BY <1>16, <1>17, <2>1, <2>2
<1>21. ASSUME AnswerIdentity PROVE Goal
  <2>1. Calling("identity") /\ user # None /\ SigningIn = {} /\ cookie' = cookie
    BY <1>2, <1>21 DEF AnswerIdentity, Calling
  <2>2. \A o \in Kind \ {"identity"} : call'[o] = call[o] /\ (Calling(o)' <=> Calling(o))
    BY <1>3, <1>6, <1>21 DEF AnswerIdentity, Set
  <2>3. call'["identity"].step = "idle" /\ SigningIn' = {}
    BY <1>3, <1>5, <1>6, <1>7, <1>21, <2>1, <2>2 DEF AnswerIdentity, Set, Idle
  <2>4. user' = user \/ (user' # None /\ user' = call["identity"].as)
    BY <1>8, <1>9, <1>21 DEF AnswerIdentity
  <2>5. user' # None /\ (cookie = user' \/ Calling("logout"))
    BY <1>2, <2>1, <2>4
  <2>. QED
    BY <1>2, <1>3, <1>6, <2>1, <2>2, <2>3, <2>5
<1>22. ASSUME AnswerRole PROVE Goal
  <2>1. /\ call["role"].step # "idle"
        /\ call' = [call EXCEPT !["role"] = Idle,
                                !["identity"] = IF call["role"].as = None THEN @ ELSE Sent(cookie)]
        /\ UNCHANGED <<user, cookie>>
    BY <1>8, <1>22 DEF AnswerRole
  <2>2. /\ \A o \in Kind \ {"role", "identity"} : call'[o] = call[o] /\ (Calling(o)' <=> Calling(o))
        /\ call'["identity"] = call["identity"] \/ call'["identity"] = Sent(cookie)
    BY <1>3, <1>6, <2>1
  <2>3. user # None /\ SigningIn = {}
    BY <1>2, <1>3, <1>6, <2>1
  <2>4. SigningIn' = {}
    BY <1>3, <1>5, <1>6, <1>7, <2>2, <2>3
  <2>5. Calling("identity")' => call'["identity"].as \in {None, cookie'} \/ Calling("logout")'
    BY <1>2, <1>3, <1>6, <2>1, <2>2 DEF Sent
  <2>. QED
    BY <1>2, <1>3, <2>1, <2>2, <2>3, <2>4, <2>5
<1>23. ASSUME AnswerLogout PROVE Goal
  <2>1. user # None /\ user' = None /\ SigningIn = {} /\ ~Calling("identity") /\ ~Calling("role")
    BY <1>1, <1>2, <1>23 DEF AnswerLogout, SignedOut, Apply
  <2>2. \A o \in Kind : ~Calling(o)'
    BY <1>3, <1>5, <1>6, <1>23, <2>1 DEF AnswerLogout, Set, Idle
  <2>. QED
    BY <1>17, <2>1, <2>2
<1>24. ASSUME LoseMe PROVE Goal
  <2>1. Calling("me") /\ Set("me", Idle) /\ user' = user
    BY <1>8, <1>24 DEF LoseMe
  <2>. QED
    BY <1>4, <1>16, <1>17, <2>1
<1>25. AuthUnchanged \/ UNCHANGED vars => UNCHANGED <<user, cookie, call>>
  BY DEF AuthUnchanged, vars
<1>26. ASSUME Search \/ (\E l \in List, n \in Slot : HandleLoad(l, n) \/ FailLoad(l, n) \/ AnswerLoad(l, n))
              \/ (\E r \in Row : Add(r) \/ HandleAdd(r) \/ FailAdd(r) \/ AnswerAdd(r))
       PROVE  AuthUnchanged
  BY <1>26 DEF Search, HandleLoad, FailLoad, AnswerLoad, Add, HandleAdd, FailAdd, AnswerAdd
<1>27. ASSUME Next PROVE Goal
  <2>. HIDE DEF Goal
  <2>. QED
    BY <1>10, <1>11, <1>12, <1>13, <1>14, <1>15, <1>18, <1>19, <1>20, <1>21, <1>22, <1>23, <1>24,
       <1>25, <1>26, <1>27 DEF Next
<1>. QED
  BY <1>10, <1>25, <1>27

-----------------------------------------------------------------------------
LEMMA InvInit == Init => IInv
  BY TypeInit, OwnInit, SessionInit DEF IInv

LEMMA InvNext == IInv /\ [Next]_vars => IInv'
  BY TypeNext, NobodyNext, OwnNext, SessionNext DEF IInv

(* The invariant the other theorems rest on.                               *)
THEOREM InductiveInvariant == Spec => []IInv
  BY InvInit, InvNext, PTL DEF Spec

(* AuthProvider: loading is set exactly while one request that may sign    *)
(* somebody in is under way.                                               *)
THEOREM TypeCorrect == Spec => []TypeOK
<1>1. IInv => TypeOK
  BY DEF IInv
<1>. QED
  BY <1>1, InductiveInvariant, PTL

(* The effects of AppProvider: a list has rows only for who may see them,  *)
(* unless a change of user or permissions crosses a request about it.      *)
THEOREM PermittedOnly == Spec => []ShownToPermitted
<1>1. IInv => ShownToPermitted
  BY DEF IInv
<1>. QED
  BY <1>1, InductiveInvariant, PTL

(* AuthProvider: who is on the screen has the session that requests are    *)
(* sent with, unless the user left while the identity was being read.      *)
THEOREM SessionOnScreen == Spec => []IdentityIsSession
<1>1. IInv => IdentityIsSession
  BY DEF IInv
<1>. QED
  BY <1>1, InductiveInvariant, PTL
=============================================================================

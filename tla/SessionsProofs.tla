--------------------------- MODULE SessionsProofs ---------------------------
(***************************************************************************)
(* Proofs about Sessions, for every set of requests, browsers, bodies and  *)
(* passwords.                                                              *)
(***************************************************************************)
EXTENDS Sessions, FiniteSetTheorems, TLAPS

(* The fields of a body follow from its kind.                              *)
LEMMA DtoTypes ==
    \A body \in Body :
        /\ body.kind = "login" => body.password \in Password
        /\ body.kind = "reset" => body.token \in Request /\ body.password \in Password
        /\ body.kind = "change" => body.password \in Password
  BY BodyAssumption DEF LoginDto, BareRequest, ResetPasswordDto, ChangePasswordDto

(* The races the properties except are met when they happen.               *)
LEMMA Races ==
    ASSUME MetInv, NEW r \in Request, NEW q \in Request, q # r
    PROVE  /\ pc[r] = "rotating" /\ pc[q] = "rotating"
                /\ req[r].cookies.refresh = req[q].cookies.refresh => "rotation" \in met
           /\ pc[r] = "rotating" /\ pc[q] \in Revoking => "revocation" \in met
           /\ pc[r] \in {"granted", "resetting", "changing"} /\ pc[q] \in {"resetting", "changing"}
                => "password" \in met
           /\ pc[r] \in {"issuing", "resetting"} /\ pc[q] \in {"issuing", "resetting"}
                => "token" \in met
           /\ pc[r] \in {"granted", "failing", "counting"} /\ pc[q] = "counting"
                => "attempt" \in met
<1>1. /\ {"rotation", "revocation", "password", "token", "attempt"} \subseteq DOMAIN Racing
      /\ Racing["rotation"] = <<{"rotating"}, {"rotating"}>>
      /\ Racing["revocation"] = <<{"rotating"}, Revoking>>
      /\ Racing["password"] = <<{"granted", "resetting", "changing"}, {"resetting", "changing"}>>
      /\ Racing["token"] = <<{"issuing", "resetting"}, {"issuing", "resetting"}>>
      /\ Racing["attempt"] = <<{"granted", "failing", "counting"}, {"counting"}>>
  BY DEF Racing
<1>2. ASSUME NEW k \in DOMAIN Racing,
             k = "rotation" => req[r].cookies.refresh = req[q].cookies.refresh,
             pc[r] \in Racing[k][1], pc[q] \in Racing[k][2]
      PROVE  k \in met
  <2>1. r \in At(Racing[k][1]) /\ q \in At(Racing[k][2]) \ {r}
    BY <1>2 DEF At
  <2>2. k \in Conflicts
    BY <1>2, <2>1 DEF Conflicts
  <2>. QED
    BY <2>2 DEF MetInv
<1>. QED
  BY <1>1, <1>2

LEMMA TypeInit == Init => TypeOK /\ StageInv
<1>. SUFFICES ASSUME Init PROVE TypeOK /\ StageInv
  OBVIOUS
<1>1. Inserted = {} /\ \A stages : "idle" \notin stages => At(stages) = {}
  BY DEF Init, Inserted, At
<1>2. TypeOK
  BY <1>1, PasswordAssumption, AttemptsAssumption DEF Init, TypeOK, Stage, Cookies
<1>. QED
  BY <1>1, <1>2 DEF Init, StageInv

(* A handler goes on to a stage that fits its request.                     *)
Fits(r, stage) ==
    /\ stage \in {"granted", "failing", "counting"} => KindOf(r) = "login"
    /\ stage \in {"rotating", "reusing", "leaving"} => req[r].cookies.refresh \in Inserted
    /\ stage = "resetting" => KindOf(r) = "reset"
    /\ stage \in {"admitted", "changing"} => KindOf(r) = "change"

LEMMA StageKept ==
    ASSUME TypeOK, StageInv, NEW r \in Request, NEW stage \in Stage, Goto(r, stage),
           pc[r] # "idle", req' = req, Inserted \subseteq Inserted', Inserted' \subseteq Inserted \cup {r},
           Fits(r, stage),
           stage = "signed" => r \in Inserted',
           r \in Inserted' => stage \in {"signed", "done"}
    PROVE  StageInv'
<1>1. /\ pc'[r] = stage /\ \A q \in Request \ {r} : pc'[q] = pc[q]
      /\ \A q \in Request : KindOf(q)' = KindOf(q)
  BY DEF Goto, TypeOK, KindOf
<1>2. Inserted \subseteq Request /\ Inserted' \subseteq Request
  BY DEF Inserted
<1>. HIDE DEF Inserted
<1>. QED
  BY <1>1, <1>2 DEF StageInv, At, Fits, Inserted

(* Nothing but revoked ever changes in a session that is there.            *)
Revoked(s) == [session[s] EXCEPT !.revoked = TRUE]
Revocation ==
    /\ Inserted' = Inserted
    /\ \A s \in Inserted : session'[s] \in {session[s], Revoked(s)}
    /\ session' \in [Request -> AuthSession \cup {None}]

LEMMA RevokedRow ==
    ASSUME TypeOK, NEW s \in Inserted
    PROVE  /\ Revoked(s) \in AuthSession /\ Revoked(s).revoked /\ Revoked(s) # None
           /\ Revoked(s).family = session[s].family /\ Revoked(s).from = session[s].from
<1>1. session[s] \in AuthSession
  BY DEF TypeOK, Inserted
<1>. QED
  BY <1>1, NoRowAssumption DEF Revoked, AuthSession

LEMMA RevokeOne ==
    ASSUME TypeOK, NEW s \in Inserted, session' = Revoke(s)
    PROVE  Revocation
<1>1. Revoke(s) = [session EXCEPT ![s] = Revoked(s)]
  BY DEF Revoke, Revoked, TypeOK
<1>2. Revoked(s) \in AuthSession /\ Revoked(s) # None
  BY RevokedRow
<1>. QED
  BY <1>1, <1>2 DEF Revocation, TypeOK, Inserted

LEMMA RevokeEvery ==
    ASSUME TypeOK, session' = RevokeAll
    PROVE  Revocation /\ Live' = {}
<1>1. /\ \A s \in Live : session'[s] = Revoked(s)
      /\ \A s \in Request \ Live : session'[s] = session[s]
      /\ DOMAIN session' = Request /\ session' = [s \in Request |-> session'[s]]
  BY DEF RevokeAll, Revoked, Live, Inserted
<1>2. \A s \in Live : Revoked(s) \in AuthSession /\ Revoked(s) # None /\ Revoked(s).revoked
  BY RevokedRow DEF Live
<1>3. Inserted' = Inserted
  BY <1>1, <1>2 DEF Inserted, Live
<1>4. \A s \in Request : session'[s] \in AuthSession \cup {None}
  BY <1>1, <1>2 DEF TypeOK
<1>. QED
  BY <1>1, <1>2, <1>3, <1>4 DEF Revocation, Live, Inserted

(* What every step may do to the sessions: insert one for a login, replace *)
(* one by a rotation, revoke some, or nothing.                             *)
NewLogin(r) ==
    /\ pc[r] = "granted" /\ r \notin Inserted
    /\ session' = [session EXCEPT ![r] = [family |-> r, from |-> None, revoked |-> FALSE]]
Rotation(r) ==
    LET t == req[r].cookies.refresh
    IN  /\ pc[r] = "rotating" /\ r \notin Inserted /\ t \in Inserted
        /\ session'[t] = Revoked(t)
        /\ session'[r] = [family |-> session[t].family, from |-> t, revoked |-> FALSE]
        /\ \A s \in Request \ {r, t} : session'[s] = session[s]

LEMMA NewLoginRow ==
    ASSUME TypeOK, StageInv, NEW r \in Request, LoginCommit(r)
    PROVE  NewLogin(r) /\ session' \in [Request -> AuthSession \cup {None}] /\ Inserted' = Inserted \cup {r}
<1> DEFINE new == [family |-> r, from |-> None, revoked |-> FALSE]
<1>1. new \in AuthSession /\ new # None
  <2>1. new \in AuthSession
    BY DEF AuthSession
  <2>. QED
    BY <2>1, NoRowAssumption
<1>2. pc[r] = "granted" /\ session' = [session EXCEPT ![r] = new] /\ r \notin Inserted
  BY DEF LoginCommit, StageInv
<1>. HIDE DEF new
<1>3. session' \in [Request -> AuthSession \cup {None}] /\ Inserted' = Inserted \cup {r}
  BY <1>1, <1>2 DEF TypeOK, Inserted
<1>. QED
  BY <1>2, <1>3 DEF NewLogin, new

LEMMA RotationRow ==
    ASSUME TypeOK, StageInv, NEW r \in Request, RefreshCommit(r)
    PROVE  Rotation(r) /\ session' \in [Request -> AuthSession \cup {None}] /\ Inserted' = Inserted \cup {r}
<1> DEFINE t == req[r].cookies.refresh
           new == [family |-> session[t].family, from |-> t, revoked |-> FALSE]
<1>1. pc[r] = "rotating" /\ t \in Inserted /\ r \notin Inserted /\ t \in Request
  BY DEF RefreshCommit, StageInv, At, Inserted
<1>2. new \in AuthSession /\ new # None
  <2>1. session[t] \in AuthSession
    BY <1>1 DEF TypeOK, Inserted
  <2>2. session[t].family \in Request
    BY <2>1 DEF AuthSession
  <2>3. new \in AuthSession
    BY <1>1, <2>2 DEF AuthSession
  <2>. QED
    BY <2>3, NoRowAssumption
<1>3. Revoke(t) = [session EXCEPT ![t] = Revoked(t)]
  BY DEF Revoke, Revoked, TypeOK
<1>4. session' = [[session EXCEPT ![t] = Revoked(t)] EXCEPT ![r] = new]
  BY <1>3 DEF RefreshCommit
<1>5. Revoked(t) \in AuthSession /\ Revoked(t) # None
  BY <1>1, RevokedRow
<1>. HIDE DEF t, new
<1>6. session' \in [Request -> AuthSession \cup {None}] /\ Inserted' = Inserted \cup {r}
  BY <1>1, <1>2, <1>4, <1>5 DEF TypeOK, Inserted
<1>7. /\ session'[t] = Revoked(t) /\ session'[r] = new
      /\ \A s \in Request \ {r, t} : session'[s] = session[s]
  BY <1>1, <1>4 DEF TypeOK
<1>. QED
  BY <1>1, <1>6, <1>7 DEF Rotation, t, new

Rooted ==
    \A s \in Inserted : session[s].family \in Inserted /\ KindOf(session[s].family) = "login"

(* Whatever happens to the sessions, each goes back to a login.            *)
LEMMA RootedKept ==
    ASSUME TypeOK, StageInv, NEW r \in Request, req' = req,
           LoginCommit(r) \/ RefreshCommit(r) \/ Revocation \/ session' = session
    PROVE  /\ session' \in [Request -> AuthSession \cup {None}]
           /\ Rooted' /\ Inserted \subseteq Inserted'
           /\ \A b \in Browser : {jar[b].access, jar[b].refresh} \subseteq Inserted' \cup {None}
<1>1. \A s \in Inserted : session[s].family \in Inserted /\ KindOf(session[s].family) = "login"
  BY DEF TypeOK
<1>2. \A s \in Request : KindOf(s)' = KindOf(s)
  BY DEF KindOf
<1>3. Inserted \subseteq Request
  BY DEF Inserted
<1>4. session' \in [Request -> AuthSession \cup {None}] /\ Inserted \subseteq Inserted' /\ Rooted'
  <2>1. CASE LoginCommit(r)
    <3>1. /\ NewLogin(r) /\ Inserted' = Inserted \cup {r} /\ KindOf(r) = "login"
          /\ session' \in [Request -> AuthSession \cup {None}]
      BY <2>1, NewLoginRow DEF LoginCommit, StageInv, At
    <3>2. session'[r].family = r /\ \A s \in Inserted : session'[s] = session[s]
      BY <3>1 DEF NewLogin, TypeOK, Inserted
    <3>. QED
      BY <1>1, <1>2, <1>3, <3>1, <3>2 DEF Rooted
  <2>2. CASE RefreshCommit(r)
    <3> DEFINE t == req[r].cookies.refresh
    <3>1. /\ Rotation(r) /\ Inserted' = Inserted \cup {r} /\ t \in Inserted
          /\ session' \in [Request -> AuthSession \cup {None}]
      BY <2>2, RotationRow DEF Rotation
    <3>2. /\ session'[r].family = session[t].family
          /\ \A s \in Inserted : session'[s].family = session[s].family
      BY <1>3, <3>1, RevokedRow DEF Rotation
    <3>. HIDE DEF t
    <3>. QED
      BY <1>1, <1>2, <1>3, <3>1, <3>2 DEF Rooted
  <2>3. CASE Revocation
    <3>1. Inserted' = Inserted /\ \A s \in Inserted : session'[s].family = session[s].family
      BY <2>3, RevokedRow DEF Revocation
    <3>. QED
      BY <1>1, <1>2, <1>3, <2>3, <3>1 DEF Rooted, Revocation
  <2>4. CASE session' = session
    <3>1. Inserted' = Inserted
      BY <2>4 DEF Inserted
    <3>. QED
      BY <1>1, <1>2, <1>3, <2>4, <3>1 DEF Rooted, TypeOK
  <2>. QED
    BY <2>1, <2>2, <2>3, <2>4
<1>. QED
  BY <1>4 DEF TypeOK

(* Steps of a handler that only decide where it goes on.                   *)
LEMMA ReadsKeep ==
    ASSUME TypeOK, StageInv, NEW r \in Request, met' \subseteq Kind,
           \/ LoginRead(r) \/ FailedLoginRead(r) \/ RefreshRead(r) \/ LogoutRead(r) \/ ForgotScan(r)
           \/ ResetRead(r) \/ ChangeAdmit(r) \/ ChangeRead(r) \/ LoseAnswer(r)
    PROVE  TypeOK' /\ StageInv'
<1>. USE DEF DbUnchanged, NoWrite
<1>1. /\ UNCHANGED <<account, session, token, lapsed, jar, req>>
      /\ pc[r] # "idle" /\ Inserted' = Inserted
      /\ attempts' \in [Request -> 0 .. MaxAttempts - 1]
      /\ scanned' \in [Request -> SUBSET Request]
  BY DEF LoginRead, FailedLoginRead, RefreshRead, LogoutRead, ForgotScan, ResetRead, ChangeAdmit,
     ChangeRead, LoseAnswer, Arrives, Inserted, TypeOK
<1>2. PICK stage \in Stage : Goto(r, stage) /\ Fits(r, stage) /\ stage # "signed"
                             /\ (r \in Inserted => stage = "done")
  <2>. USE DEF Arrives, Fits, Stage, StageInv, KindOf
  <2>1. CASE LoginRead(r)
    BY <2>1 DEF LoginRead
  <2>2. CASE FailedLoginRead(r)
    BY <2>2 DEF FailedLoginRead, At
  <2>3. CASE RefreshRead(r)
    <3>1. req[r].cookies.refresh # None => req[r].cookies.refresh \in Inserted
      BY <1>1
    <3>. QED
      BY <2>3, <3>1 DEF RefreshRead
  <2>4. CASE LogoutRead(r)
    BY <2>4 DEF LogoutRead, Live
  <2>5. CASE ForgotScan(r)
    BY <2>5 DEF ForgotScan
  <2>6. CASE ResetRead(r)
    BY <2>6 DEF ResetRead
  <2>7. CASE ChangeAdmit(r)
    BY <2>7 DEF ChangeAdmit
  <2>8. CASE ChangeRead(r)
    BY <2>8 DEF ChangeRead, At
  <2>9. CASE LoseAnswer(r)
    BY <2>9 DEF LoseAnswer
  <2>. QED
    BY <2>1, <2>2, <2>3, <2>4, <2>5, <2>6, <2>7, <2>8, <2>9
<1>3. StageInv'
  BY <1>1, <1>2, StageKept
<1>4. pc' \in [Request -> Stage]
  BY <1>2 DEF Goto, TypeOK
<1>5. TypeOK'
  BY <1>1, <1>4 DEF TypeOK, KindOf, Inserted
<1>. QED
  BY <1>3, <1>5

Revokes(r) == ReuseCommit(r) \/ LogoutCommit(r) \/ ResetCommit(r) \/ ChangeCommit(r)
LEMMA RevokesRevoke ==
    ASSUME TypeOK, StageInv, NEW r \in Request, Revokes(r)
    PROVE  Revocation /\ pc[r] \in Revoking /\ (~LogoutCommit(r) => Live' = {})
<1>1. CASE LogoutCommit(r)
  <2>1. req[r].cookies.refresh \in Inserted
    BY <1>1 DEF LogoutCommit, StageInv, At
  <2>. QED
    BY <1>1, <2>1, RevokeOne DEF LogoutCommit, Revoking
<1>2. CASE ReuseCommit(r) \/ ResetCommit(r) \/ ChangeCommit(r)
  <2>1. session' = RevokeAll /\ pc[r] \in Revoking
    BY <1>2 DEF ReuseCommit, ResetCommit, ChangeCommit, Revoking
  <2>. QED
    BY <2>1, RevokeEvery DEF Revoking
<1>. QED
  BY <1>1, <1>2 DEF Revokes

LEMMA WritesKeep ==
    ASSUME TypeOK, StageInv, NEW r \in Request, met' \subseteq Kind,
           \/ LoginCommit(r) \/ FailedLoginCommit(r) \/ RefreshCommit(r) \/ ForgotCommit(r)
           \/ Revokes(r)
    PROVE  TypeOK' /\ StageInv'
<1>. USE DEF Wrote
<1>1. UNCHANGED <<lapsed, jar, req, attempts, scanned>> /\ pc[r] # "idle"
  BY DEF LoginCommit, FailedLoginCommit, RefreshCommit, ForgotCommit, Revokes, ReuseCommit,
     LogoutCommit, ResetCommit, ChangeCommit
<1>2. LoginCommit(r) \/ RefreshCommit(r) \/ Revocation \/ session' = session
  BY RevokesRevoke DEF FailedLoginCommit, ForgotCommit
<1>3. /\ session' \in [Request -> AuthSession \cup {None}]
      /\ Rooted' /\ Inserted \subseteq Inserted'
      /\ \A b \in Browser : {jar[b].access, jar[b].refresh} \subseteq Inserted' \cup {None}
  BY <1>1, <1>2, RootedKept
<1>4. Inserted' \subseteq Inserted \cup {r}
  BY <1>2, NewLoginRow, RotationRow DEF Revocation, Inserted
<1>5. PICK stage \in Stage : Goto(r, stage) /\ stage \in {"signed", "missed", "refused", "cleared", "done"}
        /\ (stage = "signed" <=> LoginCommit(r) \/ RefreshCommit(r))
  BY DEF LoginCommit, FailedLoginCommit, RefreshCommit, ForgotCommit, Revokes, ReuseCommit,
     LogoutCommit, ResetCommit, ChangeCommit, Stage
<1>6. r \notin Inserted
  BY DEF LoginCommit, FailedLoginCommit, RefreshCommit, ForgotCommit, Revokes, ReuseCommit,
     LogoutCommit, ResetCommit, ChangeCommit, StageInv
<1>7. r \in Inserted' <=> stage = "signed"
  BY <1>2, <1>5, <1>6, NewLoginRow, RotationRow DEF Revocation, Inserted
<1>8. StageInv'
  <2>1. Fits(r, stage)
    BY <1>5 DEF Fits
  <2>. QED
    BY <1>1, <1>3, <1>4, <1>5, <1>7, <2>1, StageKept
<1>9. account' \in [password : Password, failed : 0 .. MaxAttempts - 1, locked : BOOLEAN]
  <2>6. /\ 0 \in 0 .. MaxAttempts - 1
        /\ account \in [password : Password, failed : 0 .. MaxAttempts - 1, locked : BOOLEAN]
        /\ attempts \in [Request -> 0 .. MaxAttempts - 1] /\ MaxAttempts \in Nat
        /\ req \in [Request -> Sent \cup {None}]
    BY AttemptsAssumption DEF TypeOK
  <2>1. CASE LoginCommit(r)
    <3>1. account' = [account EXCEPT !.failed = 0, !.locked = FALSE]
      BY <2>1 DEF LoginCommit
    <3>. QED
      BY <2>6, <3>1
  <2>2. CASE FailedLoginCommit(r)
    <3>1. attempts[r] \in 0 .. MaxAttempts - 1
      BY <2>6
    <3>2. CASE attempts[r] + 1 >= MaxAttempts
      <4>1. account' = [account EXCEPT !.failed = 0, !.locked = TRUE]
        BY <2>2, <3>2 DEF FailedLoginCommit
      <4>. QED
        BY <2>6, <4>1
    <3>3. CASE attempts[r] + 1 < MaxAttempts
      <4>1. attempts[r] + 1 \in 0 .. MaxAttempts - 1
        BY <2>6, <3>1, <3>3
      <4>2. account' = [account EXCEPT !.failed = attempts[r] + 1]
        BY <2>2, <2>6, <3>1, <3>3 DEF FailedLoginCommit
      <4>. QED
        BY <2>6, <4>1, <4>2
    <3>. QED
      BY <2>6, <3>1, <3>2, <3>3
  <2>3. CASE ResetCommit(r)
    <3>1. req[r] \in Sent /\ req[r].body.kind = "reset"
      BY <2>3, <2>6 DEF ResetCommit, StageInv, At, KindOf
    <3>2. req[r].body.password \in Password
      BY <3>1, DtoTypes DEF Sent
    <3>. QED
      BY <2>3, <2>6, <3>2 DEF ResetCommit
  <2>4. CASE ChangeCommit(r)
    <3>1. req[r] \in Sent /\ req[r].body.kind = "change"
      BY <2>4, <2>6 DEF ChangeCommit, StageInv, At, KindOf
    <3>2. req[r].body.password \in Password
      BY <3>1, DtoTypes DEF Sent
    <3>. QED
      BY <2>4, <2>6, <3>2 DEF ChangeCommit
  <2>5. CASE UNCHANGED account
    BY <2>5, <2>6
  <2>. QED
    BY <2>1, <2>2, <2>3, <2>4, <2>5
    DEF RefreshCommit, ForgotCommit, Revokes, ReuseCommit, LogoutCommit
<1>10. token' \in [Request -> {"none", "unused", "used"}]
  BY DEF LoginCommit, FailedLoginCommit, RefreshCommit, ForgotCommit, Revokes, ReuseCommit,
     LogoutCommit, ResetCommit, ChangeCommit, TypeOK
<1>11. pc' \in [Request -> Stage]
  BY <1>5 DEF Goto, TypeOK
<1>12. TypeOK'
  BY <1>1, <1>3, <1>9, <1>10, <1>11 DEF TypeOK, Rooted
<1>. QED
  BY <1>8, <1>12

(* The browser's side, and time.                                           *)
LEMMA OthersKeep ==
    ASSUME TypeOK, StageInv, met' \subseteq Kind,
           \/ \E r \in Request : Deliver(r) \/ Lapse(r) \/ \E b \in Browser : Send(r, b)
           \/ \E b \in Browser : AccessLapses(b)
           \/ LockLapses
    PROVE  TypeOK' /\ StageInv'
<1>. USE DEF DbUnchanged
<1>1. ASSUME NEW r \in Request, Deliver(r) PROVE TypeOK' /\ StageInv'
  <2>1. /\ UNCHANGED <<account, session, token, lapsed, req, attempts, scanned>>
        /\ Goto(r, "done") /\ Inserted' = Inserted /\ pc[r] \in {"signed", "cleared"}
    BY <1>1 DEF Deliver, Inserted
  <2>2. req[r].by \in Browser /\ (pc[r] = "signed" => r \in Inserted)
    BY <2>1 DEF StageInv, At, TypeOK, Sent
  <2>3. PICK c \in Inserted \cup {None} :
          jar' = [jar EXCEPT ![req[r].by] = [access |-> c, refresh |-> c]]
    BY <1>1, <2>1, <2>2 DEF Deliver
  <2>4. [access |-> c, refresh |-> c] \in Cookies
    BY DEF Cookies, Inserted
  <2>5. jar' \in [Browser -> Cookies]
        /\ \A b \in Browser : {jar'[b].access, jar'[b].refresh} \subseteq Inserted \cup {None}
    BY <2>2, <2>3, <2>4 DEF TypeOK
  <2>6. StageInv'
    <3>1. Fits(r, "done") /\ "done" \in Stage
      BY DEF Fits, Stage
    <3>. QED
      BY <2>1, <3>1, StageKept
  <2>7. pc' \in [Request -> Stage]
    BY <2>1 DEF Goto, TypeOK, Stage
  <2>8. TypeOK'
    BY <2>1, <2>5, <2>7 DEF TypeOK, KindOf
  <2>. QED
    BY <2>6, <2>8
<1>2. ASSUME NEW r \in Request, NEW b \in Browser, Send(r, b) PROVE TypeOK' /\ StageInv'
  <2>1. PICK body \in Body :
          req' = [req EXCEPT ![r] = [body |-> body, by |-> b, cookies |-> jar[b]]]
    BY <1>2 DEF Send
  <2>2. /\ UNCHANGED <<account, session, token, lapsed, jar, attempts, scanned>>
        /\ pc[r] = "idle" /\ pc' = [pc EXCEPT ![r] = "new"] /\ Inserted' = Inserted
        /\ r \notin Inserted
    BY <1>2 DEF Send, Goto, Inserted, StageInv
  <2> DEFINE new == [body |-> body, by |-> b, cookies |-> jar[b]]
  <2>3. new \in Sent /\ new # None /\ new.cookies = jar[b]
    <3>1. new \in Sent
      BY DEF Sent, TypeOK
    <3>. QED
      BY <3>1, NoRowAssumption
  <2>4. req' = [req EXCEPT ![r] = new]
    BY <2>1
  <2>. HIDE DEF new
  <2>5. TypeOK'
    <3>1. \A s \in Inserted : session[s].family \in Inserted /\ session[s].family # r
      BY <2>2 DEF TypeOK
    <3>. QED
      BY <2>2, <2>3, <2>4, <3>1 DEF TypeOK, KindOf, Inserted, Stage
  <2>6. StageInv'
    BY <2>2, <2>3, <2>4 DEF StageInv, At, KindOf, TypeOK, Inserted
  <2>. QED
    BY <2>5, <2>6
<1>3. ASSUME NEW r \in Request, Lapse(r) PROVE TypeOK' /\ StageInv'
  BY <1>3 DEF Lapse, TypeOK, StageInv, At, KindOf, Inserted
<1>4. ASSUME NEW b \in Browser, AccessLapses(b) PROVE TypeOK' /\ StageInv'
  <2>1. [jar[b] EXCEPT !.access = None] \in Cookies
    BY DEF TypeOK, Cookies
  <2>2. jar' \in [Browser -> Cookies]
        /\ \A c \in Browser : {jar'[c].access, jar'[c].refresh} \subseteq Inserted \cup {None}
    BY <1>4, <2>1 DEF AccessLapses, TypeOK, Cookies
  <2>. QED
    BY <1>4, <2>2 DEF AccessLapses, TypeOK, StageInv, At, KindOf, Inserted
<1>5. CASE LockLapses
  <2>1. account' \in [password : Password, failed : 0 .. MaxAttempts - 1, locked : BOOLEAN]
    <3>1. account' = [account EXCEPT !.locked = FALSE]
      BY <1>5 DEF LockLapses
    <3>. QED
      BY <3>1 DEF TypeOK
  <2>. QED
    BY <1>5, <2>1 DEF LockLapses, TypeOK, StageInv, At, KindOf, Inserted
<1>. QED
  BY <1>1, <1>2, <1>3, <1>4, <1>5

LEMMA TypeNext == TypeOK /\ StageInv /\ [Next]_vars => TypeOK' /\ StageInv'
<1>. SUFFICES ASSUME TypeOK, StageInv, [Next]_vars PROVE TypeOK' /\ StageInv'
  OBVIOUS
<1>1. CASE UNCHANGED vars
  BY <1>1 DEF vars, TypeOK, StageInv, At, KindOf, Inserted
<1>2. CASE Next
  <2>1. met' \subseteq Kind
    <3>1. DOMAIN Racing \subseteq Kind
      BY DEF Racing, Kind
    <3>2. Conflicts' \subseteq DOMAIN Racing
      BY DEF Conflicts
    <3>. QED
      BY <1>2, <3>1, <3>2 DEF Next, TypeOK, Kind
  <2>. QED
    BY <1>2, <2>1, ReadsKeep, WritesKeep, OthersKeep DEF Next, Step, Handle, Revokes
<1>. QED
  BY <1>1, <1>2

-----------------------------------------------------------------------------
(* What a step does to the sessions, and to the password.                  *)
LEMMA Classes ==
    ASSUME Next
    PROVE  \/ \E r \in Request : LoginCommit(r) \/ RefreshCommit(r) \/ Revokes(r)
           \/ session' = session /\ account'.password = account.password
<1>. USE DEF DbUnchanged, NoWrite, Wrote
<1>1. ASSUME NEW r \in Request, FailedLoginCommit(r) PROVE account'.password = account.password
  BY <1>1 DEF FailedLoginCommit
<1>2. ASSUME LockLapses PROVE account'.password = account.password
  BY <1>2 DEF LockLapses
<1>. QED
  BY <1>1, <1>2 DEF Next, Step, Handle, Revokes, LoginRead, FailedLoginRead, FailedLoginCommit,
     RefreshRead, LogoutRead, ForgotScan, ForgotCommit, ResetRead, ChangeAdmit, ChangeRead, Deliver,
     LoseAnswer, Lapse, Send, AccessLapses, LockLapses

(* A request keeps what it was sent with, and comes to be rotating or      *)
(* granted by a read alone.                                                *)
LEMMA Moves ==
    ASSUME TypeOK, Next, NEW q \in Request
    PROVE  /\ pc[q] # "idle" => req'[q] = req[q] /\ pc'[q] # "idle"
           /\ pc'[q] = "rotating" => pc[q] = "rotating" \/ RefreshRead(q)
           /\ pc'[q] = "granted" => pc[q] = "granted" \/ LoginRead(q)
           /\ pc'[q] = "issuing" => pc[q] = "issuing" \/ ForgotScan(q)
           /\ pc'[q] = "resetting" => pc[q] = "resetting" \/ ResetRead(q)
           /\ pc'[q] = "counting" => pc[q] = "counting" \/ FailedLoginRead(q)
<1>. USE DEF DbUnchanged, NoWrite, Wrote, Goto
<1>1. ASSUME NEW r \in Request, Handle(r) \/ LoseAnswer(r)
      PROVE  /\ req' = req /\ pc[r] # "idle" /\ pc'[r] # "idle"
             /\ \A p \in Request \ {r} : pc'[p] = pc[p]
             /\ pc'[r] = "rotating" => RefreshRead(r)
             /\ pc'[r] = "granted" => LoginRead(r)
             /\ pc'[r] = "issuing" => ForgotScan(r)
             /\ pc'[r] = "resetting" => ResetRead(r)
             /\ pc'[r] = "counting" => FailedLoginRead(r)
  BY <1>1 DEF Handle, Arrives, LoginRead, LoginCommit, FailedLoginRead, FailedLoginCommit,
     RefreshRead, ReuseCommit, RefreshCommit, LogoutRead, LogoutCommit, ForgotScan, ForgotCommit,
     ResetRead, ResetCommit, ChangeAdmit, ChangeRead, ChangeCommit, Deliver, LoseAnswer, TypeOK
<1>2. ASSUME NEW r \in Request, NEW b \in Browser, Send(r, b)
      PROVE  /\ pc[r] = "idle" /\ pc'[r] = "new"
             /\ \A p \in Request \ {r} : pc'[p] = pc[p] /\ req'[p] = req[p]
  BY <1>2 DEF Send, TypeOK
<1>3. ASSUME \/ \E r \in Request : Lapse(r)
             \/ \E b \in Browser : AccessLapses(b)
             \/ LockLapses
      PROVE  pc' = pc /\ req' = req
  BY <1>3 DEF Lapse, AccessLapses, LockLapses
<1>. QED
  BY <1>1, <1>2, <1>3 DEF Next, Step

(* A session that is there keeps its login and its predecessor, and does   *)
(* not come back to life; one that appears is that of a login or a         *)
(* rotation.                                                               *)
LEMMA Kept ==
    ASSUME TypeOK, StageInv, [Next]_vars
    PROVE  /\ Inserted \subseteq Inserted'
           /\ \A s \in Inserted :
                /\ session'[s].family = session[s].family /\ session'[s].from = session[s].from
                /\ session[s].revoked => session'[s].revoked
           /\ \A r \in Inserted' \ Inserted : LoginCommit(r) \/ RefreshCommit(r)
<1>1. ASSUME NEW r \in Request, LoginCommit(r)
      PROVE  /\ Inserted' = Inserted \cup {r}
             /\ \A s \in Inserted : session'[s] = session[s]
  BY <1>1, NewLoginRow DEF NewLogin, Inserted, TypeOK
<1>2. ASSUME NEW r \in Request, RefreshCommit(r)
      PROVE  /\ Inserted' = Inserted \cup {r}
             /\ \A s \in Inserted : session'[s] \in {session[s], Revoked(s)}
  <2>1. Inserted \subseteq Request
    BY DEF Inserted
  <2>. QED
    BY <1>2, <2>1, RotationRow DEF Rotation
<1>3. ASSUME NEW r \in Request, Revokes(r)
      PROVE  Inserted' = Inserted /\ \A s \in Inserted : session'[s] \in {session[s], Revoked(s)}
  BY <1>3, RevokesRevoke DEF Revocation
<1>4. ASSUME session' = session PROVE Inserted' = Inserted
  BY <1>4 DEF Inserted
<1>5. CASE UNCHANGED vars
  BY <1>4, <1>5 DEF vars
<1>6. CASE Next
  <2>1. CASE \E r \in Request : LoginCommit(r)
    BY <1>1, <2>1
  <2>2. CASE \E r \in Request : RefreshCommit(r)
    BY <1>2, <2>2, RevokedRow
  <2>3. CASE \E r \in Request : Revokes(r)
    BY <1>3, <2>3, RevokedRow
  <2>4. CASE session' = session
    BY <1>4, <2>4
  <2>. QED
    BY <1>6, <2>1, <2>2, <2>3, <2>4, Classes
<1>. QED
  BY <1>5, <1>6

LEMMA MetNext == MetInv /\ [Next]_vars => MetInv' /\ met \subseteq met'
<1>1. ASSUME UNCHANGED vars PROVE Conflicts' = Conflicts /\ met' = met
  BY <1>1 DEF vars, Conflicts, At
<1>. QED
  BY <1>1 DEF Next, MetInv

(* A session inserted by a rotation succeeds the one its request brought.  *)
LEMMA Successor ==
    ASSUME TypeOK, StageInv, NEW r \in Request, RefreshCommit(r)
    PROVE  LET t == req[r].cookies.refresh
           IN  /\ pc[r] = "rotating" /\ t \in Inserted /\ r \notin Inserted /\ t # r
               /\ Inserted' = Inserted \cup {r}
               /\ session'[r].family = session[t].family /\ session'[r].from = t
               /\ ~session'[r].revoked /\ session'[t].revoked
               /\ \A s \in Request \ {r, t} : session'[s] = session[s]
               /\ account' = account /\ req' = req /\ token' = token /\ pc'[r] = "signed"
<1> DEFINE t == req[r].cookies.refresh
<1>1. Rotation(r) /\ Inserted' = Inserted \cup {r}
  BY RotationRow
<1>2. t \in Inserted /\ r \notin Inserted
  BY <1>1 DEF Rotation
<1>3. Revoked(t).revoked
  BY <1>2, RevokedRow
<1>4. /\ pc[r] = "rotating" /\ pc'[r] = "signed"
      /\ account' = account /\ req' = req /\ token' = token
  BY DEF RefreshCommit, Wrote, Goto, TypeOK
<1>. QED
  BY <1>1, <1>2, <1>3, <1>4 DEF Rotation

LEMMA Newcomer ==
    ASSUME TypeOK, StageInv, NEW r \in Request, LoginCommit(r)
    PROVE  /\ pc[r] = "granted" /\ r \notin Inserted /\ Inserted' = Inserted \cup {r}
           /\ session'[r] = [family |-> r, from |-> None, revoked |-> FALSE]
           /\ \A s \in Request \ {r} : session'[s] = session[s]
           /\ account'.password = account.password /\ req' = req /\ token' = token
<1>1. account'.password = account.password /\ req' = req /\ token' = token
  BY DEF LoginCommit, Wrote
<1>2. pc[r] = "granted" /\ r \notin Inserted /\ Inserted' = Inserted \cup {r}
  BY NewLoginRow DEF NewLogin
<1> DEFINE new == [family |-> r, from |-> None, revoked |-> FALSE]
<1>3. session' = [session EXCEPT ![r] = new] /\ DOMAIN session = Request
  BY NewLoginRow DEF NewLogin, TypeOK
<1>. HIDE DEF new
<1>4. session'[r] = new /\ \A s \in Request \ {r} : session'[s] = session[s]
  BY <1>3
<1>. QED
  BY <1>1, <1>2, <1>4 DEF new

LEMMA ReplacedNext ==
    ASSUME TypeOK, StageInv, ReplacedInv, [Next]_vars
    PROVE  ReplacedInv'
<1>1. \A s \in Inserted : LET f == session'[s].from
        IN  f # None => f \in Inserted' /\ session'[f].revoked /\ session'[f].family = session'[s].family
  BY Kept DEF ReplacedInv
<1>2. ASSUME NEW r \in Request, LoginCommit(r) PROVE session'[r].from = None
  <2>1. session'[r] = [family |-> r, from |-> None, revoked |-> FALSE]
    BY <1>2, Newcomer
  <2>. QED
    BY <2>1
<1>3. ASSUME NEW r \in Request, RefreshCommit(r)
      PROVE  LET f == session'[r].from
             IN  f \in Inserted' /\ session'[f].revoked /\ session'[f].family = session'[r].family
  BY <1>3, Successor, Kept
<1>4. Inserted' \subseteq Request
  BY DEF Inserted
<1>. QED
  BY <1>1, <1>2, <1>3, <1>4, Kept DEF ReplacedInv

LEMMA Stutters == UNCHANGED vars => UNCHANGED <<Inserted, Live>>
  BY DEF vars, Inserted, Live

(* A refresh goes on to rotate a session it has found live.                *)
LEMMA Decided ==
    ASSUME StageInv, NEW r \in Request, RefreshRead(r), TypeOK
    PROVE  /\ session' = session /\ req' = req /\ Live' = Live
           /\ pc'[r] = "rotating" => req[r].cookies.refresh \in Live
<1>1. pc[r] = "new" /\ session' = session /\ req' = req
  BY DEF RefreshRead, Arrives, NoWrite, DbUnchanged
<1>2. req[r].cookies.refresh # None => req[r].cookies.refresh \in Inserted
  BY <1>1 DEF StageInv
<1>3. pc'[r] = "rotating" => req[r].cookies.refresh # None /\ ~session[req[r].cookies.refresh].revoked
  BY DEF RefreshRead, Goto, TypeOK
<1>. QED
  BY <1>1, <1>2, <1>3 DEF Live, Inserted

(* No rotation under way has had its session replaced.                     *)
LEMMA HeldNext ==
    ASSUME TypeOK, StageInv, MetInv, ReplacedInv, ChainInv, Next, "rotation" \notin met'
    PROVE  \A r \in At({"rotating"})' : ~Replaced(req[r].cookies.refresh)'
<1>1. "rotation" \notin met
  BY MetNext
<1>2. SUFFICES ASSUME NEW r \in Request, pc'[r] = "rotating",
                      NEW x \in Inserted', session'[x].from = req'[r].cookies.refresh
               PROVE  FALSE
  BY DEF At, Replaced
<1> DEFINE t == req[r].cookies.refresh
<1>3. /\ req'[r] = req[r] /\ t \in Inserted /\ t # None
      /\ ~\E s \in Inserted : session[s].from = t
  <2>1. CASE pc[r] = "rotating"
    <3>1. t \in Inserted /\ ~Replaced(t)
      BY <1>1, <2>1 DEF StageInv, ChainInv, At
    <3>. QED
      BY <2>1, <3>1, Moves, NoneAssumption DEF Replaced, Inserted
  <2>2. CASE RefreshRead(r)
    <3>1. t \in Live /\ req' = req
      BY <1>2, <2>2, Decided
    <3>. QED
      BY <3>1, NoneAssumption DEF ReplacedInv, Live, Inserted
  <2>. QED
    BY <1>2, <2>1, <2>2, Moves
<1>4. x \notin Inserted
  BY <1>2, <1>3, Kept
<1>5. CASE LoginCommit(x)
  <2>1. session'[x] = [family |-> x, from |-> None, revoked |-> FALSE]
    BY <1>5, Newcomer DEF Inserted
  <2>2. session'[x].from = None
    BY <2>1
  <2>. QED
    BY <1>2, <1>3, <2>2
<1>6. CASE RefreshCommit(x)
  <2>1. /\ pc[x] = "rotating" /\ session'[x].from = req[x].cookies.refresh
        /\ pc'[x] = "signed" /\ x \in Request /\ session' # session
    BY <1>4, <1>6, Successor DEF Inserted
  <2>2. pc[r] = "rotating"
    BY <1>2, <2>1, Moves, Decided
  <2>. QED
    BY <1>1, <1>2, <1>3, <2>1, <2>2, Races
<1>. QED
  BY <1>4, <1>5, <1>6, Kept

LEMMA ChainNext ==
    ASSUME TypeOK, StageInv, MetInv, ReplacedInv, ChainInv, Next
    PROVE  ChainInv'
<1>. SUFFICES ASSUME "rotation" \notin met' PROVE
        /\ \A r \in At({"rotating"})' : ~Replaced(req[r].cookies.refresh)'
        /\ \A s, t \in Inserted' : session'[s].from = session'[t].from /\ session'[s].from # None => s = t
        /\ \A s, t \in Inserted' :
            session'[s].family = session'[t].family /\ ~Replaced(s)' /\ ~Replaced(t)' => s = t
  BY DEF ChainInv
<1>1. /\ \A r \in At({"rotating"}) : ~Replaced(req[r].cookies.refresh)
      /\ \A s, t \in Inserted : session[s].from = session[t].from /\ session[s].from # None => s = t
      /\ \A s, t \in Inserted :
            session[s].family = session[t].family /\ ~Replaced(s) /\ ~Replaced(t) => s = t
  BY MetNext DEF ChainInv
<1>2. Inserted \subseteq Request /\ \A s \in Inserted : session[s].family \in Inserted
  BY DEF TypeOK, Inserted
<1>3. \A s \in Inserted : ~Replaced(s)' => ~Replaced(s)
  BY Kept DEF Replaced
<1>4. ASSUME NEW r \in Request, LoginCommit(r)
      PROVE  Inserted' = Inserted \cup {r} /\ r \notin Inserted
             /\ session'[r].from = None /\ session'[r].family = r
  <2>1. session'[r] = [family |-> r, from |-> None, revoked |-> FALSE]
    BY <1>4, Newcomer
  <2>. QED
    BY <1>4, <2>1, Newcomer
<1>5. ASSUME NEW r \in Request, RefreshCommit(r)
      PROVE  LET t == req[r].cookies.refresh
             IN  /\ Inserted' = Inserted \cup {r} /\ r \notin Inserted /\ t \in Inserted
                 /\ session'[r].from = t /\ session'[r].family = session[t].family
                 /\ ~Replaced(t) /\ \E x \in Inserted' : session'[x].from = t
  <2>1. r \in At({"rotating"})
    BY <1>5, Successor DEF At
  <2>. QED
    BY <1>1, <1>5, <2>1, Successor DEF Replaced
<1>6. ASSUME NEW s \in Inserted', NEW t \in Inserted',
             session'[s].from = session'[t].from, session'[s].from # None
      PROVE  s = t
  <2>1. CASE s \in Inserted /\ t \in Inserted
    BY <1>1, <1>6, <2>1, Kept
  <2>2. ASSUME NEW r \in Inserted', NEW o \in Inserted', r \notin Inserted, r # o,
               session'[r].from = session'[o].from, session'[r].from # None
        PROVE  FALSE
    <3>1. r \in Request /\ RefreshCommit(r)
      BY <1>4, <2>2, Kept DEF Inserted
    <3>2. o \in Inserted /\ session'[r].from = req[r].cookies.refresh /\ ~Replaced(req[r].cookies.refresh)
      BY <1>5, <2>2, <3>1
    <3>. QED
      BY <2>2, <3>2, Kept DEF Replaced
  <2>. QED
    BY <1>6, <2>1, <2>2
<1>7. ASSUME NEW s \in Inserted', NEW t \in Inserted', session'[s].family = session'[t].family,
             ~Replaced(s)', ~Replaced(t)'
      PROVE  s = t
  <2>1. CASE s \in Inserted /\ t \in Inserted
    BY <1>1, <1>3, <1>7, <2>1, Kept
  <2>2. ASSUME NEW r \in Inserted', NEW o \in Inserted', r \notin Inserted, r # o,
               session'[r].family = session'[o].family, ~Replaced(o)'
        PROVE  FALSE
    <3>1. r \in Request
      BY <2>2 DEF Inserted
    <3>2. CASE LoginCommit(r)
      BY <1>2, <1>4, <2>2, <3>1, <3>2, Kept
    <3>3. CASE RefreshCommit(r)
      <4> DEFINE p == req[r].cookies.refresh
      <4>1. /\ o \in Inserted /\ p \in Inserted /\ session'[r].family = session[p].family
            /\ ~Replaced(p) /\ \E x \in Inserted' : session'[x].from = p
        BY <1>5, <2>2, <3>1, <3>3
      <4>2. session[o].family = session[p].family /\ ~Replaced(o)
        BY <1>3, <2>2, <4>1, Kept
      <4>3. o = p
        BY <1>1, <4>1, <4>2
      <4>. QED
        BY <2>2, <4>1, <4>3 DEF Replaced
    <3>. QED
      BY <2>2, <3>2, <3>3, Kept
  <2>. QED
    BY <1>7, <2>1, <2>2
<1>. QED
  BY <1>6, <1>7, HeldNext

LEMMA RotatingNext ==
    ASSUME TypeOK, StageInv, MetInv, RotatingInv, Next
    PROVE  RotatingInv'
<1>. SUFFICES ASSUME "revocation" \notin met', NEW r \in Request, pc'[r] = "rotating"
              PROVE  \E s \in Live' :
                        session'[s].family = session'[req'[r].cookies.refresh].family
  BY DEF RotatingInv, At
<1>1. "revocation" \notin met
  BY MetNext
<1>2. CASE pc[r] = "rotating"
  <2> DEFINE t == req[r].cookies.refresh
  <2>1. req'[r] = req[r] /\ t \in Inserted
    BY <1>2, Moves DEF StageInv, At
  <2>2. PICK s \in Live : session[s].family = session[t].family
    BY <1>1, <1>2 DEF RotatingInv, At
  <2>3. s \in Request /\ s \in Inserted /\ ~session[s].revoked
    BY DEF Live, Inserted
  <2>4. session'[s].family = session[s].family /\ session'[t].family = session[t].family
        /\ s \in Inserted'
    BY <2>1, <2>3, Kept
  <2>5. CASE session'[s] = session[s]
    BY <2>1, <2>2, <2>3, <2>4, <2>5 DEF Live
  <2>6. ASSUME NEW x \in Request, Revokes(x) PROVE FALSE
    <3>1. pc[x] \in Revoking /\ x # r
      BY <1>2, <2>6, RevokesRevoke DEF Revoking
    <3>. QED
      BY <1>1, <1>2, <3>1, Races
  <2>7. ASSUME NEW x \in Request, LoginCommit(x) PROVE session'[s] = session[s]
    BY <2>3, <2>7, Newcomer
  <2>8. ASSUME NEW x \in Request, RefreshCommit(x), session'[s] # session[s]
        PROVE  x \in Live' /\ session'[x].family = session[s].family
    BY <2>3, <2>8, Successor DEF Live
  <2>. QED
    BY <2>1, <2>2, <2>4, <2>5, <2>6, <2>7, <2>8, Classes
<1>3. CASE RefreshRead(r)
  BY <1>3, Decided
<1>. QED
  BY <1>2, <1>3, Moves

(* The password changes at a reset or a change, which ends every session.  *)
LEMMA PasswordSteps ==
    ASSUME TypeOK, StageInv, [Next]_vars, account'.password # account.password
    PROVE  Live' = {} /\ \E x \in Request : pc[x] \in {"resetting", "changing"}
<1>1. PICK x \in Request : LoginCommit(x) \/ RefreshCommit(x) \/ Revokes(x)
  BY Classes DEF vars
<1>2. ResetCommit(x) \/ ChangeCommit(x)
  BY <1>1, Newcomer DEF RefreshCommit, Revokes, ReuseCommit, LogoutCommit
<1>3. ~LogoutCommit(x) /\ pc[x] \in {"resetting", "changing"}
  BY <1>2 DEF LogoutCommit, ResetCommit, ChangeCommit
<1>. QED
  BY <1>2, <1>3, RevokesRevoke DEF Revokes

LEMMA GrantedNext ==
    ASSUME TypeOK, StageInv, MetInv, GrantedInv, Next
    PROVE  GrantedInv'
<1>. SUFFICES ASSUME "password" \notin met', NEW r \in Request, pc'[r] = "granted"
              PROVE  req'[r].body.password = account'.password
  BY DEF GrantedInv, At
<1>1. "password" \notin met
  BY MetNext
<1>2. CASE pc[r] = "granted"
  <2>1. req'[r] = req[r] /\ req[r].body.password = account.password
    BY <1>1, <1>2, Moves DEF GrantedInv, At
  <2>2. ASSUME NEW x \in Request, pc[x] \in {"resetting", "changing"} PROVE FALSE
    <3>1. x # r
      BY <1>2, <2>2
    <3>. QED
      BY <1>1, <1>2, <2>2, <3>1, Races
  <2>. QED
    BY <2>1, <2>2, PasswordSteps
<1>3. CASE LoginRead(r)
  BY <1>3 DEF LoginRead, Goto, NoWrite, DbUnchanged, TypeOK
<1>. QED
  BY <1>2, <1>3, Moves

LEMMA PasswordNext ==
    ASSUME TypeOK, StageInv, MetInv, RotatingInv, GrantedInv, SessionsMatchPassword, Next
    PROVE  SessionsMatchPassword'
<1>. SUFFICES ASSUME met' \cap {"password", "revocation"} = {}, NEW s \in Live'
              PROVE  req'[session'[s].family].body.password = account'.password
  BY DEF SessionsMatchPassword
<1>1. /\ met \cap {"password", "revocation"} = {}
      /\ \A q \in Live : req[session[q].family].body.password = account.password
  BY MetNext DEF SessionsMatchPassword
<1>2. account'.password = account.password
  BY PasswordSteps
<1>3. \A f \in Inserted : req'[f] = req[f]
  BY Moves DEF StageInv, At, Inserted
<1>4. s \in Inserted' /\ ~session'[s].revoked
  BY DEF Live
<1>5. CASE s \in Inserted
  <2>1. s \in Live /\ session'[s].family = session[s].family /\ session[s].family \in Inserted
    BY <1>4, <1>5, Kept DEF Live, TypeOK
  <2>. QED
    BY <1>1, <1>2, <1>3, <2>1
<1>6. CASE LoginCommit(s) /\ s \notin Inserted
  <2>1. s \in Request
    BY DEF Live, Inserted
  <2>2. session'[s] = [family |-> s, from |-> None, revoked |-> FALSE] /\ req' = req
        /\ pc[s] = "granted"
    BY <1>6, <2>1, Newcomer
  <2>3. session'[s].family = s
    BY <2>2
  <2>. QED
    BY <1>1, <1>2, <2>1, <2>2, <2>3 DEF GrantedInv, At
<1>7. CASE RefreshCommit(s) /\ s \notin Inserted
  <2> DEFINE t == req[s].cookies.refresh
  <2>1. s \in Request
    BY DEF Live, Inserted
  <2>2. session'[s].family = session[t].family /\ req' = req /\ pc[s] = "rotating"
    BY <1>7, <2>1, Successor
  <2>3. PICK q \in Live : session[q].family = session[t].family
    BY <1>1, <2>1, <2>2 DEF RotatingInv, At
  <2>. QED
    BY <1>1, <1>2, <2>2, <2>3
<1>. QED
  BY <1>4, <1>5, <1>6, <1>7, Kept

(* One unused reset token.                                                 *)
LEMMA TokenNext ==
    ASSUME TypeOK, StageInv, MetInv, TokenInv, Next
    PROVE  TokenInv'
<1>. SUFFICES ASSUME "token" \notin met'
              PROVE  /\ \A t, u \in Unused' : t = u
                     /\ \A r \in At({"issuing"})' : Unused' \subseteq scanned'[r]
                     /\ \A r \in At({"resetting"})' : Unused' \subseteq {req'[r].body.token}
  BY DEF TokenInv
<1>1. /\ "token" \notin met
      /\ \A t, u \in Unused : t = u
      /\ \A r \in At({"issuing"}) : Unused \subseteq scanned[r]
      /\ \A r \in At({"resetting"}) : Unused \subseteq {req[r].body.token}
  BY MetNext DEF TokenInv
<1>2. ASSUME NEW x \in Request, ForgotCommit(x)
      PROVE  Unused' \subseteq {x} /\ pc[x] = "issuing" /\ pc'[x] = "done"
  BY <1>1, <1>2 DEF ForgotCommit, Unused, At, Goto, TypeOK
<1>3. ASSUME NEW x \in Request, ResetCommit(x)
      PROVE  Unused' = {} /\ pc[x] = "resetting"
  <2>1. Unused \subseteq {req[x].body.token} /\ pc[x] = "resetting"
    BY <1>1, <1>3 DEF ResetCommit, At
  <2>2. token' = [token EXCEPT ![req[x].body.token] = "used"]
    BY <1>3 DEF ResetCommit
  <2>. QED
    BY <2>1, <2>2 DEF Unused, TypeOK
<1>4. CASE token' = token
  <2>1. Unused' = Unused
    BY <1>4 DEF Unused
  <2>2. ASSUME NEW r \in Request, pc'[r] = "issuing" PROVE Unused \subseteq scanned'[r]
    <3>1. CASE pc[r] = "issuing"
      <4>1. \A x \in Request : ForgotScan(x) => x # r
        BY <3>1 DEF ForgotScan, Arrives
      <4>2. scanned'[r] = scanned[r]
        BY <4>1 DEF Next, Step, Handle, DbUnchanged, NoWrite, Wrote, LoginRead, LoginCommit,
           FailedLoginRead, FailedLoginCommit, RefreshRead, ReuseCommit, RefreshCommit, LogoutRead,
           LogoutCommit, ForgotScan, ForgotCommit, ResetRead, ResetCommit, ChangeAdmit, ChangeRead,
           ChangeCommit, Deliver, LoseAnswer, Lapse, Send, AccessLapses, LockLapses, TypeOK
      <4>. QED
        BY <1>1, <3>1, <4>2 DEF At
    <3>2. CASE ForgotScan(r)
      BY <3>2 DEF ForgotScan, Unused, TypeOK
    <3>. QED
      BY <2>2, <3>1, <3>2, Moves
  <2>3. ASSUME NEW r \in Request, pc'[r] = "resetting" PROVE Unused \subseteq {req'[r].body.token}
    <3>1. CASE pc[r] = "resetting"
      BY <1>1, <3>1, Moves DEF At
    <3>2. CASE ResetRead(r)
      <4>1. token[req[r].body.token] = "unused" /\ req' = req /\ KindOf(r) = "reset" /\ pc[r] = "new"
        BY <2>3, <3>2 DEF ResetRead, Arrives, Goto, NoWrite, TypeOK
      <4>2. req[r].body.token \in Request
        <5>1. req[r] \in Sent
          BY <4>1 DEF StageInv, TypeOK
        <5>. QED
          BY <4>1, <5>1, DtoTypes DEF Sent, KindOf
      <4>. QED
        BY <1>1, <4>1, <4>2 DEF Unused
    <3>. QED
      BY <2>3, <3>1, <3>2, Moves
  <2>. QED
    BY <1>1, <2>1, <2>2, <2>3 DEF At
<1>5. ASSUME NEW x \in Request, ForgotCommit(x) \/ ResetCommit(x),
             NEW r \in Request, pc'[r] \in {"issuing", "resetting"}
      PROVE  FALSE
  <2>1. x # r /\ pc[x] \in {"issuing", "resetting"}
    BY <1>5 DEF ForgotCommit, ResetCommit, Goto, TypeOK
  <2>2. pc[r] = pc'[r]
    BY <1>5, <2>1 DEF ForgotCommit, ResetCommit, Goto, TypeOK
  <2>. QED
    BY <1>1, <1>5, <2>1, <2>2, Races
<1>6. \/ token' = token \/ \E x \in Request : ForgotCommit(x) \/ ResetCommit(x)
  BY DEF Next, Step, Handle, DbUnchanged, NoWrite, LoginRead, LoginCommit,
     FailedLoginRead, FailedLoginCommit, RefreshRead, ReuseCommit, RefreshCommit, LogoutRead,
     LogoutCommit, ForgotScan, ResetRead, ChangeAdmit, ChangeRead,
     ChangeCommit, Deliver, LoseAnswer, Lapse, Send, AccessLapses, LockLapses
<1>. QED
  BY <1>2, <1>3, <1>4, <1>5, <1>6 DEF At

(* What a step does to the count and the lock.                             *)
LEMMA Counts ==
    ASSUME TypeOK, Next
    PROVE  \/ account'.failed = account.failed /\ account'.locked = account.locked
           \/ /\ account'.failed = 0 /\ ~account'.locked
              /\ \E x \in Request : LoginCommit(x) \/ ResetCommit(x)
           \/ LockLapses /\ account'.failed = account.failed /\ ~account'.locked
           \/ \E x \in Request : FailedLoginCommit(x)
<1>1. ASSUME NEW x \in Request, LoginCommit(x) PROVE account'.failed = 0 /\ ~account'.locked
  BY <1>1 DEF LoginCommit, TypeOK
<1>2. ASSUME NEW x \in Request, ResetCommit(x) PROVE account'.failed = 0 /\ ~account'.locked
  <2>1. account' = [password |-> req[x].body.password, failed |-> 0, locked |-> FALSE]
    BY <1>2 DEF ResetCommit
  <2>. QED
    BY <2>1
<1>3. ASSUME LockLapses PROVE account'.failed = account.failed /\ ~account'.locked
  BY <1>3 DEF LockLapses, TypeOK
<1>4. ASSUME NEW x \in Request, ChangeCommit(x)
      PROVE  account'.failed = account.failed /\ account'.locked = account.locked
  BY <1>4 DEF ChangeCommit, TypeOK
<1>5. \/ account' = account
      \/ LockLapses
      \/ \E x \in Request :
            LoginCommit(x) \/ ResetCommit(x) \/ ChangeCommit(x) \/ FailedLoginCommit(x)
  BY DEF Next, Step, Handle, DbUnchanged, NoWrite, Wrote, LoginRead, FailedLoginRead, RefreshRead,
     ReuseCommit, RefreshCommit, LogoutRead, LogoutCommit, ForgotScan, ForgotCommit, ResetRead,
     ChangeAdmit, ChangeRead, Deliver, LoseAnswer, Lapse, Send, AccessLapses
<1>. QED
  BY <1>1, <1>2, <1>3, <1>4, <1>5

LEMMA Locks ==
    ASSUME TypeOK, NEW x \in Request, FailedLoginCommit(x)
    PROVE  /\ pc[x] = "counting" /\ pc'[x] = "missed" /\ req' = req /\ attempts' = attempts
           /\ \A q \in Request \ {x} : pc'[q] = pc[q]
           /\ \/ attempts[x] + 1 >= MaxAttempts /\ account'.failed = 0 /\ account'.locked
              \/ account'.failed = attempts[x] + 1 /\ account'.locked = account.locked
<1>1. /\ pc[x] = "counting" /\ pc'[x] = "missed" /\ req' = req /\ attempts' = attempts
      /\ \A q \in Request \ {x} : pc'[q] = pc[q]
  BY DEF FailedLoginCommit, Goto, Wrote, TypeOK
<1>2. CASE attempts[x] + 1 >= MaxAttempts
  <2>1. account' = [account EXCEPT !.failed = 0, !.locked = TRUE]
    BY <1>2 DEF FailedLoginCommit
  <2>2. account'.failed = 0 /\ account'.locked
    BY <2>1 DEF TypeOK
  <2>. QED
    BY <1>1, <1>2, <2>2
<1>3. CASE ~(attempts[x] + 1 >= MaxAttempts)
  <2>1. account' = [account EXCEPT !.failed = attempts[x] + 1]
    BY <1>3 DEF FailedLoginCommit
  <2>2. account'.failed = attempts[x] + 1 /\ account'.locked = account.locked
    BY <2>1 DEF TypeOK
  <2>. QED
    BY <1>1, <2>2
<1>. QED
  BY <1>2, <1>3

LEMMA LockNext ==
    ASSUME TypeOK, StageInv, MetInv, LockInv, Next
    PROVE  LockInv'
<1>. SUFFICES ASSUME "attempt" \notin met', account'.locked, NEW r \in Request, pc'[r] = "granted"
              PROVE  FALSE
  BY DEF LockInv, At
<1>1. "attempt" \notin met
  BY MetNext
<1>2. CASE pc[r] = "granted"
  <2>1. ~account.locked
    BY <1>1, <1>2 DEF LockInv, At
  <2>2. PICK x \in Request : FailedLoginCommit(x)
    BY <2>1, Counts
  <2>3. pc[x] = "counting" /\ x # r
    BY <1>2, <2>2, Locks
  <2>. QED
    BY <1>1, <1>2, <2>3, Races
<1>3. CASE LoginRead(r)
  BY <1>3 DEF LoginRead, Goto, NoWrite, DbUnchanged, TypeOK
<1>. QED
  BY <1>2, <1>3, Moves

(* The logins that have failed: a failed attempt adds its own.             *)
LEMMA MissedStep ==
    ASSUME TypeOK, StageInv, CountInv, Next
    PROVE  /\ Missed \subseteq Missed' /\ IsFiniteSet(Missed')
           /\ Cardinality(Missed) \in Nat /\ Cardinality(Missed') \in Nat
           /\ Cardinality(Missed) <= Cardinality(Missed')
           /\ \A x \in Request : FailedLoginCommit(x) => Cardinality(Missed') = Cardinality(Missed) + 1
<1>1. \A q \in Missed : q \in Request /\ pc[q] = "missed" /\ KindOf(q) = "login"
  BY DEF Missed, At
<1>2. ASSUME NEW x \in Request, Handle(x) \/ LoseAnswer(x)
      PROVE  /\ req' = req /\ pc[x] # "missed"
             /\ \A q \in Request \ {x} : pc'[q] = pc[q]
             /\ pc'[x] = "missed" => FailedLoginCommit(x)
  BY <1>2 DEF Handle, Arrives, LoginRead, LoginCommit, FailedLoginRead, FailedLoginCommit,
     RefreshRead, ReuseCommit, RefreshCommit, LogoutRead, LogoutCommit, ForgotScan, ForgotCommit,
     ResetRead, ResetCommit, ChangeAdmit, ChangeRead, ChangeCommit, Deliver, LoseAnswer, TypeOK,
     Goto, NoWrite, Wrote
<1>3. ASSUME NEW x \in Request, FailedLoginCommit(x) PROVE Missed' = Missed \cup {x} /\ x \notin Missed
  <2>1. KindOf(x) = "login" /\ pc[x] = "counting" /\ pc'[x] = "missed" /\ req' = req
    BY <1>3, Locks DEF StageInv, At
  <2>. QED
    BY <1>1, <1>3, <2>1, Locks DEF Missed, At, KindOf
<1>4. ASSUME \A x \in Request : ~FailedLoginCommit(x) PROVE Missed' = Missed
  <2>1. \A q \in Request : pc'[q] = "missed" <=> pc[q] = "missed"
    <3>1. ASSUME NEW x \in Request, NEW b \in Browser, Send(x, b)
          PROVE  /\ pc[x] = "idle" /\ pc'[x] = "new"
                 /\ \A q \in Request \ {x} : pc'[q] = pc[q]
      BY <3>1 DEF Send, Goto, TypeOK
    <3>2. ASSUME \/ \E x \in Request : Lapse(x)
                 \/ \E b \in Browser : AccessLapses(b)
                 \/ LockLapses
          PROVE  pc' = pc
      BY <3>2 DEF Lapse, AccessLapses, LockLapses
    <3>3. ASSUME NEW x \in Request, Handle(x) \/ LoseAnswer(x)
          PROVE  \A q \in Request : pc'[q] = "missed" <=> pc[q] = "missed"
      BY <1>2, <1>4, <3>3
    <3>4. ASSUME NEW x \in Request, NEW b \in Browser, Send(x, b)
          PROVE  \A q \in Request : pc'[q] = "missed" <=> pc[q] = "missed"
      BY <3>1, <3>4
    <3>. QED
      BY <3>2, <3>3, <3>4 DEF Next, Step
  <2>2. \A q \in Request : pc[q] = "missed" => req'[q] = req[q]
    BY Moves
  <2>. QED
    BY <2>1, <2>2 DEF Missed, At, KindOf
<1>5. CASE \A x \in Request : ~FailedLoginCommit(x)
  BY <1>4, <1>5, FS_CardinalityType DEF CountInv
<1>6. ASSUME NEW x \in Request, FailedLoginCommit(x)
      PROVE  /\ Missed \subseteq Missed' /\ IsFiniteSet(Missed')
             /\ Cardinality(Missed) \in Nat /\ Cardinality(Missed') = Cardinality(Missed) + 1
  BY <1>3, <1>6, FS_CardinalityType, FS_AddElement DEF CountInv
<1>. QED
  BY <1>5, <1>6

LEMMA CountNext ==
    ASSUME TypeOK, StageInv, CountInv, LockEarned, Next
    PROVE  CountInv' /\ LockEarned'
<1>1. /\ Cardinality(Missed) \in Nat /\ Cardinality(Missed') \in Nat
      /\ Cardinality(Missed) <= Cardinality(Missed')
      /\ MaxAttempts \in Nat /\ account.failed \in Nat /\ \A r \in Request : attempts[r] \in Nat
  BY MissedStep, AttemptsAssumption DEF TypeOK
<1>2. CountInv'
  <2>. SUFFICES ASSUME NEW r \in Request, pc'[r] = "counting"
                PROVE  attempts'[r] <= Cardinality(Missed')
    BY MissedStep DEF CountInv, At
  <2>1. CASE pc[r] = "counting"
    <3>1. \A x \in Request : FailedLoginRead(x) => x # r
      BY <2>1 DEF FailedLoginRead
    <3>2. attempts'[r] = attempts[r]
      BY <3>1 DEF Next, Step, Handle, DbUnchanged, NoWrite, Wrote, LoginRead, LoginCommit,
         FailedLoginRead, FailedLoginCommit, RefreshRead, ReuseCommit, RefreshCommit, LogoutRead,
         LogoutCommit, ForgotScan, ForgotCommit, ResetRead, ResetCommit, ChangeAdmit, ChangeRead,
         ChangeCommit, Deliver, LoseAnswer, Lapse, Send, AccessLapses, LockLapses, TypeOK
    <3>3. attempts[r] <= Cardinality(Missed)
      BY <2>1 DEF CountInv, At
    <3>. QED
      BY <1>1, <3>2, <3>3
  <2>2. CASE FailedLoginRead(r)
    <3>1. attempts'[r] = account.failed
      BY <2>2 DEF FailedLoginRead, TypeOK
    <3>. QED
      BY <1>1, <3>1 DEF LockEarned
  <2>. QED
    BY <2>1, <2>2, Moves
<1>3. LockEarned'
  <2>1. account.failed <= Cardinality(Missed) /\ (account.locked => Cardinality(Missed) >= MaxAttempts)
    BY DEF LockEarned
  <2>2. ASSUME NEW x \in Request, FailedLoginCommit(x)
        PROVE  /\ account'.failed <= Cardinality(Missed')
               /\ account'.locked => Cardinality(Missed') >= MaxAttempts
    <3>1. attempts[x] <= Cardinality(Missed) /\ Cardinality(Missed') = Cardinality(Missed) + 1
      BY <2>2, MissedStep, Locks DEF CountInv, At
    <3>2. attempts[x] \in Nat
      BY <1>1
    <3>3. CASE attempts[x] + 1 >= MaxAttempts /\ account'.failed = 0 /\ account'.locked
      BY <1>1, <3>1, <3>2, <3>3
    <3>4. CASE account'.failed = attempts[x] + 1 /\ account'.locked = account.locked
      BY <1>1, <2>1, <3>1, <3>2, <3>4
    <3>. QED
      BY <2>2, <3>3, <3>4, Locks
  <2>. QED
    BY <1>1, <2>1, <2>2, Counts DEF LockEarned
<1>. QED
  BY <1>2, <1>3

-----------------------------------------------------------------------------
(* The cookies of the browsers.                                            *)

(* An answer is delivered or lost once, and cookies come from an answer.   *)
LEMMA CookieSteps ==
    ASSUME TypeOK, StageInv, Next
    PROVE  /\ \A q \in Request :
                /\ pc[q] = "done" => pc'[q] = "done" /\ req'[q] = req[q]
                /\ pc[q] = "signed" => pc'[q] = "signed" \/ Deliver(q) \/ LoseAnswer(q)
                /\ req'[q] = req[q] \/ \E b \in Browser :
                      req'[q].by = b /\ req'[q].cookies = jar[b]
           /\ \A b \in Browser :
                \/ jar'[b].refresh \in {jar[b].refresh, None}
                \/ /\ jar'[b].refresh \in At({"signed"}) /\ req[jar'[b].refresh].by = b
                   /\ pc'[jar'[b].refresh] = "done" /\ req' = req
           /\ \A q \in Request : Deliver(q) /\ pc[q] = "signed" => jar'[req[q].by].refresh = q
<1>. USE DEF DbUnchanged, NoWrite, Wrote, Goto
<1>1. ASSUME NEW r \in Request, Handle(r) \/ LoseAnswer(r), ~Deliver(r)
      PROVE  /\ UNCHANGED <<jar, req>> /\ pc[r] # "done"
             /\ \A q \in Request \ {r} : pc'[q] = pc[q]
             /\ pc[r] = "signed" => LoseAnswer(r)
  BY <1>1 DEF Handle, Arrives, LoginRead, LoginCommit, FailedLoginRead, FailedLoginCommit,
     RefreshRead, ReuseCommit, RefreshCommit, LogoutRead, LogoutCommit, ForgotScan, ForgotCommit,
     ResetRead, ResetCommit, ChangeAdmit, ChangeRead, ChangeCommit, LoseAnswer, TypeOK
<1>2. ASSUME NEW r \in Request, Deliver(r)
      PROVE  /\ UNCHANGED req /\ pc[r] \in {"signed", "cleared"} /\ pc'[r] = "done"
             /\ \A q \in Request \ {r} : pc'[q] = pc[q]
             /\ \A b \in Browser \ {req[r].by} : jar'[b] = jar[b]
             /\ jar'[req[r].by].refresh = IF pc[r] = "signed" THEN r ELSE None
  <2>1. req[r].by \in Browser
    BY <1>2 DEF Deliver, StageInv, TypeOK, Sent
  <2>. QED
    BY <1>2, <2>1 DEF Deliver, TypeOK
<1>3. ASSUME NEW r \in Request, NEW b \in Browser, Send(r, b)
      PROVE  /\ pc[r] = "idle" /\ UNCHANGED jar
             /\ req'[r].by = b /\ req'[r].cookies = jar[b]
             /\ \A q \in Request \ {r} : pc'[q] = pc[q] /\ req'[q] = req[q]
  <2>1. PICK body \in Body :
          req' = [req EXCEPT ![r] = [body |-> body, by |-> b, cookies |-> jar[b]]]
    BY <1>3 DEF Send
  <2>2. req'[r] = [body |-> body, by |-> b, cookies |-> jar[b]]
        /\ \A q \in Request \ {r} : req'[q] = req[q]
    BY <2>1 DEF TypeOK
  <2>. QED
    BY <1>3, <2>2 DEF Send, TypeOK
<1>4. ASSUME NEW b \in Browser, AccessLapses(b)
      PROVE  UNCHANGED <<pc, req>> /\ \A c \in Browser : jar'[c].refresh = jar[c].refresh
  <2>1. jar' = [jar EXCEPT ![b] = [jar[b] EXCEPT !.access = None]] /\ jar[b] \in Cookies
    BY <1>4 DEF AccessLapses, TypeOK
  <2>2. \A c \in Browser : jar'[c].refresh = jar[c].refresh
    BY <2>1 DEF TypeOK, Cookies
  <2>. QED
    BY <1>4, <2>2 DEF AccessLapses
<1>5. ASSUME LockLapses \/ \E r \in Request : Lapse(r) PROVE UNCHANGED <<pc, req, jar>>
  BY <1>5 DEF LockLapses, Lapse
<1>6. \A q \in Request : Deliver(q) => pc'[q] = "done"
  BY <1>2
<1>. QED
  BY <1>1, <1>2, <1>3, <1>4, <1>5 DEF Next, Step, Handle, At

LEMMA HolderNext ==
    ASSUME TypeOK, StageInv, HolderInv, Next
    PROVE  HolderInv'
<1>1. ASSUME NEW b, NEW t \in Inserted \cup {None}, Holds(b, t) PROVE Holds(b, t)'
  BY <1>1, CookieSteps DEF Holds, Inserted
<1>2. \A b \in Browser : jar[b].refresh \in Inserted \cup {None} /\ Holds(b, jar[b].refresh)
  BY DEF TypeOK, HolderInv
<1>3. ASSUME NEW b \in Browser PROVE Holds(b, jar[b].refresh)'
  <2>1. CASE jar'[b].refresh \in {jar[b].refresh, None}
    <3>1. jar'[b].refresh \in Inserted \cup {None} /\ Holds(b, jar'[b].refresh)
      BY <1>2, <2>1 DEF Holds
    <3>. QED
      BY <3>1, <1>1 DEF Holds
  <2>2. CASE /\ req[jar'[b].refresh].by = b
             /\ pc'[jar'[b].refresh] = "done" /\ req' = req
    BY <2>2 DEF Holds
  <2>. QED
    BY <2>1, <2>2, CookieSteps
<1>4. ASSUME NEW r \in Request, req'[r] # None PROVE Holds(req[r].by, req[r].cookies.refresh)'
  <2>1. CASE req'[r] = req[r]
    <3>1. /\ req[r].cookies.refresh \in Inserted \cup {None}
          /\ Holds(req[r].by, req[r].cookies.refresh)
      BY <1>4, <2>1 DEF StageInv, HolderInv
    <3>. QED
      BY <1>1, <2>1, <3>1 DEF Holds
  <2>2. ASSUME NEW b \in Browser, req'[r].by = b, req'[r].cookies = jar[b]
        PROVE  Holds(req[r].by, req[r].cookies.refresh)'
    <3>1. PICK t \in Inserted \cup {None} : t = jar[b].refresh /\ Holds(b, t)
      BY <1>2
    <3>2. Holds(b, t)'
      BY <1>1, <3>1
    <3>. QED
      BY <2>2, <3>1, <3>2 DEF Holds
  <2>. QED
    BY <2>1, <2>2, CookieSteps
<1>. QED
  BY <1>3, <1>4 DEF HolderInv

(* Only a session that is there is replaced, by a rotation that brought it.*)
LEMMA ReplacedBy ==
    ASSUME TypeOK, StageInv, ReplacedInv, Next, NEW s \in Request, Replaced(s)'
    PROVE  /\ s \in Inserted
           /\ \/ Replaced(s)
              \/ \E q \in Request : RefreshCommit(q) /\ s = req[q].cookies.refresh
<1>1. PICK x \in Inserted' : session'[x].from = s
  BY DEF Replaced
<1>2. x \in Request /\ s # None
  BY NoneAssumption DEF Inserted
<1>3. CASE x \in Inserted
  <2>1. session[x].from = s
    BY <1>1, <1>3, Kept
  <2>. QED
    BY <1>2, <1>3, <2>1 DEF Replaced, ReplacedInv
<1>4. CASE LoginCommit(x)
  <2>1. session'[x] = [family |-> x, from |-> None, revoked |-> FALSE]
    BY <1>2, <1>4, Newcomer
  <2>2. session'[x].from = None
    BY <2>1
  <2>. QED
    BY <1>1, <1>2, <2>2
<1>5. CASE RefreshCommit(x)
  <2>1. session'[x].from = req[x].cookies.refresh /\ req[x].cookies.refresh \in Inserted
    BY <1>2, <1>5, Successor
  <2>. QED
    BY <1>1, <1>2, <1>5, <2>1
<1>. QED
  BY <1>3, <1>4, <1>5, Kept

LEMMA JarNext ==
    ASSUME TypeOK, StageInv, MetInv, ReplacedInv, HolderInv, JarInv, Next
    PROVE  JarInv'
<1>. SUFFICES ASSUME "answer" \notin met'
              PROVE  /\ \A r \in At({"signed"})' : ~Replaced(r)'
                     /\ \A b \in Browser :
                           jar'[b].refresh # None /\ Replaced(jar[b].refresh)' =>
                               \E r \in At({"signed"})' : req'[r].by = b
  BY DEF JarInv
<1>1. /\ \A r \in Request : pc[r] = "signed" => ~Replaced(r)
      /\ \A b \in Browser : jar[b].refresh # None /\ Replaced(jar[b].refresh) =>
            \E r \in Request : pc[r] = "signed" /\ req[r].by = b
  BY MetNext DEF JarInv, At
<1>2. \A r \in Request : ~LoseAnswer(r)
  BY DEF Next, Lost
<1>3. ASSUME NEW q \in Request, RefreshCommit(q), NEW s, s = req[q].cookies.refresh
      PROVE  /\ s \in Request /\ pc[s] = "done" /\ req[s].by = req[q].by
             /\ pc'[q] = "signed" /\ req' = req
  <2>1. s \in Inserted /\ pc[q] = "rotating" /\ pc'[q] = "signed" /\ req' = req
    BY <1>3, Successor
  <2>2. s # None /\ s \in Request /\ req[q] # None
    BY <2>1, NoneAssumption DEF Inserted, StageInv
  <2>. QED
    BY <1>3, <2>1, <2>2 DEF HolderInv, Holds
<1>4. ASSUME NEW r \in Request, pc'[r] = "signed" PROVE ~Replaced(r)'
  <2>. SUFFICES ASSUME Replaced(r)' PROVE FALSE
    OBVIOUS
  <2>1. r \in Inserted /\ pc[r] \in {"signed", "done"}
    BY ReplacedBy DEF StageInv
  <2>2. pc[r] = "signed"
    BY <1>4, <2>1, CookieSteps
  <2>. QED
    BY <1>1, <1>3, <2>2, ReplacedBy
<1>5. ASSUME NEW b \in Browser, jar'[b].refresh # None, NEW t, t = jar'[b].refresh, Replaced(t)'
      PROVE  \E r \in Request : pc'[r] = "signed" /\ req'[r].by = b
  <2>0. t \in Request
    BY <1>5, TypeNext DEF TypeOK, Inserted
  <2>1. CASE t = jar[b].refresh
    <3>1. pc[t] = "done" /\ req[t].by = b
      BY <1>5, <2>1 DEF HolderInv, Holds
    <3>2. CASE Replaced(t)
      <4>1. PICK r \in Request : pc[r] = "signed" /\ req[r].by = b
        BY <1>1, <1>5, <2>1, <3>2
      <4>2. ~Deliver(r)
        BY <1>5, <3>1, <4>1, CookieSteps
      <4>3. pc'[r] = "signed"
        BY <1>2, <4>1, <4>2, CookieSteps
      <4>4. req'[r] = req[r]
        BY <4>1, Moves
      <4>. QED
        BY <4>1, <4>3, <4>4
    <3>3. ASSUME NEW q \in Request, RefreshCommit(q), t = req[q].cookies.refresh
          PROVE  pc'[q] = "signed" /\ req'[q].by = b
      BY <1>3, <3>1, <3>3
    <3>. QED
      BY <1>5, <2>0, <3>2, <3>3, ReplacedBy
  <2>2. CASE pc[t] = "signed"
    BY <1>1, <1>3, <1>5, <2>0, <2>2, ReplacedBy
  <2>. QED
    BY <1>5, <2>1, <2>2, CookieSteps DEF At
<1>. QED
  BY <1>4, <1>5 DEF At

-----------------------------------------------------------------------------
LEMMA InvInit == Init => IInv
<1>. SUFFICES ASSUME Init PROVE IInv
  OBVIOUS
<1>1. TypeOK /\ StageInv /\ Inserted = {} /\ Live = {}
  BY TypeInit DEF Init, Inserted, Live
<1>2. \A stages : "idle" \notin stages => At(stages) = {}
  BY DEF Init, At
<1>3. Conflicts = {}
  <2>1. \A k \in DOMAIN Racing : "idle" \notin Racing[k][1]
    BY DEF Racing, Revoking
  <2>. QED
    BY <1>2, <2>1 DEF Conflicts
<1>4. Missed = {} /\ IsFiniteSet(Missed) /\ Cardinality(Missed) = 0
  <2>1. Missed = {}
    BY <1>2 DEF Missed
  <2>. QED
    BY <2>1, FS_EmptySet
<1>5. account.failed = 0 /\ ~account.locked /\ Unused = {}
  BY DEF Init, Unused
<1>6. HolderInv /\ \A b \in Browser : jar[b].refresh = None
  BY DEF Init, HolderInv, Holds
<1>. QED
  BY <1>1, <1>2, <1>3, <1>4, <1>5, <1>6
  DEF IInv, MetInv, ReplacedInv, ChainInv, RotatingInv, GrantedInv, SessionsMatchPassword,
      TokenInv, LockInv, CountInv, LockEarned, JarInv

LEMMA InvNext == IInv /\ [Next]_vars => IInv'
<1>. SUFFICES ASSUME IInv, [Next]_vars PROVE IInv'
  OBVIOUS
<1>1. TypeOK' /\ StageInv' /\ MetInv' /\ ReplacedInv'
  BY TypeNext, MetNext, ReplacedNext DEF IInv
<1>2. CASE Next
  BY <1>1, <1>2, ChainNext, RotatingNext, GrantedNext, PasswordNext, TokenNext, LockNext, CountNext,
     HolderNext, JarNext
  DEF IInv
<1>3. CASE UNCHANGED vars
  BY <1>1, <1>3
  DEF vars, IInv, ChainInv, RotatingInv, GrantedInv, SessionsMatchPassword, TokenInv, LockInv,
      CountInv, LockEarned, HolderInv, Holds, JarInv,
      Replaced, Inserted, Live, At, KindOf, Unused, Missed
<1>. QED
  BY <1>2, <1>3

(* The invariant the other theorems rest on.                               *)
THEOREM InductiveInvariant == Spec => []IInv
  BY InvInit, InvNext, PTL DEF Spec

(* AuthService: every session and every cookie goes back to a login.       *)
THEOREM TypeCorrect == Spec => []TypeOK
<1>1. IInv => TypeOK
  BY DEF IInv
<1>. QED
  BY <1>1, InductiveInvariant, PTL

(* AuthService.refresh: a session is rotated into one successor and a      *)
(* login has one live refresh token, unless two refreshes of one token     *)
(* overlap.                                                                *)
THEOREM OneTokenLives == Spec => []OneLiveToken
<1>1. IInv => OneLiveToken
  <2>. SUFFICES ASSUME IInv, "rotation" \notin met, NEW s \in Inserted, NEW t \in Inserted, s # t
                PROVE  /\ session[s].from = session[t].from => session[s].from = None
                       /\ s \in Live /\ t \in Live => session[s].family # session[t].family
    BY DEF OneLiveToken
  <2>1. \A q \in Live : ~Replaced(q)
    BY NoneAssumption DEF IInv, ReplacedInv, Replaced, Live, Inserted
  <2>. QED
    BY <2>1 DEF IInv, ChainInv
<1>. QED
  BY <1>1, InductiveInvariant, PTL

(* refresh and the cookies of its answer: a browser that gets every answer *)
(* is not left with a rotated token of a login that goes on, unless two    *)
(* refreshes of one token overlap.                                         *)
THEOREM JarsCurrent == Spec => []JarCurrent
<1>1. IInv => JarCurrent
  <2>. SUFFICES ASSUME IInv, met \cap {"answer", "rotation"} = {}, NEW b \in Browser,
                       NEW t, t = jar[b].refresh, t # None,
                       \A r \in At({"signed"}) : req[r].by # b,
                       t \notin Live
                PROVE  Ended(session[t].family)
    BY DEF JarCurrent
  <2>1. t \in Inserted /\ session[t].family \in Inserted
    BY DEF IInv, TypeOK
  <2>2. ~Replaced(t)
    BY DEF IInv, JarInv
  <2>3. \A q \in Live : ~Replaced(q) /\ q \in Inserted
    BY NoneAssumption DEF IInv, ReplacedInv, Replaced, Live, Inserted
  <2>4. \A q \in Live : session[q].family # session[t].family
    BY <2>1, <2>2, <2>3 DEF IInv, ChainInv
  <2>. QED
    BY <2>1, <2>4 DEF Ended
<1>. QED
  BY <1>1, InductiveInvariant, PTL

(* resetPassword and changePassword: no live session is of a login with an *)
(* earlier password, unless a login or a rotation overlaps the change.     *)
THEOREM PasswordsMatch == Spec => []SessionsMatchPassword
<1>1. IInv => SessionsMatchPassword
  BY DEF IInv
<1>. QED
  BY <1>1, InductiveInvariant, PTL

(* registerFailedLogin: it takes MaxAttempts failed logins to lock.        *)
THEOREM LocksEarned == Spec => []LockEarned
<1>1. IInv => LockEarned
  BY DEF IInv
<1>. QED
  BY <1>1, InductiveInvariant, PTL

(* refresh, logout, resetPassword, changePassword: a login that is left    *)
(* without a live session never has one again, unless a rotation overlaps  *)
(* the step that ended it.                                                 *)
THEOREM EndsForGood == Spec => EndedForGood
<1> DEFINE A == \A f \in Request : Ended(f) /\ "revocation" \notin met' => Ended(f)'
<1>1. IInv /\ [Next]_vars => [A]_vars
  <2>. SUFFICES ASSUME IInv, Next, NEW f \in Request, Ended(f), "revocation" \notin met',
                       NEW s \in Live', session'[s].family = f
                PROVE  FALSE
    BY Kept DEF IInv, Ended
  <2>1. TypeOK /\ StageInv /\ MetInv /\ RotatingInv /\ "revocation" \notin met
    BY MetNext DEF IInv
  <2>2. s \in Request /\ s \in Inserted' /\ ~session'[s].revoked
    BY DEF Live, Inserted
  <2>3. f \in Inserted /\ \A q \in Live : session[q].family # f
    BY DEF Ended
  <2>4. CASE s \in Inserted
    BY <2>1, <2>2, <2>3, <2>4, Kept DEF Live
  <2>5. CASE LoginCommit(s) /\ s \notin Inserted
    <3>1. session'[s] = [family |-> s, from |-> None, revoked |-> FALSE]
      BY <2>1, <2>2, <2>5, Newcomer
    <3>2. session'[s].family = s
      BY <3>1
    <3>. QED
      BY <2>3, <2>5, <3>2
  <2>6. CASE RefreshCommit(s) /\ s \notin Inserted
    <3>1. session'[s].family = session[req[s].cookies.refresh].family /\ pc[s] = "rotating"
      BY <2>1, <2>2, <2>6, Successor
    <3>. QED
      BY <2>1, <2>2, <2>3, <3>1 DEF RotatingInv, At
  <2>. QED
    BY <2>1, <2>2, <2>4, <2>5, <2>6, Kept
<1>. QED
  BY <1>1, InductiveInvariant, PTL DEF Spec, EndedForGood

(* resetPassword: the token it uses was the only one left, unless two uses *)
(* or issues of reset tokens overlap.                                      *)
THEOREM ResetsLast == Spec => ResetsOnce
<1> DEFINE A == \A r \in Request :
        pc[r] = "resetting" /\ pc'[r] # "resetting" /\ "token" \notin met' =>
            \A t \in Request : token'[t] # "unused"
<1>1. IInv /\ [Next]_vars => [A]_vars
  <2>. SUFFICES ASSUME IInv, Next, NEW r \in Request, pc[r] = "resetting", pc'[r] # "resetting",
                       "token" \notin met', NEW t \in Request
                PROVE  token'[t] # "unused"
    OBVIOUS
  <2>1. TypeOK /\ "token" \notin met /\ Unused \subseteq {req[r].body.token}
    BY MetNext DEF IInv, TokenInv, At
  <2>2. ResetCommit(r)
    <3>1. ASSUME NEW x \in Request, Handle(x) \/ LoseAnswer(x), ~ResetCommit(r)
          PROVE  pc'[r] = pc[r]
      BY <2>1, <3>1 DEF Handle, Arrives, LoginRead, LoginCommit, FailedLoginRead,
         FailedLoginCommit, RefreshRead, ReuseCommit, RefreshCommit, LogoutRead, LogoutCommit,
         ForgotScan, ForgotCommit, ResetRead, ResetCommit, ChangeAdmit, ChangeRead, ChangeCommit,
         Deliver, LoseAnswer, TypeOK, Goto
    <3>2. ASSUME NEW x \in Request, NEW b \in Browser, Send(x, b) PROVE pc'[r] = pc[r]
      BY <2>1, <3>2 DEF Send, Goto, TypeOK
    <3>3. ASSUME \/ \E x \in Request : Lapse(x)
                 \/ \E b \in Browser : AccessLapses(b)
                 \/ LockLapses
          PROVE  pc' = pc
      BY <3>3 DEF Lapse, AccessLapses, LockLapses
    <3>. QED
      BY <3>1, <3>2, <3>3 DEF Next, Step
  <2>3. token' = [token EXCEPT ![req[r].body.token] = "used"]
    BY <2>2 DEF ResetCommit
  <2>. QED
    BY <2>1, <2>3 DEF Unused, TypeOK
<1>. QED
  BY <1>1, InductiveInvariant, PTL DEF Spec, ResetsOnce

(* login, registerFailedLogin: only time or a reset lifts a lock, unless   *)
(* a login was granted before it.                                          *)
THEOREM LockStands == Spec => LockHolds
<1> DEFINE A == account.locked /\ ~account'.locked /\ "attempt" \notin met' =>
        LockLapses \/ \E r \in Request : pc[r] = "resetting"
<1>1. IInv /\ [Next]_vars => [A]_vars
  <2>. SUFFICES ASSUME IInv, Next, account.locked, ~account'.locked, "attempt" \notin met', ~LockLapses
                PROVE  \E r \in Request : pc[r] = "resetting"
    OBVIOUS
  <2>1. TypeOK /\ At({"granted"}) = {}
    BY MetNext DEF IInv, LockInv
  <2>2. ASSUME NEW x \in Request PROVE ~FailedLoginCommit(x) /\ ~LoginCommit(x)
    BY <2>1, <2>2, Locks DEF LoginCommit, At
  <2>3. PICK x \in Request : ResetCommit(x)
    BY <2>1, <2>2, Counts
  <2>. QED
    BY <2>3 DEF ResetCommit
<1>. QED
  BY <1>1, InductiveInvariant, PTL DEF Spec, LockHolds
=============================================================================

---------------------------- MODULE Notifications ---------------------------
(***************************************************************************)
(* The queue of guardian notifications: ReportingService.queueForStudent   *)
(* inserts jobs, and the NotificationWorker of every API process claims    *)
(* and delivers them.  A job is named by its dedupe key (student, channel  *)
(* and day); inserting one that exists changes nothing.  Instants are      *)
(* reduced to what the code compares them for: whether scheduled_at has    *)
(* come, and whether a lock is more than ten minutes old.                  *)
(***************************************************************************)
EXTENDS Integers, FiniteSets

CONSTANTS
    Worker,         \* API processes
    Job,            \* dedupe keys
    None,
    MaxAttempts,    \* notification_jobs.max_attempts
    BatchSize,      \* claims of one tick
    MaxCrashes      \* bound: crashes of the processes, all together

ASSUME QueueAssumption ==
    /\ MaxAttempts \in Nat \ {0} /\ BatchSize \in Nat \ {0} /\ MaxCrashes \in Nat
    /\ None \notin Job

VARIABLES
    status,         \* of a job, "absent" before it is inserted
    attempts,
    due,            \* scheduled_at <= now()
    lock,           \* locked_at: null, recent, or older than ten minutes
    accepted,       \* how often the provider took the message
    lost,           \* how often the update that followed failed
    wpc,            \* idle -> ticking -> claimed -> accepted or failing; down
    held,           \* the job the worker is delivering, as it claimed it
    left,           \* claims the running tick may still make
    crashes

jobVars == <<status, attempts, due, lock, accepted, lost>>
workerVars == <<wpc, held, left>>
vars == <<jobVars, workerVars, crashes>>

NoJob == [job |-> None, attempts |-> 0]

TypeOK ==
    /\ status \in [Job -> {"absent", "QUEUED", "PROCESSING", "SENT", "FAILED"}]
    /\ attempts \in [Job -> Nat]
    /\ due \in [Job -> BOOLEAN]
    /\ lock \in [Job -> {"null", "recent", "old"}]
    /\ accepted \in [Job -> Nat]
    /\ lost \in [Job -> Nat]
    /\ wpc \in [Worker -> {"idle", "ticking", "claimed", "accepted", "failing", "down"}]
    /\ held \in [Worker -> [job : Job \cup {None}, attempts : Nat]]
    /\ left \in [Worker -> 0 .. BatchSize]
    /\ crashes \in 0 .. MaxCrashes

Init ==
    /\ status = [j \in Job |-> "absent"]
    /\ attempts = [j \in Job |-> 0]
    /\ due = [j \in Job |-> FALSE]
    /\ lock = [j \in Job |-> "null"]
    /\ accepted = [j \in Job |-> 0]
    /\ lost = [j \in Job |-> 0]
    /\ wpc = [w \in Worker |-> "idle"]
    /\ held = [w \in Worker |-> NoJob]
    /\ left = [w \in Worker |-> 0]
    /\ crashes = 0

-----------------------------------------------------------------------------

Enqueue(j) ==
    /\ status[j] = "absent"
    /\ status' = [status EXCEPT ![j] = "QUEUED"]
    /\ due' = [due EXCEPT ![j] = TRUE]
    /\ UNCHANGED <<attempts, lock, accepted, lost, workerVars, crashes>>

(* Time passes: a retry falls due, a lock gets old.                        *)
FallDue(j) ==
    /\ status[j] # "absent" /\ ~due[j]
    /\ due' = [due EXCEPT ![j] = TRUE]
    /\ UNCHANGED <<status, attempts, lock, accepted, lost, workerVars, crashes>>

LockAges(j) ==
    /\ lock[j] = "recent"
    /\ lock' = [lock EXCEPT ![j] = "old"]
    /\ UNCHANGED <<status, attempts, due, accepted, lost, workerVars, crashes>>

(* The five-second timer; a tick that finds another running returns.       *)
Tick(w) ==
    /\ wpc[w] = "idle"
    /\ wpc' = [wpc EXCEPT ![w] = "ticking"]
    /\ left' = [left EXCEPT ![w] = BatchSize]
    /\ UNCHANGED <<jobVars, held, crashes>>

(* FAULT: a job whose lock is old is claimed whatever its status.          *)
ClaimableWhenOld(j) == status[j] \in {"QUEUED", "PROCESSING"} /\ due[j] /\ lock[j] # "recent"

(* FAULT: the last attempt is never made.                                  *)
ClaimableButLast(j) ==
    status[j] = "QUEUED" /\ due[j] /\ lock[j] # "recent" /\ attempts[j] + 1 < MaxAttempts

(* The condition of the SELECT ... FOR UPDATE SKIP LOCKED.                 *)
Claimable(j) == status[j] = "QUEUED" /\ due[j] /\ lock[j] # "recent"

MayClaim(w) == wpc[w] = "ticking" /\ left[w] > 0

Claim(w) ==
    /\ MayClaim(w)
    /\ \E j \in Job :
          /\ Claimable(j)
          /\ status' = [status EXCEPT ![j] = "PROCESSING"]
          /\ lock' = [lock EXCEPT ![j] = "recent"]
          /\ attempts' = [attempts EXCEPT ![j] = @ + 1]
          /\ held' = [held EXCEPT ![w] = [job |-> j, attempts |-> attempts[j] + 1]]
    /\ wpc' = [wpc EXCEPT ![w] = "claimed"]
    /\ left' = [left EXCEPT ![w] = @ - 1]
    /\ UNCHANGED <<due, accepted, lost, crashes>>

(* Nothing to claim, or the tick has made its claims.                      *)
EndTick(w) ==
    /\ wpc[w] = "ticking"
    /\ left[w] = 0 \/ \A j \in Job : ~Claimable(j)
    /\ wpc' = [wpc EXCEPT ![w] = "idle"]
    /\ UNCHANGED <<jobVars, held, left, crashes>>

(* The provider takes the message, and only then is SENT written.          *)
Accept(w) ==
    /\ wpc[w] = "claimed"
    /\ accepted' = [accepted EXCEPT ![held[w].job] = @ + 1]
    /\ wpc' = [wpc EXCEPT ![w] = "accepted"]
    /\ UNCHANGED <<status, attempts, due, lock, lost, held, left, crashes>>

Release(w) ==
    /\ wpc' = [wpc EXCEPT ![w] = "ticking"]
    /\ held' = [held EXCEPT ![w] = NoJob]
    /\ UNCHANGED <<left, crashes>>

MarkSent(w) ==
    /\ wpc[w] = "accepted"
    /\ status' = [status EXCEPT ![held[w].job] = "SENT"]
    /\ lock' = [lock EXCEPT ![held[w].job] = "null"]
    /\ Release(w)
    /\ UNCHANGED <<attempts, due, accepted, lost>>

(* The update to SENT fails, or is written and its answer lost: either way *)
(* the catch treats it like a failed delivery.                             *)
LoseSent(w) ==
    /\ wpc[w] = "accepted"
    /\ \/ UNCHANGED <<status, lock>>
       \/ /\ status' = [status EXCEPT ![held[w].job] = "SENT"]
          /\ lock' = [lock EXCEPT ![held[w].job] = "null"]
    /\ lost' = [lost EXCEPT ![held[w].job] = @ + 1]
    /\ wpc' = [wpc EXCEPT ![w] = "failing"]
    /\ UNCHANGED <<attempts, due, accepted, held, left, crashes>>

(* FAULT: only the last failure writes a status.                           *)
FailedOnly(n) == IF n >= MaxAttempts THEN "FAILED" ELSE "PROCESSING"

StatusAfterFailure(n) == IF n >= MaxAttempts THEN "FAILED" ELSE "QUEUED"

(* The update of the catch is by id: whatever the row has become is lost.  *)
Retry(w) ==
    /\ wpc[w] = "failing"
    /\ status' = [status EXCEPT ![held[w].job] = StatusAfterFailure(held[w].attempts)]
    /\ lock' = [lock EXCEPT ![held[w].job] = "null"]
    /\ due' = [due EXCEPT ![held[w].job] = FALSE]
    /\ Release(w)
    /\ UNCHANGED <<attempts, accepted, lost>>

(* The process dies: killed, or by the unhandled rejection of a tick whose *)
(* claim or retry could not reach the database.                            *)
Crash(w) ==
    /\ wpc[w] # "down" /\ crashes < MaxCrashes
    /\ wpc' = [wpc EXCEPT ![w] = "down"]
    /\ held' = [held EXCEPT ![w] = NoJob]
    /\ crashes' = crashes + 1
    /\ UNCHANGED <<jobVars, left>>

(* FAULT: what a crash left PROCESSING is queued again.                    *)
RestartRequeueing(w) ==
    LET unheld == {j \in Job : status[j] = "PROCESSING" /\ \A v \in Worker : held[v].job # j}
    IN  /\ wpc[w] = "down"
        /\ wpc' = [wpc EXCEPT ![w] = "ticking"]
        /\ status' = [j \in Job |-> IF j \in unheld THEN "QUEUED" ELSE status[j]]
        /\ lock' = [j \in Job |-> IF j \in unheld THEN "null" ELSE lock[j]]
        /\ left' = [left EXCEPT ![w] = BatchSize]
        /\ UNCHANGED <<attempts, due, accepted, lost, held, crashes>>

(* onModuleInit ticks at once.                                             *)
Restart(w) ==
    /\ wpc[w] = "down"
    /\ wpc' = [wpc EXCEPT ![w] = "ticking"]
    /\ left' = [left EXCEPT ![w] = BatchSize]
    /\ UNCHANGED <<jobVars, held, crashes>>

WorkerStep(w) ==
    Tick(w) \/ Claim(w) \/ EndTick(w) \/ Accept(w) \/ MarkSent(w) \/ Retry(w) \/ Restart(w)

Next ==
    \/ \E j \in Job : Enqueue(j) \/ FallDue(j) \/ LockAges(j)
    \/ \E w \in Worker : WorkerStep(w) \/ LoseSent(w) \/ Crash(w)

(* Node runs on what it has started, the timer keeps firing, a process     *)
(* that died is restarted, and time passes.                                *)
Fairness ==
    /\ \A w \in Worker : WF_vars(WorkerStep(w))
    /\ \A j \in Job : WF_vars(FallDue(j)) /\ WF_vars(LockAges(j))

Spec == Init /\ [][Next]_vars
FairSpec == Spec /\ Fairness

-----------------------------------------------------------------------------
(*                              Properties                                 *)

(* No two workers deliver the same job, and the one that does holds it as  *)
(* the table says: PROCESSING, or SENT when only the answer was lost, with *)
(* the attempts it counted.                                                *)
OneHolder ==
    \A w \in Worker : held[w].job # None =>
        /\ \/ status[held[w].job] = "PROCESSING"
           \/ status[held[w].job] = "SENT" /\ wpc[w] = "failing"
        /\ attempts[held[w].job] = held[w].attempts
        /\ \A v \in Worker : held[v].job = held[w].job => v = w

(* A job is tried at most MaxAttempts times, fails only after that many,   *)
(* and the guardian gets no more messages than it was tried.               *)
AttemptsBounded ==
    \A j \in Job :
        /\ accepted[j] <= attempts[j] /\ attempts[j] <= MaxAttempts
        /\ status[j] = "FAILED" => attempts[j] = MaxAttempts
        /\ status[j] = "SENT" => accepted[j] > 0

(* A guardian gets a message again only after the update that follows a    *)
(* delivery has failed, once for each time it has: neither a crash nor     *)
(* another worker repeats one.                                             *)
RepeatsExplained == \A j \in Job : accepted[j] <= 1 + lost[j]

(* What is SENT or FAILED stays so, but for the one worker that delivered  *)
(* it and was not told of its update: no late worker takes it back.        *)
Settled(j) == status[j] \in {"SENT", "FAILED"}
SettledForGood ==
    [][\A j \in Job : Settled(j) =>
          \/ status'[j] = status[j]
          \/ \E w \in Worker : wpc[w] = "failing" /\ held[w].job = j]_vars

(* A job is stranded when it is PROCESSING and nobody delivers it: each     *)
(* crash strands at most the one job its worker held.                      *)
Stranded == {j \in Job : status[j] = "PROCESSING" /\ \A w \in Worker : held[w].job # j}
StrandedByCrash == Cardinality(Stranded) <= crashes

(* Every job that is ever queued is settled for good in the end, if no     *)
(* crash strands it.                                                       *)
SettledOrStranded ==
    \A j \in Job : <>[](status[j] = "absent" \/ Settled(j) \/ j \in Stranded)

-----------------------------------------------------------------------------
(*                         The inductive invariant                         *)

(* A worker holds a job exactly while it delivers it, and the provider has *)
(* not seen the attempt it has only claimed.                               *)
HoldInv ==
    \A w \in Worker :
        /\ held[w].job # None <=> wpc[w] \in {"claimed", "accepted", "failing"}
        /\ wpc[w] = "claimed" => accepted[held[w].job] < attempts[held[w].job]
        /\ wpc[w] = "accepted" => accepted[held[w].job] > 0

(* A job that may be claimed has an attempt left.                          *)
LeftInv == \A j \in Job : status[j] \in {"absent", "QUEUED"} => attempts[j] < MaxAttempts

(* Until the provider takes a message again, each time it took it has been *)
(* followed by a failed update.                                            *)
Untaken(j) ==
    \/ status[j] \in {"absent", "QUEUED"}
    \/ \E w \in Worker : held[w].job = j /\ wpc[w] \in {"claimed", "failing"}
RepeatInv == \A j \in Job : accepted[j] <= lost[j] + (IF Untaken(j) THEN 0 ELSE 1)

StrandedInv == IsFiniteSet(Stranded) /\ StrandedByCrash

IInv ==
    TypeOK /\ HoldInv /\ LeftInv /\ OneHolder /\ AttemptsBounded /\ RepeatInv /\ StrandedInv
=============================================================================

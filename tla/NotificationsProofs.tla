------------------------- MODULE NotificationsProofs ------------------------
(***************************************************************************)
(* Proofs about Notifications, for every number of workers, jobs, attempts *)
(* and crashes.                                                            *)
(***************************************************************************)
EXTENDS Notifications, FiniteSetTheorems, TLAPS

LEMMA InvInit == Init => IInv
<1>. SUFFICES ASSUME Init PROVE IInv
  OBVIOUS
<1>1. Stranded = {}
  BY DEF Init, Stranded
<1>2. StrandedInv
  BY <1>1, FS_EmptySet, QueueAssumption DEF Init, StrandedInv, StrandedByCrash
<1>3. TypeOK
  BY QueueAssumption DEF Init, TypeOK, NoJob
<1>. QED
  BY <1>2, <1>3, QueueAssumption
  DEF Init, IInv, NoJob, HoldInv, LeftInv, OneHolder, AttemptsBounded, RepeatInv

(* What a worker holds is a job of the table.                              *)
LEMMA Holding ==
    ASSUME IInv, NEW w \in Worker, wpc[w] \in {"claimed", "accepted", "failing"}
    PROVE  /\ held[w].job \in Job /\ held[w].attempts \in Nat
           /\ status[held[w].job] \in {"PROCESSING", "SENT"}
           /\ wpc[w] # "failing" => status[held[w].job] = "PROCESSING"
           /\ attempts[held[w].job] = held[w].attempts
           /\ \A v \in Worker : held[v].job = held[w].job => v = w
<1>1. held[w].job # None
  BY DEF IInv, HoldInv
<1>2. held[w] \in [job : Job \cup {None}, attempts : Nat]
  BY DEF IInv, TypeOK
<1>. QED
  BY <1>1, <1>2 DEF IInv, OneHolder

(* No more jobs are stranded than crashes, as long as no job becomes one.  *)
LEMMA StrandedKept ==
    ASSUME IInv, Stranded' \subseteq Stranded, crashes' = crashes
    PROVE  StrandedInv'
<1>1. /\ IsFiniteSet(Stranded') /\ Cardinality(Stranded') <= Cardinality(Stranded)
      /\ Cardinality(Stranded') \in Nat /\ Cardinality(Stranded) \in Nat
  BY FS_Subset, FS_CardinalityType DEF IInv, StrandedInv
<1>2. Cardinality(Stranded) <= crashes /\ crashes \in Nat
  BY QueueAssumption DEF IInv, TypeOK, StrandedInv, StrandedByCrash
<1>3. Cardinality(Stranded') <= crashes'
  BY <1>1, <1>2
<1>. QED
  BY <1>1, <1>3 DEF StrandedInv, StrandedByCrash

(* Deliveries stay explained by failed updates, as long as none is added.  *)
LEMMA RepeatKept ==
    ASSUME IInv, UNCHANGED <<accepted, lost>>, \A j \in Job : Untaken(j)' => Untaken(j)
    PROVE  RepeatInv'
  BY DEF IInv, TypeOK, RepeatInv

LEMMA QueueKeeps ==
    ASSUME IInv, NEW j \in Job, Enqueue(j) \/ FallDue(j) \/ LockAges(j)
    PROVE  IInv'
<1>. USE DEF IInv, workerVars
<1>1. TypeOK'
  BY DEF Enqueue, FallDue, LockAges, TypeOK
<1>2. HoldInv' /\ LeftInv' /\ AttemptsBounded'
  BY DEF Enqueue, FallDue, LockAges, TypeOK, HoldInv, LeftInv, AttemptsBounded
<1>3. OneHolder'
  BY DEF Enqueue, FallDue, LockAges, TypeOK, OneHolder
<1>4. Stranded' \subseteq Stranded /\ crashes' = crashes
  BY DEF Enqueue, FallDue, LockAges, TypeOK, Stranded
<1>5. RepeatInv'
  <2>1. /\ UNCHANGED <<accepted, lost, wpc, held>>
        /\ \A i \in Job : status'[i] = status[i] \/ status[i] = "absent"
    BY DEF Enqueue, FallDue, LockAges, TypeOK
  <2>. QED
    BY <2>1, RepeatKept DEF Untaken
<1>. QED
  BY <1>1, <1>2, <1>3, <1>4, <1>5, StrandedKept

LEMMA TickKeeps ==
    ASSUME IInv, NEW w \in Worker, Tick(w) \/ EndTick(w) \/ Restart(w)
    PROVE  IInv'
<1>. USE DEF IInv, jobVars
<1>1. TypeOK'
  <2>. USE DEF TypeOK
  <2>1. CASE Tick(w)
    BY <2>1, QueueAssumption DEF Tick
  <2>2. CASE EndTick(w)
    BY <2>2 DEF EndTick
  <2>3. CASE Restart(w)
    BY <2>3, QueueAssumption DEF Restart
  <2>. QED
    BY <2>1, <2>2, <2>3
<1>2. /\ UNCHANGED <<status, attempts, accepted, lost, held, crashes>>
      /\ \A v \in Worker : wpc'[v] # wpc[v] =>
            v = w /\ {wpc[w], wpc'[w]} \subseteq {"idle", "ticking", "down"}
  BY DEF Tick, EndTick, Restart, TypeOK
<1>4. HoldInv'
  BY <1>2 DEF HoldInv
<1>5. LeftInv' /\ AttemptsBounded' /\ OneHolder'
  BY <1>2 DEF LeftInv, AttemptsBounded, OneHolder
<1>3. Stranded' \subseteq Stranded /\ crashes' = crashes
  BY DEF Tick, EndTick, Restart, Stranded
<1>6. RepeatInv'
  BY <1>2, RepeatKept DEF Untaken
<1>. QED
  BY <1>1, <1>3, <1>4, <1>5, <1>6, StrandedKept

LEMMA ClaimKeeps ==
    ASSUME IInv, NEW w \in Worker, Claim(w)
    PROVE  IInv'
<1>. USE DEF IInv
<1>1. PICK j \in Job :
        /\ Claimable(j)
        /\ status' = [status EXCEPT ![j] = "PROCESSING"]
        /\ lock' = [lock EXCEPT ![j] = "recent"]
        /\ attempts' = [attempts EXCEPT ![j] = @ + 1]
        /\ held' = [held EXCEPT ![w] = [job |-> j, attempts |-> attempts[j] + 1]]
  BY DEF Claim
<1>2. /\ wpc[w] = "ticking" /\ left[w] > 0 /\ left[w] \in 0 .. BatchSize
      /\ wpc' = [wpc EXCEPT ![w] = "claimed"]
      /\ left' = [left EXCEPT ![w] = @ - 1]
      /\ UNCHANGED <<due, accepted, lost, crashes>>
  BY DEF Claim, MayClaim, TypeOK
<1>3. status[j] = "QUEUED" /\ attempts[j] \in Nat /\ attempts[j] < MaxAttempts
  BY <1>1 DEF Claimable, TypeOK, LeftInv
<1>4. TypeOK'
  <2>1. left[w] - 1 \in 0 .. BatchSize
    BY <1>2, QueueAssumption
  <2>. QED
    BY <1>1, <1>2, <1>3, <2>1 DEF TypeOK
<1>5. \A v \in Worker : held[v].job # j
  BY <1>3, QueueAssumption DEF OneHolder, TypeOK
<1>6. HoldInv'
  BY <1>1, <1>2, <1>3, <1>5, QueueAssumption DEF HoldInv, TypeOK, AttemptsBounded
<1>7. LeftInv' /\ AttemptsBounded'
  BY <1>1, <1>2, <1>3, QueueAssumption DEF LeftInv, AttemptsBounded, TypeOK
<1>8. OneHolder'
  BY <1>1, <1>2, <1>3, <1>5 DEF OneHolder, TypeOK
<1>9. Stranded' \subseteq Stranded /\ crashes' = crashes
  <2>1. held[w].job = None /\ held'[w].job = j
    BY <1>1, <1>2 DEF HoldInv, TypeOK
  <2>. QED
    BY <1>1, <1>2, <2>1, QueueAssumption DEF Stranded, TypeOK
<1>10. RepeatInv'
  <2>1. held[w].job = None /\ None \notin Job
    BY <1>2, QueueAssumption DEF HoldInv, TypeOK
  <2>2. ASSUME NEW i \in Job, Untaken(i)' PROVE Untaken(i)
    <3>1. CASE i = j
      BY <1>3, <3>1 DEF Untaken
    <3>2. CASE i # j
      BY <1>1, <1>2, <2>1, <2>2, <3>2 DEF Untaken, TypeOK
    <3>. QED
      BY <3>1, <3>2
  <2>. QED
    BY <1>2, <2>2, RepeatKept
<1>. QED
  BY <1>4, <1>6, <1>7, <1>8, <1>9, <1>10, StrandedKept

LEMMA AcceptKeeps ==
    ASSUME IInv, NEW w \in Worker, Accept(w)
    PROVE  IInv'
<1>. USE DEF IInv, Accept
<1>1. /\ held[w].job \in Job
      /\ \A v \in Worker : held[v].job = held[w].job => v = w
      /\ status[held[w].job] = "PROCESSING"
  BY Holding DEF IInv
<1>2. TypeOK'
  BY <1>1 DEF TypeOK
<1>3. HoldInv'
  BY <1>1 DEF HoldInv, TypeOK
<1>4. LeftInv' /\ OneHolder'
  BY DEF LeftInv, OneHolder, TypeOK
<1>5. AttemptsBounded'
  BY <1>1 DEF AttemptsBounded, HoldInv, TypeOK
<1>6. Stranded' \subseteq Stranded /\ crashes' = crashes
  BY DEF Stranded
<1>7. RepeatInv'
  <2>. SUFFICES ASSUME NEW i \in Job
                PROVE  accepted'[i] <= lost'[i] + (IF Untaken(i)' THEN 0 ELSE 1)
    BY DEF RepeatInv
  <2>0. accepted[i] \in Nat /\ lost[i] \in Nat /\ lost'[i] = lost[i]
    BY DEF TypeOK
  <2>1. CASE i = held[w].job
    <3>1. Untaken(i) /\ ~Untaken(i)'
      BY <1>1, <2>1 DEF Untaken, TypeOK
    <3>2. accepted[i] <= lost[i] /\ accepted'[i] = accepted[i] + 1
      BY <2>0, <2>1, <3>1 DEF RepeatInv, TypeOK
    <3>. QED
      BY <2>0, <3>1, <3>2
  <2>2. CASE i # held[w].job
    <3>1. (Untaken(i)' => Untaken(i)) /\ accepted'[i] = accepted[i]
      BY <1>1, <2>2 DEF Untaken, TypeOK
    <3>. QED
      BY <2>0, <3>1 DEF RepeatInv
  <2>. QED
    BY <2>1, <2>2
<1>. QED
  BY <1>2, <1>3, <1>4, <1>5, <1>6, <1>7, StrandedKept

(* The update to SENT may be written although it fails.                    *)
LEMMA LoseSentKeeps ==
    ASSUME IInv, NEW w \in Worker, LoseSent(w)
    PROVE  IInv'
<1>. USE DEF IInv
<1> DEFINE j == held[w].job
<1>1. /\ j \in Job /\ status[j] = "PROCESSING" /\ accepted[j] > 0 /\ wpc[w] = "accepted"
      /\ \A v \in Worker : held[v].job = j => v = w
  BY Holding DEF LoseSent, HoldInv
<1>2. PICK s \in {"PROCESSING", "SENT"} :
        /\ status' = [status EXCEPT ![j] = s]
        /\ lock' \in [Job -> {"null", "recent", "old"}]
  BY <1>1 DEF LoseSent, TypeOK
<1>3. /\ wpc' = [wpc EXCEPT ![w] = "failing"] /\ lost' = [lost EXCEPT ![j] = @ + 1]
      /\ UNCHANGED <<attempts, due, accepted, held, left, crashes>>
  BY DEF LoseSent
<1>4. j # None
  BY <1>1, QueueAssumption
<1>. HIDE DEF j
<1>5. TypeOK'
  BY <1>1, <1>2, <1>3 DEF TypeOK
<1>6. HoldInv'
  BY <1>1, <1>3 DEF HoldInv, TypeOK
<1>7. LeftInv' /\ AttemptsBounded'
  BY <1>1, <1>2, <1>3 DEF LeftInv, AttemptsBounded, TypeOK
<1>8. OneHolder'
  BY <1>1, <1>2, <1>3, <1>4 DEF OneHolder, TypeOK, j
<1>9. Stranded' \subseteq Stranded /\ crashes' = crashes
  BY <1>1, <1>2, <1>3 DEF Stranded, TypeOK
<1>10. RepeatInv'
  <2>. SUFFICES ASSUME NEW i \in Job
                PROVE  accepted[i] <= lost'[i] + (IF Untaken(i)' THEN 0 ELSE 1)
    BY <1>3 DEF RepeatInv
  <2>0. accepted[i] \in Nat /\ lost[i] \in Nat
    BY DEF TypeOK
  <2>1. CASE i = j
    <3>1. lost'[i] = lost[i] + 1 /\ accepted[i] <= lost[i] + 1
      BY <1>3, <2>0, <2>1 DEF RepeatInv, TypeOK
    <3>. QED
      BY <2>0, <3>1
  <2>2. CASE i # j
    <3>1. lost'[i] = lost[i] /\ (Untaken(i)' => Untaken(i))
      BY <1>2, <1>3, <2>2 DEF Untaken, TypeOK, j
    <3>. QED
      BY <2>0, <3>1 DEF RepeatInv
  <2>. QED
    BY <2>1, <2>2
<1>. QED
  BY <1>5, <1>6, <1>7, <1>8, <1>9, <1>10, StrandedKept

(* A delivery that ends writes a status that fits the attempts.            *)
LEMMA ReleaseKeeps ==
    ASSUME IInv, NEW w \in Worker, MarkSent(w) \/ Retry(w)
    PROVE  IInv'
<1>. USE DEF IInv
<1> DEFINE j == held[w].job
<1>1. /\ j \in Job /\ attempts[j] = held[w].attempts /\ status[j] \in {"PROCESSING", "SENT"}
      /\ attempts[j] \in Nat /\ attempts[j] <= MaxAttempts
      /\ \A v \in Worker : held[v].job = j => v = w
  BY Holding DEF MarkSent, Retry, TypeOK, AttemptsBounded
<1>2. PICK s \in {"SENT", "FAILED", "QUEUED"} :
        /\ status' = [status EXCEPT ![j] = s]
        /\ s = "SENT" => accepted[j] > 0
        /\ s = "FAILED" => attempts[j] >= MaxAttempts
        /\ s = "QUEUED" => attempts[j] < MaxAttempts
  BY <1>1, QueueAssumption DEF MarkSent, Retry, StatusAfterFailure, HoldInv
<1>3. /\ wpc' = [wpc EXCEPT ![w] = "ticking"]
      /\ held' = [held EXCEPT ![w] = NoJob]
      /\ lock' = [lock EXCEPT ![j] = "null"]
      /\ due' \in [Job -> BOOLEAN]
      /\ UNCHANGED <<left, crashes, attempts, accepted, lost>>
  BY <1>1 DEF MarkSent, Retry, Release, TypeOK
<1>10. s = "QUEUED" \/ s = "FAILED" => wpc[w] = "failing"
  BY <1>1, <1>2 DEF MarkSent, Retry, TypeOK
<1>. HIDE DEF j
<1>4. TypeOK'
  BY <1>1, <1>2, <1>3 DEF TypeOK, NoJob
<1>5. HoldInv'
  BY <1>3 DEF HoldInv, TypeOK, NoJob
<1>6. LeftInv'
  BY <1>1, <1>2, <1>3 DEF LeftInv, TypeOK
<1>9. AttemptsBounded'
  <2>. SUFFICES ASSUME NEW i \in Job
                PROVE  /\ accepted[i] <= attempts[i] /\ attempts[i] <= MaxAttempts
                       /\ status'[i] = "FAILED" => attempts[i] = MaxAttempts
                       /\ status'[i] = "SENT" => accepted[i] > 0
    BY <1>3 DEF AttemptsBounded
  <2>1. CASE i = j
    <3>1. status'[j] = s /\ accepted[j] <= attempts[j]
      BY <1>1, <1>2 DEF AttemptsBounded, TypeOK
    <3>2. attempts[j] >= MaxAttempts => attempts[j] = MaxAttempts
      BY <1>1, QueueAssumption
    <3>. QED
      BY <1>1, <1>2, <2>1, <3>1, <3>2
  <2>2. CASE i # j
    BY <1>2, <2>2 DEF AttemptsBounded, TypeOK
  <2>. QED
    BY <2>1, <2>2
<1>7. OneHolder'
  BY <1>1, <1>2, <1>3 DEF OneHolder, TypeOK, NoJob, j
<1>8. Stranded' \subseteq Stranded /\ crashes' = crashes
  BY <1>1, <1>2, <1>3 DEF Stranded, TypeOK, j
<1>11. RepeatInv'
  <2>1. ASSUME NEW i \in Job, Untaken(i)' PROVE Untaken(i)
    <3>1. CASE i = j
      <4>1. \A v \in Worker : held'[v].job # j
        BY <1>1, <1>3, QueueAssumption DEF TypeOK, NoJob, j
      <4>2. s = "QUEUED"
        BY <1>1, <1>2, <2>1, <3>1, <4>1 DEF Untaken, TypeOK
      <4>. QED
        BY <1>10, <3>1, <4>2 DEF Untaken, j
    <3>2. CASE i # j
      BY <1>2, <1>3, <2>1, <3>2, QueueAssumption DEF Untaken, TypeOK, NoJob
    <3>. QED
      BY <3>1, <3>2
  <2>. QED
    BY <1>3, <2>1, RepeatKept
<1>. QED
  BY <1>4, <1>5, <1>6, <1>7, <1>8, <1>9, <1>11, StrandedKept

(* A crash strands at most the job that its worker held.                   *)
LEMMA CrashKeeps ==
    ASSUME IInv, NEW w \in Worker, Crash(w)
    PROVE  IInv'
<1>. USE DEF IInv, Crash, jobVars
<1>1. TypeOK' /\ HoldInv' /\ LeftInv' /\ AttemptsBounded' /\ OneHolder'
  BY QueueAssumption DEF TypeOK, HoldInv, LeftInv, AttemptsBounded, OneHolder, NoJob
<1>2. Stranded' \subseteq Stranded \cup {held[w].job}
  BY DEF Stranded, TypeOK
<1>3. /\ IsFiniteSet(Stranded \cup {held[w].job})
      /\ Cardinality(Stranded \cup {held[w].job}) <= Cardinality(Stranded) + 1
      /\ Cardinality(Stranded) \in Nat
  <2>1. IsFiniteSet(Stranded) /\ Cardinality(Stranded) \in Nat
    BY FS_CardinalityType DEF StrandedInv
  <2> DEFINE x == held[w].job
  <2>. HIDE DEF x
  <2>2. /\ IsFiniteSet(Stranded \cup {x})
        /\ Cardinality(Stranded \cup {x}) \in {Cardinality(Stranded), Cardinality(Stranded) + 1}
    BY <2>1, FS_AddElement
  <2>. QED
    BY <2>1, <2>2 DEF x
<1>4. /\ IsFiniteSet(Stranded')
      /\ Cardinality(Stranded') <= Cardinality(Stranded \cup {held[w].job})
      /\ Cardinality(Stranded') \in Nat /\ Cardinality(Stranded \cup {held[w].job}) \in Nat
  BY <1>2, <1>3, FS_Subset, FS_CardinalityType
<1>5. crashes' = crashes + 1 /\ crashes \in Nat /\ Cardinality(Stranded) <= crashes
  BY QueueAssumption DEF TypeOK, StrandedInv, StrandedByCrash
<1>6. Cardinality(Stranded') <= crashes'
  BY <1>3, <1>4, <1>5
<1>7. RepeatInv'
  <2>1. \A i \in Job : Untaken(i)' => Untaken(i)
    BY QueueAssumption DEF Untaken, TypeOK, NoJob
  <2>. QED
    BY <2>1, RepeatKept
<1>. QED
  BY <1>1, <1>4, <1>6, <1>7 DEF StrandedInv, StrandedByCrash

LEMMA InvNext == IInv /\ [Next]_vars => IInv'
<1>. SUFFICES ASSUME IInv, [Next]_vars PROVE IInv'
  OBVIOUS
<1>1. CASE UNCHANGED vars
  BY <1>1 DEF vars, jobVars, workerVars, IInv, TypeOK, HoldInv, LeftInv, OneHolder, AttemptsBounded,
     StrandedInv, StrandedByCrash, Stranded, RepeatInv, Untaken
<1>. QED
  BY <1>1, QueueKeeps, TickKeeps, ClaimKeeps, AcceptKeeps, LoseSentKeeps, ReleaseKeeps, CrashKeeps
  DEF Next, WorkerStep

-----------------------------------------------------------------------------
(* The inductive invariant holds in every reachable state.                 *)
THEOREM InductiveInvariant == Spec => []IInv
  BY InvInit, InvNext, PTL DEF Spec

(* Every state of the queue is well typed.                                 *)
THEOREM TypeCorrect == Spec => []TypeOK
  BY InductiveInvariant, PTL DEF IInv

(* No two workers deliver the same job, however many processes poll.       *)
THEOREM HeldOnce == Spec => []OneHolder
  BY InductiveInvariant, PTL DEF IInv

(* A job is tried and its guardian messaged at most MaxAttempts times.     *)
THEOREM AttemptsLimited == Spec => []AttemptsBounded
  BY InductiveInvariant, PTL DEF IInv

(* No more jobs are stranded than processes have crashed.                  *)
THEOREM CrashesStrand == Spec => []StrandedByCrash
  BY InductiveInvariant, PTL DEF IInv, StrandedInv

(* A guardian is messaged again only after an update to SENT has failed,   *)
(* whatever crashes and however many processes poll.                       *)
THEOREM RepeatsAreExplained == Spec => []RepeatsExplained
<1>1. IInv => RepeatsExplained
  BY DEF IInv, TypeOK, RepeatInv, RepeatsExplained
<1>. QED
  BY <1>1, InductiveInvariant, PTL

(* A job that is SENT or FAILED is not taken back, but by the worker that  *)
(* made it SENT and was not told.                                          *)
THEOREM SettledStays == Spec => SettledForGood
<1> DEFINE Told(j) == \A w \in Worker : wpc[w] = "failing" => held[w].job # j
           Stays == \A j \in Job : Settled(j) =>
                       \/ status'[j] = status[j]
                       \/ \E w \in Worker : wpc[w] = "failing" /\ held[w].job = j
<1>1. IInv /\ [Next]_vars => [Stays]_vars
  <2>. SUFFICES ASSUME IInv, Next, NEW j \in Job, Settled(j), Told(j)
                PROVE  status'[j] = status[j]
    OBVIOUS
  <2>. USE DEF IInv, TypeOK, Settled
  <2>1. ASSUME NEW w \in Worker, MarkSent(w) \/ Retry(w) \/ LoseSent(w)
        PROVE  status'[j] = status[j]
    <3>1. wpc[w] # "failing" => status[held[w].job] = "PROCESSING"
      BY <2>1, Holding DEF MarkSent, Retry, LoseSent
    <3>. QED
      BY <2>1, <3>1 DEF MarkSent, Retry, LoseSent
  <2>2. ASSUME NEW w \in Worker, Claim(w) PROVE status'[j] = status[j]
    BY <2>2 DEF Claim, Claimable
  <2>3. ASSUME NEW i \in Job, Enqueue(i) PROVE status'[j] = status[j]
    BY <2>3 DEF Enqueue
  <2>. QED
    BY <2>1, <2>2, <2>3
    DEF Next, WorkerStep, FallDue, LockAges, Tick, EndTick, Accept, Restart, Crash,
        jobVars, workerVars
<1>. QED
  BY <1>1, InductiveInvariant, PTL DEF Spec, SettledForGood
=============================================================================

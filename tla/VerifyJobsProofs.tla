-------------------------- MODULE VerifyJobsProofs --------------------------
(***************************************************************************)
(* Proofs about VerifyJobs for every configuration, every Runner and any   *)
(* number of jobs.                                                         *)
(***************************************************************************)
EXTENDS VerifyJobs, TLAPS

----------------------------------------------------------------------------
(* Jobs, one at a time.                                                    *)

Job == [plan : Plans, status : [Names -> DatabaseStatus],
        mismatch : [Names -> BOOLEAN], finished : BOOLEAN, cancel : BOOLEAN]

Worker == [pc : {"next", "run", "done"}, db : Nat]

Undecided == {"running", "stopping"}

\* What holds between a job and its goroutine: the databases behind the loop's
\* counter have ended and the others have not, those that have not are all
\* running or all stopping, and the job is finished when its goroutine is done.
JobInv(job, w) ==
    /\ w.db \in 1..(Len(job.plan) + 1)
    /\ w.pc = "run" => w.db <= Len(job.plan)
    /\ w.pc # "done" => job.cancel /\ ~job.finished
    /\ \A i \in DOMAIN job.plan :
          (i < w.db \/ w.pc = "done") => job.status[job.plan[i]] \in Ended
    /\ w.pc # "done" =>
          \A i \in DOMAIN job.plan : i >= w.db => job.status[job.plan[i]] \in Undecided
    /\ w.pc # "done" =>
          \A i, k \in DOMAIN job.plan : (i >= w.db /\ k >= w.db) =>
              job.status[job.plan[i]] = job.status[job.plan[k]]
    /\ \A i \in DOMAIN job.plan :
          job.status[job.plan[i]] = "succeeded" => ~job.mismatch[job.plan[i]]

\* A plan is a sequence of distinct names, and not empty.
LEMMA PlanFacts ==
    ASSUME NEW p \in Plans
    PROVE  /\ Len(p) \in Nat \ {0}
           /\ DOMAIN p = 1..Len(p)
           /\ \A i \in DOMAIN p : p[i] \in Names
           /\ \A i, k \in DOMAIN p : p[i] = p[k] => i = k
<1>1. PICK n \in 1..Len(Configured) : p \in [1..n -> Names]
  BY DEF Plans
<1>2. n \in Nat \ {0} /\ DOMAIN p = 1..n /\ p \in Seq(Names)
  BY <1>1, JobsAssumption
<1>3. Len(p) = n
  BY <1>1, <1>2
<1>4. ASSUME NEW i \in DOMAIN p, NEW k \in DOMAIN p, i < k
      PROVE  p[i] # p[k]
  <2>1. PICK a, b \in DOMAIN Configured :
            a < b /\ p[i] = Configured[a] /\ p[k] = Configured[b]
    BY <1>4 DEF Plans
  <2>2. a \in Nat /\ b \in Nat /\ a # b
    BY <2>1, JobsAssumption
  <2> QED
    BY <2>1, <2>2, JobsAssumption
<1>5. ASSUME NEW i \in DOMAIN p, NEW k \in DOMAIN p, p[i] = p[k]
      PROVE  i = k
  <2>1. i \in Nat /\ k \in Nat
    BY <1>2
  <2> QED
    BY <1>4, <1>5, <2>1
<1> QED
  BY <1>1, <1>2, <1>3, <1>5

\* A sequence is the function of its elements.
LEMMA SequenceAsFunction ==
    ASSUME NEW S, NEW s \in Seq(S)
    PROVE  s = [k \in 1..Len(s) |-> s[k]]
OBVIOUS

\* What each operation of job.go does to the fields of a job.
LEMMA MarkStoppingFields ==
    ASSUME NEW job \in Job
    PROVE  LET m == MarkStopping(job)
           IN  /\ m \in Job /\ m.plan = job.plan /\ m.mismatch = job.mismatch
               /\ m.finished = job.finished /\ m.cancel = job.cancel
               /\ \A e \in Names : m.status[e] = StoppingStatus(job.status[e])
BY DEF Job, DatabaseStatus, Ended, MarkStopping, StoppingStatus

\* stop decides every database and drops the cancel function.
LEMMA StopDatabasesFields ==
    ASSUME NEW job \in Job
    PROVE  LET m == StopDatabases(job)
           IN  /\ m \in Job /\ m.plan = job.plan /\ m.mismatch = job.mismatch
               /\ m.finished = TRUE /\ m.cancel = FALSE
               /\ \A e \in Names : m.status[e] = StoppedStatus(job.status[e])
BY DEF Job, DatabaseStatus, Ended, StopDatabases, Finish, StoppedStatus

\* complete decides one database by its mismatches.
LEMMA CompleteDatabaseFields ==
    ASSUME NEW job \in Job, NEW d \in Names
    PROVE  LET m == CompleteDatabase(job, d)
           IN  /\ m \in Job /\ m.plan = job.plan /\ m.mismatch = job.mismatch
               /\ m.finished = job.finished /\ m.cancel = job.cancel
               /\ m.status[d] = IF job.mismatch[d] THEN "failed" ELSE "succeeded"
               /\ \A e \in Names \ {d} : m.status[e] = job.status[e]
BY DEF Job, DatabaseStatus, Ended, CompleteDatabase

\* fail decides one database.
LEMMA FailDatabaseFields ==
    ASSUME NEW job \in Job, NEW d \in Names
    PROVE  LET m == FailDatabase(job, d)
           IN  /\ m \in Job /\ m.plan = job.plan /\ m.mismatch = job.mismatch
               /\ m.finished = job.finished /\ m.cancel = job.cancel
               /\ m.status[d] = "failed"
               /\ \A e \in Names \ {d} : m.status[e] = job.status[e]
BY DEF Job, DatabaseStatus, Ended, FailDatabase

\* finish leaves the databases alone.
LEMMA FinishFields ==
    ASSUME NEW job \in Job
    PROVE  LET m == Finish(job)
           IN  /\ m \in Job /\ m.plan = job.plan /\ m.mismatch = job.mismatch
               /\ m.finished = TRUE /\ m.cancel = FALSE
               /\ m.status = job.status
BY DEF Job, Finish

----------------------------------------------------------------------------
(* The relation of a job and its goroutine survives every operation.       *)

\* newJob, and the goroutine at its first database.
LEMMA NewJobInv ==
    ASSUME NEW plan \in Plans
    PROVE  /\ NewJob(plan) \in Job
           /\ JobInv(NewJob(plan), [pc |-> "next", db |-> 1])
<1>1. NewJob(plan) \in Job
  BY DEF NewJob, Job, DatabaseStatus
<1> QED
  BY <1>1, PlanFacts DEF NewJob, JobInv, Undecided, Ended

\* A stop request marks what is still running.
LEMMA MarkStoppingInv ==
    ASSUME NEW job \in Job, NEW w \in Worker, JobInv(job, w)
    PROVE  JobInv(MarkStopping(job), w)
<1>1. job.plan \in Plans /\ job.status \in [Names -> DatabaseStatus]
  BY DEF Job
<1> HIDE DEF JobInv
<1> QED
  BY <1>1, PlanFacts, MarkStoppingFields
  DEF JobInv, Undecided, Ended, StoppingStatus, DatabaseStatus

\* The goroutine finds the job cancelled and stops what is left.
LEMMA StopDatabasesInv ==
    ASSUME NEW job \in Job, NEW w \in Worker, JobInv(job, w)
    PROVE  JobInv(StopDatabases(job), [w EXCEPT !.pc = "done"])
<1>1. job.plan \in Plans /\ job.status \in [Names -> DatabaseStatus]
  BY DEF Job
<1>2. [w EXCEPT !.pc = "done"].pc = "done" /\ [w EXCEPT !.pc = "done"].db = w.db
  BY DEF Worker
<1>3. \A i \in DOMAIN job.plan :
         /\ StopDatabases(job).status[job.plan[i]] \in Ended
         /\ StopDatabases(job).status[job.plan[i]] = "succeeded"
               => job.status[job.plan[i]] = "succeeded"
  BY <1>1, PlanFacts, StopDatabasesFields DEF Ended, StoppedStatus, DatabaseStatus
<1>4. StopDatabases(job).plan = job.plan /\ StopDatabases(job).mismatch = job.mismatch
  BY StopDatabasesFields
<1> QED
  BY <1>2, <1>3, <1>4 DEF JobInv

\* The current database is decided and the loop goes on.
LEMMA DecideInv ==
    ASSUME NEW job \in Job, NEW w \in Worker, JobInv(job, w),
           w.pc # "done", w.db <= Len(job.plan), NEW m \in Job,
           m.plan = job.plan, m.mismatch = job.mismatch,
           m.finished = job.finished, m.cancel = job.cancel,
           m.status[job.plan[w.db]] \in Ended,
           m.status[job.plan[w.db]] = "succeeded" => ~job.mismatch[job.plan[w.db]],
           \A e \in Names \ {job.plan[w.db]} : m.status[e] = job.status[e]
    PROVE  JobInv(m, [pc |-> "next", db |-> w.db + 1])
<1>1. job.plan \in Plans /\ w.db \in Nat
  BY DEF Job, Worker
<1>2. w.db \in DOMAIN job.plan
  BY <1>1, PlanFacts DEF JobInv
<1>3. \A i \in DOMAIN job.plan : i # w.db => m.status[job.plan[i]] = job.status[job.plan[i]]
  BY <1>1, <1>2, PlanFacts
<1>4. \A i \in DOMAIN job.plan : i \in Nat /\ (i < w.db + 1 => i < w.db \/ i = w.db)
                                 /\ (i >= w.db + 1 => i >= w.db /\ i # w.db)
  BY <1>1, PlanFacts
<1> QED
  BY <1>1, <1>2, <1>3, <1>4, PlanFacts DEF JobInv, Undecided, Ended

\* A mismatch is reported while the database is still undecided.
LEMMA ReportInv ==
    ASSUME NEW job \in Job, NEW w \in Worker, JobInv(job, w), w.pc = "run"
    PROVE  /\ [job EXCEPT !.mismatch[job.plan[w.db]] = TRUE] \in Job
           /\ JobInv([job EXCEPT !.mismatch[job.plan[w.db]] = TRUE], w)
           /\ [job EXCEPT !.mismatch[job.plan[w.db]] = TRUE].plan = job.plan
           /\ [job EXCEPT !.mismatch[job.plan[w.db]] = TRUE].status = job.status
<1> DEFINE m == [job EXCEPT !.mismatch[job.plan[w.db]] = TRUE]
<1>1. job.plan \in Plans /\ w.db \in Nat /\ w.db \in DOMAIN job.plan
  BY PlanFacts DEF Job, Worker, JobInv
<1>2. job.plan[w.db] \in Names
  BY <1>1, PlanFacts
<1>3. m \in Job /\ m.plan = job.plan /\ m.status = job.status
      /\ m.finished = job.finished /\ m.cancel = job.cancel
  BY <1>2 DEF Job
<1>4. \A e \in Names \ {job.plan[w.db]} : m.mismatch[e] = job.mismatch[e]
  BY <1>2 DEF Job
<1> HIDE DEF m
<1>5. \A i \in DOMAIN job.plan : i # w.db => m.mismatch[job.plan[i]] = job.mismatch[job.plan[i]]
  BY <1>1, <1>4, PlanFacts
<1>6. job.status[job.plan[w.db]] \in Undecided
  BY <1>1 DEF JobInv
<1>7. JobInv(m, w)
  BY <1>1, <1>3, <1>5, <1>6 DEF JobInv, Undecided
<1> QED
  BY <1>3, <1>7 DEF m

\* After the last database the job is finished.
LEMMA FinishInv ==
    ASSUME NEW job \in Job, NEW w \in Worker, JobInv(job, w),
           w.pc = "next", ~(w.db <= Len(job.plan))
    PROVE  JobInv(Finish(job), [w EXCEPT !.pc = "done"])
<1>1. job.plan \in Plans /\ w.db \in Nat
  BY DEF Job, Worker
<1>2. [w EXCEPT !.pc = "done"].pc = "done" /\ [w EXCEPT !.pc = "done"].db = w.db
  BY DEF Worker
<1>3. \A i \in DOMAIN job.plan : i < w.db
  BY <1>1, PlanFacts
<1> QED
  BY <1>1, <1>2, <1>3, PlanFacts, FinishFields DEF JobInv

----------------------------------------------------------------------------
(* The inductive invariant.                                                *)

\* Every database that was stopped belongs to a job somebody cancelled.
StoppedInv ==
    \A j \in DOMAIN jobs : \A d \in Names :
        jobs[j].status[d] = "stopped" => j \in cancelled

IInv ==
    /\ TypeOK
    /\ \A j \in DOMAIN jobs : JobInv(jobs[j], worker[j])
    /\ StoppedInv

\* TypeOK in the terms of this module.
LEMMA TypeFacts ==
    ASSUME TypeOK
    PROVE  /\ jobs \in Seq(Job) /\ worker \in Seq(Worker)
           /\ Len(worker) = Len(jobs) /\ Len(jobs) \in Nat
           /\ DOMAIN jobs = 1..Len(jobs) /\ DOMAIN worker = 1..Len(jobs)
           /\ \A j \in DOMAIN jobs : jobs[j] \in Job /\ worker[j] \in Worker
<1>1. jobs \in Seq(Job) /\ worker \in Seq(Worker)
  BY DEF TypeOK, Job, Worker
<1>2. DOMAIN jobs = 1..Len(jobs) /\ DOMAIN worker = 1..Len(worker)
      /\ Len(jobs) \in Nat /\ Len(worker) \in Nat
  BY <1>1
<1>3. Len(worker) = Len(jobs)
  BY <1>2 DEF TypeOK
<1> QED
  BY <1>1, <1>2, <1>3

\* A step of the goroutine of job j, or of a handler on it: the invariant only
\* has to be shown for that job.
LEMMA OneJob ==
    ASSUME IInv, NEW j \in DOMAIN jobs, NEW m \in Job, NEW w \in Worker,
           jobs' = [jobs EXCEPT ![j] = m], worker' = [worker EXCEPT ![j] = w],
           JobInv(m, w),
           \A d \in Names : m.status[d] = "stopped"
                => j \in cancelled \/ jobs[j].status[d] = "stopped",
           cancelled' = cancelled, owed' \subseteq owed \cup DOMAIN jobs
    PROVE  IInv'
<1> USE TypeFacts DEF IInv
<1>1. jobs' \in Seq(Job) /\ worker' \in Seq(Worker) /\ DOMAIN jobs' = DOMAIN jobs
      /\ DOMAIN worker' = DOMAIN worker
  OBVIOUS
<1>2. jobs'[j] = m /\ worker'[j] = w
      /\ \A k \in DOMAIN jobs \ {j} : jobs'[k] = jobs[k] /\ worker'[k] = worker[k]
  OBVIOUS
<1>3. \A k \in DOMAIN jobs' : JobInv(jobs'[k], worker'[k])
  BY <1>1, <1>2
<1>4. TypeOK'
  <2>1. \A k \in DOMAIN jobs' : worker'[k].db \in 1..(Len(jobs'[k].plan) + 1)
    BY <1>3 DEF JobInv
  <2> QED
    BY <1>1, <2>1 DEF TypeOK, Job, Worker
<1>5. StoppedInv'
  BY <1>1, <1>2 DEF StoppedInv
<1> QED
  BY <1>3, <1>4, <1>5

\* The empty store.
LEMMA InitIInv == Init => IInv
BY DEF Init, IInv, TypeOK, StoppedInv

\* Every step keeps the invariant.
LEMMA StepIInv == IInv /\ [Next]_vars => IInv'
<1> SUFFICES ASSUME IInv, [Next]_vars
             PROVE  IInv'
  OBVIOUS
<1> USE TypeFacts DEF IInv
<1>1. ASSUME NEW plan \in Plans, PostJob(plan)
      PROVE  IInv'
  <2> DEFINE w == [pc |-> "next", db |-> 1]
  <2>1. NewJob(plan) \in Job /\ JobInv(NewJob(plan), w) /\ w \in Worker
    BY NewJobInv DEF Worker
  <2>2. /\ jobs' = Append(jobs, NewJob(plan)) /\ worker' = Append(worker, w)
        /\ cancelled' = cancelled /\ owed' = owed
    BY <1>1 DEF PostJob
  <2> HIDE DEF w
  <2>3. /\ jobs' \in Seq(Job) /\ worker' \in Seq(Worker)
        /\ DOMAIN jobs' = 1..(Len(jobs) + 1) /\ DOMAIN worker' = 1..(Len(jobs) + 1)
        /\ jobs'[Len(jobs) + 1] = NewJob(plan) /\ worker'[Len(jobs) + 1] = w
        /\ \A k \in DOMAIN jobs : jobs'[k] = jobs[k] /\ worker'[k] = worker[k]
    BY <2>1, <2>2
  <2>4. \A k \in DOMAIN jobs' : k \in DOMAIN jobs \/ k = Len(jobs) + 1
    BY <2>3
  <2>5. \A k \in DOMAIN jobs' : JobInv(jobs'[k], worker'[k])
    BY <2>1, <2>3, <2>4
  <2>6. TypeOK'
    <3>1. \A k \in DOMAIN jobs' : worker'[k].db \in 1..(Len(jobs'[k].plan) + 1)
      BY <2>5 DEF JobInv
    <3>2. cancelled' \subseteq DOMAIN jobs' /\ owed' \subseteq DOMAIN jobs'
      BY <2>2, <2>3 DEF TypeOK
    <3> QED
      BY <2>3, <3>1, <3>2 DEF TypeOK, Job, Worker
  <2>7. StoppedInv'
    <3>1. \A d \in Names : NewJob(plan).status[d] = "running"
      BY DEF NewJob
    <3> QED
      BY <2>2, <2>3, <2>4, <3>1 DEF StoppedInv
  <2> QED
    BY <2>5, <2>6, <2>7
<1>2. ASSUME NEW j \in DOMAIN jobs, StopJob(j)
      PROVE  IInv'
  <2>1. JobInv(MarkStopping(jobs[j]), worker[j])
    BY MarkStoppingInv
  <2>2. \A d \in Names : MarkStopping(jobs[j]).status[d] = "stopped"
                            => jobs[j].status[d] = "stopped"
    BY MarkStoppingFields DEF StoppingStatus
  <2>3. worker' = [worker EXCEPT ![j] = worker[j]]
    BY <1>2 DEF StopJob
  <2>4. MarkStopping(jobs[j]) \in Job
    BY MarkStoppingFields
  <2> QED
    BY <1>2, <2>1, <2>2, <2>3, <2>4, OneJob DEF StopJob
<1>3. CASE Close
  BY <1>3 DEF Close, TypeOK, StoppedInv
<1>4. ASSUME NEW j \in owed, CallCancel(j)
      PROVE  IInv'
  BY <1>4 DEF CallCancel, TypeOK, StoppedInv
<1>5. ASSUME NEW j \in DOMAIN jobs, ObserveCancel(j) \/ RunCanceled(j)
      PROVE  IInv'
  <2>1. JobInv(StopDatabases(jobs[j]), [worker[j] EXCEPT !.pc = "done"])
    BY StopDatabasesInv
  <2>2. StopDatabases(jobs[j]) \in Job /\ [worker[j] EXCEPT !.pc = "done"] \in Worker
    BY StopDatabasesFields DEF Worker
  <2>3. j \in cancelled /\ cancelled' = cancelled /\ owed' = owed
        /\ jobs' = [jobs EXCEPT ![j] = StopDatabases(jobs[j])]
        /\ worker' = [worker EXCEPT ![j] = [worker[j] EXCEPT !.pc = "done"]]
    BY <1>5 DEF ObserveCancel, RunCanceled, Return
  <2> QED
    BY <2>1, <2>2, <2>3, OneJob
<1>6. ASSUME NEW j \in DOMAIN jobs, RequestFails(j) \/ RunFails(j)
      PROVE  IInv'
  <2>1. worker[j].pc # "done" /\ worker[j].db <= Len(jobs[j].plan)
    BY <1>6 DEF RequestFails, RunFails, At, MoreDatabases, JobInv
  <2>2. Current(j) \in Names
    BY <2>1, PlanFacts DEF Current, Job, Worker, JobInv
  <2> DEFINE m == FailDatabase(jobs[j], Current(j))
             w == [pc |-> "next", db |-> worker[j].db + 1]
  <2>3. /\ m \in Job /\ m.plan = jobs[j].plan /\ m.mismatch = jobs[j].mismatch
        /\ m.finished = jobs[j].finished /\ m.cancel = jobs[j].cancel
        /\ m.status[Current(j)] = "failed"
        /\ \A e \in Names \ {Current(j)} : m.status[e] = jobs[j].status[e]
    BY <2>2, FailDatabaseFields
  <2>4. w \in Worker
    BY DEF Worker
  <2>5. cancelled' = cancelled /\ owed' = owed
        /\ jobs' = [jobs EXCEPT ![j] = m] /\ worker' = [worker EXCEPT ![j] = w]
    BY <1>6 DEF RequestFails, RunFails, Continue
  <2> HIDE DEF m
  <2>6. JobInv(m, w)
    BY <2>1, <2>3, DecideInv DEF Current, Ended
  <2>7. \A d \in Names : m.status[d] = "stopped" => jobs[j].status[d] = "stopped"
    BY <2>3
  <2>8. m \in Job
    BY <2>3
  <2> HIDE DEF w
  <2> HIDE DEF IInv
  <2> QED
    BY ONLY IInv, j \in DOMAIN jobs, <2>4, <2>5, <2>6, <2>7, <2>8, OneJob
<1>7. ASSUME NEW j \in DOMAIN jobs, StartRun(j)
      PROVE  IInv'
  <2> DEFINE w == [worker[j] EXCEPT !.pc = "run"]
  <2>1. w \in Worker /\ w.pc = "run" /\ w.db = worker[j].db
    BY DEF Worker
  <2>2. worker[j].pc = "next" /\ worker[j].db <= Len(jobs[j].plan)
        /\ worker' = [worker EXCEPT ![j] = w] /\ jobs' = [jobs EXCEPT ![j] = jobs[j]]
        /\ cancelled' = cancelled /\ owed' = owed
    BY <1>7 DEF StartRun, At, MoreDatabases
  <2> HIDE DEF w
  <2>3. JobInv(jobs[j], worker[j])
    OBVIOUS
  <2>4. JobInv(jobs[j], w)
    BY ONLY <2>1, <2>2, <2>3 DEF JobInv
  <2> QED
    BY <2>1, <2>2, <2>4, OneJob
<1>8. ASSUME NEW j \in DOMAIN jobs, ReportMismatch(j)
      PROVE  IInv'
  <2> DEFINE m == [jobs[j] EXCEPT !.mismatch[Current(j)] = TRUE]
  <2>1. m \in Job /\ JobInv(m, worker[j]) /\ m.status = jobs[j].status
    BY <1>8, ReportInv DEF ReportMismatch, At, Current
  <2>2. worker' = [worker EXCEPT ![j] = worker[j]] /\ jobs' = [jobs EXCEPT ![j] = m]
        /\ cancelled' = cancelled /\ owed' = owed
    BY <1>8 DEF ReportMismatch
  <2> HIDE DEF m
  <2> QED
    BY <2>1, <2>2, OneJob
<1>9. ASSUME NEW j \in DOMAIN jobs, RunSucceeds(j)
      PROVE  IInv'
  <2>1. worker[j].pc # "done" /\ worker[j].db <= Len(jobs[j].plan)
    BY <1>9 DEF RunSucceeds, At, JobInv
  <2>2. Current(j) \in Names
    BY <2>1, PlanFacts DEF Current, Job, Worker, JobInv
  <2> DEFINE m == CompleteDatabase(jobs[j], Current(j))
             w == [pc |-> "next", db |-> worker[j].db + 1]
  <2>3. /\ m \in Job /\ m.plan = jobs[j].plan /\ m.mismatch = jobs[j].mismatch
        /\ m.finished = jobs[j].finished /\ m.cancel = jobs[j].cancel
        /\ m.status[Current(j)] = IF jobs[j].mismatch[Current(j)] THEN "failed" ELSE "succeeded"
        /\ \A e \in Names \ {Current(j)} : m.status[e] = jobs[j].status[e]
    BY <2>2, CompleteDatabaseFields
  <2>4. w \in Worker
    BY DEF Worker
  <2>5. cancelled' = cancelled /\ owed' = owed
        /\ jobs' = [jobs EXCEPT ![j] = m] /\ worker' = [worker EXCEPT ![j] = w]
    BY <1>9 DEF RunSucceeds, Continue
  <2> HIDE DEF m
  <2>6. JobInv(m, w)
    BY <2>1, <2>3, DecideInv DEF Current, Ended
  <2>7. \A d \in Names : m.status[d] = "stopped" => jobs[j].status[d] = "stopped"
    BY <2>3
  <2>8. m \in Job
    BY <2>3
  <2> HIDE DEF w
  <2> HIDE DEF IInv
  <2> QED
    BY ONLY IInv, j \in DOMAIN jobs, <2>4, <2>5, <2>6, <2>7, <2>8, OneJob
<1>10. ASSUME NEW j \in DOMAIN jobs, FinishJob(j)
       PROVE  IInv'
  <2>1. JobInv(Finish(jobs[j]), [worker[j] EXCEPT !.pc = "done"])
    BY <1>10, FinishInv DEF FinishJob, At, MoreDatabases
  <2>2. Finish(jobs[j]) \in Job /\ [worker[j] EXCEPT !.pc = "done"] \in Worker
        /\ Finish(jobs[j]).status = jobs[j].status
    BY FinishFields DEF Worker
  <2>3. cancelled' = cancelled /\ owed' = owed
        /\ jobs' = [jobs EXCEPT ![j] = Finish(jobs[j])]
        /\ worker' = [worker EXCEPT ![j] = [worker[j] EXCEPT !.pc = "done"]]
    BY <1>10 DEF FinishJob, Return
  <2> QED
    BY <2>1, <2>2, <2>3, OneJob
<1>11. CASE UNCHANGED vars
  BY <1>11 DEF vars, TypeOK, StoppedInv
<1> QED
  BY <1>1, <1>2, <1>3, <1>4, <1>5, <1>6, <1>7, <1>8, <1>9, <1>10, <1>11 DEF Next

\* The invariant holds in every reachable state.
LEMMA Invariance == Spec => []IInv
BY InitIInv, StepIInv, PTL DEF Spec

----------------------------------------------------------------------------
(* The status a client sees.                                               *)

\* status() is decided by the databases that have not ended, if there are any.
LEMMA StatusCases ==
    ASSUME NEW job \in Job
    PROVE  /\ (\E d \in Planned(job) : job.status[d] = "stopping") => StatusOf(job) = "stopping"
           /\ (/\ \A d \in Planned(job) : job.status[d] # "stopping"
               /\ \E d \in Planned(job) : job.status[d] = "running")
                  => StatusOf(job) = "running"
           /\ (\A d \in Planned(job) : job.status[d] \in Ended) => StatusOf(job) \in Ended
           /\ (\A d \in Planned(job) : job.status[d] \in Ended) =>
                 (StatusOf(job) = "succeeded" =>
                    \A d \in Planned(job) : job.status[d] = "succeeded")
           /\ StatusOf(job) \in DatabaseStatus
<1>1. \E d \in Planned(job) : TRUE
  BY PlanFacts DEF Planned, Job
<1>2. \A d \in Planned(job) : job.status[d] \in DatabaseStatus
  BY PlanFacts DEF Planned, Job
<1> QED
  BY <1>1, <1>2 DEF StatusOf, DatabaseStatus, Ended

\* Whether a job is active depends on whether one of its databases is undecided.
LEMMA ActiveCases ==
    ASSUME NEW job \in Job
    PROVE  ActiveJob(job) <=> \E d \in Planned(job) : job.status[d] \in Undecided
<1>1. \A d \in Planned(job) : job.status[d] \in DatabaseStatus
  BY PlanFacts DEF Planned, Job
<1>2. Undecided \cap Ended = {} /\ DatabaseStatus = Undecided \cup Ended
  BY DEF Undecided, Ended, DatabaseStatus
<1> QED
  BY <1>1, <1>2, StatusCases DEF ActiveJob, Undecided

\* The databases of a plan, by index.
LEMMA PlannedByIndex ==
    ASSUME NEW job
    PROVE  /\ \A d \in Planned(job) : \E i \in DOMAIN job.plan : d = job.plan[i]
           /\ \A i \in DOMAIN job.plan : job.plan[i] \in Planned(job)
BY DEF Planned

----------------------------------------------------------------------------
(* The safety properties.                                                  *)

\* The job store and the goroutines keep their types.
THEOREM TypeCorrect == Spec => []TypeOK
BY Invariance, PTL DEF IInv

\* A job a client sees as running or stopping has a live goroutine and can be
\* stopped: neither finishJob nor stopJob leaves a database undecided.
THEOREM ActiveJobsAreStoppable == Spec => []ActiveIsStoppable
<1>1. IInv => ActiveIsStoppable
  <2> SUFFICES ASSUME IInv, NEW j \in DOMAIN jobs, ActiveJob(jobs[j])
               PROVE  jobs[j].cancel /\ ~jobs[j].finished /\ ~At(j, "done")
    BY DEF ActiveIsStoppable
  <2>1. jobs[j] \in Job /\ JobInv(jobs[j], worker[j])
    BY TypeFacts DEF IInv
  <2>2. PICK i \in DOMAIN jobs[j].plan : jobs[j].status[jobs[j].plan[i]] \in Undecided
    BY <2>1, ActiveCases, PlannedByIndex
  <2>3. worker[j].pc # "done"
    BY <2>1, <2>2 DEF JobInv, Undecided, Ended
  <2> QED
    BY <2>1, <2>3 DEF JobInv, At
<1> QED
  BY <1>1, Invariance, PTL

\* A job that is reported as succeeded had no mismatch in any of its databases.
THEOREM SucceededJobsAreClean == Spec => []SucceededIsClean
<1>1. IInv => SucceededIsClean
  <2> SUFFICES ASSUME IInv, NEW j \in DOMAIN jobs, StatusOf(jobs[j]) = "succeeded",
                      NEW d \in Planned(jobs[j])
               PROVE  ~jobs[j].mismatch[d]
    BY DEF SucceededIsClean
  <2>1. jobs[j] \in Job /\ JobInv(jobs[j], worker[j])
    BY TypeFacts DEF IInv
  <2>2. ~ActiveJob(jobs[j])
    BY DEF ActiveJob
  <2>3. \A e \in Planned(jobs[j]) : jobs[j].status[e] \in DatabaseStatus
    BY <2>1, PlanFacts DEF Planned, Job
  <2>4. \A e \in Planned(jobs[j]) : jobs[j].status[e] \in Ended
    BY <2>1, <2>2, <2>3, ActiveCases DEF DatabaseStatus, Undecided
  <2>5. jobs[j].status[d] = "succeeded"
    BY <2>1, <2>4, StatusCases
  <2> QED
    BY <2>1, <2>5, PlannedByIndex DEF JobInv
<1> QED
  BY <1>1, Invariance, PTL

\* A database is only stopped when its job's context was cancelled: the failure
\* of one database never stops another.
THEOREM StopsAreRequested == Spec => []StoppedOnlyIfCancelled
<1>1. IInv => StoppedOnlyIfCancelled
  <2>1. ASSUME IInv, NEW j \in DOMAIN jobs
        PROVE  Planned(jobs[j]) \subseteq Names
    BY <2>1, TypeFacts, PlanFacts DEF IInv, Planned, Job
  <2> QED
    BY <2>1 DEF IInv, StoppedInv, StoppedOnlyIfCancelled
<1> QED
  BY <1>1, Invariance, PTL

----------------------------------------------------------------------------
(* Results are final.                                                      *)

\* The databases that have ended keep their status.
Kept ==
    \A k \in DOMAIN jobs : \A d \in Names :
        jobs[k].status[d] \in Ended => jobs'[k].status[d] = jobs[k].status[d]

\* The goroutine decides a database that has not ended.
LEMMA CurrentIsUndecided ==
    ASSUME IInv, NEW j \in DOMAIN jobs, worker[j].pc # "done", worker[j].db <= Len(jobs[j].plan)
    PROVE  Current(j) \in Names /\ jobs[j].status[Current(j)] \notin Ended
<1>1. /\ JobInv(jobs[j], worker[j]) /\ jobs[j].plan \in Plans
      /\ worker[j].db \in DOMAIN jobs[j].plan
  BY TypeFacts, PlanFacts DEF IInv, Job, Worker, JobInv
<1>2. jobs[j].status[jobs[j].plan[worker[j].db]] \in Undecided
  <2>1. worker[j].db \in Nat /\ worker[j].db >= worker[j].db
    BY TypeFacts DEF IInv, Worker
  <2> QED
    BY <1>1, <2>1 DEF JobInv
<1> QED
  BY <1>1, <1>2, PlanFacts DEF Current, Undecided, Ended

\* Every step keeps the results there are.
LEMMA StepKeeps == IInv /\ Next => Kept
<1> SUFFICES ASSUME IInv, Next
             PROVE  Kept
  OBVIOUS
<1>0. /\ jobs \in Seq(Job) /\ \A j \in DOMAIN jobs : jobs[j] \in Job /\ worker[j] \in Worker
      /\ \A j \in DOMAIN jobs : JobInv(jobs[j], worker[j])
  BY TypeFacts DEF IInv
<1>1. ASSUME NEW plan \in Plans, PostJob(plan)
      PROVE  Kept
  <2>1. \A k \in DOMAIN jobs : jobs'[k] = jobs[k]
    BY <1>0, <1>1 DEF PostJob
  <2> QED
    BY <2>1 DEF Kept
<1>2. ASSUME NEW j \in DOMAIN jobs, StopJob(j)
      PROVE  Kept
  <2> DEFINE m == MarkStopping(jobs[j])
  <2>1. jobs' = [jobs EXCEPT ![j] = m]
    BY <1>2 DEF StopJob
  <2>2. \A d \in Names : jobs[j].status[d] \in Ended =>
                            m.status[d] = jobs[j].status[d]
    BY <1>0, MarkStoppingFields DEF StoppingStatus, Ended
  <2> HIDE DEF m
  <2>3. \A k \in DOMAIN jobs : jobs'[k] = IF k = j THEN m ELSE jobs[k]
    BY <1>0, <2>1
  <2> QED
    BY <2>2, <2>3 DEF Kept
<1>3. ASSUME NEW j \in DOMAIN jobs, ObserveCancel(j) \/ RunCanceled(j)
      PROVE  Kept
  <2> DEFINE m == StopDatabases(jobs[j])
  <2>1. jobs' = [jobs EXCEPT ![j] = m]
    BY <1>3 DEF ObserveCancel, RunCanceled
  <2>2. \A d \in Names : jobs[j].status[d] \in Ended =>
                            m.status[d] = jobs[j].status[d]
    BY <1>0, StopDatabasesFields DEF StoppedStatus, Ended
  <2> HIDE DEF m
  <2>3. \A k \in DOMAIN jobs : jobs'[k] = IF k = j THEN m ELSE jobs[k]
    BY <1>0, <2>1
  <2> QED
    BY <2>2, <2>3 DEF Kept
<1>4. ASSUME NEW j \in DOMAIN jobs, RequestFails(j) \/ RunFails(j)
      PROVE  Kept
  <2> DEFINE m == FailDatabase(jobs[j], Current(j))
  <2>1. worker[j].pc # "done" /\ worker[j].db <= Len(jobs[j].plan)
    BY <1>0, <1>4 DEF RequestFails, RunFails, At, MoreDatabases, JobInv
  <2>2. jobs' = [jobs EXCEPT ![j] = m]
    BY <1>4 DEF RequestFails, RunFails
  <2>3. Current(j) \in Names /\ jobs[j].status[Current(j)] \notin Ended
    BY <2>1, CurrentIsUndecided
  <2>4. \A d \in Names : jobs[j].status[d] \in Ended =>
                            m.status[d] = jobs[j].status[d]
    BY <1>0, <2>3, FailDatabaseFields
  <2> HIDE DEF m
  <2>5. \A k \in DOMAIN jobs : jobs'[k] = IF k = j THEN m ELSE jobs[k]
    BY <1>0, <2>2
  <2> QED
    BY <2>4, <2>5 DEF Kept
<1>5. ASSUME NEW j \in DOMAIN jobs, RunSucceeds(j)
      PROVE  Kept
  <2> DEFINE m == CompleteDatabase(jobs[j], Current(j))
  <2>1. worker[j].pc # "done" /\ worker[j].db <= Len(jobs[j].plan)
    BY <1>0, <1>5 DEF RunSucceeds, At, JobInv
  <2>2. jobs' = [jobs EXCEPT ![j] = m]
    BY <1>5 DEF RunSucceeds
  <2>3. Current(j) \in Names /\ jobs[j].status[Current(j)] \notin Ended
    BY <2>1, CurrentIsUndecided
  <2>4. \A d \in Names : jobs[j].status[d] \in Ended =>
                            m.status[d] = jobs[j].status[d]
    BY <1>0, <2>3, CompleteDatabaseFields
  <2> HIDE DEF m
  <2>5. \A k \in DOMAIN jobs : jobs'[k] = IF k = j THEN m ELSE jobs[k]
    BY <1>0, <2>2
  <2> QED
    BY <2>4, <2>5 DEF Kept
<1>6. ASSUME NEW j \in DOMAIN jobs, ReportMismatch(j)
      PROVE  Kept
  <2> DEFINE m == [jobs[j] EXCEPT !.mismatch[Current(j)] = TRUE]
  <2>1. jobs' = [jobs EXCEPT ![j] = m] /\ m.status = jobs[j].status
    BY <1>0, <1>6 DEF ReportMismatch, Job
  <2> HIDE DEF m
  <2>2. \A k \in DOMAIN jobs : jobs'[k] = IF k = j THEN m ELSE jobs[k]
    BY <1>0, <2>1
  <2> QED
    BY <2>1, <2>2 DEF Kept
<1>7. ASSUME NEW j \in DOMAIN jobs, FinishJob(j)
      PROVE  Kept
  <2> DEFINE m == Finish(jobs[j])
  <2>1. jobs' = [jobs EXCEPT ![j] = m]
    BY <1>7 DEF FinishJob
  <2>2. m.status = jobs[j].status
    BY <1>0, FinishFields
  <2> HIDE DEF m
  <2>3. \A k \in DOMAIN jobs : jobs'[k] = IF k = j THEN m ELSE jobs[k]
    BY <1>0, <2>1
  <2> QED
    BY <2>2, <2>3 DEF Kept
<1>8. CASE UNCHANGED jobs
  BY <1>8 DEF Kept
<1>9. ASSUME Close \/ (\E j \in owed : CallCancel(j)) \/ (\E j \in DOMAIN jobs : StartRun(j))
      PROVE  UNCHANGED jobs
  BY <1>9 DEF Close, CallCancel, StartRun
<1> QED
  BY <1>1, <1>2, <1>3, <1>4, <1>5, <1>6, <1>7, <1>8, <1>9 DEF Next

\* A database that ended keeps its status, whatever happens to its job afterwards:
\* neither a stop nor a late completion overwrites a result (ResultsAreKept).
THEOREM ResultsAreFinal == Spec => ResultsAreKept
<1> DEFINE Final == \A j \in DOMAIN jobs : \A d \in Planned(jobs[j]) :
                       jobs[j].status[d] \in Ended => jobs'[j].status[d] = jobs[j].status[d]
<1>1. IInv /\ [Next]_vars => [Final]_vars
  <2> SUFFICES ASSUME IInv, Next
               PROVE  Final
    OBVIOUS
  <2>1. ASSUME NEW j \in DOMAIN jobs
        PROVE  Planned(jobs[j]) \subseteq Names
    BY TypeFacts, PlanFacts DEF IInv, Planned, Job
  <2> QED
    BY <2>1, StepKeeps DEF Kept
<1> QED
  BY <1>1, Invariance, PTL DEF Spec, ResultsAreKept

----------------------------------------------------------------------------
(* The refinement of JobLifecycle.                                         *)

\* A step on job j changes what a client sees of that job only.
LEMMA ViewOfOneJob ==
    ASSUME IInv, NEW j \in DOMAIN jobs, NEW m \in Job, jobs' = [jobs EXCEPT ![j] = m]
    PROVE  /\ View' = [View EXCEPT ![j] = StatusOf(m)]
           /\ StatusOf(m) = StatusOf(jobs[j]) => View' = View
           /\ DOMAIN View = DOMAIN jobs
           /\ View[j] = StatusOf(jobs[j])
<1>1. DOMAIN jobs' = DOMAIN jobs /\ jobs'[j] = m
      /\ \A k \in DOMAIN jobs \ {j} : jobs'[k] = jobs[k]
  OBVIOUS
<1>2. /\ View = [k \in DOMAIN jobs |-> StatusOf(jobs[k])]
      /\ View' = [k \in DOMAIN jobs |-> StatusOf(jobs'[k])]
  BY <1>1 DEF View
<1> HIDE DEF View
<1> QED
  BY <1>1, <1>2

\* An active job that is decided ends; one whose status stays is not seen to move.
LEMMA EndOrStutter ==
    ASSUME IInv, NEW j \in DOMAIN jobs, NEW m \in Job, jobs' = [jobs EXCEPT ![j] = m],
           \/ StatusOf(m) = StatusOf(jobs[j])
           \/ ActiveJob(jobs[j]) /\ StatusOf(m) \in Ended
    PROVE  [Lifecycle!Next]_View
<1>1. CASE StatusOf(m) = StatusOf(jobs[j])
  BY <1>1, ViewOfOneJob
<1>2. CASE ActiveJob(jobs[j]) /\ StatusOf(m) \in Ended
  <2>1. Lifecycle!End(j, StatusOf(m))
    BY <1>2, ViewOfOneJob DEF Lifecycle!End, ActiveJob
  <2>2. StatusOf(m) \in Lifecycle!Ended
    BY <1>2 DEF Lifecycle!Ended, Ended
  <2>3. j \in DOMAIN View
    BY ViewOfOneJob
  <2> QED
    BY <2>1, <2>2, <2>3 DEF Lifecycle!Next
<1> QED
  BY <1>1, <1>2

\* Deciding the current database keeps the status as long as others are left,
\* because those are all in the state it was in.
LEMMA DecideOne ==
    ASSUME NEW job \in Job, NEW w \in Worker, JobInv(job, w),
           w.pc # "done", w.db <= Len(job.plan), NEW m \in Job, m.plan = job.plan,
           m.status[job.plan[w.db]] \in Ended,
           \A e \in Names \ {job.plan[w.db]} : m.status[e] = job.status[e]
    PROVE  StatusOf(m) = StatusOf(job) \/ (ActiveJob(job) /\ StatusOf(m) \in Ended)
<1>1. job.plan \in Plans /\ w.db \in Nat
  BY DEF Job, Worker
<1>2. w.db \in DOMAIN job.plan /\ DOMAIN job.plan \subseteq Nat
  BY <1>1, PlanFacts DEF JobInv
<1>3. \A i \in DOMAIN job.plan : i # w.db => m.status[job.plan[i]] = job.status[job.plan[i]]
  BY <1>1, <1>2, PlanFacts
<1>4. job.status[job.plan[w.db]] \in Undecided
  BY <1>2 DEF JobInv
<1>5. ActiveJob(job)
  BY <1>2, <1>4, ActiveCases, PlannedByIndex
<1>6. Planned(m) = Planned(job)
  BY DEF Planned
<1>7. CASE \A i \in DOMAIN job.plan : i <= w.db
  <2>1. \A i \in DOMAIN job.plan : m.status[job.plan[i]] \in Ended
    BY <1>2, <1>3, <1>7 DEF JobInv
  <2>2. \A d \in Planned(m) : m.status[d] \in Ended
    BY <1>6, <2>1, PlannedByIndex
  <2> QED
    BY <1>5, <2>2, StatusCases
<1>8. CASE \E n \in DOMAIN job.plan : n > w.db
  <2>1. PICK n \in DOMAIN job.plan : n > w.db
    BY <1>8
  <2> DEFINE s == job.status[job.plan[w.db]]
  <2>2. job.status[job.plan[n]] = s /\ m.status[job.plan[n]] = s
    BY <1>2, <1>3, <2>1 DEF JobInv
  <2>3. \A i \in DOMAIN job.plan : /\ job.status[job.plan[i]] \in {s} \cup Ended
                                   /\ m.status[job.plan[i]] \in {s} \cup Ended
    BY <1>2, <1>3 DEF JobInv
  <2> HIDE DEF s
  <2>4. \A d \in Planned(job) : /\ job.status[d] \in {s} \cup Ended
                                /\ m.status[d] \in {s} \cup Ended
    BY <2>3, PlannedByIndex
  <2>5. \E d \in Planned(job) : job.status[d] = s /\ m.status[d] = s
    BY <2>1, <2>2, PlannedByIndex
  <2>6. s \in {"running", "stopping"}
    BY <1>4 DEF Undecided, s
  <2>7. StatusOf(job) = s
    BY <2>4, <2>5, <2>6, StatusCases DEF Ended
  <2>8. StatusOf(m) = s
    BY <1>6, <2>4, <2>5, <2>6, StatusCases DEF Ended
  <2> QED
    BY <2>7, <2>8
<1> QED
  BY <1>2, <1>7, <1>8

\* Every step of the service is a step of the lifecycle, or not seen.
LEMMA StepRefines == IInv /\ [Next]_vars => [Lifecycle!Next]_View
<1> SUFFICES ASSUME IInv, [Next]_vars
             PROVE  [Lifecycle!Next]_View
  OBVIOUS
<1>0. /\ jobs \in Seq(Job) /\ Len(jobs) \in Nat /\ DOMAIN jobs = 1..Len(jobs)
      /\ \A j \in DOMAIN jobs : /\ jobs[j] \in Job /\ worker[j] \in Worker
                                /\ JobInv(jobs[j], worker[j])
  BY TypeFacts DEF IInv
<1>1. ASSUME NEW plan \in Plans, PostJob(plan)
      PROVE  [Lifecycle!Next]_View
  <2>1. jobs' = Append(jobs, NewJob(plan)) /\ NewJob(plan) \in Job
    BY <1>1, NewJobInv DEF PostJob
  <2>2. /\ DOMAIN jobs' = 1..(Len(jobs) + 1) /\ jobs'[Len(jobs) + 1] = NewJob(plan)
        /\ \A k \in DOMAIN jobs : jobs'[k] = jobs[k]
    BY <1>0, <2>1
  <2>3. StatusOf(NewJob(plan)) = "running"
    <3>1. NewJob(plan).plan = plan /\ \A d \in Names : NewJob(plan).status[d] = "running"
      BY DEF NewJob
    <3>2. 1 \in DOMAIN plan /\ \A i \in DOMAIN plan : plan[i] \in Names
      BY PlanFacts
    <3>3. /\ \A d \in Planned(NewJob(plan)) : NewJob(plan).status[d] = "running"
          /\ \E d \in Planned(NewJob(plan)) : TRUE
      BY <3>1, <3>2 DEF Planned
    <3> QED
      BY <2>1, <3>3, StatusCases
  <2>4. View' = [k \in 1..(Len(jobs) + 1) |-> IF k = Len(jobs) + 1 THEN "running" ELSE View[k]]
    BY <1>0, <2>2, <2>3 DEF View
  <2>5. View \in Seq(DatabaseStatus) /\ Len(View) = Len(jobs)
    <3>1. \A k \in 1..Len(jobs) : StatusOf(jobs[k]) \in DatabaseStatus
      BY <1>0, StatusCases
    <3> QED
      BY <1>0, <3>1 DEF View
  <2> HIDE DEF View
  <2>6. View' = Append(View, "running")
    <3>1. "running" \in DatabaseStatus
      BY DEF DatabaseStatus
    <3>2. Append(View, "running") \in Seq(DatabaseStatus)
          /\ Len(Append(View, "running")) = Len(jobs) + 1
      BY <1>0, <2>5, <3>1
    <3>3. Append(View, "running") = [k \in 1..(Len(jobs) + 1) |-> Append(View, "running")[k]]
      BY <3>2, SequenceAsFunction
    <3>4. \A k \in 1..(Len(jobs) + 1) : Append(View, "running")[k] =
                IF k = Len(jobs) + 1 THEN "running" ELSE View[k]
      BY <1>0, <2>5
    <3> QED
      BY <2>4, <3>3, <3>4
  <2> QED
    BY <2>6 DEF Lifecycle!Next, Lifecycle!Accept
<1>2. ASSUME NEW j \in DOMAIN jobs, StopJob(j)
      PROVE  [Lifecycle!Next]_View
  <2> DEFINE m == MarkStopping(jobs[j])
  <2>1. jobs' = [jobs EXCEPT ![j] = m] /\ ActiveJob(jobs[j])
    BY <1>2 DEF StopJob
  <2>2. /\ m \in Job /\ m.plan = jobs[j].plan
        /\ \A d \in Names : m.status[d] = StoppingStatus(jobs[j].status[d])
    BY <1>0, MarkStoppingFields
  <2> HIDE DEF m
  <2>3. Planned(m) = Planned(jobs[j]) /\ Planned(m) \subseteq Names
    BY <1>0, <2>2, PlanFacts DEF Planned, Job
  <2>4. StatusOf(m) = "stopping"
    BY <1>0, <2>1, <2>2, <2>3, ActiveCases, StatusCases DEF StoppingStatus, Undecided
  <2>5. CASE StatusOf(jobs[j]) = "stopping"
    BY <1>0, <2>1, <2>2, <2>4, <2>5, EndOrStutter
  <2>6. CASE StatusOf(jobs[j]) = "running"
    <3>1. Lifecycle!RequestStop(j) /\ j \in DOMAIN View
      BY <2>1, <2>2, <2>4, <2>6, ViewOfOneJob DEF Lifecycle!RequestStop
    <3> QED
      BY <3>1 DEF Lifecycle!Next
  <2> QED
    BY <2>1, <2>5, <2>6 DEF ActiveJob
<1>3. CASE Close \/ (\E j \in owed : CallCancel(j)) \/ UNCHANGED vars
  BY <1>3 DEF Close, CallCancel, vars, View
<1>4. ASSUME NEW j \in DOMAIN jobs, ObserveCancel(j) \/ RunCanceled(j)
      PROVE  [Lifecycle!Next]_View
  <2> DEFINE m == StopDatabases(jobs[j])
  <2>1. jobs' = [jobs EXCEPT ![j] = m] /\ worker[j].pc # "done"
        /\ (worker[j].pc = "next" => worker[j].db <= Len(jobs[j].plan))
    BY <1>4 DEF ObserveCancel, RunCanceled, At, MoreDatabases
  <2>2. worker[j].db \in DOMAIN jobs[j].plan
    BY <1>0, <2>1, PlanFacts DEF JobInv, Worker, Job
  <2>3. ActiveJob(jobs[j])
    BY <1>0, <2>1, <2>2, ActiveCases, PlannedByIndex DEF JobInv, Worker
  <2>4. /\ m \in Job /\ m.plan = jobs[j].plan
        /\ \A d \in Names : m.status[d] = StoppedStatus(jobs[j].status[d])
    BY <1>0, StopDatabasesFields
  <2> HIDE DEF m
  <2>5. Planned(m) = Planned(jobs[j])
        /\ \A d \in Planned(m) : d \in Names /\ jobs[j].status[d] \in DatabaseStatus
    BY <1>0, <2>4, PlanFacts DEF Planned, Job
  <2>6. \A d \in Planned(m) : m.status[d] \in Ended
    BY <2>4, <2>5 DEF StoppedStatus, DatabaseStatus, Ended
  <2>7. StatusOf(m) \in Ended
    BY <2>4, <2>6, StatusCases
  <2> QED
    BY <2>1, <2>3, <2>4, <2>7, EndOrStutter
<1>5. ASSUME NEW j \in DOMAIN jobs, RequestFails(j) \/ RunFails(j) \/ RunSucceeds(j)
      PROVE  [Lifecycle!Next]_View
  <2>1. worker[j].pc # "done" /\ worker[j].db <= Len(jobs[j].plan)
    BY <1>0, <1>5 DEF RequestFails, RunFails, RunSucceeds, At, MoreDatabases, JobInv
  <2>2. Current(j) \in Names
    BY <1>0, <2>1, PlanFacts DEF Current, Job, Worker, JobInv
  <2>3. PICK m \in Job :
            /\ jobs' = [jobs EXCEPT ![j] = m]
            /\ m.plan = jobs[j].plan
            /\ m.status[Current(j)] \in {"failed", "succeeded"}
            /\ \A e \in Names \ {Current(j)} : m.status[e] = jobs[j].status[e]
    <3>1. CASE RequestFails(j) \/ RunFails(j)
      BY <1>0, <2>2, <3>1, FailDatabaseFields DEF RequestFails, RunFails
    <3>2. CASE RunSucceeds(j)
      <4> DEFINE m == CompleteDatabase(jobs[j], Current(j))
      <4>1. /\ m \in Job /\ m.plan = jobs[j].plan
            /\ m.status[Current(j)] \in {"failed", "succeeded"}
            /\ \A e \in Names \ {Current(j)} : m.status[e] = jobs[j].status[e]
        BY <1>0, <2>2, CompleteDatabaseFields
      <4>2. jobs' = [jobs EXCEPT ![j] = m]
        BY <3>2 DEF RunSucceeds
      <4> HIDE DEF m
      <4> QED
        BY <4>1, <4>2
    <3> QED
      BY <1>5, <3>1, <3>2
  <2>4. StatusOf(m) = StatusOf(jobs[j]) \/ (ActiveJob(jobs[j]) /\ StatusOf(m) \in Ended)
    BY <1>0, <2>1, <2>3, DecideOne DEF Current, Ended
  <2> QED
    BY <2>3, <2>4, EndOrStutter
<1>6. ASSUME NEW j \in DOMAIN jobs, StartRun(j)
      PROVE  [Lifecycle!Next]_View
  BY <1>6 DEF StartRun, View
<1>7. ASSUME NEW j \in DOMAIN jobs, ReportMismatch(j) \/ FinishJob(j)
      PROVE  [Lifecycle!Next]_View
  <2>1. PICK m \in Job : /\ jobs' = [jobs EXCEPT ![j] = m]
                         /\ m.plan = jobs[j].plan /\ m.status = jobs[j].status
    <3>1. CASE ReportMismatch(j)
      <4>1. At(j, "run")
        BY <3>1 DEF ReportMismatch
      <4> QED
        BY <1>0, <3>1, <4>1, ReportInv DEF ReportMismatch, At, Current
    <3>2. CASE FinishJob(j)
      BY <1>0, <3>2, FinishFields DEF FinishJob
    <3> QED
      BY <1>7, <3>1, <3>2
  <2>2. StatusOf(m) = StatusOf(jobs[j])
    BY <2>1 DEF StatusOf, Planned
  <2> QED
    BY <2>1, <2>2, EndOrStutter
<1> QED
  BY <1>1, <1>2, <1>3, <1>4, <1>5, <1>6, <1>7 DEF Next

\* What a client sees of the jobs is the promised lifecycle: a job that ended
\* never changes again and a stopping job never runs again, however stop
\* requests, completions and the shutdown interleave.
THEOREM JobsFollowLifecycle == Spec => ImplementsLifecycle
<1>1. Init => Lifecycle!Init
  BY DEF Init, Lifecycle!Init, View
<1> QED
  BY <1>1, StepRefines, Invariance, PTL DEF Spec, ImplementsLifecycle, Lifecycle!Spec
============================================================================

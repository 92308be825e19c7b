----------------------------- MODULE VerifyJobs -----------------------------
(***************************************************************************)
(* The verify-service's jobs: the in-memory job store behind one mutex,    *)
(* the HTTP handlers that start and stop jobs, the shutdown path, and the  *)
(* goroutine of each job that verifies the databases of its plan one after *)
(* the other.  An action is one critical section of the store, or one step *)
(* of a goroutine between two of them.                                     *)
(*                                                                         *)
(* Jobs are numbered in the order they were added.  Reports, errors and    *)
(* timestamps are kept as far as they decide a status: whether a mismatch  *)
(* was reported for a database, and whether finished_at is set.            *)
(***************************************************************************)
EXTENDS Naturals, Sequences, FiniteSets

CONSTANTS
    Configured,   \* verify.databases: the configured names, in order
    Outcomes,     \* what the Runner may return from Run
    MaxJobs       \* bound: jobs ever posted

Names == {Configured[i] : i \in DOMAIN Configured}

ASSUME JobsAssumption ==
    /\ Configured \in Seq(Names)
    /\ \A i, k \in DOMAIN Configured : Configured[i] = Configured[k] => i = k
    /\ Outcomes \subseteq {"ok", "error", "canceled"}
    /\ MaxJobs \in Nat

\* VerifyRunner.Run, the Runner of the service: what Verify returns is wrapped
\* in an operatorError without a cause, so errors.Is never finds
\* context.Canceled in it; errors of row shards are logged and Verify returns
\* nil.
VerifyRunnerOutcomes == {"ok", "error"}

VARIABLES
    jobs,       \* jobStore.jobs in the order of jobStore.order
    cancelled,  \* jobs whose context is cancelled
    owed,       \* cancel functions handed out by the store and not called yet
    worker      \* the goroutine of each job: runJob

vars == <<jobs, cancelled, owed, worker>>

Ended == {"succeeded", "failed", "stopped"}
DatabaseStatus == {"running", "stopping"} \cup Ended

----------------------------------------------------------------------------
(* job.go                                                                  *)

\* newJob: every database of the plan starts as running.
NewJob(plan) ==
    [plan     |-> plan,
     status   |-> [d \in Names |-> "running"],
     mismatch |-> [d \in Names |-> FALSE],
     finished |-> FALSE,
     cancel   |-> TRUE]

Planned(job) == {job.plan[i] : i \in DOMAIN job.plan}

\* status() that looks at ended databases first.
StatusEndedFirst(job) ==
    LET has(s) == \E d \in Planned(job) : job.status[d] = s
    IN  IF has("stopped") THEN "stopped"
        ELSE IF has("failed") THEN "failed"
        ELSE IF has("stopping") THEN "stopping"
        ELSE IF has("running") THEN "running"
        ELSE "succeeded"

\* status(): derived from the databases, in this order of priority.
StatusOf(job) ==
    LET has(s) == \E d \in Planned(job) : job.status[d] = s
    IN  CASE has("stopping") -> "stopping"
          [] ~has("stopping") /\ has("running") -> "running"
          [] \A d \in Planned(job) : job.status[d] = "succeeded" -> "succeeded"
          [] OTHER -> IF has("failed") THEN "failed" ELSE "stopped"

ActiveJob(job) == StatusOf(job) \in {"running", "stopping"}

\* databaseJob.markStopping: only while it runs.
StoppingStatus(s) == IF s = "running" THEN "stopping" ELSE s

\* A database that is already stopping is left alone.
StoppedIfRunning(s) == IF s = "running" THEN "stopped" ELSE s

\* A stop overwrites the failures there were before it.
StoppedUnlessSucceeded(s) == IF s = "succeeded" THEN s ELSE "stopped"

\* databaseJob.markStopped.
StoppedStatus(s) == IF s \in {"running", "stopping"} THEN "stopped" ELSE s

MarkStopping(job) ==
    [job EXCEPT !.status = [d \in Names |-> StoppingStatus(@[d])]]

\* finish: finished_at is set and the cancel function dropped.
Finish(job) == [job EXCEPT !.finished = TRUE, !.cancel = FALSE]

\* stop: markStopped on every database, then finish.
StopDatabases(job) ==
    Finish([job EXCEPT !.status = [d \in Names |-> StoppedStatus(@[d])]])

\* complete, whatever was reported.
CompleteBlindly(job, d) == [job EXCEPT !.status[d] = "succeeded"]

\* complete: a mismatch report makes the database fail.
CompleteDatabase(job, d) ==
    [job EXCEPT !.status[d] = IF job.mismatch[d] THEN "failed" ELSE "succeeded"]

\* fail.
FailDatabase(job, d) == [job EXCEPT !.status[d] = "failed"]

----------------------------------------------------------------------------
(* The handlers.                                                           *)

\* Resolve: the configured databases that match the request, in order; a
\* request that matches none is refused.
Plans ==
    {p \in UNION {[1..n -> Names] : n \in 1..Len(Configured)} :
        \A i, k \in DOMAIN p : i < k =>
            \E a, b \in DOMAIN Configured : a < b /\ p[i] = Configured[a] /\ p[k] = Configured[b]}

\* POST /jobs: the job enters the store and its goroutine is started.
PostJob(plan) ==
    /\ Len(jobs) < MaxJobs
    /\ jobs' = Append(jobs, NewJob(plan))
    /\ worker' = Append(worker, [pc |-> "next", db |-> 1])
    /\ UNCHANGED <<cancelled, owed>>

\* POST /jobs/{id}/stop that marks the job and forgets to cancel it.
StopWithoutCancel(j) ==
    /\ ActiveJob(jobs[j])
    /\ jobs[j].cancel
    /\ jobs' = [jobs EXCEPT ![j] = MarkStopping(@)]
    /\ UNCHANGED <<cancelled, owed, worker>>

\* POST /jobs/{id}/stop: under the lock the job is marked; the cancel function
\* is called after the unlock.  An inactive job is answered 404.
StopJob(j) ==
    /\ ActiveJob(jobs[j])
    /\ jobs[j].cancel
    /\ jobs' = [jobs EXCEPT ![j] = MarkStopping(@)]
    /\ owed' = owed \cup {j}
    /\ UNCHANGED <<cancelled, worker>>

\* Close, called on shutdown: cancels the active jobs without marking them.
Close ==
    /\ owed' = owed \cup {j \in DOMAIN jobs : jobs[j].cancel /\ ActiveJob(jobs[j])}
    /\ owed' # owed
    /\ UNCHANGED <<jobs, cancelled, worker>>

\* The handler, or Close, calls a cancel function.
CallCancel(j) ==
    /\ owed' = owed \ {j}
    /\ cancelled' = cancelled \cup {j}
    /\ UNCHANGED <<jobs, worker>>

----------------------------------------------------------------------------
(* The goroutine of a job: runJob.                                         *)

At(j, pc) == worker[j].pc = pc
MoreDatabases(j) == worker[j].db <= Len(jobs[j].plan)
Current(j) == jobs[j].plan[worker[j].db]

\* The loop goes on with the next database.
Continue(j) == worker' = [worker EXCEPT ![j] = [pc |-> "next", db |-> @.db + 1]]

\* runJob returns.
Return(j) == worker' = [worker EXCEPT ![j].pc = "done"]

\* The loop finds its context cancelled: stopJob, return.
ObserveCancel(j) ==
    /\ At(j, "next")
    /\ MoreDatabases(j)
    /\ j \in cancelled
    /\ jobs' = [jobs EXCEPT ![j] = StopDatabases(@)]
    /\ Return(j)
    /\ UNCHANGED <<cancelled, owed>>

\* The plan of the database yields no run request: failDatabase, continue.
RequestFails(j) ==
    /\ At(j, "next")
    /\ MoreDatabases(j)
    /\ j \notin cancelled
    /\ jobs' = [jobs EXCEPT ![j] = FailDatabase(@, Current(j))]
    /\ Continue(j)
    /\ UNCHANGED <<cancelled, owed>>

\* runner.Run is called.
StartRun(j) ==
    /\ At(j, "next")
    /\ MoreDatabases(j)
    /\ j \notin cancelled
    /\ worker' = [worker EXCEPT ![j].pc = "run"]
    /\ UNCHANGED <<jobs, cancelled, owed>>

\* recordReport: the run reports a mismatch of the current database.
ReportMismatch(j) ==
    /\ At(j, "run")
    /\ jobs' = [jobs EXCEPT ![j].mismatch[Current(j)] = TRUE]
    /\ UNCHANGED <<cancelled, owed, worker>>

\* Run returns nil: completeDatabase, continue.
RunSucceeds(j) ==
    /\ "ok" \in Outcomes
    /\ At(j, "run")
    /\ jobs' = [jobs EXCEPT ![j] = CompleteDatabase(@, Current(j))]
    /\ Continue(j)
    /\ UNCHANGED <<cancelled, owed>>

\* A run error ends the whole job.
RunErrorStops(j) ==
    /\ "error" \in Outcomes
    /\ At(j, "run")
    /\ jobs' = [jobs EXCEPT ![j] = StopDatabases(FailDatabase(@, Current(j)))]
    /\ Return(j)
    /\ UNCHANGED <<cancelled, owed>>

\* Run returns an error that is not context.Canceled: failDatabase, continue.
RunFails(j) ==
    /\ "error" \in Outcomes
    /\ At(j, "run")
    /\ jobs' = [jobs EXCEPT ![j] = FailDatabase(@, Current(j))]
    /\ Continue(j)
    /\ UNCHANGED <<cancelled, owed>>

\* Run returns context.Canceled: stopJob, return.
RunCanceled(j) ==
    /\ "canceled" \in Outcomes
    /\ j \in cancelled
    /\ At(j, "run")
    /\ jobs' = [jobs EXCEPT ![j] = StopDatabases(@)]
    /\ Return(j)
    /\ UNCHANGED <<cancelled, owed>>

\* The loop counter goes on after the last database.
FinishAndContinue(j) ==
    /\ At(j, "next")
    /\ ~MoreDatabases(j)
    /\ jobs' = [jobs EXCEPT ![j] = Finish(@)]
    /\ Continue(j)
    /\ UNCHANGED <<cancelled, owed>>

\* After the last database: finishJob, in a critical section of its own.
FinishJob(j) ==
    /\ At(j, "next")
    /\ ~MoreDatabases(j)
    /\ jobs' = [jobs EXCEPT ![j] = Finish(@)]
    /\ Return(j)
    /\ UNCHANGED <<cancelled, owed>>

RunReturns(j) == RunSucceeds(j) \/ RunFails(j) \/ RunCanceled(j)

----------------------------------------------------------------------------
Init ==
    /\ jobs = << >>
    /\ cancelled = {}
    /\ owed = {}
    /\ worker = << >>

Next ==
    \/ \E plan \in Plans : PostJob(plan)
    \/ \E j \in DOMAIN jobs : StopJob(j)
    \/ Close
    \/ \E j \in owed : CallCancel(j)
    \/ \E j \in DOMAIN jobs : ObserveCancel(j)
    \/ \E j \in DOMAIN jobs : RequestFails(j)
    \/ \E j \in DOMAIN jobs : StartRun(j)
    \/ \E j \in DOMAIN jobs : ReportMismatch(j)
    \/ \E j \in DOMAIN jobs : RunSucceeds(j)
    \/ \E j \in DOMAIN jobs : RunFails(j)
    \/ \E j \in DOMAIN jobs : RunCanceled(j)
    \/ \E j \in DOMAIN jobs : FinishJob(j)

Spec == Init /\ [][Next]_vars

\* Handlers and goroutines keep running.  A run is only assumed to return
\* after its context was cancelled: a verification may take arbitrarily long.
Fairness ==
    \A j \in 1..MaxJobs :
        /\ WF_vars(j \in owed /\ CallCancel(j))
        /\ WF_vars(j \in DOMAIN jobs /\ (ObserveCancel(j) \/ StartRun(j) \/ FinishJob(j)))
        /\ WF_vars(j \in DOMAIN jobs /\ j \in cancelled /\ RunReturns(j))

FairSpec == Spec /\ Fairness

----------------------------------------------------------------------------
(* Properties.                                                             *)

\* The shape of the store and of the goroutines.
TypeOK ==
    /\ jobs \in Seq([plan : Plans, status : [Names -> DatabaseStatus],
                     mismatch : [Names -> BOOLEAN], finished : BOOLEAN,
                     cancel : BOOLEAN])
    /\ cancelled \subseteq DOMAIN jobs
    /\ owed \subseteq DOMAIN jobs
    /\ worker \in Seq([pc : {"next", "run", "done"}, db : Nat])
    /\ DOMAIN worker = DOMAIN jobs
    /\ \A j \in DOMAIN jobs : worker[j].db \in 1..(Len(jobs[j].plan) + 1)

\* As long as a client sees a job running or stopping, the job can be stopped
\* and its goroutine is alive: neither finish nor stop leaves a database
\* behind that nobody will ever decide.
ActiveIsStoppable ==
    \A j \in DOMAIN jobs :
        ActiveJob(jobs[j]) => jobs[j].cancel /\ ~jobs[j].finished /\ ~At(j, "done")

\* A job is only reported as succeeded when no run of it reported a mismatch.
SucceededIsClean ==
    \A j \in DOMAIN jobs :
        StatusOf(jobs[j]) = "succeeded" =>
            \A d \in Planned(jobs[j]) : ~jobs[j].mismatch[d]

\* A failure stays with its database: a database is only stopped, its
\* verification never run or given up, when somebody cancelled the job.
StoppedOnlyIfCancelled ==
    \A j \in DOMAIN jobs : \A d \in Planned(jobs[j]) :
        jobs[j].status[d] = "stopped" => j \in cancelled

\* The result of a database is final: whatever happens to the job afterwards, a
\* stop, a shutdown, the failure of another database or a late completion, a
\* database that ended keeps its status.
ResultsAreKept ==
    [][\A j \in DOMAIN jobs : \A d \in Planned(jobs[j]) :
          jobs[j].status[d] \in Ended => jobs'[j].status[d] = jobs[j].status[d]]_vars

\* What GET /jobs shows of every job.
View == [j \in DOMAIN jobs |-> StatusOf(jobs[j])]

\* What a client sees of the jobs, job by job, is the promised lifecycle: in
\* particular a completion racing with a stop request never brings an ended
\* job back, nor a stopping job back to running.
Lifecycle == INSTANCE JobLifecycle WITH view <- View
ImplementsLifecycle == Lifecycle!Spec

\* A stop request that was accepted ends the job, whatever the goroutine was
\* doing when it came.
StopEndsJob ==
    \A j \in 1..MaxJobs :
        (j \in DOMAIN jobs /\ StatusOf(jobs[j]) = "stopping")
            ~> (j \in DOMAIN jobs /\ jobs[j].finished)

\* docs/operator-guide/verify-service.md:563: "The job transitions to `stopped`
\* asynchronously. Poll until status is `stopped`."  Stated for a job whose
\* cancellation reaches a run that has not returned.
StoppingBecomesStopped ==
    \A j \in 1..MaxJobs :
        (/\ j \in DOMAIN jobs
         /\ StatusOf(jobs[j]) = "stopping"
         /\ j \in cancelled
         /\ At(j, "run"))
            ~> (j \in DOMAIN jobs /\ StatusOf(jobs[j]) = "stopped")

============================================================================

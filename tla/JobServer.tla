------------------------------- MODULE JobServer -------------------------------
(***************************************************************************)
(* The job server: jobs are rows of a table that all nodes of a cluster    *)
(* share.  A node's watcher polls a replica of the table for pending jobs  *)
(* and offers them to the node's worker, which claims a job by a           *)
(* conditional update, works through it in batches and writes the outcome. *)
(* Nodes stop, start and crash; administrators cancel jobs and set their   *)
(* status.                                                                 *)
(*                                                                         *)
(* One job type, with one worker per node.  Kind says which worker it is:  *)
(* "simple" is SimpleWorker, "batch" a BatchMigrationWorker and "indexing" *)
(* the IndexerWorker of the search engines.  A job's Data is the number of *)
(* batches it records as done.                                             *)
(***************************************************************************)
EXTENDS Integers, FiniteSets

CONSTANTS
  Jobs,          \* rows of the table
  Nodes,         \* nodes of the cluster
  NoJob,
  Kind,          \* the worker of the job type
  AdminUpdates,  \* the statuses an administrator may ask for
  MaxBatches,    \* bound: batches of a job
  MaxFaults      \* bound: crashes, stops, panics, resets, failed writes and
                 \* status updates

ASSUME JobServerAssumption ==
  /\ NoJob \notin Jobs
  /\ Kind \in {"simple", "batch", "indexing"}
  /\ AdminUpdates \subseteq {"pending", "cancel_requested", "canceled"}
  /\ Kind = "batch" => AdminUpdates = {}   \* nobody has permission for these types
  /\ MaxBatches \in Nat \ {0}
  /\ MaxFaults \in Nat

VARIABLES
  rows,      \* the table on the master: status and data of each job
  replica,   \* the statuses as the replica has them
  worker,    \* the worker of each node
  request,   \* updateJobStatus between its read and its write
  complete,  \* the migration's key is in the Systems table
  faults,    \* faults so far
  done,      \* history: the batches done since the job's last reset
  granted    \* history: jobs whose cancellation was accepted

vars == <<rows, replica, worker, request, complete, faults, done, granted>>

Finished == {"success", "error", "canceled"}
Statuses == {"none", "pending", "in_progress", "cancel_requested"} \cup Finished

\* off: no Run loop.  idle: in the select of Run.  offered: about to claim.
\* running: in the loop of DoJob.  saving, reporting, finishing and marking: before the
\* writes that record a batch, the last progress, the success and the key.
Holding == {"running", "saving", "reporting", "finishing", "marking"}
Phases == {"off", "idle", "offered"} \cup Holding

Workers ==
  [phase : Phases, job : Jobs \cup {NoJob}, data : 0 .. MaxBatches,
   stopping : BOOLEAN, canceled : BOOLEAN]

\* A worker without a job.
AtRest(phase, stopping) ==
  [phase |-> phase, job |-> NoJob, data |-> 0,
   stopping |-> stopping, canceled |-> FALSE]

Off == AtRest("off", FALSE)

NoRequest == [job |-> NoJob, status |-> "none"]

TypeOK ==
  /\ rows \in [Jobs -> [status : Statuses, data : 0 .. MaxBatches]]
  /\ replica \in [Jobs -> Statuses]
  /\ worker \in [Nodes -> Workers]
  /\ request \in [job : Jobs \cup {NoJob}, status : Statuses]
  /\ complete \in BOOLEAN
  /\ faults \in 0 .. MaxFaults
  /\ done \in [Jobs -> SUBSET (1 .. MaxBatches)]
  /\ granted \subseteq Jobs

Init ==
  /\ rows = [j \in Jobs |-> [status |-> "none", data |-> 0]]
  /\ replica = [j \in Jobs |-> "none"]
  /\ worker = [n \in Nodes |-> Off]
  /\ request = NoRequest
  /\ complete = FALSE
  /\ faults = 0
  /\ done = [j \in Jobs |-> {}]
  /\ granted = {}

-----------------------------------------------------------------------------
(* The job store *)

\* Something goes wrong, at most MaxFaults times.
Fault == faults < MaxFaults /\ faults' = faults + 1

\* A statement that changes the table, or fails and changes nothing.
Write(table) ==
  \/ rows' = table /\ UNCHANGED faults
  \/ Fault /\ UNCHANGED rows

\* The table after UpdateStatus: whatever the status was.
UpdateStatus(j, status) == [rows EXCEPT ![j].status = status]

\* The table after UpdateOptimistically, from one of the statuses from.
UpdateOptimistically(j, from, status, data) ==
  IF rows[j].status \in from
    THEN [rows EXCEPT ![j] = [status |-> status, data |-> data]]
    ELSE rows

\* SetJobError of a worker with the job's data: from in_progress, or else from
\* cancel_requested.
SetJobError(j, data) ==
  UpdateOptimistically(j, {"in_progress", "cancel_requested"}, "error", data)

\* A statement fails and the worker sets an error, which may fail as well.
FailWithError(j, data) == Fault /\ rows' \in {rows, SetJobError(j, data)}

\* SaveOnce counts the jobs that are pending or in progress.
Active == {j \in Jobs : rows[j].status \in {"pending", "in_progress"}}

\* Mutant: SaveOnce counts pending jobs only.
CreateJobBesideRunning(j) ==
  /\ rows[j].status = "none"
  /\ Kind = "batch" => \A i \in Jobs : rows[i].status # "pending"
  /\ rows' = UpdateStatus(j, "pending")
  /\ UNCHANGED <<replica, worker, request, complete, faults, done, granted>>

\* CreateJob, or CreateJobOnce for a migration.  A node that starts looks for the
\* migration's key first, but may have done so long before it counts the jobs.
CreateJob(j) ==
  /\ rows[j].status = "none"
  /\ Kind = "batch" => Active = {}
  /\ rows' = UpdateStatus(j, "pending")
  /\ UNCHANGED <<replica, worker, request, complete, faults, done, granted>>

\* The replica catches up.
Replicate ==
  /\ replica' = [j \in Jobs |-> rows[j].status]
  /\ UNCHANGED <<rows, worker, request, complete, faults, done, granted>>

-----------------------------------------------------------------------------
(* Workers start, stop and take jobs *)

\* DoJob returns to the loop of Run.
Return(n) ==
  worker' = [worker EXCEPT ![n] = AtRest("idle", worker[n].stopping)]

\* Workers.Start, when the server starts or the configuration enables the job.
StartWorker(n) ==
  /\ worker[n].phase = "off"
  /\ worker' = [worker EXCEPT ![n].phase = "idle"]
  /\ UNCHANGED <<rows, replica, request, complete, faults, done, granted>>

\* Stop closes the stop channel and waits for Run to return.
StopWorker(n) ==
  /\ Fault
  /\ worker[n].phase # "off"
  /\ ~worker[n].stopping
  /\ worker' = [worker EXCEPT ![n].stopping = TRUE]
  /\ UNCHANGED <<rows, replica, request, complete, done, granted>>

\* Mutant: Run does not make a new stop channel when it starts again.
WorkerStoppedForGood(n) ==
  /\ worker[n].phase = "idle"
  /\ worker[n].stopping
  /\ worker' = [worker EXCEPT ![n].phase = "off"]
  /\ UNCHANGED <<rows, replica, request, complete, faults, done, granted>>

\* Run receives the stop signal.
WorkerStopped(n) ==
  /\ worker[n].phase = "idle"
  /\ worker[n].stopping
  /\ worker' = [worker EXCEPT ![n] = Off]
  /\ UNCHANGED <<rows, replica, request, complete, faults, done, granted>>

\* PollAndNotify: a job that is pending on the replica goes to an idle worker.
PollAndNotify(n, j) ==
  /\ replica[j] = "pending"
  /\ worker[n].phase = "idle"
  /\ worker' = [worker EXCEPT ![n].phase = "offered", ![n].job = j]
  /\ UNCHANGED <<rows, replica, request, complete, faults, done, granted>>

\* Mutant: the claim does not look at the status on the master.
ClaimJobUnchecked(n) ==
  LET w == worker[n] IN
  /\ w.phase = "offered"
  /\ rows' = UpdateStatus(w.job, "in_progress")
  /\ worker' = [worker EXCEPT ![n].phase = "running",
                              ![n].data = rows[w.job].data]
  /\ UNCHANGED <<replica, request, complete, faults, done, granted>>

\* ClaimJob: the claim holds if the job is still pending on the master.
ClaimJob(n) ==
  LET w == worker[n] IN
  /\ w.phase = "offered"
  /\ IF rows[w.job].status = "pending"
       THEN /\ rows' = UpdateStatus(w.job, "in_progress")
            /\ worker' = [worker EXCEPT ![n].phase = "running",
                                        ![n].data = rows[w.job].data]
       ELSE /\ Return(n)
            /\ UNCHANGED rows
  /\ UNCHANGED <<replica, request, complete, faults, done, granted>>

\* The claim's statement fails.
ClaimError(n) ==
  /\ Fault
  /\ worker[n].phase = "offered"
  /\ Return(n)
  /\ UNCHANGED <<rows, replica, request, complete, done, granted>>

\* The claim holds, but the indexer cannot set up: without a bulk processor it
\* returns and leaves the job in progress; what initProgress cannot do is an error.
SetupError(n) ==
  LET j == worker[n].job IN
  /\ Kind = "indexing"
  /\ Fault
  /\ worker[n].phase = "offered"
  /\ rows[j].status = "pending"
  /\ \E status \in {"in_progress", "error"} : rows' = UpdateStatus(j, status)
  /\ Return(n)
  /\ UNCHANGED <<replica, request, complete, done, granted>>

-----------------------------------------------------------------------------
(* DoJob *)

\* The last batch done when DoBatch returns: a simple job does all in one, and an
\* indexer that resumes at the end has an empty batch to do.
LastBatch(w) ==
  IF Kind = "simple" \/ w.data = MaxBatches THEN MaxBatches ELSE w.data + 1

\* Mutant: a batch too many.
DoBatchTooMany(n) ==
  LET w == worker[n]
      last == w.data + 1
  IN
  /\ w.phase = "running"
  /\ done' = [done EXCEPT ![w.job] = @ \cup ((w.data + 1) .. last)]
  /\ worker' = [worker EXCEPT ![n].phase = "saving", ![n].data = last]
  /\ UNCHANGED <<rows, replica, request, complete, faults, granted>>

DoBatch(n) ==
  LET w == worker[n]
      last == LastBatch(w)
  IN
  /\ w.phase = "running"
  /\ Kind = "batch" => w.data < MaxBatches
  /\ done' = [done EXCEPT ![w.job] = @ \cup ((w.data + 1) .. last)]
  /\ worker' = [worker EXCEPT
       ![n].phase = IF Kind = "simple" THEN "reporting" ELSE "saving",
       ![n].data = last]
  /\ UNCHANGED <<rows, replica, request, complete, faults, granted>>

\* Mutant: the data names the next batch before it is done.
SaveProgressAhead(n) ==
  LET w == worker[n]
      atEnd == Kind = "indexing" /\ w.data = MaxBatches
      next == IF w.data = MaxBatches THEN w.data ELSE w.data + 1
  IN
  /\ w.phase = "saving"
  /\ rows' = UpdateOptimistically(w.job, {"in_progress"}, "in_progress", next)
  /\ worker' = [worker EXCEPT
       ![n].phase = IF atEnd THEN "finishing" ELSE "running"]
  /\ UNCHANGED <<replica, request, complete, faults, done, granted>>

\* SetJobProgress with the data of the batch.  An indexer that is done goes on to
\* the success.
SaveProgress(n) ==
  LET w == worker[n]
      atEnd == Kind = "indexing" /\ w.data = MaxBatches
  IN
  /\ w.phase = "saving"
  /\ rows' = UpdateOptimistically(w.job, {"in_progress"}, "in_progress", w.data)
  /\ worker' = [worker EXCEPT
       ![n].phase = IF atEnd THEN "finishing" ELSE "running"]
  /\ UNCHANGED <<replica, request, complete, faults, done, granted>>

\* Its statement fails: a migration goes on, an indexer sets an error.
SaveProgressError(n) ==
  LET w == worker[n] IN
  /\ w.phase = "saving"
  /\ IF Kind = "batch"
       THEN /\ worker' = [worker EXCEPT ![n].phase = "running"]
            /\ Fault /\ UNCHANGED rows
       ELSE Return(n) /\ FailWithError(w.job, w.data)
  /\ UNCHANGED <<replica, request, complete, done, granted>>

\* Mutant: DoJob goes on after it has set the error.
BatchErrorGoesOn(n) ==
  LET w == worker[n] IN
  /\ w.phase = "running"
  /\ Write(SetJobError(w.job, w.data))
  /\ worker' = [worker EXCEPT ![n].phase = "reporting"]
  /\ UNCHANGED <<replica, request, complete, done, granted>>

\* The work fails.
BatchError(n) ==
  LET w == worker[n] IN
  /\ w.phase = "running"
  /\ Write(SetJobError(w.job, w.data))
  /\ Return(n)
  /\ UNCHANGED <<replica, request, complete, done, granted>>

\* Mutant: resetJob keeps the data.
ResetJobKeepsData(n) ==
  LET j == worker[n].job IN
  /\ Kind = "batch"
  /\ worker[n].phase = "running"
  /\ Fault
  /\ \/ rows' = UpdateOptimistically(j, {"in_progress"}, "pending", rows[j].data)
     \/ UNCHANGED rows
  /\ done' = [done EXCEPT ![j] = {}]
  /\ Return(n)
  /\ UNCHANGED <<replica, request, complete, granted>>

\* Mutant: doBatch does not stop the worker after the reset.
ResetJobGoesOn(n) ==
  LET j == worker[n].job IN
  /\ Kind = "batch"
  /\ worker[n].phase = "running"
  /\ Fault
  /\ \/ rows' = UpdateOptimistically(j, {"in_progress"}, "pending", 0)
     \/ UNCHANGED rows
  /\ done' = [done EXCEPT ![j] = {}]
  /\ UNCHANGED <<replica, worker, request, complete, granted>>

\* The nodes run different versions: resetJob, to start over.
ResetJob(n) ==
  LET j == worker[n].job IN
  /\ Kind = "batch"
  /\ worker[n].phase = "running"
  /\ Fault
  /\ \/ rows' = UpdateOptimistically(j, {"in_progress"}, "pending", 0)
     \/ UNCHANGED rows
  /\ done' = [done EXCEPT ![j] = {}]
  /\ Return(n)
  /\ UNCHANGED <<replica, request, complete, granted>>

\* setJobSuccess begins with SetJobProgress; if that fails it sets an error, and
\* goes on all the same.
ReportProgress(n) ==
  LET w == worker[n]
      saved == UpdateOptimistically(w.job, {"in_progress"}, "in_progress", w.data)
  IN
  /\ \/ w.phase = "reporting"
     \/ w.phase = "running" /\ w.data = MaxBatches /\ Kind = "batch"
  /\ \/ rows' = saved /\ UNCHANGED faults
     \/ FailWithError(w.job, w.data)
  /\ worker' = [worker EXCEPT ![n].phase = "finishing"]
  /\ UNCHANGED <<replica, request, complete, done, granted>>

\* Mutant: the indexer's loop goes on after the success.
SetJobSuccessLoops(n) ==
  LET w == worker[n] IN
  /\ w.phase = "finishing"
  /\ \/ rows' = UpdateStatus(w.job, "success") /\ UNCHANGED faults
     \/ FailWithError(w.job, w.data)
  /\ worker' = [worker EXCEPT ![n].phase = "running"]
  /\ UNCHANGED <<replica, request, complete, done, granted>>

\* SetJobSuccess, whatever the status; if that fails, an error.
SetJobSuccess(n) ==
  LET w == worker[n] IN
  /\ w.phase = "finishing"
  /\ \/ rows' = UpdateStatus(w.job, "success") /\ UNCHANGED faults
     \/ FailWithError(w.job, w.data)
  /\ IF Kind = "batch"
       THEN worker' = [worker EXCEPT ![n].phase = "marking"]
       ELSE Return(n)
  /\ UNCHANGED <<replica, request, complete, done, granted>>

\* markAsComplete, which may fail without consequence for the job.
MarkAsComplete(n) ==
  /\ worker[n].phase = "marking"
  /\ \/ complete' = TRUE /\ UNCHANGED faults
     \/ Fault /\ UNCHANGED complete
  /\ Return(n)
  /\ UNCHANGED <<rows, replica, request, done, granted>>

\* Stop interrupts the loop of DoJob: SetJobPending, whatever the status.
StopJob(n) ==
  /\ Kind # "simple"
  /\ worker[n].phase = "running"
  /\ worker[n].stopping
  /\ Write(UpdateStatus(worker[n].job, "pending"))
  /\ Return(n)
  /\ UNCHANGED <<replica, request, complete, done, granted>>

\* CancellationWatcher closes the cancel channel.
CancellationWatcher(n) ==
  /\ Kind = "indexing"
  /\ worker[n].phase \in {"running", "saving"}
  /\ ~worker[n].canceled
  /\ replica[worker[n].job] = "cancel_requested"
  /\ worker' = [worker EXCEPT ![n].canceled = TRUE]
  /\ UNCHANGED <<rows, replica, request, complete, faults, done, granted>>

\* The loop of DoJob sees it: SetJobCanceled, whatever the status.
CancelJob(n) ==
  /\ worker[n].phase = "running"
  /\ worker[n].canceled
  /\ Write(UpdateStatus(worker[n].job, "canceled"))
  /\ Return(n)
  /\ UNCHANGED <<replica, request, complete, done, granted>>

\* The node's process ends: the job stays in progress.
Crash(n) ==
  /\ Fault
  /\ worker[n].phase # "off"
  /\ worker' = [worker EXCEPT ![n] = Off]
  /\ UNCHANGED <<rows, replica, request, complete, done, granted>>

\* HandleJobPanic sets an error, with the data the job was offered with, and
\* panics again.
HandleJobPanic(n) ==
  LET j == worker[n].job IN
  /\ Kind # "simple"
  /\ worker[n].phase = "running"
  /\ \E data \in 0 .. rows[j].data : FailWithError(j, data)
  /\ worker' = [worker EXCEPT ![n] = Off]
  /\ UNCHANGED <<replica, request, complete, done, granted>>

-----------------------------------------------------------------------------
(* Administrators *)

\* RequestCancellation: canceled at once if pending, requested if in progress.
CancelOf(j) ==
  UpdateOptimistically(j, {"pending"}, "canceled", rows[j].data)

RequestOf(j) ==
  UpdateOptimistically(j, {"in_progress"}, "cancel_requested", rows[j].data)

RequestCancellation(j) ==
  /\ "cancel_requested" \in AdminUpdates
  /\ j \in Active
  /\ rows' = IF rows[j].status = "pending" THEN CancelOf(j) ELSE RequestOf(j)
  /\ granted' = granted \cup {j}
  /\ UNCHANGED <<replica, worker, request, complete, faults, done>>

\* IsValidStatusChange.
ValidStatusChange ==
  {<<"in_progress", "pending">>, <<"in_progress", "cancel_requested">>,
   <<"pending", "cancel_requested">>, <<"cancel_requested", "canceled">>}

\* updateJobStatus reads the job and checks the change, without force.
CheckStatusChange(j, status) ==
  /\ Fault
  /\ request = NoRequest
  /\ status \in AdminUpdates \ {"cancel_requested"}
  /\ <<replica[j], status>> \in ValidStatusChange
  /\ request' = [job |-> j, status |-> status]
  /\ UNCHANGED <<rows, replica, worker, complete, done, granted>>

\* UpdateJobStatus: SetJobPending or SetJobCanceled, whatever the status is now.
UpdateJobStatus ==
  /\ request # NoRequest
  /\ Write(UpdateStatus(request.job, request.status))
  /\ request' = NoRequest
  /\ UNCHANGED <<replica, worker, complete, done, granted>>

-----------------------------------------------------------------------------
DoJob(n) ==
  \/ ClaimJob(n)
  \/ DoBatch(n)
  \/ SaveProgress(n)
  \/ BatchError(n)
  \/ ReportProgress(n)
  \/ SetJobSuccess(n)
  \/ MarkAsComplete(n)
  \/ StopJob(n)
  \/ CancelJob(n)
  \/ WorkerStopped(n)

Next ==
  \/ Replicate
  \/ UpdateJobStatus
  \/ \E j \in Jobs : \/ CreateJob(j)
                     \/ RequestCancellation(j)
                     \/ \E status \in AdminUpdates : CheckStatusChange(j, status)
  \/ \E n \in Nodes : \/ StartWorker(n)
                      \/ StopWorker(n)
                      \/ \E j \in Jobs : PollAndNotify(n, j)
                      \/ DoJob(n)
                      \/ ClaimError(n)
                      \/ SetupError(n)
                      \/ SaveProgressError(n)
                      \/ ResetJob(n)
                      \/ CancellationWatcher(n)
                      \/ Crash(n)
                      \/ HandleJobPanic(n)

Spec == Init /\ [][Next]_vars

\* Nodes come back, watchers poll, workers work and the replica catches up.  Strong
\* fairness of WorkerStopped: Run's select picks at random between a job that is
\* offered and the closed stop channel, so it does not miss the latter for ever.
Fairness ==
  /\ WF_vars(Replicate)
  /\ \A n \in Nodes : /\ WF_vars(StartWorker(n))
                      /\ WF_vars(\E j \in Jobs : PollAndNotify(n, j))
                      /\ WF_vars(DoJob(n))
                      /\ SF_vars(WorkerStopped(n))

FairSpec == Spec /\ Fairness

-----------------------------------------------------------------------------
(* Properties *)

Holds(n, j) == worker[n].phase \in Holding /\ worker[n].job = j

\* Only one node in the cluster runs a job at any given time
\* (batch_migration_worker.go), although every node polls a stale replica.
OneRunner ==
  \A n, m \in Nodes, j \in Jobs : Holds(n, j) /\ Holds(m, j) => n = m

\* CreateJobOnce: two nodes that start at the same time do not both schedule the
\* migration, and a migration put back to pending is not scheduled again.
OneActiveJob == Cardinality(Active) <= 1

\* A successful job has run every batch since it was last reset, whatever crashed,
\* stopped or was resumed from the recorded data on another node.
SuccessMeansDone ==
  \A j \in Jobs : rows[j].status = "success" => done[j] = 1 .. MaxBatches

\* What a pending job records as done was done since its last reset, so a node
\* that takes the job over misses no batch.
RecordedIsDone ==
  \A j \in Jobs : rows[j].status = "pending" => 1 .. rows[j].data \subseteq done[j]

\* The migration's key, which keeps the migration from ever running again, is only
\* there when a job did all batches since its last reset.
CompleteMeansDone == complete => \E j \in Jobs : done[j] = 1 .. MaxBatches

\* A job that is over never runs again.
JobsStayFinished ==
  [][\A j \in Jobs :
       rows[j].status \in Finished => rows'[j].status \in Finished]_vars

\* In progress, but no worker has it: its node crashed or a write failed.
Orphaned(j) ==
  /\ rows[j].status \in {"in_progress", "cancel_requested"}
  /\ ~\E n \in Nodes : Holds(n, j)

\* A pending job comes to its end, unless it is orphaned.
EventuallyFinished ==
  \A j \in Jobs :
    rows[j].status = "pending" ~> rows[j].status \in Finished \/ Orphaned(j)

\* The API's answer to a cancellation, that the job was canceled, is not taken back:
\* the job does not wait for a worker again.
CancellationHolds == \A j \in granted : rows[j].status # "pending"

=============================================================================

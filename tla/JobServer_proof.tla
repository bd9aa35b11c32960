--------------------------- MODULE JobServer_proof ---------------------------
(***************************************************************************)
(* For any number of jobs, nodes, batches and faults and each kind of      *)
(* worker: the invariants of JobServer.  Those that a status update of an  *)
(* administrator can break are proved for the jobs that are canceled only. *)
(* As long as no status is set by hand, what the table records as done was *)
(* done, and a migration is scheduled once.                                *)
(***************************************************************************)
EXTENDS JobServer, FiniteSetTheorems, TLAPS

-----------------------------------------------------------------------------
(* Types *)

\* A worker that is past the select of Run has a job.
Assigned ==
  \A n \in Nodes :
    worker[n].phase \notin {"off", "idle"} => worker[n].job \in Jobs

TypeInv == TypeOK /\ Assigned

Rows == [status : Statuses, data : 0 .. MaxBatches]

\* What the statements of the job store do to the status of each job.
LEMMA Updates ==
  ASSUME TypeOK, NEW j \in Jobs, NEW status \in Statuses
  PROVE  /\ UpdateStatus(j, status) \in [Jobs -> Rows]
         /\ \A i \in Jobs :
              UpdateStatus(j, status)[i].status =
                IF i = j THEN status ELSE rows[i].status
  BY DEF TypeOK, UpdateStatus, Rows

\* The same of the conditional ones.
LEMMA OptimisticUpdates ==
  ASSUME TypeOK, NEW j \in Jobs, NEW status \in Statuses,
         NEW data \in 0 .. MaxBatches, NEW from
  PROVE  /\ UpdateOptimistically(j, from, status, data) \in [Jobs -> Rows]
         /\ \A i \in Jobs :
              UpdateOptimistically(j, from, status, data)[i].status =
                IF i = j /\ rows[j].status \in from THEN status ELSE rows[i].status
  BY DEF TypeOK, UpdateOptimistically, Rows

\* And of SetJobError, which gives up a job that is in progress or to be canceled.
LEMMA Errors ==
  ASSUME TypeOK, NEW j \in Jobs, NEW data \in 0 .. MaxBatches
  PROVE  /\ SetJobError(j, data) \in [Jobs -> Rows]
         /\ \A i \in Jobs :
              SetJobError(j, data)[i].status =
                IF i = j /\ rows[j].status \in {"in_progress", "cancel_requested"}
                  THEN "error" ELSE rows[i].status
<1>1. "error" \in Statuses
  BY DEF Statuses, Finished
<1> QED
  BY <1>1, OptimisticUpdates DEF SetJobError

\* A step of worker n leaves the other workers as they are.  DoJob returns to the
\* select of Run.
LEMMA WorkerReturns ==
  ASSUME TypeOK, NEW n \in Nodes, Return(n)
  PROVE  /\ worker' \in [Nodes -> Workers]
         /\ worker'[n].phase = "idle"
         /\ \A m \in Nodes \ {n} : worker'[m] = worker[m]
<1>1. worker[n] \in Workers
  BY DEF TypeOK
<1>2. /\ AtRest("idle", worker[n].stopping) \in Workers
      /\ AtRest("idle", worker[n].stopping).phase = "idle"
  BY <1>1, JobServerAssumption DEF AtRest, Workers, Phases
<1> QED
  BY <1>2 DEF Return, TypeOK

\* It goes to another phase with the same job.
LEMMA WorkerMoves ==
  ASSUME TypeOK, NEW n \in Nodes, NEW phase \in Phases,
         worker' = [worker EXCEPT ![n].phase = phase]
  PROVE  /\ worker' \in [Nodes -> Workers]
         /\ worker'[n].phase = phase
         /\ worker'[n].job = worker[n].job
         /\ \A m \in Nodes \ {n} : worker'[m] = worker[m]
  BY DEF TypeOK, Workers

\* It becomes w, whatever the step changes of it.
LEMMA WorkerBecomes ==
  ASSUME TypeOK, NEW n \in Nodes, NEW w \in Workers,
         worker' = [worker EXCEPT ![n] = w]
  PROVE  /\ worker' \in [Nodes -> Workers]
         /\ worker'[n] = w
         /\ \A m \in Nodes \ {n} : worker'[m] = worker[m]
  BY DEF TypeOK

\* It learns that its job is to be canceled, or that it is to stop.
LEMMA WorkerWarned ==
  ASSUME TypeOK, NEW n \in Nodes,
         \/ worker' = [worker EXCEPT ![n].canceled = TRUE]
         \/ worker' = [worker EXCEPT ![n].stopping = TRUE]
  PROVE  /\ worker' \in [Nodes -> Workers]
         /\ worker'[n].phase = worker[n].phase
         /\ worker'[n].job = worker[n].job
         /\ \A m \in Nodes \ {n} : worker'[m] = worker[m]
<1>1. worker \in [Nodes -> Workers] /\ worker[n] \in Workers
  BY DEF TypeOK
<1> DEFINE canceled == [worker[n] EXCEPT !.canceled = TRUE]
           stopping == [worker[n] EXCEPT !.stopping = TRUE]
<1>2. /\ canceled \in Workers
      /\ canceled.phase = worker[n].phase /\ canceled.job = worker[n].job
  BY <1>1 DEF Workers
<1>3. /\ stopping \in Workers
      /\ stopping.phase = worker[n].phase /\ stopping.job = worker[n].job
  BY <1>1 DEF Workers
<1>4. \/ worker' = [worker EXCEPT ![n] = canceled]
      \/ worker' = [worker EXCEPT ![n] = stopping]
  BY <1>1
<1> HIDE DEF canceled, stopping
<1>5. CASE worker' = [worker EXCEPT ![n] = canceled]
  BY <1>2, <1>5, WorkerBecomes
<1>6. CASE worker' = [worker EXCEPT ![n] = stopping]
  BY <1>3, <1>6, WorkerBecomes
<1> QED
  BY <1>4, <1>5, <1>6

\* The node's worker is gone.
LEMMA WorkerEnds ==
  ASSUME TypeOK, NEW n \in Nodes, worker' = [worker EXCEPT ![n] = Off]
  PROVE  /\ worker' \in [Nodes -> Workers]
         /\ worker'[n].phase = "off"
         /\ \A m \in Nodes \ {n} : worker'[m] = worker[m]
  BY JobServerAssumption DEF TypeOK, Off, AtRest, Workers, Phases

\* The types hold at the start.
LEMMA TypeInvInit == Init => TypeInv
<1> SUFFICES ASSUME Init PROVE TypeInv
  OBVIOUS
<1>1. Off \in Workers /\ Off.phase = "off"
  BY JobServerAssumption DEF Off, AtRest, Workers, Phases
<1>2. rows \in [Jobs -> Rows] /\ replica \in [Jobs -> Statuses]
  BY JobServerAssumption DEF Init, Rows, Statuses
<1>3. request \in [job : Jobs \cup {NoJob}, status : Statuses]
  BY DEF Init, NoRequest, Statuses
<1>4. faults \in 0 .. MaxFaults
  BY JobServerAssumption DEF Init
<1> QED
  BY <1>1, <1>2, <1>3, <1>4 DEF Init, TypeInv, TypeOK, Assigned, Rows

\* Every step of a worker, of the administrators or of the replica keeps them.
LEMMA TypeInvStep == TypeInv /\ [Next]_vars => TypeInv'
<1> SUFFICES ASSUME TypeInv, [Next]_vars PROVE TypeInv'
  OBVIOUS
<1> USE JobServerAssumption DEF TypeInv
<1>1. TypeOK
  OBVIOUS
<1>2. {"none", "pending", "in_progress", "cancel_requested", "success", "error",
       "canceled"} = Statuses
  BY DEF Statuses, Finished
<1>3. {"off", "idle", "offered", "running", "saving", "reporting", "finishing",
       "marking"} = Phases
  BY DEF Phases, Holding
<1>4. ASSUME NEW n \in Nodes, worker[n].phase \notin {"off", "idle"}
      PROVE  worker[n].job \in Jobs /\ worker[n].data \in 0 .. MaxBatches
  BY <1>4 DEF TypeOK, Assigned, Workers
<1>5. ASSUME NEW n \in Nodes,
             worker' \in [Nodes -> Workers],
             \A m \in Nodes \ {n} : worker'[m] = worker[m],
             worker'[n].phase \notin {"off", "idle"} => worker'[n].job \in Jobs,
             rows' \in [Jobs -> Rows],
             complete' \in BOOLEAN,
             faults' \in 0 .. MaxFaults,
             done' \in [Jobs -> SUBSET (1 .. MaxBatches)],
             UNCHANGED <<replica, request, granted>>
      PROVE  TypeInv'
  BY <1>5 DEF TypeOK, Assigned, Rows
<1>6. ASSUME Fault PROVE faults' \in 0 .. MaxFaults
  BY <1>6 DEF TypeOK, Fault
<1>7. ASSUME NEW table \in [Jobs -> Rows], Write(table)
      PROVE  rows' \in [Jobs -> Rows] /\ faults' \in 0 .. MaxFaults
  BY <1>6, <1>7 DEF TypeOK, Write, Rows
<1>8. ASSUME NEW j \in Jobs, NEW data \in 0 .. MaxBatches, FailWithError(j, data)
      PROVE  rows' \in [Jobs -> Rows] /\ faults' \in 0 .. MaxFaults
  BY <1>6, <1>8, Errors DEF TypeOK, FailWithError, Rows
<1>9. CASE Replicate
  BY <1>9 DEF Replicate, TypeOK, Assigned
<1>10. CASE UpdateJobStatus
  <2>1. request.job \in Jobs \cup {NoJob} /\ request.status \in Statuses
    BY <1>1 DEF TypeOK
  <2>2. UpdateStatus(request.job, request.status) \in [Jobs -> Rows]
    <3>1. CASE request.job \in Jobs
      BY <1>1, <2>1, <3>1, Updates
    <3>2. CASE request.job \notin Jobs
      BY <3>2 DEF UpdateStatus, TypeOK, Rows
    <3> QED
      BY <3>1, <3>2
  <2>3. rows' \in [Jobs -> Rows] /\ faults' \in 0 .. MaxFaults
    BY <1>7, <1>10, <2>2 DEF UpdateJobStatus
  <2> QED
    BY <1>2, <1>10, <2>3 DEF UpdateJobStatus, NoRequest, TypeOK, Assigned, Rows
<1>11. ASSUME NEW j \in Jobs, CreateJob(j) PROVE TypeInv'
  BY <1>2, <1>11, Updates DEF CreateJob, TypeOK, Assigned, Rows
<1>12. ASSUME NEW j \in Jobs, RequestCancellation(j) PROVE TypeInv'
  <2>1. rows[j].data \in 0 .. MaxBatches
    BY DEF TypeOK
  <2>2. CancelOf(j) \in [Jobs -> Rows] /\ RequestOf(j) \in [Jobs -> Rows]
    BY <1>2, <2>1, OptimisticUpdates DEF CancelOf, RequestOf
  <2> QED
    BY <1>12, <2>2 DEF RequestCancellation, TypeOK, Assigned, Rows
<1>13. ASSUME NEW j \in Jobs, NEW status \in AdminUpdates,
              CheckStatusChange(j, status)
       PROVE  TypeInv'
  BY <1>2, <1>6, <1>13 DEF CheckStatusChange, TypeOK, Assigned
<1>14. ASSUME NEW n \in Nodes, StartWorker(n) PROVE TypeInv'
  BY <1>1, <1>3, <1>5, <1>14, WorkerMoves DEF StartWorker, TypeOK, Rows
<1>15. ASSUME NEW n \in Nodes, StopWorker(n) PROVE TypeInv'
  <2>1. worker' = [worker EXCEPT ![n].stopping = TRUE]
    BY <1>15 DEF StopWorker
  <2>2. /\ worker' \in [Nodes -> Workers]
        /\ worker'[n].phase = worker[n].phase
        /\ worker'[n].job = worker[n].job
        /\ \A m \in Nodes \ {n} : worker'[m] = worker[m]
    BY <1>1, <2>1, WorkerWarned
  <2>3. worker'[n].phase \notin {"off", "idle"} => worker'[n].job \in Jobs
    BY <1>4, <2>2
  <2>4. /\ UNCHANGED <<rows, replica, request, complete, done, granted>>
        /\ faults' \in 0 .. MaxFaults
    BY <1>6, <1>15 DEF StopWorker
  <2> QED
    BY <1>1, <1>5, <2>2, <2>3, <2>4 DEF TypeOK, Rows
<1>16. ASSUME NEW n \in Nodes, NEW j \in Jobs, PollAndNotify(n, j) PROVE TypeInv'
  <2>1. /\ worker' \in [Nodes -> Workers]
        /\ worker'[n].job = j
        /\ \A m \in Nodes \ {n} : worker'[m] = worker[m]
    <3>1. worker' = [worker EXCEPT ![n] =
             [worker[n] EXCEPT !.phase = "offered", !.job = j]]
      BY <1>16 DEF PollAndNotify
    <3>2. worker[n] \in Workers /\ "offered" \in Phases
      BY <1>3 DEF TypeOK
    <3>3. [worker[n] EXCEPT !.phase = "offered", !.job = j] \in Workers
      BY <3>2 DEF Workers
    <3> QED
      BY <3>1, <3>3 DEF TypeOK, Workers
  <2> QED
    BY <1>5, <1>16, <2>1 DEF PollAndNotify, TypeOK, Rows
<1>17. ASSUME NEW n \in Nodes, ClaimJob(n) PROVE TypeInv'
  <2>1. worker[n].job \in Jobs /\ worker[n].phase = "offered"
    BY <1>4, <1>17 DEF ClaimJob
  <2>2. CASE rows[worker[n].job].status = "pending"
    <3>1. /\ worker' \in [Nodes -> Workers]
          /\ worker'[n].job = worker[n].job
          /\ \A m \in Nodes \ {n} : worker'[m] = worker[m]
      <4>1. worker' = [worker EXCEPT ![n] =
               [worker[n] EXCEPT !.phase = "running",
                                 !.data = rows[worker[n].job].data]]
        BY <1>17, <2>2 DEF ClaimJob
      <4>2. rows[worker[n].job].data \in 0 .. MaxBatches
        BY <2>1 DEF TypeOK
      <4>3. [worker[n] EXCEPT !.phase = "running",
                              !.data = rows[worker[n].job].data] \in Workers
        <5>1. worker[n] \in Workers /\ "running" \in Phases
          BY <1>3 DEF TypeOK
        <5> QED
          BY <4>2, <5>1 DEF Workers
      <4> QED
        BY <4>1, <4>3 DEF TypeOK, Workers
    <3>2. rows' \in [Jobs -> Rows]
      BY <1>1, <1>2, <1>17, <2>1, <2>2, Updates DEF ClaimJob
    <3> QED
      BY <1>5, <1>17, <2>1, <3>1, <3>2 DEF ClaimJob, TypeOK
  <2>3. CASE rows[worker[n].job].status # "pending"
    BY <1>1, <1>5, <1>17, <2>3, WorkerReturns DEF ClaimJob, TypeOK, Rows
  <2> QED
    BY <2>2, <2>3
<1>18. ASSUME NEW n \in Nodes, DoBatch(n) PROVE TypeInv'
  <2>1. worker[n].job \in Jobs /\ worker[n].data \in 0 .. MaxBatches
    BY <1>4, <1>18 DEF DoBatch
  <2>2. LastBatch(worker[n]) \in 0 .. MaxBatches
    BY <2>1 DEF LastBatch
  <2>3. (worker[n].data + 1) .. LastBatch(worker[n]) \subseteq 1 .. MaxBatches
    BY <2>1, <2>2
  <2>4. done' \in [Jobs -> SUBSET (1 .. MaxBatches)]
    BY <1>18, <2>1, <2>3 DEF DoBatch, TypeOK
  <2>5. /\ worker' \in [Nodes -> Workers]
        /\ worker'[n].job = worker[n].job
        /\ \A m \in Nodes \ {n} : worker'[m] = worker[m]
    <3> DEFINE phase == IF Kind = "simple" THEN "reporting" ELSE "saving"
    <3>1. worker' = [worker EXCEPT ![n] =
             [worker[n] EXCEPT !.phase = phase, !.data = LastBatch(worker[n])]]
      BY <1>18 DEF DoBatch
    <3>2. phase \in Phases
      BY <1>3
    <3> HIDE DEF phase
    <3>3. [worker[n] EXCEPT !.phase = phase, !.data = LastBatch(worker[n])]
            \in Workers
      BY <2>2, <3>2 DEF TypeOK, Workers
    <3>4. [worker[n] EXCEPT !.phase = phase, !.data = LastBatch(worker[n])].job
            = worker[n].job
      <4>1. worker[n] \in Workers
        BY DEF TypeOK
      <4> QED
        BY <4>1 DEF Workers
    <3> QED
      BY <1>1, <3>1, <3>3, <3>4, WorkerBecomes
  <2>6. UNCHANGED <<rows, replica, request, complete, faults, granted>>
    BY <1>18 DEF DoBatch
  <2> QED
    BY <1>1, <1>5, <2>1, <2>4, <2>5, <2>6 DEF TypeOK, Rows
<1>19. ASSUME NEW n \in Nodes, SaveProgress(n) PROVE TypeInv'
  <2>1. worker[n].job \in Jobs /\ worker[n].data \in 0 .. MaxBatches
    BY <1>4, <1>19 DEF SaveProgress
  <2>2. rows' \in [Jobs -> Rows]
    BY <1>1, <1>2, <1>19, <2>1, OptimisticUpdates DEF SaveProgress
  <2>3. PICK phase \in Phases : worker' = [worker EXCEPT ![n].phase = phase]
    BY <1>3, <1>19 DEF SaveProgress
  <2>4. /\ worker' \in [Nodes -> Workers]
        /\ worker'[n].job = worker[n].job
        /\ \A m \in Nodes \ {n} : worker'[m] = worker[m]
    BY <1>1, <2>3, WorkerMoves
  <2>5. UNCHANGED <<replica, request, complete, faults, done, granted>>
    BY <1>19 DEF SaveProgress
  <2> QED
    BY <1>1, <1>5, <2>1, <2>2, <2>4, <2>5 DEF TypeOK
<1>20. ASSUME NEW n \in Nodes, SaveProgressError(n) PROVE TypeInv'
  <2>1. worker[n].job \in Jobs /\ worker[n].data \in 0 .. MaxBatches
    BY <1>4, <1>20 DEF SaveProgressError
  <2>2. CASE Kind = "batch"
    BY <1>1, <1>3, <1>5, <1>6, <1>20, <2>1, <2>2, WorkerMoves
       DEF SaveProgressError, TypeOK, Rows
  <2>3. CASE Kind # "batch"
    BY <1>1, <1>5, <1>8, <1>20, <2>1, <2>3, WorkerReturns
       DEF SaveProgressError, TypeOK
  <2> QED
    BY <2>2, <2>3
<1>21. ASSUME NEW n \in Nodes, BatchError(n) PROVE TypeInv'
  <2>1. worker[n].job \in Jobs /\ worker[n].data \in 0 .. MaxBatches
    BY <1>4, <1>21 DEF BatchError
  <2>2. rows' \in [Jobs -> Rows] /\ faults' \in 0 .. MaxFaults
    BY <1>1, <1>7, <1>21, <2>1, Errors DEF BatchError
  <2> QED
    BY <1>1, <1>5, <1>21, <2>2, WorkerReturns DEF BatchError, TypeOK
<1>22. ASSUME NEW n \in Nodes, ResetJob(n) PROVE TypeInv'
  <2>1. worker[n].job \in Jobs
    BY <1>4, <1>22 DEF ResetJob
  <2>2. UpdateOptimistically(worker[n].job, {"in_progress"}, "pending", 0)
          \in [Jobs -> Rows]
    <3>1. 0 \in 0 .. MaxBatches /\ "pending" \in Statuses
      BY <1>2
    <3> QED
      BY <1>1, <2>1, <3>1, OptimisticUpdates
  <2>3. rows' \in [Jobs -> Rows]
    BY <1>22, <2>2 DEF ResetJob, TypeOK, Rows
  <2>4. done' \in [Jobs -> SUBSET (1 .. MaxBatches)]
    BY <1>22 DEF ResetJob, TypeOK
  <2> QED
    BY <1>1, <1>5, <1>6, <1>22, <2>3, <2>4, WorkerReturns DEF ResetJob, TypeOK
<1>23. ASSUME NEW n \in Nodes, ReportProgress(n) PROVE TypeInv'
  <2>1. worker[n].job \in Jobs /\ worker[n].data \in 0 .. MaxBatches
    BY <1>4, <1>23 DEF ReportProgress
  <2>2. UpdateOptimistically(worker[n].job, {"in_progress"}, "in_progress",
                             worker[n].data) \in [Jobs -> Rows]
    BY <1>1, <1>2, <2>1, OptimisticUpdates
  <2>3. rows' \in [Jobs -> Rows] /\ faults' \in 0 .. MaxFaults
    BY <1>8, <1>23, <2>1, <2>2 DEF ReportProgress, TypeOK
  <2> QED
    BY <1>1, <1>3, <1>5, <1>23, <2>1, <2>3, WorkerMoves DEF ReportProgress, TypeOK
<1>24. ASSUME NEW n \in Nodes, SetJobSuccess(n) PROVE TypeInv'
  <2>1. worker[n].job \in Jobs /\ worker[n].data \in 0 .. MaxBatches
    BY <1>4, <1>24 DEF SetJobSuccess
  <2>2. UpdateStatus(worker[n].job, "success") \in [Jobs -> Rows]
    BY <1>1, <1>2, <2>1, Updates
  <2>3. rows' \in [Jobs -> Rows] /\ faults' \in 0 .. MaxFaults
    BY <1>8, <1>24, <2>1, <2>2 DEF SetJobSuccess, TypeOK
  <2>4. CASE Kind = "batch"
    BY <1>1, <1>3, <1>5, <1>24, <2>1, <2>3, <2>4, WorkerMoves
       DEF SetJobSuccess, TypeOK
  <2>5. CASE Kind # "batch"
    BY <1>1, <1>5, <1>24, <2>3, <2>5, WorkerReturns DEF SetJobSuccess, TypeOK
  <2> QED
    BY <2>4, <2>5
<1>25. ASSUME NEW n \in Nodes, MarkAsComplete(n) PROVE TypeInv'
  <2>1. complete' \in BOOLEAN /\ faults' \in 0 .. MaxFaults
    BY <1>6, <1>25 DEF MarkAsComplete, TypeOK
  <2> QED
    BY <1>1, <1>5, <1>25, <2>1, WorkerReturns DEF MarkAsComplete, TypeOK, Rows
<1>26. ASSUME NEW n \in Nodes, NEW status \in Statuses, worker[n].phase = "running",
              Write(UpdateStatus(worker[n].job, status)), Return(n),
              UNCHANGED <<replica, request, complete, done, granted>>
       PROVE  TypeInv'
  <2>1. worker[n].job \in Jobs
    BY <1>4, <1>26
  <2>2. rows' \in [Jobs -> Rows] /\ faults' \in 0 .. MaxFaults
    BY <1>1, <1>7, <1>26, <2>1, Updates
  <2> QED
    BY <1>1, <1>5, <1>26, <2>2, WorkerReturns DEF TypeOK
<1>27. ASSUME NEW n \in Nodes, StopJob(n) PROVE TypeInv'
  BY <1>2, <1>26, <1>27 DEF StopJob
<1>28. ASSUME NEW n \in Nodes, CancelJob(n) PROVE TypeInv'
  BY <1>2, <1>26, <1>28 DEF CancelJob
<1>29. ASSUME NEW n \in Nodes, WorkerStopped(n) PROVE TypeInv'
  BY <1>1, <1>5, <1>29, WorkerEnds DEF WorkerStopped, TypeOK, Rows
<1>30. ASSUME NEW n \in Nodes, ClaimError(n) PROVE TypeInv'
  BY <1>1, <1>5, <1>6, <1>30, WorkerReturns DEF ClaimError, TypeOK, Rows
<1>31. ASSUME NEW n \in Nodes, SetupError(n) PROVE TypeInv'
  <2>1. worker[n].job \in Jobs
    BY <1>4, <1>31 DEF SetupError
  <2>2. rows' \in [Jobs -> Rows]
    BY <1>1, <1>2, <1>31, <2>1, Updates DEF SetupError
  <2> QED
    BY <1>1, <1>5, <1>6, <1>31, <2>2, WorkerReturns DEF SetupError, TypeOK
<1>32. ASSUME NEW n \in Nodes, CancellationWatcher(n) PROVE TypeInv'
  <2>1. worker' = [worker EXCEPT ![n].canceled = TRUE]
    BY <1>32 DEF CancellationWatcher
  <2>2. /\ worker' \in [Nodes -> Workers]
        /\ worker'[n].phase = worker[n].phase
        /\ worker'[n].job = worker[n].job
        /\ \A m \in Nodes \ {n} : worker'[m] = worker[m]
    BY <1>1, <2>1, WorkerWarned
  <2>3. worker'[n].phase \notin {"off", "idle"} => worker'[n].job \in Jobs
    BY <1>4, <2>2
  <2>4. UNCHANGED <<rows, replica, request, complete, faults, done, granted>>
    BY <1>32 DEF CancellationWatcher
  <2> QED
    BY <1>1, <1>5, <2>2, <2>3, <2>4 DEF TypeOK, Rows
<1>33. ASSUME NEW n \in Nodes, Crash(n) PROVE TypeInv'
  BY <1>1, <1>5, <1>6, <1>33, WorkerEnds DEF Crash, TypeOK, Rows
<1>34. ASSUME NEW n \in Nodes, HandleJobPanic(n) PROVE TypeInv'
  <2>1. worker[n].job \in Jobs
    BY <1>4, <1>34 DEF HandleJobPanic
  <2>2. \E data \in 0 .. MaxBatches : FailWithError(worker[n].job, data)
    BY <1>34, <2>1 DEF HandleJobPanic, TypeOK
  <2>3. rows' \in [Jobs -> Rows] /\ faults' \in 0 .. MaxFaults
    BY <1>8, <2>1, <2>2
  <2> QED
    BY <1>1, <1>5, <1>34, <2>3, WorkerEnds DEF HandleJobPanic, TypeOK
<1>35. CASE UNCHANGED vars
  BY <1>35 DEF vars, TypeOK, Assigned
<1> QED
  BY <1>9, <1>10, <1>11, <1>12, <1>13, <1>14, <1>15, <1>16, <1>17, <1>18, <1>19,
     <1>20, <1>21, <1>22, <1>23, <1>24, <1>25, <1>27, <1>28, <1>29, <1>30, <1>31,
     <1>32, <1>33, <1>34, <1>35 DEF Next, DoJob

\* Every variable keeps its type.
THEOREM TypeCorrect == Spec => []TypeOK
<1>1. Spec => []TypeInv
  BY TypeInvInit, TypeInvStep, PTL DEF Spec
<1>2. TypeInv => TypeOK
  BY DEF TypeInv
<1> QED
  BY <1>1, <1>2, PTL

-----------------------------------------------------------------------------
(* Who may write to a job: as long as no status is set by hand *)

\* The status of the job a worker holds.  In progress or to be canceled until
\* setJobSuccess, whose first write may set an error and go on.
Held(n) ==
  /\ worker[n].phase \in {"running", "saving", "reporting"} =>
       rows[worker[n].job].status \in {"in_progress", "cancel_requested"}
  /\ worker[n].phase \in Holding =>
       rows[worker[n].job].status \notin {"none", "pending"}

HolderInv ==
  /\ TypeInv
  /\ OneRunner
  /\ \A n \in Nodes : Held(n)
  /\ request = NoRequest

StayFinished ==
  \A j \in Jobs : rows[j].status \in Finished => rows'[j].status \in Finished

\* A worker's step keeps the invariant if it does not touch the jobs of others.
LEMMA HolderStep ==
  ASSUME HolderInv, TypeInv', request' = request, NEW n \in Nodes,
         \A m \in Nodes \ {n} : worker'[m] = worker[m],
         \A m \in Nodes \ {n} : worker[m].phase \in Holding =>
           rows'[worker[m].job].status = rows[worker[m].job].status,
         worker'[n].phase \in Holding =>
           /\ \A m \in Nodes \ {n} :
                worker[m].phase \in Holding => worker[m].job # worker'[n].job
           /\ Held(n)'
  PROVE  HolderInv'
<1>1. \A m \in Nodes : Held(m)'
  BY DEF HolderInv, Held, Holding
<1>2. OneRunner'
  BY DEF HolderInv, OneRunner, Holds
<1> QED
  BY <1>1, <1>2 DEF HolderInv, NoRequest

\* What a worker that holds a job knows.
LEMMA Holder ==
  ASSUME HolderInv, NEW n \in Nodes, worker[n].phase \in Holding
  PROVE  /\ worker[n].job \in Jobs
         /\ worker[n].data \in 0 .. MaxBatches
         /\ \A m \in Nodes \ {n} :
              worker[m].phase \in Holding => worker[m].job # worker[n].job
         /\ Held(n)
<1>1. worker[n].job \in Jobs /\ worker[n].data \in 0 .. MaxBatches
  BY DEF HolderInv, TypeInv, TypeOK, Assigned, Workers, Holding
<1>2. \A m \in Nodes \ {n} :
        worker[m].phase \in Holding => worker[m].job # worker[n].job
  BY <1>1 DEF HolderInv, OneRunner, Holds
<1> QED
  BY <1>1, <1>2 DEF HolderInv

\* A step of the holder that writes to its own job only.
LEMMA HolderWrites ==
  ASSUME HolderInv, TypeInv', request' = request, NEW n \in Nodes,
         worker[n].phase \in Holding,
         \A m \in Nodes \ {n} : worker'[m] = worker[m],
         \A i \in Jobs \ {worker[n].job} : rows'[i].status = rows[i].status,
         worker'[n].phase \in Holding =>
           worker'[n].job = worker[n].job /\ Held(n)'
  PROVE  HolderInv'
<1>1. ASSUME NEW m \in Nodes \ {n}, worker[m].phase \in Holding
      PROVE  rows'[worker[m].job].status = rows[worker[m].job].status
  BY <1>1, Holder
<1> QED
  BY <1>1, Holder, HolderStep

\* At the start no worker holds a job.
LEMMA HolderInvInit == Init => HolderInv
  BY TypeInvInit DEF Init, HolderInv, OneRunner, Holds, Held, Holding, Off, AtRest

\* Every step keeps the holders apart and what is finished finished.
LEMMA HolderInvStep ==
  ASSUME AdminUpdates \subseteq {"cancel_requested"}, HolderInv, [Next]_vars
  PROVE  HolderInv' /\ StayFinished
<1>1. TypeInv /\ TypeOK /\ TypeInv'
  BY TypeInvStep DEF HolderInv, TypeInv
<1>2. {"none", "pending", "in_progress", "cancel_requested", "success", "error",
       "canceled"} = Statuses
  BY DEF Statuses, Finished
<1>3. \A n \in Nodes : worker[n].phase \in Phases
  BY <1>1 DEF TypeOK, Workers
\* Steps that change neither the table nor who holds what.
<1>4. ASSUME UNCHANGED <<rows, request>>,
             \A n \in Nodes :
               \/ worker'[n].phase \notin Holding
               \/ worker'[n].phase = worker[n].phase /\ worker'[n].job = worker[n].job
      PROVE  HolderInv' /\ StayFinished
  <2>1. OneRunner'
    BY <1>4 DEF HolderInv, OneRunner, Holds
  <2>2. \A n \in Nodes : Held(n)'
    BY <1>4 DEF HolderInv, Held, Holding
  <2> QED
    BY <1>1, <1>4, <2>1, <2>2 DEF HolderInv, StayFinished, NoRequest
<1>5. CASE UNCHANGED vars
  BY <1>4, <1>5 DEF vars
<1>6. CASE Replicate
  BY <1>4, <1>6 DEF Replicate
<1>7. CASE UpdateJobStatus
  BY <1>7 DEF UpdateJobStatus, HolderInv
<1>8. ASSUME NEW j \in Jobs, NEW status \in AdminUpdates,
             CheckStatusChange(j, status)
      PROVE  FALSE
  BY <1>8 DEF CheckStatusChange
\* Steps that change a status which no holder relies on.
<1>9. ASSUME UNCHANGED <<worker, request>>,
             \A i \in Jobs :
               \/ rows'[i].status = rows[i].status
               \/ rows[i].status \in {"none", "pending"}
               \/ rows[i].status = "in_progress"
                  /\ rows'[i].status = "cancel_requested"
      PROVE  HolderInv' /\ StayFinished
  <2>1. OneRunner'
    BY <1>9 DEF HolderInv, OneRunner, Holds
  <2>2. ASSUME NEW n \in Nodes PROVE Held(n)'
    <3>1. CASE worker[n].phase \in Holding
      BY <1>9, <3>1, Holder DEF Held, Holding
    <3>2. CASE worker[n].phase \notin Holding
      BY <1>9, <3>2 DEF Held, Holding
    <3> QED
      BY <3>1, <3>2
  <2> QED
    BY <1>1, <1>9, <2>1, <2>2 DEF HolderInv, StayFinished, Finished, NoRequest
<1>10. ASSUME NEW j \in Jobs, CreateJob(j) PROVE HolderInv' /\ StayFinished
  BY <1>1, <1>2, <1>9, <1>10, Updates DEF CreateJob
<1>11. ASSUME NEW j \in Jobs, RequestCancellation(j)
       PROVE  HolderInv' /\ StayFinished
  <2>1. rows[j].data \in 0 .. MaxBatches
    BY <1>1 DEF TypeOK
  <2>2. CASE rows[j].status = "pending"
    <3>1. \A i \in Jobs \ {j} : rows'[i].status = rows[i].status
      <4>1. "canceled" \in Statuses
        BY <1>2
      <4>2. \A i \in Jobs \ {j} : CancelOf(j)[i].status = rows[i].status
        BY <1>1, <2>1, <4>1, OptimisticUpdates DEF CancelOf
      <4> QED
        BY <1>11, <2>2, <4>2 DEF RequestCancellation
    <3> QED
      BY <1>9, <1>11, <2>2, <3>1 DEF RequestCancellation
  <2>3. CASE rows[j].status # "pending"
    <3>1. \A i \in Jobs : rows'[i].status =
            IF i = j /\ rows[j].status \in {"in_progress"} THEN "cancel_requested"
                                                           ELSE rows[i].status
      <4>1. "cancel_requested" \in Statuses
        BY <1>2
      <4>2. \A i \in Jobs : RequestOf(j)[i].status =
              IF i = j /\ rows[j].status \in {"in_progress"}
                THEN "cancel_requested" ELSE rows[i].status
        BY <1>1, <2>1, <4>1, OptimisticUpdates DEF RequestOf
      <4> QED
        BY <1>11, <2>3, <4>2 DEF RequestCancellation
    <3> QED
      BY <1>9, <1>11, <3>1 DEF RequestCancellation
  <2> QED
    BY <2>2, <2>3
<1>12. ASSUME NEW n \in Nodes, StartWorker(n) PROVE HolderInv' /\ StayFinished
  <2>1. "idle" \in Phases
    BY DEF Phases
  <2> QED
    BY <1>1, <1>4, <1>12, <2>1, WorkerMoves DEF StartWorker, Holding
<1>13. ASSUME NEW n \in Nodes, StopWorker(n) PROVE HolderInv' /\ StayFinished
  <2>1. \A m \in Nodes : /\ worker'[m].phase = worker[m].phase
                         /\ worker'[m].job = worker[m].job
    BY <1>1, <1>13 DEF StopWorker, TypeOK, Workers
  <2> QED
    BY <1>4, <1>13, <2>1 DEF StopWorker
<1>14. ASSUME NEW n \in Nodes, NEW j \in Jobs, PollAndNotify(n, j)
       PROVE  HolderInv' /\ StayFinished
  <2>1. /\ worker'[n].phase = "offered"
        /\ \A m \in Nodes \ {n} : worker'[m] = worker[m]
    BY <1>1, <1>14 DEF PollAndNotify, TypeOK, Workers
  <2> QED
    BY <1>4, <1>14, <2>1 DEF PollAndNotify, Holding
<1>15. ASSUME NEW n \in Nodes, CancellationWatcher(n)
       PROVE  HolderInv' /\ StayFinished
  <2>1. \A m \in Nodes : /\ worker'[m].phase = worker[m].phase
                         /\ worker'[m].job = worker[m].job
    BY <1>1, <1>15 DEF CancellationWatcher, TypeOK, Workers
  <2> QED
    BY <1>4, <1>15, <2>1 DEF CancellationWatcher
<1>16. ASSUME NEW n \in Nodes, UNCHANGED <<rows, request>>,
              Return(n) \/ worker' = [worker EXCEPT ![n] = Off]
       PROVE  HolderInv' /\ StayFinished
  <2>1. /\ worker'[n].phase \notin Holding
        /\ \A m \in Nodes \ {n} : worker'[m] = worker[m]
    BY <1>1, <1>16, WorkerReturns, WorkerEnds DEF Holding
  <2> QED
    BY <1>4, <1>16, <2>1
<1>17. ASSUME NEW n \in Nodes, WorkerStopped(n) PROVE HolderInv' /\ StayFinished
  BY <1>16, <1>17 DEF WorkerStopped
<1>18. ASSUME NEW n \in Nodes, ClaimError(n) PROVE HolderInv' /\ StayFinished
  BY <1>16, <1>18 DEF ClaimError
<1>19. ASSUME NEW n \in Nodes, Crash(n) PROVE HolderInv' /\ StayFinished
  BY <1>16, <1>19 DEF Crash
<1>20. ASSUME NEW n \in Nodes, MarkAsComplete(n) PROVE HolderInv' /\ StayFinished
  BY <1>16, <1>20 DEF MarkAsComplete
\* A job that is offered and still pending has no holder.
<1>21. ASSUME NEW n \in Nodes, worker[n].phase = "offered",
              rows[worker[n].job].status = "pending"
       PROVE  /\ worker[n].job \in Jobs
              /\ \A m \in Nodes :
                   worker[m].phase \in Holding => worker[m].job # worker[n].job
  BY <1>1, <1>21, Holder DEF TypeInv, Assigned, Held
<1>22. ASSUME NEW n \in Nodes, ClaimJob(n) PROVE HolderInv' /\ StayFinished
  <2>1. CASE rows[worker[n].job].status = "pending"
    <3>1. worker[n].phase = "offered" /\ worker[n].job \in Jobs
      BY <1>21, <1>22, <2>1 DEF ClaimJob
    <3>2. \A i \in Jobs : rows'[i].status =
            IF i = worker[n].job THEN "in_progress" ELSE rows[i].status
      BY <1>1, <1>2, <1>22, <2>1, <3>1, Updates DEF ClaimJob
    <3>3. /\ worker'[n].phase = "running"
          /\ worker'[n].job = worker[n].job
          /\ \A m \in Nodes \ {n} : worker'[m] = worker[m]
      BY <1>1, <1>22, <2>1 DEF ClaimJob, TypeOK, Workers
    <3>4. Held(n)'
      BY <3>1, <3>2, <3>3 DEF Held
    <3>5. ASSUME NEW m \in Nodes \ {n}, worker[m].phase \in Holding
          PROVE  /\ worker[m].job # worker'[n].job
                 /\ rows'[worker[m].job].status = rows[worker[m].job].status
      BY <1>21, <2>1, <3>1, <3>2, <3>3, <3>5, Holder
    <3>6. HolderInv'
      BY <1>1, <1>22, <3>3, <3>4, <3>5, HolderStep DEF ClaimJob
    <3>7. StayFinished
      BY <2>1, <3>2 DEF StayFinished, Finished
    <3> QED
      BY <3>6, <3>7
  <2>2. CASE rows[worker[n].job].status # "pending"
    BY <1>16, <1>22, <2>2 DEF ClaimJob
  <2> QED
    BY <2>1, <2>2
<1>23. ASSUME NEW n \in Nodes, SetupError(n) PROVE HolderInv' /\ StayFinished
  <2>1. worker[n].phase = "offered" /\ rows[worker[n].job].status = "pending"
    BY <1>23 DEF SetupError
  <2>2. \A i \in Jobs \ {worker[n].job} : rows'[i].status = rows[i].status
    BY <1>1, <1>2, <1>21, <1>23, <2>1, Updates DEF SetupError
  <2>3. /\ worker'[n].phase \notin Holding
        /\ \A m \in Nodes \ {n} : worker'[m] = worker[m]
    BY <1>1, <1>23, WorkerReturns DEF SetupError, Holding
  <2>4. ASSUME NEW m \in Nodes \ {n}, worker[m].phase \in Holding
        PROVE  rows'[worker[m].job].status = rows[worker[m].job].status
    BY <1>21, <2>1, <2>2, <2>4, Holder
  <2>5. HolderInv'
    BY <1>1, <1>23, <2>3, <2>4, HolderStep DEF SetupError
  <2> QED
    BY <2>1, <2>2, <2>5 DEF StayFinished, Finished
\* Steps of a holder that lets the job go, with what it leaves in the table.
<1>24. ASSUME NEW n \in Nodes, worker[n].phase \in Holding, request' = request,
              Return(n) \/ worker' = [worker EXCEPT ![n] = Off],
              \A i \in Jobs \ {worker[n].job} : rows'[i].status = rows[i].status,
              rows[worker[n].job].status \in Finished =>
                rows'[worker[n].job].status \in Finished
       PROVE  HolderInv' /\ StayFinished
  <2>1. /\ worker'[n].phase \notin Holding
        /\ \A m \in Nodes \ {n} : worker'[m] = worker[m]
    BY <1>1, <1>24, WorkerReturns, WorkerEnds DEF Holding
  <2>2. HolderInv'
    BY <1>1, <1>24, <2>1, HolderWrites
  <2> QED
    BY <1>24, <2>2 DEF StayFinished
\* Steps of a holder that keeps the job.
<1>25. ASSUME NEW n \in Nodes, worker[n].phase \in Holding, request' = request,
              NEW phase \in Phases, worker' = [worker EXCEPT ![n].phase = phase],
              \A i \in Jobs \ {worker[n].job} : rows'[i].status = rows[i].status,
              rows[worker[n].job].status \in Finished =>
                rows'[worker[n].job].status \in Finished,
              phase \in {"running", "saving", "reporting"} =>
                rows'[worker[n].job].status \in {"in_progress", "cancel_requested"},
              rows'[worker[n].job].status \notin {"none", "pending"}
       PROVE  HolderInv' /\ StayFinished
  <2>1. /\ worker'[n].phase = phase
        /\ worker'[n].job = worker[n].job
        /\ \A m \in Nodes \ {n} : worker'[m] = worker[m]
    BY <1>1, <1>25, WorkerMoves
  <2>2. Held(n)'
    BY <1>25, <2>1 DEF Held
  <2>3. HolderInv'
    BY <1>1, <1>25, <2>1, <2>2, HolderWrites
  <2> QED
    BY <1>25, <2>3 DEF StayFinished
\* The effect of FailWithError, and of the progress, on the statuses.
<1>26. ASSUME NEW n \in Nodes, worker[n].phase \in Holding,
              NEW data \in 0 .. MaxBatches,
              FailWithError(worker[n].job, data)
       PROVE  /\ \A i \in Jobs \ {worker[n].job} : rows'[i].status = rows[i].status
              /\ \/ rows'[worker[n].job].status = rows[worker[n].job].status
                 \/ rows'[worker[n].job].status = "error"
  <2>1. worker[n].job \in Jobs
    BY <1>26, Holder
  <2> QED
    BY <1>1, <1>26, <2>1, Errors DEF FailWithError
<1>27. ASSUME NEW n \in Nodes, worker[n].phase \in Holding,
              rows' = UpdateOptimistically(worker[n].job, {"in_progress"},
                                           "in_progress", worker[n].data)
       PROVE  \A i \in Jobs : rows'[i].status = rows[i].status
  <2>1. worker[n].job \in Jobs /\ worker[n].data \in 0 .. MaxBatches
    BY <1>27, Holder
  <2>2. "in_progress" \in Statuses
    BY <1>2
  <2>3. \A i \in Jobs : rows'[i].status =
          IF i = worker[n].job /\ rows[worker[n].job].status \in {"in_progress"}
            THEN "in_progress" ELSE rows[i].status
    BY <1>1, <1>27, <2>1, <2>2, OptimisticUpdates
  <2> QED
    BY <2>3
<1>28. ASSUME NEW n \in Nodes, DoBatch(n) PROVE HolderInv' /\ StayFinished
  <2>1. /\ worker[n].phase = "running"
        /\ worker'[n].phase \in {"saving", "reporting"}
        /\ worker'[n].job = worker[n].job
        /\ \A m \in Nodes \ {n} : worker'[m] = worker[m]
    BY <1>1, <1>28 DEF DoBatch, TypeOK, Workers
  <2>2. rows' = rows /\ request' = request
    BY <1>28 DEF DoBatch
  <2>3. worker[n].phase \in Holding
    BY <2>1 DEF Holding
  <2>4. Held(n)'
    BY <2>1, <2>2, <2>3, Holder DEF Held
  <2>5. HolderInv'
    BY <1>1, <2>1, <2>2, <2>3, <2>4, HolderWrites
  <2> QED
    BY <2>2, <2>5 DEF StayFinished
<1>29. ASSUME NEW n \in Nodes, SaveProgress(n) PROVE HolderInv' /\ StayFinished
  <2>1. worker[n].phase = "saving" /\ worker[n].phase \in Holding
    BY <1>29 DEF SaveProgress, Holding
  <2>2. \A i \in Jobs : rows'[i].status = rows[i].status
    BY <1>27, <1>29, <2>1 DEF SaveProgress
  <2>3. /\ worker[n].job \in Jobs
        /\ rows[worker[n].job].status \in {"in_progress", "cancel_requested"}
    BY <2>1, Holder DEF Held
  <2>4. \E phase \in Phases : worker' = [worker EXCEPT ![n].phase = phase]
    BY <1>29 DEF SaveProgress, Phases, Holding
  <2> QED
    BY <1>25, <1>29, <2>1, <2>2, <2>3, <2>4 DEF SaveProgress
<1>30. ASSUME NEW n \in Nodes, SaveProgressError(n)
       PROVE  HolderInv' /\ StayFinished
  <2>1. worker[n].phase = "saving" /\ worker[n].phase \in Holding
    BY <1>30 DEF SaveProgressError, Holding
  <2>2. /\ worker[n].job \in Jobs
        /\ worker[n].data \in 0 .. MaxBatches
        /\ rows[worker[n].job].status \in {"in_progress", "cancel_requested"}
    BY <2>1, Holder DEF Held
  <2>3. CASE Kind = "batch"
    <3>1. "running" \in Phases
      BY DEF Phases, Holding
    <3> QED
      BY <1>25, <1>30, <2>1, <2>2, <2>3, <3>1 DEF SaveProgressError
  <2>4. CASE Kind # "batch"
    BY <1>24, <1>26, <1>30, <2>1, <2>2, <2>4 DEF SaveProgressError, Finished
  <2> QED
    BY <2>3, <2>4
\* Steps from running that let the job go: its status is in progress or to be
\* canceled, so nothing finished is overwritten.
<1>31. ASSUME NEW n \in Nodes, worker[n].phase = "running"
       PROVE  /\ worker[n].phase \in Holding
              /\ worker[n].job \in Jobs
              /\ worker[n].data \in 0 .. MaxBatches
              /\ rows[worker[n].job].status \notin Finished
  <2>1. worker[n].phase \in Holding
    BY <1>31 DEF Holding
  <2> QED
    BY <1>31, <2>1, Holder DEF Held, Finished
<1>32. ASSUME NEW n \in Nodes, BatchError(n) PROVE HolderInv' /\ StayFinished
  <2>1. worker[n].phase = "running" /\ request' = request /\ Return(n)
    BY <1>32 DEF BatchError
  <2>2. \A i \in Jobs \ {worker[n].job} : rows'[i].status = rows[i].status
    BY <1>1, <1>31, <1>32, <2>1, Errors DEF BatchError, Write
  <2> QED
    BY <1>24, <1>31, <2>1, <2>2
<1>33. ASSUME NEW n \in Nodes, ResetJob(n) PROVE HolderInv' /\ StayFinished
  <2>1. worker[n].phase = "running" /\ request' = request /\ Return(n)
    BY <1>33 DEF ResetJob
  <2>2. 0 \in 0 .. MaxBatches /\ "pending" \in Statuses
    BY <1>2, JobServerAssumption
  <2>3. \A i \in Jobs \ {worker[n].job} :
          UpdateOptimistically(worker[n].job, {"in_progress"}, "pending", 0)[i].status
            = rows[i].status
    BY <1>1, <1>31, <2>1, <2>2, OptimisticUpdates
  <2>4. \A i \in Jobs \ {worker[n].job} : rows'[i].status = rows[i].status
    BY <1>33, <2>3 DEF ResetJob
  <2> QED
    BY <1>24, <1>31, <2>1, <2>4
<1>34. ASSUME NEW n \in Nodes, StopJob(n) \/ CancelJob(n)
       PROVE  HolderInv' /\ StayFinished
  <2>1. /\ worker[n].phase = "running" /\ request' = request /\ Return(n)
        /\ \E status \in {"pending", "canceled"} :
             Write(UpdateStatus(worker[n].job, status))
    BY <1>34 DEF StopJob, CancelJob
  <2>2. \A i \in Jobs \ {worker[n].job} : rows'[i].status = rows[i].status
    BY <1>1, <1>2, <1>31, <2>1, Updates DEF Write
  <2> QED
    BY <1>24, <1>31, <2>1, <2>2
<1>35. ASSUME NEW n \in Nodes, HandleJobPanic(n) PROVE HolderInv' /\ StayFinished
  <2>1. worker[n].phase = "running" /\ request' = request
    BY <1>35 DEF HandleJobPanic
  <2>2. \E data \in 0 .. MaxBatches : FailWithError(worker[n].job, data)
    <3>1. rows[worker[n].job].data \in 0 .. MaxBatches
      BY <1>1, <1>31, <2>1 DEF TypeOK
    <3>2. \E data \in 0 .. rows[worker[n].job].data :
            FailWithError(worker[n].job, data)
      BY <1>35 DEF HandleJobPanic
    <3>3. ASSUME NEW data \in 0 .. rows[worker[n].job].data
          PROVE  data \in 0 .. MaxBatches
      BY <3>1, JobServerAssumption
    <3> QED
      BY <3>2, <3>3
  <2> QED
    BY <1>24, <1>26, <1>31, <1>35, <2>1, <2>2 DEF HandleJobPanic
<1>36. ASSUME NEW n \in Nodes, ReportProgress(n) PROVE HolderInv' /\ StayFinished
  <2>1. worker[n].phase \in {"running", "reporting"} /\ worker[n].phase \in Holding
    BY <1>36 DEF ReportProgress, Holding
  <2>2. /\ worker[n].job \in Jobs
        /\ worker[n].data \in 0 .. MaxBatches
        /\ rows[worker[n].job].status \in {"in_progress", "cancel_requested"}
    BY <2>1, Holder DEF Held
  <2>3. /\ \A i \in Jobs \ {worker[n].job} : rows'[i].status = rows[i].status
        /\ \/ rows'[worker[n].job].status = rows[worker[n].job].status
           \/ rows'[worker[n].job].status = "error"
    BY <1>26, <1>27, <1>36, <2>1, <2>2 DEF ReportProgress
  <2>4. "finishing" \in Phases
    BY DEF Phases, Holding
  <2>5. worker' = [worker EXCEPT ![n].phase = "finishing"] /\ request' = request
    BY <1>36 DEF ReportProgress
  <2> QED
    BY <1>25, <2>1, <2>2, <2>3, <2>4, <2>5 DEF Finished
<1>37. ASSUME NEW n \in Nodes, SetJobSuccess(n) PROVE HolderInv' /\ StayFinished
  <2>1. worker[n].phase = "finishing" /\ worker[n].phase \in Holding
    BY <1>37 DEF SetJobSuccess, Holding
  <2>2. /\ worker[n].job \in Jobs
        /\ worker[n].data \in 0 .. MaxBatches
        /\ rows[worker[n].job].status \notin {"none", "pending"}
    BY <2>1, Holder DEF Held
  <2>3. /\ \A i \in Jobs \ {worker[n].job} :
             UpdateStatus(worker[n].job, "success")[i].status = rows[i].status
        /\ UpdateStatus(worker[n].job, "success")[worker[n].job].status = "success"
    BY <1>1, <1>2, <2>2, Updates
  <2>4. /\ \A i \in Jobs \ {worker[n].job} : rows'[i].status = rows[i].status
        /\ \/ rows'[worker[n].job].status = rows[worker[n].job].status
           \/ rows'[worker[n].job].status \in {"error", "success"}
    BY <1>26, <1>37, <2>1, <2>2, <2>3 DEF SetJobSuccess
  <2>5. request' = request
    BY <1>37 DEF SetJobSuccess
  <2>6. CASE Kind = "batch"
    <3>1. "marking" \in Phases
      BY DEF Phases, Holding
    <3>2. worker' = [worker EXCEPT ![n].phase = "marking"]
      BY <1>37, <2>6 DEF SetJobSuccess
    <3> QED
      BY <1>25, <2>1, <2>2, <2>4, <2>5, <3>1, <3>2 DEF Finished
  <2>7. CASE Kind # "batch"
    <3>1. Return(n)
      BY <1>37, <2>7 DEF SetJobSuccess
    <3> QED
      BY <1>24, <2>1, <2>4, <2>5, <3>1 DEF Finished
  <2> QED
    BY <2>6, <2>7
<1> QED
  BY <1>5, <1>6, <1>7, <1>8, <1>10, <1>11, <1>12, <1>13, <1>14, <1>15, <1>17, <1>18,
     <1>19, <1>20, <1>22, <1>23, <1>28, <1>29, <1>30, <1>32, <1>33, <1>34, <1>35,
     <1>36, <1>37 DEF Next, DoJob

\* The inductive invariant of the two theorems below.
LEMMA HolderInvariance ==
  ASSUME AdminUpdates \subseteq {"cancel_requested"}
  PROVE  Spec => []HolderInv
<1>1. HolderInv /\ [Next]_vars => HolderInv'
  BY HolderInvStep
<1> QED
  BY <1>1, HolderInvInit, PTL DEF Spec

\* Whatever the nodes see of the table and whenever they stop, crash or fail to
\* write, at most one of them runs a job.  Jobs may be canceled; a status that is
\* set by hand breaks this.
THEOREM OneRunnerAtATime ==
  ASSUME AdminUpdates \subseteq {"cancel_requested"}
  PROVE  Spec => []OneRunner
<1>1. HolderInv => OneRunner
  BY DEF HolderInv
<1> QED
  BY <1>1, HolderInvariance, PTL

\* And a job that succeeded, failed or was canceled is over.
THEOREM FinishedJobsStayFinished ==
  ASSUME AdminUpdates \subseteq {"cancel_requested"}
  PROVE  Spec => JobsStayFinished
<1>1. HolderInv /\ [Next]_vars => [StayFinished]_vars
  BY HolderInvStep
<1>2. [StayFinished]_vars => [\A j \in Jobs : rows[j].status \in Finished =>
                                rows'[j].status \in Finished]_vars
  BY DEF StayFinished
<1> QED
  BY <1>1, <1>2, HolderInvariance, PTL DEF Spec, JobsStayFinished

-----------------------------------------------------------------------------
(* What the table records as done was done *)

\* What a worker and the row of its job record was done since the last reset; and
\* all of it, once the worker is past the batches.
HolderData(n) ==
  worker[n].phase \in Holding =>
    /\ 1 .. worker[n].data \subseteq done[worker[n].job]
    /\ 1 .. rows[worker[n].job].data \subseteq done[worker[n].job]
    /\ worker[n].phase \in {"reporting", "finishing", "marking"} =>
         worker[n].data = MaxBatches

\* What the row of a job records while no worker has it.  A row that is in progress
\* may lie, when a reset failed: such a job is orphaned.
RowData(j) ==
  /\ rows[j].status = "none" => rows[j].data = 0
  /\ rows[j].status = "pending" => 1 .. rows[j].data \subseteq done[j]
  /\ rows[j].status = "success" => done[j] = 1 .. MaxBatches

\* All batches of the job are done, and no worker will have it again.
Retired(j) ==
  /\ done[j] = 1 .. MaxBatches
  /\ rows[j].status \notin {"none", "pending"}
  /\ \A n \in Nodes : ~Holds(n, j)

DataInv ==
  /\ \A n \in Nodes : HolderData(n)
  /\ \A j \in Jobs : RowData(j)
  /\ complete => \E j \in Jobs : Retired(j)

-----------------------------------------------------------------------------
(* The statements of the job store, row by row *)

LEMMA UpdatedRow ==
  ASSUME TypeOK, NEW j \in Jobs, NEW status
  PROVE  /\ \A i \in Jobs \ {j} : UpdateStatus(j, status)[i] = rows[i]
         /\ UpdateStatus(j, status)[j].status = status
         /\ UpdateStatus(j, status)[j].data = rows[j].data
  BY DEF TypeOK, UpdateStatus

LEMMA OptimisticRow ==
  ASSUME TypeOK, NEW j \in Jobs, NEW from, NEW status, NEW data
  PROVE  /\ \A i \in Jobs \ {j} :
              UpdateOptimistically(j, from, status, data)[i] = rows[i]
         /\ rows[j].status \notin from =>
              UpdateOptimistically(j, from, status, data)[j] = rows[j]
         /\ rows[j].status \in from =>
              /\ UpdateOptimistically(j, from, status, data)[j].status = status
              /\ UpdateOptimistically(j, from, status, data)[j].data = data
  BY DEF TypeOK, UpdateOptimistically

\* A row after a statement that may set an error.
LEMMA ErrorRow ==
  ASSUME TypeOK, NEW j \in Jobs, NEW data,
         rows' \in {rows, SetJobError(j, data)}
  PROVE  /\ \A i \in Jobs \ {j} : rows'[i] = rows[i]
         /\ \/ rows'[j] = rows[j]
            \/ rows'[j].status = "error" /\ rows'[j].data = data
  BY OptimisticRow DEF SetJobError

-----------------------------------------------------------------------------
(* Steps *)

\* A step that is about one job, J, and at most one worker, n.
LEMMA StepOnJob ==
  ASSUME DataInv, NEW n \in Nodes, NEW J \in Jobs,
         \A m \in Nodes \ {n} : worker'[m] = worker[m],
         \A m \in Nodes \ {n} : worker[m].phase \in Holding => worker[m].job # J,
         worker'[n].phase \in Holding => worker'[n].job = J,
         \A i \in Jobs \ {J} : rows'[i] = rows[i] /\ done'[i] = done[i],
         \A m \in Nodes : worker[m].phase \in Holding => worker[m].job \in Jobs,
         HolderData(n)', RowData(J)',
         ~Retired(J),
         complete' => complete \/ Retired(J)'
  PROVE  DataInv'
<1>1. ASSUME NEW m \in Nodes PROVE HolderData(m)'
  <2>1. CASE m # n /\ worker[m].phase \in Holding
    <3>1. worker[m].job \in Jobs \ {J} /\ worker'[m] = worker[m]
      BY <2>1
    <3> QED
      BY <3>1 DEF DataInv, HolderData
  <2>2. CASE m # n /\ worker[m].phase \notin Holding
    BY <2>2 DEF HolderData
  <2> QED
    BY <2>1, <2>2
<1>2. ASSUME NEW i \in Jobs PROVE RowData(i)'
  <2>1. CASE i # J
    BY <2>1 DEF DataInv, RowData
  <2> QED
    BY <2>1
<1>3. ASSUME NEW i \in Jobs, Retired(i) PROVE Retired(i)'
  <2>1. i # J
    BY <1>3
  <2> QED
    BY <1>3, <2>1 DEF Retired, Holds
<1>4. complete' => \E i \in Jobs : Retired(i)'
  BY <1>3 DEF DataInv
<1> QED
  BY <1>1, <1>2, <1>4 DEF DataInv

\* A step of the holder of job J that is about this job.
LEMMA StepOfHolder ==
  ASSUME HolderInv, DataInv, NEW n \in Nodes, NEW J \in Jobs, Holds(n, J),
         \A m \in Nodes \ {n} : worker'[m] = worker[m],
         worker'[n].phase \in Holding => worker'[n].job = J,
         \A i \in Jobs \ {J} : rows'[i] = rows[i] /\ done'[i] = done[i],
         HolderData(n)', RowData(J)',
         complete' => complete \/ Retired(J)'
  PROVE  DataInv'
<1>1. \A m \in Nodes \ {n} : worker[m].phase \in Holding => worker[m].job # J
  BY Holder DEF Holds
<1>2. \A m \in Nodes : worker[m].phase \in Holding => worker[m].job \in Jobs
  BY Holder
<1>3. ~Retired(J)
  BY DEF Retired
<1> QED
  BY <1>1, <1>2, <1>3, StepOnJob

\* The holder lets the job go and leaves a row that says the truth.
LEMMA LetGo ==
  ASSUME HolderInv, DataInv, NEW n \in Nodes, NEW J \in Jobs, Holds(n, J),
         Return(n) \/ worker' = [worker EXCEPT ![n] = Off],
         \A i \in Jobs \ {J} : rows'[i] = rows[i] /\ done'[i] = done[i],
         RowData(J)',
         complete' => complete \/ Retired(J)'
  PROVE  DataInv'
<1>1. /\ worker'[n].phase \notin Holding
      /\ \A m \in Nodes \ {n} : worker'[m] = worker[m]
  BY WorkerReturns, WorkerEnds DEF Holding, HolderInv, TypeInv
<1>2. HolderData(n)'
  BY <1>1 DEF HolderData
<1> QED
  BY <1>1, <1>2, StepOfHolder

\* The holder goes on to another phase with the job.
LEMMA GoOn ==
  ASSUME HolderInv, DataInv, NEW n \in Nodes, NEW J \in Jobs, Holds(n, J),
         NEW phase \in Phases, worker' = [worker EXCEPT ![n].phase = phase],
         done' = done, complete' = complete,
         \A i \in Jobs \ {J} : rows'[i] = rows[i],
         1 .. rows'[J].data \subseteq done[J],
         phase \in {"reporting", "finishing", "marking"} =>
           worker[n].data = MaxBatches,
         RowData(J)'
  PROVE  DataInv'
<1>1. /\ worker'[n].phase = phase
      /\ worker'[n].job = J
      /\ worker'[n].data = worker[n].data
      /\ \A m \in Nodes \ {n} : worker'[m] = worker[m]
  BY DEF HolderInv, TypeInv, TypeOK, Workers, Holds
<1>2. 1 .. worker[n].data \subseteq done[J]
  BY DEF DataInv, HolderData, Holds
<1>3. HolderData(n)'
  BY <1>1, <1>2 DEF HolderData
<1> QED
  BY <1>1, <1>3, StepOfHolder

\* At the start nothing is recorded and nobody works.
LEMMA DataInvInit == Init => DataInv
<1> SUFFICES ASSUME Init PROVE DataInv
  OBVIOUS
<1>1. \A n \in Nodes : HolderData(n)
  BY DEF Init, HolderData, Off, AtRest, Holding
<1>2. \A j \in Jobs : RowData(j)
  BY DEF Init, RowData
<1> QED
  BY <1>1, <1>2 DEF Init, DataInv

\* Every step keeps it.
LEMMA DataInvStep ==
  ASSUME AdminUpdates \subseteq {"cancel_requested"},
         HolderInv, DataInv, [Next]_vars
  PROVE  DataInv'
<1>1. HolderInv'
  BY HolderInvStep
<1>2. /\ TypeOK /\ TypeOK' /\ MaxBatches \in Nat \ {0}
      /\ rows \in [Jobs -> Rows] /\ done \in [Jobs -> SUBSET (1 .. MaxBatches)]
      /\ worker \in [Nodes -> Workers]
  BY <1>1, JobServerAssumption DEF HolderInv, TypeInv, TypeOK, Rows
<1>3. {"idle", "running", "saving", "reporting", "finishing", "marking"}
        \subseteq Phases
  BY DEF Phases, Holding
\* What a worker that holds a job knows.
<1>4. ASSUME NEW n \in Nodes, worker[n].phase \in Holding
      PROVE  /\ worker[n].job \in Jobs
             /\ Holds(n, worker[n].job)
             /\ worker[n].data \in 0 .. MaxBatches
             /\ 1 .. worker[n].data \subseteq done[worker[n].job]
             /\ 1 .. rows[worker[n].job].data \subseteq done[worker[n].job]
             /\ worker[n].phase \in {"reporting", "finishing", "marking"} =>
                  worker[n].data = MaxBatches
             /\ worker[n].phase \in {"running", "saving", "reporting"} =>
                  rows[worker[n].job].status \in {"in_progress", "cancel_requested"}
             /\ rows[worker[n].job].status \notin {"none", "pending"}
  BY <1>4, Holder DEF DataInv, HolderData, Holds, Held
<1>5. ASSUME NEW J \in Jobs, 1 .. MaxBatches \subseteq done[J]
      PROVE  done[J] = 1 .. MaxBatches
  BY <1>2, <1>5
\* Steps that change neither the table nor who holds what.
<1>6. ASSUME UNCHANGED <<rows, done, complete>>,
             \A n \in Nodes :
               \/ worker'[n].phase \notin Holding
               \/ /\ worker'[n].phase = worker[n].phase
                  /\ worker'[n].job = worker[n].job
                  /\ worker'[n].data = worker[n].data
      PROVE  DataInv'
  <2>1. \A n \in Nodes : HolderData(n)'
    BY <1>6 DEF DataInv, HolderData
  <2>2. \A j \in Jobs : RowData(j)'
    BY <1>6 DEF DataInv, RowData
  <2>3. \A j \in Jobs : Retired(j) => Retired(j)'
    BY <1>6 DEF Retired, Holds
  <2> QED
    BY <1>6, <2>1, <2>2, <2>3 DEF DataInv
<1>7. CASE UNCHANGED vars
  BY <1>6, <1>7 DEF vars
<1>8. CASE Replicate
  BY <1>6, <1>8 DEF Replicate
<1>9. CASE UpdateJobStatus
  BY <1>9 DEF UpdateJobStatus, HolderInv
<1>10. ASSUME NEW j \in Jobs, NEW status \in AdminUpdates,
              CheckStatusChange(j, status)
       PROVE  DataInv'
  BY <1>10 DEF CheckStatusChange
<1>11. ASSUME NEW n \in Nodes, UNCHANGED <<rows, done, complete>>,
              Return(n) \/ worker' = [worker EXCEPT ![n] = Off]
       PROVE  DataInv'
  <2>1. /\ worker'[n].phase \notin Holding
        /\ \A m \in Nodes \ {n} : worker'[m] = worker[m]
    BY <1>2, <1>11, WorkerReturns, WorkerEnds DEF Holding
  <2> QED
    BY <1>6, <1>11, <2>1
<1>12. ASSUME NEW n \in Nodes,
              WorkerStopped(n) \/ ClaimError(n) \/ Crash(n)
       PROVE  DataInv'
  BY <1>11, <1>12 DEF WorkerStopped, ClaimError, Crash
<1>13. ASSUME NEW n \in Nodes, StartWorker(n) PROVE DataInv'
  <2>1. /\ worker'[n].phase = "idle"
        /\ \A m \in Nodes \ {n} : worker'[m] = worker[m]
    BY <1>2, <1>3, <1>13, WorkerMoves DEF StartWorker
  <2> QED
    BY <1>6, <1>13, <2>1 DEF StartWorker, Holding
<1>14. ASSUME NEW n \in Nodes, StopWorker(n) \/ CancellationWatcher(n)
       PROVE  DataInv'
  <2>1. \A m \in Nodes : /\ worker'[m].phase = worker[m].phase
                         /\ worker'[m].job = worker[m].job
                         /\ worker'[m].data = worker[m].data
    BY <1>2, <1>14 DEF StopWorker, CancellationWatcher, Workers
  <2> QED
    BY <1>6, <1>14, <2>1 DEF StopWorker, CancellationWatcher
<1>15. ASSUME NEW n \in Nodes, NEW j \in Jobs, PollAndNotify(n, j) PROVE DataInv'
  <2>1. /\ worker'[n].phase = "offered"
        /\ \A m \in Nodes \ {n} : worker'[m] = worker[m]
    BY <1>2, <1>15 DEF PollAndNotify, Workers
  <2> QED
    BY <1>6, <1>15, <2>1 DEF PollAndNotify, Holding
<1>16. ASSUME NEW j \in Jobs, CreateJob(j) PROVE DataInv'
  <2>1. /\ rows'[j].status = "pending" /\ rows'[j].data = rows[j].data
        /\ \A i \in Jobs \ {j} : rows'[i] = rows[i]
        /\ rows[j].status = "none"
        /\ UNCHANGED <<worker, done, complete>>
    BY <1>2, <1>16, UpdatedRow DEF CreateJob
  <2>2. \A n \in Nodes : HolderData(n)'
    BY <1>4, <2>1 DEF DataInv, HolderData
  <2>3. ASSUME NEW i \in Jobs PROVE RowData(i)'
    <3>1. CASE i = j
      <4>1. rows[j].data = 0
        BY <2>1 DEF DataInv, RowData
      <4> QED
        BY <2>1, <3>1, <4>1 DEF RowData
    <3>2. CASE i # j
      BY <2>1, <3>2 DEF DataInv, RowData
    <3> QED
      BY <3>1, <3>2
  <2>4. \A i \in Jobs : Retired(i) => Retired(i)'
    BY <2>1 DEF Retired, Holds
  <2> QED
    BY <2>1, <2>2, <2>3, <2>4 DEF DataInv
<1>17. ASSUME NEW j \in Jobs, RequestCancellation(j) PROVE DataInv'
  <2>1. UNCHANGED <<worker, done, complete>>
    BY <1>17 DEF RequestCancellation
  <2>2. /\ \A i \in Jobs \ {j} : rows'[i] = rows[i]
        /\ rows'[j].data = rows[j].data
        /\ \/ rows'[j].status = rows[j].status
           \/ rows'[j].status \in {"canceled", "cancel_requested"}
    BY <1>2, <1>17, OptimisticRow DEF RequestCancellation, CancelOf, RequestOf
  <2>3. \A n \in Nodes : HolderData(n)'
    BY <1>4, <2>1, <2>2 DEF DataInv, HolderData
  <2>4. \A i \in Jobs : RowData(i)'
    BY <2>1, <2>2 DEF DataInv, RowData
  <2>5. \A i \in Jobs : Retired(i) => Retired(i)'
    BY <2>1, <2>2 DEF Retired, Holds
  <2> QED
    BY <2>1, <2>3, <2>4, <2>5 DEF DataInv
\* A job that is offered and still pending has no holder and is not retired.
<1>18. ASSUME NEW n \in Nodes, worker[n].phase = "offered",
              rows[worker[n].job].status = "pending"
       PROVE  /\ worker[n].job \in Jobs
              /\ \A m \in Nodes :
                   worker[m].phase \in Holding => worker[m].job # worker[n].job
              /\ ~Retired(worker[n].job)
              /\ 1 .. rows[worker[n].job].data \subseteq done[worker[n].job]
  <2>1. worker[n].job \in Jobs
    BY <1>18 DEF HolderInv, TypeInv, Assigned
  <2> QED
    BY <1>4, <1>18, <2>1 DEF DataInv, RowData, Retired
<1>19. ASSUME NEW n \in Nodes, ClaimJob(n) PROVE DataInv'
  <2>1. CASE rows[worker[n].job].status = "pending"
    <3>1. PICK J \in Jobs : J = worker[n].job
      BY <1>18, <1>19, <2>1 DEF ClaimJob
    <3>2. /\ rows'[J].status = "in_progress" /\ rows'[J].data = rows[J].data
          /\ \A i \in Jobs \ {J} : rows'[i] = rows[i]
      BY <1>2, <1>19, <2>1, <3>1, UpdatedRow DEF ClaimJob
    <3>3. /\ worker'[n].phase = "running"
          /\ worker'[n].job = J
          /\ worker'[n].data = rows[J].data
          /\ \A m \in Nodes \ {n} : worker'[m] = worker[m]
      BY <1>2, <1>19, <2>1, <3>1 DEF ClaimJob, Workers
    <3>4. UNCHANGED <<done, complete>>
      BY <1>19 DEF ClaimJob
    <3>5. HolderData(n)' /\ RowData(J)'
      BY <1>18, <1>19, <2>1, <3>1, <3>2, <3>3, <3>4 DEF ClaimJob, HolderData, RowData
    <3> QED
      BY <1>4, <1>18, <1>19, <2>1, <3>1, <3>2, <3>3, <3>4, <3>5, StepOnJob
      DEF ClaimJob
  <2>2. CASE rows[worker[n].job].status # "pending"
    BY <1>11, <1>19, <2>2 DEF ClaimJob
  <2> QED
    BY <2>1, <2>2
<1>20. ASSUME NEW n \in Nodes, SetupError(n) PROVE DataInv'
  <2>1. worker[n].phase = "offered" /\ rows[worker[n].job].status = "pending"
    BY <1>20 DEF SetupError
  <2>2. PICK J \in Jobs : J = worker[n].job
    BY <1>18, <2>1
  <2>3. /\ rows'[J].status \in {"in_progress", "error"}
        /\ \A i \in Jobs \ {J} : rows'[i] = rows[i]
    BY <1>2, <1>20, <2>2, UpdatedRow DEF SetupError
  <2>4. /\ worker'[n].phase \notin Holding
        /\ \A m \in Nodes \ {n} : worker'[m] = worker[m]
    BY <1>2, <1>20, WorkerReturns DEF SetupError, Holding
  <2>5. UNCHANGED <<done, complete>>
    BY <1>20 DEF SetupError
  <2>6. HolderData(n)' /\ RowData(J)'
    BY <2>3, <2>4 DEF HolderData, RowData
  <2> QED
    BY <1>4, <1>18, <2>1, <2>2, <2>3, <2>4, <2>5, <2>6, StepOnJob
\* Steps of the holder of J.
<1>21. ASSUME NEW n \in Nodes, NEW J \in Jobs, Holds(n, J), DoBatch(n)
       PROVE  DataInv'
  <2> DEFINE last == LastBatch(worker[n])
  <2>1. /\ worker[n].phase = "running" /\ worker[n].job = J
        /\ UNCHANGED <<rows, complete>>
    BY <1>21 DEF DoBatch, Holds
  <2>2. worker[n].data \in 0 .. MaxBatches /\ worker[n].phase \in Holding
    BY <1>4, <2>1 DEF Holding
  <2>3. /\ last \in 0 .. MaxBatches
        /\ worker[n].data <= last
        /\ Kind = "simple" => last = MaxBatches
    BY <1>2, <2>2 DEF LastBatch
  <2>4. /\ worker'[n].phase = IF Kind = "simple" THEN "reporting" ELSE "saving"
        /\ worker'[n].job = J
        /\ worker'[n].data = last
        /\ \A m \in Nodes \ {n} : worker'[m] = worker[m]
    BY <1>2, <1>21, <2>1 DEF DoBatch, Workers
  <2>5. /\ done'[J] = done[J] \cup ((worker[n].data + 1) .. last)
        /\ \A i \in Jobs \ {J} : done'[i] = done[i]
    BY <1>2, <1>21, <2>1 DEF DoBatch
  <2>6. 1 .. worker[n].data \subseteq done[J] /\ 1 .. rows[J].data \subseteq done[J]
    BY <1>4, <2>1, <2>2
  <2>7. 1 .. last \subseteq done'[J]
    BY <2>2, <2>3, <2>5, <2>6
  <2> HIDE DEF last
  <2>8. HolderData(n)'
    BY <2>1, <2>3, <2>4, <2>5, <2>6, <2>7 DEF HolderData
  <2>9. RowData(J)'
    BY <1>4, <2>1, <2>2 DEF RowData
  <2> QED
    BY <1>21, <2>1, <2>4, <2>5, <2>8, <2>9, StepOfHolder
<1>22. ASSUME NEW n \in Nodes, NEW J \in Jobs, Holds(n, J), SaveProgress(n)
       PROVE  DataInv'
  <2>1. /\ worker[n].phase = "saving" /\ worker[n].job = J
        /\ worker[n].phase \in Holding
        /\ UNCHANGED <<done, complete>>
    BY <1>22 DEF SaveProgress, Holds
  <2>2. /\ \A i \in Jobs \ {J} : rows'[i] = rows[i]
        /\ \/ rows'[J] = rows[J]
           \/ rows'[J].status = "in_progress" /\ rows'[J].data = worker[n].data
    BY <1>2, <1>22, <2>1, OptimisticRow DEF SaveProgress
  <2>3. /\ 1 .. rows'[J].data \subseteq done[J]
        /\ RowData(J)'
    BY <1>4, <2>1, <2>2 DEF RowData
  <2>4. PICK phase \in {"finishing", "running"} :
          /\ worker' = [worker EXCEPT ![n].phase = phase]
          /\ phase = "finishing" => worker[n].data = MaxBatches
    BY <1>22 DEF SaveProgress
  <2> QED
    BY <1>3, <1>22, <2>1, <2>2, <2>3, <2>4, GoOn
<1>23. ASSUME NEW n \in Nodes, NEW J \in Jobs, Holds(n, J), SaveProgressError(n)
       PROVE  DataInv'
  <2>1. /\ worker[n].phase = "saving" /\ worker[n].job = J
        /\ worker[n].phase \in Holding
        /\ UNCHANGED <<done, complete>>
    BY <1>23 DEF SaveProgressError, Holds
  <2>2. CASE Kind = "batch"
    <3>1. rows' = rows /\ worker' = [worker EXCEPT ![n].phase = "running"]
      BY <1>23, <2>2 DEF SaveProgressError
    <3>2. 1 .. rows'[J].data \subseteq done[J] /\ RowData(J)'
      BY <1>4, <2>1, <3>1 DEF RowData
    <3> QED
      BY <1>3, <1>23, <2>1, <3>1, <3>2, GoOn
  <2>3. CASE Kind # "batch"
    <3>1. Return(n) /\ rows' \in {rows, SetJobError(J, worker[n].data)}
      BY <1>23, <2>1, <2>3 DEF SaveProgressError, FailWithError
    <3>2. /\ \A i \in Jobs \ {J} : rows'[i] = rows[i]
          /\ rows'[J] = rows[J] \/ rows'[J].status = "error"
      BY <1>2, <3>1, ErrorRow
    <3>3. RowData(J)'
      BY <1>4, <2>1, <3>2 DEF RowData
    <3> QED
      BY <1>23, <2>1, <3>1, <3>2, <3>3, LetGo
  <2> QED
    BY <2>2, <2>3
<1>24. ASSUME NEW n \in Nodes, NEW J \in Jobs, Holds(n, J),
              BatchError(n) \/ HandleJobPanic(n)
       PROVE  DataInv'
  <2>1. /\ worker[n].phase = "running" /\ worker[n].job = J
        /\ worker[n].phase \in Holding
        /\ UNCHANGED <<done, complete>>
    BY <1>24 DEF BatchError, HandleJobPanic, Holds
  <2>2. \E data : rows' \in {rows, SetJobError(J, data)}
    BY <1>24, <2>1 DEF BatchError, HandleJobPanic, Write, FailWithError
  <2>3. /\ \A i \in Jobs \ {J} : rows'[i] = rows[i]
        /\ rows'[J] = rows[J] \/ rows'[J].status = "error"
    BY <1>2, <2>2, ErrorRow
  <2>4. RowData(J)'
    BY <1>4, <2>1, <2>3 DEF RowData
  <2>5. Return(n) \/ worker' = [worker EXCEPT ![n] = Off]
    BY <1>24 DEF BatchError, HandleJobPanic
  <2> QED
    BY <1>24, <2>1, <2>3, <2>4, <2>5, LetGo
<1>25. ASSUME NEW n \in Nodes, NEW J \in Jobs, Holds(n, J),
              StopJob(n) \/ CancelJob(n)
       PROVE  DataInv'
  <2>1. /\ worker[n].phase = "running" /\ worker[n].job = J
        /\ worker[n].phase \in Holding
        /\ Return(n)
        /\ UNCHANGED <<done, complete>>
    BY <1>25 DEF StopJob, CancelJob, Holds
  <2>2. /\ \A i \in Jobs \ {J} : rows'[i] = rows[i]
        /\ rows'[J].data = rows[J].data
        /\ \/ rows'[J].status = rows[J].status
           \/ rows'[J].status \in {"pending", "canceled"}
    BY <1>2, <1>25, <2>1, UpdatedRow DEF StopJob, CancelJob, Write
  <2>3. RowData(J)'
    BY <1>4, <2>1, <2>2 DEF RowData
  <2> QED
    BY <1>25, <2>1, <2>2, <2>3, LetGo
<1>26. ASSUME NEW n \in Nodes, NEW J \in Jobs, Holds(n, J), ResetJob(n)
       PROVE  DataInv'
  <2>1. /\ worker[n].phase = "running" /\ worker[n].job = J
        /\ worker[n].phase \in Holding
        /\ Return(n)
        /\ UNCHANGED complete
    BY <1>26 DEF ResetJob, Holds
  <2>2. /\ \A i \in Jobs \ {J} : rows'[i] = rows[i] /\ done'[i] = done[i]
        /\ \/ rows'[J] = rows[J]
           \/ rows'[J].status = "pending" /\ rows'[J].data = 0
    BY <1>2, <1>26, <2>1, OptimisticRow DEF ResetJob
  <2>3. RowData(J)'
    BY <1>4, <2>1, <2>2 DEF RowData
  <2> QED
    BY <1>26, <2>1, <2>2, <2>3, LetGo
<1>27. ASSUME NEW n \in Nodes, NEW J \in Jobs, Holds(n, J), ReportProgress(n)
       PROVE  DataInv'
  <2>1. /\ worker[n].job = J
        /\ worker[n].phase \in {"running", "reporting"}
        /\ worker[n].phase \in Holding
        /\ UNCHANGED <<done, complete>>
        /\ worker' = [worker EXCEPT ![n].phase = "finishing"]
    BY <1>27 DEF ReportProgress, Holds
  <2>2. worker[n].data = MaxBatches
    BY <1>4, <1>27, <2>1 DEF ReportProgress
  <2>3. /\ \A i \in Jobs \ {J} : rows'[i] = rows[i]
        /\ \/ rows'[J] = rows[J]
           \/ /\ rows'[J].status \in {"in_progress", "error"}
              /\ rows'[J].data = worker[n].data
    <3>1. CASE rows' = UpdateOptimistically(J, {"in_progress"}, "in_progress",
                                            worker[n].data)
      BY <1>2, <3>1, OptimisticRow
    <3>2. CASE rows' \in {rows, SetJobError(J, worker[n].data)}
      BY <1>2, <3>2, ErrorRow
    <3> QED
      BY <1>27, <2>1, <3>1, <3>2 DEF ReportProgress, FailWithError
  <2>4. 1 .. rows'[J].data \subseteq done[J] /\ RowData(J)'
    BY <1>4, <2>1, <2>3 DEF RowData
  <2> QED
    BY <1>3, <1>27, <2>1, <2>2, <2>3, <2>4, GoOn
<1>28. ASSUME NEW n \in Nodes, NEW J \in Jobs, Holds(n, J), SetJobSuccess(n)
       PROVE  DataInv'
  <2>1. /\ worker[n].phase = "finishing" /\ worker[n].job = J
        /\ worker[n].phase \in Holding
        /\ UNCHANGED <<done, complete>>
    BY <1>28 DEF SetJobSuccess, Holds
  <2>2. worker[n].data = MaxBatches /\ done[J] = 1 .. MaxBatches
    BY <1>4, <1>5, <2>1
  <2>3. /\ \A i \in Jobs \ {J} : rows'[i] = rows[i]
        /\ \/ rows'[J] = rows[J]
           \/ rows'[J].status = "success" /\ rows'[J].data = rows[J].data
           \/ rows'[J].status = "error" /\ rows'[J].data = worker[n].data
    <3>1. CASE rows' = UpdateStatus(J, "success")
      BY <1>2, <3>1, UpdatedRow
    <3>2. CASE rows' \in {rows, SetJobError(J, worker[n].data)}
      BY <1>2, <3>2, ErrorRow
    <3> QED
      BY <1>28, <2>1, <3>1, <3>2 DEF SetJobSuccess, FailWithError
  <2>4. 1 .. rows'[J].data \subseteq done[J] /\ RowData(J)'
    BY <1>4, <2>1, <2>2, <2>3 DEF RowData
  <2>5. CASE Kind = "batch"
    <3>1. worker' = [worker EXCEPT ![n].phase = "marking"]
      BY <1>28, <2>5 DEF SetJobSuccess
    <3> QED
      BY <1>3, <1>28, <2>1, <2>2, <2>3, <2>4, <3>1, GoOn
  <2>6. CASE Kind # "batch"
    <3>1. Return(n)
      BY <1>28, <2>6 DEF SetJobSuccess
    <3> QED
      BY <1>28, <2>1, <2>3, <2>4, <3>1, LetGo
  <2> QED
    BY <2>5, <2>6
<1>29. ASSUME NEW n \in Nodes, NEW J \in Jobs, Holds(n, J), MarkAsComplete(n)
       PROVE  DataInv'
  <2>1. /\ worker[n].phase = "marking" /\ worker[n].job = J
        /\ worker[n].phase \in Holding
        /\ Return(n)
        /\ UNCHANGED <<rows, done>>
    BY <1>29 DEF MarkAsComplete, Holds
  <2>2. done[J] = 1 .. MaxBatches /\ rows[J].status \notin {"none", "pending"}
    BY <1>4, <1>5, <2>1
  <2>3. /\ worker'[n].phase \notin Holding
        /\ \A m \in Nodes \ {n} : worker'[m] = worker[m]
    BY <1>2, <2>1, WorkerReturns DEF Holding
  <2>4. \A m \in Nodes \ {n} : worker[m].phase \in Holding => worker[m].job # J
    BY <2>1, Holder
  <2>5. Retired(J)'
    BY <2>1, <2>2, <2>3, <2>4 DEF Retired, Holds
  <2>6. RowData(J)'
    BY <2>1 DEF DataInv, RowData
  <2> QED
    BY <1>29, <2>1, <2>5, <2>6, LetGo
<1>30. ASSUME NEW n \in Nodes,
              \/ DoBatch(n)
              \/ SaveProgress(n)
              \/ SaveProgressError(n)
              \/ BatchError(n)
              \/ HandleJobPanic(n)
              \/ StopJob(n)
              \/ CancelJob(n)
              \/ ResetJob(n)
              \/ ReportProgress(n)
              \/ SetJobSuccess(n)
              \/ MarkAsComplete(n)
       PROVE  DataInv'
  <2>1. worker[n].phase \in Holding
    BY <1>30 DEF DoBatch, SaveProgress, SaveProgressError, BatchError, HandleJobPanic,
       StopJob, CancelJob, ResetJob, ReportProgress, SetJobSuccess, MarkAsComplete,
       Holding
  <2>2. PICK J \in Jobs : Holds(n, J)
    BY <1>4, <2>1
  <2> QED
    BY <1>21, <1>22, <1>23, <1>24, <1>25, <1>26, <1>27, <1>28, <1>29, <1>30, <2>2
<1> QED
  BY <1>7, <1>8, <1>9, <1>10, <1>12, <1>13, <1>14, <1>15, <1>16, <1>17, <1>19, <1>20,
     <1>30 DEF Next, DoJob

\* The inductive invariant of the three theorems below.
LEMMA DataInvariance ==
  ASSUME AdminUpdates \subseteq {"cancel_requested"}
  PROVE  Spec => []DataInv
<1>1. HolderInv /\ DataInv /\ [Next]_vars => DataInv'
  BY DataInvStep
<1> QED
  BY <1>1, DataInvInit, HolderInvariance, PTL DEF Spec

\* A node that takes over a job that was stopped or reset misses no batch: what the
\* row of a pending job records as done was done since the job was last reset.
THEOREM RecordedMeansDone ==
  ASSUME AdminUpdates \subseteq {"cancel_requested"}
  PROVE  Spec => []RecordedIsDone
<1>1. DataInv => RecordedIsDone
  BY DEF DataInv, RowData, RecordedIsDone
<1> QED
  BY <1>1, DataInvariance, PTL

\* Whatever crashed, stopped, failed to be written or was resumed elsewhere, a job
\* that setJobSuccess marks has done every batch since it was last reset.
THEOREM SuccessIsDone ==
  ASSUME AdminUpdates \subseteq {"cancel_requested"}
  PROVE  Spec => []SuccessMeansDone
<1>1. DataInv => SuccessMeansDone
  BY DEF DataInv, RowData, SuccessMeansDone
<1> QED
  BY <1>1, DataInvariance, PTL

\* markAsComplete keeps the migration from ever running again, so some job must have
\* done all of it; and no later reset of that job can undo this.
THEOREM MarkedIsDone ==
  ASSUME AdminUpdates \subseteq {"cancel_requested"}
  PROVE  Spec => []CompleteMeansDone
<1>1. DataInv => CompleteMeansDone
  BY DEF DataInv, Retired, CompleteMeansDone
<1> QED
  BY <1>1, DataInvariance, PTL

-----------------------------------------------------------------------------
(* A migration is scheduled once *)

\* Nobody may cancel a migration, and at most one job of it waits or runs.
SingleInv ==
  /\ \A j \in Jobs : rows[j].status # "cancel_requested"
  /\ \A i, j \in Active : i = j

\* A step that writes to one job, which it ends or which was active already.
LEMMA SingleStep ==
  ASSUME SingleInv, NEW J \in Jobs,
         \A i \in Jobs \ {J} : rows'[i] = rows[i],
         \/ rows'[J] = rows[J]
         \/ rows'[J].status \in Finished
         \/ /\ rows[J].status \in {"pending", "in_progress"}
            /\ rows'[J].status \in {"pending", "in_progress"}
  PROVE  SingleInv'
<1>1. Active' \subseteq Active
  BY DEF Active, Finished
<1>2. \A j \in Jobs : rows'[j].status # "cancel_requested"
  BY DEF SingleInv, Finished
<1> QED
  BY <1>1, <1>2 DEF SingleInv

\* Only CreateJobOnce adds an active job, and it adds the first.
LEMMA SingleInvStep ==
  ASSUME Kind = "batch", HolderInv, SingleInv, [Next]_vars
  PROVE  SingleInv'
<1>1. TypeOK /\ AdminUpdates = {}
  BY JobServerAssumption DEF HolderInv, TypeInv
<1>2. ASSUME UNCHANGED rows PROVE SingleInv'
  BY <1>2 DEF SingleInv, Active
<1>3. CASE UNCHANGED vars
  BY <1>2, <1>3 DEF vars
<1>4. CASE Replicate
  BY <1>2, <1>4 DEF Replicate
<1>5. CASE UpdateJobStatus
  BY <1>5 DEF UpdateJobStatus, HolderInv
<1>6. ASSUME NEW j \in Jobs, CreateJob(j) PROVE SingleInv'
  <2>1. /\ \A i \in Jobs : rows[i].status \notin {"pending", "in_progress"}
        /\ rows'[j].status = "pending"
        /\ \A i \in Jobs \ {j} : rows'[i] = rows[i]
    BY <1>1, <1>6, UpdatedRow DEF CreateJob, Active
  <2>2. Active' \subseteq {j}
    BY <2>1 DEF Active
  <2> QED
    BY <2>1, <2>2 DEF SingleInv
<1>7. ASSUME NEW j \in Jobs, RequestCancellation(j) PROVE SingleInv'
  BY <1>1, <1>7 DEF RequestCancellation
<1>8. ASSUME NEW n \in Nodes,
             \/ StartWorker(n)
             \/ StopWorker(n)
             \/ \E j \in Jobs : PollAndNotify(n, j)
             \/ ClaimError(n)
             \/ WorkerStopped(n)
             \/ DoBatch(n)
             \/ MarkAsComplete(n)
             \/ CancellationWatcher(n)
             \/ Crash(n)
      PROVE  SingleInv'
  BY <1>2, <1>8 DEF StartWorker, StopWorker, PollAndNotify, ClaimError, WorkerStopped,
     DoBatch, MarkAsComplete, CancellationWatcher, Crash
<1>9. ASSUME NEW n \in Nodes, ClaimJob(n) PROVE SingleInv'
  <2>1. PICK J \in Jobs : J = worker[n].job
    BY <1>9 DEF ClaimJob, HolderInv, TypeInv, Assigned
  <2>2. CASE rows[J].status = "pending"
    <3>1. /\ rows'[J].status = "in_progress"
          /\ \A i \in Jobs \ {J} : rows'[i] = rows[i]
      BY <1>1, <1>9, <2>1, <2>2, UpdatedRow DEF ClaimJob
    <3> QED
      BY <2>2, <3>1, SingleStep
  <2>3. CASE rows[J].status # "pending"
    BY <1>2, <1>9, <2>1, <2>3 DEF ClaimJob
  <2> QED
    BY <2>2, <2>3
<1>10. ASSUME NEW n \in Nodes, SetupError(n) PROVE SingleInv'
  BY <1>10 DEF SetupError
\* A running job is in progress.
<1>11. ASSUME NEW n \in Nodes, NEW J \in Jobs, worker[n].phase = "running",
              worker[n].job = J
       PROVE  rows[J].status = "in_progress"
  <2>1. worker[n].phase \in Holding
    BY <1>11 DEF Holding
  <2> QED
    BY <1>11, <2>1, Holder DEF Held, SingleInv
<1>12. ASSUME NEW J \in Jobs, NEW data, rows' \in {rows, SetJobError(J, data)}
       PROVE  SingleInv'
  <2>1. /\ \A i \in Jobs \ {J} : rows'[i] = rows[i]
        /\ rows'[J] = rows[J] \/ rows'[J].status = "error"
    BY <1>1, <1>12, ErrorRow
  <2> QED
    BY <2>1, SingleStep DEF Finished
<1>13. ASSUME NEW J \in Jobs, NEW status \in {"pending", "in_progress"}, NEW data,
              rows' = UpdateOptimistically(J, {"in_progress"}, status, data)
       PROVE  SingleInv'
  BY <1>1, <1>13, OptimisticRow, SingleStep
<1>14. ASSUME NEW J \in Jobs, NEW status,
              rows' = UpdateStatus(J, status),
              \/ status \in Finished
              \/ status = "pending" /\ rows[J].status = "in_progress"
       PROVE  SingleInv'
  BY <1>1, <1>14, UpdatedRow, SingleStep
<1>15. ASSUME NEW n \in Nodes, NEW J \in Jobs, worker[n].job = J,
              \/ BatchError(n)
              \/ HandleJobPanic(n)
              \/ SaveProgressError(n)
       PROVE  SingleInv'
  <2>1. \E data : rows' \in {rows, SetJobError(J, data)}
    BY <1>15 DEF BatchError, HandleJobPanic, SaveProgressError, Write, FailWithError
  <2> QED
    BY <1>12, <2>1
<1>16. ASSUME NEW n \in Nodes, NEW J \in Jobs, worker[n].job = J,
              SaveProgress(n) \/ ResetJob(n)
       PROVE  SingleInv'
  <2>1. \/ rows' = rows
        \/ \E status \in {"pending", "in_progress"} : \E data :
             rows' = UpdateOptimistically(J, {"in_progress"}, status, data)
    BY <1>16 DEF SaveProgress, ResetJob
  <2> QED
    BY <1>2, <1>13, <2>1
<1>17. ASSUME NEW n \in Nodes, NEW J \in Jobs, worker[n].job = J,
              StopJob(n) \/ CancelJob(n)
       PROVE  SingleInv'
  <2>1. rows[J].status = "in_progress"
    BY <1>11, <1>17 DEF StopJob, CancelJob
  <2>2. \/ rows' = rows
        \/ rows' = UpdateStatus(J, "pending")
        \/ rows' = UpdateStatus(J, "canceled")
    BY <1>17 DEF StopJob, CancelJob, Write
  <2> QED
    BY <1>2, <1>14, <2>1, <2>2 DEF Finished
<1>18. ASSUME NEW n \in Nodes, NEW J \in Jobs, worker[n].job = J,
              ReportProgress(n)
       PROVE  SingleInv'
  <2>1. \/ rows' = UpdateOptimistically(J, {"in_progress"}, "in_progress",
                                        worker[n].data)
        \/ rows' \in {rows, SetJobError(J, worker[n].data)}
    BY <1>18 DEF ReportProgress, FailWithError
  <2> QED
    BY <1>12, <1>13, <2>1
<1>19. ASSUME NEW n \in Nodes, NEW J \in Jobs, worker[n].job = J, SetJobSuccess(n)
       PROVE  SingleInv'
  <2>1. \/ rows' = UpdateStatus(J, "success")
        \/ rows' \in {rows, SetJobError(J, worker[n].data)}
    BY <1>19 DEF SetJobSuccess, FailWithError
  <2> QED
    BY <1>12, <1>14, <2>1 DEF Finished
<1>20. ASSUME NEW n \in Nodes,
              \/ BatchError(n)
              \/ HandleJobPanic(n)
              \/ SaveProgressError(n)
              \/ SaveProgress(n)
              \/ ResetJob(n)
              \/ StopJob(n)
              \/ CancelJob(n)
              \/ ReportProgress(n)
              \/ SetJobSuccess(n)
       PROVE  SingleInv'
  <2>1. worker[n].phase \in Holding
    BY <1>20 DEF BatchError, HandleJobPanic, SaveProgressError, SaveProgress,
       ResetJob, StopJob, CancelJob, ReportProgress, SetJobSuccess, Holding
  <2>2. PICK J \in Jobs : worker[n].job = J
    BY <2>1, Holder
  <2> QED
    BY <1>15, <1>16, <1>17, <1>18, <1>19, <1>20, <2>2
<1>21. ASSUME NEW j \in Jobs, NEW status \in AdminUpdates,
              CheckStatusChange(j, status)
       PROVE  SingleInv'
  BY <1>1, <1>21
<1> QED
  BY <1>3, <1>4, <1>5, <1>6, <1>7, <1>8, <1>9, <1>10, <1>20, <1>21 DEF Next, DoJob

\* However many nodes start at once, stop, crash, start over or fail to write:
\* CreateJobOnce never adds a job of a migration beside one that is pending or in
\* progress, and no step makes an old job of it active again.
THEOREM ScheduledOnce ==
  ASSUME Kind = "batch"
  PROVE  Spec => []OneActiveJob
<1>1. AdminUpdates \subseteq {"cancel_requested"}
  BY JobServerAssumption
<1>2. Init => SingleInv
  BY DEF Init, SingleInv, Active
<1>3. HolderInv /\ SingleInv /\ [Next]_vars => SingleInv'
  BY SingleInvStep
<1>4. SingleInv => OneActiveJob
  <2> SUFFICES ASSUME SingleInv PROVE OneActiveJob
    OBVIOUS
  <2>1. CASE Active = {}
    BY <2>1, FS_EmptySet DEF OneActiveJob
  <2>2. CASE Active # {}
    <3>1. PICK j \in Active : Active = {j}
      BY <2>2 DEF SingleInv
    <3>2. Cardinality({j}) = 1
      BY FS_Singleton
    <3>3. Cardinality(Active) = 1
      BY <3>1, <3>2
    <3> QED
      BY <3>3 DEF OneActiveJob
  <2> QED
    BY <2>1, <2>2
<1>5. Spec => []HolderInv
  BY <1>1, HolderInvariance
<1> QED
  BY <1>2, <1>3, <1>4, <1>5, PTL DEF Spec

=============================================================================

------------------------------- MODULE JobOnce -------------------------------
(***************************************************************************)
(* Jobs that a plugin schedules to run once, under one key, on any node of *)
(* a cluster.  ScheduleOnce stores the job's time in the key-value store;  *)
(* every node that sees the row keeps a JobOnce with a goroutine that      *)
(* waits for the time, and the first to lock the key's cluster mutex runs  *)
(* the callback and deletes the row.  One caller per node schedules and    *)
(* cancels.                                                                *)
(*                                                                         *)
(* Only the holder of the mutex writes the row, so what a goroutine does   *)
(* with the mutex is one step, but where a crash in between, or a wait,    *)
(* makes a difference.                                                     *)
(***************************************************************************)
EXTENDS Integers, FiniteSets, Mutex

CONSTANTS
  Nodes,
  Objects,       \* JobOnce objects: 1 .. n
  NoObject,
  NoTime,
  MaxFails,      \* maxNumFails
  MaxTime,       \* bound: the clock
  MaxCalls,      \* bound: calls of ScheduleOnce and Cancel
  MaxFaults      \* bound: crashes, failed reads, deletes and unlocks

ASSUME JobOnceAssumption ==
  /\ Procs = Nodes \cup Objects
  /\ Nodes \cap Objects = {}
  /\ NoObject \notin Objects
  /\ NoTime \notin 1 .. MaxTime
  /\ {MaxFails, MaxTime, MaxCalls} \subseteq Nat \ {0}
  /\ MaxFaults \in Nat

VARIABLES
  row,        \* which schedule the key's row is of, 0 when there is no row
  runAt,      \* the times of the schedules
  schedules,  \* successful calls of ScheduleOnce
  job,        \* the JobOnce objects
  active,     \* activeJobs of each node
  caller,     \* the plugin's goroutine that schedules and cancels
  polled,     \* the time of a job that the node has listed, before it tracks it
  started,    \* nodes whose scheduler has started
  calls,      \* calls of ScheduleOnce and Cancel
  clock,
  faults,
  runs,       \* history: how often the callback ran for each schedule
  canceled    \* history: schedules whose row a caller deleted

vars == <<owner, row, runAt, schedules, job, active, caller, polled, started,
          calls, clock, faults, runs, canceled>>

\* Bound: runs are counted to one more than RunsBounded allows.
MaxRuns == MaxFaults + 2

Times == 1 .. MaxTime
Schedules == 1 .. MaxCalls

\* unused: nothing, or its goroutine has ended.  idle: no goroutine yet.  waiting: in the
\* select of run.  locking: its time has come, it waits for the mutex.  deleting and
\* clearing: it has it, and is before its KVDelete and before it takes activeJobs.
JobPhases == {"unused", "idle", "waiting", "locking", "deleting", "clearing"}

\* late: the time had passed when the goroutine began to wait.
JobsOnce ==
  [phase : JobPhases, node : Nodes \cup {Nobody}, time : Times, done : BOOLEAN,
   late : BOOLEAN, fails : 0 .. MaxFails + 1]

\* saving, canceling and deleting: saveMetadata and the two ways of Cancel, before they
\* have the mutex.  tracking: before runAndTrack.  joining: Cancel has the mutex and
\* waits for the goroutine.
CallerPhases == {"none", "saving", "tracking", "canceling", "deleting", "joining"}

Unused ==
  [phase |-> "unused", node |-> Nobody, time |-> 1, done |-> FALSE, late |-> FALSE,
   fails |-> 0]

\* A caller that does nothing, with the JobOnce it got from ScheduleOnce.
Rest(o) == [phase |-> "none", job |-> o]

TypeOK ==
  /\ owner \in Procs \cup {Nobody, Abandoned}
  /\ row \in {0} \cup Schedules
  /\ runAt \in [Schedules -> Times]
  /\ schedules \in 0 .. MaxCalls
  /\ job \in [Objects -> JobsOnce]
  /\ active \in [Nodes -> Objects \cup {NoObject}]
  /\ caller \in [Nodes -> [phase : CallerPhases, job : Objects \cup {NoObject}]]
  /\ polled \in [Nodes -> Times \cup {NoTime}]
  /\ started \subseteq Nodes
  /\ calls \in 0 .. MaxCalls
  /\ clock \in Times
  /\ faults \in 0 .. MaxFaults
  /\ runs \in [Schedules -> 0 .. MaxRuns]
  /\ canceled \subseteq Schedules

Init ==
  /\ MutexInit
  /\ row = 0
  /\ runAt = [s \in Schedules |-> 1]
  /\ schedules = 0
  /\ job = [o \in Objects |-> Unused]
  /\ active = [n \in Nodes |-> NoObject]
  /\ caller = [n \in Nodes |-> Rest(NoObject)]
  /\ polled = [n \in Nodes |-> NoTime]
  /\ started = {}
  /\ calls = 0
  /\ clock = 1
  /\ faults = 0
  /\ runs = [s \in Schedules |-> 0]
  /\ canceled = {}

store == <<row, runAt, schedules>>
history == <<runs, canceled>>

Call == calls < MaxCalls /\ calls' = calls + 1

Fault == faults < MaxFaults /\ faults' = faults + 1

-----------------------------------------------------------------------------
(* The store and the objects *)

\* Mutant: a delete counts down, whether there is a row or not.
DeleteCountsDown ==
  \/ row' = row - 1 /\ UNCHANGED faults
  \/ Fault /\ row' \in {0, row}

\* KVDelete of the row, whose error is dropped.
Delete ==
  \/ row' = 0 /\ UNCHANGED faults
  \/ Fault /\ row' \in {0, row}

\* Lock and Unlock around something that waits for nothing.
LockedBriefly ==
  \/ owner = Nobody /\ UNCHANGED <<owner, faults>>
  \/ Fault /\ Strand

\* An object that nothing refers to any more.
Free(o) ==
  /\ job[o].phase \in {"unused", "idle"}
  /\ \A n \in Nodes : active[n] # o /\ caller[n].job # o

Fresh(o) == Free(o) /\ \A p \in Objects : Free(p) => o <= p

\* newJobOnce.
NewJobOnce(n, time) ==
  [phase |-> "idle", node |-> n, time |-> time, done |-> FALSE, late |-> FALSE,
   fails |-> 0]

\* Cancel of a key that is not active holds the read lock of activeJobs while it waits
\* for the cluster mutex, and until it has unlocked it.
ReadLocked(n) == caller[n].phase = "deleting"

\* runAndTrack, if no job with this key is active here: the goroutine of object o
\* starts, with state w.
RunAndTrack(n, o, w) ==
  /\ active' = [active EXCEPT ![n] = o]
  /\ job' = [job EXCEPT ![o] =
       [w EXCEPT !.phase = "waiting", !.late = w.time <= clock]]

\* Mutant: only the goroutine is stopped.
StopWhileHoldingMutex(n, o, phase) ==
  /\ ~ReadLocked(n)
  /\ job' = [job EXCEPT ![o].done = TRUE, ![o].phase = phase]
  /\ UNCHANGED active

\* cancelWhileHoldingMutex of object o of node n but for its KVDelete, which does not look
\* at whose the row is; nor does this look at which object is the active one.
CancelWhileHoldingMutex(n, o, phase) ==
  /\ ~ReadLocked(n)
  /\ active' = [active EXCEPT ![n] = NoObject]
  /\ job' = [job EXCEPT ![o].done = TRUE, ![o].phase = phase]

-----------------------------------------------------------------------------
(* The goroutine of a JobOnce *)

To(o, phase) == job' = [job EXCEPT ![o].phase = phase]

\* The timer of the select.  A timer that is over when the select begins competes with
\* the done channel.
Fire(o) ==
  /\ job[o].phase = "waiting"
  /\ clock >= job[o].time
  /\ job[o].done => job[o].late
  /\ To(o, "locking")
  /\ UNCHANGED <<owner, store, active, caller, polled, started, calls, clock, faults, history>>

Done(o) ==
  /\ job[o].phase = "waiting"
  /\ job[o].done
  /\ job' = [job EXCEPT ![o] = Unused]
  /\ UNCHANGED <<owner, store, active, caller, polled, started, calls, clock, faults, history>>

CountRun(s) == runs' = [runs EXCEPT ![s] = IF @ = MaxRuns THEN @ ELSE @ + 1]

\* Mutant: the job runs whether its row is there or not.
LockAndRunAlways(o) ==
  /\ job[o].phase = "locking"
  /\ schedules > 0
  /\ Acquire(o)
  /\ CountRun(schedules)
  /\ To(o, "deleting")
  /\ UNCHANGED <<store, active, caller, polled, started, calls, clock, faults, canceled>>

\* Lock, readMetadata and executeJob.  A job whose row is gone, or has another time, was
\* completed or canceled.
LockAndRun(o) ==
  /\ job[o].phase = "locking"
  /\ Acquire(o)
  /\ IF row # 0 /\ runAt[row] = job[o].time THEN CountRun(row) ELSE UNCHANGED runs
  /\ To(o, "deleting")
  /\ UNCHANGED <<store, active, caller, polled, started, calls, clock, faults, canceled>>

\* Mutant: the job is given up one failure too early.
ReadErrorGivesUp(o) ==
  LET fails == job[o].fails + 1 IN
  /\ Fault
  /\ job[o].phase = "locking"
  /\ IF fails >= MaxFails
       THEN Acquire(o) /\ To(o, "deleting")
       ELSE /\ owner = Nobody /\ UNCHANGED owner
            /\ job' = [job EXCEPT ![o].phase = "waiting", ![o].late = FALSE,
                                  ![o].fails = fails]
  /\ UNCHANGED <<store, active, caller, polled, started, calls, clock, history>>

\* Mutant: the early return forgets to unlock.
ReadErrorKeepsLock(o) ==
  LET fails == job[o].fails + 1 IN
  /\ Fault
  /\ job[o].phase = "locking"
  /\ Acquire(o)
  /\ job' = [job EXCEPT ![o].phase = IF fails > MaxFails THEN "deleting" ELSE "waiting",
                        ![o].late = FALSE, ![o].fails = fails]
  /\ UNCHANGED <<store, active, caller, polled, started, calls, clock, history>>

\* readMetadata fails: the job unlocks and tries again after waitAfterFail; after too
\* many failures it is given up.
ReadError(o) ==
  LET fails == job[o].fails + 1 IN
  /\ Fault
  /\ job[o].phase = "locking"
  /\ IF fails > MaxFails
       THEN /\ Acquire(o)
            /\ job' = [job EXCEPT ![o].phase = "deleting", ![o].fails = fails]
       ELSE /\ owner = Nobody /\ UNCHANGED owner
            /\ job' = [job EXCEPT ![o].phase = "waiting", ![o].late = FALSE,
                                  ![o].fails = fails]
  /\ UNCHANGED <<store, active, caller, polled, started, calls, clock, history>>

\* cancelWhileHoldingMutex: the KVDelete.
DeleteRow(o) ==
  /\ job[o].phase = "deleting"
  /\ Delete
  /\ To(o, "clearing")
  /\ UNCHANGED <<owner, runAt, schedules, active, caller, polled, started, calls, clock,
                 history>>

\* The rest of it, and Unlock, whose error is dropped.
ClearAndUnlock(o) ==
  /\ job[o].phase = "clearing"
  /\ CancelWhileHoldingMutex(job[o].node, o, "waiting")
  /\ \/ Release(o) /\ UNCHANGED faults
     \/ Fault /\ Abandon(o)
  /\ UNCHANGED <<store, caller, polled, started, calls, clock, history>>

-----------------------------------------------------------------------------
(* The scheduler of a node *)

\* Start and pollForNewScheduledJobs list the row.
Poll(n) ==
  /\ polled[n] = NoTime
  /\ IF row = 0
       THEN started' = started \cup {n} /\ UNCHANGED polled
       ELSE polled' = [polled EXCEPT ![n] = runAt[row]] /\ UNCHANGED started
  /\ UNCHANGED <<owner, store, job, active, caller, calls, clock, faults, history>>

\* And track it if no job with this key is active here.
TrackPolled(n) ==
  /\ polled[n] # NoTime
  /\ ~ReadLocked(n)
  /\ IF active[n] = NoObject
       THEN \E o \in Objects : Fresh(o) /\ RunAndTrack(n, o, NewJobOnce(n, polled[n]))
       ELSE UNCHANGED <<active, job>>
  /\ polled' = [polled EXCEPT ![n] = NoTime]
  /\ started' = started \cup {n}
  /\ UNCHANGED <<owner, store, caller, calls, clock, faults, history>>

CallerTo(n, phase) == caller' = [caller EXCEPT ![n].phase = phase]

ScheduleOnce(n, time) ==
  /\ Call
  /\ n \in started
  /\ caller[n].phase = "none"
  /\ \E o \in Objects :
       /\ Fresh(o)
       /\ job' = [job EXCEPT ![o] = NewJobOnce(n, time)]
       /\ caller' = [caller EXCEPT ![n] = [phase |-> "saving", job |-> o]]
  /\ UNCHANGED <<owner, store, active, polled, started, clock, faults, history>>

\* saveMetadata does not overwrite a row.  When the store fails, the row may be there
\* all the same.
SaveMetadata(n) ==
  LET Store == /\ schedules' = schedules + 1
               /\ row' = schedules'
               /\ runAt' = [runAt EXCEPT ![row'] = job[caller[n].job].time]
      Forget == /\ caller' = [caller EXCEPT ![n] = Rest(NoObject)]
                /\ job' = [job EXCEPT ![caller[n].job] = Unused]
      Keep == UNCHANGED <<schedules, row, runAt>>
  IN
  /\ caller[n].phase = "saving"
  /\ \/ row = 0 /\ LockedBriefly /\ Store /\ CallerTo(n, "tracking") /\ UNCHANGED job
     \/ row # 0 /\ LockedBriefly /\ Keep /\ Forget
     \/ /\ owner = Nobody /\ UNCHANGED owner
        /\ Fault
        /\ Keep \/ (row = 0 /\ Store)
        /\ Forget
  /\ UNCHANGED <<active, polled, started, calls, clock, history>>

\* If a job with this key is active here, the new object is returned but never runs.
Track(n) ==
  LET o == caller[n].job IN
  /\ caller[n].phase = "tracking"
  /\ IF active[n] = NoObject THEN RunAndTrack(n, o, job[o]) ELSE UNCHANGED <<active, job>>
  /\ CallerTo(n, "none")
  /\ UNCHANGED <<owner, store, polled, started, calls, clock, faults, history>>

\* The scheduler's Cancel: of the active job, or else of the row.
CancelKey(n) ==
  /\ Call
  /\ caller[n].phase = "none"
  /\ caller' = [caller EXCEPT ![n] =
       IF active[n] = NoObject THEN [phase |-> "deleting", job |-> NoObject]
                               ELSE [phase |-> "canceling", job |-> active[n]]]
  /\ UNCHANGED <<owner, store, job, active, polled, started, clock, faults, history>>

\* Cancel of the object that ScheduleOnce returned.
CancelJob(n) ==
  /\ Call
  /\ caller[n].phase = "none"
  /\ caller[n].job # NoObject
  /\ CallerTo(n, "canceling")
  /\ UNCHANGED <<owner, store, job, active, polled, started, clock, faults, history>>

NoteCanceled ==
  canceled' = IF row' = 0 THEN canceled \cup ({row} \ {0}) ELSE canceled

\* The row of a key that is not active is deleted, and that is all.
CancelRow(n) ==
  /\ caller[n].phase = "deleting"
  /\ \/ Delete /\ owner = Nobody /\ UNCHANGED owner
     \/ row' = 0 /\ Fault /\ Strand
  /\ NoteCanceled
  /\ CallerTo(n, "none")
  /\ UNCHANGED <<runAt, schedules, job, active, polled, started, calls, clock, runs>>

\* Cancel of an object: Lock and cancelWhileHoldingMutex.
LockAndCancel(n) ==
  LET o == caller[n].job IN
  /\ caller[n].phase = "canceling"
  /\ Acquire(n)
  /\ Delete
  /\ NoteCanceled
  /\ CancelWhileHoldingMutex(n, o, job[o].phase)
  /\ CallerTo(n, "joining")
  /\ UNCHANGED <<runAt, schedules, polled, started, calls, clock, runs>>

\* And then it waits, with the mutex, for the goroutine, whose end closes join.
JoinAndUnlock(n) ==
  /\ caller[n].phase = "joining"
  /\ job[caller[n].job].phase = "unused"
  /\ \/ Release(n) /\ UNCHANGED faults
     \/ Fault /\ Abandon(n)
  /\ caller' = [caller EXCEPT ![n] = Rest(NoObject)]
  /\ job' = [job EXCEPT ![caller[n].job] = Unused]
  /\ UNCHANGED <<store, active, polled, started, calls, clock, history>>

-----------------------------------------------------------------------------
(* The environment *)

\* The node's process ends.  Its lock stays until it expires.
Crash(n) ==
  LET mine == {n} \cup {o \in Objects : job[o].node = n} IN
  /\ Fault
  /\ n \in started
  /\ IF owner \in mine THEN Abandon(owner) ELSE UNCHANGED owner
  /\ job' = [o \in Objects |-> IF job[o].node = n THEN Unused ELSE job[o]]
  /\ active' = [active EXCEPT ![n] = NoObject]
  /\ caller' = [caller EXCEPT ![n] = Rest(NoObject)]
  /\ polled' = [polled EXCEPT ![n] = NoTime]
  /\ started' = started \ {n}
  /\ UNCHANGED <<store, calls, clock, history>>

ExpireLock ==
  /\ Expire
  /\ UNCHANGED <<store, job, active, caller, polled, started, calls, clock, faults, history>>

Tick ==
  /\ clock < MaxTime
  /\ clock' = clock + 1
  /\ UNCHANGED <<owner, store, job, active, caller, polled, started, calls, faults, history>>

-----------------------------------------------------------------------------
Run(o) ==
  \/ Fire(o)
  \/ Done(o)
  \/ LockAndRun(o)
  \/ DeleteRow(o)
  \/ ClearAndUnlock(o)

Proceed(n) ==
  \/ SaveMetadata(n)
  \/ Track(n)
  \/ CancelRow(n)
  \/ LockAndCancel(n)
  \/ JoinAndUnlock(n)

Next ==
  \/ ExpireLock
  \/ Tick
  \/ \E o \in Objects : Run(o) \/ ReadError(o)
  \/ \E n \in Nodes : \/ Poll(n)
                      \/ TrackPolled(n)
                      \/ \E time \in Times : ScheduleOnce(n, time)
                      \/ Proceed(n)
                      \/ CancelKey(n)
                      \/ CancelJob(n)
                      \/ Crash(n)

Spec == Init /\ [][Next]_vars

\* Time passes, locks of nobody expire, every node starts its
\* scheduler and polls, and goroutines and callers go on.  Nobody has to schedule or
\* cancel, and of several that wait for the mutex none has to be the next.
Fairness ==
  /\ WF_vars(Tick)
  /\ WF_vars(ExpireLock)
  /\ \A o \in Objects : WF_vars(Run(o))
  /\ \A n \in Nodes : WF_vars(Poll(n)) /\ WF_vars(TrackPolled(n)) /\ WF_vars(Proceed(n))

FairSpec == Spec /\ Fairness

-----------------------------------------------------------------------------
(* Properties *)

\* "a scheduled job that will run once" (ScheduleOnce): once more only for a crash after
\* the callback or a row that could not be deleted.
RunsBounded == \A s \in Schedules : runs[s] <= 1 + faults

\* Cancel "removes the job from the db, preventing it from being run in the future",
\* on whichever nodes goroutines still wait for its time.
CanceledNeverRuns == [][\A s \in canceled : runs'[s] = runs[s]]_vars

Alive == {"waiting", "locking", "deleting", "clearing"}

\* An object in activeJobs keeps the node from tracking the row again, so it must have a
\* goroutine that will run, unless Cancel was called and is about to take it out.
TrackedJobsRun ==
  \A n \in Nodes : active[n] # NoObject =>
    /\ job[active[n]].phase \in Alive
    /\ ~job[active[n]].done

Served == runs[row] > 0 \/ row \in canceled'

GivenUp == \E o \in Objects : job[o].phase = "deleting" /\ job[o].fails > MaxFails

Outdated ==
  \E o \in Objects : job[o].phase = "deleting" /\ job[o].time # runAt[row]

Removed == row # 0 /\ row' = 0

\* "When the clock reaches runAt, the callback will be called": a row is not deleted
\* before that, but by Cancel or after too many failed reads, or, as the code has it, by a
\* goroutine that waited for another time of the same key.
RemovedForCause == [][Removed => Served \/ GivenUp \/ Outdated]_vars

\* The two ways in which a mutex stays locked for ever.  Cancel waits, with the mutex, for
\* a goroutine that waits for the mutex or was never started; a goroutine waits, with the
\* mutex, for activeJobs, which Cancel of the key has locked until it gets the mutex.
Stuck ==
  \/ \E n \in Nodes : /\ caller[n].phase = "joining"
                      /\ job[caller[n].job].phase \in {"idle", "locking"}
  \/ \E o \in Objects : job[o].phase = "clearing" /\ ReadLocked(job[o].node)

\* Whoever locks the mutex unlocks it, so that neither Cancel nor ScheduleOnce nor a job
\* waits for ever, but for the two deadlocks above.
AlwaysUnlocked == owner \in Procs ~> owner \notin Procs \/ Stuck

\* "Thus, even if a cluster goes down and is restarted, Start will restart previously
\* scheduled jobs": whatever crashes, a scheduled job runs, if its row is not removed.
EventuallyRun == row # 0 ~> row = 0 \/ runs[row] > 0 \/ Stuck

=============================================================================

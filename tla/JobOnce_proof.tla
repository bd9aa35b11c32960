---------------------------- MODULE JobOnce_proof ----------------------------
(***************************************************************************)
(* For any number of nodes, objects, calls, times, faults and failed       *)
(* reads: the safety of jobs that run once.                                *)
(***************************************************************************)
EXTENDS JobOnce, FiniteSetTheorems, TLAPS

-----------------------------------------------------------------------------
(* The invariants *)

\* What a JobOnce w can be: it has a node as long as it is in use, a timer that was over
\* at the start has not been waited for again, and a job that was given up is stopped and
\* never locks the mutex again.
GoroutineOK(w) ==
  /\ w.phase # "unused" => w.node \in Nodes
  /\ w.late => w.fails = 0
  /\ w.phase = "idle" => w.fails = 0
  /\ w.fails > MaxFails =>
       \/ w.phase \in {"deleting", "clearing"}
       \/ w.phase = "waiting" /\ w.done

\* The active job of node n is one of its own, runs, and was not stopped.
ActiveOK(n) ==
  active[n] # NoObject =>
    /\ job[active[n]].node = n
    /\ job[active[n]].phase \in Alive
    /\ ~job[active[n]].done

\* A caller refers to an object of its own node, until this is unused; one that it just
\* made has no goroutine yet.
CallerOK(n) ==
  /\ caller[n].job # NoObject =>
       job[caller[n].job].phase = "unused" \/ job[caller[n].job].node = n
  /\ caller[n].phase \in {"saving", "tracking"} =>
       /\ caller[n].job # NoObject
       /\ job[caller[n].job].phase = "idle"
       /\ ~job[caller[n].job].done
  /\ caller[n].phase \in {"canceling", "joining"} => caller[n].job # NoObject

Saving == {n \in Nodes : caller[n].phase = "saving"}

\* Every schedule has had a call of its own.
CallsSuffice ==
  /\ IsFiniteSet(Saving)
  /\ schedules + Cardinality(Saving) <= calls

TypeInv ==
  /\ TypeOK
  /\ \A o \in Objects : GoroutineOK(job[o])
  /\ \A n \in Nodes : ActiveOK(n) /\ CallerOK(n)
  /\ CallsSuffice

\* A goroutine that is about to delete the row, or that has just done so, owns the mutex.
Excluded == \A o \in Objects : job[o].phase \in {"deleting", "clearing"} => owner = o

\* The row is of the last schedule; later ones have not run, and the canceled ones have no
\* row.
RowOK ==
  /\ row # 0 => row = schedules
  /\ \A s \in Schedules : s > schedules => runs[s] = 0
  /\ \A s \in canceled : s <= schedules /\ s # row

\* A job whose row is there has run as often as there were faults, and once more only
\* until the goroutine that ran it deletes the row.
RunsOK ==
  /\ \A s \in Schedules : runs[s] <= 1 + faults
  /\ row # 0 => runs[row] <= faults \/ \E o \in Objects : job[o].phase = "deleting"

\* A goroutine that is about to delete a row has a reason to.
Reason(o) == runs[row] > 0 \/ job[o].fails > MaxFails \/ job[o].time # runAt[row]

DeletesForCause ==
  \A o \in Objects : job[o].phase = "deleting" /\ row # 0 => Reason(o)

IInv == TypeInv /\ Excluded /\ RowOK /\ RunsOK /\ DeletesForCause

-----------------------------------------------------------------------------
(* Types and references *)

LEMMA Constants ==
  /\ MaxTime \in Nat /\ MaxTime >= 1
  /\ MaxCalls \in Nat /\ MaxCalls >= 1
  /\ MaxFails \in Nat /\ MaxFails >= 1
  /\ MaxFaults \in Nat
  /\ Nobody \notin Nodes
  /\ NoTime \notin Times
  /\ 1 \in Times
  BY JobOnceAssumption, MutexAssumption DEF Times

LEMMA UnusedOK ==
  /\ Unused \in JobsOnce /\ GoroutineOK(Unused)
  /\ Unused.phase = "unused"
  BY Constants DEF Unused, JobsOnce, JobPhases, GoroutineOK

\* A JobOnce with some of its fields changed.
LEMMA GivenUpFields ==
  ASSUME NEW w \in JobsOnce, NEW fails \in 0 .. MaxFails + 1
  PROVE  LET v == [w EXCEPT !.phase = "deleting", !.fails = fails] IN
         /\ v \in JobsOnce /\ v.phase = "deleting" /\ v.node = w.node /\ v.time = w.time
         /\ v.done = w.done /\ v.late = w.late /\ v.fails = fails
<1> DEFINE Fails == 0 .. MaxFails + 1
           NodesOf == Nodes \cup {Nobody}
<1>1. JobsOnce = [phase : JobPhases, node : NodesOf, time : Times, done : BOOLEAN,
                  late : BOOLEAN, fails : Fails]
  BY DEF JobsOnce
<1>2. fails \in Fails
  OBVIOUS
<1>3. "deleting" \in JobPhases
  BY DEF JobPhases
<1> HIDE DEF Fails, NodesOf
<1> QED
  BY <1>1, <1>2, <1>3

LEMMA RetryFields ==
  ASSUME NEW w \in JobsOnce, NEW fails \in 0 .. MaxFails + 1
  PROVE  LET v == [w EXCEPT !.phase = "waiting", !.late = FALSE, !.fails = fails] IN
         /\ v \in JobsOnce /\ v.phase = "waiting" /\ v.node = w.node /\ v.time = w.time
         /\ v.done = w.done /\ v.late = FALSE /\ v.fails = fails
<1> DEFINE Fails == 0 .. MaxFails + 1
           NodesOf == Nodes \cup {Nobody}
<1>1. JobsOnce = [phase : JobPhases, node : NodesOf, time : Times, done : BOOLEAN,
                  late : BOOLEAN, fails : Fails]
  BY DEF JobsOnce
<1>2. fails \in Fails
  OBVIOUS
<1>3. "waiting" \in JobPhases
  BY DEF JobPhases
<1> HIDE DEF Fails, NodesOf
<1> QED
  BY <1>1, <1>2, <1>3

LEMMA StartFields ==
  ASSUME NEW w \in JobsOnce
  PROVE  LET v == [w EXCEPT !.phase = "waiting", !.late = w.time <= clock] IN
         /\ v \in JobsOnce /\ v.phase = "waiting" /\ v.node = w.node /\ v.time = w.time
         /\ v.done = w.done /\ v.fails = w.fails
<1> DEFINE Fails == 0 .. MaxFails + 1
           NodesOf == Nodes \cup {Nobody}
           late == w.time <= clock
<1>1. JobsOnce = [phase : JobPhases, node : NodesOf, time : Times, done : BOOLEAN,
                  late : BOOLEAN, fails : Fails]
  BY DEF JobsOnce
<1>2. "waiting" \in JobPhases /\ late \in BOOLEAN
  BY DEF JobPhases
<1> HIDE DEF Fails, NodesOf, late
<1>3. LET v == [w EXCEPT !.phase = "waiting", !.late = late] IN
      /\ v \in JobsOnce /\ v.phase = "waiting" /\ v.node = w.node /\ v.time = w.time
      /\ v.done = w.done /\ v.fails = w.fails
  BY <1>1, <1>2
<1> QED
  BY <1>3 DEF late

LEMMA StopFields ==
  ASSUME NEW w \in JobsOnce, NEW phase \in JobPhases
  PROVE  LET v == [w EXCEPT !.done = TRUE, !.phase = phase] IN
         /\ v \in JobsOnce /\ v.phase = phase /\ v.node = w.node /\ v.time = w.time
         /\ v.done = TRUE /\ v.late = w.late /\ v.fails = w.fails
<1> DEFINE Fails == 0 .. MaxFails + 1
           NodesOf == Nodes \cup {Nobody}
<1>1. JobsOnce = [phase : JobPhases, node : NodesOf, time : Times, done : BOOLEAN,
                  late : BOOLEAN, fails : Fails]
  BY DEF JobsOnce
<1> HIDE DEF Fails, NodesOf
<1> QED
  BY <1>1

\* A new JobOnce.
LEMMA NewJobOK ==
  ASSUME NEW n \in Nodes, NEW time \in Times
  PROVE  LET w == NewJobOnce(n, time) IN
         /\ w \in JobsOnce /\ GoroutineOK(w)
         /\ w.phase = "idle" /\ w.node = n /\ ~w.done /\ w.fails = 0
<1> DEFINE w == [phase |-> "idle", node |-> n, time |-> time, done |-> FALSE,
                 late |-> FALSE, fails |-> 0]
<1>1. NewJobOnce(n, time) = w
  BY DEF NewJobOnce
<1>2. w \in JobsOnce
  BY Constants DEF JobsOnce, JobPhases
<1>3. GoroutineOK(w)
  BY Constants DEF GoroutineOK
<1> QED
  BY <1>1, <1>2, <1>3

\* A step that changes object o only, and no caller: the references to objects stay good
\* when the object stays with its node or becomes unused, and is not a stopped one in
\* activeJobs nor one that a caller has just made.
LEMMA ObjectStep ==
  ASSUME TypeInv, NEW o \in Objects, NEW w \in JobsOnce,
         GoroutineOK(w),
         w.phase = "unused" \/ (job[o].phase # "unused" /\ w.node = job[o].node),
         job' = [job EXCEPT ![o] = w],
         \A n \in Nodes : active'[n] \in {active[n], NoObject},
         \A n \in Nodes : active'[n] = o => w.phase \in Alive /\ ~w.done,
         UNCHANGED caller,
         \A n \in Nodes : caller[n].phase \in {"saving", "tracking"} => caller[n].job # o
  PROVE  /\ job' \in [Objects -> JobsOnce]
         /\ \A p \in Objects : GoroutineOK(job'[p])
         /\ \A n \in Nodes : ActiveOK(n)' /\ CallerOK(n)'
         /\ Saving' = Saving
<1> USE DEF TypeInv
<1>1. job' \in [Objects -> JobsOnce] /\ job'[o] = w
  BY DEF TypeOK
<1>2. \A p \in Objects \ {o} : job'[p] = job[p]
  BY DEF TypeOK
<1>3. \A p \in Objects : GoroutineOK(job'[p])
  BY <1>1, <1>2
<1>4. ASSUME NEW n \in Nodes PROVE ActiveOK(n)'
  <2>1. ActiveOK(n) /\ active[n] \in Objects \cup {NoObject}
    BY DEF TypeOK
  <2> QED
    BY <1>1, <1>2, <2>1 DEF ActiveOK, Alive
<1>5. ASSUME NEW n \in Nodes PROVE CallerOK(n)'
  <2>1. CallerOK(n) /\ caller[n].job \in Objects \cup {NoObject}
    BY DEF TypeOK
  <2> QED
    BY <1>1, <1>2, <2>1 DEF CallerOK
<1> QED
  BY <1>1, <1>3, <1>4, <1>5 DEF Saving

\* An object that runs is not one that a caller has just made.
LEMMA NotJustMade ==
  ASSUME TypeInv, NEW o \in Objects, job[o].phase # "idle"
  PROVE  \A n \in Nodes : caller[n].phase \in {"saving", "tracking"} => caller[n].job # o
  BY DEF TypeInv, CallerOK

\* The goroutine goes to another phase.
LEMMA PhaseStep ==
  ASSUME TypeInv, NEW o \in Objects, NEW phase \in Alive,
         job[o].phase \in Alive,
         job[o].fails > MaxFails => phase \in {"deleting", "clearing"},
         To(o, phase), UNCHANGED <<active, caller>>
  PROVE  /\ job' \in [Objects -> JobsOnce]
         /\ \A p \in Objects : GoroutineOK(job'[p])
         /\ \A n \in Nodes : ActiveOK(n)' /\ CallerOK(n)'
         /\ Saving' = Saving
<1> DEFINE w == [job[o] EXCEPT !.phase = phase]
<1>1. job[o] \in JobsOnce /\ GoroutineOK(job[o])
  BY DEF TypeInv, TypeOK
<1>2. w \in JobsOnce /\ GoroutineOK(w)
  BY <1>1 DEF JobsOnce, JobPhases, GoroutineOK, Alive
<1>3. w.phase \in Alive /\ w.node = job[o].node /\ w.done = job[o].done
  BY <1>1 DEF JobsOnce
<1>4. job' = [job EXCEPT ![o] = w]
  BY DEF To
<1>5. \A n \in Nodes : active[n] = o => ~job[o].done
  BY JobOnceAssumption DEF TypeInv, ActiveOK
<1>6. job[o].phase \notin {"idle", "unused"}
  BY DEF Alive
<1> HIDE DEF w
<1> QED
  BY <1>2, <1>3, <1>4, <1>5, <1>6, NotJustMade, ObjectStep

\* The calls still suffice when nobody begins to save.
LEMMA SameCalls ==
  ASSUME TypeInv, Saving' = Saving, schedules' = schedules, calls' \in {calls, calls + 1},
         calls' \in 0 .. MaxCalls
  PROVE  CallsSuffice'
<1>1. Cardinality(Saving) \in Nat /\ schedules \in Nat /\ calls \in Nat
  BY Constants, FS_CardinalityType DEF TypeInv, TypeOK, CallsSuffice
<1> QED
  BY <1>1, Constants DEF TypeInv, CallsSuffice

LEMMA FaultType == TypeInv /\ Fault => faults' \in 0 .. MaxFaults
  BY Constants DEF TypeInv, TypeOK, Fault

LEMMA DeleteType ==
  TypeInv /\ Delete => row' \in {0, row} /\ faults' \in 0 .. MaxFaults
  BY FaultType DEF TypeInv, TypeOK, Delete

LEMMA OwnerType ==
  ASSUME NEW p \in Procs
  PROVE  Acquire(p) \/ Release(p) \/ Abandon(p) \/ Strand =>
           owner' \in Procs \cup {Nobody, Abandoned}
  BY DEF Acquire, Release, Abandon, Strand

LEMMA RunsType ==
  ASSUME TypeInv, NEW s \in Schedules, CountRun(s)
  PROVE  /\ runs' \in [Schedules -> 0 .. MaxRuns]
         /\ runs'[s] = IF runs[s] = MaxRuns THEN runs[s] ELSE runs[s] + 1
         /\ \A t \in Schedules \ {s} : runs'[t] = runs[t]
<1>1. runs \in [Schedules -> 0 .. MaxRuns] /\ MaxRuns \in Nat
  BY Constants DEF TypeInv, TypeOK, MaxRuns
<1> QED
  BY <1>1 DEF CountRun

\* The goroutine keeps the types: its timer fires, or it ends.
LEMMA FireType == ASSUME TypeInv, NEW o \in Objects, Fire(o) PROVE TypeInv'
<1>1. job[o] \in JobsOnce /\ GoroutineOK(job[o]) /\ job[o].phase = "waiting"
  BY DEF TypeInv, TypeOK, Fire
<1>2. ~(job[o].fails > MaxFails)
  BY <1>1, Constants DEF GoroutineOK, Fire
<1>3. /\ job' \in [Objects -> JobsOnce]
      /\ \A p \in Objects : GoroutineOK(job'[p])
      /\ \A n \in Nodes : ActiveOK(n)' /\ CallerOK(n)'
      /\ Saving' = Saving
  BY <1>1, <1>2, PhaseStep DEF Fire, Alive
<1>4. CallsSuffice'
  BY <1>3, SameCalls DEF Fire, store, TypeInv, TypeOK
<1> QED
  BY <1>3, <1>4 DEF TypeInv, TypeOK, Fire, store, history

LEMMA DoneType == ASSUME TypeInv, NEW o \in Objects, Done(o) PROVE TypeInv'
<1>1. \A n \in Nodes : active[n] # o
  BY JobOnceAssumption DEF TypeInv, ActiveOK, Done
<1>2. /\ job' \in [Objects -> JobsOnce]
      /\ \A p \in Objects : GoroutineOK(job'[p])
      /\ \A n \in Nodes : ActiveOK(n)' /\ CallerOK(n)'
      /\ Saving' = Saving
  BY <1>1, UnusedOK, NotJustMade, ObjectStep DEF Done
<1>3. CallsSuffice'
  BY <1>2, SameCalls DEF Done, store, TypeInv, TypeOK
<1> QED
  BY <1>2, <1>3 DEF TypeInv, TypeOK, Done, store, history

LEMMA LockAndRunType == ASSUME TypeInv, NEW o \in Objects, LockAndRun(o) PROVE TypeInv'
<1>1. /\ job' \in [Objects -> JobsOnce]
      /\ \A p \in Objects : GoroutineOK(job'[p])
      /\ \A n \in Nodes : ActiveOK(n)' /\ CallerOK(n)'
      /\ Saving' = Saving
  BY PhaseStep DEF LockAndRun, Alive
<1>2. CallsSuffice'
  BY <1>1, SameCalls DEF LockAndRun, store, TypeInv, TypeOK
<1>3. runs' \in [Schedules -> 0 .. MaxRuns]
  <2>1. CASE row # 0 /\ runAt[row] = job[o].time
    BY <2>1, RunsType DEF LockAndRun, TypeInv, TypeOK
  <2>2. CASE ~(row # 0 /\ runAt[row] = job[o].time)
    BY <2>2 DEF LockAndRun, TypeInv, TypeOK
  <2> QED
    BY <2>1, <2>2
<1>4. owner' \in Procs \cup {Nobody, Abandoned}
  BY OwnerType, JobOnceAssumption DEF LockAndRun
<1> QED
  BY <1>1, <1>2, <1>3, <1>4 DEF TypeInv, TypeOK, LockAndRun, store

\* A failed read counts, and at most one more than MaxFails of them.
LEMMA ReadErrorType == ASSUME TypeInv, NEW o \in Objects, ReadError(o) PROVE TypeInv'
<1> DEFINE fails == job[o].fails + 1
           given == [job[o] EXCEPT !.phase = "deleting", !.fails = fails]
           again == [job[o] EXCEPT !.phase = "waiting", !.late = FALSE, !.fails = fails]
<1>1. job[o] \in JobsOnce /\ GoroutineOK(job[o]) /\ job[o].phase = "locking"
  BY DEF TypeInv, TypeOK, ReadError
<1>2. /\ job[o].fails \in 0 .. MaxFails
      /\ fails \in 0 .. MaxFails + 1 /\ fails > 0
      /\ job[o].late => fails <= MaxFails
  BY <1>1, Constants DEF JobsOnce, GoroutineOK
<1> HIDE DEF fails
<1>3. /\ given \in JobsOnce
      /\ given.phase = "deleting" /\ given.node = job[o].node
      /\ given.done = job[o].done /\ given.late = job[o].late /\ given.fails = fails
  BY <1>1, <1>2, GivenUpFields
<1>4. /\ again \in JobsOnce
      /\ again.phase = "waiting" /\ again.node = job[o].node
      /\ again.done = job[o].done /\ again.late = FALSE /\ again.fails = fails
  BY <1>1, <1>2, RetryFields
<1>5. fails > MaxFails => GoroutineOK(given)
  BY <1>1, <1>2, <1>3, Constants DEF GoroutineOK
<1>6. ~(fails > MaxFails) => GoroutineOK(again)
  BY <1>1, <1>2, <1>4, Constants DEF GoroutineOK
<1>7. \/ fails > MaxFails /\ job' = [job EXCEPT ![o] = given]
      \/ ~(fails > MaxFails) /\ job' = [job EXCEPT ![o] = again]
  BY DEF ReadError, fails
<1>8. \A n \in Nodes : active[n] = o => ~job[o].done
  BY JobOnceAssumption DEF TypeInv, ActiveOK
<1>9. UNCHANGED <<active, caller>>
  BY DEF ReadError
<1>10. job[o].phase \notin {"idle", "unused"}
  BY <1>1
<1>11. /\ job' \in [Objects -> JobsOnce]
       /\ \A p \in Objects : GoroutineOK(job'[p])
       /\ \A n \in Nodes : ActiveOK(n)' /\ CallerOK(n)'
       /\ Saving' = Saving
  <2> HIDE DEF given, again, fails
  <2>1. CASE fails > MaxFails
    BY <1>3, <1>5, <1>7, <1>8, <1>9, <1>10, <2>1, NotJustMade, ObjectStep DEF Alive
  <2>2. CASE ~(fails > MaxFails)
    BY <1>4, <1>6, <1>7, <1>8, <1>9, <1>10, <2>2, NotJustMade, ObjectStep DEF Alive
  <2> QED
    BY <2>1, <2>2
<1>12. CallsSuffice'
  BY <1>11, SameCalls DEF ReadError, store, TypeInv, TypeOK
<1>13. owner' \in Procs \cup {Nobody, Abandoned} /\ faults' \in 0 .. MaxFaults
  BY OwnerType, FaultType, JobOnceAssumption DEF ReadError
<1> HIDE DEF given, again, fails
<1> QED
  BY <1>11, <1>12, <1>13 DEF TypeInv, TypeOK, ReadError, store, history

LEMMA DeleteRowType == ASSUME TypeInv, NEW o \in Objects, DeleteRow(o) PROVE TypeInv'
<1>1. /\ job' \in [Objects -> JobsOnce]
      /\ \A p \in Objects : GoroutineOK(job'[p])
      /\ \A n \in Nodes : ActiveOK(n)' /\ CallerOK(n)'
      /\ Saving' = Saving
  BY PhaseStep DEF DeleteRow, Alive
<1>2. CallsSuffice'
  BY <1>1, SameCalls DEF DeleteRow, TypeInv, TypeOK
<1>3. row' \in {0} \cup Schedules /\ faults' \in 0 .. MaxFaults
  BY DeleteType DEF DeleteRow, TypeInv, TypeOK
<1> QED
  BY <1>1, <1>2, <1>3 DEF TypeInv, TypeOK, DeleteRow, history

\* cancelWhileHoldingMutex stops the goroutine and takes the key out of activeJobs.
LEMMA CancelStep ==
  ASSUME TypeInv, NEW o \in Objects, NEW n \in Nodes, NEW phase \in JobPhases,
         job[o].phase = "unused" \/ job[o].node = n,
         phase = job[o].phase \/ (job[o].phase = "clearing" /\ phase = "waiting"),
         CancelWhileHoldingMutex(n, o, phase)
  PROVE  /\ job' \in [Objects -> JobsOnce]
         /\ \A p \in Objects : GoroutineOK(job'[p])
         /\ \A p \in Objects \ {o} : job'[p] = job[p]
         /\ job'[o].phase = phase /\ job'[o].node = job[o].node
         /\ \A m \in Nodes : ActiveOK(m)'
         /\ active' \in [Nodes -> Objects \cup {NoObject}]
<1> DEFINE w == [job[o] EXCEPT !.done = TRUE, !.phase = phase]
<1>1. job[o] \in JobsOnce /\ GoroutineOK(job[o])
  BY DEF TypeInv, TypeOK
<1>2. /\ w \in JobsOnce /\ w.phase = phase /\ w.node = job[o].node
      /\ w.done = TRUE /\ w.late = job[o].late /\ w.fails = job[o].fails
  BY <1>1, StopFields
<1>3. GoroutineOK(w)
  BY <1>1, <1>2 DEF GoroutineOK
<1>4. job' = [job EXCEPT ![o] = w]
  BY DEF CancelWhileHoldingMutex
<1> HIDE DEF w
<1>5. /\ job' \in [Objects -> JobsOnce] /\ job'[o] = w
      /\ \A p \in Objects \ {o} : job'[p] = job[p]
  BY <1>2, <1>4 DEF TypeInv, TypeOK
<1>6. /\ active' \in [Nodes -> Objects \cup {NoObject}] /\ active'[n] = NoObject
      /\ \A m \in Nodes \ {n} : active'[m] = active[m]
  BY DEF TypeInv, TypeOK, CancelWhileHoldingMutex
<1>7. ASSUME NEW m \in Nodes PROVE ActiveOK(m)'
  <2>1. active[m] = o => m = n
    BY JobOnceAssumption DEF TypeInv, ActiveOK, Alive
  <2>2. ActiveOK(m) /\ active[m] \in Objects \cup {NoObject}
    BY DEF TypeInv, TypeOK
  <2> QED
    BY <1>5, <1>6, <2>1, <2>2 DEF ActiveOK
<1>8. \A p \in Objects : GoroutineOK(job'[p])
  <2> TAKE p \in Objects
  <2>1. GoroutineOK(job[p])
    BY DEF TypeInv
  <2> QED
    BY <1>3, <1>5, <2>1
<1> QED
  BY <1>2, <1>5, <1>6, <1>7, <1>8

LEMMA ClearAndUnlockType ==
  ASSUME TypeInv, NEW o \in Objects, ClearAndUnlock(o) PROVE TypeInv'
<1>1. /\ job[o].phase = "clearing" /\ job[o].node \in Nodes
      /\ GoroutineOK(job[o])
  BY DEF ClearAndUnlock, TypeInv, GoroutineOK
<1>2. /\ job' \in [Objects -> JobsOnce]
      /\ \A p \in Objects : GoroutineOK(job'[p])
      /\ \A p \in Objects \ {o} : job'[p] = job[p]
      /\ job'[o].phase = "waiting" /\ job'[o].node = job[o].node
      /\ \A m \in Nodes : ActiveOK(m)'
      /\ active' \in [Nodes -> Objects \cup {NoObject}]
  BY <1>1, CancelStep DEF ClearAndUnlock, JobPhases
<1>3. UNCHANGED caller
  BY DEF ClearAndUnlock
<1>4. ASSUME NEW m \in Nodes PROVE CallerOK(m)'
  <2>1. CallerOK(m) /\ caller[m].job \in Objects \cup {NoObject}
    BY DEF TypeInv, TypeOK
  <2> QED
    BY <1>1, <1>2, <1>3, <2>1 DEF CallerOK
<1>5. CallsSuffice'
  BY <1>3, SameCalls DEF ClearAndUnlock, Saving, store, TypeInv, TypeOK
<1>6. owner' \in Procs \cup {Nobody, Abandoned} /\ faults' \in 0 .. MaxFaults
  BY OwnerType, FaultType, JobOnceAssumption DEF ClearAndUnlock, TypeInv, TypeOK
<1> QED
  BY <1>2, <1>3, <1>4, <1>5, <1>6 DEF TypeInv, TypeOK, ClearAndUnlock, store, history

-----------------------------------------------------------------------------
(* Types and references: nodes and callers *)

LEMMA Untouched ==
  ASSUME TypeInv, UNCHANGED <<job, active, caller>>
  PROVE  /\ \A o \in Objects : GoroutineOK(job'[o])
         /\ \A n \in Nodes : ActiveOK(n)' /\ CallerOK(n)'
         /\ Saving' = Saving
  BY DEF TypeInv, ActiveOK, CallerOK, Saving

\* An object that runs, or that a caller has just made, is of the one node that refers to
\* it.
LEMMA OneNode ==
  ASSUME TypeInv, NEW o \in Objects, NEW n \in Nodes, NEW m \in Nodes,
         job[o].phase # "unused", caller[n].job = o,
         caller[m].job = o \/ active[m] = o
  PROVE  m = n
  BY JobOnceAssumption DEF TypeInv, CallerOK, ActiveOK

\* Nothing in activeJobs is without a goroutine.
LEMMA ActiveRuns ==
  ASSUME TypeInv, NEW o \in Objects, job[o].phase \in {"unused", "idle"}, NEW m \in Nodes
  PROVE  active[m] # o
  BY JobOnceAssumption DEF TypeInv, ActiveOK, Alive

\* A caller that is not, or no more, in saveMetadata, with or without a schedule.
LEMMA FewerSaving ==
  ASSUME TypeInv, NEW n \in Nodes, Saving' = Saving \ {n},
         calls' \in {calls, calls + 1}, calls' \in 0 .. MaxCalls,
         \/ schedules' = schedules
         \/ n \in Saving /\ schedules' = schedules + 1
  PROVE  CallsSuffice' /\ schedules' \in 0 .. MaxCalls
<1>1. /\ IsFiniteSet(Saving) /\ Cardinality(Saving) \in Nat
      /\ schedules \in Nat /\ calls \in Nat
      /\ schedules + Cardinality(Saving) <= calls
  BY Constants, FS_CardinalityType DEF TypeInv, TypeOK, CallsSuffice
<1>2. /\ IsFiniteSet(Saving')
      /\ Cardinality(Saving') =
           IF n \in Saving THEN Cardinality(Saving) - 1 ELSE Cardinality(Saving)
  BY <1>1, FS_RemoveElement
<1>3. Cardinality(Saving') \in Nat
  BY <1>2, FS_CardinalityType
<1> QED
  BY <1>1, <1>2, <1>3, Constants DEF CallsSuffice

Callers == [phase : CallerPhases, job : Objects \cup {NoObject}]

\* Caller n becomes c.
LEMMA CallerBecomes ==
  ASSUME TypeInv, NEW n \in Nodes, NEW c \in Callers, caller' = [caller EXCEPT ![n] = c]
  PROVE  /\ caller' \in [Nodes -> Callers] /\ caller'[n] = c
         /\ \A m \in Nodes \ {n} : caller'[m] = caller[m]
         /\ c.phase # "saving" => Saving' = Saving \ {n}
         /\ c.phase = "saving" => Saving' = Saving \cup {n}
<1>1. caller \in [Nodes -> Callers]
  BY DEF TypeInv, TypeOK, Callers
<1>2. /\ caller' \in [Nodes -> Callers] /\ caller'[n] = c
      /\ \A m \in Nodes \ {n} : caller'[m] = caller[m]
  BY <1>1
<1> QED
  BY <1>2 DEF Saving

LEMMA CallerMoves ==
  ASSUME TypeInv, NEW n \in Nodes, NEW phase \in CallerPhases, CallerTo(n, phase)
  PROVE  /\ caller' \in [Nodes -> Callers]
         /\ caller'[n].phase = phase /\ caller'[n].job = caller[n].job
         /\ \A m \in Nodes \ {n} : caller'[m] = caller[m]
         /\ phase # "saving" => Saving' = Saving \ {n}
<1> DEFINE c == [caller[n] EXCEPT !.phase = phase]
<1>1. caller[n] \in Callers
  BY DEF TypeInv, TypeOK, Callers
<1>2. c \in Callers /\ c.phase = phase /\ c.job = caller[n].job
  BY <1>1 DEF Callers
<1>3. caller' = [caller EXCEPT ![n] = c]
  BY DEF CallerTo
<1> HIDE DEF c
<1> QED
  BY <1>2, <1>3, CallerBecomes

\* Only the callers change, and caller n refers to what it may refer to.
LEMMA CallerStep ==
  ASSUME TypeInv, NEW n \in Nodes, UNCHANGED <<job, active>>,
         \A m \in Nodes \ {n} : caller'[m] = caller[m],
         CallerOK(n)'
  PROVE  /\ \A o \in Objects : GoroutineOK(job'[o])
         /\ \A m \in Nodes : ActiveOK(m)' /\ CallerOK(m)'
  BY DEF TypeInv, ActiveOK, CallerOK

LEMMA PollType == ASSUME TypeInv, NEW n \in Nodes, Poll(n) PROVE TypeInv'
<1>1. CallsSuffice'
  BY Untouched, SameCalls DEF Poll, store, TypeInv, TypeOK
<1>2. polled' \in [Nodes -> Times \cup {NoTime}] /\ started' \subseteq Nodes
  BY DEF Poll, TypeInv, TypeOK
<1> QED
  BY <1>1, <1>2, Untouched DEF Poll, store, history, TypeInv, TypeOK

\* runAndTrack starts the goroutine of an object of node n that has none.
LEMMA StartStep ==
  ASSUME TypeInv, NEW n \in Nodes, NEW o \in Objects, NEW w \in JobsOnce,
         w.node = n, ~w.done, w.fails = 0,
         job[o].phase \in {"unused", "idle"},
         RunAndTrack(n, o, w),
         \A m \in Nodes : caller[m].job = o => m = n,
         \A m \in Nodes \ {n} : caller'[m] = caller[m],
         caller'[n].job = caller[n].job,
         \/ caller'[n].phase = "none"
         \/ caller[n].job # o /\ caller'[n] = caller[n]
  PROVE  /\ job' \in [Objects -> JobsOnce]
         /\ \A p \in Objects : GoroutineOK(job'[p])
         /\ \A m \in Nodes : ActiveOK(m)' /\ CallerOK(m)'
         /\ active' \in [Nodes -> Objects \cup {NoObject}]
<1> DEFINE v == [w EXCEPT !.phase = "waiting", !.late = w.time <= clock]
<1>2. job' = [job EXCEPT ![o] = v]
  BY DEF RunAndTrack
<1>3. /\ v \in JobsOnce /\ v.phase = "waiting" /\ v.node = n
      /\ ~v.done /\ v.fails = 0
  BY StartFields
<1> HIDE DEF v
<1>4. GoroutineOK(v)
  BY <1>3, Constants DEF GoroutineOK
<1>5. /\ job' \in [Objects -> JobsOnce] /\ job'[o] = v
      /\ \A p \in Objects \ {o} : job'[p] = job[p]
  BY <1>2, <1>3 DEF TypeInv, TypeOK
<1>6. /\ active' \in [Nodes -> Objects \cup {NoObject}] /\ active'[n] = o
      /\ \A m \in Nodes \ {n} : active'[m] = active[m]
  BY DEF RunAndTrack, TypeInv, TypeOK
<1>7. \A p \in Objects : GoroutineOK(job'[p])
  BY <1>4, <1>5 DEF TypeInv
<1>8. ASSUME NEW m \in Nodes PROVE ActiveOK(m)'
  <2>1. active[m] # o
    BY ActiveRuns
  <2>2. ActiveOK(m) /\ active[m] \in Objects \cup {NoObject}
    BY DEF TypeInv, TypeOK
  <2> QED
    BY <1>3, <1>5, <1>6, <2>1, <2>2 DEF ActiveOK, Alive
<1>9. ASSUME NEW m \in Nodes PROVE CallerOK(m)'
  <2>1. CallerOK(m) /\ caller[m].job \in Objects \cup {NoObject}
    BY DEF TypeInv, TypeOK
  <2> QED
    BY <1>3, <1>5, <2>1 DEF CallerOK
<1> QED
  BY <1>5, <1>6, <1>7, <1>8, <1>9

LEMMA TrackPolledType == ASSUME TypeInv, NEW n \in Nodes, TrackPolled(n) PROVE TypeInv'
<1>1. /\ job' \in [Objects -> JobsOnce]
      /\ \A p \in Objects : GoroutineOK(job'[p])
      /\ \A m \in Nodes : ActiveOK(m)' /\ CallerOK(m)'
      /\ active' \in [Nodes -> Objects \cup {NoObject}]
  <2>1. CASE active[n] = NoObject
    <3>1. PICK o \in Objects : Fresh(o) /\ RunAndTrack(n, o, NewJobOnce(n, polled[n]))
      BY <2>1 DEF TrackPolled
    <3>2. polled[n] \in Times
      BY DEF TrackPolled, TypeInv, TypeOK
    <3> DEFINE w == NewJobOnce(n, polled[n])
    <3>3. w \in JobsOnce /\ w.node = n /\ ~w.done /\ w.fails = 0
      BY <3>2, NewJobOK
    <3> HIDE DEF w
    <3>4. RunAndTrack(n, o, w)
      BY <3>1 DEF w
    <3>5. /\ job[o].phase \in {"unused", "idle"}
          /\ \A m \in Nodes : caller[m].job # o
      BY <3>1 DEF Fresh, Free
    <3>6. UNCHANGED caller
      BY DEF TrackPolled
    <3> QED
      BY <3>3, <3>4, <3>5, <3>6, StartStep
  <2>2. CASE active[n] # NoObject
    BY <2>2, Untouched DEF TrackPolled, TypeInv, TypeOK
  <2> QED
    BY <2>1, <2>2
<1>2. CallsSuffice'
  BY SameCalls DEF TrackPolled, Saving, store, TypeInv, TypeOK
<1>3. polled' \in [Nodes -> Times \cup {NoTime}] /\ started' \subseteq Nodes
  BY DEF TrackPolled, TypeInv, TypeOK
<1> QED
  BY <1>1, <1>2, <1>3 DEF TrackPolled, store, history, TypeInv, TypeOK

\* ScheduleOnce makes an object that nothing else refers to.
LEMMA ScheduleOnceType ==
  ASSUME TypeInv, NEW n \in Nodes, NEW time \in Times, ScheduleOnce(n, time)
  PROVE  TypeInv'
<1>1. PICK o \in Objects :
        /\ Fresh(o)
        /\ job' = [job EXCEPT ![o] = NewJobOnce(n, time)]
        /\ caller' = [caller EXCEPT ![n] = [phase |-> "saving", job |-> o]]
  BY DEF ScheduleOnce
<1> DEFINE w == NewJobOnce(n, time)
           c == [phase |-> "saving", job |-> o]
<1>2. /\ w \in JobsOnce /\ GoroutineOK(w)
      /\ w.phase = "idle" /\ w.node = n /\ ~w.done
  BY NewJobOK
<1>3. c \in Callers /\ c.phase = "saving" /\ c.job = o
  BY DEF Callers, CallerPhases
<1>4. /\ job[o].phase \in {"unused", "idle"}
      /\ \A m \in Nodes : caller[m].job # o
  BY <1>1 DEF Fresh, Free
<1> HIDE DEF w, c
<1>5. /\ job' \in [Objects -> JobsOnce] /\ job'[o] = w
      /\ \A p \in Objects \ {o} : job'[p] = job[p]
  BY <1>1, <1>2 DEF w, TypeInv, TypeOK
<1>6. /\ caller' \in [Nodes -> Callers] /\ caller'[n] = c
      /\ \A m \in Nodes \ {n} : caller'[m] = caller[m]
      /\ Saving' = Saving \cup {n}
  BY <1>1, <1>3, CallerBecomes DEF c
<1>7. \A p \in Objects : GoroutineOK(job'[p])
  BY <1>2, <1>5 DEF TypeInv
<1>8. ASSUME NEW m \in Nodes PROVE ActiveOK(m)'
  <2>1. active[m] # o
    BY <1>4, ActiveRuns
  <2>2. ActiveOK(m) /\ active[m] \in Objects \cup {NoObject} /\ active'[m] = active[m]
    BY DEF TypeInv, TypeOK, ScheduleOnce
  <2> QED
    BY <1>5, <2>1, <2>2 DEF ActiveOK
<1>9. ASSUME NEW m \in Nodes PROVE CallerOK(m)'
  <2>1. CallerOK(m) /\ caller[m].job \in Objects \cup {NoObject} /\ caller[m].job # o
    BY <1>4 DEF TypeInv, TypeOK
  <2>2. CASE m = n
    BY <1>2, <1>3, <1>5, <1>6, <2>2, JobOnceAssumption DEF CallerOK
  <2>3. CASE m # n
    BY <1>5, <1>6, <2>1, <2>3 DEF CallerOK
  <2> QED
    BY <2>2, <2>3
<1>10. CallsSuffice'
  <2>1. /\ IsFiniteSet(Saving) /\ Cardinality(Saving) \in Nat
        /\ schedules \in Nat /\ calls \in Nat
        /\ schedules + Cardinality(Saving) <= calls
    BY Constants, FS_CardinalityType DEF TypeInv, TypeOK, CallsSuffice
  <2>2. /\ IsFiniteSet(Saving')
        /\ Cardinality(Saving') =
             IF n \in Saving THEN Cardinality(Saving) ELSE Cardinality(Saving) + 1
    BY <1>6, <2>1, FS_AddElement
  <2>3. calls' = calls + 1 /\ schedules' = schedules
    BY DEF ScheduleOnce, Call, store
  <2> QED
    BY <2>1, <2>2, <2>3 DEF CallsSuffice
<1>11. calls' \in 0 .. MaxCalls
  BY Constants DEF ScheduleOnce, Call, TypeInv, TypeOK
<1> QED
  BY <1>5, <1>6, <1>7, <1>8, <1>9, <1>10, <1>11
     DEF ScheduleOnce, store, history, TypeInv, TypeOK, Callers

\* A caller lets go of an object that has no goroutine.
LEMMA ForgetStep ==
  ASSUME TypeInv, NEW n \in Nodes, NEW o \in Objects, caller[n].job = o,
         job[o].phase \in {"unused", "idle"},
         caller[n].phase # "none",
         caller' = [caller EXCEPT ![n] = Rest(NoObject)],
         job' = [job EXCEPT ![o] = Unused],
         UNCHANGED active
  PROVE  /\ job' \in [Objects -> JobsOnce]
         /\ caller' \in [Nodes -> Callers]
         /\ \A p \in Objects : GoroutineOK(job'[p])
         /\ \A m \in Nodes : ActiveOK(m)' /\ CallerOK(m)'
         /\ Saving' = Saving \ {n}
<1> DEFINE c == Rest(NoObject)
<1>1. c \in Callers /\ c.phase = "none" /\ c.job = NoObject
  BY DEF Rest, Callers, CallerPhases
<1> HIDE DEF c
<1>2. /\ caller' \in [Nodes -> Callers] /\ caller'[n] = c
      /\ \A m \in Nodes \ {n} : caller'[m] = caller[m]
      /\ Saving' = Saving \ {n}
  BY <1>1, CallerBecomes DEF c
<1>3. /\ job' \in [Objects -> JobsOnce] /\ job'[o] = Unused
      /\ \A p \in Objects \ {o} : job'[p] = job[p]
  BY UnusedOK DEF TypeInv, TypeOK
<1>4. \A p \in Objects : GoroutineOK(job'[p])
  BY <1>3, UnusedOK DEF TypeInv
<1>5. ASSUME NEW m \in Nodes PROVE ActiveOK(m)'
  <2>1. active[m] # o
    BY ActiveRuns
  <2>2. ActiveOK(m) /\ active[m] \in Objects \cup {NoObject}
    BY DEF TypeInv, TypeOK
  <2> QED
    BY <1>3, <2>1, <2>2 DEF ActiveOK
<1>6. ASSUME NEW m \in Nodes PROVE CallerOK(m)'
  <2>1. CallerOK(m) /\ caller[m].job \in Objects \cup {NoObject}
    BY DEF TypeInv, TypeOK
  <2>2. CASE m = n
    BY <1>1, <1>2, <2>2 DEF CallerOK
  <2>3. CASE m # n
    <3>1. caller[m].job = o => job[o].phase = "unused"
      BY <2>3, OneNode
    <3> QED
      BY <1>2, <1>3, <2>1, <2>3, <3>1, UnusedOK DEF CallerOK
  <2> QED
    BY <2>2, <2>3
<1> QED
  BY <1>2, <1>3, <1>4, <1>5, <1>6

\* saveMetadata stores the row of a new schedule only for a caller whose call is not
\* counted yet.
LEMMA SaveMetadataType == ASSUME TypeInv, NEW n \in Nodes, SaveMetadata(n) PROVE TypeInv'
<1> DEFINE o == caller[n].job
<1>1. /\ o \in Objects /\ job[o].phase = "idle" /\ job[o].node = n
      /\ caller[n].phase = "saving" /\ n \in Saving /\ job[o].time \in Times
      /\ ~job[o].done
  BY JobOnceAssumption DEF SaveMetadata, TypeInv, TypeOK, CallerOK, Saving, JobsOnce
<1>2. \/ schedules' = schedules /\ row' = row /\ runAt' = runAt
      \/ schedules' = schedules + 1 /\ row' = schedules'
         /\ runAt' = [runAt EXCEPT ![row'] = job[o].time]
  BY DEF SaveMetadata
<1>3. /\ job' \in [Objects -> JobsOnce]
      /\ caller' \in [Nodes -> Callers]
      /\ \A p \in Objects : GoroutineOK(job'[p])
      /\ \A m \in Nodes : ActiveOK(m)' /\ CallerOK(m)'
      /\ Saving' = Saving \ {n}
  <2>1. UNCHANGED active
    BY DEF SaveMetadata
  <2>2. CASE CallerTo(n, "tracking") /\ UNCHANGED job
    <3>1. /\ caller' \in [Nodes -> Callers]
          /\ caller'[n].phase = "tracking" /\ caller'[n].job = o
          /\ \A m \in Nodes \ {n} : caller'[m] = caller[m]
          /\ Saving' = Saving \ {n}
      BY <2>2, CallerMoves DEF CallerPhases
    <3>2. CallerOK(n)'
      BY <1>1, <2>2, <3>1, JobOnceAssumption DEF CallerOK
    <3> QED
      BY <2>1, <2>2, <3>1, <3>2, CallerStep DEF TypeInv, TypeOK
  <2>3. CASE /\ caller' = [caller EXCEPT ![n] = Rest(NoObject)]
             /\ job' = [job EXCEPT ![o] = Unused]
    BY <1>1, <2>1, <2>3, ForgetStep
  <2> QED
    BY <2>2, <2>3 DEF SaveMetadata
<1>4. CallsSuffice' /\ schedules' \in 0 .. MaxCalls
  BY <1>1, <1>2, <1>3, FewerSaving DEF SaveMetadata, TypeInv, TypeOK
<1>5. row' \in {0} \cup Schedules /\ runAt' \in [Schedules -> Times]
  <2>1. schedules \in Nat /\ row \in {0} \cup Schedules /\ runAt \in [Schedules -> Times]
    BY Constants DEF TypeInv, TypeOK
  <2>2. schedules' = schedules + 1 => schedules' \in Schedules
    BY <1>4, <2>1, Constants DEF Schedules
  <2> QED
    BY <1>1, <1>2, <2>1, <2>2
<1>6. owner' \in Procs \cup {Nobody, Abandoned} /\ faults' \in 0 .. MaxFaults
  BY FaultType DEF SaveMetadata, LockedBriefly, Strand, TypeInv, TypeOK
<1> QED
  BY <1>3, <1>4, <1>5, <1>6 DEF SaveMetadata, history, TypeInv, TypeOK, Callers

LEMMA TrackType == ASSUME TypeInv, NEW n \in Nodes, Track(n) PROVE TypeInv'
<1> DEFINE o == caller[n].job
<1>1. /\ o \in Objects /\ job[o].phase = "idle" /\ job[o].node = n
      /\ ~job[o].done /\ job[o].fails = 0 /\ job[o] \in JobsOnce
  BY JobOnceAssumption DEF Track, TypeInv, TypeOK, CallerOK, GoroutineOK
<1>2. /\ caller' \in [Nodes -> Callers]
      /\ caller'[n].phase = "none" /\ caller'[n].job = caller[n].job
      /\ \A m \in Nodes \ {n} : caller'[m] = caller[m]
      /\ Saving' = Saving \ {n}
  BY CallerMoves DEF Track, CallerPhases
<1>3. /\ job' \in [Objects -> JobsOnce]
      /\ \A p \in Objects : GoroutineOK(job'[p])
      /\ \A m \in Nodes : ActiveOK(m)' /\ CallerOK(m)'
      /\ active' \in [Nodes -> Objects \cup {NoObject}]
  <2>1. CASE active[n] = NoObject
    <3>1. \A m \in Nodes : caller[m].job = o => m = n
      BY <1>1, OneNode
    <3>2. RunAndTrack(n, o, job[o])
      BY <2>1 DEF Track
    <3> HIDE DEF o
    <3> QED
      BY <1>1, <1>2, <3>1, <3>2, StartStep
  <2>2. CASE active[n] # NoObject
    <3>1. UNCHANGED <<active, job>>
      BY <2>2 DEF Track
    <3>2. CallerOK(n)'
      BY <1>1, <1>2, <3>1 DEF CallerOK
    <3> QED
      BY <1>2, <3>1, <3>2, CallerStep DEF TypeInv, TypeOK
  <2> QED
    BY <2>1, <2>2
<1>4. CallsSuffice'
  BY <1>2, FewerSaving DEF Track, store, TypeInv, TypeOK
<1> QED
  BY <1>2, <1>3, <1>4 DEF Track, store, history, TypeInv, TypeOK, Callers

\* Cancel begins, with the active object or with the one that ScheduleOnce returned.
LEMMA CancelKeyType == ASSUME TypeInv, NEW n \in Nodes, CancelKey(n) PROVE TypeInv'
<1> DEFINE c == IF active[n] = NoObject THEN [phase |-> "deleting", job |-> NoObject]
                ELSE [phase |-> "canceling", job |-> active[n]]
<1>1. active[n] \in Objects \cup {NoObject} /\ ActiveOK(n)
  BY DEF TypeInv, TypeOK
<1>2. /\ c \in Callers /\ c.phase \in {"deleting", "canceling"}
      /\ c.job # NoObject => c.job = active[n]
      /\ c.phase = "canceling" => c.job # NoObject
  BY <1>1 DEF Callers, CallerPhases
<1>3. caller' = [caller EXCEPT ![n] = c] /\ UNCHANGED <<job, active>>
  BY DEF CancelKey
<1> HIDE DEF c
<1>4. /\ caller' \in [Nodes -> Callers] /\ caller'[n] = c
      /\ \A m \in Nodes \ {n} : caller'[m] = caller[m]
      /\ Saving' = Saving \ {n}
  BY <1>2, <1>3, CallerBecomes
<1>5. CallerOK(n)'
  BY <1>1, <1>2, <1>3, <1>4 DEF CallerOK, ActiveOK
<1>6. /\ \A p \in Objects : GoroutineOK(job'[p])
      /\ \A m \in Nodes : ActiveOK(m)' /\ CallerOK(m)'
  BY <1>3, <1>4, <1>5, CallerStep
<1>7. calls' = calls + 1 /\ calls' \in 0 .. MaxCalls /\ schedules' = schedules
  BY Constants DEF CancelKey, Call, store, TypeInv, TypeOK
<1>8. CallsSuffice'
  BY <1>4, <1>7, FewerSaving
<1> QED
  BY <1>4, <1>6, <1>7, <1>8 DEF CancelKey, store, history, TypeInv, TypeOK, Callers

LEMMA CancelJobType == ASSUME TypeInv, NEW n \in Nodes, CancelJob(n) PROVE TypeInv'
<1>1. /\ caller' \in [Nodes -> Callers]
      /\ caller'[n].phase = "canceling" /\ caller'[n].job = caller[n].job
      /\ \A m \in Nodes \ {n} : caller'[m] = caller[m]
      /\ Saving' = Saving \ {n}
  BY CallerMoves DEF CancelJob, CallerPhases
<1>2. UNCHANGED <<job, active>> /\ caller[n].job # NoObject
  BY DEF CancelJob
<1>3. CallerOK(n)'
  BY <1>1, <1>2 DEF CallerOK, TypeInv
<1>4. /\ \A p \in Objects : GoroutineOK(job'[p])
      /\ \A m \in Nodes : ActiveOK(m)' /\ CallerOK(m)'
  BY <1>1, <1>2, <1>3, CallerStep
<1>5. calls' = calls + 1 /\ calls' \in 0 .. MaxCalls /\ schedules' = schedules
  BY Constants DEF CancelJob, Call, store, TypeInv, TypeOK
<1>6. CallsSuffice'
  BY <1>1, <1>5, FewerSaving
<1> QED
  BY <1>1, <1>4, <1>5, <1>6 DEF CancelJob, store, history, TypeInv, TypeOK, Callers

LEMMA CanceledType ==
  ASSUME TypeInv, NoteCanceled
  PROVE  canceled' \subseteq Schedules
  BY DEF TypeInv, TypeOK, NoteCanceled

LEMMA CancelRowType == ASSUME TypeInv, NEW n \in Nodes, CancelRow(n) PROVE TypeInv'
<1>1. /\ caller' \in [Nodes -> Callers]
      /\ caller'[n].phase = "none" /\ caller'[n].job = caller[n].job
      /\ \A m \in Nodes \ {n} : caller'[m] = caller[m]
      /\ Saving' = Saving \ {n}
  BY CallerMoves DEF CancelRow, CallerPhases
<1>2. UNCHANGED <<job, active>>
  BY DEF CancelRow
<1>3. CallerOK(n)'
  BY <1>1, <1>2 DEF CallerOK, TypeInv
<1>4. /\ \A p \in Objects : GoroutineOK(job'[p])
      /\ \A m \in Nodes : ActiveOK(m)' /\ CallerOK(m)'
  BY <1>1, <1>2, <1>3, CallerStep
<1>5. CallsSuffice'
  BY <1>1, FewerSaving DEF CancelRow, TypeInv, TypeOK
<1>6. /\ row' \in {0} \cup Schedules /\ faults' \in 0 .. MaxFaults
      /\ owner' \in Procs \cup {Nobody, Abandoned}
      /\ canceled' \subseteq Schedules
  BY DeleteType, FaultType, CanceledType DEF CancelRow, Strand, TypeInv, TypeOK
<1> QED
  BY <1>1, <1>4, <1>5, <1>6 DEF CancelRow, TypeInv, TypeOK, Callers

LEMMA LockAndCancelType ==
  ASSUME TypeInv, NEW n \in Nodes, LockAndCancel(n) PROVE TypeInv'
<1> DEFINE o == caller[n].job
<1>1. /\ o \in Objects /\ job[o].phase \in JobPhases
      /\ job[o].phase = "unused" \/ job[o].node = n
      /\ caller[n].phase = "canceling"
  BY DEF LockAndCancel, TypeInv, TypeOK, CallerOK, JobsOnce
<1>2. /\ job' \in [Objects -> JobsOnce]
      /\ \A p \in Objects : GoroutineOK(job'[p])
      /\ \A p \in Objects \ {o} : job'[p] = job[p]
      /\ job'[o].phase = job[o].phase /\ job'[o].node = job[o].node
      /\ \A m \in Nodes : ActiveOK(m)'
      /\ active' \in [Nodes -> Objects \cup {NoObject}]
  <2>1. CancelWhileHoldingMutex(n, o, job[o].phase)
    BY DEF LockAndCancel
  <2> HIDE DEF o
  <2> QED
    BY <1>1, <2>1, CancelStep
<1>3. /\ caller' \in [Nodes -> Callers]
      /\ caller'[n].phase = "joining" /\ caller'[n].job = o
      /\ \A m \in Nodes \ {n} : caller'[m] = caller[m]
      /\ Saving' = Saving \ {n}
  BY CallerMoves DEF LockAndCancel, CallerPhases
<1>4. ASSUME NEW m \in Nodes PROVE CallerOK(m)'
  <2>1. CallerOK(m) /\ caller[m].job \in Objects \cup {NoObject}
    BY DEF TypeInv, TypeOK
  <2>2. CASE m = n
    BY <1>1, <1>2, <1>3, <2>2, JobOnceAssumption DEF CallerOK
  <2>3. CASE m # n
    <3>1. caller[m].job = o => job[o].phase = "unused"
      BY <1>1, <2>3, OneNode
    <3> HIDE DEF o
    <3> QED
      BY <1>2, <1>3, <2>1, <2>3, <3>1 DEF CallerOK
  <2> QED
    BY <2>2, <2>3
<1>5. CallsSuffice'
  BY <1>3, FewerSaving DEF LockAndCancel, TypeInv, TypeOK
<1>6. /\ row' \in {0} \cup Schedules /\ faults' \in 0 .. MaxFaults
      /\ owner' \in Procs \cup {Nobody, Abandoned}
      /\ canceled' \subseteq Schedules
  BY DeleteType, OwnerType, CanceledType, JobOnceAssumption DEF LockAndCancel, TypeInv, TypeOK
<1> QED
  BY <1>2, <1>3, <1>4, <1>5, <1>6 DEF LockAndCancel, TypeInv, TypeOK, Callers

LEMMA JoinAndUnlockType ==
  ASSUME TypeInv, NEW n \in Nodes, JoinAndUnlock(n) PROVE TypeInv'
<1> DEFINE o == caller[n].job
<1>1. o \in Objects /\ job[o].phase = "unused" /\ caller[n].phase = "joining"
  BY DEF JoinAndUnlock, TypeInv, TypeOK, CallerOK
<1>2. /\ job' \in [Objects -> JobsOnce]
      /\ caller' \in [Nodes -> Callers]
      /\ \A p \in Objects : GoroutineOK(job'[p])
      /\ \A m \in Nodes : ActiveOK(m)' /\ CallerOK(m)'
      /\ Saving' = Saving \ {n}
  BY <1>1, ForgetStep DEF JoinAndUnlock
<1>3. CallsSuffice'
  BY <1>2, FewerSaving DEF JoinAndUnlock, store, TypeInv, TypeOK
<1>4. owner' \in Procs \cup {Nobody, Abandoned} /\ faults' \in 0 .. MaxFaults
  BY OwnerType, FaultType, JobOnceAssumption DEF JoinAndUnlock, TypeInv, TypeOK
<1> QED
  BY <1>2, <1>3, <1>4 DEF JoinAndUnlock, store, history, TypeInv, TypeOK, Callers

\* The objects of a node go with it, and nobody else refers to them.
LEMMA CrashType == ASSUME TypeInv, NEW n \in Nodes, Crash(n) PROVE TypeInv'
<1> DEFINE c == Rest(NoObject)
<1>1. c \in Callers /\ c.phase = "none" /\ c.job = NoObject
  BY DEF Rest, Callers, CallerPhases
<1>2. caller' = [caller EXCEPT ![n] = c]
  BY DEF Crash
<1> HIDE DEF c
<1>3. /\ caller' \in [Nodes -> Callers] /\ caller'[n] = c
      /\ \A m \in Nodes \ {n} : caller'[m] = caller[m]
      /\ Saving' = Saving \ {n}
  BY <1>1, <1>2, CallerBecomes
<1>4. \A p \in Objects : job'[p] = IF job[p].node = n THEN Unused ELSE job[p]
  BY DEF Crash
<1>5. job' \in [Objects -> JobsOnce] /\ \A p \in Objects : GoroutineOK(job'[p])
  BY <1>4, UnusedOK DEF Crash, TypeInv, TypeOK
<1>6. /\ active' \in [Nodes -> Objects \cup {NoObject}] /\ active'[n] = NoObject
      /\ \A m \in Nodes \ {n} : active'[m] = active[m]
  BY DEF Crash, TypeInv, TypeOK
<1>7. ASSUME NEW m \in Nodes PROVE ActiveOK(m)'
  <2>1. ActiveOK(m) /\ active[m] \in Objects \cup {NoObject}
    BY DEF TypeInv, TypeOK
  <2> QED
    BY <1>4, <1>6, <2>1 DEF ActiveOK
<1>8. ASSUME NEW m \in Nodes PROVE CallerOK(m)'
  <2>1. CallerOK(m) /\ caller[m].job \in Objects \cup {NoObject}
    BY DEF TypeInv, TypeOK
  <2>2. CASE m = n
    BY <1>1, <1>3, <2>2 DEF CallerOK
  <2>3. CASE m # n
    BY <1>3, <1>4, <2>1, <2>3, UnusedOK DEF CallerOK
  <2> QED
    BY <2>2, <2>3
<1>9. CallsSuffice'
  BY <1>3, FewerSaving DEF Crash, store, TypeInv, TypeOK
<1>10. /\ owner' \in Procs \cup {Nobody, Abandoned} /\ faults' \in 0 .. MaxFaults
       /\ polled' \in [Nodes -> Times \cup {NoTime}] /\ started' \subseteq Nodes
  BY FaultType DEF Crash, Abandon, TypeInv, TypeOK
<1> QED
  BY <1>3, <1>5, <1>6, <1>7, <1>8, <1>9, <1>10
     DEF Crash, store, history, TypeInv, TypeOK, Callers

LEMMA TimeType == ASSUME TypeInv, ExpireLock \/ Tick PROVE TypeInv'
<1>1. UNCHANGED <<job, active, caller, schedules, calls>>
  BY DEF ExpireLock, Tick, store
<1>2. CallsSuffice'
  BY <1>1, Untouched, SameCalls DEF TypeInv, TypeOK
<1>3. owner' \in Procs \cup {Nobody, Abandoned} /\ clock' \in Times
  BY Constants DEF ExpireLock, Expire, Tick, Times, TypeInv, TypeOK
<1> QED
  BY <1>1, <1>2, <1>3, Untouched DEF ExpireLock, Tick, store, history, TypeInv, TypeOK

LEMMA TypeInvStep == TypeInv /\ [Next]_vars => TypeInv'
<1> SUFFICES ASSUME TypeInv, [Next]_vars PROVE TypeInv'
  OBVIOUS
<1>1. CASE ExpireLock \/ Tick
  BY <1>1, TimeType
<1>2. ASSUME NEW o \in Objects, Run(o) \/ ReadError(o) PROVE TypeInv'
  BY <1>2, FireType, DoneType, LockAndRunType, DeleteRowType, ClearAndUnlockType,
     ReadErrorType DEF Run
<1>3. ASSUME NEW n \in Nodes,
             \/ Poll(n) \/ TrackPolled(n) \/ Proceed(n)
             \/ CancelKey(n) \/ CancelJob(n) \/ Crash(n)
      PROVE  TypeInv'
  BY <1>3, PollType, TrackPolledType, SaveMetadataType, TrackType, CancelRowType,
     LockAndCancelType, JoinAndUnlockType, CancelKeyType, CancelJobType, CrashType
     DEF Proceed
<1>4. ASSUME NEW n \in Nodes, NEW time \in Times, ScheduleOnce(n, time) PROVE TypeInv'
  BY <1>4, ScheduleOnceType
<1>5. CASE UNCHANGED vars
  <2>1. UNCHANGED <<job, active, caller, schedules, calls>>
    BY <1>5 DEF vars
  <2>2. CallsSuffice'
    BY <2>1, Untouched, SameCalls DEF TypeInv, TypeOK
  <2> QED
    BY <1>5, <2>1, <2>2, Untouched DEF vars, TypeInv, TypeOK
<1> QED
  BY <1>1, <1>2, <1>3, <1>4, <1>5 DEF Next

LEMMA TypeInvInit == Init => TypeInv
<1> SUFFICES ASSUME Init PROVE TypeInv
  OBVIOUS
<1>1. \A n \in Nodes :
        /\ caller[n] = Rest(NoObject) /\ caller[n].phase = "none"
        /\ caller[n].job = NoObject /\ caller[n] \in Callers
  BY DEF Init, Rest, Callers, CallerPhases
<1>2. Saving = {} /\ CallsSuffice
  <2>1. Saving = {}
    BY <1>1 DEF Saving
  <2> QED
    BY <2>1, FS_EmptySet DEF Init, CallsSuffice
<1>3. \A n \in Nodes : ActiveOK(n) /\ CallerOK(n)
  BY <1>1 DEF Init, ActiveOK, CallerOK
<1>4. TypeOK
  BY <1>1, UnusedOK, Constants
     DEF Init, MutexInit, TypeOK, Schedules, MaxRuns, Callers
<1> QED
  BY <1>2, <1>3, <1>4, UnusedOK DEF Init, TypeInv

-----------------------------------------------------------------------------
(* The row, its runs and the reasons to delete it *)

InMutex == {"deleting", "clearing"}

\* What is counted.
LEMMA Counters ==
  ASSUME TypeInv
  PROVE  /\ row \in Nat /\ schedules \in Nat /\ faults \in Nat
         /\ \A s \in Schedules : s \in Nat \ {0} /\ runs[s] \in Nat
         /\ row # 0 => row \in Schedules
         /\ canceled \subseteq Schedules
         /\ MaxRuns \in Nat /\ MaxRuns >= 2
<1>1. MaxRuns \in Nat /\ MaxRuns >= 2
  BY Constants DEF MaxRuns
<1>2. \A s \in Schedules : s \in Nat \ {0}
  BY Constants DEF Schedules
<1>3. \A s \in Schedules : runs[s] \in Nat
  BY <1>1 DEF TypeInv, TypeOK
<1>4. row \in Nat /\ schedules \in Nat /\ faults \in Nat
  BY <1>2, Constants DEF TypeInv, TypeOK
<1> QED
  BY <1>1, <1>2, <1>3, <1>4 DEF TypeInv, TypeOK

\* While anybody else has the mutex, or nobody, no goroutine is about to delete the row.
LEMMA NobodyInMutex ==
  ASSUME IInv, owner \notin Objects
  PROVE  \A p \in Objects : job[p].phase \notin InMutex
  BY DEF IInv, Excluded, InMutex

LEMMA NodesAreNotObjects ==
  /\ Nobody \notin Objects /\ Abandoned \notin Objects /\ Nobody # Abandoned
  /\ \A n \in Nodes : n \notin Objects
  BY JobOnceAssumption, MutexAssumption

\* A step that at most deletes the row: no goroutine begins to delete, those that do keep
\* their reason, and one stops only when the row is gone or something failed.
LEMMA NoNewRow ==
  ASSUME IInv, TypeInv', UNCHANGED <<runAt, schedules, runs>>,
         row' \in {0, row},
         faults' \in {faults, faults + 1},
         owner' = owner \/ \A p \in Objects : job'[p].phase \notin InMutex,
         \A p \in Objects : job'[p].phase \in InMutex => job[p].phase \in InMutex,
         \A p \in Objects : job'[p].phase = "deleting" =>
           /\ job[p].phase = "deleting"
           /\ job'[p].time = job[p].time /\ job'[p].fails = job[p].fails,
         \A p \in Objects : job[p].phase = "deleting" =>
           job'[p].phase = "deleting" \/ row' = 0 \/ faults' = faults + 1,
         \A s \in canceled' : s \in canceled \/ (s = row /\ row # 0 /\ row' = 0)
  PROVE  IInv'
<1>1. /\ row \in Nat /\ schedules \in Nat /\ faults \in Nat
      /\ \A s \in Schedules : s \in Nat \ {0} /\ runs[s] \in Nat
      /\ row # 0 => row \in Schedules
      /\ canceled \subseteq Schedules
  BY Counters DEF IInv
<1>2. Excluded'
  BY DEF IInv, Excluded, InMutex
<1>3. RowOK'
  <2>1. row' # 0 => row' = schedules'
    BY DEF IInv, RowOK
  <2>2. \A s \in Schedules : s > schedules' => runs'[s] = 0
    BY DEF IInv, RowOK
  <2>3. ASSUME NEW s \in canceled' PROVE s <= schedules' /\ s # row'
    BY <1>1, <2>3 DEF IInv, RowOK
  <2> QED
    BY <2>1, <2>2, <2>3 DEF RowOK
<1>4. RunsOK'
  <2>1. \A s \in Schedules : runs'[s] <= 1 + faults'
    BY <1>1 DEF IInv, RunsOK
  <2>2. ASSUME row' # 0
        PROVE  runs'[row'] <= faults' \/ \E p \in Objects : job'[p].phase = "deleting"
    BY <1>1, <2>2 DEF IInv, RunsOK
  <2> QED
    BY <2>1, <2>2 DEF RunsOK
<1>5. DeletesForCause'
  BY DEF IInv, DeletesForCause, Reason
<1> QED
  BY <1>2, <1>3, <1>4, <1>5 DEF IInv

\* A step of everything else: the row and the deleting goroutines stay as they are.
LEMMA Elsewhere ==
  ASSUME IInv, TypeInv', UNCHANGED <<owner, store, faults, history>>,
         \A p \in Objects : \/ job'[p] = job[p]
                            \/ job[p].phase \notin InMutex /\ job'[p].phase \notin InMutex
  PROVE  IInv'
<1>1. UNCHANGED <<runAt, schedules, runs, row, canceled>>
  BY DEF store, history
<1>2. /\ \A p \in Objects : job'[p].phase \in InMutex => job[p].phase \in InMutex
      /\ \A p \in Objects : job'[p].phase = "deleting" =>
           /\ job[p].phase = "deleting"
           /\ job'[p].time = job[p].time /\ job'[p].fails = job[p].fails
      /\ \A p \in Objects : job[p].phase = "deleting" => job'[p].phase = "deleting"
  BY DEF InMutex
<1> QED
  BY <1>1, <1>2, NoNewRow

\* One object changes, and the others do not.
LEMMA OneObject ==
  ASSUME TypeInv, NEW o \in Objects, NEW w, job' = [job EXCEPT ![o] = w]
  PROVE  job'[o] = w /\ \A p \in Objects \ {o} : job'[p] = job[p]
  BY DEF TypeInv, TypeOK

LEMMA FireStep == ASSUME IInv, TypeInv', NEW o \in Objects, Fire(o) PROVE IInv'
<1>1. job[o] \in JobsOnce /\ job \in [Objects -> JobsOnce]
  BY DEF IInv, TypeInv, TypeOK
<1>2. job[o].phase \notin InMutex /\ job'[o].phase \notin InMutex
  BY <1>1 DEF Fire, To, InMutex, JobsOnce
<1>3. \A p \in Objects \ {o} : job'[p] = job[p]
  BY <1>1 DEF Fire, To
<1> QED
  BY <1>2, <1>3, Elsewhere DEF Fire

LEMMA DoneStep == ASSUME IInv, TypeInv', NEW o \in Objects, Done(o) PROVE IInv'
<1>1. job'[o] = Unused /\ \A p \in Objects \ {o} : job'[p] = job[p]
  BY OneObject DEF Done, IInv
<1>2. job[o].phase \notin InMutex /\ job'[o].phase \notin InMutex
  BY <1>1, UnusedOK DEF Done, InMutex
<1> QED
  BY <1>1, <1>2, Elsewhere DEF Done

\* The goroutine that runs the callback for a row is the only one to delete it.
LEMMA LockAndRunStep == ASSUME IInv, TypeInv', NEW o \in Objects, LockAndRun(o) PROVE IInv'
<1>1. /\ owner = Nobody /\ owner' = o
      /\ UNCHANGED <<row, runAt, schedules, faults, canceled>>
  BY DEF LockAndRun, Acquire, store
<1>2. \A p \in Objects : job[p].phase \notin InMutex
  BY <1>1, NobodyInMutex, NodesAreNotObjects
<1>3. job[o] \in JobsOnce /\ job \in [Objects -> JobsOnce]
  BY DEF IInv, TypeInv, TypeOK
<1>4. /\ job'[o].phase = "deleting" /\ job'[o].time = job[o].time
      /\ \A p \in Objects \ {o} : job'[p] = job[p]
  BY <1>3 DEF LockAndRun, To, JobsOnce
<1>5. /\ row \in Nat /\ schedules \in Nat /\ faults \in Nat
      /\ \A s \in Schedules : s \in Nat \ {0} /\ runs[s] \in Nat
      /\ row # 0 => row \in Schedules
      /\ canceled \subseteq Schedules
      /\ MaxRuns \in Nat /\ MaxRuns >= 2
  BY Counters DEF IInv
<1>6. row # 0 => row = schedules /\ runs[row] <= faults
  BY <1>2 DEF IInv, RowOK, RunsOK, InMutex
<1>7. Excluded'
  BY <1>1, <1>2, <1>4 DEF Excluded, InMutex
<1>8. RowOK' /\ RunsOK' /\ DeletesForCause'
  <2>1. CASE row # 0 /\ runAt[row] = job[o].time
    <3>1. row \in Schedules /\ CountRun(row)
      BY <1>5, <2>1 DEF LockAndRun
    <3>2. /\ runs'[row] = IF runs[row] = MaxRuns THEN runs[row] ELSE runs[row] + 1
          /\ \A t \in Schedules \ {row} : runs'[t] = runs[t]
      BY <3>1, RunsType DEF IInv
    <3>3. runs'[row] > 0 /\ runs'[row] <= 1 + faults
      BY <1>5, <1>6, <2>1, <3>1, <3>2
    <3>4. RowOK'
      BY <1>1, <1>5, <1>6, <2>1, <3>2 DEF IInv, RowOK
    <3>5. RunsOK'
      BY <1>1, <1>4, <3>2, <3>3 DEF IInv, RunsOK
    <3>6. DeletesForCause'
      BY <1>1, <3>3 DEF DeletesForCause, Reason
    <3> QED
      BY <3>4, <3>5, <3>6
  <2>2. CASE ~(row # 0 /\ runAt[row] = job[o].time)
    <3>1. UNCHANGED runs
      BY <2>2 DEF LockAndRun
    <3>2. RowOK' /\ RunsOK'
      BY <1>1, <1>6, <3>1 DEF IInv, RowOK, RunsOK
    <3>3. DeletesForCause'
      BY <1>1, <1>2, <1>4, <2>2 DEF DeletesForCause, Reason, InMutex
    <3> QED
      BY <3>2, <3>3
  <2> QED
    BY <2>1, <2>2
<1> QED
  BY <1>7, <1>8 DEF IInv

LEMMA ReadErrorStep == ASSUME IInv, TypeInv', NEW o \in Objects, ReadError(o) PROVE IInv'
<1> DEFINE fails == job[o].fails + 1
           v == [job[o] EXCEPT !.phase = "deleting", !.fails = fails]
           w == [job[o] EXCEPT !.phase = "waiting", !.late = FALSE, !.fails = fails]
<1>1. /\ owner = Nobody /\ faults' = faults + 1 /\ faults \in Nat
      /\ UNCHANGED <<row, runAt, schedules, runs, canceled>>
  BY Constants DEF ReadError, Acquire, Fault, store, history, IInv, TypeInv, TypeOK
<1>2. \A p \in Objects : job[p].phase \notin InMutex
  BY <1>1, NobodyInMutex, NodesAreNotObjects
<1>3. job[o] \in JobsOnce /\ fails \in Nat
  BY Constants DEF IInv, TypeInv, TypeOK, JobsOnce
<1>4. CASE fails > MaxFails
  <2>1. owner' = o /\ job' = [job EXCEPT ![o] = v]
    BY <1>4 DEF ReadError, Acquire
  <2>2. v.phase = "deleting" /\ v.fails = fails
    BY <1>3 DEF JobsOnce
  <2> HIDE DEF v
  <2>3. job'[o] = v /\ \A p \in Objects \ {o} : job'[p] = job[p]
    BY <2>1, OneObject DEF IInv
  <2>4. Excluded' /\ RowOK'
    BY <1>1, <1>2, <2>1, <2>3 DEF IInv, Excluded, RowOK, InMutex
  <2>5. RunsOK'
    <3>1. \A s \in Schedules : runs[s] \in Nat
      BY Constants DEF IInv, TypeInv, TypeOK, MaxRuns
    <3> QED
      BY <1>1, <2>2, <2>3, <3>1 DEF IInv, RunsOK
  <2>6. DeletesForCause'
    BY <1>2, <1>4, <2>2, <2>3 DEF DeletesForCause, Reason, InMutex
  <2> QED
    BY <2>4, <2>5, <2>6 DEF IInv
<1>5. CASE ~(fails > MaxFails)
  <2>1. job' = [job EXCEPT ![o] = w] /\ owner' = owner
    BY <1>5 DEF ReadError
  <2>2. w.phase = "waiting"
    BY <1>3 DEF JobsOnce
  <2> HIDE DEF w
  <2>3. job'[o] = w /\ \A p \in Objects \ {o} : job'[p] = job[p]
    BY <2>1, OneObject DEF IInv
  <2>4. \A p \in Objects : job'[p].phase \notin InMutex
    BY <1>2, <2>2, <2>3 DEF InMutex
  <2> QED
    BY <1>1, <1>2, <2>1, <2>4, NoNewRow DEF InMutex
<1> QED
  BY <1>4, <1>5

LEMMA DeleteStep ==
  ASSUME TypeInv, Delete
  PROVE  /\ row' \in {0, row} /\ faults' \in {faults, faults + 1}
         /\ row' = 0 \/ faults' = faults + 1
  BY DEF Delete, Fault

LEMMA DeleteRowStep == ASSUME IInv, TypeInv', NEW o \in Objects, DeleteRow(o) PROVE IInv'
<1>1. /\ row' \in {0, row} /\ faults' \in {faults, faults + 1}
      /\ row' = 0 \/ faults' = faults + 1
  BY DeleteStep DEF IInv, DeleteRow
<1>2. UNCHANGED <<runAt, schedules, runs, canceled, owner>>
  BY DEF DeleteRow, history
<1>3. job[o].phase = "deleting" /\ job'[o].phase = "clearing"
  BY DEF IInv, TypeInv, TypeOK, JobsOnce, DeleteRow, To
<1>4. \A p \in Objects \ {o} : job'[p] = job[p]
  BY DEF IInv, TypeInv, TypeOK, DeleteRow, To
<1> QED
  BY <1>1, <1>2, <1>3, <1>4, NoNewRow DEF InMutex

LEMMA ClearAndUnlockStep ==
  ASSUME IInv, TypeInv', NEW o \in Objects, ClearAndUnlock(o)
  PROVE  IInv'
<1> DEFINE w == [job[o] EXCEPT !.done = TRUE, !.phase = "waiting"]
<1>1. /\ UNCHANGED <<runAt, schedules, runs, canceled, row>>
      /\ faults' \in {faults, faults + 1}
  BY DEF ClearAndUnlock, Fault, store, history
<1>2. owner = o /\ job[o].phase = "clearing"
  BY DEF ClearAndUnlock, IInv, Excluded
<1>3. w.phase = "waiting" /\ job' = [job EXCEPT ![o] = w]
  BY DEF ClearAndUnlock, CancelWhileHoldingMutex, IInv, TypeInv, TypeOK, JobsOnce
<1> HIDE DEF w
<1>4. job'[o] = w /\ \A p \in Objects \ {o} : job'[p] = job[p]
  BY <1>3, OneObject DEF IInv
<1>5. \A p \in Objects \ {o} : job[p].phase \notin InMutex
  BY <1>2 DEF IInv, Excluded, InMutex
<1> QED
  BY <1>1, <1>2, <1>3, <1>4, <1>5, NoNewRow DEF InMutex

\* What a node starts, and an object it makes, is not in the mutex.
LEMMA StartedElsewhere ==
  ASSUME TypeInv, NEW n \in Nodes, NEW o \in Objects, NEW w \in JobsOnce,
         RunAndTrack(n, o, w)
  PROVE  /\ job'[o].phase = "waiting"
         /\ \A p \in Objects \ {o} : job'[p] = job[p]
<1> DEFINE v == [w EXCEPT !.phase = "waiting", !.late = w.time <= clock]
<1>1. v.phase = "waiting" /\ job' = [job EXCEPT ![o] = v]
  BY StartFields DEF RunAndTrack
<1> HIDE DEF v
<1> QED
  BY <1>1, OneObject

LEMMA SchedulerStep ==
  ASSUME IInv, TypeInv', NEW n \in Nodes,
         \/ Poll(n) \/ TrackPolled(n) \/ Track(n) \/ CancelKey(n) \/ CancelJob(n)
         \/ \E time \in Times : ScheduleOnce(n, time)
  PROVE  IInv'
<1>1. UNCHANGED <<owner, store, faults, history>>
  BY DEF Poll, TrackPolled, Track, CancelKey, CancelJob, ScheduleOnce
<1>2. CASE Poll(n) \/ CancelKey(n) \/ CancelJob(n)
  BY <1>1, <1>2, Elsewhere DEF Poll, CancelKey, CancelJob
<1>3. CASE TrackPolled(n)
  <2>1. CASE active[n] = NoObject
    <3>1. PICK o \in Objects : Fresh(o) /\ RunAndTrack(n, o, NewJobOnce(n, polled[n]))
      BY <1>3, <2>1 DEF TrackPolled
    <3>2. NewJobOnce(n, polled[n]) \in JobsOnce
      BY <1>3, NewJobOK DEF TrackPolled, IInv, TypeInv, TypeOK
    <3>3. job[o].phase \notin InMutex
      BY <3>1 DEF Fresh, Free, InMutex
    <3> QED
      BY <1>1, <3>1, <3>2, <3>3, StartedElsewhere, Elsewhere DEF InMutex, IInv
  <2>2. CASE active[n] # NoObject
    BY <1>1, <1>3, <2>2, Elsewhere DEF TrackPolled
  <2> QED
    BY <2>1, <2>2
<1>4. CASE Track(n)
  <2> DEFINE o == caller[n].job
  <2>1. o \in Objects /\ job[o].phase = "idle" /\ job[o] \in JobsOnce
    BY <1>4, JobOnceAssumption DEF Track, IInv, TypeInv, TypeOK, CallerOK
  <2>2. CASE active[n] = NoObject
    <3>1. RunAndTrack(n, o, job[o])
      BY <1>4, <2>2 DEF Track
    <3> HIDE DEF o
    <3> QED
      BY <1>1, <2>1, <3>1, StartedElsewhere, Elsewhere DEF InMutex, IInv
  <2>3. CASE active[n] # NoObject
    BY <1>1, <1>4, <2>3, Elsewhere DEF Track
  <2> QED
    BY <2>2, <2>3
<1>5. ASSUME NEW time \in Times, ScheduleOnce(n, time) PROVE IInv'
  <2>1. PICK o \in Objects :
          /\ Fresh(o)
          /\ job' = [job EXCEPT ![o] = NewJobOnce(n, time)]
    BY <1>5 DEF ScheduleOnce
  <2>2. NewJobOnce(n, time).phase = "idle"
    BY NewJobOK
  <2>3. job[o].phase \notin InMutex
    BY <2>1 DEF Fresh, Free, InMutex
  <2> QED
    BY <1>1, <2>1, <2>2, <2>3, OneObject, Elsewhere DEF InMutex, IInv
<1> QED
  BY <1>2, <1>3, <1>4, <1>5

\* saveMetadata stores a row when there is none: no goroutine has the mutex, and the new
\* schedule has not run.
LEMMA SaveMetadataStep ==
  ASSUME IInv, TypeInv', NEW n \in Nodes, SaveMetadata(n)
  PROVE  IInv'
<1> DEFINE o == caller[n].job
<1>1. /\ o \in Objects /\ job[o].phase = "idle"
  BY JobOnceAssumption DEF SaveMetadata, IInv, TypeInv, TypeOK, CallerOK
<1>2. /\ owner = Nobody \/ faults' = faults + 1
      /\ owner \notin Objects
      /\ faults' \in {faults, faults + 1}
      /\ UNCHANGED <<runs, canceled>>
  BY NodesAreNotObjects DEF SaveMetadata, LockedBriefly, Strand, Fault, history
<1>3. \A p \in Objects : job[p].phase \notin InMutex
  BY <1>2, NobodyInMutex
<1>4. \A p \in Objects : job'[p].phase \notin InMutex
  <2>1. UNCHANGED job \/ job' = [job EXCEPT ![o] = Unused]
    BY DEF SaveMetadata
  <2> HIDE DEF o
  <2>2. \A p \in Objects : job'[p] = job[p] \/ job'[p] = Unused
    BY <1>1, <2>1, OneObject DEF IInv
  <2> QED
    BY <1>3, <2>2, UnusedOK DEF InMutex
<1>5. CASE UNCHANGED <<schedules, row, runAt>>
  BY <1>2, <1>3, <1>4, <1>5, NoNewRow DEF InMutex
<1>6. CASE schedules' = schedules + 1 /\ row' = schedules'
  <2>1. /\ row \in Nat /\ schedules \in Nat /\ faults \in Nat
        /\ \A s \in Schedules : s \in Nat \ {0} /\ runs[s] \in Nat
        /\ canceled \subseteq Schedules
    BY Counters DEF IInv
  <2>2. row' \in Schedules
    BY <1>6, <2>1 DEF TypeInv, TypeOK
  <2>3. Excluded' /\ DeletesForCause'
    BY <1>4 DEF Excluded, DeletesForCause, InMutex
  <2>4. RowOK'
    BY <1>2, <1>6, <2>1 DEF IInv, RowOK
  <2>5. RunsOK'
    <3>1. runs[row'] = 0
      BY <1>6, <2>1, <2>2 DEF IInv, RowOK
    <3> QED
      BY <1>2, <2>1, <3>1 DEF IInv, RunsOK
  <2> QED
    BY <2>3, <2>4, <2>5 DEF IInv
<1> QED
  BY <1>5, <1>6 DEF SaveMetadata

\* Cancel deletes the row while no goroutine has the mutex.
LEMMA CanceledRow ==
  ASSUME TypeInv, NoteCanceled
  PROVE  \A s \in canceled' : s \in canceled \/ (s = row /\ row # 0 /\ row' = 0)
  BY DEF NoteCanceled

LEMMA CancelRowStep == ASSUME IInv, TypeInv', NEW n \in Nodes, CancelRow(n) PROVE IInv'
<1>1. /\ row' \in {0, row} /\ faults' \in {faults, faults + 1}
      /\ row' = 0 \/ faults' = faults + 1
  BY DeleteStep DEF IInv, CancelRow, Fault
<1>2. owner = Nobody
  BY DEF CancelRow, Strand
<1>3. \A p \in Objects : job[p].phase \notin InMutex
  BY <1>2, NobodyInMutex, NodesAreNotObjects
<1>4. UNCHANGED <<runAt, schedules, runs, job>> /\ NoteCanceled
  BY DEF CancelRow
<1> QED
  BY <1>1, <1>3, <1>4, CanceledRow, NoNewRow DEF InMutex, IInv

LEMMA LockAndCancelStep ==
  ASSUME IInv, TypeInv', NEW n \in Nodes, LockAndCancel(n)
  PROVE  IInv'
<1> DEFINE o == caller[n].job
           w == [job[o] EXCEPT !.done = TRUE, !.phase = job[o].phase]
<1>1. /\ row' \in {0, row} /\ faults' \in {faults, faults + 1}
  BY DeleteStep DEF IInv, LockAndCancel
<1>2. owner = Nobody
  BY DEF LockAndCancel, Acquire
<1>3. \A p \in Objects : job[p].phase \notin InMutex
  BY <1>2, NobodyInMutex, NodesAreNotObjects
<1>4. UNCHANGED <<runAt, schedules, runs>> /\ NoteCanceled
  BY DEF LockAndCancel
<1>5. o \in Objects /\ job[o] \in JobsOnce
  BY DEF LockAndCancel, IInv, TypeInv, TypeOK, CallerOK
<1>6. job' = [job EXCEPT ![o] = w] /\ w.phase = job[o].phase
  BY <1>5 DEF LockAndCancel, CancelWhileHoldingMutex, IInv, TypeInv, TypeOK, JobsOnce
<1> HIDE DEF o, w
<1>7. job'[o] = w /\ \A p \in Objects \ {o} : job'[p] = job[p]
  BY <1>5, <1>6, OneObject DEF IInv
<1>8. \A p \in Objects : job'[p].phase \notin InMutex
  BY <1>3, <1>5, <1>6, <1>7
<1> QED
  BY <1>1, <1>3, <1>4, <1>8, CanceledRow, NoNewRow DEF InMutex, IInv

LEMMA JoinAndUnlockStep ==
  ASSUME IInv, TypeInv', NEW n \in Nodes, JoinAndUnlock(n)
  PROVE  IInv'
<1> DEFINE o == caller[n].job
<1>1. o \in Objects
  BY DEF JoinAndUnlock, IInv, TypeInv, TypeOK, CallerOK
<1>2. /\ owner = n /\ faults' \in {faults, faults + 1}
      /\ UNCHANGED <<row, runAt, schedules, runs, canceled>>
      /\ job' = [job EXCEPT ![o] = Unused]
  BY DEF JoinAndUnlock, Release, Abandon, Fault, store, history
<1>3. \A p \in Objects : job[p].phase \notin InMutex
  BY <1>2, NobodyInMutex, NodesAreNotObjects
<1> HIDE DEF o
<1>4. \A p \in Objects : job'[p] = job[p] \/ job'[p] = Unused
  BY <1>1, <1>2, OneObject DEF IInv
<1>5. \A p \in Objects : job'[p].phase \notin InMutex
  BY <1>3, <1>4, UnusedOK DEF InMutex
<1> QED
  BY <1>2, <1>3, <1>5, NoNewRow DEF InMutex

\* A crash leaves the mutex to whoever has it on another node.
LEMMA CrashStep == ASSUME IInv, TypeInv', NEW n \in Nodes, Crash(n) PROVE IInv'
<1> DEFINE mine == {n} \cup {p \in Objects : job[p].node = n}
<1>1. /\ faults' = faults + 1
      /\ UNCHANGED <<row, runAt, schedules, runs, canceled>>
  BY DEF Crash, Fault, store, history
<1>2. \A p \in Objects : job'[p] = IF job[p].node = n THEN Unused ELSE job[p]
  BY DEF Crash
<1>3. \A p \in Objects : job'[p].phase \in InMutex => job'[p] = job[p]
  BY <1>2, UnusedOK DEF InMutex
<1>4. owner' = owner \/ \A p \in Objects : job'[p].phase \notin InMutex
  <2>1. CASE owner \in mine
    <3>1. ASSUME NEW p \in Objects, job'[p].phase \in InMutex PROVE FALSE
      <4>1. job[p].phase \in InMutex /\ job[p].node # n
        BY <1>2, <3>1, UnusedOK DEF InMutex
      <4>2. owner = p
        BY <4>1 DEF IInv, Excluded, InMutex
      <4> QED
        BY <2>1, <4>1, <4>2, NodesAreNotObjects
    <3> QED
      BY <3>1
  <2>2. CASE owner \notin mine
    BY <2>2 DEF Crash
  <2> QED
    BY <2>1, <2>2
<1> QED
  BY <1>1, <1>3, <1>4, NoNewRow DEF InMutex

LEMMA TimeStep == ASSUME IInv, TypeInv', ExpireLock \/ Tick PROVE IInv'
<1>1. CASE Tick
  BY <1>1, Elsewhere DEF Tick
<1>2. CASE ExpireLock
  <2>1. owner \notin Objects /\ UNCHANGED <<store, faults, history, job>>
    BY <1>2, NodesAreNotObjects DEF ExpireLock, Expire
  <2>2. \A p \in Objects : job[p].phase \notin InMutex
    BY <2>1, NobodyInMutex
  <2> QED
    BY <2>1, <2>2, NoNewRow DEF store, history, InMutex
<1> QED
  BY <1>1, <1>2

LEMMA IInvStep == IInv /\ [Next]_vars => IInv'
<1> SUFFICES ASSUME IInv, [Next]_vars PROVE IInv'
  OBVIOUS
<1>1. TypeInv'
  BY TypeInvStep DEF IInv
<1>2. CASE ExpireLock \/ Tick
  BY <1>1, <1>2, TimeStep
<1>3. ASSUME NEW o \in Objects, Run(o) \/ ReadError(o) PROVE IInv'
  BY <1>1, <1>3, FireStep, DoneStep, LockAndRunStep, DeleteRowStep, ClearAndUnlockStep,
     ReadErrorStep DEF Run
<1>4. ASSUME NEW n \in Nodes,
             \/ Poll(n) \/ TrackPolled(n) \/ Track(n) \/ CancelKey(n) \/ CancelJob(n)
             \/ \E time \in Times : ScheduleOnce(n, time)
      PROVE  IInv'
  BY <1>1, <1>4, SchedulerStep
<1>5. ASSUME NEW n \in Nodes, Proceed(n) \/ Crash(n) PROVE IInv'
  BY <1>1, <1>4, <1>5, SaveMetadataStep, CancelRowStep, LockAndCancelStep,
     JoinAndUnlockStep, CrashStep DEF Proceed
<1>6. CASE UNCHANGED vars
  BY <1>1, <1>6, Elsewhere DEF vars, store, history
<1> QED
  BY <1>2, <1>3, <1>4, <1>5, <1>6 DEF Next

LEMMA IInvInit == Init => IInv
<1> SUFFICES ASSUME Init PROVE IInv
  OBVIOUS
<1>1. TypeInv
  BY TypeInvInit
<1>2. \A o \in Objects : job[o].phase = "unused"
  BY UnusedOK DEF Init
<1>3. Excluded /\ DeletesForCause
  BY <1>2 DEF Excluded, DeletesForCause
<1>4. RowOK
  BY DEF Init, RowOK
<1>5. RunsOK
  BY DEF Init, RunsOK
<1> QED
  BY <1>1, <1>3, <1>4, <1>5 DEF IInv

LEMMA Invariance == Spec => []IInv
  BY IInvInit, IInvStep, PTL DEF Spec

-----------------------------------------------------------------------------
(* Theorems *)

\* The store, the objects, activeJobs and the counters keep their types: a schedule always
\* has a call of its own, and a job whose readMetadata failed too often is given up and
\* never reads again.
THEOREM TypeCorrect == Spec => []TypeOK
<1>1. IInv => TypeOK
  BY DEF IInv, TypeInv
<1> QED
  BY <1>1, Invariance, PTL

\* However many nodes wait for its time, a scheduled job runs once, and once more only for
\* each crash or failed delete: executeJob and the delete of the row are under one lock,
\* and readMetadata comes after it.
THEOREM RunsAreBounded == Spec => []RunsBounded
<1>1. IInv => RunsBounded
  BY DEF IInv, RunsOK, RunsBounded
<1> QED
  BY <1>1, Invariance, PTL

\* On every node the object in activeJobs has a goroutine that was not stopped: the poll,
\* which passes over an active key, never passes over a job that nobody will run.
THEOREM TrackedJobsAlwaysRun == Spec => []TrackedJobsRun
<1>1. IInv => TrackedJobsRun
  BY DEF IInv, TypeInv, ActiveOK, TrackedJobsRun
<1> QED
  BY <1>1, Invariance, PTL

\* A schedule whose row Cancel deleted never runs again, on any node: a goroutine runs the
\* callback only for the row that it reads with the mutex, and a row comes back only as a
\* schedule of its own.
THEOREM CanceledStaysCanceled == Spec => CanceledNeverRuns
<1>1. ASSUME IInv, [Next]_vars, NEW s \in canceled PROVE runs'[s] = runs[s]
  <2>1. s \in Schedules /\ s # row
    BY <1>1 DEF IInv, TypeInv, TypeOK, RowOK
  <2>2. ASSUME NEW o \in Objects, LockAndRun(o) PROVE runs'[s] = runs[s]
    <3>1. CASE row # 0 /\ runAt[row] = job[o].time
      <4>1. row \in Schedules /\ CountRun(row) /\ TypeInv
        BY <1>1, <2>2, <3>1, Counters DEF LockAndRun, IInv
      <4> QED
        BY <2>1, <4>1, RunsType
    <3>2. CASE ~(row # 0 /\ runAt[row] = job[o].time)
      BY <2>2, <3>2 DEF LockAndRun
    <3> QED
      BY <3>1, <3>2
  <2>3. ASSUME NEW o \in Objects, Run(o) \/ ReadError(o) PROVE runs'[s] = runs[s]
    BY <2>2, <2>3
       DEF Run, Fire, Done, DeleteRow, ClearAndUnlock, ReadError, history
  <2>4. ASSUME NEW n \in Nodes,
               \/ Poll(n) \/ TrackPolled(n) \/ Proceed(n) \/ CancelKey(n) \/ CancelJob(n)
               \/ Crash(n) \/ \E time \in Times : ScheduleOnce(n, time)
        PROVE  runs' = runs
    BY <2>4 DEF Poll, TrackPolled, Proceed, SaveMetadata, Track, CancelRow, LockAndCancel,
       JoinAndUnlock, CancelKey, CancelJob, Crash, ScheduleOnce, history
  <2>5. CASE ExpireLock \/ Tick \/ UNCHANGED vars
    BY <2>5 DEF ExpireLock, Tick, vars, history
  <2> QED
    BY <1>1, <2>3, <2>4, <2>5 DEF Next
<1>2. IInv /\ [Next]_vars => [\A s \in canceled : runs'[s] = runs[s]]_vars
  BY <1>1
<1> QED
  BY <1>2, Invariance, PTL DEF Spec, CanceledNeverRuns

\* A row goes only when its job ran, when Cancel deletes it, or by a goroutine that was
\* given up or waited for another time of the same key: what a goroutine found when it
\* locked the mutex still holds when it deletes the row.
THEOREM RowsRemovedForCause == Spec => RemovedForCause
<1>1. ASSUME IInv, [Next]_vars, Removed PROVE Served \/ GivenUp \/ Outdated
  <2>1. row # 0 /\ row' = 0
    BY <1>1 DEF Removed
  <2>2. ASSUME NEW o \in Objects, DeleteRow(o) PROVE Served \/ GivenUp \/ Outdated
    <3>1. job[o].phase = "deleting"
      BY <2>2 DEF DeleteRow
    <3>2. Reason(o)
      BY <1>1, <2>1, <3>1 DEF IInv, DeletesForCause
    <3> QED
      BY <3>1, <3>2 DEF Reason, Served, GivenUp, Outdated
  <2>3. ASSUME NEW o \in Objects, Run(o) \/ ReadError(o)
        PROVE  Served \/ GivenUp \/ Outdated
    BY <2>1, <2>2, <2>3
       DEF Run, Fire, Done, LockAndRun, ClearAndUnlock, ReadError, store
  <2>4. ASSUME NEW n \in Nodes, CancelRow(n) \/ LockAndCancel(n) PROVE Served
    BY <2>1, <2>4 DEF CancelRow, LockAndCancel, NoteCanceled, Served
  <2>5. ASSUME NEW n \in Nodes, SaveMetadata(n) PROVE FALSE
    <3>1. row' = row \/ row' = schedules + 1
      BY <2>5 DEF SaveMetadata
    <3>2. schedules \in Nat
      BY <1>1, Counters DEF IInv
    <3> QED
      BY <2>1, <3>1, <3>2
  <2>6. ASSUME NEW n \in Nodes,
               \/ Poll(n) \/ TrackPolled(n) \/ Track(n) \/ JoinAndUnlock(n) \/ CancelKey(n)
               \/ CancelJob(n) \/ Crash(n) \/ \E time \in Times : ScheduleOnce(n, time)
        PROVE  FALSE
    BY <2>1, <2>6 DEF Poll, TrackPolled, Track, JoinAndUnlock, CancelKey, CancelJob, Crash,
       ScheduleOnce, store
  <2>7. CASE ExpireLock \/ Tick \/ UNCHANGED vars
    BY <2>1, <2>7 DEF ExpireLock, Tick, vars, store
  <2> QED
    BY <1>1, <2>3, <2>4, <2>5, <2>6, <2>7 DEF Next, Proceed
<1>2. IInv /\ [Next]_vars => [Removed => Served \/ GivenUp \/ Outdated]_vars
  BY <1>1
<1> QED
  BY <1>2, Invariance, PTL DEF Spec, RemovedForCause

=============================================================================

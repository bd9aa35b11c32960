----------------------------- MODULE ClusterMutex -----------------------------
(***************************************************************************)
(* The mutex that the instances of a plugin share across a cluster: a key  *)
(* in the plugin's key-value store that expires.  Whoever inserts the key  *)
(* holds the mutex and has a goroutine that rewrites the key, so that it   *)
(* does not expire, until the mutex is unlocked.                           *)
(*                                                                         *)
(* Time passes in ticks.  A statement of the store and the reaction to a   *)
(* timer take less than a tick; when they do not, that is a lapse.         *)
(***************************************************************************)
EXTENDS Integers, FiniteSets

CONSTANTS
  Procs,            \* goroutines of plugin instances that lock the mutex
  Nobody,
  Abandoned,
  Broken,
  Ttl,              \* ticks until a key expires
  RefreshInterval,  \* ticks between two refreshes
  MaxFaults,        \* bound: crashes, failed unlocks and lost answers
  MaxLapses         \* bound: failed or late refreshes

ASSUME ClusterMutexAssumption ==
  /\ {Nobody, Abandoned, Broken} \cap Procs = {}
  /\ Nobody # Abandoned
  /\ Broken \notin {Nobody, Abandoned}
  /\ Ttl \in Nat
  /\ RefreshInterval \in Nat \ {0}
  /\ RefreshInterval < Ttl
  /\ MaxFaults \in Nat
  /\ MaxLapses \in Nat

VARIABLES
  key,         \* ticks until the key expires, 0 when there is none
  phase,       \* where each goroutine is in Lock and Unlock
  refreshing,  \* goroutines whose refresh task runs
  due,         \* ticks until the ticker of the refresh task fires
  faults,
  lapses

vars == <<key, phase, refreshing, due, faults, lapses>>

\* out: before Lock or after Unlock.  waiting: in the loop of LockWithContext.
\* unlocking: the refresh task has ended, the key is not deleted yet.
Phases == {"out", "waiting", "held", "unlocking"}

TypeOK ==
  /\ key \in 0 .. Ttl
  /\ phase \in [Procs -> Phases]
  /\ refreshing \subseteq Procs
  /\ due \in [Procs -> 0 .. RefreshInterval]
  /\ faults \in 0 .. MaxFaults
  /\ lapses \in 0 .. MaxLapses

Init ==
  /\ key = 0
  /\ phase = [p \in Procs |-> "out"]
  /\ refreshing = {}
  /\ due = [p \in Procs |-> 0]
  /\ faults = 0
  /\ lapses = 0

Fault == faults < MaxFaults /\ faults' = faults + 1
Lapse == lapses < MaxLapses /\ lapses' = lapses + 1

-----------------------------------------------------------------------------
(* Lock *)

Lock(p) ==
  /\ phase[p] = "out"
  /\ phase' = [phase EXCEPT ![p] = "waiting"]
  /\ UNCHANGED <<key, refreshing, due, faults, lapses>>

\* The context of LockWithContext is canceled.
ContextDone(p) ==
  /\ phase[p] = "waiting"
  /\ phase' = [phase EXCEPT ![p] = "out"]
  /\ UNCHANGED <<key, refreshing, due, faults, lapses>>

\* Mutant: the key is set whether there is one or not.
TryLockNotAtomic(p) ==
  /\ phase[p] = "waiting"
  /\ key' = Ttl
  /\ phase' = [phase EXCEPT ![p] = "held"]
  /\ refreshing' = refreshing \cup {p}
  /\ due' = [due EXCEPT ![p] = RefreshInterval]
  /\ UNCHANGED <<faults, lapses>>

\* tryLock inserts the key if there is none, or an expired one.  Otherwise, and when
\* the statement fails, the loop goes on.
TryLock(p) ==
  /\ phase[p] = "waiting"
  /\ key = 0
  /\ key' = Ttl
  /\ phase' = [phase EXCEPT ![p] = "held"]
  /\ refreshing' = refreshing \cup {p}
  /\ due' = [due EXCEPT ![p] = RefreshInterval]
  /\ UNCHANGED <<faults, lapses>>

\* The key is inserted, but the answer is an error.
TryLockError(p) ==
  /\ Fault
  /\ phase[p] = "waiting"
  /\ key = 0
  /\ key' = Ttl
  /\ UNCHANGED <<phase, refreshing, due, lapses>>

-----------------------------------------------------------------------------
(* The refresh task *)

\* Mutant: the refresh does not renew the expiry.
RefreshKeepsExpiry(p) ==
  /\ p \in refreshing
  /\ due[p] = 0
  /\ due' = [due EXCEPT ![p] = RefreshInterval]
  /\ UNCHANGED <<key, phase, refreshing, faults, lapses>>

\* refreshLock rewrites the key, whoever inserted it.  Without a key the task ends.
Refresh(p) ==
  /\ p \in refreshing
  /\ due[p] = 0
  /\ IF key > 0
       THEN /\ key' = Ttl
            /\ due' = [due EXCEPT ![p] = RefreshInterval]
            /\ UNCHANGED refreshing
       ELSE /\ refreshing' = refreshing \ {p}
            /\ UNCHANGED <<key, due>>
  /\ UNCHANGED <<phase, faults, lapses>>

\* Its statement fails, or seems to: the task ends, the mutex stays locked.
RefreshError(p) ==
  /\ Lapse
  /\ p \in refreshing
  /\ due[p] = 0
  /\ key' \in {key, IF key > 0 THEN Ttl ELSE 0}
  /\ refreshing' = refreshing \ {p}
  /\ UNCHANGED <<phase, due, faults>>

-----------------------------------------------------------------------------
(* Unlock *)

\* Mutant: the task is not stopped.
UnlockKeepsTask(p) ==
  /\ phase[p] = "held"
  /\ phase' = [phase EXCEPT ![p] = "unlocking"]
  /\ UNCHANGED <<key, refreshing, due, faults, lapses>>

\* Stops the refresh task and waits for its end.
Unlock(p) ==
  /\ phase[p] = "held"
  /\ phase' = [phase EXCEPT ![p] = "unlocking"]
  /\ refreshing' = refreshing \ {p}
  /\ UNCHANGED <<key, due, faults, lapses>>

\* Deletes the key, whoever inserted it.
DeleteKey(p) ==
  /\ phase[p] = "unlocking"
  /\ key' = 0
  /\ phase' = [phase EXCEPT ![p] = "out"]
  /\ UNCHANGED <<refreshing, due, faults, lapses>>

\* The error of the statement is dropped.
DeleteKeyError(p) ==
  /\ Fault
  /\ phase[p] = "unlocking"
  /\ phase' = [phase EXCEPT ![p] = "out"]
  /\ UNCHANGED <<key, refreshing, due, lapses>>

\* The node's process ends.
Crash(p) ==
  /\ Fault
  /\ phase[p] # "out"
  /\ phase' = [phase EXCEPT ![p] = "out"]
  /\ refreshing' = refreshing \ {p}
  /\ UNCHANGED <<key, due, lapses>>

-----------------------------------------------------------------------------
(* Time *)

\* No refresh and no unlock is under way.
OnTime ==
  \A p \in Procs : phase[p] # "unlocking" /\ (p \in refreshing => due[p] > 0)

\* Mutant: the key goes on to age after it has expired.
PassingBelowZero ==
  /\ key' = key - 1
  /\ due' = [p \in Procs |-> IF due[p] = 0 THEN 0 ELSE due[p] - 1]
  /\ UNCHANGED <<phase, refreshing, faults>>

Passing ==
  /\ key' = IF key = 0 THEN 0 ELSE key - 1
  /\ due' = [p \in Procs |-> IF due[p] = 0 THEN 0 ELSE due[p] - 1]
  /\ UNCHANGED <<phase, refreshing, faults>>

Tick == OnTime /\ Passing /\ UNCHANGED lapses

\* A process or the store is slower than a tick.
LateTick == Lapse /\ ~OnTime /\ Passing

-----------------------------------------------------------------------------
Next ==
  \/ Tick
  \/ LateTick
  \/ \E p \in Procs : \/ Lock(p)
                      \/ ContextDone(p)
                      \/ TryLock(p)
                      \/ TryLockError(p)
                      \/ Refresh(p)
                      \/ RefreshError(p)
                      \/ Unlock(p)
                      \/ DeleteKey(p)
                      \/ DeleteKeyError(p)
                      \/ Crash(p)

Spec == Init /\ [][Next]_vars

\* Time passes, the loop of LockWithContext goes on, and so do the refresh task and
\* Unlock.  Nobody has to unlock.
Fairness ==
  /\ WF_vars(Tick)
  /\ \A p \in Procs : /\ WF_vars(TryLock(p))
                      /\ WF_vars(Refresh(p))
                      /\ WF_vars(DeleteKey(p))

FairSpec == Spec /\ Fairness

-----------------------------------------------------------------------------
(* Properties *)

Owns(p) == phase[p] \in {"held", "unlocking"}

\* A Mutex is "similar to sync.Mutex, except usable by multiple plugin instances
\* across a cluster" (mutex.go): one at a time, although the key expires and
\* refreshLock and Unlock do not look at who inserted it, until a refresh fails or is
\* late.
Exclusive == \A p, q \in Procs : Owns(p) /\ Owns(q) => p = q

OneOwner == lapses = 0 => Exclusive

\* What failed and late refreshes can do: each lets at most one more goroutine in, for
\* all the unlocks that then delete the key of somebody else, and all the refreshes
\* that renew it.
LapsesBoundOwners == Cardinality({p \in Procs : Owns(p)}) <= 1 + lapses

\* Who owns the mutex as the key and the goroutines have it.
Owner ==
  IF lapses > 0 THEN Broken
  ELSE IF \E p \in Procs : Owns(p) THEN CHOOSE p \in Procs : Owns(p)
  ELSE IF key > 0 THEN Abandoned
  ELSE Nobody

M == INSTANCE Mutex WITH owner <- Owner

\* The mutex goes from owner to owner by Lock and Unlock only; after a crash, a
\* failed unlock or a lost answer the key has to expire first.
ImplementsMutex == M!MutexSpec

\* A lock that a crash, a failed unlock or a lost answer leaves behind does not keep
\* a waiting goroutine out for ever: the key expires.
EventuallyOwned ==
  \A p \in Procs :
    phase[p] = "waiting" ~> phase[p] # "waiting" \/ \E q \in Procs : Owns(q)

=============================================================================

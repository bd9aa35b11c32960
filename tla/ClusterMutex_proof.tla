-------------------------- MODULE ClusterMutex_proof --------------------------
(***************************************************************************)
(* For any number of goroutines, any expiry and any refresh interval that  *)
(* is shorter: until a refresh fails or comes late, the mutex has one      *)
(* owner, and its steps are those of the abstract one.                     *)
(***************************************************************************)
EXTENDS ClusterMutex, FiniteSetTheorems, TLAPS

\* The key outlives the next refresh of whoever owns the mutex, and the refresh task
\* runs as long as the mutex is held.
LeaseInv ==
  /\ TypeOK
  /\ Exclusive
  /\ \A p \in Procs :
       /\ Owns(p) => key > 0
       /\ p \in refreshing <=> phase[p] = "held"
       /\ p \in refreshing => due[p] < key

\* It holds until the first lapse.
IInv ==
  /\ TypeOK
  /\ lapses = 0 => LeaseInv

LEMMA LeaseInvInit == Init => LeaseInv
  BY ClusterMutexAssumption DEF Init, LeaseInv, TypeOK, Phases, Exclusive, Owns

\* One goroutine, p, goes to another phase; what this asks of key and task.
LEMMA PhaseStep ==
  ASSUME LeaseInv, NEW p \in Procs, NEW to \in Phases,
         phase' = [phase EXCEPT ![p] = to],
         refreshing' = IF to = "held" THEN refreshing \cup {p} ELSE refreshing \ {p},
         key' \in 0 .. Ttl, due' \in [Procs -> 0 .. RefreshInterval],
         faults' \in 0 .. MaxFaults, lapses' = lapses,
         \A q \in Procs \ {p} : due'[q] = due[q] /\ (Owns(q) => key' = key),
         to \in {"held", "unlocking"} =>
           /\ \A q \in Procs \ {p} : ~Owns(q)
           /\ key' > 0,
         to = "held" => due'[p] < key'
  PROVE  LeaseInv'
<1>1. /\ phase' \in [Procs -> Phases]
      /\ phase'[p] = to
      /\ \A q \in Procs \ {p} : phase'[q] = phase[q]
  BY DEF LeaseInv, TypeOK
<1>2. TypeOK'
  BY <1>1 DEF LeaseInv, TypeOK
<1>3. Exclusive'
  BY <1>1 DEF LeaseInv, Exclusive, Owns
<1>4. ASSUME NEW q \in Procs
      PROVE  /\ Owns(q)' => key' > 0
             /\ q \in refreshing' <=> phase'[q] = "held"
             /\ q \in refreshing' => due'[q] < key'
  <2>1. CASE q = p
    BY <1>1, <2>1 DEF Owns
  <2>2. CASE q # p
    BY <1>1, <2>2 DEF LeaseInv, Owns
  <2> QED
    BY <2>1, <2>2
<1> QED
  BY <1>2, <1>3, <1>4 DEF LeaseInv

LEMMA LeaseInvStep ==
  ASSUME LeaseInv, [Next]_vars, lapses' = 0
  PROVE  LeaseInv'
<1> USE ClusterMutexAssumption
<1>1. /\ key \in 0 .. Ttl
      /\ phase \in [Procs -> Phases]
      /\ refreshing \subseteq Procs
      /\ due \in [Procs -> 0 .. RefreshInterval]
      /\ faults \in 0 .. MaxFaults
      /\ {"out", "waiting", "held", "unlocking"} = Phases
  BY DEF LeaseInv, TypeOK, Phases
<1>2. ASSUME Fault PROVE faults' \in 0 .. MaxFaults
  BY <1>1, <1>2 DEF Fault
<1>3. ~Lapse
  BY ClusterMutexAssumption DEF Lapse, LeaseInv, TypeOK
<1>4. CASE UNCHANGED vars
  BY <1>4 DEF vars, LeaseInv, TypeOK, Exclusive, Owns
<1>5. CASE Tick
  <2>1. \A p \in Procs : phase[p] # "unlocking" /\ (p \in refreshing => due[p] > 0)
    BY <1>5 DEF Tick, OnTime
  <2>2. /\ key' = IF key = 0 THEN 0 ELSE key - 1
        /\ due' = [p \in Procs |-> IF due[p] = 0 THEN 0 ELSE due[p] - 1]
        /\ UNCHANGED <<phase, refreshing, faults, lapses>>
    BY <1>5 DEF Tick, Passing
  <2>3. TypeOK'
    BY <1>1, <2>2 DEF LeaseInv, TypeOK
  <2>4. Exclusive'
    BY <2>2 DEF LeaseInv, Exclusive, Owns
  <2>5. ASSUME NEW p \in Procs
        PROVE  /\ Owns(p)' => key' > 0
               /\ p \in refreshing' <=> phase'[p] = "held"
               /\ p \in refreshing' => due'[p] < key'
    BY <1>1, <2>1, <2>2 DEF LeaseInv, Owns
  <2> QED
    BY <2>3, <2>4, <2>5 DEF LeaseInv
<1>6. CASE LateTick
  BY <1>3, <1>6 DEF LateTick
<1>7. ASSUME NEW p \in Procs, Lock(p) PROVE LeaseInv'
  <2>1. refreshing \ {p} = refreshing
    BY <1>7 DEF Lock, LeaseInv
  <2> QED
    BY <1>1, <1>7, <2>1, PhaseStep DEF Lock
<1>8. ASSUME NEW p \in Procs, ContextDone(p) PROVE LeaseInv'
  <2>1. refreshing \ {p} = refreshing
    BY <1>8 DEF ContextDone, LeaseInv
  <2> QED
    BY <1>1, <1>8, <2>1, PhaseStep DEF ContextDone
<1>9. ASSUME NEW p \in Procs, TryLock(p) PROVE LeaseInv'
  <2>1. \A q \in Procs : ~Owns(q)
    BY <1>9 DEF TryLock, LeaseInv
  <2>2. /\ due' \in [Procs -> 0 .. RefreshInterval]
        /\ due'[p] = RefreshInterval
        /\ \A q \in Procs \ {p} : due'[q] = due[q]
    BY <1>1, <1>9 DEF TryLock
  <2>3. /\ phase' = [phase EXCEPT ![p] = "held"]
        /\ refreshing' = refreshing \cup {p}
        /\ key' = Ttl /\ key' \in 0 .. Ttl /\ key' > 0
        /\ faults' \in 0 .. MaxFaults
        /\ lapses' = lapses
        /\ due'[p] < key'
    BY <1>1, <1>9, <2>2 DEF TryLock
  <2>4. "held" \in Phases
    BY <1>1
  <2> QED
    BY <2>1, <2>2, <2>3, <2>4, PhaseStep
\* Steps that change the key only, and leave it long enough.
<1>10. ASSUME UNCHANGED <<phase, refreshing, lapses>>,
              faults' \in 0 .. MaxFaults,
              key' \in 0 .. Ttl, key' >= key,
              due' \in [Procs -> 0 .. RefreshInterval],
              \A p \in refreshing : due'[p] < key'
       PROVE  LeaseInv'
  <2>1. TypeOK'
    BY <1>10 DEF LeaseInv, TypeOK
  <2>2. Exclusive'
    BY <1>10 DEF LeaseInv, Exclusive, Owns
  <2>3. ASSUME NEW p \in Procs PROVE Owns(p)' => key' > 0
    BY <1>1, <1>10 DEF LeaseInv, Owns
  <2> QED
    BY <1>10, <2>1, <2>2, <2>3 DEF LeaseInv
<1>11. ASSUME NEW p \in Procs, TryLockError(p) PROVE LeaseInv'
  <2>1. \A q \in Procs : q \notin refreshing
    BY <1>11 DEF TryLockError, LeaseInv, Owns
  <2> QED
    BY <1>1, <1>2, <1>10, <1>11, <2>1 DEF TryLockError
<1>12. ASSUME NEW p \in Procs, Refresh(p) PROVE LeaseInv'
  <2>1. key > 0
    BY <1>1, <1>12 DEF Refresh, LeaseInv
  <2>2. /\ key' = Ttl
        /\ due' = [due EXCEPT ![p] = RefreshInterval]
        /\ UNCHANGED <<phase, refreshing, faults, lapses>>
    BY <1>12, <2>1 DEF Refresh
  <2>3. \A q \in Procs : due'[q] \in 0 .. RefreshInterval
    BY <1>1, <2>2
  <2> QED
    BY <1>1, <1>10, <2>2, <2>3
<1>13. ASSUME NEW p \in Procs, RefreshError(p) PROVE LeaseInv'
  BY <1>3, <1>13 DEF RefreshError
<1>14. ASSUME NEW p \in Procs, Unlock(p) PROVE LeaseInv'
  <2>1. Owns(p)
    BY <1>14 DEF Unlock, Owns
  <2>2. key > 0 /\ \A q \in Procs \ {p} : ~Owns(q)
    BY <2>1 DEF LeaseInv, Exclusive
  <2> QED
    BY <1>1, <1>14, <2>2, PhaseStep DEF Unlock
\* Steps out of Unlock.
<1>15. ASSUME NEW p \in Procs, DeleteKey(p) \/ DeleteKeyError(p) PROVE LeaseInv'
  <2>1. phase[p] = "unlocking" /\ Owns(p)
    BY <1>15 DEF DeleteKey, DeleteKeyError, Owns
  <2>2. refreshing \ {p} = refreshing /\ \A q \in Procs \ {p} : ~Owns(q)
    BY <2>1 DEF LeaseInv, Exclusive
  <2>3. /\ phase' = [phase EXCEPT ![p] = "out"]
        /\ key' \in 0 .. Ttl
        /\ faults' \in 0 .. MaxFaults
        /\ UNCHANGED <<refreshing, due, lapses>>
    BY <1>1, <1>2, <1>15 DEF DeleteKey, DeleteKeyError
  <2> QED
    BY <1>1, <2>2, <2>3, PhaseStep
<1>16. ASSUME NEW p \in Procs, Crash(p) PROVE LeaseInv'
  BY <1>1, <1>2, <1>16, PhaseStep DEF Crash
<1> QED
  BY <1>4, <1>5, <1>6, <1>7, <1>8, <1>9, <1>11, <1>12, <1>13, <1>14, <1>15, <1>16
  DEF Next

LEMMA TypeStep ==
  ASSUME TypeOK, [Next]_vars
  PROVE  TypeOK'
<1> USE ClusterMutexAssumption DEF TypeOK, Phases
<1>1. CASE UNCHANGED vars
  BY <1>1 DEF vars
<1>2. CASE Tick \/ LateTick
  BY <1>2 DEF Tick, LateTick, Lapse, Passing
<1>3. ASSUME NEW p \in Procs, Lock(p) \/ ContextDone(p) \/ Unlock(p) PROVE TypeOK'
  BY <1>3 DEF Lock, ContextDone, Unlock
<1>4. ASSUME NEW p \in Procs, TryLock(p) PROVE TypeOK'
  BY <1>4 DEF TryLock
<1>5. ASSUME NEW p \in Procs, TryLockError(p) PROVE TypeOK'
  BY <1>5 DEF TryLockError, Fault
<1>6. ASSUME NEW p \in Procs, Refresh(p) PROVE TypeOK'
  BY <1>6 DEF Refresh
<1>7. ASSUME NEW p \in Procs, RefreshError(p) PROVE TypeOK'
  BY <1>7 DEF RefreshError, Lapse
<1>8. ASSUME NEW p \in Procs, DeleteKey(p) PROVE TypeOK'
  BY <1>8 DEF DeleteKey
<1>9. ASSUME NEW p \in Procs, DeleteKeyError(p) \/ Crash(p) PROVE TypeOK'
  BY <1>9 DEF DeleteKeyError, Crash, Fault
<1> QED
  BY <1>1, <1>2, <1>3, <1>4, <1>5, <1>6, <1>7, <1>8, <1>9 DEF Next

\* Lapses are counted, never forgotten.
LEMMA LapsesGrow ==
  ASSUME TypeOK, [Next]_vars
  PROVE  lapses' >= lapses
<1>1. lapses' = lapses \/ lapses' = lapses + 1
  BY DEF Next, vars, Lapse, Tick, LateTick, Lock, ContextDone, TryLock, TryLockError,
         Refresh, RefreshError, Unlock, DeleteKey, DeleteKeyError, Crash
<1> QED
  BY <1>1, ClusterMutexAssumption DEF TypeOK

LEMMA Invariance == Spec => []IInv
<1>1. Init => IInv
  BY LeaseInvInit DEF IInv, LeaseInv
<1>2. IInv /\ [Next]_vars => IInv'
  <2> SUFFICES ASSUME IInv, [Next]_vars PROVE IInv'
    OBVIOUS
  <2>1. TypeOK'
    BY TypeStep DEF IInv
  <2>2. ASSUME lapses' = 0 PROVE LeaseInv'
    <3>1. lapses = 0
      BY <2>2, LapsesGrow DEF IInv, TypeOK
    <3> QED
      BY <2>2, <3>1, LeaseInvStep DEF IInv
  <2> QED
    BY <2>1, <2>2 DEF IInv
<1> QED
  BY <1>1, <1>2, PTL DEF Spec

\* Until a refresh fails or comes late, two goroutines never own the mutex at the same
\* time, whatever crashes, times out or fails to unlock.
THEOREM OneOwnerAtATime == Spec => []OneOwner
<1>1. IInv => OneOwner
  BY DEF IInv, LeaseInv, OneOwner
<1> QED
  BY <1>1, Invariance, PTL

-----------------------------------------------------------------------------
(* The abstract mutex *)

\* Who the owner is, before and after a step.
LEMMA OwnerIs ==
  ASSUME LeaseInv, lapses = 0
  PROVE  /\ \A p \in Procs : Owns(p) => Owner = p
         /\ (\A p \in Procs : ~Owns(p)) => Owner = IF key > 0 THEN Abandoned ELSE Nobody
  BY DEF LeaseInv, Exclusive, Owner

LEMMA OwnerBecomes ==
  ASSUME LeaseInv', lapses' = 0
  PROVE  /\ \A p \in Procs : Owns(p)' => Owner' = p
         /\ (\A p \in Procs : ~Owns(p)') =>
              Owner' = IF key' > 0 THEN Abandoned ELSE Nobody
  BY DEF LeaseInv, Exclusive, Owner

LEMMA OwnerInit == Init => M!MutexInit
  BY DEF Init, Owner, Owns, M!MutexInit

\* Before the first lapse every step is a step of the abstract mutex or leaves its owner
\* as it is.
LEMMA OwnerStep ==
  ASSUME LeaseInv, LeaseInv', [Next]_vars, lapses = 0, lapses' = 0
  PROVE  M!MutexNext \/ Owner' = Owner
<1> USE ClusterMutexAssumption
<1>1. key \in 0 .. Ttl /\ phase \in [Procs -> Phases]
  BY DEF LeaseInv, TypeOK
<1>2. ~Lapse
  BY ClusterMutexAssumption DEF Lapse, LeaseInv, TypeOK
\* Steps after which everybody owns what they owned before.
<1>3. ASSUME \A p \in Procs : Owns(p)' <=> Owns(p),
             key' > 0 <=> key > 0
      PROVE  Owner' = Owner
  <2>1. CASE \E p \in Procs : Owns(p)
    BY <1>3, <2>1, OwnerIs, OwnerBecomes
  <2>2. CASE \A p \in Procs : ~Owns(p)
    BY <1>3, <2>2, OwnerIs, OwnerBecomes
  <2> QED
    BY <2>1, <2>2
<1>4. CASE UNCHANGED vars
  BY <1>3, <1>4 DEF vars, Owns
<1>5. CASE Tick
  <2>1. /\ \A p \in Procs : Owns(p)' <=> Owns(p)
        /\ key' = IF key = 0 THEN 0 ELSE key - 1
    BY <1>5 DEF Tick, Passing, Owns
  <2>2. CASE \E p \in Procs : Owns(p)
    BY <2>1, <2>2, OwnerIs, OwnerBecomes
  <2>3. CASE \A p \in Procs : ~Owns(p)
    <3>1. /\ Owner = IF key > 0 THEN Abandoned ELSE Nobody
          /\ Owner' = IF key' > 0 THEN Abandoned ELSE Nobody
      BY <2>1, <2>3, OwnerIs, OwnerBecomes
    <3> QED
      BY <1>1, <2>1, <3>1 DEF M!MutexNext, M!Expire
  <2> QED
    BY <2>2, <2>3
<1>6. ASSUME NEW p \in Procs, Lock(p) \/ ContextDone(p) \/ Unlock(p)
      PROVE  Owner' = Owner
  BY <1>1, <1>3, <1>6 DEF Lock, ContextDone, Unlock, Owns
<1>7. ASSUME NEW p \in Procs, Refresh(p) PROVE Owner' = Owner
  <2>1. key > 0 /\ key' > 0 /\ phase' = phase
    BY <1>1, <1>7 DEF Refresh, LeaseInv
  <2> QED
    BY <1>3, <2>1 DEF Owns
<1>8. ASSUME NEW p \in Procs, TryLock(p) PROVE M!Acquire(p)
  <2>1. \A q \in Procs : ~Owns(q)
    BY <1>8 DEF TryLock, LeaseInv
  <2>2. Owner = Nobody
    BY <1>8, <2>1, OwnerIs DEF TryLock
  <2>3. Owns(p)'
    BY <1>1, <1>8 DEF TryLock, Owns
  <2> QED
    BY <2>2, <2>3, OwnerBecomes DEF M!Acquire
<1>9. ASSUME NEW p \in Procs, TryLockError(p) PROVE M!Strand
  <2>1. /\ \A q \in Procs : ~Owns(q)
        /\ key = 0 /\ key' > 0
        /\ phase' = phase
    BY <1>9 DEF TryLockError, LeaseInv
  <2>2. \A q \in Procs : ~Owns(q)'
    BY <2>1 DEF Owns
  <2> QED
    BY <2>1, <2>2, OwnerIs, OwnerBecomes DEF M!Strand
\* An owner that is out afterwards.
<1>10. ASSUME NEW p \in Procs, Owns(p), phase' = [phase EXCEPT ![p] = "out"]
       PROVE  /\ Owner = p
              /\ Owner' = IF key' > 0 THEN Abandoned ELSE Nobody
  <2>1. \A q \in Procs : ~Owns(q)'
    BY <1>1, <1>10 DEF LeaseInv, Exclusive, Owns
  <2> QED
    BY <1>10, <2>1, OwnerIs, OwnerBecomes
<1>11. ASSUME NEW p \in Procs, DeleteKey(p) PROVE M!Release(p)
  <2>1. Owns(p) /\ phase' = [phase EXCEPT ![p] = "out"] /\ key' = 0
    BY <1>11 DEF DeleteKey, Owns
  <2>2. Owner = p /\ Owner' = IF key' > 0 THEN Abandoned ELSE Nobody
    BY <1>10, <2>1
  <2>3. ~(key' > 0)
    BY <2>1
  <2> QED
    BY <2>2, <2>3 DEF M!Release
<1>12. ASSUME NEW p \in Procs, DeleteKeyError(p) PROVE M!Abandon(p)
  <2>1. Owns(p) /\ phase' = [phase EXCEPT ![p] = "out"] /\ key' > 0
    BY <1>12 DEF DeleteKeyError, LeaseInv, Owns
  <2> QED
    BY <1>10, <2>1 DEF M!Abandon
<1>13. ASSUME NEW p \in Procs, Crash(p) PROVE M!Abandon(p) \/ Owner' = Owner
  <2>1. CASE Owns(p)
    <3>1. phase' = [phase EXCEPT ![p] = "out"] /\ key' > 0
      BY <1>13, <2>1 DEF Crash, LeaseInv
    <3> QED
      BY <1>10, <2>1, <3>1 DEF M!Abandon
  <2>2. CASE ~Owns(p)
    BY <1>1, <1>3, <1>13, <2>2 DEF Crash, Owns
  <2> QED
    BY <2>1, <2>2
<1>14. CASE LateTick
  BY <1>2, <1>14 DEF LateTick
<1>15. ASSUME NEW p \in Procs, RefreshError(p) PROVE FALSE
  BY <1>2, <1>15 DEF RefreshError
<1> QED
  BY <1>4, <1>5, <1>6, <1>7, <1>8, <1>9, <1>11, <1>12, <1>13, <1>14, <1>15
  DEF Next, M!MutexNext

\* A cluster mutex is the abstract mutex, which a refresh that fails or comes late breaks:
\* until then who uses it may rely on one owner at a time and on abandoned locks being
\* freed by expiry only.
THEOREM ImplementsTheMutex == Spec => ImplementsMutex
<1>1. IInv /\ IInv' /\ [Next]_vars => [M!MutexNext]_Owner
  <2> SUFFICES ASSUME IInv, IInv', [Next]_vars PROVE M!MutexNext \/ Owner' = Owner
    OBVIOUS
  <2>1. CASE lapses' = 0
    <3>1. lapses = 0
      BY <2>1, LapsesGrow DEF IInv, TypeOK
    <3> QED
      BY <2>1, <3>1, OwnerStep DEF IInv
  <2>2. CASE lapses' # 0
    <3>1. lapses' > 0
      BY <2>2, ClusterMutexAssumption DEF IInv, TypeOK
    <3>2. Owner' = Broken
      BY <3>1 DEF Owner
    <3> QED
      BY <3>2 DEF M!MutexNext, M!Break
  <2> QED
    BY <2>1, <2>2
<1> QED
  BY <1>1, OwnerInit, Invariance, PTL DEF Spec, ImplementsMutex, M!MutexSpec

-----------------------------------------------------------------------------
(* After lapses *)

Owners == {p \in Procs : Owns(p)}

\* The key will not expire before the next lapse or unlock: an unlock is under way, for
\* which time waits, or a refresh task is in time.
Guarded ==
  /\ key > 0
  /\ \E p \in Procs : phase[p] = "unlocking" \/ (p \in refreshing /\ due[p] < key)

\* A goroutine gets in only when nothing guards the key, and nothing guards it only after a
\* lapse or when an owner has left.
SlackInv ==
  /\ TypeOK
  /\ \A p \in refreshing : phase[p] = "held"
  /\ IsFiniteSet(Owners)
  /\ Cardinality(Owners) <= IF Guarded THEN 1 + lapses ELSE lapses

\* What a step may do to the owners: leave them and the guard, use up a lapse, let one go,
\* or let one in while nothing guards the key and guard it then.
LEMMA SlackStep ==
  ASSUME SlackInv, TypeOK',
         \A p \in refreshing' : phase'[p] = "held",
         \/ Owners' = Owners /\ lapses' = lapses /\ (Guarded => Guarded')
         \/ Owners' = Owners /\ lapses' = lapses + 1
         \/ lapses' = lapses /\ \E p \in Owners : Owners' = Owners \ {p}
         \/ /\ lapses' = lapses /\ ~Guarded /\ Guarded'
            /\ \E p \in Procs : Owners' = Owners \cup {p}
  PROVE  SlackInv'
<1>1. IsFiniteSet(Owners) /\ Cardinality(Owners) \in Nat
  BY FS_CardinalityType DEF SlackInv
<1>2. lapses \in Nat
  BY ClusterMutexAssumption DEF SlackInv, TypeOK
<1>3. IsFiniteSet(Owners') /\ Cardinality(Owners') <= IF Guarded' THEN 1 + lapses' ELSE lapses'
  <2>1. CASE Owners' = Owners /\ (lapses' = lapses + 1 \/ (lapses' = lapses /\ (Guarded => Guarded')))
    BY <1>1, <1>2, <2>1 DEF SlackInv
  <2>2. CASE lapses' = lapses /\ \E p \in Owners : Owners' = Owners \ {p}
    <3>1. IsFiniteSet(Owners') /\ Cardinality(Owners') = Cardinality(Owners) - 1
      BY <1>1, <2>2, FS_RemoveElement
    <3> QED
      BY <1>1, <1>2, <2>2, <3>1 DEF SlackInv
  <2>3. CASE /\ lapses' = lapses /\ ~Guarded /\ Guarded'
             /\ \E p \in Procs : Owners' = Owners \cup {p}
    <3>1. IsFiniteSet(Owners') /\ Cardinality(Owners') \in {Cardinality(Owners), Cardinality(Owners) + 1}
      BY <1>1, <2>3, FS_AddElement
    <3> QED
      BY <1>1, <1>2, <2>3, <3>1 DEF SlackInv
  <2> QED
    BY <2>1, <2>2, <2>3
<1> QED
  BY <1>3 DEF SlackInv

LEMMA SlackInvStep ==
  ASSUME SlackInv, [Next]_vars
  PROVE  SlackInv'
<1> USE ClusterMutexAssumption
<1>1. /\ key \in 0 .. Ttl
      /\ phase \in [Procs -> Phases]
      /\ refreshing \subseteq Procs
      /\ due \in [Procs -> 0 .. RefreshInterval]
      /\ \A p \in refreshing : phase[p] = "held"
      /\ TypeOK'
  BY TypeStep DEF SlackInv, TypeOK
<1>2. CASE UNCHANGED vars
  <2>1. Owners' = Owners /\ (Guarded <=> Guarded') /\ lapses' = lapses
    BY <1>2 DEF vars, Owners, Owns, Guarded
  <2> QED
    BY <1>1, <1>2, <2>1, SlackStep DEF vars
<1>3. CASE Tick
  <2>1. /\ \A p \in Procs : phase[p] # "unlocking" /\ (p \in refreshing => due[p] > 0)
        /\ key' = IF key = 0 THEN 0 ELSE key - 1
        /\ \A p \in Procs : due'[p] = IF due[p] = 0 THEN 0 ELSE due[p] - 1
        /\ UNCHANGED <<phase, refreshing, lapses>>
    BY <1>3 DEF Tick, OnTime, Passing
  <2>2. Owners' = Owners
    BY <2>1 DEF Owners, Owns
  <2>3. Guarded => Guarded'
    BY <1>1, <2>1 DEF Guarded
  <2> QED
    BY <1>1, <2>1, <2>2, <2>3, SlackStep
<1>4. CASE LateTick
  <2>1. UNCHANGED <<phase, refreshing>> /\ lapses' = lapses + 1
    BY <1>4 DEF LateTick, Lapse, Passing
  <2> QED
    BY <1>1, <2>1, SlackStep DEF Owners, Owns
<1>5. ASSUME NEW p \in Procs, Lock(p) \/ ContextDone(p) PROVE SlackInv'
  <2>1. /\ phase[p] \in {"out", "waiting"} /\ phase'[p] \in {"out", "waiting"}
        /\ \A q \in Procs \ {p} : phase'[q] = phase[q]
        /\ UNCHANGED <<key, refreshing, due, lapses>>
    BY <1>1, <1>5 DEF Lock, ContextDone
  <2>2. Owners' = Owners
    BY <2>1 DEF Owners, Owns
  <2>3. Guarded => Guarded'
    BY <2>1 DEF Guarded
  <2>4. \A q \in refreshing' : phase'[q] = "held"
    BY <1>1, <2>1
  <2> QED
    BY <1>1, <2>1, <2>2, <2>3, <2>4, SlackStep
<1>6. ASSUME NEW p \in Procs, TryLock(p) PROVE SlackInv'
  <2>1. /\ key = 0 /\ key' = Ttl
        /\ phase'[p] = "held" /\ \A q \in Procs \ {p} : phase'[q] = phase[q]
        /\ refreshing' = refreshing \cup {p}
        /\ due'[p] = RefreshInterval
        /\ lapses' = lapses
    BY <1>1, <1>6 DEF TryLock, Phases
  <2>2. ~Guarded /\ Guarded'
    BY <2>1 DEF Guarded
  <2>3. Owners' = Owners \cup {p}
    BY <2>1 DEF Owners, Owns
  <2>4. \A q \in refreshing' : phase'[q] = "held"
    BY <1>1, <2>1
  <2> QED
    BY <1>1, <2>1, <2>2, <2>3, <2>4, SlackStep
<1>7. ASSUME NEW p \in Procs, TryLockError(p) PROVE SlackInv'
  <2>1. key = 0 /\ UNCHANGED <<phase, refreshing, due, lapses>>
    BY <1>7 DEF TryLockError
  <2>2. Owners' = Owners /\ ~Guarded
    BY <2>1 DEF Owners, Owns, Guarded
  <2> QED
    BY <1>1, <2>1, <2>2, SlackStep
<1>8. ASSUME NEW p \in Procs, Refresh(p) PROVE SlackInv'
  <2>1. UNCHANGED <<phase, lapses>> /\ refreshing' \subseteq refreshing /\ Owners' = Owners
    BY <1>8 DEF Refresh, Owners, Owns
  <2>2. Guarded => Guarded'
    <3>1. ASSUME Guarded
          PROVE  key' > 0 /\ p \in refreshing' /\ due'[p] < key'
      BY <1>1, <1>8, <3>1 DEF Guarded, Refresh
    <3> QED
      BY <3>1 DEF Guarded
  <2> QED
    BY <1>1, <2>1, <2>2, SlackStep
<1>9. ASSUME NEW p \in Procs, RefreshError(p) PROVE SlackInv'
  <2>1. UNCHANGED phase /\ lapses' = lapses + 1 /\ refreshing' \subseteq refreshing
    BY <1>9 DEF RefreshError, Lapse
  <2> QED
    BY <1>1, <2>1, SlackStep DEF Owners, Owns
<1>10. ASSUME NEW p \in Procs, Unlock(p) PROVE SlackInv'
  <2>1. /\ phase[p] = "held" /\ phase'[p] = "unlocking"
        /\ \A q \in Procs \ {p} : phase'[q] = phase[q]
        /\ refreshing' = refreshing \ {p}
        /\ UNCHANGED <<key, due, lapses>>
    BY <1>1, <1>10 DEF Unlock, Phases
  <2>2. Owners' = Owners
    BY <2>1 DEF Owners, Owns
  <2>3. Guarded => Guarded'
    BY <2>1 DEF Guarded
  <2>4. \A q \in refreshing' : phase'[q] = "held"
    BY <1>1, <2>1
  <2> QED
    BY <1>1, <2>1, <2>2, <2>3, <2>4, SlackStep
\* A goroutine leaves Unlock, or its node ends.
<1>11. ASSUME NEW p \in Procs, DeleteKey(p) \/ DeleteKeyError(p) \/ Crash(p) PROVE SlackInv'
  <2>1. /\ phase'[p] = "out" /\ \A q \in Procs \ {p} : phase'[q] = phase[q]
        /\ refreshing' \in {refreshing, refreshing \ {p}}
        /\ lapses' = lapses
    BY <1>1, <1>11 DEF DeleteKey, DeleteKeyError, Crash, Phases
  <2>2. \A q \in refreshing' : phase'[q] = "held"
    <3>1. p \notin refreshing'
      BY <1>1, <1>11 DEF DeleteKey, DeleteKeyError, Crash
    <3> QED
      BY <1>1, <2>1, <3>1
  <2>3. CASE p \in Owners
    <3>1. Owners' = Owners \ {p}
      BY <2>1 DEF Owners, Owns
    <3> QED
      BY <1>1, <2>1, <2>2, <2>3, <3>1, SlackStep
  <2>4. CASE p \notin Owners
    <3>1. Owners' = Owners
      BY <2>1, <2>4 DEF Owners, Owns
    <3>2. Crash(p) /\ phase[p] # "unlocking" /\ p \notin refreshing
      BY <1>1, <1>11, <2>4 DEF DeleteKey, DeleteKeyError, Owners, Owns
    <3>3. Guarded => Guarded'
      BY <2>1, <3>2 DEF Guarded, Crash
    <3> QED
      BY <1>1, <2>1, <2>2, <3>1, <3>3, SlackStep
  <2> QED
    BY <2>3, <2>4
<1> QED
  BY <1>2, <1>3, <1>4, <1>5, <1>6, <1>7, <1>8, <1>9, <1>10, <1>11 DEF Next

LEMMA SlackInvariance == Spec => []SlackInv
<1>1. ASSUME Init PROVE SlackInv
  <2>1. Owners = {} /\ ~Guarded /\ lapses = 0 /\ TypeOK /\ refreshing = {}
    BY <1>1, ClusterMutexAssumption DEF Init, Owners, Owns, Guarded, TypeOK, Phases
  <2>2. IsFiniteSet(Owners) /\ Cardinality(Owners) = 0
    BY <2>1, FS_EmptySet
  <2> QED
    BY <2>1, <2>2 DEF SlackInv
<1> QED
  BY <1>1, SlackInvStep, PTL DEF Spec

\* The expiry of the key, the phases of the goroutines and the counters keep their types:
\* the key never lives longer than ttl nor ages below zero, whatever refreshes and ticks
\* come late.
THEOREM TypeCorrect == Spec => []TypeOK
<1>1. SlackInv => TypeOK
  BY DEF SlackInv
<1> QED
  BY <1>1, SlackInvariance, PTL

\* Refreshes that fail or come late break the mutex, but each of them lets in one goroutine
\* more and not any number: an owner that deletes or renews the key of another (Unlock and
\* refreshLock do not look at whose it is) makes up for it by leaving, or by guarding it.
THEOREM LapsesBoundTheOwners == Spec => []LapsesBoundOwners
<1>1. ASSUME SlackInv PROVE LapsesBoundOwners
  <2>1. Cardinality(Owners) \in Nat /\ lapses \in Nat
    BY <1>1, FS_CardinalityType, ClusterMutexAssumption DEF SlackInv, TypeOK
  <2> QED
    BY <1>1, <2>1 DEF SlackInv, LapsesBoundOwners, Owners
<1> QED
  BY <1>1, SlackInvariance, PTL

=============================================================================

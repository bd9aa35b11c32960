-------------------------------- MODULE Mutex --------------------------------
(***************************************************************************)
(* What a cluster mutex promises to plugins: one owner at a time, and a    *)
(* lock whose owner is gone is free again later.  A lease that is not      *)
(* renewed in time breaks the mutex, which then promises nothing.          *)
(***************************************************************************)
CONSTANTS
  Procs,      \* goroutines that lock the mutex
  Nobody,     \* the mutex is free
  Abandoned,  \* the mutex is locked and nobody will unlock it
  Broken      \* a lease was not renewed in time

ASSUME MutexAssumption ==
  /\ {Nobody, Abandoned, Broken} \cap Procs = {}
  /\ Nobody # Abandoned
  /\ Broken \notin {Nobody, Abandoned}

VARIABLE owner

Acquire(p) ==
  /\ owner = Nobody
  /\ owner' = p

Release(p) ==
  /\ owner = p
  /\ owner' = Nobody

\* The owner's process ends, or its unlock fails.
Abandon(p) ==
  /\ owner = p
  /\ owner' = Abandoned

\* The lock is taken, but whoever took it does not learn of it.
Strand ==
  /\ owner = Nobody
  /\ owner' = Abandoned

Expire ==
  /\ owner = Abandoned
  /\ owner' = Nobody

Break == owner' = Broken

MutexInit == owner = Nobody

MutexNext ==
  \/ Strand
  \/ Expire
  \/ Break
  \/ \E p \in Procs : Acquire(p) \/ Release(p) \/ Abandon(p)

MutexSpec == MutexInit /\ [][MutexNext]_owner

=============================================================================

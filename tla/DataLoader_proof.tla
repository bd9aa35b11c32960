--------------------------- MODULE DataLoader_proof ---------------------------
(***************************************************************************)
(* What the data loaders guarantee for any identifiers, callers, number of *)
(* fetches in flight and batch size: no lost wakeup and no lost identifier. *)
(***************************************************************************)
EXTENDS DataLoader, FiniteSetTheorems, SequenceTheorems, TLAPS

-----------------------------------------------------------------------------
(* The queue *)

\* The elements of a concatenation are those of its two parts.
LEMMA ToSetConcat ==
  ASSUME NEW A, NEW s \in Seq(A), NEW t \in Seq(A)
  PROVE  ToSet(s \o t) = ToSet(s) \cup ToSet(t)
<1>1. /\ s \o t \in Seq(A)
      /\ Len(s \o t) = Len(s) + Len(t)
      /\ \A i \in 1 .. Len(s) + Len(t) :
           (s \o t)[i] = IF i <= Len(s) THEN s[i] ELSE t[i - Len(s)]
  BY SMT
<1>2. /\ DOMAIN s = 1 .. Len(s)
      /\ DOMAIN t = 1 .. Len(t)
      /\ DOMAIN (s \o t) = 1 .. Len(s) + Len(t)
      /\ Len(s) \in Nat /\ Len(t) \in Nat
  BY <1>1, SMT
<1>3. ASSUME NEW i \in DOMAIN s PROVE s[i] \in ToSet(s \o t)
  BY <1>1, <1>2, SMT DEF ToSet
<1>4. ASSUME NEW i \in DOMAIN t PROVE t[i] \in ToSet(s \o t)
  <2>1. /\ i + Len(s) \in DOMAIN (s \o t)
        /\ (s \o t)[i + Len(s)] = t[i]
    BY <1>1, <1>2, SMT
  <2> QED BY <2>1, SMT DEF ToSet
<1>5. ASSUME NEW i \in DOMAIN (s \o t)
      PROVE  (s \o t)[i] \in ToSet(s) \cup ToSet(t)
  <2>1. CASE i <= Len(s)
    BY <1>1, <1>2, <2>1, SMT DEF ToSet
  <2>2. CASE ~(i <= Len(s))
    <3>1. /\ i - Len(s) \in DOMAIN t
          /\ (s \o t)[i] = t[i - Len(s)]
      BY <1>1, <1>2, <2>2, SMT
    <3> QED BY <3>1, SMT DEF ToSet
  <2> QED BY <2>1, <2>2
<1>6. ToSet(s) \cup ToSet(t) \subseteq ToSet(s \o t)
  BY <1>3, <1>4 DEF ToSet
<1>7. ToSet(s \o t) \subseteq ToSet(s) \cup ToSet(t)
  <2> DEFINE W == ToSet(s) \cup ToSet(t)
  <2>1. \A i \in DOMAIN (s \o t) : (s \o t)[i] \in W
    BY <1>5
  <2> HIDE DEF W
  <2>2. ToSet(s \o t) \subseteq W
    BY <2>1 DEF ToSet
  <2> QED BY <2>2 DEF W
<1> QED BY <1>6, <1>7

\* queue keeps what was queued and adds the identifiers that are not falsy.
LEMMA QueuedContents ==
  ASSUME NEW A, IsFiniteSet(A),
         NEW s \in Seq(A \ Falsy), NEW ids \in SUBSET A,
         NEW q \in Queued(s, ids)
  PROVE  /\ q \in Seq(A \ Falsy)
         /\ ToSet(s) \cup (ids \ Falsy) \subseteq ToSet(q)
<1> DEFINE S == ids \ (ToSet(s) \cup Falsy)
<1>1. IsFiniteSet(S) /\ Cardinality(S) \in Nat
  BY FS_Subset, FS_CardinalityType
<1>2. PICK new \in Orders(S) : q = s \o new
  BY DEF Queued
<1>3. new \in [1 .. Cardinality(S) -> S] /\ ToSet(new) = S
  BY <1>2 DEF Orders
<1>4. new \in Seq(A \ Falsy)
  <2> DEFINE n == Cardinality(S)
             T == A \ Falsy
  <2>1. n \in Nat /\ S \subseteq T /\ new \in [1 .. n -> S]
    BY <1>1, <1>3
  <2> HIDE DEF n, S, T
  <2>2. new \in Seq(T)
    <3>1. new \in [1 .. n -> T] BY <2>1
    <3> QED BY <2>1, <3>1, SeqDef
  <2> QED BY <2>2 DEF T
<1>5. q \in Seq(A \ Falsy)
  BY <1>2, <1>4, SMT
<1>6. ToSet(q) = ToSet(s) \cup ToSet(new)
  BY <1>2, <1>4, ToSetConcat
<1> QED BY <1>3, <1>5, <1>6

\* prepareBatch takes a batch off the front: every identifier is in it or stays.
LEMMA BatchOrLater ==
  ASSUME NEW A, NEW s \in Seq(A)
  PROVE  /\ MoreToLoad(s) \in Seq(A)
         /\ ToSet(s) \subseteq Batch(s) \cup ToSet(MoreToLoad(s))
         /\ Batch(s) \subseteq A
<1> DEFINE n == BatchLength(s)
<1>1. /\ Len(s) \in Nat /\ DOMAIN s = 1 .. Len(s)
      /\ n \in 0 .. Len(s)
  BY DataLoaderAssumption, SMT DEF BatchLength
<1>2. /\ SubSeq(s, 1, n) \in Seq(A)
      /\ DOMAIN SubSeq(s, 1, n) = 1 .. n
      /\ \A i \in 1 .. n : SubSeq(s, 1, n)[i] = s[i]
  BY <1>1, SMT
<1>3. /\ MoreToLoad(s) \in Seq(A)
      /\ DOMAIN MoreToLoad(s) = 1 .. Len(s) - n
      /\ \A i \in 1 .. Len(s) - n : MoreToLoad(s)[i] = s[i + n]
  BY <1>1, SMT DEF MoreToLoad
<1> HIDE DEF n
<1>4. ASSUME NEW i \in DOMAIN s
      PROVE  s[i] \in Batch(s) \cup ToSet(MoreToLoad(s))
  <2>1. CASE i <= n
    <3>1. i \in 1 .. n BY <1>1, <2>1, SMT
    <3>2. s[i] \in ToSet(SubSeq(s, 1, n)) BY <1>2, <3>1 DEF ToSet
    <3> QED BY <3>2 DEF Batch, n
  <2>2. CASE ~(i <= n)
    <3>1. i - n \in DOMAIN MoreToLoad(s) /\ MoreToLoad(s)[i - n] = s[i]
      BY <1>1, <1>3, <2>2, SMT
    <3> QED BY <3>1 DEF ToSet
  <2> QED BY <2>1, <2>2
<1>5. Batch(s) \subseteq A
  <2>1. \A i \in 1 .. n : s[i] \in A BY <1>1, SMT
  <2> QED BY <1>2, <2>1 DEF Batch, ToSet, n
<1>6. ToSet(s) \subseteq Batch(s) \cup ToSet(MoreToLoad(s))
  BY <1>4 DEF ToSet
<1> QED BY <1>3, <1>5, <1>6

-----------------------------------------------------------------------------
(* The invariants *)

\* What a promise misses is queued, in flight or was passed over by queue.
Accounted ==
  \A c \in callbacks :
    missing[c] \subseteq ToSet(pending) \cup InFlight \cup Falsy

\* Taking a batch keeps every identifier in the queue or in flight.
LEMMA TimeoutKeeps ==
  ASSUME TypeOK, TimeoutFires
  PROVE  /\ pending' \in Seq(Ids \ Falsy)
         /\ DOMAIN fetches' \subseteq Fetches
         /\ \A f \in DOMAIN fetches' : fetches'[f] \in SUBSET Ids
         /\ DOMAIN fetches' # {}
         /\ ToSet(pending) \cup InFlight \subseteq ToSet(pending') \cup InFlight'
<1> DEFINE f == CHOOSE g \in Fetches : g \notin DOMAIN fetches
<1>1. pending \in Seq(Ids \ Falsy) /\ DOMAIN fetches \subseteq Fetches
  BY DEF TypeOK
<1>2. f \in Fetches /\ f \notin DOMAIN fetches
  BY <1>1 DEF TimeoutFires
<1>3. /\ pending' = MoreToLoad(pending)
      /\ fetches' = [g \in DOMAIN fetches \cup {f} |->
                       IF g = f THEN Batch(pending) ELSE fetches[g]]
  BY DEF TimeoutFires
<1> HIDE DEF f
<1>4. /\ MoreToLoad(pending) \in Seq(Ids \ Falsy)
      /\ ToSet(pending) \subseteq Batch(pending) \cup ToSet(MoreToLoad(pending))
      /\ Batch(pending) \subseteq Ids
  BY <1>1, BatchOrLater
<1>5. /\ DOMAIN fetches' = DOMAIN fetches \cup {f}
      /\ fetches'[f] = Batch(pending)
      /\ \A g \in DOMAIN fetches : fetches'[g] = fetches[g]
  BY <1>2, <1>3
<1>6. \A g \in DOMAIN fetches : fetches[g] \in SUBSET Ids
  BY DEF TypeOK
<1>7. InFlight \subseteq InFlight' /\ Batch(pending) \subseteq InFlight'
  BY <1>5 DEF InFlight
<1> QED BY <1>1, <1>2, <1>3, <1>4, <1>5, <1>6, <1>7

\* A step is one of the DelayedDataLoader's actions or leaves its state alone.
LEMMA DelayedOrPoll ==
  ASSUME [Next]_vars
  PROVE  \/ \E ids \in SUBSET Ids : Queue(ids)
         \/ \E c \in Callers, ids \in SUBSET Ids : QueueAndWait(c, ids)
         \/ TimeoutFires
         \/ \E f \in Fetches : ResolveCompletedCallbacks(f)
         \/ UNCHANGED delayedVars
<1>1. CASE Next
  BY <1>1 DEF Next, ReceiveConfig, AddForPoll, FetchBatchNow, StopInterval
<1>2. CASE UNCHANGED vars
  BY <1>2 DEF vars, delayedVars
<1> QED BY <1>1, <1>2

\* The types are preserved by every step.
LEMMA TypeInduction ==
  ASSUME TypeOK, [Next]_vars
  PROVE  TypeOK'
<1> USE DEF TypeOK
<1>0. IsFiniteSet(Ids) /\ Falsy \subseteq Ids /\ PolledIds \subseteq Ids
      /\ IsFiniteSet(PolledIds)
  BY DataLoaderAssumption, FS_Subset
<1>1. ASSUME NEW ids \in SUBSET Ids, Queue(ids) PROVE TypeOK'
  <2>1. pending' \in Seq(Ids \ Falsy)
    BY <1>0, <1>1, QueuedContents DEF Queue
  <2> QED BY <1>1, <2>1 DEF Queue, pollVars
<1>2. ASSUME NEW c \in Callers, NEW ids \in SUBSET Ids, QueueAndWait(c, ids)
      PROVE  TypeOK'
  <2>1. pending' \in Seq(Ids \ Falsy)
    BY <1>0, <1>2, QueuedContents DEF QueueAndWait
  <2> QED BY <1>2, <2>1 DEF QueueAndWait, pollVars
<1>3. CASE TimeoutFires
  <2>1. /\ pending' \in Seq(Ids \ Falsy)
        /\ DOMAIN fetches' \subseteq Fetches
        /\ \A f \in DOMAIN fetches' : fetches'[f] \in SUBSET Ids
    BY <1>3, TimeoutKeeps
  <2>2. timer' \in BOOLEAN
    BY <1>3 DEF TimeoutFires
  <2> QED BY <1>3, <2>1, <2>2 DEF TimeoutFires, pollVars
<1>4. ASSUME NEW f \in Fetches, ResolveCompletedCallbacks(f) PROVE TypeOK'
  <2>1. missing' \in [Callers -> SUBSET Ids] /\ callbacks' \subseteq Callers
    BY <1>4 DEF ResolveCompletedCallbacks
  <2>2. asked' \in [Callers -> SUBSET Ids]
    BY <1>4 DEF ResolveCompletedCallbacks
  <2>3. received' \in [Callers -> SUBSET Ids]
    <3>1. \A c \in Callers : asked'[c] \subseteq Ids BY <2>2
    <3>2. received' = [c \in Callers |->
                         asked'[c] \cap (received[c] \cup fetches[f])]
      BY <1>4 DEF ResolveCompletedCallbacks
    <3> QED BY <3>1, <3>2
  <2>4. /\ DOMAIN fetches' \subseteq Fetches
        /\ \A g \in DOMAIN fetches' : fetches'[g] \in SUBSET Ids
    BY <1>4 DEF ResolveCompletedCallbacks
  <2> QED BY <1>4, <2>1, <2>2, <2>3, <2>4
          DEF ResolveCompletedCallbacks, pollVars
<1>5. CASE ReceiveConfig
  BY <1>5 DEF ReceiveConfig, delayedVars
<1>6. ASSUME NEW ids \in SUBSET PolledIds, AddForPoll(ids) PROVE TypeOK'
  <2>1. PICK queue \in Queued(polled, ids) :
          polled' = IF configured THEN queue ELSE MoreToLoad(queue)
    BY <1>6 DEF AddForPoll
  <2>2. queue \in Seq(PolledIds \ Falsy)
    BY <1>0, QueuedContents
  <2>3. polled' \in Seq(PolledIds \ Falsy)
    BY <2>1, <2>2, BatchOrLater
  <2> QED BY <1>6, <2>3 DEF AddForPoll, delayedVars
<1>7. CASE FetchBatchNow
  <2>1. polled' \in Seq(PolledIds \ Falsy)
    BY <1>7, BatchOrLater DEF FetchBatchNow
  <2> QED BY <1>7, <2>1 DEF FetchBatchNow, delayedVars
<1>8. CASE StopInterval
  BY <1>8 DEF StopInterval, delayedVars
<1>9. CASE UNCHANGED vars
  BY <1>9 DEF vars
<1> QED BY <1>1, <1>2, <1>3, <1>4, <1>5, <1>6, <1>7, <1>8, <1>9 DEF Next

\* The initial state has the types, and so has every state.
\* Type correctness of both loaders: what they queue, wait for and fetch are
\* identifiers, and no falsy one is ever queued (queue).
THEOREM TypeCorrect == Spec => []TypeOK
<1>1. Init => TypeOK
  <2>1. /\ << >> \in Seq(Ids \ Falsy)
        /\ << >> \in Seq(PolledIds \ Falsy)
        /\ DOMAIN << >> = {}
    BY SMT
  <2> QED BY <2>1 DEF Init, TypeOK
<1>2. TypeOK /\ [Next]_vars => TypeOK'
  BY TypeInduction
<1> QED BY <1>1, <1>2, PTL DEF Spec

\* No lost wakeup (startTimeoutIfNeeded): whenever identifiers wait, a timeout will
\* take them, through every overlap of calls, timeouts and answers.
THEOREM TimeoutPendingHolds == Spec => []TimeoutPending
<1>1. Init => TimeoutPending
  BY DEF Init, TimeoutPending
<1>2. TimeoutPending /\ [Next]_vars => TimeoutPending'
  <2> SUFFICES ASSUME TimeoutPending, [Next]_vars PROVE TimeoutPending'
    OBVIOUS
  <2> USE DEF TimeoutPending
  <2>1. ASSUME NEW ids \in SUBSET Ids, Queue(ids) PROVE TimeoutPending'
    BY <2>1 DEF Queue
  <2>2. ASSUME NEW c \in Callers, NEW ids \in SUBSET Ids, QueueAndWait(c, ids)
        PROVE  TimeoutPending'
    BY <2>2 DEF QueueAndWait
  <2>3. CASE TimeoutFires
    BY <2>3 DEF TimeoutFires
  <2>4. ASSUME NEW f \in Fetches, ResolveCompletedCallbacks(f)
        PROVE  TimeoutPending'
    BY <2>4 DEF ResolveCompletedCallbacks
  <2>5. CASE UNCHANGED delayedVars
    BY <2>5 DEF delayedVars
  <2> QED BY <2>1, <2>2, <2>3, <2>4, <2>5, DelayedOrPoll
<1> QED BY <1>1, <1>2, PTL DEF Spec

-----------------------------------------------------------------------------
(* No lost identifier *)

\* What a promise misses stays accounted for through every step.
LEMMA AccountedInduction ==
  ASSUME TypeOK, Accounted, [Next]_vars
  PROVE  Accounted'
<1> USE DEF Accounted
<1>0. IsFiniteSet(Ids) /\ pending \in Seq(Ids \ Falsy)
  BY DataLoaderAssumption DEF TypeOK
<1>1. ASSUME NEW ids \in SUBSET Ids, Queue(ids) PROVE Accounted'
  <2>1. ToSet(pending) \subseteq ToSet(pending')
    BY <1>0, <1>1, QueuedContents DEF Queue
  <2>2. InFlight' = InFlight
    BY <1>1 DEF Queue, InFlight
  <2> QED BY <1>1, <2>1, <2>2 DEF Queue
<1>2. ASSUME NEW c \in Callers, NEW ids \in SUBSET Ids, QueueAndWait(c, ids)
      PROVE  Accounted'
  <2>1. ToSet(pending) \cup (ids \ Falsy) \subseteq ToSet(pending')
    BY <1>0, <1>2, QueuedContents DEF QueueAndWait
  <2>2. InFlight' = InFlight
    BY <1>2 DEF QueueAndWait, InFlight
  <2>3. /\ callbacks' = callbacks \cup {c}
        /\ missing'[c] = ids
        /\ \A d \in callbacks \ {c} : missing'[d] = missing[d]
    BY <1>2 DEF QueueAndWait, TypeOK
  <2> QED BY <2>1, <2>2, <2>3
<1>3. CASE TimeoutFires
  <2>1. ToSet(pending) \cup InFlight \subseteq ToSet(pending') \cup InFlight'
    BY <1>3, TimeoutKeeps
  <2>2. callbacks' = callbacks /\ missing' = missing
    BY <1>3 DEF TimeoutFires
  <2> QED BY <2>1, <2>2
<1>4. ASSUME NEW f \in Fetches, ResolveCompletedCallbacks(f) PROVE Accounted'
  <2>1. InFlight \subseteq fetches[f] \cup InFlight'
    BY <1>4 DEF ResolveCompletedCallbacks, InFlight
  <2>2. /\ pending' = pending
        /\ callbacks' \subseteq callbacks
        /\ \A c \in callbacks : missing'[c] = missing[c] \ fetches[f]
    BY <1>4 DEF ResolveCompletedCallbacks, TypeOK
  <2> QED BY <2>1, <2>2
<1>5. CASE UNCHANGED delayedVars
  BY <1>5 DEF delayedVars, InFlight
<1> QED BY <1>1, <1>2, <1>3, <1>4, <1>5, DelayedOrPoll

\* A promise that misses nothing any more waits for a batch that is coming.
LEMMA WaitsInduction ==
  ASSUME TypeOK, [Next]_vars,
         \A c \in callbacks : missing[c] = {} => timer \/ DOMAIN fetches # {}
  PROVE  \A c \in callbacks' :
           missing'[c] = {} => timer' \/ DOMAIN fetches' # {}
<1>1. ASSUME NEW ids \in SUBSET Ids, Queue(ids) PROVE timer'
  BY <1>1 DEF Queue
<1>2. ASSUME NEW c \in Callers, NEW ids \in SUBSET Ids, QueueAndWait(c, ids)
      PROVE  timer'
  BY <1>2 DEF QueueAndWait
<1>3. CASE TimeoutFires
  BY <1>3, TimeoutKeeps
<1>4. ASSUME NEW f \in Fetches, ResolveCompletedCallbacks(f)
      PROVE  \A c \in callbacks' : missing'[c] # {}
  BY <1>4 DEF ResolveCompletedCallbacks
<1>5. CASE UNCHANGED delayedVars
  BY <1>5 DEF delayedVars
<1> QED BY <1>1, <1>2, <1>3, <1>4, <1>5, DelayedOrPoll

\* No lost identifier: whatever a promise of queueAndWait waits for is queued or in
\* flight (prepareBatch, resolveCompletedCallbacks), except what queue passed over.
THEOREM NothingLostHolds == Spec => []NothingLost
<1> DEFINE Waits == \A c \in callbacks :
                      missing[c] = {} => timer \/ DOMAIN fetches # {}
<1>1. Init => Accounted /\ Waits
  BY DEF Init, Accounted
<1>2. TypeOK /\ (Accounted /\ Waits) /\ [Next]_vars => (Accounted /\ Waits)'
  BY AccountedInduction, WaitsInduction
<1>3. Accounted /\ Waits => NothingLost
  BY DEF Accounted, NothingLost
<1> QED BY <1>1, <1>2, <1>3, TypeCorrect, PTL DEF Spec

-----------------------------------------------------------------------------
(* Resolved when everything was received *)

\* What a promise was given has been received since, or is still missing.
Received ==
  \A c \in callbacks : asked[c] \subseteq received[c] \cup missing[c]

\* A resolved promise lacked only what the fetch that ends has brought.
LEMMA ResolvedStep ==
  ASSUME TypeOK, Received, [Next]_vars
  PROVE  /\ Received'
         /\ \A c \in callbacks \ callbacks' :
              asked[c] \subseteq received[c] \cup
                UNION {fetches[f] : f \in DOMAIN fetches \ DOMAIN fetches'}
<1> USE DEF Received
<1>1. ASSUME NEW ids \in SUBSET Ids, Queue(ids)
      PROVE  Received' /\ callbacks' = callbacks
  BY <1>1 DEF Queue
<1>2. ASSUME NEW c \in Callers, NEW ids \in SUBSET Ids, QueueAndWait(c, ids)
      PROVE  Received' /\ callbacks \subseteq callbacks'
  <2>1. /\ callbacks' = callbacks \cup {c}
        /\ missing'[c] = ids /\ asked'[c] = ids
        /\ \A d \in callbacks \ {c} :
             missing'[d] = missing[d] /\ asked'[d] = asked[d]
        /\ received' = received
    BY <1>2 DEF QueueAndWait, TypeOK
  <2> QED BY <2>1
<1>3. CASE TimeoutFires
  <2>1. Received' /\ callbacks' = callbacks
    BY <1>3 DEF TimeoutFires
  <2> QED BY <2>1
<1>4. ASSUME NEW f \in Fetches, ResolveCompletedCallbacks(f)
      PROVE  /\ Received'
             /\ \A c \in callbacks \ callbacks' :
                  asked[c] \subseteq received[c] \cup
                    UNION {fetches[g] : g \in DOMAIN fetches \ DOMAIN fetches'}
  <2>1. /\ f \in DOMAIN fetches
        /\ DOMAIN fetches' = DOMAIN fetches \ {f}
        /\ callbacks' = {c \in callbacks : missing'[c] # {}}
    BY <1>4 DEF ResolveCompletedCallbacks
  <2>2. \A c \in callbacks : missing'[c] = missing[c] \ fetches[f]
    BY <1>4 DEF ResolveCompletedCallbacks, TypeOK
  <2>3. \A c \in callbacks' :
          /\ asked'[c] = asked[c]
          /\ received'[c] = asked[c] \cap (received[c] \cup fetches[f])
    BY <1>4 DEF ResolveCompletedCallbacks, TypeOK
  <2>4. Received'
    <3> SUFFICES ASSUME NEW c \in callbacks'
                 PROVE  asked'[c] \subseteq received'[c] \cup missing'[c]
      OBVIOUS
    <3>1. c \in callbacks BY <2>1
    <3> QED BY <2>2, <2>3, <3>1
  <2>5. DOMAIN fetches \ DOMAIN fetches' = {f}
    BY <2>1
  <2>6. \A c \in callbacks \ callbacks' : missing[c] \subseteq fetches[f]
    BY <2>1, <2>2
  <2> QED BY <2>4, <2>5, <2>6
<1>5. CASE UNCHANGED delayedVars
  <2>1. Received' /\ callbacks' = callbacks
    BY <1>5 DEF delayedVars
  <2> QED BY <2>1
<1> QED BY <1>1, <1>2, <1>3, <1>4, <1>5, DelayedOrPoll

\* A promise of queueAndWait is resolved only after every identifier it was given
\* has been answered since (resolveCompletedCallbacks), for overlapping fetches.
THEOREM ResolvedMeansReceivedHolds == Spec => ResolvedMeansReceived
<1>1. Init => Received
  BY DEF Init, Received
<1>2. TypeOK /\ Received /\ [Next]_vars => Received'
  BY ResolvedStep
<1>3. TypeOK /\ Received /\ [Next]_vars =>
        [\A c \in callbacks \ callbacks' :
           asked[c] \subseteq received[c] \cup
             UNION {fetches[f] : f \in DOMAIN fetches \ DOMAIN fetches'}]_vars
  BY ResolvedStep
<1> QED
  BY <1>1, <1>2, <1>3, TypeCorrect, PTL DEF Spec, ResolvedMeansReceived
===============================================================================

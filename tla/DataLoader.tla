------------------------------ MODULE DataLoader ------------------------------
(***************************************************************************)
(* The webapp's data loaders, which turn requests for single objects into  *)
(* requests for batches of them.                                           *)
(*                                                                         *)
(* A DelayedDataLoader collects identifiers until a timeout fires, fetches *)
(* at most maxBatchSize of them and starts another timeout for the rest.   *)
(* Fetches overlap; each that ends resolves the promises of queueAndWait   *)
(* that have all their identifiers by then.  A BackgroundDataLoader polls: *)
(* its interval runs until the page that needs it is left.                 *)
(*                                                                         *)
(* JavaScript runs a callback to its end, so every action is one callback  *)
(* or one call.  A Set iterates in insertion order: pendingIdentifiers is  *)
(* a sequence.  The array given to queue is a set taken in any order.      *)
(***************************************************************************)
EXTENDS Naturals, FiniteSets, SequencesExt

CONSTANTS
  Ids,           \* identifiers
  Falsy,         \* the identifiers that queue passes over, '' for one
  PolledIds,     \* the identifiers of the users to poll
  Callers,       \* the callers that wait for their data
  Fetches,       \* bound: fetches in flight at once
  MaxBatchSize

ASSUME DataLoaderAssumption ==
  /\ IsFiniteSet(Ids)
  /\ Falsy \subseteq Ids
  /\ PolledIds \subseteq Ids
  /\ MaxBatchSize \in Nat \ {0}

VARIABLES
  pending,    \* DelayedDataLoader: pendingIdentifiers
  timer,      \* DelayedDataLoader: timeoutId # -1
  callbacks,  \* DelayedDataLoader: timeoutCallbacks, by their callers
  missing,    \* DelayedDataLoader: the identifiers in each callback
  fetches,    \* the calls of fetchBatch that have not settled: their batches
  polled,     \* BackgroundDataLoader: pendingIdentifiers
  interval,   \* BackgroundDataLoader: intervalId # -1
  configured, \* the polling interval has been received with the config
  asked,      \* history: what each waiting caller asked for
  received    \* history: what of it has been received since

delayedVars == <<pending, timer, callbacks, missing, fetches, asked, received>>
pollVars == <<polled, interval, configured>>
vars == <<pending, timer, callbacks, missing, fetches, polled, interval,
          configured, asked, received>>

TypeOK ==
  /\ pending \in Seq(Ids \ Falsy)
  /\ timer \in BOOLEAN
  /\ callbacks \subseteq Callers
  /\ missing \in [Callers -> SUBSET Ids]
  /\ DOMAIN fetches \subseteq Fetches
  /\ \A f \in DOMAIN fetches : fetches[f] \in SUBSET Ids
  /\ polled \in Seq(PolledIds \ Falsy)
  /\ interval \in BOOLEAN
  /\ configured \in BOOLEAN
  /\ asked \in [Callers -> SUBSET Ids]
  /\ received \in [Callers -> SUBSET Ids]

Init ==
  /\ pending = << >>
  /\ timer = FALSE
  /\ callbacks = {}
  /\ missing = [c \in Callers |-> {}]
  /\ fetches = << >>
  /\ polled = << >>
  /\ interval = FALSE
  /\ configured = FALSE
  /\ asked = [c \in Callers |-> {}]
  /\ received = [c \in Callers |-> {}]

-----------------------------------------------------------------------------
(* DataLoader *)

\* The orders in which the elements of S can be iterated over.
Orders(S) == {s \in [1 .. Cardinality(S) -> S] : ToSet(s) = S}

\* Mutant: queue does not look for falsy identifiers.
QueuedFalsy(s, ids) == {s \o new : new \in Orders(ids \ ToSet(s))}

\* Mutant: what comes last is fetched first.
QueuedInFront(s, ids) ==
  {new \o s : new \in Orders(ids \ (ToSet(s) \cup Falsy))}

\* What pendingIdentifiers may be after ids are added to it.
Queued(s, ids) == {s \o new : new \in Orders(ids \ (ToSet(s) \cup Falsy))}

\* prepareBatch: the identifiers that are taken, and those that stay.
BatchLength(s) == IF Len(s) < MaxBatchSize THEN Len(s) ELSE MaxBatchSize
Batch(s) == ToSet(SubSeq(s, 1, BatchLength(s)))

\* Mutant: the rest starts one too far.
MoreToLoadTooFar(s) == SubSeq(s, BatchLength(s) + 2, Len(s))

MoreToLoad(s) == SubSeq(s, BatchLength(s) + 1, Len(s))

-----------------------------------------------------------------------------
(* DelayedDataLoader *)

\* queue, and startTimeoutIfNeeded.
Queue(ids) ==
  /\ pending' \in Queued(pending, ids)
  /\ timer' = TRUE
  /\ UNCHANGED <<callbacks, missing, fetches, asked, received, pollVars>>

\* queueAndWait: the callback takes every identifier, those in flight and those
\* passed over by queue included.
QueueAndWait(c, ids) ==
  /\ c \notin callbacks
  /\ pending' \in Queued(pending, ids)
  /\ callbacks' = callbacks \cup {c}
  /\ missing' = [missing EXCEPT ![c] = ids]
  /\ timer' = TRUE
  /\ asked' = [asked EXCEPT ![c] = ids]
  /\ UNCHANGED <<fetches, received, pollVars>>

\* Mutant: the timeout's callback forgets to start the next one.
TimeoutFiresOnce ==
  /\ timer
  /\ DOMAIN fetches # Fetches
  /\ pending' = MoreToLoad(pending)
  /\ timer' = FALSE
  /\ LET f == CHOOSE g \in Fetches : g \notin DOMAIN fetches
     IN  fetches' = [g \in DOMAIN fetches \cup {f} |->
                       IF g = f THEN Batch(pending) ELSE fetches[g]]
  /\ UNCHANGED <<callbacks, missing, asked, received, pollVars>>

\* The timeout: take a batch, start another timeout if more is left, fetch.
TimeoutFires ==
  /\ timer
  /\ DOMAIN fetches # Fetches
  /\ pending' = MoreToLoad(pending)
  /\ timer' = (MoreToLoad(pending) # << >>)
  /\ LET f == CHOOSE g \in Fetches : g \notin DOMAIN fetches
     IN  fetches' = [g \in DOMAIN fetches \cup {f} |->
                       IF g = f THEN Batch(pending) ELSE fetches[g]]
  /\ UNCHANGED <<callbacks, missing, asked, received, pollVars>>

\* Mutant: a callback is resolved by the first of its identifiers.
ResolveCallbacksEarly(f) ==
  /\ f \in DOMAIN fetches
  /\ missing' = [c \in Callers |-> missing[c] \ fetches[f]]
  /\ callbacks' = {c \in callbacks : missing'[c] = missing[c]}
  /\ fetches' = [g \in DOMAIN fetches \ {f} |-> fetches[g]]
  /\ asked' = [c \in Callers |-> IF c \in callbacks' THEN asked[c] ELSE {}]
  /\ received' = [c \in Callers |->
                    asked'[c] \cap (received[c] \cup fetches[f])]
  /\ UNCHANGED <<pending, timer, pollVars>>

\* fetchBatch settles, and resolveCompletedCallbacks.  The thunks that fetch
\* catch their errors: the promise is resolved whether there is data or not.
ResolveCompletedCallbacks(f) ==
  /\ f \in DOMAIN fetches
  /\ missing' = [c \in Callers |-> missing[c] \ fetches[f]]
  /\ callbacks' = {c \in callbacks : missing'[c] # {}}
  /\ fetches' = [g \in DOMAIN fetches \ {f} |-> fetches[g]]
  /\ asked' = [c \in Callers |-> IF c \in callbacks' THEN asked[c] ELSE {}]
  /\ received' = [c \in Callers |->
                    asked'[c] \cap (received[c] \cup fetches[f])]
  /\ UNCHANGED <<pending, timer, pollVars>>

-----------------------------------------------------------------------------
(* BackgroundDataLoader *)

ReceiveConfig ==
  /\ ~configured
  /\ configured' = TRUE
  /\ UNCHANGED <<polled, interval, delayedVars>>

\* addUserIdsForStatusFetchingPoll and addUserIdsForProfileFetchingPoll: queue, and
\* fetch at once without the config, else startIntervalIfNeeded.
AddForPoll(ids) ==
  /\ \E queue \in Queued(polled, ids) :
       polled' = IF configured THEN queue ELSE MoreToLoad(queue)
  /\ interval' = (interval \/ configured)
  /\ UNCHANGED <<configured, delayedVars>>

\* The interval's callback, fetchBatchNow.  Nobody waits for the answer.
FetchBatchNow ==
  /\ interval
  /\ polled # << >>
  /\ polled' = MoreToLoad(polled)
  /\ UNCHANGED <<interval, configured, delayedVars>>

\* cleanUpStatusAndProfileFetchingPoll.
StopInterval ==
  /\ interval
  /\ interval' = FALSE
  /\ UNCHANGED <<polled, configured, delayedVars>>

-----------------------------------------------------------------------------

Next ==
  \/ \E ids \in SUBSET Ids : Queue(ids)
  \/ \E c \in Callers, ids \in SUBSET Ids : QueueAndWait(c, ids)
  \/ TimeoutFires
  \/ \E f \in Fetches : ResolveCompletedCallbacks(f)
  \/ ReceiveConfig
  \/ \E ids \in SUBSET PolledIds : AddForPoll(ids)
  \/ FetchBatchNow
  \/ StopInterval

Spec == Init /\ [][Next]_vars

\* The browser runs timeouts and intervals, and every request ends.
Fairness ==
  /\ WF_vars(TimeoutFires)
  /\ \A f \in Fetches : WF_vars(ResolveCompletedCallbacks(f))
  /\ WF_vars(FetchBatchNow)

FairSpec == Spec /\ Fairness

-----------------------------------------------------------------------------
(* Properties *)

InFlight == UNION {fetches[f] : f \in DOMAIN fetches}

\* No lost wakeup: identifiers that wait are waited for by a timeout
\* (startTimeoutIfNeeded, and moreToLoad in its callback).
TimeoutPending == pending # << >> => timer

\* No lost identifier: what a promise still waits for is queued or in flight, unless
\* queue passed over it.  A promise waits for something, or for the next batch.
NothingLost ==
  \A c \in callbacks :
    /\ missing[c] \subseteq ToSet(pending) \cup InFlight \cup Falsy
    /\ missing[c] = {} => timer \/ DOMAIN fetches # {}

\* A promise of queueAndWait is resolved only when every identifier it was given
\* has been answered since it was given.
ResolvedMeansReceived ==
  [][\A c \in callbacks \ callbacks' :
       asked[c] \subseteq received[c] \cup
         UNION {fetches[f] : f \in DOMAIN fetches \ DOMAIN fetches'}]_vars

\* Every promise is resolved, however many other identifiers are queued in the
\* meantime: the batches are taken in the order of the calls.
EventuallyResolved ==
  \A c \in Callers :
    (c \in callbacks /\ asked[c] \cap Falsy = {}) ~> (c \notin callbacks)

\* What was added for the poll is fetched, unless the poll is stopped.
EventuallyPolled ==
  \A id \in PolledIds :
    (interval /\ id \in ToSet(polled)) ~> (~interval \/ id \notin ToSet(polled))
=============================================================================

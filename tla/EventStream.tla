----------------------------- MODULE EventStream -----------------------------
(***************************************************************************)
(* What reliable websockets promise a client, without connections, queues  *)
(* or sequence numbers: the events published to the user reach the client  *)
(* one by one in the order they were published, or the client is told to   *)
(* fetch everything again.                                                 *)
(*                                                                         *)
(* skipped is the one concession to the code: the events that reach        *)
(* nobody because the client's connection is out of the hub's index while  *)
(* it reconnects (see ReliableWebSocket).                                  *)
(***************************************************************************)
EXTENDS Integers, Sequences

VARIABLES
  published,   \* how many events the hub broadcast to the user
  base,        \* how many of them the client's last full fetch covered
  delivered,   \* the events the client received since, in order
  skipped      \* the events that no queue was there to take

streamVars == <<published, base, delivered, skipped>>

Accounted == (1 .. base) \cup {delivered[i] : i \in 1 .. Len(delivered)}

StreamTypeOK ==
  /\ published \in Nat
  /\ base \in 0 .. published
  /\ delivered \in Seq(1 .. published)
  /\ skipped \subseteq 1 .. published

StreamInit ==
  /\ published = 0
  /\ base = 0
  /\ delivered = << >>
  /\ skipped = {}

\* The hub broadcasts the next event; a reconnect in progress may miss it.
Publish ==
  /\ published' = published + 1
  /\ skipped' \in {skipped, skipped \cup {published + 1}}
  /\ UNCHANGED <<base, delivered>>

\* The client receives e: later than every event it received before, and no
\* event before e is still to come.
Deliver(e) ==
  /\ \A i \in 1 .. Len(delivered) : delivered[i] < e
  /\ \A f \in 1 .. e - 1 : f \in Accounted \cup skipped
  /\ delivered' = Append(delivered, e)
  /\ UNCHANGED <<published, base, skipped>>

\* The client is told that it may have missed events and fetches the state.
Resync ==
  /\ base' = published
  /\ delivered' = << >>
  /\ skipped' = {}
  /\ UNCHANGED published

StreamNext ==
  \/ Publish
  \/ \E e \in 1 .. published : Deliver(e)
  \/ Resync

StreamSpec == StreamInit /\ [][StreamNext]_streamVars

\* No silent gap: whatever precedes an event the client has is accounted for,
\* except the events skipped during a reconnect.
NoSilentGap ==
  \A e \in Accounted : \A f \in 1 .. e - 1 : f \in Accounted \cup skipped

\* No duplicate, no reordering between two full fetches.
InOrder ==
  \A i, j \in 1 .. Len(delivered) : i < j => delivered[i] < delivered[j]

=============================================================================

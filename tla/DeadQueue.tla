------------------------------ MODULE DeadQueue ------------------------------
(***************************************************************************)
(* The dead queue of a WebConn: a circular buffer with the last            *)
(* deadQueueSize events written to the socket.  A client that reconnects   *)
(* names the sequence number it expects next, and the server decides from  *)
(* this buffer alone whether it can resume the stream.                     *)
(*                                                                         *)
(* A dead queue is a record [buf, ptr]: buf is the slice deadQueue and ptr *)
(* is deadQueuePointer of web_conn.go.  An entry is a message, a record    *)
(* with the sequence number that SetSequence stamped on the event.         *)
(***************************************************************************)
EXTENDS Integers, Sequences

CONSTANTS
  deadQueueSize,  \* slots of the buffer, 128 in the code
  Nil             \* an empty slot

\* drainDeadQueue compares an entry with the one after it, so one slot is not
\* enough; an empty slot is no message.
ASSUME DeadQueueAssumption ==
  /\ deadQueueSize \in Nat \ {0, 1}
  /\ Nil \notin [seq : Nat, ev : Nat]

Slots == 0 .. deadQueueSize - 1

\* An event with its sequence number, as written to the socket.
Message == [seq : Nat, ev : Nat]

DeadQueues == [buf : [Slots -> Message \cup {Nil}], ptr : Slots]

EmptyDeadQueue == [buf |-> [i \in Slots |-> Nil], ptr |-> 0]

\* Mutant: the pointer does not wrap around.
addToDeadQueueUnwrapped(dq, msg) ==
  [buf |-> [dq.buf EXCEPT ![dq.ptr] = msg], ptr |-> dq.ptr + 1]

addToDeadQueue(dq, msg) ==
  [buf |-> [dq.buf EXCEPT ![dq.ptr] = msg],
   ptr |-> (dq.ptr + 1) % deadQueueSize]

\* Empties the slots up to the first empty one and rewinds the pointer.
clearDeadQueue(dq) ==
  [buf |-> [i \in Slots |-> IF \A j \in 0 .. i : dq.buf[j] # Nil
                              THEN Nil ELSE dq.buf[i]],
   ptr |-> 0]

\* The slot behind the pointer: the newest entry, if anything was written.
NewestSlot(dq) == IF dq.ptr = 0 THEN deadQueueSize - 1 ELSE dq.ptr - 1

\* Mutant: pointer 0 always counts as nothing written.
hasMsgLossNoRollover(dq, seq) ==
  dq.ptr # 0 /\ dq.buf[dq.ptr - 1].seq # seq - 1

\* TRUE unless nothing was written or seq comes right after the newest entry.
hasMsgLoss(dq, seq) ==
  /\ dq.ptr = 0 => dq.buf[0] # Nil
  /\ dq.buf[NewestSlot(dq)].seq # seq - 1

\* The slots the scan of _isInDeadQueue can return for seq: it goes up from
\* slot 0, stops at the first empty slot and returns the first match.
MatchingSlots(dq, seq) ==
  {i \in Slots : /\ \A j \in 0 .. i : dq.buf[j] # Nil
                 /\ dq.buf[i].seq = seq
                 /\ \A j \in 0 .. i - 1 : dq.buf[j].seq # seq}

isInDeadQueue(dq, seq) == MatchingSlots(dq, seq) # {}

SlotOf(dq, seq) == CHOOSE i \in Slots : i \in MatchingSlots(dq, seq)

\* How many entries drainDeadQueue writes from slot index on: up to the pointer
\* while the buffer has not rolled over, else until a sequence number drops.
DrainLength(dq, index) ==
  IF dq.buf[dq.ptr] = Nil
    THEN dq.ptr - index
    ELSE LET DropsAfter(k) == dq.buf[(index + k - 1) % deadQueueSize].seq
                                > dq.buf[(index + k) % deadQueueSize].seq
         IN  CHOOSE k \in 1 .. deadQueueSize :
               /\ DropsAfter(k)
               /\ \A j \in 1 .. k - 1 : ~DropsAfter(j)

\* Mutant: writes what follows the slot, not the slot itself.
drainDeadQueueLate(dq, index) ==
  [k \in 1 .. DrainLength(dq, index) - 1 |->
     dq.buf[(index + k) % deadQueueSize]]

\* The messages drainDeadQueue writes, in order.
drainDeadQueue(dq, index) ==
  IF dq.buf[0] = Nil
    THEN << >>
    ELSE [k \in 1 .. DrainLength(dq, index) |->
            dq.buf[(index + k - 1) % deadQueueSize]]

\* The dead queue is exact for a stream whose next number is n: it holds the
\* last deadQueueSize numbers below n, each once, and everything from 0 as long
\* as they fit.  n - dq.ptr is the number slot 0 got in the current round.
SlotExact(dq, first, i) ==
  IF i < dq.ptr
    THEN dq.buf[i] # Nil /\ dq.buf[i].seq = first + i
    ELSE IF first = 0
           THEN dq.buf[i] = Nil
           ELSE dq.buf[i] # Nil /\ dq.buf[i].seq = first + i - deadQueueSize

HoldsUpTo(dq, n) ==
  /\ n - dq.ptr = 0 \/ n - dq.ptr >= deadQueueSize
  /\ \A i \in Slots : SlotExact(dq, n - dq.ptr, i)

=============================================================================

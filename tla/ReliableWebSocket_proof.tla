----------------------- MODULE ReliableWebSocket_proof -----------------------
(***************************************************************************)
(* For every number of WebConns and ids, every size of the queues and any  *)
(* number of events and faults: the invariants of ReliableWebSocket.       *)
(*                                                                         *)
(* First, that the operators of DeadQueue do what writePump relies on: on  *)
(* a buffer that is exact for a stream whose next number is n, the         *)
(* decisions of a reconnect are exact too.                                 *)
(***************************************************************************)
EXTENDS ReliableWebSocket, TLAPS

-----------------------------------------------------------------------------
(* The dead queue *)

\* Indices stay below twice the size, so % subtracts the size at most once.
LEMMA WrapAround ==
  \A x \in 0 .. 2 * deadQueueSize - 1 :
    x % deadQueueSize = IF x < deadQueueSize THEN x ELSE x - deadQueueSize
  BY DeadQueueAssumption, SMT

\* An empty buffer is a dead queue, exact for a stream that starts at 0.
LEMMA EmptyExact ==
  EmptyDeadQueue \in DeadQueues /\ HoldsUpTo(EmptyDeadQueue, 0)
<1>1. EmptyDeadQueue \in DeadQueues
  BY DeadQueueAssumption DEF EmptyDeadQueue, DeadQueues, Slots
<1>2. HoldsUpTo(EmptyDeadQueue, 0)
  BY DeadQueueAssumption DEF EmptyDeadQueue, HoldsUpTo, SlotExact, Slots
<1>3. QED
  BY <1>1, <1>2

\* addToDeadQueue keeps the buffer's type.
LEMMA AddType ==
  ASSUME NEW dq \in DeadQueues, NEW msg \in Message
  PROVE  addToDeadQueue(dq, msg) \in DeadQueues
<1>1. dq.ptr \in Slots
  BY DEF DeadQueues
<1>2. (dq.ptr + 1) % deadQueueSize \in Slots
  BY <1>1, DeadQueueAssumption DEF Slots
<1>3. [dq.buf EXCEPT ![dq.ptr] = msg] \in [Slots -> Message \cup {Nil}]
  BY <1>1 DEF DeadQueues
<1>4. QED
  BY <1>2, <1>3 DEF addToDeadQueue, DeadQueues

\* Adding the event with the next number keeps the buffer exact.
LEMMA AddExact ==
  ASSUME NEW dq \in DeadQueues, NEW n \in Nat, HoldsUpTo(dq, n),
         NEW msg \in Message, msg.seq = n
  PROVE  HoldsUpTo(addToDeadQueue(dq, msg), n + 1)
<1> DEFINE next == addToDeadQueue(dq, msg)
<1>1. dq.ptr \in Slots /\ n - dq.ptr \in Int /\ msg # Nil
  BY DeadQueueAssumption DEF DeadQueues, Slots, Message
<1>2. next.ptr = IF dq.ptr + 1 = deadQueueSize THEN 0 ELSE dq.ptr + 1
  <2>1. dq.ptr + 1 \in 0 .. 2 * deadQueueSize - 1
    BY <1>1, DeadQueueAssumption DEF Slots
  <2>2. next.ptr = (dq.ptr + 1) % deadQueueSize
    BY DEF addToDeadQueue
  <2>3. QED
    BY <1>1, <2>1, <2>2, WrapAround, DeadQueueAssumption DEF Slots
<1>3. \A i \in Slots : next.buf[i] = IF i = dq.ptr THEN msg ELSE dq.buf[i]
  BY <1>1 DEF addToDeadQueue, DeadQueues
<1>4. /\ n - dq.ptr = 0 \/ n - dq.ptr >= deadQueueSize
      /\ \A i \in Slots : SlotExact(dq, n - dq.ptr, i)
  BY DEF HoldsUpTo
<1> PICK m \in Nat : m = n + 1
  OBVIOUS
<1> SUFFICES HoldsUpTo(next, m)
  OBVIOUS
<1> HIDE DEF next
<1>5. CASE dq.ptr + 1 = deadQueueSize
  <2>1. next.ptr = 0 /\ m - next.ptr = n - dq.ptr + deadQueueSize
    BY <1>1, <1>2, <1>5, DeadQueueAssumption DEF Slots
  <2>2. ASSUME NEW i \in Slots
        PROVE  SlotExact(next, m - next.ptr, i)
    <3>1. i <= dq.ptr
      BY <1>1, <1>5, DeadQueueAssumption DEF Slots
    <3>2. /\ next.buf[i] # Nil
          /\ next.buf[i].seq = n - dq.ptr + i
      <4>1. CASE i = dq.ptr
        BY <1>1, <1>3, <4>1 DEF Slots
      <4>2. CASE i # dq.ptr
        BY <1>1, <1>3, <1>4, <3>1, <4>2, DeadQueueAssumption
          DEF Slots, SlotExact
      <4>3. QED
        BY <4>1, <4>2
    <3>3. n - dq.ptr + deadQueueSize # 0
      BY <1>1, <1>4, DeadQueueAssumption
    <3>4. QED
      BY <1>1, <2>1, <3>2, <3>3, DeadQueueAssumption DEF Slots, SlotExact
  <2>3. m - next.ptr >= deadQueueSize
    BY <1>1, <1>4, <2>1, DeadQueueAssumption
  <2>4. QED
    BY <2>2, <2>3 DEF HoldsUpTo
<1>6. CASE dq.ptr + 1 # deadQueueSize
  <2>1. next.ptr = dq.ptr + 1 /\ m - next.ptr = n - dq.ptr
    BY <1>1, <1>2, <1>6, DeadQueueAssumption DEF Slots
  <2>2. ASSUME NEW i \in Slots
        PROVE  SlotExact(next, m - next.ptr, i)
    <3>1. CASE i = dq.ptr
      BY <1>1, <1>3, <2>1, <3>1, DeadQueueAssumption DEF Slots, SlotExact
    <3>2. CASE i # dq.ptr
      <4>1. next.buf[i] = dq.buf[i]
        BY <1>3, <3>2
      <4>2. i < next.ptr <=> i < dq.ptr
        BY <1>1, <2>1, <3>2 DEF Slots
      <4>3. SlotExact(dq, n - dq.ptr, i)
        BY <1>4
      <4>4. QED
        BY <2>1, <4>1, <4>2, <4>3 DEF SlotExact
    <3>3. QED
      BY <3>1, <3>2
  <2>3. m - next.ptr = 0 \/ m - next.ptr >= deadQueueSize
    BY <1>4, <2>1
  <2>4. QED
    BY <2>2, <2>3 DEF HoldsUpTo
<1>7. QED
  BY <1>5, <1>6

\* clearDeadQueue leaves nothing behind in an exact buffer.
LEMMA ClearEmpties ==
  ASSUME NEW dq \in DeadQueues, NEW n \in Nat, HoldsUpTo(dq, n)
  PROVE  clearDeadQueue(dq) = EmptyDeadQueue
<1>1. ASSUME NEW i \in Slots, dq.buf[i] # Nil, NEW j \in 0 .. i
      PROVE  dq.buf[j] # Nil
  BY <1>1, DeadQueueAssumption DEF HoldsUpTo, SlotExact, Slots, DeadQueues
<1>2. QED
  BY <1>1 DEF clearDeadQueue, EmptyDeadQueue

\* hasMsgLoss: once something is written, exactly the next number continues the
\* stream without loss.
LEMMA HasMsgLossExact ==
  ASSUME NEW dq \in DeadQueues, NEW n \in Nat \ {0}, HoldsUpTo(dq, n),
         NEW seq \in Nat
  PROVE  hasMsgLoss(dq, seq) <=> seq # n
<1>1. dq.ptr \in Slots
  BY DEF DeadQueues
<1>2. NewestSlot(dq) \in Slots
  BY <1>1, DeadQueueAssumption DEF NewestSlot, Slots
<1>3. dq.ptr = 0 => dq.buf[0] # Nil
  BY <1>1, DeadQueueAssumption DEF HoldsUpTo, SlotExact, Slots
<1>4. dq.buf[NewestSlot(dq)].seq = n - 1
  BY <1>1, <1>2, DeadQueueAssumption DEF HoldsUpTo, SlotExact, Slots, NewestSlot
<1>5. QED
  BY <1>3, <1>4 DEF hasMsgLoss

\* The slot that holds number seq, when it is one of the last deadQueueSize.
HomeSlot(dq, n, seq) ==
  IF seq >= n - dq.ptr THEN seq - (n - dq.ptr)
                       ELSE seq - (n - dq.ptr) + deadQueueSize

\* _isInDeadQueue: exactly the last deadQueueSize numbers are found, or all of
\* them while they fit, each in its slot.
LEMMA IsInDeadQueueExact ==
  ASSUME NEW dq \in DeadQueues, NEW n \in Nat, HoldsUpTo(dq, n),
         NEW seq \in Nat
  PROVE  /\ isInDeadQueue(dq, seq) <=> n - deadQueueSize <= seq /\ seq < n
         /\ isInDeadQueue(dq, seq) => SlotOf(dq, seq) = HomeSlot(dq, n, seq)
<1>1. dq.ptr \in Slots /\ n - dq.ptr \in Int
  BY DeadQueueAssumption DEF DeadQueues, Slots
<1>2. /\ n - dq.ptr = 0 \/ n - dq.ptr >= deadQueueSize
      /\ \A i \in Slots : SlotExact(dq, n - dq.ptr, i)
  BY DEF HoldsUpTo
<1>3. ASSUME NEW i \in Slots, dq.buf[i] # Nil, dq.buf[i].seq = seq
      PROVE  /\ i = HomeSlot(dq, n, seq)
             /\ n - deadQueueSize <= seq /\ seq < n
  BY <1>1, <1>2, <1>3, DeadQueueAssumption DEF SlotExact, HomeSlot, Slots
<1>4. ASSUME NEW i \in MatchingSlots(dq, seq)
      PROVE  /\ i \in Slots /\ i = HomeSlot(dq, n, seq)
             /\ n - deadQueueSize <= seq /\ seq < n
  BY <1>3 DEF MatchingSlots, Slots
<1>5. ASSUME n - deadQueueSize <= seq, seq < n
      PROVE  HomeSlot(dq, n, seq) \in MatchingSlots(dq, seq)
  <2> DEFINE h == HomeSlot(dq, n, seq)
  <2>1. h \in Slots
    BY <1>1, <1>2, <1>5, DeadQueueAssumption DEF HomeSlot, Slots
  <2>2. dq.buf[h] # Nil /\ dq.buf[h].seq = seq
    BY <1>1, <1>2, <1>5, <2>1, DeadQueueAssumption
      DEF HomeSlot, Slots, SlotExact
  <2>3. \A j \in 0 .. h : j \in Slots /\ dq.buf[j] # Nil
    BY <1>1, <1>2, <2>1, <2>2, DeadQueueAssumption DEF Slots, SlotExact
  <2>4. ASSUME NEW j \in 0 .. h - 1
        PROVE  dq.buf[j].seq # seq
    <3>1. j \in 0 .. h /\ j # h
      BY <2>1 DEF Slots
    <3>2. j \in Slots /\ dq.buf[j] # Nil
      BY <2>3, <3>1
    <3>3. QED
      BY <1>3, <3>1, <3>2
  <2>5. QED
    BY <2>1, <2>2, <2>3, <2>4 DEF MatchingSlots
<1>6. isInDeadQueue(dq, seq) <=> n - deadQueueSize <= seq /\ seq < n
  BY <1>4, <1>5 DEF isInDeadQueue
<1>7. ASSUME isInDeadQueue(dq, seq)
      PROVE  SlotOf(dq, seq) = HomeSlot(dq, n, seq)
  <2>1. PICK i \in Slots : i \in MatchingSlots(dq, seq)
    BY <1>4, <1>7 DEF isInDeadQueue
  <2>2. SlotOf(dq, seq) \in MatchingSlots(dq, seq)
    BY <2>1 DEF SlotOf
  <2>3. QED
    BY <1>4, <2>2
<1>8. QED
  BY <1>6, <1>7

\* Going round the buffer from the slot of seq, the numbers count up from seq
\* until the slot behind the newest entry is reached.
LEMMA SlotsInSequence ==
  ASSUME NEW dq \in DeadQueues, NEW n \in Nat, HoldsUpTo(dq, n),
         NEW seq \in Nat, isInDeadQueue(dq, seq), NEW k \in 0 .. n - seq
  PROVE  LET slot == (SlotOf(dq, seq) + k) % deadQueueSize
         IN  /\ slot \in Slots
             /\ k < n - seq => dq.buf[slot] # Nil /\ dq.buf[slot].seq = seq + k
             /\ k = n - seq => slot = dq.ptr
<1> DEFINE index == SlotOf(dq, seq)
           slot == (index + k) % deadQueueSize
<1>1. dq.ptr \in Slots /\ n - dq.ptr \in Int
  BY DeadQueueAssumption DEF DeadQueues, Slots
<1>2. /\ n - dq.ptr = 0 \/ n - dq.ptr >= deadQueueSize
      /\ \A i \in Slots : SlotExact(dq, n - dq.ptr, i)
  BY DEF HoldsUpTo
<1>3. n - deadQueueSize <= seq /\ seq < n /\ index = HomeSlot(dq, n, seq)
  BY IsInDeadQueueExact
<1>4. index \in Slots
  BY <1>1, <1>2, <1>3, DeadQueueAssumption DEF HomeSlot, Slots
<1> HIDE DEF index
<1>5. slot = IF index + k < deadQueueSize THEN index + k
                                          ELSE index + k - deadQueueSize
  BY <1>3, <1>4, WrapAround, DeadQueueAssumption DEF Slots
<1> HIDE DEF slot
<1>6. slot \in Slots
  BY <1>3, <1>4, <1>5, DeadQueueAssumption DEF Slots
<1>7. ASSUME k < n - seq
      PROVE  dq.buf[slot] # Nil /\ dq.buf[slot].seq = seq + k
  <2>1. SlotExact(dq, n - dq.ptr, slot)
    BY <1>2, <1>6
  <2>2. \/ slot < dq.ptr /\ seq + k = n - dq.ptr + slot
        \/ /\ slot >= dq.ptr /\ n - dq.ptr # 0
           /\ seq + k = n - dq.ptr + slot - deadQueueSize
    BY <1>1, <1>2, <1>3, <1>4, <1>5, <1>7, DeadQueueAssumption
      DEF HomeSlot, Slots
  <2>3. QED
    BY <1>1, <1>6, <2>1, <2>2 DEF SlotExact, Slots
<1>8. k = n - seq => slot = dq.ptr
  BY <1>1, <1>2, <1>3, <1>4, <1>5, DeadQueueAssumption DEF HomeSlot, Slots
<1>9. QED
  BY <1>6, <1>7, <1>8 DEF slot, index

\* drainDeadQueue writes every number from seq to the newest, in order, and
\* nothing else.
LEMMA DrainExact ==
  ASSUME NEW dq \in DeadQueues, NEW n \in Nat, HoldsUpTo(dq, n),
         NEW seq \in Nat, isInDeadQueue(dq, seq),
         NEW msgs, msgs = drainDeadQueue(dq, SlotOf(dq, seq))
  PROVE  /\ msgs \in Seq(Message)
         /\ Len(msgs) = n - seq
         /\ \A k \in 1 .. n - seq :
              /\ msgs[k].seq = seq + k - 1
              /\ \E i \in Slots : msgs[k] = dq.buf[i]
<1> DEFINE index == SlotOf(dq, seq)
           Drops(k) == dq.buf[(index + k - 1) % deadQueueSize].seq
                         > dq.buf[(index + k) % deadQueueSize].seq
<1>1. /\ n - deadQueueSize <= seq /\ seq < n /\ index = HomeSlot(dq, n, seq)
      /\ n - seq \in 1 .. deadQueueSize
  BY IsInDeadQueueExact, DeadQueueAssumption
<1>2. /\ dq.ptr \in Slots /\ n - dq.ptr \in Int
      /\ n - dq.ptr = 0 \/ n - dq.ptr >= deadQueueSize
      /\ \A i \in Slots : SlotExact(dq, n - dq.ptr, i)
  BY DeadQueueAssumption DEF DeadQueues, Slots, HoldsUpTo
<1>3. index \in Slots
  BY <1>1, <1>2, DeadQueueAssumption DEF HomeSlot, Slots
<1>4. \A k \in 1 .. n - seq :
        /\ (index + k - 1) % deadQueueSize \in Slots
        /\ dq.buf[(index + k - 1) % deadQueueSize] \in Message
        /\ dq.buf[(index + k - 1) % deadQueueSize].seq = seq + k - 1
  <2> TAKE k \in 1 .. n - seq
  <2>1. k - 1 \in 0 .. n - seq /\ k - 1 < n - seq
    BY <1>1
  <2>2. /\ (index + (k - 1)) % deadQueueSize \in Slots
        /\ dq.buf[(index + (k - 1)) % deadQueueSize] # Nil
        /\ dq.buf[(index + (k - 1)) % deadQueueSize].seq = seq + (k - 1)
    BY <2>1, SlotsInSequence
  <2>3. index + (k - 1) = index + k - 1 /\ seq + (k - 1) = seq + k - 1
    BY <1>3 DEF Slots
  <2>4. QED
    BY <2>2, <2>3 DEF DeadQueues
<1>5. DrainLength(dq, index) = n - seq
  <2>1. CASE dq.buf[dq.ptr] = Nil
    BY <1>1, <1>2, <2>1, DeadQueueAssumption
      DEF DrainLength, HomeSlot, Slots, SlotExact
  <2>2. CASE dq.buf[dq.ptr] # Nil
    <3>1. dq.buf[dq.ptr].seq = n - deadQueueSize
      BY <1>2, <2>2, DeadQueueAssumption DEF Slots, SlotExact
    <3>2. (index + (n - seq)) % deadQueueSize = dq.ptr
      BY <1>1, SlotsInSequence
    <3>3. Drops(n - seq)
      <4>1. dq.buf[(index + (n - seq) - 1) % deadQueueSize].seq = n - 1
        BY <1>1, <1>4
      <4>2. QED
        BY <3>1, <3>2, <4>1, DeadQueueAssumption
    <3>4. \A k \in 1 .. n - seq - 1 : ~Drops(k)
      <4> TAKE k \in 1 .. n - seq - 1
      <4>1. k \in 1 .. n - seq /\ k + 1 \in 1 .. n - seq
        BY <1>1
      <4>2. dq.buf[(index + k - 1) % deadQueueSize].seq = seq + k - 1
        BY <1>4, <4>1
      <4>3. dq.buf[(index + (k + 1) - 1) % deadQueueSize].seq = seq + (k + 1) - 1
        BY <1>4, <4>1
      <4>4. index + (k + 1) - 1 = index + k
        BY <1>3 DEF Slots
      <4>5. QED
        BY <4>2, <4>3, <4>4
    <3> HIDE DEF Drops
    <3>5. \A k \in 1 .. deadQueueSize :
            Drops(k) /\ (\A j \in 1 .. k - 1 : ~Drops(j)) <=> k = n - seq
      BY <1>1, <3>3, <3>4, DeadQueueAssumption
    <3>6. n - seq = CHOOSE k \in 1 .. deadQueueSize :
                      Drops(k) /\ \A j \in 1 .. k - 1 : ~Drops(j)
      BY <1>1, <3>5
    <3>7. QED
      BY <2>2, <3>6 DEF DrainLength, Drops
  <2>3. QED
    BY <2>1, <2>2
<1>6. dq.buf[0] # Nil
  BY <1>1, <1>2, DeadQueueAssumption DEF Slots, SlotExact
<1>7. msgs =
        [k \in 1 .. n - seq |-> dq.buf[(index + k - 1) % deadQueueSize]]
  BY <1>5, <1>6 DEF drainDeadQueue
<1>8. n - seq \in Nat
  BY <1>1
<1>9. msgs \in Seq(Message) /\ Len(msgs) = n - seq
  BY <1>4, <1>7, <1>8
<1>10. \A k \in 1 .. n - seq :
         /\ msgs[k].seq = seq + k - 1
         /\ \E i \in Slots : msgs[k] = dq.buf[i]
  BY <1>4, <1>7
<1>11. QED
  BY <1>9, <1>10

-----------------------------------------------------------------------------
(* The inductive invariant *)

\* The stream of a dead queue has begun, and the queue is exact for it.
Begun(dq) == \E n \in Nat \ {0} : HoldsUpTo(dq, n)

\* A hello is the first message of its stream.
HelloFirst(dq) ==
  \A i \in Slots :
    dq.buf[i] # Nil /\ dq.buf[i].ev = Hello => dq.buf[i].seq = 0

\* The hello of the stream still waits in send.
Greeting(c) == c.send # << >> /\ c.send[1] = Hello

\* What each phase of a WebConn guarantees of its queues.  A stream starts with
\* a hello and number 0, or is one that has begun and is named by its number.
Starts(c) ==
  IF c.reused THEN c.sequence > 0 /\ Begun(c.deadQueue) /\ ~Greeting(c)
              ELSE c.sequence = 0 /\ c.deadQueue = EmptyDeadQueue

ConnOK(c) ==
  /\ HelloFirst(c.deadQueue)
  /\ \A i \in 2 .. Len(c.send) : c.send[i] # Hello
  /\ c.phase \in {"unused", "connecting"} =>
       c.send = << >> /\ c.deadQueue = EmptyDeadQueue
       /\ ~c.sendClosed /\ ~c.reused
  /\ c.phase = "connecting" => (c.id = NoId <=> c.sequence = 0)
  /\ c.phase \in {"accepted", "registered", "pumping"} => c.id # NoId
  /\ c.phase = "accepted" =>
       ~c.sendClosed /\ Starts(c) /\ (c.reused \/ c.send = << >>)
  /\ c.phase = "registered" => Starts(c) /\ (c.reused \/ Greeting(c))
  /\ c.phase = "pumping" =>
       HoldsUpTo(c.deadQueue, c.sequence) /\ (Greeting(c) <=> c.sequence = 0)

\* A WebConn of the index: what IndexSound says of it, and that it can resume.
Indexed(c) ==
  /\ ~c.sendClosed
  /\ c.phase \in {"registered", "pumping", "finished", "closed"}
  /\ c.active <=> c.phase # "closed"
  /\ c.id # NoId
  /\ Greeting(c) \/ Begun(c.deadQueue)

Accepted == {w \in Conns : conn[w].phase = "accepted"}

IndexOK ==
  /\ \A w \in byConnection : Indexed(conn[w])
  /\ \A v, w \in byConnection \cup Accepted : conn[v].id = conn[w].id => v = w

\* The id of a stream whose hello is not written yet is known to nobody else.
New(c) == (c.phase = "accepted" /\ ~c.reused) \/ Greeting(c)

NewIdsOK ==
  \A w \in Conns : New(conn[w]) =>
    /\ conn[w].id # NoId
    /\ conn[w].id # connectionId
    /\ \A v \in Conns : conn[v].id = conn[w].id => v = w

\* The client and its socket: the numbers on the wire go on from the client's
\* and the WebConn goes on from there.
WireOK(c) ==
  /\ wire # << >> =>
       c.phase \in {"pumping", "finished", "closed"} /\ c.id # NoId
  /\ \A i \in 1 .. Len(wire) : wire[i].seq = wire[1].seq + i - 1
  /\ wire # << >> => \/ wire[1].seq = serverSequence
                     \/ wire[1].ev = Hello /\ wire[1].seq = 0
  /\ \A i \in 1 .. Len(wire) :
       wire[i].ev = Hello => wire[i].seq = 0 /\ ~Greeting(c)
  /\ c.open /\ c.phase = "pumping" =>
       IF wire = << >> THEN c.sequence = serverSequence \/ Greeting(c)
                       ELSE c.sequence = wire[1].seq + Len(wire)
  /\ c.phase \in {"connecting", "accepted", "registered"} =>
       c.sequence = serverSequence
       \/ (c.phase \in {"accepted", "registered"} /\ ~c.reused)
  /\ connectionId = NoId =>
       /\ ~c.reused
       /\ c.phase = "connecting" => c.id = NoId
       /\ wire # << >> => wire[1].ev = Hello
       /\ wire = << >> /\ c.open /\ c.phase = "pumping" => Greeting(c)

ClientOK ==
  /\ connectionId = NoId <=> serverSequence = 0
  /\ clientConn = NoConn => wire = << >>
  /\ clientConn # NoConn =>
       conn[clientConn].phase # "unused" /\ WireOK(conn[clientConn])

IInv ==
  /\ TypeOK
  /\ \A w \in Conns : ConnOK(conn[w])
  /\ IndexOK
  /\ NewIdsOK
  /\ ClientOK

-----------------------------------------------------------------------------
(* What the proofs use of sequences *)

\* The elements of a sequence with one more at its end.
LEMMA AppendElements ==
  ASSUME NEW S, NEW s \in Seq(S), NEW e \in S
  PROVE  /\ Append(s, e) \in Seq(S) /\ Append(s, e) # << >>
         /\ Len(Append(s, e)) = Len(s) + 1
         /\ \A i \in 1 .. Len(s) : Append(s, e)[i] = s[i]
         /\ Append(s, e)[Len(s) + 1] = e
  OBVIOUS

\* A queue that gets its first element holds just that element.
LEMMA AppendToEmpty ==
  ASSUME NEW S, NEW e \in S, NEW s, s = << >>
  PROVE  /\ Append(s, e) # << >> /\ Len(Append(s, e)) = 1
         /\ Append(s, e)[1] = e
<1>1. s \in Seq(S) /\ Len(s) = 0
  OBVIOUS
<1>2. /\ Append(s, e) # << >> /\ Len(Append(s, e)) = Len(s) + 1
      /\ Append(s, e)[Len(s) + 1] = e
  BY <1>1, AppendElements
<1>3. Len(s) + 1 = 1
  BY <1>1
<1>4. QED
  BY <1>2, <1>3

\* A sequence is empty exactly when its length is 0.
LEMMA EmptyLength ==
  ASSUME NEW S, NEW s \in Seq(S)
  PROVE  Len(s) \in Nat /\ (s = << >> <=> Len(s) = 0)
  OBVIOUS

\* The elements of a sequence without its first.
LEMMA TailElements ==
  ASSUME NEW S, NEW s \in Seq(S), s # << >>
  PROVE  /\ Len(s) \in Nat \ {0} /\ Head(s) = s[1] /\ s[1] \in S
         /\ Tail(s) \in Seq(S) /\ Len(Tail(s)) = Len(s) - 1
         /\ \A i \in 1 .. Len(s) - 1 : Tail(s)[i] = s[i + 1]
  OBVIOUS

\* The elements of two sequences one after the other.
LEMMA ConcatElements ==
  ASSUME NEW S, NEW s \in Seq(S), NEW t \in Seq(S)
  PROVE  /\ s \o t \in Seq(S)
         /\ Len(s \o t) = Len(s) + Len(t)
         /\ \A i \in 1 .. Len(s) : (s \o t)[i] = s[i]
         /\ \A i \in 1 .. Len(t) : (s \o t)[Len(s) + i] = t[i]
  OBVIOUS

\* addToDeadQueue keeps hellos first.
LEMMA HelloFirstKept ==
  /\ HelloFirst(EmptyDeadQueue)
  /\ \A dq \in DeadQueues, msg \in Message :
       HelloFirst(dq) /\ (msg.ev = Hello => msg.seq = 0)
         => HelloFirst(addToDeadQueue(dq, msg))
<1>1. HelloFirst(EmptyDeadQueue)
  BY DEF HelloFirst, EmptyDeadQueue
<1>2. ASSUME NEW dq \in DeadQueues, NEW msg \in Message, HelloFirst(dq),
             msg.ev = Hello => msg.seq = 0
      PROVE  HelloFirst(addToDeadQueue(dq, msg))
  <2>1. \A i \in Slots : addToDeadQueue(dq, msg).buf[i]
                          = IF i = dq.ptr THEN msg ELSE dq.buf[i]
    BY DEF addToDeadQueue, DeadQueues
  <2>2. QED
    BY <1>2, <2>1 DEF HelloFirst
<1>3. QED
  BY <1>1, <1>2

\* A WebConn that does not exist yet satisfies whatever the invariant asks of one.
LEMMA UnusedFields ==
  /\ Unused \in WebConns /\ Unused.phase = "unused" /\ Unused.id = NoId
  /\ Unused.sequence = 0 /\ Unused.reused = FALSE /\ Unused.active = FALSE
  /\ Unused.send = << >> /\ Unused.sendClosed = FALSE
  /\ Unused.deadQueue = EmptyDeadQueue /\ Unused.open = FALSE
  /\ ConnOK(Unused) /\ ~New(Unused)
<1>1. Unused \in WebConns
  BY EmptyExact DEF Unused, WebConns, Phases
<1>2. QED
  BY <1>1, HelloFirstKept DEF Unused, ConnOK, Greeting, New

\* The invariant holds when the server starts.
LEMMA InitInvariant == Init => IInv
<1> SUFFICES ASSUME Init PROVE IInv
  OBVIOUS
<1>1. \A w \in Conns : conn[w] = Unused
  BY DEF Init
<1>2. TypeOK
  BY UnusedFields, WebSocketAssumption DEF Init, TypeOK
<1>3. \A w \in Conns : ConnOK(conn[w])
  BY <1>1, UnusedFields
<1>4. IndexOK
  BY <1>1, UnusedFields DEF Init, IndexOK, Accepted
<1>5. NewIdsOK
  BY <1>1, UnusedFields DEF NewIdsOK
<1>6. ClientOK
  BY DEF Init, ClientOK
<1>7. QED
  BY <1>2, <1>3, <1>4, <1>5, <1>6 DEF IInv

\* A step that keeps the ids, adds nothing to the index, leaves the client
\* alone and claims no new stream.
LEMMA StepOfMany ==
  ASSUME IInv, TypeOK', byConnection' \subseteq byConnection,
         UNCHANGED <<clientConn, connectionId, serverSequence, wire>>,
         \A v \in Conns :
           /\ ConnOK(conn'[v]) /\ conn'[v].id = conn[v].id
           /\ New(conn'[v]) => New(conn[v])
           /\ conn'[v].phase = "accepted" => conn[v].phase = "accepted"
           /\ v \in byConnection' => Indexed(conn'[v])
           /\ clientConn = v => conn'[v].phase # "unused" /\ WireOK(conn'[v])
  PROVE  IInv'
<1> USE DEF IInv
<1>1. byConnection \subseteq Conns
  BY DEF TypeOK
<1>2. IndexOK'
  BY <1>1 DEF IndexOK, Accepted
<1>3. NewIdsOK'
  BY DEF NewIdsOK
<1>4. ClientOK'
  <2>1. ASSUME clientConn # NoConn
        PROVE  conn'[clientConn].phase # "unused" /\ WireOK(conn'[clientConn])
    BY <2>1 DEF TypeOK
  <2>2. clientConn # NoConn => WireOK(conn[clientConn])'
    BY <2>1 DEF WireOK
  <2>3. QED
    BY <2>1, <2>2 DEF ClientOK
<1>5. QED
  BY <1>2, <1>3, <1>4

\* Such a step of one WebConn.
LEMMA StepOfOne ==
  ASSUME IInv, TypeOK', NEW w \in Conns, NEW d \in WebConns,
         conn' = [conn EXCEPT ![w] = d],
         UNCHANGED <<byConnection, clientConn, connectionId, serverSequence,
                     wire>>,
         ConnOK(d), d.id = conn[w].id, New(d) => New(conn[w]),
         d.phase = "accepted" => conn[w].phase = "accepted",
         w \in byConnection => Indexed(d),
         clientConn = w => d.phase # "unused" /\ WireOK(d)
  PROVE  IInv'
<1>1. conn'[w] = d /\ \A v \in Conns \ {w} : conn'[v] = conn[v]
  BY DEF IInv, TypeOK
<1>2. \A v \in Conns \ {w} :
        /\ ConnOK(conn[v])
        /\ v \in byConnection => Indexed(conn[v])
        /\ clientConn = v => conn[v].phase # "unused" /\ WireOK(conn[v])
  BY WebSocketAssumption DEF IInv, IndexOK, ClientOK
<1>3. QED
  BY <1>1, <1>2, StepOfMany

\* initialize: the new WebConn has no queues yet, and nothing is on its wire.
LEMMA ClientInitializeInvariant ==
  ASSUME IInv, NEW w \in Conns, ClientInitialize(w)
  PROVE  IInv'
<1> USE DEF IInv
<1>1. PICK d : d = [Unused EXCEPT !.phase = "connecting", !.id = connectionId,
                      !.sequence = serverSequence, !.open = TRUE]
  OBVIOUS
<1>2. /\ conn[w].phase = "unused" /\ clientConn = NoConn /\ clientConn' = w
      /\ conn'[w] = d /\ \A v \in Conns \ {w} : conn'[v] = conn[v]
      /\ conn' = [conn EXCEPT ![w] = d]
      /\ UNCHANGED <<byConnection, byConnectionId, connectionId,
                      serverSequence, wire>>
  BY <1>1 DEF ClientInitialize, TypeOK, hubVars
<1>3. /\ d \in WebConns /\ d.phase = "connecting" /\ d.id = connectionId
      /\ d.sequence = serverSequence /\ ~d.reused /\ ~d.sendClosed
      /\ d.send = << >> /\ d.deadQueue = EmptyDeadQueue
  <2>1. PICK u : u = Unused
    OBVIOUS
  <2>2. u \in WebConns /\ d = [u EXCEPT !.phase = "connecting",
          !.id = connectionId, !.sequence = serverSequence, !.open = TRUE]
    BY <1>1, <2>1, UnusedFields
  <2>3. QED
    BY <2>1, <2>2, UnusedFields DEF WebConns, Phases, TypeOK
<1>4. TypeOK'
  BY <1>2, <1>3 DEF ClientInitialize, TypeOK, hubVars, historyVars
<1>5. \A v \in Conns : ConnOK(conn'[v])
  BY <1>2, <1>3 DEF ConnOK, Greeting, ClientOK
<1>6. IndexOK'
  BY <1>2, <1>3 DEF IndexOK, Indexed, Accepted, TypeOK
<1>7. NewIdsOK'
  BY <1>2, <1>3 DEF NewIdsOK, New, Greeting
<1>8. ClientOK'
  BY <1>2, <1>3 DEF ClientOK, WireOK
<1>9. QED
  BY <1>4, <1>5, <1>6, <1>7, <1>8

\* A registration that fails leaves nothing in the index.
LEMMA HubRegisterErrorInvariant ==
  ASSUME IInv, NEW w \in Conns, HubRegisterError(w)
  PROVE  IInv'
<1> USE DEF IInv
<1>1. PICK c : c = conn[w] /\ c \in WebConns /\ c.phase = "accepted" /\ ConnOK(c)
  BY DEF HubRegisterError, TypeOK
<1>2. PICK d : d = [c EXCEPT !.phase = "closed", !.active = TRUE, !.open = FALSE]
  OBVIOUS
<1>3. /\ d \in WebConns /\ d.phase = "closed" /\ d.id = c.id /\ ~d.open
      /\ d.send = c.send /\ d.sequence = c.sequence /\ d.reused = c.reused
      /\ d.deadQueue = c.deadQueue
  BY <1>1, <1>2 DEF WebConns, Phases
<1>4. /\ conn' = [conn EXCEPT ![w] = d]
      /\ UNCHANGED <<byConnection, clientConn, connectionId, serverSequence,
                     wire>>
  BY <1>1, <1>2 DEF HubRegisterError, hubVars, clientVars
<1>5. TypeOK'
  BY <1>3, <1>4, WebSocketAssumption DEF HubRegisterError, Fault, TypeOK, hubVars, clientVars,
    historyVars
<1>6. ConnOK(d) /\ (New(d) => New(c))
  BY <1>1, <1>3 DEF ConnOK, New, Greeting
<1>7. w \notin byConnection
  BY <1>1 DEF IndexOK, Indexed
<1>8. clientConn = w => WireOK(d)
  BY <1>1, <1>3, WebSocketAssumption DEF ClientOK, WireOK, TypeOK, Greeting
<1>9. QED
  BY <1>1, <1>3, <1>4, <1>5, <1>6, <1>7, <1>8, StepOfOne

\* A stream that continues without a write already has the client's number.
LEMMA StartLosslessInvariant ==
  ASSUME IInv, NEW w \in Conns, StartLossless(w)
  PROVE  IInv'
<1> USE DEF IInv
<1>1. PICK c : c = conn[w] /\ c \in WebConns /\ c.phase = "registered" /\ ConnOK(c)
  BY DEF StartLossless, TypeOK
<1>2. PICK d : d = [c EXCEPT !.phase = "pumping"]
  OBVIOUS
<1>3. /\ d \in WebConns /\ d.phase = "pumping" /\ d.id = c.id /\ d.open = c.open
      /\ d.send = c.send /\ d.sequence = c.sequence /\ d.reused = c.reused
      /\ d.deadQueue = c.deadQueue /\ d.active = c.active
      /\ d.sendClosed = c.sendClosed
  BY <1>1, <1>2 DEF WebConns, Phases
<1>4. /\ conn' = [conn EXCEPT ![w] = d]
      /\ UNCHANGED <<byConnection, clientConn, connectionId, serverSequence,
                     wire>>
  BY <1>1, <1>2 DEF StartLossless, hubVars, clientVars
<1>5. TypeOK'
  BY <1>3, <1>4 DEF StartLossless, TypeOK, hubVars, clientVars, historyVars
<1>6. HoldsUpTo(c.deadQueue, c.sequence)
  <2>1. CASE c.sequence = 0
    BY <1>1, <2>1, EmptyExact DEF ConnOK, Starts
  <2>2. CASE c.sequence # 0
    <3>1. PICK n \in Nat \ {0} : HoldsUpTo(c.deadQueue, n)
      BY <1>1, <2>2 DEF ConnOK, Starts, Begun
    <3>2. ~hasMsgLoss(c.deadQueue, c.sequence)
      BY <1>1, <2>2 DEF StartLossless
    <3>3. c.deadQueue \in DeadQueues /\ c.sequence \in Nat
      BY <1>1 DEF WebConns
    <3>4. QED
      BY <3>1, <3>2, <3>3, HasMsgLossExact
  <2>3. QED
    BY <2>1, <2>2
<1>7. ConnOK(d) /\ (New(d) => New(c))
  BY <1>1, <1>3, <1>6 DEF ConnOK, New, Starts, Greeting, WebConns
<1>8. w \in byConnection => Indexed(d)
  BY <1>1, <1>3 DEF IndexOK, Indexed, Greeting
<1>9. clientConn = w => WireOK(d)
  BY <1>1, <1>3, WebSocketAssumption DEF ClientOK, WireOK, TypeOK, ConnOK, Starts, Greeting
<1>10. QED
  BY <1>1, <1>3, <1>4, <1>5, <1>7, <1>8, <1>9, StepOfOne

\* The close message: the socket is shut and the stream stays as it is.
LEMMA WriteCloseInvariant ==
  ASSUME IInv, NEW w \in Conns, WriteClose(w)
  PROVE  IInv'
<1> USE DEF IInv
<1>1. PICK c : c = conn[w] /\ c \in WebConns /\ c.phase = "pumping" /\ ConnOK(c)
  BY DEF WriteClose, TypeOK
<1>2. PICK d : d = [c EXCEPT !.phase = "finished", !.open = FALSE]
  OBVIOUS
<1>3. /\ d \in WebConns /\ d.phase = "finished" /\ d.id = c.id /\ ~d.open
      /\ d.send = c.send /\ d.sequence = c.sequence /\ d.reused = c.reused
      /\ d.deadQueue = c.deadQueue /\ d.active = c.active
      /\ d.sendClosed = c.sendClosed
  BY <1>1, <1>2 DEF WebConns, Phases
<1>4. /\ conn' = [conn EXCEPT ![w] = d]
      /\ UNCHANGED <<byConnection, clientConn, connectionId, serverSequence,
                     wire>>
  BY <1>1, <1>2 DEF WriteClose, hubVars, clientVars
<1>5. TypeOK'
  BY <1>3, <1>4 DEF WriteClose, TypeOK, hubVars, clientVars, historyVars
<1>6. ConnOK(d) /\ (New(d) => New(c))
  BY <1>1, <1>3 DEF ConnOK, New, Greeting
<1>7. w \in byConnection => Indexed(d)
  BY <1>1, <1>3 DEF IndexOK, Indexed, Greeting
<1>8. clientConn = w => WireOK(d)
  BY <1>1, <1>3, WebSocketAssumption DEF ClientOK, WireOK, TypeOK, Greeting
<1>9. QED
  BY <1>1, <1>3, <1>4, <1>5, <1>6, <1>7, <1>8, StepOfOne

\* writePump returns and touches neither the stream nor the index.
LEMMA EndWritePumpInvariant ==
  ASSUME IInv, NEW w \in Conns, EndWritePump(w)
  PROVE  IInv'
<1> USE DEF IInv
<1>1. PICK c : c = conn[w] /\ c \in WebConns /\ c.phase = "pumping" /\ ConnOK(c)
  BY DEF EndWritePump, TypeOK
<1>2. PICK d : d = [c EXCEPT !.phase = "finished"]
  OBVIOUS
<1>3. /\ d \in WebConns /\ d.phase = "finished" /\ d.id = c.id
      /\ d.open = c.open
      /\ d.send = c.send /\ d.sequence = c.sequence /\ d.reused = c.reused
      /\ d.deadQueue = c.deadQueue /\ d.active = c.active
      /\ d.sendClosed = c.sendClosed
  BY <1>1, <1>2 DEF WebConns, Phases
<1>4. /\ conn' = [conn EXCEPT ![w] = d]
      /\ UNCHANGED <<byConnection, clientConn, connectionId, serverSequence,
                     wire>>
  BY <1>1, <1>2 DEF EndWritePump, hubVars, clientVars
<1>5. TypeOK'
  BY <1>3, <1>4 DEF EndWritePump, TypeOK, hubVars, clientVars, historyVars
<1>6. ConnOK(d) /\ (New(d) => New(c))
  BY <1>1, <1>3 DEF ConnOK, New, Greeting
<1>7. w \in byConnection => Indexed(d)
  BY <1>1, <1>3 DEF IndexOK, Indexed, Greeting
<1>8. clientConn = w => WireOK(d)
  BY <1>1, <1>3, WebSocketAssumption DEF ClientOK, WireOK, TypeOK, Greeting
<1>9. QED
  BY <1>1, <1>3, <1>4, <1>5, <1>6, <1>7, <1>8, StepOfOne

\* unregister: the WebConn turns inactive as its phase says.
LEMMA HubUnregisterInvariant ==
  ASSUME IInv, NEW w \in Conns, HubUnregister(w)
  PROVE  IInv'
<1> USE DEF IInv
<1>1. PICK c : c = conn[w] /\ c \in WebConns /\ c.phase = "finished" /\ ConnOK(c)
  BY DEF HubUnregister, TypeOK
<1>2. PICK d : d = [c EXCEPT !.phase = "closed", !.active = FALSE]
  OBVIOUS
<1>3. /\ d \in WebConns /\ d.phase = "closed" /\ d.id = c.id
      /\ d.open = c.open /\ ~d.active
      /\ d.send = c.send /\ d.sequence = c.sequence /\ d.reused = c.reused
      /\ d.deadQueue = c.deadQueue /\ d.sendClosed = c.sendClosed
  BY <1>1, <1>2 DEF WebConns, Phases
<1>4. /\ conn' = [conn EXCEPT ![w] = d]
      /\ UNCHANGED <<byConnection, clientConn, connectionId, serverSequence,
                     wire>>
  BY <1>1, <1>2 DEF HubUnregister, hubVars, clientVars
<1>5. TypeOK'
  BY <1>3, <1>4 DEF HubUnregister, TypeOK, hubVars, clientVars, historyVars
<1>6. ConnOK(d) /\ (New(d) => New(c))
  BY <1>1, <1>3 DEF ConnOK, New, Greeting
<1>7. w \in byConnection => Indexed(d)
  BY <1>1, <1>3 DEF IndexOK, Indexed, Greeting
<1>8. clientConn = w => WireOK(d)
  BY <1>1, <1>3, WebSocketAssumption DEF ClientOK, WireOK, TypeOK, Greeting
<1>9. QED
  BY <1>1, <1>3, <1>4, <1>5, <1>6, <1>7, <1>8, StepOfOne

\* A broken socket changes nothing but its flag.
LEMMA BreakSocketInvariant ==
  ASSUME IInv, NEW w \in Conns, BreakSocket(w)
  PROVE  IInv'
<1> USE DEF IInv
<1>1. PICK c : c = conn[w] /\ c \in WebConns /\ ConnOK(c)
  BY DEF TypeOK
<1>2. PICK d : d = [c EXCEPT !.open = FALSE]
  OBVIOUS
<1>3. /\ d \in WebConns /\ d.phase = c.phase /\ d.id = c.id
      /\ ~d.open /\ d.active = c.active
      /\ d.send = c.send /\ d.sequence = c.sequence /\ d.reused = c.reused
      /\ d.deadQueue = c.deadQueue /\ d.sendClosed = c.sendClosed
  BY <1>1, <1>2 DEF WebConns
<1>4. /\ conn' = [conn EXCEPT ![w] = d]
      /\ UNCHANGED <<hubVars, clientVars, wire, historyVars>>
      /\ faults' \in 0 .. MaxFaults
  BY <1>1, <1>2, WebSocketAssumption DEF BreakSocket, Fault, TypeOK
<1>5. TypeOK'
  BY <1>3, <1>4 DEF TypeOK, hubVars, clientVars, historyVars
<1>6. ConnOK(d) /\ (New(d) => New(c))
  BY <1>1, <1>3 DEF ConnOK, New, Greeting, Starts
<1>7. w \in byConnection => Indexed(d)
  BY <1>1, <1>3 DEF IndexOK, Indexed, Greeting
<1>8. clientConn = w => d.phase # "unused" /\ WireOK(d)
  BY <1>1, <1>3, WebSocketAssumption DEF ClientOK, WireOK, TypeOK, Greeting
<1>9. QED
  BY <1>1, <1>3, <1>4, <1>5, <1>6, <1>7, <1>8, StepOfOne DEF hubVars, clientVars

\* The reaper only makes the index smaller.
LEMMA RemoveInactiveConnectionsInvariant ==
  ASSUME IInv, NEW w \in Conns, RemoveInactiveConnections(w)
  PROVE  IInv'
<1>1. TypeOK'
  BY DEF IInv, RemoveInactiveConnections, Remove, TypeOK, clientVars, historyVars
<1>2. /\ byConnection' \subseteq byConnection
      /\ UNCHANGED <<conn, clientConn, connectionId, serverSequence, wire>>
  BY DEF RemoveInactiveConnections, Remove, clientVars
<1>3. QED
  BY <1>1, <1>2, StepOfMany, WebSocketAssumption DEF IInv, IndexOK, ClientOK

\* An index lost in a panic is empty, and what holds of its members holds of none.
LEMMA HubPanicInvariant ==
  ASSUME IInv, HubPanic
  PROVE  IInv'
<1>1. TypeOK'
  BY WebSocketAssumption DEF IInv, HubPanic, Fault, TypeOK, clientVars, historyVars
<1>2. /\ byConnection' \subseteq byConnection
      /\ UNCHANGED <<conn, clientConn, connectionId, serverSequence, wire>>
  BY DEF HubPanic, clientVars
<1>3. QED
  BY <1>1, <1>2, StepOfMany, WebSocketAssumption DEF IInv, IndexOK, ClientOK

\* Closing the channel of a WebConn of the index.
LEMMA CloseSendFields ==
  ASSUME NEW c \in WebConns, ConnOK(c), Indexed(c)
  PROVE  LET d == CloseSend(c)
         IN  /\ d \in WebConns /\ ConnOK(d) /\ (New(d) <=> New(c))
             /\ d.id = c.id /\ d.phase = c.phase /\ (WireOK(c) => WireOK(d))
<1>1. PICK d : d = CloseSend(c)
  OBVIOUS
<1>2. /\ d \in WebConns /\ d.phase = c.phase /\ d.id = c.id
      /\ d.open = c.open /\ d.active = c.active
      /\ d.send = c.send /\ d.sequence = c.sequence /\ d.reused = c.reused
      /\ d.deadQueue = c.deadQueue
  BY <1>1 DEF CloseSend, WebConns
<1>3. ConnOK(d)
  BY <1>2 DEF ConnOK, Indexed, Greeting, Starts
<1>4. (New(d) <=> New(c)) /\ (WireOK(c) => WireOK(d))
  BY <1>2 DEF New, Greeting, WireOK
<1>5. QED
  BY <1>1, <1>2, <1>3, <1>4

\* Every WebConn that is closed leaves the index in the same case of the hub.
LEMMA InvalidateUserErrorInvariant ==
  ASSUME IInv, InvalidateUserError
  PROVE  IInv'
<1> USE DEF IInv
<1>1. /\ byConnection' = {} /\ byConnectionId' \subseteq byConnectionId
      /\ faults' \in 0 .. MaxFaults
      /\ conn' = [w \in Conns |->
           IF w \in byConnection THEN CloseSend(conn[w]) ELSE conn[w]]
      /\ UNCHANGED <<clientConn, connectionId, serverSequence, wire>>
      /\ UNCHANGED historyVars
  BY WebSocketAssumption
    DEF InvalidateUserError, Remove, Fault, TypeOK, clientVars
<1>2. ASSUME NEW v \in Conns
      PROVE  /\ conn'[v] \in WebConns /\ ConnOK(conn'[v])
             /\ New(conn'[v]) <=> New(conn[v])
             /\ conn'[v].id = conn[v].id /\ conn'[v].phase = conn[v].phase
             /\ WireOK(conn[v]) => WireOK(conn'[v])
  <2>1. conn[v] \in WebConns /\ ConnOK(conn[v])
    BY DEF TypeOK
  <2>2. CASE v \in byConnection
    BY <1>1, <2>1, <2>2, CloseSendFields DEF IndexOK
  <2>3. CASE v \notin byConnection
    BY <1>1, <2>1, <2>3
  <2>4. QED
    BY <2>2, <2>3
<1>3. conn' \in [Conns -> WebConns]
  BY <1>1, <1>2
<1>4. TypeOK'
  BY <1>1, <1>3 DEF TypeOK, historyVars
<1>5. QED
  BY <1>1, <1>2, <1>4, StepOfMany, WebSocketAssumption DEF ClientOK

\* An event at the end of the queue of a WebConn of the index.
LEMMA ReceiveFields ==
  ASSUME NEW c \in WebConns, ConnOK(c), Indexed(c), NEW e \in Nat \ {Hello}
  PROVE  LET d == [c EXCEPT !.send = Append(@, e)]
         IN  /\ d \in WebConns /\ ConnOK(d) /\ Indexed(d) /\ (New(d) <=> New(c))
             /\ d.id = c.id /\ d.phase = c.phase /\ (WireOK(c) => WireOK(d))
<1>1. PICK d : d = [c EXCEPT !.send = Append(@, e)]
  OBVIOUS
<1>2. c.send \in Seq(Nat) /\ Append(c.send, e) \in Seq(Nat)
  BY DEF WebConns
<1>3. /\ d \in WebConns /\ d.phase = c.phase /\ d.id = c.id
      /\ d.open = c.open /\ d.active = c.active
      /\ d.send = Append(c.send, e)
      /\ d.sequence = c.sequence /\ d.reused = c.reused
      /\ d.deadQueue = c.deadQueue /\ d.sendClosed = c.sendClosed
  BY <1>1, <1>2 DEF WebConns
<1>4. Greeting(d) <=> Greeting(c)
  BY <1>2, <1>3, AppendElements DEF Greeting
<1>5. \A i \in 2 .. Len(d.send) : d.send[i] # Hello
  BY <1>2, <1>3, AppendElements DEF ConnOK
<1>6. ConnOK(d) /\ Indexed(d)
  BY <1>3, <1>4, <1>5 DEF ConnOK, Indexed, Starts
<1>7. (New(d) <=> New(c)) /\ (WireOK(c) => WireOK(d))
  BY <1>3, <1>4 DEF New, WireOK, Indexed
<1>8. QED
  BY <1>1, <1>3, <1>6, <1>7

\* A broadcast appends to the queues of the index, or closes and removes in one case.
LEMMA HubBroadcastInvariant ==
  ASSUME IInv, HubBroadcast
  PROVE  IInv'
<1> USE DEF IInv
<1> DEFINE full == {w \in byConnection : Len(conn[w].send) = sendQueueSize}
<1>1. /\ byConnection' = byConnection \ full
      /\ byConnectionId' \subseteq byConnectionId
      /\ published' \in 0 .. MaxEvents
      /\ published + 1 \in Nat \ {Hello}
      /\ skipped' \subseteq skipped \cup {published + 1}
      /\ conn' = [w \in Conns |->
           IF w \in byConnection
             THEN IF w \in full THEN CloseSend(conn[w])
                  ELSE [conn[w] EXCEPT !.send = Append(@, published + 1)]
             ELSE conn[w]]
      /\ UNCHANGED <<clientConn, connectionId, serverSequence, wire>>
      /\ UNCHANGED <<faults, base, delivered>>
  BY WebSocketAssumption DEF HubBroadcast, Remove, TypeOK, clientVars, Hello
<1>2. ASSUME NEW v \in Conns
      PROVE  /\ conn'[v] \in WebConns /\ ConnOK(conn'[v])
             /\ New(conn'[v]) <=> New(conn[v])
             /\ conn'[v].id = conn[v].id /\ conn'[v].phase = conn[v].phase
             /\ WireOK(conn[v]) => WireOK(conn'[v])
             /\ v \in byConnection' => Indexed(conn'[v])
  <2>1. /\ conn[v] \in WebConns /\ ConnOK(conn[v])
        /\ v \in byConnection => Indexed(conn[v])
    BY DEF TypeOK, IndexOK
  <2>2. CASE v \in full
    BY <1>1, <2>1, <2>2, CloseSendFields
  <2>3. CASE v \in byConnection \ full
    <3>1. conn'[v] = [conn[v] EXCEPT !.send = Append(@, published + 1)]
      BY <1>1, <2>3
    <3>2. QED
      BY <1>1, <2>1, <2>3, <3>1, ReceiveFields
  <2>4. CASE v \notin byConnection
    BY <1>1, <2>1, <2>4
  <2>5. QED
    BY <2>2, <2>3, <2>4
<1>3. conn' \in [Conns -> WebConns]
  BY <1>1, <1>2
<1>4. TypeOK'
  BY <1>1, <1>3 DEF TypeOK
<1>5. QED
  BY <1>1, <1>2, <1>4, StepOfMany, WebSocketAssumption DEF ClientOK

\* A takeover: the handler holds the queues, exact for the old stream's next number,
\* and the id leaves the index with the old WebConn.
LEMMA CheckConnFoundInvariant ==
  ASSUME IInv, NEW w \in Conns, CheckConnFound(w)
  PROVE  IInv'
<1> USE DEF IInv
<1>1. PICK old \in byConnection :
        /\ conn[old].id = conn[w].id
        /\ Remove({old})
        /\ conn' = [conn EXCEPT ![w] =
             [@ EXCEPT !.phase = "accepted", !.reused = TRUE,
                       !.send = conn[old].send,
                       !.deadQueue = conn[old].deadQueue]]
  BY DEF CheckConnFound, Resumable
<1>2. PICK c : c = conn[w] /\ c \in WebConns /\ ConnOK(c)
               /\ c.phase = "connecting" /\ c.id # NoId
  BY DEF CheckConnFound, TypeOK
<1>3. PICK b : b = conn[old] /\ b \in WebConns /\ ConnOK(b) /\ Indexed(b)
               /\ b.id = c.id /\ old # w
  BY <1>1, <1>2 DEF TypeOK, IndexOK, Indexed
<1>4. PICK d : d = [c EXCEPT !.phase = "accepted", !.reused = TRUE,
                             !.send = b.send, !.deadQueue = b.deadQueue]
  OBVIOUS
<1>5. /\ d \in WebConns /\ d.phase = "accepted" /\ d.id = c.id
      /\ d.open = c.open /\ d.active = c.active
      /\ d.send = b.send /\ d.sequence = c.sequence /\ d.reused
      /\ d.deadQueue = b.deadQueue /\ d.sendClosed = c.sendClosed
  BY <1>2, <1>3, <1>4 DEF WebConns, Phases
<1>6. /\ conn' = [conn EXCEPT ![w] = d]
      /\ conn'[w] = d /\ \A v \in Conns \ {w} : conn'[v] = conn[v]
      /\ byConnection' = byConnection \ {old}
      /\ byConnectionId' \subseteq byConnectionId
      /\ UNCHANGED <<clientVars, wire, faults, historyVars>>
  BY <1>1, <1>2, <1>3, <1>4 DEF CheckConnFound, Remove, TypeOK
<1>7. TypeOK'
  BY <1>5, <1>6 DEF TypeOK, clientVars, historyVars
<1>8. ~Greeting(b)
  BY <1>2, <1>3, <1>1 DEF NewIdsOK, New, TypeOK
<1>9. Begun(b.deadQueue) /\ c.sequence > 0
  BY <1>2, <1>3, <1>8 DEF Indexed, ConnOK, WebConns
<1>10. ConnOK(d) /\ ~New(d)
  BY <1>2, <1>3, <1>5, <1>8, <1>9 DEF ConnOK, Starts, Greeting, New
<1>11. IndexOK'
  BY <1>2, <1>3, <1>5, <1>6, <1>1 DEF IndexOK, Accepted, TypeOK, Indexed
<1>12. NewIdsOK'
  BY <1>2, <1>5, <1>6, <1>10 DEF NewIdsOK, clientVars
<1>13. ClientOK'
  <2>1. CASE clientConn = w
    <3>1. WireOK(c)
      BY <1>2, <2>1, WebSocketAssumption DEF ClientOK
    <3>2. WireOK(d)
      BY <1>2, <1>5, <1>10, <3>1 DEF WireOK
    <3>3. WireOK(conn[clientConn])'
      BY <1>6, <2>1, <3>2 DEF WireOK, clientVars
    <3>4. QED
      BY <1>5, <1>6, <2>1, <3>3 DEF ClientOK, clientVars
  <2>2. CASE clientConn # w
    BY <1>6, <2>2 DEF ClientOK, WireOK, clientVars, TypeOK
  <2>3. QED
    BY <2>1, <2>2
<1>14. QED
  BY <1>6, <1>7, <1>10, <1>11, <1>12, <1>13

\* A fresh id is nobody else's, and the new stream starts at 0 with empty queues.
LEMMA CheckConnNotFoundInvariant ==
  ASSUME IInv, NEW w \in Conns, CheckConnNotFound(w)
  PROVE  IInv'
<1> USE DEF IInv
<1>1. PICK id \in FreshIds : conn' = [conn EXCEPT ![w] =
        [@ EXCEPT !.phase = "accepted", !.id = id, !.sequence = 0]]
  BY DEF CheckConnNotFound
<1>2. PICK c : c = conn[w] /\ c \in WebConns /\ ConnOK(c)
               /\ c.phase = "connecting"
  BY DEF CheckConnNotFound, TypeOK
<1>3. /\ id \in Ids /\ id # NoId /\ id # connectionId
      /\ \A v \in Conns : conn[v].id # id
  BY WebSocketAssumption DEF FreshIds
<1>4. PICK d : d = [c EXCEPT !.phase = "accepted", !.id = id, !.sequence = 0]
  OBVIOUS
<1>5. /\ d \in WebConns /\ d.phase = "accepted" /\ d.id = id
      /\ d.send = << >> /\ d.sequence = 0 /\ ~d.reused
      /\ d.deadQueue = EmptyDeadQueue /\ ~d.sendClosed
  BY <1>2, <1>3, <1>4 DEF WebConns, Phases, ConnOK
<1>6. /\ conn' = [conn EXCEPT ![w] = d]
      /\ conn'[w] = d /\ \A v \in Conns \ {w} : conn'[v] = conn[v]
      /\ UNCHANGED <<hubVars, clientVars, wire, faults, historyVars>>
  BY <1>1, <1>2, <1>4 DEF CheckConnNotFound, TypeOK
<1>7. TypeOK'
  BY <1>5, <1>6 DEF TypeOK, hubVars, clientVars, historyVars
<1>8. ConnOK(d)
  BY <1>3, <1>5, HelloFirstKept DEF ConnOK, Starts, Greeting
<1>9. IndexOK'
  <2>1. w \notin byConnection /\ byConnection \subseteq Conns
    BY <1>2 DEF IndexOK, Indexed, TypeOK
  <2>2. \A v \in byConnection' : Indexed(conn'[v])
    BY <1>6, <2>1 DEF IndexOK, hubVars
  <2>3. byConnection' = byConnection /\ Accepted' = Accepted \cup {w}
    BY <1>5, <1>6 DEF Accepted, hubVars
  <2>4. QED
    BY <1>3, <1>5, <1>6, <2>1, <2>2, <2>3 DEF IndexOK, Accepted
<1>10. NewIdsOK'
  BY <1>3, <1>5, <1>6 DEF NewIdsOK, clientVars
<1>11. ClientOK'
  <2>1. CASE clientConn = w
    <3>1. WireOK(c)
      BY <1>2, <2>1, WebSocketAssumption DEF ClientOK
    <3>2. WireOK(d)
      BY <1>2, <1>5, <3>1 DEF WireOK
    <3>3. WireOK(conn[clientConn])'
      BY <1>6, <2>1, <3>2 DEF WireOK, clientVars
    <3>4. QED
      BY <1>5, <1>6, <2>1, <3>3 DEF ClientOK, clientVars
  <2>2. CASE clientConn # w
    BY <1>6, <2>2 DEF ClientOK, WireOK, clientVars, TypeOK
  <2>3. QED
    BY <2>1, <2>2
<1>12. QED
  BY <1>6, <1>7, <1>8, <1>9, <1>10, <1>11

\* register: no WebConn of the index has the id, and a hello opens a new stream.
LEMMA HubRegisterInvariant ==
  ASSUME IInv, NEW w \in Conns, HubRegister(w)
  PROVE  IInv'
<1> USE DEF IInv
<1>1. PICK c : c = conn[w] /\ c \in WebConns /\ ConnOK(c)
               /\ c.phase = "accepted"
  BY DEF HubRegister, TypeOK
<1>2. PICK s : s = IF c.reused THEN c.send ELSE Append(c.send, Hello)
  OBVIOUS
<1> s \in Seq(Nat)
  BY <1>1, <1>2, AppendElements DEF WebConns, Hello
<1>3. PICK d : d = [c EXCEPT !.phase = "registered", !.active = TRUE,
                             !.send = s]
  OBVIOUS
<1>4. /\ d \in WebConns /\ d.phase = "registered" /\ d.id = c.id
      /\ d.send = s /\ d.sequence = c.sequence /\ d.reused = c.reused
      /\ d.deadQueue = c.deadQueue /\ d.sendClosed = c.sendClosed
      /\ d.active /\ d.open = c.open
  BY <1>1, <1>2, <1>3 DEF WebConns, Phases
<1>5. /\ conn' = [conn EXCEPT ![w] = d]
      /\ conn'[w] = d /\ \A v \in Conns \ {w} : conn'[v] = conn[v]
      /\ byConnection' = byConnection \cup {w}
      /\ byConnectionId' = byConnectionId \cup {c.id}
      /\ UNCHANGED <<clientVars, wire, faults, historyVars>>
  <2>1. conn' = [conn EXCEPT ![w] = d]
    BY <1>1, <1>2, <1>3 DEF HubRegister
  <2>2. /\ byConnection' = byConnection \cup {w}
        /\ byConnectionId' = byConnectionId \cup {c.id}
        /\ UNCHANGED <<clientVars, wire, faults, historyVars>>
    BY <1>1 DEF HubRegister
  <2>3. QED
    BY <2>1, <2>2 DEF TypeOK
<1>6. c.id \in Ids
  BY <1>1 DEF ConnOK, WebConns
<1>7. TypeOK'
  BY <1>4, <1>5, <1>6 DEF TypeOK, clientVars, historyVars
<1>8. /\ c.reused => ~Greeting(d) /\ d.send = c.send
      /\ ~c.reused => Greeting(d) /\ Len(d.send) = 1
  <2>1. c.send \in Seq(Nat) /\ Hello \in Nat
    BY <1>1 DEF WebConns, Hello
  <2>2. ~c.reused => /\ s # << >> /\ Len(s) = 1
                     /\ s[1] = Hello
    <3>1. ~c.reused => c.send = << >> /\ s = Append(c.send, Hello)
      BY <1>1, <1>2 DEF ConnOK
    <3>2. QED
      BY <2>1, <3>1, AppendToEmpty
  <2>3. c.reused => s = c.send /\ ~Greeting(c)
    BY <1>1, <1>2 DEF ConnOK, Starts
  <2>4. QED
    BY <1>4, <2>2, <2>3 DEF Greeting
<1>9. ConnOK(d) /\ (New(d) <=> New(c)) /\ Indexed(d)
  BY <1>1, <1>4, <1>8 DEF ConnOK, Starts, Indexed, New, Greeting
<1>10. IndexOK'
  BY <1>1, <1>4, <1>5, <1>9 DEF IndexOK, Accepted, TypeOK
<1>11. NewIdsOK'
  BY <1>1, <1>4, <1>5, <1>9 DEF NewIdsOK, clientVars
<1>12. ClientOK'
  <2>1. CASE clientConn = w
    <3>1. WireOK(c)
      BY <1>1, <2>1, WebSocketAssumption DEF ClientOK
    <3>2. WireOK(d)
      BY <1>1, <1>4, <3>1 DEF WireOK
    <3>3. WireOK(conn[clientConn])'
      BY <1>5, <2>1, <3>2 DEF WireOK, clientVars
    <3>4. QED
      BY <1>4, <1>5, <2>1, <3>3 DEF ClientOK, clientVars
  <2>2. CASE clientConn # w
    BY <1>5, <2>2 DEF ClientOK, WireOK, clientVars, TypeOK
  <2>3. QED
    BY <2>1, <2>2
<1>13. QED
  BY <1>5, <1>7, <1>9, <1>10, <1>11, <1>12

\* A WebConn nobody refers to may be reused.
LEMMA CollectInvariant ==
  ASSUME IInv, NEW w \in Conns, Collect(w)
  PROVE  IInv'
<1> USE DEF IInv
<1>1. /\ conn' = [conn EXCEPT ![w] = Unused]
      /\ conn'[w] = Unused /\ \A v \in Conns \ {w} : conn'[v] = conn[v]
      /\ clientConn # w /\ w \notin byConnection
      /\ UNCHANGED <<hubVars, clientVars, wire, faults, historyVars>>
  BY DEF Collect, TypeOK
<1>2. TypeOK'
  BY <1>1, UnusedFields DEF TypeOK, hubVars, clientVars, historyVars
<1>3. \A v \in Conns : ConnOK(conn'[v])
  BY <1>1, UnusedFields
<1>4. IndexOK'
  BY <1>1, UnusedFields DEF IndexOK, Accepted, TypeOK, hubVars
<1>5. NewIdsOK'
  BY <1>1, UnusedFields DEF NewIdsOK, clientVars
<1>6. ClientOK'
  BY <1>1 DEF ClientOK, WireOK, clientVars, TypeOK
<1>7. QED
  BY <1>2, <1>3, <1>4, <1>5, <1>6

\* After a restart only ids on the wire are left of the WebConns.
LEMMA ServerRestartInvariant ==
  ASSUME IInv, ServerRestart
  PROVE  IInv'
<1> USE DEF IInv
<1>0. faults' \in 0 .. MaxFaults
  <2>1. Fault
    BY Zenon DEF ServerRestart
  <2>2. QED
    BY <2>1, WebSocketAssumption DEF Fault, TypeOK
<1>1. /\ byConnection' = {} /\ byConnectionId' = {}
      /\ conn' = [w \in Conns |->
           IF conn[w].phase = "unused"
             THEN Unused
             ELSE [Unused EXCEPT !.phase = "closed", !.id = conn[w].id]]
      /\ UNCHANGED <<clientConn, connectionId, serverSequence, wire>>
      /\ UNCHANGED historyVars
  BY Zenon DEF ServerRestart, clientVars
<1>2. ASSUME NEW v \in Conns
      PROVE  /\ conn'[v] \in WebConns /\ ConnOK(conn'[v])
             /\ ~New(conn'[v]) /\ conn'[v].phase \in {"unused", "closed"}
             /\ conn[v].phase # "unused" =>
                  conn'[v].phase = "closed" /\ conn'[v].id = conn[v].id
             /\ ~conn'[v].open /\ ~conn'[v].reused
             /\ conn'[v].send = << >>
  <2>1. CASE conn[v].phase = "unused"
    BY <1>1, <2>1, UnusedFields
  <2>2. CASE conn[v].phase # "unused"
    <3>1. PICK u : u = Unused
      OBVIOUS
    <3>2. PICK i \in Ids \cup {NoId} : i = conn[v].id
      BY DEF TypeOK, WebConns
    <3>3. PICK d : d = [u EXCEPT !.phase = "closed", !.id = i]
      OBVIOUS
    <3>4. u \in WebConns /\ conn'[v] = d
      BY <1>1, <2>2, <3>1, <3>2, <3>3, UnusedFields
    <3>5. /\ d \in WebConns /\ d.phase = "closed" /\ d.id = i
          /\ d.send = << >> /\ ~d.reused /\ ~d.open
          /\ d.deadQueue = EmptyDeadQueue
      BY <3>1, <3>2, <3>3, <3>4, UnusedFields DEF WebConns, Phases
    <3>6. ConnOK(d) /\ ~New(d)
      BY <3>5, HelloFirstKept DEF ConnOK, New, Greeting
    <3>7. QED
      BY <3>2, <3>4, <3>5, <3>6
  <2>3. QED
    BY <2>1, <2>2
<1>3. conn' \in [Conns -> WebConns]
  BY <1>1, <1>2
<1>4. TypeOK'
  BY <1>0, <1>1, <1>3 DEF TypeOK, historyVars
<1>5. IndexOK' /\ NewIdsOK'
  BY <1>1, <1>2 DEF IndexOK, Accepted, NewIdsOK
<1>6. ClientOK'
  <2>1. ASSUME clientConn # NoConn
        PROVE  (conn[clientConn].phase # "unused" /\ WireOK(conn[clientConn]))'
    <3>1. PICK d : d = conn'[clientConn] /\ d.phase = "closed"
                   /\ d.id = conn[clientConn].id /\ ~d.open /\ ~d.reused
                   /\ ~Greeting(d)
      BY <1>2, <2>1 DEF ClientOK, TypeOK, New
    <3>2. WireOK(d)
      BY <2>1, <3>1 DEF ClientOK, WireOK
    <3>3. QED
      BY <1>1, <3>1, <3>2 DEF WireOK
  <2>2. QED
    BY <1>1, <2>1 DEF ClientOK
<1>7. QED
  BY <1>2, <1>4, <1>5, <1>6

\* A closed socket changes nothing that the server relies on.
LEMMA CloseSocketFields ==
  ASSUME NEW c \in WebConns, ConnOK(c)
  PROVE  LET d == [c EXCEPT !.open = FALSE]
         IN  /\ d \in WebConns /\ ConnOK(d) /\ (New(d) <=> New(c))
             /\ d.id = c.id /\ d.phase = c.phase /\ (Indexed(c) => Indexed(d))
<1>1. PICK d : d = [c EXCEPT !.open = FALSE]
  OBVIOUS
<1>2. /\ d \in WebConns /\ d.phase = c.phase /\ d.id = c.id
      /\ d.active = c.active /\ d.sendClosed = c.sendClosed
      /\ d.send = c.send /\ d.sequence = c.sequence /\ d.reused = c.reused
      /\ d.deadQueue = c.deadQueue
  BY <1>1 DEF WebConns
<1>3. ConnOK(d) /\ (New(d) <=> New(c)) /\ (Indexed(c) => Indexed(d))
  BY <1>2 DEF ConnOK, New, Greeting, Starts, Indexed
<1>4. QED
  BY <1>1, <1>2, <1>3

\* onclose: the client has no socket and nothing on its wire.
LEMMA ClientOnCloseInvariant ==
  ASSUME IInv, ClientOnClose
  PROVE  IInv'
<1> USE DEF IInv
<1>1. /\ clientConn' = NoConn /\ wire' = << >>
      /\ UNCHANGED <<conn, hubVars, connectionId, serverSequence, faults,
                     historyVars>>
  BY DEF ClientOnClose, Detach
<1>2. TypeOK'
  BY <1>1 DEF TypeOK, hubVars, historyVars
<1>3. IndexOK' /\ NewIdsOK'
  BY <1>1 DEF IndexOK, Accepted, NewIdsOK, hubVars
<1>4. ClientOK'
  BY <1>1 DEF ClientOK
<1>5. QED
  BY <1>1, <1>2, <1>3, <1>4

\* The ping timeout closes the socket and detaches the client.
LEMMA ClientPingTimeoutInvariant ==
  ASSUME IInv, ClientPingTimeout
  PROVE  IInv'
<1> USE DEF IInv
<1>1. PICK w \in Conns : w = clientConn
  BY DEF ClientPingTimeout, TypeOK
<1>2. PICK c : c = conn[w] /\ c \in WebConns /\ ConnOK(c)
  BY DEF TypeOK
<1>3. PICK d : d = [c EXCEPT !.open = FALSE]
  OBVIOUS
<1>4. /\ conn' = [conn EXCEPT ![w] = d] /\ conn'[w] = d
      /\ \A v \in Conns \ {w} : conn'[v] = conn[v]
      /\ clientConn' = NoConn /\ wire' = << >>
      /\ UNCHANGED <<hubVars, connectionId, serverSequence, faults, historyVars>>
  BY <1>1, <1>2, <1>3 DEF ClientPingTimeout, Detach, TypeOK
<1>5. /\ d \in WebConns /\ ConnOK(d) /\ (New(d) <=> New(c))
      /\ d.id = c.id /\ d.phase = c.phase /\ (Indexed(c) => Indexed(d))
  BY <1>2, <1>3, CloseSocketFields
<1>6. TypeOK'
  BY <1>4, <1>5 DEF TypeOK, hubVars, historyVars
<1>7. IndexOK'
  BY <1>2, <1>4, <1>5 DEF IndexOK, Accepted, hubVars, TypeOK
<1>8. NewIdsOK'
  BY <1>2, <1>4, <1>5 DEF NewIdsOK
<1>9. ClientOK'
  BY <1>4 DEF ClientOK
<1>10. QED
  BY <1>4, <1>5, <1>6, <1>7, <1>8, <1>9

\* onmessage: the first number on the wire is the one the client expects, so what
\* is left on the wire starts with the next one.
LEMMA ClientReceiveInvariant ==
  ASSUME IInv, ClientReceive
  PROVE  IInv'
<1> USE DEF IInv
<1>1. PICK w \in Conns : w = clientConn /\ wire # << >>
  BY DEF ClientReceive, TypeOK
<1>2. PICK c : c = conn[w] /\ c \in WebConns /\ ConnOK(c) /\ WireOK(c)
               /\ c.id # NoId /\ c.phase \in {"pumping", "finished", "closed"}
  BY <1>1, WebSocketAssumption DEF TypeOK, ClientOK, WireOK
<1>3. PICK msg \in Message :
        /\ msg = wire[1] /\ msg = Head(wire)
        /\ Len(wire) \in Nat \ {0} /\ Tail(wire) \in Seq(Message)
        /\ Len(Tail(wire)) = Len(wire) - 1
        /\ \A i \in 1 .. Len(wire) - 1 : Tail(wire)[i] = wire[i + 1]
  BY <1>1, TailElements DEF TypeOK
<1>4. PICK newStream \in BOOLEAN :
        newStream <=> msg.ev = Hello /\ c.id # connectionId
  OBVIOUS
<1>5. PICK expected \in Nat :
        expected = IF newStream /\ connectionId # NoId THEN 0 ELSE serverSequence
  BY DEF TypeOK
<1>6. /\ connectionId' = IF msg.ev = Hello THEN c.id ELSE connectionId
      /\ UNCHANGED <<hubVars, faults, published>>
      /\ base' = base \/ base' = published
      /\ skipped' = skipped \/ skipped' = {}
      /\ \/ delivered' = << >> \/ delivered' = delivered
         \/ delivered' = Append(delivered, msg.ev)
  BY <1>1, <1>2, <1>3 DEF ClientReceive
<1>7. \/ /\ msg.seq = expected /\ serverSequence' = msg.seq + 1
         /\ wire' = Tail(wire) /\ UNCHANGED <<clientConn, conn>>
      \/ /\ msg.seq # expected /\ serverSequence' = expected
         /\ clientConn' = NoConn /\ wire' = << >>
         /\ conn' = [conn EXCEPT ![w] = [c EXCEPT !.open = FALSE]]
  BY <1>1, <1>2, <1>3, <1>4, <1>5 DEF ClientReceive, Detach
<1>8. /\ msg.ev = Hello => msg.seq = 0 /\ ~Greeting(c)
      /\ connectionId = NoId => msg.ev = Hello
      /\ msg.seq = serverSequence \/ (msg.ev = Hello /\ msg.seq = 0)
  <2>1. 1 \in 1 .. Len(wire)
    BY <1>3
  <2>2. msg.ev = Hello => msg.seq = 0 /\ ~Greeting(c)
    BY <1>2, <1>3, <2>1 DEF WireOK
  <2>3. /\ connectionId = NoId => msg.ev = Hello
        /\ msg.seq = serverSequence \/ (msg.ev = Hello /\ msg.seq = 0)
    BY <1>1, <1>2, <1>3 DEF WireOK
  <2>4. QED
    BY <2>2, <2>3
<1>9. msg.ev = Hello => \A v \in Conns : New(conn[v]) => conn[v].id # c.id
  BY <1>1, <1>2, <1>8 DEF NewIdsOK, New
<1>10. connectionId' # NoId /\ connectionId' \in Ids
  BY <1>2, <1>6, <1>8 DEF WebConns, TypeOK
<1>11. /\ base' \in Nat /\ skipped' \subseteq Nat /\ delivered' \in Seq(Nat)
       /\ published' \in 0 .. MaxEvents
  <2>1. Append(delivered, msg.ev) \in Seq(Nat)
    BY AppendElements DEF TypeOK, Message
  <2>2. << >> \in Seq(Nat)
    OBVIOUS
  <2>3. delivered' \in Seq(Nat)
    BY <1>6, <2>1, <2>2, Zenon DEF TypeOK
  <2>4. published \in 0 .. MaxEvents /\ published \in Nat /\ base \in Nat
    BY WebSocketAssumption DEF TypeOK
  <2>5. base' \in Nat /\ published' \in 0 .. MaxEvents
    BY <1>6, <2>4
  <2>6. skipped' \subseteq Nat
    BY <1>6 DEF TypeOK
  <2>7. QED
    BY <2>3, <2>5, <2>6
<1>12. CASE /\ msg.seq = expected /\ serverSequence' = msg.seq + 1
            /\ wire' = Tail(wire) /\ UNCHANGED <<clientConn, conn>>
  <2>1. TypeOK'
    <3>1. serverSequence' \in Nat
      BY <1>3, <1>12 DEF Message
    <3>2. UNCHANGED <<byConnection, byConnectionId, clientConn, conn>>
      BY <1>6, <1>12 DEF hubVars
    <3>3. wire' \in Seq(Message)
      BY <1>3, <1>12
    <3>4. QED
      BY <1>6, <1>10, <1>11, <3>1, <3>2, <3>3 DEF TypeOK
  <2>2. IndexOK' /\ NewIdsOK'
    <3>1. UNCHANGED <<byConnection, byConnectionId, conn>>
      BY <1>6, <1>12 DEF hubVars
    <3>2. QED
      BY <1>6, <1>9, <1>12, <3>1 DEF IndexOK, Accepted, NewIdsOK
  <2>3. /\ \A i \in 1 .. Len(wire') : wire'[i] = wire[i + 1]
        /\ Len(wire') = Len(wire) - 1 /\ wire' \in Seq(Message)
    BY <1>3, <1>12
  <2>4. \A i \in 1 .. Len(wire') : wire'[i].seq = msg.seq + i
    <3> TAKE i \in 1 .. Len(wire')
    <3>1. i \in Nat /\ i + 1 \in 1 .. Len(wire)
      BY <1>3, <2>3
    <3>2. wire[i + 1].seq = wire[1].seq + (i + 1) - 1
      BY <1>2, <3>1 DEF WireOK
    <3>3. wire'[i].seq = msg.seq + (i + 1) - 1
      BY <1>3, <2>3, <3>2
    <3>4. QED
      BY <3>1, <3>3 DEF Message
  <2>5. /\ wire' = << >> => Len(wire') = 0
        /\ wire' # << >> => wire'[1].seq = serverSequence' /\ Len(wire') # 0
    <3>1. Len(wire') \in Nat /\ (wire' = << >> <=> Len(wire') = 0)
      BY <2>3, EmptyLength
    <3>2. wire' # << >> => 1 \in 1 .. Len(wire')
      BY <3>1
    <3>3. QED
      BY <1>12, <2>4, <3>1, <3>2
  <2>6. \A i \in 1 .. Len(wire') :
          wire'[i].ev = Hello => wire'[i].seq = 0 /\ ~Greeting(c)
    BY <1>2, <2>3 DEF WireOK
  <2>7. c.open /\ c.phase = "pumping" =>
          IF wire' = << >> THEN c.sequence = serverSequence'
                           ELSE c.sequence = wire'[1].seq + Len(wire')
    <3>1. c.open /\ c.phase = "pumping" => c.sequence = msg.seq + Len(wire)
      BY <1>1, <1>2, <1>3 DEF WireOK
    <3>2. CASE wire' = << >>
      <4>1. Len(wire') = 0 /\ Len(wire) - 1 = Len(wire') /\ Len(wire) \in Nat
        BY <1>3, <2>3, <2>5, <3>2
      <4>2. Len(wire) = 1
        BY <4>1
      <4>3. c.open /\ c.phase = "pumping" => c.sequence = serverSequence'
        BY <1>12, <3>1, <4>2
      <4>4. QED
        BY <3>2, <4>3
    <3>3. CASE wire' # << >>
      <4>1. /\ msg.seq + Len(wire) = msg.seq + 1 + Len(wire')
            /\ wire'[1].seq = msg.seq + 1
        <5>1. Len(wire') = Len(wire) - 1 /\ Len(wire) \in Nat /\ msg.seq \in Nat
          BY <1>3, <2>3 DEF Message
        <5>2. wire'[1].seq = msg.seq + 1
          BY <1>12, <2>5, <3>3
        <5>3. QED
          BY <5>1, <5>2
      <4>2. c.open /\ c.phase = "pumping" => c.sequence = wire'[1].seq + Len(wire')
        BY <3>1, <4>1
      <4>3. QED
        BY <3>3, <4>2
    <3>4. QED
      BY <3>2, <3>3
  <2> \A i \in 1 .. Len(wire') : wire'[i].seq = wire'[1].seq + i - 1
    <3>1. Len(wire') \in Nat
      BY <1>3, <2>3
    <3> TAKE i \in 1 .. Len(wire')
    <3>2. 1 \in 1 .. Len(wire')
      BY <3>1
    <3>3. wire'[1].seq = msg.seq + 1 /\ wire'[i].seq = msg.seq + i
      BY <2>4, <3>2
    <3>4. QED
      BY <3>3 DEF Message
  <2>8. WireOK(c)'
    BY <1>2, <1>10, <2>5, <2>6, <2>7 DEF WireOK
  <2>9. ClientOK'
    BY <1>1, <1>2, <1>3, <1>10, <1>12, <2>8, WebSocketAssumption
      DEF ClientOK, Message
  <2>10. QED
    BY <1>12, <2>1, <2>2, <2>9
<1>13. CASE /\ msg.seq # expected /\ serverSequence' = expected
            /\ clientConn' = NoConn /\ wire' = << >>
            /\ conn' = [conn EXCEPT ![w] = [c EXCEPT !.open = FALSE]]
  <2>1. PICK d : d = [c EXCEPT !.open = FALSE]
    OBVIOUS
  <2>2. /\ d \in WebConns /\ ConnOK(d) /\ (New(d) <=> New(c))
        /\ d.id = c.id /\ d.phase = c.phase /\ (Indexed(c) => Indexed(d))
    BY <1>2, <2>1, CloseSocketFields
  <2>3. conn'[w] = d /\ \A v \in Conns \ {w} : conn'[v] = conn[v]
    BY <1>13, <2>1 DEF TypeOK
  <2>4. conn' = [conn EXCEPT ![w] = d]
    BY <1>13, <2>1
  <2>5. TypeOK'
    <3>1. conn' \in [Conns -> WebConns]
      BY <2>2, <2>4 DEF TypeOK
    <3>2. wire' \in Seq(Message) /\ clientConn' \in Conns \cup {NoConn}
          /\ serverSequence' \in Nat
      BY <1>13
    <3>3. UNCHANGED <<byConnection, byConnectionId>>
      BY <1>6 DEF hubVars
    <3>4. QED
      BY <1>6, <1>10, <1>11, <3>1, <3>2, <3>3 DEF TypeOK
  <2>6. IndexOK'
    <3>1. byConnection' = byConnection /\ byConnectionId' = byConnectionId
      BY <1>6 DEF hubVars
    <3>2. QED
      BY <1>2, <1>6, <2>2, <2>3, <3>1 DEF IndexOK, Accepted, TypeOK
  <2>7. NewIdsOK'
    BY <1>2, <1>6, <1>9, <2>2, <2>3 DEF NewIdsOK
  <2>8. serverSequence' # 0
    BY <1>3, <1>4, <1>5, <1>8, <1>13, <1>2 DEF ClientOK, Message
  <2>9. ClientOK'
    BY <1>10, <1>13, <2>8 DEF ClientOK
  <2>10. QED
    BY <2>2, <2>3, <2>5, <2>6, <2>7, <2>9
<1>14. QED
  BY <1>7, <1>12, <1>13

\* Consecutive numbers written behind those on the wire.
LEMMA WireGrows ==
  ASSUME wire \in Seq(Message), serverSequence \in Nat,
         NEW c \in WebConns, WireOK(c),
         NEW d \in WebConns, d.phase \in {"pumping", "finished"},
         d.id # NoId, d.reused = c.reused, ~Greeting(d),
         NEW msgs \in Seq(Message), Len(msgs) > 0,
         NEW first \in Nat, d.sequence = first + Len(msgs),
         \A i \in 1 .. Len(msgs) :
           /\ msgs[i].seq = first + i - 1
           /\ msgs[i].ev = Hello => msgs[i].seq = 0,
         wire = << >> => \/ first = serverSequence
                         \/ msgs[1].ev = Hello /\ first = 0,
         wire # << >> => first = wire[1].seq + Len(wire),
         connectionId = NoId /\ wire = << >> => msgs[1].ev = Hello,
         wire' = wire \o msgs, UNCHANGED <<connectionId, serverSequence>>
  PROVE  WireOK(d)'
<1>1. /\ wire' \in Seq(Message) /\ Len(wire') = Len(wire) + Len(msgs)
      /\ Len(wire) \in Nat /\ Len(msgs) \in Nat /\ Len(wire') \in Nat
      /\ \A i \in 1 .. Len(wire) : wire'[i] = wire[i]
      /\ \A i \in 1 .. Len(msgs) : wire'[Len(wire) + i] = msgs[i]
  BY ConcatElements
<1>2. wire' # << >> /\ (wire = << >> <=> Len(wire) = 0)
  <2>1. wire = << >> <=> Len(wire) = 0
    BY EmptyLength
  <2>2. Len(msgs) # 0
    BY EmptyLength
  <2>3. Len(wire') # 0
    BY <1>1, <2>2
  <2>4. QED
    BY <1>1, <2>1, <2>3, EmptyLength
<1>3. /\ wire = << >> => wire'[1] = msgs[1]
      /\ wire # << >> => wire'[1] = wire[1] /\ wire[1] \in Message
  BY <1>1, <1>2
<1>4. msgs[1].seq = first /\ (msgs[1].ev = Hello => first = 0)
  OBVIOUS
<1>5. PICK h \in Nat : /\ h = wire'[1].seq
                       /\ wire = << >> => h = first
                       /\ wire # << >> => h = wire[1].seq
  BY <1>3, <1>4 DEF Message
<1>6. first = h + Len(wire)
  BY <1>1, <1>2, <1>5
<1>7. ASSUME NEW i \in 1 .. Len(wire')
      PROVE  /\ wire'[i].seq = h + i - 1
             /\ wire'[i].ev = Hello => wire'[i].seq = 0
  <2>1. CASE i <= Len(wire)
    <3>1. i \in 1 .. Len(wire) /\ wire'[i] = wire[i] /\ wire # << >>
      BY <1>1, <1>2, <2>1
    <3>2. QED
      BY <1>5, <3>1 DEF WireOK
  <2>2. CASE i > Len(wire)
    <3>1. PICK k \in 1 .. Len(msgs) : i = Len(wire) + k
      <4>1. i - Len(wire) \in 1 .. Len(msgs) /\ i = Len(wire) + (i - Len(wire))
        BY <1>1, <2>2
      <4>2. QED
        BY <4>1
    <3>2. wire'[i] = msgs[k]
      BY <1>1, <3>1
    <3>3. wire'[i].seq = first + k - 1 /\ (wire'[i].ev = Hello => wire'[i].seq = 0)
      BY <3>2
    <3>4. first + k - 1 = h + i - 1
      BY <1>1, <1>6, <3>1
    <3>5. QED
      BY <3>3, <3>4
  <2>3. QED
    BY <1>1, <2>1, <2>2
<1>8. wire'[1].seq = serverSequence \/ (wire'[1].ev = Hello /\ wire'[1].seq = 0)
  BY <1>3, <1>5 DEF WireOK
<1>9. d.sequence = wire'[1].seq + Len(wire')
  BY <1>1, <1>5, <1>6
<1>10. connectionId = NoId => ~d.reused /\ wire'[1].ev = Hello
  BY <1>3 DEF WireOK
<1>11. QED
  BY <1>2, <1>5, <1>7, <1>8, <1>9, <1>10 DEF WireOK

\* What follows for the client when the WebConn it is connected to writes.
LEMMA ClientAfterWrite ==
  ASSUME IInv, NEW w \in Conns, NEW d \in WebConns, d.phase # "unused",
         conn' = [conn EXCEPT ![w] = d],
         UNCHANGED <<clientConn, connectionId, serverSequence>>,
         clientConn # w => wire' = wire,
         clientConn = w => WireOK(d)'
  PROVE  ClientOK'
<1>1. conn'[w] = d /\ \A v \in Conns \ {w} : conn'[v] = conn[v]
  BY DEF IInv, TypeOK
<1>2. CASE clientConn = w
  <2>1. WireOK(conn[clientConn])'
    BY <1>1, <1>2 DEF WireOK
  <2>2. QED
    BY <1>1, <1>2, <2>1, WebSocketAssumption DEF IInv, ClientOK
<1>3. CASE clientConn # w
  BY <1>1, <1>3 DEF IInv, ClientOK, WireOK, TypeOK
<1>4. QED
  BY <1>2, <1>3

\* An event is numbered, recorded and written: the dead queue stays exact and the
\* wire consecutive.
LEMMA WriteEventInvariant ==
  ASSUME IInv, NEW w \in Conns, WriteEvent(w)
  PROVE  IInv'
<1> USE DEF IInv
<1>1. PICK c : c = conn[w] /\ c \in WebConns /\ ConnOK(c)
               /\ c.phase = "pumping" /\ c.send # << >>
  BY DEF WriteEvent, TypeOK
<1>2. PICK q : /\ q = Tail(c.send) /\ q \in Seq(Nat) /\ c.send[1] \in Nat
               /\ Head(c.send) = c.send[1]
               /\ \A i \in 1 .. Len(q) : q[i] # Hello
  <2>1. /\ Len(c.send) \in Nat \ {0} /\ Head(c.send) = c.send[1]
        /\ c.send[1] \in Nat /\ Tail(c.send) \in Seq(Nat)
        /\ Len(Tail(c.send)) = Len(c.send) - 1
        /\ \A i \in 1 .. Len(c.send) - 1 : Tail(c.send)[i] = c.send[i + 1]
    BY <1>1, TailElements DEF WebConns
  <2>2. \A i \in 2 .. Len(c.send) : c.send[i] # Hello
    BY <1>1 DEF ConnOK
  <2>3. \A i \in 1 .. Len(c.send) - 1 : i + 1 \in 2 .. Len(c.send)
    BY <2>1
  <2>4. \A i \in 1 .. Len(Tail(c.send)) : Tail(c.send)[i] # Hello
    BY <2>1, <2>2, <2>3
  <2>5. QED
    BY <2>1, <2>4
<1>3. PICK msg \in Message : msg = [seq |-> c.sequence, ev |-> Head(c.send)]
  BY <1>1, <1>2 DEF Message, WebConns
<1>4. PICK phase \in {"pumping", "finished"} :
        conn' = [conn EXCEPT ![w] =
          [c EXCEPT !.phase = phase, !.sequence = c.sequence + 1,
                    !.send = q, !.deadQueue = addToDeadQueue(c.deadQueue, msg)]]
  BY <1>1, <1>2, <1>3 DEF WriteEvent, AfterWrite
<1>5. PICK dq \in DeadQueues : dq = addToDeadQueue(c.deadQueue, msg)
  BY <1>1, AddType DEF WebConns
<1>6. PICK d : d = [c EXCEPT !.phase = phase, !.sequence = c.sequence + 1,
                             !.send = q, !.deadQueue = dq]
  OBVIOUS
<1>7. /\ d \in WebConns /\ d.phase = phase /\ d.id = c.id /\ d.send = q
      /\ d.sequence = c.sequence + 1 /\ d.reused = c.reused /\ d.deadQueue = dq
      /\ d.active = c.active /\ d.sendClosed = c.sendClosed /\ d.open = c.open
      /\ c.sequence \in Nat
  <2>1. c.sequence \in Nat /\ c.sequence + 1 \in Nat
    BY <1>1 DEF WebConns
  <2>2. QED
    BY <1>1, <1>2, <1>6, <2>1 DEF WebConns, Phases
<1>8. /\ conn' = [conn EXCEPT ![w] = d]
      /\ conn'[w] = d /\ \A v \in Conns \ {w} : conn'[v] = conn[v]
      /\ UNCHANGED <<hubVars, clientVars, faults, historyVars>>
  BY <1>1, <1>2, <1>4, <1>5, <1>6 DEF WriteEvent, TypeOK
<1>9. wire' = IF clientConn = w /\ c.open THEN wire \o <<msg>> ELSE wire
  BY <1>1, <1>3 DEF WriteEvent, WriteToSocket
<1>10. <<msg>> \in Seq(Message) /\ Len(<<msg>>) = 1 /\ <<msg>>[1] = msg
  OBVIOUS
<1>11. TypeOK'
  <2>1. wire' \in Seq(Message)
    BY <1>9, <1>10, ConcatElements DEF TypeOK
  <2>2. QED
    BY <1>7, <1>8, <2>1 DEF TypeOK, hubVars, clientVars, historyVars
<1>12. Greeting(c) <=> msg.ev = Hello
  BY <1>1, <1>2, <1>3 DEF Greeting
<1>13. msg.ev = Hello => msg.seq = 0
  BY <1>1, <1>3, <1>12 DEF ConnOK
<1>14. HoldsUpTo(dq, c.sequence + 1) /\ Begun(dq) /\ HelloFirst(dq)
  <2>1. HoldsUpTo(dq, c.sequence + 1)
    BY <1>1, <1>3, <1>5, AddExact DEF ConnOK, WebConns
  <2>2. HelloFirst(dq)
    BY <1>1, <1>5, <1>13, HelloFirstKept DEF ConnOK, WebConns
  <2>3. c.sequence + 1 \in Nat \ {0}
    BY <1>7
  <2>4. QED
    BY <2>1, <2>2, <2>3 DEF Begun
<1>15. ~Greeting(d)
  <2>1. q # << >> => 1 \in 1 .. Len(q)
    BY <1>2, EmptyLength
  <2>2. QED
    BY <1>2, <1>7, <2>1 DEF Greeting
<1>16. ConnOK(d) /\ ~New(d)
  <2>1. \A i \in 2 .. Len(d.send) : d.send[i] # Hello
    <3> TAKE i \in 2 .. Len(d.send)
    <3>1. Len(q) \in Nat /\ d.send = q
      BY <1>2, <1>7, EmptyLength
    <3>2. i \in 1 .. Len(q)
      BY <3>1
    <3>3. QED
      BY <1>2, <3>1, <3>2
  <2>2. d.id # NoId
    BY <1>1, <1>7 DEF ConnOK
  <2>3. QED
    BY <1>7, <1>14, <1>15, <2>1, <2>2 DEF ConnOK, New
<1>17. IndexOK'
  <2>1. w \in byConnection => Indexed(d)
    BY <1>1, <1>7, <1>14 DEF IndexOK, Indexed
  <2>2. QED
    BY <1>1, <1>7, <1>8, <2>1 DEF IndexOK, Accepted, TypeOK, hubVars
<1>18. NewIdsOK'
  BY <1>1, <1>7, <1>8, <1>16 DEF NewIdsOK, clientVars
<1>19. clientConn = w => WireOK(d)'
  <2>1. SUFFICES ASSUME clientConn = w PROVE WireOK(d)'
    OBVIOUS
  <2>2. WireOK(c)
    BY <1>1, <2>1, WebSocketAssumption DEF ClientOK
  <2>3. CASE ~c.open
    BY <1>1, <1>7, <1>8, <1>9, <1>15, <2>2, <2>3 DEF WireOK, ConnOK, clientVars
  <2>4. CASE c.open
    <3>1. /\ wire = << >> => \/ c.sequence = serverSequence
                             \/ msg.ev = Hello /\ c.sequence = 0
          /\ wire # << >> => c.sequence = wire[1].seq + Len(wire)
          /\ connectionId = NoId /\ wire = << >> => msg.ev = Hello
      BY <1>1, <1>3, <1>12, <1>13, <2>2, <2>4 DEF WireOK
    <3>2. \A i \in 1 .. Len(<<msg>>) :
            /\ <<msg>>[i].seq = c.sequence + i - 1
            /\ <<msg>>[i].ev = Hello => <<msg>>[i].seq = 0
      BY <1>3, <1>7, <1>10, <1>13
    <3>3. wire' = wire \o <<msg>>
      BY <1>9, <2>1, <2>4
    <3>4. /\ wire \in Seq(Message) /\ serverSequence \in Nat
          /\ UNCHANGED <<connectionId, serverSequence>>
      BY <1>8 DEF TypeOK, clientVars
    <3>5. d.phase \in {"pumping", "finished"} /\ d.id # NoId
          /\ d.sequence = c.sequence + Len(<<msg>>) /\ Len(<<msg>>) > 0
      BY <1>1, <1>7, <1>10 DEF ConnOK
    <3>6. QED
      BY <1>1, <1>7, <1>10, <1>15, <2>2, <3>1, <3>2, <3>3, <3>4, <3>5, WireGrows
  <2>5. QED
    BY <2>3, <2>4
<1>20. ClientOK'
  BY <1>7, <1>8, <1>9, <1>19, ClientAfterWrite DEF clientVars
<1>21. QED
  BY <1>8, <1>11, <1>16, <1>17, <1>18, <1>20

\* Message loss: a fresh id, a stream that starts at 0, a dead queue with its hello.
LEMMA StartWithLossInvariant ==
  ASSUME IInv, NEW w \in Conns, StartWithLoss(w)
  PROVE  IInv'
<1> USE DEF IInv
<1>1. PICK c : c = conn[w] /\ c \in WebConns /\ ConnOK(c)
               /\ c.phase = "registered" /\ c.sequence # 0
  BY DEF StartWithLoss, TypeOK
<1>2. PICK hello \in Message : /\ hello = [seq |-> 0, ev |-> Hello]
                               /\ hello.seq = 0 /\ hello.ev = Hello
  <2>1. [seq |-> 0, ev |-> Hello] \in Message
    BY DEF Message, Hello
  <2>2. QED
    BY <2>1, Zenon
<1>3. c.reused /\ Begun(c.deadQueue) /\ ~Greeting(c)
  BY <1>1 DEF ConnOK, Starts
<1>4. PICK dq \in DeadQueues :
        /\ dq = addToDeadQueue(clearDeadQueue(c.deadQueue), hello)
        /\ HoldsUpTo(dq, 1) /\ HelloFirst(dq)
  <2>1. PICK n \in Nat : HoldsUpTo(c.deadQueue, n)
    BY <1>3 DEF Begun
  <2>2. clearDeadQueue(c.deadQueue) = EmptyDeadQueue
    BY <1>1, <2>1, ClearEmpties DEF WebConns
  <2>3. HoldsUpTo(addToDeadQueue(EmptyDeadQueue, hello), 0 + 1)
    BY <1>2, EmptyExact, AddExact
  <2>4. /\ addToDeadQueue(EmptyDeadQueue, hello) \in DeadQueues
        /\ HelloFirst(addToDeadQueue(EmptyDeadQueue, hello))
    BY <1>2, EmptyExact, AddType, HelloFirstKept
  <2>5. 0 + 1 = 1
    OBVIOUS
  <2>6. QED
    BY <2>2, <2>3, <2>4, <2>5
<1>5. PICK id \in FreshIds, phase \in {"pumping", "finished"} :
        conn' = [conn EXCEPT ![w] =
          [c EXCEPT !.phase = phase, !.id = id, !.sequence = 1,
                    !.deadQueue = dq]]
  BY <1>1, <1>2, <1>4 DEF StartWithLoss, AfterWrite
<1>6. /\ id \in Ids /\ id # NoId /\ id # connectionId
      /\ \A v \in Conns : conn[v].id # id
  BY WebSocketAssumption DEF FreshIds
<1>7. PICK d : d = [c EXCEPT !.phase = phase, !.id = id, !.sequence = 1,
                             !.deadQueue = dq]
  OBVIOUS
<1>8. /\ d \in WebConns /\ d.phase = phase /\ d.id = id /\ d.send = c.send
      /\ d.sequence = 1 /\ d.reused = c.reused /\ d.deadQueue = dq
      /\ d.active = c.active /\ d.sendClosed = c.sendClosed /\ d.open = c.open
  BY <1>1, <1>6, <1>7 DEF WebConns, Phases
<1>9. /\ conn' = [conn EXCEPT ![w] = d]
      /\ conn'[w] = d /\ \A v \in Conns \ {w} : conn'[v] = conn[v]
      /\ UNCHANGED <<hubVars, clientVars, faults, historyVars>>
  BY <1>1, <1>5, <1>7 DEF StartWithLoss, TypeOK
<1>10. wire' = IF clientConn = w /\ c.open THEN wire \o <<hello>> ELSE wire
  BY <1>1, <1>2 DEF StartWithLoss, WriteToSocket
<1>11. /\ <<hello>> \in Seq(Message) /\ Len(<<hello>>) = 1
       /\ <<hello>>[1] = hello
  OBVIOUS
<1>12. TypeOK'
  <2>1. wire' \in Seq(Message)
    BY <1>10, <1>11, ConcatElements DEF TypeOK
  <2>2. QED
    BY <1>8, <1>9, <2>1 DEF TypeOK, hubVars, clientVars, historyVars
<1>13. ~Greeting(d) /\ ~New(d) /\ Begun(dq)
  BY <1>3, <1>4, <1>8 DEF Greeting, New, Begun
<1>14. ConnOK(d)
  BY <1>1, <1>4, <1>6, <1>8, <1>13 DEF ConnOK
<1>15. IndexOK'
  <2>1. w \in byConnection => Indexed(d)
    BY <1>1, <1>6, <1>8, <1>13 DEF IndexOK, Indexed
  <2>2. QED
    BY <1>1, <1>6, <1>8, <1>9, <2>1 DEF IndexOK, Accepted, TypeOK, hubVars
<1>16. NewIdsOK'
  BY <1>6, <1>8, <1>9, <1>13 DEF NewIdsOK, clientVars
<1>17. clientConn = w => WireOK(d)'
  <2>1. SUFFICES ASSUME clientConn = w PROVE WireOK(d)'
    OBVIOUS
  <2>2. WireOK(c) /\ wire = << >> /\ connectionId # NoId
    BY <1>1, <1>3, <2>1, WebSocketAssumption DEF ClientOK, WireOK
  <2>3. CASE ~c.open
    <3>1. wire' = << >>
      BY <1>10, <2>2, <2>3
    <3>2. Len(wire') = 0
      BY <3>1
    <3>3. connectionId' = connectionId
      BY <1>9 DEF clientVars
    <3>4. QED
      BY <1>8, <2>2, <2>3, <3>1, <3>2, <3>3 DEF WireOK
  <2>4. CASE c.open
    <3>1. \A i \in 1 .. Len(<<hello>>) :
            /\ <<hello>>[i].seq = 0 + i - 1
            /\ <<hello>>[i].ev = Hello => <<hello>>[i].seq = 0
      BY <1>2, <1>11
    <3>2. wire' = wire \o <<hello>>
      BY <1>10, <2>1, <2>4
    <3>3. /\ wire \in Seq(Message) /\ serverSequence \in Nat
          /\ UNCHANGED <<connectionId, serverSequence>>
      BY <1>9 DEF TypeOK, clientVars
    <3>4. /\ d.phase \in {"pumping", "finished"} /\ d.id # NoId
          /\ d.sequence = 0 + Len(<<hello>>) /\ Len(<<hello>>) > 0 /\ 0 \in Nat
      BY <1>6, <1>8, <1>11
    <3>5. <<hello>>[1].ev = Hello
      BY <1>2, <1>11
    <3>6. QED
      BY <1>1, <1>8, <1>11, <1>13, <2>2, <3>1, <3>2, <3>3, <3>4, <3>5, WireGrows
  <2>5. QED
    BY <2>3, <2>4
<1>18. ClientOK'
  BY <1>8, <1>9, <1>10, <1>17, ClientAfterWrite DEF clientVars
<1>19. QED
  BY <1>9, <1>12, <1>14, <1>15, <1>16, <1>18

\* The dead queue is drained: the numbers from the client's on, to the stream's next.
LEMMA StartFromDeadQueueInvariant ==
  ASSUME IInv, NEW w \in Conns, StartFromDeadQueue(w)
  PROVE  IInv'
<1> USE DEF IInv
<1>1. PICK c : c = conn[w] /\ c \in WebConns /\ ConnOK(c)
               /\ c.phase = "registered" /\ c.sequence \in Nat \ {0}
               /\ c.deadQueue \in DeadQueues /\ c.id # NoId
               /\ isInDeadQueue(c.deadQueue, c.sequence)
  BY DEF StartFromDeadQueue, TypeOK, WebConns, ConnOK
<1>2. c.reused /\ Begun(c.deadQueue) /\ ~Greeting(c)
  BY <1>1 DEF ConnOK, Starts
<1>3. PICK n \in Nat : HoldsUpTo(c.deadQueue, n)
  BY <1>2 DEF Begun
<1>4. PICK msgs :
        msgs = drainDeadQueue(c.deadQueue, SlotOf(c.deadQueue, c.sequence))
  OBVIOUS
<1>5. /\ msgs \in Seq(Message) /\ Len(msgs) = n - c.sequence
      /\ \A k \in 1 .. n - c.sequence :
           /\ msgs[k].seq = c.sequence + k - 1
           /\ \E i \in Slots : msgs[k] = c.deadQueue.buf[i]
  <2>1. PICK dq \in DeadQueues, seq \in Nat :
          dq = c.deadQueue /\ seq = c.sequence
    BY <1>1
  <2>2. /\ HoldsUpTo(dq, n) /\ isInDeadQueue(dq, seq)
        /\ msgs = drainDeadQueue(dq, SlotOf(dq, seq))
    BY <1>1, <1>3, <1>4, <2>1
  <2>3. msgs \in Seq(Message)
    BY <2>2, DrainExact
  <2>4. Len(msgs) = n - seq
    BY <2>2, DrainExact
  <2>5. \A k \in 1 .. n - seq : msgs[k].seq = seq + k - 1
    BY <2>2, DrainExact
  <2>6. \A k \in 1 .. n - seq : \E i \in Slots : msgs[k] = dq.buf[i]
    BY <2>2, DrainExact
  <2>7. QED
    BY <2>1, <2>3, <2>4, <2>5, <2>6
<1>6. n - c.sequence > 0 /\ n - c.sequence \in Nat
  BY <1>1, <1>3, IsInDeadQueueExact
<1>7. \A k \in 1 .. Len(msgs) :
        /\ msgs[k].seq = c.sequence + k - 1
        /\ msgs[k].ev = Hello => msgs[k].seq = 0
  <2> TAKE k \in 1 .. Len(msgs)
  <2>1. PICK i \in Slots : msgs[k] = c.deadQueue.buf[i]
    BY <1>5
  <2>2. msgs[k] # Nil
    <3>1. msgs[k] \in Message
      BY <1>5
    <3>2. QED
      BY <3>1, DeadQueueAssumption DEF Message
  <2>3. QED
    BY <1>1, <1>5, <2>1, <2>2 DEF ConnOK, HelloFirst
<1>8. CASE /\ conn' = [conn EXCEPT ![w] = [c EXCEPT !.phase = "pumping",
                                             !.sequence = c.sequence + Len(msgs)]]
           /\ WriteToSocket(w, msgs)
  <2>1. PICK d : d = [c EXCEPT !.phase = "pumping", !.sequence = n]
    OBVIOUS
  <2>2. c.sequence + Len(msgs) = n
    BY <1>1, <1>5
  <2>3. /\ d \in WebConns /\ d.phase = "pumping" /\ d.id = c.id
        /\ d.send = c.send /\ d.sequence = n /\ d.reused = c.reused
        /\ d.deadQueue = c.deadQueue /\ d.active = c.active
        /\ d.sendClosed = c.sendClosed /\ d.open = c.open
    BY <1>1, <2>1 DEF WebConns, Phases
  <2>4. /\ conn' = [conn EXCEPT ![w] = d]
        /\ conn'[w] = d /\ \A v \in Conns \ {w} : conn'[v] = conn[v]
        /\ UNCHANGED <<hubVars, clientVars, faults, historyVars>>
    BY <1>8, <2>1, <2>2 DEF StartFromDeadQueue, TypeOK
  <2>5. wire' = IF clientConn = w /\ c.open THEN wire \o msgs ELSE wire
    BY <1>1, <1>8 DEF WriteToSocket
  <2>6. TypeOK'
    <3>1. wire' \in Seq(Message)
      BY <1>5, <2>5, ConcatElements DEF TypeOK
    <3>2. QED
      BY <2>3, <2>4, <3>1 DEF TypeOK, hubVars, clientVars, historyVars
  <2>7. ~Greeting(d) /\ ~New(d)
    BY <1>2, <2>3 DEF Greeting, New
  <2>8. ConnOK(d)
    BY <1>1, <1>3, <1>6, <2>3, <2>7 DEF ConnOK
  <2>9. IndexOK'
    <3>1. w \in byConnection => Indexed(d)
      BY <1>1, <1>2, <2>3 DEF IndexOK, Indexed
    <3>2. QED
      BY <1>1, <2>3, <2>4, <3>1 DEF IndexOK, Accepted, TypeOK, hubVars
  <2>10. NewIdsOK'
    BY <1>1, <2>3, <2>4, <2>7 DEF NewIdsOK, clientVars
  <2>11. clientConn = w => WireOK(d)'
    <3>1. SUFFICES ASSUME clientConn = w PROVE WireOK(d)'
      OBVIOUS
    <3>2. /\ WireOK(c) /\ wire = << >> /\ connectionId # NoId
          /\ c.sequence = serverSequence
      BY <1>1, <1>2, <3>1, WebSocketAssumption DEF ClientOK, WireOK
    <3>3. /\ wire \in Seq(Message) /\ serverSequence \in Nat
          /\ UNCHANGED <<connectionId, serverSequence>>
      BY <2>4 DEF TypeOK, clientVars
    <3>4. CASE ~c.open
      <4>1. wire' = << >>
        BY <2>5, <3>2, <3>4
      <4>2. Len(wire') = 0
        BY <4>1
      <4>3. QED
        BY <2>3, <3>2, <3>3, <3>4, <4>1, <4>2 DEF WireOK
    <3>5. CASE c.open
      <4>1. wire' = wire \o msgs
        BY <2>5, <3>1, <3>5
      <4>2. Len(msgs) > 0 /\ d.sequence = c.sequence + Len(msgs)
            /\ d.phase \in {"pumping", "finished"} /\ d.id # NoId
        BY <1>1, <1>5, <1>6, <2>2, <2>3
      <4>3. QED
        BY <1>1, <1>5, <1>7, <2>3, <2>7, <3>2, <3>3, <4>1, <4>2, WireGrows
    <3>6. QED
      BY <3>4, <3>5
  <2>12. ClientOK'
    BY <2>3, <2>4, <2>5, <2>11, ClientAfterWrite DEF clientVars
  <2>13. QED
    BY <2>4, <2>6, <2>8, <2>9, <2>10, <2>12
<1>9. ASSUME NEW k \in 1 .. Len(msgs), ~c.open,
             conn' = [conn EXCEPT ![w] =
               [c EXCEPT !.phase = "finished", !.sequence = c.sequence + k]],
             UNCHANGED wire
      PROVE  IInv'
  <2>1. PICK m \in Nat : m = c.sequence + k /\ m # 0
    BY <1>1, <1>5, <1>6
  <2>2. PICK d : d = [c EXCEPT !.phase = "finished", !.sequence = m]
    OBVIOUS
  <2>3. /\ d \in WebConns /\ d.phase = "finished" /\ d.id = c.id
        /\ d.send = c.send /\ d.sequence = m /\ d.reused = c.reused
        /\ d.deadQueue = c.deadQueue /\ d.active = c.active
        /\ d.sendClosed = c.sendClosed /\ d.open = c.open
    BY <1>1, <2>2 DEF WebConns, Phases
  <2>4. /\ conn' = [conn EXCEPT ![w] = d]
        /\ UNCHANGED <<byConnection, clientConn, connectionId, serverSequence,
                       wire>>
        /\ UNCHANGED <<hubVars, clientVars, faults, historyVars>>
    BY <1>9, <2>1, <2>2 DEF StartFromDeadQueue, hubVars, clientVars
  <2>5. TypeOK'
    BY <2>3, <2>4 DEF TypeOK, hubVars, clientVars, historyVars
  <2>6. ConnOK(d) /\ ~New(d) /\ (w \in byConnection => Indexed(d))
    BY <1>1, <1>2, <2>3 DEF ConnOK, New, Greeting, IndexOK, Indexed
  <2>7. clientConn = w => WireOK(d)
    BY <1>1, <1>2, <1>9, <2>3, WebSocketAssumption
      DEF ClientOK, WireOK, Greeting
  <2>8. QED
    BY <1>1, <2>3, <2>4, <2>5, <2>6, <2>7, StepOfOne
<1>10. \/ /\ conn' = [conn EXCEPT ![w] = [c EXCEPT !.phase = "pumping",
                                            !.sequence = c.sequence + Len(msgs)]]
          /\ WriteToSocket(w, msgs)
       \/ /\ ~c.open
          /\ \E k \in 1 .. Len(msgs) :
               conn' = [conn EXCEPT ![w] =
                 [c EXCEPT !.phase = "finished", !.sequence = c.sequence + k]]
          /\ UNCHANGED wire
  BY <1>1, <1>4 DEF StartFromDeadQueue
<1>11. QED
  BY <1>8, <1>9, <1>10

-----------------------------------------------------------------------------
(* The theorems *)

\* Every step keeps the invariant: one step of the proof per action.
LEMMA InvariantKept == IInv /\ [Next]_vars => IInv'
<1> SUFFICES ASSUME IInv, [Next]_vars PROVE IInv'
  OBVIOUS
<1>1. CASE UNCHANGED vars
  BY <1>1 DEF vars, IInv, TypeOK, IndexOK, Accepted, NewIdsOK, ClientOK, WireOK
<1>2. CASE Next
  BY <1>2, ClientInitializeInvariant, CheckConnFoundInvariant,
    CheckConnNotFoundInvariant, HubRegisterInvariant, HubRegisterErrorInvariant,
    StartLosslessInvariant, StartFromDeadQueueInvariant, StartWithLossInvariant,
    WriteEventInvariant, WriteCloseInvariant, EndWritePumpInvariant,
    HubUnregisterInvariant, CollectInvariant, HubBroadcastInvariant,
    RemoveInactiveConnectionsInvariant, InvalidateUserErrorInvariant,
    HubPanicInvariant, ServerRestartInvariant, BreakSocketInvariant,
    ClientReceiveInvariant, ClientOnCloseInvariant, ClientPingTimeoutInvariant
    DEF Next, Handler, WritePump, Client
<1>3. QED
  BY <1>1, <1>2

\* The inductive invariant: dead queues hold exactly the last numbers of their
\* streams, the index is sound, ids are nobody else's, and the wire carries
\* consecutive numbers from the one the client expects (web_conn.go, web_hub.go,
\* websocket.ts).
THEOREM Invariance == Spec => []IInv
  BY InitInvariant, InvariantKept, PTL DEF Spec

\* Every variable keeps its type; that what drainDeadQueue puts on the wire are
\* messages and no empty slots rests on the whole invariant.
THEOREM TypeCorrect == Spec => []TypeOK
<1>1. IInv => TypeOK
  BY DEF IInv
<1>2. QED
  BY <1>1, Invariance, PTL

\* The hub never sends to a closed channel and never closes one twice, and an
\* id names at most one WebConn of the index.
THEOREM IndexIsSound == Spec => []IndexSound
<1>1. IInv => IndexSound
  BY DEF IInv, IndexOK, Indexed, IndexSound
<1>2. QED
  BY <1>1, Invariance, PTL

\* Whatever fails and in whatever order, the next message the client receives
\* has the number it expects or opens a new stream.
THEOREM ClientStaysInSequence == Spec => []ClientInSequence
<1>1. IInv => ClientInSequence
  <2> SUFFICES ASSUME IInv, clientConn # NoConn, wire # << >>
               PROVE  \/ Head(wire).seq = serverSequence
                      \/ Head(wire).ev = Hello /\ Head(wire).seq = 0
    BY DEF ClientInSequence
  <2>1. Head(wire) = wire[1]
    BY TailElements DEF IInv, TypeOK
  <2>2. QED
    BY <2>1 DEF IInv, ClientOK, WireOK
<1>2. QED
  BY <1>1, Invariance, PTL

=============================================================================

------------------------- MODULE ReliableStream_proof -------------------------
(***************************************************************************)
(* For every number of WebConns and ids, every size of the queues and any  *)
(* number of events and faults: reliable websockets implement EventStream, *)
(* and nothing is left behind while the client holds its stream.           *)
(***************************************************************************)
EXTENDS ReliableWebSocket_proof

-----------------------------------------------------------------------------
(* The inductive invariant of the stream *)

\* The WebConns that hold the queues of a stream.
Holders ==
  byConnection \cup
    {w \in Conns : conn[w].phase \in {"accepted", "registered", "pumping"}}

\* Broadcasts reach the queue, or are counted as skipped.
Live(w) == w \in byConnection \/ conn[w].phase = "accepted"

Elements(s) == {s[i] : i \in 1 .. Len(s)}
Messages(dq) == {dq.buf[i] : i \in Slots} \ {Nil}
Events(msgs) == {m.ev : m \in msgs}
From(msgs, seq) == {m \in msgs : m.seq >= seq}

\* The messages on the wire, when they are of the stream id.
WireOf(id) ==
  IF clientConn # NoConn /\ conn[clientConn].id = id THEN Elements(wire) ELSE {}

\* Later numbers for later events.
Rising(msgs) ==
  \A a, b \in msgs : /\ a.seq < b.seq => a.ev < b.ev
                     /\ a.seq = b.seq => a.ev = b.ev

\* The messages sent and the queue send are in the order of the broadcasts, and
\* the numbers on the wire are used up.
Ordered(c, onWire, last) ==
  LET sent == Messages(c.deadQueue) \cup onWire IN
  /\ Rising(sent)
  /\ \A m \in sent : m.ev <= last /\ \A k \in 1 .. Len(c.send) : m.ev < c.send[k]
  /\ \A k \in 1 .. Len(c.send) :
       c.send[k] <= last /\ \A j \in 1 .. k - 1 : c.send[j] < c.send[k]
  /\ \A n \in Nat : HoldsUpTo(c.deadQueue, n) => \A m \in onWire : m.seq < n

\* Nothing before an event of xs is outside of all.
NoGap(xs, all) == \A x \in xs : 1 .. x - 1 \subseteq all

\* What the queues of c hold from the number next on.
Ahead(c, next) ==
  Events(From(Messages(c.deadQueue), next)) \cup Elements(c.send)

\* The queues of c go on from the number next without a gap, for a client that
\* has the events got; those of a live WebConn go on to the last event.
Complete(c, next, got, live, last) ==
  /\ NoGap(Ahead(c, next), got \cup Ahead(c, next))
  /\ live => 1 .. last \subseteq got \cup Ahead(c, next)

GoesOn(c, next, got, live, last) ==
  \A n \in Nat : HoldsUpTo(c.deadQueue, n) =>
    /\ next <= n
    /\ n - deadQueueSize <= next => Complete(c, next, got, live, last)

Got == Stream!Accounted \cup skipped
Received == Got \cup Events(WireOf(connectionId))
Reached ==
  serverSequence + (IF clientConn # NoConn /\ conn[clientConn].id = connectionId
                      THEN Len(wire) ELSE 0)

\* What is still to come is later than what was delivered.
Later(c) ==
  \A x \in Elements(delivered) : \A y \in Ahead(c, serverSequence) : x < y

\* The client's socket: its WebConn has the client's id until a hello is sent, and
\* an id the client does not know is known to no other WebConn.
SocketOK(c) ==
  /\ c.phase = "connecting" \/ (c.phase \in {"accepted", "registered"} /\ c.reused)
       => c.id = connectionId
  /\ wire # << >> => (c.id = connectionId <=> wire[1].ev # Hello)
  /\ c.open /\ c.phase = "pumping" /\ wire = << >> /\ ~Greeting(c)
       => c.id = connectionId
  /\ c.id \notin {connectionId, NoId} =>
       \A v \in Conns : conn[v].id = c.id => v = clientConn

WireInOrder ==
  /\ \A i \in 1 .. Len(wire) :
       wire[i].ev <= published /\ \A j \in 1 .. i - 1 : wire[j].ev < wire[i].ev
  /\ NoGap(Events(WireOf(connectionId)), Received)
  /\ \A x \in Elements(delivered) :
       \A y \in Events(WireOf(connectionId)) : x < y

StreamOK ==
  /\ \A v, w \in Holders : conn[v].id = conn[w].id => v = w
  /\ \A x \in Elements(delivered) : x <= published
  /\ clientConn # NoConn => SocketOK(conn[clientConn])
  /\ WireInOrder
  /\ \A w \in Holders :
       Ordered(conn[w], WireOf(conn[w].id), published)
  /\ \A w \in Holders : conn[w].id = connectionId =>
       /\ GoesOn(conn[w], Reached, Received, Live(w), published)
       /\ Later(conn[w])

-----------------------------------------------------------------------------
(* The messages of a dead queue *)

\* What a dead queue that is exact up to n holds: the numbers below n, as many as
\* there are slots.
LEMMA MessagesExact ==
  ASSUME NEW dq \in DeadQueues, NEW n \in Nat, HoldsUpTo(dq, n)
  PROVE  /\ Messages(dq) \subseteq Message
         /\ \A m \in Messages(dq) : n - deadQueueSize <= m.seq /\ m.seq < n
         /\ \A seq \in Nat : n - deadQueueSize <= seq /\ seq < n =>
              \E m \in Messages(dq) : m.seq = seq
<1>1. dq.ptr \in Slots /\ dq.buf \in [Slots -> Message \cup {Nil}]
  BY DEF DeadQueues
<1>2. Messages(dq) \subseteq Message
  BY <1>1 DEF Messages
<1>3. ASSUME NEW i \in Slots, dq.buf[i] # Nil
      PROVE  n - deadQueueSize <= dq.buf[i].seq /\ dq.buf[i].seq < n
  <2>1. SlotExact(dq, n - dq.ptr, i)
    BY DEF HoldsUpTo
  <2>2. dq.buf[i].seq = IF i < dq.ptr THEN n - dq.ptr + i
                                      ELSE n - dq.ptr + i - deadQueueSize
    BY <1>3, <2>1 DEF SlotExact
  <2>3. /\ dq.ptr \in 0 .. deadQueueSize - 1 /\ i \in 0 .. deadQueueSize - 1
        /\ deadQueueSize \in Nat
    BY <1>1, DeadQueueAssumption DEF Slots
  <2>4. QED
    BY <2>2, <2>3
<1>4. ASSUME NEW seq \in Nat, n - deadQueueSize <= seq, seq < n
      PROVE  \E m \in Messages(dq) : m.seq = seq
  <2>1. isInDeadQueue(dq, seq)
    BY <1>4, IsInDeadQueueExact
  <2>2. PICK i \in Slots : dq.buf[i] # Nil /\ dq.buf[i].seq = seq
    <3>1. PICK i \in MatchingSlots(dq, seq) : TRUE
      BY <2>1 DEF isInDeadQueue
    <3>2. i \in Slots /\ dq.buf[i].seq = seq /\ \A j \in 0 .. i : dq.buf[j] # Nil
      BY DEF MatchingSlots
    <3>3. i \in 0 .. i
      BY <3>2, DeadQueueAssumption DEF Slots
    <3>4. QED
      BY <3>2, <3>3
  <2>3. QED
    BY <2>2 DEF Messages
<1>5. QED
  BY <1>2, <1>3, <1>4 DEF Messages

\* A dead queue is exact for one stream position only.
LEMMA NumberUnique ==
  ASSUME NEW dq \in DeadQueues, NEW m \in Nat, NEW n \in Nat,
         HoldsUpTo(dq, m), HoldsUpTo(dq, n)
  PROVE  m = n
<1>1. ASSUME NEW i \in Nat, NEW j \in Nat, HoldsUpTo(dq, i), HoldsUpTo(dq, j)
      PROVE  ~(i < j)
  <2> SUFFICES ASSUME i < j PROVE FALSE
    OBVIOUS
  <2>1. j - 1 \in Nat /\ j - deadQueueSize <= j - 1 /\ j - 1 < j
    BY DeadQueueAssumption
  <2>2. PICK msg \in Messages(dq) : msg.seq = j - 1
    BY <1>1, <2>1, MessagesExact
  <2>3. msg.seq < i
    BY <1>1, MessagesExact
  <2>4. QED
    BY <2>2, <2>3
<1>2. QED
  BY <1>1

\* addToDeadQueue adds its message and gives up at most the oldest one.
LEMMA AddMessages ==
  ASSUME NEW dq \in DeadQueues, NEW n \in Nat, HoldsUpTo(dq, n),
         NEW msg \in Message
  PROVE  LET next == Messages(addToDeadQueue(dq, msg))
         IN  /\ next \subseteq Messages(dq) \cup {msg}
             /\ msg \in next
             /\ \A m \in Messages(dq) : m.seq # n - deadQueueSize => m \in next
<1>1. dq.ptr \in Slots /\ dq.buf \in [Slots -> Message \cup {Nil}] /\ msg # Nil
  BY DeadQueueAssumption DEF DeadQueues, Message
<1>2. \A i \in Slots : addToDeadQueue(dq, msg).buf[i]
                        = IF i = dq.ptr THEN msg ELSE dq.buf[i]
  BY <1>1 DEF addToDeadQueue
<1>3. dq.buf[dq.ptr] # Nil => dq.buf[dq.ptr].seq = n - deadQueueSize
  <2>1. SlotExact(dq, n - dq.ptr, dq.ptr)
    BY <1>1 DEF HoldsUpTo
  <2>2. dq.ptr \in Nat /\ deadQueueSize \in Nat
    BY <1>1, DeadQueueAssumption DEF Slots
  <2>3. dq.buf[dq.ptr] # Nil
          => dq.buf[dq.ptr].seq = n - dq.ptr + dq.ptr - deadQueueSize
    BY <2>1, <2>2 DEF SlotExact
  <2>4. QED
    BY <2>2, <2>3
<1>4. QED
  BY <1>1, <1>2, <1>3 DEF Messages

\* Nothing is in an empty dead queue.
LEMMA EmptyMessages == Messages(EmptyDeadQueue) = {}
  BY DEF Messages, EmptyDeadQueue

-----------------------------------------------------------------------------
(* Steps that hand queues on *)

SameQueues(c, d) ==
  d.id = c.id /\ d.deadQueue = c.deadQueue /\ d.send = c.send

\* A stream that nobody has seen yet.
FreshStream(c) ==
  /\ c.deadQueue = EmptyDeadQueue
  /\ c.send \in {<< >>, <<Hello>>}
  /\ c.id # connectionId
  /\ WireOf(c.id) = {}

LEMMA NothingOnTheWire ==
  Elements(<< >>) = {} /\ (wire = << >> => \A id : WireOf(id) = {})
<1>1. Elements(<< >>) = {}
  BY DEF Elements
<1>2. QED
  BY <1>1 DEF WireOf

\* A queue with nothing but the hello is in order.
LEMMA FreshOrdered ==
  ASSUME NEW c, NEW last \in Nat, FreshStream(c)
  PROVE  Ordered(c, {}, last)
<1>1. \A k \in 1 .. Len(c.send) : c.send[k] = 0 /\ \A j \in 1 .. k - 1 : FALSE
  <2>1. CASE c.send = << >>
    BY <2>1
  <2>2. CASE c.send = <<Hello>>
    <3>1. Len(c.send) = 1 /\ c.send[1] = 0
      BY <2>2 DEF Hello
    <3>2. QED
      BY <3>1
  <2>3. QED
    BY <2>1, <2>2 DEF FreshStream
<1>2. Messages(c.deadQueue) \cup {} = {}
  BY EmptyMessages DEF FreshStream
<1>3. \A k \in 1 .. Len(c.send) :
        c.send[k] <= last /\ \A j \in 1 .. k - 1 : c.send[j] < c.send[k]
  BY <1>1
<1>4. QED
  BY <1>2, <1>3 DEF Ordered, Rising

\* A step that leaves the wire and the client's stream alone, and after which
\* each holder is the one before or starts a stream, or took over its queues.
LEMMA QueuesHandedOn ==
  ASSUME StreamOK, published \in Nat,
         UNCHANGED <<connectionId, serverSequence, wire, published, base,
                     delivered, skipped>>,
         \/ wire = << >>
         \/ /\ clientConn' = clientConn
            /\ clientConn # NoConn => conn'[clientConn].id = conn[clientConn].id,
         \A v, w \in Holders' : conn'[v].id = conn'[w].id => v = w,
         \A v \in Holders' :
           \/ FreshStream(conn'[v])
           \/ \E u \in Holders :
                SameQueues(conn[u], conn'[v]) /\ (Live(v)' => Live(u)),
         clientConn' # NoConn => SocketOK(conn[clientConn])'
  PROVE  StreamOK'
<1> USE DEF StreamOK
<1>1. \A id : WireOf(id)' = WireOf(id)
  <2>1. CASE wire = << >>
    BY <2>1, NothingOnTheWire DEF WireOf
  <2>2. CASE wire # << >>
    BY <2>2 DEF WireOf
  <2>3. QED
    BY <2>1, <2>2
<1>2. Got' = Got /\ Received' = Received
  BY <1>1 DEF Got, Stream!Accounted, Received
<1>3. Reached' = Reached
  BY DEF Reached
<1>4. WireInOrder'
  BY <1>1, <1>2 DEF WireInOrder
<1>5. ASSUME NEW v \in Holders'
      PROVE  /\ Ordered(conn'[v], WireOf(conn'[v].id), published)
             /\ conn'[v].id = connectionId =>
                  /\ GoesOn(conn'[v], Reached, Received, Live(v)', published)
                  /\ Later(conn'[v])
  <2>1. CASE FreshStream(conn'[v])
    BY <2>1, FreshOrdered DEF FreshStream
  <2>2. ASSUME NEW u \in Holders, SameQueues(conn[u], conn'[v]),
               Live(v)' => Live(u)
        PROVE  /\ Ordered(conn'[v], WireOf(conn'[v].id), published)
               /\ conn'[v].id = connectionId =>
                    /\ GoesOn(conn'[v], Reached, Received, Live(v)', published)
                    /\ Later(conn'[v])
    BY <2>2 DEF SameQueues, Ordered, GoesOn, Complete, Ahead, Later
  <2>3. QED
    BY <1>5, <2>1, <2>2
<1>6. \A v \in Holders' : Later(conn'[v]) => Later(conn[v])'
  BY DEF Later, Ahead
<1>7. QED
  BY <1>1, <1>2, <1>3, <1>4, <1>5, <1>6

\* Such a step of WebConns that keep their queues.
LEMMA QueuesKept ==
  ASSUME IInv, StreamOK, byConnection' \subseteq byConnection,
         UNCHANGED <<clientConn, connectionId, serverSequence, wire, published,
                     base, delivered, skipped>>,
         \A v \in Conns :
           /\ SameQueues(conn[v], conn'[v])
           /\ conn'[v].phase \in {"accepted", "registered", "pumping"} =>
                v \in Holders
           /\ conn'[v].phase = "accepted" => conn[v].phase = "accepted",
         clientConn # NoConn => SocketOK(conn'[clientConn])
  PROVE  StreamOK'
<1>1. byConnection \subseteq Conns /\ clientConn \in Conns \cup {NoConn}
      /\ published \in Nat
  BY WebSocketAssumption DEF IInv, TypeOK
<1>2. Holders' \subseteq Holders /\ Holders \subseteq Conns
  BY <1>1 DEF Holders
<1>3. \A v, w \in Holders' : conn'[v].id = conn'[w].id => v = w
  BY <1>2 DEF StreamOK, SameQueues
<1>4. \A v \in Holders' : Live(v)' => Live(v)
  BY <1>2 DEF Live
<1>5. \A v \in Holders' : \E u \in Holders :
        SameQueues(conn[u], conn'[v]) /\ (Live(v)' => Live(u))
  BY <1>2, <1>4
<1>6. clientConn' # NoConn => SocketOK(conn[clientConn])'
  BY <1>1 DEF SocketOK, SameQueues
<1>7. clientConn # NoConn => conn'[clientConn].id = conn[clientConn].id
  BY <1>1 DEF SameQueues
<1>8. QED
  BY <1>1, <1>3, <1>5, <1>6, <1>7, QueuesHandedOn

\* Such a step of one WebConn.
LEMMA OneKeepsQueues ==
  ASSUME IInv, StreamOK, NEW w \in Conns, NEW d,
         conn' = [conn EXCEPT ![w] = d], byConnection' = byConnection,
         UNCHANGED <<clientConn, connectionId, serverSequence, wire, published,
                     base, delivered, skipped>>,
         SameQueues(conn[w], d),
         d.phase \in {"accepted", "registered", "pumping"} => w \in Holders,
         d.phase = "accepted" => conn[w].phase = "accepted",
         clientConn = w => SocketOK(d)
  PROVE  StreamOK'
<1>1. conn'[w] = d /\ \A v \in Conns \ {w} : conn'[v] = conn[v]
  BY DEF IInv, TypeOK
<1>2. \A v \in Conns \ {w} :
        /\ SameQueues(conn[v], conn[v])
        /\ conn[v].phase \in {"accepted", "registered", "pumping"} =>
             v \in Holders
  BY DEF SameQueues, Holders
<1>3. clientConn \in Conns \cup {NoConn}
  BY DEF IInv, TypeOK
<1>4. clientConn # NoConn => SocketOK(conn'[clientConn])
  BY <1>1, <1>3 DEF StreamOK
<1>5. QED
  BY <1>1, <1>2, <1>4, QueuesKept

\* A failed registration gives the queues up.
LEMMA HubRegisterErrorStream ==
  ASSUME IInv, StreamOK, NEW w \in Conns, HubRegisterError(w)
  PROVE  StreamOK'
<1>1. PICK c : c = conn[w] /\ c \in WebConns
  BY DEF IInv, TypeOK
<1>2. PICK d : d = [c EXCEPT !.phase = "closed", !.active = TRUE, !.open = FALSE]
  OBVIOUS
<1>3. /\ d.phase = "closed" /\ d.id = c.id /\ d.open = FALSE
      /\ d.send = c.send /\ d.reused = c.reused /\ d.deadQueue = c.deadQueue
  BY <1>1, <1>2 DEF WebConns
<1>4. /\ conn' = [conn EXCEPT ![w] = d]
      /\ UNCHANGED <<byConnection, clientConn, connectionId, serverSequence,
                     wire, published, base, delivered, skipped>>
  BY <1>1, <1>2 DEF HubRegisterError, hubVars, clientVars, historyVars
<1>5. SameQueues(c, d) /\ (clientConn = w => SocketOK(d))
  BY <1>1, <1>3, WebSocketAssumption DEF SameQueues, StreamOK, SocketOK
<1>6. QED
  BY <1>1, <1>3, <1>4, <1>5, OneKeepsQueues

\* A stream that continues without a write is still the client's.
LEMMA StartLosslessStream ==
  ASSUME IInv, StreamOK, NEW w \in Conns, StartLossless(w)
  PROVE  StreamOK'
<1>1. PICK c : c = conn[w] /\ c \in WebConns /\ c.phase = "registered" /\ ConnOK(c)
  BY DEF IInv, TypeOK, StartLossless
<1>2. PICK d : d = [c EXCEPT !.phase = "pumping"]
  OBVIOUS
<1>3. /\ d.phase = "pumping" /\ d.id = c.id /\ d.open = c.open
      /\ d.send = c.send /\ d.reused = c.reused /\ d.deadQueue = c.deadQueue
  BY <1>1, <1>2 DEF WebConns
<1>4. /\ conn' = [conn EXCEPT ![w] = d]
      /\ UNCHANGED <<byConnection, clientConn, connectionId, serverSequence,
                     wire, published, base, delivered, skipped>>
  BY <1>1, <1>2 DEF StartLossless, hubVars, clientVars, historyVars
<1>5. SameQueues(c, d) /\ w \in Holders
  BY <1>1, <1>3 DEF SameQueues, Holders
<1>6. clientConn = w => SocketOK(d)
  BY <1>1, <1>3, WebSocketAssumption
    DEF StreamOK, SocketOK, ConnOK, Greeting
<1>7. QED
  BY <1>1, <1>3, <1>4, <1>5, <1>6, OneKeepsQueues

\* writePump ends, the hub notes it, or a socket breaks: the queues stay.
LEMMA StreamStops ==
  ASSUME IInv, StreamOK, NEW w \in Conns,
         WriteClose(w) \/ EndWritePump(w) \/ HubUnregister(w) \/ BreakSocket(w)
  PROVE  StreamOK'
<1>1. PICK c : c = conn[w] /\ c \in WebConns
  BY DEF IInv, TypeOK
<1>2. UNCHANGED <<byConnection, clientConn, connectionId, serverSequence, wire,
                  published, base, delivered, skipped>>
  BY DEF WriteClose, EndWritePump, HubUnregister, BreakSocket, hubVars,
    clientVars, historyVars
<1>3. PICK d : /\ conn' = [conn EXCEPT ![w] = d] /\ SameQueues(c, d)
               /\ d.reused = c.reused
               /\ \/ d.phase \in {"finished", "closed"}
                  \/ d.phase = c.phase /\ d.open = FALSE
  <2>1. CASE WriteClose(w)
    <3>1. PICK d : d = [c EXCEPT !.phase = "finished", !.open = FALSE]
      OBVIOUS
    <3>2. /\ conn' = [conn EXCEPT ![w] = d] /\ SameQueues(c, d)
          /\ d.reused = c.reused /\ d.phase = "finished"
      BY <1>1, <2>1, <3>1 DEF WriteClose, WebConns, SameQueues
    <3>3. QED
      BY <3>2
  <2>2. CASE EndWritePump(w)
    <3>1. PICK d : d = [c EXCEPT !.phase = "finished"]
      OBVIOUS
    <3>2. /\ conn' = [conn EXCEPT ![w] = d] /\ SameQueues(c, d)
          /\ d.reused = c.reused /\ d.phase = "finished"
      BY <1>1, <2>2, <3>1 DEF EndWritePump, WebConns, SameQueues
    <3>3. QED
      BY <3>2
  <2>3. CASE HubUnregister(w)
    <3>1. PICK d : d = [c EXCEPT !.phase = "closed", !.active = FALSE]
      OBVIOUS
    <3>2. /\ conn' = [conn EXCEPT ![w] = d] /\ SameQueues(c, d)
          /\ d.reused = c.reused /\ d.phase = "closed"
      BY <1>1, <2>3, <3>1 DEF HubUnregister, WebConns, SameQueues
    <3>3. QED
      BY <3>2
  <2>4. CASE BreakSocket(w)
    <3>1. PICK d : d = [c EXCEPT !.open = FALSE]
      OBVIOUS
    <3>2. /\ conn' = [conn EXCEPT ![w] = d] /\ SameQueues(c, d)
          /\ d.reused = c.reused /\ d.phase = c.phase /\ d.open = FALSE
      BY <1>1, <2>4, <3>1 DEF BreakSocket, WebConns, SameQueues
    <3>3. QED
      BY <3>2
  <2>5. QED
    BY <2>1, <2>2, <2>3, <2>4
<1>4. /\ d.phase \in {"accepted", "registered", "pumping"} => w \in Holders
      /\ d.phase = "accepted" => c.phase = "accepted"
  BY <1>1, <1>3 DEF Holders
<1>5. clientConn = w => SocketOK(d)
  BY <1>1, <1>3, WebSocketAssumption DEF SameQueues, StreamOK, SocketOK
<1>6. QED
  BY <1>1, <1>2, <1>3, <1>4, <1>5, OneKeepsQueues

\* The index loses WebConns, which keep their queues.
LEMMA IndexShrinks ==
  ASSUME IInv, StreamOK,
         HubPanic \/ \E w \in Conns : RemoveInactiveConnections(w)
  PROVE  StreamOK'
<1>1. /\ byConnection' \subseteq byConnection /\ conn' = conn
      /\ UNCHANGED <<clientConn, connectionId, serverSequence, wire, published,
                     base, delivered, skipped>>
  BY DEF HubPanic, RemoveInactiveConnections, Remove, clientVars, historyVars
<1>2. \A v \in Conns :
        /\ SameQueues(conn[v], conn'[v])
        /\ conn'[v].phase \in {"accepted", "registered", "pumping"} =>
             v \in Holders
        /\ conn'[v].phase = "accepted" => conn[v].phase = "accepted"
  BY <1>1 DEF SameQueues, Holders
<1>3. clientConn # NoConn => SocketOK(conn'[clientConn])
  BY <1>1 DEF StreamOK
<1>4. QED
  BY <1>1, <1>2, <1>3, QueuesKept

\* The WebConns of the index are closed: their queues are given up, or emptied by
\* their writePump.
LEMMA InvalidateUserErrorStream ==
  ASSUME IInv, StreamOK, InvalidateUserError
  PROVE  StreamOK'
<1>1. /\ byConnection' \subseteq byConnection
      /\ conn' = [w \in Conns |->
           IF w \in byConnection THEN CloseSend(conn[w]) ELSE conn[w]]
      /\ UNCHANGED <<clientConn, connectionId, serverSequence, wire, published,
                     base, delivered, skipped>>
  BY DEF InvalidateUserError, Remove, clientVars, historyVars
<1>2. ASSUME NEW v \in Conns
      PROVE  /\ SameQueues(conn[v], conn'[v])
             /\ conn'[v].phase = conn[v].phase /\ conn'[v].open = conn[v].open
             /\ conn'[v].reused = conn[v].reused
  <2>1. PICK c : c = conn[v] /\ c \in WebConns
    BY DEF IInv, TypeOK
  <2>2. PICK d : d = CloseSend(c)
    OBVIOUS
  <2>3. /\ SameQueues(c, d) /\ d.phase = c.phase /\ d.open = c.open
        /\ d.reused = c.reused
    BY <2>1, <2>2 DEF CloseSend, WebConns, SameQueues
  <2>4. QED
    BY <1>1, <2>1, <2>2, <2>3 DEF SameQueues
<1>3. \A v \in Conns : conn[v].phase \in {"accepted", "registered", "pumping"} =>
        v \in Holders
  BY DEF Holders
<1>4. clientConn # NoConn => SocketOK(conn'[clientConn])
  <2>1. clientConn \in Conns \cup {NoConn}
    BY DEF IInv, TypeOK
  <2>2. QED
    BY <1>2, <2>1 DEF StreamOK, SocketOK, SameQueues, Greeting
<1>5. QED
  BY <1>1, <1>2, <1>3, <1>4, QueuesKept

\* The runtime collects a WebConn that holds nothing any more.
LEMMA CollectStream ==
  ASSUME IInv, StreamOK, NEW w \in Conns, Collect(w)
  PROVE  StreamOK'
<1>1. /\ conn'[w] = Unused /\ \A v \in Conns \ {w} : conn'[v] = conn[v]
      /\ conn[w].phase = "closed" /\ w \notin byConnection /\ clientConn # w
      /\ UNCHANGED <<byConnection, clientConn, connectionId, serverSequence,
                     wire, published, base, delivered, skipped>>
  BY DEF IInv, TypeOK, Collect, hubVars, clientVars, historyVars
<1>2. byConnection \subseteq Conns /\ clientConn \in Conns \cup {NoConn}
      /\ published \in Nat
  BY WebSocketAssumption DEF IInv, TypeOK
<1>3. Holders' = Holders /\ Holders \subseteq Conns \ {w}
  BY <1>1, <1>2, UnusedFields DEF Holders
<1>4. \A v \in Holders' : /\ SameQueues(conn[v], conn'[v])
                          /\ Live(v)' => Live(v)
  BY <1>1, <1>3 DEF SameQueues, Live
<1>5. \A v, u \in Holders' : conn'[v].id = conn'[u].id => v = u
  BY <1>1, <1>3 DEF StreamOK
<1>6. clientConn' # NoConn => SocketOK(conn[clientConn])'
  BY <1>1, <1>2, UnusedFields DEF StreamOK, SocketOK
<1>7. QED
  BY <1>1, <1>2, <1>3, <1>4, <1>5, <1>6, QueuesHandedOn

\* After a restart no stream goes on.
LEMMA ServerRestartStream ==
  ASSUME IInv, StreamOK, ServerRestart
  PROVE  StreamOK'
<1>1. /\ byConnection' = {}
      /\ conn' = [v \in Conns |->
           IF conn[v].phase = "unused"
             THEN Unused
             ELSE [Unused EXCEPT !.phase = "closed", !.id = conn[v].id]]
      /\ UNCHANGED <<clientConn, connectionId, serverSequence, wire, published,
                     base, delivered, skipped>>
  BY DEF ServerRestart, clientVars, historyVars
<1>2. ASSUME NEW v \in Conns
      PROVE  /\ conn'[v].phase \in {"unused", "closed"}
             /\ conn[v].phase # "unused" =>
                  conn'[v].id = conn[v].id /\ conn'[v].phase = "closed"
             /\ conn'[v].id \in {conn[v].id, NoId}
  <2>1. PICK u : u = Unused /\ u \in WebConns
    BY UnusedFields
  <2>2. PICK d : d = [u EXCEPT !.phase = "closed", !.id = conn[v].id]
    OBVIOUS
  <2>3. d.phase = "closed" /\ d.id = conn[v].id
    BY <2>1, <2>2 DEF WebConns
  <2>4. QED
    BY <1>1, <2>1, <2>2, <2>3, UnusedFields
<1>3. Holders' = {}
  BY <1>1, <1>2 DEF Holders
<1>4. /\ clientConn # NoConn =>
           clientConn \in Conns /\ conn[clientConn].phase # "unused"
      /\ published \in Nat
  BY WebSocketAssumption DEF IInv, TypeOK, ClientOK
<1>5. clientConn # NoConn => conn'[clientConn].id = conn[clientConn].id
  BY <1>2, <1>4
<1>6. ASSUME clientConn # NoConn
      PROVE  SocketOK(conn[clientConn])'
  <2>1. PICK c : c = conn[clientConn] /\ SocketOK(c)
    BY <1>6 DEF StreamOK
  <2>2. PICK d : d = conn'[clientConn] /\ d.phase = "closed" /\ d.id = c.id
    BY <1>2, <1>4, <1>6, <2>1
  <2>3. c.id \notin {connectionId, NoId} =>
          \A v \in Conns : conn'[v].id = c.id => v = clientConn
    BY <1>2, <2>1 DEF SocketOK
  <2>4. QED
    BY <1>1, <2>1, <2>2, <2>3 DEF SocketOK
<1>7. QED
  BY <1>1, <1>3, <1>4, <1>5, <1>6, QueuesHandedOn

\* initialize: a WebConn that asks for the client's stream and holds nothing.
LEMMA ClientInitializeStream ==
  ASSUME IInv, StreamOK, NEW w \in Conns, ClientInitialize(w)
  PROVE  StreamOK'
<1>1. PICK u : u = Unused /\ u \in WebConns
  BY UnusedFields
<1>2. PICK d : d = [u EXCEPT !.phase = "connecting", !.id = connectionId,
                             !.sequence = serverSequence, !.open = TRUE]
  OBVIOUS
<1>3. d.phase = "connecting" /\ d.id = connectionId
  BY <1>1, <1>2 DEF WebConns
<1>4. /\ conn'[w] = d /\ \A v \in Conns \ {w} : conn'[v] = conn[v]
      /\ conn[w].phase = "unused" /\ clientConn = NoConn /\ clientConn' = w
      /\ UNCHANGED <<byConnection, connectionId, serverSequence, wire,
                     published, base, delivered, skipped>>
  BY <1>1, <1>2 DEF IInv, TypeOK, ClientInitialize, hubVars, historyVars
<1>5. byConnection \subseteq Conns /\ published \in Nat /\ wire = << >>
  BY <1>4, WebSocketAssumption DEF IInv, TypeOK, ClientOK
<1>6. w \notin byConnection
  BY <1>4 DEF IInv, IndexOK, Indexed
<1>7. Holders' = Holders /\ Holders \subseteq Conns \ {w}
  BY <1>3, <1>4, <1>5, <1>6 DEF Holders
<1>8. \A v \in Holders' : /\ SameQueues(conn[v], conn'[v])
                          /\ Live(v)' => Live(v)
  BY <1>4, <1>7 DEF SameQueues, Live
<1>9. \A v, x \in Holders' : conn'[v].id = conn'[x].id => v = x
  BY <1>4, <1>7 DEF StreamOK
<1>10. SocketOK(conn[clientConn])'
  BY <1>3, <1>4, <1>5 DEF SocketOK
<1>11. QED
  BY <1>4, <1>5, <1>7, <1>8, <1>9, <1>10, QueuesHandedOn

\* The WebConn that asks for a stream takes the queues over.
LEMMA CheckConnFoundStream ==
  ASSUME IInv, StreamOK, NEW w \in Conns, CheckConnFound(w)
  PROVE  StreamOK'
<1>1. PICK c : c = conn[w] /\ c \in WebConns /\ c.phase = "connecting"
               /\ ConnOK(c)
  BY DEF IInv, TypeOK, CheckConnFound
<1>2. PICK old \in byConnection :
        /\ conn[old].id = c.id /\ ~conn[old].active
        /\ Remove({old})
        /\ conn' = [conn EXCEPT ![w] =
             [@ EXCEPT !.phase = "accepted", !.reused = TRUE,
                       !.send = conn[old].send,
                       !.deadQueue = conn[old].deadQueue]]
  BY <1>1 DEF CheckConnFound, Resumable
<1>3. PICK d : d = [c EXCEPT !.phase = "accepted", !.reused = TRUE,
                             !.send = conn[old].send,
                             !.deadQueue = conn[old].deadQueue]
  OBVIOUS
<1>4. d.phase = "accepted" /\ SameQueues(conn[old], d) /\ d.id = c.id
  BY <1>1, <1>2, <1>3 DEF WebConns, SameQueues
<1>5. /\ conn'[w] = d /\ \A v \in Conns \ {w} : conn'[v] = conn[v]
      /\ byConnection' = byConnection \ {old}
      /\ UNCHANGED <<clientConn, connectionId, serverSequence, wire, published,
                     base, delivered, skipped>>
  BY <1>1, <1>2, <1>3
    DEF IInv, TypeOK, CheckConnFound, Remove, clientVars, historyVars
<1>6. byConnection \subseteq Conns /\ clientConn \in Conns \cup {NoConn}
      /\ published \in Nat
  BY WebSocketAssumption DEF IInv, TypeOK
<1>7. conn[old].phase = "closed" /\ w \notin byConnection
  BY <1>1, <1>2 DEF IInv, IndexOK, Indexed
<1>8. Holders' \subseteq (Holders \ {old}) \cup {w} /\ w \notin Holders
      /\ old \in Holders /\ Holders \subseteq Conns
  BY <1>1, <1>5, <1>6, <1>7 DEF Holders
<1>9. \A v, x \in Holders' : conn'[v].id = conn'[x].id => v = x
  BY <1>1, <1>2, <1>4, <1>5, <1>8 DEF StreamOK
<1>10. \A v \in Holders' : \E u \in Holders :
         SameQueues(conn[u], conn'[v]) /\ (Live(v)' => Live(u))
  <2>1. ASSUME NEW v \in Holders', v # w
        PROVE  v \in Holders /\ SameQueues(conn[v], conn'[v])
               /\ (Live(v)' => Live(v))
    BY <1>5, <1>8, <2>1 DEF SameQueues, Live
  <2>2. old \in Holders /\ SameQueues(conn[old], conn'[w]) /\ Live(old)
    BY <1>4, <1>5, <1>8 DEF Live
  <2>3. QED
    BY <2>1, <2>2
<1>11. clientConn # NoConn => conn'[clientConn].id = conn[clientConn].id
  BY <1>1, <1>4, <1>5, <1>6
<1>12. clientConn' # NoConn => SocketOK(conn[clientConn])'
  <2>1. CASE clientConn = w
    <3>1. c.id = connectionId /\ wire = << >>
      BY <1>1, <2>1, WebSocketAssumption
        DEF StreamOK, SocketOK, IInv, ClientOK, WireOK
    <3>2. QED
      BY <1>4, <1>5, <2>1, <3>1 DEF SocketOK
  <2>2. CASE clientConn \in Conns \ {w}
    BY <1>1, <1>4, <1>5, <2>2, WebSocketAssumption DEF StreamOK, SocketOK
  <2>3. QED
    BY <1>5, <1>6, <2>1, <2>2
<1>13. QED
  BY <1>5, <1>6, <1>9, <1>10, <1>11, <1>12, QueuesHandedOn

\* Nothing to resume: a stream with an id that nobody holds.
LEMMA CheckConnNotFoundStream ==
  ASSUME IInv, StreamOK, NEW w \in Conns, CheckConnNotFound(w)
  PROVE  StreamOK'
<1>1. PICK c : c = conn[w] /\ c \in WebConns /\ c.phase = "connecting"
               /\ ConnOK(c)
  BY DEF IInv, TypeOK, CheckConnNotFound
<1>2. PICK id \in FreshIds : conn' = [conn EXCEPT ![w] =
        [@ EXCEPT !.phase = "accepted", !.id = id, !.sequence = 0]]
  BY DEF CheckConnNotFound
<1>3. PICK d : d = [c EXCEPT !.phase = "accepted", !.id = id, !.sequence = 0]
  OBVIOUS
<1>4. /\ d.phase = "accepted" /\ d.id = id /\ ~d.reused
      /\ d.send = << >> /\ d.deadQueue = EmptyDeadQueue
  BY <1>1, <1>3 DEF WebConns, ConnOK
<1>5. id # connectionId /\ \A v \in Conns : conn[v].id # id
  BY DEF FreshIds
<1>6. /\ conn'[w] = d /\ \A v \in Conns \ {w} : conn'[v] = conn[v]
      /\ UNCHANGED <<byConnection, clientConn, connectionId, serverSequence,
                     wire, published, base, delivered, skipped>>
  BY <1>1, <1>2, <1>3
    DEF IInv, TypeOK, CheckConnNotFound, hubVars, clientVars, historyVars
<1>7. byConnection \subseteq Conns /\ clientConn \in Conns \cup {NoConn}
      /\ published \in Nat
  BY WebSocketAssumption DEF IInv, TypeOK
<1>8. w \notin byConnection
  BY <1>1 DEF IInv, IndexOK, Indexed
<1>9. Holders' = Holders \cup {w} /\ w \notin Holders /\ Holders \subseteq Conns
  BY <1>1, <1>4, <1>6, <1>7, <1>8 DEF Holders
<1>10. \A v, x \in Holders' : conn'[v].id = conn'[x].id => v = x
  BY <1>4, <1>5, <1>6, <1>9 DEF StreamOK
<1>11. \A v \in Holders : SameQueues(conn[v], conn'[v]) /\ (Live(v)' => Live(v))
  BY <1>6, <1>9 DEF SameQueues, Live
<1>12. FreshStream(conn'[w])
  BY <1>4, <1>5, <1>6, <1>7 DEF FreshStream, WireOf
<1>13. clientConn = w => wire = << >>
  BY <1>1, WebSocketAssumption DEF IInv, ClientOK, WireOK
<1>14. clientConn' # NoConn => SocketOK(conn[clientConn])'
  <2>1. CASE clientConn = w
    BY <1>4, <1>5, <1>6, <1>13, <2>1 DEF SocketOK
  <2>2. CASE clientConn \in Conns \ {w}
    BY <1>4, <1>5, <1>6, <2>2, WebSocketAssumption DEF StreamOK, SocketOK
  <2>3. QED
    BY <1>6, <1>7, <2>1, <2>2
<1>15. \/ wire = << >>
       \/ clientConn # NoConn => conn'[clientConn].id = conn[clientConn].id
  BY <1>6, <1>7, <1>13
<1>16. QED
  BY <1>6, <1>7, <1>9, <1>10, <1>11, <1>12, <1>14, <1>15, QueuesHandedOn

\* The hub knows the WebConn, and a new stream gets its hello.
LEMMA HubRegisterStream ==
  ASSUME IInv, StreamOK, NEW w \in Conns, HubRegister(w)
  PROVE  StreamOK'
<1>1. PICK c : c = conn[w] /\ c \in WebConns /\ c.phase = "accepted"
               /\ ConnOK(c)
  BY DEF IInv, TypeOK, HubRegister
<1>2. PICK s : s = IF c.reused THEN c.send ELSE Append(c.send, Hello)
  OBVIOUS
<1>3. PICK d : d = [c EXCEPT !.phase = "registered", !.active = TRUE, !.send = s]
  OBVIOUS
<1>4. /\ d.phase = "registered" /\ d.id = c.id /\ d.reused = c.reused
      /\ d.send = s /\ d.deadQueue = c.deadQueue
  BY <1>1, <1>3 DEF WebConns
<1>5. /\ conn'[w] = d /\ \A v \in Conns \ {w} : conn'[v] = conn[v]
      /\ byConnection' = byConnection \cup {w}
      /\ UNCHANGED <<clientConn, connectionId, serverSequence,
                     wire, published, base, delivered, skipped>>
  BY <1>1, <1>2, <1>3 DEF IInv, TypeOK, HubRegister, clientVars, historyVars
<1>6. byConnection \subseteq Conns /\ clientConn \in Conns \cup {NoConn}
      /\ published \in Nat
  BY WebSocketAssumption DEF IInv, TypeOK
<1>7. Holders' = Holders /\ w \in Holders /\ Holders \subseteq Conns
  BY <1>1, <1>4, <1>5, <1>6 DEF Holders
<1>8. \A v, x \in Holders' : conn'[v].id = conn'[x].id => v = x
  BY <1>1, <1>4, <1>5, <1>7 DEF StreamOK
<1>9. \A v \in Holders \ {w} : /\ SameQueues(conn[v], conn'[v])
                               /\ Live(v)' => Live(v)
  BY <1>5, <1>7 DEF SameQueues, Live
<1>10. clientConn = w => wire = << >>
  BY <1>1, WebSocketAssumption DEF IInv, ClientOK, WireOK
<1>12. FreshStream(conn'[w]) \/ SameQueues(conn[w], conn'[w])
  <2>1. CASE c.reused
    BY <1>1, <1>2, <1>4, <1>5, <2>1 DEF SameQueues
  <2>2. CASE ~c.reused
    <3>1. c.deadQueue = EmptyDeadQueue /\ s = <<Hello>>
      <4>1. c.send = << >> /\ c.deadQueue = EmptyDeadQueue
        BY <1>1, <2>2 DEF ConnOK, Starts
      <4>2. QED
        BY <1>2, <2>2, <4>1
    <3>2. c.id # connectionId /\ \A v \in Conns : conn[v].id = c.id => v = w
      BY <1>1, <2>2 DEF IInv, NewIdsOK, New
    <3>3. WireOf(c.id) = {}
      BY <1>6, <1>10, <3>2, NothingOnTheWire DEF WireOf
    <3>4. QED
      BY <1>4, <1>5, <3>1, <3>2, <3>3 DEF FreshStream
  <2>3. QED
    BY <2>1, <2>2
<1>13. clientConn' # NoConn => SocketOK(conn[clientConn])'
  BY <1>1, <1>4, <1>5, <1>6, <1>10, WebSocketAssumption DEF StreamOK, SocketOK
<1>14. clientConn # NoConn => conn'[clientConn].id = conn[clientConn].id
  BY <1>1, <1>4, <1>5, <1>6
<1>15. Live(w)
  BY <1>1 DEF Live
<1>16. QED
  BY <1>5, <1>6, <1>7, <1>8, <1>9, <1>12, <1>13, <1>14, <1>15, QueuesHandedOn

-----------------------------------------------------------------------------
(* The hub broadcasts an event *)

\* What a queue with one more element at its end holds.
LEMMA ElementsAppended ==
  ASSUME NEW S, NEW s \in Seq(S), NEW e \in S
  PROVE  Elements(Append(s, e)) = Elements(s) \cup {e}
<1>1. /\ Len(s) \in Nat /\ Len(Append(s, e)) = Len(s) + 1
      /\ \A i \in 1 .. Len(s) : Append(s, e)[i] = s[i]
      /\ Append(s, e)[Len(s) + 1] = e
  BY AppendElements
<1>2. QED
  BY <1>1 DEF Elements

\* The next event keeps a queue in order, whether it gets in or not.
LEMMA OrderedGrows ==
  ASSUME NEW c \in WebConns, NEW d, NEW onWire \in SUBSET Message,
         NEW last \in Nat, Ordered(c, onWire, last),
         d.deadQueue = c.deadQueue,
         d.send \in {c.send, Append(c.send, last + 1)}
  PROVE  Ordered(d, onWire, last + 1)
<1> DEFINE sent == Messages(c.deadQueue) \cup onWire
<1>1. /\ c.deadQueue \in DeadQueues /\ c.send \in Seq(Nat) /\ Len(c.send) \in Nat
      /\ last + 1 \in Nat
  BY DEF WebConns
<1>2. \A m \in sent : m.ev \in Nat
  BY <1>1 DEF Messages, DeadQueues, Message
<1>3. /\ \A m \in sent : m.ev <= last /\ \A k \in 1 .. Len(c.send) : m.ev < c.send[k]
      /\ \A k \in 1 .. Len(c.send) :
           c.send[k] <= last /\ \A j \in 1 .. k - 1 : c.send[j] < c.send[k]
  BY DEF Ordered
<1>4. \A k \in 1 .. Len(c.send) : c.send[k] \in Nat
  BY <1>1
<1>5. CASE d.send = c.send
  <2>1. \A m \in sent : m.ev <= last + 1
    BY <1>2, <1>3
  <2>2. \A k \in 1 .. Len(c.send) : c.send[k] <= last + 1
    BY <1>3, <1>4
  <2>3. QED
    BY <1>3, <1>5, <2>1, <2>2 DEF Ordered
<1>6. CASE d.send = Append(c.send, last + 1)
  <2>1. /\ Len(d.send) = Len(c.send) + 1
        /\ \A i \in 1 .. Len(c.send) : d.send[i] = c.send[i]
        /\ d.send[Len(c.send) + 1] = last + 1
    BY <1>1, <1>6, AppendElements
  <2>2. \A m \in sent :
          m.ev <= last + 1 /\ \A k \in 1 .. Len(d.send) : m.ev < d.send[k]
    BY <1>1, <1>2, <1>3, <2>1
  <2>3. ASSUME NEW k \in 1 .. Len(d.send)
        PROVE  d.send[k] <= last + 1 /\ \A j \in 1 .. k - 1 : d.send[j] < d.send[k]
    <3>1. CASE k \in 1 .. Len(c.send)
      <4>1. c.send[k] \in Nat /\ c.send[k] <= last /\ d.send[k] = c.send[k]
        BY <1>3, <1>4, <2>1, <3>1
      <4>2. \A j \in 1 .. k - 1 : d.send[j] = c.send[j] /\ c.send[j] < c.send[k]
        BY <1>1, <1>3, <2>1, <3>1
      <4>3. QED
        BY <4>1, <4>2
    <3>2. CASE k = Len(c.send) + 1
      <4>1. \A j \in 1 .. Len(c.send) : c.send[j] < last + 1
        BY <1>1, <1>3, <1>4
      <4>2. QED
        BY <1>1, <2>1, <3>2, <4>1
    <3>3. QED
      BY <1>1, <2>1, <3>1, <3>2
  <2>4. QED
    BY <2>2, <2>3 DEF Ordered
<1>7. QED
  BY <1>5, <1>6

\* Queues that had every event have the next one, or it is skipped.
LEMMA CompleteGrows ==
  ASSUME NEW c \in WebConns, NEW d, NEW next, NEW last \in Nat,
         NEW got, NEW more, got \subseteq more, NEW live \in BOOLEAN, NEW after \in BOOLEAN,
         Complete(c, next, got, live, last),
         d.deadQueue = c.deadQueue,
         \/ live /\ d.send = Append(c.send, last + 1)
         \/ d.send = c.send /\ (after => live /\ last + 1 \in more)
  PROVE  Complete(d, next, more, after, last + 1)
<1> DEFINE old == Events(From(Messages(c.deadQueue), next)) \cup Elements(c.send)
           ahead == Events(From(Messages(d.deadQueue), next)) \cup Elements(d.send)
<1>1. NoGap(old, got \cup old) /\ (live => 1 .. last \subseteq got \cup old)
  BY DEF Complete, Ahead
<1>2. c.send \in Seq(Nat) /\ last + 1 \in Nat
  BY DEF WebConns
<1>3. \/ live /\ ahead = old \cup {last + 1}
      \/ ahead = old /\ (after => live /\ last + 1 \in more)
  <2>1. CASE live /\ d.send = Append(c.send, last + 1)
    <3>1. Elements(d.send) = Elements(c.send) \cup {last + 1}
      BY <1>2, <2>1, ElementsAppended
    <3>2. QED
      BY <2>1, <3>1
  <2>2. CASE d.send = c.send /\ (after => live /\ last + 1 \in more)
    BY <2>2
  <2>3. QED
    BY <2>1, <2>2
<1>4. 1 .. (last + 1) - 1 = 1 .. last /\ 1 .. last + 1 = (1 .. last) \cup {last + 1}
  OBVIOUS
<1> HIDE DEF old, ahead
<1>5. NoGap(ahead, more \cup ahead)
  BY <1>1, <1>3, <1>4 DEF NoGap
<1>6. after => 1 .. last + 1 \subseteq more \cup ahead
  BY <1>1, <1>3, <1>4
<1>7. QED
  BY <1>5, <1>6 DEF Complete, Ahead, ahead

\* The elements of a sequence over S are in S.
LEMMA ElementsType ==
  ASSUME NEW S, NEW s \in Seq(S)
  PROVE  Elements(s) \subseteq S /\ \A i \in 1 .. Len(s) : s[i] \in S
  BY DEF Elements

\* What is on the wire are messages.
LEMMA WireMessages ==
  ASSUME TypeOK
  PROVE  \A id : WireOf(id) \in SUBSET Message
<1>1. Elements(wire) \subseteq Message
  BY ElementsType DEF TypeOK
<1>2. QED
  BY <1>1 DEF WireOf

\* A broadcast reaches the client's stream, or it is counted as skipped, or the
\* stream has left the index for good.
LEMMA HubBroadcastStream ==
  ASSUME IInv, StreamOK, HubBroadcast
  PROVE  StreamOK'
<1> DEFINE full == {w \in byConnection : Len(conn[w].send) = sendQueueSize}
           event == published + 1
<1>1. /\ byConnection' = byConnection \ full /\ published' = event
      /\ conn' = [w \in Conns |->
           IF w \in byConnection
             THEN IF w \in full
                    THEN CloseSend(conn[w])
                    ELSE [conn[w] EXCEPT !.send = Append(@, event)]
             ELSE conn[w]]
      /\ skipped' = IF TakeoverOpen THEN skipped \cup {event} ELSE skipped
      /\ UNCHANGED <<clientConn, connectionId, serverSequence, wire, base,
                     delivered>>
  BY DEF HubBroadcast, Remove, clientVars
<1>2. byConnection \subseteq Conns /\ clientConn \in Conns \cup {NoConn}
      /\ published \in Nat /\ event \in Nat /\ Holders \subseteq Conns
      /\ delivered \in Seq(Nat) /\ \A v \in Conns : conn[v] \in WebConns
  BY WebSocketAssumption DEF IInv, TypeOK, Holders
<1> HIDE DEF full
<1>3. ASSUME NEW v \in Conns
      PROVE  /\ conn'[v].id = conn[v].id /\ conn'[v].phase = conn[v].phase
             /\ conn'[v].open = conn[v].open /\ conn'[v].reused = conn[v].reused
             /\ conn'[v].deadQueue = conn[v].deadQueue
             /\ conn'[v].send = IF v \in byConnection \ full
                                  THEN Append(conn[v].send, event)
                                  ELSE conn[v].send
  <2>1. PICK c : c = conn[v] /\ c \in WebConns
    BY <1>2
  <2>2. CASE v \in full /\ v \in byConnection
    <3>1. PICK d : d = CloseSend(c)
      OBVIOUS
    <3>2. /\ d.id = c.id /\ d.phase = c.phase /\ d.open = c.open
          /\ d.reused = c.reused /\ d.deadQueue = c.deadQueue /\ d.send = c.send
      BY <2>1, <3>1 DEF CloseSend, WebConns
    <3>3. QED
      BY <1>1, <2>1, <2>2, <3>1, <3>2
  <2>3. CASE v \in byConnection \ full
    <3>1. PICK d : d = [c EXCEPT !.send = Append(@, event)]
      OBVIOUS
    <3>2. /\ d.id = c.id /\ d.phase = c.phase /\ d.open = c.open
          /\ d.reused = c.reused /\ d.deadQueue = c.deadQueue
          /\ d.send = Append(c.send, event)
      BY <2>1, <3>1 DEF WebConns
    <3>3. QED
      BY <1>1, <2>1, <2>3, <3>1, <3>2
  <2>4. CASE v \notin byConnection
    BY <1>1, <2>1, <2>4
  <2>5. QED
    BY <2>2, <2>3, <2>4
<1> HIDE DEF event
<1>4. Holders' \subseteq Holders
  BY <1>1, <1>2, <1>3 DEF Holders
<1>5. \A v, w \in Holders' : conn'[v].id = conn'[w].id => v = w
  BY <1>2, <1>3, <1>4 DEF StreamOK
<1>6. \A id : WireOf(id)' = WireOf(id)
  BY <1>1, <1>2, <1>3 DEF WireOf
<1>7. Received \subseteq Received' /\ Reached' = Reached
      /\ (TakeoverOpen => event \in Received')
  <2>1. Stream!Accounted' = Stream!Accounted
    BY <1>1 DEF Stream!Accounted
  <2>2. WireOf(connectionId)' = WireOf(connectionId)
    BY <1>1, <1>6
  <2>3. Reached' = Reached
    BY <1>1, <1>2, <1>3 DEF Reached
  <2>4. QED
    BY <1>1, <2>1, <2>2, <2>3 DEF Received, Got
<1>8. \A x \in Elements(delivered) : x \in Nat /\ x <= published
  <2>1. Elements(delivered) \subseteq Nat
    BY <1>2, ElementsType
  <2>2. \A x \in Elements(delivered) : x <= published
    BY DEF StreamOK
  <2>3. QED
    BY <2>1, <2>2
<1>9. (\A x \in Elements(delivered) : x <= published)'
  BY <1>1, <1>2, <1>8 DEF event
<1>10. (clientConn # NoConn => SocketOK(conn[clientConn]))'
  <2>1. SUFFICES ASSUME clientConn # NoConn
                 PROVE  SocketOK(conn[clientConn])'
    BY <1>1
  <2>2. PICK c : c = conn[clientConn] /\ c \in WebConns /\ SocketOK(c)
    BY <1>2, <2>1 DEF StreamOK
  <2>3. PICK d : /\ d = conn'[clientConn] /\ d.id = c.id /\ d.phase = c.phase
                 /\ d.open = c.open /\ d.reused = c.reused
                 /\ d.send \in {c.send, Append(c.send, event)}
    BY <1>2, <1>3, <2>1, <2>2
  <2>4. Greeting(c) => Greeting(d)
    <3>1. c.send \in Seq(Nat)
      BY <2>2 DEF WebConns
    <3>2. ASSUME c.send # << >>
          PROVE  /\ Append(c.send, event) # << >>
                 /\ Append(c.send, event)[1] = c.send[1]
      <4>1. 1 \in 1 .. Len(c.send)
        BY <3>1, <3>2, EmptyLength
      <4>2. QED
        BY <1>2, <3>1, <4>1, AppendElements
    <3>3. QED
      BY <2>3, <3>2 DEF Greeting
  <2>5. c.id \notin {connectionId, NoId} =>
          \A v \in Conns : conn'[v].id = c.id => v = clientConn
    BY <1>3, <2>2 DEF SocketOK
  <2>6. QED
    BY <1>1, <2>2, <2>3, <2>4, <2>5 DEF SocketOK
<1>11. WireInOrder'
  <2>1. \A i \in 1 .. Len(wire) : wire[i].ev \in Nat
    <3>1. wire \in Seq(Message)
      BY DEF IInv, TypeOK
    <3>2. \A i \in 1 .. Len(wire) : wire[i] \in Message
      BY <3>1, ElementsType
    <3>3. QED
      BY <3>2 DEF Message
  <2>2. \A i \in 1 .. Len(wire) : wire[i].ev <= event
    BY <1>2, <2>1 DEF StreamOK, WireInOrder, event
  <2>3. NoGap(Events(WireOf(connectionId)), Received')
    BY <1>7 DEF StreamOK, WireInOrder, NoGap
  <2>4. WireOf(connectionId)' = WireOf(connectionId)
    BY <1>1, <1>6
  <2>5. QED
    BY <1>1, <2>2, <2>3, <2>4 DEF StreamOK, WireInOrder
<1>12. \A v \in Holders' : Ordered(conn'[v], WireOf(conn[v].id)', event)
  BY <1>2, <1>3, <1>4, <1>6, WireMessages, OrderedGrows
    DEF StreamOK, IInv, event
<1>13. ASSUME NEW v \in Holders', conn[v].id = connectionId
       PROVE  GoesOn(conn'[v], Reached, Received', Live(v)', event)
  <2>1. v \in Conns /\ v \in Holders
    BY <1>2, <1>4
  <2>2. GoesOn(conn[v], Reached, Received, Live(v), published)
    BY <1>13, <2>1 DEF StreamOK
  <2>3. \/ Live(v) /\ conn'[v].send = Append(conn[v].send, event)
        \/ /\ conn'[v].send = conn[v].send
           /\ Live(v)' => Live(v) /\ event \in Received'
    <3>1. CASE v \in byConnection \ full
      BY <1>3, <2>1, <3>1 DEF Live
    <3>2. CASE v \notin byConnection \ full
      <4>1. conn'[v].send = conn[v].send
        BY <1>3, <2>1, <3>2
      <4>2. ASSUME Live(v)' PROVE Live(v) /\ event \in Received'
        <5>1. conn[v].phase = "accepted"
          BY <1>1, <1>3, <2>1, <3>2, <4>2 DEF Live
        <5>2. conn[v].reused
          BY <1>13, <2>1, <5>1 DEF IInv, NewIdsOK, New
        <5>3. TakeoverOpen
          BY <1>13, <2>1, <5>1, <5>2 DEF TakeoverOpen
        <5>4. QED
          BY <1>7, <5>1, <5>3 DEF Live
      <4>3. QED
        BY <4>1, <4>2
    <3>3. QED
      BY <3>1, <3>2
  <2>4. Live(v) \in BOOLEAN /\ Live(v)' \in BOOLEAN
    BY DEF Live
  <2>5. conn[v] \in WebConns /\ conn'[v].deadQueue = conn[v].deadQueue
    BY <1>2, <1>3, <2>1
  <2>6. ASSUME Complete(conn[v], Reached, Received, Live(v), published)
        PROVE  Complete(conn'[v], Reached, Received', Live(v)', event)
    BY <1>2, <1>7, <2>3, <2>4, <2>5, <2>6, CompleteGrows DEF event
  <2>7. QED
    BY <2>2, <2>5, <2>6 DEF GoesOn
<1>14. ASSUME NEW v \in Holders', conn[v].id = connectionId
       PROVE  Later(conn[v])'
  <2>1. v \in Conns /\ v \in Holders /\ Later(conn[v])
    BY <1>2, <1>4, <1>14 DEF StreamOK
  <2>2. Elements(conn'[v].send) \subseteq Elements(conn[v].send) \cup {event}
    <3>1. conn[v].send \in Seq(Nat)
      BY <1>2, <2>1 DEF WebConns
    <3>2. Elements(Append(conn[v].send, event))
            = Elements(conn[v].send) \cup {event}
      BY <1>2, <3>1, ElementsAppended
    <3>3. QED
      BY <1>3, <2>1, <3>2
  <2>3. \A x \in Elements(delivered) : x < event
    BY <1>2, <1>8 DEF event
  <2>4. QED
    BY <1>1, <1>3, <2>1, <2>2, <2>3 DEF Later, Ahead
<1>15. \A v \in Holders' : conn'[v].id = conn[v].id
  BY <1>2, <1>3, <1>4
<1>16. QED
  BY <1>1, <1>5, <1>7, <1>9, <1>10, <1>11, <1>12, <1>13, <1>14, <1>15 DEF StreamOK

-----------------------------------------------------------------------------
(* The client drops its socket *)

\* The client's stream on the wire: the numbers go on from the client's.
LEMMA OwnWire ==
  ASSUME IInv, StreamOK, clientConn # NoConn,
         conn[clientConn].id = connectionId
  PROVE  /\ wire \in Seq(Message) /\ Len(wire) \in Nat /\ serverSequence \in Nat
         /\ WireOf(connectionId) = {wire[i] : i \in 1 .. Len(wire)}
         /\ \A i \in 1 .. Len(wire) : /\ wire[i] \in Message
                                      /\ wire[i].seq = serverSequence + i - 1
                                      /\ wire[i].ev # Hello
         /\ Reached = serverSequence + Len(wire)
<1>1. clientConn \in Conns /\ wire \in Seq(Message) /\ serverSequence \in Nat
  BY DEF IInv, TypeOK
<1>2. PICK c : c = conn[clientConn] /\ WireOK(c) /\ SocketOK(c)
               /\ c.id = connectionId
  BY DEF IInv, ClientOK, StreamOK
<1>3. Len(wire) \in Nat /\ (wire # << >> <=> Len(wire) > 0)
      /\ \A i \in 1 .. Len(wire) : wire[i] \in Message
  BY <1>1, EmptyLength, ElementsType
<1>4. wire # << >> => wire[1].seq = serverSequence
  BY <1>2 DEF WireOK, SocketOK
<1>5. ASSUME NEW i \in 1 .. Len(wire)
      PROVE  wire[i].seq = serverSequence + i - 1 /\ wire[i].ev # Hello
  <2>1. wire[i].seq = serverSequence + i - 1
    BY <1>2, <1>3, <1>4 DEF WireOK
  <2>2. wire[i].ev = Hello => i = 1
    <3>1. wire[i].ev = Hello => wire[i].seq = 0
      BY <1>2 DEF WireOK
    <3>2. QED
      BY <1>1, <1>3, <2>1, <3>1
  <2>3. wire[1].ev # Hello
    BY <1>2, <1>3 DEF SocketOK
  <2>4. QED
    BY <2>1, <2>2, <2>3
<1>6. QED
  BY <1>1, <1>2, <1>3, <1>5 DEF WireOf, Elements, Reached

\* No stream of the client is on the wire.
LEMMA ForeignWire ==
  ASSUME clientConn = NoConn \/ conn[clientConn].id # connectionId,
         serverSequence \in Nat
  PROVE  WireOf(connectionId) = {} /\ Received = Got /\ Reached = serverSequence
  BY DEF WireOf, Received, Reached, Events

\* Queues that went on from the end of the wire go on from the client's number,
\* as long as the dead queue reaches back to it: it holds what was on the wire.
LEMMA GoesOnDetached ==
  ASSUME IInv, StreamOK, NEW w \in Holders, conn[w].id = connectionId
  PROVE  GoesOn(conn[w], serverSequence, Got, Live(w), published)
<1>1. GoesOn(conn[w], Reached, Received, Live(w), published)
  BY DEF StreamOK
<1>2. CASE clientConn = NoConn \/ conn[clientConn].id # connectionId
  BY <1>1, <1>2, ForeignWire DEF IInv, TypeOK
<1>3. CASE clientConn # NoConn /\ conn[clientConn].id = connectionId
  <2>1. w \in Conns
    BY DEF Holders, IInv, TypeOK
  <2>2. PICK c : c = conn[w] /\ c.deadQueue \in DeadQueues
                 /\ Ordered(c, WireOf(connectionId), published)
    BY <2>1 DEF IInv, TypeOK, WebConns, StreamOK
  <2>3. SUFFICES ASSUME NEW n \in Nat, HoldsUpTo(c.deadQueue, n)
                 PROVE  /\ serverSequence <= n
                        /\ n - deadQueueSize <= serverSequence =>
                             Complete(c, serverSequence, Got, Live(w), published)
    BY <2>2 DEF GoesOn
  <2>4. /\ Reached <= n
        /\ n - deadQueueSize <= Reached =>
             Complete(c, Reached, Received, Live(w), published)
    BY <1>1, <2>2, <2>3 DEF GoesOn
  <2>5. serverSequence \in Nat /\ Len(wire) \in Nat
        /\ Reached = serverSequence + Len(wire) /\ deadQueueSize \in Nat
    BY <1>3, OwnWire, DeadQueueAssumption
  <2>6. SUFFICES ASSUME n - deadQueueSize <= serverSequence
                 PROVE  Complete(c, serverSequence, Got, Live(w), published)
    BY <2>4, <2>5
  <2>7. Complete(c, Reached, Received, Live(w), published)
    BY <2>4, <2>5, <2>6
  <2> DEFINE D == Messages(c.deadQueue)
             W == Events(WireOf(connectionId))
             A == Events(From(D, Reached))
             B == Events(From(D, serverSequence))
             S == Elements(c.send)
  <2>8. /\ D \subseteq Message
        /\ \A seq \in Nat : n - deadQueueSize <= seq /\ seq < n =>
             \E m \in D : m.seq = seq
    BY <2>2, <2>3, MessagesExact
  <2>9. \A a \in D, i \in 1 .. Len(wire) :
          a.seq = wire[i].seq => a.ev = wire[i].ev
    BY <1>3, <2>2, OwnWire DEF Ordered, Rising
  <2>10. W \subseteq B
    <3>1. SUFFICES ASSUME NEW i \in 1 .. Len(wire)
                   PROVE  wire[i].ev \in B
      BY <1>3, OwnWire DEF Events
    <3>2. /\ wire[i].seq = serverSequence + i - 1 /\ wire[i].seq \in Nat
          /\ n - deadQueueSize <= wire[i].seq /\ wire[i].seq < n
      BY <1>3, <2>4, <2>5, <2>6, OwnWire
    <3>3. PICK m \in D : m.seq = wire[i].seq
      BY <2>8, <3>2
    <3>4. m.ev = wire[i].ev /\ m \in From(D, serverSequence)
      BY <2>5, <2>9, <3>2, <3>3 DEF From
    <3>5. QED
      BY <3>4 DEF Events
  <2>11. A \subseteq B
    BY <2>5, <2>8 DEF Events, From, Message
  <2>12. B \subseteq A \cup W
    <3>1. SUFFICES ASSUME NEW m \in D, m.seq >= serverSequence,
                          ~(m.seq >= Reached)
                   PROVE  m.ev \in W
      BY DEF Events, From
    <3>2. m.seq \in Nat
      BY <2>8 DEF Message
    <3>3. PICK i \in 1 .. Len(wire) : i = m.seq - serverSequence + 1
      BY <2>5, <3>1, <3>2
    <3>4. wire[i].seq = m.seq
      BY <1>3, <2>5, <3>2, <3>3, OwnWire
    <3>5. QED
      BY <1>3, <2>9, <3>4, OwnWire DEF Events
  <2>13. NoGap(A \cup S, Received \cup (A \cup S))
         /\ (Live(w) => 1 .. published \subseteq Received \cup (A \cup S))
    BY <2>7 DEF Complete, Ahead
  <2>14. NoGap(W, Received) /\ Received = Got \cup W
    BY DEF StreamOK, WireInOrder, Received
  <2> HIDE DEF W, A, B, S, D
  <2>15. B = A \cup W
    BY <2>10, <2>11, <2>12
  <2>16. NoGap(B \cup S, Got \cup (B \cup S))
    BY <2>13, <2>14, <2>15 DEF NoGap
  <2>17. Live(w) => 1 .. published \subseteq Got \cup (B \cup S)
    BY <2>13, <2>14, <2>15
  <2>18. QED
    BY <2>16, <2>17 DEF Complete, Ahead, B, S, D
<1>4. QED
  BY <1>2, <1>3

\* Less on the wire, and the same queues.
LEMMA OrderedDetached ==
  ASSUME NEW c, NEW d, NEW onWire, NEW last, Ordered(c, onWire, last),
         SameQueues(c, d), NEW rest, rest \subseteq onWire
  PROVE  Ordered(d, rest, last)
  BY DEF Ordered, SameQueues, Rising

\* onclose, and a ping that is not answered: what the dead queue holds of the
\* messages on the wire can be asked for again.
LEMMA DetachStream ==
  ASSUME IInv, StreamOK, ClientOnClose \/ ClientPingTimeout
  PROVE  StreamOK'
<1>1. /\ clientConn' = NoConn /\ wire' = << >>
      /\ UNCHANGED <<byConnection, connectionId, serverSequence, published, base,
                     delivered, skipped>>
  BY DEF ClientOnClose, ClientPingTimeout, Detach, hubVars, historyVars
<1>2. ASSUME NEW v \in Conns
      PROVE  SameQueues(conn[v], conn'[v]) /\ conn'[v].phase = conn[v].phase
  <2>1. CASE ClientOnClose
    BY <2>1 DEF ClientOnClose, SameQueues
  <2>2. CASE ClientPingTimeout
    <3>1. PICK c : c = conn[v] /\ c \in WebConns
      BY DEF IInv, TypeOK
    <3>2. PICK d : d = [c EXCEPT !.open = FALSE]
      OBVIOUS
    <3>3. SameQueues(c, d) /\ d.phase = c.phase
      BY <3>1, <3>2 DEF WebConns, SameQueues
    <3>4. conn'[v] \in {c, d}
      BY <2>2, <3>1, <3>2 DEF ClientPingTimeout, IInv, TypeOK
    <3>5. QED
      BY <3>1, <3>3, <3>4 DEF SameQueues
  <2>3. QED
    BY <2>1, <2>2
<1>3. byConnection \subseteq Conns /\ Holders \subseteq Conns
  BY DEF IInv, TypeOK, Holders
<1>4. Holders' = Holders
  BY <1>1, <1>2, <1>3 DEF Holders
<1>5. \A v \in Holders : conn'[v].id = conn[v].id /\ SameQueues(conn[v], conn'[v])
        /\ (Live(v)' <=> Live(v))
  BY <1>1, <1>2, <1>3 DEF SameQueues, Live
<1>6. \A id : WireOf(id)' = {}
  BY <1>1 DEF WireOf
<1>7. Got' = Got
  BY <1>1 DEF Got, Stream!Accounted
<1>8. Received' = Got /\ Reached' = serverSequence
  <2>1. serverSequence \in Nat
    BY DEF IInv, TypeOK
  <2>2. QED
    BY <1>1, <1>6, <1>7, <2>1 DEF Received, Reached, Events
<1>9. WireInOrder'
  <2>1. 1 .. Len(<< >>) = {}
    OBVIOUS
  <2>2. Events(WireOf(connectionId)') = {}
    BY <1>6 DEF Events
  <2>3. QED
    BY <1>1, <2>1, <2>2 DEF WireInOrder, NoGap
<1>10. \A v \in Holders : Ordered(conn'[v], {}, published)
  BY <1>5, OrderedDetached DEF StreamOK
<1>11. \A v \in Holders : conn[v].id = connectionId =>
         /\ GoesOn(conn[v], serverSequence, Got, Live(v), published)
         /\ Later(conn[v])
  BY GoesOnDetached DEF StreamOK
<1>12. \A v \in Holders : conn[v].id = connectionId =>
         /\ GoesOn(conn'[v], serverSequence, Got, Live(v)', published)
         /\ Later(conn[v])'
  BY <1>1, <1>5, <1>11 DEF GoesOn, Complete, Ahead, Later, SameQueues
<1>13. \A v, u \in Holders : conn'[v].id = conn'[u].id => v = u
  BY <1>5 DEF StreamOK
<1>14. QED
  BY <1>1, <1>4, <1>5, <1>6, <1>8, <1>9, <1>10, <1>12, <1>13 DEF StreamOK

-----------------------------------------------------------------------------
(* The client receives a message *)

\* A message that arrives is the hello of a stream the client did not know, or
\* the next event of its own stream; its number is the one the client expects.
LEMMA ReceiveCases ==
  ASSUME IInv, StreamOK, ClientReceive
  PROVE  LET msg == wire[1]
             id == conn[clientConn].id
         IN
         /\ clientConn \in Conns /\ clientConn # NoConn /\ wire # << >>
         /\ wire' = Tail(wire)
         /\ UNCHANGED <<conn, byConnection, clientConn, published>>
         /\ \/ /\ msg.ev = Hello /\ id \notin {connectionId, NoId}
               /\ wire[1].seq = 0
               /\ connectionId' = id /\ serverSequence' = 1
               /\ base' = published /\ delivered' = << >> /\ skipped' = {}
            \/ /\ msg.ev # Hello /\ id = connectionId /\ msg.seq = serverSequence
               /\ connectionId' = connectionId
               /\ serverSequence' = serverSequence + 1
               /\ delivered' = Append(delivered, msg.ev)
               /\ base' = base /\ skipped' = skipped
<1>1. /\ clientConn # NoConn /\ clientConn \in Conns /\ wire # << >>
      /\ wire \in Seq(Message)
  BY DEF ClientReceive, IInv, TypeOK
<1>2. PICK c : c = conn[clientConn] /\ WireOK(c) /\ SocketOK(c)
  BY <1>1 DEF IInv, ClientOK, StreamOK
<1>3. c.id # NoId /\ (connectionId = NoId <=> serverSequence = 0)
  BY <1>1, <1>2 DEF WireOK, IInv, ClientOK
<1>4. PICK msg : msg = wire[1] /\ Head(wire) = msg /\ 1 \in 1 .. Len(wire)
  BY <1>1, TailElements, EmptyLength
<1>5. CASE msg.ev = Hello
  <2>1. c.id # connectionId
    BY <1>1, <1>2, <1>4, <1>5 DEF SocketOK
  <2>2. msg.seq = 0
    BY <1>2, <1>4, <1>5 DEF WireOK
  <2>3. /\ wire' = Tail(wire) /\ UNCHANGED <<conn, clientConn>>
        /\ serverSequence' = msg.seq + 1
    BY <1>2, <1>3, <1>4, <1>5, <2>1, <2>2 DEF ClientReceive
  <2>4. /\ connectionId' = c.id /\ base' = published /\ delivered' = << >>
        /\ skipped' = {} /\ UNCHANGED <<byConnection, published>>
    BY <1>2, <1>4, <1>5, <2>1 DEF ClientReceive, hubVars
  <2>5. QED
    BY <1>1, <1>2, <1>3, <1>4, <1>5, <2>1, <2>2, <2>3, <2>4
<1>6. CASE msg.ev # Hello
  <2>1. c.id = connectionId /\ msg.seq = serverSequence
    BY <1>1, <1>2, <1>4, <1>6 DEF SocketOK, WireOK
  <2>2. /\ wire' = Tail(wire) /\ UNCHANGED <<conn, clientConn>>
        /\ serverSequence' = msg.seq + 1
    BY <1>2, <1>4, <1>6, <2>1 DEF ClientReceive
  <2>3. /\ connectionId' = connectionId /\ base' = base /\ skipped' = skipped
        /\ delivered' = Append(delivered, msg.ev)
        /\ UNCHANGED <<byConnection, published>>
    BY <1>2, <1>4, <1>6, <2>1 DEF ClientReceive, hubVars
  <2>4. QED
    BY <1>1, <1>2, <1>4, <1>6, <2>1, <2>2, <2>3
<1>7. QED
  BY <1>5, <1>6

\* The wire without its first message.
LEMMA WireAdvances ==
  ASSUME IInv, StreamOK, wire # << >>, wire' = Tail(wire),
         UNCHANGED <<conn, clientConn>>
  PROVE  /\ wire \in Seq(Message) /\ wire[1] \in Message
         /\ Len(wire) \in Nat \ {0} /\ Len(wire') = Len(wire) - 1
         /\ \A i \in 1 .. Len(wire') : wire'[i] = wire[i + 1]
         /\ \A i \in 1 .. Len(wire') :
              /\ wire'[i] \in Message /\ wire[1].ev < wire'[i].ev
              /\ wire'[i].ev <= published
              /\ \A j \in 1 .. i - 1 : wire'[j].ev < wire'[i].ev
         /\ \A id : WireOf(id)' \subseteq WireOf(id)
<1>1. wire \in Seq(Message)
  BY DEF IInv, TypeOK
<1>2. /\ wire[1] \in Message /\ Len(wire) \in Nat \ {0}
      /\ Len(wire') = Len(wire) - 1
      /\ \A i \in 1 .. Len(wire') : wire'[i] = wire[i + 1]
      /\ \A i \in 1 .. Len(wire) : wire[i] \in Message
  BY <1>1, TailElements, ElementsType
<1>3. ASSUME NEW i \in 1 .. Len(wire')
      PROVE  /\ wire'[i] \in Message /\ wire[1].ev < wire'[i].ev
             /\ wire'[i].ev <= published
             /\ \A j \in 1 .. i - 1 : wire'[j].ev < wire'[i].ev
  <2>1. i + 1 \in 1 .. Len(wire) /\ 1 \in 1 .. (i + 1) - 1
    BY <1>2
  <2>2. /\ wire[i + 1].ev <= published
        /\ \A j \in 1 .. (i + 1) - 1 : wire[j].ev < wire[i + 1].ev
    BY <2>1 DEF StreamOK, WireInOrder
  <2>3. \A j \in 1 .. i - 1 : wire'[j] = wire[j + 1] /\ j + 1 \in 1 .. (i + 1) - 1
    BY <1>2
  <2>4. wire'[i] = wire[i + 1] /\ wire[i + 1] \in Message
    BY <1>2, <2>1
  <2>5. \A j \in 1 .. i - 1 : wire'[j].ev < wire'[i].ev
    BY <2>2, <2>3, <2>4
  <2>6. QED
    BY <2>1, <2>2, <2>4, <2>5
<1>4. Elements(wire)' \subseteq Elements(wire)
  <2>1. ASSUME NEW i \in 1 .. Len(wire')
        PROVE  wire'[i] \in Elements(wire)
    <3>1. i + 1 \in 1 .. Len(wire) /\ wire'[i] = wire[i + 1]
      BY <1>2
    <3>2. QED
      BY <3>1 DEF Elements
  <2>2. QED
    BY <2>1 DEF Elements
<1>5. \A id : WireOf(id)' \subseteq WireOf(id)
  BY <1>4 DEF WireOf
<1>6. QED
  BY <1>1, <1>2, <1>3, <1>5

\* The hello of a new stream: a full fetch covers everything before it, and the
\* queues of the WebConn go on from its number.
LEMMA ReceiveHelloStream ==
  ASSUME IInv, StreamOK, ClientReceive, wire[1].ev = Hello
  PROVE  StreamOK'
<1>1. PICK c : /\ c = conn[clientConn] /\ c.id \notin {connectionId, NoId}
               /\ clientConn \in Conns /\ clientConn # NoConn
               /\ wire # << >> /\ wire' = Tail(wire) /\ wire[1].seq = 0
               /\ UNCHANGED <<conn, byConnection, clientConn, published>>
               /\ connectionId' = c.id /\ serverSequence' = 1
               /\ base' = published /\ delivered' = << >> /\ skipped' = {}
  BY ReceiveCases
<1>2. /\ wire \in Seq(Message) /\ Len(wire) \in Nat \ {0}
      /\ Len(wire') = Len(wire) - 1
      /\ \A i \in 1 .. Len(wire') :
           /\ wire'[i] = wire[i + 1]
           /\ wire'[i] \in Message /\ wire[1].ev < wire'[i].ev
           /\ wire'[i].ev <= published
           /\ \A j \in 1 .. i - 1 : wire'[j].ev < wire'[i].ev
      /\ \A id : WireOf(id)' \subseteq WireOf(id)
  BY <1>1, WireAdvances
<1>3. published \in Nat /\ WireOK(c) /\ SocketOK(c) /\ Holders \subseteq Conns
  BY <1>1, WebSocketAssumption DEF IInv, TypeOK, ClientOK, StreamOK, Holders
<1>4. Holders' = Holders /\ \A v \in Holders : Live(v)' = Live(v)
  BY <1>1 DEF Holders, Live
<1>5. Elements(delivered)' = {}
  BY <1>1 DEF Elements
<1>6. 1 .. published \subseteq Received'
  BY <1>1 DEF Received, Got, Stream!Accounted
<1>7. SocketOK(conn[clientConn])'
  <2>1. c.phase \in {"pumping", "finished", "closed"}
    BY <1>1, <1>3 DEF WireOK
  <2>2. wire' # << >> => wire'[1].ev # Hello
    <3>1. SUFFICES ASSUME wire' # << >> PROVE wire'[1].ev # Hello
      OBVIOUS
    <3>2. wire' \in Seq(Message)
      BY <1>1, <1>2, TailElements
    <3>3. 1 \in 1 .. Len(wire')
      BY <3>1, <3>2, EmptyLength
    <3>4. wire[1].ev < wire'[1].ev
      BY <1>2, <3>3
    <3>5. QED
      BY <3>4 DEF Hello
  <2>3. QED
    BY <1>1, <2>1, <2>2 DEF SocketOK
<1>8. WireInOrder'
  <2>1. \A y \in Events(WireOf(connectionId)') : y \in Nat /\ y <= published
    <3>1. WireOf(connectionId)' = {wire'[i] : i \in 1 .. Len(wire')}
      BY <1>1 DEF WireOf, Elements
    <3>2. QED
      BY <1>2, <3>1 DEF Events, Message
  <2>2. NoGap(Events(WireOf(connectionId)'), Received')
    BY <1>3, <1>6, <2>1 DEF NoGap
  <2>3. QED
    BY <1>1, <1>2, <1>5, <2>2 DEF WireInOrder
<1>9. \A v \in Holders : Ordered(conn[v], WireOf(conn[v].id)', published)
  <2>1. SUFFICES ASSUME NEW v \in Holders
                 PROVE  Ordered(conn[v], WireOf(conn[v].id)', published)
    OBVIOUS
  <2>2. SameQueues(conn[v], conn[v])
    BY DEF SameQueues
  <2>3. Ordered(conn[v], WireOf(conn[v].id), published)
    BY DEF StreamOK
  <2>4. WireOf(conn[v].id)' \subseteq WireOf(conn[v].id)
    BY <1>1, <1>2
  <2>5. QED
    BY <2>2, <2>3, <2>4, OrderedDetached
<1>10. ASSUME NEW v \in Holders, conn[v].id = c.id
       PROVE  GoesOn(conn[v], Reached', Received', Live(v), published)
  <2>1. v = clientConn /\ conn[v] = c /\ v \in Conns
    BY <1>1, <1>3, <1>10 DEF SocketOK
  <2>2. Ordered(c, WireOf(c.id), published)
    BY <1>10, <2>1 DEF StreamOK
  <2>3. SUFFICES ASSUME NEW n \in Nat, HoldsUpTo(c.deadQueue, n)
                 PROVE  /\ Reached' <= n
                        /\ Complete(c, Reached', Received', Live(v), published)
    BY <2>1 DEF GoesOn
  <2>4. Reached' = 1 + Len(wire')
    BY <1>1 DEF Reached
  <2>5. Reached' <= n
    <3>1. Len(wire) \in 1 .. Len(wire)
      BY <1>2
    <3>2. wire[Len(wire)] \in WireOf(c.id)
      BY <1>1, <3>1 DEF WireOf, Elements
    <3>3. wire[Len(wire)].seq < n
      BY <2>2, <2>3, <3>2 DEF Ordered
    <3>4. wire[Len(wire)].seq = Len(wire) - 1
      BY <1>1, <1>2, <1>3, <3>1 DEF WireOK
    <3>5. QED
      BY <1>2, <2>4, <3>3, <3>4
  <2> DEFINE ahead == Events(From(Messages(c.deadQueue), Reached'))
                        \cup Elements(c.send)
  <2>6. c.deadQueue \in DeadQueues /\ c.send \in Seq(Nat)
    BY <1>1 DEF IInv, TypeOK, WebConns
  <2>7. \A x \in ahead : x \in Nat /\ x <= published
    <3>1. Messages(c.deadQueue) \subseteq Message /\ Elements(c.send) \subseteq Nat
      BY <2>3, <2>6, MessagesExact, ElementsType
    <3>2. \A m \in Messages(c.deadQueue) : m.ev <= published
      BY <2>2 DEF Ordered
    <3>3. \A x \in Elements(c.send) : x <= published
      BY <2>2 DEF Ordered, Elements
    <3>4. QED
      BY <3>1, <3>2, <3>3 DEF Events, From, Message
  <2> HIDE DEF ahead
  <2>8. NoGap(ahead, Received' \cup ahead)
    BY <1>3, <1>6, <2>7 DEF NoGap
  <2>9. QED
    BY <1>6, <2>5, <2>8 DEF Complete, Ahead, ahead
<1>11. \A v \in Holders : Later(conn[v])'
  BY <1>5 DEF Later, Ahead
<1>12. \A v, u \in Holders : conn[v].id = conn[u].id => v = u
  BY DEF StreamOK
<1>13. QED
  BY <1>1, <1>4, <1>5, <1>7, <1>8, <1>9, <1>10, <1>11, <1>12 DEF StreamOK

\* The next event of the client's stream: later than what was delivered, and
\* nothing before it is missing.
LEMMA NextEvent ==
  ASSUME IInv, StreamOK, clientConn # NoConn, wire # << >>,
         conn[clientConn].id = connectionId
  PROVE  /\ wire[1].ev \in 1 .. published
         /\ \A x \in Elements(delivered) : x < wire[1].ev
         /\ 1 .. wire[1].ev - 1 \subseteq Got
<1>1. PICK e : e = wire[1].ev
  OBVIOUS
<1>2. /\ Len(wire) \in Nat /\ 1 \in 1 .. Len(wire)
      /\ WireOf(connectionId) = {wire[i] : i \in 1 .. Len(wire)}
      /\ \A i \in 1 .. Len(wire) : wire[i] \in Message /\ wire[i].ev # Hello
  <2>1. wire \in Seq(Message) /\ Len(wire) \in Nat
        /\ WireOf(connectionId) = {wire[i] : i \in 1 .. Len(wire)}
    BY OwnWire
  <2>2. 1 \in 1 .. Len(wire)
    BY <2>1, EmptyLength
  <2>3. QED
    BY <2>1, <2>2, OwnWire
<1>3. published \in Nat
  BY WebSocketAssumption DEF IInv, TypeOK
<1>4. e \in Events(WireOf(connectionId)) /\ e \in Nat \ {0} /\ e <= published
  BY <1>1, <1>2 DEF Events, StreamOK, WireInOrder, Message, Hello
<1>5. \A x \in Elements(delivered) : x < e
  BY <1>4 DEF StreamOK, WireInOrder
<1>6. ASSUME NEW f \in 1 .. e - 1
      PROVE  f \in Got
  <2>1. f \in Got \cup Events(WireOf(connectionId))
    BY <1>4 DEF StreamOK, WireInOrder, NoGap, Received
  <2>2. ASSUME NEW i \in 1 .. Len(wire)
        PROVE  wire[i].ev \in Nat /\ e <= wire[i].ev
    <3>1. i # 1 => 1 \in 1 .. i - 1
      BY <1>2
    <3>2. wire[i].ev \in Nat /\ (i # 1 => e < wire[i].ev)
      BY <1>1, <1>2, <3>1 DEF StreamOK, WireInOrder, Message
    <3>3. QED
      BY <1>1, <1>4, <3>2
  <2>3. f \notin Events(WireOf(connectionId))
    BY <1>2, <1>4, <2>2 DEF Events
  <2>4. QED
    BY <2>1, <2>3
<1>7. QED
  BY <1>1, <1>3, <1>4, <1>5, <1>6

\* The next event of the stream moves from the wire to what was delivered.
LEMMA ReceiveEventStream ==
  ASSUME IInv, StreamOK, ClientReceive, wire[1].ev # Hello
  PROVE  StreamOK'
<1>1. PICK c : /\ c = conn[clientConn] /\ c.id = connectionId
               /\ clientConn \in Conns /\ clientConn # NoConn
               /\ wire # << >> /\ wire' = Tail(wire)
               /\ wire[1].seq = serverSequence
               /\ UNCHANGED <<conn, byConnection, clientConn, published,
                              connectionId, base, skipped>>
               /\ serverSequence' = serverSequence + 1
               /\ delivered' = Append(delivered, wire[1].ev)
  BY ReceiveCases
<1>2. PICK msg : msg = wire[1]
  OBVIOUS
<1>3. /\ wire \in Seq(Message) /\ Len(wire) \in Nat \ {0} /\ msg \in Message
      /\ Len(wire') = Len(wire) - 1
      /\ \A i \in 1 .. Len(wire') :
           /\ wire'[i] = wire[i + 1]
           /\ wire'[i] \in Message /\ msg.ev < wire'[i].ev
           /\ wire'[i].ev <= published
           /\ \A j \in 1 .. i - 1 : wire'[j].ev < wire'[i].ev
      /\ \A id : WireOf(id)' \subseteq WireOf(id)
  BY <1>1, <1>2, WireAdvances
<1>4. /\ published \in Nat /\ serverSequence \in Nat /\ delivered \in Seq(Nat)
      /\ msg.seq \in Nat /\ msg.ev \in Nat
      /\ Holders \subseteq Conns /\ \A v \in Conns : conn[v] \in WebConns
  BY <1>3, WebSocketAssumption DEF IInv, TypeOK, Holders, Message
<1>5. Holders' = Holders /\ \A v \in Holders : Live(v)' = Live(v)
  BY <1>1 DEF Holders, Live
<1>6. /\ msg.ev \in 1 .. published
      /\ \A x \in Elements(delivered) : x < msg.ev
  BY <1>1, <1>2, NextEvent
<1>7. Elements(delivered)' = Elements(delivered) \cup {msg.ev}
  BY <1>1, <1>2, <1>4, ElementsAppended
<1>8. Got' = Got \cup {msg.ev}
  <2>1. Stream!Accounted = (1 .. base) \cup Elements(delivered)
    BY DEF Stream!Accounted, Elements
  <2>2. Stream!Accounted' = (1 .. base) \cup Elements(delivered)'
    BY <1>1 DEF Stream!Accounted, Elements
  <2>3. QED
    BY <1>1, <1>7, <2>1, <2>2 DEF Got
<1>9. WireOf(connectionId) = {msg} \cup WireOf(connectionId)'
  <2>1. WireOf(connectionId) = {wire[i] : i \in 1 .. Len(wire)}
    BY <1>1 DEF WireOf, Elements
  <2>2. WireOf(connectionId)' = {wire'[i] : i \in 1 .. Len(wire')}
    BY <1>1 DEF WireOf, Elements
  <2>3. ASSUME NEW i \in 1 .. Len(wire), i # 1
        PROVE  wire[i] \in WireOf(connectionId)'
    <3>1. PICK j \in 1 .. Len(wire') : i = j + 1
      BY <1>3, <2>3
    <3>2. QED
      BY <1>3, <2>2, <3>1
  <2>4. 1 \in 1 .. Len(wire)
    BY <1>3
  <2>5. QED
    BY <1>1, <1>2, <1>3, <2>1, <2>3, <2>4
<1>10. Received' = Received /\ Reached' = Reached
  <2>1. Received' = Got \cup {msg.ev} \cup Events(WireOf(connectionId)')
    BY <1>1, <1>8 DEF Received
  <2>2. Events(WireOf(connectionId))
          = {msg.ev} \cup Events(WireOf(connectionId)')
    BY <1>1, <1>9 DEF Events
  <2>3. Reached' = Reached
    BY <1>1, <1>3, <1>4 DEF Reached
  <2>4. QED
    BY <2>1, <2>2, <2>3 DEF Received
<1>11. SocketOK(conn[clientConn])'
  <2>1. SocketOK(c)
    BY <1>1 DEF StreamOK
  <2>2. wire' # << >> => wire'[1].ev # Hello
    <3>1. SUFFICES ASSUME wire' # << >> PROVE wire'[1].ev # Hello
      OBVIOUS
    <3>2. wire' \in Seq(Message)
      BY <1>1, <1>3, TailElements
    <3>3. 1 \in 1 .. Len(wire')
      BY <3>1, <3>2, EmptyLength
    <3>4. msg.ev < wire'[1].ev
      BY <1>3, <3>3
    <3>5. QED
      BY <1>4, <3>4 DEF Hello
  <2>3. QED
    BY <1>1, <2>1, <2>2 DEF SocketOK
<1>12. WireInOrder'
  <2>1. NoGap(Events(WireOf(connectionId)'), Received')
    BY <1>9, <1>10 DEF StreamOK, WireInOrder, NoGap, Events
  <2>2. \A y \in Events(WireOf(connectionId)') : msg.ev < y
    <3>1. WireOf(connectionId)' = {wire'[i] : i \in 1 .. Len(wire')}
      BY <1>1 DEF WireOf, Elements
    <3>2. QED
      BY <1>3, <3>1 DEF Events
  <2>3. \A x \in Elements(delivered), y \in Events(WireOf(connectionId)') : x < y
    BY <1>9 DEF StreamOK, WireInOrder, Events
  <2>4. \A x \in Elements(delivered)', y \in Events(WireOf(connectionId)') : x < y
    BY <1>7, <2>2, <2>3
  <2>5. QED
    BY <1>1, <1>3, <2>1, <2>4 DEF WireInOrder
<1>13. \A v \in Holders : Ordered(conn[v], WireOf(conn[v].id)', published)
  <2>1. SUFFICES ASSUME NEW v \in Holders
                 PROVE  Ordered(conn[v], WireOf(conn[v].id)', published)
    OBVIOUS
  <2>2. SameQueues(conn[v], conn[v])
    BY DEF SameQueues
  <2>3. Ordered(conn[v], WireOf(conn[v].id), published)
    BY DEF StreamOK
  <2>4. WireOf(conn[v].id)' \subseteq WireOf(conn[v].id)
    BY <1>1, <1>3
  <2>5. QED
    BY <2>2, <2>3, <2>4, OrderedDetached
<1>14. \A v \in Holders : conn[v].id = connectionId =>
         GoesOn(conn[v], Reached', Received', Live(v)', published)
  BY <1>5, <1>10 DEF StreamOK
<1>15. ASSUME NEW v \in Holders, conn[v].id = connectionId
       PROVE  Later(conn[v])'
  <2>1. PICK d : /\ d = conn[v] /\ d \in WebConns /\ Later(d)
                 /\ Ordered(d, WireOf(connectionId), published)
    BY <1>4, <1>15 DEF StreamOK
  <2> DEFINE D == Messages(d.deadQueue)
  <2>2. D \subseteq Message
    BY <2>1 DEF WebConns, DeadQueues, Messages
  <2>3. From(D, serverSequence + 1) \subseteq From(D, serverSequence)
    BY <1>4, <2>2 DEF From, Message
  <2>4. \A m \in From(D, serverSequence + 1) : msg.ev < m.ev
    <3>1. \A m \in From(D, serverSequence + 1) :
            m \in D /\ m.seq \in Nat /\ msg.seq < m.seq
      BY <1>1, <1>2, <1>4, <2>2 DEF From, Message
    <3>2. msg \in WireOf(connectionId)
      BY <1>9
    <3>3. QED
      BY <2>1, <3>1, <3>2 DEF Ordered, Rising
  <2>5. \A y \in Elements(d.send) : msg.ev < y
    <3>1. msg \in WireOf(connectionId)
      BY <1>9
    <3>2. \A k \in 1 .. Len(d.send) : msg.ev < d.send[k]
      BY <2>1, <3>1 DEF Ordered
    <3>3. QED
      BY <3>2 DEF Elements
  <2>6. \A x \in Elements(delivered) :
          \A y \in Events(From(D, serverSequence)) \cup Elements(d.send) : x < y
    BY <2>1 DEF Later, Ahead
  <2> HIDE DEF D
  <2>7. \A x \in Elements(delivered)' :
          \A y \in Events(From(D, serverSequence + 1)) \cup Elements(d.send) : x < y
    BY <1>7, <2>3, <2>4, <2>5, <2>6 DEF Events
  <2>8. QED
    BY <1>1, <2>1, <2>7 DEF Later, Ahead, D
<1>16. \A x \in Elements(delivered)' : x <= published
  BY <1>4, <1>6, <1>7 DEF StreamOK
<1>17. \A v, u \in Holders : conn[v].id = conn[u].id => v = u
  BY DEF StreamOK
<1>18. QED
  BY <1>1, <1>5, <1>11, <1>12, <1>13, <1>14, <1>15, <1>16, <1>17 DEF StreamOK

-----------------------------------------------------------------------------
(* A writePump writes *)

\* What a write of one WebConn leaves alone: the streams of the others, and the
\* client's socket when it is not the one written to.
LEMMA WriterStep ==
  ASSUME IInv, StreamOK, NEW w \in Conns,
         conn[w].phase \in {"registered", "pumping"},
         NEW d, conn' = [conn EXCEPT ![w] = d],
         UNCHANGED <<byConnection, clientConn, connectionId, serverSequence,
                     published, base, delivered, skipped>>,
         clientConn # w => wire' = wire,
         d.phase \in {"pumping", "finished"},
         \/ d.id = conn[w].id
         \/ d.id # connectionId /\ \A v \in Conns : conn[v].id # d.id,
         clientConn = w => SocketOK(d)' /\ WireInOrder',
         Ordered(d, WireOf(d.id)', published),
         d.id = connectionId =>
           /\ GoesOn(d, Reached', Received', Live(w)', published)
           /\ Later(d)'
  PROVE  StreamOK'
<1>1. conn'[w] = d /\ \A v \in Conns \ {w} : conn'[v] = conn[v]
  BY DEF IInv, TypeOK
<1>2. /\ byConnection \subseteq Conns /\ clientConn \in Conns \cup {NoConn}
      /\ serverSequence \in Nat
  BY DEF IInv, TypeOK
<1>3. w \in Holders /\ Holders' \subseteq Holders /\ Holders \subseteq Conns
  BY <1>1, <1>2 DEF Holders
<1>4. \A v \in Holders \ {w} :
        /\ conn'[v] = conn[v] /\ conn[v].id # conn[w].id /\ conn[v].id # d.id
        /\ Live(v)' = Live(v)
  BY <1>1, <1>3 DEF StreamOK, Live
<1>5. \A v, u \in Holders' : conn'[v].id = conn'[u].id => v = u
  BY <1>1, <1>3, <1>4 DEF StreamOK
<1>6. Got' = Got
  BY DEF Got, Stream!Accounted
<1>7. clientConn # w =>
        /\ \A id : WireOf(id)' = WireOf(id)
        /\ Received' = Received /\ Reached' = Reached
  <2>1. SUFFICES ASSUME clientConn # w
                 PROVE  /\ \A id : WireOf(id)' = WireOf(id)
                        /\ Received' = Received /\ Reached' = Reached
    OBVIOUS
  <2>2. \A id : WireOf(id)' = WireOf(id)
    BY <1>1, <1>2, <2>1 DEF WireOf
  <2>3. Received' = Received
    BY <1>6, <2>2 DEF Received
  <2>4. Reached' = Reached
    BY <1>1, <1>2, <2>1 DEF Reached
  <2>5. QED
    BY <2>2, <2>3, <2>4
<1>8. \A v \in Holders \ {w} : WireOf(conn[v].id)' = WireOf(conn[v].id)
  <2>1. CASE clientConn = w
    BY <1>1, <1>4, <2>1 DEF WireOf
  <2>2. CASE clientConn # w
    BY <1>7, <2>2
  <2>3. QED
    BY <2>1, <2>2
<1>9. ASSUME NEW v \in Holders \ {w}, conn[v].id = connectionId
      PROVE  Received' = Received /\ Reached' = Reached
  <2>1. CASE clientConn = w
    <3>1. conn[w].id # connectionId /\ d.id # connectionId
      BY <1>4, <1>9
    <3>2. Received = Got /\ Reached = serverSequence
      BY <1>2, <2>1, <3>1, ForeignWire
    <3>3. Reached' = serverSequence
      BY <1>1, <1>2, <2>1, <3>1 DEF Reached
    <3>4. WireOf(connectionId)' = {}
      BY <1>1, <2>1, <3>1 DEF WireOf
    <3>5. Received' = Got
      BY <1>6, <3>4 DEF Received, Events
    <3>6. QED
      BY <3>2, <3>3, <3>5
  <2>2. CASE clientConn # w
    BY <1>7, <2>2
  <2>3. QED
    BY <2>1, <2>2
<1>10. ASSUME NEW v \in Holders \ {w}
       PROVE  /\ Ordered(conn'[v], WireOf(conn[v].id)', published)
              /\ conn'[v].id = connectionId =>
                   /\ GoesOn(conn'[v], Reached', Received', Live(v)', published)
                   /\ Later(conn[v])'
  <2>1. Ordered(conn[v], WireOf(conn[v].id), published)
    BY DEF StreamOK
  <2>2. conn[v].id = connectionId =>
          /\ GoesOn(conn[v], Reached, Received, Live(v), published)
          /\ Later(conn[v])
    BY DEF StreamOK
  <2>3. Later(conn[v]) => Later(conn[v])'
    BY <1>4 DEF Later, Ahead
  <2>4. QED
    BY <1>4, <1>8, <1>9, <2>1, <2>2, <2>3
<1>11. clientConn # NoConn => SocketOK(conn[clientConn])'
  <2>1. CASE clientConn = w
    BY <1>1, <2>1
  <2>2. CASE clientConn \in Conns \ {w}
    <3>1. PICK c : c = conn[clientConn] /\ c = conn'[clientConn] /\ SocketOK(c)
      BY <1>1, <2>2, WebSocketAssumption DEF StreamOK
    <3>2. c.id \notin {connectionId, NoId} =>
            \A v \in Conns : conn'[v].id = c.id => v = clientConn
      BY <1>1, <2>2, <3>1 DEF SocketOK
    <3>3. QED
      BY <2>2, <3>1, <3>2 DEF SocketOK
  <2>3. QED
    BY <1>2, <2>1, <2>2
<1>12. WireInOrder'
  <2>1. CASE clientConn = w
    BY <2>1
  <2>2. CASE clientConn # w
    BY <1>7, <2>2 DEF StreamOK, WireInOrder
  <2>3. QED
    BY <2>1, <2>2
<1>13. \A x \in Elements(delivered) : x <= published
  BY DEF StreamOK
<1>14. \A v \in Holders' :
         /\ Ordered(conn'[v], WireOf(conn[v].id)', published)
         /\ conn'[v].id = connectionId =>
              /\ GoesOn(conn'[v], Reached', Received', Live(v)', published)
              /\ Later(conn[v])'
  BY <1>1, <1>3, <1>10
<1>15. /\ (\A v, u \in Holders : conn[v].id = conn[u].id => v = u)'
       /\ (\A x \in Elements(delivered) : x <= published)'
       /\ (clientConn # NoConn => SocketOK(conn[clientConn]))'
  BY <1>5, <1>11, <1>13 DEF SocketOK
<1>16. QED
  BY <1>12, <1>14, <1>15 DEF StreamOK

\* An event moves from the queues to what the client has, or within the queues.
LEMMA CompleteMoves ==
  ASSUME NEW c, NEW d, NEW next, NEW after, NEW got, NEW more, NEW last,
         NEW live \in BOOLEAN, NEW still \in BOOLEAN,
         Complete(c, next, got, live, last), still => live,
         Ahead(d, after) \subseteq Ahead(c, next),
         got \cup Ahead(c, next) \subseteq more \cup Ahead(d, after)
  PROVE  Complete(d, after, more, still, last)
  BY DEF Complete, NoGap

\* The queue send without its first event.
LEMMA SendAdvances ==
  ASSUME NEW c \in WebConns, c.send # << >>, NEW onWire, NEW last,
         Ordered(c, onWire, last), NEW q, q = Tail(c.send)
  PROVE  /\ c.send[1] \in Nat /\ Head(c.send) = c.send[1] /\ q \in Seq(Nat)
         /\ c.send[1] <= last
         /\ Elements(c.send) = {c.send[1]} \cup Elements(q)
         /\ \A k \in 1 .. Len(q) : /\ q[k] = c.send[k + 1]
                                   /\ k + 1 \in 1 .. Len(c.send)
                                   /\ q[k] \in Nat /\ q[k] <= last
                                   /\ c.send[1] < q[k]
                                   /\ \A j \in 1 .. k - 1 : q[j] < q[k]
<1>1. c.send \in Seq(Nat)
  BY DEF WebConns
<1>2. /\ c.send[1] \in Nat /\ Head(c.send) = c.send[1] /\ q \in Seq(Nat)
      /\ Len(c.send) \in Nat \ {0} /\ Len(q) = Len(c.send) - 1
      /\ \A k \in 1 .. Len(c.send) - 1 : q[k] = c.send[k + 1]
      /\ \A k \in 1 .. Len(c.send) : c.send[k] \in Nat
  BY <1>1, TailElements
<1>3. \A k \in 1 .. Len(c.send) :
        c.send[k] <= last /\ \A j \in 1 .. k - 1 : c.send[j] < c.send[k]
  BY DEF Ordered
<1>4. 1 \in 1 .. Len(c.send)
  BY <1>2
<1>5. ASSUME NEW k \in 1 .. Len(q)
      PROVE  /\ q[k] = c.send[k + 1] /\ k + 1 \in 1 .. Len(c.send)
             /\ q[k] \in Nat /\ q[k] <= last
             /\ c.send[1] < q[k]
             /\ \A j \in 1 .. k - 1 : q[j] < q[k]
  <2>1. q[k] = c.send[k + 1] /\ k + 1 \in 1 .. Len(c.send) /\ 1 \in 1 .. (k + 1) - 1
    BY <1>2
  <2>2. ASSUME NEW j \in 1 .. k - 1
        PROVE  q[j] = c.send[j + 1] /\ j + 1 \in 1 .. (k + 1) - 1
    <3>1. j \in 1 .. Len(c.send) - 1
      BY <1>2
    <3>2. QED
      BY <1>2, <3>1
  <2>3. \A j \in 1 .. k - 1 : q[j] < q[k]
    BY <1>3, <2>1, <2>2
  <2>4. QED
    BY <1>2, <1>3, <2>1, <2>3
<1>6. Elements(c.send) = {c.send[1]} \cup Elements(q)
  <2>1. ASSUME NEW i \in 1 .. Len(c.send), i # 1
        PROVE  c.send[i] \in Elements(q)
    <3>1. PICK j \in 1 .. Len(q) : i = j + 1
      BY <1>2, <2>1
    <3>2. QED
      BY <1>5, <3>1 DEF Elements
  <2>2. \A k \in 1 .. Len(q) : q[k] \in Elements(c.send)
    BY <1>5 DEF Elements
  <2>3. QED
    BY <1>4, <2>1, <2>2 DEF Elements
<1>7. QED
  BY <1>2, <1>3, <1>4, <1>5, <1>6

\* The first event of send gets the next number and enters the dead queue.
Written(c, d, msg) ==
  /\ c.send # << >> /\ msg \in Message /\ msg.ev = c.send[1]
  /\ HoldsUpTo(c.deadQueue, msg.seq)
  /\ d.send = Tail(c.send)
  /\ d.deadQueue = addToDeadQueue(c.deadQueue, msg)

\* The dead queue and the numbers after such a write.
LEMMA WrittenExact ==
  ASSUME NEW c \in WebConns, NEW d, NEW msg, Written(c, d, msg)
  PROVE  /\ d.deadQueue \in DeadQueues
         /\ \A n \in Nat : HoldsUpTo(d.deadQueue, n) => n = msg.seq + 1
<1>1. c.deadQueue \in DeadQueues /\ msg.seq \in Nat /\ msg.seq + 1 \in Nat
      /\ msg \in Message
  BY DEF WebConns, Written, Message
<1>2. d.deadQueue \in DeadQueues
  BY <1>1, AddType DEF Written
<1>3. HoldsUpTo(d.deadQueue, msg.seq + 1)
  BY <1>1, AddExact DEF Written
<1>4. QED
  BY <1>1, <1>2, <1>3, NumberUnique

\* A write keeps the order.
LEMMA OrderedWritten ==
  ASSUME NEW c \in WebConns, NEW d, NEW msg, Written(c, d, msg),
         NEW onWire \in SUBSET Message, NEW last, Ordered(c, onWire, last),
         NEW rest, rest \subseteq onWire \cup {msg}
  PROVE  Ordered(d, rest, last)
<1>1. c.deadQueue \in DeadQueues /\ msg.seq \in Nat /\ msg \in Message
      /\ HoldsUpTo(c.deadQueue, msg.seq) /\ c.send # << >>
      /\ msg.ev = c.send[1] /\ msg.ev \in Nat
  BY DEF WebConns, Written, Message
<1> DEFINE sent == Messages(c.deadQueue) \cup onWire
           now == Messages(d.deadQueue) \cup rest
<1>2. Messages(c.deadQueue) \subseteq Message
      /\ \A m \in Messages(c.deadQueue) : m.seq < msg.seq
  BY <1>1, MessagesExact
<1>3. Messages(d.deadQueue) \subseteq Messages(c.deadQueue) \cup {msg}
  BY <1>1, AddMessages DEF Written
<1>4. now \subseteq sent \cup {msg}
  BY <1>3
<1>5. \A m \in onWire : m.seq < msg.seq
  BY <1>1 DEF Ordered
<1>6. /\ Rising(sent)
      /\ \A m \in sent : m.ev <= last
      /\ \A m \in sent : \A k \in 1 .. Len(c.send) : m.ev < c.send[k]
  BY DEF Ordered
<1>7. \A m \in sent : m.seq \in Nat /\ m.ev \in Nat /\ m.seq < msg.seq
  BY <1>2, <1>5 DEF Message
<1>8. /\ msg.ev <= last /\ d.send = Tail(c.send)
      /\ \A k \in 1 .. Len(d.send) : /\ d.send[k] = c.send[k + 1]
                                     /\ k + 1 \in 1 .. Len(c.send)
                                     /\ d.send[k] <= last
                                     /\ msg.ev < d.send[k]
                                     /\ \A j \in 1 .. k - 1 : d.send[j] < d.send[k]
  BY <1>1, SendAdvances DEF Written
<1>9. \A m \in sent : m.ev < msg.ev
  <2>1. 1 \in 1 .. Len(c.send)
    BY <1>1, EmptyLength DEF WebConns
  <2>2. QED
    BY <1>1, <1>6, <2>1
<1> HIDE DEF sent, now
<1>10. Rising(now)
  BY <1>1, <1>4, <1>6, <1>7, <1>9 DEF Rising
<1>11. \A m \in now : m.ev <= last /\ \A k \in 1 .. Len(d.send) : m.ev < d.send[k]
  BY <1>4, <1>6, <1>8
<1>12. \A n \in Nat : HoldsUpTo(d.deadQueue, n) => \A m \in rest : m.seq < n
  <2>1. SUFFICES ASSUME NEW m \in rest PROVE m.seq < msg.seq + 1
    BY WrittenExact
  <2>2. m = msg \/ m \in onWire
    OBVIOUS
  <2>3. \A x \in onWire : x.seq \in Nat
    BY DEF Message
  <2>4. QED
    BY <1>1, <1>5, <2>2, <2>3
<1>13. QED
  BY <1>8, <1>10, <1>11, <1>12 DEF Ordered, now

\* Where the event is after a write: further ahead in the same queues, as long as
\* the number next is still there, or written.
LEMMA AheadWritten ==
  ASSUME NEW c \in WebConns, NEW d, NEW msg, Written(c, d, msg),
         NEW last, NEW onWire, Ordered(c, onWire, last)
  PROVE  /\ \A next \in Nat : Ahead(d, next) \subseteq Ahead(c, next)
         /\ \A next \in Nat :
              msg.seq - deadQueueSize < next /\ next <= msg.seq =>
                Ahead(d, next) = Ahead(c, next)
         /\ Ahead(c, msg.seq) = {msg.ev} \cup Elements(d.send)
         /\ Ahead(d, msg.seq + 1) = Elements(d.send)
<1>1. c.deadQueue \in DeadQueues /\ msg.seq \in Nat /\ msg \in Message
      /\ HoldsUpTo(c.deadQueue, msg.seq) /\ c.send # << >>
      /\ msg.ev = c.send[1] /\ deadQueueSize \in Nat /\ d.send = Tail(c.send)
      /\ d.deadQueue = addToDeadQueue(c.deadQueue, msg)
  BY DeadQueueAssumption DEF WebConns, Written, Message
<1> DEFINE D == Messages(c.deadQueue)
           E == Messages(d.deadQueue)
<1>2. D \subseteq Message /\ \A m \in D : m.seq < msg.seq
  BY <1>1, MessagesExact
<1>3. /\ E \subseteq D \cup {msg} /\ msg \in E
      /\ \A m \in D : m.seq # msg.seq - deadQueueSize => m \in E
  BY <1>1, AddMessages
<1>4. Elements(c.send) = {msg.ev} \cup Elements(d.send)
  BY <1>1, SendAdvances
<1>5. \A m \in D : m.seq \in Nat
  BY <1>2 DEF Message
<1> HIDE DEF D, E
<1>6. \A next \in Nat : Ahead(d, next) \subseteq Ahead(c, next)
  BY <1>3, <1>4 DEF Ahead, From, Events, D, E
<1>7. ASSUME NEW next \in Nat, msg.seq - deadQueueSize < next, next <= msg.seq
      PROVE  Ahead(c, next) \subseteq Ahead(d, next)
  <2>1. From(D, next) \subseteq From(E, next)
    BY <1>1, <1>3, <1>5, <1>7 DEF From
  <2>2. msg \in From(E, next)
    BY <1>1, <1>3, <1>7 DEF From
  <2>3. QED
    BY <1>4, <2>1, <2>2 DEF Ahead, Events, D, E
<1>8. From(D, msg.seq) = {} /\ From(E, msg.seq + 1) = {}
  BY <1>1, <1>2, <1>3, <1>5 DEF From
<1>9. QED
  BY <1>4, <1>6, <1>7, <1>8 DEF Ahead, Events, D, E

\* writePump sends the next event: to the client, if it is still there, and into
\* the dead queue.
LEMMA WriteEventStream ==
  ASSUME IInv, StreamOK, NEW w \in Conns, WriteEvent(w)
  PROVE  StreamOK'
<1>1. PICK c : c = conn[w] /\ c \in WebConns /\ ConnOK(c)
               /\ c.phase = "pumping" /\ c.send # << >>
  BY DEF IInv, TypeOK, WriteEvent
<1>2. /\ c.send[1] \in Nat /\ Head(c.send) = c.send[1] /\ c.sequence \in Nat
      /\ c.id # NoId
  BY <1>1, TailElements DEF WebConns, ConnOK
<1>3. PICK msg : msg = [seq |-> c.sequence, ev |-> c.send[1]]
  OBVIOUS
<1>4. msg \in Message /\ msg.seq = c.sequence /\ msg.ev = c.send[1]
  BY <1>2, <1>3 DEF Message
<1>5. PICK phase \in AfterWrite(w) : conn' = [conn EXCEPT ![w] =
        [c EXCEPT !.phase = phase, !.sequence = c.sequence + 1,
                  !.send = Tail(c.send),
                  !.deadQueue = addToDeadQueue(c.deadQueue, msg)]]
  BY <1>1, <1>2, <1>3 DEF WriteEvent
<1>6. PICK d : d = [c EXCEPT !.phase = phase, !.sequence = c.sequence + 1,
                  !.send = Tail(c.send),
                  !.deadQueue = addToDeadQueue(c.deadQueue, msg)]
  OBVIOUS
<1>7. /\ d.phase \in {"pumping", "finished"} /\ d.id = c.id /\ d.open = c.open
      /\ d.send = Tail(c.send)
      /\ d.deadQueue = addToDeadQueue(c.deadQueue, msg)
  BY <1>1, <1>5, <1>6 DEF WebConns, AfterWrite
<1>8. Written(c, d, msg)
  BY <1>1, <1>4, <1>7 DEF Written, ConnOK
<1>9. /\ conn' = [conn EXCEPT ![w] = d] /\ conn'[w] = d
      /\ UNCHANGED <<byConnection, clientConn, connectionId, serverSequence,
                     published, base, delivered, skipped>>
      /\ wire' = IF clientConn = w /\ c.open THEN wire \o <<msg>> ELSE wire
  BY <1>1, <1>2, <1>3, <1>5, <1>6
    DEF IInv, TypeOK, WriteEvent, WriteToSocket, hubVars, clientVars, historyVars
<1>10. /\ w \in Holders /\ wire \in Seq(Message) /\ serverSequence \in Nat
       /\ published \in Nat /\ WireOf(c.id) \in SUBSET Message
  BY <1>1, WireMessages, WebSocketAssumption DEF Holders, IInv, TypeOK
<1>11. Ordered(c, WireOf(c.id), published)
  BY <1>1, <1>10 DEF StreamOK
<1>12. /\ Len(wire \o <<msg>>) = Len(wire) + 1 /\ Len(wire) \in Nat
       /\ \A i \in 1 .. Len(wire) : (wire \o <<msg>>)[i] = wire[i]
       /\ (wire \o <<msg>>)[Len(wire) + 1] = msg
  BY <1>4, <1>10
<1>13. Elements(wire \o <<msg>>) = Elements(wire) \cup {msg}
  BY <1>12 DEF Elements
<1>14. WireOf(d.id)' = IF clientConn = w /\ c.open
                         THEN WireOf(c.id) \cup {msg} ELSE WireOf(c.id)
  <2>1. CASE clientConn = w
    <3>1. WireOf(c.id) = Elements(wire) /\ WireOf(d.id)' = Elements(wire)'
      BY <1>1, <1>7, <1>9, <2>1, WebSocketAssumption DEF WireOf
    <3>2. QED
      BY <1>9, <1>13, <2>1, <3>1
  <2>2. CASE clientConn # w
    <3>1. \A v \in Conns \ {w} : conn'[v] = conn[v]
      BY <1>9 DEF IInv, TypeOK
    <3>2. clientConn \in Conns \cup {NoConn}
      BY DEF IInv, TypeOK
    <3>3. QED
      BY <1>7, <1>9, <2>2, <3>1, <3>2 DEF WireOf
  <2>3. QED
    BY <2>1, <2>2
<1>15. Ordered(d, WireOf(d.id)', published)
  BY <1>1, <1>8, <1>10, <1>11, <1>14, OrderedWritten
<1>16. 1 \in 1 .. Len(c.send) /\ msg.ev \in Elements(c.send)
       /\ msg.ev \in Nat /\ msg.ev <= published
  <2>1. 1 \in 1 .. Len(c.send)
    BY <1>1, EmptyLength DEF WebConns
  <2>2. QED
    BY <1>2, <1>4, <1>11, <2>1 DEF Ordered, Elements
<1>17. c.id = connectionId =>
         GoesOn(c, Reached, Received, Live(w), published) /\ Later(c)
  BY <1>1, <1>10 DEF StreamOK
<1>18. Greeting(c) <=> msg.ev = Hello
  BY <1>1, <1>4 DEF Greeting
<1>19. Greeting(c) => c.id # connectionId
  BY <1>1 DEF IInv, NewIdsOK, New
<1>20. clientConn = w => WireOK(c) /\ SocketOK(c)
  BY <1>1, WebSocketAssumption DEF IInv, ClientOK, StreamOK
<1>21. Got' = Got
  BY <1>9 DEF Got, Stream!Accounted
<1>22. Live(w)' => Live(w)
  BY <1>7, <1>9 DEF Live
<1>23. ASSUME clientConn = w
       PROVE  SocketOK(d)'
  <2>1. d.id \notin {connectionId, NoId} =>
          \A v \in Conns : conn'[v].id = d.id => v = clientConn
    <3>1. \A v \in Conns : conn'[v].id = conn[v].id
      BY <1>1, <1>7, <1>9 DEF IInv, TypeOK
    <3>2. QED
      BY <1>7, <1>20, <1>23, <3>1 DEF SocketOK
  <2>2. wire' # << >> => (d.id = connectionId <=> wire'[1].ev # Hello)
    <3>1. CASE wire # << >>
      <4>1. wire'[1] = wire[1]
        BY <1>9, <1>10, <1>12, <3>1, EmptyLength
      <4>2. QED
        BY <1>7, <1>20, <1>23, <3>1, <4>1 DEF SocketOK
    <3>2. CASE wire = << >> /\ c.open
      <4>1. wire'[1] = msg
        BY <1>9, <1>12, <1>23, <3>2
      <4>2. QED
        BY <1>1, <1>7, <1>18, <1>19, <1>20, <1>23, <3>2, <4>1 DEF SocketOK
    <3>3. CASE wire = << >> /\ ~c.open
      BY <1>9, <3>3
    <3>4. QED
      BY <3>1, <3>2, <3>3
  <2>3. d.open => wire' # << >>
    <3>1. d.open => wire' = wire \o <<msg>> /\ Len(wire \o <<msg>>) = Len(wire) + 1
      BY <1>7, <1>9, <1>12, <1>23
    <3>2. QED
      BY <1>12, <3>1
  <2>4. QED
    BY <1>7, <1>9, <2>1, <2>2, <2>3 DEF SocketOK
<1>24. ASSUME c.id = connectionId, clientConn = w, c.open
       PROVE  /\ Reached = msg.seq /\ Reached' = msg.seq + 1
              /\ Received' = Received \cup {msg.ev}
  <2>1. Reached = msg.seq
    <3>1. Reached = serverSequence + Len(wire)
      BY <1>1, <1>24, OwnWire, WebSocketAssumption
    <3>2. wire # << >> => wire[1].seq = serverSequence
      BY <1>4, <1>20, <1>24, <1>18, <1>19 DEF WireOK, SocketOK
    <3>3. wire = << >> => Len(wire) = 0
      BY <1>10, EmptyLength
    <3>4. QED
      BY <1>1, <1>4, <1>10, <1>12, <1>19, <1>20, <1>24, <3>1, <3>2, <3>3 DEF WireOK
  <2>2. Reached' = Reached + 1
    <3>1. Len(wire') = Len(wire) + 1
      BY <1>9, <1>12, <1>24
    <3>2. QED
      BY <1>1, <1>7, <1>9, <1>10, <1>12, <1>24, <3>1, WebSocketAssumption DEF Reached
  <2>3. Received' = Received \cup {msg.ev}
    <3>1. WireOf(connectionId)' = WireOf(connectionId) \cup {msg}
      BY <1>7, <1>9, <1>14, <1>24
    <3>2. QED
      BY <1>9, <1>21, <3>1 DEF Received, Events
  <2>4. QED
    BY <2>1, <2>2, <2>3
<1>25. ASSUME c.id = connectionId, ~(clientConn = w /\ c.open)
       PROVE  Reached' = Reached /\ Received' = Received
  <2>1. WireOf(connectionId)' = WireOf(connectionId)
    BY <1>7, <1>9, <1>14, <1>25
  <2>2. clientConn # NoConn => conn'[clientConn].id = conn[clientConn].id
    <3>1. \A v \in Conns : conn'[v].id = conn[v].id
      BY <1>1, <1>7, <1>9 DEF IInv, TypeOK
    <3>2. QED
      BY <3>1 DEF IInv, TypeOK
  <2>3. Reached' = Reached
    BY <1>9, <1>25, <2>2 DEF Reached
  <2>4. QED
    BY <1>9, <1>21, <2>1, <2>3 DEF Received
<1>26. /\ \A next \in Nat : Ahead(d, next) \subseteq Ahead(c, next)
       /\ \A next \in Nat :
            msg.seq - deadQueueSize < next /\ next <= msg.seq =>
              Ahead(d, next) = Ahead(c, next)
       /\ Ahead(c, msg.seq) = {msg.ev} \cup Elements(d.send)
       /\ Ahead(d, msg.seq + 1) = Elements(d.send)
  BY <1>1, <1>8, <1>11, AheadWritten
<1>27. c.id = connectionId =>
         /\ Reached <= msg.seq
         /\ msg.seq - deadQueueSize <= Reached =>
              Complete(c, Reached, Received, Live(w), published)
  BY <1>2, <1>4, <1>8, <1>17 DEF GoesOn, Written
<1>28. deadQueueSize \in Nat /\ msg.seq \in Nat /\ Reached \in Nat
  BY <1>2, <1>4, <1>10, <1>12, DeadQueueAssumption DEF Reached
<1>29. Live(w) \in BOOLEAN /\ Live(w)' \in BOOLEAN
  BY DEF Live
<1>30. ASSUME c.id = connectionId
       PROVE  GoesOn(d, Reached', Received', Live(w)', published)
  <2>1. PICK next, got, still :
          next = Reached' /\ got = Received' /\ still = Live(w)'
    OBVIOUS
  <2> DEFINE GoesOnFrom(n) == /\ next <= n
                              /\ n - deadQueueSize <= next =>
                                   Complete(d, next, got, still, published)
  <2>2. ASSUME clientConn = w, c.open PROVE GoesOnFrom(msg.seq + 1)
    <3>1. Complete(c, msg.seq, Received, Live(w), published)
      BY <1>24, <1>27, <1>28, <1>30, <2>2
    <3>2. Complete(d, msg.seq + 1, Received \cup {msg.ev}, Live(w)', published)
      BY <1>22, <1>26, <1>29, <3>1, CompleteMoves
    <3>3. Reached' = msg.seq + 1 /\ Received' = Received \cup {msg.ev}
      BY <1>24, <1>30, <2>2
    <3>4. next = msg.seq + 1 /\ Complete(d, next, got, still, published)
      BY <2>1, <3>2, <3>3
    <3>5. QED
      BY <1>28, <3>4
  <2>3. ASSUME ~(clientConn = w /\ c.open) PROVE GoesOnFrom(msg.seq + 1)
    <3>1. Reached <= msg.seq + 1
      BY <1>27, <1>28, <1>30
    <3>2. ASSUME msg.seq + 1 - deadQueueSize <= Reached
          PROVE  Complete(d, Reached, Received, Live(w)', published)
      <4>1. msg.seq - deadQueueSize < Reached
        BY <1>28, <3>2
      <4>2. Complete(c, Reached, Received, Live(w), published)
        BY <1>27, <1>28, <1>30, <4>1
      <4>3. Ahead(d, Reached) = Ahead(c, Reached)
        BY <1>26, <1>27, <1>28, <1>30, <4>1
      <4>4. QED
        BY <1>22, <1>29, <4>2, <4>3, CompleteMoves
    <3>3. next = Reached /\ got = Received
      BY <1>25, <1>30, <2>1, <2>3
    <3>4. ASSUME msg.seq + 1 - deadQueueSize <= next
          PROVE  Complete(d, next, got, still, published)
      <4>1. Complete(d, Reached, Received, Live(w)', published)
        BY <3>2, <3>3, <3>4
      <4>2. QED
        BY <2>1, <3>3, <4>1, Zenon
    <3>5. next <= msg.seq + 1 /\ next \in Nat
      BY <1>28, <3>1, <3>3
    <3>6. QED
      BY <1>28, <3>4, <3>5
  <2>4. \A n \in Nat : HoldsUpTo(d.deadQueue, n) => n = msg.seq + 1
    BY <1>1, <1>8, WrittenExact
  <2>5. GoesOnFrom(msg.seq + 1)
    BY <2>2, <2>3
  <2> HIDE DEF GoesOnFrom
  <2>6. GoesOn(d, next, got, still, published)
    <3>1. \A n \in Nat : HoldsUpTo(d.deadQueue, n) => GoesOnFrom(n)
      BY <2>4, <2>5
    <3>2. QED
      BY <3>1 DEF GoesOn, GoesOnFrom
  <2>7. QED
    BY <2>1, <2>6
<1>31. c.id = connectionId => Later(d)'
  <2>1. c.id = connectionId =>
          \A x \in Elements(delivered) : \A y \in Ahead(d, serverSequence) : x < y
    BY <1>10, <1>17, <1>26 DEF Later
  <2>2. QED
    BY <1>9, <2>1 DEF Later
<1>32. ASSUME clientConn = w
       PROVE  WireInOrder'
  <2>1. CASE ~c.open
    <3>1. wire' = wire /\ WireOf(connectionId)' = WireOf(connectionId)
      BY <1>1, <1>7, <1>9, <1>32, <2>1, WebSocketAssumption DEF WireOf
    <3>2. Received' = Received
      BY <1>9, <1>21, <3>1 DEF Received
    <3>3. QED
      BY <1>9, <3>1, <3>2 DEF StreamOK, WireInOrder
  <2>2. CASE c.open
    <3>1. wire' = wire \o <<msg>> /\ WireOf(c.id) = Elements(wire)
      BY <1>1, <1>9, <1>32, <2>2, WebSocketAssumption DEF WireOf
    <3>2. \A i \in 1 .. Len(wire) : wire[i].ev < msg.ev
      <4>1. \A m \in WireOf(c.id) : m.ev < c.send[1]
        BY <1>11, <1>16 DEF Ordered
      <4>2. QED
        BY <1>4, <3>1, <4>1 DEF Elements
    <3>3. ASSUME NEW i \in 1 .. Len(wire')
          PROVE  /\ wire'[i].ev <= published
                 /\ \A j \in 1 .. i - 1 : wire'[j].ev < wire'[i].ev
      <4>1. CASE i \in 1 .. Len(wire)
        <5>1. \A j \in 1 .. i - 1 : j \in 1 .. Len(wire)
          BY <1>12, <4>1
        <5>2. QED
          BY <1>12, <3>1, <4>1, <5>1 DEF StreamOK, WireInOrder
      <4>2. CASE i = Len(wire) + 1
        <5>1. \A j \in 1 .. i - 1 : j \in 1 .. Len(wire)
          BY <1>12, <4>2
        <5>2. QED
          BY <1>12, <1>16, <3>1, <3>2, <4>2, <5>1
      <4>3. QED
        BY <1>12, <3>1, <4>1, <4>2
    <3>4. CASE c.id = connectionId
      <4>1. Events(WireOf(connectionId)')
              = Events(WireOf(connectionId)) \cup {msg.ev}
        BY <1>7, <1>9, <1>14, <1>32, <2>2, <3>4 DEF Events
      <4>2. Complete(c, msg.seq, Received, Live(w), published)
        BY <1>24, <1>27, <1>28, <1>32, <2>2, <3>4
      <4>3. ASSUME NEW f \in 1 .. msg.ev - 1
            PROVE  f \in Received'
        <5>1. f \in Received \cup Ahead(c, msg.seq)
          BY <1>26, <4>2 DEF Complete, NoGap
        <5>2. \A y \in Elements(d.send) : y \in Nat /\ msg.ev < y
          <6>1. \A k \in 1 .. Len(d.send) : d.send[k] \in Nat /\ msg.ev < d.send[k]
            BY <1>1, <1>4, <1>7, <1>11, SendAdvances
          <6>2. QED
            BY <6>1 DEF Elements
        <5>3. f \notin Ahead(c, msg.seq)
          BY <1>16, <1>26, <5>2
        <5>4. QED
          BY <1>24, <1>32, <2>2, <3>4, <5>1, <5>3
      <4>4. NoGap(Events(WireOf(connectionId)'), Received')
        BY <1>24, <1>32, <2>2, <3>4, <4>1, <4>3 DEF StreamOK, WireInOrder, NoGap
      <4>5. \A x \in Elements(delivered) : x < msg.ev
        BY <1>10, <1>16, <1>17, <3>4 DEF Later, Ahead
      <4>6. \A x \in Elements(delivered) :
              \A y \in Events(WireOf(connectionId)') : x < y
        BY <4>1, <4>5 DEF StreamOK, WireInOrder
      <4>7. QED
        BY <1>9, <3>3, <4>4, <4>6 DEF WireInOrder
    <3>5. CASE c.id # connectionId
      <4>1. WireOf(connectionId)' = {}
        BY <1>7, <1>9, <1>32, <3>5 DEF WireOf
      <4>2. QED
        BY <1>9, <3>3, <4>1 DEF WireInOrder, NoGap, Events
    <3>6. QED
      BY <3>4, <3>5
  <2>3. QED
    BY <2>1, <2>2
<1>33. clientConn # w => wire' = wire
  BY <1>9
<1>34. QED
  BY <1>1, <1>7, <1>9, <1>15, <1>23, <1>30, <1>31, <1>32, <1>33, WriterStep

\* What drainDeadQueue writes is what the dead queue holds from the number on, in
\* the order of the broadcasts.
LEMMA Drained ==
  ASSUME NEW dq \in DeadQueues, Rising(Messages(dq)),
         NEW n \in Nat, HoldsUpTo(dq, n),
         NEW seq \in Nat, isInDeadQueue(dq, seq),
         NEW msgs, msgs = drainDeadQueue(dq, SlotOf(dq, seq))
  PROVE  /\ msgs \in Seq(Message) /\ n - seq \in Nat \ {0}
         /\ Len(msgs) = n - seq /\ n - deadQueueSize <= seq
         /\ \A k \in 1 .. Len(msgs) : /\ msgs[k] \in Messages(dq)
                                      /\ msgs[k].seq = seq + k - 1
                                      /\ \A j \in 1 .. k - 1 :
                                           msgs[j].ev < msgs[k].ev
         /\ Elements(msgs) \subseteq Messages(dq)
         /\ Events(Elements(msgs)) = Events(From(Messages(dq), seq))
         /\ From(Messages(dq), n) = {}
<1>1. /\ msgs \in Seq(Message) /\ Len(msgs) = n - seq
      /\ \A k \in 1 .. n - seq : /\ msgs[k].seq = seq + k - 1
                                 /\ \E i \in Slots : msgs[k] = dq.buf[i]
  BY DrainExact
<1>2. n - seq \in Nat \ {0} /\ n - deadQueueSize <= seq
  BY IsInDeadQueueExact
<1>3. /\ Messages(dq) \subseteq Message
      /\ \A m \in Messages(dq) : m.seq < n
  BY MessagesExact
<1>4. ASSUME NEW k \in 1 .. Len(msgs)
      PROVE  msgs[k] \in Messages(dq) /\ msgs[k].seq = seq + k - 1
  <2>1. msgs[k] \in Message /\ msgs[k].seq = seq + k - 1
    BY <1>1, ElementsType
  <2>2. PICK i \in Slots : msgs[k] = dq.buf[i]
    BY <1>1
  <2>3. msgs[k] # Nil
    BY <2>1, DeadQueueAssumption DEF Message
  <2>4. QED
    BY <2>1, <2>2, <2>3 DEF Messages
<1>5. ASSUME NEW k \in 1 .. Len(msgs), NEW j \in 1 .. k - 1
      PROVE  msgs[j].ev < msgs[k].ev
  <2>1. j \in 1 .. Len(msgs)
    BY <1>1, <1>2
  <2>2. msgs[j].seq < msgs[k].seq
    BY <1>4, <2>1
  <2>3. QED
    BY <1>4, <2>1, <2>2 DEF Rising
<1>6. Elements(msgs) \subseteq Messages(dq)
  BY <1>4 DEF Elements
<1>7. Elements(msgs) \subseteq From(Messages(dq), seq)
  BY <1>1, <1>2, <1>4 DEF Elements, From
<1>8. ASSUME NEW m \in From(Messages(dq), seq)
      PROVE  m.ev \in Events(Elements(msgs))
  <2>1. m \in Messages(dq) /\ m.seq \in Nat /\ m.seq >= seq /\ m.seq < n
    BY <1>3 DEF From, Message
  <2>2. PICK k \in 1 .. Len(msgs) : k = m.seq - seq + 1
    BY <1>1, <1>2, <2>1
  <2>3. msgs[k] \in Messages(dq) /\ msgs[k].seq = m.seq
    BY <1>4, <2>1, <2>2
  <2>4. msgs[k].ev = m.ev
    BY <2>1, <2>3 DEF Rising
  <2>5. QED
    BY <2>4 DEF Events, Elements
<1>9. Events(Elements(msgs)) = Events(From(Messages(dq), seq))
  BY <1>7, <1>8 DEF Events
<1>10. From(Messages(dq), n) = {}
  BY <1>3 DEF From, Message
<1>11. QED
  BY <1>1, <1>2, <1>4, <1>5, <1>6, <1>9, <1>10

\* Messages of the dead queue on the wire do not disturb the order.
LEMMA OrderedDrained ==
  ASSUME NEW c, NEW d, NEW onWire, NEW last, Ordered(c, onWire, last),
         SameQueues(c, d), c.deadQueue \in DeadQueues,
         NEW rest, rest \subseteq Messages(c.deadQueue)
  PROVE  Ordered(d, rest, last)
<1>1. Messages(d.deadQueue) \cup rest \subseteq Messages(c.deadQueue) \cup onWire
  BY DEF SameQueues
<1>2. Rising(Messages(d.deadQueue) \cup rest)
  BY <1>1 DEF Ordered, Rising
<1>3. \A n \in Nat : HoldsUpTo(d.deadQueue, n) => \A m \in rest : m.seq < n
  BY MessagesExact DEF SameQueues
<1>4. QED
  BY <1>1, <1>2, <1>3 DEF Ordered, SameQueues


\* The client asks for a number of the dead queue and gets everything from there
\* on; the queues go on after it.
LEMMA DrainedToClient ==
  ASSUME IInv, StreamOK, NEW w \in Conns, NEW c \in WebConns, c = conn[w],
         c.phase = "registered", c.sequence # 0, clientConn = w,
         isInDeadQueue(c.deadQueue, c.sequence), NEW msgs,
         msgs = drainDeadQueue(c.deadQueue, SlotOf(c.deadQueue, c.sequence)),
         NEW d, conn' = [conn EXCEPT ![w] = d], SameQueues(c, d),
         d.phase = "pumping", wire' = wire \o msgs,
         UNCHANGED <<byConnection, clientConn, connectionId, serverSequence,
                     published, base, delivered, skipped>>
  PROVE  StreamOK'
<1>1. /\ ConnOK(c) /\ WireOK(c) /\ SocketOK(c) /\ clientConn # NoConn
      /\ c.deadQueue \in DeadQueues /\ c.send \in Seq(Nat)
      /\ c.sequence \in Nat \ {0} /\ c.id # NoId
      /\ published \in Nat /\ serverSequence \in Nat
  <2>1. ConnOK(c) /\ clientConn # NoConn /\ published \in Nat
        /\ serverSequence \in Nat
    BY WebSocketAssumption DEF IInv, TypeOK
  <2>2. WireOK(c) /\ SocketOK(c)
    BY <2>1 DEF IInv, ClientOK, StreamOK
  <2>3. /\ c.deadQueue \in DeadQueues /\ c.send \in Seq(Nat)
        /\ c.sequence \in Nat \ {0}
    BY DEF WebConns
  <2>4. c.id # NoId
    BY <2>1 DEF ConnOK
  <2>5. QED
    BY <2>1, <2>2, <2>3, <2>4
<1>2. c.reused /\ Begun(c.deadQueue)
  BY <1>1 DEF ConnOK, Starts
<1>3. wire = << >> /\ c.sequence = serverSequence /\ c.id = connectionId
  BY <1>1, <1>2 DEF WireOK, SocketOK
<1>4. PICK n \in Nat : HoldsUpTo(c.deadQueue, n)
  BY <1>2 DEF Begun
<1>5. /\ w \in Holders /\ Ordered(c, WireOf(c.id), published)
      /\ GoesOn(c, Reached, Received, Live(w), published) /\ Later(c)
  BY <1>3 DEF Holders, StreamOK
<1>6. Reached = serverSequence /\ Received = Got
  <2>1. Len(wire) = 0
    BY <1>3
  <2>2. \A id : WireOf(id) = {}
    BY <1>3, NothingOnTheWire
  <2>3. QED
    BY <1>1, <2>1, <2>2 DEF Reached, Received, Events
<1>7. Rising(Messages(c.deadQueue))
  BY <1>5 DEF Ordered, Rising
<1> DEFINE D == Messages(c.deadQueue)
           E == Events(Elements(msgs))
           S == Elements(c.send)
<1>8. /\ msgs \in Seq(Message) /\ n - serverSequence \in Nat \ {0}
      /\ Len(msgs) = n - serverSequence /\ n - deadQueueSize <= serverSequence
      /\ \A k \in 1 .. Len(msgs) : /\ msgs[k] \in D
                                   /\ msgs[k].seq = serverSequence + k - 1
                                   /\ \A j \in 1 .. k - 1 : msgs[j].ev < msgs[k].ev
      /\ Elements(msgs) \subseteq D
      /\ E = Events(From(D, serverSequence)) /\ From(D, n) = {}
  <2>1. PICK dq \in DeadQueues, seq \in Nat : dq = c.deadQueue /\ seq = c.sequence
    BY <1>1
  <2>2. /\ Rising(Messages(dq)) /\ HoldsUpTo(dq, n) /\ isInDeadQueue(dq, seq)
        /\ msgs = drainDeadQueue(dq, SlotOf(dq, seq))
    BY <1>4, <1>7, <2>1
  <2>3. /\ msgs \in Seq(Message) /\ n - seq \in Nat \ {0}
        /\ Len(msgs) = n - seq /\ n - deadQueueSize <= seq
        /\ \A k \in 1 .. Len(msgs) : /\ msgs[k] \in Messages(dq)
                                     /\ msgs[k].seq = seq + k - 1
                                     /\ \A j \in 1 .. k - 1 :
                                          msgs[j].ev < msgs[k].ev
        /\ Elements(msgs) \subseteq Messages(dq)
        /\ Events(Elements(msgs)) = Events(From(Messages(dq), seq))
        /\ From(Messages(dq), n) = {}
    BY <2>2, Drained
  <2>4. QED
    BY <1>3, <2>1, <2>3
<1>9. wire' = msgs /\ wire' # << >> /\ 1 \in 1 .. Len(msgs)
  <2>1. << >> \o msgs = msgs
    BY <1>8
  <2>2. 1 \in 1 .. Len(msgs)
    BY <1>8
  <2>3. QED
    BY <1>3, <1>8, <2>1, <2>2, EmptyLength
<1>10. D \subseteq Message /\ \A m \in D : m.seq < n
  BY <1>1, <1>4, MessagesExact
<1>11. Complete(c, serverSequence, Got, Live(w), published)
  BY <1>4, <1>5, <1>6, <1>8 DEF GoesOn
<1>12. conn'[w] = d /\ d.id = connectionId
  BY <1>3 DEF IInv, TypeOK, SameQueues
<1>13. WireOf(connectionId)' = Elements(msgs)
  BY <1>1, <1>9, <1>12 DEF WireOf
<1>14. Got' = Got
  BY DEF Got, Stream!Accounted
<1>15. Received' = Got \cup E
  BY <1>13, <1>14 DEF Received
<1>16. Reached' = n
  <2>1. Reached' = serverSequence + Len(msgs)
    BY <1>1, <1>9, <1>12 DEF Reached
  <2>2. QED
    BY <1>1, <1>8, <2>1
<1>17. Ahead(c, serverSequence) = E \cup S /\ Ahead(d, n) = S
       /\ Ahead(d, serverSequence) = E \cup S
  BY <1>8 DEF Ahead, SameQueues, Events
<1>18. SocketOK(d)'
  <2>1. msgs[1].ev # Hello
    <3>1. /\ msgs[1] \in D /\ msgs[1].seq = serverSequence + 1 - 1
      BY <1>8, <1>9
    <3>2. PICK i \in Slots : c.deadQueue.buf[i] # Nil /\ msgs[1] = c.deadQueue.buf[i]
      BY <3>1 DEF Messages
    <3>3. msgs[1].ev = Hello => msgs[1].seq = 0
      BY <1>1, <3>2 DEF ConnOK, HelloFirst
    <3>4. QED
      BY <1>1, <1>3, <3>1, <3>3
  <2>2. QED
    BY <1>9, <1>12, <2>1 DEF SocketOK
<1>19. /\ \A m \in D : m.ev <= published /\ \A y \in S : m.ev < y
       /\ \A m \in D : m.ev \in Nat
       /\ S \subseteq Nat
  <2>1. \A m \in D : m.ev <= published /\ \A k \in 1 .. Len(c.send) : m.ev < c.send[k]
    BY <1>5 DEF Ordered
  <2>2. S \subseteq Nat
    BY <1>1, ElementsType
  <2>3. QED
    BY <1>10, <2>1, <2>2 DEF Elements, Message
<1>20. \A x \in E : x \in Nat /\ \A y \in S : x < y
  BY <1>8, <1>19 DEF Events
<1> HIDE DEF D, E, S
<1>21. NoGap(E, Got \cup E)
  <2> SUFFICES ASSUME NEW x \in E, NEW f \in 1 .. x - 1 PROVE f \in Got \cup E
    BY DEF NoGap
  <2>1. f \in Got \cup (E \cup S)
    BY <1>11, <1>17 DEF Complete, NoGap
  <2>2. f \notin S
    BY <1>19, <1>20
  <2>3. QED
    BY <2>1, <2>2
<1>22. WireInOrder'
  <2>1. \A i \in 1 .. Len(msgs) :
          msgs[i].ev <= published /\ \A j \in 1 .. i - 1 : msgs[j].ev < msgs[i].ev
    BY <1>8, <1>19
  <2>2. Events(WireOf(connectionId)') = E
    BY <1>13 DEF E
  <2>3. \A x \in Elements(delivered) : \A y \in E : x < y
    BY <1>5, <1>17 DEF Later
  <2>4. NoGap(Events(WireOf(connectionId)'), Received')
    BY <1>15, <1>21, <2>2
  <2>5. QED
    BY <1>9, <2>1, <2>2, <2>3, <2>4 DEF WireInOrder
<1>23. Ordered(d, WireOf(d.id)', published)
  <2>1. WireOf(d.id)' \subseteq Messages(c.deadQueue)
    BY <1>8, <1>12, <1>13 DEF D
  <2>2. QED
    BY <1>1, <1>5, <2>1, OrderedDrained
<1>24. GoesOn(d, Reached', Received', Live(w)', published)
  <2>1. Live(w) \in BOOLEAN /\ Live(w)' \in BOOLEAN /\ (Live(w)' => Live(w))
    BY <1>12 DEF Live
  <2>2. Complete(d, n, Got \cup E, Live(w)', published)
    BY <1>11, <1>17, <2>1, CompleteMoves
  <2>3. \A k \in Nat : HoldsUpTo(d.deadQueue, k) => k = n
    BY <1>1, <1>4, NumberUnique DEF SameQueues
  <2>4. GoesOn(d, n, Got \cup E, Live(w)', published)
    BY <2>2, <2>3 DEF GoesOn
  <2>5. QED
    BY <1>15, <1>16, <2>4
<1>25. Later(d)'
  BY <1>5, <1>17 DEF Later
<1>26. /\ conn[w].phase \in {"registered", "pumping"}
       /\ d.phase \in {"pumping", "finished"} /\ d.id = conn[w].id
       /\ clientConn # w => wire' = wire
  BY <1>3, <1>12
<1>27. QED
  BY <1>18, <1>22, <1>23, <1>24, <1>25, <1>26, WriterStep

\* A stream is resumed from the dead queue.
LEMMA StartFromDeadQueueStream ==
  ASSUME IInv, StreamOK, NEW w \in Conns, StartFromDeadQueue(w)
  PROVE  StreamOK'
<1>1. PICK c : /\ c = conn[w] /\ c \in WebConns /\ ConnOK(c)
               /\ c.phase = "registered" /\ c.sequence # 0
               /\ isInDeadQueue(c.deadQueue, c.sequence)
  BY DEF IInv, TypeOK, StartFromDeadQueue
<1>2. PICK msgs :
        msgs = drainDeadQueue(c.deadQueue, SlotOf(c.deadQueue, c.sequence))
  OBVIOUS
<1>3. PICK d : /\ conn' = [conn EXCEPT ![w] = d]
               /\ SameQueues(c, d) /\ d.open = c.open
               /\ \/ d.phase = "pumping" /\ WriteToSocket(w, msgs)
                  \/ d.phase = "finished" /\ ~c.open /\ wire' = wire
  <2>1. CASE /\ conn' = [conn EXCEPT ![w] = [c EXCEPT !.phase = "pumping",
                                               !.sequence = c.sequence + Len(msgs)]]
             /\ WriteToSocket(w, msgs)
    <3>1. PICK d : d = [c EXCEPT !.phase = "pumping",
                                 !.sequence = c.sequence + Len(msgs)]
      OBVIOUS
    <3>2. SameQueues(c, d) /\ d.open = c.open /\ d.phase = "pumping"
      BY <1>1, <3>1 DEF SameQueues, WebConns
    <3>3. QED
      BY <2>1, <3>1, <3>2
  <2>2. ASSUME NEW k \in 1 .. Len(msgs), ~c.open,
               conn' = [conn EXCEPT ![w] =
                 [c EXCEPT !.phase = "finished", !.sequence = c.sequence + k]],
               UNCHANGED wire
        PROVE  \E d : /\ conn' = [conn EXCEPT ![w] = d]
                      /\ SameQueues(c, d) /\ d.open = c.open
                      /\ \/ d.phase = "pumping" /\ WriteToSocket(w, msgs)
                         \/ d.phase = "finished" /\ ~c.open /\ wire' = wire
    <3>1. PICK d : d = [c EXCEPT !.phase = "finished",
                                 !.sequence = c.sequence + k]
      OBVIOUS
    <3>2. SameQueues(c, d) /\ d.open = c.open /\ d.phase = "finished"
      BY <1>1, <3>1 DEF SameQueues, WebConns
    <3>3. QED
      BY <2>2, <3>1, <3>2
  <2>3. QED
    BY <1>1, <1>2, <2>1, <2>2 DEF StartFromDeadQueue
<1>4. /\ UNCHANGED <<byConnection, clientConn, connectionId, serverSequence,
                     published, base, delivered, skipped>>
      /\ w \in Holders
  BY <1>1 DEF StartFromDeadQueue, hubVars, clientVars, historyVars, Holders
<1>5. CASE clientConn = w /\ c.open /\ wire' = wire \o msgs /\ d.phase = "pumping"
  BY <1>1, <1>2, <1>3, <1>4, <1>5, DrainedToClient
<1>6. CASE wire' = wire /\ ~(clientConn = w /\ c.open)
  <2>1. clientConn = w => SocketOK(d)
    <3> SUFFICES ASSUME clientConn = w PROVE SocketOK(d)
      OBVIOUS
    <3>1. WireOK(c) /\ SocketOK(c) /\ ~c.open
      BY <1>1, <1>6, WebSocketAssumption DEF IInv, ClientOK, StreamOK
    <3>2. QED
      BY <1>1, <1>3, <3>1 DEF WireOK, SocketOK, SameQueues
  <2>2. d.phase \in {"pumping", "finished"}
    BY <1>3
  <2>3. QED
    BY <1>1, <1>3, <1>4, <1>6, <2>1, <2>2, OneKeepsQueues
<1>7. QED
  BY <1>1, <1>3, <1>5, <1>6 DEF WriteToSocket


\* A stream of a new id: its hello is the only message so far.
LEMMA StartWithLossStream ==
  ASSUME IInv, StreamOK, NEW w \in Conns, StartWithLoss(w)
  PROVE  StreamOK'
<1>1. PICK c : /\ c = conn[w] /\ c \in WebConns /\ ConnOK(c)
               /\ c.phase = "registered" /\ c.sequence # 0
  BY DEF IInv, TypeOK, StartWithLoss
<1>2. c.reused /\ Begun(c.deadQueue) /\ ~Greeting(c)
  BY <1>1 DEF ConnOK, Starts
<1>3. PICK hello \in Message : /\ hello = [seq |-> 0, ev |-> Hello]
                               /\ hello.seq = 0 /\ hello.ev = 0
  <2>1. [seq |-> 0, ev |-> Hello] \in Message
    BY DEF Message, Hello
  <2>2. QED
    BY <2>1, Zenon DEF Hello
<1>4. PICK dq \in DeadQueues :
        /\ dq = addToDeadQueue(clearDeadQueue(c.deadQueue), hello)
        /\ HoldsUpTo(dq, 1) /\ Messages(dq) \subseteq {hello}
  <2>1. PICK n \in Nat : HoldsUpTo(c.deadQueue, n)
    BY <1>2 DEF Begun
  <2>2. clearDeadQueue(c.deadQueue) = EmptyDeadQueue
    BY <1>1, <2>1, ClearEmpties DEF WebConns
  <2>3. /\ addToDeadQueue(EmptyDeadQueue, hello) \in DeadQueues
        /\ HoldsUpTo(addToDeadQueue(EmptyDeadQueue, hello), 0 + 1)
    BY <1>3, EmptyExact, AddType, AddExact
  <2>4. Messages(addToDeadQueue(EmptyDeadQueue, hello)) \subseteq {hello}
    BY <1>3, EmptyExact, AddMessages, EmptyMessages
  <2>5. 0 + 1 = 1
    OBVIOUS
  <2>6. QED
    BY <2>2, <2>3, <2>4, <2>5
<1>5. PICK id \in FreshIds, phase \in {"pumping", "finished"} :
        conn' = [conn EXCEPT ![w] =
          [c EXCEPT !.phase = phase, !.id = id, !.sequence = 1,
                    !.deadQueue = dq]]
  BY <1>1, <1>3, <1>4 DEF StartWithLoss, AfterWrite, Hello
<1>6. id # connectionId /\ \A v \in Conns : conn[v].id # id
  BY DEF FreshIds
<1>7. PICK d : d = [c EXCEPT !.phase = phase, !.id = id, !.sequence = 1,
                             !.deadQueue = dq]
  OBVIOUS
<1>8. /\ d.phase \in {"pumping", "finished"} /\ d.id = id /\ d.open = c.open
      /\ d.send = c.send /\ d.deadQueue = dq
  BY <1>1, <1>7 DEF WebConns
<1>9. /\ conn' = [conn EXCEPT ![w] = d]
      /\ conn'[w] = d /\ \A v \in Conns \ {w} : conn'[v] = conn[v]
      /\ UNCHANGED <<byConnection, clientConn, connectionId, serverSequence,
                     published, base, delivered, skipped>>
  BY <1>1, <1>5, <1>7
    DEF IInv, TypeOK, StartWithLoss, hubVars, clientVars, historyVars
<1>10. wire' = IF clientConn = w /\ c.open THEN wire \o <<hello>> ELSE wire
  BY <1>1, <1>3 DEF StartWithLoss, WriteToSocket, Hello
<1>11. published \in Nat /\ clientConn \in Conns \cup {NoConn}
  BY WebSocketAssumption DEF IInv, TypeOK
<1>12. clientConn = w =>
         wire' = IF c.open THEN <<hello>> ELSE << >>
  <2> SUFFICES ASSUME clientConn = w
               PROVE  wire' = IF c.open THEN <<hello>> ELSE << >>
    OBVIOUS
  <2>1. wire = << >>
    BY <1>1, <1>2, WebSocketAssumption DEF IInv, ClientOK, WireOK
  <2>2. << >> \o <<hello>> = <<hello>>
    OBVIOUS
  <2>3. QED
    BY <1>10, <2>1, <2>2
<1>13. /\ <<hello>> # << >> /\ Len(<<hello>>) = 1 /\ <<hello>>[1] = hello
       /\ Len(<< >>) = 0
  OBVIOUS
<1>14. Elements(<<hello>>) = {hello} /\ Elements(<< >>) = {}
  BY <1>13 DEF Elements
<1>15. WireOf(d.id)' \subseteq {hello}
  <2>1. CASE clientConn = w
    BY <1>9, <1>12, <1>14, <2>1 DEF WireOf
  <2>2. CASE clientConn # w
    <3>1. clientConn # NoConn => conn'[clientConn].id # id
      BY <1>6, <1>9, <1>11, <2>2
    <3>2. QED
      BY <1>8, <1>9, <3>1 DEF WireOf
  <2>3. QED
    BY <2>1, <2>2
<1>16. Ordered(d, WireOf(d.id)', published)
  <2>1. PICK onWire : onWire = WireOf(d.id)' /\ onWire \subseteq {hello}
    BY <1>15
  <2>2. \A m \in Messages(d.deadQueue) \cup onWire : m = hello
    BY <1>4, <1>8, <2>1
  <2>3. /\ \A k \in 1 .. Len(c.send) :
             /\ c.send[k] <= published
             /\ \A j \in 1 .. k - 1 : c.send[j] < c.send[k]
    BY <1>1 DEF StreamOK, Ordered, Holders
  <2>4. \A k \in 1 .. Len(c.send) : 0 < c.send[k]
    <3>1. c.send \in Seq(Nat) /\ Len(c.send) \in Nat
      BY <1>1, EmptyLength DEF WebConns
    <3>2. \A k \in 1 .. Len(c.send) : c.send[k] \in Nat /\ c.send[k] # 0
      <4> SUFFICES ASSUME NEW k \in 1 .. Len(c.send)
                   PROVE  c.send[k] \in Nat /\ c.send[k] # 0
        OBVIOUS
      <4>1. c.send # << >>
        BY <3>1, EmptyLength
      <4>2. CASE k = 1
        BY <1>2, <3>1, <4>1, <4>2, ElementsType DEF Greeting, Hello
      <4>3. CASE k \in 2 .. Len(c.send)
        BY <1>1, <3>1, <4>3, ElementsType DEF ConnOK, Hello
      <4>4. QED
        BY <3>1, <4>2, <4>3
    <3>3. QED
      BY <3>2
  <2>5. \A n \in Nat : HoldsUpTo(d.deadQueue, n) => n = 1
    BY <1>4, <1>8, NumberUnique
  <2>6. Rising(Messages(d.deadQueue) \cup onWire)
    BY <1>3, <2>2 DEF Rising
  <2>7. \A n \in Nat : HoldsUpTo(d.deadQueue, n) => \A m \in onWire : m.seq < n
    BY <1>3, <2>2, <2>5
  <2>8. Ordered(d, onWire, published)
    BY <1>3, <1>8, <1>11, <2>2, <2>3, <2>4, <2>6, <2>7 DEF Ordered
  <2>9. QED
    BY <2>1, <2>8
<1>17. ASSUME clientConn = w
       PROVE  SocketOK(d)' /\ WireInOrder'
  <2>1. c.open \in BOOLEAN
    BY <1>1 DEF WebConns
  <2>2. SocketOK(d)'
    <3>1. \A v \in Conns : conn'[v].id = id => v = w
      BY <1>6, <1>9
    <3>2. wire' # << >> => wire'[1].ev = Hello
      BY <1>3, <1>12, <1>13, <1>17 DEF Hello
    <3>3. c.open => wire' # << >>
      BY <1>12, <1>13, <1>17
    <3>4. d.phase \notin {"connecting", "accepted", "registered"}
      BY <1>8
    <3>5. QED
      BY <1>6, <1>8, <1>9, <1>17, <3>1, <3>2, <3>3, <3>4 DEF SocketOK
  <2>3. \A i \in 1 .. Len(wire') : i = 1 /\ wire'[i] = hello
    BY <1>12, <1>13, <1>17, <2>1
  <2>4. WireOf(connectionId)' = {}
    BY <1>6, <1>8, <1>9, <1>17 DEF WireOf
  <2>5. \A i \in 1 .. Len(wire') :
          wire'[i].ev <= published /\ \A j \in 1 .. i - 1 : wire'[j].ev < wire'[i].ev
    BY <1>3, <1>11, <2>3
  <2>6. WireInOrder'
    BY <1>9, <2>4, <2>5 DEF WireInOrder, NoGap, Events
  <2>7. QED
    BY <2>2, <2>6
<1>18. /\ conn[w].phase \in {"registered", "pumping"}
       /\ d.id # connectionId /\ \A v \in Conns : conn[v].id # d.id
       /\ clientConn # w => wire' = wire
  BY <1>1, <1>6, <1>8, <1>10
<1>19. QED
  BY <1>8, <1>9, <1>16, <1>17, <1>18, WriterStep

-----------------------------------------------------------------------------
(* The invariant *)

\* Before anything happened there are no queues.
LEMMA StreamInit == Init => StreamOK
<1> SUFFICES ASSUME Init PROVE StreamOK
  OBVIOUS
<1>1. Holders = {}
  BY DEF Init, Holders, Unused
<1>2. clientConn = NoConn /\ wire = << >> /\ delivered = << >>
  BY DEF Init
<1>3. Elements(delivered) = {} /\ \A id : WireOf(id) = {}
  BY <1>2, NothingOnTheWire
<1>4. \A i \in 1 .. Len(wire) : FALSE
  <2>1. 1 .. Len(<< >>) = {}
    OBVIOUS
  <2>2. QED
    BY <1>2, <2>1
<1>5. WireInOrder
  BY <1>3, <1>4 DEF WireInOrder, NoGap, Events
<1>6. QED
  BY <1>1, <1>2, <1>3, <1>5 DEF StreamOK

\* Every step keeps the invariant.
LEMMA StreamKept == IInv /\ StreamOK /\ [Next]_vars => StreamOK'
<1> SUFFICES ASSUME IInv, StreamOK, [Next]_vars PROVE StreamOK'
  OBVIOUS
<1>1. CASE UNCHANGED vars
  <2>1. \A id : WireOf(id)' = WireOf(id)
    BY <1>1 DEF vars, WireOf
  <2>2. /\ Holders' = Holders /\ \A v : Live(v)' = Live(v)
        /\ Received' = Received /\ Reached' = Reached
    BY <1>1, <2>1 DEF vars, Holders, Live, Received, Got, Stream!Accounted, Reached
  <2>3. WireInOrder'
    BY <1>1, <2>1, <2>2 DEF vars, StreamOK, WireInOrder
  <2>4. QED
    BY <1>1, <2>1, <2>2, <2>3 DEF vars, StreamOK, SocketOK, Later, Ahead
<1>2. CASE ClientReceive
  BY <1>2, ReceiveHelloStream, ReceiveEventStream
<1>3. CASE Next /\ ~ClientReceive
  BY <1>3, ClientInitializeStream, CheckConnFoundStream,
    CheckConnNotFoundStream, HubRegisterStream, HubRegisterErrorStream,
    StartLosslessStream, StartFromDeadQueueStream, StartWithLossStream,
    WriteEventStream, StreamStops, CollectStream, HubBroadcastStream,
    IndexShrinks, InvalidateUserErrorStream, ServerRestartStream, DetachStream
    DEF Next, Handler, WritePump, Client
<1>4. QED
  BY <1>1, <1>2, <1>3

\* Whatever connections break or are taken over: the queues of the client's stream
\* go on from where the wire ends, without a gap, and each stream has one holder.
THEOREM StreamInvariance == Spec => [](IInv /\ StreamOK)
<1>1. Init => IInv /\ StreamOK
  BY InitInvariant, StreamInit
<1>2. IInv /\ StreamOK /\ [Next]_vars => (IInv /\ StreamOK)'
  BY InvariantKept, StreamKept
<1>3. QED
  BY <1>1, <1>2, PTL DEF Spec


-----------------------------------------------------------------------------
(* What the invariant promises *)

\* Before anything happened the abstract stream is empty.
LEMMA StartsAsStream == Init => Stream!StreamInit
  BY DEF Init, Stream!StreamInit

\* A broadcast publishes the next event.
LEMMA BroadcastPublishes ==
  ASSUME HubBroadcast
  PROVE  Stream!Publish
  BY DEF HubBroadcast, Stream!Publish

\* What the client receives is delivered in order and without a gap, or makes it
\* fetch everything.
LEMMA ReceiveDelivers ==
  ASSUME IInv, StreamOK, ClientReceive
  PROVE  Stream!StreamNext
<1>1. CASE wire[1].ev = Hello
  <2>1. Stream!Resync
    BY <1>1, ReceiveCases DEF Stream!Resync
  <2>2. QED
    BY <2>1 DEF Stream!StreamNext
<1>2. CASE wire[1].ev # Hello
  <2>1. PICK e : /\ e = wire[1].ev /\ delivered' = Append(delivered, e)
                 /\ clientConn # NoConn /\ wire # << >>
                 /\ conn[clientConn].id = connectionId
                 /\ UNCHANGED <<published, base, skipped>>
    BY <1>2, ReceiveCases
  <2>2. /\ e \in 1 .. published
        /\ \A x \in Elements(delivered) : x < e
        /\ 1 .. e - 1 \subseteq Got
    BY <2>1, NextEvent
  <2>3. \A i \in 1 .. Len(delivered) : delivered[i] < e
    BY <2>2 DEF Elements
  <2>4. Stream!Deliver(e)
    BY <2>1, <2>2, <2>3 DEF Stream!Deliver, Got
  <2>5. QED
    BY <2>2, <2>4 DEF Stream!StreamNext
<1>3. QED
  BY <1>1, <1>2

\* Every step is one of the abstract stream, or leaves it alone.
LEMMA StepsAsStream ==
  IInv /\ StreamOK /\ [Next]_vars => [Stream!StreamNext]_Stream!streamVars
<1> SUFFICES ASSUME IInv, StreamOK, [Next]_vars
             PROVE  Stream!StreamNext \/ UNCHANGED Stream!streamVars
  OBVIOUS
<1>1. CASE UNCHANGED vars
  BY <1>1 DEF vars, Stream!streamVars
<1>2. CASE HubBroadcast
  BY <1>2, BroadcastPublishes DEF Stream!StreamNext
<1>3. CASE ClientReceive
  BY <1>3, ReceiveDelivers
<1>4. CASE Next /\ ~HubBroadcast /\ ~ClientReceive
  BY <1>4 DEF Next, Handler, WritePump, Client, ClientInitialize,
    CheckConnFound, CheckConnNotFound, HubRegister, HubRegisterError,
    StartLossless, StartFromDeadQueue, StartWithLoss, WriteEvent, WriteClose,
    EndWritePump, HubUnregister, Collect, RemoveInactiveConnections,
    BreakSocket, InvalidateUserError, HubPanic, ServerRestart, ClientOnClose,
    ClientPingTimeout, historyVars, Stream!streamVars
<1>5. QED
  BY <1>1, <1>2, <1>3, <1>4

\* Reliable websockets implement EventStream: every event in the order of the
\* broadcasts, none twice, none left out unless the client is told to fetch
\* everything or a takeover was open when it was broadcast (web_conn.go,
\* web_hub.go, websocket.ts).
THEOREM StreamIsReliable == Spec => ImplementsEventStream
<1>1. IInv /\ StreamOK /\ [Next]_vars => [Stream!StreamNext]_Stream!streamVars
  BY StepsAsStream
<1>2. Spec => Stream!StreamInit /\ [][Stream!StreamNext]_Stream!streamVars
  BY <1>1, StartsAsStream, StreamInvariance, PTL DEF Spec
<1>3. QED
  BY <1>2 DEF ImplementsEventStream, Stream!StreamSpec

\* On the client's own open socket the wire ends where the WebConn goes on.
LEMMA WireMeetsQueues ==
  ASSUME IInv, StreamOK, NEW c, clientConn # NoConn, c = conn[clientConn],
         c.phase = "pumping", c.open, c.id = connectionId
  PROVE  Reached = c.sequence /\ c.sequence \in Nat
<1>1. /\ clientConn \in Conns /\ c \in WebConns /\ c.sequence \in Nat
      /\ WireOK(c) /\ SocketOK(c) /\ wire \in Seq(Message)
      /\ serverSequence \in Nat
  BY DEF IInv, TypeOK, ClientOK, StreamOK, WebConns
<1>2. ~Greeting(c)
  BY <1>1 DEF IInv, NewIdsOK, New
<1>3. Reached = serverSequence + Len(wire)
  BY OwnWire
<1>4. CASE wire = << >>
  BY <1>1, <1>2, <1>3, <1>4, EmptyLength DEF WireOK
<1>5. CASE wire # << >>
  <2>1. wire[1].seq = serverSequence
    BY <1>1, <1>5 DEF WireOK, SocketOK
  <2>2. QED
    BY <1>1, <1>3, <1>5, <2>1 DEF WireOK
<1>6. QED
  BY <1>1, <1>4, <1>5

\* As long as the client holds a connection of its own stream that the hub knows,
\* every event has reached it, is on the wire or waits in send: nothing is left
\* that no later message would reveal (web_conn.go, web_hub.go, websocket.ts).
THEOREM NothingIsLeftBehind == Spec => []NothingLeftBehind
<1>1. IInv /\ StreamOK => NothingLeftBehind
  <2> SUFFICES ASSUME IInv, StreamOK, clientConn \in byConnection,
                      NEW c, c = conn[clientConn], c.phase = "pumping",
                      c.open, c.id = connectionId
               PROVE  1 .. published \subseteq
                        Stream!Accounted \cup skipped
                          \cup {wire[i].ev : i \in 1 .. Len(wire)}
                          \cup {c.send[i] : i \in 1 .. Len(c.send)}
    BY Zenon DEF NothingLeftBehind
  <2>1. /\ clientConn \in Conns /\ clientConn # NoConn /\ c \in WebConns
        /\ ConnOK(c) /\ clientConn \in Holders /\ Live(clientConn)
    BY WebSocketAssumption DEF IInv, TypeOK, Holders, Live
  <2>2. Reached = c.sequence /\ c.sequence \in Nat
    BY <2>1, WireMeetsQueues
  <2>3. HoldsUpTo(c.deadQueue, c.sequence) /\ c.deadQueue \in DeadQueues
    BY <2>1 DEF ConnOK, WebConns
  <2>4. GoesOn(c, Reached, Received, TRUE, published)
    <3>1. GoesOn(c, Reached, Received, Live(clientConn), published)
      BY <2>1 DEF StreamOK
    <3>2. QED
      BY <2>1, <3>1 DEF GoesOn, Complete
  <2>5. c.sequence - deadQueueSize <= Reached
    BY <2>2, DeadQueueAssumption
  <2>6. 1 .. published \subseteq Received \cup Ahead(c, c.sequence)
    BY <2>2, <2>3, <2>4, <2>5 DEF GoesOn, Complete
  <2>7. From(Messages(c.deadQueue), c.sequence) = {}
    BY <2>2, <2>3, MessagesExact DEF From, Message
  <2>8. Ahead(c, c.sequence) = Elements(c.send)
    BY <2>7 DEF Ahead, Events
  <2>9. Events(WireOf(connectionId)) = {wire[i].ev : i \in 1 .. Len(wire)}
    BY <2>1, OwnWire DEF Events
  <2>10. QED
    BY <2>6, <2>8, <2>9 DEF Received, Got, Elements
<1>2. QED
  BY <1>1, StreamInvariance, PTL


=============================================================================

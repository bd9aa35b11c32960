--------------------------- MODULE ReliableWebSocket ---------------------------
(***************************************************************************)
(* Reliable websockets on one server: the hub, the WebConns of one user,   *)
(* and the webapp's WebSocketClient that reconnects to them.               *)
(*                                                                         *)
(* A client that lost its socket reconnects with the connection id and the *)
(* sequence number it expects.  The handler takes the inactive WebConn     *)
(* with that id out of the hub, builds a new WebConn around its send queue *)
(* and dead queue and registers it.  Its writePump resumes the stream from *)
(* the dead queue, or gives the stream a new id, on which the client       *)
(* fetches everything again.                                               *)
(*                                                                         *)
(* An event is the number of its broadcast; event 0 is the hello message.  *)
(* Sequence numbers are per connection id, events are not.  The hub's loop *)
(* makes each of its cases atomic; a WebConn's writePump runs beside it.   *)
(***************************************************************************)
EXTENDS DeadQueue, FiniteSets

CONSTANTS
  Conns,          \* the WebConn objects that may exist at once
  Ids,            \* connection ids
  NoConn, NoId,   \* conn === null and connectionId === ''
  sendQueueSize,  \* capacity of the channel send, 256 in the code
  MaxEvents,      \* bound: events broadcast to the user
  MaxFaults       \* bound: broken sockets, store errors, panics, restarts

ASSUME WebSocketAssumption ==
  /\ NoConn \notin Conns
  /\ NoId \notin Ids
  /\ sendQueueSize \in Nat \ {0}
  /\ MaxEvents \in Nat
  /\ MaxFaults \in Nat

VARIABLES
  conn,            \* the WebConns
  byConnection,    \* hubConnectionIndex: the WebConns in the index
  byConnectionId,  \* hubConnectionIndex: the keys of the map by connection id
  clientConn,      \* client: conn
  connectionId,    \* client: connectionId
  serverSequence,  \* client: serverSequence
  wire,            \* messages on their way to the client's current socket
  faults,          \* faults so far
  published,       \* history: events broadcast to the user
  base,            \* history: events the client's last full fetch covered
  delivered,       \* history: events delivered to the client since
  skipped          \* history: events broadcast while a takeover was open

hubVars == <<byConnection, byConnectionId>>
clientVars == <<clientConn, connectionId, serverSequence>>
historyVars == <<published, base, delivered, skipped>>
vars == <<conn, byConnection, byConnectionId, clientConn, connectionId,
          serverSequence, wire, faults, published, base, delivered, skipped>>

Hello == 0

\* connecting: the handler has the request.  accepted: it has the queues.
\* registered: the hub knows the WebConn.  pumping: writePump is in its loop.
\* finished: Pump is about to unregister.  closed: the handler has returned.
Phases == {"unused", "connecting", "accepted", "registered", "pumping",
           "finished", "closed"}

WebConns ==
  [phase : Phases, id : Ids \cup {NoId}, sequence : Nat, reused : BOOLEAN,
   active : BOOLEAN, send : Seq(Nat), sendClosed : BOOLEAN,
   deadQueue : DeadQueues, open : BOOLEAN]

Unused ==
  [phase |-> "unused", id |-> NoId, sequence |-> 0, reused |-> FALSE,
   active |-> FALSE, send |-> << >>, sendClosed |-> FALSE,
   deadQueue |-> EmptyDeadQueue, open |-> FALSE]

TypeOK ==
  /\ conn \in [Conns -> WebConns]
  /\ byConnection \subseteq Conns
  /\ byConnectionId \subseteq Ids
  /\ clientConn \in Conns \cup {NoConn}
  /\ connectionId \in Ids \cup {NoId}
  /\ serverSequence \in Nat
  /\ wire \in Seq(Message)
  /\ faults \in 0 .. MaxFaults
  /\ published \in 0 .. MaxEvents
  /\ base \in Nat
  /\ delivered \in Seq(Nat)
  /\ skipped \subseteq Nat

Init ==
  /\ conn = [w \in Conns |-> Unused]
  /\ byConnection = {}
  /\ byConnectionId = {}
  /\ clientConn = NoConn
  /\ connectionId = NoId
  /\ serverSequence = 0
  /\ wire = << >>
  /\ faults = 0
  /\ published = 0
  /\ base = 0
  /\ delivered = << >>
  /\ skipped = {}

-----------------------------------------------------------------------------
(* Helpers *)

\* Something goes wrong, at most MaxFaults times.
Fault == faults < MaxFaults /\ faults' = faults + 1

\* model.NewId: an id nobody holds.
FreshIds ==
  Ids \ ({connectionId} \cup {conn[w].id : w \in Conns} \cup byConnectionId)

\* hubConnectionIndex.Remove, of a set of WebConns.
Remove(ws) ==
  /\ byConnection' = byConnection \ ws
  /\ byConnectionId' = byConnectionId \ {conn[w].id : w \in ws \cap byConnection}

\* closeAndRemoveConn closes the channel of a WebConn before it removes it.
CloseSend(c) == [c EXCEPT !.sendClosed = TRUE]

\* Bytes written to a socket that is broken, or that the client gave up, reach
\* nobody.
WriteToSocket(w, msgs) ==
  wire' = IF clientConn = w /\ conn[w].open THEN wire \o msgs ELSE wire

\* The phase after a write: a write to a broken socket may fail, and then
\* writePump returns.
AfterWrite(w) ==
  IF conn[w].open THEN {"pumping"} ELSE {"pumping", "finished"}

-----------------------------------------------------------------------------
(* The client opens a socket and the handler connectWebSocket serves it *)

\* initialize: the URL carries the connection id and the sequence number.
ClientInitialize(w) ==
  /\ clientConn = NoConn
  /\ conn[w].phase = "unused"
  /\ clientConn' = w
  /\ conn' = [conn EXCEPT ![w] =
       [Unused EXCEPT !.phase = "connecting", !.id = connectionId,
                      !.sequence = serverSequence, !.open = TRUE]]
  /\ UNCHANGED <<hubVars, connectionId, serverSequence, wire, faults,
                 historyVars>>

\* The inactive WebConns RemoveInactiveByConnectionID may pick for an id.
Resumable(id) ==
  {w \in byConnection : conn[w].id = id /\ ~conn[w].active}

\* Mutant: the dead queue is not carried over.
CheckConnFoundNoDeadQueue(w) ==
  /\ conn[w].phase = "connecting"
  /\ conn[w].id # NoId
  /\ \E old \in Resumable(conn[w].id) :
       /\ Remove({old})
       /\ conn' = [conn EXCEPT ![w] =
            [@ EXCEPT !.phase = "accepted", !.reused = TRUE,
                      !.send = conn[old].send]]
  /\ UNCHANGED <<clientVars, wire, faults, historyVars>>

\* PopulateWebConnConfig with a result: take the WebConn old out of the index
\* and continue with its queues.
CheckConnFound(w) ==
  /\ conn[w].phase = "connecting"
  /\ conn[w].id # NoId
  /\ \E old \in Resumable(conn[w].id) :
       /\ Remove({old})
       /\ conn' = [conn EXCEPT ![w] =
            [@ EXCEPT !.phase = "accepted", !.reused = TRUE,
                      !.send = conn[old].send,
                      !.deadQueue = conn[old].deadQueue]]
  /\ UNCHANGED <<clientVars, wire, faults, historyVars>>

\* No id in the URL, or nothing to resume: a new id and empty queues.
CheckConnNotFound(w) ==
  /\ conn[w].phase = "connecting"
  /\ conn[w].id = NoId \/ Resumable(conn[w].id) = {}
  /\ \E id \in FreshIds :
       conn' = [conn EXCEPT ![w] =
         [@ EXCEPT !.phase = "accepted", !.id = id, !.sequence = 0]]
  /\ UNCHANGED <<hubVars, clientVars, wire, faults, historyVars>>

\* The hub adds the WebConn; a hello goes first into a queue that is not reused.
HubRegister(w) ==
  LET c == conn[w]
      queue == IF c.reused THEN c.send ELSE Append(c.send, Hello)
  IN
  /\ c.phase = "accepted"
  /\ conn' = [conn EXCEPT ![w] =
       [@ EXCEPT !.phase = "registered", !.active = TRUE, !.send = queue]]
  /\ byConnection' = byConnection \cup {w}
  /\ byConnectionId' = byConnectionId \cup {c.id}
  /\ UNCHANGED <<clientVars, wire, faults, historyVars>>

\* connIndex.Add fails on a store error: the handler closes the socket and
\* returns, and the queues are gone.
HubRegisterError(w) ==
  /\ conn[w].phase = "accepted"
  /\ Fault
  /\ conn' = [conn EXCEPT ![w] =
       [@ EXCEPT !.phase = "closed", !.active = TRUE, !.open = FALSE]]
  /\ UNCHANGED <<hubVars, clientVars, wire, historyVars>>

-----------------------------------------------------------------------------
(* writePump, up to its loop *)

\* A stream that starts at 0, or one that continues right after the newest
\* entry of the dead queue: nothing to write.
StartLossless(w) ==
  LET c == conn[w] IN
  /\ c.phase = "registered"
  /\ c.sequence # 0 => /\ ~isInDeadQueue(c.deadQueue, c.sequence)
                       /\ ~hasMsgLoss(c.deadQueue, c.sequence)
  /\ conn' = [conn EXCEPT ![w].phase = "pumping"]
  /\ UNCHANGED <<hubVars, clientVars, wire, faults, historyVars>>

\* The client's sequence number is in the dead queue: write it and what
\* follows, n messages before a write fails.
StartFromDeadQueue(w) ==
  LET c == conn[w]
      msgs == drainDeadQueue(c.deadQueue, SlotOf(c.deadQueue, c.sequence))
  IN
  /\ c.phase = "registered"
  /\ c.sequence # 0
  /\ isInDeadQueue(c.deadQueue, c.sequence)
  /\ \/ /\ conn' = [conn EXCEPT ![w] =
             [c EXCEPT !.phase = "pumping", !.sequence = c.sequence + Len(msgs)]]
        /\ WriteToSocket(w, msgs)
     \/ /\ ~c.open
        /\ \E n \in 1 .. Len(msgs) :
             conn' = [conn EXCEPT ![w] =
               [c EXCEPT !.phase = "finished", !.sequence = c.sequence + n]]
        /\ UNCHANGED wire
  /\ UNCHANGED <<hubVars, clientVars, faults, historyVars>>

\* Messages are lost: a new id, an empty dead queue and a hello numbered 0.
\* The index keeps the old id as its key.
StartWithLoss(w) ==
  LET c == conn[w]
      hello == [seq |-> 0, ev |-> Hello]
      emptied == clearDeadQueue(c.deadQueue)
  IN
  /\ c.phase = "registered"
  /\ c.sequence # 0
  /\ ~isInDeadQueue(c.deadQueue, c.sequence)
  /\ hasMsgLoss(c.deadQueue, c.sequence)
  /\ \E id \in FreshIds, phase \in AfterWrite(w) :
       conn' = [conn EXCEPT ![w] =
         [c EXCEPT !.phase = phase, !.id = id, !.sequence = 1,
                   !.deadQueue = addToDeadQueue(emptied, hello)]]
  /\ WriteToSocket(w, <<hello>>)
  /\ UNCHANGED <<hubVars, clientVars, faults, historyVars>>

-----------------------------------------------------------------------------
(* The loop of writePump, and the end of Pump *)

\* Mutant: the event does not enter the dead queue.
WriteEventUnrecorded(w) ==
  LET c == conn[w]
      msg == [seq |-> c.sequence, ev |-> Head(c.send)]
  IN
  /\ c.phase = "pumping"
  /\ c.send # << >>
  /\ \E phase \in AfterWrite(w) :
       conn' = [conn EXCEPT ![w] =
         [c EXCEPT !.phase = phase, !.sequence = c.sequence + 1,
                   !.send = Tail(c.send)]]
  /\ WriteToSocket(w, <<msg>>)
  /\ UNCHANGED <<hubVars, clientVars, faults, historyVars>>

\* An event leaves the queue, gets its number and enters the dead queue before
\* it is written.
WriteEvent(w) ==
  LET c == conn[w]
      msg == [seq |-> c.sequence, ev |-> Head(c.send)]
  IN
  /\ c.phase = "pumping"
  /\ c.send # << >>
  /\ \E phase \in AfterWrite(w) :
       conn' = [conn EXCEPT ![w] =
         [c EXCEPT !.phase = phase, !.sequence = c.sequence + 1,
                   !.send = Tail(c.send),
                   !.deadQueue = addToDeadQueue(c.deadQueue, msg)]]
  /\ WriteToSocket(w, <<msg>>)
  /\ UNCHANGED <<hubVars, clientVars, faults, historyVars>>

\* The channel is closed and empty: write a close message and return.
WriteClose(w) ==
  /\ conn[w].phase = "pumping"
  /\ conn[w].send = << >>
  /\ conn[w].sendClosed
  /\ conn' = [conn EXCEPT ![w] =
       [@ EXCEPT !.phase = "finished", !.open = FALSE]]
  /\ UNCHANGED <<hubVars, clientVars, wire, faults, historyVars>>

\* readPump fails on the broken socket and closes endWritePump, or a ping does.
EndWritePump(w) ==
  /\ conn[w].phase = "pumping"
  /\ ~conn[w].open
  /\ conn' = [conn EXCEPT ![w].phase = "finished"]
  /\ UNCHANGED <<hubVars, clientVars, wire, faults, historyVars>>

\* The hub marks the WebConn inactive but keeps it, for the client to resume.
HubUnregister(w) ==
  /\ conn[w].phase = "finished"
  /\ conn' = [conn EXCEPT ![w] =
       [@ EXCEPT !.phase = "closed", !.active = FALSE]]
  /\ UNCHANGED <<hubVars, clientVars, wire, faults, historyVars>>

\* A WebConn nothing refers to any more is collected by the Go runtime.
Collect(w) ==
  /\ conn[w].phase = "closed"
  /\ w \notin byConnection
  /\ clientConn # w
  /\ conn' = [conn EXCEPT ![w] = Unused]
  /\ UNCHANGED <<hubVars, clientVars, wire, faults, historyVars>>

-----------------------------------------------------------------------------
(* The other cases of the hub's loop *)

\* A handler holds the queues of the client's stream, outside of the index.
TakeoverOpen ==
  \E w \in Conns : /\ conn[w].phase = "accepted"
                   /\ conn[w].reused
                   /\ conn[w].id = connectionId

\* Mutant: inactive WebConns get nothing.
HubBroadcastActiveOnly ==
  LET targets == {w \in byConnection : conn[w].active}
      full == {w \in targets : Len(conn[w].send) = sendQueueSize}
      Receive(w) ==
        IF w \in full
          THEN CloseSend(conn[w])
          ELSE [conn[w] EXCEPT !.send = Append(@, published + 1)]
  IN
  /\ published < MaxEvents
  /\ published' = published + 1
  /\ conn' = [w \in Conns |-> IF w \in targets THEN Receive(w) ELSE conn[w]]
  /\ Remove(full)
  /\ skipped' = IF TakeoverOpen THEN skipped \cup {published + 1} ELSE skipped
  /\ UNCHANGED <<clientVars, wire, faults, base, delivered>>

\* The next event goes to every WebConn of the user in the index, active or
\* not; one whose queue is full is closed and removed.
HubBroadcast ==
  LET full == {w \in byConnection : Len(conn[w].send) = sendQueueSize}
      Receive(w) ==
        IF w \in full
          THEN CloseSend(conn[w])
          ELSE [conn[w] EXCEPT !.send = Append(@, published + 1)]
  IN
  /\ published < MaxEvents
  /\ published' = published + 1
  /\ conn' = [w \in Conns |->
       IF w \in byConnection THEN Receive(w) ELSE conn[w]]
  /\ Remove(full)
  /\ skipped' = IF TakeoverOpen THEN skipped \cup {published + 1} ELSE skipped
  /\ UNCHANGED <<clientVars, wire, faults, base, delivered>>

\* The reaper removes an inactive WebConn whose user was idle for long enough.
RemoveInactiveConnections(w) ==
  /\ w \in byConnection
  /\ ~conn[w].active
  /\ Remove({w})
  /\ UNCHANGED <<conn, clientVars, wire, faults, historyVars>>

\* Mutant: the WebConns are closed but stay in the index.
InvalidateUserErrorKept ==
  /\ Fault
  /\ byConnection # {}
  /\ conn' = [w \in Conns |->
       IF w \in byConnection THEN CloseSend(conn[w]) ELSE conn[w]]
  /\ UNCHANGED <<hubVars, clientVars, wire, historyVars>>

\* invalidateUser cannot read the user's channels: all of them are closed.
InvalidateUserError ==
  /\ Fault
  /\ byConnection # {}
  /\ conn' = [w \in Conns |->
       IF w \in byConnection THEN CloseSend(conn[w]) ELSE conn[w]]
  /\ Remove(byConnection)
  /\ UNCHANGED <<clientVars, wire, historyVars>>

\* The hub recovers from a panic with an empty index; the WebConns live on.
HubPanic ==
  /\ Fault
  /\ byConnection # {}
  /\ byConnection' = {}
  /\ byConnectionId' = {}
  /\ UNCHANGED <<conn, clientVars, wire, historyVars>>

\* The server restarts: no WebConn, no index.  Of a WebConn only its id remains,
\* in a hello that may still be on the wire.
ServerRestart ==
  /\ Fault
  /\ conn' = [w \in Conns |->
       IF conn[w].phase = "unused"
         THEN Unused
         ELSE [Unused EXCEPT !.phase = "closed", !.id = conn[w].id]]
  /\ byConnection' = {}
  /\ byConnectionId' = {}
  /\ UNCHANGED <<clientVars, wire, historyVars>>

-----------------------------------------------------------------------------
(* The network and the client *)

\* The network breaks a socket; each side notices in its own time.
BreakSocket(w) ==
  /\ Fault
  /\ conn[w].open
  /\ conn' = [conn EXCEPT ![w].open = FALSE]
  /\ UNCHANGED <<hubVars, clientVars, wire, historyVars>>

\* The client forgets its socket; onclose schedules the next initialize.
Detach ==
  /\ clientConn' = NoConn
  /\ wire' = << >>

\* onmessage.  A hello with another id than the client's resets the sequence
\* number and makes the application fetch everything (on the first connect it
\* is fetching already); a number out of sequence makes the client reconnect.
ClientReceive ==
  LET msg == Head(wire)
      id == conn[clientConn].id
      newStream == msg.ev = Hello /\ id # connectionId
      expected == IF newStream /\ connectionId # NoId THEN 0 ELSE serverSequence
      inSequence == msg.seq = expected
  IN
  /\ clientConn # NoConn
  /\ wire # << >>
  /\ connectionId' = IF msg.ev = Hello THEN id ELSE connectionId
  /\ IF inSequence
       THEN /\ serverSequence' = msg.seq + 1
            /\ wire' = Tail(wire)
            /\ UNCHANGED <<clientConn, conn>>
       ELSE /\ serverSequence' = expected
            /\ Detach
            /\ conn' = [conn EXCEPT ![clientConn].open = FALSE]
  /\ base' = IF newStream THEN published ELSE base
  /\ skipped' = IF newStream THEN {} ELSE skipped
  /\ delivered' =
       IF newStream THEN << >>
       ELSE IF msg.ev # Hello /\ inSequence THEN Append(delivered, msg.ev)
       ELSE delivered
  /\ UNCHANGED <<hubVars, faults, published>>

\* onclose, for a socket the server or the network closed.
ClientOnClose ==
  /\ clientConn # NoConn
  /\ ~conn[clientConn].open
  /\ Detach
  /\ UNCHANGED <<conn, hubVars, connectionId, serverSequence, faults,
                 historyVars>>

\* The hub drops the answer to the ping of a WebConn it does not know: the
\* client gives the socket up.
ClientPingTimeout ==
  /\ clientConn # NoConn
  /\ conn[clientConn].open
  /\ conn[clientConn].phase \in {"registered", "pumping"}
  /\ clientConn \notin byConnection
  /\ Detach
  /\ conn' = [conn EXCEPT ![clientConn].open = FALSE]
  /\ UNCHANGED <<hubVars, connectionId, serverSequence, faults, historyVars>>

-----------------------------------------------------------------------------
Handler(w) ==
  \/ CheckConnFound(w)
  \/ CheckConnNotFound(w)
  \/ HubRegister(w)

WritePump(w) ==
  \/ StartLossless(w)
  \/ StartFromDeadQueue(w)
  \/ StartWithLoss(w)
  \/ WriteEvent(w)
  \/ WriteClose(w)
  \/ EndWritePump(w)
  \/ HubUnregister(w)

Client ==
  \/ ClientReceive
  \/ ClientOnClose
  \/ ClientPingTimeout

Next ==
  \/ \E w \in Conns : \/ ClientInitialize(w)
                      \/ Handler(w)
                      \/ HubRegisterError(w)
                      \/ WritePump(w)
                      \/ Collect(w)
                      \/ RemoveInactiveConnections(w)
                      \/ BreakSocket(w)
  \/ HubBroadcast
  \/ InvalidateUserError
  \/ HubPanic
  \/ ServerRestart
  \/ Client

Spec == Init /\ [][Next]_vars

\* Handlers, pumps and the hub are goroutines that keep running; the browser
\* runs its callbacks and its reconnect timer; the reaper's ticker and the
\* runtime's collector come round.  Faults and broadcasts owe nothing.
Fairness ==
  /\ WF_vars(\E w \in Conns : ClientInitialize(w))
  /\ WF_vars(Client)
  /\ \A w \in Conns : /\ WF_vars(Handler(w))
                      /\ WF_vars(WritePump(w))
                      /\ WF_vars(RemoveInactiveConnections(w))
                      /\ WF_vars(Collect(w))

FairSpec == Spec /\ Fairness

-----------------------------------------------------------------------------
(* Properties *)

Stream == INSTANCE EventStream WITH
  published <- published, base <- base, delivered <- delivered, skipped <- skipped

\* The webapp sees what EventStream promises: every event in the order of the
\* broadcasts, no event twice, none left out unless it is told to fetch
\* everything - whatever connections break, fill up or get lost on the way.
\* (hasMsgLoss, isInDeadQueue and drainDeadQueue of web_conn.go, onmessage of
\* websocket.ts.)
ImplementsEventStream == Stream!StreamSpec

\* As long as the client holds a connection of its own stream that the hub
\* knows, every event so far has reached it, is on the wire or waits in send:
\* nothing is left behind that no later message would reveal.
NothingLeftBehind ==
  clientConn \in byConnection =>
    LET c == conn[clientConn]
        onWire == {wire[i].ev : i \in 1 .. Len(wire)}
        queued == {c.send[i] : i \in 1 .. Len(c.send)}
    IN  c.phase = "pumping" /\ c.open /\ c.id = connectionId =>
          1 .. published \subseteq
            Stream!Accounted \cup skipped \cup onWire \cup queued

\* A resumed stream starts with exactly the number the client asked for, so on
\* one server the client's check of the sequence number never fails.
ClientInSequence ==
  (clientConn # NoConn /\ wire # << >>) =>
    \/ Head(wire).seq = serverSequence
    \/ Head(wire).ev = Hello /\ Head(wire).seq = 0

\* The hub never sends to or closes a closed channel, which would panic, and an
\* id names one WebConn of the index, so RemoveInactiveByConnectionID and the
\* broadcast cannot pick the wrong one.
IndexSound ==
  \A w \in byConnection :
    /\ ~conn[w].sendClosed
    /\ conn[w].phase \in {"registered", "pumping", "finished", "closed"}
    /\ conn[w].active <=> conn[w].phase # "closed"
    /\ \A v \in byConnection : conn[v].id = conn[w].id => v = w

\* When faults and broadcasts are over every event has reached the client, or a
\* full fetch of the client covers it, for good.
EventuallyAccounted ==
  <>[](1 .. published \subseteq Stream!Accounted \cup skipped)

\* What the comment on hasMsgLoss says of a resumed stream: there is no message
\* loss.  An event missed by a reconnect in progress breaks it.
ResumedWithoutLoss ==
  \A e \in Stream!Accounted : 1 .. e \subseteq Stream!Accounted

\* closeAndRemoveConn and the reaper remove a WebConn from every map of the
\* index: the map by connection id never outgrows the set of connections.
IndexReleased == Cardinality(byConnectionId) <= Cardinality(byConnection)

=============================================================================

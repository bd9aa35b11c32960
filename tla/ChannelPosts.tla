----------------------------- MODULE ChannelPosts -----------------------------
(***************************************************************************)
(* How the webapp keeps the posts of a channel complete: pages fetched     *)
(* when the channel is opened or scrolled, posts pushed over the           *)
(* websocket, and a sync with all posts since some time after the          *)
(* websocket was away.                                                     *)
(*                                                                         *)
(* A request is sent, answered from the server's posts of that moment, and *)
(* received, in three steps: two requests and the websocket overtake each  *)
(* other.  The websocket delivers in order.  After a reconnect it resumes  *)
(* its stream, without the posts that were published while the server had  *)
(* the stream's queues out of its index (skipped in module EventStream),   *)
(* or starts another one, of which the client is told.                     *)
(*                                                                         *)
(* A time is the number of posts published by then, with a mark when the   *)
(* websocket has been lost since: that is all syncPostsInChannel compares. *)
(*                                                                         *)
(* Left out: the second request of those who prefer to start at the newest *)
(* post, the reset after a preference for threads changes, and errors that *)
(* the server answers as "no next post".                                   *)
(***************************************************************************)
EXTENDS Naturals, FiniteSets, PostBlocks

CONSTANTS
  Requests,      \* bound: the requests in flight
  PageSize,      \* posts on a page
  InitialPosts,  \* the posts when the app starts
  MaxPosts,      \* bound: posts published
  MaxLag         \* bound: posts the websocket has to deliver

ASSUME ChannelPostsAssumption ==
  /\ PageSize \in Nat \ {0}
  /\ InitialPosts \in Nat \ {0}
  /\ MaxPosts \in Nat
  /\ InitialPosts <= MaxPosts
  /\ MaxLag \in Nat

VARIABLES
  count,         \* server: the posts are 1 .. count
  pending,       \* websocket: the posts it has to deliver
  socket,        \* websocket: how far the client's socket is
  blocks,        \* postsInChannel of the channel, << >> if it is not loaded
  lastGetPosts,  \* views.channel.lastGetPosts of the channel
  requests,      \* the requests in flight
  missed         \* history: posts that only a page or a sync can bring now

vars == <<count, pending, socket, blocks, lastGetPosts, requests, missed>>

\* connected: onopen was called, the handler has not registered the WebConn yet.
Sockets == {"closed", "connected", "receiving"}

Posts == 1 .. MaxPosts

\* at = 0 is a time that was never set.
Times == [at : 0 .. MaxPosts, stale : BOOLEAN]
Never == [at |-> 0, stale |-> FALSE]
Now == [at |-> count, stale |-> FALSE]

Kinds ==
  {"unreads", "prefetch", "latest", "reload", "around", "before", "after", "sync"}

\* Those whose time of sending matters later.
Timed == {"unreads", "prefetch", "latest", "sync"}

NoRequest == [kind |-> "none", arg |-> 0, tracked |-> 0, time |-> Never,
              order |-> << >>, answered |-> FALSE, latest |-> FALSE]

\* tracked: the lastGetPosts that a sync has to make up for, or 0.  latest: there is no next_post_id.
Request == [kind : Kinds \cup {"none"}, arg : 0 .. MaxPosts, tracked : 0 .. MaxPosts,
            time : Times, order : Seq(Posts), answered : BOOLEAN,
            latest : BOOLEAN]

TypeOK ==
  /\ count \in Posts
  /\ pending \subseteq Posts
  /\ socket \in Sockets
  /\ blocks \in Seq(Block(Posts))
  /\ lastGetPosts \in Times
  /\ requests \in [Requests -> Request]
  /\ missed \subseteq Posts

\* The websocket has just connected for the first time.
Init ==
  /\ count = InitialPosts
  /\ pending = {}
  /\ socket = "receiving"
  /\ blocks = << >>
  /\ lastGetPosts = Never
  /\ requests = [r \in Requests |-> NoRequest]
  /\ missed = {}

-----------------------------------------------------------------------------
(* The server and the websocket *)

\* A post is created.  Until the WebConn is registered the hub may have no queue of the
\* client's stream to append it to; neither side will notice.
Publish ==
  /\ count < MaxPosts
  /\ count' = count + 1
  /\ \/ /\ Cardinality(pending) < MaxLag
        /\ pending' = pending \cup {count + 1}
        /\ UNCHANGED missed
     \/ /\ socket # "receiving"
        /\ missed' = missed \cup {count + 1}
        /\ UNCHANGED pending
  /\ UNCHANGED <<socket, blocks, lastGetPosts, requests>>

\* handleNewPostEvent.  Before the first load the post goes into no block.
ReceiveNewPost ==
  /\ socket = "receiving"
  /\ \E post \in pending :
       /\ \A p \in pending : post <= p
       /\ pending' = pending \ {post}
       /\ blocks' = ReceivedNewPost(blocks, post)
       /\ missed' = IF blocks = << >> THEN missed \cup {post} ELSE missed
  /\ UNCHANGED <<count, socket, lastGetPosts, requests>>

\* WEBSOCKET_FAILURE: every time so far is before lastDisconnectAt.
Disconnect ==
  /\ socket # "closed"
  /\ socket' = "closed"
  /\ lastGetPosts' = [lastGetPosts EXCEPT !.stale = @ \/ lastGetPosts.at # 0]
  /\ requests' = [r \in Requests |->
                    [requests[r] EXCEPT !.time.stale = requests[r].time.at # 0]]
  /\ UNCHANGED <<count, pending, blocks, missed>>

-----------------------------------------------------------------------------
(* Requests *)

Idle(r) == requests[r] = NoRequest

\* request r is sent.
Send(r, kind, arg) ==
  requests' = [requests EXCEPT ![r] =
    [NoRequest EXCEPT
       !.kind = kind,
       !.arg = arg,
       !.time = IF kind \in Timed THEN Now ELSE Never,
       !.tracked = IF kind = "sync" /\ lastGetPosts.stale THEN lastGetPosts.at ELSE 0]]

\* Mutant: the last fetch is forgotten, as if every post had been pushed.
SyncSinceNewest(r, since) == Send(r, "sync", since)

\* syncPostsInChannel: since the last fetch, if the websocket was lost after it.
SyncPostsInChannel(r, since) ==
  Send(r, "sync", IF lastGetPosts.stale THEN lastGetPosts.at ELSE since)

\* reconnect: the channel that is open is brought up to date.
SyncCurrentChannel(r) ==
  \/ /\ HasRecent(blocks)
     /\ SyncPostsInChannel(r, Newest(RecentBlock(blocks)))
  \/ /\ ~HasRecent(blocks)
     /\ Send(r, "reload", 0)

\* onopen after a failure.
Reconnect(r) ==
  /\ Idle(r)
  /\ socket = "closed"
  /\ socket' = "connected"
  /\ SyncCurrentChannel(r)
  /\ UNCHANGED <<count, pending, blocks, lastGetPosts, missed>>

\* The WebConn is registered and goes on with the stream.
Resume ==
  /\ socket = "connected"
  /\ socket' = "receiving"
  /\ UNCHANGED <<count, pending, blocks, lastGetPosts, requests, missed>>

\* restart: a hello with another id.  The dead queue, or all of the stream, is lost.
Restart(r) ==
  /\ Idle(r)
  /\ socket = "connected"
  /\ \E newest \in pending \cup {0} :
       LET lost == {p \in pending : p <= newest}
       IN  /\ pending' = pending \ lost
           /\ missed' = missed \cup (lost \ Held(blocks))
  /\ socket' = "receiving"
  /\ SyncCurrentChannel(r)
  /\ UNCHANGED <<count, blocks, lastGetPosts>>

\* postsOnLoad of a PostList, and what it dispatches.
OpenPermalink(r, p) ==
  /\ Idle(r)
  /\ p <= count
  /\ Send(r, "around", p)
  /\ UNCHANGED <<count, pending, socket, blocks, lastGetPosts, missed>>

OpenFirst(r) ==
  /\ Idle(r)
  /\ blocks = << >>
  /\ \A s \in Requests : requests[s].kind # "prefetch"
  /\ Send(r, "unreads", 0)
  /\ UNCHANGED <<count, pending, socket, blocks, lastGetPosts, missed>>

OpenDisplayed(r) ==
  /\ Idle(r)
  /\ \E i \in DOMAIN blocks : SyncPostsInChannel(r, Newest(blocks[i]))
  /\ UNCHANGED <<count, pending, socket, blocks, lastGetPosts, missed>>

OpenElsewhere(r) ==
  /\ Idle(r)
  /\ blocks # << >>
  /\ HasRecent(blocks) => ~RecentBlock(blocks).oldest
  /\ Send(r, "latest", 0)
  /\ UNCHANGED <<count, pending, socket, blocks, lastGetPosts, missed>>

\* prefetchChannelPosts
Prefetch(r) ==
  /\ Idle(r)
  /\ \/ /\ ~HasRecent(blocks)
        /\ Send(r, "prefetch", 0)
     \/ /\ HasRecent(blocks)
        /\ SyncPostsInChannel(r, Newest(RecentBlock(blocks)))
  /\ UNCHANGED <<count, pending, socket, blocks, lastGetPosts, missed>>

\* canLoadMorePosts and loadPosts: older or newer posts than those on display.
LoadPosts(r) ==
  /\ Idle(r)
  /\ \E i \in DOMAIN blocks :
       \/ /\ ~blocks[i].oldest
          /\ Send(r, "before", Oldest(blocks[i]))
       \/ /\ ~blocks[i].recent
          /\ Send(r, "after", Newest(blocks[i]))
  /\ UNCHANGED <<count, pending, socket, blocks, lastGetPosts, missed>>

-----------------------------------------------------------------------------
(* Answers *)

\* Mutant: the first post does not end the page.
PageFromZero(lo, hi) ==
  LET last == IF hi > count THEN count ELSE hi
  IN  [i \in 1 .. (IF last < lo THEN 0 ELSE last + 1 - lo) |-> last + 1 - i]

\* The posts from lo to hi, newest first.
Page(lo, hi) ==
  LET first == IF lo < 1 THEN 1 ELSE lo
      last  == IF hi > count THEN count ELSE hi
  IN  [i \in 1 .. (IF last < first THEN 0 ELSE last + 1 - first) |-> last + 1 - i]

\* What the server may answer to a request: around the first unread post, unless
\* all are read; a page around, before or after a post; all posts since one.
Answers(q) ==
  LET newest(n) == Page(count + 1 - n, count)
  IN  CASE q.kind \in {"unreads", "prefetch"} ->
             {newest(PageSize)} \cup
               {Page(viewed + 1 - PageSize, viewed + PageSize) :
                  viewed \in 0 .. count - 1}
        [] q.kind = "latest" -> {newest(PageSize)}
        [] q.kind = "reload" -> {newest(2 * PageSize)}
        [] q.kind = "around" -> {Page(q.arg - PageSize, q.arg + PageSize)}
        [] q.kind = "before" -> {Page(q.arg - PageSize, q.arg - 1)}
        [] q.kind = "after"  -> {Page(q.arg + 1, q.arg + PageSize)}
        [] q.kind = "sync"   -> {Page(q.arg + 1, count)}

\* The server reads the posts of the moment.
Answer(r) ==
  /\ requests[r].kind # "none"
  /\ ~requests[r].answered
  /\ \E order \in Answers(requests[r]) :
       requests' = [requests EXCEPT
                      ![r].order = order,
                      ![r].answered = TRUE,
                      ![r].latest = (order # << >> /\ Head(order) = count)]
  /\ UNCHANGED <<count, pending, socket, blocks, lastGetPosts, missed>>

\* The page is received: by the reducer, then by lastGetPosts.
ReceivePage(r) ==
  LET q == requests[r]
      oldest == q.order # << >> /\ Last(q.order) = 1
      Loaded(mark) == ReceivedPostsInChannel(blocks, q.order, mark, oldest)
      opens == q.kind \in {"unreads", "prefetch", "latest"}
      page == opens \/ q.kind \in {"reload", "around"}
      recent == q.latest \/ q.kind \in {"latest", "reload"}
  IN  /\ q.answered
      /\ q.kind # "sync"
      /\ blocks' = CASE page -> Loaded(recent)
                     [] q.kind = "before" ->
                          ReceivedPostsBefore(blocks, q.order, q.arg, oldest)
                     [] q.kind = "after" ->
                          ReceivedPostsAfter(blocks, q.order, q.arg, recent)
      /\ lastGetPosts' = IF opens /\ recent THEN q.time ELSE lastGetPosts
      /\ requests' = [requests EXCEPT ![r] = NoRequest]
      /\ missed' = missed \ Held(blocks')
      /\ UNCHANGED <<count, pending, socket>>

\* A sync is received.  It has to make up for the posts since the last fetch before the
\* websocket was lost, as far as the recent block reaches.
ReceiveSync(r) ==
  LET q == requests[r]
      due == IF q.tracked # 0 /\ HasRecent(blocks)
             THEN {p \in q.tracked + 1 .. q.time.at : p >= Oldest(RecentBlock(blocks))}
             ELSE {}
  IN  /\ q.answered
      /\ q.kind = "sync"
      /\ blocks' = ReceivedPostsSince(blocks, q.order)
      /\ lastGetPosts' = q.time
      /\ missed' = missed \ (due \cup Held(blocks'))
      /\ requests' = [requests EXCEPT ![r] = NoRequest]
      /\ UNCHANGED <<count, pending, socket>>

\* The request is lost; to lose its answer comes to the same.
RequestFails(r) ==
  /\ requests[r].kind # "none"
  /\ ~requests[r].answered
  /\ requests' = [requests EXCEPT ![r] = NoRequest]
  /\ UNCHANGED <<count, pending, socket, blocks, lastGetPosts, missed>>

-----------------------------------------------------------------------------

Next ==
  \/ Publish
  \/ ReceiveNewPost
  \/ Disconnect
  \/ Resume
  \/ \E r \in Requests :
       \/ Reconnect(r)
       \/ Restart(r)
       \/ \E p \in Posts : OpenPermalink(r, p)
       \/ OpenFirst(r)
       \/ OpenDisplayed(r)
       \/ OpenElsewhere(r)
       \/ Prefetch(r)
       \/ LoadPosts(r)
       \/ Answer(r)
       \/ ReceivePage(r)
       \/ ReceiveSync(r)
       \/ RequestFails(r)

Spec == Init /\ [][Next]_vars

-----------------------------------------------------------------------------
(* Properties *)

InOrder(bs) ==
  \A i \in DOMAIN bs :
    \A j, k \in DOMAIN bs[i].order : j < k => bs[i].order[j] > bs[i].order[k]

\* The step receives an answer of one of these kinds.
Receives(kinds) ==
  \E r \in Requests : requests[r].kind \in kinds /\ requests'[r] = NoRequest

\* Only a push puts posts out of order or twice in a block: it goes on top whatever
\* was fetched before it.  And a block marked oldest reaches the first post.
OrderKept ==
  [][blocks' # blocks =>
       /\ InOrder(blocks) /\ Receives(Kinds) => InOrder(blocks')
       /\ \A i \in DOMAIN blocks' : blocks'[i].oldest => Oldest(blocks'[i]) = 1]_blocks

\* The reducer never drops a post.
PostsKept == [][blocks' # blocks => Held(blocks) \subseteq Held(blocks')]_blocks

\* No silent gap: a post that the client does not hold, between the ends of a block, is
\* still to be pushed, or is one that the websocket lost or pushed before the first load,
\* and no sync that started at the last fetch before has made up for it.
NoSilentGap ==
  \A i \in DOMAIN blocks :
    \A p \in Oldest(blocks[i]) .. Newest(blocks[i]) :
      p \in Held(blocks) \cup missed \cup pending

\* The posts that some block lacks between its ends.
Gaps(bs) ==
  UNION {Oldest(bs[i]) .. Newest(bs[i]) \ ToSet(bs[i].order) : i \in DOMAIN bs}

\* A page opens no gap: what it is merged with, it overlaps.  (A post that is pushed
\* goes on top of the recent block whatever was missed, and opens one.)
PageOpensNoGap ==
  [][blocks' # blocks /\ InOrder(blocks) /\ Receives(Kinds \ {"sync"})
       => Gaps(blocks') \subseteq Gaps(blocks)]_blocks
=============================================================================

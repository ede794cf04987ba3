------------------------------ MODULE Gateway -------------------------------
(***************************************************************************)
(* The order gateway of one shard: sessions on the io thread, the          *)
(* sequencer they submit to, the inbound ring, the matching thread, the    *)
(* outbound ring, and the router thread that sends execution reports back  *)
(* to the sessions.                                                        *)
(*                                                                         *)
(* The io thread runs one handler at a time: io says which and how far it  *)
(* has come, and the other threads run in between.  What other threads     *)
(* post to it waits in posts.  The engine is abstract here: a command may  *)
(* have any of the outcomes the matching thread has events for (module     *)
(* Engine says which one a book gives), with at most one fill each.        *)
(* Frames are whole; the bytes of a frame that are still missing are taken *)
(* for a frame that has not arrived.  The decoder has room for two chunks  *)
(* less a frame: a chunk always fits after one in which a frame was        *)
(* handled.                                                                *)
(***************************************************************************)
EXTENDS Integers, Sequences, FiniteSets, SequencesExt

CONSTANTS
    Sessions,
    Scripts,         \* what the clients send: functions from Sessions to sequences of frames
    InCapacity,      \* of the inbound ring
    OutCapacity,     \* of the outbound ring
    ReadChunk,       \* kReadChunk, in frames
    DecoderCapacity, \* FrameDecoder::kCapacity, in frames
    MaxFailures,     \* bound on failing appends
    MaxLost          \* bound on the sessions timers and socket errors close

ASSUME GatewayAssumption ==
    /\ {InCapacity, OutCapacity, ReadChunk} \subseteq Nat \ {0}
    /\ DecoderCapacity \in Nat /\ DecoderCapacity >= 2 * ReadChunk - 1
    /\ {MaxFailures, MaxLost} \subseteq Nat

VARIABLES
    script,    \* what each client has yet to send
    sess,      \* the ClientSession objects; loginSeq is history
    io,        \* the handler the io thread is in
    posts,     \* handlers posted to the io thread by the router
    replies,   \* history: what each session has been given to send
    routes,    \* ShardCtx::routes
    journal,   \* the commands sequenced, in order
    failures,  \* appends that have failed
    inRing,
    mt,        \* the matching thread: "idle" or "dispatching" the command at the tail
    outbox,    \* events of the command being dispatched, not yet in the ring
    resting,   \* the ids in the book
    trades,    \* history: the sessions on the two sides of each trade
    outRing,   \* events the router has not consumed
    any        \* runRouter()'s flag: events were drained since the last post

vars == <<script, sess, io, posts, replies, routes, journal, failures, inRing, mt, outbox,
          resting, trades, outRing, any>>
engineVars == <<mt, outbox, resting, trades>>
routerVars == <<outRing, any>>

Nobody == "nobody"
NoCommand == [kind |-> "None"]
Orders == {"New", "Cancel", "Replace"}

Idle == [at |-> "idle"]
Decoding(s) == [at |-> "decode", s |-> s]
Submitting(s, c) == [at |-> "submit", s |-> s, cmd |-> c]
Retrying(todo) == [at |-> "retry", todo |-> todo]

Ids == {f.id : f \in UNION {UNION {ToSet(sc[s]) : s \in Sessions} : sc \in Scripts}}

NewSession ==
    [state |-> "AwaitingLogin", loginSeq |-> 0, lastClientSeq |-> 0, readSuspended |-> FALSE,
     reading |-> TRUE, buffer |-> <<>>, pending |-> NoCommand]

Init ==
    /\ script \in Scripts
    /\ sess = [s \in Sessions |-> NewSession]
    /\ io = Idle
    /\ posts = <<>>
    /\ replies = [s \in Sessions |-> <<>>]
    /\ routes = [i \in Ids |-> Nobody]
    /\ journal = <<>>
    /\ failures = 0
    /\ inRing = <<>>
    /\ mt = "idle"
    /\ outbox = <<>>
    /\ resting = [i \in Ids |-> Nobody]
    /\ trades = <<>>
    /\ outRing = <<>>
    /\ any = FALSE
-----------------------------------------------------------------------------
(***************************************************************************)
(* ClientSession.                                                          *)
(***************************************************************************)
Closed(x) == x.state = "Closing"
\* closeSession(); nothing looks at the buffer or at a waiting command after it.
CloseSession(x) ==
    [x EXCEPT !.state = "Closing", !.reading = FALSE, !.buffer = <<>>,
              !.pending = NoCommand, !.readSuspended = FALSE]
DoRead(x) == [x EXCEPT !.reading = ~Closed(x) /\ ~x.readSuspended]

\* A session goes on with the frames of its buffer unless it is closed or suspended.
Stops(x) == Closed(x) \/ x.readSuspended \/ x.buffer = <<>>
AfterFrame(s, x) ==
    /\ sess' = [sess EXCEPT ![s] = IF Stops(x) THEN DoRead(x) ELSE x]
    /\ io' = IF Stops(x) THEN Idle ELSE Decoding(s)

Send(s, msg) == replies' = [replies EXCEPT ![s] = Append(@, msg)]
Reject(id, reason) == [type |-> "Reject", id |-> id, reason |-> reason]

\* onRead(): a chunk arrives; the decoder refuses what it has no room for.
OnRead(s, k) ==
    /\ io = Idle
    /\ sess[s].reading
    /\ k <= ReadChunk /\ k <= Len(script[s])
    /\ script' = [script EXCEPT ![s] = SubSeq(@, k + 1, Len(@))]
    /\ LET x == [sess[s] EXCEPT !.reading = FALSE]
           fed == [x EXCEPT !.buffer = @ \o SubSeq(script[s], 1, k)]
       IN  IF Len(fed.buffer) > DecoderCapacity
           THEN sess' = [sess EXCEPT ![s] = CloseSession(x)] /\ io' = Idle
           ELSE sess' = [sess EXCEPT ![s] = fed] /\ io' = Decoding(s)
    /\ UNCHANGED <<posts, replies, routes, journal, failures, inRing, engineVars, routerVars>>

\* The frame processDecoded() is about to handle.
Frame(s) == Head(sess[s].buffer)
Popped(s) == [sess[s] EXCEPT !.buffer = Tail(@)]
AtFrame(s) == io = Decoding(s)

Malformed(s) ==
    /\ AtFrame(s) /\ Frame(s).type = "Malformed"
    /\ AfterFrame(s, CloseSession(Popped(s)))
    /\ UNCHANGED <<script, posts, replies, routes, journal, failures, inRing, engineVars,
                   routerVars>>

\* A heartbeat is welcome in any state.
Heartbeat(s) ==
    /\ AtFrame(s) /\ Frame(s).type = "Heartbeat"
    /\ AfterFrame(s, Popped(s))
    /\ UNCHANGED <<script, posts, replies, routes, journal, failures, inRing, engineVars,
                   routerVars>>

HandleLogin(s) ==
    /\ AtFrame(s) /\ Frame(s).type = "Login"
    /\ IF sess[s].state = "AwaitingLogin" /\ Frame(s).authentic
       THEN /\ AfterFrame(s, [Popped(s) EXCEPT !.state = "Authenticated",
                                               !.loginSeq = Frame(s).seq,
                                               !.lastClientSeq = Frame(s).seq])
            /\ Send(s, [type |-> "LoginAck"])
       ELSE /\ AfterFrame(s, CloseSession(Popped(s)))
            /\ Send(s, [type |-> "LoginReject"])
    /\ UNCHANGED <<script, posts, routes, journal, failures, inRing, engineVars, routerVars>>

\* Anything else before the login.
NotAuthenticated(s) ==
    /\ AtFrame(s) /\ Frame(s).type \in Orders
    /\ sess[s].state = "AwaitingLogin"
    /\ AfterFrame(s, CloseSession(Popped(s)))
    /\ Send(s, [type |-> "LoginReject"])
    /\ UNCHANGED <<script, posts, routes, journal, failures, inRing, engineVars, routerVars>>

\* checkClientSeq(): a number already used is rejected, a gap ends the session.
DuplicateSeq(s, n) == n <= sess[s].lastClientSeq
SequenceGap(s, n) == n > sess[s].lastClientSeq + 1

WrongSeq(s) ==
    /\ AtFrame(s) /\ Frame(s).type \in Orders
    /\ sess[s].state = "Authenticated"
    /\ \/ /\ DuplicateSeq(s, Frame(s).seq)
          /\ AfterFrame(s, Popped(s))
          /\ Send(s, Reject(Frame(s).id, "DuplicateSeq"))
       \/ /\ SequenceGap(s, Frame(s).seq)
          /\ AfterFrame(s, CloseSession(Popped(s)))
          /\ Send(s, Reject(Frame(s).id, "SequenceGap"))
    /\ UNCHANGED <<script, posts, routes, journal, failures, inRing, engineVars, routerVars>>

\* handleNewOrder(), handleCancel(), handleCancelReplace(): the route is registered before the
\* sequencer is called.
HandleOrder(s) ==
    /\ AtFrame(s) /\ Frame(s).type \in Orders
    /\ sess[s].state = "Authenticated"
    /\ ~DuplicateSeq(s, Frame(s).seq) /\ ~SequenceGap(s, Frame(s).seq)
    /\ LET c == [kind |-> Frame(s).type, id |-> Frame(s).id, session |-> s, seq |-> Frame(s).seq]
       IN  /\ io' = Submitting(s, c)
           /\ routes' = [routes EXCEPT ![c.id] = s]
    /\ sess' = [sess EXCEPT ![s] = [Popped(s) EXCEPT !.lastClientSeq = Frame(s).seq]]
    /\ UNCHANGED <<script, posts, replies, journal, failures, inRing, engineVars, routerVars>>
-----------------------------------------------------------------------------
(***************************************************************************)
(* Sequencer::trySubmit() and what sessions make of its three outcomes.    *)
(***************************************************************************)
RingFull == Len(inRing) = InCapacity

Sequenced(c) ==
    /\ ~RingFull
    /\ journal' = Append(journal, c)
    /\ inRing' = Append(inRing, c)

DurabilityFailure ==
    /\ ~RingFull
    /\ failures < MaxFailures
    /\ failures' = failures + 1

\* Only an order that was entered is acknowledged here; the router answers the others.
SendNewAckIfApplicable(s, c) ==
    IF c.kind = "New" THEN Send(s, [type |-> "NewAck", id |-> c.id]) ELSE UNCHANGED replies

\* Wrong: the session reads on.
SuspendOnly(x, c) == [x EXCEPT !.pending = c]

\* A session that has to wait keeps the command and stops reading.
Suspend(x, c) == [x EXCEPT !.pending = c, !.readSuspended = TRUE]

SubmitOrPend ==
    /\ io.at = "submit"
    /\ LET s == io.s
           c == io.cmd
       IN  \/ /\ Sequenced(c)
              /\ SendNewAckIfApplicable(s, c)
              /\ AfterFrame(s, sess[s])
              /\ UNCHANGED <<routes, failures>>
           \/ /\ RingFull
              /\ AfterFrame(s, Suspend(sess[s], c))
              /\ UNCHANGED <<routes, failures, journal, inRing, replies>>
           \/ /\ DurabilityFailure
              /\ routes' = [routes EXCEPT ![c.id] = Nobody]
              /\ Send(s, Reject(c.id, "EngineReject"))
              /\ AfterFrame(s, CloseSession(sess[s]))
              /\ UNCHANGED <<journal, inRing>>
    /\ UNCHANGED <<script, posts, engineVars, routerVars>>

\* retryPending() of the next session of retryAllPending()'s walk.
Resumed(x) == DoRead([x EXCEPT !.pending = NoCommand, !.readSuspended = FALSE])

RetryPending ==
    /\ io.at = "retry"
    /\ io.todo # <<>>
    /\ io' = Retrying(Tail(io.todo))
    /\ LET s == Head(io.todo)
           c == sess[s].pending
       IN  \/ /\ ~sess[s].readSuspended \/ Closed(sess[s]) \/ RingFull
              /\ UNCHANGED <<sess, routes, failures, journal, inRing, replies>>
           \/ /\ sess[s].readSuspended /\ ~Closed(sess[s])
              /\ \/ /\ Sequenced(c)
                    /\ SendNewAckIfApplicable(s, c)
                    /\ sess' = [sess EXCEPT ![s] = Resumed(@)]
                    /\ UNCHANGED <<routes, failures>>
                 \/ /\ DurabilityFailure
                    /\ routes' = [routes EXCEPT ![c.id] = Nobody]
                    /\ Send(s, Reject(c.id, "EngineReject"))
                    /\ sess' = [sess EXCEPT ![s] = CloseSession([@ EXCEPT !.pending = NoCommand])]
                    /\ UNCHANGED <<journal, inRing>>
    /\ UNCHANGED <<script, posts, engineVars, routerVars>>

RetryDone ==
    /\ io = Retrying(<<>>)
    /\ io' = Idle
    /\ UNCHANGED <<script, sess, posts, replies, routes, journal, failures, inRing, engineVars,
                   routerVars>>

\* A handler posted by the router: a frame for a session, or a round of retries.
RunPost ==
    /\ io = Idle
    /\ posts # <<>>
    /\ posts' = Tail(posts)
    /\ LET p == Head(posts)
       IN  IF p.post = "retry"
           THEN io' = Retrying(SetToSeq(Sessions)) /\ UNCHANGED replies
           ELSE /\ io' = Idle
                /\ IF Closed(sess[p.session]) THEN UNCHANGED replies
                   ELSE Send(p.session, p.msg)
    /\ UNCHANGED <<script, sess, routes, journal, failures, inRing, engineVars, routerVars>>
-----------------------------------------------------------------------------
(***************************************************************************)
(* Timers, and clients that go away.                                       *)
(***************************************************************************)
Closes(s) ==
    /\ Cardinality({x \in Sessions : Closed(sess[x])}) < MaxLost
    /\ sess' = [sess EXCEPT ![s] = CloseSession(@)]

AuthTimeout(s) ==
    /\ io = Idle
    /\ sess[s].state = "AwaitingLogin"
    /\ Closes(s)
    /\ UNCHANGED <<script, io, posts, replies, routes, journal, failures, inRing, engineVars,
                   routerVars>>

\* The last of kMaxMissedHeartbeats intervals in which nothing was read.  Nothing is known of how
\* long anything takes, so they may have passed whenever the io thread is idle.  A failing read
\* or write has the same effect.
HeartbeatTimer(s) ==
    /\ io = Idle
    /\ ~Closed(sess[s])
    /\ Closes(s)
    /\ UNCHANGED <<script, io, posts, replies, routes, journal, failures, inRing, engineVars,
                   routerVars>>
-----------------------------------------------------------------------------
(***************************************************************************)
(* The matching thread.  The slot of a command is given back only after    *)
(* all its events are published.                                           *)
(***************************************************************************)
Trade(id, p) == [kind |-> "TradeEvent", aggressorId |-> id, passiveId |-> p,
                 tradeId |-> Len(trades) + 1]
Status(id, ok) == [kind |-> "StatusEvent", id |-> id, ok |-> ok]
OrderUpdate == [kind |-> "OrderUpdate"]

InBook(bk) == {i \in Ids : bk[i] # Nobody}
Without(bk, S) == [i \in Ids |-> IF i \in S THEN Nobody ELSE bk[i]]

\* What matching and its end can come to: what rests of the book, whether the arrival joins it,
\* and whether it ends well.  Without a fill the arrival rests or is refused; one that is filled
\* leaves or removes the passive order, and only in the second case has a residual.  Self-trade
\* prevention removes an order, and perhaps the arrival as well.
Matches(bk, id) ==
    LET way(events, b, rests, ok) == [events |-> events, bk |-> b, rests |-> rests, ok |-> ok]
        fill(p) == <<Trade(id, p)>>
    IN  {way(<<>>, bk, ok, ok) : ok \in BOOLEAN}
        \cup UNION {{way(fill(p), bk, FALSE, TRUE), way(fill(p), Without(bk, {p}), FALSE, TRUE),
                     way(fill(p), Without(bk, {p}), TRUE, TRUE),
                     way(fill(p), Without(bk, {p}), FALSE, FALSE)} : p \in InBook(bk)}
        \cup {way(<<OrderUpdate>>, Without(bk, {v}), ok, ok) : v \in InBook(bk), ok \in BOOLEAN}

\* The book and the events once the arrival has been matched.
Ended(c, m, okEvents) ==
    [events |-> m.events \o (IF m.ok THEN okEvents ELSE <<Status(c.id, FALSE)>>) \o <<OrderUpdate>>,
     bk |-> IF m.rests THEN [m.bk EXCEPT ![c.id] = c.session] ELSE m.bk]

Outcomes(c) ==
    LET known == resting[c.id] # Nobody
        refused == {[events |-> <<Status(c.id, FALSE)>>, bk |-> resting]}
        removed == Without(resting, {c.id})
        cancelled == {[events |-> <<Status(c.id, TRUE), OrderUpdate>>, bk |-> removed]}
        replaced == {Ended(c, m, <<Status(c.id, TRUE)>>) : m \in Matches(removed, c.id)}
    IN  CASE c.kind = "New" -> IF known
                               THEN {[events |-> <<Status(c.id, FALSE), OrderUpdate>>,
                                      bk |-> resting]}
                               ELSE {Ended(c, m, <<>>) : m \in Matches(resting, c.id)}
          [] c.kind = "Cancel" -> IF known THEN cancelled ELSE refused
          [] c.kind = "Replace" -> IF known
                                   THEN {[e EXCEPT !.events = <<OrderUpdate>> \o @] : e \in replaced}
                                   ELSE refused

\* The sessions a trade among the events concerns.
TradesOf(c, events) ==
    [k \in 1 .. Len(SelectSeq(events, LAMBDA e : e.kind = "TradeEvent")) |->
        LET e == SelectSeq(events, LAMBDA x : x.kind = "TradeEvent")[k]
        IN  [aggressor |-> c.session, passive |-> resting[e.passiveId]]]

Dispatch ==
    /\ mt = "idle"
    /\ inRing # <<>>
    /\ mt' = "dispatching"
    /\ \E o \in Outcomes(Head(inRing)) :
            /\ outbox' = o.events
            /\ resting' = o.bk
            /\ trades' = trades \o TradesOf(Head(inRing), o.events)
    /\ UNCHANGED <<script, sess, io, posts, replies, routes, journal, failures, inRing, routerVars>>

PublishOutbound ==
    /\ outbox # <<>>
    /\ Len(outRing) < OutCapacity
    /\ outRing' = Append(outRing, Head(outbox))
    /\ outbox' = Tail(outbox)
    /\ UNCHANGED <<script, sess, io, posts, replies, routes, journal, failures, inRing, mt,
                   resting, trades, any>>

Consume ==
    /\ mt = "dispatching"
    /\ outbox = <<>>
    /\ mt' = "idle"
    /\ inRing' = Tail(inRing)
    /\ UNCHANGED <<script, sess, io, posts, replies, routes, journal, failures, outbox, resting,
                   trades, routerVars>>
-----------------------------------------------------------------------------
(***************************************************************************)
(* The router thread.                                                      *)
(***************************************************************************)
Report(id, msg) ==
    IF routes[id] = Nobody THEN <<>>
    ELSE <<[post |-> "send", session |-> routes[id], msg |-> msg]>>
Fill(id, t) == [type |-> "Fill", id |-> id, tradeId |-> t]

\* Wrong: the route goes with any answer.
RoutesAfterAny(e) ==
    IF e.kind = "StatusEvent" THEN [routes EXCEPT ![e.id] = Nobody] ELSE routes

\* routeReject() forgets the route, routeExecReport() does not.
RoutesAfter(e) ==
    IF e.kind = "StatusEvent" /\ ~e.ok THEN [routes EXCEPT ![e.id] = Nobody] ELSE routes

RouteOne ==
    /\ outRing # <<>>
    /\ LET e == Head(outRing)
       IN  /\ posts' = posts \o
                CASE e.kind = "TradeEvent" -> Report(e.aggressorId, Fill(e.aggressorId, e.tradeId))
                                              \o Report(e.passiveId, Fill(e.passiveId, e.tradeId))
                  [] e.kind = "StatusEvent" /\ e.ok -> Report(e.id, [type |-> "Ack", id |-> e.id])
                  [] e.kind = "StatusEvent" /\ ~e.ok -> Report(e.id, Reject(e.id, "EngineReject"))
                  [] e.kind = "OrderUpdate" -> <<>>
           /\ routes' = RoutesAfter(e)
    /\ outRing' = Tail(outRing)
    /\ any' = TRUE
    /\ UNCHANGED <<script, sess, io, replies, journal, failures, inRing, engineVars>>

\* Wrong: nobody is told.
PostRetryNever == posts

\* Every waiting session is to be retried.
PostRetry == Append(posts, [post |-> "retry"])

\* The ring is empty, and something was drained.
Drained ==
    /\ any /\ outRing = <<>>
    /\ any' = FALSE
    /\ posts' = PostRetry
    /\ UNCHANGED <<script, sess, io, replies, routes, journal, failures, inRing, engineVars, outRing>>
-----------------------------------------------------------------------------
IoThread ==
    \/ \E s \in Sessions : Malformed(s) \/ Heartbeat(s) \/ HandleLogin(s) \/ NotAuthenticated(s)
                           \/ WrongSeq(s) \/ HandleOrder(s)
    \/ SubmitOrPend \/ RetryPending \/ RetryDone \/ RunPost
MatchingThread == Dispatch \/ PublishOutbound \/ Consume
Router == RouteOne \/ Drained
Outside(s) ==
    \/ \E k \in 1 .. ReadChunk : OnRead(s, k)
    \/ AuthTimeout(s) \/ HeartbeatTimer(s)

Next == IoThread \/ MatchingThread \/ Router \/ \E s \in Sessions : Outside(s)

\* The three threads run; nothing is assumed of clients and timers.
Fairness == WF_vars(IoThread) /\ WF_vars(MatchingThread) /\ WF_vars(Router)
Spec == Init /\ [][Next]_vars /\ Fairness
-----------------------------------------------------------------------------
\* The numbers of a session's commands in the journal.
JournaledSeqs(s) ==
    LET own == SelectSeq(journal, LAMBDA c : c.session = s)
    IN  [k \in DOMAIN own |-> own[k].seq]

\* A session's commands are sequenced once each, in the client's order and without a gap from
\* the number it logged in with, whatever the client repeats or skips and however often the ring
\* was full ("a retried order must not double-execute"; "backpressure must never drop an order",
\* session.cpp).
InOrderOnce ==
    \A s \in Sessions : \A k \in DOMAIN JournaledSeqs(s) :
        JournaledSeqs(s)[k] = sess[s].loginSeq + k

Count(P(_), q) == Len(SelectSeq(q, P))

\* Every fill is reported once to each of its two sessions, unless the session has been closed:
\* it is in the outbound ring, on its way to the io thread, or among the frames sent, never
\* lost or doubled in between (routeOne(), routeExecReport()).  This is for clients that use an
\* id for one order: routes are by id, and a second use of it takes the route over.
FillsConserved ==
    \A t \in DOMAIN trades : \A s \in {trades[t].aggressor, trades[t].passive} :
        ~Closed(sess[s]) =>
            LET sides == (IF s = trades[t].aggressor THEN 1 ELSE 0)
                         + (IF s = trades[t].passive THEN 1 ELSE 0)
                isEvent(e) == e.kind = "TradeEvent" /\ e.tradeId = t
                isMsg(m) == m.type = "Fill" /\ m.tradeId = t
                isPost(p) == p.post = "send" /\ p.session = s /\ isMsg(p.msg)
            IN  sides * Count(isEvent, outbox \o outRing) + Count(isPost, posts)
                + Count(isMsg, replies[s]) = sides

\* A session that had to stop reading because the ring was full is resumed, or closed: the
\* retries the router posts never miss the moment at which the matching thread makes room.
PendingResolved ==
    \A s \in Sessions : sess[s].readSuspended ~> ~sess[s].readSuspended \/ Closed(sess[s])

\* Nothing is under way in any thread.
Quiet == io = Idle /\ posts = <<>> /\ inRing = <<>> /\ outRing = <<>> /\ ~any

\* An order the session has received is handled: "no order is ever dropped waiting for space"
\* (session.hpp:82).
NothingLeftBehind == Quiet => \A s \in Sessions : Closed(sess[s]) \/ sess[s].buffer = <<>>
=============================================================================

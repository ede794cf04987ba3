---------------------------- MODULE MulticastRing ----------------------------
(***************************************************************************)
(* The outbound ring: the matching thread publishes, every consumer reads  *)
(* every event at its own pace.  Gating consumers (the gateway's router)   *)
(* hold the producer back; the others (the market-data publisher) can be   *)
(* lapped and find out by tryPeekChecked().                                *)
(*                                                                         *)
(* An event is several words long, so that copying one is not atomic: the  *)
(* producer writes and a consumer reads one word at a time.  The event at  *)
(* position k has the value k in every word.                               *)
(*                                                                         *)
(* The slot is read and written without synchronisation by a consumer that *)
(* is being lapped.  On x86-64 the reads stay before the second load of    *)
(* the head cursor, since loads are not reordered.  On arm64 an acquire    *)
(* load does not hold back the plain loads before it: LoadsReorder.        *)
(***************************************************************************)
EXTENDS Integers, FiniteSets, FiniteSetsExt

CONSTANTS
    Consumers, Gating,  \* NumConsumers, GatingMask
    Capacity, Words,
    LoadsReorder,       \* whether the CPU may perform the slot reads after the second check
    MaxSent             \* bound: events published

ASSUME RingAssumption ==
    /\ Capacity \in Nat \ {0}
    /\ Gating \subseteq Consumers
    /\ LoadsReorder \in BOOLEAN
    /\ MaxSent \in Nat

NoHead == -1

VARIABLES
    storage,        \* slot -> word -> position of the event it comes from
    head,           \* head_
    tails,          \* tails_
    cachedMinTail,  \* cachedMinTail_
    cachedHead,     \* cachedHead_
    producer,       \* where publishOutbound() is
    unwritten,      \* words of the claimed slot still to write
    state,          \* where each consumer is in tryPeek() or tryPeekChecked()
    unread,         \* words still to copy
    copy,           \* out, word by word
    head2           \* the head loaded to validate the copy, or NoHead

vars == <<storage, head, tails, cachedMinTail, cachedHead, producer, unwritten,
          state, unread, copy, head2>>
producerVars == <<storage, head, cachedMinTail, producer, unwritten>>
consumerVars == <<tails, cachedHead, state, unread, copy, head2>>

Slot(cursor) == cursor % Capacity

Init ==
    /\ storage = [i \in 0 .. Capacity - 1 |-> [w \in Words |-> -1]]
    /\ head = 0
    /\ tails = [c \in Consumers |-> 0]
    /\ cachedMinTail = 0
    /\ cachedHead = [c \in Consumers |-> 0]
    /\ producer = "idle"
    /\ unwritten = {}
    /\ state = [c \in Consumers |-> "idle"]
    /\ unread = [c \in Consumers |-> {}]
    /\ copy = [c \in Consumers |-> [w \in Words |-> -1]]
    /\ head2 = [c \in Consumers |-> NoHead]
-----------------------------------------------------------------------------
\* Wrong: the slowest consumer of all, whatever the gating mask says.
MinTailOfAll == Min({tails[c] : c \in Consumers})
MinTail == Min({tails[c] : c \in Gating})

\* minConsumerCursor().  The cursors are loaded one after the other while the consumers move
\* on, so the result may be anything from what was last seen up to the true minimum.
MinConsumerCursors ==
    IF Gating = {} THEN {head}
    ELSE cachedMinTail .. MinTail

Publishing == head < MaxSent /\ producer = "idle"

\* Wrong: the ring is taken for not yet full when it holds Capacity events.
FullAtOneMore(cached) == head - cached > Capacity
Full(cached) == head - cached >= Capacity

Claim ==
    /\ Publishing
    /\ ~Full(cachedMinTail)
    /\ producer' = "writing"
    /\ unwritten' = Words
    /\ UNCHANGED <<storage, head, cachedMinTail, consumerVars>>

Reclaim(m) ==
    /\ Publishing
    /\ Full(cachedMinTail)
    /\ cachedMinTail' = m
    /\ IF Full(m) THEN UNCHANGED <<producer, unwritten>>
       ELSE producer' = "writing" /\ unwritten' = Words
    /\ UNCHANGED <<storage, head, consumerVars>>

WriteWord(w) ==
    /\ producer = "writing"
    /\ w \in unwritten
    /\ unwritten' = unwritten \ {w}
    /\ storage' = [storage EXCEPT ![Slot(head)][w] = head]
    /\ UNCHANGED <<head, cachedMinTail, producer, consumerVars>>

Publish ==
    /\ producer = "writing"
    /\ unwritten = {}
    /\ head' = head + 1
    /\ producer' = "idle"
    /\ UNCHANGED <<storage, cachedMinTail, unwritten, consumerVars>>
-----------------------------------------------------------------------------
\* Wrong: the producer's cursor is never loaded again.
ReloadNever(c) == cachedHead[c]
Reload(c) == IF tails[c] = cachedHead[c] THEN head ELSE cachedHead[c]

\* Both peeks start alike: load the producer's cursor if the cached one says empty, and
\* return if it still does.
Peek(c) ==
    /\ state[c] = "idle"
    /\ cachedHead' = [cachedHead EXCEPT ![c] = Reload(c)]
    /\ IF tails[c] = Reload(c) THEN UNCHANGED <<state, unread>>
       ELSE IF c \in Gating
       THEN state' = [state EXCEPT ![c] = "copying"] /\ unread' = [unread EXCEPT ![c] = Words]
       ELSE state' = [state EXCEPT ![c] = "found"] /\ UNCHANGED unread
    /\ UNCHANGED <<tails, copy, head2, producerVars>>

\* Wrong: a consumer exactly Capacity behind is not taken for lapped.
LappedOneLate(c, h) == h - tails[c] > Capacity
Lapped(c, h) == h - tails[c] >= Capacity

\* lapse(): give up the slot and catch up with the head just seen.
Lapse(c, h) ==
    /\ tails' = [tails EXCEPT ![c] = h]
    /\ cachedHead' = [cachedHead EXCEPT ![c] = h]
    /\ state' = [state EXCEPT ![c] = "idle"]
    /\ unread' = [unread EXCEPT ![c] = {}]
    /\ head2' = [head2 EXCEPT ![c] = NoHead]
    /\ UNCHANGED copy

\* tryPeekChecked(), the first check.
CheckBefore(c) ==
    /\ state[c] = "found"
    /\ IF Lapped(c, head) THEN Lapse(c, head)
       ELSE /\ state' = [state EXCEPT ![c] = "copying"]
            /\ unread' = [unread EXCEPT ![c] = Words]
            /\ UNCHANGED <<tails, cachedHead, copy, head2>>
    /\ UNCHANGED producerVars

ReadWord(c, w) ==
    /\ state[c] = "copying"
    /\ w \in unread[c]
    /\ unread' = [unread EXCEPT ![c] = @ \ {w}]
    /\ copy' = [copy EXCEPT ![c][w] = storage[Slot(tails[c])][w]]
    /\ UNCHANGED <<tails, cachedHead, state, head2, producerVars>>

\* tryPeekChecked(), the second load of the head.
LoadHead2(c) ==
    /\ c \notin Gating
    /\ state[c] = "copying"
    /\ head2[c] = NoHead
    /\ unread[c] = {} \/ LoadsReorder
    /\ head2' = [head2 EXCEPT ![c] = head]
    /\ UNCHANGED <<tails, cachedHead, state, unread, copy, producerVars>>

\* tryPeekChecked(), the second check.
CheckAfter(c) ==
    /\ state[c] = "copying"
    /\ unread[c] = {}
    /\ head2[c] # NoHead
    /\ IF Lapped(c, head2[c]) THEN Lapse(c, head2[c])
       ELSE /\ state' = [state EXCEPT ![c] = "ok"]
            /\ head2' = [head2 EXCEPT ![c] = NoHead]
            /\ UNCHANGED <<tails, cachedHead, unread, copy>>
    /\ UNCHANGED producerVars

\* tryPeek(): a gating consumer uses the slot with no further check.
ReadDone(c) ==
    /\ c \in Gating
    /\ state[c] = "copying"
    /\ unread[c] = {}
    /\ state' = [state EXCEPT ![c] = "ok"]
    /\ UNCHANGED <<tails, cachedHead, unread, copy, head2, producerVars>>

Consume(c) ==
    /\ state[c] = "ok"
    /\ tails' = [tails EXCEPT ![c] = @ + 1]
    /\ state' = [state EXCEPT ![c] = "idle"]
    /\ copy' = [copy EXCEPT ![c] = [w \in Words |-> -1]]
    /\ UNCHANGED <<cachedHead, unread, head2, producerVars>>
-----------------------------------------------------------------------------
\* The consumers' latest stores are seen.
ReclaimLatest == Gating # {} /\ Reclaim(MinTail)

ProducerNext ==
    \/ Claim
    \/ \E m \in MinConsumerCursors : Reclaim(m)
    \/ \E w \in Words : WriteWord(w)
    \/ Publish

ConsumerNext(c) ==
    \/ Peek(c)
    \/ CheckBefore(c)
    \/ \E w \in Words : ReadWord(c, w)
    \/ LoadHead2(c)
    \/ CheckAfter(c)
    \/ ReadDone(c)
    \/ Consume(c)

Next == ProducerNext \/ \E c \in Consumers : ConsumerNext(c)

(***************************************************************************)
(* The producer spins until it can publish and each gating consumer keeps  *)
(* polling.  A consumer that does not gate may stop for good.              *)
(***************************************************************************)
Fairness ==
    /\ WF_vars(Claim) /\ WF_vars(ReclaimLatest)
    /\ WF_vars(\E w \in Words : WriteWord(w)) /\ WF_vars(Publish)
    /\ \A c \in Gating : WF_vars(ConsumerNext(c))

Spec == Init /\ [][Next]_vars

FairSpec == Spec /\ Fairness
-----------------------------------------------------------------------------
\* What a consumer is handed is the event at its cursor, whole: a gating consumer because the
\* producer waits for it, another because a copy that may be torn is thrown away.
NoTornRead ==
    \A c \in Consumers : state[c] = "ok" => \A w \in Words : copy[c][w] = tails[c]

\* The producer never writes the slot a gating consumer has yet to read, however stale its
\* cached minimum is.
GatingNeverLapped ==
    \A c \in Gating :
        /\ cachedMinTail <= tails[c] /\ tails[c] <= cachedHead[c] /\ cachedHead[c] <= head
        /\ head - tails[c] <= Capacity
        /\ producer = "writing" => head - tails[c] < Capacity

\* A stopped or slow market-data consumer never stalls the engine: all events are published
\* although only the gating consumers are sure to run.
ProducerNeverStalled == <>(head = MaxSent)

\* Every published event reaches every gating consumer.
GatingSeesAll == \A c \in Gating : \A k \in 1 .. MaxSent : head >= k ~> tails[c] >= k
=============================================================================

------------------------------ MODULE SpscRing ------------------------------
(***************************************************************************)
(* The single-producer single-consumer ring between the sequencer and the  *)
(* matching thread, with its two threads.                                  *)
(*                                                                         *)
(* Each access to the other thread's cursor is a step of its own.  Under   *)
(* acquire/release ordering such a load may return any value the cursor    *)
(* has had since the last one this thread saw; what it returns, it returns *)
(* with the slot writes (or reads) that came before the store.             *)
(*                                                                         *)
(* Cursors are unbounded here.  The code's are uint64_t and only ever      *)
(* incremented; they do not wrap within any run of the program.            *)
(***************************************************************************)
EXTENDS Integers, Sequences

CONSTANTS
    Values,
    Capacity,
    NoValue,  \* T{}
    MaxSent   \* bound: values pushed

ASSUME CapacityAssumption == Capacity \in Nat \ {0}
ASSUME ValuesAssumption == NoValue \notin Values /\ MaxSent \in Nat

VARIABLES
    storage,     \* storage_
    head,        \* head_, written by the producer
    tail,        \* tail_, written by the consumer
    cachedTail,  \* cachedTail_, the producer's
    cachedHead,  \* cachedHead_, the consumer's
    producer,    \* where the producer is in push()
    consumer,    \* where the consumer is in pop()
    item,        \* the value being pushed
    out,         \* the value popped
    sent,        \* history: every value published
    received     \* history: every value consumed

vars == <<storage, head, tail, cachedTail, cachedHead, producer, consumer,
          item, out, sent, received>>
producerVars == <<head, cachedTail, producer, item, sent>>
consumerVars == <<tail, cachedHead, consumer, out, received>>

Slot(cursor) == cursor % Capacity

Init ==
    /\ storage = [i \in 0 .. Capacity - 1 |-> NoValue]
    /\ head = 0 /\ tail = 0
    /\ cachedTail = 0 /\ cachedHead = 0
    /\ producer = "idle" /\ consumer = "idle"
    /\ item = NoValue /\ out = NoValue
    /\ sent = <<>> /\ received = <<>>
-----------------------------------------------------------------------------
\* A caller has a value to push; BlockingProducer and Sequencer::submit() keep trying.
Push ==
    /\ producer = "idle"
    /\ Len(sent) < MaxSent
    /\ item' \in Values
    /\ producer' = "claiming"
    /\ UNCHANGED <<storage, head, cachedTail, sent, consumerVars>>

\* Wrong: the ring is taken for not yet full when it holds Capacity values.
FullAtOneMore(cached) == head - cached > Capacity
Full(cached) == head - cached >= Capacity

\* tryClaim(), the cached cursor leaves room.
Claim ==
    /\ producer = "claiming"
    /\ ~Full(cachedTail)
    /\ producer' = "claimed"
    /\ UNCHANGED <<storage, head, cachedTail, item, sent, consumerVars>>

\* Wrong: the cursor loaded is not kept, and the decision is made on the old one.
ReclaimForgotten(t) ==
    /\ producer = "claiming"
    /\ Full(cachedTail)
    /\ UNCHANGED <<storage, head, cachedTail, producer, item, sent, consumerVars>>

\* tryClaim(), the cached cursor says full: load the consumer's, and give up if it is still full.
Reclaim(t) ==
    /\ producer = "claiming"
    /\ Full(cachedTail)
    /\ cachedTail' = t
    /\ producer' = IF Full(t) THEN "claiming" ELSE "claimed"
    /\ UNCHANGED <<storage, head, item, sent, consumerVars>>

Write ==
    /\ producer = "claimed"
    /\ storage' = [storage EXCEPT ![Slot(head)] = item]
    /\ producer' = "written"
    /\ UNCHANGED <<head, cachedTail, item, sent, consumerVars>>

Publish ==
    /\ producer = "written"
    /\ head' = head + 1
    /\ sent' = Append(sent, item)
    /\ producer' = "idle"
    /\ item' = NoValue
    /\ UNCHANGED <<storage, cachedTail, consumerVars>>
-----------------------------------------------------------------------------
\* tryPeek(), the cached cursor shows a value.
Peek ==
    /\ consumer = "idle"
    /\ tail # cachedHead
    /\ consumer' = "peeked"
    /\ UNCHANGED <<storage, tail, cachedHead, out, received, producerVars>>

\* Wrong: the cursor loaded is not kept.
RepeekForgotten(h) ==
    /\ consumer = "idle"
    /\ tail = cachedHead
    /\ UNCHANGED <<storage, tail, cachedHead, consumer, out, received, producerVars>>

\* tryPeek(), the cached cursor says empty: load the producer's.
Repeek(h) ==
    /\ consumer = "idle"
    /\ tail = cachedHead
    /\ cachedHead' = h
    /\ consumer' = IF tail = h THEN "idle" ELSE "peeked"
    /\ UNCHANGED <<storage, tail, out, received, producerVars>>

\* Wrong: the slot after the one at the cursor.
OldestAfter == storage[Slot(tail + 1)]
Oldest == storage[Slot(tail)]

Read ==
    /\ consumer = "peeked"
    /\ out' = Oldest
    /\ consumer' = "read"
    /\ UNCHANGED <<storage, tail, cachedHead, received, producerVars>>

Consume ==
    /\ consumer = "read"
    /\ tail' = tail + 1
    /\ received' = Append(received, out)
    /\ consumer' = "idle"
    /\ out' = NoValue
    /\ UNCHANGED <<storage, cachedHead, producerVars>>
-----------------------------------------------------------------------------
\* The other thread's latest store is seen.
ReclaimLatest == Reclaim(tail)
RepeekLatest == Repeek(head)

ProducerNext ==
    \/ Push
    \/ Claim
    \/ \E t \in cachedTail .. tail : Reclaim(t)
    \/ Write
    \/ Publish

ConsumerNext ==
    \/ Peek
    \/ \E h \in cachedHead .. head : Repeek(h)
    \/ Read
    \/ Consume

Next == ProducerNext \/ ConsumerNext

(***************************************************************************)
(* Both threads keep running, a load sees the latest store eventually, and *)
(* nobody has to push.                                                     *)
(***************************************************************************)
Fairness ==
    /\ WF_vars(Claim) /\ WF_vars(ReclaimLatest) /\ WF_vars(Write) /\ WF_vars(Publish)
    /\ WF_vars(Peek) /\ WF_vars(RepeekLatest) /\ WF_vars(Read) /\ WF_vars(Consume)

Spec == Init /\ [][Next]_vars

FairSpec == Spec /\ Fairness
-----------------------------------------------------------------------------
Owning == {"claimed", "written"}
Reading == {"peeked", "read"}

\* Every variable has the type of what it stands for; in particular no slot that was never
\* written is handed to the consumer.
TypeOK ==
    /\ storage \in [0 .. Capacity - 1 -> Values \cup {NoValue}]
    /\ head \in Nat /\ tail \in Nat
    /\ cachedTail \in Nat /\ cachedHead \in Nat
    /\ producer \in {"idle", "claiming"} \cup Owning
    /\ consumer \in {"idle"} \cup Reading
    /\ item \in Values \cup {NoValue}
    /\ producer # "idle" => item \in Values
    /\ out \in Values \cup {NoValue}
    /\ consumer = "read" => out \in Values
    /\ sent \in Seq(Values)
    /\ received \in Seq(Values)

\* A cached cursor never runs ahead of the real one, the consumer never passes the producer,
\* and the producer is never more than Capacity ahead of where the consumer was last seen.
CursorsOrdered ==
    /\ cachedTail <= tail /\ tail <= cachedHead /\ cachedHead <= head
    /\ head - cachedTail <= Capacity
    /\ producer \in Owning => head - cachedTail < Capacity
    /\ consumer \in Reading => tail < cachedHead
    /\ head = Len(sent) /\ tail = Len(received)

\* A published slot keeps its value until it is consumed.
ContentsIntact ==
    /\ \A i \in tail .. head - 1 : storage[Slot(i)] = sent[i + 1]
    /\ producer = "written" => storage[Slot(head)] = item
    /\ consumer = "read" => out = sent[tail + 1]
    /\ \A i \in 1 .. Len(received) : received[i] = sent[i]

\* The producer never owns the slot the consumer is reading: there is no data race on storage_,
\* which is what the ring's memory-ordering argument is about.
NoRace ==
    producer \in Owning /\ consumer \in Reading => Slot(head) # Slot(tail)

Ch == INSTANCE Channel

\* Whatever the two threads' interleaving and however stale their view of each other's cursor,
\* the ring is a bounded FIFO channel: each value published is consumed once, in order, intact.
RefinesChannel == Ch!ChSpec

\* A push that found the ring full is never stuck for good, and what was published is consumed.
PushCompletes == producer = "claiming" ~> producer = "idle"
AllDelivered == \A k \in 1 .. MaxSent : Len(sent) >= k ~> Len(received) >= k
=============================================================================

--------------------------- MODULE SpscRingProofs ---------------------------
(***************************************************************************)
(* For every Capacity and every set of values: the ring's two threads      *)
(* never touch the same slot at the same time, and the ring is a FIFO      *)
(* channel.                                                                *)
(*                                                                         *)
(* The inductive invariant is Inv.  Everything rests on the cursors being  *)
(* less than Capacity apart whenever two of them index storage, so that    *)
(* they index different slots (ModDistinct).                               *)
(***************************************************************************)
EXTENDS SpscRing, TLAPS

\* Two cursors less than one lap apart index different slots of the storage: what masking
\* a cursor with Capacity - 1 relies on.
LEMMA ModDistinct ==
    ASSUME NEW C \in Nat \ {0}, NEW i \in Nat, NEW j \in Nat, i < j, j < i + C
    PROVE  i % C # j % C
<1> SUFFICES ASSUME i % C = j % C PROVE FALSE
    OBVIOUS
<1> DEFINE a == i \div C  b == j \div C  r == i % C
<1>1. a \in Int /\ b \in Int /\ r \in 0 .. C - 1 /\ i = C * a + r /\ j = C * b + r
    BY SMT
<1> HIDE DEF a, b, r
<1>2. j - i = C * (b - a)
    BY <1>1, SMT
<1>3. CASE b - a >= 1
    BY <1>1, <1>2, <1>3, SMT
<1>4. CASE b - a <= 0
    BY <1>1, <1>2, <1>4, SMT
<1> QED BY <1>1, <1>3, <1>4, SMT

\* A cursor always indexes a slot of the storage.
LEMMA SlotInStorage ==
    ASSUME NEW i \in Nat
    PROVE  Slot(i) \in 0 .. Capacity - 1
BY CapacityAssumption, SMT DEF Slot

\* The inductive invariant.
Inv == TypeOK /\ CursorsOrdered /\ ContentsIntact

\* The empty ring satisfies the invariant.
LEMMA InitInv == Init => Inv
BY CapacityAssumption DEF Init, Inv, TypeOK, CursorsOrdered, ContentsIntact, Owning, Reading

\* The producer's steps that only move it along keep the invariant.
LEMMA ClaimingInv ==
    ASSUME Inv, Push \/ Claim \/ (\E t \in cachedTail .. tail : Reclaim(t))
    PROVE  Inv'
<1> USE DEF Inv, TypeOK, CursorsOrdered, ContentsIntact, Owning, Reading
<1>1. CASE Push
    BY <1>1 DEF Push, consumerVars
<1>2. CASE Claim
    BY <1>2, CapacityAssumption DEF Claim, Full, consumerVars
<1>3. CASE \E t \in cachedTail .. tail : Reclaim(t)
    BY <1>3, CapacityAssumption DEF Reclaim, Full, consumerVars
<1> QED BY <1>1, <1>2, <1>3

\* Writing the claimed slot disturbs no published slot: the claimed one is less than a lap ahead
\* of the oldest slot not yet consumed.
LEMMA WriteInv ==
    ASSUME Inv, Write
    PROVE  Inv'
<1> USE DEF Inv
<1>1. TypeOK'
    BY SlotInStorage DEF TypeOK, Write, consumerVars, Owning, Reading
<1>2. CursorsOrdered'
    BY DEF CursorsOrdered, TypeOK, Write, consumerVars, Owning, Reading
<1>3. storage'[Slot(head)] = item
    BY SlotInStorage DEF TypeOK, Write
<1>4. ASSUME NEW i \in tail .. head - 1
      PROVE  storage'[Slot(i)] = storage[Slot(i)]
    <2>1. i \in Nat /\ head \in Nat /\ i < head /\ head < i + Capacity
        BY CapacityAssumption DEF TypeOK, CursorsOrdered, Write, Owning
    <2>2. Slot(i) # Slot(head)
        BY <2>1, ModDistinct, CapacityAssumption, Zenon DEF Slot
    <2> QED BY <2>2 DEF Write, TypeOK
<1>5. ContentsIntact'
    BY <1>3, <1>4 DEF ContentsIntact, Write, consumerVars
<1> QED BY <1>1, <1>2, <1>5

\* Publishing turns the written slot into the newest value of the channel.
LEMMA PublishInv ==
    ASSUME Inv, Publish
    PROVE  Inv'
<1> USE DEF Inv
<1>0. item \in Values /\ sent \in Seq(Values) /\ head = Len(sent)
    BY DEF TypeOK, CursorsOrdered, Publish
<1>1. /\ sent' \in Seq(Values) /\ Len(sent') = Len(sent) + 1
      /\ \A k \in 1 .. Len(sent) : sent'[k] = sent[k]
      /\ sent'[head + 1] = item
    BY <1>0 DEF Publish
<1>2. TypeOK'
    BY <1>1 DEF TypeOK, Publish, consumerVars, Owning, Reading
<1>3. CursorsOrdered'
    BY <1>1, CapacityAssumption DEF CursorsOrdered, TypeOK, Publish, consumerVars, Owning, Reading
<1>4. \A i \in tail' .. head' - 1 : storage'[Slot(i)] = sent'[i + 1]
    <2> TAKE i \in tail' .. head' - 1
    <2>1. CASE i = head
        BY <2>1, <1>1 DEF ContentsIntact, Publish
    <2>2. CASE i # head
        <3>1. i \in tail .. head - 1 /\ i + 1 \in 1 .. Len(sent)
            BY <2>2 DEF Publish, consumerVars, TypeOK, CursorsOrdered
        <3> QED BY <3>1, <1>1 DEF ContentsIntact, Publish
    <2> QED BY <2>1, <2>2
<1>5. consumer' = "read" => out' = sent'[tail' + 1]
    BY <1>1 DEF ContentsIntact, CursorsOrdered, TypeOK, Publish, consumerVars, Reading
<1>6. \A i \in 1 .. Len(received') : received'[i] = sent'[i]
    BY <1>1 DEF ContentsIntact, CursorsOrdered, TypeOK, Publish, consumerVars
<1>7. ContentsIntact'
    BY <1>4, <1>5, <1>6, Zenon DEF ContentsIntact, Publish
<1> QED BY <1>2, <1>3, <1>7

\* The consumer's steps up to the read keep the invariant.
LEMMA PeekInv ==
    ASSUME Inv, Peek \/ (\E h \in cachedHead .. head : Repeek(h))
    PROVE  Inv'
<1> USE DEF Inv, TypeOK, CursorsOrdered, ContentsIntact, Owning, Reading
<1>1. CASE Peek
    BY <1>1 DEF Peek, producerVars
<1>2. CASE \E h \in cachedHead .. head : Repeek(h)
    <2> PICK h \in cachedHead .. head : Repeek(h)
        BY <1>2
    <2>1. TypeOK'
        BY DEF Repeek, producerVars
    <2>2. CursorsOrdered'
        <3>1. h \in Nat /\ tail <= h /\ h <= head
            BY DEF Repeek
        <3>2. consumer' \in Reading => tail # h
            BY DEF Repeek
        <3>3. UNCHANGED <<head, tail, cachedTail, producer, sent, received>> /\ cachedHead' = h
            BY DEF Repeek, producerVars
        <3> QED BY <3>1, <3>2, <3>3
    <2>3. ContentsIntact'
        BY Zenon DEF Repeek, producerVars
    <2> QED BY <2>1, <2>2, <2>3
<1> QED BY <1>1, <1>2

\* The value read is the oldest one not yet consumed.
LEMMA ReadInv ==
    ASSUME Inv, Read
    PROVE  Inv'
<1> USE DEF Inv
<1>1. tail \in tail .. head - 1 /\ tail \in Nat
    BY DEF TypeOK, CursorsOrdered, Read, Reading
<1>2. out' = sent[tail + 1] /\ out' = storage[Slot(tail)]
    BY <1>1 DEF ContentsIntact, Read, Oldest
<1>3. out' \in Values
    <2>1. tail + 1 \in 1 .. Len(sent) /\ sent \in Seq(Values)
        BY <1>1 DEF TypeOK, CursorsOrdered
    <2>2. sent[tail + 1] \in Values
        BY <2>1
    <2> QED BY <1>2, <2>2
<1>4. TypeOK'
    BY <1>3 DEF TypeOK, Read, Oldest, producerVars, Owning, Reading
<1>5. CursorsOrdered'
    BY DEF CursorsOrdered, Read, Oldest, producerVars, Owning, Reading
<1>6. ContentsIntact'
    BY <1>2 DEF ContentsIntact, Read, Oldest, producerVars
<1> QED BY <1>4, <1>5, <1>6

\* Consuming moves exactly that value to the receiver.
LEMMA ConsumeInv ==
    ASSUME Inv, Consume
    PROVE  Inv'
<1> USE DEF Inv
<1>0. received \in Seq(Values) /\ out \in Values
    BY DEF TypeOK, Consume
<1>1. /\ received' \in Seq(Values) /\ Len(received') = Len(received) + 1
      /\ \A k \in 1 .. Len(received) : received'[k] = received[k]
      /\ received'[Len(received) + 1] = out
    BY <1>0 DEF Consume
<1>2. TypeOK'
    BY <1>1 DEF TypeOK, Consume, producerVars, Owning, Reading
<1>3. CursorsOrdered'
    BY <1>1 DEF CursorsOrdered, TypeOK, Consume, producerVars, Owning, Reading
<1>4. ContentsIntact'
    BY <1>1 DEF ContentsIntact, CursorsOrdered, TypeOK, Consume, producerVars
<1> QED BY <1>2, <1>3, <1>4

\* Every step of either thread keeps the invariant.
LEMMA NextInv == Inv /\ [Next]_vars => Inv'
<1> SUFFICES ASSUME Inv, [Next]_vars PROVE Inv'
    OBVIOUS
<1>1. CASE ProducerNext
    BY <1>1, ClaimingInv, WriteInv, PublishInv DEF ProducerNext
<1>2. CASE ConsumerNext
    BY <1>2, PeekInv, ReadInv, ConsumeInv DEF ConsumerNext
<1>3. CASE UNCHANGED vars
    BY <1>3 DEF vars, Inv, TypeOK, CursorsOrdered, ContentsIntact, Owning, Reading
<1> QED BY <1>1, <1>2, <1>3 DEF Next

\* Cursors stay ordered and the contents between them intact, in every reachable state.
THEOREM Invariance == Spec => []Inv
BY InitInv, NextInv, PTL DEF Spec

\* The invariant leaves the two threads no slot in common.
LEMMA InvNoRace == Inv => NoRace
<1> SUFFICES ASSUME Inv, producer \in Owning, consumer \in Reading
             PROVE  Slot(head) # Slot(tail)
    BY DEF NoRace
<1>1. head \in Nat /\ tail \in Nat /\ tail < head /\ head < tail + Capacity
    BY CapacityAssumption DEF Inv, TypeOK, CursorsOrdered
<1> QED BY <1>1, ModDistinct, CapacityAssumption, Zenon DEF Slot

\* For every capacity, the producer never writes the slot the consumer is reading.
THEOREM NoDataRace == Spec => []NoRace
BY Invariance, InvNoRace, PTL

\* For every capacity and every set of values, the ring implements the FIFO channel.
THEOREM RingRefinesChannel == Spec => RefinesChannel
<1>1. Init => Ch!ChInit
    BY DEF Init, Ch!ChInit
<1>2. Inv /\ [Next]_vars => [Ch!ChNext]_(Ch!chVars)
    <2> SUFFICES ASSUME Inv, [Next]_vars PROVE [Ch!ChNext]_(Ch!chVars)
        OBVIOUS
    <2> USE DEF Inv, Ch!ChNext, Ch!chVars
    <2>1. CASE Publish
        <3>1. Len(sent) - Len(received) < Capacity /\ item \in Values
            BY <2>1, CapacityAssumption DEF TypeOK, CursorsOrdered, Publish, Owning
        <3> QED BY <2>1, <3>1 DEF Publish, consumerVars, Ch!Send
    <2>2. CASE Consume
        <3>1. Len(received) < Len(sent) /\ out = sent[Len(received) + 1]
            BY <2>2 DEF TypeOK, CursorsOrdered, ContentsIntact, Consume, Reading
        <3> QED BY <2>2, <3>1 DEF Consume, producerVars, Ch!Receive
    <2>3. CASE ~Publish /\ ~Consume
        BY <2>3 DEF Next, ProducerNext, ConsumerNext, vars, Push, Claim, Reclaim, Write,
            Peek, Repeek, Read, producerVars, consumerVars
    <2> QED BY <2>1, <2>2, <2>3
<1> QED BY <1>1, <1>2, Invariance, PTL DEF Spec, RefinesChannel, Ch!ChSpec
=============================================================================

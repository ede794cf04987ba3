------------------------ MODULE MulticastRingProofs ------------------------
(***************************************************************************)
(* For every set of consumers, every gating mask, every Capacity and every *)
(* event length: the producer never overwrites what a gating consumer has  *)
(* yet to read, and no consumer is handed a torn event: a gating one on    *)
(* any CPU, a checked one provided loads are not reordered.                *)
(*                                                                         *)
(* The inductive invariant is Inv.  Its core is StorageExact, which says   *)
(* what every slot holds while it is being rewritten word by word, and     *)
(* CheckedCopy, which says that a word read too late is always told by the *)
(* head: the cursor had then already passed the slot by a whole lap.       *)
(***************************************************************************)
EXTENDS MulticastRing, WellFoundedInduction, TLAPS

\* Two cursors less than one lap apart index different slots of the storage: what masking
\* a cursor with Capacity - 1 relies on.
LEMMA ModDistinct ==
    ASSUME NEW C \in Nat \ {0}, NEW i \in Nat, NEW j \in Nat, i < j, j < i + C
    PROVE  i % C # j % C
<1> SUFFICES ASSUME i % C = j % C PROVE FALSE
    OBVIOUS
<1> DEFINE a == i \div C  b == j \div C  r == i % C
<1>1. a \in Int /\ b \in Int /\ r \in 0 .. C - 1 /\ i = C * a + r /\ j = C * b + r
    BY SMT
<1> HIDE DEF a, b, r
<1>2. j - i = C * (b - a)
    BY <1>1, SMT
<1>3. CASE b - a >= 1
    BY <1>1, <1>2, <1>3, SMT
<1>4. CASE b - a <= 0
    BY <1>1, <1>2, <1>4, SMT
<1> QED BY <1>1, <1>3, <1>4, SMT

\* The relation < on the natural numbers, for the well-foundedness theorems.
NatLess == {p \in Nat \X Nat : p[1] < p[2]}

\* Min picks a least element of any nonempty set of naturals.
LEMMA MinExists ==
    ASSUME NEW T \in SUBSET Nat, T # {}
    PROVE  /\ Min(T) \in T
           /\ \A x \in T : Min(T) <= x
<1>1. OpToRel(<, Nat) = NatLess
    BY Zenon DEF OpToRel, NatLess
<1>2. IsWellFoundedOn(NatLess, Nat)
    BY <1>1, NatLessThanWellFounded, Zenon
<1>3. \E x \in T : \A y \in T : ~(<<y, x>> \in NatLess)
    BY <1>2, WFMin, Zenon
<1>4. \E x \in T : \A y \in T : x =< y
    <2>1. \A x, y \in Nat : y < x => <<y, x>> \in NatLess
        BY SMT DEF NatLess
    <2>2. \A x, y \in Nat : ~(y < x) => x =< y
        BY SMT
    <2>3. \A x \in T : x \in Nat
        OBVIOUS
    <2> QED BY <1>3, <2>1, <2>2, <2>3, Zenon
<1> QED BY <1>4, Zenon DEF Min

\* The types of the ring's cursors, slots and copies.
TypeOK ==
    /\ storage \in [0 .. Capacity - 1 -> [Words -> Int]]
    /\ head \in Nat /\ cachedMinTail \in Nat
    /\ tails \in [Consumers -> Nat] /\ cachedHead \in [Consumers -> Nat]
    /\ producer \in {"idle", "writing"} /\ unwritten \subseteq Words
    /\ state \in [Consumers -> {"idle", "found", "copying", "ok"}]
    /\ unread \in [Consumers -> SUBSET Words]
    /\ copy \in [Consumers -> [Words -> Int]]
    /\ head2 \in [Consumers -> Nat \cup {NoHead}]

\* The producer claims a slot only within one lap of the minimum it last saw.
ProducerOK ==
    /\ head - cachedMinTail <= Capacity
    /\ producer = "writing" => head - cachedMinTail < Capacity

\* The last Capacity events are in their slots, except for the words of the oldest that the
\* producer has overwritten; those hold the event being written.
StorageExact ==
    \A w \in Words :
        /\ \A k \in Nat :
            /\ k < head /\ head - k <= Capacity
            /\ head - k = Capacity => producer = "idle" \/ w \in unwritten
            => storage[Slot(k)][w] = k
        /\ producer = "writing" /\ w \notin unwritten => storage[Slot(head)][w] = head

\* A consumer's cursors, and the steps at which it may have loaded the head a second time.
ConsumerOK(c) ==
    /\ tails[c] <= cachedHead[c] /\ cachedHead[c] <= head
    /\ state[c] # "idle" => tails[c] < cachedHead[c]
    /\ state[c] # "copying" => head2[c] = NoHead
    /\ head2[c] # NoHead => head2[c] <= head
    /\ state[c] = "ok" => unread[c] = {}

\* tryPeek(): what a gating consumer has copied so far is the event at its cursor.
GatingCopy(c) ==
    /\ cachedMinTail <= tails[c]
    /\ state[c] # "found" /\ head2[c] = NoHead
    /\ state[c] \in {"copying", "ok"} => \A w \in Words \ unread[c] : copy[c][w] = tails[c]

\* tryPeekChecked(): a word that is not the event at the cursor was read when the head was a
\* lap ahead already, so that the head loaded after all the reads shows it.
CheckedCopy(c) ==
    /\ state[c] = "copying" =>
        \A w \in Words \ unread[c] : copy[c][w] = tails[c] \/ head - tails[c] >= Capacity
    /\ head2[c] # NoHead =>
        /\ unread[c] = {}
        /\ \A w \in Words : copy[c][w] = tails[c] \/ head2[c] - tails[c] >= Capacity
    /\ state[c] = "ok" => \A w \in Words : copy[c][w] = tails[c]

\* What holds of a consumer, by whether the producer waits for it.
ConsumerInv(c) ==
    /\ ConsumerOK(c)
    /\ c \in Gating => GatingCopy(c)
    /\ c \notin Gating /\ ~LoadsReorder => CheckedCopy(c)

\* The inductive invariant.
Inv == TypeOK /\ ProducerOK /\ StorageExact /\ \A c \in Consumers : ConsumerInv(c)
-----------------------------------------------------------------------------
\* A cursor always indexes a slot of the storage.
LEMMA SlotInStorage ==
    ASSUME NEW k \in Nat
    PROVE  Slot(k) \in 0 .. Capacity - 1
BY RingAssumption, SMT DEF Slot

\* The empty ring satisfies the invariant.
LEMMA InitInv == Init => Inv
<1> SUFFICES ASSUME Init PROVE Inv
    OBVIOUS
<1>1. TypeOK /\ ProducerOK /\ StorageExact
    BY RingAssumption DEF Init, TypeOK, ProducerOK, StorageExact, NoHead
<1>2. ASSUME NEW c \in Consumers PROVE ConsumerInv(c)
    BY DEF Init, ConsumerInv, ConsumerOK, GatingCopy, CheckedCopy
<1> QED BY <1>1, <1>2 DEF Inv

\* What a consumer knows survives every step of the producer: the head only grows, and a
\* reloaded minimum is still below every gating cursor.
LEMMA ProducerKeepsConsumers ==
    ASSUME Inv, UNCHANGED consumerVars, head' \in Nat, head <= head',
           cachedMinTail' \in Nat, \A c \in Gating : cachedMinTail' <= tails[c]
    PROVE  \A c \in Consumers : ConsumerInv(c)'
<1> SUFFICES ASSUME NEW c \in Consumers PROVE ConsumerInv(c)'
    OBVIOUS
<1>1. /\ TypeOK /\ ConsumerInv(c)
      /\ tails' = tails /\ cachedHead' = cachedHead /\ state' = state
      /\ unread' = unread /\ copy' = copy /\ head2' = head2
    BY DEF Inv, consumerVars
<1>2. /\ head \in Nat /\ tails[c] \in Nat /\ cachedHead[c] \in Nat
      /\ head2[c] \in Nat \cup {NoHead}
    BY <1>1 DEF TypeOK
<1>3. ConsumerOK(c)'
    BY <1>1, <1>2 DEF ConsumerInv, ConsumerOK, NoHead
<1>4. c \in Gating => GatingCopy(c)'
    BY <1>1, <1>2 DEF ConsumerInv, GatingCopy
<1>5. c \notin Gating /\ ~LoadsReorder => CheckedCopy(c)'
    BY <1>1, <1>2, RingAssumption DEF ConsumerInv, CheckedCopy
<1> QED BY <1>3, <1>4, <1>5 DEF ConsumerInv

\* publishOutbound() claims a slot when the cached minimum leaves room.
LEMMA ClaimInv ==
    ASSUME Inv, Claim
    PROVE  Inv'
<1>1. TypeOK'
    BY DEF Inv, TypeOK, Claim, consumerVars
<1>2. ProducerOK'
    BY RingAssumption DEF Inv, TypeOK, ProducerOK, Claim, Full
<1>3. StorageExact'
    BY DEF Inv, TypeOK, StorageExact, Claim, Publishing
<1>4. \A c \in Consumers : ConsumerInv(c)'
    <2>1. \A c \in Gating : cachedMinTail <= tails[c]
        BY RingAssumption DEF Inv, ConsumerInv, GatingCopy
    <2> QED BY <2>1, ProducerKeepsConsumers DEF Claim, Inv, TypeOK
<1> QED BY <1>1, <1>2, <1>3, <1>4 DEF Inv

\* No result of minConsumerCursor() is above a gating consumer's cursor.
LEMMA MinCursorBelow ==
    ASSUME Inv, NEW m \in MinConsumerCursors
    PROVE  m \in Nat /\ \A c \in Gating : m <= tails[c]
<1>1. TypeOK
    BY DEF Inv
<1>2. CASE Gating = {}
    BY <1>1, <1>2 DEF MinConsumerCursors, TypeOK
<1>3. CASE Gating # {}
    <2> DEFINE T == {tails[c] : c \in Gating}
    <2>1. T \in SUBSET Nat /\ T # {}
        BY <1>1, <1>3, RingAssumption DEF TypeOK
    <2>2. Min(T) \in T /\ \A x \in T : Min(T) <= x
        BY <2>1, MinExists, Zenon
    <2>3. m \in cachedMinTail .. Min(T)
        BY <1>3 DEF MinConsumerCursors, MinTail
    <2>4. Min(T) \in Nat
        BY <2>1, <2>2
    <2>5. m \in Nat /\ m <= Min(T)
        BY <1>1, <2>3, <2>4 DEF TypeOK
    <2>6. \A c \in Gating : tails[c] \in T /\ tails[c] \in Nat
        BY <1>1, RingAssumption DEF TypeOK
    <2> HIDE DEF T
    <2> QED BY <2>2, <2>4, <2>5, <2>6
<1> QED BY <1>2, <1>3

\* publishOutbound() reloads the consumers' cursors when the cached minimum says full.
LEMMA ReclaimInv ==
    ASSUME Inv, NEW m \in MinConsumerCursors, Reclaim(m)
    PROVE  Inv'
<1>1. m \in Nat /\ \A c \in Gating : m <= tails[c]
    BY MinCursorBelow
<1>2. cachedMinTail <= m
    <2>1. CASE Gating = {}
        BY <2>1, RingAssumption DEF Inv, TypeOK, MinConsumerCursors, Reclaim, Full
    <2>2. CASE Gating # {}
        <3>1. MinTail \in Nat
            <4>1. {tails[c] : c \in Gating} \in SUBSET Nat /\ {tails[c] : c \in Gating} # {}
                BY <2>2, RingAssumption DEF Inv, TypeOK
            <4> QED BY <4>1, MinExists DEF MinTail
        <3> QED BY <2>2, <3>1 DEF Inv, TypeOK, MinConsumerCursors
    <2> QED BY <2>1, <2>2
<1>3. TypeOK'
    BY <1>1 DEF Inv, TypeOK, Reclaim, consumerVars
<1>4. ProducerOK'
    BY <1>1, <1>2, RingAssumption DEF Inv, TypeOK, ProducerOK, Reclaim, Full, Publishing
<1>5. StorageExact'
    BY DEF Inv, TypeOK, StorageExact, Reclaim, Publishing
<1>6. \A c \in Consumers : ConsumerInv(c)'
    BY <1>1, ProducerKeepsConsumers DEF Reclaim, Inv, TypeOK
<1> QED BY <1>3, <1>4, <1>5, <1>6 DEF Inv

\* Writing a word of the claimed slot spoils only the event one lap back.
LEMMA WriteWordInv ==
    ASSUME Inv, NEW w \in Words, WriteWord(w)
    PROVE  Inv'
<1>0. TypeOK
    BY DEF Inv
<1>1. head \in Nat /\ Slot(head) \in 0 .. Capacity - 1 /\ storage[Slot(head)] \in [Words -> Int]
    BY <1>0, SlotInStorage DEF TypeOK
<1>2. TypeOK'
    BY <1>0, <1>1 DEF TypeOK, WriteWord, consumerVars
<1>3. ProducerOK'
    BY DEF Inv, ProducerOK, WriteWord
<1>4. ASSUME NEW k \in Nat, NEW v \in Words,
             v # w \/ Slot(k) # Slot(head)
      PROVE  storage'[Slot(k)][v] = storage[Slot(k)][v]
    BY <1>0, <1>1, <1>4, SlotInStorage DEF TypeOK, WriteWord
<1>5. storage'[Slot(head)][w] = head
    BY <1>0, <1>1 DEF TypeOK, WriteWord
<1>6. StorageExact'
    <2> SUFFICES ASSUME NEW v \in Words
                 PROVE  /\ \A k \in Nat :
                            /\ k < head /\ head - k <= Capacity
                            /\ head - k = Capacity => producer' = "idle" \/ v \in unwritten'
                            => storage'[Slot(k)][v] = k
                        /\ v \notin unwritten' => storage'[Slot(head)][v] = head
        BY DEF StorageExact, WriteWord
    <2>1. ASSUME NEW k \in Nat, k < head, head - k <= Capacity,
                 head - k = Capacity => producer' = "idle" \/ v \in unwritten'
          PROVE  storage'[Slot(k)][v] = k
        <3>1. storage[Slot(k)][v] = k
            BY <2>1 DEF Inv, StorageExact, WriteWord
        <3>2. CASE head - k = Capacity
            <4>1. v # w
                BY <2>1, <3>2 DEF WriteWord
            <4> QED BY <1>4, <3>1, <4>1
        <3>3. CASE head - k # Capacity
            <4>1. head < k + Capacity
                BY <1>1, <2>1, <3>3, RingAssumption
            <4>2. Slot(k) # Slot(head)
                BY <1>1, <2>1, <4>1, ModDistinct, RingAssumption, Zenon DEF Slot
            <4> QED BY <1>4, <3>1, <4>2
        <3> QED BY <3>2, <3>3
    <2>2. ASSUME v \notin unwritten'
          PROVE  storage'[Slot(head)][v] = head
        <3>1. CASE v = w
            BY <1>5, <3>1
        <3>2. CASE v # w
            <4>1. producer = "writing" /\ v \notin unwritten
                BY <2>2, <3>2 DEF WriteWord
            <4>2. storage[Slot(head)][v] = head
                BY <4>1 DEF Inv, StorageExact
            <4> QED BY <1>1, <1>4, <3>2, <4>2
        <3> QED BY <3>1, <3>2
    <2> QED BY <2>1, <2>2
<1>7. \A c \in Consumers : ConsumerInv(c)'
    <2>1. \A c \in Gating : cachedMinTail <= tails[c]
        BY RingAssumption DEF Inv, ConsumerInv, GatingCopy
    <2> QED BY <2>1, <1>0, ProducerKeepsConsumers DEF WriteWord, TypeOK
<1> QED BY <1>2, <1>3, <1>6, <1>7 DEF Inv

\* Publishing makes the written event the newest of the last Capacity.
LEMMA PublishInv ==
    ASSUME Inv, Publish
    PROVE  Inv'
<1>0. TypeOK
    BY DEF Inv
<1>1. TypeOK'
    BY <1>0 DEF TypeOK, Publish, consumerVars
<1>2. ProducerOK'
    BY <1>0, RingAssumption DEF Inv, TypeOK, ProducerOK, Publish
<1>3. StorageExact'
    <2> SUFFICES ASSUME NEW v \in Words, NEW k \in Nat, k < head + 1, head + 1 - k <= Capacity
                 PROVE  storage[Slot(k)][v] = k
        BY <1>0 DEF StorageExact, Publish, TypeOK
    <2>1. CASE k = head
        BY <2>1 DEF Inv, StorageExact, Publish
    <2>2. CASE k # head
        <3>1. k < head /\ head - k <= Capacity /\ head - k # Capacity
            BY <1>0, <2>2, RingAssumption DEF TypeOK
        <3> QED BY <3>1 DEF Inv, StorageExact
    <2> QED BY <2>1, <2>2
<1>4. \A c \in Consumers : ConsumerInv(c)'
    <2>1. \A c \in Gating : cachedMinTail <= tails[c]
        BY RingAssumption DEF Inv, ConsumerInv, GatingCopy
    <2> QED BY <2>1, <1>0, ProducerKeepsConsumers DEF Publish, TypeOK
<1> QED BY <1>1, <1>2, <1>3, <1>4 DEF Inv
-----------------------------------------------------------------------------
\* A consumer's step leaves the producer and the other consumers alone.
LEMMA ConsumerFrame ==
    ASSUME Inv, NEW c \in Consumers, UNCHANGED producerVars, TypeOK', ConsumerInv(c)',
           \A d \in Consumers \ {c} :
               /\ tails'[d] = tails[d] /\ cachedHead'[d] = cachedHead[d] /\ state'[d] = state[d]
               /\ unread'[d] = unread[d] /\ copy'[d] = copy[d] /\ head2'[d] = head2[d]
    PROVE  Inv'
<1>1. ProducerOK' /\ StorageExact'
    BY DEF Inv, ProducerOK, StorageExact, producerVars
<1>2. ASSUME NEW d \in Consumers \ {c} PROVE ConsumerInv(d)'
    <2>1. ConsumerInv(d) /\ head' = head /\ cachedMinTail' = cachedMinTail
        BY DEF Inv, producerVars
    <2> QED BY <2>1 DEF ConsumerInv, ConsumerOK, GatingCopy, CheckedCopy
<1> QED BY <1>1, <1>2 DEF Inv

\* Both peeks, up to the slot to copy.
LEMMA PeekInv ==
    ASSUME Inv, NEW c \in Consumers, Peek(c)
    PROVE  Inv'
<1>0. TypeOK /\ ConsumerInv(c)
    BY DEF Inv
<1>1. Reload(c) \in Nat /\ tails[c] <= Reload(c) /\ Reload(c) <= head
    BY <1>0 DEF TypeOK, ConsumerInv, ConsumerOK, Reload
<1>2. TypeOK'
    BY <1>0, <1>1, Zenon DEF TypeOK, Peek, producerVars
<1>3. ConsumerInv(c)'
    <2>1. /\ tails'[c] = tails[c] /\ head' = head /\ cachedMinTail' = cachedMinTail
          /\ cachedHead'[c] = Reload(c) /\ copy'[c] = copy[c] /\ head2'[c] = head2[c]
          /\ state[c] = "idle" /\ tails[c] \in Nat /\ head2[c] = NoHead
        BY <1>0 DEF Peek, TypeOK, producerVars, ConsumerInv, ConsumerOK
    <2>2. CASE tails[c] = Reload(c)
        <3>1. state'[c] = "idle" /\ unread'[c] = unread[c]
            BY <2>1, <2>2 DEF Peek
        <3> QED BY <1>0, <1>1, <2>1, <3>1 DEF ConsumerInv, ConsumerOK, GatingCopy, CheckedCopy
    <2>3. CASE tails[c] # Reload(c)
        <3>1. tails[c] < Reload(c)
            BY <1>1, <2>1, <2>3
        <3>2. /\ c \in Gating => state'[c] = "copying" /\ unread'[c] = Words
              /\ c \notin Gating => state'[c] = "found" /\ unread'[c] = unread[c]
            BY <1>0, <2>3 DEF Peek, TypeOK
        <3> QED BY <1>0, <1>1, <2>1, <3>1, <3>2
                DEF ConsumerInv, ConsumerOK, GatingCopy, CheckedCopy
    <2> QED BY <2>2, <2>3
<1> QED BY <1>0, <1>2, <1>3, ConsumerFrame, Zenon DEF Peek, TypeOK

\* lapse() leaves a checked consumer level with a head it has loaded.
LEMMA LapseInv ==
    ASSUME Inv, NEW c \in Consumers \ Gating, NEW h \in Nat, h <= head,
           Lapse(c, h), UNCHANGED producerVars
    PROVE  Inv'
<1>0. TypeOK
    BY DEF Inv
<1>1. TypeOK'
    BY <1>0 DEF TypeOK, Lapse, producerVars
<1>2. /\ tails'[c] = h /\ cachedHead'[c] = h /\ state'[c] = "idle"
      /\ head2'[c] = NoHead /\ head' = head
    BY <1>0 DEF TypeOK, Lapse, producerVars
<1>3. ConsumerInv(c)'
    BY <1>2 DEF ConsumerInv, ConsumerOK, CheckedCopy
<1> QED BY <1>0, <1>1, <1>3, ConsumerFrame, Zenon DEF Lapse, TypeOK

\* tryPeekChecked(), the first check.
LEMMA CheckBeforeInv ==
    ASSUME Inv, NEW c \in Consumers, CheckBefore(c)
    PROVE  Inv'
<1>0. TypeOK /\ ConsumerInv(c) /\ c \notin Gating
    BY DEF Inv, ConsumerInv, GatingCopy, CheckBefore
<1>1. CASE Lapped(c, head)
    BY <1>0, <1>1, LapseInv DEF CheckBefore, TypeOK
<1>2. CASE ~Lapped(c, head)
    <2>1. TypeOK'
        BY <1>0, <1>2, ZenonT(30) DEF TypeOK, CheckBefore, producerVars
    <2>2. /\ tails'[c] = tails[c] /\ cachedHead'[c] = cachedHead[c] /\ head' = head
          /\ state[c] = "found" /\ state'[c] = "copying" /\ unread'[c] = Words
          /\ copy'[c] = copy[c] /\ head2'[c] = head2[c]
        BY <1>0, <1>2 DEF TypeOK, CheckBefore, producerVars
    <2>3. ConsumerInv(c)'
        BY <1>0, <2>2 DEF ConsumerInv, ConsumerOK, CheckedCopy
    <2> QED BY <1>0, <1>2, <2>1, <2>3, ConsumerFrame, Zenon DEF CheckBefore, TypeOK
<1> QED BY <1>1, <1>2

\* A word that is read while the head is within a lap is a word of the event at the cursor.
LEMMA WordIntact ==
    ASSUME Inv, NEW c \in Consumers, NEW w \in Words, state[c] = "copying",
           head - tails[c] <= Capacity, head - tails[c] = Capacity => producer = "idle"
    PROVE  storage[Slot(tails[c])][w] = tails[c]
<1>1. tails[c] \in Nat /\ tails[c] < head
    BY DEF Inv, TypeOK, ConsumerInv, ConsumerOK
<1> QED BY <1>1 DEF Inv, StorageExact

\* Copying one word, by a gating consumer or by one the producer may be lapping.
LEMMA ReadWordInv ==
    ASSUME Inv, NEW c \in Consumers, NEW w \in Words, ReadWord(c, w)
    PROVE  Inv'
<1>0. TypeOK /\ ConsumerInv(c) /\ ProducerOK
    BY DEF Inv
<1>1. tails[c] \in Nat /\ head \in Nat /\ cachedMinTail \in Nat /\ Capacity \in Nat
    BY <1>0, RingAssumption DEF TypeOK
<1>2. TypeOK'
    <2> DEFINE i == Slot(tails[c])
    <2>0. i \in 0 .. Capacity - 1
        BY <1>1, SlotInStorage
    <2> HIDE DEF i
    <2>1. storage[i][w] \in Int
        BY <1>0, <2>0, ZenonT(30) DEF TypeOK
    <2>2. copy' \in [Consumers -> [Words -> Int]]
        BY <1>0, <2>1 DEF TypeOK, ReadWord, i
    <2> QED BY <1>0, <2>2 DEF TypeOK, ReadWord, producerVars
<1>3. /\ tails'[c] = tails[c] /\ cachedHead'[c] = cachedHead[c] /\ head' = head
      /\ cachedMinTail' = cachedMinTail /\ head2'[c] = head2[c]
      /\ state[c] = "copying" /\ state'[c] = "copying"
      /\ w \in unread[c] /\ unread'[c] = unread[c] \ {w}
      /\ copy'[c][w] = storage[Slot(tails[c])][w]
      /\ \A v \in Words : v # w => copy'[c][v] = copy[c][v]
    BY <1>0 DEF TypeOK, ReadWord, producerVars
<1>4. ConsumerOK(c)'
    BY <1>0, <1>3 DEF ConsumerInv, ConsumerOK
<1>5. ASSUME c \in Gating PROVE GatingCopy(c)'
    <2>1. GatingCopy(c)
        BY <1>0, <1>5 DEF ConsumerInv
    <2>2. head - tails[c] <= Capacity /\ (head - tails[c] = Capacity => producer = "idle")
        BY <1>0, <1>1, <2>1 DEF ProducerOK, GatingCopy, TypeOK
    <2>3. copy'[c][w] = tails[c]
        BY <1>3, <2>2, WordIntact
    <2> QED BY <1>3, <2>1, <2>3 DEF GatingCopy
<1>6. ASSUME c \notin Gating, ~LoadsReorder PROVE CheckedCopy(c)'
    <2>1. CheckedCopy(c)
        BY <1>0, <1>6 DEF ConsumerInv
    <2>2. head - tails[c] >= Capacity \/ copy'[c][w] = tails[c]
        <3>1. CASE head - tails[c] < Capacity
            <4>1. head - tails[c] <= Capacity /\ head - tails[c] # Capacity
                BY <1>1, <3>1
            <4> QED BY <1>3, <4>1, WordIntact
        <3> QED BY <1>1, <3>1
    <2>3. head2[c] = NoHead
        BY <1>3, <2>1 DEF CheckedCopy
    <2> QED BY <1>3, <2>1, <2>2, <2>3 DEF CheckedCopy
<1>7. ConsumerInv(c)'
    BY <1>4, <1>5, <1>6 DEF ConsumerInv
<1> QED BY <1>0, <1>2, <1>7, ConsumerFrame, Zenon DEF ReadWord, TypeOK

\* tryPeekChecked(), the second load of the head: all the reads are before it unless the CPU
\* may reorder loads.
LEMMA LoadHead2Inv ==
    ASSUME Inv, NEW c \in Consumers, LoadHead2(c)
    PROVE  Inv'
<1>0. TypeOK /\ ConsumerInv(c)
    BY DEF Inv
<1>1. TypeOK'
    BY <1>0 DEF TypeOK, LoadHead2, producerVars
<1>2. /\ tails'[c] = tails[c] /\ cachedHead'[c] = cachedHead[c] /\ head' = head
      /\ state[c] = "copying" /\ state'[c] = "copying" /\ unread'[c] = unread[c]
      /\ copy'[c] = copy[c] /\ head2'[c] = head /\ c \notin Gating
      /\ ~LoadsReorder => unread[c] = {}
    BY <1>0, RingAssumption DEF TypeOK, LoadHead2, producerVars
<1>3. head \in Nat
    BY <1>0 DEF TypeOK
<1>4. ConsumerInv(c)'
    BY <1>0, <1>2, <1>3 DEF ConsumerInv, ConsumerOK, CheckedCopy
<1> QED BY <1>0, <1>1, <1>4, ConsumerFrame, Zenon DEF LoadHead2, TypeOK

\* tryPeekChecked(), the second check: a copy that passes it is whole.
LEMMA CheckAfterInv ==
    ASSUME Inv, NEW c \in Consumers, CheckAfter(c)
    PROVE  Inv'
<1>0. TypeOK /\ ConsumerInv(c) /\ c \notin Gating
    BY DEF Inv, ConsumerInv, GatingCopy, CheckAfter
<1>1. head2[c] \in Nat /\ head2[c] <= head /\ tails[c] \in Nat /\ Capacity \in Nat
    BY <1>0, RingAssumption DEF TypeOK, ConsumerInv, ConsumerOK, CheckAfter
<1>2. CASE Lapped(c, head2[c])
    BY <1>0, <1>1, <1>2, LapseInv DEF CheckAfter
<1>3. CASE ~Lapped(c, head2[c])
    <2>1. TypeOK'
        BY <1>0, <1>3, Zenon DEF TypeOK, CheckAfter, producerVars
    <2>2. /\ tails'[c] = tails[c] /\ cachedHead'[c] = cachedHead[c] /\ head' = head
          /\ state[c] = "copying" /\ state'[c] = "ok" /\ unread'[c] = unread[c]
          /\ unread[c] = {} /\ copy'[c] = copy[c] /\ head2'[c] = NoHead
        BY <1>0, <1>3 DEF TypeOK, CheckAfter, producerVars
    <2>3. ~(head2[c] - tails[c] >= Capacity)
        BY <1>3 DEF Lapped
    <2>4. ConsumerOK(c)'
        BY <1>0, <2>2 DEF ConsumerInv, ConsumerOK
    <2>5. ~LoadsReorder => CheckedCopy(c)'
        BY <1>0, <2>2, <2>3 DEF ConsumerInv, CheckedCopy, CheckAfter
    <2>6. ConsumerInv(c)'
        BY <1>0, <2>4, <2>5 DEF ConsumerInv
    <2> QED BY <1>0, <1>3, <2>1, <2>6, ConsumerFrame, Zenon DEF CheckAfter, TypeOK
<1> QED BY <1>2, <1>3

\* tryPeek() returns the slot.
LEMMA ReadDoneInv ==
    ASSUME Inv, NEW c \in Consumers, ReadDone(c)
    PROVE  Inv'
<1>0. TypeOK /\ ConsumerInv(c)
    BY DEF Inv
<1>1. TypeOK'
    BY <1>0 DEF TypeOK, ReadDone, producerVars
<1>2. /\ tails'[c] = tails[c] /\ cachedHead'[c] = cachedHead[c] /\ head' = head
      /\ cachedMinTail' = cachedMinTail /\ c \in Gating
      /\ state[c] = "copying" /\ state'[c] = "ok" /\ unread'[c] = unread[c]
      /\ unread[c] = {} /\ copy'[c] = copy[c] /\ head2'[c] = head2[c]
    BY <1>0 DEF TypeOK, ReadDone, producerVars
<1>3. ConsumerInv(c)'
    BY <1>0, <1>2 DEF ConsumerInv, ConsumerOK, GatingCopy
<1> QED BY <1>0, <1>1, <1>3, ConsumerFrame, Zenon DEF ReadDone, TypeOK

\* consume() moves past the event just handled.
LEMMA ConsumeInv ==
    ASSUME Inv, NEW c \in Consumers, Consume(c)
    PROVE  Inv'
<1>0. TypeOK /\ ConsumerInv(c)
    BY DEF Inv
<1>1. TypeOK'
    BY <1>0 DEF TypeOK, Consume, producerVars
<1>2. /\ tails'[c] = tails[c] + 1 /\ cachedHead'[c] = cachedHead[c] /\ head' = head
      /\ cachedMinTail' = cachedMinTail /\ state[c] = "ok" /\ state'[c] = "idle"
      /\ unread'[c] = unread[c] /\ head2'[c] = head2[c]
    BY <1>0 DEF TypeOK, Consume, producerVars
<1>3. tails[c] \in Nat /\ cachedHead[c] \in Nat /\ cachedMinTail \in Nat
    BY <1>0 DEF TypeOK
<1>4. ConsumerInv(c)'
    BY <1>0, <1>2, <1>3 DEF ConsumerInv, ConsumerOK, GatingCopy, CheckedCopy
<1> QED BY <1>0, <1>1, <1>4, ConsumerFrame, Zenon DEF Consume, TypeOK
-----------------------------------------------------------------------------
\* Every step of the producer and of the consumers preserves the invariant.
LEMMA NextInv == Inv /\ [Next]_vars => Inv'
<1> SUFFICES ASSUME Inv, [Next]_vars PROVE Inv'
    OBVIOUS
<1>1. CASE ProducerNext
    BY <1>1, ClaimInv, ReclaimInv, WriteWordInv, PublishInv DEF ProducerNext
<1>2. ASSUME NEW c \in Consumers, ConsumerNext(c) PROVE Inv'
    BY <1>2, PeekInv, CheckBeforeInv, ReadWordInv, LoadHead2Inv, CheckAfterInv, ReadDoneInv,
       ConsumeInv DEF ConsumerNext
<1>3. CASE UNCHANGED vars
    <2>1. /\ storage' = storage /\ head' = head /\ tails' = tails
          /\ cachedMinTail' = cachedMinTail /\ cachedHead' = cachedHead
          /\ producer' = producer /\ unwritten' = unwritten /\ state' = state
          /\ unread' = unread /\ copy' = copy /\ head2' = head2
        BY <1>3 DEF vars
    <2>2. TypeOK' /\ ProducerOK' /\ StorageExact'
        BY <2>1 DEF Inv, TypeOK, ProducerOK, StorageExact
    <2>3. ASSUME NEW c \in Consumers PROVE ConsumerInv(c)'
        BY <2>1 DEF Inv, ConsumerInv, ConsumerOK, GatingCopy, CheckedCopy
    <2> QED BY <2>2, <2>3 DEF Inv
<1> QED BY <1>1, <1>2, <1>3 DEF Next

\* Inv is an invariant of the ring.
LEMMA Invariance == Spec => []Inv
<1> QED BY InitInv, NextInv, PTL DEF Spec

\* The producer never writes the slot a gating consumer has yet to read, for every capacity and
\* every gating mask and however stale the cached minimum is (publishOutbound()'s back-pressure).
THEOREM GatingNeverLappedHolds == Spec => []GatingNeverLapped
<1>1. Inv => GatingNeverLapped
    <2> SUFFICES ASSUME Inv, NEW c \in Gating
                 PROVE  /\ cachedMinTail <= tails[c] /\ tails[c] <= cachedHead[c]
                        /\ cachedHead[c] <= head /\ head - tails[c] <= Capacity
                        /\ producer = "writing" => head - tails[c] < Capacity
        BY DEF GatingNeverLapped
    <2>1. TypeOK /\ ProducerOK /\ ConsumerOK(c) /\ GatingCopy(c) /\ c \in Consumers
        BY RingAssumption DEF Inv, ConsumerInv
    <2>2. tails[c] \in Nat /\ head \in Nat /\ cachedMinTail \in Nat /\ Capacity \in Nat
        BY <2>1, RingAssumption DEF TypeOK
    <2> QED BY <2>1, <2>2 DEF ProducerOK, ConsumerOK, GatingCopy
<1> QED BY <1>1, Invariance, PTL

\* What a gating consumer is handed is the event at its cursor, whole, on any CPU.
GatingReadsWhole ==
    \A c \in Gating : state[c] = "ok" => \A w \in Words : copy[c][w] = tails[c]

\* tryPeek() needs no validation: the producer waits for gating consumers, so their copies are
\* whole whether or not the CPU reorders loads.
THEOREM GatingReadsWholeHolds == Spec => []GatingReadsWhole
<1>1. Inv => GatingReadsWhole
    BY RingAssumption DEF Inv, ConsumerInv, ConsumerOK, GatingCopy, GatingReadsWhole
<1> QED BY <1>1, Invariance, PTL

\* tryPeekChecked() never hands out a torn event where loads are not reordered: the two checks
\* of the head catch every copy the producer may have been rewriting, for every capacity, event
\* length and number of lapped consumers.
THEOREM NoTornReadHolds == ~LoadsReorder => (Spec => []NoTornRead)
<1> SUFFICES ASSUME ~LoadsReorder PROVE Spec => []NoTornRead
    OBVIOUS
<1>1. Inv => NoTornRead
    BY DEF Inv, ConsumerInv, ConsumerOK, GatingCopy, CheckedCopy, NoTornRead
<1> QED BY <1>1, Invariance, PTL
=============================================================================

-------------------------- MODULE OrderBookProofs ---------------------------
(***************************************************************************)
(* The book keeps its indexes in agreement and its queues in arrival       *)
(* order, and with prices on the tick grid its best prices are real, it    *)
(* never crosses and no fill is beyond a limit: through every sequence of  *)
(* submit, cancel, replace, snapshot and restore, for every price band,    *)
(* tick, pool size, self-trade policy and orders.                          *)
(*                                                                         *)
(* OrderBookLemmas has the lemmas for the calls. Here are what is needed   *)
(* of sums over sets; the lemmas for the restore after a restart, the step *)
(* lemma NextInv and its theorems; the price layer PriceInv, once more     *)
(* action by action; and the order in which the walk over the levels meets *)
(* the resting orders.                                                     *)
(***************************************************************************)
EXTENDS OrderBookLemmas, FiniteSetTheorems
-----------------------------------------------------------------------------
(***************************************************************************)
(* Sums.  SumFunctionOnSet(w, S) adds up w[x] over the finite set S by     *)
(* recursion on the subsets of S.  What is needed of it: an element can be *)
(* taken out of a sum, whichever element the recursion would take first.   *)
(* Induction over a set is a look at a smallest bad subset.                *)
(***************************************************************************)
\* A property that some subset of a finite set lacks is lacked by a smallest one.
LEMMA SmallestBad ==
    ASSUME NEW S, IsFiniteSet(S), NEW B \in SUBSET (SUBSET S), B # {}
    PROVE  \E s \in B : \A t \in SUBSET s : t # s => t \notin B
<1> DEFINE C == {Cardinality(s) : s \in B}
<1>1. \A s \in B : IsFiniteSet(s) /\ Cardinality(s) \in Nat
    BY FS_Subset, FS_CardinalityType
<1>2. C \in SUBSET Nat /\ C # {}
    BY <1>1
<1>3. Min(C) \in C /\ \A c \in C : Min(C) <= c
    BY <1>2, MinExists, Zenon
<1>4. PICK s \in B : Cardinality(s) = Min(C)
    BY <1>3, Zenon
<1>5. ASSUME NEW t \in SUBSET s, t # s, t \in B PROVE FALSE
    <2>1. Cardinality(t) <= Cardinality(s) /\ Cardinality(t) # Cardinality(s)
        BY <1>1, <1>5, FS_Subset
    <2>2. Min(C) <= Cardinality(t)
        BY <1>3, <1>5
    <2>3. Cardinality(s) \in Nat /\ Cardinality(t) \in Nat
        BY <1>1, <1>5
    <2> HIDE DEF C
    <2> QED BY <1>4, <2>1, <2>2, <2>3
<1> QED BY <1>5

\* The element the recursion takes out of s.
First(s) == CHOOSE x \in s : TRUE

\* g is the function the recursion of SumFunctionOnSet(w, S) defines.
Solves(g, w, S) ==
    g = [s \in SUBSET S |-> IF s = {} THEN 0 ELSE w[First(s)] + g[s \ {First(s)}]]

\* The recursion takes out an element of the set.
LEMMA FirstIn ==
    ASSUME NEW s, s # {}
    PROVE  First(s) \in s
BY Zenon DEF First

\* One step of the recursion.
LEMMA SolvesAt ==
    ASSUME NEW g, NEW w, NEW S, Solves(g, w, S), NEW s \in SUBSET S
    PROVE  g[s] = IF s = {} THEN 0 ELSE w[First(s)] + g[s \ {First(s)}]
BY DEF Solves

\* Two of these functions agree where they are both defined.
LEMMA SolvesAgree ==
    ASSUME NEW S, IsFiniteSet(S), NEW T \in SUBSET S, NEW w,
           NEW g, Solves(g, w, S), NEW h, Solves(h, w, T)
    PROVE  g[T] = h[T]
<1> DEFINE B == {s \in SUBSET T : g[s] # h[s]}
<1> SUFFICES ASSUME B # {} PROVE FALSE
    <2>1. T \in SUBSET T
        OBVIOUS
    <2> QED BY <2>1
<1>1. B \in SUBSET (SUBSET S)
    OBVIOUS
<1>2. PICK s \in B : \A t \in SUBSET s : t # s => t \notin B
    <2> HIDE DEF B
    <2> QED BY <1>1, SmallestBad, Zenon
<1>3. s \in SUBSET T /\ s \in SUBSET S /\ g[s] # h[s]
    OBVIOUS
<1>4. /\ g[s] = IF s = {} THEN 0 ELSE w[First(s)] + g[s \ {First(s)}]
      /\ h[s] = IF s = {} THEN 0 ELSE w[First(s)] + h[s \ {First(s)}]
    BY <1>3, Zenon DEF Solves
<1>5. s # {}
    BY <1>3, <1>4
<1> DEFINE t == s \ {First(s)}
<1>6. First(s) \in s
    BY <1>5, FirstIn
<1>7. t \in SUBSET s /\ t # s /\ t \in SUBSET T
    BY <1>3, <1>6
<1>8. g[t] = h[t]
    BY <1>2, <1>7
<1> HIDE DEF t
<1> QED BY <1>3, <1>4, <1>5, <1>8 DEF t

\* The sum is the value of any of these functions.
LEMMA SumIs ==
    ASSUME NEW S, IsFiniteSet(S), NEW w, NEW g, Solves(g, w, S)
    PROVE  SumFunctionOnSet(w, S) = g[S]
<1> DEFINE iter == CHOOSE h : Solves(h, w, S)
<1>1. Solves(iter, w, S)
    BY Zenon
<1>2. SumFunctionOnSet(w, S) = iter[S]
    BY DEF SumFunctionOnSet, FoldFunctionOnSet, MapThenFoldSet, Solves, First
<1> HIDE DEF iter
<1>3. iter[S] = g[S]
    BY <1>1, SolvesAgree
<1> QED BY <1>2, <1>3

\* There is one, for every finite set.
LEMMA SolutionExists ==
    ASSUME NEW S, IsFiniteSet(S), NEW w
    PROVE  \E g : Solves(g, w, S)
<1> DEFINE B == {s \in SUBSET S : ~\E g : Solves(g, w, s)}
<1> SUFFICES ASSUME B # {} PROVE FALSE
    <2>1. S \in SUBSET S
        OBVIOUS
    <2> QED BY <2>1
<1>1. PICK s \in B : \A t \in SUBSET s : t # s => t \notin B
    <2>1. B \in SUBSET (SUBSET S)
        OBVIOUS
    <2> HIDE DEF B
    <2> QED BY <2>1, SmallestBad
<1>2. s \in SUBSET S /\ ~\E g : Solves(g, w, s)
    OBVIOUS
<1>3. \A t \in SUBSET s : IsFiniteSet(t)
    BY <1>2, FS_Subset
<1>4. ASSUME NEW t \in SUBSET s, t # s PROVE \E g : Solves(g, w, t)
    BY <1>1, <1>2, <1>4
<1> HIDE DEF B
<1> DEFINE V(t) == SumFunctionOnSet(w, t)
           h == [t \in SUBSET s |-> IF t = {} THEN 0 ELSE w[First(t)] + V(t \ {First(t)})]
<1>5. ASSUME NEW u \in SUBSET s, u # s PROVE V(u) = h[u]
    <2>1. PICK g : Solves(g, w, u)
        BY <1>4, <1>5
    <2>2. V(u) = g[u]
        BY <1>3, <2>1, SumIs, Zenon
    <2>3. g[u] = IF u = {} THEN 0 ELSE w[First(u)] + g[u \ {First(u)}]
        BY <2>1, SolvesAt
    <2>4. CASE u = {}
        BY <2>2, <2>3, <2>4
    <2>5. CASE u # {}
        <3> DEFINE r == u \ {First(u)}
        <3>1. r \in SUBSET u /\ r \in SUBSET s /\ r # s
            <4>1. First(u) \in u
                BY <2>5, FirstIn, Zenon
            <4> QED BY <1>5, <4>1
        <3>2. PICK k : Solves(k, w, r)
            BY <1>4, <3>1
        <3>3. V(r) = k[r]
            BY <1>3, <3>1, <3>2, SumIs, Zenon
        <3>4. g[r] = k[r]
            <4>1. IsFiniteSet(u)
                BY <1>3
            <4> HIDE DEF r
            <4>2. r \in SUBSET u
                BY <3>1
            <4> QED BY <2>1, <3>2, <4>1, <4>2, SolvesAgree
        <3> HIDE DEF V
        <3> QED BY <2>2, <2>3, <2>5, <3>3, <3>4
    <2> QED BY <2>4, <2>5
<1>6. ASSUME NEW t \in SUBSET s, t # {} PROVE V(t \ {First(t)}) = h[t \ {First(t)}]
    <2>1. First(t) \in t
        BY <1>6, FirstIn
    <2>2. t \ {First(t)} \in SUBSET s /\ t \ {First(t)} # s
        BY <2>1
    <2> HIDE DEF V, h
    <2> QED BY <1>5, <2>2
<1>7. h = [t \in SUBSET s |-> IF t = {} THEN 0 ELSE w[First(t)] + h[t \ {First(t)}]]
    BY <1>6, Zenon
<1>8. Solves(h, w, s)
    BY <1>7, Zenon DEF Solves
<1> QED BY <1>2, <1>8, Zenon

\* Nothing adds up to zero.
LEMMA SumEmpty ==
    ASSUME NEW w
    PROVE  SumFunctionOnSet(w, {}) = 0
<1>1. IsFiniteSet({})
    BY FS_EmptySet
<1>2. PICK g : Solves(g, w, {})
    BY <1>1, SolutionExists
<1>3. g[{}] = 0
    BY <1>2 DEF Solves
<1> QED BY <1>1, <1>2, <1>3, SumIs

\* A sum depends only on the values it adds.
LEMMA SumSame ==
    ASSUME NEW S, IsFiniteSet(S), NEW w, NEW v, \A x \in S : w[x] = v[x]
    PROVE  SumFunctionOnSet(w, S) = SumFunctionOnSet(v, S)
<1>1. PICK g : Solves(g, w, S)
    BY SolutionExists
<1>2. \A s \in SUBSET S : s # {} => w[First(s)] = v[First(s)]
    BY FirstIn
<1>3. Solves(g, v, S)
    BY <1>1, <1>2, Zenon DEF Solves
<1> QED BY <1>1, <1>3, SumIs

\* A part of a sum is the value of the same function.
LEMMA SumPart ==
    ASSUME NEW S, IsFiniteSet(S), NEW w, NEW g, Solves(g, w, S), NEW T \in SUBSET S
    PROVE  g[T] = SumFunctionOnSet(w, T)
<1>1. IsFiniteSet(T)
    BY FS_Subset
<1>2. PICK h : Solves(h, w, T)
    BY <1>1, SolutionExists
<1>3. g[T] = h[T]
    BY <1>2, SolvesAgree
<1> QED BY <1>1, <1>2, <1>3, SumIs

\* A sum is its First element and the sum of the others.
LEMMA SumFirst ==
    ASSUME NEW S, IsFiniteSet(S), S # {}, NEW w
    PROVE  SumFunctionOnSet(w, S) = w[First(S)] + SumFunctionOnSet(w, S \ {First(S)})
<1>1. PICK g : Solves(g, w, S)
    BY SolutionExists
<1>2. S \in SUBSET S /\ S \ {First(S)} \in SUBSET S
    OBVIOUS
<1>3. g[S] = w[First(S)] + g[S \ {First(S)}]
    BY <1>1, <1>2, Zenon DEF Solves
<1>4. g[S] = SumFunctionOnSet(w, S)
    BY <1>1, SumIs
<1>5. g[S \ {First(S)}] = SumFunctionOnSet(w, S \ {First(S)})
    BY <1>1, <1>2, SumPart
<1> QED BY <1>3, <1>4, <1>5

\* The sum of integers is one, of naturals a natural.
LEMMA SumType ==
    ASSUME NEW S, IsFiniteSet(S), NEW w, \A x \in S : w[x] \in Int
    PROVE  /\ SumFunctionOnSet(w, S) \in Int
           /\ (\A x \in S : w[x] >= 0) => SumFunctionOnSet(w, S) >= 0
<1> DEFINE V(s) == SumFunctionOnSet(w, s)
           Good(s) == V(s) \in Int /\ ((\A x \in S : w[x] >= 0) => V(s) >= 0)
           B == {s \in SUBSET S : ~Good(s)}
<1> SUFFICES ASSUME B # {} PROVE FALSE
    <2>1. S \in SUBSET S
        OBVIOUS
    <2> QED BY <2>1
<1>1. B \in SUBSET (SUBSET S)
    OBVIOUS
<1>2. PICK s \in B : \A t \in SUBSET s : t # s => t \notin B
    <2> HIDE DEF B
    <2> QED BY <1>1, SmallestBad, Zenon
<1>3. s \in SUBSET S /\ ~Good(s)
    BY <1>2
<1>4. s # {}
    BY <1>3, SumEmpty
<1> DEFINE x == First(s)
           t == s \ {x}
<1>5. x \in s /\ t \in SUBSET s /\ t # s
    BY <1>4, FirstIn
<1>6. Good(t)
    BY <1>2, <1>3, <1>5
<1>7. V(s) = w[x] + V(t)
    BY <1>3, <1>4, FS_Subset, SumFirst, Zenon
<1>8. w[x] \in Int /\ ((\A y \in S : w[y] >= 0) => w[x] >= 0)
    BY <1>3, <1>5
<1> HIDE DEF V, t, x
<1> QED BY <1>3, <1>6, <1>7, <1>8

\* Any element may be taken out of a sum.
LEMMA SumTakeOut ==
    ASSUME NEW S, IsFiniteSet(S), NEW w, \A x \in S : w[x] \in Int, NEW e \in S
    PROVE  SumFunctionOnSet(w, S) = w[e] + SumFunctionOnSet(w, S \ {e})
<1> DEFINE V(s) == SumFunctionOnSet(w, s)
           Good(s) == \A x \in s : V(s) = w[x] + V(s \ {x})
           B == {s \in SUBSET S : ~Good(s)}
<1> SUFFICES ASSUME B # {} PROVE FALSE
    <2>1. S \in SUBSET S
        OBVIOUS
    <2> QED BY <2>1
<1>1. B \in SUBSET (SUBSET S)
    OBVIOUS
<1>2. PICK s \in B : \A t \in SUBSET s : t # s => t \notin B
    <2> HIDE DEF B
    <2> QED BY <1>1, SmallestBad, Zenon
<1>3. s \in SUBSET S
    BY <1>2
<1>4. PICK x \in s : V(s) # w[x] + V(s \ {x})
    BY <1>2, Zenon
<1> DEFINE y == First(s)
           a == s \ {x}
           b == s \ {y}
           c == (s \ {x}) \ {y}
<1>5. y \in s
    BY <1>4, FirstIn
<1>6. V(s) = w[y] + V(b)
    BY <1>3, <1>4, FS_Subset, SumFirst, Zenon
<1>7. x # y
    BY <1>4, <1>6, Zenon
<1>8. Good(a) /\ Good(b)
    <2>1. a \in SUBSET s /\ a # s /\ b \in SUBSET s /\ b # s
        BY <1>4, <1>5
    <2> QED BY <1>2, <1>3, <2>1
<1>9. V(a) = w[y] + V(c) /\ V(b) = w[x] + V(c)
    <2>1. y \in a /\ x \in b /\ b \ {x} = c
        BY <1>4, <1>5, <1>7
    <2> HIDE DEF V, y
    <2> QED BY <1>8, <2>1
<1>10. w[x] \in Int /\ w[y] \in Int
    BY <1>3, <1>4, <1>5
<1>11. V(c) \in Int
    <2>1. c \in SUBSET S
        BY <1>3
    <2>2. IsFiniteSet(c) /\ \A z \in c : w[z] \in Int
        BY <2>1, FS_Subset
    <2> HIDE DEF c
    <2> QED BY <2>2, SumType
<1> HIDE DEF V, y, a, b, c
<1> QED BY <1>4, <1>6, <1>9, <1>10, <1>11 DEF a

\* A new element adds its value to a sum.
LEMMA SumPutIn ==
    ASSUME NEW S, IsFiniteSet(S), NEW w, NEW e, e \notin S, \A x \in S \cup {e} : w[x] \in Int
    PROVE  SumFunctionOnSet(w, S \cup {e}) = SumFunctionOnSet(w, S) + w[e]
<1> DEFINE T == S \cup {e}
<1>1. IsFiniteSet(T) /\ e \in T /\ T \ {e} = S
    BY FS_AddElement
<1>2. SumFunctionOnSet(w, S) \in Int
    BY SumType
<1>3. SumFunctionOnSet(w, T) = w[e] + SumFunctionOnSet(w, S)
    <2>1. \A x \in T : w[x] \in Int
        OBVIOUS
    <2> HIDE DEF T
    <2>2. SumFunctionOnSet(w, T) = w[e] + SumFunctionOnSet(w, T \ {e})
        BY <1>1, <2>1, SumTakeOut
    <2> QED BY <1>1, <2>2, Zenon
<1>4. w[e] \in Int
    OBVIOUS
<1> HIDE DEF T
<1>5. SumFunctionOnSet(w, T) = SumFunctionOnSet(w, S) + w[e]
    BY <1>1, <1>2, <1>3, <1>4
<1> QED BY <1>5 DEF T

\* When the value of one element changes, the sum changes by as much.
LEMMA SumChange ==
    ASSUME NEW S, IsFiniteSet(S), NEW w, NEW v, NEW e \in S,
           \A x \in S : w[x] \in Int /\ v[x] \in Int, \A x \in S : x # e => v[x] = w[x]
    PROVE  SumFunctionOnSet(v, S) = SumFunctionOnSet(w, S) - w[e] + v[e]
<1> DEFINE T == S \ {e}
<1>1. IsFiniteSet(T) /\ \A x \in T : w[x] \in Int /\ v[x] = w[x]
    BY FS_Subset
<1>2. SumFunctionOnSet(w, S) = w[e] + SumFunctionOnSet(w, T)
    BY SumTakeOut
<1>3. SumFunctionOnSet(v, S) = v[e] + SumFunctionOnSet(v, T)
    BY SumTakeOut
<1> HIDE DEF T
<1>4. SumFunctionOnSet(w, T) \in Int
    BY <1>1, SumType
<1>5. SumFunctionOnSet(v, T) = SumFunctionOnSet(w, T)
    BY <1>1, SumSame
<1> QED BY <1>2, <1>3, <1>4, <1>5
-----------------------------------------------------------------------------
(***************************************************************************)
(* The restore after a restart, and the theorems about the indexes.        *)
(***************************************************************************)
\* What TodoExact says of one level.
LEMMA TodoExactAt ==
    ASSUME TodoExact, NEW s \in Sides, NEW i \in Slots
    PROVE  /\ IsInjective(todo.queue[s][i])
           /\ \A n \in Range(todo.queue[s][i]) :
                 /\ todo.pool[n] # NoOrder
                 /\ todo.pool[n].side = s /\ Index(todo.pool[n].price) = i
                 /\ todo.pool[n].seq <= todo.bookSeq
                 /\ idMap[todo.pool[n].id] = Null
           /\ \A j, k \in DOMAIN todo.queue[s][i] :
                 j < k => todo.pool[todo.queue[s][i][j]].seq < todo.pool[todo.queue[s][i][k]].seq
           /\ \A n \in Range(queue[s][i]), m \in Range(todo.queue[s][i]) :
                 pool[n].seq < todo.pool[m].seq
BY Zenon DEF TodoExact, TodoExactIn

\* A restart from a snapshot: the fresh book satisfies the invariant, and what the snapshot walk
\* collected (snapshot_writer.hpp:43-65) fits it.
LEMMA RestartInv ==
    ASSUME IInv, Restart, UNCHANGED stp
    PROVE  IInv'
<1>1. BookInv /\ CallTypeOK /\ SeqBound /\ pc = "idle"
    BY IInvParts DEF Restart
<1>2. EmptyBook'
    BY DEF Restart, EmptyBook, EmptySentinel, Nodes, Slots, NumSlots
<1>3. BookInv' /\ LiveNodes' = {} /\ Len(free') = MaxOrders
    BY <1>2, EmptyBookInvPrime DEF NewBook
<1>4. /\ pc' = "restore" /\ seq' = 0 /\ nextTradeId' = 0 /\ UNCHANGED callVars
      /\ todo' = [pool |-> pool,
                  queue |-> [s \in Sides |-> [i \in Slots |-> Collected(s, i)]],
                  bookSeq |-> seq, nextTradeId |-> nextTradeId]
      /\ idMap' = [id \in OrderIds |-> Null]
      /\ queue' = [s \in Sides |-> [i \in Slots |-> <<>>]]
    BY DEF Restart
<1>5. \A s \in Sides, i \in Slots : Collected(s, i) \in {queue[s][i], <<>>}
    BY DEF Collected
<1>6. \A s \in Sides, i \in Slots : Collected(s, i) \in Seq(Nodes)
    <2>1. <<>> \in Seq(Nodes)
        BY EmptyIs
    <2>2. \A s \in Sides, i \in Slots : queue[s][i] \in Seq(Nodes)
        BY <1>1 DEF BookInv, BookTypeOK
    <2>3. ASSUME NEW s \in Sides, NEW i \in Slots PROVE Collected(s, i) \in Seq(Nodes)
        <3>1. Collected(s, i) = queue[s][i] \/ Collected(s, i) = <<>>
            BY <1>5
        <3> QED BY <2>1, <2>2, <3>1, Zenon
    <2> QED BY <2>3
<1>7. /\ todo'.pool = pool /\ todo'.bookSeq = seq
      /\ \A s \in Sides, i \in Slots : todo'.queue[s][i] = Collected(s, i)
    BY <1>4
<1>8. CallTypeOK'
    <2>1. todo' \in [pool : [Nodes -> Orders \cup {NoOrder}],
                     queue : [Sides -> [Slots -> Seq(Nodes)]],
                     bookSeq : Nat, nextTradeId : Nat]
        BY <1>1, <1>4, <1>6, Zenon DEF BookInv, BookTypeOK, CallTypeOK
    <2> QED BY <1>1, <1>4, <2>1 DEF CallTypeOK, callVars, Restart
<1>9. SeqBound' /\ CallInv'
    BY <1>3, <1>4 DEF SeqBound, CallInv
<1>10. TodoExact'
    <2>1. ASSUME NEW s \in Sides, NEW i \in Slots
          PROVE  /\ IsInjective(todo'.queue[s][i])
                 /\ \A n \in Range(todo'.queue[s][i]) :
                     /\ todo'.pool[n] # NoOrder
                     /\ todo'.pool[n].side = s /\ Index(todo'.pool[n].price) = i
                     /\ todo'.pool[n].seq <= todo'.bookSeq
                     /\ idMap'[todo'.pool[n].id] = Null
                 /\ \A j, k \in DOMAIN todo'.queue[s][i] :
                     j < k => todo'.pool[todo'.queue[s][i][j]].seq
                                < todo'.pool[todo'.queue[s][i][k]].seq
                 /\ \A n \in Range(queue'[s][i]), m \in Range(todo'.queue[s][i]) :
                     pool'[n].seq < todo'.pool[m].seq
        <3>1. queue'[s][i] = <<>>
            BY <1>4
        <3>2. Range(<<>>) = {} /\ IsInjective(<<>>) /\ DOMAIN <<>> = {}
            BY DEF Range, IsInjective
        <3>3. CASE Collected(s, i) = <<>>
            BY <1>7, <3>1, <3>2, <3>3, Zenon
        <3>4. CASE Collected(s, i) = queue[s][i]
            <4>1. todo'.queue[s][i] = queue[s][i]
                BY <1>7, <3>4
            <4>2. /\ IsInjective(queue[s][i])
                  /\ \A n \in Range(queue[s][i]) :
                        /\ n \in Nodes /\ pool[n] # NoOrder /\ n \in LiveNodes
                        /\ pool[n].side = s /\ Index(pool[n].price) = i
                BY <1>1, QueuedAt, Zenon
            <4>3. \A n \in Range(queue[s][i]) :
                     pool[n].seq <= seq /\ idMap'[pool[n].id] = Null
                BY <1>1, <1>4, <4>2, LiveNode, Zenon DEF SeqBound
            <4>4. \A j, k \in DOMAIN queue[s][i] :
                     j < k => pool[queue[s][i][j]].seq < pool[queue[s][i][k]].seq
                BY <1>1, Zenon DEF BookInv, QueueOrder
            <4> QED BY <1>7, <3>1, <3>2, <4>1, <4>2, <4>3, <4>4, Zenon
        <3> QED BY <1>5, <3>3, <3>4, ZenonT(60)
    <2>2. ASSUME NEW m \in Nodes, NEW n \in Nodes, todo'.pool[m] # NoOrder,
                 todo'.pool[n] # NoOrder, todo'.pool[m].id = todo'.pool[n].id
          PROVE  m = n
        <3>1. m \in LiveNodes /\ n \in LiveNodes /\ pool[m].id = pool[n].id
            BY <1>7, <2>2 DEF LiveNodes
        <3> QED BY <1>1, <3>1, LiveNode
    <2> QED BY <2>1, <2>2, Zenon DEF TodoExact, TodoExactIn, Index
<1>11. TodoFits'
    <2>1. IsFiniteSet(Nodes) /\ Cardinality(Nodes) = MaxOrders
        <3>1. IsFiniteSet(1 .. MaxOrders)
              /\ Cardinality(1 .. MaxOrders) = IF 1 > MaxOrders THEN 0 ELSE MaxOrders - 1 + 1
            BY ConfigAssumption, FS_Interval
        <3> QED BY <3>1, ConfigAssumption DEF Nodes
    <2>2. TodoNodes' \subseteq Nodes
        BY DEF TodoNodes, Nodes
    <2>3. IsFiniteSet(TodoNodes') /\ Cardinality(TodoNodes') <= MaxOrders
        BY <2>1, <2>2, FS_Subset
    <2> QED BY <1>3, <2>3 DEF TodoFits
<1> QED BY <1>3, <1>8, <1>9, <1>10, <1>11, IInvPartsPrime DEF TodoInv

\* restoreCounters (order_book.cpp:369-372), after the last order, preserves the invariant.
LEMMA RestoreCountersInv ==
    ASSUME IInv, RestoreCounters, UNCHANGED stp
    PROVE  IInv'
<1>1. BookInv /\ CallTypeOK /\ SeqBound
    BY IInvParts
<1>2. BookInv' /\ LiveNodes' = LiveNodes
    BY <1>1, BookStutter DEF RestoreCounters
<1>3. CallTypeOK'
    <2>1. /\ todo' \in [pool : [Nodes -> Orders \cup {NoOrder}],
                        queue : [Sides -> [Slots -> Seq(Nodes)]],
                        bookSeq : Nat, nextTradeId : Nat]
          /\ todo.bookSeq \in Nat /\ todo.nextTradeId \in Nat
        BY <1>1, NoSnapshotType DEF RestoreCounters, CallTypeOK
    <2> QED BY <1>1, <2>1 DEF CallTypeOK, RestoreCounters, callVars
<1>4. SeqBound'
    BY <1>1, <1>2 DEF SeqBound, RestoreCounters, bookVars
<1>5. CallInv' /\ TodoInv'
    BY DEF CallInv, TodoInv, RestoreCounters
<1> QED BY <1>2, <1>3, <1>4, <1>5, IInvPartsPrime

\* The next order of the work list is well typed, its id is unknown to the book and a node is free.
LEMMA TodoFacts ==
    ASSUME IInv, pc = "restore", ~TodoEmpty
    PROVE  /\ TodoSide \in Sides /\ TodoSlot \in Slots
           /\ todo.queue[TodoSide][TodoSlot] \in Seq(Nodes)
           /\ todo.queue[TodoSide][TodoSlot] # <<>>
           /\ Head(todo.queue[TodoSide][TodoSlot]) \in Nodes
           /\ TodoOrder \in Orders
           /\ TodoOrder.side = TodoSide /\ Index(TodoOrder.price) = TodoSlot
           /\ TodoOrder.seq \in Nat /\ TodoOrder.seq <= todo.bookSeq
           /\ idMap[TodoOrder.id] = Null
           /\ free # <<>>
<1>1. BookInv /\ CallTypeOK /\ TodoExact /\ TodoFits
    BY IInvParts DEF TodoInv
<1>2. /\ todo.queue \in [Sides -> [Slots -> Seq(Nodes)]]
      /\ todo.pool \in [Nodes -> Orders \cup {NoOrder}]
    BY <1>1 DEF CallTypeOK
<1>3. TodoSide \in Sides /\ TodoSlots(TodoSide) # {}
    BY DEF TodoSide, TodoEmpty, Sides
<1>4. TodoSlots(TodoSide) \in SUBSET Slots
    BY DEF TodoSlots
<1>5. NumSlots - 1 \in Nat /\ Slots = 0 .. (NumSlots - 1)
    BY ConfigAssumption, DivFacts DEF NumSlots, Slots
<1>6. TodoSlot \in TodoSlots(TodoSide)
    <2>1. Max(TodoSlots(TodoSide)) \in TodoSlots(TodoSide)
        BY <1>3, <1>4, <1>5, MaxExists, ZenonT(60)
    <2>2. TodoSlots(TodoSide) \in SUBSET Nat
        BY <1>4, <1>5
    <2>3. Min(TodoSlots(TodoSide)) \in TodoSlots(TodoSide)
        BY <1>3, <2>2, MinExists
    <2>4. TodoSide = "Buy" \/ TodoSide = "Sell"
        BY DEF TodoSide
    <2> QED BY <2>1, <2>3, <2>4 DEF TodoSlot
<1>7. /\ TodoSlot \in Slots /\ todo.queue[TodoSide][TodoSlot] # <<>>
      /\ todo.queue[TodoSide][TodoSlot] \in Seq(Nodes)
    BY <1>2, <1>3, <1>6 DEF TodoSlots
<1> DEFINE m == Head(todo.queue[TodoSide][TodoSlot])
<1>8. m \in Range(todo.queue[TodoSide][TodoSlot]) /\ m \in Nodes
    BY <1>7, TailFacts
<1>9. /\ todo.pool[m] # NoOrder /\ todo.pool[m].side = TodoSide
      /\ Index(todo.pool[m].price) = TodoSlot
      /\ todo.pool[m].seq <= todo.bookSeq /\ idMap[todo.pool[m].id] = Null
    <2>1. \A n \in Range(todo.queue[TodoSide][TodoSlot]) :
             /\ todo.pool[n] # NoOrder
             /\ todo.pool[n].side = TodoSide /\ Index(todo.pool[n].price) = TodoSlot
             /\ todo.pool[n].seq <= todo.bookSeq
             /\ idMap[todo.pool[n].id] = Null
        BY <1>1, <1>3, <1>7, TodoExactAt, Zenon
    <2> HIDE DEF m
    <2> QED BY <1>8, <2>1, Zenon
<1>10. todo.pool[m] \in Orders
    BY <1>2, <1>8, <1>9, ZenonT(30)
<1>11. todo.pool[m].seq \in Nat
    BY <1>10, ZenonT(60) DEF Orders
<1>12. free # <<>>
    <2>1. m \in TodoNodes
        BY <1>3, <1>7, <1>8, SMTT(60) DEF TodoNodes
    <2>2. Cardinality(TodoNodes) \in Nat /\ Cardinality(TodoNodes) # 0
        BY <1>1, <2>1, FS_CardinalityType, FS_EmptySet DEF TodoFits
    <2>3. Len(free) # 0
        BY <1>1, <2>2, SeqFacts DEF TodoFits, BookInv, BookTypeOK
    <2> QED BY <2>3
<1> QED BY <1>3, <1>7, <1>8, <1>9, <1>10, <1>11, <1>12, ZenonT(60) DEF TodoOrder

\* restoreResting (order_book.cpp:339-367) preserves the invariant.
LEMMA RestoreRestingInv ==
    ASSUME IInv, RestoreResting, UNCHANGED stp
    PROVE  IInv'
<1> DEFINE s0 == TodoSide
           i0 == TodoSlot
           q == todo.queue[s0][i0]
           m0 == Head(q)
           n0 == Head(free)
           o == TodoOrder
<1>1. BookInv /\ CallTypeOK /\ SeqBound /\ TodoExact /\ TodoFits /\ pc = "restore" /\ ~TodoEmpty
    BY IInvParts DEF TodoInv, RestoreResting
<1>2. /\ s0 \in Sides /\ i0 \in Slots /\ q \in Seq(Nodes) /\ q # <<>> /\ m0 \in Nodes
      /\ o \in Orders /\ o = todo.pool[m0] /\ o # NoOrder /\ o.side = s0 /\ Index(o.price) = i0
      /\ o.seq \in Nat /\ o.seq <= todo.bookSeq /\ idMap[o.id] = Null /\ free # <<>>
    BY <1>1, TodoFacts, ArrivalsAssumption, ZenonT(60) DEF TodoOrder
<1>3. /\ EnterBook(o)
      /\ todo' = [todo EXCEPT !.queue[s0][i0] = Tail(@)]
      /\ UNCHANGED <<counters, pc, callVars>>
    BY DEF RestoreResting
<1>4. IsInjective(q)
    BY <1>1, <1>2, ZenonT(60) DEF TodoExact, TodoExactIn
<1>5. /\ m0 \in Range(q) /\ Tail(q) \in Seq(Nodes) /\ IsInjective(Tail(q))
      /\ Range(Tail(q)) = Range(q) \ {m0}
      /\ \A k \in DOMAIN Tail(q) : k + 1 \in DOMAIN q /\ Tail(q)[k] = q[k + 1]
      /\ 1 \in DOMAIN q /\ m0 = q[1]
    <2> HIDE DEF q
    <2> QED BY <1>2, <1>4, TailFacts, Zenon
<1>6. /\ todo'.pool = todo.pool /\ todo'.bookSeq = todo.bookSeq
      /\ todo'.nextTradeId = todo.nextTradeId
      /\ todo'.queue = [todo.queue EXCEPT ![s0][i0] = Tail(@)]
    <2>1. todo \in [pool : [Nodes -> Orders \cup {NoOrder}], queue : [Sides -> [Slots -> Seq(Nodes)]],
                    bookSeq : Nat, nextTradeId : Nat]
        BY <1>1, Zenon DEF CallTypeOK
    <2>2. todo' = [todo EXCEPT !.queue[s0][i0] = Tail(@)]
        BY <1>3, Zenon
    <2> HIDE DEF s0, i0, q, m0, n0, o
    <2> QED BY ONLY <2>1, <2>2, SMT
<1>7. \A t \in Sides, l \in Slots :
         todo'.queue[t][l] = IF t = s0 /\ l = i0 THEN Tail(q) ELSE todo.queue[t][l]
    <2>1. todo.queue \in [Sides -> [Slots -> Seq(Nodes)]]
        BY <1>1 DEF CallTypeOK
    <2>2. todo'.queue = [todo.queue EXCEPT ![s0][i0] = Tail(q)]
        BY <1>6
    <2> HIDE DEF q, s0, i0
    <2> QED BY ONLY <1>2, <2>1, <2>2, SMTT(60)
<1>8. /\ BookInv' /\ n0 \in Nodes /\ pool[n0] = NoOrder
      /\ pool' = [pool EXCEPT ![n0] = o] /\ idMap' = [idMap EXCEPT ![o.id] = n0]
      /\ free' = Tail(free)
      /\ \A t \in Sides, l \in Slots :
            Range(queue'[t][l]) = IF t = s0 /\ l = i0 THEN Range(queue[t][l]) \cup {n0}
                                  ELSE Range(queue[t][l])
    <2>1. \A s \in Sides, i \in Slots :
             \A n \in Range(queue[s][i]), m \in Range(todo.queue[s][i]) :
                pool[n].seq < todo.pool[m].seq
        BY <1>1, Zenon DEF TodoExact, TodoExactIn
    <2>2. m0 \in Range(todo.queue[s0][i0])
        BY <1>5, Zenon
    <2> HIDE DEF o, m0, q, s0, i0
    <2>3. \A m \in Range(queue[o.side][Index(o.price)]) : pool[m].seq < o.seq
        BY <1>2, <2>1, <2>2, SMTT(60)
    <2>4. /\ BookInv' /\ n0 \in Nodes /\ pool[n0] = NoOrder
          /\ pool' = [pool EXCEPT ![n0] = o] /\ idMap' = [idMap EXCEPT ![o.id] = n0]
          /\ free' = Tail(free)
          /\ \A t \in Sides, l \in Slots :
                Range(queue'[t][l]) = IF t = o.side /\ l = Index(o.price)
                                      THEN Range(queue[t][l]) \cup {n0}
                                      ELSE Range(queue[t][l])
        BY <1>1, <1>2, <1>3, <2>3, EnterBookInv, ZenonT(60)
    <2> QED BY <1>2, <2>4, ZenonT(60)
<1>9. CallTypeOK'
    <2>1. todo'.queue \in [Sides -> [Slots -> Seq(Nodes)]]
        <3>1. todo.queue \in [Sides -> [Slots -> Seq(Nodes)]]
            BY <1>1 DEF CallTypeOK
        <3>2. todo'.queue = [todo.queue EXCEPT ![s0][i0] = Tail(q)]
            BY <1>2, <1>6, <3>1, ZenonT(60)
        <3> HIDE DEF q, s0, i0
        <3> QED BY <1>2, <1>5, <3>1, <3>2, SMTT(60)
    <2>2. todo' \in [pool : [Nodes -> Orders \cup {NoOrder}],
                     queue : [Sides -> [Slots -> Seq(Nodes)]],
                     bookSeq : Nat, nextTradeId : Nat]
        BY <1>1, <1>3, <1>6, <2>1, ZenonT(60) DEF CallTypeOK
    <2> QED BY <1>1, <1>3, <2>2, ZenonT(60) DEF CallTypeOK, counters, callVars
<1> HIDE DEF q, m0, n0, o, s0, i0
<1>10. \A m \in Nodes : pool'[m] = IF m = n0 THEN o ELSE pool[m]
    BY <1>1, <1>8, SMTT(60) DEF BookInv, BookTypeOK
<1>11. SeqBound'
    <2>1. \A m \in LiveNodes' : m = n0 \/ m \in LiveNodes
        BY <1>10, SMTT(60) DEF LiveNodes
    <2>2. \A m \in LiveNodes : m \in Nodes /\ pool[m].seq <= todo.bookSeq
        BY <1>1, SMTT(60) DEF SeqBound, LiveNodes
    <2>3. \A m \in LiveNodes' : pool'[m].seq <= todo'.bookSeq
        BY <1>2, <1>6, <1>8, <1>10, <2>1, <2>2, SMTT(60)
    <2> QED BY <1>1, <1>3, <2>3, SMTT(60) DEF SeqBound
<1>12. CallInv'
    BY <1>1, <1>3, SMTT(60) DEF CallInv
<1>13. \A t \in Sides, l \in Slots : \A n \in Range(todo'.queue[t][l]) :
          /\ n \in Range(todo.queue[t][l]) /\ n # m0 /\ n \in Nodes
          /\ todo.pool[n] # NoOrder
    <2> SUFFICES ASSUME NEW t \in Sides, NEW l \in Slots, NEW n \in Range(todo'.queue[t][l])
                 PROVE  /\ n \in Range(todo.queue[t][l]) /\ n # m0 /\ n \in Nodes
                        /\ todo.pool[n] # NoOrder
        BY SMTT(60)
    <2>1. n \in Range(todo.queue[t][l]) /\ (t = s0 /\ l = i0 => n # m0)
        BY <1>5, <1>7, SMTT(60) DEF q
    <2>2. Range(todo.queue[t][l]) \subseteq Nodes
        BY <1>1, SeqFacts, SMTT(60) DEF CallTypeOK
    <2>3. todo.pool[n] # NoOrder /\ todo.pool[n].side = t /\ Index(todo.pool[n].price) = l
        <3>1. \A x \in Range(todo.queue[t][l]) :
                 /\ todo.pool[x] # NoOrder /\ todo.pool[x].side = t
                 /\ Index(todo.pool[x].price) = l
            BY <1>1, TodoExactAt, ZenonT(30)
        <3> QED BY <2>1, <3>1, Zenon
    <2> QED BY <1>2, <2>1, <2>2, <2>3, Zenon
<1>14. TodoExact'
    <2>1. ASSUME NEW t \in Sides, NEW l \in Slots
          PROVE  /\ IsInjective(todo'.queue[t][l])
                 /\ \A n \in Range(todo'.queue[t][l]) :
                     /\ todo'.pool[n] # NoOrder
                     /\ todo'.pool[n].side = t /\ Index(todo'.pool[n].price) = l
                     /\ todo'.pool[n].seq <= todo'.bookSeq
                     /\ idMap'[todo'.pool[n].id] = Null
                 /\ \A j, k \in DOMAIN todo'.queue[t][l] :
                     j < k => todo'.pool[todo'.queue[t][l][j]].seq
                                < todo'.pool[todo'.queue[t][l][k]].seq
                 /\ \A n \in Range(queue'[t][l]), m \in Range(todo'.queue[t][l]) :
                     pool'[n].seq < todo'.pool[m].seq
        <3>1. /\ IsInjective(todo.queue[t][l])
              /\ \A n \in Range(todo.queue[t][l]) :
                     /\ todo.pool[n] # NoOrder
                     /\ todo.pool[n].side = t /\ Index(todo.pool[n].price) = l
                     /\ todo.pool[n].seq <= todo.bookSeq
                     /\ idMap[todo.pool[n].id] = Null
              /\ \A j, k \in DOMAIN todo.queue[t][l] :
                     j < k => todo.pool[todo.queue[t][l][j]].seq
                                < todo.pool[todo.queue[t][l][k]].seq
              /\ \A n \in Range(queue[t][l]), m \in Range(todo.queue[t][l]) :
                     pool[n].seq < todo.pool[m].seq
            BY <1>1, TodoExactAt, Zenon
        <3>2. IsInjective(todo'.queue[t][l])
            BY <1>5, <1>7, <3>1, ZenonT(60)
        <3>3. \A n \in Range(todo'.queue[t][l]) : idMap'[todo'.pool[n].id] = Null
            <4> SUFFICES ASSUME NEW n \in Range(todo'.queue[t][l])
                         PROVE  idMap'[todo.pool[n].id] = Null
                BY <1>6, Zenon
            <4>1. n \in Range(todo.queue[t][l]) /\ n # m0 /\ n \in Nodes /\ todo.pool[n] # NoOrder
                BY <1>13, SMTT(60)
            <4>2. todo.pool[n].id # o.id
                BY <1>1, <1>2, <4>1, ZenonT(60) DEF TodoExact, TodoExactIn
            <4>3. todo.pool[n] \in Orders
                BY <1>1, <4>1, SMTT(60) DEF CallTypeOK
            <4>4. todo.pool[n].id \in OrderIds
                BY <4>3 DEF Orders
            <4> QED BY <1>1, <1>8, <3>1, <4>1, <4>2, <4>4, ZenonT(60) DEF BookInv, BookTypeOK
        <3>4. \A j, k \in DOMAIN todo'.queue[t][l] :
                 j < k => todo.pool[todo'.queue[t][l][j]].seq < todo.pool[todo'.queue[t][l][k]].seq
            <4>1. CASE t = s0 /\ l = i0
                <5>0. todo'.queue[t][l] = Tail(q)
                    BY <1>7, <4>1, ZenonT(30)
                <5> SUFFICES ASSUME NEW j \in DOMAIN Tail(q), NEW k \in DOMAIN Tail(q), j < k
                             PROVE  todo.pool[Tail(q)[j]].seq < todo.pool[Tail(q)[k]].seq
                    BY <5>0, ZenonT(30)
                <5>1. /\ j + 1 \in DOMAIN q /\ Tail(q)[j] = q[j + 1]
                      /\ k + 1 \in DOMAIN q /\ Tail(q)[k] = q[k + 1]
                    BY <1>5, SMTT(60)
                <5>2. DOMAIN Tail(q) = 1 .. Len(Tail(q)) /\ Len(Tail(q)) \in Nat
                    BY <1>5, SeqFacts
                <5>3. j + 1 < k + 1
                    BY <5>2
                <5> QED BY <3>1, <4>1, <5>1, <5>3, ZenonT(60) DEF q
            <4>2. CASE ~(t = s0 /\ l = i0)
                BY <1>7, <3>1, <4>2, ZenonT(30)
            <4> QED BY <4>1, <4>2, ZenonT(30)
        <3>5. \A n \in Range(queue'[t][l]), m \in Range(todo'.queue[t][l]) :
                 pool'[n].seq < todo.pool[m].seq
            <4> SUFFICES ASSUME NEW n \in Range(queue'[t][l]), NEW m \in Range(todo'.queue[t][l])
                         PROVE  pool'[n].seq < todo.pool[m].seq
                BY SMTT(60)
            <4>1. m \in Range(todo.queue[t][l])
                BY <1>13, SMTT(60)
            <4>2. CASE n \in Range(queue[t][l])
                <5>1. n \in Nodes /\ pool[n] # NoOrder
                    <6>1. \A x \in Range(queue[t][l]) : x \in Nodes /\ pool[x] # NoOrder
                        BY <1>1, QueuedAt, ZenonT(30)
                    <6> QED BY <4>2, <6>1, Zenon
                <5>2. pool'[n] = pool[n]
                    BY <1>8, <1>10, <5>1, Zenon
                <5> QED BY <3>1, <4>1, <4>2, <5>2, ZenonT(60)
            <4>3. CASE n \notin Range(queue[t][l])
                <5>1. t = s0 /\ l = i0 /\ n = n0
                    BY <1>8, <4>3, ZenonT(60)
                <5>2. pool'[n] = o
                    BY <1>8, <1>10, <5>1, SMTT(60)
                <5>3. PICK k \in DOMAIN Tail(q) : Tail(q)[k] = m
                    BY <1>7, <5>1, ZenonT(30) DEF Range
                <5>4. k + 1 \in DOMAIN q /\ q[k + 1] = m /\ 1 \in DOMAIN q /\ q[1] = m0
                    BY <1>5, <5>3, SMTT(60)
                <5>5. 1 < k + 1
                    BY <1>5, SeqFacts, SMTT(60)
                <5>6. todo.pool[q[1]].seq < todo.pool[q[k + 1]].seq
                    BY <3>1, <5>1, <5>4, <5>5, ZenonT(60) DEF q
                <5> QED BY <1>2, <5>2, <5>4, <5>6, Zenon
            <4> QED BY <4>2, <4>3, SMTT(60)
        <3>6. \A n \in Range(todo'.queue[t][l]) :
                 /\ todo'.pool[n] # NoOrder
                 /\ todo'.pool[n].side = t /\ Index(todo'.pool[n].price) = l
                 /\ todo'.pool[n].seq <= todo'.bookSeq
            BY <1>6, <1>13, <3>1, ZenonT(60)
        <3>7. todo'.pool = todo.pool
            BY <1>6, Zenon
        <3> QED BY <3>2, <3>3, <3>4, <3>5, <3>6, <3>7, ZenonT(60)
    <2>2. \A m, n \in Nodes : todo'.pool[m] # NoOrder /\ todo'.pool[n] # NoOrder
                                /\ todo'.pool[m].id = todo'.pool[n].id => m = n
        <3>1. \A m, n \in Nodes : todo.pool[m] # NoOrder /\ todo.pool[n] # NoOrder
                                     /\ todo.pool[m].id = todo.pool[n].id => m = n
            BY <1>1, Zenon DEF TodoExact, TodoExactIn
        <3> QED BY <1>6, <3>1, SMTT(60)
    <2> QED BY <2>1, <2>2, ZenonT(60) DEF TodoExact, TodoExactIn, Index
<1>15. TodoFits'
    <2>1. m0 \in TodoNodes
        BY <1>2, <1>5, ZenonT(60) DEF TodoNodes, q
    <2>2. TodoNodes' \subseteq TodoNodes \ {m0}
        BY <1>13, Zenon DEF TodoNodes, Slots, Sides, Nodes
    <2>3. /\ IsFiniteSet(TodoNodes \ {m0})
          /\ Cardinality(TodoNodes \ {m0}) = Cardinality(TodoNodes) - 1
          /\ Cardinality(TodoNodes) \in Nat
        BY <1>1, <2>1, FS_RemoveElement, FS_CardinalityType DEF TodoFits
    <2>4. /\ IsFiniteSet(TodoNodes')
          /\ Cardinality(TodoNodes') <= Cardinality(TodoNodes) - 1
          /\ Cardinality(TodoNodes') \in Nat
        BY <2>2, <2>3, FS_Subset, FS_CardinalityType
    <2>5. Len(free') = Len(free) - 1 /\ Len(free) \in Nat
        BY <1>1, <1>2, <1>8, TailIs, SeqFacts, Zenon DEF BookInv, BookTypeOK
    <2> QED BY <1>1, <2>3, <2>4, <2>5, SMTT(60) DEF TodoFits
<1> QED BY <1>8, <1>9, <1>11, <1>12, <1>14, <1>15, IInvPartsPrime DEF TodoInv

\* Every step of the book, and stuttering, preserves the inductive invariant.
LEMMA NextInv == IInv /\ [Next]_vars => IInv'
<1> SUFFICES ASSUME IInv, [Next]_vars PROVE IInv'
    BY SMTT(60)
<1>1. CASE UNCHANGED vars
    <2>1. UNCHANGED bookVars /\ UNCHANGED <<stp, counters, pc, callVars, todo>>
        BY <1>1, Zenon DEF vars
    <2>2. BookInv' /\ LiveNodes' = LiveNodes
        BY <2>1, IInvParts, BookStutter
    <2>3. CallTypeOK'
        BY <2>1, IInvParts, Zenon DEF CallTypeOK, counters, callVars
    <2>4. SeqBound' /\ CallInv'
        BY <2>1, <2>2, IInvParts, Zenon DEF SeqBound, CallInv, counters, callVars, bookVars, InRange
    <2>5. TodoInv'
        <3>1. UNCHANGED <<pc, todo, pool, free, idMap, queue>>
            BY <2>1 DEF bookVars
        <3>2. ASSUME TodoExact PROVE TodoExact'
            <4>1. todo' = todo /\ idMap' = idMap /\ queue' = queue /\ pool' = pool
                BY <3>1, Zenon
            <4> QED BY <3>2, <4>1, Zenon DEF TodoExact
        <3>3. TodoFits' <=> TodoFits
            BY <3>1 DEF TodoFits, TodoNodes
        <3> QED BY <3>1, <3>2, <3>3, IInvParts, Zenon DEF TodoInv
    <2> QED BY <2>2, <2>3, <2>4, <2>5, IInvPartsPrime
<1>2. CASE Next
    <2>1. Step /\ UNCHANGED stp
        BY <1>2 DEF Next
    <2>2. CASE Call
        <3>1. pc = "idle"
            BY <2>2 DEF Call
        <3>2. CASE \E in \in Arrivals : Submit(in)
            BY <2>1, <3>1, <3>2, SubmitExInv, ArrivalsAssumption DEF Submit
        <3>3. CASE \E id \in OrderIds : Cancel(id)
            BY <2>1, <3>1, <3>3, CancelInv
        <3>4. CASE \E id \in OrderIds, in \in Arrivals : Replace(id, in)
            BY <2>1, <3>1, <3>4, ReplaceInv, ArrivalsAssumption, SMTT(60)
        <3> QED BY <2>2, <3>2, <3>3, <3>4, SMTT(60) DEF Call
    <2>3. CASE SubmitFresh
        <3>1. pc = "fresh" /\ SubmitEx(incoming)
            BY <2>3 DEF SubmitFresh
        <3>2. incoming \in NewOrders
            BY <3>1, IInvParts, SMTT(60) DEF CallTypeOK
        <3> QED BY <2>1, <3>1, <3>2, SubmitExInv
    <2>4. CASE Match
        BY <2>1, <2>4, TradeInv, SelfTradeInv, SkipEmptyLevelInv, RestResidualInv, DroppedInv,
           SMTT(60), Zenon DEF Match
    <2>5. CASE Return
        BY <2>1, <2>5, ReturnInv, Zenon
    <2>6. CASE Restart
        BY <2>1, <2>6, RestartInv, Zenon
    <2>7. CASE RestoreResting
        BY <2>1, <2>7, RestoreRestingInv
    <2>8. CASE RestoreCounters
        BY <2>1, <2>8, RestoreCountersInv
    <2> QED BY <2>1, <2>2, <2>3, <2>4, <2>5, <2>6, <2>7, <2>8 DEF Step
<1> QED BY <1>1, <1>2

\* The inductive invariant holds in every reachable state.
THEOREM BookInvariant == Spec => []IInv
BY InitInv, NextInv, PTL DEF Spec

\* Every reachable state of the order book is well typed: no index outside its array, no negative
\* remainder.
THEOREM TypeCorrect == Spec => []TypeOK
<1>1. IInv => TypeOK
    BY DEF IInv
<1> QED BY <1>1, BookInvariant, PTL

\* The pool, its free list, the id map and the level queues describe the same orders in every
\* reachable state, in the middle of a match and of a restore included.
THEOREM IndexesAgree == Spec => []IndexConsistent
<1>1. IInv => IndexConsistent
    BY Zenon DEF IInv
<1> QED BY <1>1, BookInvariant, PTL

\* Every level is queued in arrival order, and no resting order is newer than the sequence counter:
\* price levels keep FIFO order through partial fills, cancels, replaces and a snapshot restore.
THEOREM TimePriorityHolds == Spec => []TimePriority
<1>1. IInv => TimePriority
    BY DEF IInv
<1> QED BY <1>1, BookInvariant, PTL, Zenon

\* restoreResting never fails during recovery: the id is new, the price in range and the pool has
\* a node, whatever book the snapshot was taken of.
THEOREM RestoreNeverStuck == Spec => []RestoreSucceeds
<1>1. IInv => RestoreSucceeds
    BY TodoFacts, Zenon DEF RestoreSucceeds
<1> QED BY <1>1, BookInvariant, PTL
-----------------------------------------------------------------------------
(***************************************************************************)
(* Prices, for arrivals on the tick grid.                                  *)
(***************************************************************************)
\* An order that finds nothing more to match can rest without crossing the book: the tracked best
\* opposite price is the real one.
LEMMA NothingCrosses ==
    ASSUME IInv, BookPrices, pc = "match", ~CanMatch, remaining > 0, incoming.type = "Limit",
           NEW m \in LiveNodes, pool[m].side = Opp
    PROVE  IF incoming.side = "Buy" THEN incoming.price < pool[m].price
           ELSE pool[m].price < incoming.price
<1>1. BookInv /\ incoming.side \in Sides /\ Opp \in Sides /\ incoming.price \in Int
    BY IInvParts, MatchFacts DEF NewOrders
<1>2. m \in Nodes /\ pool[m] # NoOrder /\ pool[m].price \in Int
    BY <1>1, LiveNode, Zenon
<1>3. PICK w \in Nodes : pool[w] # NoOrder /\ pool[w].side = Opp /\ pool[w].price = best[Opp]
    BY <1>1, <1>2, Zenon DEF BookPrices, BestIn
<1>4. ~IsBetter(Opp, pool[m].price, best[Opp])
    BY <1>1, <1>2, Zenon DEF BookPrices, BestIn
<1>5. best[Opp] \in Int /\ InRange(best[Opp])
    <2>1. w \in LiveNodes
        BY <1>3 DEF LiveNodes
    <2> QED BY <1>1, <1>3, <2>1, LiveNode
<1>6. HasBest(Opp)
    BY <1>5, ConfigAssumption DEF HasBest, EmptySentinel, InRange
<1>7. ~Crosses(incoming, best[Opp])
    BY <1>6 DEF CanMatch
<1> QED BY <1>1, <1>2, <1>4, <1>5, <1>7 DEF Crosses, IsBetter, Opp, Opposite, Sides

\* The trades a call can report.
TradeRecords == [id : Nat, aggressorId : OrderIds, passiveId : OrderIds, price : Int,
                 quantity : Nat, aggressorSide : Sides]

\* The invariant about prices; inductive together with IInv.
PriceInv ==
    /\ BookPrices /\ UncrossedIn(pool)
    /\ pc = "restore" => RestoredIn(todo.pool, pool)
    /\ pc \in {"match", "fresh"} => incoming \in Arrivals
    /\ pc \in {"idle", "fresh", "restore"} => trades = <<>>
    /\ trades \in Seq(TradeRecords)
    /\ LimitRespected

\* The conjuncts that are about the book.
BookUncrossed == BookPrices /\ UncrossedIn(pool)

\* A step that leaves the book alone leaves its prices alone.
LEMMA PricesStutter ==
    ASSUME BookUncrossed, UNCHANGED bookVars
    PROVE  BookUncrossed'
<1>1. pool' = pool /\ queue' = queue /\ occupied' = occupied /\ best' = best
    BY Zenon DEF bookVars
<1> QED BY <1>1, Zenon DEF BookUncrossed, BookPrices

\* What a caller of LeaveBook needs to know of the prices.
LEMMA LeaveUncrossed ==
    ASSUME BookInv, BookUncrossed, NEW n \in LiveNodes, LeaveBook(n, pool[n].price)
    PROVE  BookUncrossed'
<1>1. BookPrices' /\ \A m \in Nodes : pool'[m] # NoOrder => pool'[m] = pool[m]
    BY LeavePrices, Zenon DEF BookUncrossed
<1>2. \A m \in Nodes : pool'[m] # NoOrder =>
         pool[m] # NoOrder /\ pool'[m].side = pool[m].side /\ pool'[m].price = pool[m].price
    BY <1>1, Zenon
<1> QED BY <1>1, <1>2, FewerUncrossed, Zenon DEF BookUncrossed

\* A step in the middle of submitEx() that adds no trade.
LEMMA NoTradeStep ==
    ASSUME PriceInv, BookUncrossed', pc = "match", pc' \in {"match", "done"},
           UNCHANGED <<incoming, trades>>
    PROVE  PriceInv'
<1>1. incoming' = incoming /\ trades' = trades
    BY Zenon
<1>2. LimitRespected'
    BY <1>1 DEF PriceInv, LimitRespected
<1> QED BY <1>1, <1>2, Zenon DEF PriceInv, BookUncrossed

\* Where the loop stands the head of the best level is at the best price.
LEMMA RestingAtBest ==
    ASSUME IInv, PriceInv, CanMatch, BestQueue # <<>>
    PROVE  /\ BookInv /\ BookUncrossed /\ pc = "match" /\ Opp \in Sides
           /\ Resting \in LiveNodes /\ pool[Resting].price = best[Opp]
           /\ best[Opp] \in Int /\ Index(best[Opp]) \in Slots
<1>1. /\ pc = "match" /\ Opp \in Sides /\ Resting \in LiveNodes /\ pool[Resting].side = Opp
      /\ Index(pool[Resting].price) = Index(best[Opp])
      /\ best[Opp] \in Int /\ Index(best[Opp]) \in Slots
    BY CanMatchFacts, MatchFacts, Zenon
<1>2. BookInv /\ BookUncrossed
    BY IInvParts, Zenon DEF PriceInv, BookUncrossed
<1>3. Resting \in Nodes /\ pool[Resting] # NoOrder
    BY <1>1, Zenon DEF LiveNodes
<1>4. PICK w \in Nodes : pool[w] # NoOrder /\ pool[w].side = Opp /\ pool[w].price = best[Opp]
    BY <1>1, <1>3, Zenon DEF PriceInv, BookPrices, BestIn
<1>5. OnTick(pool[Resting].price) /\ OnTick(best[Opp])
    BY <1>3, <1>4, Zenon DEF PriceInv, BookPrices, TicksIn
<1>6. pool[Resting].price = best[Opp]
    BY <1>1, <1>5 DEF OnTick
<1> QED BY <1>1, <1>2, <1>6, Zenon

\* A trade is at the best opposite price, which the incoming order crosses.
LEMMA TradePrices ==
    ASSUME IInv, PriceInv, Trade
    PROVE  PriceInv'
<1> DEFINE o == pool[Resting]
           qty == MinOf(remaining, o.remaining)
           t == [id |-> nextTradeId, aggressorId |-> incoming.id, passiveId |-> o.id,
                 price |-> o.price, quantity |-> qty, aggressorSide |-> incoming.side]
<1>1. CanMatch /\ BestQueue # <<>>
    BY Zenon DEF Trade
<1>2. /\ BookInv /\ BookUncrossed /\ pc = "match" /\ Opp \in Sides /\ Resting \in LiveNodes
      /\ o.price = best[Opp] /\ best[Opp] \in Int /\ Index(best[Opp]) \in Slots
    BY <1>1, RestingAtBest, Zenon
<1>3. /\ trades' = Append(trades, t)
      /\ IF qty = o.remaining
         THEN LeaveBook(Resting, best[Opp])
         ELSE /\ pool' = [pool EXCEPT ![Resting].remaining = @ - qty]
              /\ TakeFromTotal(Opp, Index(best[Opp]), qty)
              /\ UNCHANGED <<free, idMap, queue, occupied, best>>
      /\ UNCHANGED <<pc, incoming>>
    BY Zenon DEF Trade
<1>4. o.remaining \in Nat \ {0} /\ o.id \in OrderIds /\ remaining \in Nat
    BY <1>2, LiveNode, MatchFacts, Zenon
<1>5. qty \in Nat /\ qty <= o.remaining
    BY <1>4 DEF MinOf
<1> HIDE DEF qty
<1>6. BookUncrossed'
    <2>1. CASE qty = o.remaining
        <3>1. LeaveBook(Resting, pool[Resting].price)
            BY <1>2, <1>3, <2>1
        <3> QED BY <1>2, <3>1, LeaveUncrossed, Zenon
    <2>2. CASE qty # o.remaining
        <3>1. /\ qty < o.remaining
              /\ pool' = [pool EXCEPT ![Resting].remaining = @ - qty]
              /\ TakeFromTotal(Opp, Index(best[Opp]), qty)
              /\ UNCHANGED <<free, idMap, queue, occupied, best>>
            BY <1>3, <1>4, <1>5, <2>2
        <3>2. \A m \in Nodes : /\ pool'[m] # NoOrder <=> pool[m] # NoOrder
                               /\ pool'[m].side = pool[m].side /\ pool'[m].price = pool[m].price
            BY <1>2, <1>5, <3>1, PartialFillInv, Zenon
        <3>3. UNCHANGED <<queue, occupied, best>> /\ BookPrices /\ UncrossedIn(pool)
            BY <1>2, <3>1, Zenon DEF BookUncrossed
        <3>4. BookPrices'
            BY <3>2, <3>3, FillPrices, Zenon
        <3>5. UncrossedIn(pool)'
            BY <3>2, <3>3, FewerUncrossed, Zenon
        <3> QED BY <3>4, <3>5 DEF BookUncrossed
    <2> QED BY <2>1, <2>2
<1>7. t \in TradeRecords /\ t.price = best[Opp]
    <2>1. nextTradeId \in Nat /\ incoming.id \in OrderIds /\ incoming.side \in Sides
        BY <1>2, IInvParts, MatchFacts, Zenon DEF CallTypeOK
    <2> HIDE DEF o
    <2> QED BY <1>2, <1>4, <1>5, <2>1 DEF TradeRecords
<1> HIDE DEF t
<1>8. trades \in Seq(TradeRecords) /\ LimitRespected /\ incoming \in Arrivals
    BY <1>2, Zenon DEF PriceInv
<1>9. trades' \in Seq(TradeRecords)
    BY <1>3, <1>7, <1>8, AppendIs
<1>10. \A u \in Range(trades') : u \in Range(trades) \/ u = t
    <2>1. \A k \in 1 .. Len(trades') : trades'[k] \in Range(trades) \/ trades'[k] = t
        BY <1>3, <1>7, <1>8, SeqFacts, AppendIs
    <2>2. \A u \in Range(trades') : \E k \in 1 .. Len(trades') : trades'[k] = u
        BY <1>9, SeqFacts
    <2> QED BY <2>1, <2>2
<1>11. LimitRespected'
    <2> SUFFICES ASSUME incoming.type # "Market", NEW u \in Range(trades')
                 PROVE  IF incoming.side = "Buy" THEN u.price <= incoming.price
                        ELSE u.price >= incoming.price
        BY <1>3 DEF LimitRespected
    <2>1. CASE u \in Range(trades)
        <3>1. incoming # NoOrder
            BY <1>8, ArrivalsAssumption
        <3> QED BY <1>8, <2>1, <3>1 DEF LimitRespected
    <2>2. CASE u = t
        <3>1. Crosses(incoming, best[Opp])
            BY <1>1, Zenon DEF CanMatch
        <3>2. incoming.price \in Int /\ incoming.side \in Sides
            BY <1>8, ArrivalsAssumption DEF NewOrders
        <3> QED BY <1>2, <1>7, <2>2, <3>1, <3>2 DEF Crosses
    <2> QED BY <1>10, <2>1, <2>2
<1> QED BY <1>2, <1>3, <1>6, <1>8, <1>9, <1>11, Zenon DEF PriceInv, BookUncrossed

\* Self-trade prevention takes at most one order out of the book.
LEMMA SelfTradePrices ==
    ASSUME IInv, PriceInv, SelfTrade
    PROVE  PriceInv'
<1>1. CanMatch /\ BestQueue # <<>>
    BY Zenon DEF SelfTrade
<1>2. /\ BookInv /\ BookUncrossed /\ pc = "match"
      /\ Resting \in LiveNodes /\ pool[Resting].price = best[Opp]
    BY <1>1, RestingAtBest, Zenon
<1>3. /\ UNCHANGED bookVars \/ LeaveBook(Resting, best[Opp])
      /\ pc' = pc \/ pc' = "done"
      /\ UNCHANGED <<incoming, trades>>
    BY Zenon DEF SelfTrade
<1>4. LeaveBook(Resting, best[Opp]) => LeaveBook(Resting, pool[Resting].price)
    BY <1>2
<1>5. BookUncrossed'
    BY <1>2, <1>3, <1>4, PricesStutter, LeaveUncrossed, Zenon
<1>6. pc' \in {"match", "done"}
    BY <1>2, <1>3
<1> QED BY <1>2, <1>3, <1>5, <1>6, NoTradeStep, Zenon

\* With prices on the grid the loop never finds an empty level at the best price.
LEMMA BestLevelOccupied ==
    ASSUME IInv, PriceInv, CanMatch
    PROVE  BestQueue # <<>>
<1>1. pc = "match" /\ Opp \in Sides /\ Index(best[Opp]) \in Slots /\ best[Opp] # EmptySentinel(Opp)
    BY CanMatchFacts, MatchFacts, Zenon DEF CanMatch, HasBest
<1>2. PICK w \in Nodes : pool[w] # NoOrder /\ pool[w].side = Opp /\ pool[w].price = best[Opp]
    BY <1>1, Zenon DEF PriceInv, BookPrices, BestIn
<1>3. w \in LiveNodes /\ BookInv
    BY <1>2, IInvParts, Zenon DEF LiveNodes
<1>4. w \in Range(queue[pool[w].side][Index(pool[w].price)])
    BY <1>3, LiveNode, Zenon
<1>5. w \in Range(BestQueue)
    BY <1>2, <1>4 DEF BestQueue
<1>6. BestQueue \in Seq(Nodes)
    BY <1>1, <1>3, QueuedAt, Zenon DEF BestQueue
<1> QED BY <1>5, <1>6, EmptyRange, Zenon

\* The ends of matchInto(): the residual that rests is on the grid and crosses nothing.
LEMMA EndPrices ==
    ASSUME TickAligned, IInv, PriceInv, UNCHANGED stp,
           RestResidual \/ PoolExhausted \/ DropResidual \/ FullyFilled
    PROVE  PriceInv'
<1>1. pc = "match" /\ ~CanMatch /\ pc' = "done" /\ UNCHANGED <<incoming, trades>>
    BY Zenon DEF RestResidual, PoolExhausted, DropResidual, FullyFilled, EndMatching
<1>2. BookInv /\ BookUncrossed
    BY IInvParts, Zenon DEF PriceInv, BookUncrossed
<1>3. CASE UNCHANGED bookVars
    BY <1>1, <1>2, <1>3, PricesStutter, NoTradeStep
<1>4. CASE RestResidual
    <2> DEFINE n == Head(free)
               o == Residual
    <2>1. /\ incoming.type = "Limit" /\ remaining > 0 /\ free # <<>> /\ EnterBook(o)
          /\ incoming \in Arrivals
        BY <1>1, <1>4, Zenon DEF RestResidual, PriceInv
    <2>2. /\ o.price = incoming.price /\ o.side = incoming.side
          /\ incoming.side \in Sides /\ incoming.price \in Int
        BY <2>1, ArrivalsAssumption DEF Residual, NewOrders
    <2>3. OnTick(o.price)
        BY <2>1, <2>2 DEF TickAligned
    <2>4. o \in Orders
        BY <2>1, <1>1, ResidualType
    <2>5. n \in Nodes /\ pool[n] = NoOrder
        <3>1. free \in Seq(Nodes)
            BY <1>2, Zenon DEF BookInv, BookTypeOK
        <3>2. n \in Range(free) /\ n \in Nodes
            BY <2>1, <3>1, TailFacts
        <3> HIDE DEF n
        <3> QED BY <1>2, <3>2, Zenon DEF BookInv, IndexConsistent, PoolExact
    <2> HIDE DEF o
    <2>6. BookPrices' /\ \A m \in Nodes : pool'[m] = IF m = n THEN o ELSE pool[m]
        BY <1>2, <2>1, <2>3, <2>4, <2>5, EnterPrices, Zenon DEF BookUncrossed
    <2> HIDE DEF n
    <2>7. ASSUME NEW a \in Nodes, NEW b \in Nodes, pool'[a] # NoOrder, pool'[b] # NoOrder,
                 pool'[a].side = "Buy", pool'[b].side = "Sell"
          PROVE  pool'[a].price < pool'[b].price
        <3>1. \A m \in LiveNodes : pool[m].side = Opp =>
                 IF incoming.side = "Buy" THEN incoming.price < pool[m].price
                 ELSE pool[m].price < incoming.price
            BY <1>1, <1>2, <2>1, NothingCrosses, Zenon DEF BookUncrossed
        <3>2. CASE a = n
            <4>1. incoming.side = "Buy" /\ pool'[a].price = incoming.price
                BY <2>2, <2>5, <2>6, <2>7, <3>2
            <4>2. b # n /\ pool'[b] = pool[b] /\ b \in LiveNodes /\ pool[b].side = Opp
                BY <2>6, <2>7, <3>2, <4>1 DEF LiveNodes, Opp, Opposite
            <4> QED BY <3>1, <4>1, <4>2
        <3>3. CASE b = n
            <4>1. incoming.side = "Sell" /\ pool'[b].price = incoming.price
                BY <2>2, <2>5, <2>6, <2>7, <3>3
            <4>2. a # n /\ pool'[a] = pool[a] /\ a \in LiveNodes /\ pool[a].side = Opp
                BY <2>6, <2>7, <3>3, <4>1 DEF LiveNodes, Opp, Opposite
            <4> QED BY <3>1, <4>1, <4>2
        <3>4. CASE a # n /\ b # n
            <4>1. pool'[a] = pool[a] /\ pool'[b] = pool[b]
                BY <2>6, <3>4, Zenon
            <4> QED BY <1>2, <2>7, <4>1 DEF BookUncrossed, UncrossedIn
        <3> QED BY <3>2, <3>3, <3>4
    <2>8. BookUncrossed'
        BY <2>6, <2>7, Zenon DEF BookUncrossed, UncrossedIn
    <2> QED BY <1>1, <2>8, NoTradeStep
<1> QED BY <1>3, <1>4, Zenon DEF PoolExhausted, DropResidual, FullyFilled

\* submitEx() before matchInto(): nothing has been traded yet.
LEMMA SubmitPrices ==
    ASSUME PriceInv, pc \in {"idle", "fresh"}, NEW in \in Arrivals,
           SubmitEx(in) \/ \E reason \in SubmitStatus : Rejected(in, reason)
    PROVE  PriceInv'
<1>1. /\ UNCHANGED bookVars /\ incoming' = in /\ trades' = trades /\ pc' \in {"match", "done"}
    BY DEF SubmitEx, StartMatching, Rejected
<1>2. trades' = <<>> /\ trades' \in Seq(TradeRecords)
    BY <1>1 DEF PriceInv
<1>3. Range(trades') = {}
    BY <1>2, EmptyRange, Zenon
<1>4. LimitRespected'
    BY <1>3, Zenon DEF LimitRespected
<1>5. BookUncrossed'
    BY <1>1, PricesStutter, Zenon DEF PriceInv, BookUncrossed
<1> QED BY <1>1, <1>2, <1>4, <1>5 DEF PriceInv, BookUncrossed

\* cancel() and the cancelling half of replace().
LEMMA RemovePrices ==
    ASSUME IInv, PriceInv, NEW id \in OrderIds, idMap[id] # Null, RemoveForCancel(id)
    PROVE  BookUncrossed'
<1> DEFINE n == idMap[id]
<1>1. BookInv /\ BookUncrossed
    BY IInvParts, Zenon DEF PriceInv, BookUncrossed
<1>2. n \in LiveNodes
    BY <1>1, SMTT(60) DEF BookInv, BookTypeOK, IndexConsistent, IdMapExact, LiveNodes
<1>3. LeaveBook(n, pool[n].price)
    BY Zenon DEF RemoveForCancel
<1> HIDE DEF n
<1> QED BY <1>1, <1>2, <1>3, LeaveUncrossed, Zenon

\* A call that ends, or goes on as a submission, before any trade.
LEMMA CallPrices ==
    ASSUME IInv, PriceInv, Call
    PROVE  PriceInv'
<1>1. pc = "idle"
    BY DEF Call
<1>2. ASSUME NEW in \in Arrivals, Submit(in) PROVE PriceInv'
    BY <1>1, <1>2, SubmitPrices DEF Submit
<1>3. ASSUME NEW id \in OrderIds, Cancel(id) PROVE PriceInv'
    <2>1. pc' = "done" /\ UNCHANGED <<incoming, trades>>
        BY <1>3 DEF Cancel
    <2>2. BookUncrossed'
        <3>1. CASE idMap[id] = Null
            BY <1>3, <3>1, PricesStutter, Zenon DEF Cancel, PriceInv, BookUncrossed
        <3>2. CASE idMap[id] # Null
            BY <1>3, <3>2, RemovePrices, Zenon DEF Cancel
        <3> QED BY <3>1, <3>2
    <2>3. LimitRespected'
        BY <2>1 DEF PriceInv, LimitRespected
    <2> QED BY <2>1, <2>2, <2>3 DEF PriceInv, BookUncrossed
<1>4. ASSUME NEW id \in OrderIds, NEW in \in Arrivals, Replace(id, in) PROVE PriceInv'
    <2>1. CASE ReplaceRejectReason(id, in) # "Ok"
        <3>1. ReplaceRejectReason(id, in) \in SubmitStatus
            BY Zenon DEF ReplaceRejectReason, SubmitStatus
        <3>2. Rejected(in, ReplaceRejectReason(id, in))
            BY <1>4, <2>1, Zenon DEF Replace
        <3> QED BY <1>1, <3>1, <3>2, SubmitPrices, Zenon
    <2>2. CASE ReplaceRejectReason(id, in) = "Ok"
        <3>1. idMap[id] # Null
            BY <2>2 DEF ReplaceRejectReason
        <3>2. RemoveForCancel(id) /\ pc' = "fresh" /\ incoming' = in /\ trades' = trades
            BY <1>4, <2>2, Zenon DEF Replace
        <3>3. BookUncrossed'
            BY <3>1, <3>2, RemovePrices, Zenon
        <3>4. trades' = <<>> /\ trades' \in Seq(TradeRecords)
            BY <1>1, <3>2 DEF PriceInv
        <3>5. Range(trades') = {}
            BY <3>4, EmptyRange, Zenon
        <3>6. LimitRespected'
            BY <3>5, Zenon DEF LimitRespected
        <3> QED BY <3>2, <3>3, <3>4, <3>6 DEF PriceInv, BookUncrossed
    <2> QED BY <2>1, <2>2
<1> QED BY <1>2, <1>3, <1>4 DEF Call

\* A restart keeps the prices in the snapshot, and the new book is empty.
LEMMA RestartPrices ==
    ASSUME IInv, PriceInv, Restart
    PROVE  PriceInv'
<1>1. /\ pc = "idle" /\ pc' = "restore" /\ UNCHANGED callVars
      /\ pool' = [m \in Nodes |-> NoOrder]
      /\ queue' = [s \in Sides |-> [i \in Slots |-> <<>>]]
      /\ occupied' = [s \in Sides |-> {}]
      /\ best' = [s \in Sides |-> EmptySentinel(s)]
      /\ todo'.pool = pool
    BY DEF Restart
<1>2. \A m \in Nodes : pool'[m] = NoOrder
    BY <1>1
<1>3. TicksIn(pool)' /\ UncrossedIn(pool)'
    BY <1>2, Zenon DEF TicksIn, UncrossedIn
<1>4. BitsIn(queue, occupied)'
    BY <1>1 DEF BitsIn
<1>5. BestIn(pool, best)'
    <2>1. \A t \in Sides : best'[t] = EmptySentinel(t)
        BY <1>1
    <2> QED BY <1>2, <2>1, Zenon DEF BestIn, EmptySentinel
<1>6. RestoredIn(todo.pool, pool)'
    BY <1>1, <1>2, Zenon DEF RestoredIn, PriceInv, BookPrices
<1>7. incoming' = incoming /\ trades' = trades
    BY <1>1, Zenon DEF callVars
<1>8. LimitRespected'
    BY <1>7 DEF PriceInv, LimitRespected
<1> QED BY <1>1, <1>3, <1>4, <1>5, <1>6, <1>7, <1>8 DEF PriceInv, BookPrices

\* restoreResting() rebuilds the book of the snapshot, order by order.
LEMMA RestorePrices ==
    ASSUME IInv, PriceInv, RestoreResting
    PROVE  PriceInv'
<1> DEFINE n == Head(free)
           o == TodoOrder
           w == Head(todo.queue[TodoSide][TodoSlot])
<1>1. /\ pc = "restore" /\ ~TodoEmpty /\ free # <<>> /\ EnterBook(o)
      /\ todo' = [todo EXCEPT !.queue[TodoSide][TodoSlot] = Tail(@)]
      /\ pc' = pc /\ UNCHANGED callVars
    BY Zenon DEF RestoreResting
<1>2. /\ BookInv /\ RestoredIn(todo.pool, pool) /\ CallTypeOK
    BY <1>1, IInvParts, Zenon DEF PriceInv
<1>3. o \in Orders /\ w \in Nodes /\ o = todo.pool[w] /\ o # NoOrder
    BY <1>1, TodoFacts, ArrivalsAssumption, Zenon DEF TodoOrder
<1>4. todo'.pool = todo.pool
    BY <1>1, <1>2 DEF CallTypeOK
<1>5. n \in Nodes /\ pool[n] = NoOrder
    <2>1. free \in Seq(Nodes)
        BY <1>2, Zenon DEF BookInv, BookTypeOK
    <2>2. n \in Range(free) /\ n \in Nodes
        BY <1>1, <2>1, TailFacts
    <2> HIDE DEF n
    <2> QED BY <1>2, <2>2, Zenon DEF BookInv, IndexConsistent, PoolExact
<1> HIDE DEF o, w
<1>6. OnTick(o.price)
    BY <1>2, <1>3 DEF RestoredIn, TicksIn
<1>7. BookPrices' /\ \A m \in Nodes : pool'[m] = IF m = n THEN o ELSE pool[m]
    BY <1>1, <1>2, <1>3, <1>5, <1>6, EnterPrices, Zenon DEF PriceInv
<1> HIDE DEF n
<1>8. RestoredIn(todo.pool, pool)'
    <2>1. ASSUME NEW m \in Nodes, pool'[m] # NoOrder
          PROVE  CopiedFrom(todo.pool, pool', m)
        <3>1. CASE m = n
            BY <1>3, <1>7, <3>1, Zenon DEF CopiedFrom
        <3>2. CASE m # n
            BY <1>2, <1>7, <2>1, <3>2 DEF RestoredIn, CopiedFrom
        <3> QED BY <3>1, <3>2
    <2> QED BY <1>2, <1>4, <2>1 DEF RestoredIn
<1>9. UncrossedIn(pool)'
    BY <1>8, RestoredUncrossed
<1>10. incoming' = incoming /\ trades' = trades
    BY <1>1, Zenon DEF callVars
<1>11. LimitRespected'
    BY <1>10 DEF PriceInv, LimitRespected
<1> QED BY <1>1, <1>7, <1>8, <1>9, <1>10, <1>11, Zenon DEF PriceInv

\* The steps that change no order: Return, restoreCounters() and stuttering.
LEMMA QuietPrices ==
    ASSUME IInv, PriceInv, Return \/ RestoreCounters \/ UNCHANGED vars
    PROVE  PriceInv'
<1>1. UNCHANGED bookVars
    BY Zenon DEF Return, RestoreCounters, vars
<1>2. BookUncrossed'
    BY <1>1, PricesStutter, Zenon DEF PriceInv, BookUncrossed
<1>3. CASE Return
    <2>1. trades' = <<>> /\ pc' = "idle" /\ incoming' = NoOrder
        BY <1>3, Zenon DEF Return
    <2>2. LimitRespected' /\ trades' \in Seq(TradeRecords)
        BY <2>1, EmptyIs DEF LimitRespected
    <2> QED BY <1>2, <2>1, <2>2 DEF PriceInv, BookUncrossed
<1>4. CASE RestoreCounters
    <2>1. pc = "restore" /\ pc' = "idle" /\ incoming' = incoming /\ trades' = trades
        BY <1>4, Zenon DEF RestoreCounters, callVars
    <2>2. LimitRespected'
        BY <2>1 DEF PriceInv, LimitRespected
    <2> QED BY <1>2, <2>1, <2>2 DEF PriceInv, BookUncrossed
<1>5. CASE UNCHANGED vars
    <2>1. /\ pc' = pc /\ incoming' = incoming /\ trades' = trades /\ todo' = todo /\ pool' = pool
        BY <1>5, Zenon DEF vars, callVars, bookVars
    <2>2. LimitRespected'
        BY <2>1 DEF PriceInv, LimitRespected
    <2> QED BY <1>2, <2>1, <2>2, Zenon DEF PriceInv, BookUncrossed
<1> QED BY <1>3, <1>4, <1>5

\* A new book is empty.
LEMMA InitPrices == Init => PriceInv
<1> SUFFICES ASSUME Init PROVE PriceInv
    OBVIOUS
<1>1. EmptyBook /\ pc = "idle" /\ trades = <<>> /\ incoming = NoOrder
    BY DEF Init, NoCall
<1>2. /\ \A m \in Nodes : pool[m] = NoOrder
      /\ \A t \in Sides : best[t] = EmptySentinel(t)
    BY <1>1 DEF EmptyBook
<1>3. TicksIn(pool) /\ UncrossedIn(pool) /\ BestIn(pool, best)
    BY <1>2, Zenon DEF TicksIn, UncrossedIn, BestIn
<1>4. BitsIn(queue, occupied)
    BY <1>1 DEF EmptyBook, BitsIn
<1>5. trades \in Seq(TradeRecords) /\ LimitRespected
    BY <1>1, EmptyIs DEF LimitRespected
<1> QED BY <1>1, <1>3, <1>4, <1>5 DEF PriceInv, BookPrices

\* Every step of the book, and stuttering, preserves what is said of the prices.
LEMMA NextPrices == TickAligned /\ IInv /\ PriceInv /\ [Next]_vars => PriceInv'
<1> SUFFICES ASSUME TickAligned, IInv, PriceInv, [Next]_vars PROVE PriceInv'
    BY Zenon
<1>1. CASE UNCHANGED vars
    BY <1>1, QuietPrices, Zenon
<1>2. CASE Next
    <2>1. Step /\ UNCHANGED stp
        BY <1>2, Zenon DEF Next
    <2>2. CASE SubmitFresh
        <3>1. pc = "fresh" /\ SubmitEx(incoming) /\ incoming \in Arrivals
            BY <2>2 DEF SubmitFresh, PriceInv
        <3> QED BY <3>1, SubmitPrices
    <2>3. CASE Match
        <3>1. ~SkipEmptyLevel
            BY BestLevelOccupied, Zenon DEF SkipEmptyLevel
        <3> QED BY <2>1, <2>3, <3>1, TradePrices, SelfTradePrices, EndPrices, Zenon DEF Match
    <2> QED BY <2>1, <2>2, <2>3, CallPrices, RestartPrices, RestorePrices, QuietPrices, Zenon
            DEF Step
<1> QED BY <1>1, <1>2, Zenon

\* The best tracked by LevelMap, against the definition of the best resting price.
LEMMA BestIsRealFromPrices == IInv /\ PriceInv => BestIsReal
<1> SUFFICES ASSUME IInv, PriceInv, NEW s \in Sides
             PROVE  LET prices == {pool[n].price : n \in {m \in LiveNodes : pool[m].side = s}}
                    IN  best[s] = IF prices = {} THEN EmptySentinel(s)
                                  ELSE IF s = "Buy" THEN Max(prices) ELSE Min(prices)
    BY Zenon DEF BestIsReal
<1> DEFINE P == {pool[n].price : n \in {m \in LiveNodes : pool[m].side = s}}
<1>1. BookInv /\ BestIn(pool, best)
    BY IInvParts, Zenon DEF PriceInv, BookPrices
<1>2. \A x : x \in P <=> \E n \in Nodes : pool[n] # NoOrder /\ pool[n].side = s /\ x = pool[n].price
    BY DEF LiveNodes
<1>3. \A n \in Nodes : pool[n] # NoOrder => pool[n].price \in Int
    BY <1>1, LiveNode DEF LiveNodes
<1> HIDE DEF P
<1>4. P \in SUBSET Int
    BY <1>2, <1>3
<1>5. CASE /\ best[s] = EmptySentinel(s)
           /\ \A n \in Nodes : pool[n] # NoOrder => pool[n].side # s
    <2>1. P = {}
        BY <1>2, <1>5, Zenon
    <2> QED BY <1>5, <2>1 DEF P
<1>6. CASE /\ \E n \in Nodes : pool[n] # NoOrder /\ pool[n].side = s /\ pool[n].price = best[s]
           /\ \A n \in Nodes :
                pool[n] # NoOrder /\ pool[n].side = s => ~IsBetter(s, pool[n].price, best[s])
    <2>1. best[s] \in P
        BY <1>2, <1>6, Zenon
    <2>2. \A x \in P : ~IsBetter(s, x, best[s])
        BY <1>2, <1>6
    <2>3. s = "Buy" => best[s] = Max(P)
        <3>1. ASSUME s = "Buy", NEW x \in P PROVE best[s] >= x
            <4>1. x \in Int /\ best[s] \in Int /\ ~IsBetter(s, x, best[s])
                BY <1>4, <2>1, <2>2, Zenon
            <4> QED BY <3>1, <4>1, SMT DEF IsBetter
        <3> QED BY <1>4, <2>1, <3>1, ExtremeIs, Zenon
    <2>4. s # "Buy" => best[s] = Min(P)
        <3>1. ASSUME s # "Buy", NEW x \in P PROVE best[s] <= x
            <4>1. x \in Int /\ best[s] \in Int /\ ~IsBetter(s, x, best[s])
                BY <1>4, <2>1, <2>2, Zenon
            <4> QED BY <3>1, <4>1, SMT DEF IsBetter
        <3> QED BY <1>4, <2>1, <3>1, ExtremeIs, Zenon
    <2> QED BY <2>1, <2>3, <2>4, Zenon DEF P
<1> QED BY <1>1, <1>5, <1>6, Zenon DEF BestIn

\* What the book says about prices holds in every reachable state.
THEOREM PriceInvariant == TickAligned => (Spec => []PriceInv)
<1> SUFFICES ASSUME TickAligned PROVE Spec => []PriceInv
    OBVIOUS
<1>1. IInv /\ PriceInv /\ [Next]_vars => PriceInv'
    BY NextPrices, Zenon
<1> QED BY <1>1, InitPrices, BookInvariant, PTL DEF Spec

\* The best LevelMap tracks as orders come and go, also while a match eats into a level or a
\* snapshot is put back, is the price of the best order there is.
THEOREM BestIsRealHolds == TickAligned => (Spec => []BestIsReal)
<1> SUFFICES ASSUME TickAligned PROVE Spec => []BestIsReal
    OBVIOUS
<1>1. Spec => []PriceInv
    BY PriceInvariant, Zenon
<1> QED BY <1>1, BookInvariant, BestIsRealFromPrices, PTL

\* No call, and no restart, leaves a bid at or above an ask (I3).
THEOREM NotCrossedHolds == TickAligned => (Spec => []NotCrossed)
<1> SUFFICES ASSUME TickAligned PROVE Spec => []NotCrossed
    OBVIOUS
<1>1. Spec => []PriceInv
    BY PriceInvariant, Zenon
<1>2. PriceInv => NotCrossed
    BY Zenon DEF PriceInv, UncrossedIn, NotCrossed, LiveNodes
<1> QED BY <1>1, <1>2, PTL

\* matchInto() never trades beyond the limit of the arrival.
THEOREM LimitRespectedHolds == TickAligned => (Spec => []LimitRespected)
<1> SUFFICES ASSUME TickAligned PROVE Spec => []LimitRespected
    OBVIOUS
<1>1. Spec => []PriceInv
    BY PriceInvariant, Zenon
<1>2. PriceInv => LimitRespected
    BY Zenon DEF PriceInv
<1> QED BY <1>1, <1>2, PTL
-----------------------------------------------------------------------------
(***************************************************************************)
(* Price-time priority, and the walk from the best level on.               *)
(***************************************************************************)
\* Order a has priority over order b of the same side: a better price, or an earlier arrival at
\* the same price.
Precedes(a, b) ==
    \/ IsBetter(a.side, a.price, b.price)
    \/ a.price = b.price /\ a.seq < b.seq

\* What is known of the price of a resting order.
LEMMA LivePrice ==
    ASSUME BookInv, BookPrices, NEW n \in LiveNodes
    PROVE  /\ n \in Nodes /\ pool[n] # NoOrder /\ pool[n].side \in Sides
           /\ pool[n].price \in Int /\ InRange(pool[n].price) /\ OnTick(pool[n].price)
           /\ Index(pool[n].price) \in Slots
           /\ pool[n].seq \in Nat
           /\ n \in Range(queue[pool[n].side][Index(pool[n].price)])
           /\ Index(pool[n].price) \in occupied[pool[n].side]
           /\ ~IsBetter(pool[n].side, pool[n].price, best[pool[n].side])
           /\ best[pool[n].side] \in Int /\ InRange(best[pool[n].side])
           /\ OnTick(best[pool[n].side])
<1> DEFINE s == pool[n].side
           i == Index(pool[n].price)
<1>1. /\ n \in Nodes /\ pool[n] # NoOrder /\ s \in Sides
      /\ pool[n].price \in Int /\ InRange(pool[n].price) /\ i \in Slots
      /\ pool[n].seq \in Nat /\ n \in Range(queue[s][i])
    BY LiveNode
<1>2. OnTick(pool[n].price)
    BY <1>1, Zenon DEF BookPrices, TicksIn
<1>3. i \in occupied[s]
    <2>1. queue[s][i] \in Seq(Nodes)
        BY <1>1, QueuedAt, Zenon
    <2>2. queue[s][i] # <<>>
        BY <1>1, <2>1, EmptyRange, Zenon
    <2> QED BY <1>1, <2>2, Zenon DEF BookPrices, BitsIn
<1>4. /\ ~IsBetter(s, pool[n].price, best[s])
      /\ \E w \in Nodes : pool[w] # NoOrder /\ pool[w].side = s /\ pool[w].price = best[s]
    BY <1>1, Zenon DEF BookPrices, BestIn
<1>5. PICK w \in Nodes : pool[w] # NoOrder /\ pool[w].side = s /\ pool[w].price = best[s]
    BY <1>4
<1>6. best[s] \in Int /\ InRange(best[s]) /\ OnTick(best[s])
    <2>1. w \in LiveNodes
        BY <1>5 DEF LiveNodes
    <2>2. pool[w].price \in Int /\ InRange(pool[w].price)
        BY <2>1, LiveNode, Zenon
    <2>3. OnTick(pool[w].price)
        BY <1>5, Zenon DEF BookPrices, TicksIn
    <2> QED BY <1>5, <2>2, <2>3, Zenon
<1> QED BY <1>1, <1>2, <1>3, <1>4, <1>6, Zenon

\* The walk visits the level of every resting order, and stands there on that order's price.
LEMMA WalkVisits ==
    ASSUME BookInv, BookPrices, NEW n \in LiveNodes
    PROVE  /\ Index(pool[n].price) \in VisitedSlots(pool[n].side)
           /\ WalkPrice(pool[n].side, Index(pool[n].price)) = pool[n].price
<1> DEFINE s == pool[n].side
           x == pool[n].price
           b == best[s]
<1>1. /\ s \in Sides /\ x \in Int /\ InRange(x) /\ OnTick(x) /\ Index(x) \in occupied[s]
      /\ ~IsBetter(s, x, b) /\ b \in Int /\ InRange(b) /\ OnTick(b)
    BY LivePrice, Zenon
<1>2. /\ Index(x) = Index(b) => x = b
      /\ IsBetter(s, b, x) <=> Worse(s, Index(b), Index(x))
      /\ x # b => IsBetter(s, x, b) \/ IsBetter(s, b, x)
    <2> HIDE DEF s, x, b
    <2> QED BY <1>1, TickOrder, Zenon
<1>3. HasBest(s)
    BY <1>1, ConfigAssumption DEF HasBest, EmptySentinel, InRange
<1>4. Index(x) \in VisitedSlots(s)
    BY <1>1, <1>2, <1>3, Zenon DEF VisitedSlots
<1>5. WalkPrice(s, Index(x)) = x
    BY <1>1, <1>2, Zenon DEF WalkPrice, OnTick
<1> QED BY <1>4, <1>5

\* Only slots are visited.
LEMMA VisitedAreSlots ==
    ASSUME BookInv, NEW s \in Sides
    PROVE  VisitedSlots(s) \subseteq Slots
<1>1. occupied[s] \subseteq Slots
    BY DEF BookInv, BookTypeOK
<1>2. ASSUME HasBest(s) PROVE Index(best[s]) \in Slots
    <2>1. best[s] \in Int /\ InRange(best[s])
        BY <1>2 DEF BookInv, BookTypeOK, HasBest
    <2> QED BY <2>1, IndexIsSlot
<1> QED BY <1>1, <1>2 DEF VisitedSlots

\* The order of the walk is price-time priority.
LEMMA WalkOrder ==
    ASSUME BookInv, BookPrices, NEW m \in LiveNodes, NEW n \in LiveNodes,
           pool[m].side = pool[n].side
    PROVE  MetBefore(m, n) <=> Precedes(pool[m], pool[n])
<1> DEFINE s == pool[m].side
           a == pool[m].price
           b == pool[n].price
           q == queue[s][Index(a)]
<1>1. /\ s \in Sides /\ a \in Int /\ InRange(a) /\ OnTick(a) /\ Index(a) \in Slots
      /\ m \in Range(q) /\ pool[m].seq \in Nat
    BY LivePrice, Zenon
<1>2. /\ b \in Int /\ InRange(b) /\ OnTick(b) /\ Index(b) \in Slots
      /\ n \in Range(queue[s][Index(b)]) /\ pool[n].seq \in Nat
    BY LivePrice, Zenon
<1>3. /\ Index(a) = Index(b) => a = b
      /\ IsBetter(s, a, b) <=> Worse(s, Index(a), Index(b))
    <2> HIDE DEF s, a, b
    <2> QED BY <1>1, <1>2, TickOrder, Zenon
<1>4. /\ q \in Seq(Nodes)
      /\ \A l \in Range(q) : Index(pool[l].price) = Index(a)
      /\ \A j, k \in DOMAIN q : j < k => pool[q[j]].seq < pool[q[k]].seq
    <2>1. \A t \in Sides, i \in Slots :
             /\ queue[t][i] \in Seq(Nodes)
             /\ \A l \in Range(queue[t][i]) : Index(pool[l].price) = i
             /\ \A j, k \in DOMAIN queue[t][i] :
                   j < k => pool[queue[t][i][j]].seq < pool[queue[t][i][k]].seq
        BY QueuedAt, Zenon
    <2> HIDE DEF a, s
    <2> QED BY <1>1, <2>1, Zenon
<1>5. MetBefore(m, n) <=> \/ Worse(s, Index(a), Index(b))
                         \/ \E j, k \in DOMAIN q : j < k /\ q[j] = m /\ q[k] = n
    BY Zenon DEF MetBefore
<1>6. ASSUME a = b, pool[m].seq < pool[n].seq
      PROVE  \E j, k \in DOMAIN q : j < k /\ q[j] = m /\ q[k] = n
    <2>1. n \in Range(q)
        BY <1>2, <1>6
    <2> HIDE DEF q
    <2>2. DOMAIN q \subseteq Int /\ \A e \in Range(q) : \E k \in DOMAIN q : q[k] = e
        BY <1>4, SeqFacts
    <2>3. PICK j \in DOMAIN q : q[j] = m
        BY <1>1, <2>2
    <2>4. PICK k \in DOMAIN q : q[k] = n
        BY <2>1, <2>2
    <2>5. j # k /\ ~(k < j)
        <3>1. m # n
            BY <1>1, <1>6
        <3>2. k < j => pool[n].seq < pool[m].seq
            BY <1>4, <2>3, <2>4, Zenon
        <3> QED BY <1>1, <1>2, <1>6, <2>3, <2>4, <3>1, <3>2
    <2>6. j < k
        BY <2>2, <2>3, <2>4, <2>5
    <2> QED BY <2>3, <2>4, <2>6
<1>7. ASSUME NEW j \in DOMAIN q, NEW k \in DOMAIN q, j < k, q[j] = m, q[k] = n
      PROVE  a = b /\ pool[m].seq < pool[n].seq
    <2>1. n \in Range(q)
        <3> HIDE DEF q
        <3> QED BY <1>4, <1>7, SeqFacts
    <2>2. Index(b) = Index(a)
        BY <1>4, <2>1, Zenon
    <2>3. pool[q[j]].seq < pool[q[k]].seq
        BY <1>4, <1>7, Zenon
    <2> QED BY <1>3, <1>7, <2>2, <2>3, Zenon
<1> QED BY <1>3, <1>5, <1>6, <1>7, Zenon DEF Precedes

\* The head of the best opposite level has priority over every other order of that side.
LEMMA RestingFirst ==
    ASSUME IInv, PriceInv, CanMatch, NEW m \in LiveNodes, pool[m].side = Opp, m # Resting
    PROVE  Precedes(pool[Resting], pool[m])
<1> DEFINE q == BestQueue
<1>1. BookInv /\ BookPrices /\ BestQueue # <<>>
    BY IInvParts, BestLevelOccupied, Zenon DEF PriceInv
<1>2. /\ Resting \in LiveNodes /\ pool[Resting].price = best[Opp] /\ Opp \in Sides
      /\ best[Opp] \in Int /\ Index(best[Opp]) \in Slots
    BY <1>1, RestingAtBest, Zenon
<1>3. pool[Resting].side = Opp
    BY <1>1, CanMatchFacts, Zenon
<1>4. /\ pool[m].price \in Int /\ ~IsBetter(Opp, pool[m].price, best[Opp])
      /\ m \in Range(queue[Opp][Index(pool[m].price)])
    BY <1>1, LivePrice, Zenon
<1>5. CASE pool[m].price # best[Opp]
    <2>1. IsBetter(Opp, best[Opp], pool[m].price)
        BY <1>2, <1>4, <1>5 DEF IsBetter
    <2> QED BY <1>2, <1>3, <2>1, Zenon DEF Precedes
<1>6. CASE pool[m].price = best[Opp]
    <2>1. m \in Range(q)
        BY <1>4, <1>6, Zenon DEF BestQueue
    <2>2. /\ q \in Seq(Nodes) /\ q # <<>>
          /\ \A j, k \in DOMAIN q : j < k => pool[q[j]].seq < pool[q[k]].seq
        BY <1>1, <1>2, QueuedAt, Zenon DEF BestQueue
    <2>3. Resting = Head(q)
        BY DEF Resting
    <2> HIDE DEF q
    <2>4. 1 \in DOMAIN q /\ Resting = q[1]
        BY <2>2, <2>3, TailFacts
    <2>5. PICK k \in DOMAIN q : q[k] = m
        BY <2>1, <2>2, SeqFacts
    <2>6. 1 < k
        <3>1. k \in Int /\ k >= 1
            BY <2>2, <2>5, SeqFacts
        <3> QED BY <2>4, <2>5, <3>1
    <2>7. pool[Resting].seq < pool[m].seq
        BY <2>2, <2>4, <2>5, <2>6, Zenon
    <2> QED BY <1>2, <1>6, <2>7, Zenon DEF Precedes
<1> QED BY <1>5, <1>6
=============================================================================

-------------------------- MODULE OrderBookLemmas ---------------------------
(***************************************************************************)
(* Facts about what OrderBook is built from, and that every step of a call *)
(* keeps its indexes in agreement.                                         *)
(*                                                                         *)
(* First numbers and sequences: integer division (prices and slots), the   *)
(* least and the greatest element of a set, and the sequences the queues   *)
(* and the free list are. Then the slot arithmetic of LevelMap, the search *)
(* for the next occupied level, and the two ways an order moves            *)
(* (LeaveBook, EnterBook): every operation that changes who rests goes     *)
(* through one of them.                                                    *)
(*                                                                         *)
(* The second half has the inductive invariant IInv, with one lemma per    *)
(* action of submit, cancel and replace. IInv is needed because the        *)
(* properties themselves are not inductive: one has to know what an order  *)
(* being matched may assume (CallInv), and that the part of a snapshot     *)
(* still to be restored fits the book rebuilt so far (TodoExact,           *)
(* TodoFits).                                                              *)
(***************************************************************************)
EXTENDS OrderBook, WellFoundedInduction, TLAPS

\* Integer division rounds down.
LEMMA DivFacts ==
    ASSUME NEW t \in Nat \ {0}, NEW a \in Nat
    PROVE  /\ a \div t \in Nat
           /\ t * (a \div t) <= a
           /\ a < t * (a \div t) + t
BY Z3T(30)

\* Multiplication by a positive number is strictly monotone.
LEMMA TimesMonotone ==
    ASSUME NEW t \in Nat \ {0}, NEW i \in Nat, NEW j \in Nat
    PROVE  /\ i <= j => t * i <= t * j
           /\ i < j => t * i + t <= t * j
BY SMTT(30)

\* Integer division is monotone: a price in range has a slot (LevelMap::index()).
LEMMA DivMonotone ==
    ASSUME NEW t \in Nat \ {0}, NEW a \in Nat, NEW b \in Nat, a <= b
    PROVE  a \div t <= b \div t
<1> DEFINE x == a \div t
           y == b \div t
<1>1. x \in Nat /\ y \in Nat /\ t * x <= a /\ b < t * y + t
    BY DivFacts
<1> HIDE DEF x, y
<1>2. CASE y < x
    <2> DEFINE u == t * y
               v == t * x
    <2>1. u + t <= v
        BY <1>1, <1>2, TimesMonotone
    <2>2. u \in Nat /\ v \in Nat
        BY <1>1
    <2> HIDE DEF u, v
    <2> QED BY <1>1, <2>1, <2>2 DEF u, v
<1> QED BY <1>1, <1>2 DEF x, y
-----------------------------------------------------------------------------
\* The relation < on the natural numbers, for the well-foundedness theorems.
NatLess == {p \in Nat \X Nat : p[1] < p[2]}

\* Min picks a least element of any nonempty set of naturals.
LEMMA MinExists ==
    ASSUME NEW T \in SUBSET Nat, T # {}
    PROVE  /\ Min(T) \in T
           /\ \A x \in T : Min(T) <= x
<1>1. OpToRel(<, Nat) = NatLess
    BY Zenon DEF OpToRel, NatLess
<1>2. IsWellFoundedOn(NatLess, Nat)
    BY <1>1, NatLessThanWellFounded, Zenon
<1>3. \E x \in T : \A y \in T : ~(<<y, x>> \in NatLess)
    BY <1>2, WFMin, Zenon
<1>4. \E x \in T : \A y \in T : x =< y
    <2>1. \A x, y \in Nat : y < x => <<y, x>> \in NatLess
        BY SMT DEF NatLess
    <2>2. \A x, y \in Nat : ~(y < x) => x =< y
        BY SMT
    <2>3. \A x \in T : x \in Nat
        OBVIOUS
    <2> QED BY <1>3, <2>1, <2>2, <2>3, Zenon
<1> QED BY <1>4, Zenon DEF Min

\* Max picks a greatest element of a nonempty bounded set of naturals.
LEMMA MaxExists ==
    ASSUME NEW N \in Nat, NEW T \in SUBSET (0 .. N), T # {}
    PROVE  /\ Max(T) \in T
           /\ \A x \in T : Max(T) >= x
<1> DEFINE U == {k \in 0 .. N : N - k \in T}
<1>1. U \in SUBSET Nat /\ U # {}
    <2>1. PICK x \in T : TRUE
        BY Zenon
    <2>2. N - x \in 0 .. N /\ N - (N - x) = x
        BY SMT
    <2>3. N - x \in U
        BY <2>2
    <2>4. U \subseteq Nat
        BY SMT
    <2> HIDE DEF U
    <2> QED BY <2>3, <2>4
<1>2. Min(U) \in U /\ \A k \in U : Min(U) <= k
    BY <1>1, MinExists
<1> HIDE DEF U
<1>3. \E x \in T : \A y \in T : x >= y
    <2>1. Min(U) \in 0 .. N /\ N - Min(U) \in T
        BY <1>2 DEF U
    <2>2. \A y \in T : N - y \in U
        BY SMT DEF U
    <2>3. \A y \in T : N - Min(U) >= y
        BY <1>2, <2>1, <2>2, SMT
    <2> QED BY <2>1, <2>3
<1> QED BY <1>3, Zenon DEF Max

\* The largest and the smallest element of a set of integers that has one.
LEMMA ExtremeIs ==
    ASSUME NEW T \in SUBSET Int, NEW x \in T
    PROVE  /\ (\A y \in T : x >= y) => Max(T) = x
           /\ (\A y \in T : x <= y) => Min(T) = x
<1>1. ASSUME \A y \in T : x >= y PROVE Max(T) = x
    <2>1. Max(T) \in T /\ \A y \in T : Max(T) >= y
        BY <1>1, Zenon DEF Max
    <2>2. Max(T) >= x /\ x >= Max(T) /\ Max(T) \in Int
        BY <1>1, <2>1, Zenon
    <2> QED BY <2>2, SMT
<1>2. ASSUME \A y \in T : x <= y PROVE Min(T) = x
    <2>1. Min(T) \in T /\ \A y \in T : Min(T) <= y
        BY <1>2, Zenon DEF Min
    <2>2. Min(T) <= x /\ x <= Min(T) /\ Min(T) \in Int
        BY <1>2, <2>1, Zenon
    <2> QED BY <2>2, SMT
<1> QED BY <1>1, <1>2
-----------------------------------------------------------------------------
\* The empty sequence, and what it means not to be it.
LEMMA EmptyIs ==
    ASSUME NEW S
    PROVE  /\ <<>> \in Seq(S) /\ Len(<<>>) = 0
           /\ \A q \in Seq(S) : q # <<>> => Len(q) > 0
OBVIOUS

\* Append() adds at the end.
LEMMA AppendIs ==
    ASSUME NEW S, NEW q \in Seq(S), NEW e \in S
    PROVE  /\ Append(q, e) \in Seq(S) /\ Len(Append(q, e)) = Len(q) + 1
           /\ Append(q, e)[Len(q) + 1] = e
           /\ \A k \in 1 .. Len(q) : Append(q, e)[k] = q[k]
OBVIOUS

\* Tail() moves every element up by one.
LEMMA TailIs ==
    ASSUME NEW S, NEW q \in Seq(S), q # <<>>
    PROVE  /\ Head(q) \in S /\ Tail(q) \in Seq(S) /\ Len(Tail(q)) = Len(q) - 1
           /\ \A k \in 1 .. Len(q) - 1 : Tail(q)[k] = q[k + 1]
OBVIOUS

\* The elements of a concatenation.
LEMMA ConcatIs ==
    ASSUME NEW S, NEW a \in Seq(S), NEW b \in Seq(S)
    PROVE  /\ a \o b \in Seq(S) /\ Len(a \o b) = Len(a) + Len(b)
           /\ \A k \in 1 .. Len(a) + Len(b) :
                 (a \o b)[k] = IF k <= Len(a) THEN a[k] ELSE b[k - Len(a)]
OBVIOUS

\* The elements of a part of a sequence.
LEMMA SubSeqIs ==
    ASSUME NEW S, NEW q \in Seq(S), NEW m \in 1 .. Len(q) + 1, NEW n \in 0 .. Len(q)
    PROVE  /\ SubSeq(q, m, n) \in Seq(S)
           /\ Len(SubSeq(q, m, n)) = IF m <= n THEN n - m + 1 ELSE 0
           /\ \A k \in 1 .. n - m + 1 : SubSeq(q, m, n)[k] = q[m + k - 1]
OBVIOUS

\* What the provers need to know of a sequence as a function, and of the set of its elements.
LEMMA SeqFacts ==
    ASSUME NEW S, NEW q \in Seq(S)
    PROVE  /\ Len(q) \in Nat
           /\ DOMAIN q = 1 .. Len(q)
           /\ \A k \in 1 .. Len(q) : q[k] \in S
           /\ Range(q) \subseteq S
           /\ \A e : e \in Range(q) <=> \E k \in 1 .. Len(q) : q[k] = e
BY DEF Range

\* Putting a new element at the end (PriceLevel::enqueue()) keeps the order of the others.
LEMMA AppendFacts ==
    ASSUME NEW S, NEW q \in Seq(S), IsInjective(q), NEW e \in S, e \notin Range(q)
    PROVE  /\ Append(q, e) \in Seq(S)
           /\ IsInjective(Append(q, e))
           /\ Range(Append(q, e)) = Range(q) \cup {e}
           /\ \A j, k \in DOMAIN Append(q, e) : j < k =>
                 /\ j \in DOMAIN q /\ Append(q, e)[j] = q[j]
                 /\ \/ k \in DOMAIN q /\ Append(q, e)[k] = q[k]
                    \/ k \notin DOMAIN q /\ Append(q, e)[k] = e
<1> DEFINE r == Append(q, e)
<1>1. /\ Len(q) \in Nat /\ DOMAIN q = 1 .. Len(q)
      /\ \A k \in 1 .. Len(q) : q[k] \in S /\ q[k] # e
    BY SeqFacts
<1>2. /\ r \in Seq(S) /\ Len(r) = Len(q) + 1
      /\ \A k \in 1 .. Len(q) : r[k] = q[k]
      /\ r[Len(q) + 1] = e
    BY <1>1, AppendIs
<1> HIDE DEF r
<1>3. DOMAIN r = 1 .. Len(q) + 1
    BY <1>2, SeqFacts
<1>4. IsInjective(r)
    BY <1>1, <1>2, <1>3 DEF IsInjective
<1>5. Range(r) = Range(q) \cup {e}
    BY <1>1, <1>2, <1>3 DEF Range
<1>6. \A j, k \in DOMAIN r : j < k =>
         /\ j \in DOMAIN q /\ r[j] = q[j]
         /\ \/ k \in DOMAIN q /\ r[k] = q[k]
            \/ k \notin DOMAIN q /\ r[k] = e
    BY <1>1, <1>2, <1>3
<1> QED BY <1>2, <1>4, <1>5, <1>6 DEF r

\* Taking the first element of a sequence without repetitions (ObjectPool::acquire()).
LEMMA TailFacts ==
    ASSUME NEW S, NEW q \in Seq(S), q # <<>>
    PROVE  /\ Head(q) \in Range(q) /\ Head(q) \in S
           /\ Tail(q) \in Seq(S)
           /\ Range(q) = {Head(q)} \cup Range(Tail(q))
           /\ IsInjective(q) => IsInjective(Tail(q)) /\ Range(Tail(q)) = Range(q) \ {Head(q)}
           /\ \A k \in DOMAIN Tail(q) : k + 1 \in DOMAIN q /\ Tail(q)[k] = q[k + 1]
           /\ 1 \in DOMAIN q /\ Head(q) = q[1]
<1> DEFINE r == Tail(q)
<1>1. /\ Len(q) \in Nat \ {0} /\ DOMAIN q = 1 .. Len(q)
      /\ \A k \in 1 .. Len(q) : q[k] \in S
    BY SeqFacts, EmptyIs
<1>2. /\ r \in Seq(S) /\ Len(r) = Len(q) - 1
      /\ \A k \in 1 .. Len(r) : r[k] = q[k + 1]
    BY TailIs
<1>3. Head(q) = q[1]
    BY <1>1
<1> HIDE DEF r
<1>4. DOMAIN r = 1 .. Len(q) - 1
    BY <1>2, SeqFacts
<1>5. Range(q) = {q[1]} \cup Range(r)
    <2>1. ASSUME NEW x \in Range(q) PROVE x \in {q[1]} \cup Range(r)
        <3>1. PICK k \in 1 .. Len(q) : q[k] = x
            BY <1>1 DEF Range
        <3>2. CASE k # 1
            <4>1. k - 1 \in 1 .. Len(q) - 1 /\ (k - 1) + 1 = k
                BY <1>1, <3>2
            <4>2. r[k - 1] = x
                BY <1>2, <3>1, <4>1
            <4> QED BY <1>4, <4>1, <4>2 DEF Range
        <3> QED BY <3>1, <3>2
    <2>2. Range(r) \subseteq Range(q)
        <3>1. \A k \in DOMAIN r : k + 1 \in DOMAIN q /\ r[k] = q[k + 1]
            BY <1>1, <1>2, <1>4
        <3> QED BY <3>1 DEF Range
    <2>3. q[1] \in Range(q)
        BY <1>1 DEF Range
    <2> QED BY <2>1, <2>2, <2>3
<1>6. ASSUME IsInjective(q) PROVE IsInjective(r) /\ q[1] \notin Range(r)
    <2>1. \A j \in 1 .. Len(q) - 1 : j + 1 \in DOMAIN q /\ r[j] = q[j + 1] /\ j + 1 # 1
        BY <1>1, <1>2
    <2>2. \A j, k \in 1 .. Len(q) - 1 : r[j] = r[k] => j + 1 = k + 1
        BY <1>6, <2>1 DEF IsInjective
    <2>3. IsInjective(r)
        BY <1>1, <1>4, <2>2 DEF IsInjective
    <2>4. 1 \in DOMAIN q
        BY <1>1
    <2>5. q[1] \notin Range(r)
        BY <1>4, <1>6, <2>1, <2>4 DEF IsInjective, Range
    <2> QED BY <2>3, <2>5
<1>7. \A k \in DOMAIN r : k + 1 \in DOMAIN q /\ r[k] = q[k + 1]
    BY <1>1, <1>2, <1>4
<1>8. q[1] \in Range(q) /\ q[1] \in S
    BY <1>1 DEF Range
<1>9. IsInjective(q) => IsInjective(r) /\ Range(r) = Range(q) \ {q[1]}
    BY <1>5, <1>6
<1> QED BY <1>1, <1>2, <1>3, <1>5, <1>7, <1>8, <1>9 DEF r

\* Putting a new element in front (ObjectPool::release()).
LEMMA ConsFacts ==
    ASSUME NEW S, NEW q \in Seq(S), IsInjective(q), NEW e \in S, e \notin Range(q)
    PROVE  /\ <<e>> \o q \in Seq(S)
           /\ IsInjective(<<e>> \o q)
           /\ Range(<<e>> \o q) = Range(q) \cup {e}
<1> DEFINE r == <<e>> \o q
<1>1. /\ Len(q) \in Nat /\ DOMAIN q = 1 .. Len(q)
      /\ \A k \in 1 .. Len(q) : q[k] \in S /\ q[k] # e
    BY SeqFacts
<1>2. /\ <<e>> \in Seq(S) /\ Len(<<e>>) = 1 /\ <<e>>[1] = e
    OBVIOUS
<1>3. /\ r \in Seq(S) /\ Len(r) = Len(q) + 1
      /\ \A i \in 1 .. Len(q) + 1 : r[i] = IF i <= 1 THEN <<e>>[i] ELSE q[i - 1]
    BY <1>1, <1>2, ConcatIs
<1> HIDE DEF r
<1>4. DOMAIN r = 1 .. Len(q) + 1 /\ r[1] = e /\ \A k \in 2 .. Len(q) + 1 : r[k] = q[k - 1]
    BY <1>1, <1>2, <1>3, SeqFacts
<1>5. IsInjective(r)
    BY <1>1, <1>4 DEF IsInjective
<1>6. Range(r) = Range(q) \cup {e}
    <2>1. Range(r) \subseteq Range(q) \cup {e}
        BY <1>1, <1>4 DEF Range
    <2>2. ASSUME NEW x \in Range(q) PROVE x \in Range(r)
        <3>1. PICK k \in 1 .. Len(q) : q[k] = x
            BY <1>1 DEF Range
        <3>2. k + 1 \in 2 .. Len(q) + 1 /\ (k + 1) - 1 = k
            BY <1>1
        <3>3. r[k + 1] = x
            BY <1>4, <3>1, <3>2
        <3> QED BY <1>1, <1>4, <3>2, <3>3 DEF Range
    <2>3. e \in Range(r)
        BY <1>1, <1>4 DEF Range
    <2> QED BY <2>1, <2>2, <2>3
<1> QED BY <1>3, <1>5, <1>6 DEF r

\* A sequence is empty when it has no elements.
LEMMA EmptyRange ==
    ASSUME NEW S, NEW q \in Seq(S)
    PROVE  q = <<>> <=> Range(q) = {}
<1>1. Len(q) \in Nat /\ \A e : e \in Range(q) <=> \E k \in 1 .. Len(q) : q[k] = e
    BY SeqFacts
<1>2. q = <<>> <=> Len(q) = 0
    BY EmptyIs
<1>3. Len(q) # 0 => 1 \in 1 .. Len(q)
    BY <1>1
<1>4. Len(q) = 0 => Range(q) = {}
    BY <1>1
<1> QED BY <1>1, <1>2, <1>3, <1>4, Zenon
-----------------------------------------------------------------------------
(***************************************************************************)
(* The book: levels, nodes, and an order that leaves or enters.            *)
(***************************************************************************)
\* Taking an element out of a sequence without repetitions (PriceLevel::unlink()) leaves
\* exactly the others, without repetitions and in the same relative order.
LEMMA UnlinkFacts ==
    ASSUME NEW S, NEW q \in Seq(S), IsInjective(q), NEW e \in Range(q)
    PROVE  /\ Unlink(q, e) \in Seq(S)
           /\ IsInjective(Unlink(q, e))
           /\ Range(Unlink(q, e)) = Range(q) \ {e}
           /\ \A j, k \in DOMAIN Unlink(q, e) : j < k =>
                 \E a, b \in DOMAIN q : a < b /\ q[a] = Unlink(q, e)[j]
                                              /\ q[b] = Unlink(q, e)[k]
<1>1. PICK m \in 1 .. Len(q) : q[m] = e
    BY SeqFacts
<1>2. \A j \in DOMAIN q : q[j] = e <=> j = m
    BY <1>1, SeqFacts DEF IsInjective
<1>3. m \in DOMAIN q
    BY <1>1, SeqFacts
<1>4. (CHOOSE j \in DOMAIN q : q[j] = e) = m
    BY <1>2, <1>3, Zenon
<1> DEFINE r == SubSeq(q, 1, m - 1) \o SubSeq(q, m + 1, Len(q))
<1>5. Unlink(q, e) = r
    BY <1>4, Zenon DEF Unlink
<1>6. /\ Len(q) \in Nat /\ DOMAIN q = 1 .. Len(q)
      /\ \A k \in 1 .. Len(q) : q[k] \in S
    BY SeqFacts
<1> DEFINE a == SubSeq(q, 1, m - 1)
           b == SubSeq(q, m + 1, Len(q))
<1>7. /\ a \in Seq(S) /\ Len(a) = m - 1
      /\ \A k \in 1 .. m - 1 : a[k] = q[k]
    <2>1. 1 \in 1 .. Len(q) + 1 /\ m - 1 \in 0 .. Len(q)
        BY <1>1, <1>6
    <2> QED BY <1>1, <1>6, <2>1, SubSeqIs
<1>8. /\ b \in Seq(S) /\ Len(b) = Len(q) - m
      /\ \A k \in 1 .. Len(q) - m : b[k] = q[m + k]
    <2>1. m + 1 \in 1 .. Len(q) + 1 /\ Len(q) \in 0 .. Len(q)
        BY <1>1, <1>6
    <2>2. /\ b \in Seq(S)
          /\ Len(b) = IF m + 1 <= Len(q) THEN Len(q) - (m + 1) + 1 ELSE 0
          /\ \A k \in 1 .. Len(q) - (m + 1) + 1 : b[k] = q[(m + 1) + k - 1]
        BY <1>1, <1>6, <2>1, SubSeqIs
    <2> HIDE DEF b
    <2>3. Len(b) = Len(q) - m
        <3>1. \A x \in Nat : \A y \in 1 .. x :
                 (IF y + 1 <= x THEN x - (y + 1) + 1 ELSE 0) = x - y
            OBVIOUS
        <3> QED BY <1>6, <2>2, <3>1, Zenon
    <2>4. ASSUME NEW k \in 1 .. Len(q) - m
          PROVE  b[k] = q[m + k]
        <3>1. k \in 1 .. Len(q) - (m + 1) + 1 /\ (m + 1) + k - 1 = m + k
            BY <1>1, <1>6
        <3>2. b[k] = q[(m + 1) + k - 1]
            BY <2>2, <3>1
        <3> QED BY <3>1, <3>2
    <2> QED BY <2>2, <2>3, <2>4
<1> HIDE DEF a, b
<1>9. /\ r \in Seq(S) /\ Len(r) = Len(q) - 1
      /\ \A k \in 1 .. Len(q) - 1 : r[k] = IF k < m THEN q[k] ELSE q[k + 1]
    <2>1. r = a \o b
        BY DEF a, b
    <2> HIDE DEF r
    <2>2. /\ r \in Seq(S) /\ Len(r) = Len(a) + Len(b)
          /\ \A k \in 1 .. Len(a) + Len(b) :
                r[k] = IF k <= Len(a) THEN a[k] ELSE b[k - Len(a)]
        BY <1>7, <1>8, <2>1, ConcatIs, Zenon
    <2>3. Len(a) + Len(b) = Len(q) - 1
        BY <1>1, <1>6, <1>7, <1>8
    <2>4. ASSUME NEW k \in 1 .. Len(q) - 1
          PROVE  r[k] = IF k < m THEN q[k] ELSE q[k + 1]
        <3>1. CASE k < m
            <4>1. k \in 1 .. m - 1 /\ k <= Len(a)
                BY <1>1, <1>6, <1>7, <3>1
            <4> QED BY <1>7, <2>2, <2>3, <3>1, <4>1
        <3>2. CASE ~(k < m)
            <4>1. /\ ~(k <= Len(a))
                  /\ k - Len(a) \in 1 .. Len(q) - m
                  /\ m + (k - Len(a)) = k + 1
                BY <1>1, <1>6, <1>7, <3>2
            <4>2. r[k] = b[k - Len(a)]
                BY <2>2, <2>3, <4>1
            <4>3. b[k - Len(a)] = q[m + (k - Len(a))]
                BY <1>8, <4>1
            <4> QED BY <3>2, <4>1, <4>2, <4>3
        <3> QED BY <3>1, <3>2
    <2> QED BY <2>2, <2>3, <2>4
<1> HIDE DEF r
<1>10. DOMAIN r = 1 .. Len(q) - 1
    BY <1>9, SeqFacts
\* Where the k-th element that is left was before.
<1> DEFINE from(k) == IF k < m THEN k ELSE k + 1
<1>from1. \A k \in DOMAIN r : from(k) \in DOMAIN q /\ from(k) # m /\ r[k] = q[from(k)]
    BY <1>1, <1>6, <1>9, <1>10
<1>from2. \A j, k \in DOMAIN r : from(j) = from(k) => j = k
    BY <1>1, <1>6, <1>10
<1> HIDE DEF from
<1>11. IsInjective(r)
    <2> SUFFICES ASSUME NEW j \in DOMAIN r, NEW k \in DOMAIN r, r[j] = r[k]
                 PROVE j = k
        BY DEF IsInjective
    <2>1. from(j) = from(k)
        BY <1>from1 DEF IsInjective
    <2> QED BY <1>from2, <2>1
<1>12. Range(r) = Range(q) \ {e}
    <2>1. ASSUME NEW x \in Range(r) PROVE x \in Range(q) \ {e}
        <3>1. PICK k \in DOMAIN r : r[k] = x
            BY <2>1 DEF Range
        <3>2. from(k) \in DOMAIN q /\ from(k) # m /\ q[from(k)] = x
            BY <1>from1, <3>1
        <3>3. q[from(k)] # q[m]
            BY <1>1, <1>6, <3>2 DEF IsInjective
        <3> QED BY <1>1, <3>2, <3>3 DEF Range
    <2>2. ASSUME NEW x \in Range(q) \ {e} PROVE x \in Range(r)
        <3>1. PICK k \in 1 .. Len(q) : q[k] = x /\ k # m
            BY <1>1, <1>6, <2>2 DEF Range
        <3>2. k < m => r[k] = x /\ k \in 1 .. Len(q) - 1
            BY <1>1, <1>6, <1>9, <3>1
        <3>3. ~(k < m) => r[k - 1] = x /\ k - 1 \in 1 .. Len(q) - 1
            BY <1>1, <1>6, <1>9, <3>1
        <3> QED BY <3>2, <3>3, <1>10 DEF Range
    <2> QED BY <2>1, <2>2
<1>13. \A j, k \in DOMAIN r : j < k => \E c, d \in DOMAIN q : c < d /\ q[c] = r[j] /\ q[d] = r[k]
    <2> SUFFICES ASSUME NEW j \in DOMAIN r, NEW k \in DOMAIN r, j < k
                 PROVE \E c, d \in DOMAIN q : c < d /\ q[c] = r[j] /\ q[d] = r[k]
        OBVIOUS
    <2>1. CASE k < m
        BY <2>1, <1>1, <1>6, <1>9, <1>10
    <2>2. CASE ~(k < m) /\ j < m
        <3>1. j \in DOMAIN q /\ k + 1 \in DOMAIN q /\ j < k + 1
            BY <1>1, <1>6, <1>10
        <3> QED BY <2>2, <3>1, <1>9, <1>10
    <2>3. CASE ~(k < m) /\ ~(j < m)
        <3>1. j + 1 \in DOMAIN q /\ k + 1 \in DOMAIN q /\ j + 1 < k + 1
            BY <1>1, <1>6, <1>10
        <3> QED BY <2>3, <3>1, <1>9, <1>10
    <2> QED BY <2>1, <2>2, <2>3
<1> QED BY <1>5, <1>9, <1>11, <1>12, <1>13
-----------------------------------------------------------------------------
\* The part of the type invariant that is about the stored book, not about the call in progress.
BookTypeOK ==
    /\ pool \in [Nodes -> Orders \cup {NoOrder}]
    /\ free \in Seq(Nodes)
    /\ idMap \in [OrderIds -> Nodes \cup {Null}]
    /\ queue \in [Sides -> [Slots -> Seq(Nodes)]]
    /\ totalQty \in [Sides -> [Slots -> Int]]
    /\ occupied \in [Sides -> SUBSET Slots]
    /\ best \in [Sides -> Int]
    /\ \A s \in Sides : best[s] = EmptySentinel(s) \/ InRange(best[s])

\* Within a price level the queue is ordered by arrival sequence number.
QueueOrder ==
    \A s \in Sides, i \in Slots : \A j, k \in DOMAIN queue[s][i] :
        j < k => pool[queue[s][i][j]].seq < pool[queue[s][i][k]].seq

\* What LeaveBook and EnterBook preserve: types, agreement of the indexes, FIFO order.
BookInv == BookTypeOK /\ IndexConsistent /\ QueueOrder

\* LevelMap::index (level_map.hpp:159): an in-range price has a slot of the array.
LEMMA IndexIsSlot ==
    ASSUME NEW p \in Int, InRange(p)
    PROVE  Index(p) \in Slots
<1>1. p - MinPrice \in Nat /\ MaxPrice - MinPrice \in Nat /\ p - MinPrice <= MaxPrice - MinPrice
    BY ConfigAssumption DEF InRange
<1>2. (p - MinPrice) \div Tick <= (MaxPrice - MinPrice) \div Tick
    BY <1>1, ConfigAssumption, DivMonotone
<1>3. (p - MinPrice) \div Tick \in Nat /\ (MaxPrice - MinPrice) \div Tick \in Nat
    BY <1>1, ConfigAssumption, DivFacts
<1> QED BY <1>2, <1>3 DEF Index, Slots, NumSlots

\* The price LevelMap::nextOccupied rebuilds from a slot number is in range.
LEMMA SlotPriceInRange ==
    ASSUME NEW i \in Slots
    PROVE  SlotPrice(i) \in Int /\ InRange(SlotPrice(i))
<1> DEFINE d == MaxPrice - MinPrice
           m == d \div Tick
<1>1. d \in Nat /\ m \in Nat /\ Tick * m <= d
    BY ConfigAssumption, DivFacts
<1>2. i \in Nat /\ i <= m
    BY <1>1 DEF Slots, NumSlots
<1> HIDE DEF m
<1>3. Tick * i <= Tick * m
    BY <1>1, <1>2, ConfigAssumption, TimesMonotone
<1>4. i * Tick \in Nat /\ i * Tick = Tick * i /\ Tick * m \in Nat
    BY <1>1, <1>2, ConfigAssumption
<1>5. i * Tick <= d
    BY <1>1, <1>3, <1>4
<1> QED BY <1>4, <1>5, ConfigAssumption DEF SlotPrice, InRange

\* LevelMap::nextOccupied (level_map.hpp:125) returns a price in range or the empty sentinel.
LEMMA NextOccupiedType ==
    ASSUME NEW s \in Sides, NEW occ \in SUBSET Slots, NEW i
    PROVE  /\ NextOccupied(s, occ, i) \in Int
           /\ \/ NextOccupied(s, occ, i) = EmptySentinel(s)
              \/ InRange(NextOccupied(s, occ, i))
<1> DEFINE beyond == {j \in occ : Worse(s, i, j)}
<1>1. beyond \in SUBSET Slots
    OBVIOUS
<1>2. NumSlots - 1 \in Nat /\ Slots = 0 .. (NumSlots - 1)
    BY ConfigAssumption, DivFacts DEF NumSlots, Slots
<1>3. EmptySentinel(s) \in Int
    BY ConfigAssumption DEF EmptySentinel
<1>4. NextOccupied(s, occ, i) = IF beyond = {} THEN EmptySentinel(s)
                                ELSE SlotPrice(IF s = "Buy" THEN Max(beyond) ELSE Min(beyond))
    BY DEF NextOccupied
<1> HIDE DEF beyond
<1>5. CASE beyond # {}
    <2>1. Max(beyond) \in Slots
        BY <1>1, <1>2, <1>5, MaxExists, ZenonT(60)
    <2>2. beyond \in SUBSET Nat
        BY <1>1, <1>2
    <2>3. Min(beyond) \in Slots
        BY <1>1, <1>5, <2>2, MinExists, ZenonT(60)
    <2> QED BY <1>4, <1>5, <2>1, <2>3, SlotPriceInRange
<1> QED BY <1>3, <1>4, <1>5

\* LevelMap::onLevelEmptied (level_map.hpp:108) leaves a legal bitset and a legal best price.
LEMMA OnLevelEmptiedType ==
    ASSUME BookTypeOK, NEW s \in Sides, NEW p \in Int, InRange(p), OnLevelEmptied(s, p)
    PROVE  /\ occupied' \in [Sides -> SUBSET Slots]
           /\ best' \in [Sides -> Int]
           /\ \A t \in Sides : best'[t] = EmptySentinel(t) \/ InRange(best'[t])
<1> DEFINE occ == occupied[s] \ {Index(p)}
           b == NextOccupied(s, occ, Index(p))
<1>1. occ \in SUBSET Slots
    BY DEF BookTypeOK
<1>2. b \in Int /\ (b = EmptySentinel(s) \/ InRange(b))
    BY <1>1, NextOccupiedType
<1>3. /\ occupied' = [occupied EXCEPT ![s] = occ]
      /\ best' = [best EXCEPT ![s] = IF p = best[s] THEN b ELSE best[s]]
    BY DEF OnLevelEmptied, BookTypeOK
<1> HIDE DEF occ, b
<1>4. occupied' \in [Sides -> SUBSET Slots]
    BY <1>1, <1>3 DEF BookTypeOK
<1>5. /\ best' \in [Sides -> Int]
      /\ \A t \in Sides : best'[t] = EmptySentinel(t) \/ InRange(best'[t])
    BY <1>2, <1>3 DEF BookTypeOK
<1> QED BY <1>4, <1>5

\* What holds of a pool node that carries a resting order: its fields have their types, its
\* price is in range, the id map leads to it and the queue of its level contains it.
LEMMA LiveNode ==
    ASSUME BookInv, NEW n \in LiveNodes
    PROVE  /\ n \in Nodes /\ pool[n] \in Orders /\ pool[n] # NoOrder
           /\ pool[n].id \in OrderIds /\ idMap[pool[n].id] = n
           /\ pool[n].side \in Sides
           /\ pool[n].price \in Int /\ InRange(pool[n].price)
           /\ Index(pool[n].price) \in Slots
           /\ pool[n].remaining \in Nat \ {0} /\ pool[n].quantity \in Nat \ {0}
           /\ pool[n].remaining <= pool[n].quantity
           /\ pool[n].seq \in Nat \ {0}
           /\ n \in Range(queue[pool[n].side][Index(pool[n].price)])
<1>1. n \in Nodes /\ pool[n] \in Orders /\ pool[n] # NoOrder
    BY DEF BookInv, BookTypeOK, LiveNodes
<1>2. /\ pool[n].id \in OrderIds /\ pool[n].side \in Sides
      /\ pool[n].price \in Int /\ InRange(pool[n].price)
      /\ pool[n].remaining \in Nat \ {0} /\ pool[n].quantity \in Nat \ {0}
      /\ pool[n].remaining <= pool[n].quantity
      /\ pool[n].seq \in Nat \ {0}
    BY <1>1, ConfigAssumption DEF Orders, InRange
<1>3. Index(pool[n].price) \in Slots
    BY <1>2, IndexIsSlot
<1>4. idMap[pool[n].id] = n
    BY <1>1, <1>2 DEF BookInv, IndexConsistent, IdMapExact
<1>5. n \in Range(queue[pool[n].side][Index(pool[n].price)])
    BY DEF BookInv, IndexConsistent, QueuesExact
<1> QED BY <1>1, <1>2, <1>3, <1>4, <1>5

\* What holds of the queue of a price level: its nodes carry live orders of that side and slot, each
\* of them once, in order of arrival.
LEMMA QueuedAt ==
    ASSUME BookInv, NEW s \in Sides, NEW i \in Slots
    PROVE  /\ queue[s][i] \in Seq(Nodes) /\ IsInjective(queue[s][i])
           /\ \A n \in Range(queue[s][i]) :
                 /\ n \in Nodes /\ n \in LiveNodes /\ pool[n] # NoOrder
                 /\ pool[n].side = s /\ Index(pool[n].price) = i
           /\ \A j, k \in DOMAIN queue[s][i] :
                 j < k => pool[queue[s][i][j]].seq < pool[queue[s][i][k]].seq
<1>1. queue[s][i] \in Seq(Nodes)
    BY Zenon DEF BookInv, BookTypeOK
<1>2. /\ IsInjective(queue[s][i])
      /\ \A n \in Range(queue[s][i]) :
            pool[n] # NoOrder /\ pool[n].side = s /\ Index(pool[n].price) = i
    BY Zenon DEF BookInv, IndexConsistent, QueuesExact
<1>3. \A j, k \in DOMAIN queue[s][i] :
         j < k => pool[queue[s][i][j]].seq < pool[queue[s][i][k]].seq
    BY Zenon DEF BookInv, QueueOrder
<1>4. Range(queue[s][i]) \subseteq Nodes
    BY <1>1, SeqFacts, Zenon
<1> QED BY <1>1, <1>2, <1>3, <1>4, Zenon DEF LiveNodes

\* The first free node holds no order.
LEMMA FreeNode ==
    ASSUME BookInv, free # <<>>
    PROVE  Head(free) \in Nodes /\ pool[Head(free)] = NoOrder
<1> DEFINE n == Head(free)
<1>1. free \in Seq(Nodes)
    BY Zenon DEF BookInv, BookTypeOK
<1>2. n \in Range(free) /\ n \in Nodes
    BY <1>1, TailFacts
<1> HIDE DEF n
<1>3. pool[n] = NoOrder
    BY <1>2, Zenon DEF BookInv, IndexConsistent, PoolExact
<1> QED BY <1>2, <1>3 DEF n

\* Taking one resting order out (unlink, onLevelEmptied, id erase, pool release: the tail of
\* matchInto, cancel and the cancelling half of replace) preserves BookInv.
LEMMA LeaveBookInv ==
    ASSUME BookInv, NEW n \in LiveNodes, NEW p \in Int, InRange(p), LeaveBook(n, p)
    PROVE  /\ BookInv'
           /\ pool' = [pool EXCEPT ![n] = NoOrder]
           /\ idMap' = [idMap EXCEPT ![pool[n].id] = Null]
<1> DEFINE o == pool[n]
           s == o.side
           i == Index(o.price)
           q == queue[s][i]
           r == Unlink(q, n)
<1>1. /\ n \in Nodes /\ o \in Orders /\ o # NoOrder
      /\ o.id \in OrderIds /\ idMap[o.id] = n /\ s \in Sides /\ i \in Slots
      /\ o.remaining \in Nat /\ n \in Range(q)
    BY LiveNode
<1>2. q \in Seq(Nodes) /\ IsInjective(q)
    BY <1>1 DEF BookInv, BookTypeOK, IndexConsistent, QueuesExact
<1>3. /\ queue' = [queue EXCEPT ![s][i] = r]
      /\ totalQty' = [totalQty EXCEPT ![s][i] = @ - o.remaining]
      /\ IF r = <<>> THEN OnLevelEmptied(s, p) ELSE UNCHANGED <<occupied, best>>
      /\ idMap' = [idMap EXCEPT ![o.id] = Null]
      /\ pool' = [pool EXCEPT ![n] = NoOrder]
      /\ free' = <<n>> \o free
    BY Zenon DEF LeaveBook, TakeFromTotal, EraseId
<1>4. /\ r \in Seq(Nodes) /\ IsInjective(r) /\ Range(r) = Range(q) \ {n}
      /\ \A j, k \in DOMAIN r : j < k => \E a, b \in DOMAIN q : a < b /\ q[a] = r[j] /\ q[b] = r[k]
    <2>1. n \in Range(q)
        BY <1>1
    <2> HIDE DEF q
    <2> QED BY <2>1, <1>2, UnlinkFacts
<1>5. n \notin Range(free) /\ free \in Seq(Nodes) /\ IsInjective(free)
    BY <1>1 DEF BookInv, BookTypeOK, IndexConsistent, PoolExact
<1>6. free' \in Seq(Nodes) /\ IsInjective(free') /\ Range(free') = Range(free) \cup {n}
    BY <1>1, <1>3, <1>5, ConsFacts, SMTT(60)
<1>7. \A t \in Sides, l \in Slots :
         queue'[t][l] = IF t = s /\ l = i THEN r ELSE queue[t][l]
    BY <1>1, <1>3, Zenon DEF BookInv, BookTypeOK
<1>8. \A m \in Nodes : pool'[m] = IF m = n THEN NoOrder ELSE pool[m]
    BY <1>3, Zenon DEF BookInv, BookTypeOK
<1>9. \A id \in OrderIds : idMap'[id] = IF id = o.id THEN Null ELSE idMap[id]
    BY <1>3, Zenon DEF BookInv, BookTypeOK
<1> HIDE DEF q, r, i, s, o
<1>10. BookTypeOK'
    <2>1. pool' \in [Nodes -> Orders \cup {NoOrder}] /\ idMap' \in [OrderIds -> Nodes \cup {Null}]
        BY <1>3, ZenonT(60) DEF BookInv, BookTypeOK
    <2>2. queue' \in [Sides -> [Slots -> Seq(Nodes)]]
        BY <1>1, <1>3, <1>4 DEF BookInv, BookTypeOK
    <2>3. totalQty' \in [Sides -> [Slots -> Int]]
        BY <1>1, <1>3 DEF BookInv, BookTypeOK
    <2>4. /\ occupied' \in [Sides -> SUBSET Slots]
          /\ best' \in [Sides -> Int]
          /\ \A t \in Sides : best'[t] = EmptySentinel(t) \/ InRange(best'[t])
        <3>1. CASE r = <<>>
            BY <1>1, <1>3, <3>1, OnLevelEmptiedType DEF BookInv
        <3>2. CASE r # <<>>
            BY <1>3, <3>2 DEF BookInv, BookTypeOK
        <3> QED BY <3>1, <3>2
    <2> QED BY <1>6, <2>1, <2>2, <2>3, <2>4 DEF BookTypeOK, EmptySentinel, InRange
<1>11. PoolExact'
    <2>1. \A m \in Nodes : m \in Range(free') <=> pool'[m] = NoOrder
        BY <1>6, <1>8 DEF BookInv, IndexConsistent, PoolExact
    <2> QED BY <1>6, <2>1 DEF PoolExact
<1>12. IdMapExact'
    <2> SUFFICES ASSUME NEW id \in OrderIds, NEW m \in Nodes
                 PROVE  idMap'[id] = m <=> (pool'[m] # NoOrder /\ pool'[m].id = id)
        BY DEF IdMapExact
    <2>1. idMap[id] = m <=> (pool[m] # NoOrder /\ pool[m].id = id)
        BY DEF BookInv, IndexConsistent, IdMapExact
    <2>2. m # Null
        BY ConfigAssumption DEF Nodes, Null
    <2> QED BY <1>1, <1>8, <1>9, <2>1, <2>2 DEF o
<1>13. ASSUME NEW t \in Sides, NEW l \in Slots
      PROVE  /\ IsInjective(queue'[t][l])
             /\ \A m \in Range(queue'[t][l]) :
                   pool'[m] # NoOrder /\ pool'[m].side = t /\ Index(pool'[m].price) = l
    <2>1. /\ IsInjective(queue[t][l]) /\ Range(queue[t][l]) \subseteq Nodes
          /\ \A m \in Range(queue[t][l]) :
                   pool[m] # NoOrder /\ pool[m].side = t /\ Index(pool[m].price) = l
        BY QueuedAt, Zenon
    <2>2. CASE t = s /\ l = i
        BY <1>4, <1>7, <1>8, <2>1, <2>2 DEF q
    <2>3. CASE ~(t = s /\ l = i)
        <3>1. n \notin Range(queue[t][l])
            BY <2>1, <2>3 DEF s, i, o
        <3> QED BY <1>7, <1>8, <2>1, <2>3, <3>1
    <2> QED BY <2>2, <2>3
<1>14. QueuesExact'
    <2>1. ASSUME NEW m \in Nodes, pool'[m] # NoOrder
          PROVE  m \in Range(queue'[pool'[m].side][Index(pool'[m].price)])
        <3>1. m # n /\ pool'[m] = pool[m] /\ m \in LiveNodes
            BY <1>8, <2>1 DEF LiveNodes
        <3>2. /\ m \in Range(queue[pool[m].side][Index(pool[m].price)])
              /\ pool[m].side \in Sides /\ Index(pool[m].price) \in Slots
            BY <3>1, LiveNode
        <3>3. CASE pool[m].side = s /\ Index(pool[m].price) = i
            BY <1>4, <1>7, <3>1, <3>2, <3>3 DEF q
        <3>4. CASE ~(pool[m].side = s /\ Index(pool[m].price) = i)
            BY <1>7, <3>1, <3>2, <3>4
        <3> QED BY <3>3, <3>4
    <2> QED BY <1>13, <2>1, Zenon DEF QueuesExact, LiveNodes, Index
<1>15. QueueOrder'
    <2> SUFFICES ASSUME NEW t \in Sides, NEW l \in Slots,
                        NEW j \in DOMAIN queue'[t][l], NEW k \in DOMAIN queue'[t][l], j < k
                 PROVE  pool'[queue'[t][l][j]].seq < pool'[queue'[t][l][k]].seq
        BY DEF QueueOrder
    <2>1. \E a, b \in DOMAIN queue[t][l] :
             a < b /\ queue[t][l][a] = queue'[t][l][j] /\ queue[t][l][b] = queue'[t][l][k]
        <3>1. CASE t = s /\ l = i
            <4>1. queue'[t][l] = r
                BY <1>7, <3>1, Zenon
            <4>2. queue[t][l] = q
                BY <3>1, Zenon DEF q
            <4>3. j \in DOMAIN r /\ k \in DOMAIN r
                BY <4>1
            <4>4. \E a, b \in DOMAIN q : a < b /\ q[a] = r[j] /\ q[b] = r[k]
                BY <1>4, <4>3, Zenon
            <4> QED BY <4>1, <4>2, <4>4
        <3>2. CASE ~(t = s /\ l = i)
            BY <1>7, <3>2, Zenon
        <3> QED BY <3>1, <3>2, Zenon
    <2>2. pool[queue'[t][l][j]].seq < pool[queue'[t][l][k]].seq
        BY <2>1, Zenon DEF BookInv, QueueOrder
    <2>3. queue'[t][l] \in Seq(Nodes)
        BY <1>10 DEF BookTypeOK
    <2>4. /\ queue'[t][l][j] \in Range(queue'[t][l]) /\ queue'[t][l][j] \in Nodes
          /\ queue'[t][l][k] \in Range(queue'[t][l]) /\ queue'[t][l][k] \in Nodes
        BY <2>3, SeqFacts, Zenon
    <2>5. pool'[queue'[t][l][j]] # NoOrder /\ pool'[queue'[t][l][k]] # NoOrder
        <3>1. \A m \in Range(queue'[t][l]) : pool'[m] # NoOrder
            BY <1>13, Zenon
        <3> QED BY <2>4, <3>1, Zenon
    <2> QED BY <1>8, <2>2, <2>4, <2>5, Zenon
<1> QED BY <1>3, <1>10, <1>11, <1>12, <1>14, <1>15 DEF BookInv, IndexConsistent, o

\* Putting one order at the back of its level (pool acquire, addOrder, id insert: restResidual
\* and restoreResting) preserves BookInv, given a free node, a fresh id and a sequence number
\* above those already queued at that level.
LEMMA EnterBookInv ==
    ASSUME BookInv, NEW o \in Orders, free # <<>>, idMap[o.id] = Null,
           \A m \in Range(queue[o.side][Index(o.price)]) : pool[m].seq < o.seq,
           EnterBook(o)
    PROVE  /\ BookInv'
           /\ Head(free) \in Nodes /\ pool[Head(free)] = NoOrder
           /\ pool' = [pool EXCEPT ![Head(free)] = o]
           /\ idMap' = [idMap EXCEPT ![o.id] = Head(free)]
           /\ free' = Tail(free)
           /\ \A t \in Sides, l \in Slots :
                 Range(queue'[t][l]) = IF t = o.side /\ l = Index(o.price)
                                       THEN Range(queue[t][l]) \cup {Head(free)}
                                       ELSE Range(queue[t][l])
<1> DEFINE n == Head(free)
           s == o.side
           i == Index(o.price)
           q == queue[s][i]
           r == Append(q, n)
<1>1. /\ o.id \in OrderIds /\ s \in Sides /\ o.price \in Int /\ InRange(o.price)
      /\ o.remaining \in Nat
    BY ConfigAssumption DEF Orders, InRange
<1>2. i \in Slots
    BY <1>1, IndexIsSlot
<1>3. q \in Seq(Nodes) /\ IsInjective(q)
    BY <1>1, <1>2 DEF BookInv, BookTypeOK, IndexConsistent, QueuesExact
<1>4. free \in Seq(Nodes) /\ IsInjective(free)
    BY DEF BookInv, BookTypeOK, IndexConsistent, PoolExact
<1>5. /\ n \in Range(free) /\ n \in Nodes
      /\ Tail(free) \in Seq(Nodes) /\ IsInjective(Tail(free))
      /\ Range(Tail(free)) = Range(free) \ {n}
    BY <1>4, TailFacts, SMTT(60)
<1>6. pool[n] = NoOrder
    BY <1>5, SMTT(60) DEF BookInv, IndexConsistent, PoolExact
<1>7. \A t \in Sides, l \in Slots : n \notin Range(queue[t][l])
    BY <1>6 DEF BookInv, IndexConsistent, QueuesExact
<1>8. /\ free' = Tail(free)
      /\ pool' = [pool EXCEPT ![n] = o]
      /\ idMap' = [idMap EXCEPT ![o.id] = n]
      /\ occupied' = [occupied EXCEPT ![s] = IF q = <<>> THEN @ \cup {i} ELSE @]
      /\ queue' = [queue EXCEPT ![s][i] = Append(@, n)]
      /\ totalQty' = [totalQty EXCEPT ![s][i] = @ + o.remaining]
      /\ best' = [best EXCEPT ![s] = IF IsBetter(s, o.price, @) THEN o.price ELSE @]
    BY Zenon DEF EnterBook, Enqueue
<1>9. /\ r \in Seq(Nodes) /\ IsInjective(r) /\ Range(r) = Range(q) \cup {n}
      /\ \A j, k \in DOMAIN r : j < k =>
            /\ j \in DOMAIN q /\ r[j] = q[j]
            /\ \/ k \in DOMAIN q /\ r[k] = q[k]
               \/ k \notin DOMAIN q /\ r[k] = n
    <2>1. n \notin Range(q)
        BY <1>1, <1>2, <1>7
    <2> HIDE DEF q, n
    <2> QED BY <2>1, <1>3, <1>5, AppendFacts, SMTT(60)
<1>10. \A t \in Sides, l \in Slots :
          queue'[t][l] = IF t = s /\ l = i THEN r ELSE queue[t][l]
    BY <1>1, <1>2, <1>8, Zenon DEF BookInv, BookTypeOK
<1>11. \A m \in Nodes : pool'[m] = IF m = n THEN o ELSE pool[m]
    BY <1>8, Zenon DEF BookInv, BookTypeOK
<1>12. \A id \in OrderIds : idMap'[id] = IF id = o.id THEN n ELSE idMap[id]
    BY <1>8, Zenon DEF BookInv, BookTypeOK
<1> HIDE DEF n, q, r, i, s
<1>13. o # NoOrder
    BY ArrivalsAssumption
<1>14. BookTypeOK'
    <2>1. pool' \in [Nodes -> Orders \cup {NoOrder}] /\ idMap' \in [OrderIds -> Nodes \cup {Null}]
        BY <1>5, <1>8, ZenonT(60) DEF BookInv, BookTypeOK
    <2>2. queue' \in [Sides -> [Slots -> Seq(Nodes)]]
        <3>1. queue' = [queue EXCEPT ![s][i] = r]
            BY <1>1, <1>2, <1>8 DEF BookInv, BookTypeOK, r, q
        <3> QED BY <3>1, <1>1, <1>2, <1>9, SMTT(60) DEF BookInv, BookTypeOK
    <2>3. totalQty' \in [Sides -> [Slots -> Int]]
        BY <1>1, <1>2, <1>8, SMTT(60) DEF BookInv, BookTypeOK
    <2>4. occupied' \in [Sides -> SUBSET Slots]
        BY <1>1, <1>2, <1>8, Zenon DEF BookInv, BookTypeOK
    <2>5. /\ best' \in [Sides -> Int]
          /\ \A t \in Sides : best'[t] = EmptySentinel(t) \/ InRange(best'[t])
        BY <1>1, <1>8 DEF BookInv, BookTypeOK
    <2> QED BY <1>5, <1>8, <2>1, <2>2, <2>3, <2>4, <2>5, Zenon
            DEF BookTypeOK, EmptySentinel, InRange
<1>15. PoolExact'
    <2>1. \A m \in Nodes : m \in Range(free') <=> pool'[m] = NoOrder
        BY <1>5, <1>8, <1>11, <1>13 DEF BookInv, IndexConsistent, PoolExact
    <2> QED BY <1>5, <1>8, <2>1 DEF PoolExact
<1>16. IdMapExact'
    <2> SUFFICES ASSUME NEW id \in OrderIds, NEW m \in Nodes
                 PROVE  idMap'[id] = m <=> (pool'[m] # NoOrder /\ pool'[m].id = id)
        BY DEF IdMapExact
    <2>1. idMap[id] = m <=> (pool[m] # NoOrder /\ pool[m].id = id)
        BY DEF BookInv, IndexConsistent, IdMapExact
    <2>2. m # Null
        BY ConfigAssumption DEF Nodes, Null
    <2>3. CASE m = n
        BY <1>6, <1>11, <1>12, <1>13, <2>1, <2>3
    <2>4. CASE m # n
        BY <1>11, <1>12, <2>1, <2>2, <2>4
    <2> QED BY <2>3, <2>4
<1>17. QueuesExact'
    <2>1. ASSUME NEW t \in Sides, NEW l \in Slots
          PROVE  /\ IsInjective(queue'[t][l])
                 /\ \A m \in Range(queue'[t][l]) :
                       pool'[m] # NoOrder /\ pool'[m].side = t /\ Index(pool'[m].price) = l
        <3>1. /\ IsInjective(queue[t][l]) /\ Range(queue[t][l]) \subseteq Nodes
              /\ n \notin Range(queue[t][l])
              /\ \A m \in Range(queue[t][l]) :
                       pool[m] # NoOrder /\ pool[m].side = t /\ Index(pool[m].price) = l
            BY <1>7, QueuedAt, Zenon
        <3>2. CASE t = s /\ l = i
            <4>1. Range(queue'[t][l]) = Range(queue[t][l]) \cup {n} /\ IsInjective(queue'[t][l])
                BY <1>9, <1>10, <3>2, Zenon DEF q
            <4>2. pool'[n] = o /\ o.side = t /\ Index(o.price) = l
                BY <1>5, <1>11, <3>2 DEF s, i
            <4>3. \A m \in Range(queue[t][l]) : pool'[m] = pool[m]
                BY <1>11, <3>1
            <4>4. ASSUME NEW m \in Range(queue'[t][l])
                  PROVE  pool'[m] # NoOrder /\ pool'[m].side = t /\ Index(pool'[m].price) = l
                <5>1. CASE m = n
                    BY <1>13, <4>2, <5>1
                <5>2. CASE m \in Range(queue[t][l])
                    BY <3>1, <4>3, <5>2
                <5> QED BY <4>1, <5>1, <5>2
            <4> QED BY <4>1, <4>4, Zenon
        <3>3. CASE ~(t = s /\ l = i)
            BY <1>10, <1>11, <3>1, <3>3, SMTT(60)
        <3> QED BY <3>2, <3>3
    <2>2. ASSUME NEW m \in Nodes, pool'[m] # NoOrder
          PROVE  m \in Range(queue'[pool'[m].side][Index(pool'[m].price)])
        <3>1. CASE m = n
            BY <1>1, <1>2, <1>9, <1>10, <1>11, <3>1, Zenon DEF s, i
        <3>2. CASE m # n
            <4>1. pool'[m] = pool[m] /\ m \in LiveNodes
                BY <1>11, <2>2, <3>2, Zenon DEF LiveNodes
            <4>2. /\ m \in Range(queue[pool[m].side][Index(pool[m].price)])
                  /\ pool[m].side \in Sides /\ Index(pool[m].price) \in Slots
                BY <4>1, LiveNode, Zenon
            <4>3. Range(queue[pool[m].side][Index(pool[m].price)])
                    \subseteq Range(queue'[pool[m].side][Index(pool[m].price)])
                <5>1. CASE pool[m].side = s /\ Index(pool[m].price) = i
                    BY <1>9, <1>10, <4>2, <5>1, Zenon DEF q
                <5>2. CASE ~(pool[m].side = s /\ Index(pool[m].price) = i)
                    BY <1>10, <4>2, <5>2, Zenon
                <5> QED BY <5>1, <5>2, Zenon
            <4> QED BY <4>1, <4>2, <4>3, Zenon
        <3> QED BY <3>1, <3>2, Zenon
    <2> QED BY <2>1, <2>2 DEF QueuesExact, LiveNodes, Index
<1>18. QueueOrder'
    <2> SUFFICES ASSUME NEW t \in Sides, NEW l \in Slots,
                        NEW j \in DOMAIN queue'[t][l], NEW k \in DOMAIN queue'[t][l], j < k
                 PROVE  pool'[queue'[t][l][j]].seq < pool'[queue'[t][l][k]].seq
        BY Zenon DEF QueueOrder
    <2>1. /\ DOMAIN queue[t][l] = 1 .. Len(queue[t][l])
          /\ \A a \in DOMAIN queue[t][l] : /\ queue[t][l][a] \in Range(queue[t][l])
                                           /\ queue[t][l][a] \in Nodes
                                           /\ queue[t][l][a] # n
        <3>1. queue[t][l] \in Seq(Nodes)
            BY Zenon DEF BookInv, BookTypeOK
        <3>2. n \notin Range(queue[t][l])
            BY <1>7
        <3> QED BY <3>1, <3>2, SeqFacts
    <2>2. \A a \in DOMAIN queue[t][l] : pool'[queue[t][l][a]] = pool[queue[t][l][a]]
        BY <1>11, <2>1, Zenon
    <2>3. \A a, b \in DOMAIN queue[t][l] :
             a < b => pool[queue[t][l][a]].seq < pool[queue[t][l][b]].seq
        BY Zenon DEF BookInv, QueueOrder
    <2>4. CASE ~(t = s /\ l = i)
        <3>1. queue'[t][l] = queue[t][l]
            BY <1>10, <2>4, Zenon
        <3> QED BY <2>2, <2>3, <3>1, Zenon
    <2>5. CASE t = s /\ l = i
        <3>1. queue'[t][l] = r /\ queue[t][l] = q
            BY <1>10, <2>5, SMTT(60) DEF q
        <3>2. /\ j \in DOMAIN q /\ r[j] = q[j]
              /\ \/ k \in DOMAIN q /\ r[k] = q[k]
                 \/ k \notin DOMAIN q /\ r[k] = n
            BY <1>9, <3>1, Zenon
        <3>3. CASE k \in DOMAIN q /\ r[k] = q[k]
            BY <2>2, <2>3, <3>1, <3>2, <3>3
        <3>4. CASE r[k] = n
            <4>1. pool'[n].seq = o.seq
                BY <1>5, <1>11, Zenon
            <4>2. pool[q[j]].seq < o.seq
                BY <2>1, <3>1, <3>2, ZenonT(60) DEF q, s, i
            <4> QED BY <2>2, <3>1, <3>2, <3>4, <4>1, <4>2
        <3> QED BY <3>2, <3>3, <3>4, Zenon
    <2> QED BY <2>4, <2>5, Zenon
<1>19. \A t \in Sides, l \in Slots :
          Range(queue'[t][l]) = IF t = s /\ l = i THEN Range(queue[t][l]) \cup {n}
                                ELSE Range(queue[t][l])
    BY <1>9, <1>10, ZenonT(60) DEF q
<1> QED BY <1>5, <1>6, <1>8, <1>14, <1>15, <1>16, <1>17, <1>18, <1>19, ZenonT(60)
        DEF BookInv, IndexConsistent, n, s, i
-----------------------------------------------------------------------------
(***************************************************************************)
(* Prices.  LevelMap keeps one queue per tick, and nextOccupied() rebuilds *)
(* a price from a slot number; both are exact for prices on the tick grid. *)
(* So where the orders that may rest are on the grid, the tracked best is  *)
(* the best resting price, the book is never crossed and no fill is worse  *)
(* than its limit.                                                         *)
(***************************************************************************)
OnTick(p) == SlotPrice(Index(p)) = p

\* The orders with a limit come at prices on the tick grid.
TickAligned == \A in \in Arrivals : in.type # "Market" => OnTick(in.price)

\* Every order rests at a price on the grid.
TicksIn(p) == \A n \in Nodes : p[n] # NoOrder => OnTick(p[n].price)

\* The occupancy bit of a level is set exactly when it has an order.
BitsIn(q, occ) == \A s \in Sides, i \in Slots : i \in occ[s] <=> q[s][i] # <<>>

\* The tracked best b of each side is the price of an order none is better than, or the sentinel.
BestIn(p, b) ==
    \A s \in Sides :
        \/ /\ b[s] = EmptySentinel(s)
           /\ \A n \in Nodes : p[n] # NoOrder => p[n].side # s
        \/ /\ \E n \in Nodes : p[n] # NoOrder /\ p[n].side = s /\ p[n].price = b[s]
           /\ \A n \in Nodes :
                p[n] # NoOrder /\ p[n].side = s => ~IsBetter(s, p[n].price, b[s])

\* Every bid is below every ask.
UncrossedIn(p) ==
    \A n, m \in Nodes :
        p[n] # NoOrder /\ p[m] # NoOrder /\ p[n].side = "Buy" /\ p[m].side = "Sell"
            => p[n].price < p[m].price

\* The order in node n of p is at the side and price of an order of the snapshot w.
CopiedFrom(w, p, n) ==
    \E m \in Nodes : w[m] # NoOrder /\ w[m].side = p[n].side /\ w[m].price = p[n].price

\* The orders p that a restore has put back come from a snapshot w that was in order.
RestoredIn(w, p) ==
    /\ TicksIn(w) /\ UncrossedIn(w)
    /\ \A n \in Nodes : p[n] # NoOrder => CopiedFrom(w, p, n)

\* What the prices of a book have to do with its levels.
BookPrices == TicksIn(pool) /\ BitsIn(queue, occupied) /\ BestIn(pool, best)

\* Slot prices are ordered like the slots.
LEMMA SlotPriceMonotone ==
    ASSUME NEW i \in Slots, NEW j \in Slots
    PROVE  i < j <=> SlotPrice(i) < SlotPrice(j)
<1>1. i \in Nat /\ j \in Nat /\ Tick \in Nat \ {0} /\ MinPrice \in Int
    BY ConfigAssumption DEF Slots
<1> DEFINE u == Tick * i
           v == Tick * j
<1>2. u \in Nat /\ v \in Nat /\ SlotPrice(i) = MinPrice + u /\ SlotPrice(j) = MinPrice + v
    BY <1>1 DEF SlotPrice
<1>3. /\ i < j => u + Tick <= v
      /\ j <= i => v <= u
    BY <1>1, TimesMonotone
<1> HIDE DEF u, v
<1> QED BY <1>1, <1>2, <1>3

\* On the tick grid a better price is a better slot, and a slot has one price.
LEMMA TickOrder ==
    ASSUME NEW s \in Sides, NEW a \in Int, NEW b \in Int, InRange(a), InRange(b),
           OnTick(a), OnTick(b)
    PROVE  /\ Index(a) \in Slots /\ Index(b) \in Slots
           /\ Index(a) = Index(b) => a = b
           /\ IsBetter(s, a, b) <=> Worse(s, Index(a), Index(b))
           /\ a # b => IsBetter(s, a, b) \/ IsBetter(s, b, a)
<1>1. Index(a) \in Slots /\ Index(b) \in Slots
    BY IndexIsSlot
<1>2. /\ Index(a) < Index(b) <=> a < b
      /\ Index(b) < Index(a) <=> b < a
    BY <1>1, SlotPriceMonotone DEF OnTick
<1>3. Index(a) \in Int /\ Index(b) \in Int
    BY <1>1 DEF Slots
<1>4. Index(a) = Index(b) => a = b
    BY DEF OnTick
<1> QED BY <1>1, <1>2, <1>3, <1>4 DEF IsBetter, Worse

\* nextOccupied(): the sentinel when nothing is occupied beyond slot i, otherwise the price of the
\* best occupied slot there.
LEMMA NextOccupiedIs ==
    ASSUME NEW s \in Sides, NEW occ \in SUBSET Slots, NEW i \in Slots
    PROVE  \/ /\ NextOccupied(s, occ, i) = EmptySentinel(s)
              /\ \A j \in occ : ~Worse(s, i, j)
           \/ \E k \in occ : /\ NextOccupied(s, occ, i) = SlotPrice(k)
                             /\ Worse(s, i, k)
                             /\ \A j \in occ : Worse(s, i, j) => ~Worse(s, j, k)
<1> DEFINE beyond == {j \in occ : Worse(s, i, j)}
<1>1. NextOccupied(s, occ, i) = IF beyond = {} THEN EmptySentinel(s)
                                ELSE SlotPrice(IF s = "Buy" THEN Max(beyond) ELSE Min(beyond))
    BY DEF NextOccupied
<1>2. beyond \in SUBSET Slots /\ \A j : j \in beyond <=> j \in occ /\ Worse(s, i, j)
    OBVIOUS
<1>3. NumSlots - 1 \in Nat /\ Slots = 0 .. (NumSlots - 1) /\ Slots \subseteq Int
    BY ConfigAssumption, DivFacts DEF NumSlots, Slots
<1> HIDE DEF beyond
<1>4. CASE beyond = {}
    BY <1>1, <1>2, <1>4
<1>5. CASE beyond # {}
    <2>1. Max(beyond) \in beyond /\ \A j \in beyond : Max(beyond) >= j
        BY <1>2, <1>3, <1>5, MaxExists, ZenonT(60)
    <2>2. beyond \in SUBSET Nat
        BY <1>2, <1>3
    <2>3. Min(beyond) \in beyond /\ \A j \in beyond : Min(beyond) <= j
        BY <1>5, <2>2, MinExists
    <2> DEFINE k == IF s = "Buy" THEN Max(beyond) ELSE Min(beyond)
    <2>4. k \in beyond /\ NextOccupied(s, occ, i) = SlotPrice(k)
        BY <1>1, <1>5, <2>1, <2>3
    <2>5. ASSUME NEW j \in beyond PROVE ~Worse(s, j, k)
        <3>1. j \in Nat /\ Max(beyond) \in Nat /\ Min(beyond) \in Nat
            BY <2>1, <2>2, <2>3, Zenon
        <3>2. Max(beyond) >= j /\ Min(beyond) <= j
            BY <2>1, <2>3, Zenon
        <3> QED BY <3>1, <3>2 DEF Worse
    <2> HIDE DEF k
    <2> QED BY <1>2, <2>4, <2>5
<1> QED BY <1>4, <1>5

\* The bit of a level that becomes empty is cleared; p is a price of that level.
LEMMA LeaveBits ==
    ASSUME BookInv, BitsIn(queue, occupied), NEW n \in LiveNodes, NEW p \in Int,
           Index(p) = Index(pool[n].price), LeaveBook(n, p)
    PROVE  BitsIn(queue, occupied)'
<1> DEFINE s == pool[n].side
           i == Index(pool[n].price)
           q == queue[s][i]
           r == Unlink(q, n)
<1>1. /\ n \in Nodes /\ s \in Sides /\ i \in Slots /\ n \in Range(q)
    BY LiveNode
<1>2. q \in Seq(Nodes)
    BY <1>1, QueuedAt, Zenon
<1>3. q # <<>>
    BY <1>1, <1>2, EmptyRange, Zenon
<1>4. /\ queue' = [queue EXCEPT ![s][i] = r]
      /\ IF r = <<>> THEN OnLevelEmptied(s, p) ELSE UNCHANGED <<occupied, best>>
    BY Zenon DEF LeaveBook
<1>5. \A t \in Sides, l \in Slots :
         queue'[t][l] = IF t = s /\ l = i THEN r ELSE queue[t][l]
    BY <1>1, <1>4, Zenon DEF BookInv, BookTypeOK
<1>6. occupied \in [Sides -> SUBSET Slots]
    BY Zenon DEF BookInv, BookTypeOK
<1>7. occupied' = IF r = <<>> THEN [occupied EXCEPT ![s] = @ \ {i}] ELSE occupied
    BY <1>1, <1>4, <1>6 DEF OnLevelEmptied
<1> HIDE DEF s, i, r
<1>8. \A t \in Sides :
         occupied'[t] = IF t = s /\ r = <<>> THEN occupied[t] \ {i} ELSE occupied[t]
    BY <1>6, <1>7, Zenon
<1> SUFFICES ASSUME NEW t \in Sides, NEW l \in Slots
             PROVE  l \in occupied'[t] <=> queue'[t][l] # <<>>
    BY Zenon DEF BitsIn
<1>9. l \in occupied[t] <=> queue[t][l] # <<>>
    BY Zenon DEF BitsIn
<1> QED BY <1>3, <1>5, <1>8, <1>9, Zenon

\* The bit of a level with a new order is set.
LEMMA EnterBits ==
    ASSUME BookInv, BitsIn(queue, occupied), NEW o \in Orders, EnterBook(o), Head(free) \in Nodes
    PROVE  BitsIn(queue, occupied)'
<1> DEFINE n == Head(free)
           s == o.side
           i == Index(o.price)
           q == queue[s][i]
<1>1. s \in Sides /\ o.price \in Int /\ InRange(o.price)
    BY ConfigAssumption DEF Orders, InRange
<1>2. i \in Slots
    BY <1>1, IndexIsSlot
<1>3. /\ occupied' = [occupied EXCEPT ![s] = IF q = <<>> THEN @ \cup {i} ELSE @]
      /\ queue' = [queue EXCEPT ![s][i] = Append(@, n)]
    BY Zenon DEF EnterBook, Enqueue
<1>4. q \in Seq(Nodes) /\ occupied \in [Sides -> SUBSET Slots]
    BY <1>1, <1>2, Zenon DEF BookInv, BookTypeOK
<1>5. \A t \in Sides, l \in Slots :
         queue'[t][l] = IF t = s /\ l = i THEN Append(q, n) ELSE queue[t][l]
    BY <1>1, <1>2, <1>3, Zenon DEF BookInv, BookTypeOK
<1>6. Append(q, n) # <<>>
    <2>1. q \in Seq(Nodes) /\ n \in Nodes
        BY <1>4
    <2> HIDE DEF q, n
    <2>2. Len(q) \in Nat /\ Len(Append(q, n)) = Len(q) + 1
        BY <2>1, AppendIs
    <2>3. Len(Append(q, n)) # 0
        BY <2>2
    <2>4. Append(q, n) \in Seq(Nodes)
        BY <2>1, AppendIs, Zenon
    <2> QED BY <2>3, <2>4, EmptyIs, Zenon
<1> HIDE DEF n, i, s
<1> SUFFICES ASSUME NEW t \in Sides, NEW l \in Slots
             PROVE  l \in occupied'[t] <=> queue'[t][l] # <<>>
    BY Zenon DEF BitsIn
<1>7. \A k \in Sides, j \in Slots : j \in occupied[k] <=> queue[k][j] # <<>>
    BY Zenon DEF BitsIn
<1>8. i \in occupied[s] <=> q # <<>>
    BY <1>1, <1>2, <1>7, Zenon
<1> HIDE DEF q
<1>9. occupied'[t] = IF t = s /\ q = <<>> THEN occupied[t] \cup {i} ELSE occupied[t]
    BY <1>1, <1>3, <1>4, Zenon
<1>10. CASE t = s /\ l = i
    BY <1>5, <1>6, <1>8, <1>9, <1>10, Zenon
<1>11. CASE ~(t = s /\ l = i)
    <2>1. queue'[t][l] = queue[t][l]
        BY <1>5, <1>11, Zenon
    <2> QED BY <1>7, <1>9, <1>11, <2>1
<1> QED BY <1>10, <1>11

\* An order that leaves by cancel(), by self-trade prevention or filled keeps the prices right: the
\* best is recovered from the bits exactly when its level has become empty.
LEMMA LeavePrices ==
    ASSUME BookInv, BookPrices, NEW n \in LiveNodes, LeaveBook(n, pool[n].price)
    PROVE  BookPrices' /\ \A m \in Nodes : pool'[m] # NoOrder => pool'[m] = pool[m]
<1> DEFINE o == pool[n]
           s == o.side
           x == o.price
           i == Index(x)
           q == queue[s][i]
           r == Unlink(q, n)
<1>1. /\ n \in Nodes /\ o # NoOrder /\ s \in Sides /\ i \in Slots /\ n \in Range(q)
      /\ x \in Int /\ InRange(x)
    BY LiveNode
<1>2. OnTick(x)
    BY <1>1, Zenon DEF BookPrices, TicksIn
<1>3. q \in Seq(Nodes) /\ IsInjective(q)
    BY <1>1, QueuedAt, Zenon
<1>4. /\ queue' = [queue EXCEPT ![s][i] = r]
      /\ IF r = <<>> THEN OnLevelEmptied(s, x) ELSE UNCHANGED <<occupied, best>>
      /\ pool' = [pool EXCEPT ![n] = NoOrder]
    BY Zenon DEF LeaveBook
<1>5. r \in Seq(Nodes) /\ Range(r) = Range(q) \ {n}
    <2>1. n \in Range(q)
        BY <1>1
    <2> HIDE DEF q
    <2> QED BY <2>1, <1>3, UnlinkFacts
<1>6. \A t \in Sides, l \in Slots :
         queue'[t][l] = IF t = s /\ l = i THEN r ELSE queue[t][l]
    BY <1>1, <1>4, Zenon DEF BookInv, BookTypeOK
<1>7. \A m \in Nodes : pool'[m] = IF m = n THEN NoOrder ELSE pool[m]
    BY <1>4, Zenon DEF BookInv, BookTypeOK
<1>8. occupied \in [Sides -> SUBSET Slots] /\ best \in [Sides -> Int]
    BY Zenon DEF BookInv, BookTypeOK
<1> DEFINE occ == occupied[s] \ {i}
           b == NextOccupied(s, occ, i)
<1>9. /\ r = <<>> => /\ occupied' = [occupied EXCEPT ![s] = occ]
                     /\ best' = [best EXCEPT ![s] = IF x = best[s] THEN b ELSE best[s]]
      /\ r # <<>> => occupied' = occupied /\ best' = best
    BY <1>1, <1>4, <1>8 DEF OnLevelEmptied
\* Who is still there: the orders with another slot, and those that share the leaver's level.
<1>10. \A m \in Nodes : pool[m] # NoOrder =>
          /\ pool[m].side \in Sides /\ pool[m].price \in Int /\ InRange(pool[m].price)
          /\ OnTick(pool[m].price) /\ Index(pool[m].price) \in Slots
          /\ m \in Range(queue[pool[m].side][Index(pool[m].price)])
          /\ Index(pool[m].price) \in occupied[pool[m].side]
    <2> SUFFICES ASSUME NEW m \in Nodes, pool[m] # NoOrder
                 PROVE  /\ pool[m].side \in Sides /\ pool[m].price \in Int /\ InRange(pool[m].price)
                        /\ OnTick(pool[m].price) /\ Index(pool[m].price) \in Slots
                        /\ m \in Range(queue[pool[m].side][Index(pool[m].price)])
                        /\ Index(pool[m].price) \in occupied[pool[m].side]
        BY Zenon
    <2>1. m \in LiveNodes
        BY Zenon DEF LiveNodes
    <2>2. /\ pool[m].side \in Sides /\ pool[m].price \in Int /\ InRange(pool[m].price)
          /\ Index(pool[m].price) \in Slots
          /\ m \in Range(queue[pool[m].side][Index(pool[m].price)])
        BY <2>1, LiveNode, Zenon
    <2>3. queue[pool[m].side][Index(pool[m].price)] # <<>>
        <3>1. queue[pool[m].side][Index(pool[m].price)] \in Seq(Nodes)
            BY <2>2, QueuedAt, Zenon
        <3> QED BY <2>2, <3>1, EmptyRange
    <2> QED BY <2>2, <2>3, Zenon DEF BookPrices, TicksIn, BitsIn
<1> HIDE DEF o, s, x, i, q, r, occ, b
<1>11. TicksIn(pool)'
    BY <1>7, <1>10, Zenon DEF TicksIn
<1>12. BitsIn(queue, occupied)'
    <2>1. pool[n].price \in Int /\ BitsIn(queue, occupied)
        BY <1>1, Zenon DEF o, x, BookPrices
    <2> QED BY <2>1, LeaveBits, Zenon
<1>13. PICK w \in Nodes : pool[w] # NoOrder /\ pool[w].side = s /\ pool[w].price = best[s]
    BY <1>1, Zenon DEF BookPrices, BestIn, o, s
<1>14. \A m \in Nodes : pool[m] # NoOrder /\ pool[m].side = s => ~IsBetter(s, pool[m].price, best[s])
    BY <1>1, Zenon DEF BookPrices, BestIn, o, s
<1>15. ASSUME r # <<>>
       PROVE  \E m \in Nodes : pool'[m] # NoOrder /\ pool'[m].side = s /\ pool'[m].price = x
    <2>1. PICK m \in Range(r) : TRUE
        BY <1>5, <1>15, EmptyRange
    <2>2. m \in Range(queue[s][i]) /\ m # n
        BY <1>5, <2>1 DEF q
    <2>3. m \in Nodes /\ pool[m] # NoOrder /\ pool[m].side = s /\ Index(pool[m].price) = i
        <3>1. s \in Sides /\ i \in Slots
            BY <1>1, Zenon
        <3>2. \A l \in Range(queue[s][i]) :
                 l \in Nodes /\ pool[l] # NoOrder /\ pool[l].side = s /\ Index(pool[l].price) = i
            BY <3>1, QueuedAt, Zenon
        <3> QED BY <2>2, <3>2, Zenon
    <2>4. pool[m].price = x
        BY <1>2, <1>10, <2>3 DEF OnTick, i
    <2> QED BY <1>7, <2>2, <2>3, <2>4, Zenon
<1>16. ASSUME r = <<>>, NEW m \in Nodes, m # n, pool[m] # NoOrder, pool[m].side = s
       PROVE  Index(pool[m].price) \in occ
    <2>1. Range(q) \ {n} = {}
        BY <1>5, <1>16, EmptyRange, Zenon
    <2>2. m \in Range(queue[s][Index(pool[m].price)])
        BY <1>10, <1>16, Zenon
    <2>3. Index(pool[m].price) # i
        BY <1>16, <2>1, <2>2 DEF q
    <2> QED BY <1>10, <1>16, <2>3 DEF occ
<1>17. ASSUME r = <<>>, x = best[s], NEW m \in Nodes, m # n, pool[m] # NoOrder, pool[m].side = s
       PROVE  Worse(s, i, Index(pool[m].price))
    <2>1. pool[m].price # x
        <3>1. Index(pool[m].price) # i
            BY <1>16, <1>17 DEF occ
        <3> QED BY <3>1 DEF i
    <2>2. ~IsBetter(s, pool[m].price, x)
        BY <1>14, <1>17
    <2>3. pool[m].price \in Int /\ InRange(pool[m].price) /\ OnTick(pool[m].price)
        BY <1>10, <1>17, Zenon
    <2>4. IsBetter(s, x, pool[m].price)
        BY <1>1, <1>2, <2>1, <2>2, <2>3, TickOrder, Zenon DEF s, x
    <2> QED BY <1>1, <1>2, <2>3, <2>4, TickOrder, Zenon DEF s, x, i
<1>18. ASSUME r = <<>>, x = best[s]
       PROVE  \/ /\ b = EmptySentinel(s)
                 /\ \A m \in Nodes : pool'[m] # NoOrder => pool'[m].side # s
              \/ /\ \E m \in Nodes : pool'[m] # NoOrder /\ pool'[m].side = s /\ pool'[m].price = b
                 /\ \A m \in Nodes :
                      pool'[m] # NoOrder /\ pool'[m].side = s => ~IsBetter(s, pool'[m].price, b)
    <2>1. s \in Sides /\ i \in Slots /\ occ \in SUBSET Slots
        BY <1>1, <1>8 DEF occ
    <2>2. CASE b = EmptySentinel(s) /\ \A j \in occ : ~Worse(s, i, j)
        BY <1>7, <1>16, <1>17, <1>18, <2>2
    <2>3. ASSUME NEW k \in occ, b = SlotPrice(k), \A j \in occ : Worse(s, i, j) => ~Worse(s, j, k)
          PROVE  /\ \E m \in Nodes : pool'[m] # NoOrder /\ pool'[m].side = s /\ pool'[m].price = b
                 /\ \A m \in Nodes :
                      pool'[m] # NoOrder /\ pool'[m].side = s => ~IsBetter(s, pool'[m].price, b)
        <3>1. k \in Slots /\ k # i /\ queue[s][k] # <<>>
            BY <2>1, <2>3 DEF occ, BookPrices, BitsIn
        <3>2. PICK m \in Range(queue[s][k]) : TRUE
            BY <2>1, <3>1, QueuedAt, EmptyRange
        <3>3. /\ m \in Nodes /\ pool[m] # NoOrder /\ pool[m].side = s
              /\ Index(pool[m].price) = k
            <4>1. \A l \in Range(queue[s][k]) :
                     /\ l \in Nodes /\ pool[l] # NoOrder /\ pool[l].side = s
                     /\ Index(pool[l].price) = k
                BY <2>1, <3>1, QueuedAt, ZenonT(30)
            <4> QED BY <3>2, <4>1, Zenon
        <3>4. m # n
            BY <3>1, <3>3 DEF i, x, o
        <3>5. pool[m].price = b /\ b \in Int /\ InRange(b) /\ OnTick(b) /\ Index(b) = k
            BY <1>10, <2>3, <3>3 DEF OnTick
        <3>6. ASSUME NEW l \in Nodes, pool'[l] # NoOrder, pool'[l].side = s
              PROVE  ~IsBetter(s, pool'[l].price, b)
            <4>1. l # n /\ pool'[l] = pool[l] /\ pool[l] # NoOrder /\ pool[l].side = s
                BY <1>7, <3>6
            <4>2. ~Worse(s, Index(pool[l].price), k)
                BY <1>16, <1>17, <1>18, <2>3, <4>1, Zenon
            <4>3. pool[l].price \in Int /\ InRange(pool[l].price) /\ OnTick(pool[l].price)
                BY <1>10, <4>1, Zenon
            <4>4. ~IsBetter(s, pool[l].price, b)
                BY <2>1, <3>5, <4>2, <4>3, TickOrder, ZenonT(30)
            <4> QED BY <4>1, <4>4
        <3> QED BY <1>7, <3>3, <3>4, <3>5, <3>6, Zenon
    <2>4. \/ b = EmptySentinel(s) /\ \A j \in occ : ~Worse(s, i, j)
          \/ \E k \in occ : /\ b = SlotPrice(k)
                            /\ \A j \in occ : Worse(s, i, j) => ~Worse(s, j, k)
        BY <2>1, NextOccupiedIs DEF b
    <2> QED BY <2>2, <2>3, <2>4
<1>19. BestIn(pool, best)'
    <2> SUFFICES ASSUME NEW t \in Sides
                 PROVE  \/ /\ best'[t] = EmptySentinel(t)
                           /\ \A m \in Nodes : pool'[m] # NoOrder => pool'[m].side # t
                        \/ /\ \E m \in Nodes : /\ pool'[m] # NoOrder /\ pool'[m].side = t
                                               /\ pool'[m].price = best'[t]
                           /\ \A m \in Nodes :
                                pool'[m] # NoOrder /\ pool'[m].side = t
                                    => ~IsBetter(t, pool'[m].price, best'[t])
        BY ZenonT(30) DEF BestIn, IsBetter, EmptySentinel
    <2>1. CASE t # s
        <3>1. best'[t] = best[t]
            BY <1>1, <1>8, <1>9, <2>1
        <3>2. \/ /\ best[t] = EmptySentinel(t)
                 /\ \A m \in Nodes : pool[m] # NoOrder => pool[m].side # t
              \/ /\ \E m \in Nodes : pool[m] # NoOrder /\ pool[m].side = t /\ pool[m].price = best[t]
                 /\ \A m \in Nodes :
                      pool[m] # NoOrder /\ pool[m].side = t => ~IsBetter(t, pool[m].price, best[t])
            BY Zenon DEF BookPrices, BestIn
        <3>3. pool[n].side = s
            BY DEF s, o
        <3> QED BY <1>7, <2>1, <3>1, <3>2, <3>3, Zenon
    <2>2. CASE t = s /\ r = <<>> /\ x = best[s]
        <3>1. best'[s] = b
            BY <1>1, <1>8, <1>9, <2>2
        <3> QED BY <1>18, <2>2, <3>1
    <2>3. CASE t = s /\ ~(r = <<>> /\ x = best[s])
        <3>1. best'[s] = best[s]
            BY <1>1, <1>8, <1>9, <2>3
        <3>2. \E m \in Nodes : pool'[m] # NoOrder /\ pool'[m].side = s /\ pool'[m].price = best[s]
            <4>1. CASE w # n
                BY <1>7, <1>13, <4>1
            <4>2. CASE w = n
                BY <1>13, <1>15, <2>3, <4>2 DEF x, o
            <4> QED BY <4>1, <4>2
        <3>3. \A m \in Nodes :
                 pool'[m] # NoOrder /\ pool'[m].side = s => ~IsBetter(s, pool'[m].price, best[s])
            BY <1>7, <1>14
        <3> QED BY <2>3, <3>1, <3>2, <3>3
    <2> QED BY <2>1, <2>2, <2>3, Zenon
<1>20. \A m \in Nodes : pool'[m] # NoOrder => pool'[m] = pool[m]
    BY <1>7
<1> QED BY <1>11, <1>12, <1>19, <1>20 DEF BookPrices

\* An order that comes to rest, by restResidual() or restoreResting(), keeps the prices right.
LEMMA EnterPrices ==
    ASSUME BookInv, BookPrices, NEW o \in Orders, OnTick(o.price), EnterBook(o),
           Head(free) \in Nodes, pool[Head(free)] = NoOrder
    PROVE  /\ BookPrices'
           /\ \A m \in Nodes : pool'[m] = IF m = Head(free) THEN o ELSE pool[m]
<1> DEFINE n == Head(free)
           s == o.side
           x == o.price
           i == Index(x)
           q == queue[s][i]
<1>1. s \in Sides /\ x \in Int /\ InRange(x) /\ o # NoOrder
    BY ConfigAssumption, ArrivalsAssumption DEF Orders, InRange
<1>2. i \in Slots
    BY <1>1, IndexIsSlot
<1>3. /\ pool' = [pool EXCEPT ![n] = o]
      /\ occupied' = [occupied EXCEPT ![s] = IF q = <<>> THEN @ \cup {i} ELSE @]
      /\ queue' = [queue EXCEPT ![s][i] = Append(@, n)]
      /\ best' = [best EXCEPT ![s] = IF IsBetter(s, x, @) THEN x ELSE @]
    BY Zenon DEF EnterBook, Enqueue
<1>4. /\ occupied \in [Sides -> SUBSET Slots] /\ best \in [Sides -> Int]
      /\ q \in Seq(Nodes)
      /\ \A t \in Sides : best[t] = EmptySentinel(t) \/ InRange(best[t])
    BY <1>1, <1>2, Zenon DEF BookInv, BookTypeOK
<1>5. \A m \in Nodes : pool'[m] = IF m = n THEN o ELSE pool[m]
    BY <1>3, Zenon DEF BookInv, BookTypeOK
<1>6. \A t \in Sides, l \in Slots :
         queue'[t][l] = IF t = s /\ l = i THEN Append(q, n) ELSE queue[t][l]
    BY <1>1, <1>2, <1>3, Zenon DEF BookInv, BookTypeOK
<1>7. Append(q, n) # <<>>
    <2>1. q \in Seq(Nodes) /\ n \in Nodes
        BY <1>4
    <2> HIDE DEF q, n
    <2> QED BY <2>1, AppendIs
<1>8. TicksIn(pool)'
    <2>1. TicksIn(pool)
        BY DEF BookPrices
    <2> HIDE DEF n
    <2> QED BY <1>5, <2>1, Zenon DEF TicksIn
<1>9. BitsIn(queue, occupied)'
    BY EnterBits, Zenon DEF BookPrices
<1>10. \A t \in Sides :
          \/ /\ best[t] = EmptySentinel(t)
             /\ \A m \in Nodes : pool[m] # NoOrder => pool[m].side # t
          \/ /\ \E m \in Nodes : pool[m] # NoOrder /\ pool[m].side = t /\ pool[m].price = best[t]
             /\ \A m \in Nodes :
                  pool[m] # NoOrder /\ pool[m].side = t => ~IsBetter(t, pool[m].price, best[t])
    BY Zenon DEF BookPrices, BestIn
<1>11. \A m \in Nodes : pool[m] # NoOrder => pool[m].price \in Int
    <2>1. \A m \in LiveNodes : pool[m].price \in Int
        BY LiveNode, Zenon
    <2> QED BY <2>1, Zenon DEF LiveNodes
<1>12. best'[s] = IF IsBetter(s, x, best[s]) THEN x ELSE best[s]
    BY <1>1, <1>3, <1>4
<1>13. \A t \in Sides : t # s => best'[t] = best[t]
    BY <1>3, <1>4
<1>14. best[s] \in Int /\ (best[s] = EmptySentinel(s) => IsBetter(s, x, best[s]))
    BY <1>1, <1>4, ConfigAssumption, SMTT(30) DEF InRange, EmptySentinel, IsBetter
<1> HIDE DEF n, i, q
<1>15. ASSUME NEW t \in Sides
       PROVE  \/ /\ best'[t] = EmptySentinel(t)
                 /\ \A m \in Nodes : pool'[m] # NoOrder => pool'[m].side # t
              \/ /\ \E m \in Nodes : /\ pool'[m] # NoOrder /\ pool'[m].side = t
                                     /\ pool'[m].price = best'[t]
                 /\ \A m \in Nodes :
                      pool'[m] # NoOrder /\ pool'[m].side = t
                          => ~IsBetter(t, pool'[m].price, best'[t])
    <2>1. CASE t # s
        BY <1>5, <1>10, <1>13, <2>1 DEF n
    <2>2. CASE t = s /\ IsBetter(s, x, best[s])
        <3>1. best'[s] = x /\ pool'[n] = o /\ n \in Nodes
            BY <1>5, <1>12, <2>2 DEF n
        <3>2. ASSUME NEW m \in Nodes, pool'[m] # NoOrder, pool'[m].side = s
              PROVE  ~IsBetter(s, pool'[m].price, x)
            <4>1. CASE m = n
                BY <1>1, <3>1, <4>1 DEF IsBetter
            <4>2. CASE m # n
                <5>1. pool'[m] = pool[m] /\ pool[m].price \in Int
                    BY <1>5, <1>11, <3>2, <4>2
                <5>2. ~IsBetter(s, pool[m].price, best[s])
                    BY <1>1, <1>10, <3>2, <5>1
                <5> QED BY <1>1, <1>14, <2>2, <5>1, <5>2 DEF IsBetter
            <4> QED BY <4>1, <4>2
        <3> QED BY <1>1, <2>2, <3>1, <3>2
    <2>3. CASE t = s /\ ~IsBetter(s, x, best[s])
        <3>1. best'[s] = best[s] /\ best[s] # EmptySentinel(s)
            BY <1>12, <1>14, <2>3
        <3>2. \E m \in Nodes : pool[m] # NoOrder /\ pool[m].side = s /\ pool[m].price = best[s]
            BY <1>1, <1>10, <3>1, Zenon
        <3>3. \A m \in Nodes :
                 pool[m] # NoOrder /\ pool[m].side = s => ~IsBetter(s, pool[m].price, best[s])
            BY <1>1, <1>10, <3>1, Zenon
        <3>4. \E m \in Nodes : pool'[m] # NoOrder /\ pool'[m].side = s /\ pool'[m].price = best[s]
            BY <1>5, <3>2 DEF n
        <3>5. \A m \in Nodes :
                 pool'[m] # NoOrder /\ pool'[m].side = s => ~IsBetter(s, pool'[m].price, best[s])
            BY <1>5, <2>3, <3>3 DEF n
        <3> QED BY <2>3, <3>1, <3>4, <3>5
    <2> QED BY <2>1, <2>2, <2>3, Zenon
<1>16. BestIn(pool, best)'
    BY <1>15, Zenon DEF BestIn, IsBetter, EmptySentinel
<1> QED BY <1>5, <1>8, <1>9, <1>16 DEF BookPrices, n

\* The prices do not depend on how much of an order is left.
LEMMA FillPrices ==
    ASSUME BookPrices, UNCHANGED <<queue, occupied, best>>,
           \A m \in Nodes : /\ pool'[m] # NoOrder <=> pool[m] # NoOrder
                            /\ pool'[m].side = pool[m].side /\ pool'[m].price = pool[m].price
    PROVE  BookPrices'
<1>1. queue' = queue /\ occupied' = occupied /\ best' = best
    BY Zenon
<1>2. BitsIn(queue, occupied)'
    BY <1>1, Zenon DEF BookPrices, BitsIn
<1>3. TicksIn(pool)'
    BY Zenon DEF BookPrices, TicksIn
<1>4. BestIn(pool, best)'
    BY <1>1 DEF BookPrices, BestIn, EmptySentinel, IsBetter
<1> QED BY <1>2, <1>3, <1>4 DEF BookPrices

\* A book with fewer orders is not crossed if the whole one was not.
LEMMA FewerUncrossed ==
    ASSUME UncrossedIn(pool),
           \A m \in Nodes : pool'[m] # NoOrder =>
               pool[m] # NoOrder /\ pool'[m].side = pool[m].side /\ pool'[m].price = pool[m].price
    PROVE  UncrossedIn(pool)'
BY Zenon DEF UncrossedIn

\* A book rebuilt from a snapshot is not crossed if the one the snapshot was taken of was not.
LEMMA RestoredUncrossed ==
    ASSUME NEW w, NEW p, RestoredIn(w, p)
    PROVE  UncrossedIn(p)
<1> SUFFICES ASSUME NEW n \in Nodes, NEW m \in Nodes, p[n] # NoOrder, p[m] # NoOrder,
                    p[n].side = "Buy", p[m].side = "Sell"
             PROVE  p[n].price < p[m].price
    BY Zenon DEF UncrossedIn
<1>1. PICK a \in Nodes : w[a] # NoOrder /\ w[a].side = p[n].side /\ w[a].price = p[n].price
    BY Zenon DEF RestoredIn, CopiedFrom
<1>2. PICK b \in Nodes : w[b] # NoOrder /\ w[b].side = p[m].side /\ w[b].price = p[m].price
    BY Zenon DEF RestoredIn, CopiedFrom
<1>3. w[a].price < w[b].price
    BY <1>1, <1>2, Zenon DEF RestoredIn, UncrossedIn
<1> QED BY <1>1, <1>2, <1>3
-----------------------------------------------------------------------------
(***************************************************************************)
(* The inductive invariant, and the calls.                                 *)
(***************************************************************************)
\* While matchInto runs: the order has a positive quantity, its id is not in the id map, a priced
\* order is in range, and its sequence number is above that of every resting order.
CallInv ==
    pc = "match" =>
        /\ incoming.quantity \in Nat \ {0} /\ remaining <= incoming.quantity
        /\ idMap[incoming.id] = Null
        /\ incoming.type # "Market" => InRange(incoming.price)
        /\ seq \in Nat \ {0}
        /\ \A n \in LiveNodes : pool[n].seq < seq

\* While a snapshot is being restored: the orders still to come are well placed, have ids the
\* book does not hold, are in queue order and come after what is already queued at their level.
TodoExactIn(work, q, p, ids) ==
    /\ \A s \in Sides, i \in Slots :
        /\ IsInjective(work.queue[s][i])
        /\ \A n \in Range(work.queue[s][i]) :
            /\ work.pool[n] # NoOrder
            /\ work.pool[n].side = s /\ Index(work.pool[n].price) = i
            /\ work.pool[n].seq <= work.bookSeq
            /\ ids[work.pool[n].id] = Null
        /\ \A j, k \in DOMAIN work.queue[s][i] :
            j < k => work.pool[work.queue[s][i][j]].seq < work.pool[work.queue[s][i][k]].seq
        /\ \A n \in Range(q[s][i]), m \in Range(work.queue[s][i]) :
            p[n].seq < work.pool[m].seq
    /\ \A m, n \in Nodes :
        work.pool[m] # NoOrder /\ work.pool[n] # NoOrder /\ work.pool[m].id = work.pool[n].id
            => m = n

\* What is still to be restored fits the book rebuilt so far.
TodoExact == TodoExactIn(todo, queue, pool, idMap)

\* While a snapshot is being restored the free list has a node for every order still to come.
TodoFits == IsFiniteSet(TodoNodes) /\ Cardinality(TodoNodes) <= Len(free)

\* The inductive invariant of the order book.
IInv ==
    /\ TypeOK
    /\ IndexConsistent
    /\ TimePriority
    /\ CallInv
    /\ pc = "restore" => TodoExact /\ TodoFits

\* The part of the type invariant that is about the call in progress and the restore work list.
CallTypeOK ==
    /\ stp \in Policies
    /\ seq \in Nat /\ nextTradeId \in Nat
    /\ pc \in {"idle", "match", "fresh", "done", "restore"}
    /\ incoming \in NewOrders \cup {NoOrder}
    /\ pc \in {"match", "fresh"} => incoming \in NewOrders
    /\ remaining \in Nat
    /\ result \in Results
    /\ cancelled \in Orders \cup {NoOrder}
    /\ victims \in Seq(Orders)
    /\ todo \in [pool : [Nodes -> Orders \cup {NoOrder}], queue : [Sides -> [Slots -> Seq(Nodes)]],
                bookSeq : Nat, nextTradeId : Nat]

\* No resting order has a sequence number above the counter it was drawn from.
SeqBound == \A n \in LiveNodes : pool[n].seq <= (IF pc = "restore" THEN todo.bookSeq ELSE seq)

\* The restore conjunct of IInv under a name.
TodoInv == pc = "restore" => TodoExact /\ TodoFits

\* The inductive invariant regrouped into what the book, the call and the restore contribute.
LEMMA IInvParts ==
    IInv <=> BookInv /\ CallTypeOK /\ SeqBound /\ CallInv /\ TodoInv
BY ZenonT(60)
   DEF IInv, BookInv, BookTypeOK, QueueOrder, CallTypeOK, SeqBound, TodoInv, TypeOK, TimePriority

\* A book with its invariant, no orders and every pool node free.
NewBook == BookInv /\ LiveNodes = {} /\ Len(free) = MaxOrders

\* The OrderBook constructor (order_book.cpp:23-36) establishes the book part of the invariant.
LEMMA EmptyBookInv == EmptyBook => NewBook
<1> SUFFICES ASSUME EmptyBook PROVE NewBook
    OBVIOUS
<1>1. /\ free \in [1 .. MaxOrders -> Nodes] /\ DOMAIN free = Nodes
      /\ \A n \in Nodes : free[n] = n
    BY DEF EmptyBook, Nodes
<1>2. free \in Seq(Nodes) /\ Len(free) = MaxOrders
    BY <1>1, ConfigAssumption DEF Nodes
<1>3. IsInjective(free) /\ Range(free) = Nodes
    BY <1>1 DEF IsInjective, Range
<1>4. BookTypeOK
    <2>1. pool \in [Nodes -> Orders \cup {NoOrder}] /\ idMap \in [OrderIds -> Nodes \cup {Null}]
        BY DEF EmptyBook
    <2>2. queue \in [Sides -> [Slots -> Seq(Nodes)]]
        BY EmptyIs DEF EmptyBook
    <2>3. totalQty \in [Sides -> [Slots -> Int]] /\ occupied \in [Sides -> SUBSET Slots]
        BY DEF EmptyBook
    <2>4. best \in [Sides -> Int] /\ \A s \in Sides : best[s] = EmptySentinel(s)
        BY ConfigAssumption DEF EmptyBook, EmptySentinel
    <2> QED BY <1>2, <2>1, <2>2, <2>3, <2>4 DEF BookTypeOK
<1>5. \A n \in Nodes : pool[n] = NoOrder
    BY DEF EmptyBook
<1>6. LiveNodes = {}
    BY <1>5 DEF LiveNodes
<1>7. \A s \in Sides, i \in Slots : queue[s][i] = <<>>
    BY DEF EmptyBook
<1>8. Range(<<>>) = {} /\ IsInjective(<<>>) /\ DOMAIN <<>> = {}
    BY DEF Range, IsInjective
<1>9. IndexConsistent
    <2>1. PoolExact
        BY <1>3, <1>5 DEF PoolExact
    <2>2. IdMapExact
        BY <1>5, ConfigAssumption DEF IdMapExact, EmptyBook, Nodes, Null
    <2>3. QueuesExact
        BY <1>6, <1>7, <1>8 DEF QueuesExact
    <2> QED BY <2>1, <2>2, <2>3 DEF IndexConsistent
<1>10. QueueOrder
    BY <1>7, <1>8 DEF QueueOrder
<1> QED BY <1>2, <1>4, <1>6, <1>9, <1>10 DEF BookInv, NewBook

\* The empty restore work list has its type.
LEMMA NoSnapshotType ==
    NoSnapshot \in [pool : [Nodes -> Orders \cup {NoOrder}], queue : [Sides -> [Slots -> Seq(Nodes)]],
                    bookSeq : Nat, nextTradeId : Nat]
BY EmptyIs DEF NoSnapshot

\* A default OrderResult has its type.
LEMMA NoResultType == NoResult \in Results
<1>1. 0 \in Nat
    OBVIOUS
<1>2. FALSE \in BOOLEAN /\ "None" \in SubmitStatus
    BY Zenon DEF SubmitStatus
<1> QED BY <1>1, <1>2, Zenon DEF Results, NoResult

\* The results the operations build have their type.
LEMMA ResultTypes ==
    ASSUME NEW st \in SubmitStatus, NEW f \in Nat, NEW r \in Nat, NEW b \in BOOLEAN
    PROVE  /\ [status |-> st, filled |-> f, remaining |-> r, rested |-> b] \in Results
           /\ [NoResult EXCEPT !.status = st] \in Results
           /\ [NoResult EXCEPT !.status = st, !.filled = f, !.remaining = r] \in Results
           /\ [NoResult EXCEPT !.status = st, !.remaining = r, !.filled = f] \in Results
<1>1. 0 \in Nat
    OBVIOUS
<1>2. FALSE \in BOOLEAN /\ "None" \in SubmitStatus
    BY Zenon DEF SubmitStatus
<1>3. [status |-> st, filled |-> f, remaining |-> r, rested |-> b] \in Results
    BY Zenon DEF Results
<1>4. [NoResult EXCEPT !.status = st] \in Results
    BY <1>1, <1>2, Zenon DEF Results, NoResult
<1>5. [NoResult EXCEPT !.status = st, !.filled = f, !.remaining = r] \in Results
    BY <1>1, <1>2, Zenon DEF Results, NoResult
<1>6. [NoResult EXCEPT !.status = st, !.remaining = r, !.filled = f] \in Results
    BY <1>1, <1>2, Zenon DEF Results, NoResult
<1> QED BY <1>3, <1>4, <1>5, <1>6

\* Every initial state satisfies the inductive invariant.
LEMMA InitInv == Init => IInv
<1> SUFFICES ASSUME Init PROVE IInv
    OBVIOUS
<1>1. BookInv /\ LiveNodes = {}
    BY EmptyBookInv DEF Init, NewBook
<1>2. CallTypeOK
    <2>1. todo \in [pool : [Nodes -> Orders \cup {NoOrder}], queue : [Sides -> [Slots -> Seq(Nodes)]],
                    bookSeq : Nat, nextTradeId : Nat]
        BY NoSnapshotType DEF Init
    <2>2. victims \in Seq(Orders)
        BY EmptyIs DEF Init, NoCall
    <2>3. result \in Results
        BY NoResultType DEF Init, NoCall
    <2> QED BY <2>1, <2>2, <2>3 DEF Init, NoCall, CallTypeOK
<1>3. SeqBound /\ CallInv /\ TodoInv
    BY <1>1 DEF Init, SeqBound, CallInv, TodoInv
<1> QED BY <1>1, <1>2, <1>3, IInvParts

\* EmptyBookInv about the next state: a process restart constructs a fresh book.
LEMMA EmptyBookInvPrime == EmptyBook' => NewBook'
BY EmptyBookInv, PTL

\* IInvParts about the next state.
LEMMA IInvPartsPrime ==
    IInv' <=> BookInv' /\ CallTypeOK' /\ SeqBound' /\ CallInv' /\ TodoInv'
BY IInvParts, PTL

\* The agreement of the indexes and the order of the queues are about the pool, the free list, the
\* id map and the queues only.
LEMMA IndexStutter ==
    ASSUME BookInv, UNCHANGED <<pool, free, idMap, queue>>
    PROVE  IndexConsistent' /\ QueueOrder' /\ LiveNodes' = LiveNodes
<1>1. pool' = pool /\ free' = free /\ idMap' = idMap /\ queue' = queue
    BY Zenon
<1>2. LiveNodes' = LiveNodes
    BY <1>1, Zenon DEF LiveNodes
<1>3. PoolExact' /\ IdMapExact'
    BY <1>1 DEF BookInv, IndexConsistent, PoolExact, IdMapExact
<1>4. QueuesExact'
    <2>1. ASSUME NEW s \in Sides, NEW i \in Slots
          PROVE  /\ IsInjective(queue[s][i])
                 /\ \A m \in Range(queue[s][i]) :
                       pool[m] # NoOrder /\ pool[m].side = s /\ Index(pool[m].price) = i
        BY QueuedAt, Zenon
    <2>2. ASSUME NEW m \in LiveNodes
          PROVE  m \in Range(queue[pool[m].side][Index(pool[m].price)])
        BY LiveNode, Zenon
    <2> QED BY <1>1, <1>2, <2>1, <2>2 DEF QueuesExact, Index
<1>5. QueueOrder'
    <2>1. ASSUME NEW s \in Sides, NEW i \in Slots,
                 NEW j \in DOMAIN queue[s][i], NEW k \in DOMAIN queue[s][i], j < k
          PROVE  pool[queue[s][i][j]].seq < pool[queue[s][i][k]].seq
        BY <2>1, QueuedAt, Zenon
    <2> QED BY <1>1, <2>1, Zenon DEF QueueOrder
<1> QED BY <1>2, <1>3, <1>4, <1>5, Zenon DEF IndexConsistent

\* A step that touches only the call state preserves the book part.
LEMMA BookStutter ==
    ASSUME BookInv, UNCHANGED bookVars
    PROVE  BookInv' /\ LiveNodes' = LiveNodes
<1>1. BookTypeOK'
    BY Zenon DEF BookInv, BookTypeOK, EmptySentinel, InRange, bookVars
<1>2. UNCHANGED <<pool, free, idMap, queue>>
    BY Zenon DEF bookVars
<1> QED BY <1>1, <1>2, IndexStutter, Zenon DEF BookInv

\* What the callers of LeaveBook use: who is left, unchanged, and only the leaver's id is freed.
LEMMA AfterLeave ==
    ASSUME BookInv, NEW n \in LiveNodes, NEW p \in Int, InRange(p), LeaveBook(n, p)
    PROVE  /\ BookInv'
           /\ \A m \in LiveNodes' : m \in LiveNodes /\ pool'[m] = pool[m]
           /\ \A id \in OrderIds : idMap'[id] = IF id = pool[n].id THEN Null ELSE idMap[id]
<1>1. /\ BookInv'
      /\ pool' = [pool EXCEPT ![n] = NoOrder]
      /\ idMap' = [idMap EXCEPT ![pool[n].id] = Null]
    BY LeaveBookInv
<1>2. \A m \in Nodes : pool'[m] = IF m = n THEN NoOrder ELSE pool[m]
    BY <1>1 DEF BookInv, BookTypeOK
<1>3. \A m \in LiveNodes' : m \in LiveNodes /\ pool'[m] = pool[m]
    BY <1>2 DEF LiveNodes
<1>4. \A id \in OrderIds : idMap'[id] = IF id = pool[n].id THEN Null ELSE idMap[id]
    BY <1>1 DEF BookInv, BookTypeOK
<1> QED BY <1>1, <1>3, <1>4

\* submitEx, an early rejection (order_book.cpp:217-262): the book is not touched.
LEMMA RejectedInv ==
    ASSUME IInv, pc \in {"idle", "fresh"}, NEW in \in NewOrders, NEW reason \in SubmitStatus,
           Rejected(in, reason), UNCHANGED stp
    PROVE  IInv'
<1>1. BookInv /\ CallTypeOK /\ SeqBound
    BY IInvParts
<1>2. /\ pc' = "done" /\ incoming' = in
      /\ result' = [NoResult EXCEPT !.status = reason]
      /\ UNCHANGED <<bookVars, counters, remaining, trades, victims, cancelled, todo>>
    BY DEF Rejected
<1>3. BookInv' /\ LiveNodes' = LiveNodes
    BY <1>1, <1>2, BookStutter
<1>4. result' \in Results
    BY <1>2, ResultTypes, ZenonT(60)
<1>5. CallTypeOK'
    BY <1>1, <1>2, <1>4 DEF CallTypeOK, counters
<1>6. SeqBound'
    BY <1>1, <1>2, <1>3 DEF SeqBound, bookVars, counters
<1>7. CallInv' /\ TodoInv'
    BY <1>2 DEF CallInv, TodoInv
<1> QED BY <1>3, <1>5, <1>6, <1>7, IInvPartsPrime

\* submitEx, an accepted order entering matchInto with the next sequence number.
LEMMA StartMatchingInv ==
    ASSUME IInv, pc \in {"idle", "fresh"}, NEW in \in NewOrders, RejectReason(in) = "Ok",
           StartMatching(in), UNCHANGED stp
    PROVE  IInv'
<1>1. BookInv /\ CallTypeOK /\ SeqBound
    BY IInvParts
<1>2. /\ pc' = "match" /\ incoming' = in /\ seq' = seq + 1 /\ remaining' = in.quantity
      /\ UNCHANGED <<bookVars, nextTradeId, trades, victims, cancelled, result, todo>>
    BY DEF StartMatching
<1>3. BookInv' /\ LiveNodes' = LiveNodes
    BY <1>1, <1>2, BookStutter
<1>4. /\ in.quantity \in Nat \ {0} /\ idMap[in.id] = Null
      /\ in.type # "Market" => InRange(in.price)
    <2>1. in.quantity \in Int
        BY DEF NewOrders
    <2>2. /\ ~(in.quantity <= 0)
          /\ ~(in.type # "Market" /\ ~InRange(in.price))
          /\ idMap[in.id] = Null
        BY DEF RejectReason
    <2> QED BY <2>1, <2>2
<1>5. CallTypeOK'
    <2>1. seq' \in Nat /\ remaining' \in Nat
        BY <1>1, <1>2, <1>4 DEF CallTypeOK
    <2> QED BY <1>1, <1>2, <2>1, Zenon DEF CallTypeOK
<1>6. \A n \in LiveNodes : pool[n].seq <= seq /\ pool[n].seq \in Nat
    BY <1>1, LiveNode, Zenon DEF SeqBound
<1>7. seq' \in Nat \ {0} /\ \A n \in LiveNodes' : pool'[n].seq < seq' /\ pool'[n].seq <= seq'
    <2>1. seq \in Nat /\ seq' = seq + 1 /\ pool' = pool
        BY <1>1, <1>2, Zenon DEF bookVars, CallTypeOK
    <2>2. seq' \in Nat \ {0} /\ \A x \in Nat : x <= seq => x < seq' /\ x <= seq'
        BY <2>1
    <2> QED BY <1>3, <1>6, <2>1, <2>2, Zenon
<1>8. CallInv'
    <2>1. in.quantity <= in.quantity
        BY <1>4
    <2>2. idMap' = idMap
        BY <1>2, Zenon DEF bookVars
    <2> QED BY <1>2, <1>4, <1>7, <2>1, <2>2, Zenon DEF CallInv
<1>9. SeqBound' /\ TodoInv'
    <2>1. pc' # "restore"
        BY <1>2
    <2> QED BY <1>7, <2>1, Zenon DEF SeqBound, TodoInv
<1> QED BY <1>3, <1>5, <1>8, <1>9, IInvPartsPrime

\* submitEx as a whole, called fresh or from replace, preserves the invariant.
LEMMA SubmitExInv ==
    ASSUME IInv, pc \in {"idle", "fresh"}, NEW in \in NewOrders, SubmitEx(in), UNCHANGED stp
    PROVE  IInv'
<1>1. RejectReason(in) \in SubmitStatus
    BY DEF RejectReason, SubmitStatus
<1>2. CASE RejectReason(in) = "Ok"
    BY <1>2, StartMatchingInv DEF SubmitEx
<1>3. CASE RejectReason(in) # "Ok"
    BY <1>1, <1>3, RejectedInv DEF SubmitEx
<1> QED BY <1>2, <1>3

\* What every step of matchInto may assume of the incoming order.
LEMMA MatchFacts ==
    ASSUME IInv, pc = "match"
    PROVE  /\ incoming \in NewOrders /\ incoming.id \in OrderIds /\ incoming.side \in Sides
           /\ incoming.quantity \in Nat \ {0} /\ remaining \in Nat /\ remaining <= incoming.quantity
           /\ idMap[incoming.id] = Null
           /\ seq \in Nat \ {0}
           /\ \A n \in LiveNodes : pool[n].seq < seq
           /\ Opp \in Sides
BY IInvParts DEF CallTypeOK, CallInv, NewOrders, Opp, Opposite, Sides

\* Inside the matching loop the best opposite price has a level, and its head is a live order of it.
LEMMA CanMatchFacts ==
    ASSUME IInv, CanMatch
    PROVE  /\ pc = "match"
           /\ best[Opp] \in Int /\ InRange(best[Opp]) /\ Index(best[Opp]) \in Slots
           /\ BestQueue # <<>> => /\ Resting \in LiveNodes
                                  /\ pool[Resting].side = Opp
                                  /\ Index(pool[Resting].price) = Index(best[Opp])
<1>1. pc = "match" /\ best[Opp] # EmptySentinel(Opp)
    BY DEF CanMatch, HasBest
<1>2. BookInv /\ Opp \in Sides
    BY <1>1, IInvParts, MatchFacts
<1>3. best[Opp] \in Int /\ InRange(best[Opp])
    BY <1>1, <1>2 DEF BookInv, BookTypeOK
<1>4. Index(best[Opp]) \in Slots
    BY <1>3, IndexIsSlot
<1>5. ASSUME BestQueue # <<>>
      PROVE  /\ Resting \in LiveNodes
             /\ pool[Resting].side = Opp
             /\ Index(pool[Resting].price) = Index(best[Opp])
    <2>1. BestQueue \in Seq(Nodes)
        BY <1>2, <1>4 DEF BookInv, BookTypeOK, BestQueue
    <2>2. Resting \in Range(BestQueue) /\ Resting \in Nodes
        BY <1>5, <2>1, TailFacts DEF Resting
    <2> QED BY <1>2, <1>4, <2>2 DEF BookInv, IndexConsistent, QueuesExact, LiveNodes, BestQueue
<1> QED BY <1>1, <1>3, <1>4, <1>5

\* A matching step that preserves the book part, adds no resting order and does not enter the
\* incoming id preserves the whole invariant.
LEMMA MatchStep ==
    ASSUME IInv, pc = "match", BookInv', CallTypeOK', pc' \in {"match", "done"},
           \A n \in LiveNodes' : n \in LiveNodes /\ pool'[n].seq = pool[n].seq,
           idMap'[incoming.id] = Null, remaining' <= remaining,
           UNCHANGED <<seq, incoming, todo>>
    PROVE  IInv'
<1>1. BookInv /\ CallTypeOK /\ CallInv
    BY IInvParts
<1>2. /\ incoming.quantity \in Nat \ {0} /\ remaining <= incoming.quantity /\ remaining \in Nat
      /\ incoming.type # "Market" => InRange(incoming.price)
      /\ seq \in Nat \ {0}
    BY <1>1 DEF CallTypeOK, CallInv
<1>3. \A n \in LiveNodes' : pool'[n].seq \in Nat /\ pool'[n].seq < seq'
    BY <1>1, LiveNode DEF CallInv
<1>4. SeqBound'
    <2>1. \A n \in LiveNodes' : pool'[n].seq <= seq'
        BY <1>2, <1>3
    <2> QED BY <2>1 DEF SeqBound
<1>5. CallInv'
    <2>1. remaining' \in Nat /\ remaining' <= incoming'.quantity
        BY <1>2, SMTT(60) DEF CallTypeOK
    <2>2. InRange(incoming.price)' = InRange(incoming.price)
        BY DEF InRange
    <2> QED BY <1>2, <1>3, <2>1, <2>2 DEF CallInv
<1>6. TodoInv'
    BY DEF TodoInv
<1> QED BY <1>4, <1>5, <1>6, IInvPartsPrime

\* A partial fill (PriceLevel::reduceQuantity, order_book.cpp:139) preserves the book part.
LEMMA PartialFillInv ==
    ASSUME BookInv, NEW n \in LiveNodes, NEW qty \in Nat, qty < pool[n].remaining,
           pool' = [pool EXCEPT ![n].remaining = @ - qty],
           NEW t \in Sides, NEW l \in Slots, TakeFromTotal(t, l, qty),
           UNCHANGED <<free, idMap, queue, occupied, best>>
    PROVE  /\ BookInv'
           /\ LiveNodes' = LiveNodes
           /\ \A m \in LiveNodes : pool'[m].seq = pool[m].seq
           /\ \A m \in Nodes : /\ pool'[m] # NoOrder <=> pool[m] # NoOrder
                              /\ pool'[m].side = pool[m].side /\ pool'[m].price = pool[m].price
<1>1. /\ n \in Nodes /\ pool[n] \in Orders /\ pool[n] # NoOrder
      /\ pool[n].remaining \in Nat \ {0} /\ pool[n].remaining <= pool[n].quantity
    BY LiveNode
<1> DEFINE o == [pool[n] EXCEPT !.remaining = @ - qty]
<1>2. /\ o \in Orders
      /\ o.id = pool[n].id /\ o.side = pool[n].side /\ o.price = pool[n].price
      /\ o.seq = pool[n].seq
    BY <1>1 DEF Orders
<1>3. o # NoOrder
    BY <1>2, ArrivalsAssumption
<1>4. pool' = [pool EXCEPT ![n] = o]
    BY <1>1 DEF BookInv, BookTypeOK
<1>5. \A m \in Nodes : pool'[m] = IF m = n THEN o ELSE pool[m]
    BY <1>4 DEF BookInv, BookTypeOK
<1> HIDE DEF o
<1>6. \A m \in Nodes :
         /\ pool'[m] # NoOrder <=> pool[m] # NoOrder
         /\ pool'[m].id = pool[m].id /\ pool'[m].side = pool[m].side
         /\ pool'[m].price = pool[m].price /\ pool'[m].seq = pool[m].seq
    BY <1>1, <1>2, <1>3, <1>5
<1>7. LiveNodes' = LiveNodes
    BY <1>6 DEF LiveNodes
<1>8. BookTypeOK'
    <2>1. pool' \in [Nodes -> Orders \cup {NoOrder}]
        BY <1>2, <1>4, ZenonT(60) DEF BookInv, BookTypeOK
    <2>2. totalQty' \in [Sides -> [Slots -> Int]]
        BY DEF BookInv, BookTypeOK, TakeFromTotal
    <2> QED BY <2>1, <2>2 DEF BookInv, BookTypeOK, EmptySentinel, InRange
<1>9. PoolExact' /\ IdMapExact'
    BY <1>6 DEF BookInv, IndexConsistent, PoolExact, IdMapExact
<1>11. QueuesExact'
    <2>1. \A m \in LiveNodes : m \in Nodes
        BY DEF LiveNodes
    <2>2. ASSUME NEW s \in Sides, NEW i \in Slots
          PROVE  /\ IsInjective(queue'[s][i])
                 /\ \A m \in Range(queue'[s][i]) :
                       pool'[m] # NoOrder /\ pool'[m].side = s /\ Index(pool'[m].price) = i
        <3>1. /\ IsInjective(queue[s][i])
              /\ \A m \in Range(queue[s][i]) :
                    /\ m \in Nodes /\ pool[m] # NoOrder
                    /\ pool[m].side = s /\ Index(pool[m].price) = i
            BY QueuedAt, Zenon
        <3>2. queue' = queue
            BY Zenon
        <3> QED BY <1>6, <3>1, <3>2, Zenon
    <2>3. ASSUME NEW m \in LiveNodes'
          PROVE  m \in Range(queue'[pool'[m].side][Index(pool'[m].price)])
        BY <1>6, <1>7, <2>1, LiveNode, Zenon
    <2> QED BY <2>2, <2>3, Zenon DEF QueuesExact, Index
<1>12. QueueOrder'
    <2>1. \A s \in Sides, i \in Slots : \A j \in DOMAIN queue[s][i] : queue[s][i][j] \in Nodes
        BY SeqFacts, SMTT(60) DEF BookInv, BookTypeOK
    <2>2. ASSUME NEW s \in Sides, NEW i \in Slots,
                 NEW j \in DOMAIN queue'[s][i], NEW k \in DOMAIN queue'[s][i], j < k
          PROVE  pool'[queue'[s][i][j]].seq < pool'[queue'[s][i][k]].seq
        <3>1. queue' = queue
            BY Zenon
        <3>2. pool[queue[s][i][j]].seq < pool[queue[s][i][k]].seq
            BY <2>2, <3>1, QueuedAt, Zenon
        <3>3. queue[s][i][j] \in Nodes /\ queue[s][i][k] \in Nodes
            BY <2>1, <2>2, <3>1, Zenon
        <3> QED BY <1>6, <3>1, <3>2, <3>3
    <2> QED BY <2>2, Zenon DEF QueueOrder
<1>13. \A m \in LiveNodes : pool'[m].seq = pool[m].seq
    BY <1>6 DEF LiveNodes
<1>14. \A m \in Nodes : /\ pool'[m] # NoOrder <=> pool[m] # NoOrder
                       /\ pool'[m].side = pool[m].side /\ pool'[m].price = pool[m].price
    BY <1>6, Zenon
<1> QED BY <1>7, <1>8, <1>9, <1>11, <1>12, <1>13, <1>14, Zenon DEF BookInv, IndexConsistent

\* One trade of matchInto (order_book.cpp:115-155), partial or full, preserves the invariant.
LEMMA TradeInv ==
    ASSUME IInv, Trade, UNCHANGED stp
    PROVE  IInv'
<1> DEFINE o == pool[Resting]
           qty == MinOf(remaining, o.remaining)
<1>1. CanMatch /\ BestQueue # <<>>
    BY SMTT(60) DEF Trade
<1>2. BookInv /\ CallTypeOK
    BY IInvParts
<1>3. /\ pc = "match" /\ Resting \in LiveNodes /\ Opp \in Sides
      /\ best[Opp] \in Int /\ InRange(best[Opp]) /\ Index(best[Opp]) \in Slots
    BY <1>1, CanMatchFacts, MatchFacts, SMTT(60)
<1>4. o.remaining \in Nat \ {0} /\ remaining \in Nat
    BY <1>2, <1>3, LiveNode, MatchFacts, Zenon
<1>5. qty \in Nat /\ qty <= remaining /\ qty <= o.remaining
    BY <1>4, SMTT(60) DEF MinOf
<1>6. /\ remaining' = remaining - qty
      /\ IF qty = o.remaining
         THEN LeaveBook(Resting, best[Opp])
         ELSE /\ pool' = [pool EXCEPT ![Resting].remaining = @ - qty]
              /\ TakeFromTotal(Opp, Index(best[Opp]), qty)
              /\ UNCHANGED <<free, idMap, queue, occupied, best>>
      /\ nextTradeId' = nextTradeId + 1
      /\ UNCHANGED <<seq, pc, incoming, victims, cancelled, result, todo>>
    BY SMTT(60) DEF Trade
<1> HIDE DEF qty
<1>7. CallTypeOK'
    BY <1>2, <1>4, <1>5, <1>6, SMTT(60) DEF CallTypeOK
<1>8. idMap[incoming.id] = Null /\ incoming.id \in OrderIds
    BY <1>3, MatchFacts, Zenon
<1>9. /\ BookInv'
      /\ \A n \in LiveNodes' : n \in LiveNodes /\ pool'[n].seq = pool[n].seq
      /\ idMap'[incoming.id] = Null
    <2>1. CASE qty = o.remaining
        <3>1. LeaveBook(Resting, best[Opp])
            BY <1>6, <2>1
        <3> QED BY <1>2, <1>3, <1>8, <3>1, AfterLeave, SMTT(60)
    <2>2. CASE qty # o.remaining
        <3>1. qty < o.remaining
            BY <1>4, <1>5, <2>2
        <3> QED BY <1>2, <1>3, <1>5, <1>6, <1>8, <2>2, <3>1, PartialFillInv
    <2> QED BY <2>1, <2>2, SMTT(60)
<1>10. remaining' <= remaining /\ pc' \in {"match", "done"}
    BY <1>3, <1>4, <1>5, <1>6
<1> QED BY <1>3, <1>6, <1>7, <1>9, <1>10, MatchStep

\* The self-trade branch (order_book.cpp:88-113) preserves the invariant under each policy.
LEMMA SelfTradeInv ==
    ASSUME IInv, SelfTrade, UNCHANGED stp
    PROVE  IInv'
<1>1. CanMatch /\ BestQueue # <<>>
    BY DEF SelfTrade
<1>2. BookInv /\ CallTypeOK
    BY IInvParts
<1>3. /\ pc = "match" /\ Resting \in LiveNodes /\ Opp \in Sides
      /\ best[Opp] \in Int /\ InRange(best[Opp])
    BY <1>1, CanMatchFacts, MatchFacts, SMTT(60)
<1>4. /\ idMap[incoming.id] = Null /\ incoming.id \in OrderIds
      /\ remaining \in Nat /\ incoming.quantity \in Nat /\ remaining <= incoming.quantity
    BY <1>3, MatchFacts
<1>5. /\ IF stp = "CancelAggressor"
         THEN UNCHANGED <<bookVars, victims>>
         ELSE LeaveBook(Resting, best[Opp]) /\ victims' = Append(victims, pool[Resting])
      /\ IF stp = "CancelPassive"
         THEN UNCHANGED <<pc, result>>
         ELSE pc' = "done" /\ result' = StpResult
      /\ UNCHANGED <<counters, incoming, remaining, trades, cancelled, todo>>
    BY SMTT(60) DEF SelfTrade
<1>6. victims' \in Seq(Orders)
    <2>1. victims \in Seq(Orders) /\ pool[Resting] \in Orders
        BY <1>2, <1>3, LiveNode, Zenon DEF CallTypeOK
    <2> QED BY <1>5, <2>1, AppendIs, SMTT(60)
<1>7. result' \in Results
    <2>1. StpResult \in Results
        <3>1. incoming.quantity - remaining \in Nat
            BY <1>4, SMTT(60)
        <3>2. "CancelledBySelfTradePrevention" \in SubmitStatus
            BY DEF SubmitStatus
        <3>3. TRUE \in BOOLEAN
            BY Zenon
        <3> QED BY <1>4, <3>1, <3>2, <3>3, ResultTypes, ZenonT(60) DEF StpResult
    <2> QED BY <1>2, <1>5, <2>1 DEF CallTypeOK
<1>8. pc' \in {"match", "done"}
    BY <1>3, <1>5
<1>9. CallTypeOK'
    BY <1>2, <1>3, <1>5, <1>6, <1>7, <1>8, Zenon DEF CallTypeOK, counters
<1>10. /\ BookInv'
       /\ \A n \in LiveNodes' : n \in LiveNodes /\ pool'[n].seq = pool[n].seq
       /\ idMap'[incoming.id] = Null
    <2>1. CASE stp = "CancelAggressor"
        <3>1. UNCHANGED bookVars
            BY <1>5, <2>1
        <3> QED BY <1>2, <1>4, <3>1, BookStutter DEF bookVars
    <2>2. CASE stp # "CancelAggressor"
        <3>1. LeaveBook(Resting, best[Opp])
            BY <1>5, <2>2
        <3> QED BY <1>2, <1>3, <1>4, <3>1, AfterLeave, Zenon
    <2> QED BY <2>1, <2>2, Zenon
<1>11. remaining' <= remaining /\ UNCHANGED <<seq, incoming, todo>>
    BY <1>4, <1>5, SMTT(60) DEF counters
<1> QED BY <1>3, <1>8, <1>9, <1>10, <1>11, MatchStep, SMTT(60)

\* Finding an empty level at the best price and moving on preserves the invariant.
LEMMA SkipEmptyLevelInv ==
    ASSUME IInv, SkipEmptyLevel, UNCHANGED stp
    PROVE  IInv'
<1>1. CanMatch /\ OnLevelEmptied(Opp, best[Opp])
      /\ UNCHANGED <<pool, free, idMap, queue, totalQty, counters, pc, callVars, todo>>
    BY DEF SkipEmptyLevel
<1>2. BookInv /\ CallTypeOK
    BY IInvParts
<1>3. pc = "match" /\ Opp \in Sides /\ best[Opp] \in Int /\ InRange(best[Opp])
    BY <1>1, CanMatchFacts, MatchFacts, Zenon
<1>4. /\ occupied' \in [Sides -> SUBSET Slots]
      /\ best' \in [Sides -> Int]
      /\ \A t \in Sides : best'[t] = EmptySentinel(t) \/ InRange(best'[t])
    BY <1>1, <1>2, <1>3, OnLevelEmptiedType, SMTT(60) DEF BookInv
<1>5. BookTypeOK'
    BY <1>1, <1>2, <1>4, Zenon DEF BookInv, BookTypeOK, EmptySentinel, InRange
<1>6. IndexConsistent' /\ QueueOrder' /\ LiveNodes' = LiveNodes
    BY <1>1, <1>2, IndexStutter, Zenon
<1>9. BookInv'
    BY <1>5, <1>6, Zenon DEF BookInv
<1>10. CallTypeOK'
    BY <1>1, <1>2, ZenonT(30) DEF CallTypeOK, counters, callVars
<1>11. idMap'[incoming.id] = Null /\ remaining' <= remaining /\ UNCHANGED <<seq, incoming, todo>>
    BY <1>1, <1>3, MatchFacts, SMTT(60) DEF counters, callVars
<1>12. /\ pc' \in {"match", "done"}
       /\ \A n \in LiveNodes' : n \in LiveNodes /\ pool'[n].seq = pool[n].seq
    BY <1>1, <1>3, <1>6
<1> QED BY <1>3, <1>9, <1>10, <1>11, <1>12, MatchStep, SMTT(60)

\* The end of matching produces a well-typed result and no book obligation of its own.
LEMMA EndMatchingFacts ==
    ASSUME IInv, NEW status \in SubmitStatus, NEW rested \in BOOLEAN,
           EndMatching(status, rested), UNCHANGED stp
    PROVE  /\ CallTypeOK' /\ CallInv' /\ TodoInv'
           /\ pc = "match" /\ pc' = "done" /\ UNCHANGED seq
<1>1. /\ pc = "match" /\ pc' = "done"
      /\ result' = [status |-> status, filled |-> incoming.quantity - remaining,
                    remaining |-> remaining, rested |-> rested]
      /\ UNCHANGED <<counters, incoming, remaining, trades, victims, cancelled, todo>>
    BY SMTT(60) DEF EndMatching
<1>2. /\ incoming.quantity - remaining \in Nat /\ remaining \in Nat
    BY <1>1, MatchFacts, SMTT(60)
<1>3. result' \in Results
    BY <1>1, <1>2, ResultTypes, ZenonT(60)
<1>4. CallTypeOK'
    BY <1>1, <1>3, IInvParts, Zenon DEF CallTypeOK, counters
<1>5. CallInv' /\ TodoInv'
    BY <1>1, Zenon DEF CallInv, TodoInv
<1> QED BY <1>1, <1>4, <1>5 DEF counters

\* Ends of submitEx that rest nothing (filled, dropped, pool exhausted) preserve the invariant.
LEMMA DroppedInv ==
    ASSUME IInv, PoolExhausted \/ DropResidual \/ FullyFilled, UNCHANGED stp
    PROVE  IInv'
<1>1. PICK status \in SubmitStatus : EndMatching(status, FALSE) /\ UNCHANGED bookVars
    BY ZenonT(60), Zenon DEF PoolExhausted, DropResidual, FullyFilled, SubmitStatus
<1>2. FALSE \in BOOLEAN
    BY Zenon
<1>3. CallTypeOK' /\ CallInv' /\ TodoInv' /\ pc = "match" /\ pc' = "done" /\ UNCHANGED seq
    BY <1>1, <1>2, EndMatchingFacts, ZenonT(60)
<1>4. BookInv' /\ LiveNodes' = LiveNodes
    BY <1>1, IInvParts, BookStutter
<1>5. SeqBound'
    BY <1>1, <1>3, <1>4, IInvParts, Zenon DEF SeqBound, bookVars
<1> QED BY <1>3, <1>4, <1>5, IInvPartsPrime

\* What restResidual() puts into the pool is an order.
LEMMA ResidualType ==
    ASSUME IInv, pc = "match", incoming.type = "Limit", remaining > 0
    PROVE  Residual \in Orders
<1>1. /\ incoming \in NewOrders /\ seq \in Nat \ {0}
      /\ incoming.quantity \in Nat \ {0} /\ remaining \in Nat \ {0}
      /\ remaining <= incoming.quantity
    BY MatchFacts, SMTT(60)
<1>2. incoming.price \in MinPrice .. MaxPrice
    BY <1>1, IInvParts, ConfigAssumption DEF CallInv, InRange, NewOrders
<1>3. Residual \in [id : OrderIds, price : MinPrice .. MaxPrice, quantity : Nat \ {0},
                    remaining : Nat \ {0}, participant : Participants, seq : Nat \ {0},
                    side : Sides]
    BY <1>1, <1>2, Zenon DEF Residual, NewOrders
<1> QED BY <1>1, <1>3, Zenon DEF Orders, Residual

\* restResidual (order_book.cpp:193-215) preserves the invariant.
LEMMA RestResidualInv ==
    ASSUME IInv, RestResidual, UNCHANGED stp
    PROVE  IInv'
<1>1. /\ pc = "match" /\ incoming.type = "Limit" /\ remaining > 0 /\ free # <<>>
      /\ EndMatching("Ok", TRUE) /\ EnterBook(Residual)
    BY ZenonT(60) DEF RestResidual
<1>2. "Ok" \in SubmitStatus /\ TRUE \in BOOLEAN
    BY Zenon DEF SubmitStatus
<1>3. CallTypeOK' /\ CallInv' /\ TodoInv' /\ pc' = "done" /\ UNCHANGED seq
    BY <1>1, <1>2, EndMatchingFacts, ZenonT(60)
<1>4. BookInv /\ CallTypeOK /\ CallInv
    BY IInvParts
<1>5. Residual \in Orders
    BY <1>1, ResidualType, Zenon
<1>6. Residual.id = incoming.id /\ Residual.seq = seq
    BY Zenon DEF Residual
<1>7. idMap[Residual.id] = Null
    BY <1>1, <1>6, MatchFacts, Zenon
<1>8. \A m \in Range(queue[Residual.side][Index(Residual.price)]) : pool[m].seq < Residual.seq
    <2>1. Residual.side \in Sides /\ Residual.price \in Int /\ InRange(Residual.price)
        BY <1>5, ConfigAssumption DEF Orders, InRange
    <2>2. Index(Residual.price) \in Slots
        BY <2>1, IndexIsSlot
    <2>3. Range(queue[Residual.side][Index(Residual.price)]) \subseteq LiveNodes
        <3>1. \A t \in Sides, l \in Slots : \A n \in Range(queue[t][l]) : n \in LiveNodes
            BY <1>4, QueuedAt, Zenon
        <3> QED BY <2>1, <2>2, <3>1, Zenon
    <2> QED BY <1>1, <1>6, <2>3, MatchFacts, Zenon
<1>9. /\ BookInv' /\ Head(free) \in Nodes
      /\ pool' = [pool EXCEPT ![Head(free)] = Residual]
    BY <1>1, <1>4, <1>5, <1>7, <1>8, EnterBookInv, Zenon
<1>10. SeqBound'
    <2>1. \A m \in Nodes : pool'[m] = IF m = Head(free) THEN Residual ELSE pool[m]
        BY <1>4, <1>9, Zenon DEF BookInv, BookTypeOK
    <2>2. \A m \in LiveNodes' : m = Head(free) \/ m \in LiveNodes
        BY <2>1, SMTT(60) DEF LiveNodes
    <2>3. \A m \in LiveNodes : m \in Nodes /\ pool[m].seq \in Nat /\ pool[m].seq < seq
        BY <1>1, <1>4, LiveNode, MatchFacts, Zenon
    <2>4. seq \in Nat
        BY <1>4, Zenon DEF CallTypeOK
    <2>5. \A m \in LiveNodes' : pool'[m].seq <= seq
        BY <1>6, <1>9, <2>1, <2>2, <2>3, <2>4, SMTT(60)
    <2> QED BY <1>3, <2>5, Zenon DEF SeqBound
<1> QED BY <1>3, <1>9, <1>10, IInvPartsPrime

\* The removal that cancel and replace share: book part preserved, the removed order returned.
LEMMA RemoveForCancelInv ==
    ASSUME IInv, pc = "idle", NEW id \in OrderIds, idMap[id] # Null, RemoveForCancel(id)
    PROVE  /\ BookInv'
           /\ \A m \in LiveNodes' : m \in LiveNodes /\ pool'[m] = pool[m]
           /\ cancelled' \in Orders
           /\ pool[idMap[id]].remaining \in Nat /\ pool[idMap[id]].quantity \in Nat
           /\ pool[idMap[id]].remaining <= pool[idMap[id]].quantity
<1> DEFINE n == idMap[id]
<1>1. BookInv
    BY IInvParts
<1>2. n \in LiveNodes
    BY <1>1, SMTT(60) DEF BookInv, BookTypeOK, IndexConsistent, IdMapExact, LiveNodes
<1>3. /\ pool[n] \in Orders /\ pool[n].price \in Int /\ InRange(pool[n].price)
      /\ pool[n].remaining \in Nat /\ pool[n].quantity \in Nat
      /\ pool[n].remaining <= pool[n].quantity
    BY <1>1, <1>2, LiveNode, Zenon
<1>4. LeaveBook(n, pool[n].price) /\ cancelled' = pool[n]
    BY Zenon DEF RemoveForCancel
<1> HIDE DEF n
<1>5. /\ BookInv'
      /\ \A m \in LiveNodes' : m \in LiveNodes /\ pool'[m] = pool[m]
    BY <1>1, <1>2, <1>3, <1>4, AfterLeave, Zenon
<1> QED BY <1>3, <1>4, <1>5, Zenon DEF n

\* cancel (order_book.cpp:299-337) preserves the invariant.
LEMMA CancelInv ==
    ASSUME IInv, pc = "idle", NEW id \in OrderIds, Cancel(id), UNCHANGED stp
    PROVE  IInv'
<1>1. BookInv /\ CallTypeOK /\ SeqBound
    BY IInvParts
<1>2. pc' = "done" /\ UNCHANGED <<counters, incoming, remaining, trades, victims, todo>>
    BY DEF Cancel
<1>3. /\ BookInv' /\ cancelled' \in Orders \cup {NoOrder} /\ result' \in Results
      /\ \A m \in LiveNodes' : m \in LiveNodes /\ pool'[m] = pool[m]
    <2>1. CASE idMap[id] = Null
        <3>1. /\ result' = [NoResult EXCEPT !.status = "RejectedUnknownOrder"]
              /\ UNCHANGED bookVars /\ UNCHANGED cancelled
            BY <2>1 DEF Cancel
        <3>2. BookInv' /\ LiveNodes' = LiveNodes /\ pool' = pool
            BY <1>1, <3>1, BookStutter DEF bookVars
        <3>3. result' \in Results
            <4>1. "RejectedUnknownOrder" \in SubmitStatus /\ TRUE \in BOOLEAN
                BY Zenon DEF SubmitStatus
            <4> QED BY <3>1, <4>1, ResultTypes, ZenonT(60)
        <3> QED BY <1>1, <3>1, <3>2, <3>3, SMTT(60) DEF CallTypeOK
    <2>2. CASE idMap[id] # Null
        <3> DEFINE o == pool[idMap[id]]
        <3>1. /\ RemoveForCancel(id)
              /\ result' = [NoResult EXCEPT !.status = "Ok", !.remaining = o.remaining,
                                            !.filled = o.quantity - o.remaining]
            BY <2>2 DEF Cancel
        <3>2. /\ BookInv' /\ cancelled' \in Orders
              /\ \A m \in LiveNodes' : m \in LiveNodes /\ pool'[m] = pool[m]
              /\ o.remaining \in Nat /\ o.quantity - o.remaining \in Nat
            BY <2>2, <3>1, RemoveForCancelInv, SMTT(60)
        <3> HIDE DEF o
        <3>3. result' \in Results
            <4>1. "Ok" \in SubmitStatus /\ TRUE \in BOOLEAN
                BY Zenon, Zenon DEF SubmitStatus
            <4> QED BY <3>1, <3>2, <4>1, ResultTypes, ZenonT(60), Zenon
        <3> QED BY <3>2, <3>3, Zenon
    <2> QED BY <2>1, <2>2, Zenon
<1>4. CallTypeOK'
    BY <1>1, <1>2, <1>3, Zenon DEF CallTypeOK, counters
<1>5. SeqBound'
    BY <1>1, <1>2, <1>3, Zenon DEF SeqBound, counters
<1>6. CallInv' /\ TodoInv'
    BY <1>2, Zenon DEF CallInv, TodoInv
<1> QED BY <1>3, <1>4, <1>5, <1>6, IInvPartsPrime, Zenon

\* replace up to its call of submitEx (order_book.cpp:374-406) preserves the invariant.
LEMMA ReplaceInv ==
    ASSUME IInv, pc = "idle", NEW id \in OrderIds, NEW in \in NewOrders, Replace(id, in),
           UNCHANGED stp
    PROVE  IInv'
<1>1. BookInv /\ CallTypeOK /\ SeqBound
    BY IInvParts
<1>2. CASE ReplaceRejectReason(id, in) # "Ok"
    <2>1. ReplaceRejectReason(id, in) \in SubmitStatus
        BY Zenon DEF ReplaceRejectReason, SubmitStatus
    <2> QED BY <1>2, <2>1, RejectedInv, Zenon DEF Replace
<1>3. CASE ReplaceRejectReason(id, in) = "Ok"
    <2>1. idMap[id] # Null
        BY <1>3, SMTT(60) DEF ReplaceRejectReason
    <2>2. /\ RemoveForCancel(id) /\ pc' = "fresh" /\ incoming' = in
          /\ UNCHANGED <<counters, remaining, trades, victims, result, todo>>
        BY <1>3, SMTT(60) DEF Replace
    <2>3. /\ BookInv' /\ cancelled' \in Orders
          /\ \A m \in LiveNodes' : m \in LiveNodes /\ pool'[m] = pool[m]
        BY <2>1, <2>2, RemoveForCancelInv, Zenon
    <2>4. CallTypeOK'
        BY <1>1, <2>2, <2>3, Zenon DEF CallTypeOK, counters
    <2>5. SeqBound'
        BY <1>1, <2>2, <2>3, Zenon DEF SeqBound, counters
    <2>6. CallInv' /\ TodoInv'
        BY <2>2, Zenon DEF CallInv, TodoInv
    <2> QED BY <2>3, <2>4, <2>5, <2>6, IInvPartsPrime, ZenonT(30)
<1> QED BY <1>2, <1>3

\* Returning to the caller preserves the invariant.
LEMMA ReturnInv ==
    ASSUME IInv, Return, UNCHANGED stp
    PROVE  IInv'
<1>1. BookInv /\ CallTypeOK /\ SeqBound
    BY IInvParts
<1>2. BookInv' /\ LiveNodes' = LiveNodes
    BY <1>1, BookStutter DEF Return
<1>3. CallTypeOK'
    <2>1. victims' \in Seq(Orders) /\ result' \in Results
        BY EmptyIs, NoResultType DEF Return
    <2> QED BY <1>1, <2>1, Zenon DEF CallTypeOK, Return, counters
<1>4. SeqBound'
    BY <1>1, <1>2, Zenon DEF SeqBound, Return, counters, bookVars
<1>5. CallInv' /\ TodoInv'
    BY Zenon DEF CallInv, TodoInv, Return
<1> QED BY <1>2, <1>3, <1>4, <1>5, IInvPartsPrime
=============================================================================

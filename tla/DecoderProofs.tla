--------------------------- MODULE DecoderProofs ---------------------------
(***************************************************************************)
(* Two theorems about the decoders, for every catalogue, every stream and  *)
(* every way the bytes are cut into pieces.                                *)
(*                                                                         *)
(* StreamIntactHolds: the messages come out as they went in, up to the     *)
(* first that the reader has no use for.  The stream is its messages'      *)
(* frames one behind the other (EncodedIs), and the bytes in the buffer    *)
(* and under way are always those behind the messages handed over; so the  *)
(* frame at the front is that of the message that is due (DueInFront).     *)
(*                                                                         *)
(* OverflowExplainedHolds: a session that stops at most once before its    *)
(* buffer is drained never reads more than its decoder has room for.  When *)
(* it reads with its buffer drained, the buffer holds part of one frame.   *)
(* So after a read it holds less than one frame and a chunk, and after the *)
(* first message less than a chunk: if the session stops there, the next   *)
(* chunk fits, with one byte to spare.  A feed client, which never stops,  *)
(* holds part of its stream, so it has room if the stream is short.        *)
(***************************************************************************)
EXTENDS Decoder, SequenceTheorems, WellFoundedInduction, TLAPS
-----------------------------------------------------------------------------
(***************************************************************************)
(* Least and greatest elements.                                            *)
(***************************************************************************)
\* The relation < on the natural numbers, for the well-foundedness theorems.
NatLess == {p \in Nat \X Nat : p[1] < p[2]}

\* Min picks a least element of any nonempty set of naturals.
LEMMA MinExists ==
    ASSUME NEW T \in SUBSET Nat, T # {}
    PROVE  Min(T) \in T /\ \A x \in T : Min(T) <= x
<1>1. OpToRel(<, Nat) = NatLess
    BY Zenon DEF OpToRel, NatLess
<1>2. IsWellFoundedOn(NatLess, Nat)
    BY <1>1, NatLessThanWellFounded, Zenon
<1>3. \E x \in T : \A y \in T : ~(<<y, x>> \in NatLess)
    BY <1>2, WFMin, Zenon
<1>4. \E x \in T : \A y \in T : x =< y
    <2>1. \A x, y \in Nat : y < x => <<y, x>> \in NatLess
        BY SMT DEF NatLess
    <2>2. \A x, y \in Nat : ~(y < x) => x =< y
        BY SMT
    <2>3. \A x \in T : x \in Nat
        OBVIOUS
    <2> QED BY <1>3, <2>1, <2>2, <2>3, Zenon
<1> QED BY <1>4, Zenon DEF Min

\* Max picks a greatest element of any nonempty bounded set of naturals.
LEMMA MaxExists ==
    ASSUME NEW b \in Nat, NEW T \in SUBSET (0 .. b), T # {}
    PROVE  Max(T) \in T /\ \A x \in T : x <= Max(T)
<1> DEFINE U == {b - x : x \in T}
<1>1. U \in SUBSET Nat /\ U # {}
    <2>1. \A x \in T : b - x \in Nat
        OBVIOUS
    <2> QED BY <2>1, Zenon
<1>2. Min(U) \in U /\ \A u \in U : Min(U) <= u
    BY <1>1, MinExists, Zenon
<1>3. PICK x \in T : Min(U) = b - x
    BY <1>2, Zenon
<1>4. \A y \in T : b - x <= b - y
    BY <1>2, <1>3, Zenon
<1>5. \A y \in T : x >= y
    BY <1>4
<1>6. Max(T) \in T /\ \A y \in T : Max(T) >= y
    BY <1>5, Zenon DEF Max
<1> QED BY <1>6

-----------------------------------------------------------------------------
(***************************************************************************)
(* Where the bytes of a message are in a stream.  FlattenSeq is a          *)
(* recursive function; an induction is a look at the least number for      *)
(* which a claim would fail.                                               *)
(***************************************************************************)
\* f is what FlattenSeq computes for the first n parts of ss.
Joins(f, ss, n) == f = [i \in 1 .. n |-> IF i = 1 THEN ss[i] ELSE f[i - 1] \o ss[i]]

\* There is such a function.
LEMMA JoinsExist ==
    ASSUME NEW ss, NEW N \in Nat
    PROVE  \E f : Joins(f, ss, N)
<1> DEFINE B == {n \in Nat : ~\E f : Joins(f, ss, n)}
<1>1. SUFFICES ASSUME B # {} PROVE FALSE
    OBVIOUS
<1>2. Min(B) \in B /\ \A x \in B : Min(B) <= x
    BY <1>1, MinExists
<1>3. PICK n \in B : \A x \in B : n <= x
    BY <1>2
<1>4. n \in Nat /\ ~\E f : Joins(f, ss, n)
    OBVIOUS
<1>5. n # 0
    <2>1. Joins([i \in 1 .. 0 |-> 0], ss, 0)
        BY DEF Joins
    <2> QED BY <1>4, <2>1
<1>6. n - 1 \in Nat /\ n - 1 \notin B
    BY <1>3, <1>4, <1>5
<1>7. PICK f : Joins(f, ss, n - 1)
    BY <1>6
<1> HIDE DEF B
<1> DEFINE G(h, i) == IF i = 1 THEN ss[i] ELSE h[i - 1] \o ss[i]
           g == [i \in 1 .. n |-> IF i < n THEN f[i] ELSE G(f, i)]
<1>8. \A i \in 1 .. n - 1 : f[i] = G(f, i)
    <2>1. f = [i \in 1 .. n - 1 |-> G(f, i)]
        BY <1>7, Zenon DEF Joins
    <2> QED BY <2>1, Zenon
<1>9. \A i \in 1 .. n : i # 1 => i - 1 \in 1 .. n /\ i - 1 < n
    BY <1>4
<1>10. \A i \in 1 .. n : g[i] = G(f, i)
    <2>1. \A i \in 1 .. n : i < n => i \in 1 .. n - 1
        BY <1>4
    <2> QED BY <1>8, <2>1, Zenon
<1>11. \A i \in 1 .. n : G(g, i) = G(f, i)
    BY <1>9, Zenon
<1>12. g = [i \in 1 .. n |-> G(g, i)]
    <2>1. \A i \in 1 .. n : g[i] = G(g, i)
        BY <1>10, <1>11, Zenon
    <2>2. g = [i \in 1 .. n |-> g[i]]
        BY Zenon
    <2> HIDE DEF g, G
    <2> QED BY <2>1, <2>2, Zenon
<1>13. Joins(g, ss, n)
    BY <1>12, Zenon DEF Joins
<1> QED BY <1>4, <1>13, Zenon

\* The parts of a flattened sequence lie one behind the other; off[i] is where part i ends.
Layout(off, ss, all) ==
    /\ off \in [0 .. Len(ss) -> Nat]
    /\ off[0] = 0 /\ off[Len(ss)] = Len(all)
    /\ \A i \in 1 .. Len(ss) :
          /\ off[i] = off[i - 1] + Len(ss[i])
          /\ off[i] <= Len(all)
          /\ \A x \in 1 .. Len(ss[i]) : all[off[i - 1] + x] = ss[i][x]

\* What FlattenSeq does, if there is something to flatten.
LEMMA FlattenJoins ==
    ASSUME NEW ss, Len(ss) \in Nat \ {0}
    PROVE  \E f : Joins(f, ss, Len(ss)) /\ FlattenSeq(ss) = f[Len(ss)]
<1> DEFINE F == CHOOSE f : Joins(f, ss, Len(ss))
<1>1. Joins(F, ss, Len(ss))
    BY JoinsExist, Zenon
<1>2. FlattenSeq(ss) = F[Len(ss)]
    BY Zenon DEF FlattenSeq, Joins
<1> QED BY <1>1, <1>2, Zenon

\* What the first j parts make is a sequence, and what fewer make is at its front.
JoinedTo(f, T, j) ==
    /\ f[j] \in Seq(T)
    /\ \A k \in 1 .. j : /\ f[k] \in Seq(T) /\ Len(f[k]) <= Len(f[j])
                         /\ \A x \in 1 .. Len(f[k]) : f[j][x] = f[k][x]

\* By induction, so it is for all parts.
LEMMA JoinsGrow ==
    ASSUME NEW T, NEW ss \in Seq(Seq(T)), NEW f, Joins(f, ss, Len(ss)), NEW n \in 1 .. Len(ss)
    PROVE  JoinedTo(f, T, n)
<1>0. Len(ss) \in Nat /\ \A i \in 1 .. Len(ss) : ss[i] \in Seq(T)
    OBVIOUS
<1> DEFINE B == {j \in 1 .. Len(ss) : ~JoinedTo(f, T, j)}
<1>1. SUFFICES ASSUME B # {} PROVE FALSE
    OBVIOUS
<1>2. Min(B) \in B /\ \A x \in B : Min(B) <= x
    <2>1. B \in SUBSET Nat
        BY <1>0
    <2> QED BY <1>1, <2>1, MinExists, Zenon
<1>3. PICK j \in B : \A x \in B : j <= x
    BY <1>2, Zenon
<1>4. j \in 1 .. Len(ss) /\ ~JoinedTo(f, T, j)
    OBVIOUS
<1>5. \A i \in 1 .. Len(ss) : f[i] = IF i = 1 THEN ss[i] ELSE f[i - 1] \o ss[i]
    BY Zenon DEF Joins
<1>6. CASE j = 1
    <2>1. f[1] \in Seq(T)
        BY <1>0, <1>4, <1>5, <1>6, Zenon
    <2>2. \A k \in 1 .. j : k = 1
        BY <1>6
    <2>3. Len(f[1]) <= Len(f[1])
        BY <2>1
    <2> QED BY <1>4, <1>6, <2>1, <2>2, <2>3, Zenon DEF JoinedTo
<1>7. CASE j # 1
    <2>1. j - 1 \in 1 .. Len(ss) /\ j - 1 \notin B
        BY <1>0, <1>3, <1>4, <1>7
    <2>2. JoinedTo(f, T, j - 1)
        BY <2>1
    <2> HIDE DEF B
    <2> DEFINE p == f[j - 1]
    <2>3. p \in Seq(T) /\ ss[j] \in Seq(T) /\ f[j] = p \o ss[j]
        BY <1>0, <1>4, <1>5, <1>7, <2>2, Zenon DEF JoinedTo
    <2>4. \A k \in 1 .. j - 1 : /\ f[k] \in Seq(T) /\ Len(f[k]) <= Len(p)
                                /\ \A x \in 1 .. Len(f[k]) : p[x] = f[k][x]
        BY <2>2, Zenon DEF JoinedTo
    <2> HIDE DEF p
    <2>5. /\ f[j] \in Seq(T) /\ Len(f[j]) = Len(p) + Len(ss[j])
          /\ \A x \in 1 .. Len(p) : f[j][x] = p[x]
        BY <2>3
    <2>6. Len(p) \in Nat /\ Len(ss[j]) \in Nat
        BY <2>3
    <2>7. ASSUME NEW k \in 1 .. j
          PROVE  /\ f[k] \in Seq(T) /\ Len(f[k]) <= Len(f[j])
                 /\ \A x \in 1 .. Len(f[k]) : f[j][x] = f[k][x]
        <3>1. CASE k = j
            BY <2>5, <2>6, <3>1
        <3>2. CASE k # j
            <4>1. k \in 1 .. j - 1
                BY <1>0, <1>4, <3>2
            <4>2. f[k] \in Seq(T) /\ Len(f[k]) <= Len(p) /\ \A x \in 1 .. Len(f[k]) : p[x] = f[k][x]
                BY <2>4, <4>1, Zenon
            <4>3. Len(f[k]) \in Nat
                BY <4>2
            <4>4. \A x \in 1 .. Len(f[k]) : x \in 1 .. Len(p)
                BY <2>6, <4>2, <4>3
            <4>5. \A x \in 1 .. Len(f[k]) : f[j][x] = f[k][x]
                BY <2>5, <4>2, <4>4, Zenon
            <4>6. Len(f[k]) <= Len(f[j])
                BY <2>5, <2>6, <4>2, <4>3
            <4> QED BY <4>2, <4>5, <4>6
        <3> QED BY <3>1, <3>2
    <2> QED BY <1>4, <2>5, <2>7, Zenon DEF JoinedTo
<1> QED BY <1>6, <1>7

\* So a flattened sequence has a layout.
LEMMA FlattenLayout ==
    ASSUME NEW T, NEW ss \in Seq(Seq(T))
    PROVE  FlattenSeq(ss) \in Seq(T) /\ \E off : Layout(off, ss, FlattenSeq(ss))
<1> DEFINE n == Len(ss)
           all == FlattenSeq(ss)
<1>1. n \in Nat /\ \A i \in 1 .. n : ss[i] \in Seq(T) /\ Len(ss[i]) \in Nat
    OBVIOUS
<1>2. CASE n = 0
    <2>1. ss = <<>>
        BY <1>2
    <2>2. all = <<>>
        BY <1>2, <2>1, Zenon DEF FlattenSeq
    <2>3. all \in Seq(T) /\ Len(all) = 0
        BY <2>2
    <2>4. Layout([i \in 0 .. 0 |-> 0], ss, all)
        <3> HIDE DEF all
        <3> QED BY <1>2, <2>3 DEF Layout
    <2> QED BY <2>3, <2>4
<1>3. CASE n # 0
    <2>1. PICK f : Joins(f, ss, n) /\ all = f[n]
        BY <1>1, <1>3, FlattenJoins
    <2> HIDE DEF all
    <2>2. \A j \in 1 .. n : JoinedTo(f, T, j)
        BY <2>1, JoinsGrow
    <2>3. n \in 1 .. n
        BY <1>1, <1>3
    <2>4. /\ all \in Seq(T)
          /\ \A k \in 1 .. n : /\ f[k] \in Seq(T) /\ Len(f[k]) <= Len(all)
                               /\ \A x \in 1 .. Len(f[k]) : all[x] = f[k][x]
        BY <2>1, <2>2, <2>3, Zenon DEF JoinedTo
    <2>5. \A i \in 1 .. n : f[i] = IF i = 1 THEN ss[i] ELSE f[i - 1] \o ss[i]
        BY <2>1, Zenon DEF Joins
    <2> HIDE DEF n
    <2> DEFINE off == [i \in 0 .. n |-> IF i = 0 THEN 0 ELSE Len(f[i])]
    <2>6. \A i \in 1 .. n : off[i] = Len(f[i]) /\ Len(f[i]) \in Nat
        BY <1>1, <2>4
    <2>7. off \in [0 .. n -> Nat] /\ off[0] = 0 /\ off[n] = Len(all)
        <3>1. \A i \in 0 .. n : off[i] \in Nat
            BY <1>1, <2>6
        <3>2. off[n] = Len(all)
            BY <2>1, <2>3, <2>6, Zenon
        <3>3. 0 \in 0 .. n
            BY <1>1
        <3> QED BY <3>1, <3>2, <3>3, Zenon
    <2> HIDE DEF off
    <2>8. ASSUME NEW i \in 1 .. n
          PROVE  /\ off[i] = off[i - 1] + Len(ss[i])
                 /\ off[i] <= Len(all)
                 /\ \A x \in 1 .. Len(ss[i]) : all[off[i - 1] + x] = ss[i][x]
        <3>1. off[i] = Len(f[i]) /\ Len(f[i]) \in Nat /\ Len(f[i]) <= Len(all)
            BY <2>4, <2>6, Zenon
        <3>2. CASE i = 1
            <4>1. f[1] = ss[1] /\ off[0] = 0 /\ Len(ss[1]) \in Nat
                BY <1>1, <2>5, <2>7, <3>2, Zenon
            <4>2. \A x \in 1 .. Len(ss[1]) : all[x] = ss[1][x]
                BY <2>4, <3>2, <4>1, Zenon
            <4> QED BY <3>1, <3>2, <4>1, <4>2
        <3>3. CASE i # 1
            <4>1. i - 1 \in 1 .. n
                BY <1>1, <3>3
            <4> DEFINE p == f[i - 1]
            <4>2. f[i] = p \o ss[i] /\ p \in Seq(T) /\ ss[i] \in Seq(T) /\ off[i - 1] = Len(p)
                BY <1>1, <2>4, <2>5, <2>6, <3>3, <4>1, Zenon
            <4> HIDE DEF p
            <4>3. /\ Len(p) \in Nat /\ Len(ss[i]) \in Nat /\ Len(f[i]) = Len(p) + Len(ss[i])
                  /\ \A x \in 1 .. Len(ss[i]) : f[i][Len(p) + x] = ss[i][x]
                BY <4>2
            <4>4. \A x \in 1 .. Len(ss[i]) : Len(p) + x \in 1 .. Len(f[i])
                BY <4>3
            <4>5. \A x \in 1 .. Len(ss[i]) : all[Len(p) + x] = ss[i][x]
                BY <2>4, <4>3, <4>4, Zenon
            <4> QED BY <3>1, <4>2, <4>3, <4>5
        <3> QED BY <3>2, <3>3
    <2>9. Layout(off, ss, all)
        BY <2>7, <2>8, Zenon DEF Layout, n
    <2> QED BY <2>4, <2>9, Zenon DEF all
<1> QED BY <1>2, <1>3

-----------------------------------------------------------------------------
(***************************************************************************)
(* What the encoders write.                                                *)
(***************************************************************************)
\* A length survives its four bytes.
LEMMA PutGet ==
    ASSUME NEW v \in Nat, FitsU32(v)
    PROVE  putU32(v) \in Seq(Bytes) /\ Len(putU32(v)) = 4 /\ getU32(putU32(v)) = v
<1> DEFINE a == v % 256
           b == (v \div 256) % 256
           c == (v \div 65536) % 256
           d == (v \div 16777216) % 256
<1>1. a \in Bytes /\ b \in Bytes /\ c \in Bytes /\ d \in Bytes
    BY SMT DEF Bytes
<1>2. a + 256 * b + 65536 * c + 16777216 * d = v
    BY SMT DEF Bytes, FitsU32
<1>3. putU32(v) = <<a, b, c, d>>
    BY SMT DEF putU32
<1> HIDE DEF a, b, c, d
<1>4. <<a, b, c, d>> \in Seq(Bytes) /\ Len(<<a, b, c, d>>) = 4
    BY <1>1, SMT
<1>5. getU32(<<a, b, c, d>>) = a + 256 * b + 65536 * c + 16777216 * d
    BY SMT DEF getU32
<1> QED BY <1>2, <1>3, <1>4, <1>5, SMT

\* The elements of a concatenation.
LEMMA ConcatIs ==
    ASSUME NEW S, NEW s \in Seq(S), NEW t \in Seq(S)
    PROVE  /\ s \o t \in Seq(S) /\ Len(s \o t) = Len(s) + Len(t)
           /\ \A i \in 1 .. Len(s) : (s \o t)[i] = s[i]
           /\ \A i \in 1 .. Len(t) : (s \o t)[Len(s) + i] = t[i]
BY SMT

\* The elements behind the first n.
LEMMA TailIs ==
    ASSUME NEW S, NEW s \in Seq(S), NEW n \in 0 .. Len(s)
    PROVE  /\ SubSeq(s, n + 1, Len(s)) \in Seq(S)
           /\ Len(SubSeq(s, n + 1, Len(s))) = Len(s) - n
           /\ \A i \in 1 .. Len(s) - n : SubSeq(s, n + 1, Len(s))[i] = s[n + i]
BY SMT

\* Tuples are sequences.
LEMMA NineIn ==
    \A S : \A x1, x2, x3, x4, x5, x6, x7, x8, x9 \in S :
        <<x1, x2, x3, x4, x5, x6, x7, x8, x9>> \in Seq(S)
BY SMT

\* And so are shorter ones.
LEMMA SixIn == \A S : \A x1, x2, x3, x4, x5, x6 \in S : <<x1, x2, x3, x4, x5, x6>> \in Seq(S)
BY SMT

\* The fifteen message types.
LEMMA TypeCodes ==
    /\ DOMAIN MessageType = 1 .. 15
    /\ \A x : x \in ToSet(OrderEntry) \cup ToSet(MarketData) => \E c \in 1 .. 15 : MessageType[c] = x
    /\ \A c \in 1 .. 15 : PayloadSize[c] \in 2 .. 54
<1> DEFINE S == {"Login", "NewOrder", "Cancel", "CancelReplace", "Heartbeat", "LoginAck",
                 "LoginReject", "ExecReport", "Reject"}
           T == {"L2Delta", "L3Order", "L3Fill", "TradeTick", "SnapshotStart", "SnapshotEnd"}
<1>1. OrderEntry \in Seq(S \cup T) /\ Len(OrderEntry) = 9
    <2>1. OrderEntry \in Seq(S \cup T)
        BY NineIn, Zenon DEF OrderEntry
    <2>2. Len(OrderEntry) = 9
        BY SMT DEF OrderEntry
    <2> QED BY <2>1, <2>2
<1>2. MarketData \in Seq(S \cup T) /\ Len(MarketData) = 6
    <2>1. MarketData \in Seq(S \cup T)
        BY SixIn, Zenon DEF MarketData
    <2>2. Len(MarketData) = 6
        BY SMT DEF MarketData
    <2> QED BY <2>1, <2>2
<1> HIDE DEF S, T
<1>3. /\ MessageType \in Seq(S \cup T) /\ Len(MessageType) = 15
      /\ \A i \in 1 .. 9 : MessageType[i] = OrderEntry[i]
      /\ \A i \in 1 .. 6 : MessageType[9 + i] = MarketData[i]
    <2>1. MessageType = OrderEntry \o MarketData
        BY Zenon DEF MessageType
    <2>2. OrderEntry \in Seq(S \cup T) /\ MarketData \in Seq(S \cup T)
        BY <1>1, <1>2
    <2>3. /\ MessageType \in Seq(S \cup T) /\ Len(MessageType) = Len(OrderEntry) + Len(MarketData)
          /\ \A i \in 1 .. Len(OrderEntry) : MessageType[i] = OrderEntry[i]
          /\ \A i \in 1 .. Len(MarketData) : MessageType[Len(OrderEntry) + i] = MarketData[i]
        BY <2>1, <2>2, ConcatIs
    <2> QED BY <1>1, <1>2, <2>3, SMT
<1>4. DOMAIN MessageType = 1 .. 15
    BY <1>3
<1>5. ASSUME NEW x, x \in ToSet(OrderEntry) PROVE \E c \in 1 .. 15 : MessageType[c] = x
    <2>1. PICK i \in DOMAIN OrderEntry : x = OrderEntry[i]
        BY <1>5 DEF ToSet
    <2>2. i \in 1 .. 9 /\ i \in 1 .. 15
        BY <1>1
    <2> QED BY <1>3, <2>1, <2>2, Zenon
<1>6. ASSUME NEW x, x \in ToSet(MarketData) PROVE \E c \in 1 .. 15 : MessageType[c] = x
    <2>1. PICK i \in DOMAIN MarketData : x = MarketData[i]
        BY <1>6 DEF ToSet
    <2>2. i \in 1 .. 6 /\ 9 + i \in 1 .. 15
        BY <1>2
    <2> QED BY <1>3, <2>1, <2>2, Zenon
<1>7. \A c \in 1 .. 15 : PayloadSize[c] \in 2 .. 54
    BY DEF PayloadSize
<1> QED BY <1>4, <1>5, <1>6, <1>7, Zenon

\* The code of a message is that of its type, or zero if the protocol has no such type.
LEMMA CodeIs ==
    ASSUME NEW m
    PROVE  /\ Code(m) \in 0 .. 15
           /\ Code(m) # 0 => Code(m) \in 1 .. 15 /\ MessageType[Code(m)] = m.type
           /\ Code(m) = 0 => m.type \notin ToSet(OrderEntry) \cup ToSet(MarketData)
<1> DEFINE S == {c \in DOMAIN MessageType : MessageType[c] = m.type}
           T == {0} \cup S
<1>1. S = {c \in 1 .. 15 : MessageType[c] = m.type}
    BY TypeCodes, Zenon
<1>2. T \in SUBSET (0 .. 15) /\ T # {}
    BY <1>1
<1>3. Code(m) = Max(T)
    BY Zenon DEF Code
<1>4. Code(m) \in T /\ \A c \in T : c <= Code(m)
    BY <1>2, <1>3, MaxExists
<1>5. Code(m) # 0 => Code(m) \in 1 .. 15 /\ MessageType[Code(m)] = m.type
    BY <1>1, <1>4, Zenon
<1>6. ASSUME Code(m) = 0, m.type \in ToSet(OrderEntry) \cup ToSet(MarketData) PROVE FALSE
    <2>1. PICK c \in 1 .. 15 : MessageType[c] = m.type
        BY <1>6, TypeCodes, Zenon
    <2>2. c <= 0
        BY <1>1, <1>4, <1>6, <2>1, Zenon
    <2> QED BY <2>2
<1> QED BY <1>2, <1>4, <1>5, <1>6

\* The messages.
Catalogued == ToSet(Catalogue)

\* What each byte of the payload is.
Fields(m) == Min({v \in DOMAIN Catalogue : Catalogue[v] = m})

\* How many there are: one less than the length, which counts the code too.
PayloadLen(m) == IF m.length = 0 THEN 0 ELSE m.length - 1

\* The payload names the message.
LEMMA FieldsIs ==
    ASSUME NEW m \in Catalogued
    PROVE  Fields(m) \in DOMAIN Catalogue /\ Catalogue[Fields(m)] = m /\ Fields(m) \in Bytes
<1> DEFINE S == {v \in DOMAIN Catalogue : Catalogue[v] = m}
<1>1. DOMAIN Catalogue = 1 .. Len(Catalogue) /\ Len(Catalogue) \in 1 .. 100
    BY StreamsAssumption, DecoderAssumption
<1>2. S \in SUBSET Nat
    BY <1>1
<1>3. S # {}
    BY Zenon DEF Catalogued, ToSet
<1>4. Fields(m) \in S
    BY <1>2, <1>3, MinExists, Zenon DEF Fields
<1>5. \A n \in 1 .. 100 : \A x \in 1 .. n : x \in Bytes
    BY SMT DEF Bytes
<1> QED BY <1>1, <1>4, <1>5, Zenon

\* A frame: the length, the code, the payload.
LEMMA EncodeIs ==
    ASSUME NEW m \in Catalogued
    PROVE  /\ Encode(m) \in Seq(Bytes) /\ Len(Encode(m)) = 5 + PayloadLen(m)
           /\ PayloadLen(m) \in Nat /\ m.length \in Nat
           /\ \A x \in 1 .. 4 : Encode(m)[x] = putU32(m.length)[x]
           /\ Encode(m)[5] = Code(m)
           /\ \A x \in 1 .. PayloadLen(m) : Encode(m)[5 + x] = Fields(m)
<1> DEFINE l == m.length
           h == putU32(l)
           k == Code(m)
           v == Fields(m)
           n == PayloadLen(m)
           p == [i \in 1 .. l - kMsgTypeSize |-> v]
<1>1. l \in Nat /\ FitsU32(l)
    BY StreamsAssumption DEF Catalogued
<1>2. h \in Seq(Bytes) /\ Len(h) = 4
    BY <1>1, PutGet
<1>3. k \in Bytes
    BY CodeIs DEF Bytes
<1>4. v \in Bytes
    BY FieldsIs
<1>5. Encode(m) = h \o <<k>> \o p
    BY Zenon DEF Encode, Fields
<1>6. n \in Nat /\ n = (IF l = 0 THEN 0 ELSE l - 1)
    BY <1>1 DEF PayloadLen
<1> HIDE DEF l, h, k, v, n
<1>7. p \in Seq(Bytes) /\ Len(p) = n /\ \A x \in 1 .. n : p[x] = v
    <2>1. 1 .. l - kMsgTypeSize = 1 .. n
        BY <1>1, <1>6 DEF kMsgTypeSize, l
    <2>2. p = [i \in 1 .. n |-> v]
        BY <2>1, Zenon
    <2> HIDE DEF p
    <2> QED BY <1>4, <1>6, <2>2
<1> HIDE DEF p
<1> DEFINE e == h \o <<k>>
<1>8. /\ e \in Seq(Bytes) /\ Len(e) = 5
      /\ \A x \in 1 .. 4 : e[x] = h[x]
      /\ e[5] = k
    <2> DEFINE j == <<k>>
    <2>1. j \in Seq(Bytes) /\ Len(j) = 1 /\ j[1] = k
        BY <1>3
    <2>2. e = h \o j
        BY Zenon
    <2>3. h \in Seq(Bytes)
        BY <1>2
    <2> HIDE DEF j
    <2>4. /\ h \o j \in Seq(Bytes) /\ Len(h \o j) = Len(h) + Len(j)
          /\ \A x \in 1 .. Len(h) : (h \o j)[x] = h[x]
          /\ \A x \in 1 .. Len(j) : (h \o j)[Len(h) + x] = j[x]
        <3>1. h \in Seq(Bytes) /\ j \in Seq(Bytes)
            BY <2>1, <2>3, Zenon
        <3> QED BY ONLY <3>1, ConcatIs, SMT
    <2> HIDE DEF e
    <2>5. /\ e \in Seq(Bytes) /\ Len(e) = Len(h) + Len(j)
          /\ \A x \in 1 .. Len(h) : e[x] = h[x]
          /\ \A x \in 1 .. Len(j) : e[Len(h) + x] = j[x]
        BY <2>2, <2>4, Zenon
    <2> QED BY <1>2, <2>1, <2>5, SMT
<1>9. Encode(m) = e \o p
    BY <1>5, Zenon
<1> HIDE DEF e
<1>10. /\ e \o p \in Seq(Bytes) /\ Len(e \o p) = 5 + n
       /\ \A x \in 1 .. 5 : (e \o p)[x] = e[x]
       /\ \A x \in 1 .. n : (e \o p)[5 + x] = p[x]
    <2>1. e \in Seq(Bytes) /\ p \in Seq(Bytes)
        BY <1>7, <1>8
    <2>2. /\ e \o p \in Seq(Bytes) /\ Len(e \o p) = Len(e) + Len(p)
          /\ \A x \in 1 .. Len(e) : (e \o p)[x] = e[x]
          /\ \A x \in 1 .. Len(p) : (e \o p)[Len(e) + x] = p[x]
        BY <2>1, ConcatIs
    <2> QED BY <1>7, <1>8, <2>2, Zenon
<1> DEFINE c == Encode(m)
<1>11. c \in Seq(Bytes) /\ Len(c) = 5 + n /\ \A x \in 1 .. n : c[5 + x] = v
    BY <1>7, <1>9, <1>10, Zenon
<1>12. \A x \in 1 .. 5 : c[x] = e[x]
    BY <1>9, <1>10, Zenon
<1> HIDE DEF c
<1>13. (\A x \in 1 .. 4 : c[x] = h[x]) /\ c[5] = k
    BY <1>8, <1>12, SMT
<1> QED BY <1>1, <1>6, <1>11, <1>13, Zenon DEF c, l, h, k, v, n

\* The frames of a stream of messages, and where they end in it.
Frames(ms) == [i \in DOMAIN ms |-> Encode(ms[i])]
Ends(ms) == CHOOSE off : Layout(off, Frames(ms), Encoded(ms))

\* The stream is bytes, the frames one behind the other.
LEMMA EncodedIs ==
    ASSUME NEW ms \in Seq(Catalogued)
    PROVE  Encoded(ms) \in Seq(Bytes) /\ Layout(Ends(ms), Frames(ms), Encoded(ms))
<1>1. \A i \in DOMAIN ms : ms[i] \in Catalogued
    OBVIOUS
<1>2. \A i \in DOMAIN ms : Encode(ms[i]) \in Seq(Bytes)
    BY <1>1, EncodeIs
<1>3. DOMAIN ms = 1 .. Len(ms) /\ Len(ms) \in Nat
    OBVIOUS
<1>4. Frames(ms) \in Seq(Seq(Bytes))
    BY <1>2, <1>3 DEF Frames
<1>5. Encoded(ms) = FlattenSeq(Frames(ms))
    BY Zenon DEF Encoded, Frames
<1>6. Encoded(ms) \in Seq(Bytes) /\ \E off : Layout(off, Frames(ms), Encoded(ms))
    BY <1>4, <1>5, FlattenLayout
<1> QED BY <1>6, Zenon DEF Ends

\* What a peer sends is bytes.
LEMMA EncodedBytes ==
    ASSUME NEW r \in Readers, NEW ms \in Streams[r]
    PROVE  ms \in Seq(Catalogued) /\ Encoded(ms) \in Seq(Bytes)
<1>1. ms \in Seq(Catalogued)
    BY StreamsAssumption, Zenon DEF Catalogued
<1> QED BY <1>1, EncodedIs

-----------------------------------------------------------------------------
(***************************************************************************)
(* When the buffer has no room.                                            *)
(***************************************************************************)

\* The types of what is read and kept.
Type ==
    /\ reader \in Readers /\ Encoded(stream) \in Seq(Bytes)
    /\ wire \in Seq(Bytes) /\ buf \in Seq(Bytes)
    /\ terminal \in BOOLEAN /\ pc \in {"read", "decode", "suspended"} /\ backlog \in Nat

\* The buffer holds part of one frame.
Partial == HasLength => LengthValid /\ ~HasFrame

\* How full a session's buffer is, by what it is doing and how often it was stopped.
SessionRoom ==
    /\ pc = "read" /\ backlog = 0 => Partial
    /\ pc = "suspended" => backlog >= 1
    /\ pc # "decode" /\ backlog = 1 => Len(buf) <= 127
    /\ pc = "decode" /\ backlog = 0 =>
          Len(buf) <= 127 \/ (HasLength /\ LengthValid => Len(buf) <= Total + 127)

\* What a feed client has buffered and what is under way is at most its stream.
FeedRoom == Len(buf) + Len(wire) <= Len(Encoded(stream))

\* The inductive invariant.
Inv ==
    /\ Type
    /\ OverflowExplained
    /\ closed = "no" => ~terminal
    /\ closed = "no" /\ reader = "session" => SessionRoom
    /\ closed = "no" /\ reader # "session" => FeedRoom

\* Four bytes make a number.
LEMMA LengthIsNat ==
    ASSUME NEW s \in Seq(Bytes), Len(s) >= 4
    PROVE  getU32(s) \in Nat
<1>1. s[1] \in Bytes /\ s[2] \in Bytes /\ s[3] \in Bytes /\ s[4] \in Bytes
    BY ElementOfSeq
<1>2. s[1] \in Nat /\ s[2] \in Nat /\ s[3] \in Nat /\ s[4] \in Nat
    <2>1. ASSUME NEW x \in Bytes PROVE x \in Nat
        BY <2>1, SMT DEF Bytes
    <2> QED BY <1>1, <2>1, Zenon
<1> DEFINE a == s[1]  b == s[2]  c == s[3]  d == s[4]
<1>3. a \in Nat /\ b \in Nat /\ c \in Nat /\ d \in Nat
    BY <1>2
<1>4. getU32(s) = a + 256 * b + 65536 * c + 16777216 * d
    BY DEF getU32
<1> HIDE DEF a, b, c, d
<1>5. a + 256 * b + 65536 * c + 16777216 * d \in Nat
    BY <1>3
<1> QED BY <1>4, <1>5

\* Bytes behind the length do not change it.
LEMMA LengthStays ==
    ASSUME NEW s \in Seq(Bytes), NEW t \in Seq(Bytes), Len(s) >= 4
    PROVE  getU32(s \o t) = getU32(s)
<1>1. Len(s) \in Nat /\ (s \o t)[1] = s[1] /\ (s \o t)[2] = s[2] /\ (s \o t)[3] = s[3] /\ (s \o t)[4] = s[4]
    BY ConcatProperties, LenProperties
<1> QED BY <1>1 DEF getU32

\* A partial frame is shorter than the largest one.
LEMMA PartialIsShort == ASSUME Type, Partial PROVE Len(buf) <= 67
<1>1. Len(buf) \in Nat
    BY DEF Type
<1>2. CASE ~HasLength
    BY <1>1, <1>2 DEF HasLength, kFrameHeaderSize
<1>3. CASE HasLength
    <2>1. Length \in Nat
        BY <1>3, LengthIsNat DEF HasLength, kFrameHeaderSize, Length, Type
    <2> QED BY <1>1, <1>3, <2>1 DEF Partial, LengthValid, HasFrame, Total, kFrameHeaderSize, kMaxFrame
<1> QED BY <1>2, <1>3

\* What has been read is no longer under way.
LEMMA ReadTypes ==
    ASSUME Type, NEW n \in Nat, n >= 1, n <= Len(wire), Read(n)
    PROVE  /\ SubSeq(wire, 1, n) \in Seq(Bytes) /\ Len(SubSeq(wire, 1, n)) = n
           /\ wire' \in Seq(Bytes) /\ Len(wire') = Len(wire) - n
<1>1. wire' = SubSeq(wire, n + 1, Len(wire)) /\ Len(wire) \in Nat
    BY DEF Read, Type
<1>2. SubSeq(wire, 1, n) \in Seq(Bytes) /\ Len(SubSeq(wire, 1, n)) = n
    BY <1>1, SubSeqProperties DEF Type
<1>3. wire' \in Seq(Bytes) /\ Len(wire') = Len(wire) - n
    BY <1>1, SubSeqProperties DEF Type
<1> QED BY <1>2, <1>3

\* A session's read finds room unless it has been stopped twice, and leaves at most one frame
\* and most of a chunk.
LEMMA SessionReadInv ==
    ASSUME Inv, reader = "session", NEW n \in 1 .. 128, n <= Len(wire), Read(n) PROVE Inv'
<1> DEFINE s == SubSeq(wire, 1, n)
<1>1. Type /\ closed = "no" /\ pc = "read" /\ ~terminal /\ Len(buf) \in Nat /\ backlog \in Nat
      /\ SessionRoom /\ UNCHANGED <<reader, stream, terminal, backlog>> /\ OverflowExplained
    BY DEF Inv, Read, Type
<1>2. s \in Seq(Bytes) /\ Len(s) = n /\ wire' \in Seq(Bytes)
    BY <1>1, ReadTypes
<1>3. backlog = 0 => Partial /\ Len(buf) <= 67
    BY <1>1, PartialIsShort DEF SessionRoom
<1>4. backlog = 1 => Len(buf) <= 127
    BY <1>1 DEF SessionRoom
<1>5. backlog < 2 => RoomFor(n)
    BY <1>1, <1>3, <1>4 DEF RoomFor, kCapacity
<1>6. CASE ~RoomFor(n)
    <2>1. closed' = "overflow" /\ UNCHANGED <<buf, pc>>
        BY <1>6 DEF Read, Close
    <2>2. Type'
        BY <1>1, <1>2, <2>1 DEF Type
    <2>3. backlog' >= 2
        BY <1>1, <1>5, <1>6
    <2> QED BY <1>1, <2>1, <2>2, <2>3 DEF Inv, OverflowExplained
<1>7. CASE RoomFor(n)
    <2>1. buf' = buf \o s /\ pc' = "decode" /\ closed' = closed
        BY <1>1, <1>7 DEF Read
    <2> HIDE DEF s
    <2>2. buf' \in Seq(Bytes) /\ Len(buf') = Len(buf) + n
        BY <1>1, <1>2, <2>1, ConcatProperties DEF Type
    <2>3. Type'
        BY <1>1, <1>2, <2>1, <2>2 DEF Type
    <2>4. ASSUME backlog = 0, HasLength', LengthValid' PROVE Len(buf') <= Total' + 127
        <3>1. Len(buf') >= 4
            BY <2>4 DEF HasLength, kFrameHeaderSize
        <3>2. PICK k \in Nat : k = getU32(buf')
            BY <2>2, <3>1, LengthIsNat
        <3>3. k >= 1 /\ Total' = 4 + k
            BY <2>4, <3>2 DEF LengthValid, Length, Total, kFrameHeaderSize
        <3>4. CASE Len(buf) < 4
            BY <1>1, <2>2, <3>3, <3>4
        <3>5. CASE Len(buf) >= 4
            <4>1. getU32(buf) = k
                BY <1>1, <1>2, <2>1, <3>2, <3>5, LengthStays DEF Type
            <4>2. ~(Len(buf) >= 4 + k)
                BY <1>3, <2>4, <3>5, <4>1 DEF Partial, HasLength, HasFrame, Total, Length, kFrameHeaderSize
            <4> QED BY <1>1, <2>2, <3>3, <4>2
        <3> QED BY <1>1, <3>4, <3>5
    <2>5. SessionRoom'
        BY <1>1, <2>1, <2>4 DEF SessionRoom
    <2> QED BY <1>1, <2>1, <2>3, <2>5 DEF Inv, OverflowExplained
<1> QED BY <1>6, <1>7

\* A feed client's read finds room unless its stream is longer than the buffer.
LEMMA FeedReadInv ==
    ASSUME Inv, reader # "session", NEW n \in Nat, n >= 1, n <= Len(wire), Read(n) PROVE Inv'
<1> DEFINE s == SubSeq(wire, 1, n)
<1>1. Type /\ closed = "no" /\ ~terminal /\ Len(buf) \in Nat /\ Len(wire) \in Nat
      /\ FeedRoom /\ UNCHANGED <<reader, stream, terminal, backlog>> /\ Len(Encoded(stream)) \in Nat
    BY DEF Inv, Read, Type
<1>2. s \in Seq(Bytes) /\ Len(s) = n /\ wire' \in Seq(Bytes) /\ Len(wire') = Len(wire) - n
    BY <1>1, ReadTypes
<1>3. CASE ~RoomFor(n)
    <2>1. closed' = "overflow" /\ UNCHANGED <<buf, pc>>
        BY <1>3 DEF Read, Close
    <2>2. Type'
        BY <1>1, <1>2, <2>1 DEF Type
    <2>3. Len(Encoded(stream)) > kCapacity
        BY <1>1, <1>3 DEF RoomFor, FeedRoom, kCapacity
    <2> QED BY <1>1, <2>1, <2>2, <2>3 DEF Inv, OverflowExplained
<1>4. CASE RoomFor(n)
    <2>1. buf' = buf \o s /\ pc' = "decode" /\ closed' = closed
        BY <1>1, <1>4 DEF Read
    <2> HIDE DEF s
    <2>2. buf' \in Seq(Bytes) /\ Len(buf') = Len(buf) + n
        <3>1. buf \in Seq(Bytes)
            BY <1>1 DEF Type
        <3>2. buf \o s \in Seq(Bytes) /\ Len(buf \o s) = Len(buf) + Len(s)
            BY <1>2, <3>1, ConcatProperties
        <3> QED BY <1>2, <2>1, <3>2
    <2>3. Type'
        BY <1>1, <1>2, <2>1, <2>2 DEF Type
    <2>4. FeedRoom'
        BY <1>1, <1>2, <2>2 DEF FeedRoom
    <2> QED BY <1>1, <2>1, <2>3, <2>4 DEF Inv, OverflowExplained
<1> QED BY <1>3, <1>4

\* A message taken from the buffer leaves less than a chunk in it, unless a stop left one before.
LEMMA OkInv == ASSUME Inv, Ok PROVE Inv'
<1>1. Type /\ closed = "no" /\ pc = "decode" /\ ~terminal /\ HasLength /\ LengthValid /\ HasFrame
      /\ UNCHANGED <<reader, stream, wire, terminal, closed>> /\ buf' = SubSeq(buf, Total + 1, Len(buf))
      /\ Len(buf) \in Nat /\ Len(wire) \in Nat /\ backlog \in Nat
    BY DEF Inv, Ok, Type, Consumed
<1>2. Length \in Nat
    BY <1>1, LengthIsNat DEF HasLength, kFrameHeaderSize, Length, Type
<1>3. Total \in Nat /\ Total >= 5 /\ Total <= Len(buf)
    BY <1>1, <1>2 DEF LengthValid, HasFrame, Total, kFrameHeaderSize
<1>4. buf' \in Seq(Bytes) /\ Len(buf') = Len(buf) - Total
    BY <1>1, <1>3, SubSeqProperties DEF Type
<1>5. \/ pc' = "decode" /\ backlog' = backlog
      \/ reader = "session" /\ pc' = "suspended" /\ backlog' = backlog + 1
    BY DEF Ok, Suspends
<1>6. Type'
    BY <1>1, <1>4, <1>5 DEF Type
<1>7. OverflowExplained'
    BY <1>1, Zenon DEF OverflowExplained
<1>8. CASE reader = "session"
    <2>1. SessionRoom
        BY <1>1, <1>8 DEF Inv
    <2>2. backlog = 0 => Len(buf') <= 127
        BY <1>1, <1>3, <1>4, <2>1 DEF SessionRoom
    <2>3. SessionRoom'
        <3>1. CASE pc' = "decode" /\ backlog' = backlog
            <4>1. backlog' = 0 => Len(buf') <= 127
                BY <2>2, <3>1
            <4>2. pc' # "read" /\ pc' # "suspended" /\ pc' = "decode"
                BY <3>1
            <4> QED BY <4>1, <4>2, Zenon DEF SessionRoom
        <3>2. CASE pc' = "suspended" /\ backlog' = backlog + 1
            <4>1. backlog' >= 1 /\ backlog' # 0
                BY <1>1, <3>2
            <4>2. backlog' = 1 => Len(buf') <= 127
                <5>1. backlog' = 1 => backlog = 0
                    BY <1>1, <3>2
                <5> QED BY <2>2, <5>1, Zenon
            <4>3. pc' # "read" /\ pc' # "decode"
                BY <3>2
            <4> QED BY <4>1, <4>2, <4>3, Zenon DEF SessionRoom
        <3> QED BY <1>5, <3>1, <3>2
    <2> QED BY <1>1, <1>6, <1>7, <1>8, <2>3, Zenon DEF Inv
<1>9. CASE reader # "session"
    <2>1. FeedRoom
        BY <1>1, <1>9 DEF Inv
    <2>2. FeedRoom'
        BY <1>1, <1>3, <1>4, <2>1 DEF FeedRoom, Type
    <2> QED BY <1>1, <1>6, <1>7, <1>9, <2>2, Zenon DEF Inv
<1> QED BY <1>8, <1>9

\* The decoder asks for more only when it holds part of one frame.
LEMMA IncompleteInv == ASSUME Inv, Incomplete PROVE Inv'
<1>1. Type /\ closed = "no" /\ ~terminal /\ Partial /\ pc' = "read" /\ backlog' = 0
      /\ UNCHANGED <<reader, stream, wire, buf, terminal, closed>>
    BY DEF Inv, Incomplete, Partial
<1>2. Type'
    BY <1>1 DEF Type
<1>3. Partial'
    BY <1>1 DEF Partial, HasLength, LengthValid, HasFrame, Total, Length
<1>4. SessionRoom'
    BY <1>1, <1>3 DEF SessionRoom
<1>5. reader # "session" => FeedRoom'
    BY <1>1 DEF Inv, FeedRoom
<1> QED BY <1>1, <1>2, <1>4, <1>5 DEF Inv, OverflowExplained

\* A resumed session reads first.
LEMMA ResumeInv == ASSUME Inv, Resume PROVE Inv'
<1>1. Type /\ closed = "no" /\ pc = "suspended" /\ pc' = "read"
      /\ UNCHANGED <<reader, stream, wire, buf, terminal, backlog, closed>>
    BY DEF Inv, Resume
<1>2. Type'
    BY <1>1 DEF Type
<1>3. reader = "session" => SessionRoom'
    BY <1>1 DEF Inv, SessionRoom, Type
<1>4. reader # "session" => FeedRoom'
    BY <1>1 DEF Inv, FeedRoom
<1> QED BY <1>1, <1>2, <1>3, <1>4 DEF Inv, OverflowExplained

\* A new connection starts with nothing in the buffer.
LEMMA ConnectInv == ASSUME Inv, Connect PROVE Inv'
<1>1. Type /\ reader # "session" /\ stream' \in Streams[reader] /\ wire' = Encoded(stream')
      /\ buf' = <<>> /\ ~terminal' /\ pc' = "read" /\ closed' = "no" /\ UNCHANGED <<reader, backlog>>
    BY DEF Inv, Connect
<1>2. Encoded(stream') \in Seq(Bytes)
    BY <1>1, EncodedBytes DEF Type
<1>3. terminal' \in BOOLEAN
    BY Zenon DEF Connect
<1>4. Type'
    <2>1. buf' \in Seq(Bytes)
        BY <1>1
    <2> QED BY <1>1, <1>2, <1>3, <2>1 DEF Type
<1>5. FeedRoom'
    <2>1. Len(buf') = 0 /\ Len(wire') \in Nat
        BY <1>1, <1>2
    <2> QED BY <1>1, <2>1 DEF FeedRoom
<1> QED BY <1>1, <1>4, <1>5 DEF Inv, OverflowExplained

\* For every byte stream and either reader: a session overflows the decoder only if a full ring
\* stopped it twice before it had drained its buffer, a feed client only if its stream is longer
\* than the buffer.
THEOREM OverflowExplainedHolds == Spec => []OverflowExplained
<1>1. Init => Inv
    <2> SUFFICES ASSUME Init PROVE Inv
        OBVIOUS
    <2>1. /\ reader \in Readers /\ wire = Encoded(stream) /\ buf = <<>> /\ terminal = FALSE
          /\ pc = "read" /\ backlog = 0 /\ closed = "no"
        BY DEF Init
    <2>2. Encoded(stream) \in Seq(Bytes)
        BY EncodedBytes DEF Init
    <2>3. terminal \in BOOLEAN /\ ~terminal
        BY <2>1, Zenon
    <2>4. buf \in Seq(Bytes) /\ Len(buf) = 0 /\ Len(wire) \in Nat
        BY <2>1, <2>2
    <2>5. Type
        BY <2>1, <2>2, <2>3, <2>4 DEF Type
    <2>6. SessionRoom
        BY <2>1, <2>4 DEF SessionRoom, Partial, HasLength, kFrameHeaderSize
    <2>7. FeedRoom
        BY <2>1, <2>4 DEF FeedRoom
    <2> QED BY <2>1, <2>3, <2>5, <2>6, <2>7 DEF Inv, OverflowExplained
<1>2. Inv /\ [Next]_vars => Inv'
    <2> SUFFICES ASSUME Inv, [Next]_vars PROVE Inv'
        OBVIOUS
    <2>1. CASE Reading
        <3>1. Len(wire) \in Nat /\ reader \in {"session", "feed"}
            BY DecoderAssumption DEF Inv, Type
        <3>2. ReadChunk[reader] \in Nat /\ (reader = "session" => ReadChunk[reader] = 128)
            BY <3>1 DEF ReadChunk
        <3>3. \A a, b \in Nat : Min({a, b}) <= a /\ Min({a, b}) <= b /\ Min({a, b}) \in Nat
            BY DEF Min
        <3>4. PICK n \in 1 .. Min({ReadChunk[reader], Len(wire)}) : Read(n)
            BY <2>1 DEF Reading
        <3>5. n \in Nat /\ n >= 1 /\ n <= Len(wire) /\ (reader = "session" => n \in 1 .. 128)
            BY <3>1, <3>2, <3>3, <3>4
        <3> QED BY <3>4, <3>5, SessionReadInv, FeedReadInv, Zenon
    <2>2. CASE Invalid
        BY <2>2 DEF Inv, Type, Invalid, Close, OverflowExplained
    <2>3. CASE Lost
        BY <2>3 DEF Inv, Type, Lost, Close, OverflowExplained
    <2>4. CASE UNCHANGED vars
        BY <2>4 DEF Inv, Type, vars, OverflowExplained, SessionRoom, FeedRoom, Partial, HasLength,
                    LengthValid, HasFrame, Total, Length
    <2> QED BY <2>1, <2>2, <2>3, <2>4, OkInv, IncompleteInv, ResumeInv, ConnectInv DEF Next, Decoding
<1>3. Inv => OverflowExplained
    BY DEF Inv
<1> QED BY <1>1, <1>2, <1>3, PTL DEF Spec
-----------------------------------------------------------------------------
(***************************************************************************)
(* The messages come out as they went in.  What is in the buffer and under *)
(* way are the bytes of the stream from the first message that was not     *)
(* handed over, so a frame at the front of the buffer is that message's.   *)
(***************************************************************************)
\* WellFormed for reader r.
GoodFor(r, m) ==
    /\ m.type \in Accepts[r]
    /\ m.length = kMsgTypeSize + expectedPayloadSize(Code(m))
    /\ r = "session" => FieldsValid(m)

\* b and w are the bytes of the stream ms behind its first k messages.
InPlace(ms, k, b, w) ==
    /\ Ends(ms)[k] + Len(b) + Len(w) = Len(Encoded(ms))
    /\ \A x \in 1 .. Len(b) : b[x] = Encoded(ms)[Ends(ms)[k] + x]
    /\ \A x \in 1 .. Len(w) : w[x] = Encoded(ms)[Ends(ms)[k] + Len(b) + x]

\* d is the beginning of ms, and all of it has a use for reader r.
HandedOver(r, ms, d) ==
    /\ d \in Seq(Catalogued) /\ Len(d) <= Len(ms)
    /\ \A i \in 1 .. Len(d) : d[i] = ms[i] /\ GoodFor(r, ms[i])

\* The inductive invariant.
StreamInv ==
    /\ reader \in Readers /\ stream \in Seq(Catalogued)
    /\ buf \in Seq(Bytes) /\ wire \in Seq(Bytes)
    /\ HandedOver(reader, stream, delivered)
    /\ closed = "no" => ~terminal /\ InPlace(stream, Len(delivered), buf, wire)
    /\ closed = "invalid" =>
          Len(delivered) < Len(stream) /\ ~GoodFor(reader, stream[Len(delivered) + 1])

\* Where the frame of message k + 1 is.
LEMMA EndsAre ==
    ASSUME NEW ms \in Seq(Catalogued), NEW k \in 0 .. Len(ms)
    PROVE  /\ Len(ms) \in Nat /\ Len(Encoded(ms)) \in Nat
           /\ Ends(ms)[k] \in Nat /\ Ends(ms)[0] = 0
           /\ Ends(ms)[Len(ms)] = Len(Encoded(ms))
           /\ k # Len(ms) =>
                 /\ ms[k + 1] \in Catalogued
                 /\ Ends(ms)[k + 1] = Ends(ms)[k] + Len(Encode(ms[k + 1]))
                 /\ \A x \in 1 .. Len(Encode(ms[k + 1])) :
                       Encoded(ms)[Ends(ms)[k] + x] = Encode(ms[k + 1])[x]
<1> DEFINE off == Ends(ms)
           all == Encoded(ms)
           fr == Frames(ms)
<1>1. all \in Seq(Bytes) /\ Layout(off, fr, all)
    BY EncodedIs
<1>2. Len(ms) \in Nat /\ DOMAIN ms = 1 .. Len(ms) /\ \A i \in 1 .. Len(ms) : ms[i] \in Catalogued
    OBVIOUS
<1>3. fr = [i \in 1 .. Len(ms) |-> Encode(ms[i])]
    BY <1>2, Zenon DEF Frames
<1> HIDE DEF off, all, fr
<1>4. Len(fr) = Len(ms) /\ \A i \in 1 .. Len(ms) : fr[i] = Encode(ms[i])
    BY <1>2, <1>3
<1>5. Len(all) \in Nat
    BY <1>1
<1>6. /\ off \in [0 .. Len(ms) -> Nat] /\ off[0] = 0 /\ off[Len(ms)] = Len(all)
      /\ \A i \in 1 .. Len(ms) :
            /\ off[i] = off[i - 1] + Len(fr[i])
            /\ \A x \in 1 .. Len(fr[i]) : all[off[i - 1] + x] = fr[i][x]
    BY <1>1, <1>4, Zenon DEF Layout
<1>7. off[k] \in Nat
    BY <1>6, Zenon
<1>8. ASSUME k # Len(ms)
      PROVE  /\ ms[k + 1] \in Catalogued
             /\ off[k + 1] = off[k] + Len(Encode(ms[k + 1]))
             /\ \A x \in 1 .. Len(Encode(ms[k + 1])) : all[off[k] + x] = Encode(ms[k + 1])[x]
    <2>1. PICK i \in 1 .. Len(ms) : i = k + 1 /\ i - 1 = k
        <3> DEFINE z == Len(ms)
        <3>1. z \in Nat /\ k \in 0 .. z /\ k # z
            BY <1>2, <1>8, Zenon
        <3> HIDE DEF z
        <3>2. k + 1 \in 1 .. z /\ (k + 1) - 1 = k
            BY ONLY <3>1, SMT
        <3> QED BY <3>2, Zenon DEF z
    <2>2. /\ ms[i] \in Catalogued /\ fr[i] = Encode(ms[i])
          /\ off[i] = off[k] + Len(fr[i])
          /\ \A x \in 1 .. Len(fr[i]) : all[off[k] + x] = fr[i][x]
        BY <1>2, <1>4, <1>6, <2>1, Zenon
    <2> QED BY <2>1, <2>2, Zenon
<1> QED BY <1>2, <1>5, <1>6, <1>7, <1>8, Zenon DEF off, all

\* The frame at the front of the buffer is that of the message that is due.
LEMMA FrontFrame ==
    ASSUME NEW ms \in Seq(Catalogued), NEW k \in 0 .. Len(ms),
           NEW b \in Seq(Bytes), NEW w \in Seq(Bytes), InPlace(ms, k, b, w), Len(b) >= 4
    PROVE  /\ k # Len(ms) /\ ms[k + 1] \in Catalogued
           /\ getU32(b) = ms[k + 1].length
           /\ ms[k + 1].length >= 1 /\ Len(b) >= 4 + ms[k + 1].length =>
                 /\ b[5] = Code(ms[k + 1])
                 /\ \A x \in 6 .. 4 + ms[k + 1].length : b[x] = Fields(ms[k + 1])
                 /\ Ends(ms)[k + 1] = Ends(ms)[k] + 4 + ms[k + 1].length
<1> DEFINE off == Ends(ms)
           all == Encoded(ms)
           m == ms[k + 1]
           e == Encode(m)
<1>1. /\ off[k] \in Nat /\ off[Len(ms)] = Len(all)
      /\ k # Len(ms) => /\ m \in Catalogued /\ off[k + 1] = off[k] + Len(e)
                        /\ \A x \in 1 .. Len(e) : all[off[k] + x] = e[x]
    BY EndsAre, Zenon
<1>2. Len(b) \in Nat /\ Len(w) \in Nat
    OBVIOUS
<1>3. off[k] + Len(b) + Len(w) = Len(all) /\ \A x \in 1 .. Len(b) : b[x] = all[off[k] + x]
    BY Zenon DEF InPlace
<1> HIDE DEF off, all, m, e
<1>4. k # Len(ms)
    BY <1>1, <1>2, <1>3, SMT
<1>5. /\ m \in Catalogued /\ off[k + 1] = off[k] + Len(e)
      /\ \A x \in 1 .. Len(e) : all[off[k] + x] = e[x]
    BY <1>1, <1>4, Zenon
<1> DEFINE h == putU32(m.length)
           l == m.length
           c == Code(m)
           v == Fields(m)
           n == PayloadLen(m)
<1>6. /\ Len(e) = 5 + n /\ n \in Nat /\ l \in Nat
      /\ \A x \in 1 .. 4 : e[x] = h[x]
      /\ e[5] = c
      /\ \A x \in 1 .. n : e[5 + x] = v
    BY <1>5, EncodeIs, Zenon DEF e
<1>7. l >= 1 => n = l - 1
    BY <1>6 DEF PayloadLen
<1>8. getU32(h) = l
    <2>1. l \in Nat /\ FitsU32(l)
        BY <1>5, StreamsAssumption DEF Catalogued
    <2> QED BY <2>1, PutGet, SMT
<1> HIDE DEF h, l, c, v, n
<1>9. \A x : x \in 1 .. Len(b) /\ x \in 1 .. Len(e) => b[x] = e[x]
    BY <1>3, <1>5, Zenon
<1>10. getU32(b) = l
    <2>1. \A x \in 1 .. 4 : x \in 1 .. Len(b) /\ x \in 1 .. Len(e)
        BY <1>2, <1>6, SMT
    <2>2. \A x \in 1 .. 4 : b[x] = h[x]
        BY <1>6, <1>9, <2>1, Zenon
    <2>3. b[1] = h[1] /\ b[2] = h[2] /\ b[3] = h[3] /\ b[4] = h[4]
        BY <2>2, SMT
    <2>4. getU32(b) = getU32(h)
        BY <2>3, SMT DEF getU32
    <2> QED BY <1>8, <2>4, SMT
<1>11. ASSUME l >= 1, Len(b) >= 4 + l
       PROVE  b[5] = c /\ (\A x \in 6 .. 4 + l : b[x] = v) /\ off[k + 1] = off[k] + 4 + l
    <2>1. n = l - 1 /\ Len(e) = 4 + l
        BY <1>6, <1>7, <1>11, SMT
    <2>2. \A x \in 1 .. 4 + l : x \in 1 .. Len(b) /\ x \in 1 .. Len(e)
        BY <1>2, <1>6, <1>11, <2>1, SMT
    <2>3. \A x \in 1 .. 4 + l : b[x] = e[x]
        BY <1>9, <2>2, Zenon
    <2>4. b[5] = c
        BY <1>6, <1>11, <2>3, SMT
    <2>5. ASSUME NEW x \in 6 .. 4 + l PROVE b[x] = v
        <3>1. x \in 1 .. 4 + l /\ x - 5 \in 1 .. n /\ 5 + (x - 5) = x
            BY <1>6, <2>1, SMT
        <3>2. b[x] = e[x] /\ e[5 + (x - 5)] = v
            BY <1>6, <2>3, <3>1, Zenon
        <3> QED BY <3>1, <3>2, Zenon
    <2>6. off[k + 1] = off[k] + 4 + l
        <3> DEFINE p == off[k]
                   q == off[k + 1]
                   z == Len(e)
        <3>1. p \in Nat /\ q = p + z /\ z = 4 + l /\ l \in Nat
            BY <1>1, <1>5, <1>6, <2>1, Zenon
        <3> HIDE DEF p, q, z
        <3>2. q = p + 4 + l
            BY ONLY <3>1, SMT
        <3> QED BY <3>2, Zenon DEF p, q
    <2> QED BY <2>4, <2>5, <2>6
<1> QED BY <1>4, <1>5, <1>10, <1>11, Zenon DEF off, all, m, l, c, v

\* A message that has a use has a known type, and its frame has a valid length.
LEMMA GoodLength ==
    ASSUME NEW r \in Readers, NEW m \in Catalogued, GoodFor(r, m)
    PROVE  /\ Code(m) \in 1 .. 15 /\ MessageType[Code(m)] = m.type
           /\ m.length \in 3 .. 55
<1>1. r = "session" \/ r = "feed"
    BY DecoderAssumption
<1>2. m.type \in ToSet(OrderEntry) \cup ToSet(MarketData)
    BY <1>1 DEF GoodFor, Accepts
<1>3. Code(m) \in 1 .. 15 /\ MessageType[Code(m)] = m.type
    BY <1>2, CodeIs
<1>4. PICK n \in 2 .. 54 : n = PayloadSize[Code(m)]
    BY <1>3, TypeCodes
<1>5. m.length = 1 + n
    BY <1>4 DEF GoodFor, kMsgTypeSize, expectedPayloadSize
<1> QED BY <1>3, <1>5

\* The getters give the message back.
LEMMA DecodeIs ==
    ASSUME NEW m \in Catalogued, Code(m) \in 1 .. 15, MessageType[Code(m)] = m.type,
           NEW p, 1 \in DOMAIN p, \A i \in DOMAIN p : p[i] = Fields(m)
    PROVE  Decode(Code(m), p) = m
<1> DEFINE c == Code(m)
           v == Fields(m)
           S == {u \in {w \in DOMAIN Catalogue : Catalogue[w].type = MessageType[c]} :
                    \A i \in DOMAIN p : p[i] = u}
<1>1. v \in DOMAIN Catalogue /\ Catalogue[v] = m /\ v \in Bytes
    BY FieldsIs
<1>2. MessageType[c] = m.type
    OBVIOUS
<1>3. S = {v}
    BY <1>1, <1>2, Zenon
<1>4. v \in Nat
    BY <1>1, SMT DEF Bytes
<1>5. Decode(c, p) = IF S # {} THEN Catalogue[Min(S)] ELSE [type |-> "garbled"]
    BY Zenon DEF Decode
<1> HIDE DEF c, v, S
<1>6. S \in SUBSET Nat /\ S # {}
    BY <1>3, <1>4, Zenon
<1>7. Min(S) \in S
    BY <1>6, MinExists, Zenon
<1> QED BY <1>1, <1>3, <1>5, <1>6, <1>7, Zenon DEF c

\* What next() makes of the frame at the front.
LEMMA FrontMessage ==
    ASSUME reader \in Readers, buf \in Seq(Bytes), NEW m \in Catalogued,
           Len(buf) >= 4, getU32(buf) = m.length, LengthValid, HasFrame,
           buf[5] = Code(m), \A x \in 6 .. 4 + m.length : buf[x] = Fields(m)
    PROVE  (FrameValid <=> GoodFor(reader, m)) /\ (FrameValid => Message = m)
<1> DEFINE l == m.length
           c == Code(m)
           v == Fields(m)
           p == SubSeq(buf, 6, 4 + l)
<1>1. l \in Nat /\ l >= 1 /\ Len(buf) \in Nat /\ Len(buf) >= 4 + l
    <2>1. l \in Nat
        BY StreamsAssumption DEF Catalogued
    <2> QED BY <2>1 DEF LengthValid, HasFrame, Total, Length, kFrameHeaderSize
<1>2. RawType = c
    BY DEF RawType, kFrameHeaderSize
<1>3. Message = Decode(c, p)
    <2>1. kFrameHeaderSize + kMsgTypeSize + 1 = 6 /\ Total = 4 + l
        BY DEF kFrameHeaderSize, kMsgTypeSize, Total, Length
    <2> QED BY <1>2, <2>1, Zenon DEF Message
<1>4. FrameValid <=> /\ isKnownMessageType(c)
                     /\ l = kMsgTypeSize + expectedPayloadSize(c)
                     /\ MessageType[c] \in Accepts[reader]
                     /\ reader = "session" => FieldsValid(Message)
    BY <1>2, Zenon DEF FrameValid, Length
<1>5. isKnownMessageType(c) <=> c \in 1 .. 15
    BY TypeCodes, Zenon DEF isKnownMessageType
<1>6. c \in 1 .. 15 => MessageType[c] = m.type
    <2>1. c # 0 => MessageType[c] = m.type
        BY CodeIs, Zenon
    <2> QED BY <2>1
<1>7. ASSUME c \in 1 .. 15, l = kMsgTypeSize + expectedPayloadSize(c) PROVE Message = m
    <2>1. PICK n \in 2 .. 54 : n = PayloadSize[c]
        BY <1>7, TypeCodes, Zenon
    <2>2. l = 1 + n
        BY <1>7, <2>1 DEF kMsgTypeSize, expectedPayloadSize
    <2>3. \A x \in 6 .. 4 + l : buf[x] = v
        OBVIOUS
    <2> HIDE DEF l, c, v
    <2>4. DOMAIN p = 1 .. n /\ \A i \in 1 .. n : p[i] = buf[5 + i]
        BY <1>1, <2>2
    <2> HIDE DEF p
    <2>5. 1 \in DOMAIN p /\ \A i \in 1 .. n : 5 + i \in 6 .. 4 + l
        BY <2>2, <2>4
    <2>6. \A i \in DOMAIN p : p[i] = v
        BY <2>3, <2>4, <2>5, Zenon
    <2> QED BY <1>3, <1>6, <1>7, <2>5, <2>6, DecodeIs, Zenon DEF c, v
<1>8. GoodFor(reader, m) => c \in 1 .. 15
    BY GoodLength, Zenon
<1>9. GoodFor(reader, m) <=> /\ m.type \in Accepts[reader]
                             /\ l = kMsgTypeSize + expectedPayloadSize(c)
                             /\ reader = "session" => FieldsValid(m)
    BY Zenon DEF GoodFor
<1> HIDE DEF l, c, v, p
<1> QED BY <1>4, <1>5, <1>6, <1>7, <1>8, <1>9, Zenon

\* Bytes that are read stay in place.
LEMMA ReadInPlace ==
    ASSUME NEW ms \in Seq(Catalogued), NEW k \in 0 .. Len(ms),
           NEW b \in Seq(Bytes), NEW w \in Seq(Bytes), InPlace(ms, k, b, w),
           NEW n \in 1 .. Len(w)
    PROVE  /\ b \o SubSeq(w, 1, n) \in Seq(Bytes) /\ SubSeq(w, n + 1, Len(w)) \in Seq(Bytes)
           /\ InPlace(ms, k, b \o SubSeq(w, 1, n), SubSeq(w, n + 1, Len(w)))
<1> DEFINE a == Ends(ms)[k]
           all == Encoded(ms)
           L == Len(b)
           M == Len(w)
           s == SubSeq(w, 1, n)
           t == SubSeq(w, n + 1, Len(w))
           c == b \o s
<1>1. L \in Nat /\ M \in Nat /\ n \in 1 .. M
    OBVIOUS
<1>2. s \in Seq(Bytes) /\ Len(s) = n /\ \A x \in 1 .. n : s[x] = w[x]
    BY SubSeqProperties
<1>3. t \in Seq(Bytes) /\ Len(t) = M - n /\ \A x \in 1 .. M - n : t[x] = w[n + x]
    <2>1. n \in 0 .. Len(w)
        BY <1>1
    <2> QED BY <2>1, TailIs, Zenon
<1>4. a \in Nat
    BY EndsAre, Zenon
<1>5. /\ a + L + M = Len(all)
      /\ \A x \in 1 .. L : b[x] = all[a + x]
      /\ \A x \in 1 .. M : w[x] = all[a + L + x]
    BY Zenon DEF InPlace
<1>6. b \in Seq(Bytes) /\ Len(b) = L
    OBVIOUS
<1> HIDE DEF a, all, L, M, s, t
<1>7. /\ c \in Seq(Bytes) /\ Len(c) = L + n
      /\ \A x \in 1 .. L : c[x] = b[x]
      /\ \A x \in 1 .. n : c[L + x] = s[x]
    <2>1. b \in Seq(Bytes) /\ s \in Seq(Bytes)
        BY <1>2, <1>6, Zenon
    <2>2. /\ b \o s \in Seq(Bytes) /\ Len(b \o s) = Len(b) + Len(s)
          /\ \A x \in 1 .. Len(b) : (b \o s)[x] = b[x]
          /\ \A x \in 1 .. Len(s) : (b \o s)[Len(b) + x] = s[x]
        BY ONLY <2>1, ConcatIs, SMT
    <2>3. Len(b) = L /\ Len(s) = n
        BY <1>2, <1>6, Zenon
    <2> QED BY <2>2, <2>3, Zenon
<1> HIDE DEF c
<1>8. a + Len(c) + Len(t) = Len(all)
    <2>1. /\ a \in Nat /\ L \in Nat /\ M \in Nat /\ n \in 1 .. M
          /\ Len(c) = L + n /\ Len(t) = M - n /\ a + L + M = Len(all)
        BY <1>1, <1>3, <1>4, <1>5, <1>7, Zenon
    <2> QED BY ONLY <2>1, SMT
<1>9. ASSUME NEW x \in 1 .. Len(c) PROVE c[x] = all[a + x]
    <2>1. CASE x <= L
        <3>1. x \in 1 .. L
            BY <1>1, <1>7, <2>1, SMT
        <3> QED BY <1>5, <1>7, <3>1, Zenon
    <2>2. CASE ~(x <= L)
        <3>1. /\ x - L \in 1 .. n /\ x - L \in 1 .. M
              /\ L + (x - L) = x /\ a + L + (x - L) = a + x
            <4>1. /\ a \in Nat /\ L \in Nat /\ M \in Nat /\ n \in 1 .. M
                  /\ x \in 1 .. L + n
                BY <1>1, <1>4, <1>7, Zenon
            <4> QED BY ONLY <2>2, <4>1, SMT
        <3>2. c[L + (x - L)] = all[a + L + (x - L)]
            BY <1>2, <1>5, <1>7, <3>1, Zenon
        <3> QED BY <3>1, <3>2, Zenon
    <2> QED BY <2>1, <2>2
<1>10. ASSUME NEW x \in 1 .. Len(t) PROVE t[x] = all[a + Len(c) + x]
    <2>1. /\ x \in 1 .. M - n /\ n + x \in 1 .. M
          /\ a + L + (n + x) = a + Len(c) + x
        <3>1. /\ a \in Nat /\ L \in Nat /\ M \in Nat /\ n \in 1 .. M
              /\ Len(c) = L + n /\ x \in 1 .. M - n
            BY <1>1, <1>3, <1>4, <1>7, Zenon
        <3>2. n + x \in 1 .. M /\ a + L + (n + x) = a + (L + n) + x
            BY ONLY <3>1, SMT
        <3> QED BY <3>1, <3>2, Zenon
    <2>2. t[x] = all[a + L + (n + x)]
        BY <1>3, <1>5, <2>1, Zenon
    <2> QED BY <2>1, <2>2, Zenon
<1> QED BY <1>3, <1>7, <1>8, <1>9, <1>10, Zenon DEF InPlace, a, all, t, c, s

\* Without the frame at the front the bytes are in place behind one more message.
LEMMA ConsumeInPlace ==
    ASSUME NEW ms \in Seq(Catalogued), NEW k \in 0 .. Len(ms),
           NEW b \in Seq(Bytes), NEW w \in Seq(Bytes), InPlace(ms, k, b, w),
           NEW n \in 0 .. Len(b), k # Len(ms), Ends(ms)[k + 1] = Ends(ms)[k] + n
    PROVE  /\ SubSeq(b, n + 1, Len(b)) \in Seq(Bytes)
           /\ InPlace(ms, k + 1, SubSeq(b, n + 1, Len(b)), w)
<1> DEFINE a == Ends(ms)[k]
           z == Ends(ms)[k + 1]
           all == Encoded(ms)
           L == Len(b)
           M == Len(w)
           c == SubSeq(b, n + 1, Len(b))
<1>1. L \in Nat /\ M \in Nat /\ n \in 0 .. L
    OBVIOUS
<1>2. c \in Seq(Bytes) /\ Len(c) = L - n /\ \A x \in 1 .. L - n : c[x] = b[n + x]
    BY TailIs, Zenon
<1>3. a \in Nat
    BY EndsAre, Zenon
<1>4. z = a + n
    OBVIOUS
<1>5. /\ a + L + M = Len(all)
      /\ \A x \in 1 .. L : b[x] = all[a + x]
      /\ \A x \in 1 .. M : w[x] = all[a + L + x]
    BY Zenon DEF InPlace
<1> HIDE DEF a, z, all, L, M, c
<1>6. z + Len(c) + M = Len(all)
    <2> DEFINE y == Len(c)
               g == Len(all)
    <2>1. /\ a \in Nat /\ L \in Nat /\ M \in Nat /\ n \in 0 .. L
          /\ y = L - n /\ z = a + n /\ a + L + M = g
        BY <1>1, <1>2, <1>3, <1>4, <1>5, Zenon
    <2> HIDE DEF y, g
    <2>2. z + y + M = g
        BY ONLY <2>1, SMT
    <2> QED BY <2>2, Zenon DEF y, g
<1>7. ASSUME NEW x \in 1 .. Len(c) PROVE c[x] = all[z + x]
    <2>1. x \in 1 .. L - n /\ n + x \in 1 .. L /\ a + (n + x) = z + x
        BY <1>1, <1>2, <1>3, <1>4, SMT
    <2>2. c[x] = all[a + (n + x)]
        BY <1>2, <1>5, <2>1, Zenon
    <2> QED BY <2>1, <2>2, Zenon
<1>8. ASSUME NEW x \in 1 .. M PROVE w[x] = all[z + Len(c) + x]
    <2>1. a + L + x = z + Len(c) + x
        BY <1>1, <1>2, <1>3, <1>4, SMT
    <2> QED BY <1>5, <2>1, Zenon
<1> QED BY <1>2, <1>6, <1>7, <1>8, Zenon DEF InPlace, z, all, c, M

\* A new connection starts with all of the stream under way.
LEMMA StartInPlace ==
    ASSUME NEW ms \in Seq(Catalogued), NEW b, b = <<>>
    PROVE  InPlace(ms, 0, b, Encoded(ms)) /\ b \in Seq(Bytes)
<1> DEFINE all == Encoded(ms)
           off == Ends(ms)
<1>1. Len(ms) \in Nat
    OBVIOUS
<1>2. 0 \in 0 .. Len(ms)
    BY <1>1
<1>3. off[0] = 0 /\ Len(all) \in Nat
    BY <1>2, EndsAre, Zenon
<1> HIDE DEF all, off
<1>4. Len(b) = 0 /\ b \in Seq(Bytes)
    OBVIOUS
<1>5. off[0] + Len(b) + Len(all) = Len(all)
    BY <1>3, <1>4
<1>6. \A x \in 1 .. Len(b) : b[x] = all[off[0] + x]
    BY <1>4
<1>7. \A x \in 1 .. Len(all) : off[0] + Len(b) + x = x
    BY <1>3, <1>4
<1>8. \A x \in 1 .. Len(all) : all[x] = all[off[0] + Len(b) + x]
    BY <1>7, Zenon
<1> QED BY <1>4, <1>5, <1>6, <1>8, Zenon DEF InPlace, all, off

\* What StreamInv says of the variables, one by one.
LEMMA StreamFacts ==
    ASSUME StreamInv
    PROVE  /\ reader \in Readers /\ stream \in Seq(Catalogued)
           /\ buf \in Seq(Bytes) /\ wire \in Seq(Bytes)
           /\ HandedOver(reader, stream, delivered)
           /\ Len(delivered) \in 0 .. Len(stream)
<1>1. delivered \in Seq(Catalogued) /\ Len(delivered) <= Len(stream) /\ stream \in Seq(Catalogued)
    BY Zenon DEF StreamInv, HandedOver
<1>2. Len(delivered) \in 0 .. Len(stream)
    BY <1>1
<1> QED BY <1>2, Zenon DEF StreamInv

\* A read, whether there is room or not.
LEMMA ReadStream == ASSUME StreamInv, NEW n \in 1 .. Len(wire), Read(n) PROVE StreamInv'
<1>1. /\ closed = "no" /\ UNCHANGED <<reader, stream, terminal, delivered>>
      /\ wire' = SubSeq(wire, n + 1, Len(wire))
    BY Zenon DEF Read
<1>2. ~terminal /\ InPlace(stream, Len(delivered), buf, wire)
    BY <1>1, Zenon DEF StreamInv
<1>3. /\ buf \o SubSeq(wire, 1, n) \in Seq(Bytes) /\ wire' \in Seq(Bytes)
      /\ InPlace(stream, Len(delivered), buf \o SubSeq(wire, 1, n), wire')
    BY <1>1, <1>2, ReadInPlace, StreamFacts, Zenon
<1>4. CASE ~terminal /\ RoomFor(n)
    <2>1. buf' = buf \o SubSeq(wire, 1, n) /\ closed' = closed
        BY <1>4, Zenon DEF Read
    <2>2. closed' # "invalid"
        BY <1>1, <2>1
    <2>3. buf' \in Seq(Bytes) /\ InPlace(stream', Len(delivered'), buf', wire')
        BY <1>1, <1>3, <2>1, Zenon
    <2> QED BY <1>1, <1>2, <1>3, <2>2, <2>3, StreamFacts, Zenon DEF StreamInv
<1>5. CASE ~(~terminal /\ RoomFor(n))
    <2>1. buf' = buf /\ closed' = "overflow"
        BY <1>5, Zenon DEF Read, Close
    <2>2. closed' # "invalid" /\ closed' # "no"
        BY <2>1
    <2> QED BY <1>1, <1>3, <2>1, <2>2, StreamFacts, Zenon DEF StreamInv
<1> QED BY <1>4, <1>5

\* The message that is due.
NextDue == stream[Len(delivered) + 1]

\* Its frame is the one at the front.
LEMMA DueInFront ==
    ASSUME StreamInv, closed = "no", HasLength
    PROVE  /\ Len(delivered) # Len(stream) /\ NextDue \in Catalogued
           /\ ~LengthValid => ~GoodFor(reader, NextDue)
           /\ LengthValid /\ HasFrame =>
                 /\ FrameValid <=> GoodFor(reader, NextDue)
                 /\ FrameValid => Message = NextDue
                 /\ Ends(stream)[Len(delivered) + 1] = Ends(stream)[Len(delivered)] + Total
                 /\ Total \in 0 .. Len(buf)
<1> DEFINE k == Len(delivered)
           m == stream[k + 1]
<1>1. /\ stream \in Seq(Catalogued) /\ k \in 0 .. Len(stream) /\ buf \in Seq(Bytes)
      /\ wire \in Seq(Bytes) /\ reader \in Readers /\ InPlace(stream, k, buf, wire)
    BY StreamFacts, Zenon DEF StreamInv
<1>2. Len(buf) >= 4
    BY DEF HasLength, kFrameHeaderSize
<1> HIDE DEF k
<1>3. /\ k # Len(stream) /\ m \in Catalogued /\ getU32(buf) = m.length
      /\ m.length >= 1 /\ Len(buf) >= 4 + m.length =>
            /\ buf[5] = Code(m)
            /\ \A x \in 6 .. 4 + m.length : buf[x] = Fields(m)
            /\ Ends(stream)[k + 1] = Ends(stream)[k] + 4 + m.length
    BY <1>1, <1>2, FrontFrame, Zenon
<1> HIDE DEF m
<1>4. m.length \in Nat /\ Length = m.length
    BY <1>3, StreamsAssumption, Zenon DEF Catalogued, Length
<1>5. ASSUME ~LengthValid PROVE ~GoodFor(reader, m)
    <2>1. SUFFICES ASSUME GoodFor(reader, m) PROVE FALSE
        OBVIOUS
    <2>2. m.length \in 3 .. 55
        BY <1>1, <1>3, <2>1, GoodLength, Zenon
    <2> QED BY <1>4, <1>5, <2>2 DEF LengthValid, kMaxFrame
<1>6. ASSUME LengthValid, HasFrame
      PROVE  /\ FrameValid <=> GoodFor(reader, m)
             /\ FrameValid => Message = m
             /\ Ends(stream)[k + 1] = Ends(stream)[k] + Total
             /\ Total \in 0 .. Len(buf)
    <2>1. /\ m.length >= 1 /\ Total = 4 + m.length /\ Len(buf) >= 4 + m.length
          /\ Len(buf) \in Nat
        BY <1>1, <1>4, <1>6 DEF LengthValid, HasFrame, Total, kFrameHeaderSize
    <2>2. /\ buf[5] = Code(m)
          /\ \A x \in 6 .. 4 + m.length : buf[x] = Fields(m)
          /\ Ends(stream)[k + 1] = Ends(stream)[k] + 4 + m.length
        BY <1>3, <2>1, Zenon
    <2>3. (FrameValid <=> GoodFor(reader, m)) /\ (FrameValid => Message = m)
        BY <1>1, <1>2, <1>3, <1>6, <2>2, FrontMessage, Zenon
    <2>4. Total \in 0 .. Len(buf)
        BY <1>4, <2>1, SMT
    <2>5. Ends(stream)[k] \in Nat
        BY <1>1, EndsAre, Zenon
    <2> DEFINE p == Ends(stream)[k]
               l == m.length
    <2>6. p \in Nat /\ l \in Nat
        BY <1>4, <2>5, Zenon
    <2> HIDE DEF p, l
    <2>7. p + 4 + l = p + (4 + l)
        BY <2>6, SMT
    <2>8. Ends(stream)[k + 1] = p + (4 + l)
        BY <2>2, <2>7, Zenon DEF p, l
    <2>9. Ends(stream)[k + 1] = Ends(stream)[k] + Total
        BY <2>1, <2>8, Zenon DEF p, l
    <2> QED BY <2>3, <2>4, <2>9, Zenon
<1>7. m = NextDue
    BY Zenon DEF m, k, NextDue
<1> QED BY <1>3, <1>5, <1>6, <1>7, Zenon DEF k

\* A message is handed over, and it is the one that is due.
LEMMA OkStream == ASSUME StreamInv, Ok PROVE StreamInv'
<1> DEFINE k == Len(delivered)
           m == NextDue
<1>1. /\ closed = "no" /\ ~terminal /\ HasLength /\ LengthValid /\ HasFrame /\ FrameValid
      /\ delivered' = Append(delivered, Message)
      /\ buf' = SubSeq(buf, Total + 1, Len(buf))
      /\ UNCHANGED <<reader, stream, wire, terminal, closed>>
    BY Zenon DEF Ok, Consumed
<1>2. /\ stream \in Seq(Catalogued) /\ k \in 0 .. Len(stream) /\ buf \in Seq(Bytes)
      /\ wire \in Seq(Bytes) /\ reader \in Readers /\ HandedOver(reader, stream, delivered)
      /\ InPlace(stream, k, buf, wire)
    BY <1>1, StreamFacts, Zenon DEF StreamInv
<1>3. /\ k # Len(stream) /\ m \in Catalogued /\ GoodFor(reader, m) /\ Message = m
      /\ Ends(stream)[k + 1] = Ends(stream)[k] + Total
      /\ Total \in 0 .. Len(buf)
    BY <1>1, DueInFront, Zenon
<1>4. m = stream[k + 1]
    BY Zenon DEF NextDue
<1>5. delivered \in Seq(Catalogued) /\ \A i \in 1 .. k : delivered[i] = stream[i] /\ GoodFor(reader, stream[i])
    BY <1>2, Zenon DEF HandedOver
<1>6. buf' \in Seq(Bytes) /\ InPlace(stream, k + 1, buf', wire)
    BY <1>1, <1>2, <1>3, ConsumeInPlace, Zenon
<1>7. delivered' = Append(delivered, m)
    BY <1>1, <1>3, Zenon
<1>8. Len(stream) \in Nat /\ Len(delivered) = k
    BY <1>2
<1> HIDE DEF m
<1>9. delivered' \in Seq(Catalogued) /\ Len(delivered') = k + 1
      /\ (\A i \in 1 .. k : delivered'[i] = delivered[i]) /\ delivered'[k + 1] = m
    BY <1>3, <1>5, <1>7, AppendProperties
<1> HIDE DEF k
<1>10. k \in Nat /\ k + 1 <= Len(stream)
    BY <1>2, <1>3, <1>8, SMT
<1>11. \A i \in 1 .. k + 1 : i \in 1 .. k \/ i = k + 1
    BY <1>10, SMT
<1>12. \A i \in 1 .. k + 1 : delivered'[i] = stream[i] /\ GoodFor(reader, stream[i])
    BY <1>3, <1>4, <1>5, <1>9, <1>11, Zenon
<1>13. HandedOver(reader, stream, delivered')
    BY <1>9, <1>10, <1>12, Zenon DEF HandedOver
<1>14. closed' # "invalid"
    BY <1>1
<1> QED BY <1>1, <1>2, <1>6, <1>9, <1>13, <1>14, Zenon DEF StreamInv

\* The connection is closed for the message that is due, which has no use.
LEMMA InvalidStream == ASSUME StreamInv, Invalid PROVE StreamInv'
<1>1. /\ closed = "no" /\ (terminal \/ (HasLength /\ (LengthValid => HasFrame /\ ~FrameValid)))
      /\ closed' = "invalid"
      /\ UNCHANGED <<reader, stream, wire, buf, delivered>>
    BY Zenon DEF Invalid, Close
<1>2. ~terminal
    BY <1>1, Zenon DEF StreamInv
<1>3. Len(delivered) # Len(stream) /\ ~GoodFor(reader, NextDue)
    BY <1>1, <1>2, DueInFront, Zenon
<1>4. Len(delivered) \in 0 .. Len(stream) /\ Len(stream) \in Nat
    <2>1. stream \in Seq(Catalogued)
        BY DEF StreamInv
    <2> QED BY <2>1, StreamFacts
<1>5. Len(delivered) < Len(stream)
    BY <1>3, <1>4, SMT
<1>6. closed' # "no"
    BY <1>1
<1> QED BY <1>1, <1>3, <1>5, <1>6, StreamFacts, Zenon DEF StreamInv, NextDue

\* A new connection.
LEMMA StartStream ==
    ASSUME NEW r \in Readers, NEW ms \in Streams[r], NEW b, b = <<>>, NEW d, d = <<>>
    PROVE  /\ ms \in Seq(Catalogued) /\ b \in Seq(Bytes) /\ Encoded(ms) \in Seq(Bytes)
           /\ HandedOver(r, ms, d) /\ InPlace(ms, Len(d), b, Encoded(ms))
<1>1. ms \in Seq(Catalogued) /\ Encoded(ms) \in Seq(Bytes)
    BY EncodedBytes
<1>2. b \in Seq(Bytes) /\ InPlace(ms, 0, b, Encoded(ms))
    BY <1>1, StartInPlace
<1>3. d \in Seq(Catalogued) /\ Len(d) = 0 /\ Len(ms) \in Nat
    BY <1>1
<1>4. Len(d) <= Len(ms) /\ 1 .. Len(d) = {}
    BY <1>3
<1>5. HandedOver(r, ms, d)
    BY <1>3, <1>4, Zenon DEF HandedOver
<1> QED BY <1>1, <1>2, <1>3, <1>5, Zenon

\* The invariant holds of every behaviour.
LEMMA StreamInvHolds == Spec => []StreamInv
<1>1. Init => StreamInv
    <2>1. SUFFICES ASSUME Init PROVE StreamInv
        OBVIOUS
    <2>2. /\ reader \in Readers /\ stream \in Streams[reader] /\ wire = Encoded(stream)
          /\ buf = <<>> /\ terminal = FALSE /\ closed = "no" /\ delivered = <<>>
        BY <2>1, Zenon DEF Init
    <2>3. closed # "invalid"
        BY <2>2
    <2> QED BY <2>2, <2>3, StartStream, Zenon DEF StreamInv
<1>2. StreamInv /\ [Next]_vars => StreamInv'
    <2>1. SUFFICES ASSUME StreamInv, [Next]_vars PROVE StreamInv'
        OBVIOUS
    <2>2. CASE Reading
        <3>1. PICK n \in 1 .. Min({ReadChunk[reader], Len(wire)}) : Read(n)
            BY <2>2, Zenon DEF Reading
        <3>2. n \in 1 .. Len(wire)
            <4>1. Len(wire) \in Nat /\ ReadChunk[reader] \in Nat
                BY <2>1, DecoderAssumption DEF StreamInv, ReadChunk
            <4> DEFINE S == {ReadChunk[reader], Len(wire)}
            <4>2. S \in SUBSET Nat /\ S # {} /\ Len(wire) \in S
                BY <4>1
            <4>3. Min(S) \in Nat /\ Min(S) <= Len(wire)
                BY <4>2, MinExists, Zenon
            <4> HIDE DEF S
            <4>4. n \in 1 .. Min(S)
                BY DEF S
            <4> QED BY <4>1, <4>3, <4>4
        <3> QED BY <2>1, <3>1, <3>2, ReadStream
    <2>3. CASE Ok
        BY <2>1, <2>3, OkStream
    <2>4. CASE Invalid
        BY <2>1, <2>4, InvalidStream
    <2>5. CASE Incomplete \/ Resume \/ UNCHANGED vars
        <3>1. UNCHANGED <<reader, stream, wire, buf, terminal, closed, delivered>>
            BY <2>5, Zenon DEF Incomplete, Resume, vars
        <3> QED BY <2>1, <3>1, Zenon DEF StreamInv
    <2>6. CASE Lost
        <3>1. closed' = "lost" /\ UNCHANGED <<reader, stream, wire, buf, delivered>>
            BY <2>6, Zenon DEF Lost, Close
        <3>2. closed' # "no" /\ closed' # "invalid"
            BY <3>1
        <3> QED BY <2>1, <3>1, <3>2, Zenon DEF StreamInv
    <2>7. CASE Connect
        <3>1. /\ reader' = reader /\ stream' \in Streams[reader] /\ wire' = Encoded(stream')
              /\ buf' = <<>> /\ terminal' = FALSE /\ closed' = "no" /\ delivered' = <<>>
            BY <2>7, Zenon DEF Connect
        <3>2. closed' # "invalid"
            BY <3>1
        <3>3. reader \in Readers
            BY <2>1, Zenon DEF StreamInv
        <3> QED BY <3>1, <3>2, <3>3, StartStream, Zenon DEF StreamInv
    <2> QED BY <2>1, <2>2, <2>3, <2>4, <2>5, <2>6, <2>7, Zenon DEF Next, Decoding
<1> QED BY <1>1, <1>2, PTL DEF Spec

\* However the bytes are cut into pieces, wherever a session stops and whatever a lost connection
\* left behind, the reader is handed the messages of this connection up to the first one that it
\* has no use for, each once and in order, and closes the connection for a bad frame only there.
THEOREM StreamIntactHolds == Spec => []StreamIntact
<1>1. ASSUME StreamInv PROVE StreamIntact
    <2> DEFINE k == Len(delivered)
               N == Len(stream)
               M == Max(Due)
               t == SubSeq(stream, 1, M)
    <2>1. /\ stream \in Seq(Catalogued) /\ delivered \in Seq(Catalogued)
          /\ \A i \in 1 .. k : delivered[i] = stream[i] /\ GoodFor(reader, stream[i])
        BY <1>1, Zenon DEF StreamInv, HandedOver
    <2>2. N \in Nat /\ k \in 0 .. N
        BY <1>1, <2>1, StreamFacts
    <2>3. \A m : WellFormed(m) <=> GoodFor(reader, m)
        BY Zenon DEF WellFormed, GoodFor
    <2>4. Due = {j \in 0 .. N : \A i \in 1 .. j : GoodFor(reader, stream[i])}
        BY <2>3, Zenon DEF Due
    <2>5. k \in Due
        BY <2>1, <2>2, <2>4, Zenon
    <2>6. Due \in SUBSET (0 .. N)
        BY <2>4, Zenon
    <2>7. M \in Due /\ \A j \in Due : j <= M
        BY <2>2, <2>5, <2>6, MaxExists, Zenon
    <2> HIDE DEF N, M
    <2>8. M \in 0 .. N /\ k <= M /\ \A i \in 1 .. M : GoodFor(reader, stream[i])
        BY <2>4, <2>5, <2>7, Zenon
    <2>9. t \in Seq(Catalogued) /\ Len(t) = M /\ \A i \in 1 .. M : t[i] = stream[i]
        BY <2>1, <2>2, <2>8, SubSeqProperties DEF N
    <2>10. Messages = t
        BY Zenon DEF Messages, M
    <2> HIDE DEF t
    <2>11. IsPrefix(delivered, t)
        <3>1. DOMAIN delivered = 1 .. k /\ DOMAIN t = 1 .. M
            BY <2>1, <2>9
        <3> DEFINE u == SubSeq(t, 1, k)
        <3>2. u \in Seq(Catalogued) /\ Len(u) = k /\ \A i \in 1 .. k : u[i] = t[i]
            BY <2>2, <2>8, <2>9, SubSeqProperties
        <3> QED BY <2>1, <2>2, <2>8, <2>9, <3>1, <3>2 DEF IsPrefix
    <2>12. ASSUME closed = "invalid" PROVE delivered = t /\ t # stream
        <3>1. k < N /\ ~GoodFor(reader, stream[k + 1])
            BY <1>1, <2>12, Zenon DEF StreamInv, N
        <3> HIDE DEF k
        <3>2. M = k
            <4>1. ASSUME M # k PROVE k + 1 \in 1 .. M
                BY <2>2, <2>8, <4>1
            <4> QED BY <2>8, <3>1, <4>1, Zenon
        <3>3. \A i \in 1 .. k : delivered[i] = t[i]
            BY <2>1, <2>9, <3>2, Zenon
        <3>4. Len(delivered) = k
            BY DEF k
        <3>5. delivered = t
            BY <2>1, <2>2, <2>9, <3>2, <3>3, <3>4, SeqEqual
        <3>6. Len(t) # Len(stream)
            BY <2>2, <2>9, <3>1, <3>2 DEF N
        <3> QED BY <3>5, <3>6, Zenon
    <2> QED BY <2>10, <2>11, <2>12, Zenon DEF StreamIntact
<1> QED BY <1>1, StreamInvHolds, PTL
=============================================================================

------------------------------ MODULE LevelMap ------------------------------
(***************************************************************************)
(* The occupancy bitset of one side's LevelMap: l0 has a bit per price     *)
(* slot, l1 a bit per word of l0, and the search for the next occupied     *)
(* level reads them instead of the levels.  Words are integers of WordBits *)
(* bits (64 in the code) and masks are computed modulo 2^WordBits, so that *)
(* the shifts at the edges of a word are those of the code.  OrderBook     *)
(* uses the set of occupied slots in place of the two arrays.              *)
(***************************************************************************)
EXTENDS Integers, FiniteSets, FiniteSetsExt

CONSTANTS WordBits,  \* kBitsPerWord
          NumSlots,  \* numSlots_
          NotFound   \* kNotFound

ASSUME LevelMapAssumption == {WordBits, NumSlots} \subseteq Nat \ {0}

VARIABLES count,  \* orders at each level; a level is empty when it has none
          l0, l1  \* the two arrays of words

levelVars == <<count, l0, l1>>

Slots == 0 .. NumSlots - 1

CeilDiv(a, b) == (a + b - 1) \div b

L0Words == CeilDiv(NumSlots, WordBits)

L1Words == CeilDiv(L0Words, WordBits)

LevelInit ==
    /\ count = [i \in Slots |-> 0]
    /\ l0 = [w \in 0 .. L0Words - 1 |-> 0]
    /\ l1 = [w \in 0 .. L1Words - 1 |-> 0]

-----------------------------------------------------------------------------
(* Words. *)

WordSize == 2 ^ WordBits

Bits(word) == {b \in 0 .. WordBits - 1 : (word \div 2 ^ b) % 2 = 1}

Word(bits) == SumSet({2 ^ b : b \in bits})

And(a, b) == Word(Bits(a) \cap Bits(b))

Not(a) == WordSize - 1 - a

WithBit(word, b) == Word(Bits(word) \cup {b})

WithoutBit(word, b) == Word(Bits(word) \ {b})

ShiftLeft(a, n) == (a * 2 ^ n) % WordSize

Minus1(a) == (a - 1) % WordSize

\* WordBits - 1 - std::countl_zero(word) and std::countr_zero(word), for a word that is not 0.
HighestBit(word) == Max(Bits(word))

LowestBit(word) == Min(Bits(word))

-----------------------------------------------------------------------------
(* The mutation points. *)

SetOccupied(i) ==
    LET w == i \div WordBits
    IN  /\ l0' = [l0 EXCEPT ![w] = WithBit(@, i % WordBits)]
        /\ l1' = [l1 EXCEPT ![w \div WordBits] = WithBit(@, w % WordBits)]

\* The l1 bit goes only when the whole l0 word is empty.
ClearOccupied(i) ==
    LET w == i \div WordBits
        word == WithoutBit(l0[w], i % WordBits)
    IN  /\ l0' = [l0 EXCEPT ![w] = word]
        /\ l1' = IF word = 0 THEN [l1 EXCEPT ![w \div WordBits] = WithoutBit(@, w % WordBits)]
                             ELSE l1

\* addOrder(): the bit is touched on the empty -> non-empty transition only.
AddOrder(i) ==
    /\ count' = [count EXCEPT ![i] = @ + 1]
    /\ IF count[i] = 0 THEN SetOccupied(i) ELSE UNCHANGED <<l0, l1>>

\* unlink() and, when that emptied the level, onLevelEmptied().
RemoveOrder(i) ==
    /\ count[i] > 0
    /\ count' = [count EXCEPT ![i] = @ - 1]
    /\ IF count[i] = 1 THEN ClearOccupied(i) ELSE UNCHANGED <<l0, l1>>

-----------------------------------------------------------------------------
(* The searches. *)

\* The scan of l1 from word cur towards word 0: the first word examined is masked, the others
\* are read in full.
ScanDown(cur, mask) ==
    LET seen(c) == IF c = cur THEN And(l1[c], mask) ELSE l1[c]
        hits == {c \in 0 .. cur : seen(c) # 0}
    IN  IF hits = {} THEN NotFound
        ELSE LET prev == Max(hits) * WordBits + HighestBit(seen(Max(hits)))
             IN  prev * WordBits + HighestBit(l0[prev])

FindSetBitBelow(i) ==
    LET w == i \div WordBits
        bit == i % WordBits
        masked == And(l0[w], IF bit = 0 THEN 0 ELSE Minus1(ShiftLeft(1, bit)))
        l1Bit == (w - 1) % WordBits
    IN  CASE masked # 0 -> w * WordBits + HighestBit(masked)
          [] masked = 0 /\ w = 0 -> NotFound
          [] masked = 0 /\ w > 0 ->
                ScanDown((w - 1) \div WordBits,
                         IF l1Bit = WordBits - 1 THEN Not(0) ELSE Minus1(ShiftLeft(1, l1Bit + 1)))

\* The same towards the last word.
ScanUp(cur, mask) ==
    LET seen(c) == IF c = cur THEN And(l1[c], mask) ELSE l1[c]
        hits == {c \in cur .. L1Words - 1 : seen(c) # 0}
    IN  IF hits = {} THEN NotFound
        ELSE LET next == Min(hits) * WordBits + LowestBit(seen(Min(hits)))
             IN  IF next >= L0Words THEN NotFound ELSE next * WordBits + LowestBit(l0[next])

\* Wrong: the bit itself is kept too.
MaskAboveOff(bit) == Not(Minus1(ShiftLeft(1, bit)))

\* The mask keeps the bits above bit; its first case is where the shift leaves the word.
MaskAbove(bit) == IF bit = WordBits - 1 THEN 0 ELSE Not(Minus1(ShiftLeft(2, bit)))

FindSetBitAbove(i) ==
    LET w == i \div WordBits
        masked == And(l0[w], MaskAbove(i % WordBits))
    IN  CASE masked # 0 -> w * WordBits + LowestBit(masked)
          [] masked = 0 /\ w + 1 >= L0Words -> NotFound
          [] masked = 0 /\ w + 1 < L0Words ->
                ScanUp((w + 1) \div WordBits, Not(Minus1(ShiftLeft(1, (w + 1) % WordBits))))

-----------------------------------------------------------------------------
(* Properties. *)

\* The set of occupied slots, as OrderBook keeps it.
Occupied == {i \in Slots : count[i] > 0}

\* From any slot, occupied or not, the searches find the nearest occupied slot strictly below
\* and strictly above, across word and summary-word boundaries, or report that there is none.
SearchExact ==
    \A i \in Slots :
        LET below == {j \in Occupied : j < i}
            above == {j \in Occupied : j > i}
        IN  /\ FindSetBitBelow(i) = IF below = {} THEN NotFound ELSE Max(below)
            /\ FindSetBitAbove(i) = IF above = {} THEN NotFound ELSE Min(above)
=============================================================================

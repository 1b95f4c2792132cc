---------------------------- MODULE TimerProofs ----------------------------
(***************************************************************************)
(* Proofs about TimerWheel and TimerService for wheels of any size, any    *)
(* timeouts and sleepers and any bound on the clock that fits the wheel.   *)
(* The first part is about times and the blocks of ticks they are in, the  *)
(* second about the wheel, the third about the service around it.          *)
(***************************************************************************)
EXTENDS TimerService, SequenceTheorems, WellFoundedInduction, TLAPS

(* A set of natural numbers has a least one.                                *)
LEMMA LeastOf ==
  ASSUME NEW T, T \subseteq Nat, T # {}
  PROVE  \E m \in T : \A k \in T : ~(k < m)
<1> DEFINE Less == OpToRel(<, Nat)
<1>1. IsWellFoundedOn(Less, Nat)
  BY NatLessThanWellFounded
<1>2. \E m \in T : \A k \in T : <<k, m>> \notin Less
  <2> HIDE DEF Less
  <2>1. QED BY <1>1, WFMin
<1>3. \A k, m \in T : <<k, m>> \in Less <=> k < m
  BY DEF OpToRel
<1>4. QED
  BY <1>2, <1>3

(* What holds of 0 and of the number after any below n of which it holds,   *)
(* S being the numbers of which it holds, holds up to n.                    *)
LEMMA UpTo ==
  ASSUME NEW n \in Nat, NEW S, 0 \in S, \A l \in 0 .. n - 1 : l \in S => l + 1 \in S
  PROVE  \A l \in 0 .. n : l \in S
<1> DEFINE T == {l \in 0 .. n : l \notin S}
<1>1. SUFFICES ASSUME T # {} PROVE FALSE
  OBVIOUS
<1>2. PICK m \in T : \A k \in T : ~(k < m)
  <2>1. T \subseteq Nat
    OBVIOUS
  <2> HIDE DEF T
  <2>2. QED BY <1>1, <2>1, LeastOf
<1>3. m \in 1 .. n
  BY <1>2
<1>4. m - 1 \in S
  BY <1>2, <1>3
<1>5. QED
  BY <1>2, <1>3, <1>4

-----------------------------------------------------------------------------
(* Quotients and remainders.                                                *)
LEMMA Division ==
  ASSUME NEW a \in Nat, NEW b \in Nat \ {0}
  PROVE  a \div b \in Nat /\ a % b \in 0 .. b - 1 /\ a = b * (a \div b) + (a % b)
OBVIOUS

LEMMA DivisionUnique ==
  ASSUME NEW b \in Nat \ {0}, NEW q \in Nat, NEW r \in 0 .. b - 1
  PROVE  (b * q + r) \div b = q /\ (b * q + r) % b = r
OBVIOUS

LEMMA DivisionMonotone ==
  ASSUME NEW a \in Nat, NEW e \in Nat, a <= e, NEW b \in Nat \ {0}
  PROVE  a \div b <= e \div b
OBVIOUS

(* Divided by b and then by c.                                              *)
LEMMA DivisionTwice ==
  ASSUME NEW a \in Nat, NEW b \in Nat \ {0}, NEW c \in Nat \ {0}
  PROVE  a \div (b * c) = (a \div b) \div c /\ b * c \in Nat \ {0}
<1> DEFINE q == a \div b
           p == q \div c
           s == q % c
           d == a % b
<1>1. q \in Nat /\ d \in 0 .. b - 1 /\ a = b * q + d
  BY Division
<1>2. p \in Nat /\ s \in 0 .. c - 1 /\ q = c * p + s
  BY <1>1, Division
<1> HIDE DEF q, p, s, d
<1>3. b * c \in Nat \ {0}
  OBVIOUS
<1>4. a = (b * c) * p + (b * s + d)
  <2>1. b * (c * p + s) = (b * c) * p + b * s
    BY <1>2
  <2>2. QED BY <1>1, <1>2, <2>1
<1>5. b * s + d \in 0 .. b * c - 1
  <2>1. b * s <= b * (c - 1)
    BY <1>2
  <2>2. b * (c - 1) = b * c - b
    OBVIOUS
  <2>3. b * s \in Nat
    BY <1>2
  <2>4. QED BY <1>1, <1>3, <2>1, <2>2, <2>3
<1>6. a \div (b * c) = p
  BY <1>2, <1>3, <1>4, <1>5, DivisionUnique
<1>7. QED
  BY <1>3, <1>6 DEF p, q

(* The next number is in the next block of b, or in the same one.           *)
LEMMA NextBlock ==
  ASSUME NEW a \in Nat, NEW b \in Nat \ {0}, (a + 1) % b = 0
  PROVE  (a + 1) \div b = (a \div b) + 1 /\ a % b = b - 1
OBVIOUS

LEMMA SameBlock ==
  ASSUME NEW a \in Nat, NEW b \in Nat \ {0}, (a + 1) % b # 0
  PROVE  (a + 1) \div b = a \div b /\ (a + 1) % b = (a % b) + 1
OBVIOUS

LEMMA LessByFactor ==
  ASSUME NEW b \in Nat \ {0}, NEW q \in Nat, NEW p \in Nat, b * q < b * p
  PROVE  q < p
OBVIOUS

-----------------------------------------------------------------------------
(* The recursion of Span has a solution.                                    *)
LEMMA SpanDefinition ==
  Span = [l \in 0 .. LevelCount |-> IF l = 0 THEN LeastValue ELSE Span[l - 1] * LevelValue]
<1> DEFINE Is(f, n) == f = [l \in 0 .. n |-> IF l = 0 THEN LeastValue ELSE f[l - 1] * LevelValue]
           S == {n \in Nat : \E f : Is(f, n)}
<1>1. 0 \in S
  <2>1. Is([l \in 0 .. 0 |-> LeastValue], 0)
    OBVIOUS
  <2>2. QED BY <2>1
<1>2. ASSUME NEW n \in Nat, n \in S PROVE n + 1 \in S
  <2>1. PICK f : Is(f, n)
    BY <1>2
  <2> DEFINE g == [l \in 0 .. n + 1 |-> IF l = n + 1 THEN f[n] * LevelValue ELSE f[l]]
  <2>2. Is(g, n + 1)
    BY <2>1
  <2>3. \E h : Is(h, n + 1)
    <3> HIDE DEF Is, g
    <3>1. QED BY <2>2
  <2>4. QED BY <2>3
<1>3. \E f : Is(f, LevelCount)
  <2> HIDE DEF S
  <2>1. LevelCount \in S
    BY TimerAssumption, <1>1, <1>2, UpTo
  <2>2. QED BY <2>1 DEF S
<1>4. QED
  BY <1>3 DEF Span

LEMMA SpanValues ==
  /\ Span[0] = LeastValue
  /\ \A l \in 0 .. LevelCount : Span[l] \in Nat \ {0}
  /\ \A l \in Levels : Span[l + 1] = Span[l] * LevelValue
<1>1. Span[0] = LeastValue
  BY SpanDefinition, TimerAssumption
<1>2. \A l \in Levels : Span[l + 1] = Span[l] * LevelValue
  <2> TAKE l \in Levels
  <2>1. l + 1 \in 0 .. LevelCount /\ l + 1 # 0 /\ (l + 1) - 1 = l
    BY TimerAssumption DEF Levels
  <2>2. QED BY <2>1, SpanDefinition
<1> DEFINE S == {l \in 0 .. LevelCount : Span[l] \in Nat \ {0}}
<1>3. 0 \in S
  BY <1>1, TimerAssumption
<1>4. \A l \in 0 .. LevelCount - 1 : l \in S => l + 1 \in S
  <2> TAKE l \in 0 .. LevelCount - 1
  <2> HAVE l \in S
  <2>1. Span[l + 1] = Span[l] * LevelValue /\ Span[l] \in Nat \ {0}
    BY <1>2 DEF Levels
  <2>2. Span[l + 1] \in Nat \ {0}
    BY <2>1, TimerAssumption
  <2>3. QED BY <2>2, TimerAssumption
<1>5. \A l \in 0 .. LevelCount : l \in S
  <2> HIDE DEF S
  <2>1. QED BY <1>3, <1>4, TimerAssumption, UpTo
<1>6. QED
  BY <1>1, <1>2, <1>5

LEMMA Sizes ==
  /\ LeastValue \in Nat \ {0} /\ LevelValue \in Nat \ {0} /\ LevelCount \in Nat
  /\ Range64 \in Nat /\ Range64 = Span[LevelCount]
  /\ \A n \in Nodes : n.expire \in Nat /\ n.expire < Range64
<1>1. LeastValue \in Nat \ {0} /\ LevelValue \in Nat \ {0} /\ LevelCount \in Nat
  BY TimerAssumption
<1>2. Range64 \in Nat /\ Range64 = Span[LevelCount]
  BY <1>1, SpanValues DEF Range64
<1>3. \A n \in Nodes : n.expire \in Nat /\ n.expire < Range64
  BY <1>2 DEF Nodes
<1>4. QED
  BY <1>1, <1>2, <1>3

(* The block of level l that t is in: t without its digits below l.         *)
Block(t, l) == t \div Span[l]

LEMMA Blocks ==
  ASSUME NEW t \in Nat
  PROVE  /\ Block(t, 0) = t \div LeastValue
         /\ \A l \in 0 .. LevelCount : Block(t, l) \in Nat
         /\ \A l \in Levels : /\ Block(t, l + 1) = Block(t, l) \div LevelValue
                              /\ Digit(t, l) = Block(t, l) % LevelValue
                              /\ Digit(t, l) \in 0 .. LevelValue - 1
         /\ t < Range64 => Block(t, LevelCount) = 0
<1>1. Block(t, 0) = t \div LeastValue
  BY SpanValues DEF Block
<1>2. \A l \in 0 .. LevelCount : Block(t, l) \in Nat
  BY SpanValues, Division DEF Block
<1>3. ASSUME NEW l \in Levels
      PROVE  /\ Block(t, l + 1) = Block(t, l) \div LevelValue
             /\ Digit(t, l) = Block(t, l) % LevelValue
             /\ Digit(t, l) \in 0 .. LevelValue - 1
  <2>1. Span[l] \in Nat \ {0} /\ Span[l + 1] = Span[l] * LevelValue /\ LevelValue \in Nat \ {0}
    BY SpanValues, TimerAssumption DEF Levels
  <2>2. Block(t, l + 1) = Block(t, l) \div LevelValue
    BY <2>1, DivisionTwice DEF Block
  <2>3. Digit(t, l) = Block(t, l) % LevelValue
    BY DEF Digit, Block
  <2>4. Block(t, l) \in Nat
    BY <1>2, TimerAssumption DEF Levels
  <2>5. QED BY <2>1, <2>2, <2>3, <2>4, Division
<1>4. ASSUME t < Range64 PROVE Block(t, LevelCount) = 0
  <2>1. Range64 \in Nat \ {0} /\ Range64 = Span[LevelCount]
    BY SpanValues, TimerAssumption DEF Range64
  <2>2. t = Range64 * 0 + t
    BY <2>1
  <2>3. QED BY <1>4, <2>1, <2>2, DivisionUnique DEF Block
<1>5. QED
  BY <1>1, <1>2, <1>3, <1>4

LEMMA BlockMonotone ==
  ASSUME NEW t \in Nat, NEW e \in Nat, t <= e, NEW l \in 0 .. LevelCount
  PROVE  Block(t, l) <= Block(e, l)
BY SpanValues, DivisionMonotone DEF Block

(* Two times agree at l if they are in one block of the level above.        *)
LEMMA AgreeBlocks ==
  ASSUME NEW t, NEW e, NEW l
  PROVE  Agree(e, t, l) <=> Block(e, l + 1) = Block(t, l + 1)
BY DEF Agree, Block

(* In one block of the level above, a later block has a greater digit.      *)
LEMMA LaterDigit ==
  ASSUME NEW t \in Nat, NEW e \in Nat, NEW l \in Levels, Agree(e, t, l)
  PROVE  Block(t, l) < Block(e, l) <=> Digit(t, l) < Digit(e, l)
<1>1. Block(t, l) \in Nat /\ Block(e, l) \in Nat /\ LevelValue \in Nat \ {0}
  BY Blocks, TimerAssumption DEF Levels
<1>2. /\ Block(t, l) = LevelValue * Block(t, l + 1) + Digit(t, l)
      /\ Block(e, l) = LevelValue * Block(e, l + 1) + Digit(e, l)
  <2>1. \A q \in Nat : q = LevelValue * (q \div LevelValue) + (q % LevelValue)
    BY <1>1, Division
  <2>2. QED BY <1>1, <2>1, Blocks
<1>3. Block(t, l + 1) = Block(e, l + 1) /\ Block(t, l + 1) \in Nat
  BY Blocks, AgreeBlocks, TimerAssumption DEF Levels
<1>4. LevelValue * Block(t, l + 1) \in Nat /\ Digit(t, l) \in Nat /\ Digit(e, l) \in Nat
  BY <1>1, <1>3, Blocks
<1>5. QED
  BY <1>2, <1>3, <1>4

(* A tick that stays in its block of LeastValue ticks stays in all blocks.  *)
LEMMA TickStays ==
  ASSUME NEW t \in Nat, (t + 1) % LeastValue # 0
  PROVE  \A l \in 0 .. LevelCount : Block(t + 1, l) = Block(t, l)
<1> DEFINE S == {l \in 0 .. LevelCount : Block(t + 1, l) = Block(t, l)}
<1>1. 0 \in S
  <2>1. (t + 1) \div LeastValue = t \div LeastValue
    BY SameBlock, TimerAssumption
  <2>2. t + 1 \in Nat /\ 0 \in 0 .. LevelCount
    BY TimerAssumption
  <2>3. Block(t + 1, 0) = Block(t, 0)
    BY <2>1, <2>2, Blocks
  <2>4. QED BY <2>2, <2>3
<1>2. \A l \in 0 .. LevelCount - 1 : l \in S => l + 1 \in S
  BY Blocks, TimerAssumption DEF Levels
<1>3. \A l \in 0 .. LevelCount : l \in S
  <2> HIDE DEF S
  <2>1. QED BY <1>1, <1>2, UpTo, TimerAssumption
<1>4. QED
  BY <1>3

(* Otherwise it enters the next block of each level up to the lowest one    *)
(* with a digit that is not zero, and stays in the blocks above.            *)
LEMMA TickEnters ==
  ASSUME NEW t \in Nat, t + 1 < Range64, (t + 1) % LeastValue = 0
  PROVE  /\ Entered(t + 1) \in Levels
         /\ Digit(t + 1, Entered(t + 1)) # 0
         /\ Digit(t + 1, Entered(t + 1)) = Digit(t, Entered(t + 1)) + 1
         /\ \A l \in 0 .. Entered(t + 1) : Block(t + 1, l) = Block(t, l) + 1
         /\ \A l \in Levels : l < Entered(t + 1) => Digit(t, l) = LevelValue - 1
         /\ \A l \in 0 .. LevelCount : l > Entered(t + 1) => Block(t + 1, l) = Block(t, l)
<1> DEFINE L == {l \in Levels : Digit(t + 1, l) # 0}
<1>1. ASSUME NEW n \in 0 .. LevelCount, \A l \in 0 .. n - 1 : Digit(t + 1, l) = 0
      PROVE  /\ \A l \in 0 .. n : Block(t + 1, l) = Block(t, l) + 1
             /\ \A l \in 0 .. n - 1 : Digit(t, l) = LevelValue - 1
  <2> DEFINE S == {l \in 0 .. n : Block(t + 1, l) = Block(t, l) + 1}
  <2>1. 0 \in S
    <3>1. (t + 1) \div LeastValue = (t \div LeastValue) + 1
      BY NextBlock, TimerAssumption
    <3>2. t + 1 \in Nat /\ 0 \in 0 .. n
      BY <1>1
    <3>3. Block(t + 1, 0) = Block(t, 0) + 1
      BY <3>1, <3>2, Blocks
    <3>4. QED BY <3>2, <3>3
  <2>2. ASSUME NEW l \in 0 .. n - 1, Block(t + 1, l) = Block(t, l) + 1
        PROVE  Block(t + 1, l + 1) = Block(t, l + 1) + 1 /\ Digit(t, l) = LevelValue - 1
    <3>0. l \in Levels /\ l \in 0 .. LevelCount /\ LevelValue \in Nat \ {0} /\ t + 1 \in Nat
      BY TimerAssumption DEF Levels
    <3>1. Block(t, l) \in Nat
      BY <3>0, Blocks
    <3>2. (Block(t, l) + 1) % LevelValue = 0
      BY <1>1, <2>2, <3>0, Blocks
    <3>3. /\ (Block(t, l) + 1) \div LevelValue = (Block(t, l) \div LevelValue) + 1
          /\ Block(t, l) % LevelValue = LevelValue - 1
      BY <3>0, <3>1, <3>2, NextBlock
    <3>4. QED BY <2>2, <3>0, <3>3, Blocks
  <2>3. \A l \in 0 .. n : l \in S
    <3>1. \A l \in 0 .. n - 1 : l \in S => l + 1 \in S
      BY <2>2
    <3> HIDE DEF S
    <3>2. QED BY <2>1, <3>1, UpTo
  <2>4. QED
    BY <2>2, <2>3
<1>2. L # {}
  <2>1. SUFFICES ASSUME \A l \in 0 .. LevelCount - 1 : Digit(t + 1, l) = 0 PROVE FALSE
    BY DEF Levels
  <2>2. Block(t + 1, LevelCount) = Block(t, LevelCount) + 1
    BY <1>1, <2>1, TimerAssumption
  <2>3. Block(t + 1, LevelCount) = 0 /\ Block(t, LevelCount) \in Nat
    BY Blocks, TimerAssumption
  <2>4. QED BY <2>2, <2>3
<1>3. PICK m \in L : \A k \in L : ~(k < m)
  <2>1. L \subseteq Nat
    BY DEF Levels
  <2> HIDE DEF L
  <2>2. QED BY <1>2, <2>1, LeastOf
<1>4. /\ m \in Levels /\ Digit(t + 1, m) # 0
      /\ \A k \in Levels : k < m => Digit(t + 1, k) = 0
  BY <1>3
<1>5. Entered(t + 1) = m
  <2>1. \A l \in Levels : l = m \/ l < m \/ m < l
    BY <1>4 DEF Levels
  <2>2. QED BY <1>4, <2>1 DEF Entered
<1>6. /\ \A l \in 0 .. m : Block(t + 1, l) = Block(t, l) + 1
      /\ \A l \in 0 .. m - 1 : Digit(t, l) = LevelValue - 1
  <2>1. m \in 0 .. LevelCount /\ \A l \in 0 .. m - 1 : Digit(t + 1, l) = 0
    BY <1>4, TimerAssumption DEF Levels
  <2>2. QED BY <1>1, <2>1
<1>7. Block(t + 1, m + 1) = Block(t, m + 1) /\ Digit(t + 1, m) = Digit(t, m) + 1
  <2>1. m \in 0 .. LevelCount /\ m \in 0 .. m /\ LevelValue \in Nat \ {0} /\ t + 1 \in Nat
    BY <1>4, TimerAssumption DEF Levels
  <2>2. Block(t, m) \in Nat /\ Block(t + 1, m) = Block(t, m) + 1
    BY <1>6, <2>1, Blocks
  <2>3. (Block(t, m) + 1) % LevelValue # 0
    BY <1>4, <2>1, <2>2, Blocks
  <2>4. /\ (Block(t, m) + 1) \div LevelValue = Block(t, m) \div LevelValue
        /\ (Block(t, m) + 1) % LevelValue = (Block(t, m) % LevelValue) + 1
    BY <2>1, <2>2, <2>3, SameBlock
  <2>5. QED BY <1>4, <2>1, <2>2, <2>4, Blocks
<1>8. \A l \in 0 .. LevelCount : l > m => Block(t + 1, l) = Block(t, l)
  <2> DEFINE S == {l \in 0 .. LevelCount : l > m => Block(t + 1, l) = Block(t, l)}
  <2>1. 0 \in S
    BY <1>4, TimerAssumption DEF Levels
  <2>2. \A l \in 0 .. LevelCount - 1 : l \in S => l + 1 \in S
    <3> TAKE l \in 0 .. LevelCount - 1
    <3> HAVE l \in S
    <3>1. CASE l > m
      BY <3>1, Blocks, TimerAssumption DEF Levels
    <3>2. CASE l = m
      BY <3>2, <1>7, TimerAssumption
    <3>3. CASE l < m
      BY <3>3, <1>4, TimerAssumption DEF Levels
    <3>4. QED BY <1>4, <3>1, <3>2, <3>3 DEF Levels
  <2>3. \A l \in 0 .. LevelCount : l \in S
    <3> HIDE DEF S
    <3>1. QED BY <2>1, <2>2, UpTo, TimerAssumption
  <2>4. QED BY <2>3
<1>9. \A l \in Levels : l < m => Digit(t, l) = LevelValue - 1
  BY <1>4, <1>6 DEF Levels
<1>10. QED
  BY <1>4, <1>5, <1>6, <1>7, <1>8, <1>9

-----------------------------------------------------------------------------
(* InPlace and pending as they are of any lists and any clock.              *)
Placed(lists, levels, t) ==
  /\ lists \in [0 .. LeastValue - 1 -> SUBSET Nodes]
  /\ levels \in [Levels -> [Digits -> SUBSET Nodes]]
  /\ \A i \in 0 .. LeastValue - 1 : \A n \in lists[i] :
       n.expire % LeastValue = i /\ n.expire \in t .. t + LeastValue - 1
  /\ \A l \in Levels, v \in Digits : \A n \in levels[l][v] :
       Agree(n.expire, t, l) /\ Digit(n.expire, l) = v /\ Digit(t, l) < v

Within(lists, levels) == (UNION {lists[i] : i \in 0 .. LeastValue - 1})
                         \cup (UNION {levels[l][v] : l \in Levels, v \in Digits})

LEMMA WithinEach ==
  ASSUME NEW lists, NEW levels, NEW n
  PROVE  n \in Within(lists, levels) <=> \/ \E i \in 0 .. LeastValue - 1 : n \in lists[i]
                                         \/ \E l \in Levels, v \in Digits : n \in levels[l][v]
BY DEF Within

LEMMA InPlaceIsPlaced ==
  /\ InPlace <=> Placed(least, level, time)
  /\ InPlace => pending = Within(least, level)
<1>1. InPlace => DOMAIN least = 0 .. LeastValue - 1
  BY DEF InPlace
<1>2. InPlace <=> Placed(least, level, time)
  BY <1>1 DEF InPlace, Placed
<1>3. ASSUME DOMAIN least = 0 .. LeastValue - 1 PROVE pending = Within(least, level)
  <2>1. ASSUME NEW n PROVE n \in pending <=> n \in Within(least, level)
    <3>1. n \in pending <=> \/ \E i \in DOMAIN least : n \in least[i]
                            \/ \E l \in Levels, v \in Digits : n \in level[l][v]
      BY DEF pending
    <3>2. QED BY <1>3, <3>1, WithinEach
  <2>2. QED BY <2>1
<1>4. QED
  BY <1>1, <1>2, <1>3

LEMMA PlacedIsInPlaceNext ==
  ASSUME Placed(least', level', time')
  PROVE  InPlace' /\ pending' = Within(least', level')
<1>1. DOMAIN least' = 0 .. LeastValue - 1
  BY DEF Placed
<1>2. InPlace'
  BY <1>1 DEF InPlace, Placed
<1>3. ASSUME NEW n PROVE n \in pending' <=> n \in Within(least', level')
  <2>1. n \in pending' <=> \/ \E i \in DOMAIN least' : n \in least'[i]
                           \/ \E l \in Levels, v \in Digits : n \in level'[l][v]
    BY DEF pending
  <2>2. QED BY <1>1, <2>1, WithinEach
<1>4. QED
  BY <1>2, <1>3

(* Nothing that is placed is overdue.                                       *)
LEMMA PlacedAhead ==
  ASSUME NEW t \in Nat, NEW lists, NEW levels, Placed(lists, levels, t)
  PROVE  /\ \A i \in 0 .. LeastValue - 1 : \A n \in lists[i] : n.expire >= t
         /\ \A l \in Levels, v \in Digits : \A n \in levels[l][v] :
              n.expire > t /\ Block(t, l) < Block(n.expire, l)
<1>1. ASSUME NEW l \in Levels, NEW v \in Digits, NEW n \in levels[l][v]
      PROVE  n.expire > t /\ Block(t, l) < Block(n.expire, l)
  <2>1. n.expire \in Nat /\ Agree(n.expire, t, l) /\ Digit(t, l) < Digit(n.expire, l)
    <3>1. n \in Nodes
      BY DEF Placed
    <3>2. QED BY <3>1, Sizes DEF Placed
  <2>2. Block(t, l) < Block(n.expire, l)
    BY <2>1, LaterDigit
  <2>3. Block(t, l) \in Nat /\ Block(n.expire, l) \in Nat /\ l \in 0 .. LevelCount
    <3>1. l \in 0 .. LevelCount
      BY TimerAssumption DEF Levels
    <3>2. QED BY <2>1, <3>1, Blocks
  <2>4. ~(n.expire <= t)
    BY <2>1, <2>2, <2>3, BlockMonotone
  <2>5. QED BY <2>1, <2>2, <2>4
<1>2. QED
  BY <1>1 DEF Placed

(* _queue finds a level for a node that is not near.                        *)
LEMMA LevelFound ==
  ASSUME NEW t \in Nat, t < Range64, NEW n \in Nodes, n.expire >= t, ~Near(t, n)
  PROVE  /\ LevelOf(t, n) \in Levels
         /\ Agree(n.expire, t, LevelOf(t, n))
         /\ Digit(t, LevelOf(t, n)) < Digit(n.expire, LevelOf(t, n))
         /\ Digit(n.expire, LevelOf(t, n)) \in Digits
<1> DEFINE e == n.expire
           A == {l \in Levels : Agree(e, t, l)}
<1>1. e \in Nat /\ e < Range64 /\ Range64 \in Nat /\ LeastValue \in Nat \ {0}
  BY Sizes
<1> HIDE DEF e
<1>2. LevelCount - 1 \in A
  <2>1. LevelCount - 1 \in Levels /\ (LevelCount - 1) + 1 = LevelCount
    BY TimerAssumption DEF Levels
  <2>2. Block(e, LevelCount) = Block(t, LevelCount)
    BY <1>1, Blocks
  <2>3. QED BY <2>1, <2>2, AgreeBlocks
<1>3. PICK m \in A : \A k \in A : ~(k < m)
  <2>1. A \subseteq Nat /\ A # {}
    BY <1>2 DEF Levels
  <2> HIDE DEF A
  <2>2. QED BY <2>1, LeastOf
<1>4. m \in Levels /\ Agree(e, t, m) /\ \A k \in Levels : k < m => ~Agree(e, t, k)
  BY <1>3
<1>5. LevelOf(t, n) = m
  <2>1. \A l \in Levels : l = m \/ l < m \/ m < l
    BY <1>4 DEF Levels
  <2>2. QED BY <1>4, <2>1 DEF LevelOf, e
<1>6. Block(t, m) < Block(e, m)
  <2>1. Block(t, m) \in Nat /\ Block(e, m) \in Nat /\ Block(t, m) <= Block(e, m)
    <3>1. m \in 0 .. LevelCount
      BY <1>4, TimerAssumption DEF Levels
    <3>2. QED BY <1>1, <3>1, Blocks, BlockMonotone DEF e
  <2>2. CASE m = 0
    <3>1. /\ t = LeastValue * Block(t, 0) + (t % LeastValue) /\ t % LeastValue \in 0 .. LeastValue - 1
          /\ e = LeastValue * Block(e, 0) + (e % LeastValue) /\ e % LeastValue \in 0 .. LeastValue - 1
      BY <1>1, Blocks, Division
    <3>2. e - t >= LeastValue
      BY <1>1 DEF Near, e
    <3>3. CASE Block(t, 0) = Block(e, 0)
      <4>1. LeastValue * Block(e, 0) \in Nat
        BY <1>1, <2>1, <2>2
      <4>2. QED BY <1>1, <3>1, <3>2, <3>3, <4>1
    <3>4. QED BY <2>1, <2>2, <3>3
  <2>3. CASE m # 0
    <3>1. m - 1 \in Levels /\ m - 1 < m /\ (m - 1) + 1 = m
      BY <1>4, <2>3, TimerAssumption DEF Levels
    <3>2. Block(e, m) # Block(t, m)
      BY <1>4, <3>1, AgreeBlocks
    <3>3. QED BY <2>1, <3>2
  <2>4. QED BY <2>2, <2>3
<1>7. Digit(t, m) < Digit(e, m)
  BY <1>1, <1>4, <1>6, LaterDigit
<1>8. Digit(e, m) \in Digits
  <2>1. Digit(t, m) \in 0 .. LevelValue - 1 /\ Digit(e, m) \in 0 .. LevelValue - 1
    BY <1>1, <1>4, Blocks
  <2>2. QED BY <1>7, <2>1, Sizes DEF Digits
<1>9. QED
  BY <1>4, <1>5, <1>7, <1>8 DEF e

(* _queue puts each node where it belongs and leaves the others there.      *)
LEMMA QueueKeeps ==
  ASSUME NEW t \in Nat, t < Range64, NEW lists, NEW levels, Placed(lists, levels, t),
         NEW ns \in SUBSET Nodes, \A n \in ns : n.expire >= t
  PROVE  /\ Placed(LeastWith(lists, t, ns), LevelWith(levels, t, ns), t)
         /\ Within(LeastWith(lists, t, ns), LevelWith(levels, t, ns))
              = Within(lists, levels) \cup ns
<1> DEFINE P == LeastWith(lists, t, ns)
           Q == LevelWith(levels, t, ns)
<1>1. /\ LeastValue \in Nat \ {0} /\ DOMAIN lists = 0 .. LeastValue - 1
      /\ \A n \in Nodes : n.expire \in Nat
  BY Sizes DEF Placed
<1>2. /\ P \in [0 .. LeastValue - 1 -> SUBSET Nodes]
      /\ \A i \in 0 .. LeastValue - 1 :
           P[i] = lists[i] \cup {n \in ns : Near(t, n) /\ n.expire % LeastValue = i}
  BY <1>1 DEF LeastWith, Placed
<1>3. /\ Q \in [Levels -> [Digits -> SUBSET Nodes]]
      /\ \A l \in Levels, v \in Digits : Q[l][v] = levels[l][v] \cup {n \in ns : Goes(t, n, l, v)}
  BY DEF LevelWith, Placed
<1> HIDE DEF P, Q
<1>4. ASSUME NEW n \in ns, Near(t, n)
      PROVE  /\ n.expire \in t .. t + LeastValue - 1
             /\ n.expire % LeastValue \in 0 .. LeastValue - 1
  <2>1. n.expire \in Nat /\ n.expire >= t
    BY <1>1
  <2>2. n.expire % LeastValue \in 0 .. LeastValue - 1
    BY <1>1, <2>1, Division
  <2>3. QED BY <1>1, <1>4, <2>1, <2>2 DEF Near
<1>5. ASSUME NEW n \in ns, ~Near(t, n)
      PROVE  \E l \in Levels, v \in Digits : Goes(t, n, l, v)
  BY <1>5, LevelFound DEF Goes
<1>6. ASSUME NEW n \in ns, NEW l \in Levels, NEW v \in Digits, Goes(t, n, l, v)
      PROVE  Agree(n.expire, t, l) /\ Digit(n.expire, l) = v /\ Digit(t, l) < v
  BY <1>6, LevelFound DEF Goes
<1>7. Placed(P, Q, t)
  <2>1. ASSUME NEW i \in 0 .. LeastValue - 1, NEW n \in P[i]
        PROVE  n.expire % LeastValue = i /\ n.expire \in t .. t + LeastValue - 1
    BY <1>2, <1>4 DEF Placed
  <2>2. ASSUME NEW l \in Levels, NEW v \in Digits, NEW n \in Q[l][v]
        PROVE  Agree(n.expire, t, l) /\ Digit(n.expire, l) = v /\ Digit(t, l) < v
    BY <1>3, <1>6 DEF Placed
  <2>3. QED BY <1>2, <1>3, <2>1, <2>2 DEF Placed
<1>8. ASSUME NEW n PROVE n \in Within(P, Q) <=> n \in Within(lists, levels) \cup ns
  <2>1. CASE n \in ns
    <3>1. CASE Near(t, n)
      BY <1>2, <1>4, <2>1, <3>1, WithinEach
    <3>2. CASE ~Near(t, n)
      BY <1>3, <1>5, <2>1, <3>2, WithinEach
    <3>3. QED BY <2>1, <3>1, <3>2
  <2>2. CASE n \notin ns
    <3>1. \A i \in 0 .. LeastValue - 1 : n \in P[i] <=> n \in lists[i]
      BY <1>2, <2>2
    <3>2. \A l \in Levels, v \in Digits : n \in Q[l][v] <=> n \in levels[l][v]
      BY <1>3, <2>2
    <3>3. QED BY <2>2, <3>1, <3>2, WithinEach
  <2>3. QED BY <2>1, <2>2
<1>9. QED
  BY <1>7, <1>8 DEF P, Q

(* The list that a tick sends holds what expires at this tick, and only     *)
(* that list does.                                                          *)
LEMMA SentExpires ==
  ASSUME NEW t \in Nat, NEW lists, NEW levels, Placed(lists, levels, t)
  PROVE  /\ t % LeastValue \in 0 .. LeastValue - 1
         /\ \A n : n \in lists[t % LeastValue] <=> n \in Within(lists, levels) /\ n.expire = t
<1> DEFINE j == t % LeastValue
<1>1. LeastValue \in Nat \ {0} /\ j \in 0 .. LeastValue - 1 /\ t = LeastValue * (t \div LeastValue) + j
  BY Sizes, Division
<1>2. ASSUME NEW n \in lists[j] PROVE n.expire = t
  <2> DEFINE e == n.expire
  <2>1. e % LeastValue = j /\ e \in t .. t + LeastValue - 1 /\ e \in Nat
    BY <1>1, <1>2, Sizes DEF Placed
  <2>2. e = LeastValue * (e \div LeastValue) + j /\ e \div LeastValue \in Nat /\ t \div LeastValue \in Nat
    BY <1>1, <2>1, Division
  <2> HIDE DEF e, j
  <2>3. LeastValue * (e \div LeastValue) < LeastValue * (t \div LeastValue) + LeastValue
    <3>1. LeastValue * (e \div LeastValue) \in Nat /\ LeastValue * (t \div LeastValue) \in Nat
      BY <1>1, <2>2
    <3>2. QED BY <1>1, <2>1, <2>2, <3>1
  <2>4. LeastValue * (t \div LeastValue) + LeastValue = LeastValue * ((t \div LeastValue) + 1)
    BY <1>1, <2>2
  <2>5. e \div LeastValue < (t \div LeastValue) + 1
    BY <1>1, <2>2, <2>3, <2>4, LessByFactor
  <2>6. t \div LeastValue <= e \div LeastValue
    BY <1>1, <2>1, DivisionMonotone
  <2>7. e \div LeastValue = t \div LeastValue
    BY <2>2, <2>5, <2>6
  <2>8. QED BY <1>1, <2>2, <2>7 DEF e
<1>3. ASSUME NEW n \in Within(lists, levels), n.expire = t PROVE n \in lists[j]
  <2>1. ASSUME NEW i \in 0 .. LeastValue - 1, n \in lists[i] PROVE i = j
    BY <1>3, <2>1 DEF Placed
  <2>2. ASSUME NEW l \in Levels, NEW v \in Digits, n \in levels[l][v] PROVE FALSE
    BY <1>3, <2>2, PlacedAhead
  <2>3. QED BY <2>1, <2>2, WithinEach
<1>4. QED
  BY <1>1, <1>2, <1>3, WithinEach

(* The lists of single ticks without the one that is sent at t.             *)
Sending(lists, t) == [lists EXCEPT ![t % LeastValue] = {}]

(* Once it is sent, the clock may go on as far as the lists of single ticks *)
(* are concerned.                                                           *)
LEMMA SentAhead ==
  ASSUME NEW t \in Nat, NEW lists, NEW levels, Placed(lists, levels, t)
  PROVE  /\ Sending(lists, t) \in [0 .. LeastValue - 1 -> SUBSET Nodes]
         /\ \A i \in 0 .. LeastValue - 1 : \A n \in Sending(lists, t)[i] :
              n.expire % LeastValue = i /\ n.expire \in t + 1 .. (t + 1) + LeastValue - 1
         /\ \A n : (\E i \in 0 .. LeastValue - 1 : n \in Sending(lists, t)[i])
                     <=> (\E i \in 0 .. LeastValue - 1 : n \in lists[i])
                           /\ n \notin lists[t % LeastValue]
<1>1. /\ LeastValue \in Nat \ {0} /\ lists \in [0 .. LeastValue - 1 -> SUBSET Nodes]
      /\ t % LeastValue \in 0 .. LeastValue - 1
  BY Sizes, SentExpires DEF Placed
<1>2. /\ Sending(lists, t) \in [0 .. LeastValue - 1 -> SUBSET Nodes]
      /\ \A i \in 0 .. LeastValue - 1 :
           Sending(lists, t)[i] = IF i = t % LeastValue THEN {} ELSE lists[i]
  BY <1>1 DEF Sending
<1>3. ASSUME NEW i \in 0 .. LeastValue - 1, NEW n \in Sending(lists, t)[i]
      PROVE  /\ n.expire % LeastValue = i /\ n.expire \in t + 1 .. (t + 1) + LeastValue - 1
             /\ n \in lists[i] /\ n \notin lists[t % LeastValue]
  <2>1. i # t % LeastValue /\ n \in lists[i]
    BY <1>2, <1>3
  <2>2. n.expire % LeastValue = i /\ n.expire \in t .. t + LeastValue - 1
    BY <2>1 DEF Placed
  <2>3. n.expire # t
    BY <2>1, <2>2
  <2>4. n \notin lists[t % LeastValue]
    BY <2>3, SentExpires
  <2>5. QED BY <1>1, <2>1, <2>2, <2>3, <2>4
<1>4. QED
  BY <1>2, <1>3

(* A tick inside a block of LeastValue ticks.                               *)
LEMMA TickKeeps ==
  ASSUME NEW t \in Nat, NEW lists, NEW levels, Placed(lists, levels, t),
         (t + 1) % LeastValue # 0
  PROVE  /\ Placed(Sending(lists, t), levels, t + 1)
         /\ Within(Sending(lists, t), levels) = Within(lists, levels) \ lists[t % LeastValue]
<1>1. ASSUME NEW l \in Levels, NEW v \in Digits, NEW n \in levels[l][v]
      PROVE  /\ Agree(n.expire, t + 1, l) /\ Digit(n.expire, l) = v /\ Digit(t + 1, l) < v
             /\ n \notin lists[t % LeastValue]
  <2>1. Agree(n.expire, t, l) /\ Digit(n.expire, l) = v /\ Digit(t, l) < v
    BY DEF Placed
  <2>2. l \in 0 .. LevelCount /\ l + 1 \in 0 .. LevelCount /\ t + 1 \in Nat
    BY TimerAssumption DEF Levels
  <2>3. Block(t + 1, l) = Block(t, l) /\ Block(t + 1, l + 1) = Block(t, l + 1)
    BY <2>2, TickStays
  <2>4. Digit(t + 1, l) = Digit(t, l)
    BY <2>2, <2>3, Blocks
  <2>5. n.expire # t
    BY PlacedAhead
  <2>6. QED BY <2>1, <2>3, <2>4, <2>5, AgreeBlocks, SentExpires
<1>2. Placed(Sending(lists, t), levels, t + 1)
  BY <1>1, SentAhead DEF Placed
<1>3. ASSUME NEW n
      PROVE  n \in Within(Sending(lists, t), levels) <=> n \in Within(lists, levels) \ lists[t % LeastValue]
  <2>1. /\ n \in Within(Sending(lists, t), levels) <=> \/ \E i \in 0 .. LeastValue - 1 : n \in Sending(lists, t)[i]
                                             \/ \E l \in Levels, v \in Digits : n \in levels[l][v]
        /\ n \in Within(lists, levels) <=> \/ \E i \in 0 .. LeastValue - 1 : n \in lists[i]
                                           \/ \E l \in Levels, v \in Digits : n \in levels[l][v]
    BY WithinEach
  <2>2. (\E i \in 0 .. LeastValue - 1 : n \in Sending(lists, t)[i])
          <=> (\E i \in 0 .. LeastValue - 1 : n \in lists[i]) /\ n \notin lists[t % LeastValue]
    BY SentAhead
  <2>3. (\E l \in Levels, v \in Digits : n \in levels[l][v]) => n \notin lists[t % LeastValue]
    BY <1>1
  <2>4. QED BY <2>1, <2>2, <2>3
<1>4. QED
  BY <1>2, <1>3

(* The list that the clock enters at t, and the others.                     *)
Down(levels, t) == levels[Entered(t)][Digit(t, Entered(t))]
Rest(levels, t) == [levels EXCEPT ![Entered(t)][Digit(t, Entered(t))] = {}]

(* A tick into the next block: what it brings down is not overdue, and all  *)
(* else is in its place.                                                    *)
LEMMA CascadeKeeps ==
  ASSUME NEW t \in Nat, NEW lists, NEW levels, Placed(lists, levels, t),
         t + 1 < Range64, (t + 1) % LeastValue = 0
  PROVE  /\ Down(levels, t + 1) \in SUBSET Nodes
         /\ \A n \in Down(levels, t + 1) : n.expire >= t + 1
         /\ Placed(Sending(lists, t), Rest(levels, t + 1), t + 1)
         /\ Within(Sending(lists, t), Rest(levels, t + 1)) \cup Down(levels, t + 1)
              = Within(lists, levels) \ lists[t % LeastValue]
<1>0. /\ Sending(lists, t) \in [0 .. LeastValue - 1 -> SUBSET Nodes]
      /\ \A i \in 0 .. LeastValue - 1 : \A n \in Sending(lists, t)[i] :
           n.expire % LeastValue = i /\ n.expire \in t + 1 .. (t + 1) + LeastValue - 1
      /\ \A n : (\E i \in 0 .. LeastValue - 1 : n \in Sending(lists, t)[i])
                  <=> (\E i \in 0 .. LeastValue - 1 : n \in lists[i])
                        /\ n \notin lists[t % LeastValue]
  BY SentAhead
<1> DEFINE m == Entered(t + 1)
           d == Digit(t + 1, m)
           rest == Rest(levels, t + 1)
<1>1. /\ m \in Levels /\ d = Digit(t + 1, m) /\ d # 0 /\ d = Digit(t, m) + 1
      /\ \A l \in 0 .. m : Block(t + 1, l) = Block(t, l) + 1
      /\ \A l \in Levels : l < m => Digit(t, l) = LevelValue - 1
      /\ \A l \in 0 .. LevelCount : l > m => Block(t + 1, l) = Block(t, l)
  BY TickEnters
<1>2. t + 1 \in Nat /\ m \in Nat /\ LevelValue \in Nat \ {0}
  BY <1>1, TimerAssumption DEF Levels
<1>3. d \in Digits
  <2>1. d \in 0 .. LevelValue - 1
    BY <1>1, <1>2, Blocks
  <2>2. QED BY <1>1, <1>2, <2>1 DEF Digits
<1>4. /\ rest \in [Levels -> [Digits -> SUBSET Nodes]]
      /\ \A l \in Levels, v \in Digits :
           rest[l][v] = IF l = m /\ v = d THEN {} ELSE levels[l][v]
      /\ Down(levels, t + 1) = levels[m][d]
  BY <1>1, <1>3 DEF Placed, Rest, Down
<1> HIDE DEF rest, m, d
<1>5. ASSUME NEW l \in Levels, NEW v \in Digits, NEW n \in levels[l][v]
      PROVE  /\ n.expire >= t + 1 /\ n \notin lists[t % LeastValue]
             /\ l < m => FALSE
             /\ Agree(n.expire, t + 1, l) /\ Digit(n.expire, l) = v
             /\ ~(l = m /\ v = d) => Digit(t + 1, l) < v
  <2>1. /\ Agree(n.expire, t, l) /\ Digit(n.expire, l) = v /\ Digit(t, l) < v
        /\ n.expire \in Nat /\ v \in 1 .. LevelValue - 1
    <3>1. n \in Nodes
      BY DEF Placed
    <3>2. QED BY <3>1, Sizes DEF Placed, Digits
  <2>2. n.expire > t
    BY PlacedAhead
  <2>3. n \notin lists[t % LeastValue]
    BY <2>1, <2>2, SentExpires
  <2>4. l >= m
    BY <1>1, <1>2, <2>1 DEF Levels
  <2>5. Block(t + 1, l + 1) = Block(t, l + 1)
    BY <1>1, <1>2, <2>4, TimerAssumption DEF Levels
  <2>6. Agree(n.expire, t + 1, l)
    BY <2>1, <2>5, AgreeBlocks
  <2>7. CASE l = m
    <3>1. Digit(t, m) \in Nat
      BY <1>1, Blocks
    <3>2. v # d => d < v
      BY <1>1, <2>1, <2>7, <3>1
    <3>3. n.expire >= t + 1 /\ ~(l < m)
      BY <1>2, <2>1, <2>2, <2>7
    <3>4. QED BY <1>1, <2>1, <2>3, <2>6, <2>7, <3>2, <3>3
  <2>8. CASE l > m
    <3>1. l \in 0 .. LevelCount
      BY TimerAssumption DEF Levels
    <3>2. Block(t + 1, l) = Block(t, l)
      BY <1>1, <2>8, <3>1
    <3>3. Digit(t + 1, l) = Digit(t, l)
      BY <1>2, <3>2, Blocks
    <3>4. n.expire >= t + 1 /\ ~(l < m) /\ l # m
      BY <1>2, <2>1, <2>2, <2>8, <3>1
    <3>5. QED BY <2>1, <2>3, <2>6, <3>3, <3>4
  <2>9. QED
    BY <1>2, <2>4, <2>7, <2>8 DEF Levels
<1>6. levels[m][d] \in SUBSET Nodes /\ \A n \in levels[m][d] : n.expire >= t + 1
  BY <1>1, <1>3, <1>5 DEF Placed
<1>7. Placed(Sending(lists, t), rest, t + 1)
  <2>1. ASSUME NEW l \in Levels, NEW v \in Digits, NEW n \in rest[l][v]
        PROVE  n \in levels[l][v] /\ ~(l = m /\ v = d)
    BY <1>4
  <2>2. ASSUME NEW l \in Levels, NEW v \in Digits, NEW n \in rest[l][v]
        PROVE  Agree(n.expire, t + 1, l) /\ Digit(n.expire, l) = v /\ Digit(t + 1, l) < v
    BY <1>5, <2>1
  <2>3. QED BY <1>0, <1>4, <2>2 DEF Placed
<1>8. ASSUME NEW n
      PROVE  n \in Within(Sending(lists, t), rest) \cup levels[m][d]
               <=> n \in Within(lists, levels) \ lists[t % LeastValue]
  <2>1. (\E l \in Levels, v \in Digits : n \in levels[l][v])
          <=> (\E l \in Levels, v \in Digits : n \in rest[l][v]) \/ n \in levels[m][d]
    BY <1>1, <1>3, <1>4
  <2>2. (\E l \in Levels, v \in Digits : n \in levels[l][v]) => n \notin lists[t % LeastValue]
    BY <1>5
  <2>3. /\ n \in Within(Sending(lists, t), rest) <=> \/ \E i \in 0 .. LeastValue - 1 : n \in Sending(lists, t)[i]
                                           \/ \E l \in Levels, v \in Digits : n \in rest[l][v]
        /\ n \in Within(lists, levels) <=> \/ \E i \in 0 .. LeastValue - 1 : n \in lists[i]
                                           \/ \E l \in Levels, v \in Digits : n \in levels[l][v]
    BY WithinEach
  <2>4. QED BY <1>0, <2>1, <2>2, <2>3
<1>9. QED
  BY <1>4, <1>6, <1>7, <1>8 DEF rest

-----------------------------------------------------------------------------
(* The wheel.  InPlace is inductive with the types of the clock and of the  *)
(* mark for a failed assertion.                                             *)
WheelInv == InPlace /\ time \in 0 .. MaxTime /\ failed \in BOOLEAN

LEMMA WheelInitInv == WheelInit => WheelInv /\ pending = {}
<1> SUFFICES ASSUME WheelInit PROVE WheelInv /\ pending = {}
  OBVIOUS
<1>1. /\ least = [i \in 0 .. LeastValue - 1 |-> {}]
      /\ level = [l \in Levels |-> [v \in Digits |-> {}]]
      /\ time = 0 /\ failed = FALSE
  BY DEF WheelInit
<1>2. Placed(least, level, time)
  BY <1>1 DEF Placed
<1>3. InPlace /\ pending = Within(least, level)
  BY <1>2, InPlaceIsPlaced
<1>4. \A n : n \notin Within(least, level)
  <2> TAKE n
  <2>1. \A i \in 0 .. LeastValue - 1 : n \notin least[i]
    BY <1>1
  <2>2. \A l \in Levels, v \in Digits : n \notin level[l][v]
    BY <1>1
  <2>3. QED BY <2>1, <2>2, WithinEach
<1>5. time \in 0 .. MaxTime
  BY <1>1, TimerAssumption
<1>6. QED
  BY <1>1, <1>3, <1>4, <1>5 DEF WheelInv

(* Where InPlace holds, the clock is in the wheel's range.                  *)
LEMMA ClockInRange ==
  ASSUME WheelInv
  PROVE  /\ time \in Nat /\ time < Range64 /\ MaxTime \in Nat /\ MaxTime < Range64
         /\ Placed(least, level, time) /\ pending = Within(least, level)
         /\ \A n \in pending : n \in Nodes /\ n.expire \in Nat /\ n.expire >= time
<1>1. time \in Nat /\ time < Range64 /\ MaxTime \in Nat /\ MaxTime < Range64
  BY Sizes, ClockFits, TimerAssumption DEF WheelInv
<1>2. Placed(least, level, time) /\ pending = Within(least, level)
  BY InPlaceIsPlaced DEF WheelInv
<1>3. ASSUME NEW n \in pending PROVE n \in Nodes /\ n.expire \in Nat /\ n.expire >= time
  <2>1. n \in Nodes
    <3>1. CASE \E i \in 0 .. LeastValue - 1 : n \in least[i]
      BY <1>2, <3>1 DEF Placed
    <3>2. CASE \E l \in Levels, v \in Digits : n \in level[l][v]
      BY <1>2, <3>2 DEF Placed
    <3>3. QED BY <1>2, <1>3, <3>1, <3>2, WithinEach
  <2>2. n.expire \in Nat
    BY <2>1, Sizes
  <2>3. n.expire >= time
    BY <1>1, <1>2, <2>2, WithinEach, PlacedAhead
  <2>4. QED BY <2>1, <2>2, <2>3
<1>4. QED
  BY <1>1, <1>2, <1>3

(* _timeout adds its node, or its assertion fails.                          *)
LEMMA TimeoutAdds ==
  ASSUME WheelInv, NEW id \in Ids, NEW timeout \in Nat, Timeout(id, timeout),
         NEW node, node = [id |-> id, expire |-> (time + timeout) % Range64]
  PROVE  /\ WheelInv' /\ time' = time
         /\ \A n \in pending : n.id # id
         /\ IF node.expire >= time
            THEN pending' = pending \cup {node} /\ failed' = FALSE
            ELSE pending' = pending /\ failed' = TRUE
         /\ node \in Nodes
<1>1. /\ time \in Nat /\ time < Range64 /\ Range64 \in Nat \ {0}
      /\ Placed(least, level, time) /\ pending = Within(least, level)
  BY ClockInRange, Sizes
<1>2. node \in Nodes /\ node.id = id
  <2>1. (time + timeout) % Range64 \in 0 .. Range64 - 1
    BY <1>1, Division
  <2>2. QED BY <2>1 DEF Nodes
<1>3. time' = time /\ time' \in 0 .. MaxTime /\ ~failed /\ \A n \in pending : n.id # id
  BY DEF Timeout, WheelInv
<1>4. CASE node.expire >= time
  <2>1. least' = LeastWith(least, time, {node}) /\ level' = LevelWith(level, time, {node})
        /\ failed' = FALSE
    BY <1>4 DEF Timeout
  <2>2. /\ Placed(least', level', time)
        /\ Within(least', level') = Within(least, level) \cup {node}
    <3>1. {node} \in SUBSET Nodes /\ \A n \in {node} : n.expire >= time
      BY <1>2, <1>4
    <3>2. QED BY <1>1, <2>1, <3>1, QueueKeeps
  <2>3. Placed(least', level', time')
    BY <1>3, <2>2
  <2>4. InPlace' /\ pending' = Within(least', level')
    BY <2>3, PlacedIsInPlaceNext
  <2>5. QED BY <1>1, <1>2, <1>3, <1>4, <2>1, <2>2, <2>4 DEF WheelInv
<1>5. CASE ~(node.expire >= time)
  <2>1. UNCHANGED <<least, level, time>> /\ failed' = TRUE
    BY <1>5 DEF Timeout
  <2>2. InPlace' /\ pending' = pending
    BY <1>1, <2>1, PlacedIsInPlaceNext
  <2>3. QED BY <1>2, <1>3, <1>5, <2>1, <2>2 DEF WheelInv
<1>6. QED
  BY <1>4, <1>5

(* _tick sends what expires at this tick and keeps all else.                *)
LEMMA TickSends ==
  ASSUME WheelInv, Tick
  PROVE  /\ WheelInv' /\ time' = time + 1 /\ time + 1 <= MaxTime
         /\ failed = FALSE /\ failed' = FALSE
         /\ least[time % LeastValue] = {n \in pending : n.expire = time}
         /\ pending' = {n \in pending : n.expire # time}
<1> DEFINE t == time + 1
           gone == least[time % LeastValue]
<1>1. /\ time \in Nat /\ time < Range64 /\ MaxTime \in Nat /\ MaxTime < Range64 /\ Range64 \in Nat
      /\ Placed(least, level, time) /\ pending = Within(least, level)
  BY ClockInRange, Sizes
<1>2. time' = t /\ t <= MaxTime /\ failed = FALSE /\ failed' = FALSE
  BY DEF Tick, WheelInv
<1>3. t \in Nat /\ t < Range64 /\ t \in 0 .. MaxTime
  BY <1>1, <1>2
<1>4. gone = {n \in pending : n.expire = time}
  BY <1>1, SentExpires
<1>5. Placed(least', level', t) /\ Within(least', level') = Within(least, level) \ gone
  <2>1. CASE t % LeastValue # 0
    <3>1. least' = Sending(least, time) /\ level' = level
      BY <2>1 DEF Tick, Sending
    <3>2. QED BY <1>1, <2>1, <3>1, TickKeeps
  <2>2. CASE t % LeastValue = 0
    <3>1. /\ level' = LevelWith(Rest(level, t), t, Down(level, t))
          /\ least' = LeastWith(Sending(least, time), t, Down(level, t))
      BY <2>2 DEF Tick, Sending, Rest, Down
    <3>2. /\ Down(level, t) \in SUBSET Nodes /\ \A n \in Down(level, t) : n.expire >= t
          /\ Placed(Sending(least, time), Rest(level, t), t)
          /\ Within(Sending(least, time), Rest(level, t)) \cup Down(level, t)
               = Within(least, level) \ gone
      BY <1>1, <1>3, <2>2, CascadeKeeps
    <3> HIDE DEF t, gone
    <3>3. QED BY <1>3, <3>1, <3>2, QueueKeeps
  <2>3. QED BY <2>1, <2>2
<1>6. InPlace' /\ pending' = Within(least', level')
  BY <1>2, <1>5, PlacedIsInPlaceNext
<1>7. pending' = {n \in pending : n.expire # time}
  BY <1>1, <1>4, <1>5, <1>6
<1>8. QED
  BY <1>2, <1>3, <1>4, <1>6, <1>7 DEF WheelInv

LEMMA WheelTimeout ==
  ASSUME WheelInv, NEW id \in Ids, NEW timeout \in Timeouts, Timeout(id, timeout)
  PROVE  WheelInv' /\ [Abstract!Next]_(Abstract!vars)
<1> DEFINE node == [id |-> id, expire |-> (time + timeout) % Range64]
<1>1. timeout \in Nat
  BY TimerAssumption
<1>2. /\ WheelInv' /\ time' = time
      /\ \A n \in pending : n.id # id
      /\ IF node.expire >= time
         THEN pending' = pending \cup {node} /\ failed' = FALSE
         ELSE pending' = pending /\ failed' = TRUE
      /\ node \in Nodes
  <2> HIDE DEF node
  <2>1. QED BY <1>1, TimeoutAdds DEF node
<1>3. CASE node.expire >= time
  <2> DEFINE wait == node.expire - time
  <2>1. wait \in 0 .. Range64 - 1 /\ time + wait = node.expire /\ node.expire \in 0 .. Range64 - 1
    BY <1>2, <1>3, ClockInRange, Sizes
  <2>2. Abstract!Timeout(id, wait)
    BY <1>2, <1>3, <2>1 DEF Abstract!Timeout, Abstract!Waiting
  <2>3. QED BY <1>2, <2>1, <2>2 DEF Abstract!Next
<1>4. CASE ~(node.expire >= time)
  BY <1>2, <1>4 DEF Abstract!vars
<1>5. QED
  BY <1>2, <1>3, <1>4

LEMMA WheelTick ==
  ASSUME WheelInv, Tick
  PROVE  WheelInv' /\ [Abstract!Next]_(Abstract!vars)
<1>1. /\ WheelInv' /\ time' = time + 1 /\ time + 1 <= MaxTime
      /\ pending' = {n \in pending : n.expire # time}
  BY TickSends
<1>2. time + 1 \in 0 .. Range64 - 1
  BY <1>1, ClockInRange, Sizes
<1>3. Abstract!Tick
  BY <1>1, <1>2 DEF Abstract!Tick, Abstract!Expired
<1>4. QED
  BY <1>1, <1>3 DEF Abstract!Next

LEMMA WheelUnchanged ==
  ASSUME WheelInv, UNCHANGED wheel
  PROVE  WheelInv' /\ pending' = pending /\ [Abstract!Next]_(Abstract!vars)
BY DEF wheel, WheelInv, InPlace, pending, Abstract!vars

LEMMA WheelStep ==
  WheelInv /\ [WheelNext]_wheel => WheelInv' /\ [Abstract!Next]_(Abstract!vars)
<1> SUFFICES ASSUME WheelInv, [WheelNext]_wheel
             PROVE  WheelInv' /\ [Abstract!Next]_(Abstract!vars)
  OBVIOUS
<1>1. CASE Tick
  BY <1>1, WheelTick
<1>2. ASSUME NEW id \in Ids, NEW timeout \in Timeouts, Timeout(id, timeout)
      PROVE  WheelInv' /\ [Abstract!Next]_(Abstract!vars)
  BY <1>2, WheelTimeout
<1>3. CASE UNCHANGED wheel
  BY <1>3, WheelUnchanged
<1>4. QED
  BY <1>1, <1>2, <1>3 DEF WheelNext

(* Whatever is asked of the wheel, also when a sum wraps around, every node *)
(* is in the list in which _tick will come upon it.                         *)
THEOREM WheelInPlace == WheelSpec => []InPlace
<1>1. WheelInit => WheelInv
  BY WheelInitInv
<1>2. WheelInv => InPlace
  BY DEF WheelInv
<1>3. QED
  BY <1>1, <1>2, WheelStep, PTL DEF WheelSpec

(* The wheel implements the timer that keeps one set of timeouts: _tick     *)
(* sends each at its tick, whichever lists it came through.                 *)
THEOREM WheelSendsOnTime == WheelSpec => SendsOnTime
<1>1. WheelInit => WheelInv /\ Abstract!Init
  BY WheelInitInv DEF WheelInit, Abstract!Init
<1>2. QED
  BY <1>1, WheelStep, PTL DEF WheelSpec, SendsOnTime, Abstract!Spec

-----------------------------------------------------------------------------
(* The service and those who sleep.                                         *)
Messages == {Update(t) : t \in 0 .. MaxTime}
            \cup {Request(id, timeout) : id \in Ids, timeout \in Timeouts}

Types ==
  /\ clock \in 0 .. MaxTime
  /\ sent \in 0 .. clock
  /\ mailbox \in Seq(Messages)
  /\ sleep \in [Ids -> [state : {"awake", "asleep"}, asked : 0 .. MaxTime, timeout : Nat]]

(* Which messages of queue q are updates, and which are requests of id.     *)
Updates(q) == {i \in 1 .. Len(q) : q[i].type = "update"}
Asks(q, id) == {i \in 1 .. Len(q) : q[i].type = "request" /\ q[i].id = id}

(* The updates lie ahead of the wheel and go up to what was sent last.      *)
InOrder ==
  /\ \A i \in Updates(mailbox) : mailbox[i].timestamp \in time .. sent
  /\ \A i, j \in Updates(mailbox) : i < j => mailbox[i].timestamp <= mailbox[j].timestamp
  /\ sent = time \/ \E i \in Updates(mailbox) : mailbox[i].timestamp = sent

(* When the service comes to a request its clock shows what had been sent   *)
(* when the sleep began: the last update before the request, if there is    *)
(* one in the mailbox.                                                      *)
AskedInOrder ==
  \A id \in Ids : \A i \in Asks(mailbox, id) :
    /\ mailbox[i].timeout = sleep[id].timeout
    /\ sleep[id].asked \in time .. sent
    /\ \A j \in Updates(mailbox) : j < i => mailbox[j].timestamp <= sleep[id].asked
    /\ \/ sleep[id].asked = time
       \/ \E j \in Updates(mailbox) : j < i /\ mailbox[j].timestamp = sleep[id].asked

(* A node expires when its sleeper said.                                    *)
NodesExact ==
  \A n \in pending : n.expire = sleep[n.id].asked + sleep[n.id].timeout

(* The bound on the clock leaves room for every sleep.                      *)
Room == \A id \in Ids : sleep[id].state = "asleep" => sleep[id].asked + sleep[id].timeout < MaxTime

(* Whoever sleeps is in one place, a request in the mailbox or a node.      *)
NodesOf(id) == {n \in pending : n.id = id}

InOnePlace ==
  \A id \in Ids :
    IF sleep[id].state = "asleep"
    THEN \/ NodesOf(id) = {} /\ \E i \in Asks(mailbox, id) : Asks(mailbox, id) = {i}
         \/ Asks(mailbox, id) = {} /\ \E n \in NodesOf(id) : NodesOf(id) = {n}
    ELSE Asks(mailbox, id) = {} /\ NodesOf(id) = {}

IInv == /\ WheelInv /\ ~failed /\ Types
        /\ InOrder /\ AskedInOrder /\ NodesExact /\ Room /\ InOnePlace

(* What the messages look like.                                             *)
LEMMA MessageKinds ==
  ASSUME NEW m \in Messages
  PROVE  \/ /\ m.type = "update" /\ m.timestamp \in 0 .. MaxTime /\ m = Update(m.timestamp)
         \/ /\ m.type = "request" /\ m.id \in Ids /\ m.timeout \in Timeouts
            /\ m = Request(m.id, m.timeout)
BY DEF Messages, Update, Request

LEMMA NewMessage ==
  /\ \A t \in 0 .. MaxTime : /\ Update(t) \in Messages
                             /\ Update(t).type = "update" /\ Update(t).timestamp = t
  /\ \A id \in Ids, timeout \in Timeouts :
       /\ Request(id, timeout) \in Messages
       /\ Request(id, timeout).type = "request"
       /\ Request(id, timeout).id = id /\ Request(id, timeout).timeout = timeout
<1>1. ASSUME NEW t \in 0 .. MaxTime
      PROVE  Update(t) \in Messages /\ Update(t).type = "update" /\ Update(t).timestamp = t
  BY DEF Messages, Update
<1>2. ASSUME NEW id \in Ids, NEW timeout \in Timeouts
      PROVE  /\ Request(id, timeout).type = "request"
             /\ Request(id, timeout).id = id /\ Request(id, timeout).timeout = timeout
  BY DEF Request
<1>3. ASSUME NEW id \in Ids, NEW timeout \in Timeouts
      PROVE  Request(id, timeout) \in Messages
  BY DEF Messages
<1>4. QED
  BY <1>1, <1>2, <1>3

(* An update added to the mailbox.                                          *)
LEMMA UpdateAdded ==
  ASSUME NEW q \in Seq(Messages), NEW t \in 0 .. MaxTime
  PROVE  /\ Append(q, Update(t)) \in Seq(Messages)
         /\ Updates(Append(q, Update(t))) = Updates(q) \cup {Len(q) + 1}
         /\ \A id \in Ids : Asks(Append(q, Update(t)), id) = Asks(q, id)
         /\ \A i \in 1 .. Len(q) : Append(q, Update(t))[i] = q[i]
         /\ Append(q, Update(t))[Len(q) + 1] = Update(t)
<1>1. Update(t) \in Messages /\ Update(t).type = "update"
  BY NewMessage
<1> HIDE DEF Update
<1>2. /\ Append(q, Update(t)) \in Seq(Messages) /\ Len(Append(q, Update(t))) = Len(q) + 1
      /\ \A i \in 1 .. Len(q) : Append(q, Update(t))[i] = q[i]
      /\ Append(q, Update(t))[Len(q) + 1] = Update(t)
      /\ Len(q) \in Nat
  BY <1>1, AppendProperties, LenProperties
<1>3. Updates(Append(q, Update(t))) = Updates(q) \cup {Len(q) + 1}
  BY <1>1, <1>2 DEF Updates
<1>4. \A id \in Ids : Asks(Append(q, Update(t)), id) = Asks(q, id)
  BY <1>1, <1>2 DEF Asks
<1>5. QED
  BY <1>2, <1>3, <1>4

(* A request added to the mailbox.                                          *)
LEMMA RequestAdded ==
  ASSUME NEW q \in Seq(Messages), NEW id \in Ids, NEW timeout \in Timeouts,
         NEW m, m = Request(id, timeout)
  PROVE  /\ Append(q, m) \in Seq(Messages)
         /\ Updates(Append(q, m)) = Updates(q)
         /\ Asks(Append(q, m), id) = Asks(q, id) \cup {Len(q) + 1}
         /\ \A x \in Ids \ {id} : Asks(Append(q, m), x) = Asks(q, x)
         /\ \A i \in 1 .. Len(q) : Append(q, m)[i] = q[i]
         /\ Append(q, m)[Len(q) + 1] = m
<1>1. m \in Messages /\ m.type = "request" /\ m.id = id
  BY NewMessage
<1>2. /\ Append(q, m) \in Seq(Messages) /\ Len(Append(q, m)) = Len(q) + 1
      /\ \A i \in 1 .. Len(q) : Append(q, m)[i] = q[i]
      /\ Append(q, m)[Len(q) + 1] = m
      /\ Len(q) \in Nat
  BY <1>1, AppendProperties, LenProperties
<1>3. Updates(Append(q, m)) = Updates(q)
  BY <1>1, <1>2 DEF Updates
<1>4. Asks(Append(q, m), id) = Asks(q, id) \cup {Len(q) + 1}
  BY <1>1, <1>2 DEF Asks
<1>5. \A x \in Ids \ {id} : Asks(Append(q, m), x) = Asks(q, x)
  BY <1>1, <1>2 DEF Asks
<1>6. QED
  BY <1>2, <1>3, <1>4, <1>5

(* The first message taken from the mailbox.                                *)
LEMMA MessageTaken ==
  ASSUME NEW q \in Seq(Messages), q # << >>
  PROVE  /\ Tail(q) \in Seq(Messages) /\ Head(q) = q[1] /\ q[1] \in Messages
         /\ 1 \in 1 .. Len(q)
         /\ \A i : i \in Updates(Tail(q)) <=> i \in Nat \ {0} /\ i + 1 \in Updates(q)
         /\ \A id, i : i \in Asks(Tail(q), id) <=> i \in Nat \ {0} /\ i + 1 \in Asks(q, id)
         /\ \A i \in Nat \ {0} : i + 1 \in 1 .. Len(q) => Tail(q)[i] = q[i + 1]
<1>1. /\ Tail(q) \in Seq(Messages) /\ Len(Tail(q)) = Len(q) - 1 /\ Head(q) = q[1]
      /\ \A i \in 1 .. Len(Tail(q)) : Tail(q)[i] = q[i + 1]
      /\ Len(q) \in Nat \ {0}
  BY HeadTailProperties, EmptySeq, LenProperties
<1>2. q[1] \in Messages /\ 1 \in 1 .. Len(q)
  BY <1>1, ElementOfSeq
<1>3. \A i \in Nat \ {0} : i + 1 \in 1 .. Len(q) => i \in 1 .. Len(Tail(q)) /\ Tail(q)[i] = q[i + 1]
  BY <1>1
<1>4. \A i : i \in Updates(Tail(q)) <=> i \in Nat \ {0} /\ i + 1 \in Updates(q)
  BY <1>1, <1>3 DEF Updates
<1>5. \A id, i : i \in Asks(Tail(q), id) <=> i \in Nat \ {0} /\ i + 1 \in Asks(q, id)
  BY <1>1, <1>3 DEF Asks
<1>6. QED
  BY <1>1, <1>2, <1>3, <1>4, <1>5

-----------------------------------------------------------------------------
(* Each action keeps IInv.                                                  *)
LEMMA InitIInv == Init => IInv
<1> SUFFICES ASSUME Init PROVE IInv
  OBVIOUS
<1>1. /\ WheelInv /\ pending = {} /\ time = 0 /\ ~failed
      /\ clock = 0 /\ sent = 0 /\ mailbox = << >> /\ sleep = [id \in Ids |-> Awake]
  BY WheelInitInv DEF Init, WheelInit
<1>2. Updates(mailbox) = {} /\ \A id : Asks(mailbox, id) = {}
  BY <1>1 DEF Updates, Asks
<1>3. Types
  <2>1. MaxTime \in Nat /\ mailbox \in Seq(Messages)
    BY <1>1, EmptySeq, TimerAssumption
  <2>2. QED BY <1>1, <2>1 DEF Types, Awake
<1>4. InOrder /\ AskedInOrder
  BY <1>1, <1>2 DEF InOrder, AskedInOrder
<1>5. NodesExact /\ Room /\ InOnePlace
  BY <1>1, <1>2 DEF NodesExact, Room, InOnePlace, NodesOf, Awake
<1>6. QED
  BY <1>1, <1>3, <1>4, <1>5 DEF IInv

(* What the types say, with every bound above them.                         *)
LEMMA TypeFacts ==
  ASSUME IInv
  PROVE  /\ time \in Nat /\ clock \in Nat /\ sent \in Nat /\ MaxTime \in Nat
         /\ time <= sent /\ sent <= clock /\ clock <= MaxTime
         /\ mailbox \in Seq(Messages) /\ Len(mailbox) \in Nat
         /\ \A i \in Updates(mailbox) : /\ i \in 1 .. Len(mailbox)
                                        /\ mailbox[i].timestamp \in Nat
         /\ \A id \in Ids : /\ Asks(mailbox, id) \subseteq 1 .. Len(mailbox)
                            /\ sleep[id].asked \in Nat /\ sleep[id].timeout \in Nat
                            /\ sleep[id].state \in {"awake", "asleep"}
         /\ \A n \in pending : n.id \in Ids /\ n.expire \in Nat /\ n.expire >= time
<1>1. WheelInv /\ Types /\ InOrder
  BY DEF IInv
<1>2. time \in Nat /\ MaxTime \in Nat /\ \A n \in pending : n \in Nodes /\ n.expire \in Nat /\ n.expire >= time
  BY <1>1, ClockInRange
<1>3. clock \in Nat /\ sent \in Nat /\ sent <= clock /\ clock <= MaxTime
  BY <1>1, <1>2 DEF Types
<1>4. mailbox \in Seq(Messages) /\ Len(mailbox) \in Nat
  BY <1>1, LenProperties DEF Types
<1>5. \A i \in Updates(mailbox) : i \in 1 .. Len(mailbox) /\ mailbox[i].timestamp \in time .. sent
  BY <1>1 DEF Updates, InOrder
<1>6. time <= sent
  BY <1>1, <1>2, <1>3, <1>5 DEF InOrder
<1>7. \A id \in Ids : /\ Asks(mailbox, id) \subseteq 1 .. Len(mailbox)
                      /\ sleep[id].asked \in Nat /\ sleep[id].timeout \in Nat
                      /\ sleep[id].state \in {"awake", "asleep"}
  BY <1>1, <1>2 DEF Asks, Types
<1>8. \A n \in pending : n.id \in Ids
  BY <1>2 DEF Nodes
<1>9. QED
  BY <1>2, <1>3, <1>4, <1>5, <1>6, <1>7, <1>8

LEMMA StoreKeeps ==
  ASSUME IInv, Store
  PROVE  IInv'
<1>1. WheelInv' /\ pending' = pending /\ time' = time /\ ~failed'
  BY WheelUnchanged DEF Store, IInv, wheel
<1>2. clock' \in clock + 1 .. MaxTime /\ UNCHANGED <<sent, mailbox, sleep>>
  BY DEF Store
<1>3. Types'
  BY <1>2, TypeFacts DEF IInv, Types
<1>4. (InOrder /\ AskedInOrder /\ NodesExact /\ Room /\ InOnePlace)'
  BY <1>1, <1>2 DEF IInv, InOrder, AskedInOrder, NodesExact, Room, InOnePlace, NodesOf
<1>5. QED
  BY <1>1, <1>3, <1>4 DEF IInv

LEMMA SendKeeps ==
  ASSUME IInv, Send
  PROVE  IInv'
<1> DEFINE N == Len(mailbox) + 1
<1>1. WheelInv' /\ pending' = pending /\ time' = time /\ ~failed'
  BY WheelUnchanged DEF Send, IInv, wheel
<1>2. sent' = clock /\ sent < clock /\ UNCHANGED <<clock, sleep>> /\ clock \in 0 .. MaxTime
  BY DEF Send, IInv, Types
<1>3. /\ mailbox' \in Seq(Messages)
      /\ Updates(mailbox') = Updates(mailbox) \cup {N}
      /\ \A id \in Ids : Asks(mailbox', id) = Asks(mailbox, id)
      /\ \A i \in 1 .. Len(mailbox) : mailbox'[i] = mailbox[i]
      /\ mailbox'[N].timestamp = clock
  <2>1. mailbox' = Append(mailbox, Update(clock)) /\ mailbox \in Seq(Messages)
    BY DEF Send, IInv, Types
  <2>2. Update(clock).timestamp = clock
    BY <1>2, NewMessage
  <2>3. QED BY <1>2, <2>1, <2>2, UpdateAdded
<1>4. Types'
  BY <1>2, <1>3, TypeFacts DEF IInv, Types
<1>5. \A i \in Updates(mailbox) : /\ i \in 1 .. Len(mailbox) /\ i < N
                                  /\ mailbox'[i].timestamp = mailbox[i].timestamp
                                  /\ mailbox[i].timestamp \in time .. sent
  BY <1>3, TypeFacts DEF IInv, InOrder
<1>6. InOrder'
  <2>1. \A i \in Updates(mailbox') : mailbox'[i].timestamp \in time' .. sent'
    BY <1>1, <1>2, <1>3, <1>5, TypeFacts
  <2>2. \A i, j \in Updates(mailbox') : i < j => mailbox'[i].timestamp <= mailbox'[j].timestamp
    BY <1>2, <1>3, <1>5, TypeFacts DEF IInv, InOrder
  <2>3. QED BY <1>2, <1>3, <2>1, <2>2 DEF InOrder
<1>7. AskedInOrder'
  <2> SUFFICES ASSUME NEW id \in Ids, NEW i \in Asks(mailbox, id)
               PROVE  /\ mailbox'[i].timeout = sleep[id].timeout
                      /\ sleep[id].asked \in time .. clock
                      /\ \A j \in Updates(mailbox') : j < i => mailbox'[j].timestamp <= sleep[id].asked
                      /\ \/ sleep[id].asked = time
                         \/ \E j \in Updates(mailbox') : j < i /\ mailbox'[j].timestamp = sleep[id].asked
    BY <1>1, <1>2, <1>3 DEF AskedInOrder
  <2>1. /\ mailbox[i].timeout = sleep[id].timeout
        /\ sleep[id].asked \in time .. sent
        /\ \A j \in Updates(mailbox) : j < i => mailbox[j].timestamp <= sleep[id].asked
        /\ \/ sleep[id].asked = time
           \/ \E j \in Updates(mailbox) : j < i /\ mailbox[j].timestamp = sleep[id].asked
    BY DEF IInv, AskedInOrder
  <2>2. i \in 1 .. Len(mailbox) /\ ~(N < i)
    BY TypeFacts
  <2>3. QED BY <1>2, <1>3, <1>5, <2>1, <2>2, TypeFacts
<1>8. (NodesExact /\ Room /\ InOnePlace)'
  BY <1>1, <1>2, <1>3 DEF IInv, NodesExact, Room, InOnePlace, NodesOf
<1>9. QED
  BY <1>1, <1>4, <1>6, <1>7, <1>8 DEF IInv

LEMMA SleepKeeps ==
  ASSUME IInv, NEW id \in Ids, NEW timeout \in Timeouts, Sleep(id, timeout)
  PROVE  IInv'
<1> DEFINE N == Len(mailbox) + 1
<1>1. WheelInv' /\ pending' = pending /\ time' = time /\ ~failed'
  BY WheelUnchanged DEF Sleep, IInv, wheel
<1>2. /\ sleep[id].state = "awake" /\ clock + timeout < MaxTime /\ UNCHANGED <<clock, sent>>
      /\ sleep' = [sleep EXCEPT ![id] = [state |-> "asleep", asked |-> sent, timeout |-> timeout]]
      /\ timeout \in Nat
  BY TimerAssumption DEF Sleep
<1>3. /\ sleep'[id].state = "asleep" /\ sleep'[id].asked = sent /\ sleep'[id].timeout = timeout
      /\ \A x \in Ids \ {id} : sleep'[x] = sleep[x]
  BY <1>2 DEF IInv, Types
<1>4. /\ mailbox' \in Seq(Messages)
      /\ Updates(mailbox') = Updates(mailbox)
      /\ Asks(mailbox', id) = Asks(mailbox, id) \cup {N}
      /\ \A x \in Ids \ {id} : Asks(mailbox', x) = Asks(mailbox, x)
      /\ \A i \in 1 .. Len(mailbox) : mailbox'[i] = mailbox[i]
      /\ mailbox'[N].timeout = timeout
  <2>1. mailbox' = Append(mailbox, Request(id, timeout)) /\ mailbox \in Seq(Messages)
    BY DEF Sleep, IInv, Types
  <2>2. Request(id, timeout).timeout = timeout
    BY NewMessage
  <2>3. QED BY <2>1, <2>2, RequestAdded
<1>5. Asks(mailbox, id) = {} /\ NodesOf(id) = {}
  BY <1>2 DEF IInv, InOnePlace
<1>6. Types'
  <2>1. sleep' \in [Ids -> [state : {"awake", "asleep"}, asked : 0 .. MaxTime, timeout : Nat]]
    BY <1>2, TypeFacts DEF IInv, Types
  <2>2. QED BY <1>2, <1>4, <2>1 DEF IInv, Types
<1>7. InOrder'
  BY <1>1, <1>2, <1>4, TypeFacts DEF IInv, InOrder
<1>8. AskedInOrder'
  <2> SUFFICES ASSUME NEW x \in Ids, NEW i \in Asks(mailbox', x)
               PROVE  /\ mailbox'[i].timeout = sleep'[x].timeout
                      /\ sleep'[x].asked \in time .. sent
                      /\ \A j \in Updates(mailbox) : j < i => mailbox'[j].timestamp <= sleep'[x].asked
                      /\ \/ sleep'[x].asked = time
                         \/ \E j \in Updates(mailbox) : j < i /\ mailbox'[j].timestamp = sleep'[x].asked
    BY <1>1, <1>2, <1>4 DEF AskedInOrder
  <2>1. CASE x = id
    <3>1. i = N
      BY <1>4, <1>5, <2>1
    <3>2. \A j \in Updates(mailbox) : /\ j < N /\ mailbox'[j].timestamp = mailbox[j].timestamp
                                      /\ mailbox[j].timestamp \in time .. sent
      BY <1>4, TypeFacts DEF IInv, InOrder
    <3>3. sent = time \/ \E j \in Updates(mailbox) : mailbox[j].timestamp = sent
      BY DEF IInv, InOrder
    <3>4. sent \in time .. sent
      BY TypeFacts
    <3>5. QED BY <1>3, <1>4, <2>1, <3>1, <3>2, <3>3, <3>4
  <2>2. CASE x # id
    <3>1. i \in Asks(mailbox, x) /\ i \in 1 .. Len(mailbox) /\ mailbox'[i] = mailbox[i] /\ sleep'[x] = sleep[x]
      BY <1>3, <1>4, <2>2, TypeFacts
    <3>2. \A j \in Updates(mailbox) : mailbox'[j] = mailbox[j]
      BY <1>4, TypeFacts
    <3>3. QED BY <3>1, <3>2 DEF IInv, AskedInOrder
  <2>3. QED BY <2>1, <2>2
<1>9. NodesExact' /\ Room'
  <2>1. \A n \in pending : n.id \in Ids \ {id}
    BY <1>5, TypeFacts DEF NodesOf
  <2>2. NodesExact'
    BY <1>1, <1>3, <2>1 DEF IInv, NodesExact
  <2>3. sent + timeout < MaxTime
    BY <1>2, TypeFacts
  <2>4. Room'
    BY <1>3, <2>3 DEF IInv, Room
  <2>5. QED BY <2>2, <2>4
<1>10. InOnePlace'
  <2> SUFFICES ASSUME NEW x \in Ids
               PROVE  IF sleep'[x].state = "asleep"
                      THEN \/ NodesOf(x) = {} /\ \E i \in Asks(mailbox', x) : Asks(mailbox', x) = {i}
                           \/ Asks(mailbox', x) = {} /\ \E n \in NodesOf(x) : NodesOf(x) = {n}
                      ELSE Asks(mailbox', x) = {} /\ NodesOf(x) = {}
    BY <1>1 DEF InOnePlace, NodesOf
  <2>1. CASE x = id
    BY <1>3, <1>4, <1>5, <2>1
  <2>2. CASE x # id
    BY <1>3, <1>4, <2>2 DEF IInv, InOnePlace
  <2>3. QED BY <2>1, <2>2
<1>11. QED
  BY <1>1, <1>6, <1>7, <1>8, <1>9, <1>10 DEF IInv

LEMMA StutterKeeps ==
  ASSUME IInv, UNCHANGED vars
  PROVE  IInv'
<1>1. WheelInv' /\ pending' = pending /\ time' = time /\ ~failed'
  BY WheelUnchanged DEF vars, IInv, wheel
<1>2. UNCHANGED <<clock, sent, mailbox, sleep>>
  BY DEF vars
<1>3. QED
  BY <1>1, <1>2 DEF IInv, Types, InOrder, AskedInOrder, NodesExact, Room, InOnePlace, NodesOf

(* A tick of the wheel wakes those whose node it sends, and no others.      *)
LEMMA TickWakes ==
  ASSUME IInv, UpdateTick
  PROVE  /\ WheelInv' /\ time' = time + 1 /\ ~failed'
         /\ pending' = {n \in pending : n.expire # time}
         /\ UNCHANGED <<clock, sent, mailbox>>
         /\ 1 \in Updates(mailbox) /\ Head(mailbox) = mailbox[1] /\ mailbox[1].timestamp > time
         /\ sleep' \in [Ids -> {Awake} \cup {sleep[id] : id \in Ids}]
         /\ \A id \in Ids :
              IF \E n \in NodesOf(id) : n.expire = time
              THEN /\ sleep'[id] = Awake /\ sleep[id].state = "asleep"
                   /\ Asks(mailbox, id) = {}
                   /\ sleep[id].asked + sleep[id].timeout = time
                   /\ \A n \in NodesOf(id) : n.expire = time
              ELSE sleep'[id] = sleep[id]
<1>1. /\ WheelInv' /\ time' = time + 1 /\ ~failed'
      /\ pending' = {n \in pending : n.expire # time}
      /\ Sent = {n \in pending : n.expire = time}
  BY TickSends DEF UpdateTick, IInv, Sent
<1>2. UNCHANGED <<clock, sent, mailbox>>
  BY DEF UpdateTick
<1>3. 1 \in Updates(mailbox) /\ Head(mailbox) = mailbox[1] /\ mailbox[1].timestamp > time
  <2>1. mailbox # << >> /\ Head(mailbox).type = "update" /\ time < Head(mailbox).timestamp
    BY DEF UpdateTick, Handles, Behind
  <2>2. Head(mailbox) = mailbox[1] /\ 1 \in 1 .. Len(mailbox)
    BY <2>1, TypeFacts, MessageTaken
  <2>3. 1 \in Updates(mailbox)
    BY <2>1, <2>2 DEF Updates
  <2>4. QED BY <2>1, <2>2, <2>3, TypeFacts
<1>4. \A id \in Ids : (\E n \in Sent : n.id = id) <=> \E n \in NodesOf(id) : n.expire = time
  BY <1>1 DEF NodesOf
<1>5. sleep' = [id \in Ids |-> IF \E n \in NodesOf(id) : n.expire = time THEN Awake ELSE sleep[id]]
  BY <1>4 DEF UpdateTick
<1>6. ASSUME NEW id \in Ids, NEW n \in NodesOf(id), n.expire = time
      PROVE  /\ sleep[id].state = "asleep" /\ Asks(mailbox, id) = {}
             /\ sleep[id].asked + sleep[id].timeout = time
             /\ \A m \in NodesOf(id) : m.expire = time
  <2>1. sleep[id].state = "asleep" /\ Asks(mailbox, id) = {} /\ \E m \in NodesOf(id) : NodesOf(id) = {m}
    BY <1>6 DEF IInv, InOnePlace
  <2>2. NodesOf(id) = {n}
    BY <2>1
  <2>3. n \in pending /\ n.id = id
    BY DEF NodesOf
  <2>4. n.expire = sleep[id].asked + sleep[id].timeout
    BY <2>3 DEF IInv, NodesExact
  <2>5. QED BY <1>6, <2>1, <2>2, <2>4
<1>7. QED
  BY <1>1, <1>2, <1>3, <1>5, <1>6

LEMMA UpdateTickKeeps ==
  ASSUME IInv, UpdateTick
  PROVE  IInv'
<1> DEFINE Woken(id) == \E n \in NodesOf(id) : n.expire = time
<1>1. /\ WheelInv' /\ time' = time + 1 /\ ~failed'
      /\ pending' = {n \in pending : n.expire # time}
      /\ UNCHANGED <<clock, sent, mailbox>>
      /\ 1 \in Updates(mailbox) /\ mailbox[1].timestamp > time
      /\ sleep' \in [Ids -> {Awake} \cup {sleep[id] : id \in Ids}]
  BY TickWakes
<1>2. \A id \in Ids : Woken(id) => /\ sleep'[id] = Awake /\ sleep[id].state = "asleep"
                                   /\ Asks(mailbox, id) = {}
                                   /\ \A n \in NodesOf(id) : n.expire = time
  BY TickWakes
<1>3. \A id \in Ids : ~Woken(id) => sleep'[id] = sleep[id] /\ \A n \in NodesOf(id) : n.expire # time
  BY TickWakes
<1>4. Types'
  <2>1. Awake \in [state : {"awake", "asleep"}, asked : 0 .. MaxTime, timeout : Nat]
    BY TypeFacts DEF Awake
  <2>2. \A id \in Ids : sleep[id] \in [state : {"awake", "asleep"}, asked : 0 .. MaxTime, timeout : Nat]
    BY DEF IInv, Types
  <2>3. sleep' \in [Ids -> [state : {"awake", "asleep"}, asked : 0 .. MaxTime, timeout : Nat]]
    BY <1>1, <2>1, <2>2
  <2>4. QED BY <1>1, <2>3 DEF IInv, Types
<1>5. \A i \in Updates(mailbox) : mailbox[1].timestamp <= mailbox[i].timestamp
  <2>1. \A i \in Updates(mailbox) : i = 1 \/ 1 < i
    BY TypeFacts
  <2>2. QED BY <1>1, <2>1, TypeFacts DEF IInv, InOrder
<1>6. InOrder'
  <2>1. \A i \in Updates(mailbox) : mailbox[i].timestamp \in time .. sent
    BY DEF IInv, InOrder
  <2>2. \A i \in Updates(mailbox) : mailbox[i].timestamp \in time + 1 .. sent
    BY <1>1, <1>5, <2>1, TypeFacts
  <2>3. sent # time
    BY <1>1, <2>1, TypeFacts
  <2>4. QED BY <1>1, <2>2, <2>3 DEF IInv, InOrder
<1>7. AskedInOrder'
  <2> SUFFICES ASSUME NEW id \in Ids, NEW i \in Asks(mailbox, id)
               PROVE  /\ mailbox[i].timeout = sleep'[id].timeout
                      /\ sleep'[id].asked \in time + 1 .. sent
                      /\ \A j \in Updates(mailbox) : j < i => mailbox[j].timestamp <= sleep'[id].asked
                      /\ \/ sleep'[id].asked = time + 1
                         \/ \E j \in Updates(mailbox) : j < i /\ mailbox[j].timestamp = sleep'[id].asked
    BY <1>1 DEF AskedInOrder
  <2>1. sleep'[id] = sleep[id]
    BY <1>2, <1>3
  <2>2. /\ mailbox[i].timeout = sleep[id].timeout
        /\ sleep[id].asked \in time .. sent
        /\ \A j \in Updates(mailbox) : j < i => mailbox[j].timestamp <= sleep[id].asked
        /\ \/ sleep[id].asked = time
           \/ \E j \in Updates(mailbox) : j < i /\ mailbox[j].timestamp = sleep[id].asked
    BY DEF IInv, AskedInOrder
  <2>3. 1 < i
    BY <1>1, TypeFacts DEF Asks, Updates
  <2>4. mailbox[1].timestamp <= sleep[id].asked
    BY <1>1, <2>2, <2>3
  <2>5. sleep[id].asked > time
    BY <1>1, <2>4, TypeFacts
  <2>6. sleep[id].asked \in time + 1 .. sent
    BY <2>2, <2>5, TypeFacts
  <2>7. QED BY <2>1, <2>2, <2>5, <2>6, TypeFacts
<1>8. NodesExact'
  <2>1. \A n \in pending' : n \in pending /\ n.id \in Ids /\ n \in NodesOf(n.id) /\ n.expire # time
    BY <1>1, TypeFacts DEF NodesOf
  <2>2. \A n \in pending' : sleep'[n.id] = sleep[n.id]
    BY <1>2, <1>3, <2>1
  <2>3. QED BY <2>1, <2>2 DEF IInv, NodesExact
<1>9. Room'
  <2>1. \A id \in Ids : sleep'[id] = sleep[id] \/ sleep'[id].state = "awake"
    BY <1>2, <1>3 DEF Awake
  <2>2. QED BY <2>1 DEF IInv, Room
<1>10. InOnePlace'
  <2> DEFINE Left(id) == {n \in NodesOf(id) : n.expire # time}
  <2>1. \A id : NodesOf(id)' = Left(id)
    BY <1>1 DEF NodesOf
  <2> SUFFICES ASSUME NEW id \in Ids
               PROVE  IF sleep'[id].state = "asleep"
                      THEN \/ Left(id) = {} /\ \E i \in Asks(mailbox, id) : Asks(mailbox, id) = {i}
                           \/ Asks(mailbox, id) = {} /\ \E n \in Left(id) : Left(id) = {n}
                      ELSE Asks(mailbox, id) = {} /\ Left(id) = {}
    BY <1>1, <2>1 DEF InOnePlace
  <2>2. CASE Woken(id)
    BY <1>2, <2>2 DEF Awake
  <2>3. CASE ~Woken(id)
    <3>1. Left(id) = NodesOf(id) /\ sleep'[id] = sleep[id]
      BY <1>3, <2>3
    <3> HIDE DEF Left
    <3>2. QED BY <3>1 DEF IInv, InOnePlace
  <2>4. QED BY <2>2, <2>3
<1>11. QED
  BY <1>1, <1>4, <1>6, <1>7, <1>8, <1>9, <1>10 DEF IInv

(* Taking the first message, an update only when the clock has reached it,  *)
(* leaves what follows in order.                                            *)
LEMMA RestInOrder ==
  ASSUME IInv, mailbox # << >>, mailbox' = Tail(mailbox), UNCHANGED <<time, sent, sleep>>,
         1 \in Updates(mailbox) => mailbox[1].timestamp = time
  PROVE  /\ mailbox' \in Seq(Messages)
         /\ InOrder' /\ AskedInOrder'
         /\ \A id, i : i \in Asks(mailbox', id) <=> i \in Nat \ {0} /\ i + 1 \in Asks(mailbox, id)
<1>1. /\ mailbox' \in Seq(Messages)
      /\ \A i : i \in Updates(mailbox') <=> i \in Nat \ {0} /\ i + 1 \in Updates(mailbox)
      /\ \A id, i : i \in Asks(mailbox', id) <=> i \in Nat \ {0} /\ i + 1 \in Asks(mailbox, id)
      /\ \A i \in Nat \ {0} : i + 1 \in 1 .. Len(mailbox) => mailbox'[i] = mailbox[i + 1]
  BY TypeFacts, MessageTaken
<1>2. \A i \in Updates(mailbox) : i \in 1 .. Len(mailbox) /\ mailbox[i].timestamp \in time .. sent
  BY TypeFacts DEF IInv, InOrder
<1>3. \A i \in Updates(mailbox') : /\ i \in Nat \ {0} /\ i + 1 \in Updates(mailbox)
                                   /\ mailbox'[i] = mailbox[i + 1]
  BY <1>1, <1>2
(* An update other than the first is still there, one place further on.     *)
<1>4. ASSUME NEW i \in Updates(mailbox), i # 1
      PROVE  i - 1 \in Updates(mailbox') /\ mailbox'[i - 1] = mailbox[i] /\ i \in Nat \ {0}
  <2>1. i - 1 \in Nat \ {0} /\ (i - 1) + 1 = i /\ i \in 1 .. Len(mailbox)
    BY <1>2, <1>4
  <2>2. i - 1 \in Updates(mailbox')
    BY <1>1, <2>1
  <2>3. QED BY <1>1, <2>1, <2>2
<1>5. InOrder'
  <2>1. \A i \in Updates(mailbox') : mailbox'[i].timestamp \in time .. sent
    BY <1>2, <1>3
  <2>2. ASSUME NEW i \in Updates(mailbox'), NEW j \in Updates(mailbox'), i < j
        PROVE  mailbox'[i].timestamp <= mailbox'[j].timestamp
    <3>1. i + 1 < j + 1
      BY <1>3, <2>2
    <3>2. QED BY <1>3, <3>1 DEF IInv, InOrder
  <2>3. sent = time \/ \E i \in Updates(mailbox') : mailbox'[i].timestamp = sent
    BY <1>4 DEF IInv, InOrder
  <2>4. QED BY <2>1, <2>2, <2>3 DEF InOrder
<1>6. AskedInOrder'
  <2> SUFFICES ASSUME NEW id \in Ids, NEW i \in Asks(mailbox', id)
               PROVE  /\ mailbox'[i].timeout = sleep[id].timeout
                      /\ sleep[id].asked \in time .. sent
                      /\ \A j \in Updates(mailbox') : j < i => mailbox'[j].timestamp <= sleep[id].asked
                      /\ \/ sleep[id].asked = time
                         \/ \E j \in Updates(mailbox') : j < i /\ mailbox'[j].timestamp = sleep[id].asked
    BY DEF AskedInOrder
  <2>1. i \in Nat \ {0} /\ i + 1 \in Asks(mailbox, id)
    BY <1>1
  <2>2. mailbox'[i] = mailbox[i + 1]
    BY <1>1, <2>1, TypeFacts
  <2>3. /\ mailbox[i + 1].timeout = sleep[id].timeout
        /\ sleep[id].asked \in time .. sent
        /\ \A j \in Updates(mailbox) : j < i + 1 => mailbox[j].timestamp <= sleep[id].asked
        /\ \/ sleep[id].asked = time
           \/ \E j \in Updates(mailbox) : j < i + 1 /\ mailbox[j].timestamp = sleep[id].asked
    BY <2>1 DEF IInv, AskedInOrder
  <2>4. \A j \in Updates(mailbox') : j < i => mailbox'[j].timestamp <= sleep[id].asked
    <3>1. \A j \in Updates(mailbox') : j < i => j + 1 < i + 1
      BY <1>3, <2>1
    <3>2. QED BY <1>3, <2>3, <3>1
  <2>5. ASSUME NEW j \in Updates(mailbox), j < i + 1, mailbox[j].timestamp = sleep[id].asked,
               sleep[id].asked # time
        PROVE  \E k \in Updates(mailbox') : k < i /\ mailbox'[k].timestamp = sleep[id].asked
    <3>1. j # 1
      BY <2>5
    <3>2. j - 1 \in Updates(mailbox') /\ mailbox'[j - 1] = mailbox[j] /\ j \in Nat
      BY <1>4, <3>1
    <3>3. j - 1 < i
      BY <2>1, <2>5, <3>2
    <3>4. QED BY <2>5, <3>2, <3>3
  <2>6. QED BY <2>2, <2>3, <2>4, <2>5
<1>7. QED
  BY <1>1, <1>5, <1>6

LEMMA UpdatedKeeps ==
  ASSUME IInv, Updated
  PROVE  IInv'
<1>1. WheelInv' /\ pending' = pending /\ time' = time /\ ~failed'
  BY WheelUnchanged DEF Updated, IInv, wheel
<1>2. /\ mailbox # << >> /\ Head(mailbox).type = "update" /\ ~(time < Head(mailbox).timestamp)
      /\ mailbox' = Tail(mailbox) /\ UNCHANGED <<clock, sent, sleep>>
  BY DEF Updated, Handles, Behind
<1>3. Head(mailbox) = mailbox[1] /\ 1 \in 1 .. Len(mailbox)
  BY <1>2, TypeFacts, MessageTaken
<1>4. mailbox[1].timestamp = time
  <2>1. 1 \in Updates(mailbox)
    BY <1>2, <1>3 DEF Updates
  <2>2. mailbox[1].timestamp \in time .. sent
    BY <2>1 DEF IInv, InOrder
  <2>3. QED BY <1>2, <1>3, <2>2, TypeFacts
<1>5. /\ mailbox' \in Seq(Messages) /\ InOrder' /\ AskedInOrder'
      /\ \A id, i : i \in Asks(mailbox', id) <=> i \in Nat \ {0} /\ i + 1 \in Asks(mailbox, id)
  BY <1>1, <1>2, <1>4, RestInOrder
<1>6. Types' /\ NodesExact' /\ Room'
  BY <1>1, <1>2, <1>5 DEF IInv, Types, NodesExact, Room
<1>7. InOnePlace'
  <2> SUFFICES ASSUME NEW id \in Ids
               PROVE  IF sleep[id].state = "asleep"
                      THEN \/ NodesOf(id) = {} /\ \E i \in Asks(mailbox', id) : Asks(mailbox', id) = {i}
                           \/ Asks(mailbox', id) = {} /\ \E n \in NodesOf(id) : NodesOf(id) = {n}
                      ELSE Asks(mailbox', id) = {} /\ NodesOf(id) = {}
    BY <1>1, <1>2 DEF InOnePlace, NodesOf
  <2>1. Asks(mailbox, id) = {} => Asks(mailbox', id) = {}
    BY <1>5
  <2>2. ASSUME NEW i \in Asks(mailbox, id), Asks(mailbox, id) = {i}
        PROVE  \E k \in Asks(mailbox', id) : Asks(mailbox', id) = {k}
    <3>1. i \in Nat \ {0} /\ i # 1
      BY <1>2, <1>3 DEF Asks
    <3>2. i - 1 \in Nat \ {0} /\ (i - 1) + 1 = i
      BY <3>1
    <3>3. i - 1 \in Asks(mailbox', id)
      BY <1>5, <3>2
    <3>4. \A k \in Asks(mailbox', id) : k = i - 1
      <4>1. \A k \in Asks(mailbox', id) : k \in Nat /\ k + 1 = i
        BY <1>5, <2>2
      <4>2. QED BY <3>1, <4>1
    <3>5. QED BY <3>3, <3>4
  <2>3. QED BY <2>1, <2>2 DEF IInv, InOnePlace
<1>8. QED
  BY <1>1, <1>5, <1>6, <1>7 DEF IInv

(* The first message is a request: its node expires when its sleeper said,  *)
(* and the sum fits.                                                        *)
LEMMA RequestQueued ==
  ASSUME IInv, HandleRequest
  PROVE  \E id \in Ids, timeout \in Timeouts :
           LET node == [id |-> id, expire |-> sleep[id].asked + sleep[id].timeout] IN
           /\ Timeout(id, timeout)
           /\ WheelInv' /\ time' = time /\ ~failed'
           /\ pending' = pending \cup {node}
           /\ sleep[id].state = "asleep" /\ NodesOf(id) = {} /\ Asks(mailbox, id) = {1}
           /\ 1 \notin Updates(mailbox) /\ \A x \in Ids \ {id} : 1 \notin Asks(mailbox, x)
<1> DEFINE m == mailbox[1]
<1>1. /\ mailbox # << >> /\ Head(mailbox).type = "request"
      /\ Timeout(Head(mailbox).id, Head(mailbox).timeout)
  BY DEF HandleRequest, Handles
<1>2. Head(mailbox) = m /\ m \in Messages /\ 1 \in 1 .. Len(mailbox)
  BY <1>1, TypeFacts, MessageTaken
<1>3. m.type = "request" /\ m.id \in Ids /\ m.timeout \in Timeouts /\ Timeout(m.id, m.timeout)
  BY <1>1, <1>2, MessageKinds
<1>4. 1 \in Asks(mailbox, m.id) /\ 1 \notin Updates(mailbox)
      /\ \A x \in Ids \ {m.id} : 1 \notin Asks(mailbox, x)
  BY <1>2, <1>3 DEF Asks, Updates
<1> HIDE DEF m
<1>5. sleep[m.id].state = "asleep" /\ NodesOf(m.id) = {} /\ Asks(mailbox, m.id) = {1}
  BY <1>3, <1>4 DEF IInv, InOnePlace
<1>6. sleep[m.id].asked = time /\ sleep[m.id].timeout = m.timeout
  <2>1. /\ m.timeout = sleep[m.id].timeout
        /\ \/ sleep[m.id].asked = time
           \/ \E j \in Updates(mailbox) : j < 1
    BY <1>3, <1>4 DEF IInv, AskedInOrder, m
  <2>2. \A j \in Updates(mailbox) : ~(j < 1)
    BY TypeFacts
  <2>3. QED BY <2>1, <2>2
<1>7. m.timeout \in Nat /\ (time + m.timeout) % Range64 = time + m.timeout
  <2>1. m.timeout \in Nat /\ time + m.timeout < MaxTime
    BY <1>3, <1>5, <1>6, TypeFacts DEF IInv, Room
  <2>2. MaxTime < Range64 /\ Range64 \in Nat \ {0} /\ time \in Nat /\ MaxTime \in Nat
    BY ClockFits, Sizes, TypeFacts
  <2>3. time + m.timeout \in 0 .. Range64 - 1
    BY <2>1, <2>2
  <2>4. (Range64 * 0 + (time + m.timeout)) % Range64 = time + m.timeout
    BY <2>2, <2>3, DivisionUnique
  <2>5. Range64 * 0 + (time + m.timeout) = time + m.timeout
    BY <2>1, <2>2
  <2>6. QED BY <2>1, <2>4, <2>5
<1> DEFINE node == [id |-> m.id, expire |-> sleep[m.id].asked + sleep[m.id].timeout]
<1>8. node = [id |-> m.id, expire |-> (time + m.timeout) % Range64]
  BY <1>6, <1>7
<1>9. node.expire >= time
  BY <1>6, <1>7, TypeFacts
<1>10. WheelInv' /\ time' = time /\ pending' = pending \cup {node} /\ failed' = FALSE
  <2> HIDE DEF node
  <2>1. WheelInv
    BY DEF IInv
  <2>2. QED BY <1>3, <1>7, <1>8, <1>9, <2>1, TimeoutAdds
<1>11. QED
  BY <1>3, <1>4, <1>5, <1>10

LEMMA HandleRequestKeeps ==
  ASSUME IInv, HandleRequest
  PROVE  IInv'
<1>1. PICK id \in Ids, timeout \in Timeouts :
        LET node == [id |-> id, expire |-> sleep[id].asked + sleep[id].timeout] IN
        /\ Timeout(id, timeout)
        /\ WheelInv' /\ time' = time /\ ~failed'
        /\ pending' = pending \cup {node}
        /\ sleep[id].state = "asleep" /\ NodesOf(id) = {} /\ Asks(mailbox, id) = {1}
        /\ 1 \notin Updates(mailbox) /\ \A x \in Ids \ {id} : 1 \notin Asks(mailbox, x)
  BY RequestQueued
<1> DEFINE node == [id |-> id, expire |-> sleep[id].asked + sleep[id].timeout]
<1>2. mailbox # << >> /\ mailbox' = Tail(mailbox) /\ UNCHANGED <<clock, sent, sleep>>
  BY DEF HandleRequest, Handles
<1>3. /\ mailbox' \in Seq(Messages) /\ InOrder' /\ AskedInOrder'
      /\ \A x, i : i \in Asks(mailbox', x) <=> i \in Nat \ {0} /\ i + 1 \in Asks(mailbox, x)
  BY <1>1, <1>2, RestInOrder
<1>4. Types' /\ Room'
  BY <1>2, <1>3 DEF IInv, Types, Room
<1>5. node.id = id /\ node.expire = sleep[id].asked + sleep[id].timeout /\ pending' = pending \cup {node}
  BY <1>1
<1> HIDE DEF node
<1>6. NodesExact'
  BY <1>2, <1>5 DEF IInv, NodesExact
<1>7. NodesOf(id)' = {node} /\ \A x \in Ids \ {id} : NodesOf(x)' = NodesOf(x)
  BY <1>1, <1>5 DEF NodesOf
<1>8. Asks(mailbox', id) = {}
  BY <1>1, <1>3
<1>9. ASSUME NEW x \in Ids \ {id}, NEW i \in Asks(mailbox, x)
      PROVE  i \in Nat \ {0} /\ i - 1 \in Asks(mailbox', x)
  <2>1. i \in Nat \ {0} /\ i # 1
    BY <1>1 DEF Asks
  <2>2. i - 1 \in Nat \ {0} /\ (i - 1) + 1 = i
    BY <2>1
  <2>3. QED BY <1>3, <2>1, <2>2
<1>10. InOnePlace'
  <2> SUFFICES ASSUME NEW x \in Ids
               PROVE  IF sleep[x].state = "asleep"
                      THEN \/ NodesOf(x)' = {} /\ \E i \in Asks(mailbox', x) : Asks(mailbox', x) = {i}
                           \/ Asks(mailbox', x) = {} /\ \E n \in NodesOf(x)' : NodesOf(x)' = {n}
                      ELSE Asks(mailbox', x) = {} /\ NodesOf(x)' = {}
    BY <1>2 DEF InOnePlace
  <2>1. CASE x = id
    BY <1>1, <1>7, <1>8, <2>1
  <2>2. CASE x # id
    <3>1. NodesOf(x)' = NodesOf(x)
      BY <1>7, <2>2
    <3>2. Asks(mailbox, x) = {} => Asks(mailbox', x) = {}
      BY <1>3
    <3>3. ASSUME NEW i \in Asks(mailbox, x), Asks(mailbox, x) = {i}
          PROVE  \E k \in Asks(mailbox', x) : Asks(mailbox', x) = {k}
      <4>1. i \in Nat \ {0} /\ i - 1 \in Asks(mailbox', x)
        BY <1>9, <2>2
      <4>2. \A k \in Asks(mailbox', x) : k \in Nat /\ k + 1 = i
        BY <1>3, <3>3
      <4>3. \A k \in Asks(mailbox', x) : k = i - 1
        BY <4>1, <4>2
      <4>4. QED BY <4>1, <4>3
    <3>4. QED BY <3>1, <3>2, <3>3 DEF IInv, InOnePlace
  <2>3. QED BY <2>1, <2>2
<1>11. QED
  BY <1>1, <1>3, <1>4, <1>6, <1>10 DEF IInv

LEMMA Step == IInv /\ [Next]_vars => IInv'
<1> SUFFICES ASSUME IInv, [Next]_vars PROVE IInv'
  OBVIOUS
<1>1. CASE Store
  BY <1>1, StoreKeeps
<1>2. CASE Send
  BY <1>2, SendKeeps
<1>3. CASE UpdateTick
  BY <1>3, UpdateTickKeeps
<1>4. CASE Updated
  BY <1>4, UpdatedKeeps
<1>5. CASE HandleRequest
  BY <1>5, HandleRequestKeeps
<1>6. ASSUME NEW id \in Ids, NEW t \in Timeouts, Sleep(id, t) PROVE IInv'
  BY <1>6, SleepKeeps
<1>7. CASE UNCHANGED vars
  BY <1>7, StutterKeeps
<1>8. QED
  BY <1>1, <1>2, <1>3, <1>4, <1>5, <1>6, <1>7 DEF Next, Serve

(* What the service does to the wheel is a step of the timer that keeps one *)
(* set of timeouts: nothing else touches the lists.                         *)
LEMMA ServiceStep == IInv /\ [Next]_vars => [Abstract!Next]_(Abstract!vars)
<1> SUFFICES ASSUME IInv, [Next]_vars PROVE [Abstract!Next]_(Abstract!vars)
  OBVIOUS
<1>1. WheelInv
  BY DEF IInv
<1>2. CASE UpdateTick
  BY <1>1, <1>2, WheelTick DEF UpdateTick
<1>3. CASE HandleRequest
  BY <1>1, <1>3, RequestQueued, WheelTimeout
<1>4. CASE ~UpdateTick /\ ~HandleRequest
  <2>1. UNCHANGED wheel
    BY <1>4 DEF Next, Serve, Store, Send, Sleep, Updated, vars
  <2>2. QED BY <1>1, <2>1, WheelUnchanged
<1>5. QED
  BY <1>2, <1>3, <1>4

(* Whoever is woken slept out: the update that the service handles is later *)
(* than what had been sent when the sleep began by more than the timeout.   *)
LEMMA WokenStep ==
  ASSUME IInv, [Next]_vars, NEW id \in Ids, sleep[id].state = "asleep", sleep'[id].state = "awake"
  PROVE  Head(mailbox).timestamp > sleep[id].asked + sleep[id].timeout
<1>1. CASE UpdateTick
  <2>1. sleep'[id] # sleep[id]
    OBVIOUS
  <2>2. sleep[id].asked + sleep[id].timeout = time
        /\ Head(mailbox) = mailbox[1] /\ mailbox[1].timestamp > time
    BY <1>1, <2>1, TickWakes
  <2>3. QED BY <2>2
<1>2. ASSUME NEW x \in Ids, NEW t \in Timeouts, Sleep(x, t) PROVE FALSE
  BY <1>2 DEF Sleep, IInv, Types
<1>3. CASE UNCHANGED sleep
  BY <1>3
<1>4. QED
  BY <1>1, <1>2, <1>3 DEF Next, Serve, Store, Send, Updated, HandleRequest, vars

LEMMA Invariant == Spec => []IInv
BY InitIInv, Step, PTL DEF Spec

(* In the service, as in the wheel by itself, every node is in the list in  *)
(* which _tick will come upon it.                                           *)
THEOREM ServiceInPlace == Spec => []InPlace
<1>1. IInv => InPlace
  BY DEF IInv, WheelInv
<1>2. QED
  BY <1>1, Invariant, PTL

(* What the handlers of UpdateMessage and TimeoutRequest do to the wheel is *)
(* what the timer with one set of timeouts does.                            *)
THEOREM ServiceSendsOnTime == Spec => SendsOnTime
<1>1. Init => Abstract!Init
  BY WheelInitInv DEF Init, WheelInit, Abstract!Init
<1>2. QED
  BY <1>1, Invariant, ServiceStep, PTL DEF Spec, SendsOnTime, Abstract!Spec

(* No sum wraps around in the service: _queue's assertion holds.            *)
THEOREM ServiceQueueAssert == Spec => []QueueAssert
<1>1. IInv => QueueAssert
  BY DEF IInv, QueueAssert
<1>2. QED
  BY <1>1, Invariant, PTL

(* Nothing in the wheel is overdue, and whoever sleeps has one request in   *)
(* the mailbox or one node in the wheel, never both and never neither.      *)
THEOREM ServiceNoneOverdue == Spec => []NoneOverdue
<1>1. IInv => NoneOverdue
  <2> SUFFICES ASSUME IInv PROVE NoneOverdue
    OBVIOUS
  <2>1. \A n \in pending : n.expire >= time
    BY TypeFacts
  <2>2. QED BY <2>1 DEF NoneOverdue, IInv, InOnePlace, Asks, NodesOf
<1>2. QED
  BY <1>1, Invariant, PTL

(* Nobody is woken before the clock has passed what had been sent when the  *)
(* sleep began by more than the timeout.                                    *)
THEOREM ServiceDeadlineExact == Spec => DeadlineExact
<1>1. IInv /\ [Next]_vars =>
        [\A id \in Ids : sleep[id].state = "asleep" /\ sleep'[id].state = "awake"
           => Head(mailbox).timestamp > sleep[id].asked + sleep[id].timeout]_vars
  BY WokenStep
<1>2. QED
  BY <1>1, Invariant, PTL DEF Spec, DeadlineExact
=============================================================================

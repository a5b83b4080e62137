-------------------------- MODULE StructureProofs ---------------------------
(***************************************************************************)
(* Proofs about two data structures of a node, the timing wheel            *)
(* (TimerWheel) and the ring buffer of a mailbox (MailboxRing), for every  *)
(* number and size of levels, every capacity and every set of timers and   *)
(* messages.  Their loops are recursive functions; what these compute is   *)
(* shown by induction on a set (Climb), which comes from the least member  *)
(* of a set of naturals (WFMin).                                           *)
(*                                                                         *)
(* The timing wheel.  TimerInv says of the timers that wait (Filed) that   *)
(* each is once in the list that Home gives for its expiry and the clock,  *)
(* and that the timers of one expiry are in one list in the order they     *)
(* were added.  Its key is HomeStays: when the clock moves by one, a timer *)
(* belongs to another list only if it was in the list that timer_shift     *)
(* moves, because a digit of the clock changes only when all lower ones    *)
(* become zero.  MoveFiles then follows move_list turn by turn.  Timers    *)
(* that are due are in the list of the current tick until they are         *)
(* dispatched (Dispatched), which gives NoneLost, OnTime and FireInOrder.  *)
(*                                                                         *)
(* The mailbox.  RingInv says that the indices are cells of the array and  *)
(* the cells from head to tail hold messages.  The refinement then follows *)
(* cell by cell: a push appends one cell, a pop removes the first, and a   *)
(* doubling renumbers the cells without changing what they hold.           *)
(***************************************************************************)
EXTENDS TimerWheel, MailboxRing, SequenceTheorems, WellFoundedInduction, TLAPS

-----------------------------------------------------------------------------
(* Naturals *)

\* A set of naturals has a least member.
LEMMA Least ==
    ASSUME NEW T, T \subseteq Nat, T # {}
    PROVE  \E x \in T : \A y \in T : x <= y
<1>1. PICK x \in T : \A y \in T : ~(<<y, x>> \in OpToRel(<, Nat))
    BY NatLessThanWellFounded, WFMin
<1>2. \A y, z \in Nat : y < z => <<y, z>> \in OpToRel(<, Nat)
    BY DEF OpToRel
<1>3. \A y \in T : ~(y < x)
    BY <1>1, <1>2
<1>4. x \in Nat
    OBVIOUS
<1> HIDE <1>1, <1>2
<1>5. \A y \in T : x <= y
    BY <1>3, <1>4
<1> QED BY <1>5

\* Induction up to a bound, for a set.
LEMMA Climb ==
    ASSUME NEW S, NEW m \in Nat, 0 \in S, \A k \in 1..m : k - 1 \in S => k \in S
    PROVE  0..m \subseteq S
<1> DEFINE T == {k \in 0..m : k \notin S}
<1> SUFFICES ASSUME T # {} PROVE FALSE
    OBVIOUS
<1>1. PICK x \in T : \A y \in T : x <= y
    <2> T \subseteq Nat
        OBVIOUS
    <2> HIDE DEF T
    <2> QED BY Least
<1>2. x \in 0..m /\ x \notin S /\ x # 0
    BY <1>1
<1>3. x - 1 \in 0..m /\ ~(x <= x - 1) /\ x \in 1..m
    BY <1>2
<1>4. x - 1 \in S
    BY <1>1, <1>3
<1> QED BY <1>2, <1>3, <1>4

\* The least member of a set of naturals.
LEMMA MinOf ==
    ASSUME NEW T, T \subseteq Nat, T # {}
    PROVE  Min(T) \in T /\ \A y \in T : Min(T) <= y
BY Least DEF Min

\* ... and the only one that is in it and below all others.
LEMMA MinIs ==
    ASSUME NEW T, T \subseteq Nat, NEW x \in T, \A y \in T : x <= y
    PROVE  Min(T) = x
<1>1. Min(T) \in T /\ Min(T) <= x /\ x <= Min(T)
    BY MinOf
<1>2. Min(T) \in Nat /\ x \in Nat
    BY <1>1
<1> HIDE DEF Min
<1> QED BY <1>1, <1>2

\* Products grow with a factor.
LEMMA Grows ==
    ASSUME NEW a \in Int, NEW b \in Int, a <= b, NEW s \in Nat
    PROVE  a * s <= b * s
<1>1. (b - a) \in Nat
    OBVIOUS
<1>2. \A p, q \in Nat : p * q >= 0
    OBVIOUS
<1>3. (b - a) * s >= 0
    BY <1>1, <1>2
<1>4. (b - a) * s = b * s - a * s
    OBVIOUS
<1>5. a * s \in Int /\ b * s \in Int
    OBVIOUS
<1> QED BY <1>3, <1>4, <1>5

\* Quotient and remainder.
Quot(x, s) == x \div s
Rem(x, s) == x % s

\* A number lies in its block of s numbers.
LEMMA InBlock ==
    ASSUME NEW x \in Nat, NEW s \in Nat \ {0}
    PROVE  /\ Quot(x, s) \in Nat /\ Rem(x, s) \in Nat /\ Rem(x, s) \in 0..(s - 1)
           /\ x = s * Quot(x, s) + Rem(x, s)
<1>1. Rem(x, s) \in 0..(s - 1)
    BY DEF Rem
<1>2. Quot(x, s) \in Nat
    BY DEF Quot
<1>3. x = s * Quot(x, s) + Rem(x, s)
    BY DEF Quot, Rem
<1> QED BY <1>1, <1>2, <1>3

\* ... and in no other.
LEMMA BlockIs ==
    ASSUME NEW x \in Nat, NEW s \in Nat \ {0}, NEW q \in Nat, NEW r \in 0..(s - 1), x = s * q + r
    PROVE  Quot(x, s) = q /\ Rem(x, s) = r
<1> DEFINE p == Quot(x, s)
           u == Rem(x, s)
<1>1. p \in Nat /\ u \in 0..(s - 1) /\ x = s * p + u
    BY InBlock
<1> HIDE DEF p, u
<1>2. CASE p <= q - 1
    <2>1. p * s <= (q - 1) * s
        BY <1>1, <1>2, Grows
    <2>2. (q - 1) * s = s * q - s /\ p * s = s * p
        BY <1>1
    <2> QED BY <1>1, <2>1, <2>2
<1>3. CASE q <= p - 1
    <2>1. q * s <= (p - 1) * s
        BY <1>1, <1>3, Grows
    <2>2. (p - 1) * s = s * p - s /\ q * s = s * q
        BY <1>1
    <2> QED BY <1>1, <2>1, <2>2
<1>4. CASE p = q
    <2>1. u = r
        BY <1>1, <1>4
    <2> QED BY <1>4, <2>1 DEF p, u
<1> QED BY <1>1, <1>2, <1>3, <1>4

\* Blocks of blocks.
LEMMA BlockOfBlocks ==
    ASSUME NEW x \in Nat, NEW s \in Nat \ {0}, NEW m \in Nat \ {0}
    PROVE  /\ Quot(x, m * s) = Quot(Quot(x, s), m)
           /\ Rem(x, m * s) = s * Rem(Quot(x, s), m) + Rem(x, s)
           /\ m * s \in Nat \ {0}
<1> DEFINE p == Quot(x, s)
           u == Rem(x, s)
           q == Quot(p, m)
           v == Rem(p, m)
<1>1. p \in Nat /\ u \in 0..(s - 1) /\ x = s * p + u
    BY InBlock
<1>2. q \in Nat /\ v \in 0..(m - 1) /\ p = m * q + v
    BY <1>1, InBlock
<1> HIDE DEF p, u, q, v
<1>3. m * s \in Nat \ {0}
    <2>1. 1 * s <= m * s
        BY Grows
    <2> QED BY <2>1
<1>4. x = (m * s) * q + (s * v + u)
    <2>1. s * (m * q + v) = (m * s) * q + s * v
        BY <1>2
    <2> QED BY <1>1, <1>2, <2>1
<1>5. s * v + u \in 0..(m * s - 1)
    <2>1. v * s <= (m - 1) * s
        BY <1>2, Grows
    <2>2. (m - 1) * s = m * s - s /\ v * s = s * v
        BY <1>2
    <2>3. s * v \in Nat
        BY <1>2
    <2> QED BY <1>1, <1>3, <2>1, <2>2, <2>3
<1>6. Quot(x, m * s) = q /\ Rem(x, m * s) = s * v + u
    BY <1>2, <1>3, <1>4, <1>5, BlockIs
<1>7. Quot(x, m * s) = Quot(Quot(x, s), m)
    BY <1>6 DEF p, q
<1>8. Rem(x, m * s) = s * Rem(Quot(x, s), m) + Rem(x, s)
    BY <1>6 DEF p, u, v
<1> QED BY <1>3, <1>7, <1>8

\* The same, of a block of c numbers.
LEMMA BlockAbove ==
    ASSUME NEW x \in Nat, NEW s \in Nat \ {0}, NEW m \in Nat \ {0}, NEW c \in Nat \ {0}, c = m * s
    PROVE  Quot(x, c) = Quot(Quot(x, s), m)
BY BlockOfBlocks

\* A product is zero when a factor is.
LEMMA ZeroFactor ==
    ASSUME NEW s \in Nat \ {0}, NEW v \in Nat
    PROVE  s * v \in Nat /\ (s * v = 0 <=> v = 0)
<1>1. CASE v = 0
    BY <1>1
<1>2. CASE 1 <= v
    <2>1. 1 * s <= v * s
        BY <1>2, Grows
    <2> QED BY <1>2, <2>1
<1> QED BY <1>1, <1>2

\* One tick: the block changes when the new time is the first of one.
LEMMA BlockTick ==
    ASSUME NEW t \in Nat, NEW s \in Nat \ {0}, Rem(t + 1, s) # 0
    PROVE  Quot(t + 1, s) = Quot(t, s)
<1> DEFINE p == Quot(t + 1, s)
           u == Rem(t + 1, s)
<1>0. t + 1 \in Nat
    OBVIOUS
<1>1. p \in Nat /\ u \in 0..(s - 1) /\ t + 1 = s * p + u
    BY <1>0, InBlock
<1>2. u # 0
    OBVIOUS
<1> HIDE DEF p, u
<1>3. s * p \in Nat
    BY <1>1
<1>4. t = s * p + (u - 1) /\ u - 1 \in 0..(s - 1)
    BY <1>1, <1>2, <1>3
<1>5. Quot(t, s) = p
    BY <1>1, <1>4, BlockIs
<1> QED BY <1>5 DEF p

\* A number that is not below the first of a block is not in an earlier one.
LEMMA BlockPast ==
    ASSUME NEW t \in Nat, NEW s \in Nat \ {0}, Rem(t + 1, s) = 0, NEW x \in Nat, x > t
    PROVE  Quot(x, s) # Quot(t, s)
<1> DEFINE p == Quot(t + 1, s)
           q == Quot(t, s)
<1>0. t + 1 \in Nat
    OBVIOUS
<1>1. p \in Nat /\ t + 1 = s * p
    BY <1>0, InBlock
<1>2. q \in Nat /\ Rem(t, s) \in 0..(s - 1) /\ t = s * q + Rem(t, s)
    BY InBlock
<1>3. Quot(x, s) \in Nat /\ Rem(x, s) \in 0..(s - 1) /\ x = s * Quot(x, s) + Rem(x, s)
    BY InBlock
<1> HIDE DEF p, q
<1>4. SUFFICES ASSUME Quot(x, s) = q PROVE FALSE
    BY DEF q
<1>5. s * q <= t /\ t + 1 <= x /\ x < s * q + s
    BY <1>2, <1>3, <1>4
<1>6. CASE p <= q
    <2>1. p * s <= q * s
        BY <1>1, <1>2, <1>6, Grows
    <2> QED BY <1>1, <1>2, <1>5, <2>1
<1>7. CASE q + 1 <= p
    <2>1. (q + 1) * s <= p * s
        BY <1>1, <1>2, <1>7, Grows
    <2>2. (q + 1) * s = s * q + s /\ p * s = s * p
        BY <1>1, <1>2
    <2> QED BY <1>1, <1>2, <1>5, <2>1, <2>2
<1> QED BY <1>1, <1>2, <1>6, <1>7

-----------------------------------------------------------------------------
(* The turns of the levels *)

\* The turns of the first n levels.
Turns(g, n) == g = [i \in 0..n |-> IF i = 0 THEN Near ELSE Level * g[i - 1]]

\* There are such, for any number of levels.
LEMMA TurnsExist ==
    ASSUME NEW n \in Nat
    PROVE  \E g : Turns(g, n)
<1> DEFINE S == {k \in 0..n : \E g : Turns(g, k)}
<1>1. 0 \in S
    <2> DEFINE g == [i \in 0..0 |-> Near]
    <2>1. Turns(g, 0)
        BY DEF Turns
    <2> QED BY <2>1
<1>2. ASSUME NEW k \in 1..n, k - 1 \in S PROVE k \in S
    <2>1. PICK f : Turns(f, k - 1)
        BY <1>2
    <2> DEFINE g == [i \in 0..k |-> IF i = 0 THEN Near ELSE Level * f[i - 1]]
    <2>2. \A i \in 0..(k - 1) : g[i] = f[i]
        BY <2>1 DEF Turns
    <2>3. \A i \in 0..k : i # 0 => g[i - 1] = f[i - 1]
        <3>1. \A i \in 0..k : i # 0 => i - 1 \in 0..(k - 1)
            OBVIOUS
        <3> HIDE DEF g
        <3> QED BY <2>2, <3>1
    <2>4. g = [i \in 0..k |-> IF i = 0 THEN Near ELSE Level * g[i - 1]]
        BY <2>3
    <2>5. Turns(g, k)
        BY <2>4 DEF Turns
    <2> QED BY <2>5
<1>3. 0..n \subseteq S
    <2> HIDE DEF S
    <2> QED BY <1>1, <1>2, Climb
<1> QED BY <1>3

\* The sizes of the wheel.
LEMMA Sizes ==
    /\ Near \in Nat \ {0, 1} /\ Level \in Nat \ {0, 1} /\ Levels \in Nat \ {0, 1}
    /\ Span[0] = Near
    /\ \A i \in 1..Levels : Span[i] = Level * Span[i - 1]
    /\ \A i \in 0..Levels : Span[i] \in Nat \ {0}
<1>1. Near \in Nat \ {0, 1} /\ Level \in Nat \ {0, 1} /\ Levels \in Nat \ {0, 1}
    BY WheelAssumption
<1>2. Turns(Span, Levels)
    <2>1. Span = CHOOSE g : Turns(g, Levels)
        BY DEF Span, Turns
    <2> QED BY <1>1, <2>1, TurnsExist
<1>3. Span[0] = Near /\ \A i \in 1..Levels : Span[i] = Level * Span[i - 1]
    BY <1>1, <1>2 DEF Turns
<1> HIDE DEF Span
<1>4. \A i \in 0..Levels : Span[i] \in Nat \ {0}
    <2> DEFINE S == {i \in 0..Levels : Span[i] \in Nat \ {0}}
    <2>1. 0 \in S
        BY <1>1, <1>3
    <2>2. ASSUME NEW k \in 1..Levels, k - 1 \in S PROVE k \in S
        <3>1. Span[k - 1] \in Nat \ {0} /\ Span[k] = Level * Span[k - 1]
            BY <1>3, <2>2
        <3>2. Level * Span[k - 1] \in Nat \ {0}
            BY <1>1, <3>1, BlockOfBlocks
        <3> QED BY <3>1, <3>2
    <2>3. 0..Levels \subseteq S
        <3> HIDE DEF S
        <3> QED BY <1>1, <2>1, <2>2, Climb
    <2> QED BY <2>3
<1> QED BY <1>1, <1>3, <1>4
\* A turn of a level is Level turns of the one below.
LEMMA TurnAbove ==
    ASSUME NEW x \in Nat, NEW j \in 1..Levels
    PROVE  Quot(x, Span[j]) = Quot(Quot(x, Span[j - 1]), Level)
<1>1. j - 1 \in 0..Levels
    BY Sizes
<1>2. Span[j] = Level * Span[j - 1] /\ Span[j - 1] \in Nat \ {0} /\ Level \in Nat \ {0}
    BY <1>1, Sizes
<1> DEFINE s == Span[j - 1]
<1>3. s \in Nat \ {0} /\ Level \in Nat \ {0}
    BY <1>2
<1> HIDE DEF s
<1>4. Span[j] = Level * s /\ Span[j] \in Nat \ {0}
    BY <1>2, Sizes DEF s
<1>5. Quot(x, Span[j]) = Quot(Quot(x, s), Level)
    BY <1>3, <1>4, BlockAbove
<1> QED BY <1>5 DEF s

\* Two times in one turn of a level are in one turn of every higher level.
LEMMA Nested ==
    ASSUME NEW x \in Nat, NEW y \in Nat, NEW i \in 0..Levels, NEW k \in i..Levels,
           Quot(x, Span[i]) = Quot(y, Span[i])
    PROVE  Quot(x, Span[k]) = Quot(y, Span[k])
<1> DEFINE S == {j \in 0..Levels : j >= i => Quot(x, Span[j]) = Quot(y, Span[j])}
<1>0. Levels \in Nat /\ i \in Nat
    BY Sizes
<1>1. 0 \in S
    BY <1>0
<1>2. ASSUME NEW j \in 1..Levels, j - 1 \in S PROVE j \in S
    <2>1. CASE j <= i
        BY <2>1, <1>0
    <2>2. CASE j > i
        <3>1. Quot(x, Span[j - 1]) = Quot(y, Span[j - 1])
            BY <1>0, <1>2, <2>2
        <3>2. Quot(x, Span[j]) = Quot(Quot(x, Span[j - 1]), Level)
            BY TurnAbove
        <3>3. Quot(y, Span[j]) = Quot(Quot(y, Span[j - 1]), Level)
            BY TurnAbove
        <3>7. Quot(x, Span[j]) = Quot(y, Span[j])
            BY <3>1, <3>2, <3>3
        <3> QED BY <3>7
    <2> QED BY <1>0, <2>1, <2>2
<1>3. 0..Levels \subseteq S
    <2> HIDE DEF S
    <2> QED BY <1>0, <1>1, <1>2, Climb
<1> QED BY <1>0, <1>3

\* A time that is not the first of a turn is not the first of a longer one.
LEMMA NotFirst ==
    ASSUME NEW x \in Nat, NEW i \in 0..Levels, NEW k \in i..Levels, Rem(x, Span[i]) # 0
    PROVE  Rem(x, Span[k]) # 0
<1> DEFINE S == {j \in 0..Levels : j >= i => Rem(x, Span[j]) # 0}
<1>0. Levels \in Nat /\ i \in Nat
    BY Sizes
<1>1. 0 \in S
    BY <1>0
<1>2. ASSUME NEW j \in 1..Levels, j - 1 \in S PROVE j \in S
    <2>1. CASE j <= i
        BY <2>1, <1>0
    <2>2. CASE j > i
        <3>1. Rem(x, Span[j - 1]) # 0
            BY <1>0, <1>2, <2>2
        <3>2. Span[j] = Level * Span[j - 1] /\ Span[j - 1] \in Nat \ {0} /\ Level \in Nat \ {0}
            BY Sizes
        <3>3. Rem(x, Span[j]) = Span[j - 1] * (Rem(Quot(x, Span[j - 1]), Level)) + Rem(x, Span[j - 1])
            BY <3>2, BlockOfBlocks
        <3>4. Quot(x, Span[j - 1]) \in Nat /\ Rem(x, Span[j - 1]) \in Nat
            BY <3>2, InBlock
        <3>5. Rem(Quot(x, Span[j - 1]), Level) \in Nat
            BY <3>2, <3>4, InBlock
        <3>6. Span[j - 1] * (Rem(Quot(x, Span[j - 1]), Level)) \in Nat
            BY <3>2, <3>5, ZeroFactor
        <3> QED BY <3>1, <3>3, <3>4, <3>6
    <2> QED BY <1>0, <2>1, <2>2
<1>3. 0..Levels \subseteq S
    <2> HIDE DEF S
    <2> QED BY <1>0, <1>1, <1>2, Climb
<1> QED BY <1>0, <1>3

\* The digit of a time on a level is zero when the turn above begins there.
LEMMA Digit ==
    ASSUME NEW x \in Nat, NEW i \in 1..Levels
    PROVE  /\ Rem(Quot(x, Span[i - 1]), Level) \in 0..(Level - 1)
           /\ Rem(x, Span[i]) = 0 => Rem(Quot(x, Span[i - 1]), Level) = 0
           /\ Rem(x, Span[i - 1]) = 0 /\ Rem(x, Span[i]) # 0 => Rem(Quot(x, Span[i - 1]), Level) # 0
<1>0. i - 1 \in 0..Levels
    BY Sizes
<1>1. Span[i] = Level * Span[i - 1] /\ Span[i - 1] \in Nat \ {0} /\ Level \in Nat \ {0}
    BY <1>0, Sizes
<1>2. Rem(x, Span[i]) = Span[i - 1] * (Rem(Quot(x, Span[i - 1]), Level)) + Rem(x, Span[i - 1])
    BY <1>1, BlockOfBlocks
<1>3. Quot(x, Span[i - 1]) \in Nat /\ Rem(x, Span[i - 1]) \in Nat
    BY <1>1, InBlock
<1>4. Rem(Quot(x, Span[i - 1]), Level) \in 0..(Level - 1)
    BY <1>1, <1>3, InBlock
<1> DEFINE d == Rem(Quot(x, Span[i - 1]), Level)
           p == Span[i - 1] * d
           r == Rem(x, Span[i - 1])
<1>5. p \in Nat /\ (p = 0 <=> d = 0)
    BY <1>1, <1>4, ZeroFactor
<1>6. Rem(x, Span[i]) = p + r /\ r \in Nat
    BY <1>2, <1>3
<1> HIDE DEF p, r, d
<1>7. Rem(x, Span[i]) = 0 => d = 0
    BY <1>5, <1>6
<1>8. r = 0 /\ Rem(x, Span[i]) # 0 => d # 0
    BY <1>5, <1>6
<1> QED BY <1>4, <1>7, <1>8 DEF d, r

\* A turn below the last level is at most half the clock.
LEMMA HalfClock ==
    ASSUME NEW i \in 0..(Levels - 1)
    PROVE  2 * Span[i] <= Clock /\ Clock \in Nat \ {0}
<1> DEFINE S == {j \in 0..Levels : j > i => 2 * Span[i] <= Span[j]}
<1>0. Levels \in Nat /\ i \in Nat /\ Levels \in 0..Levels
    BY Sizes
<1>1. 0 \in S
    BY <1>0
<1>2. ASSUME NEW j \in 1..Levels, j - 1 \in S PROVE j \in S
    <2>0. j - 1 \in 0..Levels /\ j \in 0..Levels
        BY <1>0
    <2>1. /\ Span[j] = Level * Span[j - 1] /\ Span[j - 1] \in Nat /\ Level \in Nat /\ 2 <= Level
          /\ Span[i] \in Nat
        BY <1>0, <2>0, Sizes
    <2>2. 2 * Span[j - 1] <= Span[j]
        BY <2>1, Grows
    <2>3. CASE j <= i
        BY <2>3, <1>0, <2>0
    <2>4. CASE j > i + 1
        <3>1. 2 * Span[i] <= Span[j - 1]
            BY <1>0, <1>2, <2>4
        <3>2. Span[j] \in Nat
            BY <2>0, Sizes
        <3>3. 2 * Span[i] <= Span[j]
            BY <2>1, <2>2, <3>1, <3>2
        <3> QED BY <2>0, <3>3
    <2>5. CASE j = i + 1
        <3>1. 2 * Span[i] <= Span[j]
            BY <1>0, <2>2, <2>5
        <3> QED BY <2>0, <3>1
    <2> QED BY <1>0, <2>3, <2>4, <2>5
<1>3. 0..Levels \subseteq S
    <2> HIDE DEF S
    <2> QED BY <1>0, <1>1, <1>2, Climb
<1>4. 2 * Span[i] <= Span[Levels]
    BY <1>0, <1>3
<1> QED BY <1>0, <1>4, Sizes DEF Clock

-----------------------------------------------------------------------------
(* The list of a timer *)

\* Times of the clock.
Times == 0..(Clock - 1)

\* Two times are in one turn of level k.
Same(x, y, k) == Quot(x, Span[k]) = Quot(y, Span[k])

\* The list on level k of a timer that expires at ex.
ListOn(ex, k) == IF k = 0 THEN <<0, Rem(ex, Near)>> ELSE <<k, Rem(Quot(ex, Span[k - 1]), Level)>>

\* The clock as a number.
LEMMA ClockIs ==
    /\ Clock \in Nat \ {0} /\ Times \subseteq Nat /\ Clock = Span[Levels]
    /\ MaxDelay \in Nat /\ 2 * MaxDelay < Clock
<1>1. 0 \in 0..(Levels - 1)
    BY Sizes
<1>2. Clock \in Nat \ {0}
    BY <1>1, HalfClock
<1>3. MaxDelay \in 1..(Clock \div 2 - 1)
    BY WheelAssumption
<1> DEFINE c == Clock
<1>4. Clock = Span[Levels]
    BY DEF Clock
<1> HIDE DEF c
<1>5. c \in Nat \ {0} /\ MaxDelay \in 1..(c \div 2 - 1)
    BY <1>2, <1>3 DEF c
<1>6. MaxDelay \in Nat /\ 2 * MaxDelay < c
    BY <1>5
<1> QED BY <1>2, <1>4, <1>6 DEF Times, c

\* All times are in the one turn of the last level.
LEMMA LastLevel ==
    ASSUME NEW x \in Times, NEW y \in Times
    PROVE  Same(x, y, Levels)
<1>1. x \in Nat /\ y \in Nat /\ Clock \in Nat \ {0} /\ Clock = Span[Levels]
    BY ClockIs
<1>2. x = Clock * 0 + x /\ y = Clock * 0 + y
    BY <1>1
<1>3. Quot(x, Clock) = 0
    BY <1>1, <1>2, BlockIs DEF Times
<1>4. Quot(y, Clock) = 0
    BY <1>1, <1>2, BlockIs DEF Times
<1> QED BY <1>1, <1>3, <1>4 DEF Same

\* The lists are lists of the wheel.
LEMMA ListOnType ==
    ASSUME NEW ex \in Nat, NEW k \in 0..Levels
    PROVE  ListOn(ex, k) \in Lists
<1>1. CASE k = 0
    <2>1. Near \in Nat \ {0}
        BY Sizes
    <2>2. Rem(ex, Near) \in 0..(Near - 1)
        BY <2>1, InBlock
    <2> QED BY <1>1, <2>2 DEF ListOn, Lists
<1>2. CASE k # 0
    <2>1. k \in 1..Levels
        BY <1>2, Sizes
    <2>2. Rem(Quot(ex, Span[k - 1]), Level) \in 0..(Level - 1)
        BY <2>1, Digit
    <2> QED BY <1>2, <2>1, <2>2 DEF ListOn, Lists
<1> QED BY <1>1, <1>2

\* A timer is on the level from which on it is in the same turn as now.
LEMMA HomeIs ==
    ASSUME NEW ex \in Times, NEW now \in Times, NEW k \in 0..Levels,
           Same(ex, now, k), k # 0 => ~Same(ex, now, k - 1)
    PROVE  Home(ex, now) = ListOn(ex, k)
<1> DEFINE T == {j \in 0..Levels : Same(ex, now, j)}
<1>0. ex \in Nat /\ now \in Nat /\ Levels \in Nat
    BY ClockIs, Sizes
<1>1. T \subseteq Nat /\ k \in T
    BY <1>0
<1>2. \A j \in T : k <= j
    <2> SUFFICES ASSUME NEW j \in T, ~(k <= j) PROVE FALSE
        OBVIOUS
    <2>1. j \in 0..Levels /\ k - 1 \in j..Levels /\ k # 0
        BY <1>0
    <2>2. Same(ex, now, j)
        OBVIOUS
    <2>3. Same(ex, now, k - 1)
        BY <1>0, <2>1, <2>2, Nested DEF Same
    <2> QED BY <2>1, <2>3
<1>3. Min(T) = k
    <2> HIDE DEF T
    <2> QED BY <1>1, <1>2, MinIs
<1>4. T = {j \in 0..Levels : ex \div Span[j] = now \div Span[j]}
    BY DEF Same, Quot
<1>5. Home(ex, now) = IF Min(T) = 0 THEN <<0, ex % Near>>
                      ELSE <<Min(T), (ex \div Span[Min(T) - 1]) % Level>>
    BY <1>4 DEF Home
<1> HIDE DEF T
<1> QED BY <1>3, <1>5 DEF ListOn, Quot, Rem

\* Every timer is on some level.
LEMMA HomeHas ==
    ASSUME NEW ex \in Times, NEW now \in Times
    PROVE  /\ \E k \in 0..Levels : /\ Same(ex, now, k) /\ (k # 0 => ~Same(ex, now, k - 1))
                                   /\ Home(ex, now) = ListOn(ex, k)
           /\ Home(ex, now) \in Lists
<1> DEFINE T == {j \in 0..Levels : Same(ex, now, j)}
<1>0. ex \in Nat /\ now \in Nat /\ Levels \in Nat
    BY ClockIs, Sizes
<1>1. T \subseteq Nat /\ Levels \in T
    BY <1>0, LastLevel
<1>2. PICK k \in T : \A j \in T : k <= j
    <2> HIDE DEF T
    <2> QED BY <1>1, Least
<1>3. k \in 0..Levels /\ Same(ex, now, k)
    BY <1>2
<1>4. ASSUME k # 0, Same(ex, now, k - 1) PROVE FALSE
    <2>1. k - 1 \in T /\ ~(k <= k - 1)
        BY <1>0, <1>3, <1>4
    <2> QED BY <1>2, <2>1
<1>5. Home(ex, now) = ListOn(ex, k)
    BY <1>3, <1>4, HomeIs
<1>6. Home(ex, now) \in Lists
    BY <1>0, <1>3, <1>5, ListOnType
<1> QED BY <1>3, <1>4, <1>5, <1>6

\* A timer in the same turn of a level below the last is ahead of now, and
\* not beyond the wrap of the clock.
LEMMA Ahead ==
    ASSUME NEW t \in Times, NEW r \in 1..MaxDelay, NEW ex, ex = (t + r) % Clock,
           NEW k \in 0..(Levels - 1), Same(ex, t, k)
    PROVE  ex = t + r /\ ex < Clock
<1>0. Clock \in Nat \ {0} /\ t \in Nat /\ MaxDelay \in Nat /\ 2 * MaxDelay < Clock /\ t < Clock
    BY ClockIs DEF Times
<1>1. Levels \in Nat /\ k \in 0..Levels
    BY Sizes
<1> DEFINE s == Span[k]
           c == Clock
<1>2. s \in Nat \ {0} /\ 2 * s <= c
    BY <1>1, Sizes, HalfClock
<1>3. Quot(ex, s) = Quot(t, s)
    BY DEF Same
<1>4. c \in Nat \ {0} /\ t \in Nat /\ MaxDelay \in Nat /\ 2 * MaxDelay < c /\ t < c /\ ex = (t + r) % c
    BY <1>0
<1> HIDE DEF s, c
<1>5. CASE t + r < c
    BY <1>4, <1>5 DEF c
<1>6. CASE t + r >= c
    <2>1. t + r - c \in 0..(c - 1) /\ t + r \in Nat
        BY <1>4, <1>6
    <2>2. t + r = c * 1 + (t + r - c)
        BY <1>4
    <2>3. Rem(t + r, c) = t + r - c
        BY <1>4, <2>1, <2>2, BlockIs
    <2>4. ex = t + r - c /\ ex \in Nat
        BY <1>4, <2>1, <2>3 DEF Rem
    <2> DEFINE q == s * Quot(t, s)
    <2>5. t = q + Rem(t, s) /\ Rem(t, s) \in 0..(s - 1) /\ q \in Int
        <3>1. t = q + Rem(t, s) /\ Rem(t, s) \in 0..(s - 1) /\ Quot(t, s) \in Nat
            BY <1>2, <1>4, InBlock
        <3>2. q \in Int
            BY <1>2, <3>1
        <3> QED BY <3>1, <3>2
    <2>6. ex = q + Rem(ex, s) /\ Rem(ex, s) \in 0..(s - 1)
        BY <1>2, <1>3, <2>4, InBlock
    <2> HIDE DEF q
    <2> QED BY <1>2, <1>4, <2>4, <2>5, <2>6
<1> QED BY <1>4, <1>5, <1>6

\* The list that timer_shift moves when the clock has come to ct.
Source(ct) ==
    LET digit(i) == (ct \div Span[i]) % Level
        i == Min({k \in 0..(Levels - 1) : digit(k) # 0})
    IN  IF ct = 0 THEN <<Levels, 0>> ELSE <<i + 1, digit(i)>>

\* It is the one of the lowest level whose turn does not begin.
LEMMA SourceIs ==
    ASSUME NEW ct \in Times, ct # 0, NEW k \in 1..Levels, Rem(ct, Span[k - 1]) = 0, Rem(ct, Span[k]) # 0
    PROVE  Source(ct) = <<k, Rem(Quot(ct, Span[k - 1]), Level)>>
<1> DEFINE d(i) == Rem(Quot(ct, Span[i]), Level)
           T == {i \in 0..(Levels - 1) : d(i) # 0}
<1>0. Levels \in Nat /\ ct \in Nat
    BY Sizes, ClockIs
<1>1. T \subseteq Nat /\ k - 1 \in T
    <2>1. d(k - 1) # 0
        BY <1>0, Digit
    <2> QED BY <1>0, <2>1
<1>2. \A j \in T : k - 1 <= j
    <2> SUFFICES ASSUME NEW j \in T, j < k - 1 PROVE FALSE
        BY <1>0
    <2>1. j \in 0..(Levels - 1) /\ j + 1 \in 1..Levels /\ j + 1 \in 0..Levels /\ k - 1 \in (j + 1)..Levels
        BY <1>0
    <2>2. Rem(ct, Span[j + 1]) = 0
        BY <1>0, <2>1, NotFirst
    <2>3. Rem(Quot(ct, Span[j + 1 - 1]), Level) = 0
        BY <1>0, <2>1, <2>2, Digit
    <2>4. j + 1 - 1 = j
        BY <2>1
    <2> QED BY <2>3, <2>4
<1>3. Min(T) = k - 1
    <2> HIDE DEF T
    <2> QED BY <1>1, <1>2, MinIs
<1>4. T = {i \in 0..(Levels - 1) : (ct \div Span[i]) % Level # 0}
    BY DEF Quot, Rem
<1>5. Source(ct) = <<Min(T) + 1, (ct \div Span[Min(T)]) % Level>>
    BY <1>4 DEF Source
<1> HIDE DEF T
<1>6. k - 1 + 1 = k
    BY <1>0
<1> QED BY <1>3, <1>5, <1>6 DEF Quot, Rem

\* When the clock ticks, the list of a pending timer is another one only if
\* it is the list that timer_shift moves.
LEMMA HomeStays ==
    ASSUME NEW t \in Times, NEW r \in 1..MaxDelay, NEW ex, ex = (t + r) % Clock,
           NEW ct, ct = (t + 1) % Clock, Home(ex, ct) # Home(ex, t)
    PROVE  ct % Near = 0 /\ Home(ex, t) = Source(ct)
<1>0. Clock \in Nat \ {0} /\ t \in Nat /\ t < Clock /\ r \in Nat \ {0} /\ Levels \in Nat \ {0}
    BY ClockIs, Sizes DEF Times
<1>1. ex \in Times /\ ct \in Times /\ ex \in Nat /\ ct \in Nat
    <2> DEFINE c == Clock
    <2>1. c \in Nat \ {0} /\ t + r \in Nat /\ t + 1 \in Nat
        BY <1>0
    <2> HIDE DEF c
    <2>2. (t + r) % c \in 0..(c - 1) /\ (t + 1) % c \in 0..(c - 1)
        BY <2>1
    <2>3. ex \in Times /\ ct \in Times
        BY <2>2 DEF c, Times
    <2> QED BY <2>3, ClockIs
<1>2. PICK k \in 0..Levels : /\ Same(ex, t, k) /\ (k # 0 => ~Same(ex, t, k - 1))
                             /\ Home(ex, t) = ListOn(ex, k)
    BY <1>1, HomeHas
<1>3. ct = IF t = Clock - 1 THEN 0 ELSE t + 1
    <2> DEFINE c == Clock
    <2>1. c \in Nat \ {0} /\ t \in Nat /\ t < c /\ ct = (t + 1) % c
        BY <1>0
    <2> HIDE DEF c
    <2>2. CASE t = c - 1
        <3>1. t + 1 \in Nat /\ 0 \in 0..(c - 1) /\ t + 1 = c * 1 + 0 /\ 1 \in Nat
            BY <2>1, <2>2
        <3>2. Rem(t + 1, c) = 0
            BY <2>1, <3>1, BlockIs
        <3> QED BY <2>1, <2>2, <3>2 DEF Rem, c
    <2>3. CASE t # c - 1
        <3>1. t + 1 \in 0..(c - 1)
            BY <2>1, <2>3
        <3>2. (t + 1) % c = t + 1
            BY <2>1, <3>1
        <3> QED BY <2>1, <2>3, <3>2 DEF c
    <2> QED BY <2>2, <2>3
\* the timer and the new time are in one turn of its level
<1>4. Same(ex, ct, k)
    <2>1. CASE k = Levels
        BY <1>1, <2>1, LastLevel
    <2>2. CASE k # Levels
        <3>1. k \in 0..(Levels - 1)
            BY <1>0, <2>2
        <3>2. ex = t + r /\ ex < Clock
            BY <1>2, <3>1, Ahead
        <3>3. ct = t + 1 /\ ex > t
            BY <1>0, <1>3, <3>2
        <3>4. Span[k] \in Nat \ {0}
            BY Sizes
        <3>5. Rem(t + 1, Span[k]) # 0
            BY <1>0, <1>1, <1>2, <3>3, <3>4, BlockPast DEF Same
        <3>6. Quot(t + 1, Span[k]) = Quot(t, Span[k])
            BY <1>0, <3>4, <3>5, BlockTick
        <3> QED BY <1>2, <3>3, <3>6 DEF Same
    <2> QED BY <2>1, <2>2
\* and already in one of the level below
<1>5. k # 0 /\ Same(ex, ct, k - 1)
    BY <1>1, <1>2, <1>4, HomeIs
<1>6. k \in 1..Levels /\ k - 1 \in 0..Levels /\ Span[k - 1] \in Nat \ {0}
    <2>1. k \in 1..Levels /\ k - 1 \in 0..Levels
        BY <1>0, <1>5
    <2> QED BY <2>1, Sizes
<1>7. Home(ex, t) = <<k, Rem(Quot(ct, Span[k - 1]), Level)>>
    BY <1>2, <1>5 DEF ListOn, Same
<1>8. Rem(ct, Span[k - 1]) = 0
    <2>1. CASE ct = 0
        <3>1. 0 = Span[k - 1] * 0 + 0 /\ 0 \in 0..(Span[k - 1] - 1) /\ 0 \in Nat
            BY <1>6
        <3> QED BY <1>6, <2>1, <3>1, BlockIs
    <2>2. CASE ct # 0
        <3>1. ct = t + 1
            BY <1>3, <2>2
        <3>2. SUFFICES ASSUME Rem(t + 1, Span[k - 1]) # 0 PROVE FALSE
            BY <3>1
        <3>3. Quot(t + 1, Span[k - 1]) = Quot(t, Span[k - 1])
            BY <1>0, <1>6, <3>2, BlockTick
        <3> QED BY <1>2, <1>5, <3>1, <3>3 DEF Same
    <2> QED BY <2>1, <2>2
<1>9. ct % Near = 0
    <2>1. 0 \in 0..Levels /\ k - 1 \in 0..Levels /\ Span[0] = Near
        BY <1>6, Sizes
    <2>2. Rem(ct, Span[0]) = 0
        BY <1>1, <1>8, <2>1, NotFirst
    <2> QED BY <2>1, <2>2 DEF Rem
<1>10. CASE ct = 0
    <2>1. t = Clock - 1
        BY <1>0, <1>3, <1>10
    <2>2. k = Levels
        <3> SUFFICES ASSUME k # Levels PROVE FALSE
            OBVIOUS
        <3>1. k \in 0..(Levels - 1)
            BY <1>0
        <3>2. ex = t + r /\ ex < Clock
            BY <1>2, <3>1, Ahead
        <3> QED BY <1>0, <2>1, <3>2
    <2>3. Quot(0, Span[k - 1]) = 0
        <3>1. 0 = Span[k - 1] * 0 + 0 /\ 0 \in 0..(Span[k - 1] - 1) /\ 0 \in Nat
            BY <1>6
        <3> QED BY <1>6, <3>1, BlockIs
    <2>4. Rem(0, Level) = 0
        <3>1. Level \in Nat \ {0}
            BY Sizes
        <3>2. 0 = Level * 0 + 0 /\ 0 \in 0..(Level - 1) /\ 0 \in Nat
            BY <3>1
        <3> QED BY <3>1, <3>2, BlockIs
    <2>5. Source(ct) = <<Levels, 0>>
        BY <1>10 DEF Source
    <2> QED BY <1>7, <1>9, <1>10, <2>2, <2>3, <2>4, <2>5
<1>11. CASE ct # 0
    <2>1. ct = t + 1
        BY <1>3, <1>11
    <2>2. Rem(ct, Span[k]) # 0
        <3>1. CASE k = Levels
            <4>1. ct = Clock * 0 + ct /\ ct \in 0..(Clock - 1) /\ 0 \in Nat
                BY <1>0, <1>1 DEF Times
            <4>2. Rem(ct, Clock) = ct
                BY <1>0, <1>1, <4>1, BlockIs
            <4> QED BY <1>11, <3>1, <4>2, ClockIs
        <3>2. CASE k # Levels
            <4>1. k \in 0..(Levels - 1)
                BY <1>0, <3>2
            <4>2. ex = t + r /\ ex < Clock
                BY <1>2, <4>1, Ahead
            <4>3. Span[k] \in Nat \ {0} /\ ex > t
                BY <1>0, <4>2, Sizes
            <4> QED BY <1>0, <1>1, <1>2, <2>1, <4>3, BlockPast DEF Same
        <3> QED BY <3>1, <3>2
    <2>3. Source(ct) = <<k, Rem(Quot(ct, Span[k - 1]), Level)>>
        BY <1>1, <1>6, <1>8, <1>11, <2>2, SourceIs
    <2> QED BY <1>7, <1>9, <2>3
<1> QED BY <1>10, <1>11

-----------------------------------------------------------------------------
(* The lists of the wheel *)

\* n was set before m.
Before(ord, n, m) == \E i, j \in 1..Len(ord) : i < j /\ ord[i] = n /\ ord[j] = m

\* The lists w hold the timers of S, each once, in the list of its expiry ex
\* at the time now, and timers of one tick in the order ord they were set in.
Filed(w, S, now, ex, ord) ==
    /\ w \in [Lists -> Seq(Timers)] /\ S \subseteq Timers
    /\ \A l \in Lists : \A i \in 1..Len(w[l]) : w[l][i] \in S /\ Home(ex[w[l][i]], now) = l
    /\ \A n \in S : \E i \in 1..Len(w[Home(ex[n], now)]) : w[Home(ex[n], now)][i] = n
    /\ \A l \in Lists : \A i, j \in 1..Len(w[l]) :
          i < j => w[l][i] # w[l][j] /\ (ex[w[l][i]] = ex[w[l][j]] => Before(ord, w[l][i], w[l][j]))

\* add_node files one more timer, if those of its tick were set before it.
LEMMA FileOne ==
    ASSUME NEW w, NEW S, NEW now \in Times, NEW ex \in [Timers -> Times], NEW ord, Filed(w, S, now, ex, ord),
           NEW n \in Timers, n \notin S, \A m \in S : ex[m] = ex[n] => Before(ord, m, n)
    PROVE  Filed(AddNode(w, n, ex[n], now), S \cup {n}, now, ex, ord)
<1> DEFINE h == Home(ex[n], now)
           v == AddNode(w, n, ex[n], now)
<1>1. h \in Lists
    BY HomeHas
<1>2. w \in [Lists -> Seq(Timers)]
    BY DEF Filed
<1>3. v = [w EXCEPT ![h] = Append(w[h], n)]
    BY DEF AddNode
<1>4. v \in [Lists -> Seq(Timers)] /\ v[h] = Append(w[h], n) /\ \A l \in Lists : l # h => v[l] = w[l]
    BY <1>1, <1>2, <1>3
<1> HIDE DEF h, v
<1>5. /\ Len(w[h]) \in Nat /\ Len(v[h]) = Len(w[h]) + 1 /\ v[h][Len(w[h]) + 1] = n
      /\ \A i \in 1..Len(w[h]) : v[h][i] = w[h][i]
    <2>1. w[h] \in Seq(Timers)
        BY <1>1, <1>2
    <2> QED BY <1>4, <2>1
<1>6. ASSUME NEW l \in Lists, NEW i \in 1..Len(v[l]) PROVE v[l][i] \in S \cup {n} /\ Home(ex[v[l][i]], now) = l
    <2>1. CASE l # h
        BY <1>4, <1>6, <2>1 DEF Filed
    <2>2. CASE l = h /\ i = Len(w[h]) + 1
        BY <1>5, <2>2 DEF h
    <2>3. CASE l = h /\ i # Len(w[h]) + 1
        <3>1. i \in 1..Len(w[h]) /\ v[l][i] = w[h][i]
            BY <1>5, <1>6, <2>3
        <3> QED BY <1>1, <2>3, <3>1 DEF Filed
    <2> QED BY <2>1, <2>2, <2>3
<1>7. ASSUME NEW m \in S \cup {n}
      PROVE  \E i \in 1..Len(v[Home(ex[m], now)]) : v[Home(ex[m], now)][i] = m
    <2>1. CASE m = n
        <3>1. Len(w[h]) + 1 \in 1..Len(v[h])
            BY <1>5
        <3> QED BY <1>5, <2>1, <3>1 DEF h
    <2>2. CASE m \in S
        <3> DEFINE g == Home(ex[m], now)
        <3>1. PICK i \in 1..Len(w[g]) : w[g][i] = m
            BY <2>2 DEF Filed
        <3>2. g \in Lists
            BY <2>2, HomeHas DEF Filed
        <3> HIDE DEF g
        <3>3. i \in 1..Len(v[g]) /\ v[g][i] = m
            <4>1. CASE g = h
                BY <1>5, <3>1, <4>1
            <4>2. CASE g # h
                BY <1>4, <3>1, <3>2, <4>2
            <4> QED BY <4>1, <4>2
        <3> QED BY <3>3 DEF g
    <2> QED BY <2>1, <2>2
<1>8. ASSUME NEW l \in Lists, NEW i \in 1..Len(v[l]), NEW j \in 1..Len(v[l]), i < j
      PROVE  v[l][i] # v[l][j] /\ (ex[v[l][i]] = ex[v[l][j]] => Before(ord, v[l][i], v[l][j]))
    <2>1. CASE l # h
        BY <1>4, <1>8, <2>1 DEF Filed
    <2>2. CASE l = h /\ j = Len(w[h]) + 1
        <3>1. i \in 1..Len(w[h]) /\ v[l][i] = w[h][i] /\ v[l][j] = n
            BY <1>5, <1>8, <2>2
        <3>2. w[h][i] \in S
            BY <1>1, <3>1 DEF Filed
        <3> QED BY <3>1, <3>2
    <2>3. CASE l = h /\ j # Len(w[h]) + 1
        <3>1. i \in 1..Len(w[h]) /\ v[l][i] = w[h][i] /\ j \in 1..Len(w[h]) /\ v[l][j] = w[h][j]
            BY <1>5, <1>8, <2>3
        <3> QED BY <1>1, <1>8, <2>3, <3>1 DEF Filed
    <2> QED BY <2>1, <2>2, <2>3
<1>9. S \cup {n} \subseteq Timers
    BY DEF Filed
<1>10. Filed(v, S \cup {n}, now, ex, ord)
    BY <1>4, <1>6, <1>7, <1>8, <1>9 DEF Filed
<1> QED BY <1>10 DEF v

\* A list is taken away; no other timer has to move.
LEMMA FileClear ==
    ASSUME NEW w, NEW S, NEW t \in Times, NEW now, NEW ex \in [Timers -> Times], NEW ord,
           Filed(w, S, t, ex, ord), NEW l \in Lists,
           \A n \in S : Home(ex[n], now) = Home(ex[n], t) \/ Home(ex[n], t) = l,
           NEW v, v = [w EXCEPT ![l] = <<>>]
    PROVE  Filed(v, S \ ToSet(w[l]), now, ex, ord)
<1> DEFINE R == S \ ToSet(w[l])
<1>1. w \in [Lists -> Seq(Timers)] /\ S \subseteq Timers
    BY DEF Filed
<1>2. v \in [Lists -> Seq(Timers)] /\ v[l] = <<>> /\ \A m \in Lists : m # l => v[m] = w[m]
    BY <1>1
<1>3. ToSet(w[l]) = {w[l][i] : i \in 1..Len(w[l])}
    BY <1>1 DEF ToSet
<1>4. R \subseteq Timers
    BY <1>1
<1>5. ASSUME NEW m \in Lists, NEW i \in 1..Len(v[m]) PROVE v[m][i] \in R /\ Home(ex[v[m][i]], now) = m
    <2>1. m # l
        BY <1>2, <1>5
    <2>2. i \in 1..Len(w[m]) /\ v[m][i] = w[m][i]
        BY <1>2, <1>5, <2>1
    <2>3. w[m][i] \in S /\ Home(ex[w[m][i]], t) = m
        BY <2>2 DEF Filed
    <2>4. w[m][i] \notin ToSet(w[l])
        BY <1>3, <2>1, <2>3 DEF Filed
    <2> QED BY <2>1, <2>2, <2>3, <2>4
<1>6. ASSUME NEW n \in R
      PROVE  \E i \in 1..Len(v[Home(ex[n], now)]) : v[Home(ex[n], now)][i] = n
    <2> DEFINE h == Home(ex[n], t)
    <2>1. PICK i \in 1..Len(w[h]) : w[h][i] = n
        BY DEF Filed
    <2>2. h # l
        BY <1>3, <2>1
    <2>3. Home(ex[n], now) = h
        BY <2>2
    <2>4. h \in Lists
        BY <1>4, HomeHas
    <2>5. v[h] = w[h]
        BY <1>2, <2>2, <2>4
    <2> QED BY <2>1, <2>3, <2>5
<1>7. ASSUME NEW m \in Lists, NEW i \in 1..Len(v[m]), NEW j \in 1..Len(v[m]), i < j
      PROVE  v[m][i] # v[m][j] /\ (ex[v[m][i]] = ex[v[m][j]] => Before(ord, v[m][i], v[m][j]))
    <2>1. m # l
        BY <1>2, <1>7
    <2> QED BY <1>2, <1>7, <2>1 DEF Filed
<1> HIDE DEF R
<1>8. Filed(v, R, now, ex, ord)
    BY <1>2, <1>4, <1>5, <1>6, <1>7 DEF Filed
<1> QED BY <1>8 DEF R

\* The lists after each of the first n turns of the loop of move_list.
Moves(g, w, l, now, n) ==
    g = [k \in 0..n |-> IF k = 0 THEN [w EXCEPT ![l] = <<>>]
                        ELSE AddNode(g[k - 1], w[l][k], expire[w[l][k]], now)]

\* There are such, for any number of turns.
LEMMA MovesExist ==
    ASSUME NEW w, NEW l, NEW now, NEW n \in Nat
    PROVE  \E g : Moves(g, w, l, now, n)
<1> DEFINE S == {k \in 0..n : \E g : Moves(g, w, l, now, k)}
<1>1. 0 \in S
    <2> DEFINE g == [k \in 0..0 |-> [w EXCEPT ![l] = <<>>]]
    <2>1. Moves(g, w, l, now, 0)
        BY DEF Moves
    <2> QED BY <2>1
<1>2. ASSUME NEW m \in 1..n, m - 1 \in S PROVE m \in S
    <2>1. PICK f : Moves(f, w, l, now, m - 1)
        BY <1>2
    <2> DEFINE g == [k \in 0..m |-> IF k = 0 THEN [w EXCEPT ![l] = <<>>]
                                    ELSE AddNode(f[k - 1], w[l][k], expire[w[l][k]], now)]
    <2>2. \A i \in 0..(m - 1) : g[i] = f[i]
        <3>1. ASSUME NEW i \in 0..(m - 1) PROVE g[i] = f[i]
            <4>1. i \in 0..m
                OBVIOUS
            <4>2. f[i] = IF i = 0 THEN [w EXCEPT ![l] = <<>>]
                         ELSE AddNode(f[i - 1], w[l][i], expire[w[l][i]], now)
                BY <2>1 DEF Moves
            <4> QED BY <4>1, <4>2
        <3> QED BY <3>1
    <2>3. \A i \in 0..m : i # 0 => g[i - 1] = f[i - 1]
        <3>1. \A i \in 0..m : i # 0 => i - 1 \in 0..(m - 1)
            OBVIOUS
        <3> HIDE DEF g
        <3> QED BY <2>2, <3>1
    <2>4. g = [k \in 0..m |-> IF k = 0 THEN [w EXCEPT ![l] = <<>>]
                              ELSE AddNode(g[k - 1], w[l][k], expire[w[l][k]], now)]
        BY <2>3
    <2>5. Moves(g, w, l, now, m)
        BY <2>4 DEF Moves
    <2> QED BY <2>5
<1>3. 0..n \subseteq S
    <2> HIDE DEF S
    <2> QED BY <1>1, <1>2, Climb
<1> QED BY <1>3

\* move_list loses and doubles no timer, and keeps the timers of one tick in
\* order: all of them are in the list it moves, or none.
LEMMA MoveFiles ==
    ASSUME NEW w, NEW S, NEW t \in Times, NEW now \in Times, NEW ord, expire \in [Timers -> Times],
           Filed(w, S, t, expire, ord), NEW l \in Lists,
           \A n \in S : Home(expire[n], now) = Home(expire[n], t) \/ Home(expire[n], t) = l
    PROVE  Filed(MoveList(w, l, now), S, now, expire, ord)
<1> DEFINE g == CHOOSE f : Moves(f, w, l, now, Len(w[l]))
           rest(k) == (S \ ToSet(w[l])) \cup {w[l][i] : i \in 1..k}
           T == {k \in 0..Len(w[l]) : Filed(g[k], rest(k), now, expire, ord)}
<1>0. w \in [Lists -> Seq(Timers)] /\ S \subseteq Timers /\ w[l] \in Seq(Timers) /\ Len(w[l]) \in Nat
    BY DEF Filed
<1>1. Moves(g, w, l, now, Len(w[l]))
    BY <1>0, MovesExist
<1>2. MoveList(w, l, now) = g[Len(w[l])]
    BY DEF MoveList, Moves
<1> HIDE DEF g
<1>3. g[0] = [w EXCEPT ![l] = <<>>]
    BY <1>0, <1>1 DEF Moves
<1>4. ASSUME NEW k \in 1..Len(w[l]) PROVE g[k] = AddNode(g[k - 1], w[l][k], expire[w[l][k]], now)
    <2>1. k \in 0..Len(w[l]) /\ k # 0
        BY <1>0
    <2> QED BY <1>1, <2>1 DEF Moves
<1>5. ToSet(w[l]) = {w[l][i] : i \in 1..Len(w[l])} /\ ToSet(w[l]) \subseteq S
    BY <1>0 DEF ToSet, Filed
<1>6. 0 \in T
    <2>1. rest(0) = S \ ToSet(w[l])
        OBVIOUS
    <2>2. Filed(g[0], S \ ToSet(w[l]), now, expire, ord)
        BY <1>3, FileClear
    <2>3. Filed(g[0], rest(0), now, expire, ord)
        BY <2>1, <2>2
    <2>4. 0 \in 0..Len(w[l])
        BY <1>0
    <2> QED BY <2>3, <2>4
<1>7. ASSUME NEW k \in 1..Len(w[l]), k - 1 \in T PROVE k \in T
    <2> DEFINE n == w[l][k]
               R == rest(k - 1)
    <2>1. Filed(g[k - 1], R, now, expire, ord)
        BY <1>7
    <2>2. n \in Timers /\ n \in S /\ Home(expire[n], t) = l
        BY <1>0 DEF Filed
    <2>3. n \notin R
        <3>1. \A i \in 1..(k - 1) : w[l][i] # n
            BY <1>0 DEF Filed
        <3>2. n \in ToSet(w[l])
            BY <1>5
        <3> QED BY <3>1, <3>2
    <2>4. ASSUME NEW m \in R, expire[m] = expire[n] PROVE Before(ord, m, n)
        <3>1. m \in S
            BY <1>0, <1>5
        <3>2. Home(expire[m], t) = l
            BY <2>2, <2>4
        <3>3. m \in ToSet(w[l])
            BY <1>5, <3>1, <3>2 DEF Filed
        <3>4. PICK i \in 1..(k - 1) : m = w[l][i]
            BY <3>3
        <3>5. i \in 1..Len(w[l]) /\ i < k
            BY <1>0
        <3> QED BY <2>4, <3>4, <3>5 DEF Filed
    <2>5. Filed(AddNode(g[k - 1], n, expire[n], now), R \cup {n}, now, expire, ord)
        <3> HIDE DEF n, R
        <3> QED BY <2>1, <2>2, <2>3, <2>4, FileOne
    <2>6. R \cup {n} = rest(k)
        <3>1. 1..k = 1..(k - 1) \cup {k}
            BY <1>0
        <3> QED BY <3>1
    <2>7. Filed(g[k], rest(k), now, expire, ord)
        BY <1>4, <2>5, <2>6
    <2> QED BY <1>0, <2>7
<1>8. 0..Len(w[l]) \subseteq T
    <2> HIDE DEF T
    <2> QED BY <1>0, <1>6, <1>7, Climb
<1>9. Filed(g[Len(w[l])], rest(Len(w[l])), now, expire, ord)
    <2>1. Len(w[l]) \in T
        <3>1. Len(w[l]) \in 0..Len(w[l])
            BY <1>0
        <3> HIDE DEF T
        <3> QED BY <1>8, <3>1
    <2> QED BY <2>1
<1>10. rest(Len(w[l])) = S
    BY <1>5
<1> QED BY <1>2, <1>9, <1>10

-----------------------------------------------------------------------------
(* The inductive invariant *)

\* Timers that are not yet in the hands of dispatch_list.
Waiting == ToSet(order) \ ToSet(batch)

\* The list being dispatched: timers of this tick, in the order they were set.
Dispatched ==
    /\ ToSet(batch) \subseteq ToSet(order)
    /\ \A n \in ToSet(batch) : remain[n] = 0
    /\ \A i, j \in 1..Len(batch) : i < j => batch[i] # batch[j] /\ Before(order, batch[i], batch[j])

\* What is left of the time of each timer; a timer of this tick is still in
\* its list only between timer_shift and the timer_execute that takes it.
Remaining ==
    /\ \A n \in ToSet(order) : remain[n] \in 0..MaxDelay /\ expire[n] = (time + remain[n]) % Clock
    /\ \A n \in Waiting : remain[n] = 0 => pc = "after" /\ batch = <<>>

\* The inductive invariant.
TimerInv ==
    /\ TypeOK
    /\ \A i, j \in 1..Len(order) : i # j => order[i] # order[j]
    /\ pc # "idle" => due > 0
    /\ Filed(wheel, Waiting, time, expire, order)
    /\ Dispatched
    /\ Remaining

-----------------------------------------------------------------------------
(* Lemmas for the steps *)

\* The members of a sequence of timers.
LEMMA Members ==
    ASSUME NEW s \in Seq(Timers)
    PROVE  /\ ToSet(s) \subseteq Timers /\ Len(s) \in Nat
           /\ ToSet(s) = {s[i] : i \in 1..Len(s)}
           /\ \A i \in 1..Len(s) : s[i] \in ToSet(s) /\ s[i] \in Timers
BY DEF ToSet

\* What Filed says does not change with the expiry of other timers, or while
\* the order and the lists of its own stay.
LEMMA FiledSame ==
    ASSUME NEW w, NEW S, NEW t, NEW now, NEW ex, NEW fx, NEW ord, NEW later, Filed(w, S, t, ex, ord),
           \A n \in S : fx[n] = ex[n] /\ Home(ex[n], now) = Home(ex[n], t),
           \A n, m \in S : Before(ord, n, m) => Before(later, n, m)
    PROVE  Filed(w, S, now, fx, later)
<1>1. ASSUME NEW l \in Lists, NEW i \in 1..Len(w[l])
      PROVE  w[l][i] \in S /\ Home(fx[w[l][i]], now) = l /\ fx[w[l][i]] = ex[w[l][i]]
    BY <1>1 DEF Filed
<1>2. ASSUME NEW n \in S PROVE \E i \in 1..Len(w[Home(fx[n], now)]) : w[Home(fx[n], now)][i] = n
    <2>1. Home(fx[n], now) = Home(ex[n], t)
        OBVIOUS
    <2> QED BY <2>1 DEF Filed
<1>3. ASSUME NEW l \in Lists, NEW i \in 1..Len(w[l]), NEW j \in 1..Len(w[l]), i < j
      PROVE  w[l][i] # w[l][j] /\ (fx[w[l][i]] = fx[w[l][j]] => Before(later, w[l][i], w[l][j]))
    <2>1. w[l][i] # w[l][j] /\ (ex[w[l][i]] = ex[w[l][j]] => Before(ord, w[l][i], w[l][j]))
        BY <1>3 DEF Filed
    <2> QED BY <1>1, <2>1
<1>4. w \in [Lists -> Seq(Timers)] /\ S \subseteq Timers
    BY DEF Filed
<1> QED BY <1>1, <1>2, <1>3, <1>4 DEF Filed

\* A timer of this tick is in the current list of near, and no other is.
LEMMA OnlyNow ==
    ASSUME NEW t \in Times, NEW r \in 0..MaxDelay, NEW ex, ex = (t + r) % Clock
    PROVE  /\ Home(ex, t) = <<0, t % Near>> <=> r = 0
           /\ <<0, t % Near>> \in Lists
           /\ ex \in Times /\ (r = 0 => ex = t)
<1>0. /\ Clock \in Nat \ {0} /\ t \in Nat /\ t < Clock /\ MaxDelay \in Nat /\ Levels \in Nat \ {0}
      /\ Near \in Nat \ {0} /\ Span[0] = Near
    BY ClockIs, Sizes DEF Times
<1>1. ex \in Times /\ (r = 0 => ex = t)
    <2> DEFINE c == Clock
    <2>1. c \in Nat \ {0} /\ t + r \in Nat /\ t < c /\ ex = (t + r) % c /\ t \in Nat
        BY <1>0
    <2> HIDE DEF c
    <2>2. (t + r) % c \in 0..(c - 1)
        BY <2>1
    <2>3. r = 0 => ex = t
        BY <2>1
    <2> QED BY <2>1, <2>2, <2>3 DEF c, Times
<1>2. ListOn(t, 0) = <<0, t % Near>> /\ 0 \in 0..Levels /\ 0 \in 0..(Levels - 1)
    BY <1>0 DEF ListOn, Rem
<1>3. <<0, t % Near>> \in Lists
    BY <1>0, <1>2, ListOnType
<1>4. ASSUME r = 0 PROVE Home(ex, t) = <<0, t % Near>>
    <2>1. Same(t, t, 0)
        BY DEF Same
    <2> QED BY <1>1, <1>2, <1>4, <2>1, HomeIs
<1>5. ASSUME r # 0, Home(ex, t) = <<0, t % Near>> PROVE FALSE
    <2>1. PICK k \in 0..Levels : Same(ex, t, k) /\ Home(ex, t) = ListOn(ex, k)
        BY <1>1, HomeHas
    <2>2. k = 0 /\ Rem(ex, Near) = Rem(t, Near)
        BY <1>5, <2>1 DEF ListOn, Rem
    <2>3. Quot(ex, Near) = Quot(t, Near)
        BY <1>0, <2>1, <2>2 DEF Same
    <2>4. ex = t
        <3>1. ex \in Nat
            BY <1>1, ClockIs
        <3>2. ex = Near * Quot(ex, Near) + Rem(ex, Near)
            BY <1>0, <3>1, InBlock
        <3>3. t = Near * Quot(t, Near) + Rem(t, Near)
            BY <1>0, InBlock
        <3> QED BY <2>2, <2>3, <3>2, <3>3
    <2>5. r \in 1..MaxDelay /\ Same(ex, t, 0)
        BY <1>0, <1>5, <2>1, <2>2
    <2>6. ex = t + r
        BY <1>2, <2>5, Ahead
    <2> QED BY <1>0, <1>5, <2>4, <2>6
<1> QED BY <1>1, <1>3, <1>4, <1>5

\* The list that is moved is a list of the wheel.
LEMMA SourceType ==
    ASSUME NEW ct \in Times, ct % Near = 0
    PROVE  Source(ct) \in Lists
<1>0. ct \in Nat /\ Levels \in Nat \ {0} /\ Level \in Nat \ {0} /\ Clock \in Nat \ {0} /\ Clock = Span[Levels]
    BY ClockIs, Sizes
<1>1. CASE ct = 0
    <2>1. Source(ct) = <<Levels, 0>>
        BY <1>1 DEF Source
    <2>2. Levels \in 1..Levels /\ 0 \in 0..(Level - 1)
        BY <1>0
    <2> QED BY <2>1, <2>2 DEF Lists
<1>2. CASE ct # 0
    <2> DEFINE T == {k \in 0..Levels : Rem(ct, Span[k]) # 0}
    <2>1. Levels \in T
        <3>1. ct = Clock * 0 + ct /\ ct \in 0..(Clock - 1) /\ 0 \in Nat
            BY <1>0 DEF Times
        <3>2. Rem(ct, Clock) = ct
            BY <1>0, <3>1, BlockIs
        <3> QED BY <1>0, <1>2, <3>2
    <2>2. PICK k \in T : \A j \in T : k <= j
        <3>1. T \subseteq Nat
            BY <1>0
        <3> HIDE DEF T
        <3> QED BY <2>1, <3>1, Least
    <2>3. k \in 0..Levels /\ Rem(ct, Span[k]) # 0
        BY <2>2
    <2>4. k # 0
        BY <2>3, Sizes DEF Rem
    <2>5. k \in 1..Levels /\ k - 1 \in 0..Levels /\ ~(k <= k - 1)
        BY <1>0, <2>3, <2>4
    <2>6. Rem(ct, Span[k - 1]) = 0
        BY <2>2, <2>5
    <2>7. Source(ct) = <<k, Rem(Quot(ct, Span[k - 1]), Level)>>
        BY <1>2, <2>3, <2>5, <2>6, SourceIs
    <2>8. Rem(Quot(ct, Span[k - 1]), Level) \in 0..(Level - 1)
        BY <1>0, <2>5, Digit
    <2> QED BY <2>5, <2>7, <2>8 DEF Lists
<1> QED BY <1>1, <1>2

\* timer_shift moves that list, or none.
LEMMA ShiftedIs ==
    ASSUME NEW ct \in Times
    PROVE  Shifted(ct) = IF ct % Near = 0 THEN MoveList(wheel, Source(ct), ct) ELSE wheel
<1>1. CASE ct = 0
    <2>1. ct % Near = 0
        BY <1>1, Sizes
    <2>2. Source(ct) = <<Levels, 0>>
        BY <1>1 DEF Source
    <2>3. Shifted(ct) = MoveList(wheel, <<Levels, 0>>, ct)
        BY <1>1 DEF Shifted
    <2> QED BY <2>1, <2>2, <2>3
<1>2. CASE ct # 0 /\ ct % Near = 0
    BY <1>2 DEF Shifted, Source
<1>3. CASE ct # 0 /\ ct % Near # 0
    BY <1>3 DEF Shifted
<1> QED BY <1>1, <1>2, <1>3

\* One tick less remains.
LEMMA OneLess ==
    ASSUME NEW t \in Times, NEW r \in 1..MaxDelay, NEW ct, ct = (t + 1) % Clock
    PROVE  (t + r) % Clock = (ct + (r - 1)) % Clock /\ ct \in Times /\ r - 1 \in 0..MaxDelay
<1> DEFINE c == Clock
<1>0. c \in Nat \ {0} /\ t \in Nat /\ t < c /\ MaxDelay \in Nat /\ 2 * MaxDelay < c /\ ct = (t + 1) % c
    BY ClockIs DEF Times
<1> HIDE DEF c
<1>1. CASE t + 1 < c
    <2>1. ct = t + 1
        BY <1>0, <1>1
    <2>2. t + r = ct + (r - 1)
        BY <1>0, <2>1
    <2> QED BY <1>0, <1>1, <2>1, <2>2 DEF c, Times
<1>2. CASE t + 1 = c
    <2>1. ct = 0
        <3>1. t + 1 = c * 1 + 0 /\ 0 \in 0..(c - 1) /\ 1 \in Nat /\ t + 1 \in Nat
            BY <1>0, <1>2
        <3> QED BY <1>0, <3>1, BlockIs DEF Rem
    <2>2. t + r = c * 1 + (r - 1) /\ r - 1 \in 0..(c - 1) /\ 1 \in Nat /\ t + r \in Nat
        BY <1>0, <1>2
    <2>3. (t + r) % c = r - 1
        BY <1>0, <2>2, BlockIs DEF Rem
    <2>4. (ct + (r - 1)) % c = r - 1
        BY <1>0, <2>1, <2>2
    <2> QED BY <1>0, <2>1, <2>3, <2>4 DEF c, Times
<1> QED BY <1>0, <1>1, <1>2

\* One timer leaves the order; the others keep theirs.
LEMMA OneLeaves ==
    ASSUME NEW s \in Seq(Timers), \A i, j \in 1..Len(s) : i # j => s[i] # s[j],
           NEW k \in 1..Len(s), NEW r, r = RemoveAt(s, k)
    PROVE  /\ r \in Seq(Timers) /\ ToSet(r) = ToSet(s) \ {s[k]}
           /\ \A i, j \in 1..Len(r) : i # j => r[i] # r[j]
           /\ \A n, m : n # s[k] /\ m # s[k] /\ Before(s, n, m) => Before(r, n, m)
<1> DEFINE at(i) == IF i < k THEN i ELSE i + 1
<1>0. Len(s) \in Nat
    OBVIOUS
<1>1. r \in Seq(Timers) /\ Len(r) = Len(s) - 1 /\ \A i \in 1..Len(r) : r[i] = s[at(i)]
    <2> DEFINE a == SubSeq(s, 1, k - 1)
               b == SubSeq(s, k + 1, Len(s))
    <2>1. a \in Seq(Timers) /\ Len(a) = k - 1 /\ \A i \in 1..(k - 1) : a[i] = s[i]
        BY <1>0
    <2>2. b \in Seq(Timers) /\ Len(b) = Len(s) - k /\ \A i \in 1..(Len(s) - k) : b[i] = s[k + i]
        BY <1>0
    <2>3. r = a \o b
        BY DEF RemoveAt
    <2> HIDE DEF a, b
    <2>4. r \in Seq(Timers) /\ Len(r) = Len(s) - 1
        <3>1. a \o b \in Seq(Timers) /\ Len(a \o b) = Len(a) + Len(b)
            <4>1. a \in Seq(Timers) /\ b \in Seq(Timers)
                BY <2>1, <2>2
            <4> QED BY <4>1
        <3>2. (k - 1) + (Len(s) - k) = Len(s) - 1
            BY <1>0
        <3> QED BY <2>1, <2>2, <2>3, <3>1, <3>2
    <2>5. ASSUME NEW i \in 1..Len(r) PROVE r[i] = s[at(i)]
        <3>1. CASE i < k
            BY <1>0, <2>1, <2>2, <2>3, <2>4, <3>1
        <3>2. CASE i >= k
            <4>1. r[i] = b[i - (k - 1)] /\ i - (k - 1) \in 1..(Len(s) - k)
                BY <1>0, <2>1, <2>2, <2>3, <2>4, <3>2
            <4>2. k + (i - (k - 1)) = i + 1
                BY <1>0, <2>4
            <4> QED BY <2>2, <3>2, <4>1, <4>2
        <3> QED BY <1>0, <2>4, <3>1, <3>2
    <2> QED BY <2>4, <2>5
<1>2. \A i \in 1..Len(r) : at(i) \in 1..Len(s) /\ at(i) # k
    BY <1>0, <1>1
<1>3. \A i, j \in 1..Len(r) : i < j => at(i) < at(j)
    BY <1>0, <1>1
<1>4. \A p \in 1..Len(s) : p # k => \E i \in 1..Len(r) : at(i) = p
    <2> SUFFICES ASSUME NEW p \in 1..Len(s), p # k PROVE \E i \in 1..Len(r) : at(i) = p
        OBVIOUS
    <2>1. CASE p < k
        <3>1. p \in 1..Len(r) /\ at(p) = p
            BY <1>0, <1>1, <2>1
        <3> QED BY <3>1
    <2>2. CASE p > k
        <3>1. p - 1 \in 1..Len(r) /\ at(p - 1) = p
            BY <1>0, <1>1, <2>2
        <3> QED BY <3>1
    <2> QED BY <2>1, <2>2
<1> HIDE DEF at
<1>5. ToSet(r) = {r[i] : i \in 1..Len(r)} /\ ToSet(s) = {s[i] : i \in 1..Len(s)}
    BY <1>1, Members
<1>6. ToSet(r) = ToSet(s) \ {s[k]}
    <2>1. ASSUME NEW i \in 1..Len(r) PROVE r[i] \in ToSet(s) \ {s[k]}
        BY <1>1, <1>2, <1>5
    <2>2. ASSUME NEW p \in 1..Len(s), s[p] # s[k] PROVE s[p] \in ToSet(r)
        <3>1. PICK i \in 1..Len(r) : at(i) = p
            BY <1>4, <2>2
        <3> QED BY <1>1, <1>5, <3>1
    <2> QED BY <1>5, <2>1, <2>2
<1>7. \A i, j \in 1..Len(r) : i # j => r[i] # r[j]
    <2> SUFFICES ASSUME NEW i \in 1..Len(r), NEW j \in 1..Len(r), i # j PROVE at(i) # at(j)
        BY <1>1, <1>2
    <2>1. i < j \/ j < i
        BY <1>0, <1>1
    <2>2. at(i) \in Nat /\ at(j) \in Nat
        BY <1>0, <1>2
    <2> QED BY <1>3, <2>1, <2>2
<1>8. ASSUME NEW n, NEW m, n # s[k], m # s[k], Before(s, n, m) PROVE Before(r, n, m)
    <2>1. PICK p \in 1..Len(s), q \in 1..Len(s) : p < q /\ s[p] = n /\ s[q] = m
        BY <1>8 DEF Before
    <2>2. PICK i \in 1..Len(r) : at(i) = p
        BY <1>4, <1>8, <2>1
    <2>3. PICK j \in 1..Len(r) : at(j) = q
        BY <1>4, <1>8, <2>1
    <2>4. i < j
        <3>1. i # j /\ ~(j < i)
            BY <1>0, <1>3, <2>1, <2>2, <2>3
        <3> QED BY <1>0, <1>1, <3>1
    <2>5. r[i] = n /\ r[j] = m
        BY <1>1, <2>1, <2>2, <2>3
    <2> QED BY <2>4, <2>5 DEF Before
<1> QED BY <1>1, <1>6, <1>7, <1>8

\* The types, in terms of the lemmas.
LEMMA Types ==
    ASSUME TimerInv
    PROVE  /\ time \in Times /\ expire \in [Timers -> Times] /\ remain \in [Timers -> Int]
           /\ order \in Seq(Timers) /\ batch \in Seq(Timers) /\ wheel \in [Lists -> Seq(Timers)]
           /\ due \in 0..2 /\ pc \in {"idle", "before", "after"}
           /\ ToSet(order) \subseteq Timers
           /\ \A n \in ToSet(order) : remain[n] \in 0..MaxDelay /\ expire[n] = (time + remain[n]) % Clock
<1>1. order \in Seq(Timers) /\ MaxDelay \in Nat
    BY ClockIs DEF TimerInv, TypeOK
<1>2. ToSet(order) \subseteq Timers
    BY <1>1, Members
<1>3. -1..MaxDelay \subseteq Int
    BY <1>1
<1>4. remain \in [Timers -> Int]
    BY <1>3 DEF TimerInv, TypeOK
<1> QED BY <1>1, <1>2, <1>4 DEF TimerInv, TypeOK, Times, Remaining

-----------------------------------------------------------------------------
(* The steps *)

\* The empty wheel satisfies the invariant.
LEMMA TimerInit ==
    ASSUME Init PROVE TimerInv
<1>0. Clock \in Nat \ {0} /\ MaxDelay \in Nat
    BY ClockIs
<1>1. TypeOK
    <2>1. 0 \in 0..(Clock - 1) /\ 0 \in -1..MaxDelay
        BY <1>0
    <2> QED BY <2>1 DEF Init, TypeOK
<1>2. ToSet(order) = {} /\ ToSet(batch) = {} /\ Len(order) = 0 /\ Len(batch) = 0
    BY DEF Init, ToSet
<1>3. Waiting = {}
    BY <1>2 DEF Waiting
<1>4. Filed(wheel, {}, time, expire, order)
    <2>1. \A l \in Lists : wheel[l] = <<>> /\ Len(wheel[l]) = 0
        BY DEF Init
    <2> QED BY <1>1, <2>1 DEF Filed, TypeOK
<1> QED BY <1>1, <1>2, <1>3, <1>4 DEF TimerInv, Dispatched, Remaining, Init

\* timer_add files the new timer.
LEMMA TimerAdd ==
    ASSUME TimerInv, NEW n \in Timers, NEW d \in 1..MaxDelay, Add(n, d)
    PROVE  TimerInv'
<1>0. /\ time \in Times /\ expire \in [Timers -> Times] /\ remain \in [Timers -> Int]
      /\ order \in Seq(Timers) /\ batch \in Seq(Timers) /\ ToSet(order) \subseteq Timers
      /\ wheel \in [Lists -> Seq(Timers)]
    BY Types
<1>1. Clock \in Nat \ {0} /\ MaxDelay \in Nat /\ d \in 0..MaxDelay /\ d \in Nat \ {0} /\ Len(order) \in Nat
    BY <1>0, ClockIs
<1>2. (time + d) % Clock \in Times
    BY <1>0, <1>1, OnlyNow
<1>3. /\ expire' = [expire EXCEPT ![n] = (time + d) % Clock] /\ remain' = [remain EXCEPT ![n] = d]
      /\ order' = Append(order, n) /\ n \notin ToSet(order)
      /\ wheel' = AddNode(wheel, n, (time + d) % Clock, time)
      /\ time' = time /\ due' = due /\ pc' = pc /\ batch' = batch
    BY DEF Add
<1>4. /\ order' \in Seq(Timers) /\ Len(order') = Len(order) + 1 /\ order'[Len(order) + 1] = n
      /\ \A i \in 1..Len(order) : order'[i] = order[i]
    BY <1>0, <1>3
<1>5. /\ ToSet(order) = {order[i] : i \in 1..Len(order)}
      /\ ToSet(order') = {order'[i] : i \in 1..Len(order')}
    BY <1>0, <1>4, Members
<1>6. ToSet(order') = ToSet(order) \cup {n}
    BY <1>1, <1>4, <1>5
<1>7. /\ Waiting' = Waiting \cup {n} /\ n \notin Waiting /\ n \notin ToSet(batch)
      /\ Waiting \subseteq ToSet(order)
    BY <1>3, <1>6 DEF Waiting, TimerInv, Dispatched
<1>8. /\ expire' \in [Timers -> Times] /\ expire'[n] = (time + d) % Clock
      /\ \A m \in Timers \ {n} : expire'[m] = expire[m]
    BY <1>0, <1>2, <1>3
<1>9. remain' \in [Timers -> Int] /\ remain'[n] = d /\ \A m \in Timers \ {n} : remain'[m] = remain[m]
    BY <1>0, <1>1, <1>3
<1>10. \A i, j \in 1..Len(order') : i # j => order'[i] # order'[j]
    <2> SUFFICES ASSUME NEW i \in 1..Len(order'), NEW j \in 1..Len(order'), i # j PROVE order'[i] # order'[j]
        OBVIOUS
    <2>1. \A p \in 1..Len(order) : order[p] # n
        BY <1>3, <1>5
    <2>2. CASE i = Len(order) + 1
        <3>1. j \in 1..Len(order)
            BY <1>1, <1>4, <2>2
        <3> QED BY <1>4, <2>1, <2>2, <3>1
    <2>3. CASE j = Len(order) + 1
        <3>1. i \in 1..Len(order)
            BY <1>1, <1>4, <2>3
        <3> QED BY <1>4, <2>1, <2>3, <3>1
    <2>4. CASE i # Len(order) + 1 /\ j # Len(order) + 1
        <3>1. i \in 1..Len(order) /\ j \in 1..Len(order)
            BY <1>1, <1>4, <2>4
        <3> QED BY <1>4, <3>1 DEF TimerInv
    <2> QED BY <2>2, <2>3, <2>4
<1>11. ASSUME NEW a, NEW b, Before(order, a, b) PROVE Before(order', a, b)
    <2>1. PICK i \in 1..Len(order), j \in 1..Len(order) : i < j /\ order[i] = a /\ order[j] = b
        BY <1>11 DEF Before
    <2>2. i \in 1..Len(order') /\ j \in 1..Len(order')
        BY <1>1, <1>4
    <2> QED BY <1>4, <2>1, <2>2 DEF Before
<1>12. ASSUME NEW m \in ToSet(order) PROVE Before(order', m, n)
    <2>1. PICK i \in 1..Len(order) : order[i] = m
        BY <1>5
    <2>2. i \in 1..Len(order') /\ Len(order) + 1 \in 1..Len(order') /\ i < Len(order) + 1
        BY <1>1, <1>4
    <2> QED BY <1>4, <2>1, <2>2 DEF Before
<1>13. Filed(wheel', Waiting', time', expire', order')
    <2>1. Filed(wheel, Waiting, time, expire', order')
        <3>1. \A m \in Waiting : expire'[m] = expire[m]
            BY <1>0, <1>7, <1>8
        <3>2. Filed(wheel, Waiting, time, expire, order)
            BY DEF TimerInv
        <3> QED BY <1>11, <3>1, <3>2, FiledSame
    <2>2. wheel' = AddNode(wheel, n, expire'[n], time)
        BY <1>3, <1>8
    <2>3. \A m \in Waiting : Before(order', m, n)
        BY <1>7, <1>12
    <2>4. Filed(AddNode(wheel, n, expire'[n], time), Waiting \cup {n}, time, expire', order')
        BY <1>0, <1>7, <1>8, <2>1, <2>3, FileOne
    <2> QED BY <1>3, <1>7, <2>2, <2>4
<1>14. Dispatched'
    <2>1. ToSet(batch') = ToSet(batch) /\ ToSet(batch) \subseteq ToSet(order)
        BY <1>3 DEF TimerInv, Dispatched
    <2>2. \A m \in ToSet(batch) : remain'[m] = 0
        <3>1. \A m \in ToSet(batch) : remain[m] = 0 /\ m \in Timers \ {n}
            BY <1>0, <1>7, <2>1 DEF TimerInv, Dispatched
        <3> QED BY <1>9, <3>1
    <2>3. \A i, j \in 1..Len(batch) : i < j => batch[i] # batch[j] /\ Before(order', batch[i], batch[j])
        BY <1>11 DEF TimerInv, Dispatched
    <2> QED BY <1>3, <1>6, <2>1, <2>2, <2>3 DEF Dispatched
<1>15. Remaining'
    <2>1. ASSUME NEW m \in ToSet(order)
          PROVE  remain'[m] = remain[m] /\ remain'[m] \in 0..MaxDelay /\ expire'[m] = (time + remain'[m]) % Clock
        <3>1. m \in Timers \ {n}
            BY <1>0, <1>3
        <3> QED BY <1>8, <1>9, <3>1, Types
    <2>2. remain'[n] \in 0..MaxDelay /\ expire'[n] = (time + remain'[n]) % Clock /\ remain'[n] # 0
        BY <1>1, <1>8, <1>9
    <2>3. ASSUME NEW m \in Waiting', remain'[m] = 0 PROVE pc' = "after" /\ batch' = <<>>
        <3>1. m \in Waiting /\ remain[m] = 0
            BY <1>7, <2>1, <2>2, <2>3
        <3> QED BY <1>3, <3>1 DEF TimerInv, Remaining
    <2> QED BY <1>3, <1>6, <2>1, <2>2, <2>3 DEF Remaining
<1>16. TypeOK'
    <2>1. wheel' \in [Lists -> Seq(Timers)]
        BY <1>13 DEF Filed
    <2>2. remain' \in [Timers -> -1..MaxDelay]
        <3>1. remain \in [Timers -> -1..MaxDelay] /\ d \in -1..MaxDelay
            BY <1>1 DEF TimerInv, TypeOK
        <3> QED BY <1>3, <3>1
    <2> QED BY <1>3, <1>4, <1>8, <2>1, <2>2 DEF TimerInv, TypeOK, Times
<1> QED BY <1>3, <1>10, <1>13, <1>14, <1>15, <1>16 DEF TimerInv

\* A timer that waits with no time left is in the current list, and only
\* such timers are.
LEMMA InCurrent ==
    ASSUME TimerInv
    PROVE  /\ Current \in Lists
           /\ \A n \in Waiting : remain[n] = 0 <=> Home(expire[n], time) = Current
           /\ \A n \in Waiting : remain[n] = 0 => n \in ToSet(wheel[Current]) /\ expire[n] = time
           /\ \A n \in ToSet(wheel[Current]) : n \in Waiting /\ remain[n] = 0
<1>0. time \in Times /\ wheel \in [Lists -> Seq(Timers)] /\ MaxDelay \in Nat
    BY Types, ClockIs
<1>1. ASSUME NEW n \in Waiting
      PROVE  (remain[n] = 0 <=> Home(expire[n], time) = Current) /\ (remain[n] = 0 => expire[n] = time)
    <2>1. remain[n] \in 0..MaxDelay /\ expire[n] = (time + remain[n]) % Clock
        BY Types DEF Waiting
    <2> QED BY <1>0, <2>1, OnlyNow DEF Current
<1>2. Current \in Lists
    <2>1. 0 \in 0..MaxDelay
        BY <1>0
    <2> QED BY <1>0, <2>1, OnlyNow DEF Current
<1>3. ToSet(wheel[Current]) = {wheel[Current][i] : i \in 1..Len(wheel[Current])}
    BY <1>0, <1>2, Members
<1>4. Filed(wheel, Waiting, time, expire, order)
    BY DEF TimerInv
<1>5. ASSUME NEW n \in Waiting, remain[n] = 0 PROVE n \in ToSet(wheel[Current])
    <2>1. Home(expire[n], time) = Current
        BY <1>1, <1>5
    <2>2. \E i \in 1..Len(wheel[Current]) : wheel[Current][i] = n
        BY <1>4, <2>1 DEF Filed
    <2> QED BY <1>3, <2>2
<1>6. ASSUME NEW n \in ToSet(wheel[Current]) PROVE n \in Waiting /\ remain[n] = 0
    <2>1. n \in Waiting /\ Home(expire[n], time) = Current
        BY <1>2, <1>3, <1>4 DEF Filed
    <2> QED BY <1>1, <2>1
<1> QED BY <1>1, <1>2, <1>5, <1>6

\* timer_execute takes the timers of this tick, all of them and no other.
LEMMA TimerExecute ==
    ASSUME TimerInv, Execute
    PROVE  TimerInv'
<1>0. /\ time \in Times /\ expire \in [Timers -> Times] /\ order \in Seq(Timers)
      /\ wheel \in [Lists -> Seq(Timers)] /\ ToSet(order) \subseteq Timers
    BY Types
<1>1. /\ batch = <<>> /\ batch' = wheel[Current] /\ wheel' = [wheel EXCEPT ![Current] = <<>>]
      /\ time' = time /\ expire' = expire /\ due' = due /\ pc' = pc /\ remain' = remain /\ order' = order
      /\ batch' # <<>>
    BY DEF Execute
<1>2. Current \in Lists
    BY InCurrent
<1> DEFINE s == wheel[Current]
<1>3. s \in Seq(Timers) /\ ToSet(s) = {s[i] : i \in 1..Len(s)} /\ Len(s) \in Nat
    BY <1>0, <1>2, Members
<1>4. Filed(wheel, Waiting, time, expire, order)
    BY DEF TimerInv
<1>5. ToSet(batch') = ToSet(s) /\ ToSet(s) \subseteq Waiting /\ Waiting \subseteq ToSet(order)
    BY <1>1, InCurrent DEF Waiting
<1>6. Waiting' = Waiting \ ToSet(s)
    <2>1. ToSet(batch) = {}
        BY <1>1 DEF ToSet
    <2> QED BY <1>1, <1>5, <2>1 DEF Waiting
<1>7. Filed(wheel', Waiting', time', expire', order')
    <2>1. Filed(wheel', Waiting \ ToSet(s), time, expire, order)
        <3> HIDE DEF s
        <3> QED BY <1>0, <1>1, <1>2, <1>4, FileClear DEF s
    <2> QED BY <1>1, <1>6, <2>1
<1>8. Dispatched'
    <2>1. \A n \in ToSet(batch') : remain'[n] = 0
        BY <1>1, <1>5, InCurrent
    <2>2. ASSUME NEW i \in 1..Len(s), NEW j \in 1..Len(s), i < j
          PROVE  s[i] # s[j] /\ Before(order, s[i], s[j])
        <3>1. s[i] \in ToSet(s) /\ s[j] \in ToSet(s)
            BY <1>3
        <3>2. expire[s[i]] = time /\ expire[s[j]] = time
            BY <3>1, InCurrent
        <3> QED BY <1>2, <1>4, <2>2, <3>2 DEF Filed
    <2>3. ToSet(batch') \subseteq ToSet(order')
        BY <1>1, <1>5
    <2> QED BY <1>1, <2>1, <2>2, <2>3 DEF Dispatched
<1>9. Remaining'
    <2>1. ASSUME NEW n \in Waiting', remain'[n] = 0 PROVE FALSE
        BY <1>1, <1>6, <2>1, InCurrent
    <2>2. \A n \in ToSet(order') : remain'[n] \in 0..MaxDelay /\ expire'[n] = (time' + remain'[n]) % Clock
        BY <1>1, Types
    <2> QED BY <2>1, <2>2 DEF Remaining
<1>10. TypeOK'
    <2>1. wheel' \in [Lists -> Seq(Timers)]
        BY <1>7 DEF Filed
    <2> QED BY <1>1, <1>3, <2>1 DEF TimerInv, TypeOK
<1> QED BY <1>1, <1>7, <1>8, <1>9, <1>10 DEF TimerInv

\* dispatch_list sends the message of the first timer of the list.
LEMMA TimerFire ==
    ASSUME TimerInv, Fire
    PROVE  TimerInv'
<1>0. order \in Seq(Timers) /\ batch \in Seq(Timers) /\ batch # <<>> /\ ToSet(order) \subseteq Timers
    BY Types DEF Fire
<1> DEFINE n == Head(batch)
           k == CHOOSE i \in 1..Len(order) : order[i] = n
<1>1. /\ batch' = Tail(batch) /\ order' = RemoveAt(order, k)
      /\ time' = time /\ wheel' = wheel /\ expire' = expire /\ due' = due /\ pc' = pc /\ remain' = remain
    BY DEF Fire
<1>2. /\ batch' \in Seq(Timers) /\ Len(batch) \in Nat \ {0} /\ Len(batch') = Len(batch) - 1 /\ n = batch[1]
      /\ \A i \in 1..Len(batch') : batch'[i] = batch[i + 1]
    BY <1>0, <1>1
<1>3. /\ ToSet(batch) = {batch[i] : i \in 1..Len(batch)}
      /\ ToSet(batch') = {batch'[i] : i \in 1..Len(batch')}
      /\ ToSet(order) = {order[i] : i \in 1..Len(order)}
    BY <1>0, <1>2, Members
<1>4. n \in ToSet(batch) /\ n \in ToSet(order)
    <2>1. 1 \in 1..Len(batch)
        BY <1>2
    <2>2. n \in ToSet(batch)
        BY <1>2, <1>3, <2>1
    <2> QED BY <2>2 DEF TimerInv, Dispatched
<1>5. k \in 1..Len(order) /\ order[k] = n
    BY <1>3, <1>4
<1> HIDE DEF k, n
<1>6. /\ order' \in Seq(Timers) /\ ToSet(order') = ToSet(order) \ {n}
      /\ \A i, j \in 1..Len(order') : i # j => order'[i] # order'[j]
      /\ \A a, b : a # n /\ b # n /\ Before(order, a, b) => Before(order', a, b)
    <2>1. \A i, j \in 1..Len(order) : i # j => order[i] # order[j]
        BY DEF TimerInv
    <2> QED BY <1>0, <1>1, <1>5, <2>1, OneLeaves
<1>7. \A i \in 1..Len(batch') : i + 1 \in 1..Len(batch) /\ batch'[i] = batch[i + 1] /\ batch[i + 1] # n
    <2>1. \A i \in 1..Len(batch') : i + 1 \in 1..Len(batch) /\ 1 \in 1..Len(batch) /\ 1 < i + 1
        BY <1>2
    <2> QED BY <1>2, <2>1 DEF TimerInv, Dispatched
<1>8. ToSet(batch') = ToSet(batch) \ {n}
    <2>1. ASSUME NEW i \in 1..Len(batch), batch[i] # n PROVE batch[i] \in ToSet(batch')
        <3>1. i - 1 \in 1..Len(batch') /\ i - 1 + 1 = i
            BY <1>2, <2>1
        <3> QED BY <1>2, <1>3, <3>1
    <2> QED BY <1>3, <1>7, <2>1
<1>9. Waiting' = Waiting /\ n \notin Waiting
    BY <1>4, <1>6, <1>8 DEF Waiting
<1>10. Filed(wheel', Waiting', time', expire', order')
    <2>1. Filed(wheel, Waiting, time, expire, order)
        BY DEF TimerInv
    <2>2. \A a, b \in Waiting : Before(order, a, b) => Before(order', a, b)
        BY <1>6, <1>9
    <2>3. Filed(wheel, Waiting, time, expire, order')
        BY <2>1, <2>2, FiledSame
    <2> QED BY <1>1, <1>9, <2>3
<1>11. Dispatched'
    <2>1. ToSet(batch') \subseteq ToSet(order') /\ \A m \in ToSet(batch') : remain'[m] = 0
        BY <1>1, <1>6, <1>8 DEF TimerInv, Dispatched
    <2>2. ASSUME NEW i \in 1..Len(batch'), NEW j \in 1..Len(batch'), i < j
          PROVE  batch'[i] # batch'[j] /\ Before(order', batch'[i], batch'[j])
        <3>1. i + 1 < j + 1
            BY <1>2, <2>2
        <3>2. batch[i + 1] # batch[j + 1] /\ Before(order, batch[i + 1], batch[j + 1])
            BY <1>7, <3>1 DEF TimerInv, Dispatched
        <3> QED BY <1>6, <1>7, <3>2
    <2> QED BY <2>1, <2>2 DEF Dispatched
<1>12. Remaining'
    <2>1. ASSUME NEW m \in Waiting', remain'[m] = 0 PROVE FALSE
        BY <1>0, <1>1, <1>9, <2>1 DEF TimerInv, Remaining
    <2>2. \A m \in ToSet(order') : remain'[m] \in 0..MaxDelay /\ expire'[m] = (time' + remain'[m]) % Clock
        BY <1>1, <1>6, Types
    <2> QED BY <2>1, <2>2 DEF Remaining
<1>13. TypeOK'
    BY <1>1, <1>2, <1>6 DEF TimerInv, TypeOK
<1> QED BY <1>1, <1>6, <1>10, <1>11, <1>12, <1>13 DEF TimerInv

\* timer_shift: the timers whose list changes with the tick are in the list
\* that it moves.
LEMMA TimerShift ==
    ASSUME TimerInv, Shift
    PROVE  TimerInv'
<1> DEFINE ct == (time + 1) % Clock
<1>0. /\ time \in Times /\ expire \in [Timers -> Times] /\ ToSet(order) \subseteq Timers
      /\ remain \in [Timers -> Int] /\ MaxDelay \in Nat
    BY Types, ClockIs
<1>1. /\ pc = "before" /\ batch = <<>> /\ time' = ct /\ wheel' = Shifted(ct) /\ pc' = "after"
      /\ remain' = [n \in Timers |-> IF n \notin ToSet(order) THEN 0
                               ELSE IF remain[n] > 0 THEN remain[n] - 1 ELSE -1]
      /\ expire' = expire /\ due' = due /\ batch' = batch /\ order' = order
    BY DEF Shift
<1>2. Waiting = ToSet(order) /\ Waiting' = Waiting /\ ToSet(batch) = {}
    <2>1. ToSet(batch) = {}
        BY <1>1 DEF ToSet
    <2> QED BY <1>1, <2>1 DEF Waiting
<1> HIDE DEF ct
<1>3. \A n \in Waiting : remain[n] \in 1..MaxDelay /\ expire[n] = (time + remain[n]) % Clock
    <2> SUFFICES ASSUME NEW n \in Waiting
                 PROVE  remain[n] \in 1..MaxDelay /\ expire[n] = (time + remain[n]) % Clock
        OBVIOUS
    <2>1. remain[n] \in 0..MaxDelay /\ expire[n] = (time + remain[n]) % Clock
        BY <1>2, Types
    <2>2. remain[n] # 0
        BY <1>1 DEF TimerInv, Remaining
    <2>3. remain[n] \in 1..MaxDelay
        BY <1>0, <2>1, <2>2
    <2> QED BY <2>1, <2>3
<1>4. \A n \in Waiting : Home(expire[n], ct) = Home(expire[n], time)
                         \/ (ct % Near = 0 /\ Home(expire[n], time) = Source(ct))
    BY <1>0, <1>3, HomeStays DEF ct
<1>5. ct \in Times
    <2>1. time \in Nat /\ Clock \in Nat \ {0}
        BY <1>0, ClockIs
    <2> DEFINE c == Clock
    <2>2. time + 1 \in Nat /\ c \in Nat \ {0}
        BY <2>1
    <2> HIDE DEF c
    <2>3. (time + 1) % c \in 0..(c - 1)
        BY <2>2
    <2> QED BY <2>3 DEF c, ct, Times
<1>6. Filed(Shifted(ct), Waiting, ct, expire, order)
    <2>1. Filed(wheel, Waiting, time, expire, order)
        BY DEF TimerInv
    <2>2. CASE ct % Near = 0
        <3>1. Source(ct) \in Lists
            BY <1>5, <2>2, SourceType
        <3>2. Filed(MoveList(wheel, Source(ct), ct), Waiting, ct, expire, order)
            BY <1>0, <1>4, <1>5, <2>1, <3>1, MoveFiles
        <3> QED BY <1>5, <2>2, <3>2, ShiftedIs
    <2>3. CASE ct % Near # 0
        <3>1. Filed(wheel, Waiting, ct, expire, order)
            BY <1>4, <2>1, <2>3, FiledSame
        <3> QED BY <1>5, <2>3, <3>1, ShiftedIs
    <2> QED BY <2>2, <2>3
<1>7. \A n \in Waiting : remain'[n] = remain[n] - 1
    <2> SUFFICES ASSUME NEW n \in Waiting PROVE remain'[n] = remain[n] - 1
        OBVIOUS
    <2>1. n \in Timers /\ n \in ToSet(order) /\ remain[n] > 0
        BY <1>0, <1>2, <1>3
    <2> QED BY <1>1, <2>1
<1>8. Remaining'
    <2>1. ASSUME NEW n \in Waiting
          PROVE  remain'[n] \in 0..MaxDelay /\ expire'[n] = (ct + remain'[n]) % Clock
        <3>1. remain[n] \in 1..MaxDelay /\ expire[n] = (time + remain[n]) % Clock
            BY <1>3
        <3>2. (time + remain[n]) % Clock = (ct + (remain[n] - 1)) % Clock /\ remain[n] - 1 \in 0..MaxDelay
            BY <1>0, <3>1, OneLess DEF ct
        <3> QED BY <1>1, <1>7, <3>1, <3>2
    <2> QED BY <1>1, <1>2, <2>1 DEF Remaining
<1>9. Dispatched'
    <2>1. ToSet(batch') = {} /\ Len(batch') = 0
        BY <1>1, <1>2
    <2> QED BY <2>1 DEF Dispatched
<1>10. TypeOK'
    <2>1. wheel' \in [Lists -> Seq(Timers)]
        BY <1>1, <1>6 DEF Filed
    <2>2. remain' \in [Timers -> -1..MaxDelay]
        <3>1. ASSUME NEW n \in Timers
              PROVE  (IF n \notin ToSet(order) THEN 0
                      ELSE IF remain[n] > 0 THEN remain[n] - 1 ELSE -1) \in -1..MaxDelay
            <4>1. remain[n] \in -1..MaxDelay
                BY DEF TimerInv, TypeOK
            <4> QED BY <1>0, <4>1
        <3> QED BY <1>1, <3>1
    <2> QED BY <1>1, <1>5, <2>1, <2>2 DEF TimerInv, TypeOK, Times
<1>11. Filed(wheel', Waiting', time', expire', order')
    BY <1>1, <1>2, <1>6
<1> QED BY <1>1, <1>8, <1>9, <1>10, <1>11 DEF TimerInv

\* Every step preserves the invariant.
LEMMA TimerNext ==
    ASSUME TimerInv, [Next]_vars
    PROVE  TimerInv'
<1>1. CASE Lock
    BY <1>1 DEF Lock, TimerInv, TypeOK, Waiting, Dispatched, Remaining
<1>2. CASE Execute
    BY <1>2, TimerExecute
<1>3. CASE Fire
    BY <1>3, TimerFire
<1>4. CASE Shift
    BY <1>4, TimerShift
<1>5. CASE Unlock
    <2>1. \A n \in Waiting : remain[n] # 0
        <3>1. ToSet(wheel[Current]) = {}
            BY <1>5 DEF Unlock, ToSet
        <3> QED BY <3>1, InCurrent
    <2>2. due' \in 0..2
        BY <1>5, Types DEF Unlock, TimerInv
    <2>3. /\ pc' = "idle" /\ time' = time /\ wheel' = wheel /\ expire' = expire /\ batch' = batch
          /\ remain' = remain /\ order' = order
        BY <1>5 DEF Unlock
    <2> QED BY <2>1, <2>2, <2>3 DEF TimerInv, TypeOK, Waiting, Dispatched, Remaining
<1>6. ASSUME NEW diff \in 1..2, UpdateTime(diff) PROVE TimerInv'
    <2>1. due' \in 0..2 /\ due' > 0
        BY <1>6 DEF UpdateTime
    <2>2. /\ pc' = pc /\ time' = time /\ wheel' = wheel /\ expire' = expire /\ batch' = batch
          /\ remain' = remain /\ order' = order
        BY <1>6 DEF UpdateTime
    <2> QED BY <2>1, <2>2 DEF TimerInv, TypeOK, Waiting, Dispatched, Remaining
<1>7. ASSUME NEW n \in Timers, NEW d \in 1..MaxDelay, Add(n, d) PROVE TimerInv'
    BY <1>7, TimerAdd
<1>8. CASE UNCHANGED vars
    BY <1>8 DEF vars, TimerInv, TypeOK, Waiting, Dispatched, Remaining
<1> QED BY <1>1, <1>2, <1>3, <1>4, <1>5, <1>6, <1>7, <1>8 DEF Next, Thread

-----------------------------------------------------------------------------
(* The theorems *)

\* The invariant holds in every reachable state of the wheel.
THEOREM TimerInvariance == Spec => []TimerInv
<1>1. Init => TimerInv
    BY TimerInit
<1>2. TimerInv /\ [Next]_vars => TimerInv'
    BY TimerNext
<1> QED BY <1>1, <1>2, PTL DEF Spec

\* The moves of timer_shift between the lists lose no timer and duplicate
\* none, for any sizes of the wheel, timers and delays: a pending timer is in
\* one list and once in it, or in the list that is being dispatched.
THEOREM NoTimerLost == Spec => []NoneLost
<1>1. ASSUME TimerInv PROVE NoneLost
    <2>0. wheel \in [Lists -> Seq(Timers)] /\ Filed(wheel, Waiting, time, expire, order) /\ time \in Times
          /\ expire \in [Timers -> Times] /\ ToSet(order) \subseteq Timers /\ TypeOK
        BY <1>1, Types DEF TimerInv
    <2>1. \A l \in Lists : /\ ToSet(wheel[l]) = {wheel[l][i] : i \in 1..Len(wheel[l])}
                           /\ Len(wheel[l]) \in Nat /\ DOMAIN wheel[l] = 1..Len(wheel[l])
        BY <2>0, Members
    <2>2. \A l \in Lists : \A n \in ToSet(wheel[l]) : n \in Waiting /\ Home(expire[n], time) = l
        BY <2>0, <2>1 DEF Filed
    <2>3. InWheel = Waiting
        <3>1. ASSUME NEW n \in Waiting PROVE n \in InWheel
            <4>1. expire[n] \in Times
                BY <2>0 DEF Waiting
            <4>2. Home(expire[n], time) \in Lists
                BY <2>0, <4>1, HomeHas
            <4>3. n \in ToSet(wheel[Home(expire[n], time)])
                BY <2>0, <2>1, <4>2 DEF Filed
            <4> QED BY <4>2, <4>3 DEF InWheel
        <3> QED BY <2>2, <3>1 DEF InWheel
    <2>4. ToSet(batch) \subseteq ToSet(order)
        BY <1>1 DEF TimerInv, Dispatched
    <2>5. ToSet(order) = InWheel \cup ToSet(batch) /\ InWheel \cap ToSet(batch) = {}
        BY <2>3, <2>4 DEF Waiting
    <2>6. \A l, m \in Lists : l # m => ToSet(wheel[l]) \cap ToSet(wheel[m]) = {}
        BY <2>2
    <2>7. ASSUME NEW l \in Lists PROVE IsInjective(wheel[l])
        <3>1. \A i, j \in 1..Len(wheel[l]) : i < j => wheel[l][i] # wheel[l][j]
            BY <2>0 DEF Filed
        <3>2. \A i, j \in 1..Len(wheel[l]) : wheel[l][i] = wheel[l][j] => i = j
            BY <2>1, <3>1
        <3> QED BY <2>1, <3>2 DEF IsInjective
    <2> QED BY <2>0, <2>5, <2>6, <2>7 DEF NoneLost
<1> QED BY <1>1, TimerInvariance, PTL

\* A timer fires at its tick, not before and not after it, for any sizes of
\* the wheel and any delay up to half the clock, whatever levels it crosses
\* and wherever the clock wraps.
THEOREM TimersOnTime == Spec => []OnTime
<1>1. ASSUME TimerInv PROVE OnTime
    <2>1. \A n \in ToSet(batch) : remain[n] = 0
        BY <1>1 DEF TimerInv, Dispatched
    <2>2. InWheel \subseteq Waiting
        <3>1. wheel \in [Lists -> Seq(Timers)] /\ Filed(wheel, Waiting, time, expire, order)
            BY <1>1, Types DEF TimerInv
        <3>2. ASSUME NEW l \in Lists PROVE ToSet(wheel[l]) \subseteq Waiting
            <4>1. ToSet(wheel[l]) = {wheel[l][i] : i \in 1..Len(wheel[l])}
                BY <3>1, Members
            <4> QED BY <3>1, <4>1 DEF Filed
        <3> QED BY <3>2 DEF InWheel
    <2>3. ASSUME NEW n \in Waiting
          PROVE  remain[n] > 0 \/ (remain[n] = 0 /\ pc = "after" /\ n \in ToSet(wheel[Current]))
        <3>1. remain[n] \in 0..MaxDelay /\ MaxDelay \in Nat
            BY <1>1, Types, ClockIs DEF Waiting
        <3>2. remain[n] = 0 => pc = "after" /\ n \in ToSet(wheel[Current])
            BY <1>1, InCurrent DEF TimerInv, Remaining
        <3> QED BY <3>1, <3>2
    <2> QED BY <2>1, <2>2, <2>3 DEF OnTime
<1> QED BY <1>1, TimerInvariance, PTL

\* Timers that expire at the same tick fire in the order they were set.
THEOREM TimersInOrder == Spec => FireInOrder
<1> DEFINE First ==
        \A n \in ToSet(order) :
           remain[n] = 0 => n = Head(batch) \/ \E i, j \in 1..Len(order) :
                                 i < j /\ order[i] = Head(batch) /\ order[j] = n
<1>1. ASSUME TimerInv, batch # <<>>, NEW n \in ToSet(order), remain[n] = 0
      PROVE  n = Head(batch) \/ \E i, j \in 1..Len(order) :
                                 i < j /\ order[i] = Head(batch) /\ order[j] = n
    <2>1. batch \in Seq(Timers) /\ Len(batch) \in Nat \ {0} /\ Head(batch) = batch[1]
        BY <1>1, Types
    <2>2. n \in ToSet(batch)
        BY <1>1 DEF TimerInv, Remaining, Waiting
    <2>3. PICK j \in 1..Len(batch) : batch[j] = n
        BY <2>1, <2>2, Members
    <2>4. CASE j = 1
        BY <2>1, <2>3, <2>4
    <2>5. CASE j # 1
        <3>1. 1 \in 1..Len(batch) /\ 1 < j
            BY <2>1, <2>5
        <3>2. Before(order, batch[1], batch[j])
            BY <1>1, <3>1 DEF TimerInv, Dispatched
        <3> QED BY <2>1, <2>3, <3>2 DEF Before
    <2> QED BY <2>4, <2>5
<1>2. TimerInv => (batch # <<>> /\ batch' = Tail(batch) => First)
    BY <1>1
<1> HIDE DEF First
<1>3. TimerInv => [batch # <<>> /\ batch' = Tail(batch) => First]_vars
    BY <1>2
<1>4. Spec => [][batch # <<>> /\ batch' = Tail(batch) => First]_vars
    BY <1>3, TimerInvariance, PTL
<1> QED BY <1>4 DEF FireInOrder, First

-----------------------------------------------------------------------------
(* The ring buffer of a mailbox *)

\* The inductive invariant of the cells.
RingInv == CellsOK /\ Filled

\* The remainder of a position in a doubled array is one subtraction.
LEMMA WrapOnce ==
    ASSUME NEW c \in Nat \ {0}, NEW k \in 0..(2 * c - 1)
    PROVE  k % c = IF k < c THEN k ELSE k - c
<1>1. CASE k < c
    BY <1>1
<1>2. CASE k >= c
    BY <1>2
<1> QED BY <1>1, <1>2

\* The length is less than the capacity, and the messages' cells are cells.
LEMMA LengthCells ==
    ASSUME CellsOK
    PROVE  /\ Length \in 0..(cap - 1)
           /\ \A i \in 1..cap : Cell(i) \in 0..(cap - 1)
           /\ Length = 0 <=> head = tail
           /\ Length = 0 \/ Cell(1) = head
BY DEF CellsOK, Length, Cell

\* The contents are a sequence of messages.
LEMMA ContentsSeq ==
    ASSUME RingInv
    PROVE  Contents \in Seq(Message) /\ Len(Contents) = Length
<1>1. Length \in Nat
    BY LengthCells DEF RingInv
<1>2. Contents \in [1..Length -> Message]
    BY DEF RingInv, Filled, Contents
<1> QED BY <1>1, <1>2 DEF Contents

\* The same of the next state.
LEMMA NextContentsSeq ==
    ASSUME CellsOK', Filled'
    PROVE  Contents' \in Seq(Message) /\ Len(Contents') = Length'
<1>1. Length' \in Nat
    <2>1. \A c \in Nat \ {0} : \A h, t \in 0..(c - 1) : (IF h <= t THEN t - h ELSE t + c - h) \in Nat
        OBVIOUS
    <2>2. cap' \in Nat \ {0} /\ head' \in 0..(cap' - 1) /\ tail' \in 0..(cap' - 1)
        BY DEF CellsOK
    <2>3. Length' = IF head' <= tail' THEN tail' - head' ELSE tail' + cap' - head'
        BY DEF Length
    <2> QED BY <2>1, <2>2, <2>3
<1>2. Contents' \in [1..Length' -> Message]
    BY DEF Filled, Contents
<1> QED BY <1>1, <1>2 DEF Contents

\* A pop of a mailbox with a message takes its first cell.
LEMMA PopStep ==
    ASSUME RingInv, Pop
    PROVE  /\ RingInv'
           /\ Contents # <<>> /\ popped' = Head(Contents) /\ Contents' = Tail(Contents)
<1> USE DEF RingInv
<1>1. Length \in 1..(cap - 1) /\ Cell(1) = head
    BY LengthCells DEF Pop, CellsOK
<1>2. CellsOK'
    BY DEF Pop, CellsOK
<1>3. Length' = Length - 1
    BY DEF Pop, CellsOK, Length
<1>4. \A i \in 1..(Length - 1) : Cell(i)' = Cell(i + 1)
    BY LengthCells DEF Pop, CellsOK, Cell
<1>5. queue' = queue
    BY DEF Pop
<1>6. Filled'
    BY <1>1, <1>3, <1>4, <1>5 DEF Filled
<1>7. Len(Contents) = Length /\ Contents \in Seq(Message)
    BY ContentsSeq
<1>8. Contents # <<>> /\ popped' = Head(Contents)
    <2>1. Head(Contents) = Contents[1]
        BY <1>7
    <2>2. Contents[1] = queue[head]
        BY <1>1 DEF Contents
    <2> QED BY <1>1, <1>7, <2>1, <2>2 DEF Pop
<1>9. Contents' = Tail(Contents)
    <2>1. /\ Tail(Contents) \in Seq(Message) /\ Len(Tail(Contents)) = Length - 1
          /\ \A i \in 1..(Length - 1) : Tail(Contents)[i] = Contents[i + 1]
        BY <1>7, <1>8, HeadTailProperties
    <2>2. \A i \in 1..(Length - 1) : Contents[i + 1] = queue[Cell(i + 1)]
        BY <1>1 DEF Contents
    <2>3. \A i \in 1..(Length - 1) : Contents'[i] = queue[Cell(i + 1)]
        BY <1>1, <1>3, <1>4, <1>5 DEF Contents
    <2>4. Contents' \in Seq(Message) /\ Len(Contents') = Length - 1
        BY <1>2, <1>3, <1>6, NextContentsSeq
    <2> QED BY <2>1, <2>2, <2>3, <2>4, SeqEqual
<1> QED BY <1>2, <1>6, <1>8, <1>9

\* A push that finds a free cell after the one it writes appends.
LEMMA PushRoomStep ==
    ASSUME RingInv, NEW m \in Message,
           LET next == IF tail + 1 >= cap THEN 0 ELSE tail + 1
           IN  next # head /\ tail' = next,
           queue' = [queue EXCEPT ![tail] = m],
           UNCHANGED <<cap, head, popped>>
    PROVE  RingInv' /\ Contents' = Append(Contents, m)
<1> USE DEF RingInv
<1>1. Length \in 0..(cap - 1)
    BY LengthCells
<1>2. CellsOK'
    BY DEF CellsOK
<1>3. Length' = Length + 1
    BY DEF CellsOK, Length
<1>4. \A i \in Nat : Cell(i)' = Cell(i)
    BY DEF Cell
<1>5. \A i \in 1..Length : Cell(i) # tail
    BY DEF CellsOK, Length, Cell
<1>6. Cell(Length + 1) = tail
    BY DEF CellsOK, Length, Cell
<1>7. \A i \in 1..Length : queue'[Cell(i)] = queue[Cell(i)]
    BY <1>1, <1>5, LengthCells DEF CellsOK
<1>8. queue'[tail] = m
    BY DEF CellsOK
<1>9. \A i \in 1..(Length + 1) : i \in 1..Length \/ i = Length + 1
    BY <1>1
<1>10. Filled'
    BY <1>1, <1>3, <1>4, <1>6, <1>7, <1>8, <1>9 DEF Filled
<1>11. Contents' = Append(Contents, m)
    <2>1. Contents \in Seq(Message) /\ Len(Contents) = Length
        BY ContentsSeq
    <2>2. /\ Append(Contents, m) \in Seq(Message) /\ Len(Append(Contents, m)) = Length + 1
          /\ \A i \in 1..Length : Append(Contents, m)[i] = Contents[i]
          /\ Append(Contents, m)[Length + 1] = m
        BY <2>1, AppendProperties
    <2>3. \A i \in 1..(Length + 1) : Contents'[i] = queue'[Cell(i)]
        BY <1>1, <1>3, <1>4 DEF Contents
    <2>4. \A i \in 1..Length : Contents[i] = queue[Cell(i)]
        BY DEF Contents
    <2>5. Contents' \in Seq(Message) /\ Len(Contents') = Length + 1
        BY <1>2, <1>3, <1>10, NextContentsSeq
    <2>6. \A i \in 1..(Length + 1) : Contents'[i] = Append(Contents, m)[i]
        BY <1>6, <1>7, <1>8, <1>9, <2>2, <2>3, <2>4
    <2> QED BY <2>2, <2>5, <2>6, SeqEqual
<1> QED BY <1>2, <1>10, <1>11

\* A push that fills the array appends too: the doubled array holds the same
\* messages in the same order, starting at cell 0.
LEMMA PushGrowStep ==
    ASSUME RingInv, NEW m \in Message,
           (IF tail + 1 >= cap THEN 0 ELSE tail + 1) = head,
           queue' = Expanded([queue EXCEPT ![tail] = m], head, cap),
           head' = 0, tail' = cap, cap' = 2 * cap, popped' = popped
    PROVE  RingInv' /\ Contents' = Append(Contents, m)
<1> USE DEF RingInv
<1> DEFINE written == [queue EXCEPT ![tail] = m]
<1>1. /\ cap \in Nat \ {0} /\ head \in 0..(cap - 1) /\ tail \in 0..(cap - 1)
      /\ queue \in [0..(cap - 1) -> Message \cup {NoMessage}]
    BY DEF CellsOK
<1>2. Length = cap - 1
    BY <1>1 DEF Length
<1>3. \A i \in 1..cap : Cell(i) = (head + (i - 1)) % cap
    <2> SUFFICES ASSUME NEW i \in 1..cap PROVE Cell(i) = (head + (i - 1)) % cap
        OBVIOUS
    <2>1. head + (i - 1) \in 0..(2 * cap - 1)
        BY <1>1
    <2> DEFINE k == head + (i - 1)
    <2> HIDE DEF k
    <2>2. k % cap = IF k < cap THEN k ELSE k - cap
        BY <1>1, <2>1, WrapOnce DEF k
    <2> QED BY <1>1, <2>2 DEF Cell, k
<1>4. \A i \in 1..cap : Cell(i)' = i - 1
    BY <1>1 DEF Cell
<1>5. Length' = cap
    BY <1>1 DEF Length
<1>6. \A i \in 1..cap : queue'[i - 1] = written[Cell(i)]
    <2> SUFFICES ASSUME NEW i \in 1..cap PROVE queue'[i - 1] = written[Cell(i)]
        OBVIOUS
    <2>1. i - 1 \in 0..(2 * cap - 1) /\ i - 1 < cap
        BY <1>1
    <2>2. queue'[i - 1] = written[(head + (i - 1)) % cap]
        BY <2>1 DEF Expanded
    <2> QED BY <1>3, <2>2
<1>7. \A i \in 1..cap : Cell(i) = tail <=> i = cap
    BY <1>1 DEF Cell
<1>8. \A i \in 1..cap : Cell(i) \in 0..(cap - 1)
    BY LengthCells
<1>9. \A i \in 1..cap : queue'[i - 1] = IF i = cap THEN m ELSE queue[Cell(i)]
    BY <1>1, <1>6, <1>7, <1>8
<1>10. CellsOK'
    <2>1. written \in [0..(cap - 1) -> Message \cup {NoMessage}]
        BY <1>1
    <2>2. \A i \in 0..(2 * cap - 1) : i < cap => (head + i) % cap \in 0..(cap - 1)
        BY <1>1
    <2>3. queue' \in [0..(2 * cap - 1) -> Message \cup {NoMessage}]
        <3> HIDE DEF written
        <3>1. queue' = [i \in 0..(2 * cap - 1) |->
                           IF i < cap THEN written[(head + i) % cap] ELSE NoMessage]
            BY DEF Expanded, written
        <3>2. \A i \in 0..(2 * cap - 1) :
                 (IF i < cap THEN written[(head + i) % cap] ELSE NoMessage) \in Message \cup {NoMessage}
            <4>1. \A j \in 0..(cap - 1) : written[j] \in Message \cup {NoMessage}
                BY <2>1
            <4> QED BY <2>2, <4>1
        <3> QED BY <3>1, <3>2
    <2>4. cap' \in Nat \ {0} /\ head' \in 0..(cap' - 1) /\ tail' \in 0..(cap' - 1)
        BY <1>1
    <2>5. queue' \in [0..(cap' - 1) -> Message \cup {NoMessage}]
        BY <2>3
    <2>6. popped' \in Message \cup {NoMessage}
        BY DEF CellsOK
    <2> QED BY <2>4, <2>5, <2>6 DEF CellsOK
<1>11. Filled'
    <2>1. \A i \in 1..cap : queue'[i - 1] \in Message
        <3>1. \A i \in 1..cap : i = cap \/ i \in 1..Length
            BY <1>1, <1>2
        <3>2. \A i \in 1..Length : queue[Cell(i)] \in Message
            BY DEF Filled
        <3> QED BY <1>9, <3>1, <3>2
    <2> QED BY <1>4, <1>5, <2>1 DEF Filled
<1>12. Contents' = Append(Contents, m)
    <2>1. Contents \in Seq(Message) /\ Len(Contents) = cap - 1
        BY <1>2, ContentsSeq
    <2>2. /\ Append(Contents, m) \in Seq(Message) /\ Len(Append(Contents, m)) = cap
          /\ \A i \in 1..(cap - 1) : Append(Contents, m)[i] = Contents[i]
          /\ Append(Contents, m)[cap] = m
        <3>1. Len(Contents) + 1 = cap
            BY <1>1, <2>1
        <3> QED BY <2>1, <3>1, AppendProperties
    <2>3. \A i \in 1..cap : Contents'[i] = queue'[i - 1]
        BY <1>1, <1>4, <1>5 DEF Contents
    <2>4. \A i \in 1..(cap - 1) : Contents[i] = queue[Cell(i)]
        BY <1>2 DEF Contents
    <2>5. Contents' \in Seq(Message) /\ Len(Contents') = cap
        BY <1>5, <1>10, <1>11, NextContentsSeq
    <2>6. \A i \in 1..cap : i = cap \/ (i # cap /\ i \in 1..(cap - 1))
        BY <1>1
    <2>7. \A i \in 1..cap : Contents'[i] = Append(Contents, m)[i]
        <3> SUFFICES ASSUME NEW i \in 1..cap PROVE Contents'[i] = Append(Contents, m)[i]
            OBVIOUS
        <3>1. Contents'[i] = IF i = cap THEN m ELSE queue[Cell(i)]
            BY <1>9, <2>3
        <3>2. CASE i = cap
            BY <2>2, <3>1, <3>2
        <3>3. CASE i # cap
            BY <2>2, <2>4, <2>6, <3>1, <3>3
        <3> QED BY <3>2, <3>3
    <2> QED BY <2>2, <2>5, <2>7, SeqEqual
<1> QED BY <1>10, <1>11, <1>12

\* Every push appends.
LEMMA PushStep ==
    ASSUME RingInv, NEW m \in Message, Push(m)
    PROVE  RingInv' /\ Contents' = Append(Contents, m) /\ popped' = popped
<1>1. popped' = popped
    BY DEF Push
<1>2. CASE (IF tail + 1 >= cap THEN 0 ELSE tail + 1) # head
    BY <1>1, <1>2, PushRoomStep DEF Push
<1>3. CASE (IF tail + 1 >= cap THEN 0 ELSE tail + 1) = head
    BY <1>1, <1>3, PushGrowStep DEF Push
<1> QED BY <1>1, <1>2, <1>3

\* A new mailbox is an empty queue.
LEMMA InitRing == RingInit => RingInv /\ Queue!Init
<1> SUFFICES ASSUME RingInit PROVE RingInv /\ Queue!Init
    OBVIOUS
<1>1. CellsOK
    BY RingAssumption DEF RingInit, CellsOK
<1>2. Length = 0
    BY DEF RingInit, Length
<1>3. Filled
    BY <1>2 DEF Filled
<1>4. Contents = <<>>
    BY <1>2 DEF Contents
<1> QED BY <1>1, <1>3, <1>4 DEF RingInv, Queue!Init, RingInit

\* Every step keeps the invariant and is a step of the queue.
LEMMA NextRing ==
    RingInv /\ [RingNext]_ringVars => RingInv' /\ [Queue!Next]_<<Contents, popped>>
<1> SUFFICES ASSUME RingInv, [RingNext]_ringVars
             PROVE  RingInv' /\ [Queue!Next]_<<Contents, popped>>
    OBVIOUS
<1>1. CASE Pop
    BY <1>1, PopStep DEF Queue!Next, Queue!Pop
<1>2. CASE PopEmpty
    <2>1. RingInv' /\ Contents' = Contents
        BY <1>2 DEF PopEmpty, RingInv, CellsOK, Filled, Contents, Length, Cell
    <2>2. Contents = <<>>
        BY <1>2, LengthCells DEF PopEmpty, RingInv, Contents
    <2> QED BY <1>2, <2>1, <2>2 DEF PopEmpty, Queue!Next, Queue!Pop
<1>3. CASE Overload \/ UNCHANGED ringVars
    BY <1>3 DEF Overload, ringVars, RingInv, CellsOK, Filled, Contents, Length, Cell
<1>4. ASSUME NEW m \in Message, Push(m)
      PROVE  RingInv' /\ Queue!Next
    BY <1>4, PushStep DEF Queue!Next, Queue!Push
<1> QED BY <1>1, <1>2, <1>3, <1>4 DEF RingNext

\* No pop ever hands out a cell that no push has written (skynet_mq_pop,
\* skynet_mq_push and expand_queue).
THEOREM CellsFilled == RingSpec => [](CellsOK /\ Filled)
<1>1. RingInit => RingInv
    BY InitRing
<1>2. RingInv /\ [RingNext]_ringVars => RingInv'
    BY NextRing
<1>3. RingInv => CellsOK /\ Filled
    BY DEF RingInv
<1> QED BY <1>1, <1>2, <1>3, PTL DEF RingSpec

\* The mailbox implements a first-in first-out queue: wraps and doublings of
\* the array lose, repeat and reorder no message.
THEOREM RingImplementsFifo == RingSpec => FifoSpec
<1>1. RingInit => RingInv /\ Queue!Init
    BY InitRing
<1>2. RingInv /\ [RingNext]_ringVars => RingInv' /\ [Queue!Next]_<<Contents, popped>>
    BY NextRing
<1> QED BY <1>1, <1>2, PTL DEF RingSpec, FifoSpec, Queue!Spec
-----------------------------------------------------------------------------
(* The warning threshold *)

\* The values the threshold takes in n rounds of the loop.
Rounds(g, th, len, n) ==
    g = [k \in 0..n |-> IF k = 0 THEN th
                        ELSE IF g[k - 1] < len THEN 2 * g[k - 1] ELSE g[k - 1]]

\* There are such values for every number of rounds.
LEMMA RoundsExist ==
    ASSUME NEW th, NEW len, NEW n \in Nat
    PROVE  \E g : Rounds(g, th, len, n)
<1> DEFINE T == {k \in Nat : ~\E g : Rounds(g, th, len, k)}
<1> SUFFICES ASSUME T # {} PROVE FALSE
    OBVIOUS
<1>1. PICK m \in T : \A y \in T : m <= y
    <2> T \subseteq Nat
        OBVIOUS
    <2> HIDE DEF T
    <2> QED BY Least
<1>2. m \in Nat /\ ~\E g : Rounds(g, th, len, m)
    BY <1>1
<1>3. CASE m = 0
    <2> DEFINE g == [k \in 0..0 |-> th]
    <2>1. Rounds(g, th, len, 0)
        BY DEF Rounds
    <2> QED BY <1>2, <1>3, <2>1
<1>4. CASE m # 0
    <2>1. m - 1 \in Nat /\ ~(m <= m - 1)
        BY <1>2, <1>4
    <2>2. m - 1 \notin T
        BY <1>1, <2>1
    <2>3. PICK f : Rounds(f, th, len, m - 1)
        BY <2>1, <2>2
    <2> DEFINE g == [k \in 0..m |-> IF k = 0 THEN th
                        ELSE IF f[k - 1] < len THEN 2 * f[k - 1] ELSE f[k - 1]]
    <2>4. \A k \in 0..(m - 1) : g[k] = f[k]
        BY <1>2, <2>1, <2>3 DEF Rounds
    <2>5. \A k \in 0..m : k # 0 => g[k - 1] = f[k - 1]
        <3>1. \A k \in 0..m : k # 0 => k - 1 \in 0..(m - 1)
            BY <1>2
        <3> HIDE DEF g
        <3> QED BY <2>4, <3>1
    <2>6. g = [k \in 0..m |-> IF k = 0 THEN th
                        ELSE IF g[k - 1] < len THEN 2 * g[k - 1] ELSE g[k - 1]]
        BY <2>5
    <2>7. Rounds(g, th, len, m)
        BY <2>6 DEF Rounds
    <2> QED BY <1>2, <2>7
<1> QED BY <1>3, <1>4

\* In every round the threshold covers the length or has grown with the
\* rounds, and it grows only while it is less than the length.
LEMMA RoundsBound ==
    ASSUME NEW th \in Nat \ {0}, NEW len \in Nat, NEW g, Rounds(g, th, len, len), NEW n \in 0..len
    PROVE  /\ g[n] \in Nat /\ g[n] >= th
           /\ g[n] >= len \/ g[n] > n
           /\ g[n] = th \/ (th < len /\ g[n] < 2 * len)
<1> DEFINE P(k) == /\ g[k] \in Nat /\ g[k] >= th
                   /\ g[k] >= len \/ g[k] > k
                   /\ g[k] = th \/ (th < len /\ g[k] < 2 * len)
           T == {k \in 0..len : ~P(k)}
<1> SUFFICES ASSUME T # {} PROVE FALSE
    OBVIOUS
<1>1. PICK m \in T : \A y \in T : m <= y
    <2> T \subseteq Nat
        OBVIOUS
    <2> HIDE DEF T
    <2> QED BY Least
<1>2. m \in 0..len /\ ~P(m)
    BY <1>1
<1>3. g[m] = IF m = 0 THEN th ELSE IF g[m - 1] < len THEN 2 * g[m - 1] ELSE g[m - 1]
    BY <1>2 DEF Rounds
<1>4. CASE m = 0
    BY <1>2, <1>3, <1>4
<1>5. CASE m # 0
    <2>1. m - 1 \in 0..len /\ ~(m <= m - 1)
        BY <1>2, <1>5
    <2>2. P(m - 1)
        BY <1>1, <2>1
    <2>3. P(m)
        BY <1>2, <1>3, <1>5, <2>1, <2>2
    <2> QED BY <1>2, <2>3
<1> QED BY <1>4, <1>5

\* What the loop computes: a threshold that covers the length, and that is
\* the old one or was moved, past a length it was less than, by less than a
\* factor of two.
LEMMA ThresholdDoubled ==
    ASSUME NEW th \in Nat \ {0}, NEW len \in Nat
    PROVE  /\ Doubled(th, len) \in Nat
           /\ Doubled(th, len) >= th /\ Doubled(th, len) >= len
           /\ Doubled(th, len) = th \/ (th < len /\ Doubled(th, len) < 2 * len)
<1> DEFINE up == CHOOSE g : Rounds(g, th, len, len)
<1>1. Rounds(up, th, len, len)
    BY RoundsExist
<1>2. Doubled(th, len) = up[len]
    BY DEF Doubled, Rounds
<1> HIDE DEF up
<1>3. len \in 0..len
    OBVIOUS
<1>4. /\ up[len] \in Nat /\ up[len] >= th
      /\ up[len] >= len \/ up[len] > len
      /\ up[len] = th \/ (th < len /\ up[len] < 2 * len)
    BY <1>1, <1>3, RoundsBound
<1> QED BY <1>2, <1>4

\* The threshold is never below the one it is reset to.
ThresholdInv == RingInv /\ threshold \in Nat /\ threshold >= OverloadAt /\ overload \in Nat

\* What BacklogWarned says of a step.
Warned ==
    /\ Len(Contents') < Len(Contents) => Len(Contents') <= threshold'
    /\ threshold' > threshold => overload' = Len(Contents') /\ threshold' < 2 * overload'
    /\ threshold' < threshold => Contents = <<>> /\ popped' = NoMessage

\* Every step keeps the threshold in bounds and reports the backlog.
LEMMA WarnedStep ==
    ASSUME ThresholdInv, [RingNext]_ringVars PROVE ThresholdInv' /\ Warned
<1>1. /\ RingInv /\ threshold \in Nat \ {0} /\ threshold >= OverloadAt /\ overload \in Nat
      /\ OverloadAt \in Nat \ {0}
    BY RingAssumption DEF ThresholdInv
<1>2. RingInv'
    BY <1>1, NextRing
<1>3. Contents \in Seq(Message) /\ Len(Contents) \in Nat /\ Len(Contents) = Length
    BY <1>1, ContentsSeq
<1>4. CASE Pop
    <2> DEFINE next == IF head + 1 >= cap THEN 0 ELSE head + 1
               len  == IF tail - next < 0 THEN tail - next + cap ELSE tail - next
    <2>1. threshold' = Doubled(threshold, len) /\ overload' = IF len > threshold THEN len ELSE overload
        BY <1>4 DEF Pop
    <2>2. len = Length' /\ len \in Nat
        BY <1>1, <1>4 DEF Pop, RingInv, CellsOK, Length
    <2>3. Len(Contents') = len
        BY <1>2, <2>2, NextContentsSeq DEF RingInv
    <2> HIDE DEF len
    <2>4. /\ Doubled(threshold, len) \in Nat
          /\ Doubled(threshold, len) >= threshold /\ Doubled(threshold, len) >= len
          /\ \/ Doubled(threshold, len) = threshold
             \/ threshold < len /\ Doubled(threshold, len) < 2 * len
        BY <1>1, <2>2, ThresholdDoubled
    <2> QED BY <1>1, <1>2, <2>1, <2>2, <2>3, <2>4 DEF ThresholdInv, Warned
<1>5. CASE PopEmpty
    <2>1. threshold' = OverloadAt /\ popped' = NoMessage /\ overload' = overload /\ head = tail
        BY <1>5 DEF PopEmpty
    <2>2. Contents' = Contents
        BY <1>5 DEF PopEmpty, Contents, Length, Cell
    <2>3. Contents = << >>
        BY <1>1, <2>1, LengthCells DEF RingInv, Contents
    <2> QED BY <1>1, <1>2, <1>3, <2>1, <2>2, <2>3 DEF ThresholdInv, Warned
<1>6. CASE Overload \/ UNCHANGED ringVars
    <2>1. threshold' = threshold /\ overload' \in Nat
        BY <1>1, <1>6 DEF Overload, ringVars
    <2>2. Contents' = Contents
        BY <1>6 DEF Overload, ringVars, Contents, Length, Cell
    <2>3. ThresholdInv'
        BY <1>1, <1>2, <2>1 DEF ThresholdInv
    <2>4. Len(Contents') = Len(Contents)
        BY <2>2
    <2>5. ~(Len(Contents') < Len(Contents))
        BY <1>3, <2>4
    <2>6. ~(threshold' > threshold) /\ ~(threshold' < threshold)
        BY <1>1, <2>1
    <2>7. Warned
        BY <2>5, <2>6 DEF Warned
    <2> QED BY <2>3, <2>7
<1>7. ASSUME NEW m \in Message, Push(m) PROVE ThresholdInv' /\ Warned
    <2>1. threshold' = threshold /\ overload' = overload
        BY <1>7 DEF Push
    <2>2. Contents' = Append(Contents, m)
        BY <1>1, <1>7, PushStep
    <2>3. Len(Contents') = Len(Contents) + 1
        BY <1>3, <2>2
    <2> QED BY <1>1, <1>2, <1>3, <2>1, <2>3 DEF ThresholdInv, Warned
<1> QED BY <1>4, <1>5, <1>6, <1>7 DEF RingNext

\* In every behaviour of a mailbox: after a pop the threshold covers what is
\* left, it moves up only with the mark of that backlog and by less than twice
\* it, and down only when a pop finds the mailbox empty (skynet_mq_pop).
THEOREM BacklogReported == RingSpec => BacklogWarned
<1>1. RingInit => ThresholdInv
    BY InitRing, RingAssumption DEF RingInit, ThresholdInv
<1>2. ThresholdInv /\ [RingNext]_ringVars => ThresholdInv' /\ [Warned]_ringVars
    BY WarnedStep
<1>3. RingSpec => [][Warned]_ringVars
    BY <1>1, <1>2, PTL DEF RingSpec
<1> QED BY <1>3 DEF BacklogWarned, Warned

=============================================================================

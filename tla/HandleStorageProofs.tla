------------------------ MODULE HandleStorageProofs -------------------------
(***************************************************************************)
(* Proofs about the handle table (HandleStorage) and the lock it is used   *)
(* under (RwLock), for every size of the table and of the space of         *)
(* handles and every set of contexts, names and threads.                   *)
(*                                                                         *)
(* TableInv is what any number of creating threads leave true: the size of *)
(* the table divides the number of handles, so that the probes of a        *)
(* registration meet every cell and a handle keeps its cell through the    *)
(* wrap of the counter, and the names are sorted.  A full table has a      *)
(* context in every cell, and the doubled one has an empty cell by the     *)
(* pigeonhole principle.  That is enough for LeavesWhole.                  *)
(*                                                                         *)
(* HandleInv adds InPlace, every context is in the cell of its handle.  It *)
(* holds as long as one thread at a time is between skynet_handle_register *)
(* and the store of ctx->handle (OneLauncher): a second thread can double  *)
(* the table in between and rehash the context by the handle 0.  From      *)
(* InPlace it follows that no two contexts of a full table meet in the     *)
(* doubled one, since equal remainders by 2 * size are equal by size.      *)
(*                                                                         *)
(* A pass of skynet_handle_retireall keeps Pass: as long as it has retired *)
(* nothing, the handles it found at the start are in cells it has not come *)
(* to, where a doubling can only move them up, or are the one it has read. *)
(* New handles are none of these unless the counter wraps (NoWrap).        *)
(*                                                                         *)
(* The bisection is a loop: Narrowed is its invariant, and after as many   *)
(* turns as there are names nothing is left between begin and end.  Loops  *)
(* are recursive functions of the number of turns; that they exist, and    *)
(* what they compute, is shown by induction on a set (Climb), which comes  *)
(* from the least member of a set of naturals (WFMin).                     *)
(***************************************************************************)
EXTENDS HandleStorage, RwLock, FiniteSetTheorems, SequenceTheorems, WellFoundedInduction, TLAPS

-----------------------------------------------------------------------------
(* Naturals *)

\* A set of naturals has a least member.
LEMMA Least ==
    ASSUME NEW T, T \subseteq Nat, T # {}
    PROVE  \E x \in T : \A y \in T : x <= y
<1>1. PICK x \in T : \A y \in T : ~(<<y, x>> \in OpToRel(<, Nat))
    BY NatLessThanWellFounded, WFMin
<1>2. \A y, z \in Nat : y < z => <<y, z>> \in OpToRel(<, Nat)
    BY DEF OpToRel
<1>3. \A y \in T : ~(y < x)
    BY <1>1, <1>2
<1>4. x \in Nat
    OBVIOUS
<1> HIDE <1>1, <1>2
<1>5. \A y \in T : x <= y
    BY <1>3, <1>4
<1> QED BY <1>5

\* Induction up to a bound, for a set.
LEMMA Climb ==
    ASSUME NEW S, NEW m \in Nat, 0 \in S, \A k \in 1..m : k - 1 \in S => k \in S
    PROVE  0..m \subseteq S
<1> DEFINE T == {k \in 0..m : k \notin S}
<1> SUFFICES ASSUME T # {} PROVE FALSE
    OBVIOUS
<1>1. PICK x \in T : \A y \in T : x <= y
    <2> T \subseteq Nat
        OBVIOUS
    <2> HIDE DEF T
    <2> QED BY Least
<1>2. x \in 0..m /\ x \notin S /\ x # 0
    BY <1>1
<1>3. x - 1 \in 0..m /\ ~(x <= x - 1) /\ x \in 1..m
    BY <1>2
<1>4. x - 1 \in S
    BY <1>1, <1>3
<1> QED BY <1>2, <1>3, <1>4

\* The least member of a set of naturals.
LEMMA MinOf ==
    ASSUME NEW T, T \subseteq Nat, T # {}
    PROVE  Min(T) \in T /\ \A y \in T : Min(T) <= y
BY Least DEF Min

\* Products grow with a factor.
LEMMA Grows ==
    ASSUME NEW a \in Int, NEW b \in Int, a <= b, NEW s \in Nat
    PROVE  a * s <= b * s
<1>1. (b - a) \in Nat
    OBVIOUS
<1>2. \A p, q \in Nat : p * q >= 0
    OBVIOUS
<1>3. (b - a) * s >= 0
    BY <1>1, <1>2
<1>4. (b - a) * s = b * s - a * s
    OBVIOUS
<1>5. a * s \in Int /\ b * s \in Int
    OBVIOUS
<1> QED BY <1>3, <1>4, <1>5

\* Quotient and remainder.
Quot(x, s) == x \div s
Rem(x, s) == x % s

\* A number lies in its block of s numbers.
LEMMA InBlock ==
    ASSUME NEW x \in Nat, NEW s \in Nat \ {0}
    PROVE  /\ Quot(x, s) \in Nat /\ Rem(x, s) \in Nat /\ Rem(x, s) \in 0..(s - 1)
           /\ x = s * Quot(x, s) + Rem(x, s)
<1>1. Rem(x, s) \in 0..(s - 1)
    BY DEF Rem
<1>2. Quot(x, s) \in Nat
    BY DEF Quot
<1>3. x = s * Quot(x, s) + Rem(x, s)
    BY DEF Quot, Rem
<1> QED BY <1>1, <1>2, <1>3

\* ... and in no other.
LEMMA BlockIs ==
    ASSUME NEW x \in Nat, NEW s \in Nat \ {0}, NEW q \in Nat, NEW r \in 0..(s - 1), x = s * q + r
    PROVE  Quot(x, s) = q /\ Rem(x, s) = r
<1> DEFINE p == Quot(x, s)
           u == Rem(x, s)
<1>1. p \in Nat /\ u \in 0..(s - 1) /\ x = s * p + u
    BY InBlock
<1> HIDE DEF p, u
<1>2. CASE p <= q - 1
    <2>1. p * s <= (q - 1) * s
        BY <1>1, <1>2, Grows
    <2>2. (q - 1) * s = s * q - s /\ p * s = s * p
        BY <1>1
    <2> QED BY <1>1, <2>1, <2>2
<1>3. CASE q <= p - 1
    <2>1. q * s <= (p - 1) * s
        BY <1>1, <1>3, Grows
    <2>2. (p - 1) * s = s * p - s /\ q * s = s * q
        BY <1>1
    <2> QED BY <1>1, <2>1, <2>2
<1>4. CASE p = q
    <2>1. u = r
        BY <1>1, <1>4
    <2> QED BY <1>4, <2>1 DEF p, u
<1> QED BY <1>1, <1>2, <1>3, <1>4

\* The remainder of a remainder, by a divisor of the first one.
LEMMA RemOfRem ==
    ASSUME NEW x \in Nat, NEW s \in Nat \ {0}, NEW q \in Nat \ {0}, NEW m \in Nat \ {0}, m = q * s
    PROVE  Rem(Rem(x, m), s) = Rem(x, s)
<1> DEFINE a == Quot(x, m)
           b == Rem(x, m)
           c == Quot(b, s)
           d == Rem(b, s)
<1>1. a \in Nat /\ b \in Nat /\ x = m * a + b
    BY InBlock
<1>2. c \in Nat /\ d \in 0..(s - 1) /\ b = s * c + d
    BY <1>1, InBlock
<1> HIDE DEF a, b, c, d
<1>3. m * a = s * (q * a) /\ q * a \in Nat
    BY <1>1
<1>4. s * (q * a + c) = s * (q * a) + s * c /\ q * a + c \in Nat
    BY <1>2, <1>3
<1>5. x = s * (q * a + c) + d
    BY <1>1, <1>2, <1>3, <1>4
<1>6. Rem(x, s) = d
    BY <1>2, <1>4, <1>5, BlockIs
<1> QED BY <1>6 DEF b, d

\* Consecutive probes meet every cell.
LEMMA ProbesMeet ==
    ASSUME NEW s \in Nat \ {0}, NEW x \in Nat, NEW j \in 0..(s - 1)
    PROVE  \E i \in 0..(s - 1) : Rem(i + x, s) = j
<1> DEFINE p == Quot(x, s)
           u == Rem(x, s)
<1>1. p \in Nat /\ u \in 0..(s - 1) /\ x = s * p + u
    BY InBlock
<1> HIDE DEF p, u
<1>2. CASE j >= u
    <2>1. j - u \in 0..(s - 1) /\ (j - u) + x \in Nat
        BY <1>1, <1>2
    <2>2. s * p \in Nat
        BY <1>1
    <2>3. (j - u) + x = s * p + j
        BY <1>1, <2>2
    <2>4. Rem((j - u) + x, s) = j
        BY <1>1, <2>1, <2>3, BlockIs
    <2> QED BY <2>1, <2>4
<1>3. CASE j < u
    <2>1. j - u + s \in 0..(s - 1) /\ (j - u + s) + x \in Nat /\ p + 1 \in Nat
        BY <1>1, <1>3
    <2>2. s * p \in Nat /\ s * (p + 1) = s * p + s
        BY <1>1
    <2>3. (j - u + s) + x = s * (p + 1) + j
        BY <1>1, <2>2
    <2>4. Rem((j - u + s) + x, s) = j
        BY <2>1, <2>3, BlockIs
    <2> QED BY <2>1, <2>4
<1> QED BY <1>1, <1>2, <1>3

-----------------------------------------------------------------------------
(* The sizes of the table *)

\* The first n sizes.
Doublings(g, n) == g = [k \in 0..n |-> IF k = 0 THEN DefaultSize ELSE 2 * g[k - 1]]

\* There are such, for any number.
LEMMA DoublingsExist ==
    ASSUME NEW n \in Nat
    PROVE  \E g : Doublings(g, n)
<1> DEFINE S == {k \in 0..n : \E g : Doublings(g, k)}
<1>1. 0 \in S
    <2> DEFINE g == [k \in 0..0 |-> DefaultSize]
    <2>1. Doublings(g, 0)
        BY DEF Doublings
    <2> QED BY <2>1
<1>2. ASSUME NEW m \in 1..n, m - 1 \in S PROVE m \in S
    <2>1. PICK f : Doublings(f, m - 1)
        BY <1>2
    <2> DEFINE g == [k \in 0..m |-> IF k = 0 THEN DefaultSize ELSE 2 * f[k - 1]]
    <2>2. \A k \in 0..(m - 1) : g[k] = f[k]
        BY <2>1 DEF Doublings
    <2>3. \A k \in 0..m : k # 0 => g[k - 1] = f[k - 1]
        <3>1. \A k \in 0..m : k # 0 => k - 1 \in 0..(m - 1)
            OBVIOUS
        <3> HIDE DEF g
        <3> QED BY <2>2, <3>1
    <2>4. g = [k \in 0..m |-> IF k = 0 THEN DefaultSize ELSE 2 * g[k - 1]]
        BY <2>3
    <2>5. Doublings(g, m)
        BY <2>4 DEF Doublings
    <2> QED BY <2>5
<1>3. 0..n \subseteq S
    <2> HIDE DEF S
    <2> QED BY <1>1, <1>2, Climb
<1> QED BY <1>3

\* Each size is twice the one before.
LEMMA SizesAre ==
    /\ HandleMask \in Nat \ {0} /\ DefaultSize \in Nat \ {0}
    /\ Sizes[0] = DefaultSize
    /\ \A k \in 1..HandleMask : Sizes[k] = 2 * Sizes[k - 1]
    /\ \A k \in 0..HandleMask : Sizes[k] \in Nat \ {0}
<1>1. HandleMask \in Nat \ {0} /\ DefaultSize \in Nat \ {0}
    BY HandleAssumption
<1>2. Doublings(Sizes, HandleMask)
    <2>1. Sizes = CHOOSE g : Doublings(g, HandleMask)
        BY DEF Sizes, Doublings
    <2> QED BY <1>1, <2>1, DoublingsExist
<1>3. Sizes[0] = DefaultSize /\ \A k \in 1..HandleMask : Sizes[k] = 2 * Sizes[k - 1]
    BY <1>1, <1>2 DEF Doublings
<1>4. 0..HandleMask \subseteq {k \in 0..HandleMask : Sizes[k] \in Nat \ {0}}
    <2> DEFINE S == {k \in 0..HandleMask : Sizes[k] \in Nat \ {0}}
    <2>1. 0 \in S
        BY <1>1, <1>3
    <2>2. ASSUME NEW k \in 1..HandleMask, k - 1 \in S PROVE k \in S
        BY <1>1, <1>3, <2>2
    <2> HIDE DEF S
    <2>3. 0..HandleMask \subseteq S
        BY <1>1, <2>1, <2>2, Climb
    <2> QED BY <2>3 DEF S
<1> QED BY <1>1, <1>3, <1>4

\* A size of the table: one of those up to HandleMask + 1.
Fits(size) ==
    \E k, m \in 0..HandleMask : k <= m /\ size = Sizes[k] /\ HandleMask + 1 = Sizes[m]

\* The first size is one.
LEMMA FirstFits == Fits(DefaultSize)
<1>1. PICK m \in 0..HandleMask : HandleMask + 1 = Sizes[m]
    BY HandleAssumption
<1>2. 0 \in 0..HandleMask /\ 0 <= m
    BY SizesAre
<1> QED BY <1>1, <1>2, SizesAre DEF Fits

\* It divides HandleMask + 1, and twice of it does unless it is that.
LEMMA FitsFacts ==
    ASSUME NEW size, Fits(size)
    PROVE  /\ size \in Nat \ {0}
           /\ \E q \in Nat \ {0} : HandleMask + 1 = q * size
           /\ size # HandleMask + 1 => Fits(2 * size) /\ 2 * size - 1 <= HandleMask
<1>0. HandleMask \in Nat \ {0}
    BY SizesAre
<1>1. PICK k \in 0..HandleMask, m \in 0..HandleMask : k <= m /\ size = Sizes[k] /\ HandleMask + 1 = Sizes[m]
    BY DEF Fits
<1>2. size \in Nat \ {0}
    BY <1>1, SizesAre
<1>3. ASSUME NEW j \in 0..m PROVE \E q \in Nat \ {0} : Sizes[m] = q * Sizes[j]
    <2> DEFINE S == {i \in 0..m : i >= j => \E q \in Nat \ {0} : Sizes[i] = q * Sizes[j]}
    <2>0. m \in Nat /\ j \in Nat /\ j \in 0..HandleMask
        BY <1>0
    <2>1. \A i \in 0..m : i <= j => i \in S
        <3> SUFFICES ASSUME NEW i \in 0..m, i = j PROVE \E q \in Nat \ {0} : Sizes[i] = q * Sizes[j]
            BY <2>0
        <3>1. Sizes[j] = 1 * Sizes[j]
            BY <2>0, SizesAre
        <3> QED BY <3>1
    <2>2. ASSUME NEW i \in 1..m, i - 1 \in S PROVE i \in S
        <3>1. CASE i <= j
            BY <2>0, <2>1, <3>1
        <3>2. CASE i > j
            <4>1. PICK q \in Nat \ {0} : Sizes[i - 1] = q * Sizes[j]
                BY <2>0, <2>2, <3>2
            <4>2. i \in 1..HandleMask /\ Sizes[j] \in Nat
                BY <1>0, <2>0, SizesAre
            <4>3. Sizes[i] = (2 * q) * Sizes[j] /\ 2 * q \in Nat \ {0}
                BY <4>1, <4>2, SizesAre
            <4> QED BY <2>0, <4>3
        <3> QED BY <2>0, <3>1, <3>2
    <2>3. 0 \in S
        BY <2>0, <2>1
    <2>4. 0..m \subseteq S
        <3> HIDE DEF S
        <3> QED BY <2>0, <2>2, <2>3, Climb
    <2> QED BY <2>0, <2>4
<1>4. \E q \in Nat \ {0} : HandleMask + 1 = q * size
    <2>1. k \in 0..m
        BY <1>0, <1>1
    <2> QED BY <1>1, <1>3, <2>1
<1>5. ASSUME size # HandleMask + 1 PROVE Fits(2 * size) /\ 2 * size - 1 <= HandleMask
    <2>1. k # m
        BY <1>1, <1>5
    <2>2. k + 1 \in 0..m /\ k + 1 \in 0..HandleMask /\ k + 1 \in 1..HandleMask /\ k + 1 - 1 = k
        BY <1>0, <1>1, <2>1
    <2>3. Sizes[k + 1] = 2 * size
        BY <1>1, <2>2, SizesAre
    <2>4. Fits(2 * size)
        <3>1. k + 1 <= m
            BY <1>0, <2>2
        <3> QED BY <1>1, <2>2, <2>3, <3>1 DEF Fits
    <2>5. PICK q \in Nat \ {0} : HandleMask + 1 = q * (2 * size)
        BY <1>1, <1>3, <2>2, <2>3
    <2>6. 1 * (2 * size) <= q * (2 * size)
        <3>1. 2 * size \in Nat /\ 1 <= q
            BY <1>2
        <3> QED BY <3>1, Grows
    <2> QED BY <1>0, <1>2, <2>4, <2>5, <2>6
<1> QED BY <1>2, <1>4, <1>5

\* The probes of a table meet every cell.
LEMMA EveryCell ==
    ASSUME NEW size, Fits(size), handle_index \in Nat, NEW j \in 0..(size - 1)
    PROVE  \E i \in 0..(size - 1) : Masked(i + handle_index) % size = j
<1>1. size \in Nat \ {0}
    BY FitsFacts
<1>2. PICK q \in Nat \ {0} : HandleMask + 1 = q * size
    BY FitsFacts
<1>3. PICK i \in 0..(size - 1) : Rem(i + handle_index, size) = j
    BY <1>1, ProbesMeet
<1>4. i + handle_index \in Nat /\ HandleMask + 1 \in Nat \ {0}
    BY <1>1, SizesAre
<1>5. Rem(Rem(i + handle_index, HandleMask + 1), size) = j
    BY <1>1, <1>2, <1>3, <1>4, RemOfRem
<1>6. Masked(i + handle_index) % size = j
    BY <1>5 DEF Masked, Rem
<1> QED BY <1>6

-----------------------------------------------------------------------------
(* The name array *)

\* The entries of the name array.
Entries == [name : Names, handle : 0..HandleMask]

\* The array is sorted and has every name once.
Increasing(s) == \A i, j \in 1..Len(s) : i < j => s[i].name < s[j].name

\* The first steps of NamesWithout.
Keeps(g, h, m) ==
    g = [i \in 0..m |->
            IF i = 0 THEN <<>>
            ELSE IF name[i].handle = h THEN g[i - 1] ELSE Append(g[i - 1], name[i])]

\* There are such, for any number.
LEMMA KeepsExist ==
    ASSUME NEW h, NEW n \in Nat
    PROVE  \E g : Keeps(g, h, n)
<1> DEFINE S == {k \in 0..n : \E g : Keeps(g, h, k)}
           next(f, m) ==
               [i \in 0..m |->
                   IF i = 0 THEN <<>>
                   ELSE IF name[i].handle = h THEN f[i - 1] ELSE Append(f[i - 1], name[i])]
<1>1. 0 \in S
    <2> DEFINE g == [i \in 0..0 |-> <<>>]
    <2>1. Keeps(g, h, 0)
        BY DEF Keeps
    <2> QED BY <2>1
<1>2. ASSUME NEW m \in 1..n, m - 1 \in S PROVE m \in S
    <2>1. PICK f : Keeps(f, h, m - 1)
        BY <1>2
    <2> DEFINE g == next(f, m)
    <2>2. \A k \in 0..(m - 1) : g[k] = f[k]
        <3>1. ASSUME NEW k \in 0..(m - 1) PROVE g[k] = f[k]
            <4>1. k \in 0..m
                OBVIOUS
            <4>2. f[k] = next(f, m - 1)[k]
                BY <2>1 DEF Keeps
            <4> QED BY <4>1, <4>2
        <3> QED BY <3>1
    <2>3. \A k \in 0..m : k # 0 => g[k - 1] = f[k - 1]
        <3>1. \A k \in 0..m : k # 0 => k - 1 \in 0..(m - 1)
            OBVIOUS
        <3> HIDE DEF g
        <3> QED BY <2>2, <3>1
    <2>4. g = next(g, m)
        BY <2>3
    <2>5. Keeps(g, h, m)
        BY <2>4 DEF Keeps
    <2> QED BY <2>5
<1>3. 0..n \subseteq S
    <2> HIDE DEF S
    <2> QED BY <1>1, <1>2, Climb
<1> QED BY <1>3

\* skynet_handle_retire leaves a sorted array without the handle.
LEMMA NamesKept ==
    ASSUME NEW h, name \in Seq(Entries), Increasing(name)
    PROVE  /\ NamesWithout(h) \in Seq(Entries)
           /\ Increasing(NamesWithout(h))
           /\ \A e \in ToSet(NamesWithout(h)) : e.handle # h
<1> DEFINE g == CHOOSE f : Keeps(f, h, Len(name))
           part(s, k) ==
               /\ s \in Seq(Entries) /\ Increasing(s)
               /\ \A i \in 1..Len(s) : s[i].handle # h /\ \E j \in 1..k : s[i] = name[j]
           T == {k \in 0..Len(name) : part(g[k], k)}
<1>0. Len(name) \in Nat
    OBVIOUS
<1>1. Keeps(g, h, Len(name))
    BY <1>0, KeepsExist
<1>2. NamesWithout(h) = g[Len(name)]
    BY DEF NamesWithout, Keeps
<1> HIDE DEF g
<1>3. 0 \in T
    <2>1. g[0] = <<>>
        BY <1>0, <1>1 DEF Keeps
    <2>2. g[0] \in Seq(Entries) /\ Len(g[0]) = 0
        BY <2>1
    <2>3. part(g[0], 0)
        BY <2>2 DEF Increasing
    <2> QED BY <1>0, <2>3
<1>4. ASSUME NEW k \in 1..Len(name), k - 1 \in T PROVE k \in T
    <2>0. k \in 0..Len(name) /\ k # 0 /\ k \in Nat /\ k - 1 \in Nat
        BY <1>0
    <2> DEFINE s == g[k - 1]
    <2>1. part(s, k - 1)
        BY <1>4
    <2>2. g[k] = IF name[k].handle = h THEN s ELSE Append(s, name[k])
        BY <1>1, <2>0 DEF Keeps
    <2> HIDE DEF s
    <2>3. CASE name[k].handle = h
        <3>1. \A j \in 1..(k - 1) : j \in 1..k
            BY <2>0
        <3>2. part(s, k)
            BY <2>1, <3>1
        <3> QED BY <2>0, <2>2, <2>3, <3>2
    <2>4. CASE name[k].handle # h
        <3> DEFINE u == Append(s, name[k])
        <3>1. name[k] \in Entries /\ Len(s) \in Nat
            BY <2>1
        <3>2. /\ u \in Seq(Entries) /\ Len(u) = Len(s) + 1 /\ u[Len(s) + 1] = name[k]
              /\ \A i \in 1..Len(s) : u[i] = s[i]
            BY <2>1, <3>1
        <3> HIDE DEF u
        <3>3. \A i \in 1..Len(s) : s[i].name < name[k].name
            <4> SUFFICES ASSUME NEW i \in 1..Len(s) PROVE s[i].name < name[k].name
                OBVIOUS
            <4>1. PICK j \in 1..(k - 1) : s[i] = name[j]
                BY <2>1
            <4>2. j \in 1..Len(name) /\ j < k
                BY <1>0, <2>0
            <4> QED BY <4>1, <4>2 DEF Increasing
        <3>4. \A i \in 1..Len(u) : i \in 1..Len(s) \/ i = Len(s) + 1
            BY <3>1, <3>2
        <3>5. Increasing(u)
            <4> SUFFICES ASSUME NEW i \in 1..Len(u), NEW j \in 1..Len(u), i < j
                         PROVE  u[i].name < u[j].name
                BY DEF Increasing
            <4>1. i \in 1..Len(s)
                BY <3>1, <3>2
            <4>2. CASE j \in 1..Len(s)
                BY <2>1, <3>2, <4>1, <4>2 DEF Increasing
            <4>3. CASE j = Len(s) + 1
                BY <3>2, <3>3, <4>1, <4>3
            <4> QED BY <3>4, <4>2, <4>3
        <3>6. \A i \in 1..Len(u) : u[i].handle # h /\ \E j \in 1..k : u[i] = name[j]
            <4> SUFFICES ASSUME NEW i \in 1..Len(u)
                         PROVE  u[i].handle # h /\ \E j \in 1..k : u[i] = name[j]
                OBVIOUS
            <4>1. CASE i \in 1..Len(s)
                <5>1. PICK j \in 1..(k - 1) : s[i] = name[j]
                    BY <2>1, <4>1
                <5>2. j \in 1..k
                    BY <2>0
                <5> QED BY <2>1, <3>2, <4>1, <5>1, <5>2
            <4>2. CASE i = Len(s) + 1
                BY <2>0, <2>4, <3>2, <4>2
            <4> QED BY <3>4, <4>1, <4>2
        <3>7. part(u, k)
            BY <3>2, <3>5, <3>6
        <3>8. g[k] = u
            BY <2>2, <2>4 DEF u
        <3> QED BY <2>0, <3>7, <3>8
    <2> QED BY <2>3, <2>4
<1>5. 0..Len(name) \subseteq T
    <2> HIDE DEF T
    <2> QED BY <1>0, <1>3, <1>4, Climb
<1>6. part(g[Len(name)], Len(name))
    BY <1>0, <1>5
<1>7. \A e \in ToSet(g[Len(name)]) : e.handle # h
    BY <1>6 DEF ToSet
<1> QED BY <1>2, <1>6, <1>7

\* What k turns of the bisection have found of n: where it is, or that it is
\* in none of the cells outside begin .. end, of which k are left out at least.
Narrowed(r, n, k) ==
    /\ r.begin \in Nat /\ r.begin <= Len(name)
    /\ r.end \in Int /\ r.end < Len(name)
    /\ r.hit \in BOOLEAN
    /\ r.hit => r.begin < Len(name) /\ name[r.begin + 1].name = n
    /\ ~r.hit => /\ r.begin <= r.end + 1 /\ (r.end - r.begin) + 1 <= Len(name) - k
                 /\ \A i \in 1..Len(name) : i <= r.begin => name[i].name < n
                 /\ \A i \in 1..Len(name) : i > r.end + 1 => n < name[i].name

\* One turn leaves out one cell more.
LEMMA TurnNarrows ==
    ASSUME name \in Seq(Entries), Increasing(name), NEW n \in Names,
           NEW k \in 1..Len(name), NEW r, Narrowed(r, n, k - 1)
    PROVE  Narrowed(Bisect(r, n), n, k)
<1> DEFINE mid == (r.begin + r.end) \div 2
           found == name[mid + 1].name
           u == Bisect(r, n)
<1>0. Len(name) \in Nat /\ k \in Nat /\ k <= Len(name) /\ n \in Nat
    BY HandleAssumption
<1>1. /\ r.begin \in Nat /\ r.begin <= Len(name) /\ r.end \in Int /\ r.end < Len(name)
      /\ r.hit \in BOOLEAN
    BY DEF Narrowed
<1>2. CASE r.hit \/ r.begin > r.end
    <2>1. u = r
        BY <1>2 DEF Bisect
    <2>2. Narrowed(r, n, k)
        BY <1>0, <1>1, <1>2 DEF Narrowed
    <2> QED BY <2>1, <2>2
<1>3. CASE ~r.hit /\ r.begin <= r.end
    <2>0. mid \in Nat /\ r.begin <= mid /\ mid <= r.end /\ mid + 1 \in 1..Len(name)
        BY <1>0, <1>1, <1>3
    <2>1. /\ r.begin <= r.end + 1 /\ (r.end - r.begin) + 1 <= Len(name) - (k - 1)
          /\ \A i \in 1..Len(name) : i <= r.begin => name[i].name < n
          /\ \A i \in 1..Len(name) : i > r.end + 1 => n < name[i].name
        BY <1>3 DEF Narrowed
    <2>2. \A i \in 1..Len(name) : name[i].name \in Nat
        <3>1. \A i \in 1..Len(name) : name[i] \in Entries
            OBVIOUS
        <3>2. \A e \in Entries : e.name \in Nat
            BY HandleAssumption DEF Entries
        <3> QED BY <3>1, <3>2
    <2>3. u = IF found = n THEN [begin |-> mid, end |-> r.end, hit |-> TRUE]
              ELSE IF found < n THEN [begin |-> mid + 1, end |-> r.end, hit |-> FALSE]
              ELSE [begin |-> r.begin, end |-> mid - 1, hit |-> FALSE]
        BY <1>1, <1>3 DEF Bisect
    <2>4. name[mid + 1].name = found
        OBVIOUS
    <2> HIDE DEF mid, found, u
    <2>5. CASE found = n
        <3>1. u.begin = mid /\ u.end = r.end /\ u.hit /\ u.hit \in BOOLEAN
            BY <2>3, <2>5
        <3>2. Narrowed(u, n, k)
            BY <1>0, <1>1, <2>0, <2>4, <2>5, <3>1 DEF Narrowed
        <3> QED BY <3>2 DEF u
    <2>6. CASE found < n
        <3>1. u.begin = mid + 1 /\ u.end = r.end /\ ~u.hit /\ u.hit \in BOOLEAN
            BY <1>0, <2>0, <2>2, <2>3, <2>4, <2>6
        <3>2. \A i \in 1..Len(name) : i <= mid + 1 => name[i].name < n
            <4> SUFFICES ASSUME NEW i \in 1..Len(name), i <= mid + 1 PROVE name[i].name < n
                OBVIOUS
            <4>1. CASE i = mid + 1
                BY <2>4, <2>6, <4>1
            <4>2. CASE i < mid + 1
                <5>1. name[i].name < found
                    BY <2>0, <2>4, <4>2 DEF Increasing
                <5>2. name[i].name \in Nat /\ found \in Nat
                    BY <2>0, <2>2, <2>4
                <5> QED BY <1>0, <2>6, <5>1, <5>2
            <4> QED BY <2>0, <4>1, <4>2
        <3>3. Narrowed(u, n, k)
            BY <1>0, <1>1, <2>0, <2>1, <3>1, <3>2 DEF Narrowed
        <3> QED BY <3>3 DEF u
    <2>7. CASE n < found
        <3>1. u.begin = r.begin /\ u.end = mid - 1 /\ ~u.hit /\ u.hit \in BOOLEAN
            BY <1>0, <2>0, <2>2, <2>3, <2>4, <2>7
        <3>2. \A i \in 1..Len(name) : i > mid => n < name[i].name
            <4> SUFFICES ASSUME NEW i \in 1..Len(name), i > mid PROVE n < name[i].name
                OBVIOUS
            <4>1. CASE i = mid + 1
                BY <2>4, <2>7, <4>1
            <4>2. CASE i > mid + 1
                <5>1. found < name[i].name
                    BY <2>0, <2>4, <4>2 DEF Increasing
                <5>2. name[i].name \in Nat /\ found \in Nat
                    BY <2>0, <2>2, <2>4
                <5> QED BY <1>0, <2>7, <5>1, <5>2
            <4> QED BY <2>0, <4>1, <4>2
        <3>3. Narrowed(u, n, k)
            <4>1. u.end + 1 = mid
                BY <2>0, <3>1
            <4>2. /\ u.begin \in Nat /\ u.begin <= Len(name) /\ u.end \in Int /\ u.end < Len(name)
                  /\ u.begin <= u.end + 1 /\ (u.end - u.begin) + 1 <= Len(name) - k
                <5>1. \A b, e, m, l \in Int : b <= m /\ m <= e /\ (e - b) + 1 <= l - (k - 1) =>
                         b <= (m - 1) + 1 /\ ((m - 1) - b) + 1 <= l - k
                    OBVIOUS
                <5>2. /\ r.begin \in Nat /\ r.end \in Int /\ mid \in Int /\ Len(name) \in Int
                      /\ r.begin <= mid /\ mid <= r.end /\ r.end < Len(name)
                    BY <1>1, <2>0
                <5>3. mid - 1 \in Int /\ mid - 1 < Len(name) /\ r.begin <= Len(name)
                    BY <5>2
                <5>4. r.begin <= (mid - 1) + 1 /\ ((mid - 1) - r.begin) + 1 <= Len(name) - k
                    BY <2>1, <5>1, <5>2
                <5> QED BY <3>1, <5>2, <5>3, <5>4
            <4>3. \A i \in 1..Len(name) : i <= u.begin => name[i].name < n
                BY <2>1, <3>1
            <4>4. \A i \in 1..Len(name) : i > u.end + 1 => n < name[i].name
                BY <3>2, <4>1
            <4> QED BY <3>1, <4>2, <4>3, <4>4 DEF Narrowed
        <3> QED BY <3>3 DEF u
    <2>8. found \in Nat
        BY <2>0, <2>2, <2>4
    <2> QED BY <1>0, <2>5, <2>6, <2>7, <2>8
<1> QED BY <1>1, <1>2, <1>3

\* The first turns of Search.
Turned(g, n, m) ==
    g = [k \in 0..m |->
            IF k = 0 THEN [begin |-> 0, end |-> Len(name) - 1, hit |-> FALSE]
            ELSE Bisect(g[k - 1], n)]

\* There are such, for any number.
LEMMA TurnedExist ==
    ASSUME NEW n, NEW x \in Nat
    PROVE  \E g : Turned(g, n, x)
<1> DEFINE S == {k \in 0..x : \E g : Turned(g, n, k)}
           next(f, m) ==
               [k \in 0..m |->
                   IF k = 0 THEN [begin |-> 0, end |-> Len(name) - 1, hit |-> FALSE]
                   ELSE Bisect(f[k - 1], n)]
<1>1. 0 \in S
    <2> DEFINE g == [k \in 0..0 |-> [begin |-> 0, end |-> Len(name) - 1, hit |-> FALSE]]
    <2>1. Turned(g, n, 0)
        BY DEF Turned
    <2> QED BY <2>1
<1>2. ASSUME NEW m \in 1..x, m - 1 \in S PROVE m \in S
    <2>1. PICK f : Turned(f, n, m - 1)
        BY <1>2
    <2> DEFINE g == next(f, m)
    <2>2. \A k \in 0..(m - 1) : g[k] = f[k]
        <3>1. ASSUME NEW k \in 0..(m - 1) PROVE g[k] = f[k]
            <4>1. k \in 0..m
                OBVIOUS
            <4>2. f[k] = next(f, m - 1)[k]
                BY <2>1 DEF Turned
            <4> QED BY <4>1, <4>2
        <3> QED BY <3>1
    <2>3. \A k \in 0..m : k # 0 => g[k - 1] = f[k - 1]
        <3>1. \A k \in 0..m : k # 0 => k - 1 \in 0..(m - 1)
            OBVIOUS
        <3> HIDE DEF g
        <3> QED BY <2>2, <3>1
    <2>4. g = next(g, m)
        BY <2>3
    <2>5. Turned(g, n, m)
        BY <2>4 DEF Turned
    <2> QED BY <2>5
<1>3. 0..x \subseteq S
    <2> HIDE DEF S
    <2> QED BY <1>1, <1>2, Climb
<1> QED BY <1>3

\* The bisection finds a name, or the place between the smaller names and the
\* larger ones.
LEMMA SearchFinds ==
    ASSUME name \in Seq(Entries), Increasing(name), NEW n \in Names
    PROVE  /\ Search(n).begin \in 0..Len(name)
           /\ Search(n).hit \in BOOLEAN
           /\ Search(n).hit => /\ Search(n).begin < Len(name)
                               /\ name[Search(n).begin + 1].name = n
           /\ ~Search(n).hit => /\ \A i \in 1..Search(n).begin : name[i].name < n
                                /\ \A i \in (Search(n).begin + 1)..Len(name) : n < name[i].name
<1> DEFINE g == CHOOSE f : Turned(f, n, Len(name))
           T == {k \in 0..Len(name) : Narrowed(g[k], n, k)}
<1>0. Len(name) \in Nat
    OBVIOUS
<1>1. Turned(g, n, Len(name))
    BY <1>0, TurnedExist
<1>2. Search(n) = g[Len(name)]
    BY DEF Search, Turned
<1> HIDE DEF g
<1>3. 0 \in T
    <2>1. g[0].begin = 0 /\ g[0].end = Len(name) - 1 /\ ~g[0].hit /\ g[0].hit \in BOOLEAN
        BY <1>0, <1>1 DEF Turned
    <2>2. Narrowed(g[0], n, 0)
        BY <1>0, <2>1 DEF Narrowed
    <2> QED BY <1>0, <2>2
<1>4. ASSUME NEW k \in 1..Len(name), k - 1 \in T PROVE k \in T
    <2>1. g[k] = Bisect(g[k - 1], n)
        <3>1. k \in 0..Len(name) /\ k # 0
            BY <1>0
        <3> QED BY <1>1, <3>1 DEF Turned
    <2>2. Narrowed(g[k - 1], n, k - 1)
        BY <1>4
    <2>3. Narrowed(g[k], n, k)
        BY <2>1, <2>2, TurnNarrows
    <2> QED BY <1>0, <2>3
<1>5. 0..Len(name) \subseteq T
    <2> HIDE DEF T
    <2> QED BY <1>0, <1>3, <1>4, Climb
<1> DEFINE r == Search(n)
<1>6. Narrowed(r, n, Len(name))
    BY <1>0, <1>2, <1>5
<1> HIDE DEF r
<1>7. r.begin \in 0..Len(name) /\ r.hit \in BOOLEAN
    BY <1>0, <1>6 DEF Narrowed
<1>8. r.hit => r.begin < Len(name) /\ name[r.begin + 1].name = n
    BY <1>6 DEF Narrowed
<1>9. ASSUME ~r.hit PROVE /\ \A i \in 1..r.begin : name[i].name < n
                          /\ \A i \in (r.begin + 1)..Len(name) : n < name[i].name
    <2>1. r.end \in Int /\ r.begin = r.end + 1
        BY <1>0, <1>6, <1>7, <1>9 DEF Narrowed
    <2>2. \A i \in 1..r.begin : i \in 1..Len(name) /\ i <= r.begin
        BY <1>0, <1>7
    <2>3. \A i \in (r.begin + 1)..Len(name) : i \in 1..Len(name) /\ i > r.end + 1
        BY <1>0, <1>7, <2>1
    <2> QED BY <1>6, <1>9, <2>2, <2>3 DEF Narrowed
<1> QED BY <1>7, <1>8, <1>9 DEF r

\* What an insertion is made of.
LEMMA InsertIs ==
    ASSUME NEW s, NEW i, NEW b, b = i - 1, NEW e
    PROVE  InsertAt(s, i, e) = (SubSeq(s, 1, b) \o <<e>>) \o SubSeq(s, i, Len(s))
BY DEF InsertAt

\* An insertion between the smaller names and the larger ones keeps the order.
LEMMA InsertKeeps ==
    ASSUME NEW s \in Seq(Entries), Increasing(s), NEW b \in 0..Len(s), NEW e \in Entries,
           \A i \in 1..b : s[i].name < e.name,
           \A i \in (b + 1)..Len(s) : e.name < s[i].name
    PROVE  InsertAt(s, b + 1, e) \in Seq(Entries) /\ Increasing(InsertAt(s, b + 1, e))
<1> DEFINE p == SubSeq(s, 1, b)
           q == SubSeq(s, b + 1, Len(s))
           u == InsertAt(s, b + 1, e)
<1>0. Len(s) \in Nat /\ b \in Nat /\ b <= Len(s)
    OBVIOUS
<1>1. p \in Seq(Entries) /\ Len(p) = b /\ \A i \in 1..b : p[i] = s[i]
    <2>1. \A i \in 1..b : s[i] \in Entries
        BY <1>0
    <2> QED BY <1>0, <2>1, SubSeqProperties
<1>2. q \in Seq(Entries) /\ Len(q) = Len(s) - b /\ \A i \in 1..(Len(s) - b) : q[i] = s[b + i]
    <2>1. \A i \in (b + 1)..Len(s) : s[i] \in Entries
        BY <1>0
    <2>2. /\ q \in Seq(Entries) /\ Len(q) = (IF b + 1 <= Len(s) THEN Len(s) - (b + 1) + 1 ELSE 0)
          /\ \A i \in 1..(Len(s) - (b + 1) + 1) : q[i] = s[b + 1 + i - 1]
        <3> b + 1 \in Int /\ Len(s) \in Int
            BY <1>0
        <3> HIDE <1>1
        <3> QED BY <2>1, SubSeqProperties
    <2> HIDE DEF q
    <2>3. Len(q) = Len(s) - b
        BY <1>0, <2>2
    <2>4. ASSUME NEW i \in 1..(Len(s) - b) PROVE q[i] = s[b + i]
        <3>1. i \in 1..(Len(s) - (b + 1) + 1) /\ b + 1 + i - 1 = b + i
            BY <1>0
        <3>2. q[i] = s[b + 1 + i - 1]
            BY <2>2, <3>1
        <3> QED BY <3>1, <3>2
    <2> QED BY <2>2, <2>3, <2>4
<1>3. u = (p \o <<e>>) \o q
    <2> DEFINE i == b + 1
    <2>1. b = i - 1
        BY <1>0
    <2> HIDE DEF i
    <2>2. InsertAt(s, i, e) = (SubSeq(s, 1, b) \o <<e>>) \o SubSeq(s, i, Len(s))
        BY <2>1, InsertIs
    <2> QED BY <2>2, Zenon DEF i
<1> HIDE DEF p, q, u
<1>4. /\ u \in Seq(Entries) /\ Len(u) = Len(s) + 1
      /\ \A i \in 1..Len(u) : u[i] = IF i <= b THEN s[i] ELSE IF i = b + 1 THEN e ELSE s[i - 1]
    <2> DEFINE v == p \o <<e>>
    <2>1. /\ v \in Seq(Entries) /\ Len(v) = b + 1
          /\ \A i \in 1..(b + 1) : v[i] = IF i <= b THEN s[i] ELSE e
        BY <1>0, <1>1
    <2>2. u = v \o q
        BY <1>3
    <2> HIDE DEF v
    <2>3. /\ u \in Seq(Entries) /\ Len(u) = Len(v) + Len(q)
          /\ \A i \in 1..(Len(v) + Len(q)) : u[i] = IF i <= Len(v) THEN v[i] ELSE q[i - Len(v)]
        <3>1. v \in Seq(Entries) /\ q \in Seq(Entries)
            BY <1>2, <2>1
        <3> QED BY <2>2, <3>1, ConcatProperties
    <2>4. Len(u) = Len(s) + 1
        BY <1>0, <1>2, <2>1, <2>3
    <2>5. ASSUME NEW i \in 1..Len(u) PROVE u[i] = IF i <= b THEN s[i] ELSE IF i = b + 1 THEN e ELSE s[i - 1]
        <3>1. CASE i <= b + 1
            <4>1. i \in 1..(b + 1) /\ u[i] = v[i]
                BY <1>0, <1>2, <2>1, <2>3, <2>4, <3>1
            <4> QED BY <1>0, <2>1, <4>1
        <3>2. CASE i > b + 1
            <4>1. i - (b + 1) \in 1..(Len(s) - b) /\ b + (i - (b + 1)) = i - 1
                BY <1>0, <2>4, <3>2
            <4>2. q[i - (b + 1)] = s[i - 1]
                BY <1>2, <4>1
            <4>3. u[i] = q[i - (b + 1)]
                <5>1. i \in 1..(Len(v) + Len(q)) /\ ~(i <= Len(v)) /\ Len(v) = b + 1
                    BY <1>0, <1>2, <2>1, <2>3, <2>4, <3>2
                <5> QED BY <2>3, <5>1
            <4> QED BY <1>0, <3>2, <4>2, <4>3
        <3> QED BY <1>0, <2>4, <3>1, <3>2
    <2> QED BY <2>3, <2>4, <2>5
<1>5. \A i \in 1..Len(s) : s[i].name \in Nat
    <2>1. \A i \in 1..Len(s) : s[i] \in Entries
        OBVIOUS
    <2>2. \A d \in Entries : d.name \in Nat
        BY HandleAssumption DEF Entries
    <2> QED BY <2>1, <2>2
<1>6. e.name \in Nat
    BY HandleAssumption DEF Entries
<1>7. Increasing(u)
    <2> SUFFICES ASSUME NEW i \in 1..Len(u), NEW j \in 1..Len(u), i < j
                 PROVE  u[i].name < u[j].name
        BY DEF Increasing
    <2>0. /\ u[i] = IF i <= b THEN s[i] ELSE IF i = b + 1 THEN e ELSE s[i - 1]
          /\ u[j] = IF j <= b THEN s[j] ELSE IF j = b + 1 THEN e ELSE s[j - 1]
          /\ i \in Nat /\ j \in Nat /\ i >= 1 /\ j <= Len(s) + 1
        BY <1>0, <1>4
    <2>1. CASE j <= b
        <3>1. i \in 1..Len(s) /\ j \in 1..Len(s) /\ u[i] = s[i] /\ u[j] = s[j]
            BY <1>0, <2>0, <2>1
        <3> QED BY <3>1 DEF Increasing
    <2>2. CASE j = b + 1
        <3>1. i \in 1..b /\ u[i] = s[i] /\ u[j] = e
            BY <1>0, <2>0, <2>2
        <3> QED BY <3>1
    <2>3. CASE j > b + 1 /\ i <= b
        <3>1. i \in 1..Len(s) /\ j - 1 \in 1..Len(s) /\ i < j - 1 /\ u[i] = s[i] /\ u[j] = s[j - 1]
            BY <1>0, <2>0, <2>3
        <3> QED BY <3>1 DEF Increasing
    <2>4. CASE j > b + 1 /\ i = b + 1
        <3>1. j - 1 \in (b + 1)..Len(s) /\ u[i] = e /\ u[j] = s[j - 1]
            BY <1>0, <2>0, <2>4
        <3> QED BY <3>1
    <2>5. CASE j > b + 1 /\ i > b + 1
        <3>1. i - 1 \in 1..Len(s) /\ j - 1 \in 1..Len(s) /\ i - 1 < j - 1 /\ u[i] = s[i - 1] /\ u[j] = s[j - 1]
            BY <1>0, <2>0, <2>5
        <3> QED BY <3>1 DEF Increasing
    <2> QED BY <1>0, <2>0, <2>1, <2>2, <2>3, <2>4, <2>5
<1> QED BY <1>4, <1>7 DEF u

\* skynet_handle_namehandle keeps the array sorted.
LEMMA NameInserted ==
    ASSUME name \in Seq(Entries), Increasing(name),
           NEW h \in 0..HandleMask, NEW n \in Names, NameHandle(h, n)
    PROVE  name' \in Seq(Entries) /\ Increasing(name')
<1> DEFINE r == Search(n)
           e == [name |-> n, handle |-> h]
<1>1. ~r.hit /\ name' = InsertAt(name, r.begin + 1, e)
    BY DEF NameHandle
<1>2. /\ r.begin \in 0..Len(name)
      /\ \A i \in 1..r.begin : name[i].name < n
      /\ \A i \in (r.begin + 1)..Len(name) : n < name[i].name
    BY <1>1, SearchFinds
<1>3. e \in Entries /\ e.name = n
    BY DEF Entries
<1> HIDE DEF r, e
<1>4. /\ InsertAt(name, r.begin + 1, e) \in Seq(Entries)
      /\ Increasing(InsertAt(name, r.begin + 1, e))
    BY <1>2, <1>3, InsertKeeps
<1> QED BY <1>1, <1>4

\* The bisection finds the names of a sorted array, and no other.
LEMMA NamesAreFound ==
    ASSUME name \in Seq(Entries), Increasing(name)
    PROVE  NamesFound
<1> SUFFICES ASSUME NEW n \in Names
             PROVE  FindName(n) = IF \E i \in 1..Len(name) : name[i].name = n
                                  THEN (CHOOSE e \in ToSet(name) : e.name = n).handle
                                  ELSE 0
    BY DEF NamesFound
<1> DEFINE r == Search(n)
<1>0. /\ Len(name) \in Nat /\ n \in Nat
      /\ \A i \in 1..Len(name) : name[i].name \in Nat
    <2>1. \A i \in 1..Len(name) : name[i] \in Entries
        OBVIOUS
    <2>2. \A d \in Entries : d.name \in Nat
        BY HandleAssumption DEF Entries
    <2> QED BY <2>1, <2>2, HandleAssumption
<1>1. FindName(n) = IF r.hit THEN name[r.begin + 1].handle ELSE 0
    BY DEF FindName
<1>2. /\ r.begin \in 0..Len(name) /\ r.hit \in BOOLEAN
      /\ r.hit => r.begin < Len(name) /\ name[r.begin + 1].name = n
      /\ ~r.hit => /\ \A i \in 1..r.begin : name[i].name < n
                   /\ \A i \in (r.begin + 1)..Len(name) : n < name[i].name
    BY SearchFinds
<1> HIDE DEF r
<1>3. CASE r.hit
    <2> DEFINE k == r.begin + 1
               e == CHOOSE d \in ToSet(name) : d.name = n
    <2>1. k \in 1..Len(name) /\ name[k].name = n
        BY <1>0, <1>2, <1>3
    <2>2. name[k] \in ToSet(name)
        BY <2>1 DEF ToSet
    <2>3. e \in ToSet(name) /\ e.name = n
        BY <2>1, <2>2
    <2> HIDE DEF e, k
    <2>4. PICK j \in 1..Len(name) : e = name[j]
        BY <2>3 DEF ToSet
    <2>5. j = k
        <3>1. ~(j < k) /\ ~(k < j)
            BY <1>0, <2>1, <2>3, <2>4 DEF Increasing
        <3> QED BY <1>0, <2>1, <3>1
    <2>6. FindName(n) = e.handle
        BY <1>1, <1>3, <2>4, <2>5 DEF k
    <2> QED BY <2>1, <2>6 DEF e
<1>4. CASE ~r.hit
    <2>1. ASSUME NEW i \in 1..Len(name), name[i].name = n PROVE FALSE
        <3>1. i \in 1..r.begin \/ i \in (r.begin + 1)..Len(name)
            BY <1>0, <1>2
        <3> QED BY <1>0, <1>2, <1>4, <2>1, <3>1
    <2>2. FindName(n) = 0
        BY <1>1, <1>4
    <2> QED BY <2>1, <2>2
<1> QED BY <1>2, <1>3, <1>4

-----------------------------------------------------------------------------
(* Registration *)

\* The cells of a table, and the tables of a size.
Cells(size) == 0..(size - 1)
Tables(size) == [Cells(size) -> Contexts \cup {NULL}]

\* A table whose probes find no empty cell is full.
LEMMA FullTable ==
    ASSUME TypeOK, Fits(slot_size), FreeProbes(slot, slot_size) = {}
    PROVE  \A j \in Cells(slot_size) : slot[j] \in Contexts
<1> SUFFICES ASSUME NEW j \in Cells(slot_size) PROVE slot[j] \in Contexts
    OBVIOUS
<1>0. handle_index \in Nat /\ slot[j] \in Contexts \cup {NULL}
    BY SizesAre DEF TypeOK, Cells
<1>1. PICK i \in 0..(slot_size - 1) : Masked(i + handle_index) % slot_size = j
    BY <1>0, EveryCell DEF Cells
<1>2. slot[j] # NULL
    BY <1>1 DEF FreeProbes
<1> QED BY <1>0, <1>2

\* A table with an empty cell has a handle for it.
LEMMA HandleFound ==
    ASSUME NEW size, Fits(size), handle_index \in Nat, NEW t, NEW j \in Cells(size), t[j] = NULL
    PROVE  /\ FreeProbes(t, size) # {}
           /\ \E h \in 0..HandleMask : /\ h = Masked(Min(FreeProbes(t, size)) + handle_index)
                                       /\ Rem(h, size) \in Cells(size)
                                       /\ t[Rem(h, size)] = NULL
<1> DEFINE F == FreeProbes(t, size)
           m == Min(F)
           h == Masked(m + handle_index)
<1>0. size \in Nat \ {0} /\ HandleMask + 1 \in Nat \ {0} /\ HandleMask \in Nat
    BY FitsFacts, SizesAre
<1>1. PICK i \in 0..(size - 1) : Masked(i + handle_index) % size = j
    BY EveryCell DEF Cells
<1>2. i \in F
    BY <1>1 DEF FreeProbes
<1>3. F \subseteq Nat
    BY DEF FreeProbes
<1> HIDE DEF F
<1>4. m \in F
    BY <1>2, <1>3, MinOf
<1> HIDE DEF m
<1>5. m \in Nat /\ t[Masked(m + handle_index) % size] = NULL
    BY <1>4 DEF F, FreeProbes
<1>6. Rem(m + handle_index, HandleMask + 1) \in 0..HandleMask
    <2> DEFINE N == HandleMask + 1
               x == m + handle_index
    <2>1. N \in Nat \ {0} /\ x \in Nat /\ N - 1 = HandleMask
        BY <1>0, <1>5
    <2> HIDE DEF N, x
    <2>2. Rem(x, N) \in 0..(N - 1)
        BY <2>1, InBlock
    <2> QED BY <2>1, <2>2 DEF N, x
<1>7. h \in 0..HandleMask
    BY <1>6 DEF Masked, Rem
<1>8. t[Rem(h, size)] = NULL
    BY <1>5 DEF Rem
<1> HIDE DEF h
<1>9. Rem(h, size) \in Cells(size)
    BY <1>0, <1>7, InBlock DEF Cells
<1>10. h = Masked(m + handle_index)
    BY DEF h
<1> QED BY <1>2, <1>7, <1>8, <1>9, <1>10 DEF F, m

\* The doubled table has every context of the full one where its handle says,
\* and has an empty cell.
LEMMA Doubled ==
    ASSUME TypeOK, \A i \in Cells(slot_size) : slot[i] \in Contexts, ~Clash
    PROVE  /\ Rehashed \in Tables(2 * slot_size)
           /\ \A i \in Cells(slot_size) :
                 /\ Rem(handle[slot[i]], 2 * slot_size) \in Cells(2 * slot_size)
                 /\ Rehashed[Rem(handle[slot[i]], 2 * slot_size)] = slot[i]
           /\ \A k \in Cells(2 * slot_size) : Rehashed[k] # NULL =>
                 \E i \in Cells(slot_size) : /\ Rehashed[k] = slot[i]
                                             /\ Rem(handle[slot[i]], 2 * slot_size) = k
           /\ \E k \in Cells(2 * slot_size) : Rehashed[k] = NULL
<1> DEFINE N == 2 * slot_size
           to(i) == Rem(handle[slot[i]], N)
           at(k) == {i \in Cells(slot_size) : to(i) = k}
           t == Rehashed
<1>0. /\ slot_size \in Nat \ {0} /\ N \in Nat \ {0}
      /\ \A i \in Cells(slot_size) : handle[slot[i]] \in Nat /\ slot[i] # NULL
    BY HandleAssumption DEF TypeOK
<1>1. t = [k \in Cells(N) |-> IF at(k) = {} THEN NULL ELSE slot[CHOOSE i \in at(k) : TRUE]]
    BY DEF Rehashed, Rem, Cells
<1>2. \A i, j \in Cells(slot_size) : to(i) = to(j) => i = j
    BY DEF Clash, Rem, Cells
<1>3. \A i \in Cells(slot_size) : to(i) \in Cells(N)
    BY <1>0, InBlock DEF Cells
<1> HIDE DEF t, N, to
<1>4. ASSUME NEW k \in Cells(N), at(k) # {}
      PROVE  \E i \in Cells(slot_size) : t[k] = slot[i] /\ to(i) = k
    <2> DEFINE i == CHOOSE i \in at(k) : TRUE
    <2>1. i \in at(k)
        BY <1>4
    <2>2. t[k] = slot[i]
        BY <1>1, <1>4
    <2> HIDE DEF i
    <2> QED BY <2>1, <2>2
<1>5. \A k \in Cells(N) : at(k) = {} => t[k] = NULL
    BY <1>1
<1>6. t \in Tables(N)
    <2>1. \A k \in Cells(N) : t[k] \in Contexts \cup {NULL}
        BY <1>4, <1>5
    <2> QED BY <1>1, <2>1 DEF Tables
<1>7. ASSUME NEW i \in Cells(slot_size) PROVE t[to(i)] = slot[i]
    <2>1. to(i) \in Cells(N) /\ at(to(i)) # {}
        BY <1>3
    <2>2. PICK j \in Cells(slot_size) : t[to(i)] = slot[j] /\ to(j) = to(i)
        BY <1>4, <2>1
    <2> QED BY <1>2, <2>2
<1>8. \A k \in Cells(N) : t[k] # NULL => \E i \in Cells(slot_size) : t[k] = slot[i] /\ to(i) = k
    BY <1>4, <1>5
<1>9. \E k \in Cells(N) : t[k] = NULL
    <2> SUFFICES ASSUME \A k \in Cells(N) : t[k] # NULL PROVE FALSE
        OBVIOUS
    <2> DEFINE f == [k \in Cells(N) |-> CHOOSE i \in Cells(slot_size) : to(i) = k]
    <2>1. \A k \in Cells(N) : f[k] \in Cells(slot_size) /\ to(f[k]) = k
        BY <1>8
    <2>2. f \in [Cells(N) -> Cells(slot_size)]
        BY <2>1
    <2>3. /\ IsFiniteSet(Cells(N)) /\ Cardinality(Cells(N)) = N
          /\ IsFiniteSet(Cells(slot_size)) /\ Cardinality(Cells(slot_size)) = slot_size
        <3>1. 0 \in Int /\ N - 1 \in Int /\ slot_size - 1 \in Int
            BY <1>0
        <3>2. /\ IsFiniteSet(0..(N - 1)) /\ Cardinality(0..(N - 1)) = IF 0 > N - 1 THEN 0 ELSE (N - 1) - 0 + 1
            BY <3>1, FS_Interval
        <3>3. /\ IsFiniteSet(0..(slot_size - 1))
              /\ Cardinality(0..(slot_size - 1)) = IF 0 > slot_size - 1 THEN 0 ELSE (slot_size - 1) - 0 + 1
            BY <3>1, FS_Interval
        <3> QED BY <1>0, <3>2, <3>3 DEF Cells
    <2>4. slot_size < N
        BY <1>0 DEF N
    <2> HIDE DEF f
    <2>5. \E x, y \in Cells(N) : x # y /\ f[x] = f[y]
        BY <2>2, <2>3, <2>4, FS_PigeonHole
    <2> QED BY <2>1, <2>5
<1> QED BY <1>3, <1>6, <1>7, <1>8, <1>9 DEF t, N, to

\* What a registration with handle h does, in table t of size cells.
Registers(l, c, h, t, size) ==
    /\ Fits(size) /\ t \in Tables(size) /\ h \in 0..HandleMask
    /\ Rem(h, size) \in Cells(size) /\ t[Rem(h, size)] = NULL
    /\ slot' = [t EXCEPT ![Rem(h, size)] = c]
    /\ slot_size' = size
    /\ handle_index' = h + 1
    /\ making' = [making EXCEPT ![l] = c]
    /\ given' = [given EXCEPT ![l] = h]
    /\ aborted' = aborted

\* skynet_handle_register puts the context into an empty cell of the table, or
\* of the doubled one when it is full, or fails an assertion.
LEMMA RegisterCases ==
    ASSUME TypeOK, Fits(slot_size), NEW l \in Launchers, NEW c \in Contexts, Register(l, c)
    PROVE  \/ \E h \in 0..HandleMask : Registers(l, c, h, slot, slot_size)
           \/ /\ \A i \in Cells(slot_size) : slot[i] \in Contexts
              /\ ~Clash
              /\ \E h \in 0..HandleMask : Registers(l, c, h, Rehashed, 2 * slot_size)
           \/ /\ \A i \in Cells(slot_size) : slot[i] \in Contexts
              /\ Clash \/ 2 * slot_size - 1 > HandleMask
              /\ aborted' = TRUE
              /\ UNCHANGED <<table, launch>>
<1>0. /\ handle_index \in Nat /\ slot_size \in Nat \ {0} /\ HandleMask \in Nat
      /\ slot \in Tables(slot_size)
    BY SizesAre DEF TypeOK, Tables, Cells
<1>1. ASSUME NEW t, NEW size, Fits(size), t \in Tables(size), NEW j \in Cells(size), t[j] = NULL,
             Place(l, c, t, size)
      PROVE  \E h \in 0..HandleMask : Registers(l, c, h, t, size)
    <2>1. PICK h \in 0..HandleMask : /\ h = Masked(Min(FreeProbes(t, size)) + handle_index)
                                     /\ Rem(h, size) \in Cells(size)
                                     /\ t[Rem(h, size)] = NULL
        BY <1>0, <1>1, HandleFound
    <2>2. Registers(l, c, h, t, size)
        BY <1>1, <2>1 DEF Place, Registers, Rem
    <2> QED BY <2>2
<1>2. CASE FreeProbes(slot, slot_size) # {} /\ Place(l, c, slot, slot_size)
    <2>1. PICK i \in 0..(slot_size - 1) : slot[Masked(i + handle_index) % slot_size] = NULL
        BY <1>2 DEF FreeProbes
    <2> DEFINE x == Masked(i + handle_index)
    <2>2. x \in Nat
        <3>1. i + handle_index \in Nat /\ HandleMask + 1 \in Nat \ {0}
            BY <1>0
        <3> QED BY <3>1, InBlock DEF Masked, Rem
    <2> HIDE DEF x
    <2>3. Rem(x, slot_size) \in Cells(slot_size)
        BY <1>0, <2>2, InBlock DEF Cells
    <2>4. slot[Rem(x, slot_size)] = NULL
        BY <2>1 DEF x, Rem
    <2> QED BY <1>0, <1>1, <1>2, <2>3, <2>4
<1>3. CASE /\ FreeProbes(slot, slot_size) = {}
           /\ ~Clash /\ 2 * slot_size - 1 <= HandleMask
           /\ Place(l, c, Rehashed, 2 * slot_size)
    <2>1. \A i \in Cells(slot_size) : slot[i] \in Contexts
        BY <1>3, FullTable
    <2>2. Fits(2 * slot_size)
        <3>1. slot_size # HandleMask + 1
            BY <1>0, <1>3
        <3> QED BY <3>1, FitsFacts
    <2>3. Rehashed \in Tables(2 * slot_size) /\ \E k \in Cells(2 * slot_size) : Rehashed[k] = NULL
        BY <1>3, <2>1, Doubled
    <2> QED BY <1>1, <1>3, <2>1, <2>2, <2>3
<1>4. CASE /\ FreeProbes(slot, slot_size) = {}
           /\ Clash \/ 2 * slot_size - 1 > HandleMask
           /\ aborted' = TRUE
           /\ UNCHANGED <<table, launch>>
    BY <1>4, FullTable
<1> QED BY <1>2, <1>3, <1>4 DEF Register

-----------------------------------------------------------------------------
(* What holds however many threads register *)

\* Types, a size that divides the space of handles, and a sorted name array.
TableInv ==
    /\ TypeOK
    /\ Fits(slot_size)
    /\ Increasing(name)

\* The conjuncts of the type invariant, in the words of this module.
LEMMA Types ==
    ASSUME TypeOK
    PROVE  /\ slot_size \in Nat \ {0} /\ slot \in Tables(slot_size) /\ handle \in [Contexts -> 0..HandleMask]
           /\ name \in Seq(Entries) /\ HandleMask \in Nat \ {0}
           /\ \A k \in Cells(slot_size) : slot[k] # NULL => slot[k] \in Contexts /\ handle[slot[k]] \in 0..HandleMask
           /\ \A h \in 0..HandleMask : h \in Nat /\ Rem(h, slot_size) \in Cells(slot_size)
<1>1. /\ slot_size \in Nat \ {0} /\ slot \in Tables(slot_size) /\ handle \in [Contexts -> 0..HandleMask]
      /\ name \in Seq(Entries) /\ HandleMask \in Nat \ {0}
    BY HandleAssumption DEF TypeOK, Tables, Cells, Entries
<1>2. \A k \in Cells(slot_size) : slot[k] # NULL => slot[k] \in Contexts /\ handle[slot[k]] \in 0..HandleMask
    BY <1>1 DEF Tables
<1>3. \A h \in 0..HandleMask : h \in Nat /\ Rem(h, slot_size) \in Cells(slot_size)
    <2> SUFFICES ASSUME NEW h \in 0..HandleMask PROVE h \in Nat /\ Rem(h, slot_size) \in Cells(slot_size)
        OBVIOUS
    <2>1. h \in Nat
        BY <1>1
    <2> QED BY <1>1, <2>1, InBlock DEF Cells
<1> QED BY <1>1, <1>2, <1>3

\* Contexts in the table and their handles.
LEMMA TableTypes ==
    ASSUME TypeOK
    PROVE  InTable \subseteq Contexts /\ HandlesInTable \subseteq 0..HandleMask
<1>1. InTable \subseteq Contexts
    BY Types DEF InTable, Cells
<1> QED BY <1>1, Types DEF HandlesInTable

\* skynet_handle_retire empties the cell of the handle and removes its names,
\* or does nothing.
LEMMA RetireCases ==
    ASSUME TableInv, NEW h \in 0..HandleMask, RetireEffect(h)
    PROVE  /\ name' \in Seq(Entries) /\ Increasing(name') /\ slot' \in Tables(slot_size)
           /\ \/ slot' = slot /\ name' = name
              \/ /\ Rem(h, slot_size) \in Cells(slot_size)
                 /\ slot[Rem(h, slot_size)] # NULL
                 /\ handle[slot[Rem(h, slot_size)]] = h
                 /\ slot' = [slot EXCEPT ![Rem(h, slot_size)] = NULL]
                 /\ \A e \in ToSet(name') : e.handle # h
<1> DEFINE k == Rem(h, slot_size)
<1>0. /\ TypeOK /\ name \in Seq(Entries) /\ Increasing(name) /\ slot \in Tables(slot_size)
      /\ k \in Cells(slot_size)
    BY Types DEF TableInv
<1>1. CASE Lookup(h) = NULL
    BY <1>0, <1>1 DEF RetireEffect
<1>2. CASE Lookup(h) # NULL
    <2>1. slot[k] # NULL /\ handle[slot[k]] = h
        BY <1>2 DEF Lookup, Rem
    <2>2. slot' = [slot EXCEPT ![k] = NULL] /\ name' = NamesWithout(h)
        BY <1>2 DEF RetireEffect, Rem
    <2>3. slot' \in Tables(slot_size)
        BY <1>0, <2>2 DEF Tables
    <2>4. /\ NamesWithout(h) \in Seq(Entries) /\ Increasing(NamesWithout(h))
          /\ \A e \in ToSet(NamesWithout(h)) : e.handle # h
        BY <1>0, NamesKept
    <2>5. /\ name' \in Seq(Entries) /\ Increasing(name')
          /\ \A e \in ToSet(name') : e.handle # h
        <3> HIDE DEF k
        <3> QED BY <2>2, <2>4
    <2> QED BY <1>0, <2>1, <2>2, <2>3, <2>5
<1> QED BY <1>1, <1>2

\* A registration keeps the invariant.
LEMMA TableRegister ==
    ASSUME TableInv, NEW l \in Launchers, NEW c \in Contexts, Register(l, c)
    PROVE  TableInv'
<1>0. /\ TypeOK /\ Fits(slot_size) /\ name' = name /\ UNCHANGED abort
      /\ registered' = registered + 1 /\ registered < MaxRegister
      /\ handle' = [handle EXCEPT ![c] = 0] /\ HandleMask \in Nat
    BY HandleAssumption DEF TableInv, Register
<1>1. handle' \in [Contexts -> 0..HandleMask] /\ registered' \in 0..MaxRegister
    BY <1>0, HandleAssumption DEF TypeOK
<1>2. ASSUME NEW h \in 0..HandleMask, NEW t, NEW size, Registers(l, c, h, t, size)
      PROVE  TableInv'
    <2>1. slot_size' \in Nat \ {0} /\ Fits(slot_size')
        BY <1>2, FitsFacts DEF Registers
    <2>2. slot' \in [0..(slot_size' - 1) -> Contexts \cup {NULL}]
        BY <1>2 DEF Registers, Tables, Cells
    <2>3. handle_index' \in 1..(HandleMask + 1)
        BY <1>0, <1>2 DEF Registers
    <2>4. making' \in [Launchers -> Contexts \cup {NULL}] /\ given' \in [Launchers -> 0..HandleMask]
        BY <1>0, <1>2 DEF Registers, TypeOK
    <2>5. aborted' \in BOOLEAN
        BY <1>0, <1>2 DEF Registers, TypeOK
    <2>6. TypeOK'
        BY <1>0, <1>1, <2>1, <2>2, <2>3, <2>4, <2>5 DEF TypeOK, abort
    <2> QED BY <1>0, <2>1, <2>6 DEF TableInv
<1>3. ASSUME aborted' = TRUE, UNCHANGED <<table, launch>> PROVE TableInv'
    <2>1. TypeOK'
        BY <1>0, <1>1, <1>3 DEF TypeOK, table, launch, abort
    <2> QED BY <1>0, <1>3, <2>1 DEF TableInv, table
<1> QED BY <1>0, <1>2, <1>3, RegisterCases

\* The store of the handle keeps it.
LEMMA TableStore ==
    ASSUME TableInv, NEW l \in Launchers, Store(l)
    PROVE  TableInv'
<1>1. /\ making[l] \in Contexts /\ given[l] \in 0..HandleMask /\ HandleMask \in Nat
    BY HandleAssumption DEF TableInv, TypeOK, Store
<1>2. /\ handle' \in [Contexts -> 0..HandleMask]
      /\ making' \in [Launchers -> Contexts \cup {NULL}]
      /\ given' \in [Launchers -> 0..HandleMask]
    BY <1>1 DEF TableInv, TypeOK, Store
<1>3. UNCHANGED <<slot_size, slot, handle_index, name, aborted, registered, cell, doomed, removed, before>>
    BY DEF Store, table, abort
<1>4. TypeOK'
    BY <1>2, <1>3 DEF TableInv, TypeOK
<1> QED BY <1>3, <1>4 DEF TableInv

\* So does a retirement.
LEMMA TableRetire ==
    ASSUME TableInv, NEW h \in 0..HandleMask, Retire(h)
    PROVE  TableInv'
<1>1. name' \in Seq(Entries) /\ Increasing(name') /\ slot' \in Tables(slot_size)
    BY RetireCases DEF Retire
<1>2. UNCHANGED <<slot_size, handle_index, handle, aborted, registered, making, given, cell, doomed, removed, before>>
    BY DEF Retire, launch, abort
<1>3. TypeOK'
    BY <1>1, <1>2 DEF TableInv, TypeOK, Entries, Tables, Cells
<1> QED BY <1>1, <1>2, <1>3 DEF TableInv

\* And a step of skynet_handle_retireall.
LEMMA TableRetireAll ==
    ASSUME TableInv, NEW a \in Aborters,
           RetireAll(a) \/ Read(a) \/ Skip(a) \/ RetireRead(a) \/ EndPass(a)
    PROVE  TableInv'
<1>0. /\ TypeOK /\ Increasing(name) /\ HandlesInTable \subseteq 0..HandleMask /\ HandleMask \in Nat
      /\ cell[a] \in Nat \cup {-1} /\ removed[a] \in Nat /\ doomed[a] \in 0..HandleMask
      /\ 0 \in 0..HandleMask
    <2>1. TypeOK /\ Increasing(name)
        BY DEF TableInv
    <2>2. HandlesInTable \subseteq 0..HandleMask
        BY <2>1, TableTypes
    <2>3. HandleMask \in Nat /\ 0 \in 0..HandleMask
        BY HandleAssumption
    <2>4. cell[a] \in Nat \cup {-1} /\ removed[a] \in Nat /\ doomed[a] \in 0..HandleMask
        BY <2>1 DEF TypeOK
    <2> QED BY <2>1, <2>2, <2>3, <2>4
<1>1. CASE RetireAll(a)
    <2>1. TypeOK'
        BY <1>0, <1>1 DEF RetireAll, TypeOK, table, launch
    <2> QED BY <1>1, <2>1 DEF RetireAll, table, TableInv
<1>2. CASE Read(a)
    <2>1. Seen(a) \in 0..HandleMask
        <3>1. cell[a] \in Cells(slot_size)
            BY <1>2 DEF Read, Cells
        <3> QED BY <1>0, <3>1, Types DEF Seen
    <2>2. TypeOK'
        BY <1>0, <1>2, <2>1 DEF Read, TypeOK, table, launch
    <2> QED BY <1>2, <2>2 DEF Read, table, TableInv
<1>3. CASE Skip(a)
    <2>1. TypeOK'
        BY <1>0, <1>3 DEF Skip, TypeOK, table, launch
    <2> QED BY <1>3, <2>1 DEF Skip, table, TableInv
<1>4. CASE RetireRead(a)
    <2>1. name' \in Seq(Entries) /\ Increasing(name') /\ slot' \in Tables(slot_size)
        BY <1>0, <1>4, RetireCases DEF RetireRead
    <2>2. UNCHANGED <<slot_size, handle_index, handle, aborted, registered, making, given, before>>
        BY <1>4 DEF RetireRead, launch
    <2>3. /\ removed' \in [Aborters -> Nat] /\ doomed' \in [Aborters -> 0..HandleMask]
          /\ cell' \in [Aborters -> Nat \cup {-1}]
        BY <1>0, <1>4 DEF RetireRead, TypeOK
    <2>4. TypeOK'
        BY <1>0, <2>1, <2>2, <2>3 DEF TypeOK, Entries, Tables, Cells
    <2> QED BY <2>1, <2>2, <2>4 DEF TableInv
<1>5. CASE EndPass(a)
    <2>1. /\ cell' \in [Aborters -> Nat \cup {-1}] /\ removed' \in [Aborters -> Nat]
          /\ before' \in [Aborters -> SUBSET (0..HandleMask)]
        BY <1>0, <1>5 DEF EndPass, TypeOK
    <2>2. TypeOK'
        BY <1>0, <1>5, <2>1 DEF EndPass, TypeOK, table, launch
    <2> QED BY <1>5, <2>2 DEF EndPass, table, TableInv
<1> QED BY <1>1, <1>2, <1>3, <1>4, <1>5

\* And a new name.
LEMMA TableName ==
    ASSUME TableInv, NEW h \in 0..HandleMask, NEW n \in Names, NameHandle(h, n)
    PROVE  TableInv'
<1>1. name' \in Seq(Entries) /\ Increasing(name')
    BY NameInserted, Types DEF TableInv
<1>2. UNCHANGED <<slot_size, slot, handle_index, handle, aborted, registered, making, given,
                  cell, doomed, removed, before>>
    BY DEF NameHandle, table, launch, abort
<1>3. TypeOK'
    BY <1>1, <1>2 DEF TableInv, TypeOK, Entries
<1> QED BY <1>1, <1>2, <1>3 DEF TableInv

\* It holds of the empty table.
LEMMA TableInit ==
    ASSUME Init
    PROVE  TableInv
<1>0. HandleMask \in Nat \ {0} /\ DefaultSize \in Nat \ {0} /\ MaxRegister \in Nat
    BY HandleAssumption
<1>1. TypeOK
    <2>1. slot_size \in Nat \ {0} /\ slot \in [0..(slot_size - 1) -> Contexts \cup {NULL}]
        BY <1>0 DEF Init
    <2>2. handle_index \in 1..(HandleMask + 1) /\ 0 \in 0..HandleMask /\ registered \in 0..MaxRegister
        BY <1>0 DEF Init
    <2>3. handle \in [Contexts -> 0..HandleMask] /\ given \in [Launchers -> 0..HandleMask]
        BY <2>2 DEF Init
    <2>4. name \in Seq([name : Names, handle : 0..HandleMask])
        BY DEF Init
    <2>5. /\ cell \in [Aborters -> Nat \cup {-1}] /\ doomed \in [Aborters -> 0..HandleMask]
          /\ removed \in [Aborters -> Nat] /\ before \in [Aborters -> SUBSET (0..HandleMask)]
          /\ making \in [Launchers -> Contexts \cup {NULL}]
        BY <2>2 DEF Init
    <2>6. aborted \in BOOLEAN
        BY DEF Init
    <2> QED BY <2>1, <2>2, <2>3, <2>4, <2>5, <2>6 DEF TypeOK
<1>2. Fits(slot_size)
    BY FirstFits DEF Init
<1>3. Increasing(name)
    BY DEF Init, Increasing
<1> QED BY <1>1, <1>2, <1>3 DEF TableInv

\* Every step keeps it.
LEMMA TableStep ==
    ASSUME TableInv, [Next]_vars
    PROVE  TableInv'
<1>1. CASE UNCHANGED vars
    BY <1>1 DEF TableInv, TypeOK, vars, table, launch, abort
<1>2. KnownHandles \subseteq 0..HandleMask
    BY DEF KnownHandles, TableInv, TypeOK
<1> QED BY <1>1, <1>2, TableRegister, TableStore, TableRetire, TableRetireAll, TableName DEF Next

\* The table is well formed in every state, with any number of threads that
\* create services: its size divides the number of handles, and the names are
\* sorted.
THEOREM TableInvariance == Spec => []TableInv
BY TableInit, TableStep, PTL DEF Spec

\* Who leaves the table in a retirement was found under the handle, and takes
\* its names along.
LEMMA RetireLeaves ==
    ASSUME TableInv, NEW h \in 0..HandleMask, RetireEffect(h), slot_size' = slot_size,
           NEW c \in InTable \ InTable'
    PROVE  \A e \in ToSet(name') : e.handle # handle[c]
<1> DEFINE k == Rem(h, slot_size)
<1>1. PICK i \in Cells(slot_size) : slot[i] = c /\ c # NULL
    BY DEF InTable, Cells
<1>2. slot' # slot
    BY DEF InTable
<1>3. /\ slot[k] # NULL /\ handle[slot[k]] = h /\ slot' = [slot EXCEPT ![k] = NULL]
      /\ \A e \in ToSet(name') : e.handle # h
    BY <1>2, RetireCases
<1> HIDE DEF k
<1>4. i = k
    <2> SUFFICES ASSUME i # k PROVE FALSE
        OBVIOUS
    <2>1. slot'[i] = c
        BY <1>1, <1>3, Types DEF TableInv, Tables
    <2>2. c \in InTable'
        BY <1>1, <2>1 DEF InTable, Cells
    <2> QED BY <2>2
<1> QED BY <1>1, <1>3, <1>4

\* A registration takes no service out of the table, if it doubles it or not.
LEMMA RegisterKeeps ==
    ASSUME TableInv, NEW l \in Launchers, NEW c \in Contexts, Register(l, c)
    PROVE  InTable \subseteq InTable'
<1> SUFFICES ASSUME NEW d \in InTable PROVE d \in InTable'
    OBVIOUS
<1>0. TypeOK /\ Fits(slot_size)
    BY DEF TableInv
<1>1. PICK i \in Cells(slot_size) : slot[i] = d /\ d # NULL
    BY DEF InTable, Cells
<1>2. ASSUME NEW h \in 0..HandleMask, NEW t, NEW size, Registers(l, c, h, t, size),
             NEW j \in Cells(size), t[j] = d
      PROVE  d \in InTable'
    <2>1. j # Rem(h, size)
        BY <1>1, <1>2 DEF Registers
    <2>2. slot'[j] = d /\ j \in Cells(slot_size')
        BY <1>2, <2>1 DEF Registers, Tables
    <2> QED BY <1>1, <2>2 DEF InTable, Cells
<1>3. CASE \E h \in 0..HandleMask : Registers(l, c, h, slot, slot_size)
    BY <1>1, <1>2, <1>3
<1>4. CASE /\ \A j \in Cells(slot_size) : slot[j] \in Contexts
           /\ ~Clash
           /\ \E h \in 0..HandleMask : Registers(l, c, h, Rehashed, 2 * slot_size)
    <2> DEFINE j == Rem(handle[slot[i]], 2 * slot_size)
    <2>1. j \in Cells(2 * slot_size) /\ Rehashed[j] = slot[i]
        BY <1>0, <1>4, Doubled
    <2> HIDE DEF j
    <2> QED BY <1>1, <1>2, <1>4, <2>1
<1>5. CASE UNCHANGED <<table, launch>>
    BY <1>5 DEF InTable, table
<1> QED BY <1>0, <1>3, <1>4, <1>5, RegisterCases

\* Every step keeps the table whole.
LEMMA LeavesStep ==
    ASSUME TableInv, [Next]_vars, NEW c \in InTable \ InTable'
    PROVE  slot_size' = slot_size /\ \A e \in ToSet(name') : e.handle # handle[c]
<1>1. ~(UNCHANGED <<slot_size, slot>>)
    BY DEF InTable
<1>2. ASSUME UNCHANGED table PROVE FALSE
    BY <1>1, <1>2 DEF table
<1>3. \A l \in Launchers : ~Store(l) /\ \A d \in Contexts : ~Register(l, d)
    BY <1>2, RegisterKeeps DEF Store
<1>4. \A a \in Aborters : ~RetireAll(a) /\ ~Read(a) /\ ~Skip(a) /\ ~EndPass(a)
    BY <1>2 DEF RetireAll, Read, Skip, EndPass
<1>5. \A h \in KnownHandles : \A n \in Names : ~NameHandle(h, n)
    BY <1>2 DEF NameHandle
<1>6. ~(UNCHANGED vars)
    BY <1>2 DEF vars
<1>7. CASE \E a \in Aborters : RetireRead(a)
    <2>1. PICK a \in Aborters : RetireRead(a)
        BY <1>7
    <2>2. RetireEffect(doomed[a]) /\ slot_size' = slot_size /\ doomed[a] \in 0..HandleMask
        BY <2>1 DEF RetireRead, TableInv, TypeOK
    <2> QED BY <2>2, RetireLeaves
<1>8. CASE \E h \in KnownHandles : Retire(h)
    <2>1. PICK h \in KnownHandles : Retire(h)
        BY <1>8
    <2>2. h \in 0..HandleMask
        BY DEF KnownHandles, TableInv, TypeOK
    <2>3. RetireEffect(h) /\ slot_size' = slot_size
        BY <2>1 DEF Retire
    <2> QED BY <2>2, <2>3, RetireLeaves
<1> QED BY <1>3, <1>4, <1>5, <1>6, <1>7, <1>8 DEF Next

\* A service leaves the table only when it is retired, never in a doubling,
\* and takes with it every name that resolves to it; with any number of
\* threads that create and retire services (skynet_handle_register,
\* skynet_handle_retire).
THEOREM ServicesLeaveWhole == Spec => LeavesWhole
<1>1. ASSUME TableInv, [Next]_vars
      PROVE  [\A c \in InTable \ InTable' :
                 /\ slot_size' = slot_size
                 /\ \A e \in ToSet(name') : e.handle # handle[c]]_vars
    BY <1>1, LeavesStep
<1> QED BY <1>1, TableInvariance, PTL DEF Spec, LeavesWhole

-----------------------------------------------------------------------------
(* One thread registers at a time *)

\* No two threads are between skynet_handle_register and the store.
OneLauncher == \A l, m \in Launchers : l = m

\* Every context is in the cell of its handle: the stored one, or the one its
\* creator is about to store.
InPlace ==
    \A i \in Cells(slot_size) : slot[i] # NULL =>
        \/ ~Pending(slot[i]) /\ Rem(handle[slot[i]], slot_size) = i
        \/ \E l \in Launchers : making[l] = slot[i] /\ Rem(given[l], slot_size) = i

\* The inductive invariant.
HandleInv ==
    /\ TableInv
    /\ InPlace
    /\ NoClash

\* Without a pending context a full table doubles without a clash, and not
\* past the space of handles.
LEMMA NoAssertion ==
    ASSUME HandleInv, OneLauncher, NEW l \in Launchers, making[l] = NULL,
           \A i \in Cells(slot_size) : slot[i] \in Contexts
    PROVE  ~Clash /\ 2 * slot_size - 1 <= HandleMask
<1>0. /\ TypeOK /\ Fits(slot_size) /\ slot_size \in Nat \ {0} /\ HandleMask \in Nat \ {0}
      /\ NULL \notin Contexts
    BY Types, HandleAssumption DEF HandleInv, TableInv
<1>1. \A i \in Cells(slot_size) : Rem(handle[slot[i]], slot_size) = i /\ handle[slot[i]] \in Nat
    <2> SUFFICES ASSUME NEW i \in Cells(slot_size)
                 PROVE  Rem(handle[slot[i]], slot_size) = i /\ handle[slot[i]] \in Nat
        OBVIOUS
    <2>1. slot[i] # NULL
        BY <1>0
    <2>2. \A m \in Launchers : making[m] # slot[i]
        BY <2>1 DEF OneLauncher
    <2>3. Rem(handle[slot[i]], slot_size) = i
        BY <2>1, <2>2 DEF HandleInv, InPlace
    <2>4. handle[slot[i]] \in 0..HandleMask
        BY <1>0, <2>1, Types
    <2> QED BY <1>0, <2>3, <2>4
<1>2. ~Clash
    <2> SUFFICES ASSUME Clash PROVE FALSE
        OBVIOUS
    <2> DEFINE N == 2 * slot_size
    <2>0. N \in Nat \ {0} /\ N = 2 * slot_size
        BY <1>0
    <2>1. PICK i \in Cells(slot_size), j \in Cells(slot_size) :
              i # j /\ Rem(handle[slot[i]], N) = Rem(handle[slot[j]], N)
        BY DEF Clash, Rem, Cells
    <2> HIDE DEF N
    <2>2. /\ Rem(Rem(handle[slot[i]], N), slot_size) = i
          /\ Rem(Rem(handle[slot[j]], N), slot_size) = j
        <3>1. 2 \in Nat \ {0}
            OBVIOUS
        <3>2. /\ Rem(Rem(handle[slot[i]], N), slot_size) = Rem(handle[slot[i]], slot_size)
              /\ Rem(Rem(handle[slot[j]], N), slot_size) = Rem(handle[slot[j]], slot_size)
            BY <1>0, <1>1, <2>0, <3>1, RemOfRem
        <3> QED BY <1>1, <3>2
    <2> QED BY <2>1, <2>2
<1>3. slot_size # HandleMask + 1
    <2> SUFFICES ASSUME slot_size = HandleMask + 1 PROVE FALSE
        OBVIOUS
    <2>1. IsFiniteSet(Cells(slot_size)) /\ Cardinality(Cells(slot_size)) = slot_size
        <3>1. 0 \in Int /\ slot_size - 1 \in Int
            BY <1>0
        <3>2. /\ IsFiniteSet(0..(slot_size - 1))
              /\ Cardinality(0..(slot_size - 1)) = IF 0 > slot_size - 1 THEN 0 ELSE (slot_size - 1) - 0 + 1
            BY <3>1, FS_Interval
        <3> QED BY <1>0, <3>2 DEF Cells
    <2>2. slot \in [Cells(slot_size) -> Contexts]
        BY <1>0, Types DEF Tables
    <2>3. IsFiniteSet(Contexts) /\ Cardinality(Contexts) < slot_size
        <3>1. IsFiniteSet(Contexts) /\ Cardinality(Contexts) <= HandleMask
            BY HandleAssumption
        <3>2. Cardinality(Contexts) \in Nat
            BY <3>1, FS_CardinalityType
        <3> QED BY <1>0, <3>1, <3>2
    <2>4. \E x, y \in Cells(slot_size) : x # y /\ slot[x] = slot[y]
        BY <2>1, <2>2, <2>3, FS_PigeonHole
    <2> QED BY <1>1, <2>4
<1> QED BY <1>0, <1>2, <1>3, FitsFacts

\* A registration keeps every context in place.
LEMMA HandleRegister ==
    ASSUME HandleInv, OneLauncher, NEW l \in Launchers, NEW c \in Contexts, Register(l, c)
    PROVE  HandleInv'
<1>0. /\ TableInv /\ TypeOK /\ Fits(slot_size) /\ making[l] = NULL /\ c \notin InTable
      /\ handle' = [handle EXCEPT ![c] = 0] /\ ~aborted /\ NULL \notin Contexts
    BY HandleAssumption DEF HandleInv, TableInv, Register, NoClash
<1>1. TableInv'
    BY <1>0, TableRegister
<1>2. ASSUME NEW i \in Cells(slot_size), slot[i] # NULL
      PROVE  slot[i] # c /\ Rem(handle[slot[i]], slot_size) = i
    <2>1. slot[i] # c
        BY <1>0, <1>2 DEF InTable, Cells
    <2>2. \A m \in Launchers : making[m] # slot[i]
        BY <1>0, <1>2 DEF OneLauncher
    <2> QED BY <1>2, <2>1, <2>2 DEF HandleInv, InPlace
<1>3. ASSUME NEW h \in 0..HandleMask, NEW t, NEW size, Registers(l, c, h, t, size),
             \A k \in Cells(size) : t[k] # NULL => t[k] \in Contexts /\ t[k] # c /\ Rem(handle[t[k]], size) = k
      PROVE  HandleInv'
    <2>1. aborted' = FALSE
        BY <1>0, <1>3 DEF Registers
    <2>2. InPlace'
        <3> SUFFICES ASSUME NEW i \in Cells(slot_size'), slot'[i] # NULL
                     PROVE  \/ ~Pending(slot[i])' /\ Rem(handle'[slot'[i]], slot_size') = i
                            \/ \E m \in Launchers : making'[m] = slot'[i] /\ Rem(given'[m], slot_size') = i
            BY DEF InPlace
        <3>0. slot_size' = size /\ slot' = [t EXCEPT ![Rem(h, size)] = c] /\ t \in Tables(size) /\ i \in Cells(size)
            BY <1>3 DEF Registers
        <3>1. making'[l] = c /\ given'[l] = h
            BY <1>0, <1>3 DEF Registers, TypeOK
        <3>2. CASE i = Rem(h, size)
            BY <3>0, <3>1, <3>2 DEF Tables
        <3>3. CASE i # Rem(h, size)
            <4>1. slot'[i] = t[i]
                BY <3>0, <3>3 DEF Tables
            <4>2. t[i] \in Contexts /\ t[i] # c /\ Rem(handle[t[i]], size) = i
                BY <1>3, <3>0, <4>1
            <4>3. handle'[t[i]] = handle[t[i]]
                BY <1>0, <4>2 DEF TypeOK
            <4>4. \A m \in Launchers : making'[m] # slot'[i]
                BY <3>1, <4>1, <4>2 DEF OneLauncher
            <4>5. ~Pending(slot[i])'
                BY <4>4 DEF Pending
            <4> QED BY <3>0, <4>1, <4>2, <4>3, <4>5
        <3> QED BY <3>2, <3>3
    <2> QED BY <1>1, <2>1, <2>2 DEF HandleInv, NoClash
<1>4. CASE \E h \in 0..HandleMask : Registers(l, c, h, slot, slot_size)
    BY <1>0, <1>2, <1>3, <1>4, Types
<1>5. CASE /\ \A i \in Cells(slot_size) : slot[i] \in Contexts
           /\ ~Clash
           /\ \E h \in 0..HandleMask : Registers(l, c, h, Rehashed, 2 * slot_size)
    <2>1. \A k \in Cells(2 * slot_size) : Rehashed[k] # NULL =>
              \E i \in Cells(slot_size) : Rehashed[k] = slot[i] /\ Rem(handle[slot[i]], 2 * slot_size) = k
        BY <1>0, <1>5, Doubled
    <2>2. \A k \in Cells(2 * slot_size) : Rehashed[k] # NULL =>
              Rehashed[k] \in Contexts /\ Rehashed[k] # c /\ Rem(handle[Rehashed[k]], 2 * slot_size) = k
        BY <1>0, <1>2, <1>5, <2>1
    <2> QED BY <1>3, <1>5, <2>2
<1>6. CASE /\ \A i \in Cells(slot_size) : slot[i] \in Contexts
           /\ Clash \/ 2 * slot_size - 1 > HandleMask
    <2>1. ~Clash /\ 2 * slot_size - 1 <= HandleMask
        BY <1>0, <1>6, NoAssertion
    <2>2. slot_size \in Nat /\ HandleMask \in Nat
        BY <1>0, Types
    <2> QED BY <1>6, <2>1, <2>2
<1> QED BY <1>0, <1>4, <1>5, <1>6, RegisterCases

\* The store puts the handle of the cell into the context.
LEMMA HandleStore ==
    ASSUME HandleInv, OneLauncher, NEW l \in Launchers, Store(l)
    PROVE  HandleInv'
<1>0. /\ TableInv /\ TypeOK /\ making[l] \in Contexts
      /\ handle' = [handle EXCEPT ![making[l]] = given[l]]
      /\ making' = [making EXCEPT ![l] = NULL]
      /\ slot' = slot /\ slot_size' = slot_size /\ aborted' = aborted /\ ~aborted
    BY DEF HandleInv, TableInv, TypeOK, Store, table
<1>1. TableInv'
    BY <1>0, TableStore
<1>2. InPlace'
    <2> SUFFICES ASSUME NEW i \in Cells(slot_size), slot[i] # NULL
                 PROVE  ~Pending(slot[i])' /\ Rem(handle'[slot[i]], slot_size) = i
        BY <1>0 DEF InPlace
    <2>1. \A m \in Launchers : making'[m] = NULL
        BY <1>0 DEF OneLauncher, TypeOK
    <2>2. ~Pending(slot[i])'
        BY <1>0, <2>1 DEF Pending
    <2>3. slot[i] \in Contexts
        BY <1>0, Types
    <2>4. CASE slot[i] = making[l]
        <3>1. handle'[slot[i]] = given[l]
            BY <1>0, <2>4 DEF TypeOK
        <3>2. Rem(given[l], slot_size) = i
            BY <2>4 DEF HandleInv, InPlace, Pending, OneLauncher
        <3> QED BY <2>2, <3>1, <3>2
    <2>5. CASE slot[i] # making[l]
        <3>1. handle'[slot[i]] = handle[slot[i]]
            BY <1>0, <2>3, <2>5 DEF TypeOK
        <3>2. \A m \in Launchers : making[m] # slot[i]
            BY <2>5 DEF OneLauncher
        <3>3. Rem(handle[slot[i]], slot_size) = i
            BY <3>2 DEF HandleInv, InPlace
        <3> QED BY <2>2, <3>1, <3>3
    <2> QED BY <2>4, <2>5
<1> QED BY <1>0, <1>1, <1>2 DEF HandleInv, NoClash

\* A step that leaves the table as it is, or empties a cell, moves nothing.
LEMMA HandleOther ==
    ASSUME HandleInv, TableInv', aborted' = aborted,
           UNCHANGED <<slot_size, handle, making, given>>,
           \A i \in Cells(slot_size) : slot'[i] = slot[i] \/ slot'[i] = NULL
    PROVE  HandleInv'
<1>1. InPlace'
    <2> SUFFICES ASSUME NEW i \in Cells(slot_size), slot'[i] # NULL
                 PROVE  \/ ~Pending(slot[i])' /\ Rem(handle[slot'[i]], slot_size) = i
                        \/ \E l \in Launchers : making[l] = slot'[i] /\ Rem(given[l], slot_size) = i
        BY DEF InPlace
    <2>1. slot'[i] = slot[i]
        OBVIOUS
    <2>2. ~Pending(slot[i])' <=> ~\E l \in Launchers : making[l] = slot[i]
        BY <2>1 DEF Pending
    <2> QED BY <2>1, <2>2 DEF HandleInv, InPlace, Pending
<1> QED BY <1>1 DEF HandleInv, NoClash

\* Every step keeps the invariant.
LEMMA HandleStep ==
    ASSUME HandleInv, OneLauncher, [Next]_vars
    PROVE  HandleInv'
<1>0. /\ TableInv /\ TypeOK /\ TableInv'
      /\ slot \in Tables(slot_size) /\ KnownHandles \subseteq 0..HandleMask
    <2>1. TableInv /\ TypeOK
        BY DEF HandleInv, TableInv
    <2>2. TableInv'
        BY <2>1, TableStep
    <2>3. slot \in Tables(slot_size) /\ handle \in [Contexts -> 0..HandleMask]
        BY <2>1, Types
    <2> QED BY <2>1, <2>2, <2>3 DEF KnownHandles
<1>1. ASSUME UNCHANGED <<table, handle, launch, aborted>> PROVE HandleInv'
    <2>1. \A i \in Cells(slot_size) : slot'[i] = slot[i] \/ slot'[i] = NULL
        BY <1>1 DEF table
    <2>2. UNCHANGED <<slot_size, handle, making, given>>
        BY <1>1 DEF table, launch
    <2> QED BY <1>0, <1>1, <2>1, <2>2, HandleOther
<1>2. ASSUME NEW h \in 0..HandleMask, RetireEffect(h),
             UNCHANGED <<slot_size, handle, launch, aborted>>
      PROVE  HandleInv'
    <2>1. slot' = slot \/ slot' = [slot EXCEPT ![Rem(h, slot_size)] = NULL]
        BY <1>0, <1>2, RetireCases
    <2>2. \A i \in Cells(slot_size) : slot'[i] = slot[i] \/ slot'[i] = NULL
        BY <1>0, <2>1 DEF Tables
    <2>3. UNCHANGED <<slot_size, handle, making, given>>
        BY <1>2 DEF launch
    <2> QED BY <1>0, <1>2, <2>2, <2>3, HandleOther
<1>3. CASE UNCHANGED vars
    BY <1>1, <1>3 DEF vars
<1>4. CASE \E l \in Launchers : Store(l) \/ \E c \in Contexts : Register(l, c)
    BY <1>4, HandleStore, HandleRegister
<1>5. CASE \E a \in Aborters : RetireAll(a) \/ Read(a) \/ Skip(a) \/ EndPass(a)
    BY <1>1, <1>5 DEF RetireAll, Read, Skip, EndPass
<1>6. CASE \E a \in Aborters : RetireRead(a)
    <2>1. PICK a \in Aborters : RetireRead(a)
        BY <1>6
    <2>2. doomed[a] \in 0..HandleMask
        BY <1>0 DEF TypeOK
    <2> QED BY <1>2, <2>1, <2>2 DEF RetireRead
<1>7. CASE \E h \in KnownHandles : Retire(h)
    BY <1>0, <1>2, <1>7 DEF Retire
<1>8. CASE \E h \in KnownHandles : \E n \in Names : NameHandle(h, n)
    BY <1>1, <1>8 DEF NameHandle
<1> QED BY <1>3, <1>4, <1>5, <1>6, <1>7, <1>8 DEF Next

\* While one thread creates services, every context is in the cell of its
\* handle and no assertion has failed.
THEOREM HandleInvariance ==
    ASSUME OneLauncher
    PROVE  Spec => []HandleInv
<1>1. ASSUME Init PROVE HandleInv
    <2>1. \A i \in Cells(slot_size) : slot[i] = NULL
        BY <1>1 DEF Init, Cells
    <2>2. InPlace /\ NoClash
        BY <1>1, <2>1 DEF InPlace, NoClash, Init
    <2> QED BY <1>1, <2>2, TableInit DEF HandleInv
<1>2. ASSUME HandleInv, [Next]_vars PROVE HandleInv'
    BY <1>2, HandleStep
<1> QED BY <1>1, <1>2, PTL DEF Spec

\* While one thread creates services, a service is found under its handle as
\* long as it is in the table, and every name is found by the bisection: what
\* skynet_handle_grab, skynet_handle_retire and skynet_handle_findname rely on.
THEOREM LookupsFind ==
    ASSUME OneLauncher
    PROVE  Spec => []LookupsRight
<1>1. ASSUME HandleInv PROVE LookupsRight
    <2>0. TypeOK /\ name \in Seq(Entries) /\ Increasing(name) /\ InPlace
        BY <1>1, Types DEF HandleInv, TableInv
    <2>1. NamesFound
        BY <2>0, NamesAreFound
    <2>2. Reachable
        <3> SUFFICES ASSUME NEW c \in InTable, ~Pending(c) PROVE Lookup(handle[c]) = c
            BY DEF Reachable
        <3>1. PICK i \in Cells(slot_size) : slot[i] = c /\ c # NULL
            BY DEF InTable, Cells
        <3>2. Rem(handle[c], slot_size) = i
            BY <2>0, <3>1 DEF InPlace, Pending
        <3>3. slot[Rem(handle[c], slot_size)] = c
            BY <3>1, <3>2
        <3> QED BY <3>1, <3>3 DEF Lookup, Rem
    <2> QED BY <2>0, <2>1, <2>2 DEF LookupsRight
<1> QED BY <1>1, HandleInvariance, PTL

\* While one thread creates services, no assertion of skynet_handle_register
\* fails: a full table doubles without two contexts in one cell, and not past
\* the space of handles.
THEOREM AssertionsHold ==
    ASSUME OneLauncher
    PROVE  Spec => []NoClash
<1>1. HandleInv => NoClash
    BY DEF HandleInv
<1> QED BY <1>1, HandleInvariance, PTL

-----------------------------------------------------------------------------
(* skynet_handle_retireall *)

\* No registration wraps the handle counter: it takes 2^24 of them to do so.
NoWrap == [][registered' # registered => handle_index' > handle_index]_vars

\* A new handle was not used before, and is not 0.
Fresh ==
    /\ 0 \notin HandlesInTable
    /\ \A c \in Contexts : handle[c] < handle_index
    /\ \A a \in Aborters : \A h \in before[a] : h < handle_index
    /\ \A l \in Launchers : making[l] # NULL =>
          /\ given[l] # 0 /\ given[l] < handle_index
          /\ \A c \in Contexts : handle[c] # given[l]
          /\ \A a \in Aborters : given[l] \notin before[a]

\* A pass that has retired nothing has left none of the handles it found at
\* the start in the cells behind it, or it holds the one that is there.
Pass(a) ==
    /\ doomed[a] # 0 => cell[a] # -1
    /\ cell[a] # -1 /\ removed[a] = 0 =>
          \A h \in before[a] \cap HandlesInTable :
             /\ Rem(h, slot_size) >= cell[a]
             /\ doomed[a] # 0 /\ Rem(h, slot_size) = cell[a] => h = doomed[a]

\* The inductive invariant of the passes.
PassInv ==
    /\ HandleInv
    /\ Fresh
    /\ \A a \in Aborters : Pass(a)

\* A handle in the table is in its cell.
LEMMA InItsCell ==
    ASSUME HandleInv, NEW h \in HandlesInTable
    PROVE  /\ h \in 0..HandleMask /\ Rem(h, slot_size) \in Cells(slot_size) /\ Rem(h, slot_size) \in Nat
           /\ slot[Rem(h, slot_size)] # NULL
           /\ handle[slot[Rem(h, slot_size)]] = h
           /\ Lookup(h) # NULL
<1>0. TypeOK /\ InPlace /\ h \in 0..HandleMask
    BY TableTypes DEF HandleInv, TableInv
<1>1. PICK i \in Cells(slot_size) : slot[i] # NULL /\ ~Pending(slot[i]) /\ handle[slot[i]] = h
    BY DEF HandlesInTable, InTable, Cells
<1>2. Rem(h, slot_size) = i
    BY <1>0, <1>1 DEF InPlace, Pending
<1>3. i \in Nat
    BY DEF Cells
<1>4. Lookup(h) # NULL
    BY <1>1, <1>2 DEF Lookup, Rem
<1> QED BY <1>0, <1>1, <1>2, <1>3, <1>4

\* The remainder by twice the divisor is not less.
LEMMA RemGrows ==
    ASSUME NEW x \in Nat, NEW s \in Nat \ {0}
    PROVE  Rem(x, 2 * s) >= Rem(x, s)
<1> DEFINE N == 2 * s
           r == Rem(x, N)
<1>0. N \in Nat \ {0} /\ N = 2 * s /\ 2 \in Nat \ {0}
    OBVIOUS
<1> HIDE DEF N
<1>1. r \in Nat /\ Rem(r, s) = Rem(x, s)
    BY <1>0, InBlock, RemOfRem
<1> HIDE DEF r
<1>2. Quot(r, s) \in Nat /\ Rem(r, s) \in Nat /\ r = s * Quot(r, s) + Rem(r, s)
    BY <1>1, InBlock
<1>3. s * Quot(r, s) \in Nat
    BY <1>2
<1>4. r >= Rem(r, s)
    BY <1>2, <1>3
<1> QED BY <1>1, <1>4 DEF r, N

\* A registration adds no stored handle, and cells only move up.
LEMMA RegisterHandles ==
    ASSUME HandleInv, OneLauncher, NEW l \in Launchers, NEW c \in Contexts, Register(l, c)
    PROVE  /\ HandlesInTable' \subseteq HandlesInTable
           /\ \A h \in HandlesInTable : Rem(h, slot_size') >= Rem(h, slot_size)
           /\ \E h \in 0..HandleMask : /\ handle_index' = h + 1
                                       /\ making' = [making EXCEPT ![l] = c]
                                       /\ given' = [given EXCEPT ![l] = h]
<1>0. /\ TableInv /\ TypeOK /\ Fits(slot_size) /\ making[l] = NULL /\ c \notin InTable
      /\ handle' = [handle EXCEPT ![c] = 0] /\ slot_size \in Nat \ {0}
    BY Types DEF HandleInv, TableInv, Register
<1>1. ~aborted'
    BY HandleRegister DEF HandleInv, NoClash
<1>2. ASSUME NEW h \in 0..HandleMask, NEW t, NEW size, Registers(l, c, h, t, size),
             \A k \in Cells(size) : t[k] # NULL => t[k] \in InTable
      PROVE  HandlesInTable' \subseteq HandlesInTable
    <2> SUFFICES ASSUME NEW d \in InTable', ~Pending(d)'
                 PROVE  handle'[d] \in HandlesInTable
        BY DEF HandlesInTable
    <2>1. PICK k \in Cells(slot_size') : slot'[k] = d /\ d # NULL
        BY DEF InTable, Cells
    <2>2. /\ making' = [making EXCEPT ![l] = c] /\ slot_size' = size /\ t \in Tables(size)
          /\ slot' = [t EXCEPT ![Rem(h, size)] = c]
        BY <1>2 DEF Registers
    <2>3. making'[l] = c
        BY <1>0, <2>2 DEF TypeOK
    <2>4. \A m \in Launchers : making'[m] # d
        BY DEF Pending
    <2>5. d # c
        BY <2>3, <2>4
    <2>6. t[k] = d /\ k \in Cells(size)
        BY <2>1, <2>2, <2>5 DEF Tables
    <2>7. d \in InTable
        BY <1>2, <2>1, <2>6
    <2>8. ~Pending(d)
        BY <1>0, <2>1 DEF Pending, OneLauncher
    <2>9. d \in Contexts
        BY <1>0, <2>7, TableTypes
    <2>10. handle'[d] = handle[d]
        BY <1>0, <2>5, <2>9 DEF TypeOK
    <2> QED BY <2>7, <2>8, <2>10 DEF HandlesInTable
<1>3. CASE \E h \in 0..HandleMask : Registers(l, c, h, slot, slot_size)
    <2>1. \A k \in Cells(slot_size) : slot[k] # NULL => slot[k] \in InTable
        BY DEF InTable, Cells
    <2>2. HandlesInTable' \subseteq HandlesInTable
        BY <1>2, <1>3, <2>1
    <2>3. slot_size' = slot_size
        BY <1>3 DEF Registers
    <2>4. \A h \in HandlesInTable : Rem(h, slot_size') >= Rem(h, slot_size)
        BY <2>3, InItsCell
    <2> QED BY <1>3, <2>2, <2>4 DEF Registers
<1>4. CASE /\ \A i \in Cells(slot_size) : slot[i] \in Contexts
           /\ ~Clash
           /\ \E h \in 0..HandleMask : Registers(l, c, h, Rehashed, 2 * slot_size)
    <2>1. \A k \in Cells(2 * slot_size) : Rehashed[k] # NULL =>
              \E i \in Cells(slot_size) : Rehashed[k] = slot[i]
        BY <1>0, <1>4, Doubled
    <2>2. \A k \in Cells(2 * slot_size) : Rehashed[k] # NULL => Rehashed[k] \in InTable
        BY <2>1 DEF InTable, Cells
    <2>3. HandlesInTable' \subseteq HandlesInTable
        BY <1>2, <1>4, <2>2
    <2>4. slot_size' = 2 * slot_size
        BY <1>4 DEF Registers
    <2>5. ASSUME NEW h \in HandlesInTable PROVE Rem(h, slot_size') >= Rem(h, slot_size)
        <3>1. h \in Nat
            <4>1. h \in 0..HandleMask
                BY InItsCell
            <4> QED BY <1>0, <4>1, Types
        <3>2. Rem(h, 2 * slot_size) >= Rem(h, slot_size)
            BY <1>0, <3>1, RemGrows
        <3> QED BY <2>4, <3>2
    <2> QED BY <1>4, <2>3, <2>5 DEF Registers
<1> QED BY <1>0, <1>1, <1>3, <1>4, RegisterCases

\* A retirement adds none.
LEMMA RetireHandles ==
    ASSUME HandleInv, NEW h \in 0..HandleMask, RetireEffect(h),
           UNCHANGED <<slot_size, handle, making>>
    PROVE  HandlesInTable' \subseteq HandlesInTable
<1>0. slot' = slot \/ slot' = [slot EXCEPT ![Rem(h, slot_size)] = NULL]
    BY RetireCases DEF HandleInv
<1>1. slot \in Tables(slot_size)
    BY Types DEF HandleInv, TableInv
<1>2. \A i \in Cells(slot_size) : slot'[i] = slot[i] \/ slot'[i] = NULL
    BY <1>0, <1>1 DEF Tables
<1>3. InTable' \subseteq InTable
    BY <1>2 DEF InTable, Cells
<1> SUFFICES ASSUME NEW d \in InTable', ~Pending(d)' PROVE handle'[d] \in HandlesInTable
    BY DEF HandlesInTable
<1>4. ~Pending(d)
    BY DEF Pending
<1> QED BY <1>3, <1>4 DEF HandlesInTable

\* The store adds the one that was given.
LEMMA StoreHandles ==
    ASSUME HandleInv, NEW l \in Launchers, Store(l)
    PROVE  HandlesInTable' \subseteq HandlesInTable \cup {given[l]}
<1>0. /\ TypeOK /\ making[l] \in Contexts
      /\ handle' = [handle EXCEPT ![making[l]] = given[l]]
      /\ making' = [making EXCEPT ![l] = NULL]
      /\ slot' = slot /\ slot_size' = slot_size
    BY DEF HandleInv, TableInv, TypeOK, Store, table
<1>1. InTable' = InTable
    BY <1>0 DEF InTable
<1> SUFFICES ASSUME NEW d \in InTable, ~Pending(d)' PROVE handle'[d] \in HandlesInTable \cup {given[l]}
    BY <1>1 DEF HandlesInTable
<1>2. d \in Contexts
    BY <1>0, TableTypes
<1>3. CASE d = making[l]
    BY <1>0, <1>3 DEF TypeOK
<1>4. CASE d # making[l]
    <2>1. handle'[d] = handle[d]
        BY <1>0, <1>2, <1>4 DEF TypeOK
    <2>2. \A m \in Launchers : making'[m] # d
        BY DEF Pending
    <2>3. \A m \in Launchers : m # l => making'[m] = making[m]
        BY <1>0 DEF TypeOK
    <2>4. ~Pending(d)
        BY <1>4, <2>2, <2>3 DEF Pending
    <2> QED BY <2>1, <2>4 DEF HandlesInTable
<1> QED BY <1>3, <1>4

\* What leaves the table and its users as they are adds none either.
LEMMA SameHandles ==
    ASSUME UNCHANGED <<slot_size, slot, handle, making>>
    PROVE  HandlesInTable' = HandlesInTable
<1>1. InTable' = InTable
    BY DEF InTable
<1>2. {d \in InTable : ~Pending(d)}' = {d \in InTable : ~Pending(d)}
    BY <1>1 DEF Pending
<1> QED BY <1>2 DEF HandlesInTable

\* A step that gives no handle and adds none but a given one keeps them fresh.
LEMMA FreshKept ==
    ASSUME Fresh, HandlesInTable' \subseteq HandlesInTable,
           UNCHANGED <<handle, handle_index, making, given>>,
           \A a \in Aborters : before'[a] \subseteq before[a] \cup HandlesInTable,
           InTable \subseteq Contexts
    PROVE  Fresh'
<1>1. \A h \in HandlesInTable : \E c \in Contexts : h = handle[c]
    BY DEF HandlesInTable
<1>2. \A a \in Aborters : \A h \in before'[a] : h \in before[a] \/ \E c \in Contexts : h = handle[c]
    BY <1>1
<1>3. 0 \notin HandlesInTable' /\ \A c \in Contexts : handle'[c] < handle_index'
    BY DEF Fresh
<1>4. \A a \in Aborters : \A h \in before'[a] : h < handle_index'
    BY <1>2 DEF Fresh
<1>5. \A l \in Launchers : making'[l] # NULL =>
          /\ given'[l] # 0 /\ given'[l] < handle_index'
          /\ \A c \in Contexts : handle'[c] # given'[l]
          /\ \A a \in Aborters : given'[l] \notin before'[a]
    BY <1>2 DEF Fresh
<1> QED BY <1>3, <1>4, <1>5 DEF Fresh

\* A registration that does not wrap gives a fresh handle.
LEMMA FreshRegister ==
    ASSUME HandleInv, Fresh, OneLauncher, NEW l \in Launchers, NEW c \in Contexts, Register(l, c),
           handle_index' > handle_index
    PROVE  Fresh'
<1>0. /\ TypeOK /\ handle' = [handle EXCEPT ![c] = 0] /\ before' = before
    BY DEF HandleInv, TableInv, Register, abort
<1>1. PICK h \in 0..HandleMask : /\ handle_index' = h + 1
                                 /\ making' = [making EXCEPT ![l] = c]
                                 /\ given' = [given EXCEPT ![l] = h]
    BY RegisterHandles
<1>2. /\ handle_index \in Nat /\ handle_index > 0 /\ h \in Nat /\ handle_index <= h
      /\ \A d \in Contexts : handle[d] \in Nat
      /\ \A a \in Aborters : before[a] \subseteq Nat
    BY <1>0, <1>1, SizesAre DEF TypeOK
<1>3. 0 \notin HandlesInTable'
    BY RegisterHandles DEF Fresh
<1>4. \A d \in Contexts : handle'[d] = handle[d] \/ handle'[d] = 0
    BY <1>0 DEF TypeOK
<1>5. \A d \in Contexts : handle'[d] < handle_index' /\ handle'[d] # h
    BY <1>1, <1>2, <1>4 DEF Fresh
<1>6. \A a \in Aborters : \A x \in before[a] : x < handle_index' /\ x # h
    BY <1>1, <1>2 DEF Fresh
<1>7. \A m \in Launchers : given'[m] = h
    BY <1>0, <1>1 DEF OneLauncher, TypeOK
<1>8. h # 0 /\ h < handle_index'
    BY <1>1, <1>2
<1> QED BY <1>0, <1>3, <1>5, <1>6, <1>7, <1>8 DEF Fresh

\* The store of a fresh handle.
LEMMA FreshStore ==
    ASSUME HandleInv, Fresh, OneLauncher, NEW l \in Launchers, Store(l)
    PROVE  Fresh'
<1>0. /\ TypeOK /\ making[l] # NULL /\ making[l] \in Contexts
      /\ handle' = [handle EXCEPT ![making[l]] = given[l]]
      /\ making' = [making EXCEPT ![l] = NULL]
      /\ before' = before /\ handle_index' = handle_index
    BY DEF HandleInv, TableInv, TypeOK, Store, table, abort
<1>1. given[l] # 0 /\ given[l] < handle_index
    BY <1>0 DEF Fresh
<1>2. 0 \notin HandlesInTable'
    BY <1>1, StoreHandles DEF Fresh
<1>3. \A m \in Launchers : making'[m] = NULL
    BY <1>0 DEF OneLauncher, TypeOK
<1>4. \A c \in Contexts : handle'[c] < handle_index'
    <2>1. \A c \in Contexts : handle'[c] = handle[c] \/ handle'[c] = given[l]
        BY <1>0 DEF TypeOK
    <2> QED BY <1>0, <1>1, <2>1 DEF Fresh
<1> QED BY <1>0, <1>2, <1>3, <1>4 DEF Fresh

\* A pass is kept by a step of another thread.
LEMMA PassKept ==
    ASSUME HandleInv, NEW a \in Aborters, Pass(a),
           cell'[a] = cell[a], doomed'[a] = doomed[a], removed'[a] = removed[a], before'[a] = before[a],
           before[a] \cap HandlesInTable' \subseteq HandlesInTable,
           \A h \in HandlesInTable : Rem(h, slot_size') \in Nat /\ Rem(h, slot_size') >= Rem(h, slot_size)
    PROVE  Pass(a)'
<1>1. cell[a] \in Int
    BY DEF HandleInv, TableInv, TypeOK
<1>2. \A h \in HandlesInTable : Rem(h, slot_size) \in Nat
    BY InItsCell
<1>3. ASSUME cell'[a] # -1, removed'[a] = 0, NEW h \in before'[a] \cap HandlesInTable'
      PROVE  /\ Rem(h, slot_size') >= cell'[a]
             /\ doomed'[a] # 0 /\ Rem(h, slot_size') = cell'[a] => h = doomed'[a]
    <2>1. h \in before[a] \cap HandlesInTable
        BY <1>3
    <2>2. /\ Rem(h, slot_size) >= cell[a]
          /\ doomed[a] # 0 /\ Rem(h, slot_size) = cell[a] => h = doomed[a]
        BY <1>3, <2>1 DEF Pass
    <2>3. Rem(h, slot_size) \in Nat /\ Rem(h, slot_size') \in Nat /\ Rem(h, slot_size') >= Rem(h, slot_size)
        BY <1>2, <2>1
    <2>4. Rem(h, slot_size') >= cell[a] /\ (Rem(h, slot_size') = cell[a] => Rem(h, slot_size) = cell[a])
        BY <1>1, <2>2, <2>3
    <2> QED BY <2>2, <2>4
<1>4. doomed'[a] # 0 => cell'[a] # -1
    BY DEF Pass
<1> QED BY <1>3, <1>4 DEF Pass

\* The steps of the pass itself: what it leaves behind is empty, or retired by
\* another thread after it was read.
LEMMA PassOwn ==
    ASSUME PassInv, NEW a \in Aborters,
           RetireAll(a) \/ Read(a) \/ Skip(a) \/ RetireRead(a) \/ EndPass(a)
    PROVE  Pass(a)'
<1>0. /\ HandleInv /\ TypeOK /\ Pass(a) /\ 0 \notin HandlesInTable
      /\ cell[a] \in Nat \cup {-1} /\ removed[a] \in Nat /\ doomed[a] \in 0..HandleMask
    BY DEF PassInv, HandleInv, TableInv, TypeOK, Fresh
<1>1. \A h \in HandlesInTable : Rem(h, slot_size) \in Nat
    BY <1>0, InItsCell
<1>2. CASE RetireAll(a)
    <2>1. cell'[a] = 0 /\ doomed'[a] = 0 /\ slot_size' = slot_size
        BY <1>0, <1>2 DEF RetireAll, TypeOK, Pass, table
    <2>2. HandlesInTable' = HandlesInTable
        BY <1>2, SameHandles DEF RetireAll, table, launch
    <2> QED BY <1>1, <2>1, <2>2 DEF Pass
<1>3. CASE Read(a)
    <2>1. /\ cell'[a] = cell[a] /\ doomed'[a] = Seen(a) /\ Seen(a) # 0 /\ slot_size' = slot_size
          /\ removed' = removed /\ before' = before /\ cell[a] \in Cells(slot_size)
        BY <1>0, <1>3 DEF Read, TypeOK, table, Cells
    <2>2. HandlesInTable' = HandlesInTable
        BY <1>3, SameHandles DEF Read, table, launch
    <2>3. \A h \in HandlesInTable : Rem(h, slot_size) = cell[a] => h = Seen(a)
        BY <1>0, InItsCell DEF Seen
    <2>4. cell[a] # -1
        BY <2>1 DEF Cells
    <2> QED BY <1>0, <2>1, <2>2, <2>3, <2>4 DEF Pass
<1>4. CASE Skip(a)
    <2>1. /\ cell'[a] = cell[a] + 1 /\ doomed'[a] = 0 /\ Seen(a) = 0 /\ slot_size' = slot_size
          /\ removed' = removed /\ before' = before /\ cell[a] \in Cells(slot_size)
        BY <1>0, <1>4 DEF Skip, TypeOK, table, Cells
    <2>2. HandlesInTable' = HandlesInTable
        BY <1>4, SameHandles DEF Skip, table, launch
    <2>3. \A h \in HandlesInTable : Rem(h, slot_size) # cell[a]
        BY <1>0, <2>1, InItsCell DEF Seen
    <2>4. cell[a] # -1 /\ cell[a] \in Nat
        BY <2>1 DEF Cells
    <2>5. ASSUME removed[a] = 0, NEW h \in before[a] \cap HandlesInTable PROVE Rem(h, slot_size) >= cell[a] + 1
        <3>1. Rem(h, slot_size) >= cell[a] /\ Rem(h, slot_size) # cell[a] /\ Rem(h, slot_size) \in Nat
            BY <1>0, <1>1, <2>3, <2>4, <2>5 DEF Pass
        <3> QED BY <2>4, <3>1
    <2> QED BY <2>1, <2>2, <2>5 DEF Pass
<1>5. CASE RetireRead(a)
    <2>1. /\ cell'[a] = cell[a] + 1 /\ doomed'[a] = 0 /\ slot_size' = slot_size /\ doomed[a] # 0
          /\ before' = before /\ RetireEffect(doomed[a])
          /\ removed'[a] = IF Lookup(doomed[a]) # NULL THEN removed[a] + 1 ELSE removed[a]
        BY <1>0, <1>5 DEF RetireRead, TypeOK
    <2>2. HandlesInTable' \subseteq HandlesInTable
        BY <1>0, <1>5, RetireHandles DEF RetireRead, launch
    <2>3. cell[a] # -1 /\ cell[a] \in Nat
        BY <1>0, <2>1 DEF Pass
    <2>4. ASSUME removed'[a] = 0, NEW h \in before[a] \cap HandlesInTable PROVE Rem(h, slot_size) >= cell[a] + 1
        <3>1. removed[a] = 0 /\ Lookup(doomed[a]) = NULL
            BY <1>0, <2>1, <2>4
        <3>2. /\ Rem(h, slot_size) >= cell[a] /\ Rem(h, slot_size) \in Nat
              /\ Rem(h, slot_size) = cell[a] => h = doomed[a]
            BY <1>0, <1>1, <2>1, <2>3, <3>1 DEF Pass
        <3>3. h # doomed[a]
            BY <1>0, <3>1, InItsCell
        <3> QED BY <2>3, <3>2, <3>3
    <2> QED BY <2>1, <2>2, <2>4 DEF Pass
<1>6. CASE EndPass(a)
    <2>1. /\ cell'[a] = (IF removed[a] = 0 THEN -1 ELSE 0) /\ doomed'[a] = 0 /\ slot_size' = slot_size
        BY <1>0, <1>6 DEF EndPass, TypeOK, table
    <2>2. HandlesInTable' = HandlesInTable
        BY <1>6, SameHandles DEF EndPass, table, launch
    <2> QED BY <1>1, <2>1, <2>2 DEF Pass
<1> QED BY <1>2, <1>3, <1>4, <1>5, <1>6

\* Every step that does not wrap the counter keeps the invariant.
LEMMA PassStep ==
    ASSUME PassInv, OneLauncher, [Next]_vars,
           [registered' # registered => handle_index' > handle_index]_vars
    PROVE  PassInv'
<1>0. /\ HandleInv /\ Fresh /\ TypeOK /\ InTable \subseteq Contexts /\ KnownHandles \subseteq 0..HandleMask
      /\ \A a \in Aborters : Pass(a)
    <2>1. HandleInv /\ Fresh /\ TypeOK /\ \A a \in Aborters : Pass(a)
        BY DEF PassInv, HandleInv, TableInv
    <2>2. handle \in [Contexts -> 0..HandleMask]
        BY <2>1, Types
    <2> QED BY <2>1, <2>2, TableTypes DEF KnownHandles
<1>1. HandleInv'
    BY <1>0, HandleStep
<1>2. \A h \in HandlesInTable : Rem(h, slot_size) \in Nat
    BY <1>0, InItsCell
<1>3. ASSUME UNCHANGED abort, Fresh', slot_size' = slot_size,
             \A a \in Aborters : before[a] \cap HandlesInTable' \subseteq HandlesInTable
      PROVE  PassInv'
    <2>1. \A a \in Aborters : /\ cell'[a] = cell[a] /\ doomed'[a] = doomed[a]
                            /\ removed'[a] = removed[a] /\ before'[a] = before[a]
        BY <1>3 DEF abort
    <2>2. \A h \in HandlesInTable : Rem(h, slot_size') \in Nat /\ Rem(h, slot_size') >= Rem(h, slot_size)
        BY <1>2, <1>3
    <2>3. \A a \in Aborters : Pass(a)'
        BY <1>0, <1>3, <2>1, <2>2, PassKept
    <2> QED BY <1>1, <1>3, <2>3 DEF PassInv
<1>4. ASSUME NEW a \in Aborters,
             RetireAll(a) \/ Read(a) \/ Skip(a) \/ RetireRead(a) \/ EndPass(a)
      PROVE  PassInv'
    <2>1. HandlesInTable' \subseteq HandlesInTable
        <3>1. CASE RetireRead(a)
            <4>1. doomed[a] \in 0..HandleMask
                BY <1>0 DEF TypeOK
            <4> QED BY <1>0, <3>1, <4>1, RetireHandles DEF RetireRead, launch
        <3>2. CASE RetireAll(a) \/ Read(a) \/ Skip(a) \/ EndPass(a)
            BY <3>2, SameHandles DEF RetireAll, Read, Skip, EndPass, table, launch
        <3> QED BY <1>4, <3>1, <3>2
    <2>2. UNCHANGED <<slot_size, handle, handle_index, making, given>>
        BY <1>4 DEF RetireAll, Read, Skip, RetireRead, EndPass, table, launch
    <2>3. /\ before'[a] \subseteq before[a] \cup HandlesInTable
          /\ \A b \in Aborters : b # a => /\ before'[b] = before[b] /\ cell'[b] = cell[b]
                                          /\ doomed'[b] = doomed[b] /\ removed'[b] = removed[b]
        BY <1>0, <1>4 DEF RetireAll, Read, Skip, RetireRead, EndPass, TypeOK
    <2>4. Fresh'
        BY <1>0, <2>1, <2>2, <2>3, FreshKept
    <2>5. \A h \in HandlesInTable : Rem(h, slot_size') \in Nat /\ Rem(h, slot_size') >= Rem(h, slot_size)
        BY <1>2, <2>2
    <2>6. Pass(a)'
        BY <1>4, PassOwn
    <2>7. \A b \in Aborters : b # a => Pass(b)'
        BY <1>0, <2>1, <2>3, <2>5, PassKept
    <2> QED BY <1>1, <2>4, <2>6, <2>7 DEF PassInv
<1>5. ASSUME NEW l \in Launchers, NEW c \in Contexts, Register(l, c)
      PROVE  PassInv'
    <2>1. registered' # registered /\ UNCHANGED abort
        BY <1>0, <1>5, HandleAssumption DEF Register, TypeOK
    <2>2. handle_index' > handle_index
        BY <2>1 DEF vars
    <2>3. Fresh'
        BY <1>0, <1>5, <2>2, FreshRegister
    <2>4. /\ HandlesInTable' \subseteq HandlesInTable
          /\ \A h \in HandlesInTable : Rem(h, slot_size') >= Rem(h, slot_size)
        BY <1>0, <1>5, RegisterHandles
    <2>5. \A h \in HandlesInTable : Rem(h, slot_size') \in Nat
        <3> SUFFICES ASSUME NEW h \in HandlesInTable PROVE Rem(h, slot_size') \in Nat
            OBVIOUS
        <3>1. h \in 0..HandleMask
            BY <1>0, InItsCell
        <3>2. h \in Nat /\ slot_size' \in Nat \ {0}
            BY <1>1, <3>1, SizesAre DEF HandleInv, TableInv, TypeOK
        <3> QED BY <3>2, InBlock
    <2>6. \A a \in Aborters : /\ cell'[a] = cell[a] /\ doomed'[a] = doomed[a]
                            /\ removed'[a] = removed[a] /\ before'[a] = before[a]
        BY <2>1 DEF abort
    <2>7. \A a \in Aborters : Pass(a)'
        BY <1>0, <2>4, <2>5, <2>6, PassKept
    <2> QED BY <1>1, <2>3, <2>7 DEF PassInv
<1>6. ASSUME NEW l \in Launchers, Store(l)
      PROVE  PassInv'
    <2>1. UNCHANGED abort /\ slot_size' = slot_size /\ making[l] # NULL
        BY <1>6 DEF Store, table
    <2>2. Fresh'
        BY <1>0, <1>6, FreshStore
    <2>3. \A a \in Aborters : given[l] \notin before[a]
        BY <1>0, <2>1 DEF Fresh
    <2>4. HandlesInTable' \subseteq HandlesInTable \cup {given[l]}
        BY <1>0, <1>6, StoreHandles
    <2> QED BY <1>3, <2>1, <2>2, <2>3, <2>4
<1>7. ASSUME NEW h \in KnownHandles, Retire(h)
      PROVE  PassInv'
    <2>1. /\ UNCHANGED abort /\ RetireEffect(h)
          /\ UNCHANGED <<slot_size, handle, handle_index, making, given>>
        BY <1>7 DEF Retire, launch
    <2>2. HandlesInTable' \subseteq HandlesInTable
        BY <1>0, <2>1, RetireHandles
    <2>3. Fresh'
        BY <1>0, <2>1, <2>2, FreshKept DEF abort
    <2> QED BY <1>3, <2>1, <2>2, <2>3
<1>8. ASSUME UNCHANGED <<table, handle, launch, abort>>
      PROVE  PassInv'
    <2>1. HandlesInTable' = HandlesInTable
        BY <1>8, SameHandles DEF table, launch
    <2>2. Fresh'
        BY <1>0, <1>8, <2>1, FreshKept DEF table, launch, abort
    <2> QED BY <1>3, <1>8, <2>1, <2>2 DEF table
<1>9. CASE UNCHANGED vars
    BY <1>8, <1>9 DEF vars
<1>10. ASSUME NEW h \in KnownHandles, NEW n \in Names, NameHandle(h, n) PROVE PassInv'
    BY <1>8, <1>10 DEF NameHandle
<1> QED BY <1>4, <1>5, <1>6, <1>7, <1>9, <1>10 DEF Next

\* When skynet_handle_retireall returns, every service that was in the table
\* when its last pass began is gone, whatever is registered, retired or
\* rehashed while the pass is under way: with one creating thread, in every
\* behaviour in which the handle counter does not wrap.
THEOREM RetireAllDone ==
    ASSUME OneLauncher
    PROVE  Spec /\ NoWrap => RetireAllComplete
<1>1. ASSUME Init PROVE PassInv
    <2>0. HandleInv
        <3>1. \A i \in Cells(slot_size) : slot[i] = NULL
            BY <1>1 DEF Init, Cells
        <3>2. InPlace /\ NoClash
            BY <1>1, <3>1 DEF InPlace, NoClash, Init
        <3> QED BY <1>1, <3>2, TableInit DEF HandleInv
    <2>1. InTable = {}
        BY <1>1 DEF Init, InTable
    <2>2. HandlesInTable = {}
        BY <2>1 DEF HandlesInTable
    <2>3. Fresh
        BY <1>1, <2>2 DEF Init, Fresh
    <2>4. \A a \in Aborters : Pass(a)
        BY <1>1 DEF Init, Pass
    <2> QED BY <2>0, <2>3, <2>4 DEF PassInv
<1>2. ASSUME PassInv, [Next]_vars, [registered' # registered => handle_index' > handle_index]_vars
      PROVE  PassInv'
    BY <1>2, PassStep
<1>3. ASSUME PassInv, [Next]_vars
      PROVE  [\A a \in Aborters :
                 cell[a] # -1 /\ cell'[a] = -1 => before[a] \cap HandlesInTable' = {}]_vars
    <2> SUFFICES ASSUME NEW a \in Aborters, cell[a] # -1, cell'[a] = -1, NEW h \in before[a] \cap HandlesInTable'
                 PROVE  FALSE
        OBVIOUS
    <2>0. HandleInv /\ TypeOK /\ Pass(a) /\ cell[a] \in Nat
        BY <1>3 DEF PassInv, HandleInv, TableInv, TypeOK
    <2>1. EndPass(a) /\ removed[a] = 0
        <3>1. cell' # cell
            OBVIOUS
        <3>2. PICK b \in Aborters : RetireAll(b) \/ Skip(b) \/ RetireRead(b) \/ EndPass(b)
            BY <1>3, <3>1 DEF Next, vars, abort, Store, Register, Read, Retire, NameHandle
        <3>3. b = a
            BY <2>0, <3>2 DEF RetireAll, Skip, RetireRead, EndPass, TypeOK
        <3>4. ~RetireAll(a) /\ ~Skip(a) /\ ~RetireRead(a)
            BY <2>0 DEF RetireAll, Skip, RetireRead, TypeOK
        <3> QED BY <2>0, <3>2, <3>3, <3>4 DEF EndPass, TypeOK
    <2>2. HandlesInTable' = HandlesInTable
        BY <2>1, SameHandles DEF EndPass, table, launch
    <2>3. Rem(h, slot_size) >= cell[a]
        BY <2>0, <2>1, <2>2 DEF Pass
    <2>4. Rem(h, slot_size) \in Cells(slot_size)
        BY <2>0, <2>2, InItsCell
    <2>5. cell[a] >= slot_size /\ slot_size \in Nat
        BY <2>0, <2>1, Types DEF EndPass
    <2> QED BY <2>0, <2>3, <2>4, <2>5 DEF Cells
<1> QED BY <1>1, <1>2, <1>3, PTL DEF Spec, NoWrap, RetireAllComplete

-----------------------------------------------------------------------------
(* The lock of the table.  LockInv is its inductive invariant: `read` is the *)
(* number of announced readers, `write` is set exactly while one writer has  *)
(* claimed it, and a thread in a write section has seen every announced      *)
(* reader leave.                                                             *)

\* The announced readers form a finite set, so their number is a natural.
LEMMA AnnouncedFinite ==
    /\ IsFiniteSet(Announced)
    /\ Cardinality(Announced) \in Nat
<1>1. Announced \in SUBSET Threads
    BY DEF Announced
<1>2. IsFiniteSet(Announced)
    BY <1>1, ThreadsAssumption, FS_Subset
<1> QED
    BY <1>2, FS_CardinalityType

\* A step that announces one more reader adds one to the count.
LEMMA CountUp ==
    ASSUME NEW t \in Threads, t \notin Announced,
           Announced' = Announced \cup {t}, ReadCounts, read' = read + 1
    PROVE  ReadCounts'
BY AnnouncedFinite, FS_AddElement DEF ReadCounts

\* A step that withdraws one reader takes one from the count, which was
\* therefore positive.
LEMMA CountDown ==
    ASSUME NEW t \in Threads, t \in Announced,
           Announced' = Announced \ {t}, ReadCounts, read' = read - 1
    PROVE  ReadCounts' /\ read' \in Nat
<1>1. IsFiniteSet(Announced \ {t}) /\ Cardinality(Announced \ {t}) = Cardinality(Announced) - 1
    BY AnnouncedFinite, FS_RemoveElement
<1>2. Cardinality(Announced \ {t}) \in Nat
    BY <1>1, FS_CardinalityType
<1> QED
    BY <1>1, <1>2 DEF ReadCounts

\* Initially nobody is announced and nobody has claimed the flag.
LEMMA InitLockInv == LockInit => LockInv
<1> SUFFICES ASSUME LockInit PROVE LockInv
    OBVIOUS
<1>1. Announced = {} /\ Claimed = {}
    BY DEF LockInit, Announced, Claimed
<1>2. ReadCounts
    BY <1>1, FS_EmptySet DEF LockInit, ReadCounts
<1>3. LockTypeOK /\ NoOldReader
    BY DEF LockInit, LockTypeOK, PCs, NoOldReader
<1>4. OneClaim
    BY <1>1 DEF LockInit, OneClaim
<1> QED
    BY <1>2, <1>3, <1>4 DEF LockInv

\* Every step of a thread preserves the invariant.
LEMMA NextLockInv == LockInv /\ [LockNext]_lockVars => LockInv'
<1> SUFFICES ASSUME LockInv, [LockNext]_lockVars PROVE LockInv'
    OBVIOUS
<1> USE DEF LockInv
<1>1. ASSUME NEW t \in Threads, StartRead(t) \/ ReadSpin(t) \/ StartWrite(t)
      PROVE  LockInv'
    <2>1. Announced' = Announced /\ Claimed' = Claimed
        BY <1>1 DEF StartRead, ReadSpin, StartWrite, Goto, LockTypeOK, Announced, Claimed
    <2>2. LockTypeOK' /\ NoOldReader'
        BY <1>1 DEF StartRead, ReadSpin, StartWrite, Goto, LockTypeOK, PCs, ReaderPCs, WriterPCs, NoOldReader
    <2>3. ReadCounts' /\ OneClaim'
        BY <1>1, <2>1 DEF StartRead, ReadSpin, StartWrite, ReadCounts, OneClaim
    <2> QED BY <2>2, <2>3
<1>2. ASSUME NEW t \in Threads, ReadAnnounce(t)
      PROVE  LockInv'
    <2>1. t \notin Announced /\ Announced' = Announced \cup {t} /\ Claimed' = Claimed
        BY <1>2 DEF ReadAnnounce, Goto, LockTypeOK, Announced, Claimed
    <2>2. LockTypeOK' /\ NoOldReader'
        BY <1>2 DEF ReadAnnounce, Goto, LockTypeOK, PCs, ReaderPCs, NoOldReader
    <2>3. ReadCounts'
        BY <1>2, <2>1, CountUp DEF ReadAnnounce
    <2>4. OneClaim'
        BY <1>2, <2>1 DEF ReadAnnounce, OneClaim
    <2> QED BY <2>2, <2>3, <2>4
<1>3. ASSUME NEW t \in Threads, ReadRecheck(t)
      PROVE  LockInv'
    <2>1. Announced' = Announced /\ Claimed' = Claimed
        BY <1>3 DEF ReadRecheck, Goto, LockTypeOK, Announced, Claimed
    <2>2. LockTypeOK'
        BY <1>3 DEF ReadRecheck, Goto, LockTypeOK, PCs, ReaderPCs
    <2>3. write = 0 => \A u \in Threads : pc[u] # "writing"
        BY DEF OneClaim, Claimed
    <2>4. NoOldReader'
        BY <1>3, <2>3 DEF ReadRecheck, Goto, LockTypeOK, NoOldReader
    <2>5. ReadCounts' /\ OneClaim'
        BY <1>3, <2>1 DEF ReadRecheck, ReadCounts, OneClaim
    <2> QED BY <2>2, <2>4, <2>5
<1>4. ASSUME NEW t \in Threads, ReadBackoff(t) \/ RUnlock(t)
      PROVE  LockInv'
    <2>1. t \in Announced /\ Announced' = Announced \ {t} /\ Claimed' = Claimed
        BY <1>4 DEF ReadBackoff, RUnlock, Goto, LockTypeOK, Announced, Claimed
    <2>2. ReadCounts' /\ read' \in Nat
        BY <1>4, <2>1, CountDown DEF ReadBackoff, RUnlock
    <2>3. LockTypeOK' /\ NoOldReader'
        BY <1>4, <2>2 DEF ReadBackoff, RUnlock, Goto, LockTypeOK, PCs, ReaderPCs, NoOldReader
    <2>4. OneClaim'
        BY <1>4, <2>1 DEF ReadBackoff, RUnlock, OneClaim
    <2> QED BY <2>2, <2>3, <2>4
<1>5. ASSUME NEW t \in Threads, WriteClaim(t)
      PROVE  LockInv'
    <2>1. Announced' = Announced /\ Claimed' = Claimed \cup {t}
        BY <1>5 DEF WriteClaim, Goto, LockTypeOK, Announced, Claimed
    <2>2. LockTypeOK' /\ NoOldReader'
        BY <1>5 DEF WriteClaim, Goto, LockTypeOK, PCs, WriterPCs, NoOldReader
    <2>3. ReadCounts'
        BY <1>5, <2>1 DEF WriteClaim, ReadCounts
    <2>4. Claimed = {}
        BY <1>5 DEF WriteClaim, OneClaim
    <2>5. OneClaim'
        BY <1>5, <2>1, <2>4 DEF WriteClaim, OneClaim
    <2> QED BY <2>2, <2>3, <2>5
<1>6. ASSUME NEW t \in Threads, WriteDrain(t)
      PROVE  LockInv'
    <2>1. Announced' = Announced /\ Claimed' = Claimed
        BY <1>6 DEF WriteDrain, Goto, LockTypeOK, Announced, Claimed
    <2>2. Announced = {}
        BY <1>6, AnnouncedFinite, FS_EmptySet DEF WriteDrain, ReadCounts
    <2>3. \A u \in Threads : pc[u] # "reading"
        BY <2>2 DEF Announced
    <2>4. LockTypeOK' /\ NoOldReader'
        BY <1>6, <2>3 DEF WriteDrain, Goto, LockTypeOK, PCs, WriterPCs, NoOldReader
    <2>5. ReadCounts' /\ OneClaim'
        BY <1>6, <2>1 DEF WriteDrain, ReadCounts, OneClaim
    <2> QED BY <2>4, <2>5
<1>7. ASSUME NEW t \in Threads, WUnlock(t)
      PROVE  LockInv'
    <2>1. Announced' = Announced /\ t \in Claimed /\ Claimed' = Claimed \ {t}
        BY <1>7 DEF WUnlock, Goto, LockTypeOK, Announced, Claimed
    <2>2. Claimed' = {}
        BY <2>1 DEF OneClaim
    <2>3. LockTypeOK' /\ NoOldReader'
        BY <1>7 DEF WUnlock, Goto, LockTypeOK, PCs, WriterPCs, NoOldReader
    <2>4. ReadCounts' /\ OneClaim'
        BY <1>7, <2>1, <2>2 DEF WUnlock, ReadCounts, OneClaim
    <2> QED BY <2>3, <2>4
<1>8. CASE UNCHANGED lockVars
    <2>1. Announced' = Announced /\ Claimed' = Claimed
        BY <1>8 DEF lockVars, Announced, Claimed
    <2> QED
        BY <1>8, <2>1 DEF lockVars, LockTypeOK, ReadCounts, OneClaim, NoOldReader
<1> QED
    BY <1>1, <1>2, <1>3, <1>4, <1>5, <1>6, <1>7, <1>8 DEF LockNext, Reader, Writer

\* LockInv holds in every reachable state of the lock.
THEOREM LockInvariance == LockSpec => []LockInv
BY InitLockInv, NextLockInv, PTL DEF LockSpec

\* The write sections of the handle storage exclude one another and every
\* read section, whatever the number of threads: rwlock_wlock returns only
\* when no thread is between rwlock_rlock and rwlock_runlock.
THEOREM MutualExclusion == LockSpec => []Exclusion
<1>1. LockInv => Exclusion
    BY DEF LockInv, OneClaim, Claimed, NoOldReader, Exclusion
<1> QED
    BY <1>1, LockInvariance, PTL

=============================================================================

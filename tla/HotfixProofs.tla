---------------------------- MODULE HotfixProofs ----------------------------
(***************************************************************************)
(* Proofs about the object hotfix of module Hotfix, for every set of       *)
(* modules, objects and methods, every inheritance chain and every number  *)
(* of versions: no handler is ever an old function (HandlersCurrent), and  *)
(* when the loop over all modules ends its objects run what it has loaded  *)
(* (LoadedIsRun).                                                          *)
(*                                                                         *)
(* HandlersCurrent needs to know that the loop only comes to modules whose *)
(* list exists.  LoadedIsRun is about the end of a loop of many steps, and *)
(* follows from what holds after every turn of it (PassInv): a module that *)
(* was visited is loaded, stays the version it was loaded as, and its      *)
(* objects answer its methods with that version, or with a version of      *)
(* another visited module that defines the method too, or not at all.      *)
(***************************************************************************)
EXTENDS Hotfix, FiniteSetTheorems, SequenceTheorems, TLAPS

\* The version of m that is loaded.
Ver(m) == IF loaded[m] = Nil THEN 1 ELSE loaded[m][1][2]

\* The modules the loop has been to.
Visited == Listed \ (todo \cup skipped)

\* The functions object o may answer k with once the loop has been to mods.
Right(o, k, mods) == Latest(o, k, mods, [m \in Modules |-> Ver(m)])

\* What holds in the loop over all modules, between two turns.
PassInv ==
    /\ todo \subseteq Listed
    /\ todo \cap skipped = {}
    /\ ~running => skipped = {}
    /\ running =>
        /\ \A m \in Visited : loaded[m] # Nil
        /\ \A o \in Live, k \in Methods :
               Right(o, k, Visited) # {} => Resolve(o, k) \in Right(o, k, Visited) \cup {Nil}

\* The inductive invariant.
HotfixInv == HandlersCurrent /\ PassInv

-----------------------------------------------------------------------------
(* require *)

\* A set of the first naturals is a beginning of 1, 2, ... when it has, with
\* each element, the smaller ones.
LEMMA Beginning ==
    ASSUME NEW L \in Nat, NEW S, S \subseteq 1..L, \A i \in S : \A j \in 1..i : j \in S
    PROVE  Cardinality(S) \in 0..L /\ S = 1..Cardinality(S)
<1> DEFINE n == Cardinality(S)
<1>1. IsFiniteSet(1..L) /\ Cardinality(1..L) = L
    BY FS_Interval
<1>2. IsFiniteSet(S) /\ n \in Nat /\ n <= L
    <2>1. S \in SUBSET (1..L)
        OBVIOUS
    <2>2. IsFiniteSet(S) /\ n <= Cardinality(1..L)
        BY <1>1, <2>1, FS_Subset
    <2>3. n \in Nat
        BY <2>2, FS_CardinalityType
    <2> QED BY <1>1, <2>2, <2>3
<1>3. ASSUME NEW i \in S PROVE i \in 1..n
    <2>1. 1..i \subseteq S /\ i \in Nat \ {0}
        BY <1>3
    <2>2. Cardinality(1..i) = i
        BY <2>1, FS_Interval
    <2>3. i <= n
        BY <1>2, <2>1, <2>2, FS_Subset
    <2> QED BY <1>2, <2>1, <2>3
<1>4. IsFiniteSet(1..n) /\ Cardinality(1..n) = n
    BY <1>2, FS_Interval
<1>5. S = 1..n
    BY <1>2, <1>3, <1>4, FS_Subset
<1> QED BY <1>2, <1>5

\* A nonempty set of them has a least element.
LEMMA Least ==
    ASSUME NEW L \in Nat, NEW S, S \subseteq 1..L, S # {}
    PROVE  \E i \in S : \A j \in S : i <= j
<1> DEFINE B == {i \in 1..L : \A j \in S : i <= j}
           m == Cardinality(B)
<1>1. B \subseteq 1..L /\ \A i \in B : \A j \in 1..i : j \in B
    OBVIOUS
<1>2. m \in 0..L /\ B = 1..m
    BY <1>1, Beginning
<1> HIDE DEF m
<1>3. PICK e \in S : TRUE
    OBVIOUS
<1>4. e \in 1..L /\ 1 \in 1..L
    BY <1>3
<1>5. 1 \in B
    BY <1>4
<1>6. m \in 1..L /\ m \in 1..m /\ m + 1 \notin 1..m
    BY <1>2, <1>5
<1>7. m \in B /\ m + 1 \notin B
    BY <1>2, <1>6
<1>8. \A j \in S : j \in 1..L /\ m <= j
    BY <1>7
<1>9. CASE m = L
    <2>1. e = m
        BY <1>4, <1>8, <1>9
    <2> QED BY <2>1, <1>8
<1>10. CASE m < L
    <2>1. m + 1 \in 1..L
        BY <1>6, <1>10
    <2>2. PICK j \in S : ~(m + 1 <= j)
        BY <1>7, <2>1
    <2>3. j = m
        BY <2>2, <1>8, <1>6
    <2> QED BY <2>3, <1>8
<1> QED BY <1>6, <1>9, <1>10

\* The class a name is found in is one of the chain, at the front.
LEMMA InClassType ==
    ASSUME NEW c \in Seq(Fn), NEW k
    PROVE  InClass(c, k) \in Fn \cup {Nil}
<1> DEFINE D == {i \in 1..Len(c) : k \in Defs[c[i][1]][c[i][2]]}
<1>1. Len(c) \in Nat /\ D \subseteq 1..Len(c)
    OBVIOUS
<1>2. CASE D = {}
    BY <1>2 DEF InClass
<1>3. CASE D # {}
    <2>1. \E i \in D : \A j \in D : i <= j
        BY <1>1, <1>3, Least
    <2> DEFINE f == CHOOSE i \in D : \A j \in D : i <= j
    <2>2. f \in D
        BY <2>1
    <2>3. f \in 1..Len(c)
        BY <2>2
    <2>4. InClass(c, k) = c[f]
        BY <1>3 DEF InClass
    <2> HIDE DEF f
    <2> QED BY <2>3, <2>4
<1> QED BY <1>2, <1>3

\* What require reads are the files at the front of the chain, up to the
\* first module that is loaded.
LEMMA ReadsFront ==
    ASSUME NEW pl, NEW m \in Modules
    PROVE  /\ Cardinality(Reads(pl, m)) \in 0..Len(Chain[m])
           /\ Reads(pl, m) = 1..Cardinality(Reads(pl, m))
           /\ \A i \in Reads(pl, m) : pl[Chain[m][i]] = Nil
           /\ Cardinality(Reads(pl, m)) < Len(Chain[m]) =>
                  pl[Chain[m][Cardinality(Reads(pl, m)) + 1]] # Nil
<1> DEFINE L == Len(Chain[m])
           S == Reads(pl, m)
           f == Cardinality(S)
<1>1. L \in Nat
    BY HotfixAssumption
<1>2. S \subseteq 1..L /\ \A i \in S : \A j \in 1..i : j \in S
    BY <1>1 DEF Reads
<1>3. f \in 0..L /\ S = 1..f
    BY <1>1, <1>2, Beginning
<1>4. \A i \in S : pl[Chain[m][i]] = Nil
    BY <1>1 DEF Reads
<1> HIDE DEF f
<1>5. ASSUME f < L, pl[Chain[m][f + 1]] = Nil PROVE FALSE
    <2>1. f + 1 \in 1..L /\ f + 1 \notin 1..f
        BY <1>1, <1>3, <1>5
    <2>2. \A j \in 1..(f + 1) : pl[Chain[m][j]] = Nil
        BY <1>1, <1>3, <1>4, <1>5
    <2>3. f + 1 \in S
        BY <2>1, <2>2 DEF Reads
    <2> QED BY <1>3, <2>1, <2>3
<1> QED BY <1>3, <1>4, <1>5 DEF f

\* The class made of the i-th file read starts with that file's version.
LEMMA ClassType ==
    ASSUME TypeOK, NEW pl \in [Modules -> Seq(Fn) \cup {Nil}], NEW m \in Modules,
           NEW i \in Reads(pl, m)
    PROVE  /\ ClassOf(pl, m, i) \in Seq(Fn)
           /\ ClassOf(pl, m, i)[1] = <<Chain[m][i], disk[Chain[m][i]].ver>>
<1> DEFINE L == Len(Chain[m])
           f == Cardinality(Reads(pl, m))
           File(j) == <<Chain[m][j], disk[Chain[m][j]].ver>>
           front == [j \in 1..(f + 1 - i) |-> File(i + j - 1)]
           back == IF f < L THEN pl[Chain[m][f + 1]] ELSE << >>
<1>1. Chain[m] \in Seq(Modules) /\ L \in Nat
    BY HotfixAssumption
<1>2. f \in 0..L /\ i \in 1..f /\ (f < L => pl[Chain[m][f + 1]] # Nil)
    BY ReadsFront
<1>3. ClassOf(pl, m, i) = front \o back
    BY DEF ClassOf
<1> HIDE DEF f
<1>4. \A j \in 1..L : Chain[m][j] \in Modules
    BY <1>1
<1>5. back \in Seq(Fn)
    <2>1. CASE f < L
        <3>1. f + 1 \in 1..L
            BY <1>1, <1>2, <2>1
        <3>2. pl[Chain[m][f + 1]] \in Seq(Fn)
            BY <1>2, <1>4, <2>1, <3>1
        <3> QED BY <2>1, <3>2
    <2>2. CASE ~(f < L)
        BY <2>2
    <2> QED BY <2>1, <2>2
<1>6. \A j \in 1..L : File(j) \in Fn
    BY <1>4 DEF TypeOK, Fn
<1>7. \A j \in 1..(f + 1 - i) : i + j - 1 \in 1..L
    BY <1>1, <1>2
<1>8. f + 1 - i \in Nat \ {0}
    BY <1>1, <1>2
<1> HIDE DEF File
<1>9. front \in Seq(Fn) /\ Len(front) = f + 1 - i
    BY <1>6, <1>7, <1>8
<1>10. front[1] = File(i)
    BY <1>8, <1>2
<1>11. (front \o back) \in Seq(Fn) /\ (front \o back)[1] = front[1]
    <2> HIDE DEF front, back
    <2> QED BY <1>5, <1>8, <1>9
<1> QED BY <1>3, <1>10, <1>11 DEF File

\* require(m) leaves what is loaded alone and loads m, from disk if it was
\* not loaded.
LEMMA Requires ==
    ASSUME TypeOK, NEW pl \in [Modules -> Seq(Fn) \cup {Nil}], NEW m \in Modules
    PROVE  /\ Require(pl, m) \in [Modules -> Seq(Fn) \cup {Nil}]
           /\ Require(pl, m)[m] \in Seq(Fn)
           /\ pl[m] = Nil => Require(pl, m)[m][1] = <<m, disk[m].ver>>
           /\ \A n \in Modules : pl[n] # Nil => Require(pl, m)[n] = pl[n]
<1> DEFINE S == Reads(pl, m)
<1>1. ASSUME NEW n \in Modules, \E i \in S : Chain[m][i] = n
      PROVE  /\ Require(pl, m)[n] \in Seq(Fn)
             /\ Require(pl, m)[n][1] = <<n, disk[n].ver>>
             /\ pl[n] = Nil
    <2> DEFINE c == CHOOSE i \in S : Chain[m][i] = n
    <2>1. c \in S /\ Chain[m][c] = n
        BY <1>1
    <2>2. Require(pl, m)[n] = ClassOf(pl, m, c)
        BY <1>1 DEF Require
    <2> HIDE DEF c
    <2>3. ClassOf(pl, m, c) \in Seq(Fn) /\ ClassOf(pl, m, c)[1] = <<n, disk[n].ver>>
        BY <2>1, ClassType
    <2>4. pl[n] = Nil
        BY <2>1, ReadsFront
    <2> QED BY <2>2, <2>3, <2>4
<1>2. \A n \in Modules : ~(\E i \in S : Chain[m][i] = n) => Require(pl, m)[n] = pl[n]
    BY DEF Require
<1>3. Require(pl, m) \in [Modules -> Seq(Fn) \cup {Nil}]
    <2>1. \A n \in Modules : Require(pl, m)[n] \in Seq(Fn) \cup {Nil}
        BY <1>1, <1>2
    <2>2. Require(pl, m) = [n \in Modules |-> Require(pl, m)[n]]
        BY DEF Require
    <2> QED BY <2>1, <2>2
<1>4. pl[m] = Nil => \E i \in S : Chain[m][i] = m
    <2>1. Len(Chain[m]) \in Nat \ {0} /\ Chain[m][1] = m
        BY HotfixAssumption
    <2>2. pl[m] = Nil => 1 \in S
        BY <2>1 DEF Reads
    <2> QED BY <2>1, <2>2
<1>5. pl[m] # Nil => pl[m] \in Seq(Fn)
    OBVIOUS
<1> QED BY <1>1, <1>2, <1>3, <1>4, <1>5

-----------------------------------------------------------------------------
(* The steps *)

\* What an object answers a name with is a function or nothing.
LEMMA LookupType ==
    ASSUME NEW fns \in [Methods -> Fn \cup {Nil}], NEW c \in Seq(Fn), NEW k \in Methods
    PROVE  Lookup(fns, c, k) \in Fn \cup {Nil}
BY InClassType DEF Lookup

\* The part of the invariant that is about one object.
Current(o) ==
    Resolve(o, Register) # Nil => bound[o] = [k \in Methods |-> Resolve(o, k)]

\* Nothing changes for an object whose class, functions and handlers stay.
LEMMA CurrentStays ==
    ASSUME NEW o \in Objects, Current(o),
           cls'[o] = cls[o], own'[o] = own[o], bound'[o] = bound[o]
    PROVE  Current(o)'
BY DEF Current, Resolve

\* Applying a loaded file to the objects of its module keeps the types, and
\* leaves every handler current.
LEMMA Applies ==
    ASSUME HandlersCurrent, NEW m \in Listed, Apply(m), UNCHANGED <<cls, list>>
    PROVE  /\ own' \in [Objects -> [Methods -> Fn \cup {Nil}]]
           /\ bound' \in [Objects -> [Methods -> Fn \cup {Nil}] \cup {Nil}]
           /\ \A o \in Live' : Current(o)'
<1>1. m \in Modules /\ list[m] \in SUBSET Objects /\ \A o \in list[m] : cls[o] \in Seq(Fn)
    <2>1. TypeOK /\ m \in Modules /\ list[m] # Nil
        BY DEF HandlersCurrent, Listed
    <2>2. list[m] \in SUBSET Objects /\ \A o \in list[m] : cls[o] # Nil
        BY <2>1 DEF TypeOK
    <2>3. \A o \in Objects : cls[o] # Nil => cls[o] \in Seq(Fn)
        BY <2>1 DEF TypeOK
    <2> QED BY <2>1, <2>2, <2>3
<1>2. <<m, disk[m].ver>> \in Fn
    BY <1>1 DEF HandlersCurrent, TypeOK, Fn
<1>3. own' = Patched(m, disk[m].ver) /\ bound' = Registered(m, own')
    BY DEF Apply
<1>4. own' \in [Objects -> [Methods -> Fn \cup {Nil}]]
    BY <1>2, <1>3 DEF Patched, HandlersCurrent, TypeOK
<1>5. ASSUME NEW o \in Objects
      PROVE  bound'[o] = IF o \in list[m] /\ Lookup(own'[o], cls[o], Register) # Nil
                         THEN [k \in Methods |-> Lookup(own'[o], cls[o], k)] ELSE bound[o]
    BY <1>3 DEF Registered
<1>6. bound' \in [Objects -> [Methods -> Fn \cup {Nil}] \cup {Nil}]
    <2>1. ASSUME NEW o \in Objects
          PROVE  bound'[o] \in [Methods -> Fn \cup {Nil}] \cup {Nil}
        <3>1. CASE o \in list[m] /\ Lookup(own'[o], cls[o], Register) # Nil
            <4>1. bound'[o] = [k \in Methods |-> Lookup(own'[o], cls[o], k)]
                BY <1>5, <3>1
            <4>2. \A k \in Methods : Lookup(own'[o], cls[o], k) \in Fn \cup {Nil}
                BY <1>1, <1>4, <3>1, LookupType
            <4> QED BY <4>1, <4>2
        <3>2. CASE ~(o \in list[m] /\ Lookup(own'[o], cls[o], Register) # Nil)
            BY <1>5, <3>2 DEF HandlersCurrent, TypeOK
        <3> QED BY <3>1, <3>2
    <2>2. bound' = [o \in Objects |-> bound'[o]]
        BY <1>3 DEF Registered
    <2> QED BY <2>1, <2>2
<1>7. ASSUME NEW o \in Live' PROVE Current(o)'
    <2>1. o \in Objects /\ o \in Live
        BY <1>7 DEF Live
    <2>2. CASE o \in list[m]
        <3>1. Resolve(o, Register)' = Lookup(own'[o], cls[o], Register)
            BY DEF Resolve
        <3>2. [k \in Methods |-> Resolve(o, k)]' = [k \in Methods |-> Lookup(own'[o], cls[o], k)]
            BY DEF Resolve
        <3> QED BY <1>5, <2>1, <2>2, <3>1, <3>2 DEF Current
    <2>3. CASE o \notin list[m]
        <3>1. own'[o] = [k \in Methods |-> own[o][k]]
            BY <1>3, <2>1, <2>3 DEF Patched
        <3>2. own'[o] = own[o]
            BY <2>1, <3>1 DEF HandlersCurrent, TypeOK
        <3>3. bound'[o] = bound[o]
            BY <1>5, <2>1, <2>3
        <3>4. Current(o)
            BY <2>1 DEF HandlersCurrent, Current
        <3> QED BY <2>1, <3>2, <3>3, <3>4, CurrentStays
    <2> QED BY <2>2, <2>3
<1> QED BY <1>4, <1>6, <1>7

\* A new object has its class's functions as handlers, and is listed.
LEMMA Creates ==
    ASSUME HandlersCurrent, NEW o \in Objects, NEW c \in Seq(Fn), New(o, c)
    PROVE  /\ list' \in [Modules -> (SUBSET Objects) \cup {Nil}]
           /\ cls' \in [Objects -> Seq(Fn) \cup {Nil}]
           /\ own' \in [Objects -> [Methods -> Fn \cup {Nil}]]
           /\ bound' \in [Objects -> [Methods -> Fn \cup {Nil}] \cup {Nil}]
           /\ \A m \in Modules : list'[m] # Nil => \A p \in list'[m] : cls'[p] # Nil
           /\ Listed \subseteq Listed'
           /\ \A p \in Live' : Current(p)'
<1> USE DEF New
<1>1. TypeOK /\ c # Nil /\ \A S \in SUBSET Objects : Nil # S
    BY HotfixAssumption DEF HandlersCurrent
<1>2. cls' \in [Objects -> Seq(Fn) \cup {Nil}] /\ cls'[o] = c
      /\ \A p \in Objects \ {o} : cls'[p] = cls[p]
    BY <1>1 DEF TypeOK
<1>3. own' \in [Objects -> [Methods -> Fn \cup {Nil}]] /\ own'[o] = NoFns
      /\ \A p \in Objects \ {o} : own'[p] = own[p]
    <2>1. NoFns \in [Methods -> Fn \cup {Nil}]
        BY DEF NoFns
    <2> QED BY <1>1, <2>1 DEF TypeOK
<1>4. PICK handed \in BOOLEAN :
           bound' = [bound EXCEPT ![o] =
                        IF InClass(c, Register) # Nil \/ handed
                        THEN [k \in Methods |-> InClass(c, k)] ELSE Nil]
    OBVIOUS
<1>5. [k \in Methods |-> InClass(c, k)] \in [Methods -> Fn \cup {Nil}]
    BY InClassType
<1>6. bound' \in [Objects -> [Methods -> Fn \cup {Nil}] \cup {Nil}]
      /\ \A p \in Objects \ {o} : bound'[p] = bound[p]
    BY <1>1, <1>4, <1>5 DEF TypeOK
<1>7. list' = Added(o, AddTo(c))
    OBVIOUS
<1>8. ASSUME NEW m \in Modules
      PROVE  /\ list'[m] \in (SUBSET Objects) \cup {Nil}
             /\ list'[m] # Nil => \A p \in list'[m] : cls'[p] # Nil
             /\ list[m] # Nil => list'[m] # Nil
    <2>1. list[m] \in (SUBSET Objects) \cup {Nil}
          /\ (list[m] # Nil => \A p \in list[m] : p \in Objects /\ cls[p] # Nil)
        <3>1. list[m] \in (SUBSET Objects) \cup {Nil}
            BY <1>1 DEF TypeOK
        <3>2. list[m] # Nil => \A p \in list[m] : cls[p] # Nil
            BY <1>1 DEF TypeOK
        <3> QED BY <3>1, <3>2
    <2>2. CASE list'[m] = list[m]
        BY <1>1, <1>2, <2>1, <2>2
    <2>3. CASE list'[m] = (IF list[m] = Nil THEN {} ELSE list[m]) \cup {o}
        BY <1>1, <1>2, <2>1, <2>3
    <2>4. list'[m] = list[m] \/ list'[m] = (IF list[m] = Nil THEN {} ELSE list[m]) \cup {o}
        BY <1>7 DEF Added
    <2> QED BY <2>2, <2>3, <2>4
<1>9. list' \in [Modules -> (SUBSET Objects) \cup {Nil}]
    <2>1. list' = [m \in Modules |-> list'[m]]
        BY <1>7 DEF Added
    <2> QED BY <1>8, <2>1
<1>10. Listed \subseteq Listed'
    BY <1>8 DEF Listed
<1>11. ASSUME NEW p \in Live' PROVE Current(p)'
    <2>1. p \in Objects
        BY <1>11 DEF Live
    <2>2. CASE p = o
        <3>1. \A k \in Methods : Lookup(own'[o], cls'[o], k) = InClass(c, k)
            BY <1>2, <1>3 DEF Lookup, NoFns
        <3>2. Register \in Methods
            BY HotfixAssumption
        <3>3. InClass(c, Register) # Nil => bound'[o] = [k \in Methods |-> InClass(c, k)]
            BY <1>1, <1>4 DEF TypeOK
        <3> QED BY <2>2, <3>1, <3>2, <3>3 DEF Current, Resolve
    <2>3. CASE p # o
        <3>1. p \in Live
            BY <1>2, <1>11, <2>1, <2>3 DEF Live
        <3>2. Current(p)
            BY <3>1 DEF HandlersCurrent, Current
        <3> QED BY <1>2, <1>3, <1>6, <2>1, <2>3, <3>2, CurrentStays
    <2> QED BY <2>2, <2>3
<1> QED BY <1>2, <1>3, <1>6, <1>8, <1>9, <1>10, <1>11

\* The functions of Right, one by one.
LEMMA InRight ==
    ASSUME NEW o, NEW k, NEW mods \in SUBSET Modules, NEW x
    PROVE  x \in Right(o, k, mods) <=>
               \E n \in mods : /\ o \in list[n] /\ k \in Defs[n][Ver(n)]
                               /\ x = <<n, Ver(n)>>
<1> DEFINE ver == [m \in Modules |-> Ver(m)]
<1>1. \A n \in mods : ver[n] = Ver(n)
    OBVIOUS
<1>2. x \in Right(o, k, mods) <=>
          \E n \in mods : o \in list[n] /\ k \in Defs[n][ver[n]] /\ x = <<n, ver[n]>>
    BY DEF Right, Latest
<1> HIDE DEF ver
<1> QED BY <1>1, <1>2

\* A turn of the loop: the module visited is loaded, none of those visited
\* before is loaded again, and the objects answer with them.
LEMMA Turn ==
    ASSUME HotfixInv, NEW m \in Modules, Visit(m)
    PROVE  PassInv'
<1> USE DEF Visit
<1>1. /\ TypeOK /\ m \in Listed /\ m \notin skipped /\ running
      /\ todo \subseteq Listed /\ todo \cap skipped = {}
      /\ \A n \in Visited : loaded[n] # Nil
      /\ \A o \in Live, k \in Methods :
             Right(o, k, Visited) # {} => Resolve(o, k) \in Right(o, k, Visited) \cup {Nil}
    BY DEF HotfixInv, HandlersCurrent, PassInv
<1>2. Listed' = Listed /\ Live' = Live /\ list' = list
    BY DEF Listed, Live
<1>3. /\ todo' \subseteq Listed' /\ todo' \cap skipped' = {}
      /\ Visited' = Visited \cup {m} /\ m \notin Visited
      /\ Visited \subseteq Modules
    BY <1>1, <1>2 DEF Visited, Listed
<1>4. Unloaded(m) \in [Modules -> Seq(Fn) \cup {Nil}] /\ Unloaded(m)[m] = Nil
      /\ \A n \in Modules \ {m} : Unloaded(m)[n] = loaded[n]
    BY <1>1 DEF Unloaded, TypeOK
<1>5. /\ loaded'[m] # Nil /\ loaded'[m][1] = <<m, disk[m].ver>>
      /\ \A n \in Modules \ {m} : loaded[n] # Nil => loaded'[n] = loaded[n]
    <2>1. Nil \notin Seq(Fn)
        BY HotfixAssumption
    <2> QED BY <1>1, <1>4, <2>1, Requires
<1>6. Ver(m)' = disk[m].ver
    BY <1>5 DEF Ver
<1>7. \A n \in Visited : Ver(n)' = Ver(n)
    BY <1>1, <1>3, <1>5 DEF Ver
<1>8. \A n \in Visited' : loaded'[n] # Nil
    BY <1>1, <1>3, <1>5
<1>9. own' = Patched(m, disk[m].ver)
    BY DEF Apply
<1>10. ASSUME NEW o \in Live, NEW k \in Methods, Right(o, k, Visited)' # {}
       PROVE  Resolve(o, k)' \in Right(o, k, Visited)' \cup {Nil}
    <2> o \in Objects
        BY DEF Live
    <2>1. ASSUME NEW x
          PROVE  x \in Right(o, k, Visited)' <=>
                     \E n \in Visited' : /\ o \in list[n] /\ k \in Defs[n][Ver(n)']
                                         /\ x = <<n, Ver(n)'>>
        BY <1>2, <1>3 DEF Right, Latest
    <2>2. own'[o][k] = IF o \in list[m] /\ k \in Defs[m][disk[m].ver] /\ Resolve(o, k) # Nil
                       THEN <<m, disk[m].ver>> ELSE own[o][k]
        BY <1>9 DEF Patched
    <2>3. CASE o \in list[m] /\ k \in Defs[m][disk[m].ver] /\ Resolve(o, k) # Nil
        <3>1. <<m, disk[m].ver>> \in Fn /\ Nil \notin Fn
            BY <1>1, HotfixAssumption DEF TypeOK, Fn
        <3>2. Resolve(o, k)' = <<m, disk[m].ver>>
            BY <2>2, <2>3, <3>1 DEF Resolve, Lookup
        <3> QED BY <1>3, <1>6, <2>1, <2>3, <3>2
    <2>4. CASE ~(o \in list[m] /\ k \in Defs[m][disk[m].ver] /\ Resolve(o, k) # Nil)
        <3>1. Resolve(o, k)' = Resolve(o, k)
            BY <2>2, <2>4 DEF Resolve, Lookup
        <3>2. CASE Resolve(o, k) = Nil
            BY <3>1, <3>2
        <3>3. CASE Resolve(o, k) # Nil
            <4>1. \A n \in Visited' : o \in list[n] /\ k \in Defs[n][Ver(n)'] => n \in Visited
                BY <1>3, <1>6, <2>4, <3>3
            <4>2. \A x : x \in Right(o, k, Visited) <=>
                     \E n \in Visited : /\ o \in list[n] /\ k \in Defs[n][Ver(n)]
                                        /\ x = <<n, Ver(n)>>
                BY <1>3, InRight
            <4>3. \A x : x \in Right(o, k, Visited)' <=> x \in Right(o, k, Visited)
                BY <1>3, <1>7, <2>1, <4>1, <4>2
            <4>4. Right(o, k, Visited) # {}
                BY <1>10, <4>3
            <4> QED BY <1>1, <3>1, <4>3, <4>4
        <3> QED BY <3>2, <3>3
    <2> QED BY <2>3, <2>4
<1> QED BY <1>1, <1>2, <1>3, <1>8, <1>10 DEF PassInv

\* The invariant, with Current as its part about one object.
LEMMA HandlersAre == HandlersCurrent <=> (TypeOK /\ \A o \in Live : Current(o))
BY DEF HandlersCurrent, Current

\* The same in the next state.
LEMMA HandlersAreNext ==
    ASSUME TypeOK', \A o \in Live' : Current(o)' PROVE HandlersCurrent'
BY DEF HandlersCurrent, Current

\* A step that leaves the objects and the loop alone and keeps the types.
LEMMA ObjectsStay ==
    ASSUME HotfixInv, UNCHANGED <<list, cls, own, bound, todo, running, skipped>>,
           TypeOK', running => UNCHANGED loaded
    PROVE  HotfixInv'
<1>1. \A o \in Live' : Current(o)'
    BY HandlersAre DEF HotfixInv, Live, Current, Resolve
<1>2. HandlersCurrent'
    BY <1>1, HandlersAreNext
<1>3. PassInv
    BY DEF HotfixInv
<1>4. Listed' = Listed /\ Visited' = Visited /\ Live' = Live
    BY DEF Listed, Visited, Live
<1>5. ASSUME running PROVE
        /\ \A m \in Visited' : loaded'[m] # Nil
        /\ \A o \in Live', k \in Methods :
              Right(o, k, Visited)' # {} =>
                  Resolve(o, k)' \in Right(o, k, Visited)' \cup {Nil}
    <2>1. loaded' = loaded
        BY <1>5
    <2>2. \A o, k : Right(o, k, Visited)' = Right(o, k, Visited) /\ Resolve(o, k)' = Resolve(o, k)
        BY <1>4, <2>1 DEF Right, Latest, Ver, Resolve
    <2> QED BY <1>3, <1>4, <1>5, <2>1, <2>2 DEF PassInv
<1>6. PassInv'
    BY <1>3, <1>4, <1>5 DEF PassInv
<1> QED BY <1>2, <1>6 DEF HotfixInv

\* Unloading a module keeps the type of package.loaded.
LEMMA UnloadedType ==
    ASSUME TypeOK, NEW m \in Modules
    PROVE  Unloaded(m) \in [Modules -> Seq(Fn) \cup {Nil}]
BY DEF TypeOK, Unloaded

\* Saving a file.
LEMMA EditStep ==
    ASSUME HotfixInv, NEW m \in Modules, Edit(m) PROVE HotfixInv'
<1> USE DEF Edit
<1>1. TypeOK
    BY DEF HotfixInv, HandlersCurrent
<1>2. disk' \in [Modules -> [ver : 1..MaxVer, ok : BOOLEAN]]
    <2>1. PICK good \in {TRUE, ~Broken} :
              disk' = [disk EXCEPT ![m] = [ver |-> disk[m].ver + 1, ok |-> good]]
        OBVIOUS
    <2>2. good \in BOOLEAN
        BY HotfixAssumption
    <2>3. disk[m].ver + 1 \in 1..MaxVer
        BY <1>1, HotfixAssumption DEF TypeOK
    <2> QED BY <1>1, <2>1, <2>2, <2>3 DEF TypeOK
<1>3. TypeOK'
    BY <1>1, <1>2 DEF TypeOK
<1> QED BY <1>3, ObjectsStay

\* Hotfixing one file, with or without objects, and failing to.
LEMMA OneStep ==
    ASSUME HotfixInv, NEW m \in Modules, HotfixOne(m) \/ HotfixOneFails(m)
    PROVE  HotfixInv'
<1>1. TypeOK /\ HandlersCurrent /\ PassInv /\ ~running
    BY DEF HotfixInv, HandlersCurrent, HotfixOne, HotfixOneFails
<1>2. Unloaded(m) \in [Modules -> Seq(Fn) \cup {Nil}]
    BY <1>1, UnloadedType
<1>3. Require(Unloaded(m), m) \in [Modules -> Seq(Fn) \cup {Nil}]
    BY <1>1, <1>2, Requires
<1>4. loaded' \in [Modules -> Seq(Fn) \cup {Nil}]
    BY <1>2, <1>3 DEF HotfixOne, HotfixOneFails
<1>5. CASE UNCHANGED <<own, bound>>
    <2>1. UNCHANGED <<disk, open, list, cls, own, bound, todo, running, edited, skipped>>
        BY <1>5 DEF HotfixOne, HotfixOneFails
    <2>2. TypeOK'
        BY <1>1, <1>4, <2>1 DEF TypeOK
    <2> QED BY <1>1, <2>1, <2>2, ObjectsStay
<1>6. CASE m \in Listed /\ Apply(m) /\ HotfixOne(m)
    <2>1. UNCHANGED <<disk, open, list, cls, todo, running, edited, skipped>>
        BY <1>6 DEF HotfixOne
    <2>2. /\ own' \in [Objects -> [Methods -> Fn \cup {Nil}]]
          /\ bound' \in [Objects -> [Methods -> Fn \cup {Nil}] \cup {Nil}]
          /\ \A o \in Live' : Current(o)'
        BY <1>1, <1>6, <2>1, Applies
    <2>3. TypeOK'
        BY <1>1, <1>4, <2>1, <2>2 DEF TypeOK
    <2>4. PassInv'
        BY <1>1, <2>1 DEF PassInv, Listed
    <2> QED BY <2>2, <2>3, <2>4, HandlersAreNext DEF HotfixInv
<1> QED BY <1>5, <1>6 DEF HotfixOne, HotfixOneFails

\* Making an object.
LEMMA NewStep ==
    ASSUME HotfixInv, NEW o \in Objects, NEW m \in Modules,
           NewFromLocal(o, m) \/ NewFromImport(o, m)
    PROVE  HotfixInv'
<1>1. TypeOK /\ HandlersCurrent /\ PassInv /\ ~running
    BY DEF HotfixInv, HandlersCurrent, NewFromLocal, NewFromImport
<1>2. FirstClass(m) \in Seq(Fn)
    <2>1. Chain[m] \in Seq(Modules) /\ 1 \in 1..MaxVer
        BY HotfixAssumption
    <2>2. \A j \in 1..Len(Chain[m]) : <<Chain[m][j], 1>> \in Fn
        BY <2>1 DEF Fn
    <2>3. Len(Chain[m]) \in Nat
        BY <2>1
    <2> QED BY <2>2, <2>3 DEF FirstClass
<1>3. loaded \in [Modules -> Seq(Fn) \cup {Nil}]
    BY <1>1 DEF TypeOK
<1>4. /\ Require(loaded, m) \in [Modules -> Seq(Fn) \cup {Nil}]
      /\ Require(loaded, m)[m] \in Seq(Fn)
    BY <1>1, <1>3, Requires
<1>5. PICK c \in Seq(Fn) : New(o, c)
    <2>1. CASE NewFromLocal(o, m)
        BY <1>2, <2>1 DEF NewFromLocal
    <2>2. CASE NewFromImport(o, m)
        <3>1. loaded'[m] \in Seq(Fn) /\ New(o, loaded'[m])
            BY <1>4, <2>2 DEF NewFromImport
        <3> QED BY <3>1
    <2> QED BY <2>1, <2>2
<1>6. loaded' \in [Modules -> Seq(Fn) \cup {Nil}]
    BY <1>3, <1>4 DEF NewFromLocal, NewFromImport
<1>7. UNCHANGED <<disk, open, todo, running, edited, skipped>>
    BY DEF NewFromLocal, NewFromImport
<1>8. /\ list' \in [Modules -> (SUBSET Objects) \cup {Nil}]
      /\ cls' \in [Objects -> Seq(Fn) \cup {Nil}]
      /\ own' \in [Objects -> [Methods -> Fn \cup {Nil}]]
      /\ bound' \in [Objects -> [Methods -> Fn \cup {Nil}] \cup {Nil}]
      /\ \A n \in Modules : list'[n] # Nil => \A p \in list'[n] : cls'[p] # Nil
      /\ Listed \subseteq Listed'
      /\ \A p \in Live' : Current(p)'
    BY <1>1, <1>5, Creates
<1>9. TypeOK'
    BY <1>1, <1>6, <1>7, <1>8 DEF TypeOK
<1>10. PassInv'
    BY <1>1, <1>7, <1>8 DEF PassInv
<1> QED BY <1>8, <1>9, <1>10, HandlersAreNext DEF HotfixInv

\* Collecting an object.
LEMMA CollectStep ==
    ASSUME HotfixInv, NEW o \in Objects, Collect(o) PROVE HotfixInv'
<1> USE DEF Collect
<1>1. TypeOK /\ PassInv /\ ~running /\ \A S \in SUBSET Objects : Nil # S
    BY HotfixAssumption DEF HotfixInv, HandlersCurrent
<1>2. cls' \in [Objects -> Seq(Fn) \cup {Nil}] /\ cls'[o] = Nil
      /\ \A p \in Objects \ {o} : cls'[p] = cls[p]
    BY <1>1 DEF TypeOK
<1>3. own' \in [Objects -> [Methods -> Fn \cup {Nil}]]
      /\ \A p \in Objects \ {o} : own'[p] = own[p]
    <2>1. NoFns \in [Methods -> Fn \cup {Nil}]
        BY DEF NoFns
    <2> QED BY <1>1, <2>1 DEF TypeOK
<1>4. ASSUME NEW m \in Modules
      PROVE  /\ list'[m] \in (SUBSET Objects) \cup {Nil}
             /\ list'[m] # Nil => \A p \in list'[m] : cls'[p] # Nil
             /\ list[m] # Nil => list'[m] # Nil
    <2>1. list[m] \in (SUBSET Objects) \cup {Nil}
        BY <1>1 DEF TypeOK
    <2>2. list[m] # Nil => \A p \in list[m] : cls[p] # Nil
        BY <1>1 DEF TypeOK
    <2>3. list'[m] = IF list[m] = Nil THEN Nil ELSE list[m] \ {o}
        OBVIOUS
    <2> QED BY <1>1, <1>2, <2>1, <2>2, <2>3
<1>5. list' \in [Modules -> (SUBSET Objects) \cup {Nil}] /\ Listed \subseteq Listed'
    <2>1. list' = [m \in Modules |-> list'[m]]
        OBVIOUS
    <2> QED BY <1>4, <2>1 DEF Listed
<1>6. TypeOK'
    BY <1>1, <1>2, <1>3, <1>4, <1>5 DEF TypeOK
<1>7. ASSUME NEW p \in Live' PROVE Current(p)'
    <2>1. p \in Objects /\ p # o /\ p \in Live
        BY <1>2, <1>7 DEF Live
    <2>2. Current(p)
        BY <2>1, HandlersAre DEF HotfixInv
    <2> QED BY <1>2, <1>3, <2>1, <2>2, CurrentStays
<1>8. PassInv'
    BY <1>1, <1>5 DEF PassInv
<1> QED BY <1>6, <1>7, <1>8, HandlersAreNext DEF HotfixInv

\* The loop over all modules.
LEMMA PassStep ==
    ASSUME HotfixInv, Pass PROVE HotfixInv'
<1>1. TypeOK /\ HandlersCurrent /\ PassInv
    BY DEF HotfixInv, HandlersCurrent
<1>2. CASE HotfixAll
    <2> USE <1>2 DEF HotfixAll
    <2>1. TypeOK'
        BY <1>1 DEF TypeOK, Listed
    <2>2. \A o \in Live' : Current(o)'
        BY <1>1, HandlersAre DEF Live, Current, Resolve
    <2>3. Listed' = Listed /\ Visited' = {} /\ todo' = Listed /\ skipped' = {}
        BY <1>1 DEF Listed, Visited, PassInv
    <2>4. \A o, k : Right(o, k, Visited)' = {}
        BY <2>3 DEF Right, Latest
    <2>5. PassInv'
        BY <2>3, <2>4 DEF PassInv
    <2> QED BY <2>1, <2>2, <2>5, HandlersAreNext DEF HotfixInv
<1>3. ASSUME NEW m \in Modules, Visit(m) PROVE HotfixInv'
    <2>1. m \in Listed
        BY <1>1, <1>3 DEF Visit, PassInv
    <2>2. UNCHANGED <<disk, open, list, cls, running, edited, skipped>> /\ todo' \subseteq todo
        BY <1>3 DEF Visit
    <2>3. loaded' \in [Modules -> Seq(Fn) \cup {Nil}]
        BY <1>1, <1>3, UnloadedType, Requires DEF Visit
    <2>4. /\ own' \in [Objects -> [Methods -> Fn \cup {Nil}]]
          /\ bound' \in [Objects -> [Methods -> Fn \cup {Nil}] \cup {Nil}]
          /\ \A o \in Live' : Current(o)'
        BY <1>1, <1>3, <2>1, <2>2, Applies DEF Visit
    <2>5. TypeOK'
        BY <1>1, <2>2, <2>3, <2>4 DEF TypeOK
    <2>6. PassInv'
        BY <1>3, Turn
    <2> QED BY <2>4, <2>5, <2>6, HandlersAreNext DEF HotfixInv
<1>4. ASSUME NEW m \in Modules, VisitSkip(m) PROVE HotfixInv'
    <2> USE <1>4 DEF VisitSkip
    <2>1. TypeOK'
        BY <1>1 DEF TypeOK
    <2>2. \A o \in Live' : Current(o)'
        BY <1>1, HandlersAre DEF Live, Current, Resolve
    <2>3. Listed' = Listed /\ Visited' = Visited /\ Live' = Live
        BY <1>1 DEF Listed, Visited, PassInv, Live
    <2>4. \A o, k : Right(o, k, Visited)' = Right(o, k, Visited) /\ Resolve(o, k)' = Resolve(o, k)
        BY <2>3 DEF Right, Latest, Ver, Resolve
    <2>5. PassInv'
        BY <1>1, <2>3, <2>4 DEF PassInv
    <2> QED BY <2>1, <2>2, <2>5, HandlersAreNext DEF HotfixInv
<1>5. ASSUME NEW m \in Modules, VisitFails(m) PROVE HotfixInv'
    <2> USE <1>5 DEF VisitFails
    <2>1. loaded' \in [Modules -> Seq(Fn) \cup {Nil}]
        BY <1>1, UnloadedType
    <2>2. TypeOK'
        BY <1>1, <2>1 DEF TypeOK
    <2>3. \A o \in Live' : Current(o)'
        BY <1>1, HandlersAre DEF Live, Current, Resolve
    <2>4. PassInv'
        BY DEF PassInv
    <2> QED BY <2>2, <2>3, <2>4, HandlersAreNext DEF HotfixInv
<1>6. CASE HotfixDone
    <2> USE <1>6 DEF HotfixDone
    <2>1. TypeOK'
        BY <1>1 DEF TypeOK
    <2>2. \A o \in Live' : Current(o)'
        BY <1>1, HandlersAre DEF Live, Current, Resolve
    <2>3. PassInv'
        BY <1>1 DEF PassInv, Listed
    <2> QED BY <2>1, <2>2, <2>3, HandlersAreNext DEF HotfixInv
<1> QED BY <1>2, <1>3, <1>4, <1>5, <1>6 DEF Pass

-----------------------------------------------------------------------------
(* Theorems *)

\* The invariant holds at first.
LEMMA InvInit == Init => HotfixInv
<1> SUFFICES ASSUME Init PROVE HotfixInv
    OBVIOUS
<1> USE DEF Init
<1>1. \A m \in Modules : FirstClass(m) \in Seq(Fn)
    <2> SUFFICES ASSUME NEW m \in Modules PROVE FirstClass(m) \in Seq(Fn)
        OBVIOUS
    <2>1. Chain[m] \in Seq(Modules) /\ 1 \in 1..MaxVer
        BY HotfixAssumption
    <2>2. \A j \in 1..Len(Chain[m]) : <<Chain[m][j], 1>> \in Fn
        BY <2>1 DEF Fn
    <2>3. Len(Chain[m]) \in Nat
        BY <2>1
    <2> QED BY <2>2, <2>3 DEF FirstClass
<1>2. NoFns \in [Methods -> Fn \cup {Nil}]
    BY DEF NoFns
<1>3. 1 \in 1..MaxVer
    BY HotfixAssumption
<1>4. TypeOK
    BY <1>1, <1>2, <1>3 DEF TypeOK
<1>5. Live = {} /\ Listed = {}
    BY DEF Live, Listed
<1> QED BY <1>4, <1>5, HandlersAre DEF HotfixInv, PassInv

\* Every step keeps it.
LEMMA InvNext == HotfixInv /\ [Next]_vars => HotfixInv'
<1> SUFFICES ASSUME HotfixInv, [Next]_vars PROVE HotfixInv'
    OBVIOUS
<1>1. TypeOK
    BY DEF HotfixInv, HandlersCurrent
<1>2. CASE Start \/ Close
    <2>1. UNCHANGED <<disk, loaded, list, cls, own, bound, todo, running, edited, skipped>>
          /\ open' \in BOOLEAN
        BY <1>2 DEF Start, Close
    <2>2. TypeOK'
        BY <1>1, <2>1 DEF TypeOK
    <2> QED BY <2>1, <2>2, ObjectsStay
<1>3. CASE UNCHANGED vars
    <2>1. UNCHANGED <<disk, loaded, open, list, cls, own, bound, todo, running, edited, skipped>>
        BY <1>3 DEF vars
    <2>2. TypeOK'
        BY <1>1, <2>1 DEF TypeOK
    <2> QED BY <2>1, <2>2, ObjectsStay
<1> QED BY <1>2, <1>3, EditStep, OneStep, NewStep, CollectStep, PassStep DEF Next

\* For any classes, objects and versions, whatever is saved, loaded, hotfixed
\* or fails to load, an object with a register() has its current methods as
\* message handlers (Hotfix.lua 55-59, 85-89).
THEOREM NoStaleHandler == Spec => []HandlersCurrent
<1>1. Spec => []HotfixInv
    BY InvInit, InvNext, PTL DEF Spec
<1>2. HotfixInv => HandlersCurrent
    BY DEF HotfixInv
<1> QED BY <1>1, <1>2, PTL

\* When the loop over all modules ends, in any order and whatever was edited
\* meanwhile, a listed object answers a method of a file the loop came to
\* with the version that is loaded of it, or of another such file, or not at
\* all (Hotfix.lua 40-62).
THEOREM LoopLeavesLoaded == Spec => LoadedIsRun
<1> DEFINE ver == [m \in Modules |-> IF loaded[m] = Nil THEN 1 ELSE loaded[m][1][2]]
           P == HotfixDone =>
                    \A o \in Live, k \in Methods :
                        LET fns == Latest(o, k, Listed \ skipped, ver)
                        IN  fns # {} => Resolve(o, k) \in fns \cup {Nil}
<1>1. ASSUME HotfixInv PROVE P
    <2> SUFFICES ASSUME HotfixDone, NEW o \in Live, NEW k \in Methods,
                        Latest(o, k, Listed \ skipped, ver) # {}
                 PROVE  Resolve(o, k) \in Latest(o, k, Listed \ skipped, ver) \cup {Nil}
        OBVIOUS
    <2>1. Visited = Listed \ skipped /\ running
        BY DEF HotfixDone, Visited
    <2>2. Right(o, k, Visited) = Latest(o, k, Listed \ skipped, ver)
        BY <2>1 DEF Right, Ver
    <2> QED BY <1>1, <2>1, <2>2 DEF HotfixInv, PassInv
<1>2. Spec => []HotfixInv
    BY InvInit, InvNext, PTL DEF Spec
<1>3. HotfixInv => [P]_vars
    BY <1>1
<1>4. []HotfixInv => [][P]_vars
    BY <1>3, PTL
<1> QED BY <1>2, <1>4, PTL DEF LoadedIsRun

=============================================================================

--------------------------- MODULE HandleStorage ----------------------------
(***************************************************************************)
(* The handle table and the local names of a node (skynet_handle.c).       *)
(*                                                                         *)
(* Contexts live in an open table of slot_size cells; a handle is found in *)
(* cell handle mod slot_size.  The table doubles when it is full, and      *)
(* rehashes every context by ctx->handle.  Every operation runs under the  *)
(* read/write lock of module RwLock, so each is one action; two things     *)
(* happen outside it and are steps of their own: the creator stores the    *)
(* handle in ctx->handle only after skynet_handle_register has returned    *)
(* (skynet_context_new), and skynet_handle_retireall locks anew for every  *)
(* cell.                                                                   *)
(***************************************************************************)
EXTENDS Integers, Sequences, FiniteSets, FiniteSetsExt, SequencesExt

CONSTANTS
    Contexts,     \* context structures
    Launchers,    \* threads that create services
    Aborters,     \* threads that run skynet_handle_retireall
    Names,        \* local names, numbered in strcmp order
    HandleMask,   \* HANDLE_MASK, 2^24 - 1
    DefaultSize,  \* DEFAULT_SLOT_SIZE, 4
    MaxRegister,  \* bound: registrations in a behaviour
    NULL

\* the sizes the table can have
Sizes[k \in 0..HandleMask] == IF k = 0 THEN DefaultSize ELSE 2 * Sizes[k - 1]

\* DEFAULT_SLOT_SIZE doubled some times is HANDLE_MASK + 1
ASSUME HandleAssumption ==
    /\ NULL \notin Contexts
    /\ Names \subseteq Nat \ {0}
    /\ IsFiniteSet(Contexts)
    /\ Cardinality(Contexts) <= HandleMask
    /\ DefaultSize \in Nat \ {0}
    /\ HandleMask \in Nat \ {0}
    /\ MaxRegister \in Nat
    /\ \E k \in 0..HandleMask : HandleMask + 1 = Sizes[k]

VARIABLES
    slot_size, slot,   \* the table, cells 0 .. slot_size-1
    handle_index,      \* where the next probe starts
    handle,            \* ctx->handle, 0 until it is stored
    name,              \* the name array: records [name, handle]
    aborted,           \* an assertion of skynet_handle_register failed
    registered,        \* registrations so far
    making,            \* launcher: the context it registered, or NULL
    given,             \* launcher: the handle skynet_handle_register returned
    cell,              \* aborter: the cell i it looks at, -1 when not running
    doomed,            \* aborter: the handle it read and will retire, or 0
    removed,           \* aborter: n, handles retired in this pass
    before             \* aborter: handles in the table when the pass began

table == <<slot_size, slot, handle_index>>
launch == <<making, given>>
abort == <<cell, doomed, removed, before>>
vars == <<table, handle, name, aborted, registered, launch, abort>>

InTable == {slot[i] : i \in 0..(slot_size - 1)} \ {NULL}

\* the creator of c has not stored its handle yet
Pending(c) == \E l \in Launchers : making[l] = c

HandlesInTable == {handle[c] : c \in {d \in InTable : ~Pending(d)}}

\* skynet_handle_init
Init ==
    /\ slot_size = DefaultSize
    /\ slot = [i \in 0..(DefaultSize - 1) |-> NULL]
    /\ handle_index = 1
    /\ handle = [c \in Contexts |-> 0]
    /\ name = <<>>
    /\ aborted = FALSE
    /\ registered = 0
    /\ making = [l \in Launchers |-> NULL]
    /\ given = [l \in Launchers |-> 0]
    /\ cell = [a \in Aborters |-> -1]
    /\ doomed = [a \in Aborters |-> 0]
    /\ removed = [a \in Aborters |-> 0]
    /\ before = [a \in Aborters |-> {}]

-----------------------------------------------------------------------------
(* skynet_handle_register and the store that follows it *)

\* a handle and its wrap: the harbor bits are masked away
Masked(k) == k % (HandleMask + 1)

\* the probes that find an empty cell
FreeProbes(t, size) ==
    {i \in 0..(size - 1) : t[Masked(i + handle_index) % size] = NULL}

\* Faulty form: the mask of the doubled table is off by one, so that its
\* lowest bit is clear.
Clash_MaskOff ==
    \E i, j \in 0..(slot_size - 1) :
        i # j /\ (handle[slot[i]] % (2 * slot_size)) \div 2
                  = (handle[slot[j]] % (2 * slot_size)) \div 2

\* two contexts of a full table fall into one cell of the doubled one
Clash ==
    \E i, j \in 0..(slot_size - 1) :
        i # j /\ handle[slot[i]] % (2 * slot_size) = handle[slot[j]] % (2 * slot_size)

\* Faulty form: the doubled table is a copy, not a rehash.
Rehashed_Copy ==
    [k \in 0..(2 * slot_size - 1) |-> IF k < slot_size THEN slot[k] ELSE NULL]

\* the doubled table of a full one without clashes
Rehashed ==
    [k \in 0..(2 * slot_size - 1) |->
        LET at == {i \in 0..(slot_size - 1) : handle[slot[i]] % (2 * slot_size) = k}
        IN  IF at = {} THEN NULL ELSE slot[CHOOSE i \in at : TRUE]]

\* put c into the first empty cell of table t
Place(l, c, t, size) ==
    LET h == Masked(Min(FreeProbes(t, size)) + handle_index)
    IN  /\ slot' = [t EXCEPT ![h % size] = c]
        /\ slot_size' = size
        /\ handle_index' = h + 1
        /\ making' = [making EXCEPT ![l] = c]
        /\ given' = [given EXCEPT ![l] = h]
        /\ aborted' = aborted

\* ctx->handle = 0; skynet_handle_register(ctx)
Register(l, c) ==
    /\ ~aborted
    /\ registered < MaxRegister
    /\ making[l] = NULL
    /\ c \notin InTable /\ ~Pending(c)
    /\ registered' = registered + 1
    /\ handle' = [handle EXCEPT ![c] = 0]
    /\ \/ /\ FreeProbes(slot, slot_size) # {}
          /\ Place(l, c, slot, slot_size)
       \/ /\ FreeProbes(slot, slot_size) = {}
          /\ ~Clash /\ 2 * slot_size - 1 <= HandleMask
          /\ Place(l, c, Rehashed, 2 * slot_size)
       \/ /\ FreeProbes(slot, slot_size) = {}
          /\ Clash \/ 2 * slot_size - 1 > HandleMask
          /\ aborted' = TRUE
          /\ UNCHANGED <<table, launch>>
    /\ UNCHANGED <<name, abort>>

\* ctx->handle = the value returned
Store(l) ==
    /\ ~aborted
    /\ making[l] # NULL
    /\ handle' = [handle EXCEPT ![making[l]] = given[l]]
    /\ making' = [making EXCEPT ![l] = NULL]
    /\ given' = [given EXCEPT ![l] = 0]
    /\ UNCHANGED <<table, name, aborted, registered, abort>>

-----------------------------------------------------------------------------
(* skynet_handle_retire, skynet_handle_grab *)

\* the context a lookup of h finds (skynet_handle_grab, skynet_handle_retire)
Lookup(h) ==
    LET c == slot[h % slot_size] IN IF c # NULL /\ handle[c] = h THEN c ELSE NULL

\* Faulty form: only the first name of the handle is removed.
NamesWithout_One(h) ==
    LET at == {i \in 1..Len(name) : name[i].handle = h}
    IN  IF at = {} THEN name ELSE RemoveAt(name, Min(at))

\* the names that are left when h is retired
NamesWithout(h) ==
    LET kept[i \in 0..Len(name)] ==
            IF i = 0 THEN <<>>
            ELSE IF name[i].handle = h THEN kept[i - 1] ELSE Append(kept[i - 1], name[i])
    IN  kept[Len(name)]

RetireEffect(h) ==
    IF Lookup(h) # NULL
    THEN /\ slot' = [slot EXCEPT ![h % slot_size] = NULL]
         /\ name' = NamesWithout(h)
    ELSE UNCHANGED <<slot, name>>

\* skynet_handle_retire(h), of any handle ever handed out
Retire(h) ==
    /\ ~aborted
    /\ RetireEffect(h)
    /\ UNCHANGED <<slot_size, handle_index, handle, aborted, registered, launch, abort>>

-----------------------------------------------------------------------------
(* skynet_handle_retireall: passes over the table until one retires nothing *)

RetireAll(a) ==
    /\ ~aborted
    /\ cell[a] = -1
    /\ cell' = [cell EXCEPT ![a] = 0]
    /\ removed' = [removed EXCEPT ![a] = 0]
    /\ before' = [before EXCEPT ![a] = HandlesInTable]
    /\ UNCHANGED <<table, handle, name, aborted, registered, launch, doomed>>

\* the handle in the cell, 0 if it is empty
Seen(a) == IF slot[cell[a]] = NULL THEN 0 ELSE handle[slot[cell[a]]]

\* read a cell under the read lock: a handle to retire
Read(a) ==
    /\ ~aborted
    /\ cell[a] \in 0..(slot_size - 1)
    /\ doomed[a] = 0
    /\ Seen(a) # 0
    /\ doomed' = [doomed EXCEPT ![a] = Seen(a)]
    /\ UNCHANGED <<table, handle, name, aborted, registered, launch, cell, removed, before>>

\* read a cell: empty, or its handle is still 0
Skip(a) ==
    /\ ~aborted
    /\ cell[a] \in 0..(slot_size - 1)
    /\ doomed[a] = 0
    /\ Seen(a) = 0
    /\ cell' = [cell EXCEPT ![a] = cell[a] + 1]
    /\ UNCHANGED <<table, handle, name, aborted, registered, launch, doomed, removed, before>>

\* retire the handle that was read, if it is still there
RetireRead(a) ==
    /\ ~aborted
    /\ doomed[a] # 0
    /\ RetireEffect(doomed[a])
    /\ removed' = [removed EXCEPT ![a] = IF Lookup(doomed[a]) # NULL THEN @ + 1 ELSE @]
    /\ doomed' = [doomed EXCEPT ![a] = 0]
    /\ cell' = [cell EXCEPT ![a] = cell[a] + 1]
    /\ UNCHANGED <<slot_size, handle_index, handle, aborted, registered, launch, before>>

\* Faulty form: a pass ends at the size the table once had.
EndPass_OldSize(a) ==
    /\ ~aborted
    /\ cell[a] >= DefaultSize
    /\ doomed[a] = 0
    /\ cell' = [cell EXCEPT ![a] = IF removed[a] = 0 THEN -1 ELSE 0]
    /\ removed' = [removed EXCEPT ![a] = 0]
    /\ before' = [before EXCEPT ![a] =
                     IF removed[a] = 0 THEN {} ELSE HandlesInTable]
    /\ UNCHANGED <<table, handle, name, aborted, registered, launch, doomed>>

\* the end of a pass: another one if this one retired something
EndPass(a) ==
    /\ ~aborted
    /\ cell[a] >= slot_size
    /\ doomed[a] = 0
    /\ cell' = [cell EXCEPT ![a] = IF removed[a] = 0 THEN -1 ELSE 0]
    /\ removed' = [removed EXCEPT ![a] = 0]
    /\ before' = [before EXCEPT ![a] =
                     IF removed[a] = 0 THEN {} ELSE HandlesInTable]
    /\ UNCHANGED <<table, handle, name, aborted, registered, launch, doomed>>

-----------------------------------------------------------------------------
(* Local names: a sorted array searched by bisection *)

\* one turn of the bisection of skynet_handle_findname and _insert_name
Bisect(r, n) ==
    LET mid == (r.begin + r.end) \div 2
        found == name[mid + 1].name
    IN  IF r.hit \/ r.begin > r.end THEN r
        ELSE IF found = n THEN [begin |-> mid, end |-> r.end, hit |-> TRUE]
        ELSE IF found < n THEN [begin |-> mid + 1, end |-> r.end, hit |-> FALSE]
        ELSE [begin |-> r.begin, end |-> mid - 1, hit |-> FALSE]

\* the index of n in the array, or where to insert it
Search(n) ==
    LET turn[k \in 0..Len(name)] ==
            IF k = 0 THEN [begin |-> 0, end |-> Len(name) - 1, hit |-> FALSE]
            ELSE Bisect(turn[k - 1], n)
    IN  turn[Len(name)]

\* skynet_handle_findname
FindName(n) == LET f == Search(n) IN IF f.hit THEN name[f.begin + 1].handle ELSE 0

\* skynet_handle_namehandle: a name that is taken stays as it is
NameHandle(h, n) ==
    LET f == Search(n)
    IN  /\ ~aborted
        /\ ~f.hit
        /\ name' = InsertAt(name, f.begin + 1, [name |-> n, handle |-> h])
        /\ UNCHANGED <<table, handle, aborted, registered, launch, abort>>

-----------------------------------------------------------------------------

\* the handles a thread may know: those stored in a context
KnownHandles == {handle[c] : c \in Contexts} \ {0}

Next ==
    \/ \E l \in Launchers : Store(l) \/ \E c \in Contexts : Register(l, c)
    \/ \E a \in Aborters : RetireAll(a) \/ Read(a) \/ Skip(a) \/ RetireRead(a) \/ EndPass(a)
    \/ \E h \in KnownHandles : Retire(h) \/ \E n \in Names : NameHandle(h, n)

Spec == Init /\ [][Next]_vars

-----------------------------------------------------------------------------
(* Properties *)

\* Type invariant of the table and its users.
TypeOK ==
    /\ slot_size \in Nat \ {0}
    /\ slot \in [0..(slot_size - 1) -> Contexts \cup {NULL}]
    /\ handle_index \in 1..(HandleMask + 1)
    /\ handle \in [Contexts -> 0..HandleMask]
    /\ name \in Seq([name : Names, handle : 0..HandleMask])
    /\ aborted \in BOOLEAN
    /\ registered \in 0..MaxRegister
    /\ making \in [Launchers -> Contexts \cup {NULL}]
    /\ given \in [Launchers -> 0..HandleMask]
    /\ cell \in [Aborters -> Nat \cup {-1}]
    /\ doomed \in [Aborters -> 0..HandleMask]
    /\ removed \in [Aborters -> Nat]
    /\ before \in [Aborters -> SUBSET (0..HandleMask)]

\* A service is found under its own handle for as long as it is in the table,
\* through growths of the table, retirements and reuse of cells; so no two
\* services share a handle.
Reachable == \A c \in InTable : Pending(c) \/ Lookup(handle[c]) = c

\* The bisection finds exactly the names that are in the array, although
\* names come in any order and retired services take theirs away.
NamesFound ==
    \A n \in Names :
        FindName(n) = IF \E i \in 1..Len(name) : name[i].name = n
                      THEN (CHOOSE e \in ToSet(name) : e.name = n).handle
                      ELSE 0

\* Every lookup, by handle or by name, finds what is there.
LookupsRight == TypeOK /\ Reachable /\ NamesFound

\* A service leaves the table only when it is retired, never in a doubling,
\* and takes with it every name that resolves to it.
LeavesWhole ==
    [][\A c \in InTable \ InTable' :
          /\ slot_size' = slot_size
          /\ \A e \in ToSet(name') : e.handle # handle[c]]_vars

\* When skynet_handle_retireall returns, every service that was in the table
\* when its last pass began is gone, whatever was registered, retired or
\* rehashed while the pass was under way.
RetireAllComplete ==
    [][\A a \in Aborters :
          cell[a] # -1 /\ cell'[a] = -1 => before[a] \cap HandlesInTable' = {}]_vars

\* No assertion of skynet_handle_register fails: assert(new_slot[hash] == NULL).
NoClash == ~aborted

=============================================================================
